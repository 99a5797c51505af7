CONSTANTS
    Levels = {6}
    MaxCards = 6
    MaxTrick = 3
    Ids <- ManyIds
    Face <- MCFace
    PlayerCount = 4
    PlayersPerTeam = 2
SPECIFICATION MCSpec
CHECK_DEADLOCK FALSE
INVARIANTS
    TakenIsAReading
    NoReadingMissed
    TrickClimbs
    LadderConsistent
    WinnerAttacks
    MatchWonAtLevelA
PROPERTIES
    LadderMoves
