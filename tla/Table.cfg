CONSTANTS
    PlayerCount = 4
    PlayersPerTeam = 2
    MaxCopies = 1
    MaxRounds = 2
    MaxStarts = 2
    Bots = {1, 2, 3}
    Owner = 0
    OwnCard <- SoloOwn
    OtherCards <- SoloOthers
    Face <- MCFace
    Deals <- MCDeals
SPECIFICATION TableSpec
CHECK_DEADLOCK FALSE
INVARIANTS
    TableTypeOK
    RoomFollowsEngine
    GameIsAttended
PROPERTIES
    ImplementsMatch
    BotsKeepPlaying
