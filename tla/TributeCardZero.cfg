CONSTANTS
    PlayerCount = 4
    PlayersPerTeam = 2
    MaxCopies = 1
    MaxRounds = 2
    OwnCard <- ZeroOwn
    OtherCards <- Others
    Face <- MCFace
    Deals <- MCDeals
SPECIFICATION EngineSpec
INVARIANTS
    ReturnPossible
