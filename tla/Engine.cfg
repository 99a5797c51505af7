CONSTANTS
    PlayerCount = 4
    PlayersPerTeam = 2
    MaxCopies = 1
    MaxRounds = 2
    OwnCard <- Own
    OtherCards <- Others
    Face <- MCFace
    Deals <- MCDeals
SPECIFICATION EngineSpec
INVARIANTS
    RoundInOrder
    TrickInOrder
    CardsInOnePlace
    TradeInOrder
PROPERTIES
    LeadStaysInTeam
    ImplementsMatch
    RoundsEnd
    HandsEvenWhenPlayStarts
    TradeEnds
