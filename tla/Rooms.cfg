CONSTANTS
    Player = {p1, p2, p3, p4}
    Session = {p1, p2, p3, p4}
    PlayerOf <- OneEach
    Room = {r1, r2}
    Capacity = 2
    MaxWaiting = 2
    Keeper = p4
    Casts <- AllCasts
    NoPlayer = NoPlayer
    NoTask = NoTask
    NoRoom = NoRoom
SYMMETRY Symmetric
SPECIFICATION MCSpec
CHECK_DEADLOCK FALSE
INVARIANTS
    MappedAreThere
    SeatsDistinct
    SettlementWaits
PROPERTIES
    DissolvedByConsent
