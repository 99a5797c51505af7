CONSTANTS
    Player = {p1, p2, p3}
    Session = {p1, p2, p3}
    PlayerOf <- OneEach
    Room = {r1, r2}
    Capacity = 2
    MaxWaiting = 2
    Keeper = p3
    Casts <- Moves
    NoPlayer = NoPlayer
    NoTask = NoTask
    NoRoom = NoRoom
SPECIFICATION MCSpec
CHECK_DEADLOCK FALSE
INVARIANTS
    OneThreadPerRoom
