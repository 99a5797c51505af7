CONSTANTS
    Room = {r1, r2}
    Worker = {w1, w2}
    Poster = {p1, p2}
    NoRoom = NoRoom
    MaxPosts = 3
    MaxSent = 4
SPECIFICATION MCSpec
INVARIANTS
    TypeOK
    OneDrainer
    ShutdownDrains
    SentInOrder
PROPERTIES
    ImplementsSerial
    PostedTasksRun
    SentIsWritten
