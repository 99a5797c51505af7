CONSTANTS
    Client = {c1, c2}
    Nickname = {ann, ben}
    MaxUsers = 2
    MaxId = 10003
    MaxTokens = 2
    MaxSession = 3
    MaxBindings = 2
    MaxQueued = 1
    Registered = {10001, 10009}
    Speaker = {u1, u2}
    VoiceRoom = {v1, v2}
    Address = {a1, a2}
    MaxIdle = 3
    PruneEvery = 1
    Socket = {s1, s2, s3}
    Caller = {p1, p2}
    VoiceHall = {h1, h2}
SYMMETRY Symmetric
SPECIFICATION MCSpec
CHECK_DEADLOCK FALSE
INVARIANTS
    UsersDistinct
    PromisesKept
    LogInIsReached
    VoiceRoomsAgree
    SilentUsersGo
    ListedPeersLive
