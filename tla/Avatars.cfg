CONSTANTS
    Client = {c1}
    Nickname = {ann, ben}
    MaxUsers = 2
    MaxId = 10003
    MaxTokens = 2
SPECIFICATION AccountsSpec
INVARIANTS
    AvatarsAreOwn
