CONSTANTS
    NumLabels = 2
    Request = {r1, r2}
    Admin = {}
    Priority = {1}
    AccountIdOf <- OwnIds
    InitListed = {1, 2}
    Cooldown = 1
    TokenTTL = 1
    Margin = 0
    Rotating = TRUE
    MayLoseReply = FALSE
    MaxTime = 0
    MaxSerial = 4
    MaxCommands = 1
    MaxRetries = 2
    MaxFailovers = 1
    Exhausted = {2}
    MayReject = TRUE
SPECIFICATION FFairSpec
INVARIANTS
    CallsBounded
PROPERTIES
    LimitNotPassedOn
    CallEnds
