CONSTANTS
    NumLabels = 2
    Request = {r1, r2}
    Admin = {a1}
    Priority = {1, 2}
    AccountIdOf <- OwnIds
    InitListed = {1}
    Cooldown = 1
    TokenTTL = 1
    Margin = 0
    Rotating = TRUE
    MayLoseReply = TRUE
    MaxTime = 1
    MaxSerial = 4
    MaxCommands = 2
SYMMETRY RequestSymmetry
SPECIFICATION Spec
INVARIANTS
    TypeOK
    DefaultNamesAccount
    GrantNotLost
    FailoverLeavesLimitedAccount
PROPERTIES
    MarkHitsSender
    RequestsKeepCommands
