CONSTANTS
    NumLabels = 2
    Request = {r1, r2}
    Admin = {}
    Priority = {1}
    AccountIdOf <- OwnIds
    InitListed = {1, 2}
    Cooldown = 1
    TokenTTL = 2
    Margin = 0
    Rotating = TRUE
    MayLoseReply = FALSE
    MaxTime = 1
    MaxSerial = 4
    MaxCommands = 0
SPECIFICATION Spec
PROPERTY AuthRejectionNeverCools
