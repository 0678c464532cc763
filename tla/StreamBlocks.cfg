CONSTANTS
    Tool = {tool1, tool2}
    NoTool = NoTool
    MaxChunks = 3
SYMMETRY ToolSymmetry
SPECIFICATION Spec
INVARIANTS
    StreamWellFormed
    BlocksNumbered
    LoggedIsSent
CHECK_DEADLOCK FALSE
