CONSTANTS
  Id <- Names
  Boards <- TwoBoards
  Block = {"breakdown", "timeline"}
  CopyKey = {"summary", "source_files"}
  Compressed = "source_files"
  NoEvent = NoEvent
  NoId = NoId
  NoKey = NoKey
  MaxCommands = 4
SPECIFICATION Spec
CHECK_DEADLOCK FALSE
INVARIANTS
  TypeOK
  PanelOfEvent
PROPERTIES
  DetailSettles
