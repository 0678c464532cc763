CONSTANTS
  File = {"a", "b", "text"}
  Json <- Files
  NoFile = NoFile
  MaxCommands = 7
SPECIFICATION Spec
CHECK_DEADLOCK FALSE
INVARIANTS
  PathMatchesContent
  ViewersShowContent
  CopyFaithful
