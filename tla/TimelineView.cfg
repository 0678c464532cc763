CONSTANTS
  Logs <- AllLogs
  OtherLogs <- LaterLogs
  MaxEvents = 4
  LongLog = 9
  RowHeight = 2
  Overscan = 2
  Above = {1, 5}
  Heights = {2, 3}
  Tops = {0, 2, 3, 5, 16}
  MaxCommands = 2
SPECIFICATION Spec
INVARIANTS
  RowsOfTimeline
  CardsFresh
  WindowCovers
CHECK_DEADLOCK FALSE
