CONSTANTS
  main = main
  other = other
  a = a
  b = b
  c = c
  Read = Read
  Bash = Bash
  Requests <- MCRequests
  Fallback = {other}
  Calls <- MCCalls
  Filters <- MCFilters
  AnyLane = AnyLane
  AnyTool = AnyTool
  NoStatic = NoStatic
  NoWord = NoWord
  NoTool = NoTool
  NoBundle = NoBundle
  NoTimeline = NoTimeline
  NoFilters = NoFilters
  NoLane = NoLane
  Writes <- MCWrites
  MaxRemoved = 1
  MaxAnswers = 2
  MaxClicks = 2
SPECIFICATION DialogSpec
INVARIANTS
  StatsShown
  LanesAreChains
PROPERTIES
  TimelineWhole
CHECK_DEADLOCK FALSE
