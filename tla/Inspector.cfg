CONSTANTS
  s1 = s1
  s2 = s2
  Session = {s1, s2}
  Query = {"", "q"}
  Words = {"", "w"}
  NoSession = NoSession
  NoEvent = NoEvent
  Nothing = Nothing
  PresetId = {"p1", "p2"}
  Files <- OnePreset
  NoPreset = NoPreset
  Listing <- TwoPages
  MaxCommands = 3
SPECIFICATION Spec
CHECK_DEADLOCK FALSE
INVARIANTS
  PresetsTypeOK
  ShownIsChosen
  SelectionShown
  PresetsSettled
PROPERTIES
  PanesLatest
  Settles
