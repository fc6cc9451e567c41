CONSTANTS
  w1 = w1
  w2 = w2
  d1 = d1
  d2 = d2
  n1 = n1
  n2 = n2
  e1 = e1
  i1 = i1
  i2 = i2
  s1 = s1
  s2 = s2
  orig = orig
  nil = nil
  Writers = {w1, w2}
  Documents = {d1, d2}
  Original = orig
  Nothing = nil
  Notes = {n1, n2}
  Editors = {e1}
  Importers = {i1, i2}
  MaxRevision = 2
  Roles = {"implementer"}
  MaxGenerations = 3
  MaxViewEdits = 2
  Versions = {"v1", "v2"}
  Installers = {"i1", "i2"}
  MaxInstalls = 3
  AppHosts = {"claude", "pi"}
  Places = {"a"}
  Ships <- MCShips
  SkillsOnDemand = {"grill"}
  UserNames = {"guide"}
  MaxCommands = 2
  MaxHands = 2
  MaxUserEdits = 2
  MaxPieces = 6
  SessionWriters = {s1, s2}
  MaxMoment = 3
SPECIFICATION UnionSpec
SYMMETRY Sym
INVARIANTS SettingsAreStrict UpdatesAreProven
PROPERTIES NoUpdateIsLost  PlansArePublishedWhole 
CHECK_DEADLOCK FALSE
