CONSTANTS
  Paths = {p}
  Generated = {}
  Regions = {r1, r2}
  Vals = {0, 1, 2, 3}
  Absent = Absent
  ProgramInfo = none
  Key = r1
  Blank = 0
  Names <- MCNames
  IdName = id
  Taken = {}
  Kind = "project"
  Tokens = {1, 2, 3, 4, 5, 6}
  NoToken = NoToken
  Devices = {a, b}
  NoName = NoName
  Imported <- MCImported
  Starts = {"synced"}
  Elsewhere <- NoneElsewhere
  DuringRewrite = {"type"}
  StoreFails = FALSE
  MaxEdits = 3
  MaxChanges = 0
  MaxFaults = 1
  MaxCrashes = 1
  MergeAttempts = 3
  n1 = n1
  n2 = n2
  n3 = n3
  i1 = i1
  i2 = i2
SYMMETRY FaultsSymmetry
SPECIFICATION FaultsSpec
INVARIANTS NoLostEdit
PROPERTIES AccountKeepsEdits AsksOnlyAboutOverlap
