CONSTANTS
  Paths = {p, q}
  Generated = {}
  Regions = {r1}
  Vals = {0, 1}
  Absent = Absent
  ProgramInfo = none
  Key = r1
  Blank = 0
  Names <- MCNames
  IdName = id
  Taken = {}
  Kind = "tutorial"
  Tokens = {1, 2, 3, 4, 5, 6}
  NoToken = NoToken
  Devices = {a, b}
  NoName = NoName
  Imported <- MCImported
  Starts = {"synced"}
  Elsewhere <- NoneElsewhere
  DuringRewrite = {}
  StoreFails = TRUE
  MaxEdits = 1
  MaxChanges = 2
  MaxFaults = 0
  MaxCrashes = 0
  MergeAttempts = 3
  n1 = n1
  n2 = n2
  n3 = n3
  i1 = i1
  i2 = i2
SYMMETRY DeviceSymmetry
SPECIFICATION Spec
INVARIANTS Honest
PROPERTIES UploadIsWhole
