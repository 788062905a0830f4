CONSTANTS
  a = a
  b = b
  Tabs = {a, b}
  MaxJobs = 3
  Typed = {1}
  Elsewhere = {11, 12, 13, 14}
  MergeAttempts = 3
  Scenarios <- MCScenarios
  NoText = NoText
SPECIFICATION TabGateSpec
PROPERTIES NeverReverts
CHECK_DEADLOCK FALSE
