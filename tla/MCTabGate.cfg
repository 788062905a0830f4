CONSTANTS
  a = a
  b = b
  Tabs = {a, b}
  MaxJobs = 3
  Typed = {1}
  Elsewhere = {11, 12, 13, 14}
  MergeAttempts = 3
  Scenarios <- MCScenarios
  NoText = NoText
SPECIFICATION TabGateSpec
INVARIANTS TypedSomewhere SomeCallMoves
PROPERTIES GuardedNeverReverts
CHECK_DEADLOCK FALSE
