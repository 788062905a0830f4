CONSTANTS
  Pushes = {p1, p2}
  Deletes = {d1, d2}
  Conversations = {c1}
  MessageIds = {m}
  MaxVersion = 2
  ProjectKind = "tutorial"
  NoMessage = NoMessage
  NoReq = NoReq
  Workspaces = {A, B1}
  MaxThreads = 5
  Messages = {m1, m2}
  Theirs = {r}
  Shared = A
  TaskIds = {1, 2, 3}
  Budgets <- MCBudgets
  NoThread = NoThread
SPECIFICATION ChatHalvesSpec
INVARIANTS LockedStaysErased AckedKept
INVARIANTS QueueKeeps FollowsSwitch FiledWhereTyped ShownOnce ScreenStored
SYMMETRY MessageSymmetry
CHECK_DEADLOCK FALSE
