CONSTANTS
  p1 = p1
  p2 = p2
  p3 = p3
  a = a
  b = b
  n1 = n1
  n2 = n2
  Presses = {p1, p2, p3}
  Callers = {"stage", "typed"}
  Projects = {a, b}
  Networks = {n1, n2}
  Chunks = {1}
  Payers = {"pg", "standard"}
  Grows = TRUE
  Short = TRUE
  Preflight = FALSE
  MaxRetries = 2
  Deployed <- MCDeployed
  Nowhere = Nowhere
SPECIFICATION DeploySpec
INVARIANTS OneRun StopHolds StoppedLine DeployedIsThere
PROPERTIES WholeBuffer StopSettles
CHECK_DEADLOCK FALSE
