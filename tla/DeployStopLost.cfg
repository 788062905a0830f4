CONSTANTS
  p1 = p1
  p2 = p2
  p3 = p3
  a = a
  b = b
  n1 = n1
  n2 = n2
  Presses = {p1, p2, p3}
  Callers = {"stage", "typed"}
  Projects = {a}
  Networks = {n1}
  Chunks = {1, 2}
  Payers = {"pg"}
  Grows = FALSE
  Short = FALSE
  Preflight = TRUE
  MaxRetries = 2
  Deployed <- MCDeployed
  Nowhere = Nowhere
SPECIFICATION DeploySpec
PROPERTIES StopCloses
CHECK_DEADLOCK FALSE
