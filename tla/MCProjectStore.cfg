CONSTANTS
  p = p
  q = q
  v = v
  w = w
  n = n
  taken = taken
  Paths = {p, q}
  Generated = {}
  Regions = {r1}
  Vals = {v, w}
  Absent = Absent
  Names = {n, taken}
  IdName = id
  Taken = {taken}
  Kind = "project"
  Tokens = {1, 2, 3, 4}
  NoToken = NoToken
  Txs = {t1, t2, t3, t4}
  Bodies0 <- MCBodies
  NoTx = NoTx
SYMMETRY TxSymmetry
SPECIFICATION Spec
INVARIANTS AcceptedExactly
PROPERTIES RowSpec
CHECK_DEADLOCK FALSE
