CONSTANTS
  t1 = t1  t2 = t2  t3 = t3  p1 = p1  p2 = p2
  Name = {a, b}
  Txn = {t1, t2}
  NoTxn = NoTxn
  Proc = {p1}
  ProcOf <- OneProc
  MaxId = 2
  NoId = 0
  NoName = NoName
  UserChildren = FALSE
  RetryAfterFailure = TRUE
SPECIFICATION Spec
CHECK_DEADLOCK FALSE
INVARIANT StoredResolve
SYMMETRY Names
