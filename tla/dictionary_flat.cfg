CONSTANTS
  t1 = t1  t2 = t2  t3 = t3  p1 = p1  p2 = p2
  Name = {a, b}
  Txn = {t1, t2}
  NoTxn = NoTxn
  Proc = {p1, p2}
  ProcOf <- TwoProcs
  MaxId = 2
  NoId = 0
  NoName = NoName
  UserChildren = FALSE
  RetryAfterFailure = FALSE
SPECIFICATION Spec
CHECK_DEADLOCK FALSE
INVARIANT TypeOK
INVARIANT StringCacheCommitted
INVARIANT StoredResolve
PROPERTY ImplementsService
