CONSTANTS
  t1 = t1  t2 = t2  t3 = t3  p1 = p1  p2 = p2
  Name = {a, b}
  Txn = {t1, t2, t3}
  NoTxn = NoTxn
  Proc = {p1}
  ProcOf <- OneProcThree
  MaxId = 2
  NoId = 0
  NoName = NoName
  UserChildren = TRUE
  RetryAfterFailure = TRUE
SPECIFICATION Spec
CHECK_DEADLOCK FALSE
VIEW WithoutDocuments
INVARIANT NamesUnique
INVARIANT Mirror
INVARIANT UncommittedLast
INVARIANT IdCacheAgrees
SYMMETRY Transactions
