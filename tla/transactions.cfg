CONSTANTS
  Obj = {o1, o2, o3}
  Db = {d1, d2, d3}
  NoObj = NoObj
  NoDb = NoDb
  MaxHandles = 2
  DbErrors = TRUE
  OrphanChildren = FALSE
SPECIFICATION Spec
CHECK_DEADLOCK FALSE
SYMMETRY Addresses
INVARIANT TypeOK
INVARIANT CountsExact
INVARIANT NoMisuse
INVARIANT NoDangling
INVARIANT NothingLeft
INVARIANT AbortsHeard
PROPERTY OperationLeavesTransaction
