CONSTANTS
  Txns = {t1, t2}
  Types = {string, double}
  NoTxn = NoTxn
  MaxHandles = 4
  Usages <- AloneOrShared
  Orderly <- Alone
SPECIFICATION Spec
CHECK_DEADLOCK FALSE
SYMMETRY Interchangeable
INVARIANT TypeOK
INVARIANT NotifySingle
INVARIANT NoStaleHandle
INVARIANT NoFreedUse
