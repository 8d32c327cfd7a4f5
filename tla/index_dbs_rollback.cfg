CONSTANTS
  Txns = {t1, t2}
  Types = {string, double}
  NoTxn = NoTxn
  MaxHandles = 3
  Usages <- AloneFailing
  Orderly <- AloneFailing
SPECIFICATION Spec
CHECK_DEADLOCK FALSE
SYMMETRY Interchangeable
INVARIANT NoStaleHandle
