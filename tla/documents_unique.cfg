CONSTANTS
  t1 = t1
  t2 = t2
  Txns = {t1, t2}
  Names = {a, b}
  Values = {x, y}
  Strategies = {eq, uq}
  Unique = {uq}
  AutoIndexed = {eq}
  NameIndex = name
  MaxDocs = 2
  None = None
  NoTxn = NoTxn
  Usages <- BothPut
SPECIFICATION Spec
CHECK_DEADLOCK FALSE
SYMMETRY Interchangeable
INVARIANT UniqueHeld
