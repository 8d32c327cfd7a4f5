CONSTANTS
  t1 = t1
  t2 = t2
  Txns = {t1, t2}
  Names = {a, b}
  Values = {x, y}
  Strategies = {eq, uq}
  Unique = {uq}
  AutoIndexed = {eq}
  NameIndex = name
  MaxDocs = 3
  None = None
  NoTxn = NoTxn
  Usages <- AloneOrTogether
SPECIFICATION Spec
CHECK_DEADLOCK FALSE
SYMMETRY Interchangeable
INVARIANT TypeOK
INVARIANT IndexExact
INVARIANT UniqueHeld
INVARIANT Whole
PROPERTY SpecKept
PROPERTY Refines
