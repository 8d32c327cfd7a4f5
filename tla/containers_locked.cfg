CONSTANTS
  Threads = {t1, t2}
  Files = {f, g}
  Aliases = {a}
  NoThread = NoThread
  MaxId = 2
  MaxHandles = 2
  Reopens = {TRUE}
  Assured = {TRUE}
  RemoveNames = FALSE
SPECIFICATION FairSpec
CHECK_DEADLOCK FALSE
PROPERTY CallsReturn
