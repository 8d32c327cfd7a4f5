CONSTANTS
  Threads = {t1, t2}
  Files = {f, g}
  Aliases = {a}
  NoThread = NoThread
  MaxId = 3
  MaxHandles = 2
  Reopens = {TRUE, FALSE}
  Assured = {FALSE}
  RemoveNames = FALSE
SPECIFICATION FairSpec
CHECK_DEADLOCK FALSE
INVARIANT TypeOK
INVARIANT CountExact
INVARIANT HandlesLive
INVARIANT NamesLive
INVARIANT OneContainer
INVARIANT SafeToDelete
PROPERTY CallsReturn
PROPERTY EventuallyDeleted
