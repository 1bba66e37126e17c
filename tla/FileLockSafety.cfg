SPECIFICATION Spec
CONSTANTS
  p1 = p1
  p2 = p2
  p3 = p3
  p4 = p4
  host = host
  container = container
  Procs = {p1, p2, p3, p4}
  Place <- TwoPlaces
  Fair = FALSE
  SameClock = TRUE
  MaxRounds = 2
  Overstays = FALSE
  BreakersCrash = FALSE
SYMMETRY PlaceSymmetry
INVARIANT TypeOK
INVARIANT MutualExclusion
INVARIANT OneBreaker
INVARIANT LockInv
PROPERTY ImplementsMutex
PROPERTY FreshLockKept
PROPERTY OwnLockRemoved
CHECK_DEADLOCK FALSE
