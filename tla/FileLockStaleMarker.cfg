SPECIFICATION Spec
CONSTANTS
  p1 = p1
  p2 = p2
  p3 = p3
  p4 = p4
  host = host
  container = container
  Procs = {p1, p2, p3, p4}
  Place <- OnePlace
  Fair = FALSE
  SameClock = TRUE
  MaxRounds = 1
  Overstays = FALSE
  BreakersCrash = TRUE
SYMMETRY AllSymmetry
PROPERTY FreshLockKept
CHECK_DEADLOCK FALSE
