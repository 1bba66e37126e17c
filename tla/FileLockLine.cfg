SPECIFICATION FairSpec
CONSTANTS
  p1 = p1
  p2 = p2
  p3 = p3
  p4 = p4
  host = host
  container = container
  Procs = {p1, p2, p3}
  Place <- TwoPlaces
  Fair = TRUE
  SameClock = FALSE
  MaxRounds = 1
  Overstays = TRUE
  BreakersCrash = TRUE
 
PROPERTY WaiterServed
CHECK_DEADLOCK FALSE
