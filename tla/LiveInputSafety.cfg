SPECIFICATION Spec
CONSTANTS
  Msgs = {m1, m2}
  None = None
  MaxTurns = 2
  MaxJobs = 0
  Overlaps = FALSE
  Lingers = FALSE
  HardStops = FALSE
  SavesFail = FALSE
SYMMETRY MessageSymmetry
INVARIANTS TypeOK OnePlace NothingDropped BackIsBack
PROPERTIES OldestFirst RunOnce
CHECK_DEADLOCK FALSE
