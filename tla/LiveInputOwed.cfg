SPECIFICATION Spec
CONSTANTS
  Msgs = {m1, m2}
  None = None
  MaxTurns = 2
  MaxJobs = 1
  Lingers = FALSE
  Overlaps = FALSE
  HardStops = FALSE
  SavesFail = FALSE
SYMMETRY MessageSymmetry
PROPERTY MarkedNotRunAlone
CHECK_DEADLOCK FALSE
