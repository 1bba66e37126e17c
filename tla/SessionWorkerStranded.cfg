SPECIFICATION Spec
CONSTANTS
  Prompts = {p1, p2}
  NeedWindow = {}
  Notes = {}
  None = None
  MaxStops = 0
  May = {}
INVARIANT NotStranded
CHECK_DEADLOCK FALSE
