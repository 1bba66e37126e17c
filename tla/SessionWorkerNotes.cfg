SPECIFICATION Spec
CONSTANTS
  Prompts = {p1, p2}
  NeedWindow = {}
  Notes = {n1}
  None = None
  MaxStops = 0
  May = {}
PROPERTY NotesKept
CHECK_DEADLOCK FALSE
