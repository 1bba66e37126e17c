SPECIFICATION FairSpec
CONSTANTS
  Prompts = {p1}
  NeedWindow = {}
  Notes = {n1}
  None = None
  MaxStops = 2
  May = {"throw", "signal"}
PROPERTY StopAnswered
CHECK_DEADLOCK FALSE
