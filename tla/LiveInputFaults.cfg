SPECIFICATION FairSpec
CONSTANTS
  Msgs = {m1}
  None = None
  MaxTurns = 2
  MaxJobs = 1
  Overlaps = FALSE
  Lingers = TRUE
  HardStops = TRUE
  SavesFail = TRUE
PROPERTIES SubmitAnswered TakeBackAnswered
CHECK_DEADLOCK FALSE
