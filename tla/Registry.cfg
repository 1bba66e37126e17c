SPECIFICATION Spec
CONSTANTS
  w1 = w1
  w2 = w2
  win1 = win1
  send1 = send1
  None = None
  Workers = {w1, w2}
  Windows = {win1}
  Scripts = {send1}
  Away = {w2, win1}
  LongHangs = FALSE
  Suspends = FALSE
  LateReach = FALSE
  MaxCrashes = 1
  MaxHangs = 1
INVARIANT TypeOK
INVARIANT CleanExit
INVARIANT RegistryInv
PROPERTY OneRunner
PROPERTY OthersKept
PROPERTY FoundIsListening
CHECK_DEADLOCK FALSE
