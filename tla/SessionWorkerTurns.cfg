SPECIFICATION Spec
CONSTANTS
  Prompts = {p1, p2}
  NeedWindow = {}
  Notes = {n1}
  None = None
  MaxStops = 2
  May = {"throw", "signal"}
SYMMETRY PromptSymmetry
INVARIANTS TypeOK CancelledWasStopped StopFlagOwned
PROPERTIES AgentsHeldFirst PendingStopKept StoppedQueueWaits LeavesFree
CHECK_DEADLOCK FALSE
