SPECIFICATION Spec
CONSTANTS
  Copies = {a, b}
  Chats = {c1}
  Listed = {}
  None = None
  StaleUndo = FALSE
  MaxEdits = 3
  MaxRemovals = 1
  MaxFaults = 1
  MaxOpens = 3
INVARIANTS TypeOK ListedIsReadable RememberedWasStored NoneTwice OrphanIsOwed
PROPERTIES ImplementsStore WriteStores
SYMMETRY CopySymmetry
CHECK_DEADLOCK FALSE
