SPECIFICATION Spec
CONSTANTS
  MaxTurns = 2
  MaxInFlight = 2
  Limits <- DropLimit
  Feed = {}
  Asks = {"options"}
  Past = {"finished"}
  None = None
INVARIANT ParentCompleted
CHECK_DEADLOCK FALSE
