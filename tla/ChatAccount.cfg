SPECIFICATION AccountSpec
CONSTANTS
  MaxTurns = 1
  MaxInFlight = 2
  Limits <- AccountLimit
  Feed = {}
  Asks = {}
  Past = {"finished"}
  None = None
INVARIANT OwnAccount
CHECK_DEADLOCK FALSE
