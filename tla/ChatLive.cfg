SPECIFICATION FairSpec
CONSTANTS
  MaxTurns = 2
  MaxInFlight = 2
  Limits <- CancelLimit
  Feed = {}
  Asks = {"confirm"}
  Past = {"finished"}
  None = None
PROPERTY TurnsEnd
PROPERTY QueueGoesOut
CHECK_DEADLOCK FALSE
