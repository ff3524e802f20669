SPECIFICATION Spec
CONSTANTS
  MaxTurns = 2
  MaxInFlight = 2
  Limits <- CancelLimit
  Feed = {"Delta"}
  Asks = {}
  Past = {"finished"}
  None = None
PROPERTY EventsReachTheirOwnTurn
CHECK_DEADLOCK FALSE
