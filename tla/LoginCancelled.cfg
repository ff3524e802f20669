SPECIFICATION CancelSpec
CONSTANTS
  MaxAsks = 1
  None = None
PROPERTY CancelledStaysOut
CHECK_DEADLOCK FALSE
