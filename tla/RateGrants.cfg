SPECIFICATION LateSpec
CONSTANTS
  Callers = {c1, c2}
  Retrying = {c1, c2}
  MaxPerWindow = 2
  MinGap = 1
  Window = 3
  MaxRetries = 1
  Backoff = 1
  Jitter = 0
  Hints = {3}
  Horizon = 17
  LastCall = 3
  MaxLate = 2
  None = None
INVARIANT TypeOK
INVARIANT GapKept
INVARIANT WindowKept
PROPERTY RejectionsQuiet
PROPERTY InOrder
PROPERTY CallsReturn
CHECK_DEADLOCK FALSE
