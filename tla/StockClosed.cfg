SPECIFICATION Spec
CONSTANTS
  a = a
  b = b
  x = x
  None = None
  Counters = {a, b, x}
  Watchlist <- MCWatchlist
  Snapshots = {a}
  Missing = {x}
  MaxRefreshes = 2
  MaxLeaves = 1
  MaxFailures = 0
CHECK_DEADLOCK FALSE
INVARIANT ClosedPageStreamsNothing
