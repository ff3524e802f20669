SPECIFICATION BoundedSpec
CONSTANTS
  a = a
  b = b
  x = x
  None = None
  Counters = {a, b, x}
  Watchlist <- MCWatchlist
  Snapshots = {a}
  Missing = {x}
  MaxRefreshes = 3
  MaxLeaves = 1
  MaxFailures = 1
CHECK_DEADLOCK FALSE
INVARIANT TypeOK
INVARIANT OnTheBooks
INVARIANT OnlyItsStreams
INVARIANT NotFoundIsTheStocks
PROPERTY OnlyTheNewestAsks
PROPERTY NewestIsFilled
