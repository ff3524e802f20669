SPECIFICATION FairSpec
CONSTANTS
  MaxAsks = 2
  None = None
INVARIANT TypeOK
INVARIANT AccountIsTheStored
PROPERTY LoginsSettle
CHECK_DEADLOCK FALSE
