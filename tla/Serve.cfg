SPECIFICATION FairSpec
CONSTANTS
  Permits = 2
  Clients <- AnyClients
  MaxLines = 3
  MaxTicks = 2
  MaxHung = 1
  Digest <- CollidingDigest
  None = None
INVARIANT TypeOK
INVARIANT AnsweredOnce
INVARIANT Paced
INVARIANT DrainIsComplete
INVARIANT NoTickLost
INVARIANT OrdersWereVouchedFor
PROPERTY BurstIsAnswered
PROPERTY Leaves
CHECK_DEADLOCK FALSE
