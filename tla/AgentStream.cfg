SPECIFICATION FairSpec
CONSTANTS
  Tries = 3
  Handshakes = 1
  Polls = 2
  MaxText = 2
  None = None
INVARIANT TypeOK
INVARIANT VerdictIsTheRuns
PROPERTY NoSecondRun
PROPERTY Delivers
PROPERTY Returns
CHECK_DEADLOCK FALSE
