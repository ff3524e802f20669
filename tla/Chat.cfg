SPECIFICATION Spec
CONSTANTS
  MaxTurns = 2
  MaxInFlight = 2
  Limits <- CourseLimits
  Feed = {"Tool", "ToolDone", "Delta", "Meta"}
  Asks = {"confirm", "unanswerable"}
  Past = {"finished", "failed", "asking"}
  None = None
INVARIANT TypeOK
INVARIANT BusyIffTurn
INVARIANT TranscriptOfThread
INVARIANT StartsAreFinished
INVARIANT NoStrayTask
INVARIANT ParentCompleted
INVARIANT AnswersGoToTheirQuestion
INVARIANT AtRest
INVARIANT NothingTwice
PROPERTY NoTurnWhileSignedOut
CONSTRAINT OneCourse
CHECK_DEADLOCK FALSE
