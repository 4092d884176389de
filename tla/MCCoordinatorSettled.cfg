CONSTANTS
  Task = {1, 2, 3}
  Reviewer = {3}
  Concurrency = 2
  MaxTurns = 2
  Result <- MCAll
  Alternates = 1
  Classed = TRUE
  Waiter = {"next"}
  ModeOf <- MCMode
SPECIFICATION MCSpec
INVARIANT SettledMeansNoWorker
CHECK_DEADLOCK FALSE
