\* A subtask on its last retry counts as finished.
SPECIFICATION Spec
CONSTANTS
  Tasks = {t1}
  Nodes = {n1, n2}
  MaxPieces = 2
  MaxFailures = 2
  Configurations <- RetryingConfiguration
  NotAsked = NotAsked
  NoAnswer = NoAnswer
  NoResult = NoResult
  Error = Error
  Free = Free
INVARIANT AggregatesAllResults
CHECK_DEADLOCK FALSE
