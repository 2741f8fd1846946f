\* One failed subtask, with the default arguments of the constructor.
SPECIFICATION Spec
CONSTANTS
  Tasks = {t1, t2}
  Nodes = {n1, n2}
  MaxPieces = 2
  MaxFailures = 1
  Configurations <- DefaultConfiguration
  NotAsked = NotAsked
  NoAnswer = NoAnswer
  NoResult = NoResult
  Error = Error
  Free = Free
INVARIANT AggregatesOwnResults
CHECK_DEADLOCK FALSE
