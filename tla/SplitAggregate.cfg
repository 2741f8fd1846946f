\* Every combination of constructor arguments, two tasks of up to two subtasks.
SPECIFICATION FairSpec
CONSTANTS
  Tasks = {t1, t2}
  Nodes = {n1, n2}
  MaxPieces = 2
  MaxFailures = 3
  Configurations <- AllConfigurations
  NotAsked = NotAsked
  NoAnswer = NoAnswer
  NoResult = NoResult
  Error = Error
  Free = Free
INVARIANT TypeOK
INVARIANT IteratorsAreValid
INVARIANT OneRequestPerSubtask
INVARIANT NothingForgotten
PROPERTY ImplementsTaskService
PROPERTY EveryTaskAnswered
\* All tasks may have been answered, or the process is gone.
CHECK_DEADLOCK FALSE
