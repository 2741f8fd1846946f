\* With and without retries, two tasks.
SPECIFICATION FairSpec
CONSTANTS
  Tasks = {t1, t2}
  MaxFailures = 5
  Configurations <- AllConfigurations
  NotAsked = NotAsked
  NoAnswer = NoAnswer
  RunnerError = RunnerError
  BrokenPromise = BrokenPromise
  RetryLimitSurpassed = RetryLimitSurpassed
INVARIANT TypeOK
INVARIANT NoWorkIsLost
PROPERTY ImplementsTaskService
PROPERTY EveryTaskAnswered
\* All tasks may have been answered.
CHECK_DEADLOCK FALSE
