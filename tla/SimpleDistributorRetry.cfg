\* A find that fails, and is retried with success.
SPECIFICATION Spec
CONSTANTS
  Tasks = {t1, t2}
  MaxFailures = 1
  Configurations <- AllConfigurations
  NotAsked = NotAsked
  NoAnswer = NoAnswer
  RunnerError = RunnerError
  BrokenPromise = BrokenPromise
  RetryLimitSurpassed = RetryLimitSurpassed
\* All tasks may have been answered.
INVARIANT RepliesAfterTreating
CHECK_DEADLOCK FALSE
