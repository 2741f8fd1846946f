\* Two runners, one of which may hang, and two tasks of two subtasks.
SPECIFICATION MCGridSpec
CONSTANTS
  Services = {s1}
  Clients <- Subtasks
  Ids = {i1, i2}
  Actors = {a1, a2}
  CallerIds = {}
  MaxRegistrations = 2
  Budgets <- GridBudgets
  serviceName = s1
  Tasks = {t1, t2}
  Nodes = {n1, n2}
  MaxPieces = 2
  MaxFailures = 4
  MaxTroubles = 1
  Hanging = {a2}
  NoId = NoId
  NoActor = NoActor
  NoAnswer = NoAnswer
  NoService = NoService
  NoManager = NoManager
  RuntimeError = RuntimeError
  ServiceNotFound = ServiceNotFound
  NotAsked = NotAsked
  NoResult = NoResult
  Error = Error
  Free = Free
INVARIANT RequestsAreInOnePlace
INVARIANT EveryTaskIsUnderWay
INVARIANT NoNeedlessFailure
PROPERTY ServesTasks
PROPERTY OnlyStuckTasksWait
PROPERTY GoneAreForgotten
\* The environment may have used up its budgets, or the process is gone.
CHECK_DEADLOCK FALSE
