\* Two services, two runners, one client, and an environment that does a little
\* of everything in several combinations.
SPECIFICATION Spec
CONSTANTS
  Services = {s1, s2}
  Clients = {c1}
  Ids = {i1, i2, i3}
  Actors = {a1, a2}
  CallerIds = {i1, i2, i3}
  MaxRegistrations = 3
  Budgets <- SmallBudgets
  NoId = NoId
  NoActor = NoActor
  NoAnswer = NoAnswer
  NoService = NoService
  NoManager = NoManager
  RuntimeError = RuntimeError
  ServiceNotFound = ServiceNotFound
INVARIANT TypeOK
INVARIANT AnswersEnrolled
INVARIANT ListedIsWatched
INVARIANT FindSucceeds
INVARIANT ListsIdsOnce
INVARIANT InnocentStaysListed
SYMMETRY Symmetry
\* The environment may have used up its budgets, or the process is gone.
CHECK_DEADLOCK FALSE
