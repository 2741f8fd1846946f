\* Ids listed at most once; ids that are not listed are removed too.
SPECIFICATION Spec
CONSTANTS
  Ids = {i1, i2, i3, i4}
  Actors = {a1}
  NoId = NoId
  NoActor = NoActor
  NoAnswer = NoAnswer
  RuntimeError = RuntimeError
  MaxEntries = 4
  MaxRequests = 1
  UniqueIds = TRUE
INVARIANT TypeOK
INVARIANT RoundRobin
INVARIANT NoStarvation
INVARIANT FindGivesAnActor
PROPERTY RemovalIsExact
\* The process may have been ended by undefined behaviour.
CHECK_DEADLOCK FALSE
