\* A runner may be registered again under an id that is listed already.
SPECIFICATION Spec
CONSTANTS
  Ids = {i1, i2}
  Actors = {a1}
  NoId = NoId
  NoActor = NoActor
  NoAnswer = NoAnswer
  RuntimeError = RuntimeError
  MaxEntries = 3
  MaxRequests = 1
  UniqueIds = FALSE
INVARIANT FindGivesAnActor
CHECK_DEADLOCK FALSE
