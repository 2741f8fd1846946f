\* Registered runners that are lost.
SPECIFICATION Spec
CONSTANTS
  Services = {s1, s2}
  Clients = {}
  Ids = {i1, i2}
  Actors = {a1, a2}
  CallerIds = {}
  MaxRegistrations = 2
  Budgets <- TwoRegistrations
  NoId = NoId
  NoActor = NoActor
  NoAnswer = NoAnswer
  NoService = NoService
  NoManager = NoManager
  RuntimeError = RuntimeError
  ServiceNotFound = ServiceNotFound
INVARIANT RegisteredStaysListed
SYMMETRY Symmetry
CHECK_DEADLOCK FALSE
