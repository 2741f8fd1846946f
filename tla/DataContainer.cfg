\* Two clients of one container, one of which does not ask before it reads.
SPECIFICATION Spec
CONSTANTS
  Clients = {c1, c2}
  Careless = {c2}
  Keys = {1, 2}
  defaultValue = defaultValue
  MaxRequests = 9
INVARIANT TypeOK
INVARIANT NoPhantomKeys
INVARIANT AddedOncePerClient
INVARIANT ScanMissesNothing
\* The clients may have used up their requests.
CHECK_DEADLOCK FALSE
