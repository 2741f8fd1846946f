\* One sender and one receiver; ReceiverTimeout is longer than a detection takes.
SPECIFICATION Spec
CONSTANTS
  Pulse = 4
  Timeouts = {2, 4}
  N = 3
  ReceiverTimeout = 24
  MaxLag = 1
  MaxDelay = 4
  IndexRange = 5
  Off = Off
INVARIANT TypeOK
INVARIANT CountsMisses
INVARIANT NoFalseAlarm
INVARIANT DetectedInTime
INVARIANT GivenUpEnds
PROPERTY EndsOnlyWhenGivenUp
