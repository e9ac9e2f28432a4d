SPECIFICATION ViewsSpec
CONSTANTS
  Publishers = {p1, p2}
  Streams = {s1}
  MaxEvents = 3
  MaxRestarts = 1
  RunIds = {r1}
  MaxRequests = 3
  MaxWorkers = 2
INVARIANTS
  ViewsTypeOK
  StreamFaithful
  CaughtUp
  AnsweredOnce
PROPERTY
  AllEnd
CHECK_DEADLOCK FALSE
