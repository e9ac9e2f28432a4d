SPECIFICATION Spec
CONSTANTS
  Publishers = {p1}
  Streams = {s1}
  MaxEvents = 4
  MaxRestarts = 1
INVARIANT
  ResumedStreamIsComplete
CHECK_DEADLOCK FALSE
