SPECIFICATION Spec
CONSTANTS
  Workers = {w1}
  MaxRequests = 2
  MaxRuntimes = 1
  MaxMishaps = 1
PROPERTY
  LiveRuntimeAnswers
CHECK_DEADLOCK FALSE
