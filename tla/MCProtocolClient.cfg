SPECIFICATION Spec
CONSTANTS
  Workers = {w1, w2}
  MaxRequests = 2
  MaxRuntimes = 2
  MaxMishaps = 3
INVARIANTS
  TypeOK
  AnswersAreFaithful
PROPERTIES
  EveryRequestReturns
  ReconnectEnds
CHECK_DEADLOCK FALSE
