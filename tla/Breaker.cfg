SPECIFICATION BreakerFairSpec
CONSTANTS
  b1 = b1  r1 = r1  r2 = r2 r3 = r3  None = None
  Breaker = {b1}
  Request = {r1, r2, r3}
  FailureThreshold = 2
  SuccessThreshold = 2
  MaxProbes = 1
  Timeout = 1
INVARIANTS OpenRespected ProbeBound TripsInTime
PROPERTY Recovers
