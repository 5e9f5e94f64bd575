\* Two agents, one of which the other pings.
SPECIFICATION Spec
CONSTANTS
  Agent = {"p0", "p1"}
  Pings <- PingFirst
  Horizon = 1
  Period = 1
  MaxBeat = 2
  MaxQueue = 2
INVARIANTS
  TypeOK
  
PROPERTIES
  FailureDetected
  MainReturns
