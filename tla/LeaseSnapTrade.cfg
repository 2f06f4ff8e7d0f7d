SPECIFICATION Spec
CONSTANTS
  w1 = w1
  w2 = w2
  None = None
  Workers = {w1, w2}
  Providers = {"snaptrade"}
  TTL = 4
  RenewEvery = 1
  MaxLag = 5
  MaxSessions = 3
  MaxFaults = 1
PROPERTIES LossStopsNoOther
CHECK_DEADLOCK FALSE
