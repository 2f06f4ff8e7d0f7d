SPECIFICATION FairSpec
CONSTANTS
  w1 = w1
  w2 = w2
  None = None
  Workers = {w1, w2}
  Providers = {"gateway", "snaptrade"}
  TTL = 4
  RenewEvery = 1
  MaxLag = 2
  MaxSessions = 5
  MaxFaults = 3
INVARIANTS OneSessionAtBroker
PROPERTIES HolderIsNotDisplaced ServedAgain
CHECK_DEADLOCK FALSE
