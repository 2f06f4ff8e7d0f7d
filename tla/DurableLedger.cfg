SPECIFICATION FairSpec
CONSTANTS
  o1 = o1
  x1 = x1
  s1 = s1
  a1 = a1
  Workers = {w1}
  Orders = {o1, a1}
  Fills = {x1}
  States = {s1}
  Inputs <- MCOrders
  BatchSize = 2
  MaxLen = 9
  MaxEvents = 4
  MaxFaults = 2
PROPERTIES ImplementsLedger EveryEventAcked
CHECK_DEADLOCK FALSE
