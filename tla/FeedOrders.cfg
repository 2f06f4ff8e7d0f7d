SPECIFICATION FairSpec
CONSTANTS
  o1 = o1
  o2 = o2
  x1 = x1
  c1 = c1
  Orders = {o1, o2}
  Fills = {}
  Contracts = {}
  MaxQueue = 1
  Terminal = 3
  MaxChanges = 3
  MaxFaults = 1
INVARIANTS OpenOrdersSent
PROPERTIES OrderStreamForward FaultForcesResync OpenOrdersShown
