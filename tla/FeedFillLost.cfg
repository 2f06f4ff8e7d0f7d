SPECIFICATION FairSpec
CONSTANTS
  o1 = o1
  o2 = o2
  x1 = x1
  c1 = c1
  Orders = {o1}
  Fills = {x1}
  Contracts = {}
  MaxQueue = 2
  Terminal = 2
  MaxChanges = 3
  MaxFaults = 0
PROPERTIES FillsReachStream
