SPECIFICATION PromptSpec
CONSTANTS
  o1 = o1
  o2 = o2
  x1 = x1
  c1 = c1
  Orders = {}
  Fills = {x1}
  Contracts = {c1}
  MaxQueue = 7
  Terminal = 2
  MaxChanges = 3
  MaxFaults = 2
INVARIANTS NoGhost
PROPERTIES FillsReachStream
