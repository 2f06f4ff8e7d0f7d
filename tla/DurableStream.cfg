SPECIFICATION Spec
CONSTANTS
  o1 = o1
  x1 = x1
  s1 = s1
  a1 = a1
  Workers = {w1}
  Orders = {o1}
  Fills = {x1}
  States = {s1}
  Inputs <- MCInputs
  BatchSize = 2
  MaxLen = 2
  MaxEvents = 4
  MaxFaults = 2
INVARIANTS AckedIsDurable OneDocumentPerOrder
PROPERTIES OrderNeverRegresses FillsAreImmutable
CHECK_DEADLOCK FALSE
