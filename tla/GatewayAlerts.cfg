SPECIFICATION FairSpec
CONSTANTS
  g1 = g1
  g2 = g2
  None = None
  Keys = {g1}
  Grace = 2
  MaxUnread = 2
  MaxChanges = 3
  MaxFaults = 2
INVARIANTS OneAlertPerOutage BlipIsSilent
PROPERTY Converges
