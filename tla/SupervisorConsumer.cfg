SPECIFICATION FairSpec
CONSTANTS
  c1 = c1
  c2 = c2
  t1 = t1
  f1 = f1
  f2 = f2
  Unset = Unset
  Connections = {c1}
  Tenants = {t1}
  TenantOf <- MCTenantOf
  Fingerprints = {f1, f2}
  Backoff = 2
  MaxChanges = 2
  MaxFaults = 2
PROPERTIES ConsumerRuns
