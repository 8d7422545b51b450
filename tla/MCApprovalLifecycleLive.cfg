SPECIFICATION FairSpec
CONSTANTS
  job = job
  p = p
  q = q
  e1 = e1
  e2 = e2
  o1 = o1
  o2 = o2
  o3 = o3
  t1 = t1
  t2 = t2
  t3 = t3
  None = None
  Tasks = {job}
  Ids = {p}
  Entries = {e1}
  Owners = {o1, o2, o3}
  Timers = {t1, t2, t3}
  TaskOf <- MCTaskOfOne
  MaxRestores = 2
  FaultKinds = {"record"}
  MaxFaults = 2
INVARIANTS PendingHasCustodian
PROPERTIES PendingResolves ImplementsCustody
