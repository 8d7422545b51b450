SPECIFICATION Spec
CONSTANTS
  job = job
  p = p
  q = q
  e1 = e1
  e2 = e2
  o1 = o1
  o2 = o2
  o3 = o3
  t1 = t1
  t2 = t2
  t3 = t3
  None = None
  Tasks = {job}
  Ids = {p, q}
  Entries = {e1, e2}
  Owners = {o1, o2}
  Timers = {t1, t2, t3}
  TaskOf <- MCTaskOf
  MaxRestores = 1
  FaultKinds = {"record", "task"}
  MaxFaults = 1
INVARIANTS RunOnlyApproved LeasesReturned LeaseHeldWhileUp SettledWhenDown WaitGroupsExact
PROPERTIES TerminalUnlessEarly
SYMMETRY IdSymmetry
