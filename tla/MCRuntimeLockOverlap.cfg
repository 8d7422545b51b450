SPECIFICATION Spec
CONSTANTS
  c1 = c1
  c2 = c2
  c3 = c3
  c4 = c4
  p1 = p1
  p2 = p2
  i1 = i1
  i2 = i2
  i3 = i3
  i4 = i4
  None = None
  Calls = {c1, c2, c3, c4}
  Procs = {p1, p2}
  ProcOf <- MCProcOf
  PidOf <- MCPidOf
  FaultKinds = {}
  Inodes = {i1, i2, i3, i4}
INVARIANTS Exclusive
