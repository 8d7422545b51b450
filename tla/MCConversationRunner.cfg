SPECIFICATION FairSpec
CONSTANTS
  a = a
  j1 = j1
  j2 = j2
  j3 = j3
  w1 = w1
  w2 = w2
  None = None
  Keys = {a}
  Jobs = {j1, j2, j3}
  Workers = {w1, w2}
  KeyOf <- MCKeyOf
  QueueSize = 1
  SemSize = 1
  MaxIncrements = 1
INVARIANTS StaleDetected SettledWhenClosed
PROPERTIES ImplementsExecutor AcceptedSettles StopReturns
