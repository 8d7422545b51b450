SPECIFICATION FairSpec
CONSTANTS
  a = a
  r1 = r1
  r2 = r2
  t1 = t1
  t2 = t2
  q1 = q1
  s1 = s1
  None = None
  Convs = {a}
  Tasks = {t1, t2}
  Runs = {r1, r2}
  ConvOf <- MCConvOf
  TaskOf <- MCTaskOf
  Questions = {q1}
  RunOf <- MCRunOf
  ChoicesOnly = {}
  Inputs = {1, 2}
  Stops = {s1}
  QueueLimit = 1
INVARIANTS Registered StopsItsTask LostForAReason
PROPERTIES OneAnswer StopEnds
