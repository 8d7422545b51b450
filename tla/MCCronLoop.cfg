SPECIFICATION FairSpec
CONSTANTS
  p1 = p1
  p2 = p2
  daily = daily
  backup = backup
  main = main
  w1 = w1
  None = None
  Procs = {p1, p2}
  Tasks = {daily, backup}
  Lanes = {main}
  TaskLane <- MCTaskLane
  Workers = {w1}
  WorkerLane <- MCWorkerLane
  QueueSize = 1
  Asked <- MCAsked
INVARIANTS OneScheduler NoSendOnClosed BoardExact
PROPERTIES ShutdownEnds
