------------------------------ MODULE CronLoop ------------------------------
(***************************************************************************)
(* The loop that runs the tasks of a cron file (RunCronLoop in             *)
(* internal/channelruntime/awareness/cron.go), in several processes that   *)
(* serve the same file: one of them at a time holds the scheduler lock and *)
(* enqueues what is due, each of them takes the runs a user asks for.  The *)
(* goroutines of a process are its loop, its scheduler and its workers.    *)
(***************************************************************************)
EXTENDS Naturals, Sequences, FiniteSets, SequencesExt

CONSTANTS
  Procs,
  Tasks, Lanes,
  TaskLane,       \* the queue of a task: system tasks have one of their own
  Workers,        \* of each process
  WorkerLane,
  QueueSize,
  Asked,          \* the runs a user may ask for: of a process, a task
  None

ASSUME CronAssumption ==
  /\ TaskLane \in [Tasks -> Lanes] /\ WorkerLane \in [Workers -> Lanes]
  /\ \A l \in Lanes : \E w \in Workers : WorkerLane[w] = l
  /\ QueueSize \in Nat \ {0} /\ Asked \subseteq Procs \X Tasks
  /\ None \notin Procs \cup Tasks

VARIABLES
  lock,       \* the process that holds the scheduler lock
  cancelled,  \* the processes whose context is done
  loop,       \* per process, where RunCronLoop is
  sched,      \* per process, where runScheduler is
  due,        \* per process, the tasks of this tick that are left to enqueue
  hand,       \* per process and caller, the enqueue in progress
  queue,      \* per process and lane
  inFlight,
  board,      \* per process and task, the RunBoard entry
  work        \* per process and worker, where it is and with which item

ctlVars == <<lock, loop, sched, due>>
taskVars == <<hand, queue, inFlight, board, work>>
vars == <<ctlVars, cancelled, taskVars>>

\* The scheduler and the loop both call enqueue; the loop for manual runs.
Callers == {"sched", "loop"}
NoItem == [task |-> None, by |-> "none"]
Empty == [at |-> "none", task |-> None]

Init ==
  /\ lock = None /\ cancelled = {}
  /\ loop = [p \in Procs |-> "running"]
  /\ sched = [p \in Procs |-> "locking"]
  /\ due = [p \in Procs |-> {}]
  /\ hand = [p \in Procs |-> [c \in Callers |-> Empty]]
  /\ queue = [p \in Procs |-> [l \in Lanes |-> <<>>]]
  /\ inFlight = [p \in Procs |-> {}]
  /\ board = [p \in Procs |-> [t \in Tasks |-> "none"]]
  /\ work = [p \in Procs |-> [w \in Workers |-> [at |-> "idle", item |-> NoItem]]]

-----------------------------------------------------------------------------
Exited(p) == \A w \in Workers : work[p][w].at = "exited"
Quiesced(p) == sched[p] \in {"waiting", "done"}
Closed(p) == loop[p] \in {"joining", "returned"}

List(p, t, s) == board' = [board EXCEPT ![p][t] = s]
Hold(p, c, point, t) == hand' = [hand EXCEPT ![p][c] = [at |-> point, task |-> t]]

Cancel(p) ==
  /\ p \notin cancelled
  /\ cancelled' = cancelled \cup {p}
  /\ UNCHANGED <<ctlVars, taskVars>>

-----------------------------------------------------------------------------
\* enqueue: the context, then markInFlight; a task in flight is left alone.
Enqueue(p, c, t) ==
  IF p \in cancelled \/ t \in inFlight[p]
  THEN UNCHANGED taskVars
  ELSE /\ inFlight' = [inFlight EXCEPT ![p] = @ \cup {t}]
       /\ Hold(p, c, "marked", t)
       /\ UNCHANGED <<queue, board, work>>

ListQueued(p, c) ==
  /\ hand[p][c].at = "marked"
  /\ List(p, hand[p][c].task, "queued")
  /\ Hold(p, c, "listed", hand[p][c].task)
  /\ UNCHANGED <<ctlVars, cancelled, queue, inFlight, work>>

\* The item goes into its queue, or the queue is full and the entry goes.
SendOrUndo(p, c) ==
  LET t == hand[p][c].task  lane == TaskLane[t] IN
  /\ hand[p][c].at = "listed"
  /\ IF Len(queue[p][lane]) < QueueSize
     THEN /\ queue' = [queue EXCEPT ![p][lane] = Append(@, [task |-> t, by |-> c])]
          /\ Hold(p, c, "none", None) /\ UNCHANGED board
     ELSE /\ List(p, t, "none")
          /\ Hold(p, c, "undone", t) /\ UNCHANGED queue
  /\ UNCHANGED <<ctlVars, cancelled, inFlight, work>>

Undo(p, c) ==
  /\ hand[p][c].at = "undone"
  /\ inFlight' = [inFlight EXCEPT ![p] = @ \ {hand[p][c].task}]
  /\ Hold(p, c, "none", None)
  /\ UNCHANGED <<ctlVars, cancelled, queue, board, work>>

-----------------------------------------------------------------------------
\* WithLock: the lock is free, or cannot be had (the context ends the wait, or
\* the file cannot be opened) and there is no schedule in this process.
Lock(p) ==
  /\ sched[p] = "locking" /\ lock = None
  /\ lock' = p /\ sched' = [sched EXCEPT ![p] = "idle"]
  /\ UNCHANGED <<loop, due, cancelled, taskVars>>

LockFails(p) ==
  /\ sched[p] = "locking"
  /\ sched' = [sched EXCEPT ![p] = "done"]
  /\ UNCHANGED <<lock, loop, due, cancelled, taskVars>>

\* tick, at the start and then on the ticker: reads what is due.
Tick(p) ==
  /\ sched[p] = "idle" /\ p \notin cancelled
  /\ \E s \in SUBSET Tasks \ {{}} : due' = [due EXCEPT ![p] = s]
  /\ sched' = [sched EXCEPT ![p] = "ticking"]
  /\ UNCHANGED <<lock, loop, cancelled, taskVars>>

EnqueueDue(p) ==
  /\ sched[p] = "ticking" /\ hand[p]["sched"].at = "none"
  /\ \E t \in due[p] :
       /\ due' = [due EXCEPT ![p] = @ \ {t}]
       /\ Enqueue(p, "sched", t)
  /\ UNCHANGED <<lock, loop, sched, cancelled>>

TickEnds(p) ==
  /\ sched[p] = "ticking" /\ hand[p]["sched"].at = "none" /\ due[p] = {}
  /\ sched' = [sched EXCEPT ![p] = "idle"]
  /\ UNCHANGED <<lock, loop, due, cancelled, taskVars>>

\* Mutant: the queues are to be closed only once the workers have left.
QuiesceLate(p) ==
  /\ sched[p] = "idle" /\ p \in cancelled /\ Exited(p)
  /\ sched' = [sched EXCEPT ![p] = "waiting"]
  /\ UNCHANGED <<lock, loop, due, cancelled, taskVars>>

\* markQuiesced, on the end of the context
Quiesce(p) ==
  /\ sched[p] = "idle" /\ p \in cancelled
  /\ sched' = [sched EXCEPT ![p] = "waiting"]
  /\ UNCHANGED <<lock, loop, due, cancelled, taskVars>>

\* Mutant: the lock is released while items are queued or run.
ReleaseEarly(p) ==
  /\ sched[p] = "waiting"
  /\ lock' = None /\ sched' = [sched EXCEPT ![p] = "done"]
  /\ UNCHANGED <<loop, due, cancelled, taskVars>>

\* The lock is held until the workers have left.
Release(p) ==
  /\ sched[p] = "waiting" /\ Exited(p)
  /\ lock' = None /\ sched' = [sched EXCEPT ![p] = "done"]
  /\ UNCHANGED <<loop, due, cancelled, taskVars>>

-----------------------------------------------------------------------------
\* The loop takes a request of TriggerCron.
Request(p) ==
  /\ loop[p] = "running" /\ hand[p]["loop"].at = "none"
  /\ \E t \in Tasks : <<p, t>> \in Asked /\ Enqueue(p, "loop", t)
  /\ UNCHANGED <<ctlVars, cancelled>>

StopLoop(p) ==
  /\ loop[p] = "running" /\ hand[p]["loop"].at = "none" /\ p \in cancelled
  /\ loop' = [loop EXCEPT ![p] = "closing"]
  /\ UNCHANGED <<lock, sched, due, cancelled, taskVars>>

\* Mutant: the queues are closed at once.
CloseQueuesAtOnce(p) ==
  /\ loop[p] = "closing"
  /\ loop' = [loop EXCEPT ![p] = "joining"]
  /\ UNCHANGED <<lock, sched, due, cancelled, taskVars>>

CloseQueues(p) ==
  /\ loop[p] = "closing" /\ Quiesced(p)
  /\ loop' = [loop EXCEPT ![p] = "joining"]
  /\ UNCHANGED <<lock, sched, due, cancelled, taskVars>>

Return(p) ==
  /\ loop[p] = "joining" /\ Exited(p) /\ sched[p] = "done"
  /\ loop' = [loop EXCEPT ![p] = "returned"]
  /\ UNCHANGED <<lock, sched, due, cancelled, taskVars>>

-----------------------------------------------------------------------------
WorkAt(p, w, point, i) == work' = [work EXCEPT ![p][w] = [at |-> point, item |-> i]]

Take(p, w) ==
  LET lane == WorkerLane[w] IN
  /\ work[p][w].at = "idle" /\ queue[p][lane] # <<>>
  /\ WorkAt(p, w, "taken", Head(queue[p][lane]))
  /\ queue' = [queue EXCEPT ![p][lane] = Tail(@)]
  /\ UNCHANGED <<ctlVars, cancelled, hand, inFlight, board>>

\* An item that is taken after the end of the context is dropped.
Begin(p, w) ==
  LET i == work[p][w].item IN
  /\ work[p][w].at = "taken"
  /\ IF p \in cancelled
     THEN WorkAt(p, w, "ending", i) /\ UNCHANGED board
     ELSE WorkAt(p, w, "running", i) /\ List(p, i.task, "running")
  /\ UNCHANGED <<ctlVars, cancelled, hand, queue, inFlight>>

RunEnds(p, w) ==
  /\ work[p][w].at = "running"
  /\ WorkAt(p, w, "ending", work[p][w].item)
  /\ UNCHANGED <<ctlVars, cancelled, hand, queue, inFlight, board>>

Delist(p, w, from, point) ==
  /\ work[p][w].at = from
  /\ List(p, work[p][w].item.task, "none")
  /\ WorkAt(p, w, point, work[p][w].item)
  /\ UNCHANGED <<ctlVars, cancelled, hand, queue, inFlight>>

ClearInFlight(p, w, from, point) ==
  /\ work[p][w].at = from
  /\ inFlight' = [inFlight EXCEPT ![p] = @ \ {work[p][w].item.task}]
  /\ WorkAt(p, w, point, work[p][w].item)
  /\ UNCHANGED <<ctlVars, cancelled, hand, queue, board>>

\* Mutant: the task may be enqueued again before its entry is removed.
FinishSwapped(p, w) ==
  ClearInFlight(p, w, "ending", "ended") \/ Delist(p, w, "ended", "idle")

\* finish: board.Done, then clearInFlight
Finish(p, w) ==
  Delist(p, w, "ending", "ended") \/ ClearInFlight(p, w, "ended", "idle")

Exit(p, w) ==
  /\ work[p][w].at = "idle" /\ Closed(p) /\ queue[p][WorkerLane[w]] = <<>>
  /\ WorkAt(p, w, "exited", NoItem)
  /\ UNCHANGED <<ctlVars, cancelled, hand, queue, inFlight, board>>

-----------------------------------------------------------------------------
EnqueueStep(p, c) == ListQueued(p, c) \/ SendOrUndo(p, c) \/ Undo(p, c)
SchedStep(p) ==
  Lock(p) \/ LockFails(p) \/ Tick(p) \/ EnqueueDue(p) \/ TickEnds(p) \/ Quiesce(p) \/ Release(p)
LoopStep(p) == Request(p) \/ StopLoop(p) \/ CloseQueues(p) \/ Return(p)
WorkStep(p, w) == Take(p, w) \/ Begin(p, w) \/ RunEnds(p, w) \/ Finish(p, w) \/ Exit(p, w)

\* Every process has returned.
Terminating == (\A p \in Procs : loop[p] = "returned") /\ UNCHANGED vars

Next ==
  \/ \E p \in Procs : Cancel(p) \/ SchedStep(p) \/ LoopStep(p)
  \/ \E p \in Procs, c \in Callers : EnqueueStep(p, c)
  \/ \E p \in Procs, w \in Workers : WorkStep(p, w)
  \/ Terminating

Spec == Init /\ [][Next]_vars

\* The goroutines of a process whose context is done get on, in any order: a wait
\* for the lock ends with the context, and so does a run of a task.
Unwind(p) ==
  /\ p \in cancelled
  /\ \/ \E c \in Callers : EnqueueStep(p, c)
     \/ LockFails(p) \/ EnqueueDue(p) \/ TickEnds(p) \/ Quiesce(p) \/ Release(p)
     \/ StopLoop(p) \/ CloseQueues(p) \/ Return(p)
     \/ \E w \in Workers : WorkStep(p, w)

FairSpec == Spec /\ \A p \in Procs : WF_vars(Unwind(p))

-----------------------------------------------------------------------------
Items == [task : Tasks, by : Callers]
Hands == [at : {"none", "marked", "listed", "undone"}, task : Tasks \cup {None}]
Jobs == [at : {"idle", "taken", "running", "ending", "ended", "exited"}, item : Items \cup {NoItem}]

\* Every variable has its type.
TypeOK ==
  /\ lock \in Procs \cup {None} /\ cancelled \subseteq Procs
  /\ loop \in [Procs -> {"running", "closing", "joining", "returned"}]
  /\ sched \in [Procs -> {"locking", "idle", "ticking", "waiting", "done"}]
  /\ due \in [Procs -> SUBSET Tasks] /\ inFlight \in [Procs -> SUBSET Tasks]
  /\ hand \in [Procs -> [Callers -> Hands]]
  /\ queue \in [Procs -> [Lanes -> Seq(Items)]]
  /\ board \in [Procs -> [Tasks -> {"none", "queued", "running"}]]
  /\ work \in [Procs -> [Workers -> Jobs]]

At(p, points) == {work[p][w].item : w \in {v \in Workers : work[p][v].at \in points}}
Waiting(p) == UNION {ToSet(queue[p][l]) : l \in Lanes}
Scheduled(p) == {i \in Waiting(p) \cup At(p, {"taken", "running"}) : i.by = "sched"}

\* What is due is held by one process at a time: the next owner of the schedule
\* starts only after the queued and running items of the last one have ended.
OneScheduler ==
  \A p, q \in Procs : p # q => Scheduled(p) = {} \/ Scheduled(q) = {}

\* Nobody is about to send to a queue that is closed (Go would panic): not the
\* scheduler in a tick, nor the loop in a request.
NoSendOnClosed ==
  \A p \in Procs, c \in Callers : Closed(p) => hand[p][c].at \notin {"marked", "listed"}

\* The board, which the API lists, agrees with the loop: a task in a queue, or
\* taken from it, is queued, one that runs is running, and one the loop does not
\* have is not listed.
BoardExact ==
  \A p \in Procs, t \in Tasks :
    /\ (\E i \in Waiting(p) \cup At(p, {"taken"}) : i.task = t) => board[p][t] = "queued"
    /\ (\E i \in At(p, {"running"}) : i.task = t) => board[p][t] = "running"
    /\ t \notin inFlight[p] => board[p][t] = "none"

\* A cancelled loop returns, whether or not its process holds the schedule.
ShutdownEnds == \A p \in Procs : p \in cancelled ~> loop[p] = "returned"
=============================================================================
