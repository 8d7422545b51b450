---------------------------- MODULE CronLoopProofs ----------------------------
(***************************************************************************)
(* Theorems about CronLoop for any processes, tasks, lanes and workers.    *)
(* A task in flight is in one place: with a caller of enqueue, in a queue  *)
(* or with a worker.  IInv says so, what the board shows at each place,    *)
(* and which goroutine is where while the lock is held and the queues are  *)
(* open.                                                                   *)
(***************************************************************************)
EXTENDS CronLoop, TLAPS

\* The places of a task in flight.
Handing(p, c) == hand[p][c].at # "none"
Busy(p, w) == work[p][w].at \in {"taken", "running", "ending", "ended"}
Slots(p, l) == 1 .. Len(queue[p][l])

\* The goroutines and the phases of a process.
Phases ==
  \A p \in Procs :
    /\ sched[p] \in {"idle", "ticking", "waiting"} <=> lock = p
    /\ Handing(p, "sched") => sched[p] = "ticking"
    /\ Handing(p, "loop") => loop[p] = "running"
    /\ Closed(p) => sched[p] \in {"waiting", "done"}
    /\ \A w \in Workers : work[p][w].at = "exited" => Closed(p) /\ queue[p][WorkerLane[w]] = <<>>

\* What is at a place is a task that is in flight, and a queue has the tasks of its lane.
Placed ==
  \A p \in Procs :
    /\ \A c \in Callers : Handing(p, c) => hand[p][c].task \in inFlight[p]
    /\ \A l \in Lanes : \A n \in Slots(p, l) :
         queue[p][l][n].task \in inFlight[p] /\ TaskLane[queue[p][l][n].task] = l
    /\ \A w \in Workers : Busy(p, w) =>
         work[p][w].item \in Items /\ work[p][w].item.task \in inFlight[p]

\* It is at no other place: with another caller, in a queue, or with a worker.
OneHand ==
  \A p \in Procs : \A c, d \in Callers :
    Handing(p, c) /\ Handing(p, d) /\ hand[p][c].task = hand[p][d].task => c = d
HandOrQueue ==
  \A p \in Procs, c \in Callers, l \in Lanes : \A n \in Slots(p, l) :
    Handing(p, c) => queue[p][l][n].task # hand[p][c].task
HandOrWorker ==
  \A p \in Procs, c \in Callers, w \in Workers :
    Handing(p, c) /\ Busy(p, w) => work[p][w].item.task # hand[p][c].task
OneSlot ==
  \A p \in Procs, l \in Lanes : \A m, n \in Slots(p, l) :
    queue[p][l][m].task = queue[p][l][n].task => m = n
QueueOrWorker ==
  \A p \in Procs, l \in Lanes, w \in Workers : \A n \in Slots(p, l) :
    Busy(p, w) => queue[p][l][n].task # work[p][w].item.task
OneWorker ==
  \A p \in Procs : \A v, w \in Workers :
    Busy(p, v) /\ Busy(p, w) /\ work[p][v].item.task = work[p][w].item.task => v = w

\* What the board shows of a task at each place.
Shown ==
  \A p \in Procs :
    /\ \A c \in Callers :
         /\ hand[p][c].at \in {"marked", "undone"} => board[p][hand[p][c].task] = "none"
         /\ hand[p][c].at = "listed" => board[p][hand[p][c].task] = "queued"
    /\ \A l \in Lanes : \A n \in Slots(p, l) : board[p][queue[p][l][n].task] = "queued"
    /\ \A w \in Workers :
         /\ work[p][w].at = "taken" => board[p][work[p][w].item.task] = "queued"
         /\ work[p][w].at = "running" => board[p][work[p][w].item.task] = "running"
         /\ work[p][w].at = "ended" => board[p][work[p][w].item.task] = "none"
    /\ \A t \in Tasks : t \notin inFlight[p] => board[p][t] = "none"

\* What is due is queued and run by the process that has the lock.
Scheduling ==
  \A p \in Procs :
    /\ \A l \in Lanes : \A n \in Slots(p, l) : queue[p][l][n].by = "sched" => lock = p
    /\ \A w \in Workers : work[p][w].at \in {"taken", "running"} /\ work[p][w].item.by = "sched" =>
         lock = p

Apart ==
  OneHand /\ HandOrQueue /\ HandOrWorker /\ OneSlot /\ QueueOrWorker /\ OneWorker

IInv == TypeOK /\ Phases /\ Placed /\ Apart /\ Shown /\ Scheduling

-----------------------------------------------------------------------------
\* What a queue looks like after a send and after a receive.
LEMMA AppendFacts ==
  ASSUME NEW s \in Seq(Items), NEW i \in Items
  PROVE  /\ Append(s, i) \in Seq(Items) /\ Len(Append(s, i)) = Len(s) + 1 /\ Len(s) \in Nat
         /\ Append(s, i)[Len(s) + 1] = i
         /\ \A n \in 1 .. Len(s) : Append(s, i)[n] = s[n]
OBVIOUS

\* What is left of a queue when its first item is taken.
LEMMA TailFacts ==
  ASSUME NEW s \in Seq(Items), s # <<>>
  PROVE  /\ Tail(s) \in Seq(Items) /\ Len(Tail(s)) = Len(s) - 1 /\ Len(s) \in Nat /\ Len(s) >= 1
         /\ Head(s) = s[1] /\ Head(s) \in Items
         /\ \A n \in 1 .. Len(s) - 1 : Tail(s)[n] = s[n + 1]
OBVIOUS

\* The updates of the helpers, point by point.
HandSet(p, c, point, t) ==
  \A q \in Procs, d \in Callers :
    hand'[q][d] = IF q = p /\ d = c THEN [at |-> point, task |-> t] ELSE hand[q][d]
WorkSet(p, w, point, i) ==
  \A q \in Procs, v \in Workers :
    work'[q][v] = IF q = p /\ v = w THEN [at |-> point, item |-> i] ELSE work[q][v]
BoardSet(p, t, s) ==
  \A q \in Procs, x \in Tasks : board'[q][x] = IF q = p /\ x = t THEN s ELSE board[q][x]
OutOfFlight(p, t) ==
  \A q \in Procs, x \in Tasks : x \in inFlight'[q] <=> x \in inFlight[q] /\ ~(q = p /\ x = t)

\* What a hand holds after a step of it.
LEMMA HoldFacts ==
  ASSUME TypeOK, NEW p \in Procs, NEW c \in Callers, NEW t \in Tasks \cup {None},
         NEW point \in {"none", "marked", "listed", "undone"}, Hold(p, c, point, t)
  PROVE  hand' \in [Procs -> [Callers -> Hands]] /\ HandSet(p, c, point, t)
<1> DEFINE h == [at |-> point, task |-> t]
<1>1. h \in Hands
  BY DEF Hands
<1>2. hand \in [Procs -> [Callers -> Hands]] /\ hand' = [hand EXCEPT ![p][c] = h]
  BY DEF TypeOK, Hold
<1> QED
  BY <1>1, <1>2 DEF HandSet

\* Where a worker is after a step of it.
LEMMA WorkAtFacts ==
  ASSUME TypeOK, NEW p \in Procs, NEW w \in Workers, NEW i \in Items \cup {NoItem},
         NEW point \in {"idle", "taken", "running", "ending", "ended", "exited"}, WorkAt(p, w, point, i)
  PROVE  work' \in [Procs -> [Workers -> Jobs]] /\ WorkSet(p, w, point, i)
<1> DEFINE j == [at |-> point, item |-> i]
<1>1. j \in Jobs
  BY DEF Jobs
<1>2. work \in [Procs -> [Workers -> Jobs]] /\ work' = [work EXCEPT ![p][w] = j]
  BY DEF TypeOK, WorkAt
<1> QED
  BY <1>1, <1>2 DEF WorkSet

\* What the board shows after a change of it.
LEMMA ListFacts ==
  ASSUME TypeOK, NEW p \in Procs, NEW t, NEW s \in {"none", "queued", "running"}, List(p, t, s)
  PROVE  /\ board' \in [Procs -> [Tasks -> {"none", "queued", "running"}]]
         /\ t \in Tasks => BoardSet(p, t, s)
<1>1. /\ board \in [Procs -> [Tasks -> {"none", "queued", "running"}]]
      /\ board' = [board EXCEPT ![p][t] = s]
  BY DEF TypeOK, List
<1> QED
  BY <1>1 DEF BoardSet

\* What a caller of enqueue does before it lists the task.
LEMMA EnqueueFacts ==
  ASSUME TypeOK, NEW p \in Procs, NEW c \in Callers, NEW t \in Tasks, Enqueue(p, c, t)
  PROVE  hand' \in [Procs -> [Callers -> Hands]] /\ inFlight' \in [Procs -> SUBSET Tasks]
<1>1. CASE p \in cancelled \/ t \in inFlight[p]
  BY <1>1 DEF Enqueue, TypeOK, taskVars
<1>2. CASE ~(p \in cancelled \/ t \in inFlight[p])
  <2>1. Hold(p, c, "marked", t) /\ inFlight' = [inFlight EXCEPT ![p] = @ \cup {t}]
    BY <1>2 DEF Enqueue
  <2>2. inFlight' \in [Procs -> SUBSET Tasks]
    BY <2>1 DEF TypeOK
  <2> QED
    BY <2>1, <2>2, HoldFacts
<1> QED
  BY <1>1, <1>2

\* What a worker and a caller hold.
LEMMA RecordFacts ==
  ASSUME TypeOK, NEW p \in Procs
  PROVE  /\ \A w \in Workers : work[p][w].item \in Items \cup {NoItem}
         /\ \A c \in Callers : hand[p][c].task \in Tasks \cup {None}
<1>1. work \in [Procs -> [Workers -> Jobs]] /\ hand \in [Procs -> [Callers -> Hands]]
  BY DEF TypeOK
<1> QED
  BY <1>1 DEF Jobs, Hands

\* Every step keeps the types.
LEMMA TypeStep == IInv /\ [Next]_vars => TypeOK'
<1> SUFFICES ASSUME IInv, [Next]_vars PROVE TypeOK'
  OBVIOUS
<1> USE DEF vars, ctlVars, taskVars
<1>1. ASSUME NEW p \in Procs, Cancel(p) PROVE TypeOK'
  BY <1>1, CronAssumption DEF IInv, TypeOK, Cancel
<1>2. ASSUME NEW p \in Procs, Lock(p) PROVE TypeOK'
  BY <1>2, CronAssumption DEF IInv, TypeOK, Lock
<1>3. ASSUME NEW p \in Procs, LockFails(p) PROVE TypeOK'
  BY <1>3, CronAssumption DEF IInv, TypeOK, LockFails
<1>4. ASSUME NEW p \in Procs, Tick(p) PROVE TypeOK'
  BY <1>4, CronAssumption DEF IInv, TypeOK, Tick
<1>5. ASSUME NEW p \in Procs, EnqueueDue(p) PROVE TypeOK'
  <2>1. PICK t \in due[p] : due' = [due EXCEPT ![p] = @ \ {t}] /\ Enqueue(p, "sched", t)
    BY <1>5 DEF EnqueueDue
  <2>2. t \in Tasks /\ "sched" \in Callers
    BY <2>1 DEF IInv, TypeOK, Callers
  <2>3. hand' \in [Procs -> [Callers -> Hands]] /\ inFlight' \in [Procs -> SUBSET Tasks]
    BY <2>1, <2>2, EnqueueFacts DEF IInv
  <2>4. due' \in [Procs -> SUBSET Tasks]
    BY <2>1 DEF IInv, TypeOK
  <2>5. UNCHANGED <<queue, board, work>>
    BY <2>1 DEF Enqueue
  <2> QED
    BY <2>3, <2>4, <2>5, <1>5 DEF IInv, TypeOK, EnqueueDue
<1>6. ASSUME NEW p \in Procs, TickEnds(p) PROVE TypeOK'
  BY <1>6, CronAssumption DEF IInv, TypeOK, TickEnds
<1>7. ASSUME NEW p \in Procs, Quiesce(p) PROVE TypeOK'
  BY <1>7, CronAssumption DEF IInv, TypeOK, Quiesce
<1>8. ASSUME NEW p \in Procs, Release(p) PROVE TypeOK'
  BY <1>8, CronAssumption DEF IInv, TypeOK, Release
<1>9. ASSUME NEW p \in Procs, Request(p) PROVE TypeOK'
  <2>1. PICK t \in Tasks : Enqueue(p, "loop", t)
    BY <1>9 DEF Request
  <2>2. "loop" \in Callers
    BY DEF Callers
  <2>3. hand' \in [Procs -> [Callers -> Hands]] /\ inFlight' \in [Procs -> SUBSET Tasks]
    BY <2>1, <2>2, EnqueueFacts DEF IInv
  <2>4. UNCHANGED <<queue, board, work>>
    BY <2>1 DEF Enqueue
  <2> QED
    BY <2>3, <2>4, <1>9 DEF IInv, TypeOK, Request
<1>10. ASSUME NEW p \in Procs, StopLoop(p) PROVE TypeOK'
  BY <1>10, CronAssumption DEF IInv, TypeOK, StopLoop
<1>11. ASSUME NEW p \in Procs, CloseQueues(p) PROVE TypeOK'
  BY <1>11, CronAssumption DEF IInv, TypeOK, CloseQueues
<1>12. ASSUME NEW p \in Procs, Return(p) PROVE TypeOK'
  BY <1>12, CronAssumption DEF IInv, TypeOK, Return
<1>13. ASSUME NEW p \in Procs, NEW c \in Callers, ListQueued(p, c) PROVE TypeOK'
  <2>1. hand[p][c].task \in Tasks \cup {None}
    BY RecordFacts DEF IInv
  <2>2. hand' \in [Procs -> [Callers -> Hands]]
    BY <2>1, <1>13, HoldFacts DEF IInv, ListQueued
  <2>3. board' \in [Procs -> [Tasks -> {"none", "queued", "running"}]]
    BY <1>13, ListFacts DEF IInv, ListQueued
  <2> QED
    BY <2>2, <2>3, <1>13 DEF IInv, TypeOK, ListQueued
<1>14. ASSUME NEW p \in Procs, NEW c \in Callers, SendOrUndo(p, c) PROVE TypeOK'
  <2> DEFINE t == hand[p][c].task
             lane == TaskLane[t]
  <2>1. t \in Tasks /\ lane \in Lanes
    <3>1. hand[p][c].task \in inFlight[p]
      BY <1>14 DEF IInv, Placed, Handing, SendOrUndo
    <3> QED
      BY <3>1, CronAssumption DEF IInv, TypeOK
  <2>2. /\ hand' \in [Procs -> [Callers -> Hands]]
        /\ board' \in [Procs -> [Tasks -> {"none", "queued", "running"}]]
    <3>1. UNCHANGED board \/ List(p, t, "none")
      BY <1>14 DEF SendOrUndo
    <3>2. Hold(p, c, "none", None) \/ Hold(p, c, "undone", t)
      BY <1>14 DEF SendOrUndo
    <3> QED
      BY <2>1, <3>1, <3>2, HoldFacts, ListFacts DEF IInv, TypeOK
  <2>3. queue' \in [Procs -> [Lanes -> Seq(Items)]]
    <3> DEFINE s == queue[p][lane]
               i == [task |-> t, by |-> c]
    <3>1. s \in Seq(Items) /\ i \in Items
      BY <2>1 DEF IInv, TypeOK, Items
    <3>2. Append(s, i) \in Seq(Items)
      BY <3>1, AppendFacts
    <3>3. UNCHANGED queue \/ queue' = [queue EXCEPT ![p][lane] = Append(s, i)]
      BY <1>14 DEF SendOrUndo
    <3>4. queue \in [Procs -> [Lanes -> Seq(Items)]]
      BY DEF IInv, TypeOK
    <3>5. ASSUME NEW x \in Seq(Items), queue' = [queue EXCEPT ![p][lane] = x]
          PROVE  queue' \in [Procs -> [Lanes -> Seq(Items)]]
      BY <2>1, <3>4, <3>5
    <3> QED
      BY <3>2, <3>3, <3>4, <3>5
  <2> QED
    BY <2>2, <2>3, <1>14 DEF IInv, TypeOK, SendOrUndo
<1>15. ASSUME NEW p \in Procs, NEW c \in Callers, Undo(p, c) PROVE TypeOK'
  <2>1. hand' \in [Procs -> [Callers -> Hands]]
    BY <1>15, HoldFacts DEF IInv, Undo
  <2>2. inFlight' \in [Procs -> SUBSET Tasks]
    BY <1>15 DEF IInv, TypeOK, Undo
  <2> QED
    BY <2>1, <2>2, <1>15 DEF IInv, TypeOK, Undo
<1>16. ASSUME NEW p \in Procs, NEW w \in Workers, Take(p, w) PROVE TypeOK'
  <2> DEFINE s == queue[p][WorkerLane[w]]
  <2>1. s \in Seq(Items) /\ s # <<>> /\ WorkerLane[w] \in Lanes
    BY <1>16, CronAssumption DEF IInv, TypeOK, Take
  <2>2. Tail(s) \in Seq(Items) /\ Head(s) \in Items
    BY <2>1, TailFacts
  <2>3. queue' \in [Procs -> [Lanes -> Seq(Items)]]
    BY <2>1, <2>2, <1>16 DEF IInv, TypeOK, Take
  <2>4. work' \in [Procs -> [Workers -> Jobs]]
    BY <2>2, <1>16, WorkAtFacts DEF IInv, Take
  <2> QED
    BY <2>3, <2>4, <1>16 DEF IInv, TypeOK, Take
<1>17. ASSUME NEW p \in Procs, NEW w \in Workers, Begin(p, w) PROVE TypeOK'
  <2>1. work[p][w].item \in Items \cup {NoItem}
    BY RecordFacts DEF IInv
  <2>2. WorkAt(p, w, "ending", work[p][w].item) \/ WorkAt(p, w, "running", work[p][w].item)
    BY <1>17 DEF Begin
  <2>3. work' \in [Procs -> [Workers -> Jobs]]
    BY <2>1, <2>2, WorkAtFacts DEF IInv
  <2>4. UNCHANGED board \/ List(p, work[p][w].item.task, "running")
    BY <1>17 DEF Begin
  <2>5. board' \in [Procs -> [Tasks -> {"none", "queued", "running"}]]
    BY <2>4, ListFacts DEF IInv, TypeOK
  <2> QED
    BY <2>3, <2>5, <1>17 DEF IInv, TypeOK, Begin
<1>18. ASSUME NEW p \in Procs, NEW w \in Workers, RunEnds(p, w) PROVE TypeOK'
  <2>1. work[p][w].item \in Items \cup {NoItem}
    BY RecordFacts DEF IInv
  <2>2. work' \in [Procs -> [Workers -> Jobs]]
    BY <2>1, <1>18, WorkAtFacts DEF IInv, RunEnds
  <2> QED
    BY <2>2, <1>18 DEF IInv, TypeOK, RunEnds
<1>19. ASSUME NEW p \in Procs, NEW w \in Workers, Finish(p, w) PROVE TypeOK'
  <2>1. work[p][w].item \in Items \cup {NoItem}
    BY RecordFacts DEF IInv
  <2>2. CASE Delist(p, w, "ending", "ended")
    <3>1. work' \in [Procs -> [Workers -> Jobs]]
      BY <2>1, <2>2, WorkAtFacts DEF IInv, Delist
    <3>2. board' \in [Procs -> [Tasks -> {"none", "queued", "running"}]]
      BY <2>2, ListFacts DEF IInv, Delist
    <3> QED
      BY <3>1, <3>2, <2>2 DEF IInv, TypeOK, Delist
  <2>3. CASE ClearInFlight(p, w, "ended", "idle")
    <3>1. work' \in [Procs -> [Workers -> Jobs]]
      BY <2>1, <2>3, WorkAtFacts DEF IInv, ClearInFlight
    <3>2. inFlight' \in [Procs -> SUBSET Tasks]
      BY <2>3 DEF IInv, TypeOK, ClearInFlight
    <3> QED
      BY <3>1, <3>2, <2>3 DEF IInv, TypeOK, ClearInFlight
  <2> QED
    BY <2>2, <2>3, <1>19 DEF Finish
<1>20. ASSUME NEW p \in Procs, NEW w \in Workers, Exit(p, w) PROVE TypeOK'
  <2>1. work' \in [Procs -> [Workers -> Jobs]]
    BY <1>20, WorkAtFacts DEF IInv, Exit
  <2> QED
    BY <2>1, <1>20 DEF IInv, TypeOK, Exit
<1>21. CASE UNCHANGED vars
  BY <1>21, CronAssumption DEF IInv, TypeOK, vars
<1> QED
  BY <1>1, <1>2, <1>3, <1>4, <1>5, <1>6, <1>7, <1>8, <1>9, <1>10, <1>11, <1>12,
     <1>13, <1>14, <1>15, <1>16, <1>17, <1>18, <1>19, <1>20, <1>21 DEF Next,
     SchedStep, LoopStep, EnqueueStep, WorkStep, Terminating

-----------------------------------------------------------------------------
\* The steps of a task through its places, point by point.

Marked(p, c, t) ==
  /\ ~Handing(p, c) /\ t \in Tasks /\ t \notin inFlight[p]
  /\ HandSet(p, c, "marked", t)
  /\ \A q \in Procs, x \in Tasks : x \in inFlight'[q] <=> x \in inFlight[q] \/ (q = p /\ x = t)
  /\ UNCHANGED <<queue, board, work>>
Listed(p, c) ==
  /\ hand[p][c].at = "marked" /\ hand[p][c].task \in Tasks
  /\ HandSet(p, c, "listed", hand[p][c].task) /\ BoardSet(p, hand[p][c].task, "queued")
  /\ UNCHANGED <<queue, inFlight, work>>
Sent(p, c) ==
  LET t == hand[p][c].task  l == TaskLane[t] IN
  /\ hand[p][c].at = "listed" /\ t \in Tasks /\ l \in Lanes
  /\ HandSet(p, c, "none", None)
  /\ \A q \in Procs, k \in Lanes : \A n \in Slots(q, k)' :
       \/ /\ q = p /\ k = l /\ n = Len(queue[p][l]) + 1
          /\ queue'[q][k][n].task = t /\ queue'[q][k][n].by = c
       \/ n \in Slots(q, k) /\ queue'[q][k][n] = queue[q][k][n]
  /\ UNCHANGED <<inFlight, board, work>>
Refused(p, c) ==
  /\ hand[p][c].at = "listed" /\ hand[p][c].task \in Tasks
  /\ HandSet(p, c, "undone", hand[p][c].task) /\ BoardSet(p, hand[p][c].task, "none")
  /\ UNCHANGED <<queue, inFlight, work>>
Undone(p, c) ==
  /\ hand[p][c].at = "undone" /\ hand[p][c].task \in Tasks
  /\ HandSet(p, c, "none", None) /\ OutOfFlight(p, hand[p][c].task)
  /\ UNCHANGED <<queue, board, work>>
Taken(p, w) ==
  LET l == WorkerLane[w] IN
  /\ work[p][w].at = "idle" /\ l \in Lanes
  /\ 1 \in Slots(p, l) /\ queue[p][l][1] \in Items
  /\ WorkSet(p, w, "taken", queue[p][l][1])
  /\ \A q \in Procs, k \in Lanes : \A n \in Slots(q, k)' :
       /\ q = p /\ k = l => n \in Nat \ {0} /\ n + 1 \in Slots(q, k) /\ queue'[q][k][n] = queue[q][k][n + 1]
       /\ ~(q = p /\ k = l) => n \in Slots(q, k) /\ queue'[q][k][n] = queue[q][k][n]
  /\ UNCHANGED <<hand, inFlight, board>>
Begun(p, w) ==
  /\ work[p][w].at = "taken" /\ work[p][w].item.task \in Tasks
  /\ WorkSet(p, w, "running", work[p][w].item) /\ BoardSet(p, work[p][w].item.task, "running")
  /\ UNCHANGED <<hand, queue, inFlight>>
RunOver(p, w) ==
  /\ work[p][w].at \in {"taken", "running"}
  /\ WorkSet(p, w, "ending", work[p][w].item)
  /\ UNCHANGED <<hand, queue, inFlight, board>>
Delisted(p, w) ==
  /\ work[p][w].at = "ending" /\ work[p][w].item.task \in Tasks
  /\ WorkSet(p, w, "ended", work[p][w].item) /\ BoardSet(p, work[p][w].item.task, "none")
  /\ UNCHANGED <<hand, queue, inFlight>>
Cleared(p, w) ==
  /\ work[p][w].at = "ended" /\ work[p][w].item.task \in Tasks
  /\ WorkSet(p, w, "idle", work[p][w].item) /\ OutOfFlight(p, work[p][w].item.task)
  /\ UNCHANGED <<hand, queue, board>>
Left(p, w) ==
  /\ work[p][w].at = "idle" /\ WorkSet(p, w, "exited", NoItem)
  /\ UNCHANGED <<hand, queue, inFlight, board>>

DataStep ==
  \/ \E p \in Procs, c \in Callers :
       \/ \E t \in Tasks : Marked(p, c, t)
       \/ Listed(p, c) \/ Sent(p, c) \/ Refused(p, c) \/ Undone(p, c)
  \/ \E p \in Procs, w \in Workers :
       Taken(p, w) \/ Begun(p, w) \/ RunOver(p, w) \/ Delisted(p, w) \/ Cleared(p, w) \/ Left(p, w)

\* A caller of enqueue, and a worker, are busy with a task.
LEMMA TaskFacts ==
  ASSUME IInv, NEW p \in Procs
  PROVE  /\ \A c \in Callers : Handing(p, c) => hand[p][c].task \in Tasks
         /\ \A w \in Workers : Busy(p, w) => work[p][w].item.task \in Tasks
         /\ \A l \in Lanes : Len(queue[p][l]) \in Nat
BY DEF IInv, Placed, TypeOK

\* Every step takes a task to its next place or moves none.
LEMMA DataSteps == IInv /\ [Next]_vars => [DataStep]_taskVars
<1> SUFFICES ASSUME IInv, [Next]_vars PROVE [DataStep]_taskVars
  OBVIOUS
<1> USE DEF vars, ctlVars, taskVars
<1>1. ASSUME NEW p \in Procs, Cancel(p) PROVE [DataStep]_taskVars
  BY <1>1 DEF Cancel
<1>2. ASSUME NEW p \in Procs, Lock(p) PROVE [DataStep]_taskVars
  BY <1>2 DEF Lock
<1>3. ASSUME NEW p \in Procs, LockFails(p) PROVE [DataStep]_taskVars
  BY <1>3 DEF LockFails
<1>4. ASSUME NEW p \in Procs, Tick(p) PROVE [DataStep]_taskVars
  BY <1>4 DEF Tick
<1>5. ASSUME NEW p \in Procs, EnqueueDue(p) PROVE [DataStep]_taskVars
  <2>1. PICK t \in Tasks : Enqueue(p, "sched", t)
    BY <1>5 DEF IInv, TypeOK, EnqueueDue
  <2>2. "sched" \in Callers /\ ~Handing(p, "sched")
    BY <1>5 DEF Callers, Handing, EnqueueDue
  <2>3. CASE p \in cancelled \/ t \in inFlight[p]
    BY <2>1, <2>3 DEF Enqueue
  <2>4. CASE ~(p \in cancelled \/ t \in inFlight[p])
    <3>1. HandSet(p, "sched", "marked", t)
      BY <2>1, <2>2, <2>4, HoldFacts DEF IInv, Enqueue
    <3>2. Marked(p, "sched", t)
      BY <2>1, <2>2, <2>4, <3>1 DEF IInv, TypeOK, Marked, Enqueue
    <3> QED
      BY <2>2, <3>2 DEF DataStep
  <2> QED
    BY <2>3, <2>4
<1>6. ASSUME NEW p \in Procs, TickEnds(p) PROVE [DataStep]_taskVars
  BY <1>6 DEF TickEnds
<1>7. ASSUME NEW p \in Procs, Quiesce(p) PROVE [DataStep]_taskVars
  BY <1>7 DEF Quiesce
<1>8. ASSUME NEW p \in Procs, Release(p) PROVE [DataStep]_taskVars
  BY <1>8 DEF Release
<1>9. ASSUME NEW p \in Procs, Request(p) PROVE [DataStep]_taskVars
  <2>1. PICK t \in Tasks : Enqueue(p, "loop", t)
    BY <1>9 DEF IInv, TypeOK, Request
  <2>2. "loop" \in Callers /\ ~Handing(p, "loop")
    BY <1>9 DEF Callers, Handing, Request
  <2>3. CASE p \in cancelled \/ t \in inFlight[p]
    BY <2>1, <2>3 DEF Enqueue
  <2>4. CASE ~(p \in cancelled \/ t \in inFlight[p])
    <3>1. HandSet(p, "loop", "marked", t)
      BY <2>1, <2>2, <2>4, HoldFacts DEF IInv, Enqueue
    <3>2. Marked(p, "loop", t)
      BY <2>1, <2>2, <2>4, <3>1 DEF IInv, TypeOK, Marked, Enqueue
    <3> QED
      BY <2>2, <3>2 DEF DataStep
  <2> QED
    BY <2>3, <2>4
<1>10. ASSUME NEW p \in Procs, StopLoop(p) PROVE [DataStep]_taskVars
  BY <1>10 DEF StopLoop
<1>11. ASSUME NEW p \in Procs, CloseQueues(p) PROVE [DataStep]_taskVars
  BY <1>11 DEF CloseQueues
<1>12. ASSUME NEW p \in Procs, Return(p) PROVE [DataStep]_taskVars
  BY <1>12 DEF Return
<1>13. ASSUME NEW p \in Procs, NEW c \in Callers, ListQueued(p, c)
       PROVE  [DataStep]_taskVars
  <2>1. hand[p][c].task \in Tasks
    BY <1>13, TaskFacts DEF Handing, ListQueued
  <2>2. HandSet(p, c, "listed", hand[p][c].task) /\ BoardSet(p, hand[p][c].task, "queued")
    BY <2>1, <1>13, HoldFacts, ListFacts DEF IInv, ListQueued
  <2> QED
    BY <2>1, <2>2, <1>13 DEF DataStep, Listed, ListQueued
<1>14. ASSUME NEW p \in Procs, NEW c \in Callers, SendOrUndo(p, c)
       PROVE  [DataStep]_taskVars
  <2> DEFINE t == hand[p][c].task
             s == queue[p][TaskLane[t]]
             i == [task |-> t, by |-> c]
  <2>1. t \in Tasks /\ TaskLane[t] \in Lanes /\ s \in Seq(Items) /\ i \in Items
    <3>1. t \in Tasks
      BY <1>14, TaskFacts DEF Handing, SendOrUndo
    <3>2. TaskLane[t] \in Lanes
      BY <3>1, CronAssumption
    <3>3. i \in Items
      BY <3>1 DEF Items
    <3> QED
      BY <3>1, <3>2, <3>3 DEF IInv, TypeOK
  <2>2. CASE Len(s) < QueueSize
    <3>1. queue' = [queue EXCEPT ![p][TaskLane[t]] = Append(s, i)]
      BY <2>2, <1>14 DEF SendOrUndo
    <3>2. /\ queue'[p][TaskLane[t]] = Append(s, i)
          /\ \A q \in Procs, l \in Lanes : ~(q = p /\ l = TaskLane[t]) => queue'[q][l] = queue[q][l]
      BY <2>1, <3>1 DEF IInv, TypeOK
    <3>3. HandSet(p, c, "none", None)
      BY <2>2, <1>14, HoldFacts DEF IInv, SendOrUndo
    <3>4. /\ Len(Append(s, i)) = Len(s) + 1 /\ Append(s, i)[Len(s) + 1] = i
          /\ \A n \in 1 .. Len(s) : Append(s, i)[n] = s[n]
      BY <2>1, AppendFacts
    <3>5. hand[p][c].at = "listed" /\ UNCHANGED <<inFlight, board, work>>
      BY <2>2, <1>14 DEF SendOrUndo
    <3>6. i.task = t /\ i.by = c
      OBVIOUS
    <3>7. ASSUME NEW q \in Procs, NEW k \in Lanes, NEW n \in Slots(q, k)'
          PROVE  \/ /\ q = p /\ k = TaskLane[t] /\ n = Len(s) + 1
                    /\ queue'[q][k][n].task = t /\ queue'[q][k][n].by = c
                 \/ n \in Slots(q, k) /\ queue'[q][k][n] = queue[q][k][n]
      <4>1. CASE q = p /\ k = TaskLane[t]
        <5>1. n \in 1 .. Len(s) + 1 /\ Len(s) \in Nat
          <6>1. n \in 1 .. Len(queue'[p][TaskLane[t]])
            BY <3>7, <4>1 DEF Slots
          <6>2. Len(queue'[p][TaskLane[t]]) = Len(s) + 1
            BY <3>2, <3>4
          <6>3. Len(s) \in Nat
            BY <2>1, AppendFacts
          <6> QED
            BY <6>1, <6>2, <6>3
        <5>2. n \in 1 .. Len(s) \/ n = Len(s) + 1
          BY SMTT(20), <5>1
        <5> QED
          BY <3>2, <3>4, <3>6, <4>1, <5>2 DEF Slots
      <4>2. CASE ~(q = p /\ k = TaskLane[t])
        BY <3>2, <3>7, <4>2 DEF Slots
      <4> QED
        BY <4>1, <4>2
    <3>8. Sent(p, c)
      BY <2>1, <3>3, <3>5, <3>7 DEF Sent
    <3> QED
      BY <3>8 DEF DataStep
  <2>3. CASE ~(Len(s) < QueueSize)
    <3>1. HandSet(p, c, "undone", t) /\ BoardSet(p, t, "none")
      BY <2>1, <2>3, <1>14, HoldFacts, ListFacts DEF IInv, SendOrUndo
    <3> QED
      BY <2>1, <2>3, <3>1, <1>14 DEF DataStep, Refused, SendOrUndo
  <2> QED
    BY <2>2, <2>3
<1>15. ASSUME NEW p \in Procs, NEW c \in Callers, Undo(p, c) PROVE [DataStep]_taskVars
  <2>1. hand[p][c].task \in Tasks
    BY <1>15, TaskFacts DEF Handing, Undo
  <2>2. HandSet(p, c, "none", None)
    BY <1>15, HoldFacts DEF IInv, Undo
  <2>3. OutOfFlight(p, hand[p][c].task)
    BY <2>1, <1>15 DEF IInv, TypeOK, OutOfFlight, Undo
  <2> QED
    BY <2>1, <2>2, <2>3, <1>15 DEF DataStep, Undone, Undo
<1>16. ASSUME NEW p \in Procs, NEW w \in Workers, Take(p, w) PROVE [DataStep]_taskVars
  <2> DEFINE s == queue[p][WorkerLane[w]]
  <2>1. s \in Seq(Items) /\ s # <<>> /\ WorkerLane[w] \in Lanes /\ work[p][w].at = "idle"
    BY <1>16, CronAssumption DEF IInv, TypeOK, Take
  <2>2. /\ queue'[p][WorkerLane[w]] = Tail(s)
        /\ \A q \in Procs, l \in Lanes : ~(q = p /\ l = WorkerLane[w]) => queue'[q][l] = queue[q][l]
    BY <2>1, <1>16 DEF IInv, TypeOK, Take
  <2>3. Head(s) = s[1] /\ s[1] \in Items
    BY <2>1, TailFacts
  <2>4. WorkSet(p, w, "taken", s[1])
    BY <2>3, <1>16, WorkAtFacts DEF IInv, Take
  <2>5. /\ Len(Tail(s)) = Len(s) - 1 /\ Len(s) \in Nat /\ Len(s) >= 1
        /\ \A n \in 1 .. Len(s) - 1 : Tail(s)[n] = s[n + 1]
    BY <2>1, TailFacts
  <2>6. ASSUME NEW q \in Procs, NEW k \in Lanes, NEW n \in Slots(q, k)'
        PROVE  /\ q = p /\ k = WorkerLane[w] =>
                    n \in Nat \ {0} /\ n + 1 \in Slots(q, k) /\ queue'[q][k][n] = queue[q][k][n + 1]
               /\ ~(q = p /\ k = WorkerLane[w]) =>
                    n \in Slots(q, k) /\ queue'[q][k][n] = queue[q][k][n]
    <3>1. CASE q = p /\ k = WorkerLane[w]
      <4>1. n \in 1 .. Len(s) - 1
        BY <2>2, <2>5, <2>6, <3>1 DEF Slots
      <4>2. n \in Nat \ {0} /\ n + 1 \in 1 .. Len(s)
        BY <2>5, <4>1
      <4> QED
        BY <2>2, <2>5, <3>1, <4>1, <4>2 DEF Slots
    <3>2. CASE ~(q = p /\ k = WorkerLane[w])
      BY <2>2, <2>6, <3>2 DEF Slots
    <3> QED
      BY <3>1, <3>2
  <2>7. 1 \in Slots(p, WorkerLane[w])
    BY <2>5 DEF Slots
  <2>8. Taken(p, w)
    BY <2>1, <2>3, <2>4, <2>6, <2>7, <1>16 DEF Taken, Take
  <2> QED
    BY <2>8 DEF DataStep
<1>17. ASSUME NEW p \in Procs, NEW w \in Workers, Begin(p, w) PROVE [DataStep]_taskVars
  <2>1. Busy(p, w) => work[p][w].item.task \in Tasks
    BY TaskFacts
  <2>2. work[p][w].at = "taken" /\ work[p][w].item.task \in Tasks
    BY <2>1, <1>17 DEF Busy, Begin
  <2>3. CASE p \in cancelled
    <3>1. WorkSet(p, w, "ending", work[p][w].item)
      BY <2>3, <1>17, RecordFacts, WorkAtFacts DEF IInv, Begin
    <3> QED
      BY <2>2, <2>3, <3>1, <1>17 DEF DataStep, RunOver, Begin
  <2>4. CASE p \notin cancelled
    <3>1. WorkSet(p, w, "running", work[p][w].item)
      BY <2>4, <1>17, RecordFacts, WorkAtFacts DEF IInv, Begin
    <3>2. BoardSet(p, work[p][w].item.task, "running")
      BY <2>2, <2>4, <1>17, ListFacts DEF IInv, Begin
    <3> QED
      BY <2>2, <2>4, <3>1, <3>2, <1>17 DEF DataStep, Begun, Begin
  <2> QED
    BY <2>3, <2>4
<1>18. ASSUME NEW p \in Procs, NEW w \in Workers, RunEnds(p, w)
       PROVE  [DataStep]_taskVars
  <2>1. WorkSet(p, w, "ending", work[p][w].item)
    BY <1>18, RecordFacts, WorkAtFacts DEF IInv, RunEnds
  <2> QED
    BY <2>1, <1>18 DEF DataStep, RunOver, RunEnds
<1>19. ASSUME NEW p \in Procs, NEW w \in Workers, Finish(p, w) PROVE [DataStep]_taskVars
  <2>1. Busy(p, w) => work[p][w].item.task \in Tasks
    BY TaskFacts
  <2>2. CASE Delist(p, w, "ending", "ended")
    <3>1. work[p][w].at = "ending" /\ work[p][w].item.task \in Tasks
      BY <2>1, <2>2 DEF Busy, Delist
    <3>2. WorkSet(p, w, "ended", work[p][w].item)
      BY <2>2, RecordFacts, WorkAtFacts DEF IInv, Delist
    <3>3. BoardSet(p, work[p][w].item.task, "none")
      BY <3>1, <2>2, ListFacts DEF IInv, Delist
    <3> QED
      BY <2>2, <3>1, <3>2, <3>3 DEF DataStep, Delisted, Delist
  <2>3. CASE ClearInFlight(p, w, "ended", "idle")
    <3>1. work[p][w].at = "ended" /\ work[p][w].item.task \in Tasks
      BY <2>1, <2>3 DEF Busy, ClearInFlight
    <3>2. WorkSet(p, w, "idle", work[p][w].item)
      BY <2>3, RecordFacts, WorkAtFacts DEF IInv, ClearInFlight
    <3>3. OutOfFlight(p, work[p][w].item.task)
      BY <3>1, <2>3 DEF IInv, TypeOK, OutOfFlight, ClearInFlight
    <3> QED
      BY <2>3, <3>1, <3>2, <3>3 DEF DataStep, Cleared, ClearInFlight
  <2> QED
    BY <2>2, <2>3, <1>19 DEF Finish
<1>20. ASSUME NEW p \in Procs, NEW w \in Workers, Exit(p, w) PROVE [DataStep]_taskVars
  <2>1. WorkSet(p, w, "exited", NoItem)
    BY <1>20, WorkAtFacts DEF IInv, Exit
  <2> QED
    BY <2>1, <1>20 DEF DataStep, Left, Exit
<1>21. CASE UNCHANGED vars
  BY <1>21
<1> QED
  BY <1>1, <1>2, <1>3, <1>4, <1>5, <1>6, <1>7, <1>8, <1>9, <1>10, <1>11, <1>12,
     <1>13, <1>14, <1>15, <1>16, <1>17, <1>18, <1>19, <1>20, <1>21 DEF Next,
     SchedStep, LoopStep, EnqueueStep, WorkStep, Terminating

-----------------------------------------------------------------------------
\* A task in a hand is in no other hand.
LEMMA OneHandStep == IInv /\ [DataStep]_taskVars => OneHand'
<1> SUFFICES ASSUME IInv, [DataStep]_taskVars,
                  NEW q \in Procs, NEW d \in Callers, NEW e \in Callers, Handing(q,
                     d)', Handing(q, e)', hand'[q][d].task = hand'[q][e].task
             PROVE  d = e
  BY DEF OneHand
<1>1. ASSUME NEW p \in Procs, NEW c \in Callers, NEW t \in Tasks, Marked(p, c, t)
      PROVE  d = e
  BY <1>1, TaskFacts DEF IInv, Placed, Apart, OneHand, Handing, Busy, Slots,
     HandSet, Marked
<1>2. ASSUME NEW p \in Procs, NEW c \in Callers, Listed(p, c) PROVE d = e
  BY <1>2, TaskFacts DEF IInv, Placed, Apart, OneHand, Handing, Busy, Slots,
     HandSet, BoardSet, Listed
<1>3. ASSUME NEW p \in Procs, NEW c \in Callers, Sent(p, c) PROVE d = e
  BY <1>3, TaskFacts DEF IInv, Placed, Apart, OneHand, Handing, Busy, HandSet, Sent
<1>4. ASSUME NEW p \in Procs, NEW c \in Callers, Refused(p, c) PROVE d = e
  BY <1>4, TaskFacts DEF IInv, Placed, Apart, OneHand, Handing, Busy, Slots,
     HandSet, BoardSet, Refused
<1>5. ASSUME NEW p \in Procs, NEW c \in Callers, Undone(p, c) PROVE d = e
  BY <1>5, TaskFacts DEF IInv, Placed, Apart, OneHand, Handing, Busy, Slots,
     HandSet, OutOfFlight, Undone
<1>6. ASSUME NEW p \in Procs, NEW w \in Workers, Taken(p, w) PROVE d = e
  BY <1>6, TaskFacts DEF IInv, Placed, Apart, OneHand, Handing, Busy, WorkSet, Taken
<1>7. ASSUME NEW p \in Procs, NEW w \in Workers, Begun(p, w) PROVE d = e
  BY <1>7, TaskFacts DEF IInv, Placed, Apart, OneHand, Handing, Busy, Slots,
     WorkSet, BoardSet, Begun
<1>8. ASSUME NEW p \in Procs, NEW w \in Workers, RunOver(p, w) PROVE d = e
  BY <1>8, TaskFacts DEF IInv, Placed, Apart, OneHand, Handing, Busy, Slots,
     WorkSet, RunOver
<1>9. ASSUME NEW p \in Procs, NEW w \in Workers, Delisted(p, w) PROVE d = e
  BY <1>9, TaskFacts DEF IInv, Placed, Apart, OneHand, Handing, Busy, Slots,
     WorkSet, BoardSet, Delisted
<1>10. ASSUME NEW p \in Procs, NEW w \in Workers, Cleared(p, w) PROVE d = e
  BY <1>10, TaskFacts DEF IInv, Placed, Apart, OneHand, Handing, Busy, Slots,
     WorkSet, OutOfFlight, Cleared
<1>11. ASSUME NEW p \in Procs, NEW w \in Workers, Left(p, w) PROVE d = e
  BY <1>11, TaskFacts DEF IInv, Placed, Apart, OneHand, Handing, Busy, Slots,
     WorkSet, Left
<1>12. CASE UNCHANGED taskVars
  BY <1>12, TaskFacts DEF IInv, Placed, Apart, OneHand, Handing, Busy, Slots,
     taskVars
<1> QED
  BY <1>1, <1>2, <1>3, <1>4, <1>5, <1>6, <1>7, <1>8, <1>9, <1>10, <1>11, <1>12
     DEF DataStep

\* A task in a hand is in no queue.
LEMMA HandOrQueueStep == IInv /\ [DataStep]_taskVars => HandOrQueue'
<1> SUFFICES ASSUME IInv, [DataStep]_taskVars,
                  NEW q \in Procs, NEW d \in Callers, NEW k \in Lanes, NEW n \in
                     Slots(q, k)', Handing(q, d)'
             PROVE  queue'[q][k][n].task # hand'[q][d].task
  BY DEF HandOrQueue
<1>1. ASSUME NEW p \in Procs, NEW c \in Callers, NEW t \in Tasks, Marked(p, c, t)
      PROVE  queue'[q][k][n].task # hand'[q][d].task
  BY SMTT(20), <1>1, TaskFacts DEF IInv, Placed, Apart, HandOrQueue, OneHand, Handing, Busy,
     Slots, HandSet, Marked
<1>2. ASSUME NEW p \in Procs, NEW c \in Callers, Listed(p, c)
      PROVE  queue'[q][k][n].task # hand'[q][d].task
  BY <1>2, TaskFacts DEF IInv, Placed, Apart, HandOrQueue, OneHand, Handing, Busy,
     Slots, HandSet, BoardSet, Listed
<1>3. ASSUME NEW p \in Procs, NEW c \in Callers, Sent(p, c)
      PROVE  queue'[q][k][n].task # hand'[q][d].task
  BY <1>3, TaskFacts DEF IInv, Placed, Apart, HandOrQueue, OneHand, Handing, Busy,
     HandSet, Sent
<1>4. ASSUME NEW p \in Procs, NEW c \in Callers, Refused(p, c)
      PROVE  queue'[q][k][n].task # hand'[q][d].task
  BY <1>4, TaskFacts DEF IInv, Placed, Apart, HandOrQueue, OneHand, Handing, Busy,
     Slots, HandSet, BoardSet, Refused
<1>5. ASSUME NEW p \in Procs, NEW c \in Callers, Undone(p, c)
      PROVE  queue'[q][k][n].task # hand'[q][d].task
  BY <1>5, TaskFacts DEF IInv, Placed, Apart, HandOrQueue, OneHand, Handing, Busy,
     Slots, HandSet, OutOfFlight, Undone
<1>6. ASSUME NEW p \in Procs, NEW w \in Workers, Taken(p, w)
      PROVE  queue'[q][k][n].task # hand'[q][d].task
  BY <1>6, TaskFacts DEF IInv, Placed, Apart, HandOrQueue, OneHand, Handing, Busy,
     WorkSet, Taken
<1>7. ASSUME NEW p \in Procs, NEW w \in Workers, Begun(p, w)
      PROVE  queue'[q][k][n].task # hand'[q][d].task
  BY <1>7, TaskFacts DEF IInv, Placed, Apart, HandOrQueue, OneHand, Handing, Busy,
     Slots, WorkSet, BoardSet, Begun
<1>8. ASSUME NEW p \in Procs, NEW w \in Workers, RunOver(p, w)
      PROVE  queue'[q][k][n].task # hand'[q][d].task
  BY <1>8, TaskFacts DEF IInv, Placed, Apart, HandOrQueue, OneHand, Handing, Busy,
     Slots, WorkSet, RunOver
<1>9. ASSUME NEW p \in Procs, NEW w \in Workers, Delisted(p, w)
      PROVE  queue'[q][k][n].task # hand'[q][d].task
  BY <1>9, TaskFacts DEF IInv, Placed, Apart, HandOrQueue, OneHand, Handing, Busy,
     Slots, WorkSet, BoardSet, Delisted
<1>10. ASSUME NEW p \in Procs, NEW w \in Workers, Cleared(p, w)
       PROVE  queue'[q][k][n].task # hand'[q][d].task
  BY <1>10, TaskFacts DEF IInv, Placed, Apart, HandOrQueue, OneHand, Handing, Busy,
     Slots, WorkSet, OutOfFlight, Cleared
<1>11. ASSUME NEW p \in Procs, NEW w \in Workers, Left(p, w)
       PROVE  queue'[q][k][n].task # hand'[q][d].task
  BY <1>11, TaskFacts DEF IInv, Placed, Apart, HandOrQueue, OneHand, Handing, Busy,
     Slots, WorkSet, Left
<1>12. CASE UNCHANGED taskVars
  BY <1>12, TaskFacts DEF IInv, Placed, Apart, HandOrQueue, OneHand, Handing, Busy,
     Slots, taskVars
<1> QED
  BY <1>1, <1>2, <1>3, <1>4, <1>5, <1>6, <1>7, <1>8, <1>9, <1>10, <1>11, <1>12
     DEF DataStep

\* A task in a hand is with no worker.
LEMMA HandOrWorkerStep == IInv /\ [DataStep]_taskVars => HandOrWorker'
<1> SUFFICES ASSUME IInv, [DataStep]_taskVars,
                  NEW q \in Procs, NEW d \in Callers, NEW v \in Workers, Handing(q,
                     d)', Busy(q, v)'
             PROVE  work'[q][v].item.task # hand'[q][d].task
  BY DEF HandOrWorker
<1>1. ASSUME NEW p \in Procs, NEW c \in Callers, NEW t \in Tasks, Marked(p, c, t)
      PROVE  work'[q][v].item.task # hand'[q][d].task
  BY <1>1, TaskFacts DEF IInv, Placed, Apart, HandOrWorker, HandOrQueue, Handing,
     Busy, Slots, HandSet, Marked
<1>2. ASSUME NEW p \in Procs, NEW c \in Callers, Listed(p, c)
      PROVE  work'[q][v].item.task # hand'[q][d].task
  BY <1>2, TaskFacts DEF IInv, Placed, Apart, HandOrWorker, HandOrQueue, Handing,
     Busy, Slots, HandSet, BoardSet, Listed
<1>3. ASSUME NEW p \in Procs, NEW c \in Callers, Sent(p, c)
      PROVE  work'[q][v].item.task # hand'[q][d].task
  BY <1>3, TaskFacts DEF IInv, Placed, Apart, HandOrWorker, HandOrQueue, Handing,
     Busy, HandSet, Sent
<1>4. ASSUME NEW p \in Procs, NEW c \in Callers, Refused(p, c)
      PROVE  work'[q][v].item.task # hand'[q][d].task
  BY <1>4, TaskFacts DEF IInv, Placed, Apart, HandOrWorker, HandOrQueue, Handing,
     Busy, Slots, HandSet, BoardSet, Refused
<1>5. ASSUME NEW p \in Procs, NEW c \in Callers, Undone(p, c)
      PROVE  work'[q][v].item.task # hand'[q][d].task
  BY <1>5, TaskFacts DEF IInv, Placed, Apart, HandOrWorker, HandOrQueue, Handing,
     Busy, Slots, HandSet, OutOfFlight, Undone
<1>6. ASSUME NEW p \in Procs, NEW w \in Workers, Taken(p, w)
      PROVE  work'[q][v].item.task # hand'[q][d].task
  BY <1>6, TaskFacts DEF IInv, Placed, Apart, HandOrWorker, HandOrQueue, Handing,
     Busy, WorkSet, Taken
<1>7. ASSUME NEW p \in Procs, NEW w \in Workers, Begun(p, w)
      PROVE  work'[q][v].item.task # hand'[q][d].task
  BY <1>7, TaskFacts DEF IInv, Placed, Apart, HandOrWorker, HandOrQueue, Handing,
     Busy, Slots, WorkSet, BoardSet, Begun
<1>8. ASSUME NEW p \in Procs, NEW w \in Workers, RunOver(p, w)
      PROVE  work'[q][v].item.task # hand'[q][d].task
  BY <1>8, TaskFacts DEF IInv, Placed, Apart, HandOrWorker, HandOrQueue, Handing,
     Busy, Slots, WorkSet, RunOver
<1>9. ASSUME NEW p \in Procs, NEW w \in Workers, Delisted(p, w)
      PROVE  work'[q][v].item.task # hand'[q][d].task
  BY <1>9, TaskFacts DEF IInv, Placed, Apart, HandOrWorker, HandOrQueue, Handing,
     Busy, Slots, WorkSet, BoardSet, Delisted
<1>10. ASSUME NEW p \in Procs, NEW w \in Workers, Cleared(p, w)
       PROVE  work'[q][v].item.task # hand'[q][d].task
  BY <1>10, TaskFacts DEF IInv, Placed, Apart, HandOrWorker, HandOrQueue, Handing,
     Busy, Slots, WorkSet, OutOfFlight, Cleared
<1>11. ASSUME NEW p \in Procs, NEW w \in Workers, Left(p, w)
       PROVE  work'[q][v].item.task # hand'[q][d].task
  BY <1>11, TaskFacts DEF IInv, Placed, Apart, HandOrWorker, HandOrQueue, Handing,
     Busy, Slots, WorkSet, Left
<1>12. CASE UNCHANGED taskVars
  BY <1>12, TaskFacts DEF IInv, Placed, Apart, HandOrWorker, HandOrQueue, Handing,
     Busy, Slots, taskVars
<1> QED
  BY <1>1, <1>2, <1>3, <1>4, <1>5, <1>6, <1>7, <1>8, <1>9, <1>10, <1>11, <1>12
     DEF DataStep

\* A task is in one queue, once.
LEMMA OneSlotStep == IInv /\ [DataStep]_taskVars => OneSlot'
<1> SUFFICES ASSUME IInv, [DataStep]_taskVars,
                  NEW q \in Procs, NEW k \in Lanes, NEW m \in Slots(q, k)', NEW n
                     \in Slots(q, k)', queue'[q][k][m].task = queue'[q][k][n].task
             PROVE  m = n
  BY DEF OneSlot
<1>1. ASSUME NEW p \in Procs, NEW c \in Callers, NEW t \in Tasks, Marked(p, c, t)
      PROVE  m = n
  BY <1>1, TaskFacts DEF IInv, Placed, Apart, OneSlot, HandOrQueue, Handing, Busy,
     Slots, HandSet, Marked
<1>2. ASSUME NEW p \in Procs, NEW c \in Callers, Listed(p, c) PROVE m = n
  BY <1>2, TaskFacts DEF IInv, Placed, Apart, OneSlot, HandOrQueue, Handing, Busy,
     Slots, HandSet, BoardSet, Listed
<1>3. ASSUME NEW p \in Procs, NEW c \in Callers, Sent(p, c) PROVE m = n
  BY <1>3, TaskFacts DEF IInv, Placed, Apart, OneSlot, HandOrQueue, Handing, Busy,
     HandSet, Sent
<1>4. ASSUME NEW p \in Procs, NEW c \in Callers, Refused(p, c) PROVE m = n
  BY <1>4, TaskFacts DEF IInv, Placed, Apart, OneSlot, HandOrQueue, Handing, Busy,
     Slots, HandSet, BoardSet, Refused
<1>5. ASSUME NEW p \in Procs, NEW c \in Callers, Undone(p, c) PROVE m = n
  BY <1>5, TaskFacts DEF IInv, Placed, Apart, OneSlot, HandOrQueue, Handing, Busy,
     Slots, HandSet, OutOfFlight, Undone
<1>6. ASSUME NEW p \in Procs, NEW w \in Workers, Taken(p, w) PROVE m = n
  <2> DEFINE l == WorkerLane[w]
  <2>1. /\ \A x \in Workers : ~(q = p /\ x = w) => work'[q][x] = work[q][x]
        /\ q = p => work'[q][w].item = queue[p][l][1] /\ ~Busy(p, w)
    BY <1>6 DEF Taken, WorkSet, Busy
  <2>2. l \in Lanes /\ 1 \in Slots(p, l)
    BY <1>6 DEF Taken
  <2>3. UNCHANGED hand
    BY <1>6 DEF Taken
  <2>4. /\ ~(q = p /\ k = l) => \A x \in Slots(q, k)' : x \in Slots(q, k) /\ queue'[q][k][x] = queue[q][k][x]
        /\ q = p /\ k = l => \A x \in Slots(q, k)' :
             x \in Nat \ {0} /\ x + 1 \in Slots(p, l) /\ queue'[q][k][x] = queue[p][l][x + 1]
    BY <1>6 DEF Taken
  <2>5. CASE q = p /\ k = l
    <3>1. /\ m \in Nat /\ n \in Nat /\ m + 1 \in Slots(p, l) /\ n + 1 \in Slots(p, l)
          /\ queue[p][l][m + 1].task = queue[p][l][n + 1].task
      BY <2>4, <2>5
    <3>2. m + 1 = n + 1
      BY <2>2, <3>1 DEF IInv, Apart, OneSlot
    <3> QED
      BY <3>1, <3>2
  <2>6. CASE ~(q = p /\ k = l)
    BY <2>4, <2>6 DEF IInv, Apart, OneSlot
  <2> QED
    BY <2>5, <2>6
<1>7. ASSUME NEW p \in Procs, NEW w \in Workers, Begun(p, w) PROVE m = n
  BY <1>7, TaskFacts DEF IInv, Placed, Apart, OneSlot, HandOrQueue, Handing, Busy,
     Slots, WorkSet, BoardSet, Begun
<1>8. ASSUME NEW p \in Procs, NEW w \in Workers, RunOver(p, w) PROVE m = n
  BY <1>8, TaskFacts DEF IInv, Placed, Apart, OneSlot, HandOrQueue, Handing, Busy,
     Slots, WorkSet, RunOver
<1>9. ASSUME NEW p \in Procs, NEW w \in Workers, Delisted(p, w) PROVE m = n
  BY <1>9, TaskFacts DEF IInv, Placed, Apart, OneSlot, HandOrQueue, Handing, Busy,
     Slots, WorkSet, BoardSet, Delisted
<1>10. ASSUME NEW p \in Procs, NEW w \in Workers, Cleared(p, w) PROVE m = n
  BY <1>10, TaskFacts DEF IInv, Placed, Apart, OneSlot, HandOrQueue, Handing, Busy,
     Slots, WorkSet, OutOfFlight, Cleared
<1>11. ASSUME NEW p \in Procs, NEW w \in Workers, Left(p, w) PROVE m = n
  BY <1>11, TaskFacts DEF IInv, Placed, Apart, OneSlot, HandOrQueue, Handing, Busy,
     Slots, WorkSet, Left
<1>12. CASE UNCHANGED taskVars
  BY <1>12, TaskFacts DEF IInv, Placed, Apart, OneSlot, HandOrQueue, Handing, Busy,
     Slots, taskVars
<1> QED
  BY <1>1, <1>2, <1>3, <1>4, <1>5, <1>6, <1>7, <1>8, <1>9, <1>10, <1>11, <1>12
     DEF DataStep

\* A task in a queue is with no worker.
LEMMA QueueOrWorkerStep == IInv /\ [DataStep]_taskVars => QueueOrWorker'
<1> SUFFICES ASSUME IInv, [DataStep]_taskVars,
                  NEW q \in Procs, NEW k \in Lanes, NEW v \in Workers, NEW n \in
                     Slots(q, k)', Busy(q, v)'
             PROVE  queue'[q][k][n].task # work'[q][v].item.task
  BY DEF QueueOrWorker
<1>1. ASSUME NEW p \in Procs, NEW c \in Callers, NEW t \in Tasks, Marked(p, c, t)
      PROVE  queue'[q][k][n].task # work'[q][v].item.task
  BY <1>1, TaskFacts DEF IInv, Placed, Apart, QueueOrWorker, HandOrWorker, OneSlot,
     Handing, Busy, Slots, HandSet, Marked
<1>2. ASSUME NEW p \in Procs, NEW c \in Callers, Listed(p, c)
      PROVE  queue'[q][k][n].task # work'[q][v].item.task
  BY <1>2, TaskFacts DEF IInv, Placed, Apart, QueueOrWorker, HandOrWorker, OneSlot,
     Handing, Busy, Slots, HandSet, BoardSet, Listed
<1>3. ASSUME NEW p \in Procs, NEW c \in Callers, Sent(p, c)
      PROVE  queue'[q][k][n].task # work'[q][v].item.task
  BY <1>3, TaskFacts DEF IInv, Placed, Apart, QueueOrWorker, HandOrWorker, OneSlot,
     Handing, Busy, HandSet, Sent
<1>4. ASSUME NEW p \in Procs, NEW c \in Callers, Refused(p, c)
      PROVE  queue'[q][k][n].task # work'[q][v].item.task
  BY <1>4, TaskFacts DEF IInv, Placed, Apart, QueueOrWorker, HandOrWorker, OneSlot,
     Handing, Busy, Slots, HandSet, BoardSet, Refused
<1>5. ASSUME NEW p \in Procs, NEW c \in Callers, Undone(p, c)
      PROVE  queue'[q][k][n].task # work'[q][v].item.task
  BY <1>5, TaskFacts DEF IInv, Placed, Apart, QueueOrWorker, HandOrWorker, OneSlot,
     Handing, Busy, Slots, HandSet, OutOfFlight, Undone
<1>6. ASSUME NEW p \in Procs, NEW w \in Workers, Taken(p, w)
      PROVE  queue'[q][k][n].task # work'[q][v].item.task
  <2> DEFINE l == WorkerLane[w]
  <2>1. /\ \A x \in Workers : ~(q = p /\ x = w) => work'[q][x] = work[q][x]
        /\ q = p => work'[q][w].item = queue[p][l][1] /\ ~Busy(p, w)
    BY <1>6 DEF Taken, WorkSet, Busy
  <2>2. l \in Lanes /\ 1 \in Slots(p, l)
    BY <1>6 DEF Taken
  <2>3. UNCHANGED hand
    BY <1>6 DEF Taken
  <2>4. /\ ~(q = p /\ k = l) => \A x \in Slots(q, k)' : x \in Slots(q, k) /\ queue'[q][k][x] = queue[q][k][x]
        /\ q = p /\ k = l => \A x \in Slots(q, k)' :
             x \in Nat \ {0} /\ x + 1 \in Slots(p, l) /\ queue'[q][k][x] = queue[p][l][x + 1]
    BY <1>6 DEF Taken
  <2>5. \E m \in Slots(q, k) : /\ queue'[q][k][n] = queue[q][k][m]
                               /\ q = p /\ k = l => m # 1
    BY <2>4
  <2>6. PICK m \in Slots(q, k) : queue'[q][k][n] = queue[q][k][m] /\ (q = p /\ k = l => m # 1)
    BY <2>5
  <2>7. CASE q = p /\ v = w
    <3>1. queue[q][k][m].task # queue[q][l][1].task
      BY <2>2, <2>6, <2>7 DEF IInv, Placed, Apart, OneSlot
    <3> QED
      BY <2>1, <2>6, <2>7, <3>1
  <2>8. CASE ~(q = p /\ v = w)
    <3>1. Busy(q, v) /\ work'[q][v] = work[q][v]
      BY <2>1, <2>8 DEF Busy
    <3> QED
      BY <2>6, <3>1 DEF IInv, Apart, QueueOrWorker
  <2> QED
    BY <2>7, <2>8
<1>7. ASSUME NEW p \in Procs, NEW w \in Workers, Begun(p, w)
      PROVE  queue'[q][k][n].task # work'[q][v].item.task
  BY <1>7, TaskFacts DEF IInv, Placed, Apart, QueueOrWorker, HandOrWorker, OneSlot,
     Handing, Busy, Slots, WorkSet, BoardSet, Begun
<1>8. ASSUME NEW p \in Procs, NEW w \in Workers, RunOver(p, w)
      PROVE  queue'[q][k][n].task # work'[q][v].item.task
  BY <1>8, TaskFacts DEF IInv, Placed, Apart, QueueOrWorker, HandOrWorker, OneSlot,
     Handing, Busy, Slots, WorkSet, RunOver
<1>9. ASSUME NEW p \in Procs, NEW w \in Workers, Delisted(p, w)
      PROVE  queue'[q][k][n].task # work'[q][v].item.task
  BY <1>9, TaskFacts DEF IInv, Placed, Apart, QueueOrWorker, HandOrWorker, OneSlot,
     Handing, Busy, Slots, WorkSet, BoardSet, Delisted
<1>10. ASSUME NEW p \in Procs, NEW w \in Workers, Cleared(p, w)
       PROVE  queue'[q][k][n].task # work'[q][v].item.task
  BY <1>10, TaskFacts DEF IInv, Placed, Apart, QueueOrWorker, HandOrWorker, OneSlot,
     Handing, Busy, Slots, WorkSet, OutOfFlight, Cleared
<1>11. ASSUME NEW p \in Procs, NEW w \in Workers, Left(p, w)
       PROVE  queue'[q][k][n].task # work'[q][v].item.task
  BY <1>11, TaskFacts DEF IInv, Placed, Apart, QueueOrWorker, HandOrWorker, OneSlot,
     Handing, Busy, Slots, WorkSet, Left
<1>12. CASE UNCHANGED taskVars
  BY <1>12, TaskFacts DEF IInv, Placed, Apart, QueueOrWorker, HandOrWorker, OneSlot,
     Handing, Busy, Slots, taskVars
<1> QED
  BY <1>1, <1>2, <1>3, <1>4, <1>5, <1>6, <1>7, <1>8, <1>9, <1>10, <1>11, <1>12
     DEF DataStep

\* A task is with one worker.
LEMMA OneWorkerStep == IInv /\ [DataStep]_taskVars => OneWorker'
<1> SUFFICES ASSUME IInv, [DataStep]_taskVars,
                  NEW q \in Procs, NEW v \in Workers, NEW u \in Workers, Busy(q,
                     v)', Busy(q, u)', work'[q][v].item.task = work'[q][u].item.task
             PROVE  v = u
  BY DEF OneWorker
<1>1. ASSUME NEW p \in Procs, NEW c \in Callers, NEW t \in Tasks, Marked(p, c, t)
      PROVE  v = u
  BY <1>1, TaskFacts DEF IInv, Placed, Apart, OneWorker, QueueOrWorker, Handing,
     Busy, Slots, HandSet, Marked
<1>2. ASSUME NEW p \in Procs, NEW c \in Callers, Listed(p, c) PROVE v = u
  BY <1>2, TaskFacts DEF IInv, Placed, Apart, OneWorker, QueueOrWorker, Handing,
     Busy, Slots, HandSet, BoardSet, Listed
<1>3. ASSUME NEW p \in Procs, NEW c \in Callers, Sent(p, c) PROVE v = u
  BY <1>3, TaskFacts DEF IInv, Placed, Apart, OneWorker, QueueOrWorker, Handing,
     Busy, HandSet, Sent
<1>4. ASSUME NEW p \in Procs, NEW c \in Callers, Refused(p, c) PROVE v = u
  BY <1>4, TaskFacts DEF IInv, Placed, Apart, OneWorker, QueueOrWorker, Handing,
     Busy, Slots, HandSet, BoardSet, Refused
<1>5. ASSUME NEW p \in Procs, NEW c \in Callers, Undone(p, c) PROVE v = u
  BY <1>5, TaskFacts DEF IInv, Placed, Apart, OneWorker, QueueOrWorker, Handing,
     Busy, Slots, HandSet, OutOfFlight, Undone
<1>6. ASSUME NEW p \in Procs, NEW w \in Workers, Taken(p, w) PROVE v = u
  <2> DEFINE l == WorkerLane[w]
  <2>1. /\ \A x \in Workers : ~(q = p /\ x = w) => work'[q][x] = work[q][x]
        /\ q = p => work'[q][w].item = queue[p][l][1] /\ ~Busy(p, w)
    BY <1>6 DEF Taken, WorkSet, Busy
  <2>2. l \in Lanes /\ 1 \in Slots(p, l)
    BY <1>6 DEF Taken
  <2>3. UNCHANGED hand
    BY <1>6 DEF Taken
  <2>4. \A x \in Workers : Busy(p, x) => queue[p][l][1].task # work[p][x].item.task
    BY <2>2 DEF IInv, Apart, QueueOrWorker
  <2>5. \A x \in Workers : Busy(q, x)' => Busy(q, x) \/ (q = p /\ x = w)
    BY <2>1 DEF Busy
  <2> QED
    BY <2>1, <2>4, <2>5 DEF IInv, Apart, OneWorker
<1>7. ASSUME NEW p \in Procs, NEW w \in Workers, Begun(p, w) PROVE v = u
  BY SMTT(20), <1>7, TaskFacts DEF IInv, Placed, Apart, OneWorker, QueueOrWorker, Handing,
     Busy, Slots, WorkSet, BoardSet, Begun
<1>8. ASSUME NEW p \in Procs, NEW w \in Workers, RunOver(p, w) PROVE v = u
  BY SMTT(20), <1>8, TaskFacts DEF IInv, Placed, Apart, OneWorker, QueueOrWorker, Handing,
     Busy, Slots, WorkSet, RunOver
<1>9. ASSUME NEW p \in Procs, NEW w \in Workers, Delisted(p, w) PROVE v = u
  BY SMTT(20), <1>9, TaskFacts DEF IInv, Placed, Apart, OneWorker, QueueOrWorker, Handing,
     Busy, Slots, WorkSet, BoardSet, Delisted
<1>10. ASSUME NEW p \in Procs, NEW w \in Workers, Cleared(p, w) PROVE v = u
  BY <1>10, TaskFacts DEF IInv, Placed, Apart, OneWorker, QueueOrWorker, Handing,
     Busy, Slots, WorkSet, OutOfFlight, Cleared
<1>11. ASSUME NEW p \in Procs, NEW w \in Workers, Left(p, w) PROVE v = u
  BY <1>11, TaskFacts DEF IInv, Placed, Apart, OneWorker, QueueOrWorker, Handing,
     Busy, Slots, WorkSet, Left
<1>12. CASE UNCHANGED taskVars
  BY <1>12, TaskFacts DEF IInv, Placed, Apart, OneWorker, QueueOrWorker, Handing,
     Busy, Slots, taskVars
<1> QED
  BY <1>1, <1>2, <1>3, <1>4, <1>5, <1>6, <1>7, <1>8, <1>9, <1>10, <1>11, <1>12
     DEF DataStep

\* Every step keeps that a task is in flight exactly if it has a place.
LEMMA PlacedStep == IInv /\ [DataStep]_taskVars => Placed'
<1> SUFFICES ASSUME IInv, [DataStep]_taskVars, NEW q \in Procs
             PROVE  /\ \A d \in Callers : Handing(q, d)' => hand'[q][d].task \in inFlight'[q]
                    /\ \A k \in Lanes : \A n \in Slots(q, k)' :
                         queue'[q][k][n].task \in inFlight'[q] /\ TaskLane[queue'[q][k][n].task] = k
                    /\ \A v \in Workers : Busy(q, v)' =>
                         work'[q][v].item \in Items /\ work'[q][v].item.task \in inFlight'[q]
  BY DEF Placed
<1>0. /\ \A d \in Callers : Handing(q, d) => hand[q][d].task \in inFlight[q]
      /\ \A k \in Lanes : \A n \in Slots(q, k) :
           queue[q][k][n].task \in inFlight[q] /\ TaskLane[queue[q][k][n].task] = k
      /\ \A v \in Workers : Busy(q, v) =>
           work[q][v].item \in Items /\ work[q][v].item.task \in inFlight[q]
      /\ inFlight[q] \subseteq Tasks
  BY DEF IInv, TypeOK, Placed
<1>1. ASSUME NEW p \in Procs, NEW c \in Callers, NEW t \in Tasks, Marked(p, c, t)
      PROVE  /\ \A d \in Callers : Handing(q, d)' => hand'[q][d].task \in inFlight'[q]
             /\ \A k \in Lanes : \A n \in Slots(q, k)' :
                  queue'[q][k][n].task \in inFlight'[q] /\ TaskLane[queue'[q][k][n].task] = k
             /\ \A v \in Workers : Busy(q, v)' =>
                  work'[q][v].item \in Items /\ work'[q][v].item.task \in inFlight'[q]
  <2>1. ASSUME NEW d \in Callers, Handing(q, d)' PROVE hand'[q][d].task \in inFlight'[q]
    BY <1>0, <2>1, <1>1, TaskFacts DEF Marked, HandSet, Handing
  <2>2. ASSUME NEW k \in Lanes, NEW n \in Slots(q, k)'
        PROVE  queue'[q][k][n].task \in inFlight'[q] /\ TaskLane[queue'[q][k][n].task] = k
    BY <1>0, <2>2, <1>1, TaskFacts DEF Marked, HandSet, Handing, Busy, Slots
  <2>3. ASSUME NEW v \in Workers, Busy(q, v)'
        PROVE  work'[q][v].item \in Items /\ work'[q][v].item.task \in inFlight'[q]
    BY <1>0, <2>3, <1>1, TaskFacts DEF Marked, HandSet, Busy
  <2> QED
    BY <2>1, <2>2, <2>3
<1>2. ASSUME NEW p \in Procs, NEW c \in Callers, Listed(p, c)
      PROVE  /\ \A d \in Callers : Handing(q, d)' => hand'[q][d].task \in inFlight'[q]
             /\ \A k \in Lanes : \A n \in Slots(q, k)' :
                  queue'[q][k][n].task \in inFlight'[q] /\ TaskLane[queue'[q][k][n].task] = k
             /\ \A v \in Workers : Busy(q, v)' =>
                  work'[q][v].item \in Items /\ work'[q][v].item.task \in inFlight'[q]
  <2>1. ASSUME NEW d \in Callers, Handing(q, d)' PROVE hand'[q][d].task \in inFlight'[q]
    BY <1>0, <2>1, <1>2, TaskFacts DEF Listed, HandSet, BoardSet, Handing
  <2>2. ASSUME NEW k \in Lanes, NEW n \in Slots(q, k)'
        PROVE  queue'[q][k][n].task \in inFlight'[q] /\ TaskLane[queue'[q][k][n].task] = k
    BY <1>0, <2>2, <1>2, TaskFacts DEF Listed, HandSet, BoardSet, Handing, Busy, Slots
  <2>3. ASSUME NEW v \in Workers, Busy(q, v)'
        PROVE  work'[q][v].item \in Items /\ work'[q][v].item.task \in inFlight'[q]
    BY <1>0, <2>3, <1>2, TaskFacts DEF Listed, HandSet, BoardSet, Busy
  <2> QED
    BY <2>1, <2>2, <2>3
<1>3. ASSUME NEW p \in Procs, NEW c \in Callers, Sent(p, c)
      PROVE  /\ \A d \in Callers : Handing(q, d)' => hand'[q][d].task \in inFlight'[q]
             /\ \A k \in Lanes : \A n \in Slots(q, k)' :
                  queue'[q][k][n].task \in inFlight'[q] /\ TaskLane[queue'[q][k][n].task] = k
             /\ \A v \in Workers : Busy(q, v)' =>
                  work'[q][v].item \in Items /\ work'[q][v].item.task \in inFlight'[q]
  <2>1. ASSUME NEW d \in Callers, Handing(q, d)' PROVE hand'[q][d].task \in inFlight'[q]
    BY <1>0, <2>1, <1>3, TaskFacts DEF Sent, HandSet, Handing
  <2>2. ASSUME NEW k \in Lanes, NEW n \in Slots(q, k)'
        PROVE  queue'[q][k][n].task \in inFlight'[q] /\ TaskLane[queue'[q][k][n].task] = k
    BY <1>0, <2>2, <1>3, TaskFacts DEF Sent, HandSet, Handing, Busy
  <2>3. ASSUME NEW v \in Workers, Busy(q, v)'
        PROVE  work'[q][v].item \in Items /\ work'[q][v].item.task \in inFlight'[q]
    BY <1>0, <2>3, <1>3, TaskFacts DEF Sent, HandSet, Busy
  <2> QED
    BY <2>1, <2>2, <2>3
<1>4. ASSUME NEW p \in Procs, NEW c \in Callers, Refused(p, c)
      PROVE  /\ \A d \in Callers : Handing(q, d)' => hand'[q][d].task \in inFlight'[q]
             /\ \A k \in Lanes : \A n \in Slots(q, k)' :
                  queue'[q][k][n].task \in inFlight'[q] /\ TaskLane[queue'[q][k][n].task] = k
             /\ \A v \in Workers : Busy(q, v)' =>
                  work'[q][v].item \in Items /\ work'[q][v].item.task \in inFlight'[q]
  <2>1. ASSUME NEW d \in Callers, Handing(q, d)' PROVE hand'[q][d].task \in inFlight'[q]
    BY <1>0, <2>1, <1>4, TaskFacts DEF Refused, HandSet, BoardSet, Handing
  <2>2. ASSUME NEW k \in Lanes, NEW n \in Slots(q, k)'
        PROVE  queue'[q][k][n].task \in inFlight'[q] /\ TaskLane[queue'[q][k][n].task] = k
    BY <1>0, <2>2, <1>4, TaskFacts DEF Refused, HandSet, BoardSet, Handing, Busy, Slots
  <2>3. ASSUME NEW v \in Workers, Busy(q, v)'
        PROVE  work'[q][v].item \in Items /\ work'[q][v].item.task \in inFlight'[q]
    BY <1>0, <2>3, <1>4, TaskFacts DEF Refused, HandSet, BoardSet, Busy
  <2> QED
    BY <2>1, <2>2, <2>3
<1>5. ASSUME NEW p \in Procs, NEW c \in Callers, Undone(p, c)
      PROVE  /\ \A d \in Callers : Handing(q, d)' => hand'[q][d].task \in inFlight'[q]
             /\ \A k \in Lanes : \A n \in Slots(q, k)' :
                  queue'[q][k][n].task \in inFlight'[q] /\ TaskLane[queue'[q][k][n].task] = k
             /\ \A v \in Workers : Busy(q, v)' =>
                  work'[q][v].item \in Items /\ work'[q][v].item.task \in inFlight'[q]
  <2>1. ASSUME NEW d \in Callers, Handing(q, d)' PROVE hand'[q][d].task \in inFlight'[q]
    BY <1>0, <2>1, <1>5, TaskFacts DEF Undone, HandSet, OutOfFlight, Handing, IInv,
       Apart, OneHand, HandOrWorker
  <2>2. ASSUME NEW k \in Lanes, NEW n \in Slots(q, k)'
        PROVE  queue'[q][k][n].task \in inFlight'[q] /\ TaskLane[queue'[q][k][n].task] = k
    BY <1>0, <2>2, <1>5, TaskFacts DEF Undone, HandSet, OutOfFlight, Handing, Busy,
       Slots, IInv, Apart, HandOrQueue, QueueOrWorker
  <2>3. ASSUME NEW v \in Workers, Busy(q, v)'
        PROVE  work'[q][v].item \in Items /\ work'[q][v].item.task \in inFlight'[q]
    BY <1>0, <2>3, <1>5, TaskFacts DEF Undone, HandSet, OutOfFlight, Busy, IInv, Apart,
       HandOrWorker, OneWorker, Handing
  <2> QED
    BY <2>1, <2>2, <2>3
<1>6. ASSUME NEW p \in Procs, NEW w \in Workers, Taken(p, w)
      PROVE  /\ \A d \in Callers : Handing(q, d)' => hand'[q][d].task \in inFlight'[q]
             /\ \A k \in Lanes : \A n \in Slots(q, k)' :
                  queue'[q][k][n].task \in inFlight'[q] /\ TaskLane[queue'[q][k][n].task] = k
             /\ \A v \in Workers : Busy(q, v)' =>
                  work'[q][v].item \in Items /\ work'[q][v].item.task \in inFlight'[q]
  <2>1. ASSUME NEW d \in Callers, Handing(q, d)' PROVE hand'[q][d].task \in inFlight'[q]
    BY <1>0, <2>1, <1>6, TaskFacts DEF Taken, WorkSet, Handing
  <2>2. ASSUME NEW k \in Lanes, NEW n \in Slots(q, k)'
        PROVE  queue'[q][k][n].task \in inFlight'[q] /\ TaskLane[queue'[q][k][n].task] = k
    BY <1>0, <2>2, <1>6, TaskFacts DEF Taken, WorkSet, Handing, Busy
  <2>3. ASSUME NEW v \in Workers, Busy(q, v)'
        PROVE  work'[q][v].item \in Items /\ work'[q][v].item.task \in inFlight'[q]
    BY <1>0, <2>3, <1>6, TaskFacts DEF Taken, WorkSet, Busy
  <2> QED
    BY <2>1, <2>2, <2>3
<1>7. ASSUME NEW p \in Procs, NEW w \in Workers, Begun(p, w)
      PROVE  /\ \A d \in Callers : Handing(q, d)' => hand'[q][d].task \in inFlight'[q]
             /\ \A k \in Lanes : \A n \in Slots(q, k)' :
                  queue'[q][k][n].task \in inFlight'[q] /\ TaskLane[queue'[q][k][n].task] = k
             /\ \A v \in Workers : Busy(q, v)' =>
                  work'[q][v].item \in Items /\ work'[q][v].item.task \in inFlight'[q]
  <2>1. ASSUME NEW d \in Callers, Handing(q, d)' PROVE hand'[q][d].task \in inFlight'[q]
    BY <1>0, <2>1, <1>7, TaskFacts DEF Begun, WorkSet, BoardSet, Handing
  <2>2. ASSUME NEW k \in Lanes, NEW n \in Slots(q, k)'
        PROVE  queue'[q][k][n].task \in inFlight'[q] /\ TaskLane[queue'[q][k][n].task] = k
    BY <1>0, <2>2, <1>7, TaskFacts DEF Begun, WorkSet, BoardSet, Handing, Busy, Slots
  <2>3. ASSUME NEW v \in Workers, Busy(q, v)'
        PROVE  work'[q][v].item \in Items /\ work'[q][v].item.task \in inFlight'[q]
    BY <1>0, <2>3, <1>7, TaskFacts DEF Begun, WorkSet, BoardSet, Busy
  <2> QED
    BY <2>1, <2>2, <2>3
<1>8. ASSUME NEW p \in Procs, NEW w \in Workers, RunOver(p, w)
      PROVE  /\ \A d \in Callers : Handing(q, d)' => hand'[q][d].task \in inFlight'[q]
             /\ \A k \in Lanes : \A n \in Slots(q, k)' :
                  queue'[q][k][n].task \in inFlight'[q] /\ TaskLane[queue'[q][k][n].task] = k
             /\ \A v \in Workers : Busy(q, v)' =>
                  work'[q][v].item \in Items /\ work'[q][v].item.task \in inFlight'[q]
  <2>1. ASSUME NEW d \in Callers, Handing(q, d)' PROVE hand'[q][d].task \in inFlight'[q]
    BY <1>0, <2>1, <1>8, TaskFacts DEF RunOver, WorkSet, Handing
  <2>2. ASSUME NEW k \in Lanes, NEW n \in Slots(q, k)'
        PROVE  queue'[q][k][n].task \in inFlight'[q] /\ TaskLane[queue'[q][k][n].task] = k
    BY <1>0, <2>2, <1>8, TaskFacts DEF RunOver, WorkSet, Handing, Busy, Slots
  <2>3. ASSUME NEW v \in Workers, Busy(q, v)'
        PROVE  work'[q][v].item \in Items /\ work'[q][v].item.task \in inFlight'[q]
    BY <1>0, <2>3, <1>8, TaskFacts DEF RunOver, WorkSet, Busy
  <2> QED
    BY <2>1, <2>2, <2>3
<1>9. ASSUME NEW p \in Procs, NEW w \in Workers, Delisted(p, w)
      PROVE  /\ \A d \in Callers : Handing(q, d)' => hand'[q][d].task \in inFlight'[q]
             /\ \A k \in Lanes : \A n \in Slots(q, k)' :
                  queue'[q][k][n].task \in inFlight'[q] /\ TaskLane[queue'[q][k][n].task] = k
             /\ \A v \in Workers : Busy(q, v)' =>
                  work'[q][v].item \in Items /\ work'[q][v].item.task \in inFlight'[q]
  <2>1. ASSUME NEW d \in Callers, Handing(q, d)' PROVE hand'[q][d].task \in inFlight'[q]
    BY <1>0, <2>1, <1>9, TaskFacts DEF Delisted, WorkSet, BoardSet, Handing
  <2>2. ASSUME NEW k \in Lanes, NEW n \in Slots(q, k)'
        PROVE  queue'[q][k][n].task \in inFlight'[q] /\ TaskLane[queue'[q][k][n].task] = k
    BY <1>0, <2>2, <1>9, TaskFacts DEF Delisted, WorkSet, BoardSet, Handing, Busy, Slots
  <2>3. ASSUME NEW v \in Workers, Busy(q, v)'
        PROVE  work'[q][v].item \in Items /\ work'[q][v].item.task \in inFlight'[q]
    BY <1>0, <2>3, <1>9, TaskFacts DEF Delisted, WorkSet, BoardSet, Busy
  <2> QED
    BY <2>1, <2>2, <2>3
<1>10. ASSUME NEW p \in Procs, NEW w \in Workers, Cleared(p, w)
      PROVE  /\ \A d \in Callers : Handing(q, d)' => hand'[q][d].task \in inFlight'[q]
             /\ \A k \in Lanes : \A n \in Slots(q, k)' :
                  queue'[q][k][n].task \in inFlight'[q] /\ TaskLane[queue'[q][k][n].task] = k
             /\ \A v \in Workers : Busy(q, v)' =>
                  work'[q][v].item \in Items /\ work'[q][v].item.task \in inFlight'[q]
  <2>1. ASSUME NEW d \in Callers, Handing(q, d)' PROVE hand'[q][d].task \in inFlight'[q]
    BY <1>0, <2>1, <1>10, TaskFacts DEF Cleared, WorkSet, OutOfFlight, Handing, IInv,
       Apart, OneHand, HandOrWorker, Busy
  <2>2. ASSUME NEW k \in Lanes, NEW n \in Slots(q, k)'
        PROVE  queue'[q][k][n].task \in inFlight'[q] /\ TaskLane[queue'[q][k][n].task] = k
    BY <1>0, <2>2, <1>10, TaskFacts DEF Cleared, WorkSet, OutOfFlight, Handing, Busy,
       Slots, IInv, Apart, HandOrQueue, QueueOrWorker
  <2>3. ASSUME NEW v \in Workers, Busy(q, v)'
        PROVE  work'[q][v].item \in Items /\ work'[q][v].item.task \in inFlight'[q]
    BY <1>0, <2>3, <1>10, TaskFacts DEF Cleared, WorkSet, OutOfFlight, Busy, IInv,
       Apart, HandOrWorker, OneWorker
  <2> QED
    BY <2>1, <2>2, <2>3
<1>11. ASSUME NEW p \in Procs, NEW w \in Workers, Left(p, w)
      PROVE  /\ \A d \in Callers : Handing(q, d)' => hand'[q][d].task \in inFlight'[q]
             /\ \A k \in Lanes : \A n \in Slots(q, k)' :
                  queue'[q][k][n].task \in inFlight'[q] /\ TaskLane[queue'[q][k][n].task] = k
             /\ \A v \in Workers : Busy(q, v)' =>
                  work'[q][v].item \in Items /\ work'[q][v].item.task \in inFlight'[q]
  <2>1. ASSUME NEW d \in Callers, Handing(q, d)' PROVE hand'[q][d].task \in inFlight'[q]
    BY <1>0, <2>1, <1>11, TaskFacts DEF Left, WorkSet, Handing
  <2>2. ASSUME NEW k \in Lanes, NEW n \in Slots(q, k)'
        PROVE  queue'[q][k][n].task \in inFlight'[q] /\ TaskLane[queue'[q][k][n].task] = k
    BY <1>0, <2>2, <1>11, TaskFacts DEF Left, WorkSet, Handing, Busy, Slots
  <2>3. ASSUME NEW v \in Workers, Busy(q, v)'
        PROVE  work'[q][v].item \in Items /\ work'[q][v].item.task \in inFlight'[q]
    BY <1>0, <2>3, <1>11, TaskFacts DEF Left, WorkSet, Busy
  <2> QED
    BY <2>1, <2>2, <2>3
<1>12. CASE UNCHANGED taskVars
  BY <1>0, <1>12 DEF taskVars, Handing, Busy, Slots
<1> QED
  BY <1>1, <1>2, <1>3, <1>4, <1>5, <1>6, <1>7, <1>8, <1>9, <1>10, <1>11, <1>12
     DEF DataStep

\* Every step keeps what the board shows of a task in each place.
LEMMA ShownStep == IInv /\ [DataStep]_taskVars => Shown'
<1> SUFFICES ASSUME IInv, [DataStep]_taskVars, NEW q \in Procs
             PROVE  /\ \A d \in Callers :
                         /\ hand'[q][d].at \in {"marked", "undone"} => board'[q][hand'[q][d].task] = "none"
                         /\ hand'[q][d].at = "listed" => board'[q][hand'[q][d].task] = "queued"
                    /\ \A k \in Lanes : \A n \in Slots(q, k)' : board'[q][queue'[q][k][n].task] = "queued"
                    /\ \A v \in Workers :
                         /\ work'[q][v].at = "taken" => board'[q][work'[q][v].item.task] = "queued"
                         /\ work'[q][v].at = "running" => board'[q][work'[q][v].item.task] = "running"
                         /\ work'[q][v].at = "ended" => board'[q][work'[q][v].item.task] = "none"
                    /\ \A x \in Tasks : x \notin inFlight'[q] => board'[q][x] = "none"
  BY DEF Shown
<1>0. /\ \A d \in Callers :
           /\ hand[q][d].at \in {"marked", "undone"} => board[q][hand[q][d].task] = "none"
           /\ hand[q][d].at = "listed" => board[q][hand[q][d].task] = "queued"
      /\ \A k \in Lanes : \A n \in Slots(q, k) : board[q][queue[q][k][n].task] = "queued"
      /\ \A v \in Workers :
           /\ work[q][v].at = "taken" => board[q][work[q][v].item.task] = "queued"
           /\ work[q][v].at = "running" => board[q][work[q][v].item.task] = "running"
           /\ work[q][v].at = "ended" => board[q][work[q][v].item.task] = "none"
      /\ \A x \in Tasks : x \notin inFlight[q] => board[q][x] = "none"
  BY DEF IInv, Shown
<1>a. /\ \A d \in Callers : Handing(q, d) => hand[q][d].task \in inFlight[q]
      /\ \A k \in Lanes : \A n \in Slots(q, k) : queue[q][k][n].task \in inFlight[q]
      /\ \A v \in Workers : Busy(q, v) => work[q][v].item.task \in inFlight[q]
      /\ inFlight[q] \subseteq Tasks
  BY DEF IInv, TypeOK, Placed
<1>1. ASSUME NEW p \in Procs, NEW c \in Callers, NEW t \in Tasks, Marked(p, c, t)
      PROVE  /\ \A d \in Callers :
                  /\ hand'[q][d].at \in {"marked", "undone"} => board'[q][hand'[q][d].task] = "none"
                  /\ hand'[q][d].at = "listed" => board'[q][hand'[q][d].task] = "queued"
             /\ \A k \in Lanes : \A n \in Slots(q, k)' : board'[q][queue'[q][k][n].task] = "queued"
             /\ \A v \in Workers :
                  /\ work'[q][v].at = "taken" => board'[q][work'[q][v].item.task] = "queued"
                  /\ work'[q][v].at = "running" => board'[q][work'[q][v].item.task] = "running"
                  /\ work'[q][v].at = "ended" => board'[q][work'[q][v].item.task] = "none"
             /\ \A x \in Tasks : x \notin inFlight'[q] => board'[q][x] = "none"
  <2>1. ASSUME NEW d \in Callers
        PROVE  /\ hand'[q][d].at \in {"marked", "undone"} => board'[q][hand'[q][d].task] = "none"
               /\ hand'[q][d].at = "listed" => board'[q][hand'[q][d].task] = "queued"
    BY <1>0, <1>a, <1>1, TaskFacts DEF Marked, HandSet, Handing
  <2>2. ASSUME NEW k \in Lanes, NEW n \in Slots(q, k)'
        PROVE  board'[q][queue'[q][k][n].task] = "queued"
    BY <1>0, <1>a, <2>2, <1>1, TaskFacts DEF Marked, HandSet, Handing, Busy, Slots
  <2>3. ASSUME NEW v \in Workers
        PROVE  /\ work'[q][v].at = "taken" => board'[q][work'[q][v].item.task] = "queued"
               /\ work'[q][v].at = "running" => board'[q][work'[q][v].item.task] = "running"
               /\ work'[q][v].at = "ended" => board'[q][work'[q][v].item.task] = "none"
    BY <1>0, <1>a, <1>1, TaskFacts DEF Marked, HandSet, Busy
  <2>4. ASSUME NEW x \in Tasks, x \notin inFlight'[q] PROVE board'[q][x] = "none"
    BY <1>0, <1>a, <2>4, <1>1, TaskFacts DEF Marked, HandSet, Handing, Busy
  <2> QED
    BY <2>1, <2>2, <2>3, <2>4
<1>2. ASSUME NEW p \in Procs, NEW c \in Callers, Listed(p, c)
      PROVE  /\ \A d \in Callers :
                  /\ hand'[q][d].at \in {"marked", "undone"} => board'[q][hand'[q][d].task] = "none"
                  /\ hand'[q][d].at = "listed" => board'[q][hand'[q][d].task] = "queued"
             /\ \A k \in Lanes : \A n \in Slots(q, k)' : board'[q][queue'[q][k][n].task] = "queued"
             /\ \A v \in Workers :
                  /\ work'[q][v].at = "taken" => board'[q][work'[q][v].item.task] = "queued"
                  /\ work'[q][v].at = "running" => board'[q][work'[q][v].item.task] = "running"
                  /\ work'[q][v].at = "ended" => board'[q][work'[q][v].item.task] = "none"
             /\ \A x \in Tasks : x \notin inFlight'[q] => board'[q][x] = "none"
  <2>1. ASSUME NEW d \in Callers
        PROVE  /\ hand'[q][d].at \in {"marked", "undone"} => board'[q][hand'[q][d].task] = "none"
               /\ hand'[q][d].at = "listed" => board'[q][hand'[q][d].task] = "queued"
    BY <1>0, <1>a, <1>2, TaskFacts DEF Listed, HandSet, BoardSet, Handing, IInv,
       Apart, OneHand
  <2>2. ASSUME NEW k \in Lanes, NEW n \in Slots(q, k)'
        PROVE  board'[q][queue'[q][k][n].task] = "queued"
    BY <1>0, <1>a, <2>2, <1>2, TaskFacts DEF Listed, HandSet, BoardSet, Handing,
       Busy, Slots, IInv, Apart, HandOrQueue
  <2>3. ASSUME NEW v \in Workers
        PROVE  /\ work'[q][v].at = "taken" => board'[q][work'[q][v].item.task] = "queued"
               /\ work'[q][v].at = "running" => board'[q][work'[q][v].item.task] = "running"
               /\ work'[q][v].at = "ended" => board'[q][work'[q][v].item.task] = "none"
    BY <1>0, <1>a, <1>2, TaskFacts DEF Listed, HandSet, BoardSet, Busy, Handing,
       IInv, Apart, HandOrWorker
  <2>4. ASSUME NEW x \in Tasks, x \notin inFlight'[q] PROVE board'[q][x] = "none"
    BY <1>0, <1>a, <2>4, <1>2, TaskFacts DEF Listed, HandSet, BoardSet, Handing,
       Busy
  <2> QED
    BY <2>1, <2>2, <2>3, <2>4
<1>3. ASSUME NEW p \in Procs, NEW c \in Callers, Sent(p, c)
      PROVE  /\ \A d \in Callers :
                  /\ hand'[q][d].at \in {"marked", "undone"} => board'[q][hand'[q][d].task] = "none"
                  /\ hand'[q][d].at = "listed" => board'[q][hand'[q][d].task] = "queued"
             /\ \A k \in Lanes : \A n \in Slots(q, k)' : board'[q][queue'[q][k][n].task] = "queued"
             /\ \A v \in Workers :
                  /\ work'[q][v].at = "taken" => board'[q][work'[q][v].item.task] = "queued"
                  /\ work'[q][v].at = "running" => board'[q][work'[q][v].item.task] = "running"
                  /\ work'[q][v].at = "ended" => board'[q][work'[q][v].item.task] = "none"
             /\ \A x \in Tasks : x \notin inFlight'[q] => board'[q][x] = "none"
  <2>1. ASSUME NEW d \in Callers
        PROVE  /\ hand'[q][d].at \in {"marked", "undone"} => board'[q][hand'[q][d].task] = "none"
               /\ hand'[q][d].at = "listed" => board'[q][hand'[q][d].task] = "queued"
    BY <1>0, <1>a, <1>3, TaskFacts DEF Sent, HandSet, Handing
  <2>2. ASSUME NEW k \in Lanes, NEW n \in Slots(q, k)'
        PROVE  board'[q][queue'[q][k][n].task] = "queued"
    BY <1>0, <1>a, <2>2, <1>3, TaskFacts DEF Sent, HandSet, Handing, Busy
  <2>3. ASSUME NEW v \in Workers
        PROVE  /\ work'[q][v].at = "taken" => board'[q][work'[q][v].item.task] = "queued"
               /\ work'[q][v].at = "running" => board'[q][work'[q][v].item.task] = "running"
               /\ work'[q][v].at = "ended" => board'[q][work'[q][v].item.task] = "none"
    BY <1>0, <1>a, <1>3, TaskFacts DEF Sent, HandSet, Busy
  <2>4. ASSUME NEW x \in Tasks, x \notin inFlight'[q] PROVE board'[q][x] = "none"
    BY <1>0, <1>a, <2>4, <1>3, TaskFacts DEF Sent, HandSet, Handing, Busy
  <2> QED
    BY <2>1, <2>2, <2>3, <2>4
<1>4. ASSUME NEW p \in Procs, NEW c \in Callers, Refused(p, c)
      PROVE  /\ \A d \in Callers :
                  /\ hand'[q][d].at \in {"marked", "undone"} => board'[q][hand'[q][d].task] = "none"
                  /\ hand'[q][d].at = "listed" => board'[q][hand'[q][d].task] = "queued"
             /\ \A k \in Lanes : \A n \in Slots(q, k)' : board'[q][queue'[q][k][n].task] = "queued"
             /\ \A v \in Workers :
                  /\ work'[q][v].at = "taken" => board'[q][work'[q][v].item.task] = "queued"
                  /\ work'[q][v].at = "running" => board'[q][work'[q][v].item.task] = "running"
                  /\ work'[q][v].at = "ended" => board'[q][work'[q][v].item.task] = "none"
             /\ \A x \in Tasks : x \notin inFlight'[q] => board'[q][x] = "none"
  <2>1. ASSUME NEW d \in Callers
        PROVE  /\ hand'[q][d].at \in {"marked", "undone"} => board'[q][hand'[q][d].task] = "none"
               /\ hand'[q][d].at = "listed" => board'[q][hand'[q][d].task] = "queued"
    BY <1>0, <1>a, <1>4, TaskFacts DEF Refused, HandSet, BoardSet, Handing, IInv,
       Apart, OneHand
  <2>2. ASSUME NEW k \in Lanes, NEW n \in Slots(q, k)'
        PROVE  board'[q][queue'[q][k][n].task] = "queued"
    BY <1>0, <1>a, <2>2, <1>4, TaskFacts DEF Refused, HandSet, BoardSet, Handing,
       Busy, Slots, IInv, Apart, HandOrQueue
  <2>3. ASSUME NEW v \in Workers
        PROVE  /\ work'[q][v].at = "taken" => board'[q][work'[q][v].item.task] = "queued"
               /\ work'[q][v].at = "running" => board'[q][work'[q][v].item.task] = "running"
               /\ work'[q][v].at = "ended" => board'[q][work'[q][v].item.task] = "none"
    BY <1>0, <1>a, <1>4, TaskFacts DEF Refused, HandSet, BoardSet, Busy, Handing,
       IInv, Apart, HandOrWorker
  <2>4. ASSUME NEW x \in Tasks, x \notin inFlight'[q] PROVE board'[q][x] = "none"
    BY <1>0, <1>a, <2>4, <1>4, TaskFacts DEF Refused, HandSet, BoardSet, Handing,
       Busy
  <2> QED
    BY <2>1, <2>2, <2>3, <2>4
<1>5. ASSUME NEW p \in Procs, NEW c \in Callers, Undone(p, c)
      PROVE  /\ \A d \in Callers :
                  /\ hand'[q][d].at \in {"marked", "undone"} => board'[q][hand'[q][d].task] = "none"
                  /\ hand'[q][d].at = "listed" => board'[q][hand'[q][d].task] = "queued"
             /\ \A k \in Lanes : \A n \in Slots(q, k)' : board'[q][queue'[q][k][n].task] = "queued"
             /\ \A v \in Workers :
                  /\ work'[q][v].at = "taken" => board'[q][work'[q][v].item.task] = "queued"
                  /\ work'[q][v].at = "running" => board'[q][work'[q][v].item.task] = "running"
                  /\ work'[q][v].at = "ended" => board'[q][work'[q][v].item.task] = "none"
             /\ \A x \in Tasks : x \notin inFlight'[q] => board'[q][x] = "none"
  <2>1. ASSUME NEW d \in Callers
        PROVE  /\ hand'[q][d].at \in {"marked", "undone"} => board'[q][hand'[q][d].task] = "none"
               /\ hand'[q][d].at = "listed" => board'[q][hand'[q][d].task] = "queued"
    BY <1>0, <1>a, <1>5, TaskFacts DEF Undone, HandSet, OutOfFlight, Handing
  <2>2. ASSUME NEW k \in Lanes, NEW n \in Slots(q, k)'
        PROVE  board'[q][queue'[q][k][n].task] = "queued"
    BY <1>0, <1>a, <2>2, <1>5, TaskFacts DEF Undone, HandSet, OutOfFlight, Handing,
       Busy, Slots
  <2>3. ASSUME NEW v \in Workers
        PROVE  /\ work'[q][v].at = "taken" => board'[q][work'[q][v].item.task] = "queued"
               /\ work'[q][v].at = "running" => board'[q][work'[q][v].item.task] = "running"
               /\ work'[q][v].at = "ended" => board'[q][work'[q][v].item.task] = "none"
    BY <1>0, <1>a, <1>5, TaskFacts DEF Undone, HandSet, OutOfFlight, Busy
  <2>4. ASSUME NEW x \in Tasks, x \notin inFlight'[q] PROVE board'[q][x] = "none"
    BY <1>0, <1>a, <2>4, <1>5, TaskFacts DEF Undone, HandSet, OutOfFlight, Handing,
       Busy
  <2> QED
    BY <2>1, <2>2, <2>3, <2>4
<1>6. ASSUME NEW p \in Procs, NEW w \in Workers, Taken(p, w)
      PROVE  /\ \A d \in Callers :
                  /\ hand'[q][d].at \in {"marked", "undone"} => board'[q][hand'[q][d].task] = "none"
                  /\ hand'[q][d].at = "listed" => board'[q][hand'[q][d].task] = "queued"
             /\ \A k \in Lanes : \A n \in Slots(q, k)' : board'[q][queue'[q][k][n].task] = "queued"
             /\ \A v \in Workers :
                  /\ work'[q][v].at = "taken" => board'[q][work'[q][v].item.task] = "queued"
                  /\ work'[q][v].at = "running" => board'[q][work'[q][v].item.task] = "running"
                  /\ work'[q][v].at = "ended" => board'[q][work'[q][v].item.task] = "none"
             /\ \A x \in Tasks : x \notin inFlight'[q] => board'[q][x] = "none"
  <2>1. ASSUME NEW d \in Callers
        PROVE  /\ hand'[q][d].at \in {"marked", "undone"} => board'[q][hand'[q][d].task] = "none"
               /\ hand'[q][d].at = "listed" => board'[q][hand'[q][d].task] = "queued"
    BY <1>0, <1>a, <1>6, TaskFacts DEF Taken, WorkSet, Handing
  <2>2. ASSUME NEW k \in Lanes, NEW n \in Slots(q, k)'
        PROVE  board'[q][queue'[q][k][n].task] = "queued"
    BY SMTT(20), <1>0, <1>a, <2>2, <1>6, TaskFacts DEF Taken, WorkSet, Handing, Busy
  <2>3. ASSUME NEW v \in Workers
        PROVE  /\ work'[q][v].at = "taken" => board'[q][work'[q][v].item.task] = "queued"
               /\ work'[q][v].at = "running" => board'[q][work'[q][v].item.task] = "running"
               /\ work'[q][v].at = "ended" => board'[q][work'[q][v].item.task] = "none"
    BY <1>0, <1>a, <1>6, TaskFacts DEF Taken, WorkSet, Busy
  <2>4. ASSUME NEW x \in Tasks, x \notin inFlight'[q] PROVE board'[q][x] = "none"
    BY <1>0, <1>a, <2>4, <1>6, TaskFacts DEF Taken, WorkSet, Handing, Busy
  <2> QED
    BY <2>1, <2>2, <2>3, <2>4
<1>7. ASSUME NEW p \in Procs, NEW w \in Workers, Begun(p, w)
      PROVE  /\ \A d \in Callers :
                  /\ hand'[q][d].at \in {"marked", "undone"} => board'[q][hand'[q][d].task] = "none"
                  /\ hand'[q][d].at = "listed" => board'[q][hand'[q][d].task] = "queued"
             /\ \A k \in Lanes : \A n \in Slots(q, k)' : board'[q][queue'[q][k][n].task] = "queued"
             /\ \A v \in Workers :
                  /\ work'[q][v].at = "taken" => board'[q][work'[q][v].item.task] = "queued"
                  /\ work'[q][v].at = "running" => board'[q][work'[q][v].item.task] = "running"
                  /\ work'[q][v].at = "ended" => board'[q][work'[q][v].item.task] = "none"
             /\ \A x \in Tasks : x \notin inFlight'[q] => board'[q][x] = "none"
  <2>1. ASSUME NEW d \in Callers
        PROVE  /\ hand'[q][d].at \in {"marked", "undone"} => board'[q][hand'[q][d].task] = "none"
               /\ hand'[q][d].at = "listed" => board'[q][hand'[q][d].task] = "queued"
    BY <1>0, <1>a, <1>7, TaskFacts DEF Begun, WorkSet, BoardSet, Handing, Busy,
       IInv, Apart, HandOrWorker
  <2>2. ASSUME NEW k \in Lanes, NEW n \in Slots(q, k)'
        PROVE  board'[q][queue'[q][k][n].task] = "queued"
    BY <1>0, <1>a, <2>2, <1>7, TaskFacts DEF Begun, WorkSet, BoardSet, Handing,
       Busy, Slots, IInv, Apart, QueueOrWorker
  <2>3. ASSUME NEW v \in Workers
        PROVE  /\ work'[q][v].at = "taken" => board'[q][work'[q][v].item.task] = "queued"
               /\ work'[q][v].at = "running" => board'[q][work'[q][v].item.task] = "running"
               /\ work'[q][v].at = "ended" => board'[q][work'[q][v].item.task] = "none"
    BY <1>0, <1>a, <1>7, TaskFacts DEF Begun, WorkSet, BoardSet, Busy, IInv, Apart,
       OneWorker
  <2>4. ASSUME NEW x \in Tasks, x \notin inFlight'[q] PROVE board'[q][x] = "none"
    BY <1>0, <1>a, <2>4, <1>7, TaskFacts DEF Begun, WorkSet, BoardSet, Handing, Busy
  <2> QED
    BY <2>1, <2>2, <2>3, <2>4
<1>8. ASSUME NEW p \in Procs, NEW w \in Workers, RunOver(p, w)
      PROVE  /\ \A d \in Callers :
                  /\ hand'[q][d].at \in {"marked", "undone"} => board'[q][hand'[q][d].task] = "none"
                  /\ hand'[q][d].at = "listed" => board'[q][hand'[q][d].task] = "queued"
             /\ \A k \in Lanes : \A n \in Slots(q, k)' : board'[q][queue'[q][k][n].task] = "queued"
             /\ \A v \in Workers :
                  /\ work'[q][v].at = "taken" => board'[q][work'[q][v].item.task] = "queued"
                  /\ work'[q][v].at = "running" => board'[q][work'[q][v].item.task] = "running"
                  /\ work'[q][v].at = "ended" => board'[q][work'[q][v].item.task] = "none"
             /\ \A x \in Tasks : x \notin inFlight'[q] => board'[q][x] = "none"
  <2>1. ASSUME NEW d \in Callers
        PROVE  /\ hand'[q][d].at \in {"marked", "undone"} => board'[q][hand'[q][d].task] = "none"
               /\ hand'[q][d].at = "listed" => board'[q][hand'[q][d].task] = "queued"
    BY <1>0, <1>a, <1>8, TaskFacts DEF RunOver, WorkSet, Handing
  <2>2. ASSUME NEW k \in Lanes, NEW n \in Slots(q, k)'
        PROVE  board'[q][queue'[q][k][n].task] = "queued"
    BY <1>0, <1>a, <2>2, <1>8, TaskFacts DEF RunOver, WorkSet, Handing, Busy, Slots
  <2>3. ASSUME NEW v \in Workers
        PROVE  /\ work'[q][v].at = "taken" => board'[q][work'[q][v].item.task] = "queued"
               /\ work'[q][v].at = "running" => board'[q][work'[q][v].item.task] = "running"
               /\ work'[q][v].at = "ended" => board'[q][work'[q][v].item.task] = "none"
    BY <1>0, <1>a, <1>8, TaskFacts DEF RunOver, WorkSet, Busy
  <2>4. ASSUME NEW x \in Tasks, x \notin inFlight'[q] PROVE board'[q][x] = "none"
    BY <1>0, <1>a, <2>4, <1>8, TaskFacts DEF RunOver, WorkSet, Handing, Busy
  <2> QED
    BY <2>1, <2>2, <2>3, <2>4
<1>9. ASSUME NEW p \in Procs, NEW w \in Workers, Delisted(p, w)
      PROVE  /\ \A d \in Callers :
                  /\ hand'[q][d].at \in {"marked", "undone"} => board'[q][hand'[q][d].task] = "none"
                  /\ hand'[q][d].at = "listed" => board'[q][hand'[q][d].task] = "queued"
             /\ \A k \in Lanes : \A n \in Slots(q, k)' : board'[q][queue'[q][k][n].task] = "queued"
             /\ \A v \in Workers :
                  /\ work'[q][v].at = "taken" => board'[q][work'[q][v].item.task] = "queued"
                  /\ work'[q][v].at = "running" => board'[q][work'[q][v].item.task] = "running"
                  /\ work'[q][v].at = "ended" => board'[q][work'[q][v].item.task] = "none"
             /\ \A x \in Tasks : x \notin inFlight'[q] => board'[q][x] = "none"
  <2>1. ASSUME NEW d \in Callers
        PROVE  /\ hand'[q][d].at \in {"marked", "undone"} => board'[q][hand'[q][d].task] = "none"
               /\ hand'[q][d].at = "listed" => board'[q][hand'[q][d].task] = "queued"
    BY <1>0, <1>a, <1>9, TaskFacts DEF Delisted, WorkSet, BoardSet, Handing, Busy,
       IInv, Apart, HandOrWorker
  <2>2. ASSUME NEW k \in Lanes, NEW n \in Slots(q, k)'
        PROVE  board'[q][queue'[q][k][n].task] = "queued"
    BY <1>0, <1>a, <2>2, <1>9, TaskFacts DEF Delisted, WorkSet, BoardSet, Handing,
       Busy, Slots, IInv, Apart, QueueOrWorker
  <2>3. ASSUME NEW v \in Workers
        PROVE  /\ work'[q][v].at = "taken" => board'[q][work'[q][v].item.task] = "queued"
               /\ work'[q][v].at = "running" => board'[q][work'[q][v].item.task] = "running"
               /\ work'[q][v].at = "ended" => board'[q][work'[q][v].item.task] = "none"
    BY <1>0, <1>a, <1>9, TaskFacts DEF Delisted, WorkSet, BoardSet, Busy, IInv,
       Apart, OneWorker
  <2>4. ASSUME NEW x \in Tasks, x \notin inFlight'[q] PROVE board'[q][x] = "none"
    BY <1>0, <1>a, <2>4, <1>9, TaskFacts DEF Delisted, WorkSet, BoardSet, Handing,
       Busy
  <2> QED
    BY <2>1, <2>2, <2>3, <2>4
<1>10. ASSUME NEW p \in Procs, NEW w \in Workers, Cleared(p, w)
      PROVE  /\ \A d \in Callers :
                  /\ hand'[q][d].at \in {"marked", "undone"} => board'[q][hand'[q][d].task] = "none"
                  /\ hand'[q][d].at = "listed" => board'[q][hand'[q][d].task] = "queued"
             /\ \A k \in Lanes : \A n \in Slots(q, k)' : board'[q][queue'[q][k][n].task] = "queued"
             /\ \A v \in Workers :
                  /\ work'[q][v].at = "taken" => board'[q][work'[q][v].item.task] = "queued"
                  /\ work'[q][v].at = "running" => board'[q][work'[q][v].item.task] = "running"
                  /\ work'[q][v].at = "ended" => board'[q][work'[q][v].item.task] = "none"
             /\ \A x \in Tasks : x \notin inFlight'[q] => board'[q][x] = "none"
  <2>1. ASSUME NEW d \in Callers
        PROVE  /\ hand'[q][d].at \in {"marked", "undone"} => board'[q][hand'[q][d].task] = "none"
               /\ hand'[q][d].at = "listed" => board'[q][hand'[q][d].task] = "queued"
    BY <1>0, <1>a, <1>10, TaskFacts DEF Cleared, WorkSet, OutOfFlight, Handing
  <2>2. ASSUME NEW k \in Lanes, NEW n \in Slots(q, k)'
        PROVE  board'[q][queue'[q][k][n].task] = "queued"
    BY <1>0, <1>a, <2>2, <1>10, TaskFacts DEF Cleared, WorkSet, OutOfFlight,
       Handing, Busy, Slots
  <2>3. ASSUME NEW v \in Workers
        PROVE  /\ work'[q][v].at = "taken" => board'[q][work'[q][v].item.task] = "queued"
               /\ work'[q][v].at = "running" => board'[q][work'[q][v].item.task] = "running"
               /\ work'[q][v].at = "ended" => board'[q][work'[q][v].item.task] = "none"
    BY <1>0, <1>a, <1>10, TaskFacts DEF Cleared, WorkSet, OutOfFlight, Busy
  <2>4. ASSUME NEW x \in Tasks, x \notin inFlight'[q] PROVE board'[q][x] = "none"
    BY <1>0, <1>a, <2>4, <1>10, TaskFacts DEF Cleared, WorkSet, OutOfFlight,
       Handing, Busy
  <2> QED
    BY <2>1, <2>2, <2>3, <2>4
<1>11. ASSUME NEW p \in Procs, NEW w \in Workers, Left(p, w)
      PROVE  /\ \A d \in Callers :
                  /\ hand'[q][d].at \in {"marked", "undone"} => board'[q][hand'[q][d].task] = "none"
                  /\ hand'[q][d].at = "listed" => board'[q][hand'[q][d].task] = "queued"
             /\ \A k \in Lanes : \A n \in Slots(q, k)' : board'[q][queue'[q][k][n].task] = "queued"
             /\ \A v \in Workers :
                  /\ work'[q][v].at = "taken" => board'[q][work'[q][v].item.task] = "queued"
                  /\ work'[q][v].at = "running" => board'[q][work'[q][v].item.task] = "running"
                  /\ work'[q][v].at = "ended" => board'[q][work'[q][v].item.task] = "none"
             /\ \A x \in Tasks : x \notin inFlight'[q] => board'[q][x] = "none"
  <2>1. ASSUME NEW d \in Callers
        PROVE  /\ hand'[q][d].at \in {"marked", "undone"} => board'[q][hand'[q][d].task] = "none"
               /\ hand'[q][d].at = "listed" => board'[q][hand'[q][d].task] = "queued"
    BY <1>0, <1>a, <1>11, TaskFacts DEF Left, WorkSet, Handing
  <2>2. ASSUME NEW k \in Lanes, NEW n \in Slots(q, k)'
        PROVE  board'[q][queue'[q][k][n].task] = "queued"
    BY <1>0, <1>a, <2>2, <1>11, TaskFacts DEF Left, WorkSet, Handing, Busy, Slots
  <2>3. ASSUME NEW v \in Workers
        PROVE  /\ work'[q][v].at = "taken" => board'[q][work'[q][v].item.task] = "queued"
               /\ work'[q][v].at = "running" => board'[q][work'[q][v].item.task] = "running"
               /\ work'[q][v].at = "ended" => board'[q][work'[q][v].item.task] = "none"
    BY <1>0, <1>a, <1>11, TaskFacts DEF Left, WorkSet, Busy
  <2>4. ASSUME NEW x \in Tasks, x \notin inFlight'[q] PROVE board'[q][x] = "none"
    BY <1>0, <1>a, <2>4, <1>11, TaskFacts DEF Left, WorkSet, Handing, Busy
  <2> QED
    BY <2>1, <2>2, <2>3, <2>4
<1>12. CASE UNCHANGED taskVars
  BY <1>0, <1>12 DEF taskVars, Slots
<1> QED
  BY <1>1, <1>2, <1>3, <1>4, <1>5, <1>6, <1>7, <1>8, <1>9, <1>10, <1>11, <1>12
     DEF DataStep

\* A process whose workers have left has nothing queued and nothing that runs.
LEMMA NothingLeft ==
  ASSUME IInv, NEW p \in Procs, Exited(p)
  PROVE  /\ \A l \in Lanes : queue[p][l] = <<>> /\ Slots(p, l) = {}
         /\ \A w \in Workers : ~Busy(p, w)
<1>1. \A w \in Workers : work[p][w].at = "exited"
  BY DEF Exited
<1>2. \A w \in Workers : queue[p][WorkerLane[w]] = <<>>
  BY <1>1 DEF IInv, Phases
<1>3. \A l \in Lanes : queue[p][l] = <<>>
  BY <1>2, CronAssumption
<1>4. Len(<<>>) = 0
  OBVIOUS
<1>5. \A l \in Lanes : Slots(p, l) = {}
  BY <1>3, <1>4 DEF Slots
<1> QED
  BY <1>1, <1>3, <1>5 DEF Busy

\* The goroutines keep to their phases, and the lock to its owner.
LEMMA PhasesStep == IInv /\ [Next]_vars => Phases'
<1> SUFFICES ASSUME IInv, [Next]_vars PROVE Phases'
  OBVIOUS
<1> USE DEF vars, ctlVars, taskVars
<1>1. ASSUME NEW p \in Procs, Cancel(p) PROVE Phases'
  BY <1>1, CronAssumption DEF IInv, Phases, Handing, Closed, Quiesced, Callers,
     TypeOK, Cancel
<1>2. ASSUME NEW p \in Procs, Lock(p) PROVE Phases'
  BY <1>2, CronAssumption DEF IInv, Phases, Handing, Closed, Quiesced, Callers,
     TypeOK, Lock
<1>3. ASSUME NEW p \in Procs, LockFails(p) PROVE Phases'
  BY <1>3, CronAssumption DEF IInv, Phases, Handing, Closed, Quiesced, Callers,
     TypeOK, LockFails
<1>4. ASSUME NEW p \in Procs, Tick(p) PROVE Phases'
  BY <1>4, CronAssumption DEF IInv, Phases, Handing, Closed, Quiesced, Callers,
     TypeOK, Tick
<1>5. ASSUME NEW p \in Procs, EnqueueDue(p) PROVE Phases'
  <2>1. UNCHANGED <<lock, loop, sched, queue, work>> /\ sched[p] = "ticking"
    BY <1>5 DEF EnqueueDue, Enqueue
  <2>2. PICK t \in Tasks : Enqueue(p, "sched", t)
    BY <1>5 DEF IInv, TypeOK, EnqueueDue
  <2>3. \A q \in Procs, d \in Callers : Handing(q, d)' => Handing(q, d) \/ (q = p /\ d = "sched")
    <3>1. "sched" \in Callers
      BY DEF Callers
    <3>2. UNCHANGED taskVars \/ Hold(p, "sched", "marked", t)
      BY <2>2 DEF Enqueue
    <3>3. UNCHANGED hand \/ HandSet(p, "sched", "marked", t)
      BY <3>1, <3>2, HoldFacts DEF IInv
    <3> QED
      BY <3>3 DEF HandSet, Handing
  <2> QED
    BY <2>1, <2>3 DEF IInv, Phases, Closed, Callers
<1>6. ASSUME NEW p \in Procs, TickEnds(p) PROVE Phases'
  BY <1>6, CronAssumption DEF IInv, Phases, Handing, Closed, Quiesced, Callers,
     TypeOK, TickEnds
<1>7. ASSUME NEW p \in Procs, Quiesce(p) PROVE Phases'
  BY <1>7, CronAssumption DEF IInv, Phases, Handing, Closed, Quiesced, Callers,
     TypeOK, Quiesce
<1>8. ASSUME NEW p \in Procs, Release(p) PROVE Phases'
  BY <1>8, CronAssumption DEF IInv, Phases, Handing, Closed, Quiesced, Callers,
     TypeOK, Release
<1>9. ASSUME NEW p \in Procs, Request(p) PROVE Phases'
  <2>1. UNCHANGED <<lock, loop, sched, queue, work>> /\ loop[p] = "running"
    BY <1>9 DEF Request, Enqueue
  <2>2. PICK t \in Tasks : Enqueue(p, "loop", t)
    BY <1>9 DEF IInv, TypeOK, Request
  <2>3. \A q \in Procs, d \in Callers : Handing(q, d)' => Handing(q, d) \/ (q = p /\ d = "loop")
    <3>1. "loop" \in Callers
      BY DEF Callers
    <3>2. UNCHANGED taskVars \/ Hold(p, "loop", "marked", t)
      BY <2>2 DEF Enqueue
    <3>3. UNCHANGED hand \/ HandSet(p, "loop", "marked", t)
      BY <3>1, <3>2, HoldFacts DEF IInv
    <3> QED
      BY <3>3 DEF HandSet, Handing
  <2> QED
    BY <2>1, <2>3 DEF IInv, Phases, Closed, Callers
<1>10. ASSUME NEW p \in Procs, StopLoop(p) PROVE Phases'
  BY <1>10, CronAssumption DEF IInv, Phases, Handing, Closed, Quiesced, Callers,
     TypeOK, StopLoop
<1>11. ASSUME NEW p \in Procs, CloseQueues(p) PROVE Phases'
  BY <1>11, CronAssumption DEF IInv, Phases, Handing, Closed, Quiesced, Callers,
     TypeOK, CloseQueues
<1>12. ASSUME NEW p \in Procs, Return(p) PROVE Phases'
  BY <1>12, CronAssumption DEF IInv, Phases, Handing, Closed, Quiesced, Callers,
     TypeOK, Return
<1>13. ASSUME NEW p \in Procs, NEW c \in Callers, ListQueued(p, c) PROVE Phases'
  BY <1>13, CronAssumption DEF IInv, Phases, Handing, Closed, Quiesced, Callers,
     TypeOK, ListQueued, Hold, List
<1>14. ASSUME NEW p \in Procs, NEW c \in Callers, SendOrUndo(p, c) PROVE Phases'
  <2>1. UNCHANGED <<lock, loop, sched, work>> /\ Handing(p, c)
    BY <1>14 DEF SendOrUndo, Handing
  <2>2. \A w \in Workers : work[p][w].at # "exited"
    BY <2>1 DEF IInv, Phases, Closed, Callers
  <2>3. \A q \in Procs : q # p => queue'[q] = queue[q]
    BY <1>14 DEF IInv, TypeOK, SendOrUndo
  <2>4. \A q \in Procs, d \in Callers : Handing(q, d)' => Handing(q, d)
    <3>1. hand[p][c].task \in Tasks \cup {None}
      BY RecordFacts DEF IInv
    <3>2. HandSet(p, c, "none", None) \/ HandSet(p, c, "undone", hand[p][c].task)
      BY <3>1, <1>14, HoldFacts DEF IInv, SendOrUndo
    <3> QED
      BY <2>1, <3>2 DEF HandSet, Handing
  <2> QED
    BY <2>1, <2>2, <2>3, <2>4 DEF IInv, Phases, Closed, Callers
<1>15. ASSUME NEW p \in Procs, NEW c \in Callers, Undo(p, c) PROVE Phases'
  BY <1>15, CronAssumption DEF IInv, Phases, Handing, Closed, Quiesced, Callers,
     TypeOK, Undo, Hold
<1>16. ASSUME NEW p \in Procs, NEW w \in Workers, Take(p, w) PROVE Phases'
  BY <1>16, CronAssumption DEF IInv, Phases, Handing, Closed, Quiesced, Callers,
     TypeOK, Take, WorkAt
<1>17. ASSUME NEW p \in Procs, NEW w \in Workers, Begin(p, w) PROVE Phases'
  <2>1. UNCHANGED <<lock, loop, sched, queue, hand>> /\ work[p][w].item \in Items \cup {NoItem}
    BY <1>17, RecordFacts DEF IInv, Begin
  <2>2. \E point \in {"idle", "ending", "running", "ended"} : WorkSet(p, w, point, work[p][w].item)
    BY <2>1, <1>17, WorkAtFacts DEF IInv, Begin
  <2>3. \A q \in Procs, v \in Workers : work'[q][v].at = "exited" => work[q][v].at = "exited"
    BY <2>2 DEF WorkSet
  <2> QED
    BY <2>1, <2>3 DEF IInv, Phases, Closed, Handing
<1>18. ASSUME NEW p \in Procs, NEW w \in Workers, RunEnds(p, w) PROVE Phases'
  BY <1>18, CronAssumption DEF IInv, Phases, Handing, Closed, Quiesced, Callers,
     TypeOK, RunEnds, WorkAt
<1>19. ASSUME NEW p \in Procs, NEW w \in Workers, Finish(p, w) PROVE Phases'
  <2>1. UNCHANGED <<lock, loop, sched, queue, hand>> /\ work[p][w].item \in Items \cup {NoItem}
    BY <1>19, RecordFacts DEF IInv, Finish, Delist, ClearInFlight
  <2>2. \E point \in {"idle", "ending", "running", "ended"} : WorkSet(p, w, point, work[p][w].item)
    BY <2>1, <1>19, WorkAtFacts DEF IInv, Finish, Delist, ClearInFlight
  <2>3. \A q \in Procs, v \in Workers : work'[q][v].at = "exited" => work[q][v].at = "exited"
    BY <2>2 DEF WorkSet
  <2> QED
    BY <2>1, <2>3 DEF IInv, Phases, Closed, Handing
<1>20. ASSUME NEW p \in Procs, NEW w \in Workers, Exit(p, w) PROVE Phases'
  BY <1>20, CronAssumption DEF IInv, Phases, Handing, Closed, Quiesced, Callers,
     TypeOK, Exit, WorkAt
<1>21. CASE UNCHANGED vars
  BY <1>21, CronAssumption DEF IInv, Phases, Handing, Closed, Quiesced, Callers,
     TypeOK, vars
<1> QED
  BY <1>1, <1>2, <1>3, <1>4, <1>5, <1>6, <1>7, <1>8, <1>9, <1>10, <1>11, <1>12,
     <1>13, <1>14, <1>15, <1>16, <1>17, <1>18, <1>19, <1>20, <1>21 DEF Next,
     SchedStep, LoopStep, EnqueueStep, WorkStep, Terminating

\* The lock changes hands only when its owner has nothing left.
LEMMA LockSteps == IInv /\ [Next]_vars => (lock' = lock \/ (UNCHANGED taskVars /\ \A q \in Procs : lock = q => Exited(q)))
<1> SUFFICES ASSUME IInv, [Next]_vars
             PROVE  (lock' = lock \/ (UNCHANGED taskVars /\ \A q \in Procs : lock = q => Exited(q)))
  OBVIOUS
<1> USE DEF vars, ctlVars, taskVars
<1>1. ASSUME NEW p \in Procs, Cancel(p)
      PROVE  (lock' = lock \/ (UNCHANGED taskVars /\ \A q \in Procs : lock = q => Exited(q)))
  BY <1>1, CronAssumption DEF IInv, Cancel
<1>2. ASSUME NEW p \in Procs, Lock(p)
      PROVE  (lock' = lock \/ (UNCHANGED taskVars /\ \A q \in Procs : lock = q => Exited(q)))
  BY <1>2, CronAssumption DEF IInv, Lock
<1>3. ASSUME NEW p \in Procs, LockFails(p)
      PROVE  (lock' = lock \/ (UNCHANGED taskVars /\ \A q \in Procs : lock = q => Exited(q)))
  BY <1>3, CronAssumption DEF IInv, LockFails
<1>4. ASSUME NEW p \in Procs, Tick(p)
      PROVE  (lock' = lock \/ (UNCHANGED taskVars /\ \A q \in Procs : lock = q => Exited(q)))
  BY <1>4, CronAssumption DEF IInv, Tick
<1>5. ASSUME NEW p \in Procs, EnqueueDue(p)
      PROVE  (lock' = lock \/ (UNCHANGED taskVars /\ \A q \in Procs : lock = q => Exited(q)))
  BY <1>5, CronAssumption DEF IInv, EnqueueDue, Enqueue, Hold
<1>6. ASSUME NEW p \in Procs, TickEnds(p)
      PROVE  (lock' = lock \/ (UNCHANGED taskVars /\ \A q \in Procs : lock = q => Exited(q)))
  BY <1>6, CronAssumption DEF IInv, TickEnds
<1>7. ASSUME NEW p \in Procs, Quiesce(p)
      PROVE  (lock' = lock \/ (UNCHANGED taskVars /\ \A q \in Procs : lock = q => Exited(q)))
  BY <1>7, CronAssumption DEF IInv, Quiesce
<1>8. ASSUME NEW p \in Procs, Release(p)
      PROVE  (lock' = lock \/ (UNCHANGED taskVars /\ \A q \in Procs : lock = q => Exited(q)))
  <2>1. lock = p /\ Exited(p) /\ UNCHANGED taskVars
    BY <1>8 DEF IInv, Phases, Release
  <2> QED
    BY <2>1
<1>9. ASSUME NEW p \in Procs, Request(p)
      PROVE  (lock' = lock \/ (UNCHANGED taskVars /\ \A q \in Procs : lock = q => Exited(q)))
  BY <1>9, CronAssumption DEF IInv, Request, Enqueue, Hold
<1>10. ASSUME NEW p \in Procs, StopLoop(p)
       PROVE  (lock' = lock \/ (UNCHANGED taskVars /\ \A q \in Procs : lock = q => Exited(q)))
  BY <1>10, CronAssumption DEF IInv, StopLoop
<1>11. ASSUME NEW p \in Procs, CloseQueues(p)
       PROVE  (lock' = lock \/ (UNCHANGED taskVars /\ \A q \in Procs : lock = q => Exited(q)))
  BY <1>11, CronAssumption DEF IInv, CloseQueues
<1>12. ASSUME NEW p \in Procs, Return(p)
       PROVE  (lock' = lock \/ (UNCHANGED taskVars /\ \A q \in Procs : lock = q => Exited(q)))
  BY <1>12, CronAssumption DEF IInv, Return
<1>13. ASSUME NEW p \in Procs, NEW c \in Callers, ListQueued(p, c)
       PROVE  (lock' = lock \/ (UNCHANGED taskVars /\ \A q \in Procs : lock = q => Exited(q)))
  BY <1>13, CronAssumption DEF IInv, ListQueued, Hold, List
<1>14. ASSUME NEW p \in Procs, NEW c \in Callers, SendOrUndo(p, c)
       PROVE  (lock' = lock \/ (UNCHANGED taskVars /\ \A q \in Procs : lock = q => Exited(q)))
  BY <1>14, CronAssumption DEF IInv, SendOrUndo, Hold, List
<1>15. ASSUME NEW p \in Procs, NEW c \in Callers, Undo(p, c)
       PROVE  (lock' = lock \/ (UNCHANGED taskVars /\ \A q \in Procs : lock = q => Exited(q)))
  BY <1>15, CronAssumption DEF IInv, Undo, Hold
<1>16. ASSUME NEW p \in Procs, NEW w \in Workers, Take(p, w)
       PROVE  (lock' = lock \/ (UNCHANGED taskVars /\ \A q \in Procs : lock = q => Exited(q)))
  BY <1>16, CronAssumption DEF IInv, Take, WorkAt
<1>17. ASSUME NEW p \in Procs, NEW w \in Workers, Begin(p, w)
       PROVE  (lock' = lock \/ (UNCHANGED taskVars /\ \A q \in Procs : lock = q => Exited(q)))
  BY <1>17, CronAssumption DEF IInv, Begin, WorkAt, List
<1>18. ASSUME NEW p \in Procs, NEW w \in Workers, RunEnds(p, w)
       PROVE  (lock' = lock \/ (UNCHANGED taskVars /\ \A q \in Procs : lock = q => Exited(q)))
  BY <1>18, CronAssumption DEF IInv, RunEnds, WorkAt
<1>19. ASSUME NEW p \in Procs, NEW w \in Workers, Finish(p, w)
       PROVE  (lock' = lock \/ (UNCHANGED taskVars /\ \A q \in Procs : lock = q => Exited(q)))
  BY <1>19, CronAssumption DEF IInv, Finish, Delist, ClearInFlight, WorkAt, List
<1>20. ASSUME NEW p \in Procs, NEW w \in Workers, Exit(p, w)
       PROVE  (lock' = lock \/ (UNCHANGED taskVars /\ \A q \in Procs : lock = q => Exited(q)))
  BY <1>20, CronAssumption DEF IInv, Exit, WorkAt
<1>21. CASE UNCHANGED vars
  BY <1>21, CronAssumption DEF IInv, vars
<1> QED
  BY <1>1, <1>2, <1>3, <1>4, <1>5, <1>6, <1>7, <1>8, <1>9, <1>10, <1>11, <1>12,
     <1>13, <1>14, <1>15, <1>16, <1>17, <1>18, <1>19, <1>20, <1>21 DEF Next,
     SchedStep, LoopStep, EnqueueStep, WorkStep, Terminating

\* Nothing that is due is in a process without the lock.
LEMMA SchedulingStep == IInv /\ [Next]_vars => Scheduling'
<1> SUFFICES ASSUME IInv, [Next]_vars, NEW q \in Procs
             PROVE  /\ \A k \in Lanes : \A n \in Slots(q, k)' : queue'[q][k][n].by = "sched" => lock' = q
                    /\ \A v \in Workers : work'[q][v].at \in {"taken", "running"} /\ work'[q][v].item.by = "sched"
                         => lock' = q
  BY DEF Scheduling
<1>0. /\ \A k \in Lanes : \A n \in Slots(q, k) : queue[q][k][n].by = "sched" => lock = q
      /\ \A v \in Workers : work[q][v].at \in {"taken", "running"} /\ work[q][v].item.by = "sched" => lock = q
  BY DEF IInv, Scheduling
<1>a. [DataStep]_taskVars
  BY DataSteps
<1>b. lock' = lock \/ (UNCHANGED taskVars /\ \A r \in Procs : lock = r => Exited(r))
  BY LockSteps
<1>1. ASSUME NEW p \in Procs, NEW c \in Callers, NEW t \in Tasks, Marked(p, c, t)
      PROVE  /\ \A k \in Lanes : \A n \in Slots(q, k)' : queue'[q][k][n].by = "sched" => lock = q
             /\ \A v \in Workers : work'[q][v].at \in {"taken", "running"} /\ work'[q][v].item.by = "sched"
                  => lock = q
  <2>1. ASSUME NEW k \in Lanes, NEW n \in Slots(q, k)', queue'[q][k][n].by = "sched"
        PROVE  lock = q
    BY <1>0, <2>1, <1>1 DEF Marked, HandSet, Slots
  <2>2. ASSUME NEW v \in Workers, work'[q][v].at \in {"taken", "running"}, work'[q][v].item.by = "sched"
        PROVE  lock = q
    BY <1>0, <2>2, <1>1 DEF Marked, HandSet
  <2> QED
    BY <2>1, <2>2
<1>2. ASSUME NEW p \in Procs, NEW c \in Callers, Listed(p, c)
      PROVE  /\ \A k \in Lanes : \A n \in Slots(q, k)' : queue'[q][k][n].by = "sched" => lock = q
             /\ \A v \in Workers : work'[q][v].at \in {"taken", "running"} /\ work'[q][v].item.by = "sched"
                  => lock = q
  <2>1. ASSUME NEW k \in Lanes, NEW n \in Slots(q, k)', queue'[q][k][n].by = "sched"
        PROVE  lock = q
    BY <1>0, <2>1, <1>2 DEF Listed, HandSet, BoardSet, Slots
  <2>2. ASSUME NEW v \in Workers, work'[q][v].at \in {"taken", "running"}, work'[q][v].item.by = "sched"
        PROVE  lock = q
    BY <1>0, <2>2, <1>2 DEF Listed, HandSet, BoardSet
  <2> QED
    BY <2>1, <2>2
<1>3. ASSUME NEW p \in Procs, NEW c \in Callers, Sent(p, c)
      PROVE  /\ \A k \in Lanes : \A n \in Slots(q, k)' : queue'[q][k][n].by = "sched" => lock = q
             /\ \A v \in Workers : work'[q][v].at \in {"taken", "running"} /\ work'[q][v].item.by = "sched"
                  => lock = q
  <2>1. ASSUME NEW k \in Lanes, NEW n \in Slots(q, k)', queue'[q][k][n].by = "sched"
        PROVE  lock = q
    BY <1>0, <2>1, <1>3 DEF Sent, HandSet, Handing, IInv, Phases
  <2>2. ASSUME NEW v \in Workers, work'[q][v].at \in {"taken", "running"}, work'[q][v].item.by = "sched"
        PROVE  lock = q
    BY <1>0, <2>2, <1>3 DEF Sent, HandSet
  <2> QED
    BY <2>1, <2>2
<1>4. ASSUME NEW p \in Procs, NEW c \in Callers, Refused(p, c)
      PROVE  /\ \A k \in Lanes : \A n \in Slots(q, k)' : queue'[q][k][n].by = "sched" => lock = q
             /\ \A v \in Workers : work'[q][v].at \in {"taken", "running"} /\ work'[q][v].item.by = "sched"
                  => lock = q
  <2>1. ASSUME NEW k \in Lanes, NEW n \in Slots(q, k)', queue'[q][k][n].by = "sched"
        PROVE  lock = q
    BY <1>0, <2>1, <1>4 DEF Refused, HandSet, BoardSet, Slots
  <2>2. ASSUME NEW v \in Workers, work'[q][v].at \in {"taken", "running"}, work'[q][v].item.by = "sched"
        PROVE  lock = q
    BY <1>0, <2>2, <1>4 DEF Refused, HandSet, BoardSet
  <2> QED
    BY <2>1, <2>2
<1>5. ASSUME NEW p \in Procs, NEW c \in Callers, Undone(p, c)
      PROVE  /\ \A k \in Lanes : \A n \in Slots(q, k)' : queue'[q][k][n].by = "sched" => lock = q
             /\ \A v \in Workers : work'[q][v].at \in {"taken", "running"} /\ work'[q][v].item.by = "sched"
                  => lock = q
  <2>1. ASSUME NEW k \in Lanes, NEW n \in Slots(q, k)', queue'[q][k][n].by = "sched"
        PROVE  lock = q
    BY <1>0, <2>1, <1>5 DEF Undone, HandSet, OutOfFlight, Slots
  <2>2. ASSUME NEW v \in Workers, work'[q][v].at \in {"taken", "running"}, work'[q][v].item.by = "sched"
        PROVE  lock = q
    BY <1>0, <2>2, <1>5 DEF Undone, HandSet, OutOfFlight
  <2> QED
    BY <2>1, <2>2
<1>6. ASSUME NEW p \in Procs, NEW w \in Workers, Taken(p, w)
      PROVE  /\ \A k \in Lanes : \A n \in Slots(q, k)' : queue'[q][k][n].by = "sched" => lock = q
             /\ \A v \in Workers : work'[q][v].at \in {"taken", "running"} /\ work'[q][v].item.by = "sched"
                  => lock = q
  <2>1. ASSUME NEW k \in Lanes, NEW n \in Slots(q, k)', queue'[q][k][n].by = "sched"
        PROVE  lock = q
    BY <1>0, <2>1, <1>6 DEF Taken, WorkSet
  <2>2. ASSUME NEW v \in Workers, work'[q][v].at \in {"taken", "running"}, work'[q][v].item.by = "sched"
        PROVE  lock = q
    BY <1>0, <2>2, <1>6 DEF Taken, WorkSet
  <2> QED
    BY <2>1, <2>2
<1>7. ASSUME NEW p \in Procs, NEW w \in Workers, Begun(p, w)
      PROVE  /\ \A k \in Lanes : \A n \in Slots(q, k)' : queue'[q][k][n].by = "sched" => lock = q
             /\ \A v \in Workers : work'[q][v].at \in {"taken", "running"} /\ work'[q][v].item.by = "sched"
                  => lock = q
  <2>1. ASSUME NEW k \in Lanes, NEW n \in Slots(q, k)', queue'[q][k][n].by = "sched"
        PROVE  lock = q
    BY <1>0, <2>1, <1>7 DEF Begun, WorkSet, BoardSet, Slots
  <2>2. ASSUME NEW v \in Workers, work'[q][v].at \in {"taken", "running"}, work'[q][v].item.by = "sched"
        PROVE  lock = q
    BY <1>0, <2>2, <1>7 DEF Begun, WorkSet, BoardSet
  <2> QED
    BY <2>1, <2>2
<1>8. ASSUME NEW p \in Procs, NEW w \in Workers, RunOver(p, w)
      PROVE  /\ \A k \in Lanes : \A n \in Slots(q, k)' : queue'[q][k][n].by = "sched" => lock = q
             /\ \A v \in Workers : work'[q][v].at \in {"taken", "running"} /\ work'[q][v].item.by = "sched"
                  => lock = q
  <2>1. ASSUME NEW k \in Lanes, NEW n \in Slots(q, k)', queue'[q][k][n].by = "sched"
        PROVE  lock = q
    BY <1>0, <2>1, <1>8 DEF RunOver, WorkSet, Slots
  <2>2. ASSUME NEW v \in Workers, work'[q][v].at \in {"taken", "running"}, work'[q][v].item.by = "sched"
        PROVE  lock = q
    BY <1>0, <2>2, <1>8 DEF RunOver, WorkSet
  <2> QED
    BY <2>1, <2>2
<1>9. ASSUME NEW p \in Procs, NEW w \in Workers, Delisted(p, w)
      PROVE  /\ \A k \in Lanes : \A n \in Slots(q, k)' : queue'[q][k][n].by = "sched" => lock = q
             /\ \A v \in Workers : work'[q][v].at \in {"taken", "running"} /\ work'[q][v].item.by = "sched"
                  => lock = q
  <2>1. ASSUME NEW k \in Lanes, NEW n \in Slots(q, k)', queue'[q][k][n].by = "sched"
        PROVE  lock = q
    BY <1>0, <2>1, <1>9 DEF Delisted, WorkSet, BoardSet, Slots
  <2>2. ASSUME NEW v \in Workers, work'[q][v].at \in {"taken", "running"}, work'[q][v].item.by = "sched"
        PROVE  lock = q
    BY <1>0, <2>2, <1>9 DEF Delisted, WorkSet, BoardSet
  <2> QED
    BY <2>1, <2>2
<1>10. ASSUME NEW p \in Procs, NEW w \in Workers, Cleared(p, w)
      PROVE  /\ \A k \in Lanes : \A n \in Slots(q, k)' : queue'[q][k][n].by = "sched" => lock = q
             /\ \A v \in Workers : work'[q][v].at \in {"taken", "running"} /\ work'[q][v].item.by = "sched"
                  => lock = q
  <2>1. ASSUME NEW k \in Lanes, NEW n \in Slots(q, k)', queue'[q][k][n].by = "sched"
        PROVE  lock = q
    BY <1>0, <2>1, <1>10 DEF Cleared, WorkSet, OutOfFlight, Slots
  <2>2. ASSUME NEW v \in Workers, work'[q][v].at \in {"taken", "running"}, work'[q][v].item.by = "sched"
        PROVE  lock = q
    BY <1>0, <2>2, <1>10 DEF Cleared, WorkSet, OutOfFlight
  <2> QED
    BY <2>1, <2>2
<1>11. ASSUME NEW p \in Procs, NEW w \in Workers, Left(p, w)
      PROVE  /\ \A k \in Lanes : \A n \in Slots(q, k)' : queue'[q][k][n].by = "sched" => lock = q
             /\ \A v \in Workers : work'[q][v].at \in {"taken", "running"} /\ work'[q][v].item.by = "sched"
                  => lock = q
  <2>1. ASSUME NEW k \in Lanes, NEW n \in Slots(q, k)', queue'[q][k][n].by = "sched"
        PROVE  lock = q
    BY <1>0, <2>1, <1>11 DEF Left, WorkSet, Slots
  <2>2. ASSUME NEW v \in Workers, work'[q][v].at \in {"taken", "running"}, work'[q][v].item.by = "sched"
        PROVE  lock = q
    BY <1>0, <2>2, <1>11 DEF Left, WorkSet
  <2> QED
    BY <2>1, <2>2
<1>12. CASE UNCHANGED taskVars
  <2>1. /\ \A k \in Lanes : \A n \in Slots(q, k)' : queue'[q][k][n].by = "sched" => lock = q /\ n \in Slots(q, k)
        /\ \A v \in Workers : work'[q][v].at \in {"taken", "running"} /\ work'[q][v].item.by = "sched"
             => lock = q /\ Busy(q, v)
    BY <1>0, <1>12 DEF taskVars, Slots, Busy
  <2>2. lock = q => Exited(q) \/ lock' = lock
    BY <1>b
  <2> QED
    BY <2>1, <2>2, NothingLeft
<1>13. CASE ~UNCHANGED taskVars
  <2>1. lock' = lock /\ DataStep
    BY <1>13, <1>a, <1>b
  <2> QED
    BY <1>1, <1>2, <1>3, <1>4, <1>5, <1>6, <1>7, <1>8, <1>9, <1>10, <1>11, <2>1 DEF DataStep
<1> QED
  BY <1>12, <1>13

-----------------------------------------------------------------------------
\* Nothing is in flight.
LEMMA InitInv == Init => IInv
<1> SUFFICES ASSUME Init PROVE IInv
  OBVIOUS
<1>1. /\ \A p \in Procs, c \in Callers : ~Handing(p, c)
      /\ \A p \in Procs, w \in Workers : work[p][w].at = "idle"
      /\ \A p \in Procs, l \in Lanes : queue[p][l] = <<>>
      /\ \A p \in Procs : sched[p] = "locking" /\ loop[p] = "running" /\ inFlight[p] = {}
      /\ \A p \in Procs, t \in Tasks : board[p][t] = "none"
      /\ \A p \in Procs, c \in Callers : hand[p][c].at = "none"
      /\ lock = None
  BY DEF Init, Handing, Empty
<1>2. Len(<<>>) = 0
  OBVIOUS
<1>3. \A p \in Procs, l \in Lanes : Slots(p, l) = {}
  BY <1>1, <1>2 DEF Slots
<1>4. \A p \in Procs, w \in Workers : ~Busy(p, w)
  BY <1>1 DEF Busy
<1>5. TypeOK
  <2>1. Empty \in Hands /\ [at |-> "idle", item |-> NoItem] \in Jobs /\ <<>> \in Seq(Items)
    BY DEF Empty, Hands, Jobs
  <2>2. hand \in [Procs -> [Callers -> Hands]] /\ work \in [Procs -> [Workers -> Jobs]]
    BY <2>1 DEF Init
  <2>3. queue \in [Procs -> [Lanes -> Seq(Items)]]
    BY <2>1 DEF Init
  <2> QED
    BY <2>2, <2>3 DEF Init, TypeOK
<1>6. Phases
  BY <1>1, CronAssumption DEF Phases, Closed, Callers
<1>7. Placed /\ Apart
  BY <1>1, <1>3, <1>4 DEF Placed, Apart, OneHand, HandOrQueue, HandOrWorker, OneSlot,
     QueueOrWorker, OneWorker
<1>8. Shown /\ Scheduling
  BY <1>1, <1>3 DEF Shown, Scheduling
<1> QED
  BY <1>5, <1>6, <1>7, <1>8 DEF IInv

\* Every step keeps the invariant.
LEMMA Inductive == IInv /\ [Next]_vars => IInv'
<1> SUFFICES ASSUME IInv, [Next]_vars PROVE IInv'
  OBVIOUS
<1>1. [DataStep]_taskVars
  BY DataSteps
<1> QED
  BY <1>1, TypeStep, PhasesStep, PlacedStep, OneHandStep, HandOrQueueStep, HandOrWorkerStep,
     OneSlotStep, QueueOrWorkerStep, OneWorkerStep, ShownStep, SchedulingStep DEF IInv, Apart

\* The inductive invariant holds in every state of the processes.
THEOREM Invariance == Spec => []IInv
BY InitInv, Inductive, PTL DEF Spec

\* Every variable keeps its type.
THEOREM TypeCorrect == Spec => []TypeOK
<1>1. IInv => TypeOK
  BY DEF IInv
<1> QED
  BY <1>1, Invariance, PTL

\* What is due is held by one process at a time, in any number of processes and workers: the
\* next owner of the schedule starts after the items of the last one have ended.
THEOREM OneSchedulerAtATime == Spec => []OneScheduler
<1>1. ASSUME IInv PROVE OneScheduler
  <2>1. ASSUME NEW p \in Procs, NEW i \in Scheduled(p) PROVE lock = p
    <3>1. i.by = "sched" /\ i \in Waiting(p) \cup At(p, {"taken", "running"})
      BY <2>1 DEF Scheduled
    <3>2. CASE i \in Waiting(p)
      <4>1. PICK l \in Lanes : i \in ToSet(queue[p][l])
        BY <3>2 DEF Waiting
      <4>2. queue[p][l] \in Seq(Items)
        BY <1>1 DEF IInv, TypeOK
      <4>3. PICK n \in Slots(p, l) : i = queue[p][l][n]
        BY <4>1, <4>2 DEF ToSet, Slots
      <4> QED
        BY <1>1, <3>1, <4>3 DEF IInv, Scheduling
    <3>3. CASE i \in At(p, {"taken", "running"})
      <4>1. PICK w \in Workers : work[p][w].at \in {"taken", "running"} /\ i = work[p][w].item
        BY <3>3 DEF At
      <4> QED
        BY <1>1, <3>1, <4>1 DEF IInv, Scheduling
    <3> QED
      BY <3>1, <3>2, <3>3
  <2> QED
    BY <2>1 DEF OneScheduler
<1> QED
  BY <1>1, Invariance, PTL

\* Neither the scheduler in a tick nor the loop in a request sends to a queue that is closed.
THEOREM NobodySendsOnClosed == Spec => []NoSendOnClosed
<1>1. IInv => NoSendOnClosed
  BY DEF IInv, Phases, NoSendOnClosed, Handing, Closed, Callers
<1> QED
  BY <1>1, Invariance, PTL

\* The board agrees with the loop at every step: queued in a queue or taken from it, running
\* while it runs, and not listed when the loop does not have it.
THEOREM BoardIsExact == Spec => []BoardExact
<1>1. ASSUME IInv PROVE BoardExact
  <2> SUFFICES ASSUME NEW p \in Procs, NEW t \in Tasks
               PROVE  /\ (\E i \in Waiting(p) \cup At(p, {"taken"}) : i.task = t) => board[p][t] = "queued"
                      /\ (\E i \in At(p, {"running"}) : i.task = t) => board[p][t] = "running"
                      /\ t \notin inFlight[p] => board[p][t] = "none"
    BY DEF BoardExact
  <2>1. ASSUME NEW i \in Waiting(p), i.task = t PROVE board[p][t] = "queued"
    <3>1. PICK l \in Lanes : i \in ToSet(queue[p][l])
      BY <2>1 DEF Waiting
    <3>2. queue[p][l] \in Seq(Items)
      BY <1>1 DEF IInv, TypeOK
    <3>3. PICK n \in Slots(p, l) : i = queue[p][l][n]
      BY <3>1, <3>2 DEF ToSet, Slots
    <3> QED
      BY <1>1, <2>1, <3>3 DEF IInv, Shown
  <2>2. ASSUME NEW i \in At(p, {"taken"}), i.task = t PROVE board[p][t] = "queued"
    <3>1. PICK w \in Workers : work[p][w].at = "taken" /\ i = work[p][w].item
      BY <2>2 DEF At
    <3> QED
      BY <1>1, <2>2, <3>1 DEF IInv, Shown
  <2>3. ASSUME NEW i \in At(p, {"running"}), i.task = t PROVE board[p][t] = "running"
    <3>1. PICK w \in Workers : work[p][w].at = "running" /\ i = work[p][w].item
      BY <2>3 DEF At
    <3> QED
      BY <1>1, <2>3, <3>1 DEF IInv, Shown
  <2>4. t \notin inFlight[p] => board[p][t] = "none"
    BY <1>1 DEF IInv, Shown
  <2> QED
    BY <2>1, <2>2, <2>3, <2>4
<1> QED
  BY <1>1, Invariance, PTL
=============================================================================
