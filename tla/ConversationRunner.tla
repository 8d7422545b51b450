------------------------- MODULE ConversationRunner -------------------------
(***************************************************************************)
(* internal/channelruntime/core/runner.go: one goroutine per conversation  *)
(* with a bounded channel, a semaphore shared by all of them, an idle      *)
(* timer that retires a worker, and a shutdown that closes the gate        *)
(* against senders and drains what was accepted.                           *)
(*                                                                         *)
(* Regions under r.mu are one step.  A job stands for one call of Enqueue. *)
(* Workers are the identities of conversationWorker structs; one is used   *)
(* once.  `stale' and `fate' are history variables.                        *)
(***************************************************************************)
EXTENDS Naturals, Sequences, FiniteSets

CONSTANTS
  Keys,           \* conversation keys
  Jobs,           \* calls of Enqueue
  Workers,        \* identities of conversationWorker structs
  KeyOf,          \* the key each call names
  QueueSize,      \* capacity of a worker's channel
  SemSize,        \* capacity of the shared semaphore
  MaxIncrements,  \* bound: calls of IncrementVersion
  None

ASSUME RunnerAssumption ==
  /\ IsFiniteSet(Jobs) /\ IsFiniteSet(Workers)
  /\ KeyOf \in [Jobs -> Keys]
  /\ QueueSize \in Nat \ {0}
  /\ SemSize \in Nat \ {0}
  /\ MaxIncrements \in Nat
  /\ None \notin Jobs \cup Workers \cup Keys

VARIABLES
  cancelled,   \* workersCtx.Err() != nil
  shut,        \* where shutdownWorkers is
  workers,     \* r.workers
  wkey,        \* the key a worker was started for
  phase,       \* where the worker goroutine is
  queue,       \* w.jobs
  cur,         \* the job a worker received and has not settled
  version,     \* w.version
  senders,     \* w.enqueueSenders
  sem,         \* slots taken in r.sem
  pc,          \* where each Enqueue call is
  target,      \* the worker an Enqueue call reserved
  jobVersion,  \* the version handed to buildJob
  increments,  \* calls of IncrementVersion that took effect
  fate,        \* what became of each job
  stale        \* jobs whose key was incremented since they were built

workerVars == <<workers, wkey, phase, queue, cur, version, senders>>
callVars == <<pc, target, jobVersion>>
vars == <<cancelled, shut, workerVars, sem, callVars, increments, fate, stale>>

ShutStages == {"idle", "gate", "closed", "draining", "done"}
Phases == {"unused", "top", "select", "acquire", "running", "exited"}
CallPoints == {"idle", "checked", "reserved", "sending", "releasing", "returned"}
Fates == {"new", "rejected", "accepted", "handled", "dropped"}

Init ==
  /\ cancelled = FALSE
  /\ shut = "idle"
  /\ workers = [k \in Keys |-> None]
  /\ wkey = [w \in Workers |-> None]
  /\ phase = [w \in Workers |-> "unused"]
  /\ queue = [w \in Workers |-> <<>>]
  /\ cur = [w \in Workers |-> None]
  /\ version = [w \in Workers |-> 0]
  /\ senders = [w \in Workers |-> 0]
  /\ sem = 0
  /\ pc = [j \in Jobs |-> "idle"]
  /\ target = [j \in Jobs |-> None]
  /\ jobVersion = [j \in Jobs |-> 0]
  /\ increments = 0
  /\ fate = [j \in Jobs |-> "new"]
  /\ stale = {}

-----------------------------------------------------------------------------
Closed == shut \in {"closed", "draining", "done"}

\* A goroutine that has been started and has not returned (workerWG).
Live(w) == phase[w] \in {"top", "select", "acquire", "running"}

CurrentVersion(k) == IF workers[k] = None THEN 0 ELSE version[workers[k]]

\* Fresh structs are interchangeable, so which of them is next is fixed.
FreshWorker == CHOOSE w \in Workers : phase[w] = "unused"

\* ensureWorkerLocked: w is the registered worker of k, started here if k had none.
EnsureWorker(k, w) ==
  \/ /\ workers[k] = w
     /\ UNCHANGED <<workers, wkey, phase>>
  \/ /\ workers[k] = None
     /\ phase[w] = "unused" /\ w = FreshWorker
     /\ workers' = [workers EXCEPT ![k] = w]
     /\ wkey' = [wkey EXCEPT ![w] = k]
     /\ phase' = [phase EXCEPT ![w] = "top"]

\* The call holds a reservation, or its job is accepted and not settled.
Pinned(j) == pc[j] \in {"reserved", "sending"} \/ fate[j] = "accepted"

-----------------------------------------------------------------------------
\* Enqueue

EnqueueStart(j) ==
  /\ pc[j] = "idle"
  /\ IF cancelled
     THEN /\ pc' = [pc EXCEPT ![j] = "returned"]
          /\ fate' = [fate EXCEPT ![j] = "rejected"]
     ELSE /\ pc' = [pc EXCEPT ![j] = "checked"]
          /\ UNCHANGED fate
  /\ UNCHANGED <<cancelled, shut, workerVars, sem, target, jobVersion, increments, stale>>

\* reserveWorkerWithVersion, then buildJob with the version read under r.mu.
Reserve(j) ==
  /\ pc[j] = "checked"
  /\ ~Closed
  /\ \E w \in Workers :
        /\ EnsureWorker(KeyOf[j], w)
        /\ senders' = [senders EXCEPT ![w] = @ + 1]
        /\ target' = [target EXCEPT ![j] = w]
        /\ jobVersion' = [jobVersion EXCEPT ![j] = version[w]]
  /\ pc' = [pc EXCEPT ![j] = "reserved"]
  /\ UNCHANGED <<cancelled, shut, queue, cur, version, sem, increments, fate, stale>>

ReserveRefused(j) ==
  /\ pc[j] = "checked"
  /\ Closed
  /\ pc' = [pc EXCEPT ![j] = "returned"]
  /\ fate' = [fate EXCEPT ![j] = "rejected"]
  /\ UNCHANGED <<cancelled, shut, workerVars, sem, target, jobVersion, increments, stale>>

\* enqueueGate.RLock, which a waiting writer holds off, and the checks under it.
PassGate(j) ==
  /\ pc[j] = "reserved"
  /\ shut # "gate"
  /\ ~cancelled /\ ~Closed
  /\ pc' = [pc EXCEPT ![j] = "sending"]
  /\ UNCHANGED <<cancelled, shut, workerVars, sem, target, jobVersion, increments, fate, stale>>

Fail(j) ==
  /\ pc' = [pc EXCEPT ![j] = "releasing"]
  /\ fate' = [fate EXCEPT ![j] = "rejected"]
  /\ UNCHANGED <<cancelled, shut, workerVars, sem, target, jobVersion, increments, stale>>

GateRefused(j) == pc[j] = "reserved" /\ shut # "gate" /\ cancelled /\ Fail(j)

\* case w.jobs <- job; the read lock is released as the call leaves the select.
Send(j) ==
  /\ pc[j] = "sending"
  /\ Len(queue[target[j]]) < QueueSize
  /\ queue' = [queue EXCEPT ![target[j]] = Append(@, j)]
  /\ pc' = [pc EXCEPT ![j] = "releasing"]
  /\ fate' = [fate EXCEPT ![j] = "accepted"]
  /\ UNCHANGED <<cancelled, shut, workers, wkey, phase, cur, version, senders,
                 sem, target, jobVersion, increments, stale>>

\* Mutant: the select has no case for workersCtx.Done.
SendBlocks(j) == FALSE

SendStopped(j) == pc[j] = "sending" /\ cancelled /\ Fail(j)

\* The caller's own context ends, before the gate or in the select.
CallerGivesUp(j) ==
  /\ \/ pc[j] = "sending"
     \/ pc[j] = "reserved" /\ shut # "gate"
  /\ Fail(j)

\* The deferred releaseWorkerSender.
ReleaseSender(j) ==
  /\ pc[j] = "releasing"
  /\ pc' = [pc EXCEPT ![j] = "returned"]
  /\ senders' = [senders EXCEPT ![target[j]] = @ - 1]
  /\ UNCHANGED <<cancelled, shut, workers, wkey, phase, queue, cur, version,
                 sem, target, jobVersion, increments, fate, stale>>

IncrementVersion(k) ==
  /\ increments < MaxIncrements
  /\ ~cancelled /\ ~Closed
  /\ \E w \in Workers :
        /\ EnsureWorker(k, w)
        /\ version' = [version EXCEPT ![w] = @ + 1]
  /\ increments' = increments + 1
  /\ stale' = stale \cup {j \in Jobs : KeyOf[j] = k /\ Pinned(j)}
  /\ UNCHANGED <<cancelled, shut, queue, cur, senders, sem, callVars, fate>>

-----------------------------------------------------------------------------
\* runWorker

LoopTop(w) ==
  /\ phase[w] = "top"
  /\ phase' = [phase EXCEPT ![w] = IF cancelled THEN "exited" ELSE "select"]
  /\ UNCHANGED <<cancelled, shut, workers, wkey, queue, cur, version, senders,
                 sem, callVars, increments, fate, stale>>

StopWorker(w) ==
  /\ phase[w] = "select"
  /\ cancelled
  /\ phase' = [phase EXCEPT ![w] = "exited"]
  /\ UNCHANGED <<cancelled, shut, workers, wkey, queue, cur, version, senders,
                 sem, callVars, increments, fate, stale>>

\* Mutants: one of the two checks is missing.
CanRetireReserved(w) == workers[wkey[w]] = w /\ Len(queue[w]) = 0
CanRetireQueued(w) == workers[wkey[w]] = w /\ senders[w] = 0

CanRetire(w) ==
  /\ workers[wkey[w]] = w
  /\ senders[w] = 0
  /\ Len(queue[w]) = 0

\* The idle timer fires and retireIdleWorker accepts; a refusal changes nothing.
RetireIdle(w) ==
  /\ phase[w] = "select"
  /\ CanRetire(w)
  /\ workers' = [workers EXCEPT ![wkey[w]] = None]
  /\ phase' = [phase EXCEPT ![w] = "exited"]
  /\ UNCHANGED <<cancelled, shut, wkey, queue, cur, version, senders, sem,
                 callVars, increments, fate, stale>>

TakeJob(w) ==
  /\ phase[w] = "select"
  /\ queue[w] # <<>>
  /\ cur' = [cur EXCEPT ![w] = Head(queue[w])]
  /\ queue' = [queue EXCEPT ![w] = Tail(@)]
  /\ phase' = [phase EXCEPT ![w] = "acquire"]
  /\ UNCHANGED <<cancelled, shut, workers, wkey, version, senders, sem,
                 callVars, increments, fate, stale>>

AcquireSem(w) ==
  /\ phase[w] = "acquire"
  /\ sem < SemSize
  /\ sem' = sem + 1
  /\ phase' = [phase EXCEPT ![w] = "running"]
  /\ UNCHANGED <<cancelled, shut, workers, wkey, queue, cur, version, senders,
                 callVars, increments, fate, stale>>

DropTaken(w) ==
  /\ phase[w] = "acquire"
  /\ cancelled
  /\ phase' = [phase EXCEPT ![w] = "exited"]
  /\ fate' = [fate EXCEPT ![cur[w]] = "dropped"]
  /\ cur' = [cur EXCEPT ![w] = None]
  /\ UNCHANGED <<cancelled, shut, workers, wkey, queue, version, senders, sem,
                 callVars, increments, stale>>

\* Mutant: the slot is not released.
FinishJobKeepingSlot(w) ==
  /\ phase[w] = "running"
  /\ fate' = [fate EXCEPT ![cur[w]] = "handled"]
  /\ cur' = [cur EXCEPT ![w] = None]
  /\ phase' = [phase EXCEPT ![w] = "top"]
  /\ UNCHANGED <<cancelled, shut, workers, wkey, queue, version, senders, sem,
                 callVars, increments, stale>>

\* handleJob returns, or its recover ran onPanic; the slot is released either way.
FinishJob(w) ==
  /\ phase[w] = "running"
  /\ fate' = [fate EXCEPT ![cur[w]] = "handled"]
  /\ cur' = [cur EXCEPT ![w] = None]
  /\ sem' = sem - 1
  /\ phase' = [phase EXCEPT ![w] = "top"]
  /\ UNCHANGED <<cancelled, shut, workers, wkey, queue, version, senders,
                 callVars, increments, stale>>

-----------------------------------------------------------------------------
\* workersCtx is cancelled; context.AfterFunc runs shutdownWorkers.

Cancel ==
  /\ ~cancelled
  /\ cancelled' = TRUE
  /\ UNCHANGED <<shut, workerVars, sem, callVars, increments, fate, stale>>

ShutWaitGate ==
  /\ shut = "idle" /\ cancelled
  /\ shut' = "gate"
  /\ UNCHANGED <<cancelled, workerVars, sem, callVars, increments, fate, stale>>

\* Mutant: closed is set without the gate.
ShutCloseUngated ==
  /\ shut = "gate"
  /\ shut' = "closed"
  /\ UNCHANGED <<cancelled, workerVars, sem, callVars, increments, fate, stale>>

\* enqueueGate.Lock is granted once no reader holds it; closed is set under it.
ShutClose ==
  /\ shut = "gate"
  /\ \A j \in Jobs : pc[j] # "sending"
  /\ shut' = "closed"
  /\ UNCHANGED <<cancelled, workerVars, sem, callVars, increments, fate, stale>>

ShutJoin ==
  /\ shut = "closed"
  /\ \A w \in Workers : ~Live(w)
  /\ shut' = "draining"
  /\ UNCHANGED <<cancelled, workerVars, sem, callVars, increments, fate, stale>>

\* The snapshot taken under the gate: no worker is registered or removed after it.
ShutDrain(k) ==
  LET w == workers[k] IN
  /\ shut = "draining"
  /\ w # None
  /\ queue[w] # <<>>
  /\ fate' = [fate EXCEPT ![Head(queue[w])] = "dropped"]
  /\ queue' = [queue EXCEPT ![w] = Tail(@)]
  /\ UNCHANGED <<cancelled, shut, workers, wkey, phase, cur, version, senders,
                 sem, callVars, increments, stale>>

ShutDone ==
  /\ shut = "draining"
  /\ \A k \in Keys : workers[k] # None => queue[workers[k]] = <<>>
  /\ shut' = "done"
  /\ workers' = [k \in Keys |-> None]
  /\ UNCHANGED <<cancelled, wkey, phase, queue, cur, version, senders, sem,
                 callVars, increments, fate, stale>>

\* The runner is closed and every call has returned.
Finished ==
  /\ shut = "done"
  /\ \A j \in Jobs : pc[j] = "returned"
  /\ UNCHANGED vars

-----------------------------------------------------------------------------
CallStep(j) ==
  \/ EnqueueStart(j) \/ Reserve(j) \/ ReserveRefused(j) \/ PassGate(j)
  \/ GateRefused(j) \/ Send(j) \/ SendStopped(j) \/ ReleaseSender(j)

WorkerStep(w) ==
  \/ LoopTop(w) \/ StopWorker(w) \/ TakeJob(w) \/ AcquireSem(w)
  \/ DropTaken(w) \/ FinishJob(w)

ShutStep ==
  \/ ShutWaitGate \/ ShutClose \/ ShutJoin \/ ShutDone
  \/ \E k \in Keys : ShutDrain(k)

Next ==
  \/ \E j \in Jobs : CallStep(j) \/ CallerGivesUp(j)
  \/ \E k \in Keys : IncrementVersion(k)
  \/ \E w \in Workers : WorkerStep(w) \/ RetireIdle(w)
  \/ Cancel
  \/ ShutStep
  \/ Finished

Spec == Init /\ [][Next]_vars

\* Goroutines are scheduled and handlers return.  Callers start calls and give
\* up, the runtime is cancelled, and idle timers fire, when they please.
Fairness ==
  /\ \A j \in Jobs : WF_vars(pc[j] # "idle" /\ CallStep(j))
  /\ \A w \in Workers : WF_vars(WorkerStep(w))
  /\ WF_vars(ShutStep)

FairSpec == Spec /\ Fairness
-----------------------------------------------------------------------------
\* Properties

TypeOK ==
  /\ cancelled \in BOOLEAN
  /\ shut \in ShutStages
  /\ workers \in [Keys -> Workers \cup {None}]
  /\ wkey \in [Workers -> Keys \cup {None}]
  /\ phase \in [Workers -> Phases]
  /\ queue \in [Workers -> Seq(Jobs)]
  /\ cur \in [Workers -> Jobs \cup {None}]
  /\ version \in [Workers -> Nat]
  /\ senders \in [Workers -> Nat]
  /\ sem \in Nat
  /\ pc \in [Jobs -> CallPoints]
  /\ target \in [Jobs -> Workers \cup {None}]
  /\ jobVersion \in [Jobs -> Nat]
  /\ increments \in Nat
  /\ fate \in [Jobs -> Fates]
  /\ stale \in SUBSET Jobs

\* The goroutines that have not returned serve different conversations, although
\* workers are created, retired and replaced while calls hold reservations.
SerialPerKey ==
  \A v, w \in Workers : Live(v) /\ Live(w) /\ v # w => wkey[v] # wkey[w]

\* While a job is queued or running, its handler sees a version other than the
\* one it was built with exactly when IncrementVersion ran in between: retiring
\* a worker, which resets the version to 0, can neither hide a reset from a job
\* nor make a fresh job look superseded.
StaleDetected ==
  \A j \in Jobs : fate[j] = "accepted" =>
    (jobVersion[j] # CurrentVersion(KeyOf[j]) <=> j \in stale)

\* Every slot of the semaphore is held by a running handler and returned by it,
\* through panics, drops and shutdown.
SemExact == sem = Cardinality({w \in Workers : phase[w] = "running"}) /\ sem <= SemSize

\* When WaitClosed returns nothing runs and every accepted job was handled or
\* dropped, whatever the calls of Enqueue that raced the shutdown did.
SettledWhenClosed ==
  shut = "done" => (\A w \in Workers : ~Live(w)) /\ (\A j \in Jobs : fate[j] # "accepted")

\* Per-conversation order, at-most-once execution and acceptance as callers see
\* them: the runner implements KeyedExecutor.
Serving(k) == IF workers[k] = None THEN <<>> ELSE
  LET w == workers[k] IN
    (IF phase[w] = "acquire" THEN <<cur[w]>> ELSE <<>>) \o queue[w]

Executor == INSTANCE KeyedExecutor WITH
  Depth <- QueueSize + 1,
  Limit <- SemSize,
  pending <- [k \in Keys |-> Serving(k)],
  active <- [k \in Keys |->
               IF workers[k] # None /\ phase[workers[k]] = "running"
               THEN cur[workers[k]] ELSE None],
  stage <- CASE shut = "done" -> "done"
             [] shut \in {"closed", "draining"} -> "closed"
             [] cancelled /\ shut \in {"idle", "gate"} -> "stopping"
             [] OTHER -> "open"

ImplementsExecutor == Executor!Spec

\* Accepted jobs are handled or dropped in the end: no wakeup, slot or queue is lost.
AcceptedSettles == []<>(\A j \in Jobs : fate[j] # "accepted")

\* Cancelling the workers' context always ends in WaitClosed returning, with no
\* call of Enqueue left blocked, even on a full queue.
StopReturns ==
  cancelled ~> shut = "done" /\ \A j \in Jobs : pc[j] \in {"idle", "returned"}
=============================================================================
