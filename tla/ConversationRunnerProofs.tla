---------------------- MODULE ConversationRunnerProofs ----------------------
(***************************************************************************)
(* Theorems about ConversationRunner for every set of conversations, calls *)
(* and workers and every capacity.  IInv is the inductive invariant: the   *)
(* two counters of the code count what they claim, a live worker is the    *)
(* registered worker of its conversation, a pinned call keeps its worker   *)
(* registered, and an accepted job is in that worker's hands.              *)
(***************************************************************************)
EXTENDS ConversationRunner, FiniteSetTheorems, SequenceTheorems, TLAPS

Reserving(j) == pc[j] \in {"reserved", "sending", "releasing"}
ReservedOn(w) == {j \in Jobs : target[j] = w /\ Reserving(j)}
Running == {w \in Workers : phase[w] = "running"}

InSeq(x, s) == \E i \in 1..Len(s) : s[i] = x

\* enqueueSenders counts the calls that hold a reservation.
SendersCounted == \A w \in Workers : senders[w] = Cardinality(ReservedOn(w))

\* r.sem counts the running handlers.
SemCounted == sem = Cardinality(Running) /\ sem <= SemSize

\* r.workers and the goroutines agree.
Registry ==
  /\ \A k \in Keys : workers[k] # None =>
        wkey[workers[k]] = k /\ phase[workers[k]] # "unused"
  /\ \A w \in Workers : Live(w) => wkey[w] \in Keys /\ workers[wkey[w]] = w
  /\ \A w \in Workers : cur[w] # None => phase[w] \in {"acquire", "running"}

\* What shutdownWorkers has established at each stage.
Shutdown ==
  /\ shut # "idle" => cancelled
  /\ Closed => \A j \in Jobs : pc[j] # "sending"
  /\ shut \in {"draining", "done"} => \A w \in Workers : ~Live(w)

\* Where a call is and what is known of its job.
Calls ==
  \A j \in Jobs :
    /\ Reserving(j) => target[j] \in Workers
    /\ pc[j] \in {"idle", "checked"} => fate[j] = "new" /\ j \notin stale
    /\ pc[j] \in {"reserved", "sending"} => fate[j] = "new"
    /\ fate[j] = "accepted" => pc[j] \in {"releasing", "returned"}

\* What sits in a channel or a worker's hands was sent.
Sent(j) == pc[j] \in {"releasing", "returned"}

Placed ==
  \A w \in Workers :
    /\ cur[w] # None => Sent(cur[w])
    /\ \A i \in 1..Len(queue[w]) : Sent(queue[w][i])

\* A pinned call's worker stays registered, and an accepted job is held by it.
Held ==
  \A j \in Jobs :
    /\ shut # "done" /\ (Pinned(j) \/ Reserving(j)) =>
         target[j] \in Workers /\ workers[KeyOf[j]] = target[j]
    /\ fate[j] = "accepted" =>
         /\ shut # "done"
         /\ cur[target[j]] = j \/ InSeq(j, queue[target[j]])

\* The version a pinned call was built with, compared with its worker's.
Versions ==
  \A j \in Jobs : Pinned(j) /\ shut # "done" =>
    /\ jobVersion[j] <= version[target[j]]
    /\ jobVersion[j] # version[target[j]] <=> j \in stale

IInv ==
  /\ TypeOK /\ SendersCounted /\ SemCounted /\ Registry /\ Shutdown
  /\ Calls /\ Placed /\ Held /\ Versions
-----------------------------------------------------------------------------
\* Removing a call from those reserved on a worker, or a running worker, is
\* what the two decrements of the code are.
LEMMA CardinalityLess ==
  ASSUME NEW S, IsFiniteSet(S), NEW x \in S
  PROVE  /\ Cardinality(S) \in Nat \ {0}
         /\ Cardinality(S \ {x}) = Cardinality(S) - 1
<1>1. Cardinality(S) \in Nat
  BY FS_CardinalityType
<1>2. IsFiniteSet(S \ {x}) /\ Cardinality(S \ {x}) = Cardinality(S) - 1
  BY FS_RemoveElement
<1>3. Cardinality(S \ {x}) \in Nat
  BY <1>2, FS_CardinalityType
<1> QED
  BY <1>1, <1>2, <1>3

\* The sets that the counts stand for are finite.
LEMMA FiniteCounts ==
  /\ \A w \in Workers : IsFiniteSet(ReservedOn(w))
  /\ IsFiniteSet(Running)
BY RunnerAssumption, FS_Subset DEF ReservedOn, Running

\* ensureWorkerLocked leaves w registered for k and disturbs nobody else.
LEMMA EnsureWorkerFacts ==
  ASSUME TypeOK, Registry, NEW k \in Keys, NEW w \in Workers, EnsureWorker(k, w)
  PROVE  /\ workers' = [workers EXCEPT ![k] = w]
         /\ wkey' = [wkey EXCEPT ![w] = k]
         /\ phase' \in [Workers -> Phases]
         /\ phase'[w] # "unused"
         /\ \A v \in Workers : v # w => phase'[v] = phase[v]
         /\ \/ workers[k] = w /\ phase' = phase
            \/ workers[k] = None /\ phase[w] = "unused" /\ phase'[w] = "top"
<1>1. w # None /\ workers \in [Keys -> Workers \cup {None}]
       /\ wkey \in [Workers -> Keys \cup {None}] /\ phase \in [Workers -> Phases]
  BY RunnerAssumption DEF TypeOK
<1>2. CASE workers[k] = w /\ UNCHANGED <<workers, wkey, phase>>
  BY <1>1, <1>2 DEF Registry
<1>3. CASE /\ workers[k] = None
           /\ phase[w] = "unused" /\ w = FreshWorker
           /\ workers' = [workers EXCEPT ![k] = w]
           /\ wkey' = [wkey EXCEPT ![w] = k]
           /\ phase' = [phase EXCEPT ![w] = "top"]
  BY <1>1, <1>3 DEF Phases
<1> QED
  BY <1>2, <1>3 DEF EnsureWorker

\* A channel as a sequence.
LEMMA SeqFacts ==
  ASSUME NEW s \in Seq(Jobs), NEW x \in Jobs
  PROVE  /\ InSeq(x, Append(s, x))
         /\ \A y : InSeq(y, s) => InSeq(y, Append(s, x))
         /\ \A i \in 1..Len(Append(s, x)) :
              \/ Append(s, x)[i] = x
              \/ i \in 1..Len(s) /\ Append(s, x)[i] = s[i]
         /\ s # <<>> =>
              /\ Head(s) \in Jobs /\ Head(s) = s[1] /\ 1 \in 1..Len(s)
              /\ Tail(s) \in Seq(Jobs)
              /\ \A i \in 1..Len(Tail(s)) : i+1 \in 1..Len(s) /\ Tail(s)[i] = s[i+1]
              /\ \A y : InSeq(y, s) => y = Head(s) \/ InSeq(y, Tail(s))
<1>1. InSeq(x, Append(s, x)) /\ \A y : InSeq(y, s) => InSeq(y, Append(s, x))
  BY DEF InSeq
<1>2. \A i \in 1..Len(Append(s, x)) :
         \/ Append(s, x)[i] = x
         \/ i \in 1..Len(s) /\ Append(s, x)[i] = s[i]
  BY AppendProperties
<1>3. ASSUME s # <<>>
      PROVE  /\ Head(s) \in Jobs /\ Head(s) = s[1] /\ 1 \in 1..Len(s)
             /\ Tail(s) \in Seq(Jobs)
             /\ \A i \in 1..Len(Tail(s)) : i+1 \in 1..Len(s) /\ Tail(s)[i] = s[i+1]
  BY <1>3
<1>4. ASSUME s # <<>>, NEW y, InSeq(y, s)
      PROVE  y = Head(s) \/ InSeq(y, Tail(s))
  <2>1. PICK i \in 1..Len(s) : s[i] = y
    BY <1>4 DEF InSeq
  <2>2. CASE i = 1
    BY <2>1, <2>2, <1>3, <1>4
  <2>3. CASE i # 1
    <3>1. i - 1 \in 1..Len(Tail(s)) /\ Tail(s)[i - 1] = s[i]
      BY <2>3, <1>4
    <3> QED
      BY <3>1, <2>1 DEF InSeq
  <2> QED
    BY <2>2, <2>3
<1> QED
  BY <1>1, <1>2, <1>3, <1>4

\* Steps that leave the reservations, or the running handlers, alone.
LEMMA SendersFrame ==
  ASSUME SendersCounted, senders' = senders, target' = target,
         \A j \in Jobs : Reserving(j)' <=> Reserving(j)
  PROVE  SendersCounted'
<1>1. ASSUME NEW w \in Workers PROVE ReservedOn(w)' = ReservedOn(w)
  BY DEF ReservedOn
<1> QED
  BY <1>1 DEF SendersCounted

\* A step that moves no holder of a slot keeps the semaphore.
LEMMA SemFrame ==
  ASSUME SemCounted, sem' = sem,
         \A w \in Workers : (phase[w] = "running")' <=> phase[w] = "running"
  PROVE  SemCounted'
<1>1. Running' = Running
  BY DEF Running
<1> QED
  BY <1>1 DEF SemCounted

\* Every step keeps the types.
LEMMA TypeStep == IInv /\ [Next]_vars => TypeOK'
<1> SUFFICES ASSUME IInv, [Next]_vars PROVE TypeOK'
  OBVIOUS
<1>1. ASSUME NEW j \in Jobs, EnqueueStart(j) PROVE TypeOK'
  BY <1>1, RunnerAssumption DEF IInv, TypeOK, ShutStages, Phases, CallPoints, Fates,
     workerVars, callVars, EnqueueStart
<1>2. ASSUME NEW j \in Jobs, Reserve(j) PROVE TypeOK'
  <2>1. PICK w \in Workers :
          /\ EnsureWorker(KeyOf[j], w)
          /\ senders' = [senders EXCEPT ![w] = @ + 1]
          /\ target' = [target EXCEPT ![j] = w]
          /\ jobVersion' = [jobVersion EXCEPT ![j] = version[w]]
    BY <1>2 DEF Reserve
  <2>2. KeyOf[j] \in Keys
    BY RunnerAssumption
  <2>3. /\ workers' = [workers EXCEPT ![KeyOf[j]] = w]
        /\ wkey' = [wkey EXCEPT ![w] = KeyOf[j]]
        /\ phase' \in [Workers -> Phases]
        /\ phase'[w] # "unused"
        /\ \A v \in Workers : v # w => phase'[v] = phase[v]
        /\ \/ workers[KeyOf[j]] = w /\ phase' = phase
           \/ workers[KeyOf[j]] = None /\ phase[w] = "unused" /\ phase'[w] = "top"
    BY <2>1, <2>2, EnsureWorkerFacts DEF IInv
  <2>4. QED
    BY <2>1, <2>2, <2>3, <1>2 DEF IInv, TypeOK, CallPoints, Reserve
<1>3. ASSUME NEW j \in Jobs, ReserveRefused(j) PROVE TypeOK'
  BY <1>3, RunnerAssumption DEF IInv, TypeOK, ShutStages, Phases, CallPoints, Fates,
     workerVars, callVars, ReserveRefused
<1>4. ASSUME NEW j \in Jobs, PassGate(j) PROVE TypeOK'
  BY <1>4, RunnerAssumption DEF IInv, TypeOK, ShutStages, Phases, CallPoints, Fates,
     workerVars, callVars, PassGate
<1>5. ASSUME NEW j \in Jobs, GateRefused(j) PROVE TypeOK'
  BY <1>5, RunnerAssumption DEF IInv, TypeOK, ShutStages, Phases, CallPoints, Fates,
     workerVars, callVars, GateRefused, Fail
<1>6. ASSUME NEW j \in Jobs, Send(j) PROVE TypeOK'
  <2>1. target[j] \in Workers
    BY <1>6 DEF IInv, Calls, Reserving, Send
  <2>2. QED
    BY <2>1, <1>6 DEF IInv, TypeOK, CallPoints, Fates, Send
<1>7. ASSUME NEW j \in Jobs, SendStopped(j) PROVE TypeOK'
  BY <1>7, RunnerAssumption DEF IInv, TypeOK, ShutStages, Phases, CallPoints, Fates,
     workerVars, callVars, SendStopped, Fail
<1>8. ASSUME NEW j \in Jobs, CallerGivesUp(j) PROVE TypeOK'
  BY <1>8, RunnerAssumption DEF IInv, TypeOK, ShutStages, Phases, CallPoints, Fates,
     workerVars, callVars, CallerGivesUp, Fail
<1>9. ASSUME NEW j \in Jobs, ReleaseSender(j) PROVE TypeOK'
  <2>1. target[j] \in Workers /\ j \in ReservedOn(target[j])
    BY <1>9 DEF IInv, Calls, Reserving, ReservedOn, ReleaseSender
  <2>2. senders[target[j]] \in Nat \ {0}
    BY <2>1, FiniteCounts, CardinalityLess DEF IInv, SendersCounted, SemCounted
  <2>3. QED
    BY <2>1, <2>2, <1>9 DEF IInv, TypeOK, CallPoints, ReleaseSender, callVars
<1>10. ASSUME NEW k \in Keys, IncrementVersion(k) PROVE TypeOK'
  <2>1. PICK w \in Workers :
          /\ EnsureWorker(k, w)
          /\ version' = [version EXCEPT ![w] = @ + 1]
    BY <1>10 DEF IncrementVersion
  <2>2. k \in Keys
    OBVIOUS
  <2>3. /\ workers' = [workers EXCEPT ![k] = w]
        /\ wkey' = [wkey EXCEPT ![w] = k]
        /\ phase' \in [Workers -> Phases]
        /\ phase'[w] # "unused"
        /\ \A v \in Workers : v # w => phase'[v] = phase[v]
        /\ \/ workers[k] = w /\ phase' = phase
           \/ workers[k] = None /\ phase[w] = "unused" /\ phase'[w] = "top"
    BY <2>1, <2>2, EnsureWorkerFacts DEF IInv
  <2>4. QED
    BY <2>1, <2>3, <1>10, SMTT(40) DEF IInv, TypeOK, IncrementVersion, callVars
<1>11. ASSUME NEW w \in Workers, LoopTop(w) PROVE TypeOK'
  BY <1>11, RunnerAssumption DEF IInv, TypeOK, ShutStages, Phases, CallPoints,
     Fates, workerVars, callVars, LoopTop
<1>12. ASSUME NEW w \in Workers, StopWorker(w) PROVE TypeOK'
  BY <1>12, RunnerAssumption DEF IInv, TypeOK, ShutStages, Phases, CallPoints,
     Fates, workerVars, callVars, StopWorker
<1>13. ASSUME NEW w \in Workers, RetireIdle(w) PROVE TypeOK'
  BY <1>13, RunnerAssumption DEF IInv, TypeOK, ShutStages, Phases, CallPoints,
     Fates, workerVars, callVars, RetireIdle, CanRetire
<1>14. ASSUME NEW w \in Workers, TakeJob(w) PROVE TypeOK'
  BY <1>14, RunnerAssumption DEF IInv, TypeOK, ShutStages, Phases, CallPoints,
     Fates, workerVars, callVars, TakeJob
<1>15. ASSUME NEW w \in Workers, AcquireSem(w) PROVE TypeOK'
  BY <1>15, RunnerAssumption DEF IInv, TypeOK, ShutStages, Phases, CallPoints,
     Fates, workerVars, callVars, AcquireSem
<1>16. ASSUME NEW w \in Workers, DropTaken(w) PROVE TypeOK'
  BY <1>16, RunnerAssumption DEF IInv, TypeOK, ShutStages, Phases, CallPoints,
     Fates, workerVars, callVars, DropTaken
<1>17. ASSUME NEW w \in Workers, FinishJob(w) PROVE TypeOK'
  <2>1. w \in Running
    BY <1>17 DEF Running, FinishJob
  <2>2. sem \in Nat \ {0}
    BY <2>1, FiniteCounts, CardinalityLess DEF IInv, SendersCounted, SemCounted
  <2>3. QED
    BY <2>2, sem - 1 \in Nat, <1>17 DEF IInv, TypeOK, Phases, Fates, FinishJob,
       callVars
<1>18. ASSUME Cancel PROVE TypeOK'
  BY <1>18, RunnerAssumption DEF IInv, TypeOK, ShutStages, Phases, CallPoints,
     Fates, workerVars, callVars, Cancel
<1>19. ASSUME ShutWaitGate PROVE TypeOK'
  BY <1>19, RunnerAssumption DEF IInv, TypeOK, ShutStages, Phases, CallPoints,
     Fates, workerVars, callVars, ShutWaitGate
<1>20. ASSUME ShutClose PROVE TypeOK'
  BY <1>20, RunnerAssumption DEF IInv, TypeOK, ShutStages, Phases, CallPoints,
     Fates, workerVars, callVars, ShutClose
<1>21. ASSUME ShutJoin PROVE TypeOK'
  BY <1>21, RunnerAssumption DEF IInv, TypeOK, ShutStages, Phases, CallPoints,
     Fates, workerVars, callVars, ShutJoin
<1>22. ASSUME ShutDone PROVE TypeOK'
  BY <1>22, RunnerAssumption DEF IInv, TypeOK, ShutStages, Phases, CallPoints,
     Fates, workerVars, callVars, ShutDone
<1>23. ASSUME NEW k \in Keys, ShutDrain(k) PROVE TypeOK'
  BY <1>23, RunnerAssumption DEF IInv, TypeOK, ShutStages, Phases, CallPoints,
     Fates, workerVars, callVars, ShutDrain
<1>24. CASE UNCHANGED vars
  BY <1>24 DEF IInv, TypeOK, ShutStages, Phases, CallPoints, Fates, workerVars,
     callVars, vars, workerVars, callVars
<1> QED
  BY <1>1, <1>2, <1>3, <1>4, <1>5, <1>6, <1>7, <1>8, <1>9, <1>10, <1>11, <1>12,
     <1>13, <1>14, <1>15, <1>16, <1>17, <1>18, <1>19, <1>20, <1>21, <1>22, <1>23,
     <1>24 DEF Next, CallStep, WorkerStep, ShutStep, Finished

\* Every step keeps who is registered.
LEMMA RegistryStep == IInv /\ [Next]_vars => Registry'
<1> SUFFICES ASSUME IInv, [Next]_vars PROVE Registry'
  OBVIOUS
<1>1. ASSUME NEW j \in Jobs, EnqueueStart(j) PROVE Registry'
  BY <1>1, RunnerAssumption DEF IInv, TypeOK, Registry, Shutdown, Closed, Live,
     Phases, workerVars, callVars, EnqueueStart
<1>2. ASSUME NEW j \in Jobs, Reserve(j) PROVE Registry'
  <2>1. PICK w \in Workers : EnsureWorker(KeyOf[j], w)
    BY <1>2 DEF Reserve
  <2>2. KeyOf[j] \in Keys /\ cur' = cur /\ None \notin Workers
    BY <1>2, RunnerAssumption DEF Reserve
  <2>3. /\ workers' = [workers EXCEPT ![KeyOf[j]] = w]
        /\ wkey' = [wkey EXCEPT ![w] = KeyOf[j]]
        /\ phase' \in [Workers -> Phases]
        /\ phase'[w] # "unused"
        /\ \A v \in Workers : v # w => phase'[v] = phase[v]
        /\ \/ workers[KeyOf[j]] = w /\ phase' = phase
           \/ workers[KeyOf[j]] = None /\ phase[w] = "unused" /\ phase'[w] = "top"
    BY <2>1, <2>2, EnsureWorkerFacts DEF IInv
  <2>4. workers \in [Keys -> Workers \cup {None}] /\ wkey \in [Workers -> Keys \cup {None}]
        /\ phase \in [Workers -> Phases] /\ Registry
    BY DEF IInv, TypeOK
  <2>5. \A v \in Workers : v # w => wkey'[v] = wkey[v]
    BY <2>3, <2>4
  <2>6. \A x \in Keys : workers'[x] # None =>
           wkey'[workers'[x]] = x /\ phase'[workers'[x]] # "unused"
    BY <2>2, <2>3, <2>4 DEF Registry
  <2>7. \A v \in Workers : Live(v)' => wkey'[v] \in Keys /\ workers'[wkey'[v]] = v
    BY <2>2, <2>3, <2>4 DEF Registry, Live
  <2>8. QED
    BY <2>2, <2>3, <2>4, <2>6, <2>7 DEF Registry
<1>3. ASSUME NEW j \in Jobs, ReserveRefused(j) PROVE Registry'
  BY <1>3, RunnerAssumption DEF IInv, TypeOK, Registry, Shutdown, Closed, Live,
     Phases, workerVars, callVars, ReserveRefused
<1>4. ASSUME NEW j \in Jobs, PassGate(j) PROVE Registry'
  BY <1>4, RunnerAssumption DEF IInv, TypeOK, Registry, Shutdown, Closed, Live,
     Phases, workerVars, callVars, PassGate
<1>5. ASSUME NEW j \in Jobs, GateRefused(j) PROVE Registry'
  BY <1>5, RunnerAssumption DEF IInv, TypeOK, Registry, Shutdown, Closed, Live,
     Phases, workerVars, callVars, GateRefused, Fail
<1>6. ASSUME NEW j \in Jobs, Send(j) PROVE Registry'
  BY <1>6, RunnerAssumption DEF IInv, TypeOK, Registry, Shutdown, Closed, Live,
     Phases, workerVars, callVars, Send
<1>7. ASSUME NEW j \in Jobs, SendStopped(j) PROVE Registry'
  BY <1>7, RunnerAssumption DEF IInv, TypeOK, Registry, Shutdown, Closed, Live,
     Phases, workerVars, callVars, SendStopped, Fail
<1>8. ASSUME NEW j \in Jobs, CallerGivesUp(j) PROVE Registry'
  BY <1>8, RunnerAssumption DEF IInv, TypeOK, Registry, Shutdown, Closed, Live,
     Phases, workerVars, callVars, CallerGivesUp, Fail
<1>9. ASSUME NEW j \in Jobs, ReleaseSender(j) PROVE Registry'
  BY <1>9, RunnerAssumption DEF IInv, TypeOK, Registry, Shutdown, Closed, Live,
     Phases, workerVars, callVars, ReleaseSender
<1>10. ASSUME NEW k \in Keys, IncrementVersion(k) PROVE Registry'
  <2>1. PICK w \in Workers : EnsureWorker(k, w)
    BY <1>10 DEF IncrementVersion
  <2>2. cur' = cur /\ None \notin Workers
    BY <1>10, RunnerAssumption DEF IncrementVersion
  <2>3. /\ workers' = [workers EXCEPT ![k] = w]
        /\ wkey' = [wkey EXCEPT ![w] = k]
        /\ phase' \in [Workers -> Phases]
        /\ phase'[w] # "unused"
        /\ \A v \in Workers : v # w => phase'[v] = phase[v]
        /\ \/ workers[k] = w /\ phase' = phase
           \/ workers[k] = None /\ phase[w] = "unused" /\ phase'[w] = "top"
    BY <2>1, <2>2, EnsureWorkerFacts DEF IInv
  <2>4. workers \in [Keys -> Workers \cup {None}] /\ wkey \in [Workers -> Keys \cup {None}]
        /\ phase \in [Workers -> Phases] /\ Registry
    BY DEF IInv, TypeOK
  <2>5. \A v \in Workers : v # w => wkey'[v] = wkey[v]
    BY <2>3, <2>4
  <2>6. \A x \in Keys : workers'[x] # None =>
           wkey'[workers'[x]] = x /\ phase'[workers'[x]] # "unused"
    BY <2>2, <2>3, <2>4 DEF Registry
  <2>7. \A v \in Workers : Live(v)' => wkey'[v] \in Keys /\ workers'[wkey'[v]] = v
    BY <2>2, <2>3, <2>4 DEF Registry, Live
  <2>8. QED
    BY <2>2, <2>3, <2>4, <2>6, <2>7 DEF Registry
<1>11. ASSUME NEW w \in Workers, LoopTop(w) PROVE Registry'
  BY <1>11, RunnerAssumption DEF IInv, TypeOK, Registry, Shutdown, Closed, Live,
     Phases, workerVars, callVars, LoopTop
<1>12. ASSUME NEW w \in Workers, StopWorker(w) PROVE Registry'
  BY <1>12, RunnerAssumption DEF IInv, TypeOK, Registry, Shutdown, Closed, Live,
     Phases, workerVars, callVars, StopWorker
<1>13. ASSUME NEW w \in Workers, RetireIdle(w) PROVE Registry'
  BY <1>13, RunnerAssumption DEF IInv, TypeOK, Registry, Shutdown, Closed, Live,
     Phases, workerVars, callVars, RetireIdle, CanRetire
<1>14. ASSUME NEW w \in Workers, TakeJob(w) PROVE Registry'
  BY <1>14, RunnerAssumption DEF IInv, TypeOK, Registry, Shutdown, Closed, Live,
     Phases, workerVars, callVars, TakeJob
<1>15. ASSUME NEW w \in Workers, AcquireSem(w) PROVE Registry'
  BY <1>15, RunnerAssumption DEF IInv, TypeOK, Registry, Shutdown, Closed, Live,
     Phases, workerVars, callVars, AcquireSem
<1>16. ASSUME NEW w \in Workers, DropTaken(w) PROVE Registry'
  BY <1>16, RunnerAssumption DEF IInv, TypeOK, Registry, Shutdown, Closed, Live,
     Phases, workerVars, callVars, DropTaken
<1>17. ASSUME NEW w \in Workers, FinishJob(w) PROVE Registry'
  BY <1>17, RunnerAssumption DEF IInv, TypeOK, Registry, Shutdown, Closed, Live,
     Phases, workerVars, callVars, FinishJob
<1>18. ASSUME Cancel PROVE Registry'
  BY <1>18, RunnerAssumption DEF IInv, TypeOK, Registry, Shutdown, Closed, Live,
     Phases, workerVars, callVars, Cancel
<1>19. ASSUME ShutWaitGate PROVE Registry'
  BY <1>19, RunnerAssumption DEF IInv, TypeOK, Registry, Shutdown, Closed, Live,
     Phases, workerVars, callVars, ShutWaitGate
<1>20. ASSUME ShutClose PROVE Registry'
  BY <1>20, RunnerAssumption DEF IInv, TypeOK, Registry, Shutdown, Closed, Live,
     Phases, workerVars, callVars, ShutClose
<1>21. ASSUME ShutJoin PROVE Registry'
  BY <1>21, RunnerAssumption DEF IInv, TypeOK, Registry, Shutdown, Closed, Live,
     Phases, workerVars, callVars, ShutJoin
<1>22. ASSUME ShutDone PROVE Registry'
  BY <1>22, RunnerAssumption DEF IInv, TypeOK, Registry, Shutdown, Closed, Live,
     Phases, workerVars, callVars, ShutDone
<1>23. ASSUME NEW k \in Keys, ShutDrain(k) PROVE Registry'
  BY <1>23, RunnerAssumption DEF IInv, TypeOK, Registry, Shutdown, Closed, Live,
     Phases, workerVars, callVars, ShutDrain
<1>24. CASE UNCHANGED vars
  BY <1>24 DEF IInv, TypeOK, Registry, Shutdown, Closed, Live, Phases, workerVars,
     callVars, vars, workerVars, callVars
<1> QED
  BY <1>1, <1>2, <1>3, <1>4, <1>5, <1>6, <1>7, <1>8, <1>9, <1>10, <1>11, <1>12,
     <1>13, <1>14, <1>15, <1>16, <1>17, <1>18, <1>19, <1>20, <1>21, <1>22, <1>23,
     <1>24 DEF Next, CallStep, WorkerStep, ShutStep, Finished

\* Every step keeps where the calls are.
LEMMA CallsStep == IInv /\ [Next]_vars => Calls'
<1> SUFFICES ASSUME IInv, [Next]_vars PROVE Calls'
  OBVIOUS
<1>1. ASSUME NEW j \in Jobs, EnqueueStart(j) PROVE Calls'
  BY <1>1, RunnerAssumption DEF IInv, TypeOK, Calls, Reserving, Pinned, CallPoints,
     workerVars, callVars, EnqueueStart
<1>2. ASSUME NEW j \in Jobs, Reserve(j) PROVE Calls'
  BY <1>2, RunnerAssumption DEF IInv, TypeOK, Calls, Reserving, Pinned, CallPoints,
     workerVars, callVars, Reserve, EnsureWorker
<1>3. ASSUME NEW j \in Jobs, ReserveRefused(j) PROVE Calls'
  BY <1>3, RunnerAssumption DEF IInv, TypeOK, Calls, Reserving, Pinned, CallPoints,
     workerVars, callVars, ReserveRefused
<1>4. ASSUME NEW j \in Jobs, PassGate(j) PROVE Calls'
  BY <1>4, RunnerAssumption DEF IInv, TypeOK, Calls, Reserving, Pinned, CallPoints,
     workerVars, callVars, PassGate
<1>5. ASSUME NEW j \in Jobs, GateRefused(j) PROVE Calls'
  BY <1>5, RunnerAssumption DEF IInv, TypeOK, Calls, Reserving, Pinned, CallPoints,
     workerVars, callVars, GateRefused, Fail
<1>6. ASSUME NEW j \in Jobs, Send(j) PROVE Calls'
  BY <1>6, RunnerAssumption DEF IInv, TypeOK, Calls, Reserving, Pinned, CallPoints,
     workerVars, callVars, Send
<1>7. ASSUME NEW j \in Jobs, SendStopped(j) PROVE Calls'
  BY <1>7, RunnerAssumption DEF IInv, TypeOK, Calls, Reserving, Pinned, CallPoints,
     workerVars, callVars, SendStopped, Fail
<1>8. ASSUME NEW j \in Jobs, CallerGivesUp(j) PROVE Calls'
  BY <1>8, RunnerAssumption DEF IInv, TypeOK, Calls, Reserving, Pinned, CallPoints,
     workerVars, callVars, CallerGivesUp, Fail
<1>9. ASSUME NEW j \in Jobs, ReleaseSender(j) PROVE Calls'
  BY <1>9, RunnerAssumption DEF IInv, TypeOK, Calls, Reserving, Pinned, CallPoints,
     workerVars, callVars, ReleaseSender
<1>10. ASSUME NEW k \in Keys, IncrementVersion(k) PROVE Calls'
  BY <1>10, RunnerAssumption DEF IInv, TypeOK, Calls, Reserving, Pinned, CallPoints,
     workerVars, callVars, IncrementVersion, EnsureWorker
<1>11. ASSUME NEW w \in Workers, LoopTop(w) PROVE Calls'
  BY <1>11, RunnerAssumption DEF IInv, TypeOK, Calls, Reserving, Pinned, CallPoints,
     workerVars, callVars, LoopTop
<1>12. ASSUME NEW w \in Workers, StopWorker(w) PROVE Calls'
  BY <1>12, RunnerAssumption DEF IInv, TypeOK, Calls, Reserving, Pinned, CallPoints,
     workerVars, callVars, StopWorker
<1>13. ASSUME NEW w \in Workers, RetireIdle(w) PROVE Calls'
  BY <1>13, RunnerAssumption DEF IInv, TypeOK, Calls, Reserving, Pinned, CallPoints,
     workerVars, callVars, RetireIdle, CanRetire
<1>14. ASSUME NEW w \in Workers, TakeJob(w) PROVE Calls'
  BY <1>14, RunnerAssumption DEF IInv, TypeOK, Calls, Reserving, Pinned, CallPoints,
     workerVars, callVars, TakeJob
<1>15. ASSUME NEW w \in Workers, AcquireSem(w) PROVE Calls'
  BY <1>15, RunnerAssumption DEF IInv, TypeOK, Calls, Reserving, Pinned, CallPoints,
     workerVars, callVars, AcquireSem
<1>16. ASSUME NEW w \in Workers, DropTaken(w) PROVE Calls'
  <2>1. cur[w] # None => Sent(cur[w])
    BY <1>16 DEF IInv, Placed
  <2>2. QED
    BY <2>1, RunnerAssumption, <1>16 DEF IInv, TypeOK, Calls, Sent, Reserving,
       callVars, DropTaken
<1>17. ASSUME NEW w \in Workers, FinishJob(w) PROVE Calls'
  <2>1. cur[w] # None => Sent(cur[w])
    BY <1>17 DEF IInv, Placed
  <2>2. QED
    BY <2>1, RunnerAssumption, <1>17 DEF IInv, TypeOK, Calls, Sent, Reserving,
       callVars, FinishJob
<1>18. ASSUME Cancel PROVE Calls'
  BY <1>18, RunnerAssumption DEF IInv, TypeOK, Calls, Reserving, Pinned, CallPoints,
     workerVars, callVars, Cancel
<1>19. ASSUME ShutWaitGate PROVE Calls'
  BY <1>19, RunnerAssumption DEF IInv, TypeOK, Calls, Reserving, Pinned, CallPoints,
     workerVars, callVars, ShutWaitGate
<1>20. ASSUME ShutClose PROVE Calls'
  BY <1>20, RunnerAssumption DEF IInv, TypeOK, Calls, Reserving, Pinned, CallPoints,
     workerVars, callVars, ShutClose
<1>21. ASSUME ShutJoin PROVE Calls'
  BY <1>21, RunnerAssumption DEF IInv, TypeOK, Calls, Reserving, Pinned, CallPoints,
     workerVars, callVars, ShutJoin
<1>22. ASSUME ShutDone PROVE Calls'
  BY <1>22, RunnerAssumption DEF IInv, TypeOK, Calls, Reserving, Pinned, CallPoints,
     workerVars, callVars, ShutDone
<1>23. ASSUME NEW k \in Keys, ShutDrain(k) PROVE Calls'
  <2>1. workers[k] \in Workers /\ queue[workers[k]] \in Seq(Jobs) /\ queue[workers[k]] # <<>>
    BY <1>23, RunnerAssumption DEF IInv, TypeOK, ShutDrain
  <2>2. Head(queue[workers[k]]) \in Jobs /\ Sent(Head(queue[workers[k]]))
    BY <2>1, SeqFacts DEF IInv, Placed
  <2>3. QED
    BY <2>1, <2>2, <1>23 DEF IInv, TypeOK, Calls, Sent, Reserving, callVars,
       ShutDrain
<1>24. CASE UNCHANGED vars
  BY <1>24 DEF IInv, TypeOK, Calls, Reserving, Pinned, CallPoints, workerVars,
     callVars, vars, workerVars, callVars
<1> QED
  BY <1>1, <1>2, <1>3, <1>4, <1>5, <1>6, <1>7, <1>8, <1>9, <1>10, <1>11, <1>12,
     <1>13, <1>14, <1>15, <1>16, <1>17, <1>18, <1>19, <1>20, <1>21, <1>22, <1>23,
     <1>24 DEF Next, CallStep, WorkerStep, ShutStep, Finished

\* Every step keeps that a job has one place.
LEMMA PlacedStep == IInv /\ [Next]_vars => Placed'
<1> SUFFICES ASSUME IInv, [Next]_vars PROVE Placed'
  OBVIOUS
<1>1. ASSUME NEW j \in Jobs, EnqueueStart(j) PROVE Placed'
  <2>1. pc' \in [Jobs -> CallPoints] /\ \A x \in Jobs : Sent(x) => Sent(x)'
    BY <1>1 DEF IInv, TypeOK, Sent, CallPoints, EnqueueStart
  <2>2. queue' = queue /\ cur' = cur
    BY <1>1 DEF EnqueueStart, workerVars
  <2>3. QED
    BY <2>1, <2>2, RunnerAssumption DEF IInv, TypeOK, Placed
<1>2. ASSUME NEW j \in Jobs, Reserve(j) PROVE Placed'
  BY <1>2, RunnerAssumption, SMTT(40) DEF IInv, TypeOK, Placed, Sent, CallPoints,
     workerVars,
     callVars, Reserve, EnsureWorker
<1>3. ASSUME NEW j \in Jobs, ReserveRefused(j) PROVE Placed'
  BY <1>3, RunnerAssumption DEF IInv, TypeOK, Placed, Sent, CallPoints, workerVars,
     callVars, ReserveRefused
<1>4. ASSUME NEW j \in Jobs, PassGate(j) PROVE Placed'
  BY <1>4, RunnerAssumption DEF IInv, TypeOK, Placed, Sent, CallPoints, workerVars,
     callVars, PassGate
<1>5. ASSUME NEW j \in Jobs, GateRefused(j) PROVE Placed'
  BY <1>5, RunnerAssumption DEF IInv, TypeOK, Placed, Sent, CallPoints, workerVars,
     callVars, GateRefused, Fail
<1>6. ASSUME NEW j \in Jobs, Send(j) PROVE Placed'
  <2>1. target[j] \in Workers /\ queue[target[j]] \in Seq(Jobs)
    BY <1>6 DEF IInv, TypeOK, Calls, Reserving, Send
  <2>2. pc' = [pc EXCEPT ![j] = "releasing"] /\ cur' = cur
        /\ queue' = [queue EXCEPT ![target[j]] = Append(@, j)]
    BY <1>6 DEF Send
  <2>3. QED
    BY <2>1, <2>2, SeqFacts DEF IInv, TypeOK, Placed, Sent
<1>7. ASSUME NEW j \in Jobs, SendStopped(j) PROVE Placed'
  BY <1>7, RunnerAssumption DEF IInv, TypeOK, Placed, Sent, CallPoints, workerVars,
     callVars, SendStopped, Fail
<1>8. ASSUME NEW j \in Jobs, CallerGivesUp(j) PROVE Placed'
  BY <1>8, RunnerAssumption DEF IInv, TypeOK, Placed, Sent, CallPoints, workerVars,
     callVars, CallerGivesUp, Fail
<1>9. ASSUME NEW j \in Jobs, ReleaseSender(j) PROVE Placed'
  BY <1>9, RunnerAssumption DEF IInv, TypeOK, Placed, Sent, CallPoints, workerVars,
     callVars, ReleaseSender
<1>10. ASSUME NEW k \in Keys, IncrementVersion(k) PROVE Placed'
  BY <1>10, RunnerAssumption DEF IInv, TypeOK, Placed, Sent, CallPoints, workerVars,
     callVars, IncrementVersion, EnsureWorker
<1>11. ASSUME NEW w \in Workers, LoopTop(w) PROVE Placed'
  BY <1>11, RunnerAssumption DEF IInv, TypeOK, Placed, Sent, CallPoints, workerVars,
     callVars, LoopTop
<1>12. ASSUME NEW w \in Workers, StopWorker(w) PROVE Placed'
  BY <1>12, RunnerAssumption DEF IInv, TypeOK, Placed, Sent, CallPoints, workerVars,
     callVars, StopWorker
<1>13. ASSUME NEW w \in Workers, RetireIdle(w) PROVE Placed'
  BY <1>13, RunnerAssumption DEF IInv, TypeOK, Placed, Sent, CallPoints, workerVars,
     callVars, RetireIdle, CanRetire
<1>14. ASSUME NEW w \in Workers, TakeJob(w) PROVE Placed'
  <2>1. queue[w] \in Seq(Jobs) /\ queue[w] # <<>>
    BY <1>14 DEF IInv, TypeOK, TakeJob
  <2>2. pc' = pc /\ cur' = [cur EXCEPT ![w] = Head(queue[w])]
        /\ queue' = [queue EXCEPT ![w] = Tail(@)]
    BY <1>14 DEF TakeJob, callVars
  <2>3. QED
    BY <2>1, <2>2, SeqFacts DEF IInv, TypeOK, Placed, Sent
<1>15. ASSUME NEW w \in Workers, AcquireSem(w) PROVE Placed'
  BY <1>15, RunnerAssumption DEF IInv, TypeOK, Placed, Sent, CallPoints, workerVars,
     callVars, AcquireSem
<1>16. ASSUME NEW w \in Workers, DropTaken(w) PROVE Placed'
  BY <1>16, RunnerAssumption DEF IInv, TypeOK, Placed, Sent, CallPoints, workerVars,
     callVars, DropTaken
<1>17. ASSUME NEW w \in Workers, FinishJob(w) PROVE Placed'
  BY <1>17, RunnerAssumption DEF IInv, TypeOK, Placed, Sent, CallPoints, workerVars,
     callVars, FinishJob
<1>18. ASSUME Cancel PROVE Placed'
  BY <1>18, RunnerAssumption DEF IInv, TypeOK, Placed, Sent, CallPoints, workerVars,
     callVars, Cancel
<1>19. ASSUME ShutWaitGate PROVE Placed'
  BY <1>19, RunnerAssumption DEF IInv, TypeOK, Placed, Sent, CallPoints, workerVars,
     callVars, ShutWaitGate
<1>20. ASSUME ShutClose PROVE Placed'
  BY <1>20, RunnerAssumption DEF IInv, TypeOK, Placed, Sent, CallPoints, workerVars,
     callVars, ShutClose
<1>21. ASSUME ShutJoin PROVE Placed'
  BY <1>21, RunnerAssumption DEF IInv, TypeOK, Placed, Sent, CallPoints, workerVars,
     callVars, ShutJoin
<1>22. ASSUME ShutDone PROVE Placed'
  BY <1>22, RunnerAssumption DEF IInv, TypeOK, Placed, Sent, CallPoints, workerVars,
     callVars, ShutDone
<1>23. ASSUME NEW k \in Keys, ShutDrain(k) PROVE Placed'
  <2>1. workers[k] \in Workers /\ queue[workers[k]] \in Seq(Jobs) /\ queue[workers[k]] # <<>>
    BY <1>23, RunnerAssumption DEF IInv, TypeOK, ShutDrain
  <2>2. pc' = pc /\ cur' = cur /\ queue' = [queue EXCEPT ![workers[k]] = Tail(@)]
    BY <1>23 DEF ShutDrain, callVars
  <2>3. QED
    BY <2>1, <2>2, SeqFacts DEF IInv, TypeOK, Placed, Sent
<1>24. CASE UNCHANGED vars
  BY <1>24 DEF IInv, TypeOK, Placed, Sent, CallPoints, workerVars, callVars, vars,
     workerVars, callVars
<1> QED
  BY <1>1, <1>2, <1>3, <1>4, <1>5, <1>6, <1>7, <1>8, <1>9, <1>10, <1>11, <1>12,
     <1>13, <1>14, <1>15, <1>16, <1>17, <1>18, <1>19, <1>20, <1>21, <1>22, <1>23,
     <1>24 DEF Next, CallStep, WorkerStep, ShutStep, Finished

\* Every step keeps what the stages of the shutdown have established.
LEMMA ShutdownStep == IInv /\ [Next]_vars => Shutdown'
<1> SUFFICES ASSUME IInv, [Next]_vars PROVE Shutdown'
  OBVIOUS
<1>1. ASSUME NEW j \in Jobs, EnqueueStart(j) PROVE Shutdown'
  BY <1>1, RunnerAssumption DEF IInv, TypeOK, Shutdown, Closed, Live, ShutStages,
     workerVars, callVars, EnqueueStart
<1>2. ASSUME NEW j \in Jobs, Reserve(j) PROVE Shutdown'
  BY <1>2, RunnerAssumption DEF IInv, TypeOK, Shutdown, Closed, Live, ShutStages,
     workerVars, callVars, Reserve, EnsureWorker
<1>3. ASSUME NEW j \in Jobs, ReserveRefused(j) PROVE Shutdown'
  BY <1>3, RunnerAssumption DEF IInv, TypeOK, Shutdown, Closed, Live, ShutStages,
     workerVars, callVars, ReserveRefused
<1>4. ASSUME NEW j \in Jobs, PassGate(j) PROVE Shutdown'
  BY <1>4, RunnerAssumption DEF IInv, TypeOK, Shutdown, Closed, Live, ShutStages,
     workerVars, callVars, PassGate
<1>5. ASSUME NEW j \in Jobs, GateRefused(j) PROVE Shutdown'
  BY <1>5, RunnerAssumption DEF IInv, TypeOK, Shutdown, Closed, Live, ShutStages,
     workerVars, callVars, GateRefused, Fail
<1>6. ASSUME NEW j \in Jobs, Send(j) PROVE Shutdown'
  BY <1>6, RunnerAssumption DEF IInv, TypeOK, Shutdown, Closed, Live, ShutStages,
     workerVars, callVars, Send
<1>7. ASSUME NEW j \in Jobs, SendStopped(j) PROVE Shutdown'
  BY <1>7, RunnerAssumption DEF IInv, TypeOK, Shutdown, Closed, Live, ShutStages,
     workerVars, callVars, SendStopped, Fail
<1>8. ASSUME NEW j \in Jobs, CallerGivesUp(j) PROVE Shutdown'
  BY <1>8, RunnerAssumption DEF IInv, TypeOK, Shutdown, Closed, Live, ShutStages,
     workerVars, callVars, CallerGivesUp, Fail
<1>9. ASSUME NEW j \in Jobs, ReleaseSender(j) PROVE Shutdown'
  BY <1>9, RunnerAssumption DEF IInv, TypeOK, Shutdown, Closed, Live, ShutStages,
     workerVars, callVars, ReleaseSender
<1>10. ASSUME NEW k \in Keys, IncrementVersion(k) PROVE Shutdown'
  BY <1>10, RunnerAssumption DEF IInv, TypeOK, Shutdown, Closed, Live, ShutStages,
     workerVars, callVars, IncrementVersion, EnsureWorker
<1>11. ASSUME NEW w \in Workers, LoopTop(w) PROVE Shutdown'
  BY <1>11, RunnerAssumption DEF IInv, TypeOK, Shutdown, Closed, Live, ShutStages,
     workerVars, callVars, LoopTop
<1>12. ASSUME NEW w \in Workers, StopWorker(w) PROVE Shutdown'
  BY <1>12, RunnerAssumption DEF IInv, TypeOK, Shutdown, Closed, Live, ShutStages,
     workerVars, callVars, StopWorker
<1>13. ASSUME NEW w \in Workers, RetireIdle(w) PROVE Shutdown'
  BY <1>13, RunnerAssumption DEF IInv, TypeOK, Shutdown, Closed, Live, ShutStages,
     workerVars, callVars, RetireIdle, CanRetire
<1>14. ASSUME NEW w \in Workers, TakeJob(w) PROVE Shutdown'
  BY <1>14, RunnerAssumption DEF IInv, TypeOK, Shutdown, Closed, Live, ShutStages,
     workerVars, callVars, TakeJob
<1>15. ASSUME NEW w \in Workers, AcquireSem(w) PROVE Shutdown'
  BY <1>15, RunnerAssumption DEF IInv, TypeOK, Shutdown, Closed, Live, ShutStages,
     workerVars, callVars, AcquireSem
<1>16. ASSUME NEW w \in Workers, DropTaken(w) PROVE Shutdown'
  BY <1>16, RunnerAssumption DEF IInv, TypeOK, Shutdown, Closed, Live, ShutStages,
     workerVars, callVars, DropTaken
<1>17. ASSUME NEW w \in Workers, FinishJob(w) PROVE Shutdown'
  BY <1>17, RunnerAssumption DEF IInv, TypeOK, Shutdown, Closed, Live, ShutStages,
     workerVars, callVars, FinishJob
<1>18. ASSUME Cancel PROVE Shutdown'
  BY <1>18, RunnerAssumption DEF IInv, TypeOK, Shutdown, Closed, Live, ShutStages,
     workerVars, callVars, Cancel
<1>19. ASSUME ShutWaitGate PROVE Shutdown'
  BY <1>19, RunnerAssumption DEF IInv, TypeOK, Shutdown, Closed, Live, ShutStages,
     workerVars, callVars, ShutWaitGate
<1>20. ASSUME ShutClose PROVE Shutdown'
  BY <1>20, RunnerAssumption DEF IInv, TypeOK, Shutdown, Closed, Live, ShutStages,
     workerVars, callVars, ShutClose
<1>21. ASSUME ShutJoin PROVE Shutdown'
  BY <1>21, RunnerAssumption DEF IInv, TypeOK, Shutdown, Closed, Live, ShutStages,
     workerVars, callVars, ShutJoin
<1>22. ASSUME ShutDone PROVE Shutdown'
  BY <1>22, RunnerAssumption DEF IInv, TypeOK, Shutdown, Closed, Live, ShutStages,
     workerVars, callVars, ShutDone
<1>23. ASSUME NEW k \in Keys, ShutDrain(k) PROVE Shutdown'
  BY <1>23, RunnerAssumption DEF IInv, TypeOK, Shutdown, Closed, Live, ShutStages,
     workerVars, callVars, ShutDrain
<1>24. CASE UNCHANGED vars
  BY <1>24 DEF IInv, TypeOK, Shutdown, Closed, Live, ShutStages, workerVars,
     callVars, vars, workerVars, callVars
<1> QED
  BY <1>1, <1>2, <1>3, <1>4, <1>5, <1>6, <1>7, <1>8, <1>9, <1>10, <1>11, <1>12,
     <1>13, <1>14, <1>15, <1>16, <1>17, <1>18, <1>19, <1>20, <1>21, <1>22, <1>23,
     <1>24 DEF Next, CallStep, WorkerStep, ShutStep, Finished

\* Every step keeps the sender counts exact.
LEMMA SendersStep == IInv /\ [Next]_vars => SendersCounted'
<1> SUFFICES ASSUME IInv, [Next]_vars PROVE SendersCounted'
  OBVIOUS
<1>1. ASSUME NEW j \in Jobs, EnqueueStart(j) PROVE SendersCounted'
  BY <1>1, RunnerAssumption, SendersFrame DEF IInv, TypeOK, Calls, Reserving,
     workerVars, callVars, EnqueueStart
<1>2. ASSUME NEW j \in Jobs, Reserve(j) PROVE SendersCounted'
  <2>1. PICK w \in Workers :
          /\ senders' = [senders EXCEPT ![w] = @ + 1]
          /\ target' = [target EXCEPT ![j] = w]
    BY <1>2 DEF Reserve
  <2>2. pc[j] = "checked" /\ pc' = [pc EXCEPT ![j] = "reserved"]
    BY <1>2 DEF Reserve
  <2>3. j \notin ReservedOn(w) /\ ReservedOn(w)' = ReservedOn(w) \cup {j}
    BY <2>1, <2>2 DEF IInv, TypeOK, ReservedOn, Reserving
  <2>4. ASSUME NEW v \in Workers, v # w PROVE ReservedOn(v)' = ReservedOn(v)
    BY <2>1, <2>2, <2>4 DEF IInv, TypeOK, ReservedOn, Reserving
  <2>5. Cardinality(ReservedOn(w) \cup {j}) = Cardinality(ReservedOn(w)) + 1
    BY <2>3, FiniteCounts, FS_AddElement
  <2> QED
    BY <2>1, <2>3, <2>4, <2>5 DEF IInv, TypeOK, SendersCounted
<1>3. ASSUME NEW j \in Jobs, ReserveRefused(j) PROVE SendersCounted'
  BY <1>3, RunnerAssumption, SendersFrame DEF IInv, TypeOK, Calls, Reserving,
     workerVars, callVars, ReserveRefused
<1>4. ASSUME NEW j \in Jobs, PassGate(j) PROVE SendersCounted'
  BY <1>4, RunnerAssumption, SendersFrame DEF IInv, TypeOK, Calls, Reserving,
     workerVars, callVars, PassGate
<1>5. ASSUME NEW j \in Jobs, GateRefused(j) PROVE SendersCounted'
  BY <1>5, RunnerAssumption, SendersFrame DEF IInv, TypeOK, Calls, Reserving,
     workerVars, callVars, GateRefused, Fail
<1>6. ASSUME NEW j \in Jobs, Send(j) PROVE SendersCounted'
  BY <1>6, RunnerAssumption, SendersFrame DEF IInv, TypeOK, Calls, Reserving,
     workerVars, callVars, Send
<1>7. ASSUME NEW j \in Jobs, SendStopped(j) PROVE SendersCounted'
  BY <1>7, RunnerAssumption, SendersFrame DEF IInv, TypeOK, Calls, Reserving,
     workerVars, callVars, SendStopped, Fail
<1>8. ASSUME NEW j \in Jobs, CallerGivesUp(j) PROVE SendersCounted'
  BY <1>8, RunnerAssumption, SendersFrame DEF IInv, TypeOK, Calls, Reserving,
     workerVars, callVars, CallerGivesUp, Fail
<1>9. ASSUME NEW j \in Jobs, ReleaseSender(j) PROVE SendersCounted'
  <2>1. PICK w \in Workers : w = target[j] /\ j \in ReservedOn(w)
    BY <1>9 DEF IInv, Calls, Reserving, ReservedOn, ReleaseSender
  <2>2. pc' = [pc EXCEPT ![j] = "returned"] /\ target' = target
        /\ senders' = [senders EXCEPT ![w] = @ - 1]
    BY <2>1, <1>9 DEF ReleaseSender
  <2>3. ReservedOn(w)' = ReservedOn(w) \ {j}
    BY <2>1, <2>2 DEF IInv, TypeOK, ReservedOn, Reserving
  <2>4. ASSUME NEW v \in Workers, v # w PROVE ReservedOn(v)' = ReservedOn(v)
    BY <2>1, <2>2, <2>4 DEF IInv, TypeOK, ReservedOn, Reserving
  <2>5. Cardinality(ReservedOn(w) \ {j}) = Cardinality(ReservedOn(w)) - 1
    BY <2>1, FiniteCounts, CardinalityLess
  <2> QED
    BY <2>1, <2>2, <2>3, <2>4, <2>5 DEF IInv, TypeOK, SendersCounted
<1>10. ASSUME NEW k \in Keys, IncrementVersion(k) PROVE SendersCounted'
  BY <1>10, RunnerAssumption, SendersFrame DEF IInv, TypeOK, Calls, Reserving,
     workerVars, callVars, IncrementVersion, EnsureWorker
<1>11. ASSUME NEW w \in Workers, LoopTop(w) PROVE SendersCounted'
  BY <1>11, RunnerAssumption, SendersFrame DEF IInv, TypeOK, Calls, Reserving,
     workerVars, callVars, LoopTop
<1>12. ASSUME NEW w \in Workers, StopWorker(w) PROVE SendersCounted'
  BY <1>12, RunnerAssumption, SendersFrame DEF IInv, TypeOK, Calls, Reserving,
     workerVars, callVars, StopWorker
<1>13. ASSUME NEW w \in Workers, RetireIdle(w) PROVE SendersCounted'
  BY <1>13, RunnerAssumption, SendersFrame DEF IInv, TypeOK, Calls, Reserving,
     workerVars, callVars, RetireIdle, CanRetire
<1>14. ASSUME NEW w \in Workers, TakeJob(w) PROVE SendersCounted'
  BY <1>14, RunnerAssumption, SendersFrame DEF IInv, TypeOK, Calls, Reserving,
     workerVars, callVars, TakeJob
<1>15. ASSUME NEW w \in Workers, AcquireSem(w) PROVE SendersCounted'
  BY <1>15, RunnerAssumption, SendersFrame DEF IInv, TypeOK, Calls, Reserving,
     workerVars, callVars, AcquireSem
<1>16. ASSUME NEW w \in Workers, DropTaken(w) PROVE SendersCounted'
  BY <1>16, RunnerAssumption, SendersFrame DEF IInv, TypeOK, Calls, Reserving,
     workerVars, callVars, DropTaken
<1>17. ASSUME NEW w \in Workers, FinishJob(w) PROVE SendersCounted'
  BY <1>17, RunnerAssumption, SendersFrame DEF IInv, TypeOK, Calls, Reserving,
     workerVars, callVars, FinishJob
<1>18. ASSUME Cancel PROVE SendersCounted'
  BY <1>18, RunnerAssumption, SendersFrame DEF IInv, TypeOK, Calls, Reserving,
     workerVars, callVars, Cancel
<1>19. ASSUME ShutWaitGate PROVE SendersCounted'
  BY <1>19, RunnerAssumption, SendersFrame DEF IInv, TypeOK, Calls, Reserving,
     workerVars, callVars, ShutWaitGate
<1>20. ASSUME ShutClose PROVE SendersCounted'
  BY <1>20, RunnerAssumption, SendersFrame DEF IInv, TypeOK, Calls, Reserving,
     workerVars, callVars, ShutClose
<1>21. ASSUME ShutJoin PROVE SendersCounted'
  BY <1>21, RunnerAssumption, SendersFrame DEF IInv, TypeOK, Calls, Reserving,
     workerVars, callVars, ShutJoin
<1>22. ASSUME ShutDone PROVE SendersCounted'
  BY <1>22, RunnerAssumption, SendersFrame DEF IInv, TypeOK, Calls, Reserving,
     workerVars, callVars, ShutDone
<1>23. ASSUME NEW k \in Keys, ShutDrain(k) PROVE SendersCounted'
  BY <1>23, RunnerAssumption, SendersFrame DEF IInv, TypeOK, Calls, Reserving,
     workerVars, callVars, ShutDrain
<1>24. CASE UNCHANGED vars
  BY <1>24, SendersFrame DEF IInv, TypeOK, Calls, Reserving, workerVars, callVars,
     vars, workerVars, callVars
<1> QED
  BY <1>1, <1>2, <1>3, <1>4, <1>5, <1>6, <1>7, <1>8, <1>9, <1>10, <1>11, <1>12,
     <1>13, <1>14, <1>15, <1>16, <1>17, <1>18, <1>19, <1>20, <1>21, <1>22, <1>23,
     <1>24 DEF Next, CallStep, WorkerStep, ShutStep, Finished

\* Every step keeps the semaphore exact.
LEMMA SemStep == IInv /\ [Next]_vars => SemCounted'
<1> SUFFICES ASSUME IInv, [Next]_vars PROVE SemCounted'
  OBVIOUS
<1>1. ASSUME NEW j \in Jobs, EnqueueStart(j) PROVE SemCounted'
  BY <1>1, RunnerAssumption, SemFrame DEF IInv, TypeOK, workerVars, callVars,
     EnqueueStart
<1>2. ASSUME NEW j \in Jobs, Reserve(j) PROVE SemCounted'
  BY <1>2, RunnerAssumption, SemFrame DEF IInv, TypeOK, workerVars, callVars,
     Reserve, EnsureWorker
<1>3. ASSUME NEW j \in Jobs, ReserveRefused(j) PROVE SemCounted'
  BY <1>3, RunnerAssumption, SemFrame DEF IInv, TypeOK, workerVars, callVars,
     ReserveRefused
<1>4. ASSUME NEW j \in Jobs, PassGate(j) PROVE SemCounted'
  BY <1>4, RunnerAssumption, SemFrame DEF IInv, TypeOK, workerVars, callVars,
     PassGate
<1>5. ASSUME NEW j \in Jobs, GateRefused(j) PROVE SemCounted'
  BY <1>5, RunnerAssumption, SemFrame DEF IInv, TypeOK, workerVars, callVars,
     GateRefused, Fail
<1>6. ASSUME NEW j \in Jobs, Send(j) PROVE SemCounted'
  BY <1>6, RunnerAssumption, SemFrame DEF IInv, TypeOK, workerVars, callVars, Send
<1>7. ASSUME NEW j \in Jobs, SendStopped(j) PROVE SemCounted'
  BY <1>7, RunnerAssumption, SemFrame DEF IInv, TypeOK, workerVars, callVars,
     SendStopped, Fail
<1>8. ASSUME NEW j \in Jobs, CallerGivesUp(j) PROVE SemCounted'
  BY <1>8, RunnerAssumption, SemFrame DEF IInv, TypeOK, workerVars, callVars,
     CallerGivesUp, Fail
<1>9. ASSUME NEW j \in Jobs, ReleaseSender(j) PROVE SemCounted'
  BY <1>9, RunnerAssumption, SemFrame DEF IInv, TypeOK, workerVars, callVars,
     ReleaseSender
<1>10. ASSUME NEW k \in Keys, IncrementVersion(k) PROVE SemCounted'
  BY <1>10, RunnerAssumption, SemFrame DEF IInv, TypeOK, workerVars, callVars,
     IncrementVersion, EnsureWorker
<1>11. ASSUME NEW w \in Workers, LoopTop(w) PROVE SemCounted'
  BY <1>11, RunnerAssumption, SemFrame DEF IInv, TypeOK, workerVars, callVars,
     LoopTop
<1>12. ASSUME NEW w \in Workers, StopWorker(w) PROVE SemCounted'
  BY <1>12, RunnerAssumption, SemFrame DEF IInv, TypeOK, workerVars, callVars,
     StopWorker
<1>13. ASSUME NEW w \in Workers, RetireIdle(w) PROVE SemCounted'
  BY <1>13, RunnerAssumption, SemFrame DEF IInv, TypeOK, workerVars, callVars,
     RetireIdle, CanRetire
<1>14. ASSUME NEW w \in Workers, TakeJob(w) PROVE SemCounted'
  BY <1>14, RunnerAssumption, SemFrame DEF IInv, TypeOK, workerVars, callVars,
     TakeJob
<1>15. ASSUME NEW w \in Workers, AcquireSem(w) PROVE SemCounted'
  <2>1. phase[w] = "acquire" /\ phase' = [phase EXCEPT ![w] = "running"]
        /\ sem < SemSize /\ sem' = sem + 1
    BY <1>15 DEF AcquireSem
  <2>2. w \notin Running /\ Running' = Running \cup {w}
    BY <2>1 DEF IInv, TypeOK, Running
  <2>3. Cardinality(Running \cup {w}) = Cardinality(Running) + 1
    BY <2>2, FiniteCounts, FS_AddElement
  <2> QED
    BY <2>1, <2>2, <2>3, RunnerAssumption DEF IInv, TypeOK, SemCounted
<1>16. ASSUME NEW w \in Workers, DropTaken(w) PROVE SemCounted'
  BY <1>16, RunnerAssumption, SemFrame DEF IInv, TypeOK, workerVars, callVars,
     DropTaken
<1>17. ASSUME NEW w \in Workers, FinishJob(w) PROVE SemCounted'
  <2>1. phase[w] = "running" /\ phase' = [phase EXCEPT ![w] = "top"] /\ sem' = sem - 1
    BY <1>17 DEF FinishJob
  <2>2. w \in Running /\ Running' = Running \ {w}
    BY <2>1 DEF IInv, TypeOK, Running
  <2>3. Cardinality(Running \ {w}) = Cardinality(Running) - 1
    BY <2>2, FiniteCounts, CardinalityLess
  <2> QED
    BY <2>1, <2>2, <2>3, RunnerAssumption DEF IInv, TypeOK, SemCounted
<1>18. ASSUME Cancel PROVE SemCounted'
  BY <1>18, RunnerAssumption, SemFrame DEF IInv, TypeOK, workerVars, callVars,
     Cancel
<1>19. ASSUME ShutWaitGate PROVE SemCounted'
  BY <1>19, RunnerAssumption, SemFrame DEF IInv, TypeOK, workerVars, callVars,
     ShutWaitGate
<1>20. ASSUME ShutClose PROVE SemCounted'
  BY <1>20, RunnerAssumption, SemFrame DEF IInv, TypeOK, workerVars, callVars,
     ShutClose
<1>21. ASSUME ShutJoin PROVE SemCounted'
  BY <1>21, RunnerAssumption, SemFrame DEF IInv, TypeOK, workerVars, callVars,
     ShutJoin
<1>22. ASSUME ShutDone PROVE SemCounted'
  BY <1>22, RunnerAssumption, SemFrame DEF IInv, TypeOK, workerVars, callVars,
     ShutDone
<1>23. ASSUME NEW k \in Keys, ShutDrain(k) PROVE SemCounted'
  BY <1>23, RunnerAssumption, SemFrame DEF IInv, TypeOK, workerVars, callVars,
     ShutDrain
<1>24. CASE UNCHANGED vars
  BY <1>24, SemFrame DEF IInv, TypeOK, workerVars, callVars, vars, workerVars,
     callVars
<1> QED
  BY <1>1, <1>2, <1>3, <1>4, <1>5, <1>6, <1>7, <1>8, <1>9, <1>10, <1>11, <1>12,
     <1>13, <1>14, <1>15, <1>16, <1>17, <1>18, <1>19, <1>20, <1>21, <1>22, <1>23,
     <1>24 DEF Next, CallStep, WorkerStep, ShutStep, Finished

\* Every step keeps the worker of a call registered.
LEMMA HeldStep == IInv /\ [Next]_vars => Held'
<1> SUFFICES ASSUME IInv, [Next]_vars PROVE Held'
  OBVIOUS
<1>1. ASSUME NEW j \in Jobs, EnqueueStart(j) PROVE Held'
  BY <1>1, RunnerAssumption DEF IInv, TypeOK, Calls, Shutdown, Held, Pinned,
     Reserving, Closed, Fates, CallPoints, workerVars, callVars, EnqueueStart
<1>2. ASSUME NEW j \in Jobs, Reserve(j) PROVE Held'
  <2>1. PICK w \in Workers :
          EnsureWorker(KeyOf[j], w) /\ target' = [target EXCEPT ![j] = w]
    BY <1>2 DEF Reserve
  <2>2. KeyOf[j] \in Keys /\ None \notin Workers
    BY RunnerAssumption
  <2>3. workers' = [workers EXCEPT ![KeyOf[j]] = w] /\ workers[KeyOf[j]] \in {None, w}
    BY <2>1, <2>2, EnsureWorkerFacts DEF IInv
  <2>4. /\ pc[j] = "checked" /\ pc' = [pc EXCEPT ![j] = "reserved"] /\ fate[j] = "new"
        /\ shut' = shut /\ fate' = fate /\ cur' = cur /\ queue' = queue
    BY <1>2 DEF IInv, Calls, Reserve
  <2>5. ASSUME NEW x \in Jobs, x # j PROVE target'[x] = target[x] /\ pc'[x] = pc[x]
    BY <2>1, <2>4, <2>5 DEF IInv, TypeOK
  <2>6. workers'[KeyOf[j]] = w /\ target'[j] = w
    BY <2>1, <2>2, <2>3 DEF IInv, TypeOK
  <2>7. ASSUME NEW x \in Jobs, x # j, shut # "done", Pinned(x) \/ Reserving(x)
        PROVE  target[x] \in Workers /\ workers'[KeyOf[x]] = target[x]
    BY <2>2, <2>3, <2>7, RunnerAssumption DEF IInv, TypeOK, Held
  <2> QED
    BY <2>4, <2>5, <2>6, <2>7 DEF IInv, Held, Pinned, Reserving
<1>3. ASSUME NEW j \in Jobs, ReserveRefused(j) PROVE Held'
  BY <1>3, RunnerAssumption DEF IInv, TypeOK, Calls, Shutdown, Held, Pinned,
     Reserving, Closed, Fates, CallPoints, workerVars, callVars, ReserveRefused
<1>4. ASSUME NEW j \in Jobs, PassGate(j) PROVE Held'
  BY <1>4, RunnerAssumption DEF IInv, TypeOK, Calls, Shutdown, Held, Pinned,
     Reserving, Closed, Fates, CallPoints, workerVars, callVars, PassGate
<1>5. ASSUME NEW j \in Jobs, GateRefused(j) PROVE Held'
  BY <1>5, RunnerAssumption DEF IInv, TypeOK, Calls, Shutdown, Held, Pinned,
     Reserving, Closed, Fates, CallPoints, workerVars, callVars, GateRefused, Fail
<1>6. ASSUME NEW j \in Jobs, Send(j) PROVE Held'
  <2>1. target[j] \in Workers /\ queue[target[j]] \in Seq(Jobs) /\ shut # "done"
    BY <1>6 DEF IInv, TypeOK, Calls, Shutdown, Closed, Reserving, Send
  <2>2. queue' = [queue EXCEPT ![target[j]] = Append(@, j)]
    BY <1>6 DEF Send
  <2>3. InSeq(j, queue'[target[j]])
    BY <2>1, <2>2, SeqFacts DEF IInv, TypeOK
  <2>4. \A x : \A w \in Workers : InSeq(x, queue[w]) => InSeq(x, queue'[w])
    BY <2>1, <2>2, SeqFacts DEF IInv, TypeOK
  <2>5. /\ pc[j] = "sending" /\ pc' = [pc EXCEPT ![j] = "releasing"]
        /\ fate' = [fate EXCEPT ![j] = "accepted"]
        /\ shut' = shut /\ workers' = workers /\ target' = target /\ cur' = cur
    BY <1>6 DEF Send
  <2> QED
    BY <2>1, <2>3, <2>4, <2>5 DEF IInv, TypeOK, Held, Pinned, Reserving
<1>7. ASSUME NEW j \in Jobs, SendStopped(j) PROVE Held'
  BY <1>7, RunnerAssumption DEF IInv, TypeOK, Calls, Shutdown, Held, Pinned,
     Reserving, Closed, Fates, CallPoints, workerVars, callVars, SendStopped, Fail
<1>8. ASSUME NEW j \in Jobs, CallerGivesUp(j) PROVE Held'
  BY <1>8, RunnerAssumption DEF IInv, TypeOK, Calls, Shutdown, Held, Pinned,
     Reserving, Closed, Fates, CallPoints, workerVars, callVars, CallerGivesUp, Fail
<1>9. ASSUME NEW j \in Jobs, ReleaseSender(j) PROVE Held'
  BY <1>9, RunnerAssumption DEF IInv, TypeOK, Calls, Shutdown, Held, Pinned,
     Reserving, Closed, Fates, CallPoints, workerVars, callVars, ReleaseSender
<1>10. ASSUME NEW k \in Keys, IncrementVersion(k) PROVE Held'
  BY <1>10, RunnerAssumption DEF IInv, TypeOK, Calls, Shutdown, Held, Pinned,
     Reserving, Closed, Fates, CallPoints, workerVars, callVars, IncrementVersion,
     EnsureWorker
<1>11. ASSUME NEW w \in Workers, LoopTop(w) PROVE Held'
  BY <1>11, RunnerAssumption DEF IInv, TypeOK, Calls, Shutdown, Held, Pinned,
     Reserving, Closed, Fates, CallPoints, workerVars, callVars, LoopTop
<1>12. ASSUME NEW w \in Workers, StopWorker(w) PROVE Held'
  BY <1>12, RunnerAssumption DEF IInv, TypeOK, Calls, Shutdown, Held, Pinned,
     Reserving, Closed, Fates, CallPoints, workerVars, callVars, StopWorker
<1>13. ASSUME NEW w \in Workers, RetireIdle(w) PROVE Held'
  <2>1. /\ wkey[w] \in Keys /\ senders[w] = 0 /\ Len(queue[w]) = 0 /\ cur[w] = None
        /\ workers' = [workers EXCEPT ![wkey[w]] = None]
    BY <1>13 DEF IInv, Registry, Live, RetireIdle, CanRetire
  <2>2. ReservedOn(w) = {}
    <3>1. Cardinality(ReservedOn(w)) = 0 /\ IsFiniteSet(ReservedOn(w))
      BY <2>1, FiniteCounts DEF IInv, SendersCounted
    <3> QED
      BY <3>1, FS_EmptySet
  <2>3. \A x : ~InSeq(x, queue[w])
    BY <2>1 DEF InSeq
  <2>4. ASSUME NEW x \in Jobs, shut # "done", Pinned(x) \/ Reserving(x)
        PROVE  target[x] # w
    BY <2>1, <2>2, <2>3, <2>4, RunnerAssumption DEF IInv, Held, Pinned, ReservedOn,
       Reserving
  <2>5. workers[wkey[w]] = w
    BY <1>13 DEF RetireIdle, CanRetire
  <2>6. /\ shut' = shut /\ pc' = pc /\ fate' = fate /\ target' = target
        /\ cur' = cur /\ queue' = queue
    BY <1>13 DEF RetireIdle, callVars
  <2> QED
    BY <2>1, <2>4, <2>5, <2>6, RunnerAssumption DEF IInv, TypeOK, Held, Pinned,
       Reserving
<1>14. ASSUME NEW w \in Workers, TakeJob(w) PROVE Held'
  <2>1. cur[w] = None /\ queue[w] \in Seq(Jobs) /\ queue[w] # <<>>
    BY <1>14 DEF IInv, TypeOK, Registry, TakeJob
  <2>2. cur' = [cur EXCEPT ![w] = Head(queue[w])] /\ queue' = [queue EXCEPT ![w] = Tail(@)]
    BY <1>14 DEF TakeJob
  <2>3. ASSUME NEW x \in Jobs, NEW v \in Workers, cur[v] = x \/ InSeq(x, queue[v])
        PROVE  cur'[v] = x \/ InSeq(x, queue'[v])
    <3>1. CASE v = w
      BY <2>1, <2>2, <2>3, <3>1, SeqFacts, RunnerAssumption DEF IInv, TypeOK
    <3>2. CASE v # w
      BY <2>2, <2>3, <3>2 DEF IInv, TypeOK
    <3> QED
      BY <3>1, <3>2
  <2>4. shut' = shut /\ pc' = pc /\ fate' = fate /\ target' = target /\ workers' = workers
    BY <1>14 DEF TakeJob, callVars
  <2> QED
    BY <2>3, <2>4 DEF IInv, TypeOK, Held, Pinned, Reserving
<1>15. ASSUME NEW w \in Workers, AcquireSem(w) PROVE Held'
  BY <1>15, RunnerAssumption DEF IInv, TypeOK, Calls, Shutdown, Held, Pinned,
     Reserving, Closed, Fates, CallPoints, workerVars, callVars, AcquireSem
<1>16. ASSUME NEW w \in Workers, DropTaken(w) PROVE Held'
  BY <1>16, RunnerAssumption DEF IInv, TypeOK, Calls, Shutdown, Held, Pinned,
     Reserving, Closed, Fates, CallPoints, workerVars, callVars, DropTaken
<1>17. ASSUME NEW w \in Workers, FinishJob(w) PROVE Held'
  BY <1>17, RunnerAssumption DEF IInv, TypeOK, Calls, Shutdown, Held, Pinned,
     Reserving, Closed, Fates, CallPoints, workerVars, callVars, FinishJob
<1>18. ASSUME Cancel PROVE Held'
  BY <1>18, RunnerAssumption DEF IInv, TypeOK, Calls, Shutdown, Held, Pinned,
     Reserving, Closed, Fates, CallPoints, workerVars, callVars, Cancel
<1>19. ASSUME ShutWaitGate PROVE Held'
  BY <1>19, RunnerAssumption DEF IInv, TypeOK, Calls, Shutdown, Held, Pinned,
     Reserving, Closed, Fates, CallPoints, workerVars, callVars, ShutWaitGate
<1>20. ASSUME ShutClose PROVE Held'
  BY <1>20, RunnerAssumption DEF IInv, TypeOK, Calls, Shutdown, Held, Pinned,
     Reserving, Closed, Fates, CallPoints, workerVars, callVars, ShutClose
<1>21. ASSUME ShutJoin PROVE Held'
  BY <1>21, RunnerAssumption DEF IInv, TypeOK, Calls, Shutdown, Held, Pinned,
     Reserving, Closed, Fates, CallPoints, workerVars, callVars, ShutJoin
<1>22. ASSUME ShutDone PROVE Held'
  <2>1. ASSUME NEW x \in Jobs, fate[x] = "accepted" PROVE FALSE
    <3>1. shut # "done" /\ KeyOf[x] \in Keys
      BY <1>22, RunnerAssumption DEF ShutDone
    <3>2. PICK w \in Workers : w = target[x] /\ workers[KeyOf[x]] = w
      BY <2>1, <3>1 DEF IInv, Held, Pinned
    <3>3. queue[w] = <<>> /\ ~Live(w)
      BY <1>22, <3>1, <3>2, RunnerAssumption DEF IInv, Shutdown, ShutDone
    <3>4. cur[w] # x
      BY <3>3, RunnerAssumption DEF IInv, Registry, Live
    <3> QED
      BY <2>1, <3>2, <3>3, <3>4 DEF IInv, Held, InSeq
  <2>2. shut' = "done" /\ fate' = fate
    BY <1>22 DEF ShutDone
  <2> QED
    BY <2>1, <2>2 DEF Held
<1>23. ASSUME NEW k \in Keys, ShutDrain(k) PROVE Held'
  <2>1. PICK w \in Workers : w = workers[k] /\ queue[w] \in Seq(Jobs) /\ queue[w] # <<>>
    BY <1>23, RunnerAssumption DEF IInv, TypeOK, ShutDrain
  <2>2. /\ fate' = [fate EXCEPT ![Head(queue[w])] = "dropped"]
        /\ queue' = [queue EXCEPT ![w] = Tail(@)]
        /\ cur' = cur /\ shut' = shut /\ pc' = pc /\ target' = target /\ workers' = workers
    BY <2>1, <1>23 DEF ShutDrain, callVars
  <2>3. ASSUME NEW x \in Jobs, fate'[x] = "accepted", NEW v \in Workers,
               cur[v] = x \/ InSeq(x, queue[v])
        PROVE  cur'[v] = x \/ InSeq(x, queue'[v])
    BY <2>1, <2>2, <2>3, SeqFacts DEF IInv, TypeOK
  <2>4. \A x \in Jobs : fate'[x] = "accepted" => fate[x] = "accepted"
    BY <2>2 DEF IInv, TypeOK
  <2> QED
    BY <2>2, <2>3, <2>4 DEF IInv, Held, Pinned, Reserving
<1>24. CASE UNCHANGED vars
  BY <1>24 DEF IInv, TypeOK, Calls, Shutdown, Held, Pinned, Reserving, Closed,
     Fates, CallPoints, workerVars, callVars, vars, workerVars, callVars
<1> QED
  BY <1>1, <1>2, <1>3, <1>4, <1>5, <1>6, <1>7, <1>8, <1>9, <1>10, <1>11, <1>12,
     <1>13, <1>14, <1>15, <1>16, <1>17, <1>18, <1>19, <1>20, <1>21, <1>22, <1>23,
     <1>24 DEF Next, CallStep, WorkerStep, ShutStep, Finished

\* Every step keeps what versions tell.
LEMMA VersionsStep == IInv /\ [Next]_vars => Versions'
<1> SUFFICES ASSUME IInv, [Next]_vars PROVE Versions'
  OBVIOUS
<1>1. ASSUME NEW j \in Jobs, EnqueueStart(j) PROVE Versions'
  BY <1>1, RunnerAssumption DEF IInv, TypeOK, Calls, Shutdown, Held, Versions,
     Pinned, Reserving, Closed, workerVars, callVars, EnqueueStart
<1>2. ASSUME NEW j \in Jobs, Reserve(j) PROVE Versions'
  BY <1>2, RunnerAssumption DEF IInv, TypeOK, Calls, Shutdown, Held, Versions,
     Pinned, Reserving, Closed, workerVars, callVars, Reserve, EnsureWorker
<1>3. ASSUME NEW j \in Jobs, ReserveRefused(j) PROVE Versions'
  BY <1>3, RunnerAssumption DEF IInv, TypeOK, Calls, Shutdown, Held, Versions,
     Pinned, Reserving, Closed, workerVars, callVars, ReserveRefused
<1>4. ASSUME NEW j \in Jobs, PassGate(j) PROVE Versions'
  BY <1>4, RunnerAssumption DEF IInv, TypeOK, Calls, Shutdown, Held, Versions,
     Pinned, Reserving, Closed, workerVars, callVars, PassGate
<1>5. ASSUME NEW j \in Jobs, GateRefused(j) PROVE Versions'
  BY <1>5, RunnerAssumption DEF IInv, TypeOK, Calls, Shutdown, Held, Versions,
     Pinned, Reserving, Closed, workerVars, callVars, GateRefused, Fail
<1>6. ASSUME NEW j \in Jobs, Send(j) PROVE Versions'
  BY <1>6, RunnerAssumption DEF IInv, TypeOK, Calls, Shutdown, Held, Versions,
     Pinned, Reserving, Closed, workerVars, callVars, Send
<1>7. ASSUME NEW j \in Jobs, SendStopped(j) PROVE Versions'
  BY <1>7, RunnerAssumption DEF IInv, TypeOK, Calls, Shutdown, Held, Versions,
     Pinned, Reserving, Closed, workerVars, callVars, SendStopped, Fail
<1>8. ASSUME NEW j \in Jobs, CallerGivesUp(j) PROVE Versions'
  BY <1>8, RunnerAssumption DEF IInv, TypeOK, Calls, Shutdown, Held, Versions,
     Pinned, Reserving, Closed, workerVars, callVars, CallerGivesUp, Fail
<1>9. ASSUME NEW j \in Jobs, ReleaseSender(j) PROVE Versions'
  BY <1>9, RunnerAssumption DEF IInv, TypeOK, Calls, Shutdown, Held, Versions,
     Pinned, Reserving, Closed, workerVars, callVars, ReleaseSender
<1>10. ASSUME NEW k \in Keys, IncrementVersion(k) PROVE Versions'
  <2>1. PICK w \in Workers :
          EnsureWorker(k, w) /\ version' = [version EXCEPT ![w] = @ + 1]
    BY <1>10 DEF IncrementVersion
  <2>2. None \notin Workers /\ KeyOf \in [Jobs -> Keys]
    BY RunnerAssumption
  <2>3. workers[k] \in {None, w} /\ wkey' = [wkey EXCEPT ![w] = k]
    BY <2>1, <2>2, EnsureWorkerFacts DEF IInv
  <2>4. /\ stale' = stale \cup {j \in Jobs : KeyOf[j] = k /\ Pinned(j)}
        /\ shut' = shut /\ pc' = pc /\ target' = target /\ jobVersion' = jobVersion /\ fate' = fate
    BY <1>10 DEF IncrementVersion, callVars
  <2>5. ASSUME NEW x \in Jobs, Pinned(x), shut # "done"
        PROVE  target[x] = w <=> KeyOf[x] = k
    <3>1. target[x] \in Workers /\ workers[KeyOf[x]] = target[x]
      BY <2>5 DEF IInv, Held
    <3>2. wkey[target[x]] = KeyOf[x] /\ phase[target[x]] # "unused"
      BY <3>1, <2>2 DEF IInv, Registry
    <3>3. KeyOf[x] = k => target[x] = w
      BY <2>2, <2>3, <3>1
    <3>4. workers[k] = w \/ phase[w] = "unused"
      BY <2>1, <2>2, EnsureWorkerFacts DEF IInv
    <3>5. workers[k] = w => wkey[w] = k
      BY <2>2 DEF IInv, Registry
    <3> QED
      BY <3>2, <3>3, <3>4, <3>5
  <2>6. ASSUME NEW x \in Jobs, Pinned(x)', shut' # "done"
        PROVE  /\ jobVersion'[x] <= version'[target'[x]]
               /\ jobVersion'[x] # version'[target'[x]] <=> x \in stale'
    <3>1. Pinned(x) /\ shut # "done"
      BY <2>4, <2>6 DEF Pinned
    <3>2. /\ target[x] \in Workers /\ jobVersion[x] <= version[target[x]]
          /\ jobVersion[x] # version[target[x]] <=> x \in stale
      BY <3>1 DEF IInv, Held, Versions
    <3>3. jobVersion[x] \in Nat /\ version[target[x]] \in Nat
      BY <3>2 DEF IInv, TypeOK
    <3>4. CASE KeyOf[x] = k
      BY <2>1, <2>4, <2>5, <3>1, <3>2, <3>3, <3>4 DEF IInv, TypeOK
    <3>5. CASE KeyOf[x] # k
      BY <2>1, <2>4, <2>5, <3>1, <3>2, <3>3, <3>5 DEF IInv, TypeOK
    <3> QED
      BY <3>4, <3>5
  <2> QED
    BY <2>6 DEF Versions
<1>11. ASSUME NEW w \in Workers, LoopTop(w) PROVE Versions'
  BY <1>11, RunnerAssumption DEF IInv, TypeOK, Calls, Shutdown, Held, Versions,
     Pinned, Reserving, Closed, workerVars, callVars, LoopTop
<1>12. ASSUME NEW w \in Workers, StopWorker(w) PROVE Versions'
  BY <1>12, RunnerAssumption DEF IInv, TypeOK, Calls, Shutdown, Held, Versions,
     Pinned, Reserving, Closed, workerVars, callVars, StopWorker
<1>13. ASSUME NEW w \in Workers, RetireIdle(w) PROVE Versions'
  BY <1>13, RunnerAssumption DEF IInv, TypeOK, Calls, Shutdown, Held, Versions,
     Pinned, Reserving, Closed, workerVars, callVars, RetireIdle, CanRetire
<1>14. ASSUME NEW w \in Workers, TakeJob(w) PROVE Versions'
  BY <1>14, RunnerAssumption DEF IInv, TypeOK, Calls, Shutdown, Held, Versions,
     Pinned, Reserving, Closed, workerVars, callVars, TakeJob
<1>15. ASSUME NEW w \in Workers, AcquireSem(w) PROVE Versions'
  BY <1>15, RunnerAssumption DEF IInv, TypeOK, Calls, Shutdown, Held, Versions,
     Pinned, Reserving, Closed, workerVars, callVars, AcquireSem
<1>16. ASSUME NEW w \in Workers, DropTaken(w) PROVE Versions'
  BY <1>16, RunnerAssumption DEF IInv, TypeOK, Calls, Shutdown, Held, Versions,
     Pinned, Reserving, Closed, workerVars, callVars, DropTaken
<1>17. ASSUME NEW w \in Workers, FinishJob(w) PROVE Versions'
  BY <1>17, RunnerAssumption DEF IInv, TypeOK, Calls, Shutdown, Held, Versions,
     Pinned, Reserving, Closed, workerVars, callVars, FinishJob
<1>18. ASSUME Cancel PROVE Versions'
  BY <1>18, RunnerAssumption DEF IInv, TypeOK, Calls, Shutdown, Held, Versions,
     Pinned, Reserving, Closed, workerVars, callVars, Cancel
<1>19. ASSUME ShutWaitGate PROVE Versions'
  BY <1>19, RunnerAssumption DEF IInv, TypeOK, Calls, Shutdown, Held, Versions,
     Pinned, Reserving, Closed, workerVars, callVars, ShutWaitGate
<1>20. ASSUME ShutClose PROVE Versions'
  BY <1>20, RunnerAssumption DEF IInv, TypeOK, Calls, Shutdown, Held, Versions,
     Pinned, Reserving, Closed, workerVars, callVars, ShutClose
<1>21. ASSUME ShutJoin PROVE Versions'
  BY <1>21, RunnerAssumption DEF IInv, TypeOK, Calls, Shutdown, Held, Versions,
     Pinned, Reserving, Closed, workerVars, callVars, ShutJoin
<1>22. ASSUME ShutDone PROVE Versions'
  BY <1>22, RunnerAssumption DEF IInv, TypeOK, Calls, Shutdown, Held, Versions,
     Pinned, Reserving, Closed, workerVars, callVars, ShutDone
<1>23. ASSUME NEW k \in Keys, ShutDrain(k) PROVE Versions'
  BY <1>23, RunnerAssumption DEF IInv, TypeOK, Calls, Shutdown, Held, Versions,
     Pinned, Reserving, Closed, workerVars, callVars, ShutDrain
<1>24. CASE UNCHANGED vars
  BY <1>24 DEF IInv, TypeOK, Calls, Shutdown, Held, Versions, Pinned, Reserving,
     Closed, workerVars, callVars, vars, workerVars, callVars
<1> QED
  BY <1>1, <1>2, <1>3, <1>4, <1>5, <1>6, <1>7, <1>8, <1>9, <1>10, <1>11, <1>12,
     <1>13, <1>14, <1>15, <1>16, <1>17, <1>18, <1>19, <1>20, <1>21, <1>22, <1>23,
     <1>24 DEF Next, CallStep, WorkerStep, ShutStep, Finished

-----------------------------------------------------------------------------
\* The initial state satisfies the invariant.
LEMMA IInvInit == Init => IInv
<1> SUFFICES ASSUME Init PROVE IInv
  OBVIOUS
<1>1. TypeOK
  <2>1. <<>> \in Seq(Jobs)
    OBVIOUS
  <2> QED
    BY <2>1, RunnerAssumption DEF Init, TypeOK, ShutStages, Phases, CallPoints,
       Fates
<1>2. SendersCounted
  <2>1. \A w \in Workers : ReservedOn(w) = {}
    BY DEF Init, ReservedOn, Reserving
  <2> QED
    BY <2>1, FS_EmptySet DEF Init, SendersCounted
<1>3. SemCounted
  <2>1. Running = {}
    BY DEF Init, Running
  <2> QED
    BY <2>1, FS_EmptySet, RunnerAssumption DEF Init, SemCounted
<1>4. Registry /\ Shutdown /\ Calls /\ Placed
  BY RunnerAssumption DEF Init, Registry, Shutdown, Calls, Placed, Live, Closed,
     Reserving
<1>5. Held /\ Versions
  BY DEF Init, Held, Versions, Pinned, Reserving
<1> QED
  BY <1>1, <1>2, <1>3, <1>4, <1>5 DEF IInv

\* The runner stays as the invariant says.
THEOREM Invariance == Spec => []IInv
<1>1. IInv /\ [Next]_vars => IInv'
  BY TypeStep, SendersStep, SemStep, RegistryStep, ShutdownStep, CallsStep,
     PlacedStep, HeldStep, VersionsStep DEF IInv
<1> QED
  BY IInvInit, <1>1, PTL DEF Spec

\* The variables keep their types; in particular the code's two counters, which
\* are only ever incremented and decremented, never go below zero.
THEOREM TypeCorrect == Spec => []TypeOK
<1>1. IInv => TypeOK
  BY DEF IInv
<1> QED
  BY Invariance, <1>1, PTL

\* However many conversations, calls and worker structs there are, no
\* conversation is ever served by two goroutines.
THEOREM Serial == Spec => []SerialPerKey
<1>1. IInv => SerialPerKey
  BY DEF IInv, Registry, SerialPerKey
<1> QED
  BY Invariance, <1>1, PTL

\* The semaphore counts the running handlers exactly, so no path through
\* runWorker leaks a slot or gives one back twice.
THEOREM SemaphoreExact == Spec => []SemExact
<1>1. IInv => SemExact
  BY DEF IInv, SemCounted, Running, SemExact
<1> QED
  BY Invariance, <1>1, PTL

\* A handler can trust the comparison of its job's version with CurrentVersion
\* even though retiring a worker resets that version.
THEOREM StaleIsDetected == Spec => []StaleDetected
<1>1. ASSUME IInv, NEW j \in Jobs, fate[j] = "accepted"
      PROVE  jobVersion[j] # CurrentVersion(KeyOf[j]) <=> j \in stale
  <2>1. shut # "done" /\ target[j] \in Workers /\ workers[KeyOf[j]] = target[j]
    BY <1>1 DEF IInv, Held, Pinned
  <2>2. CurrentVersion(KeyOf[j]) = version[target[j]]
    BY <2>1, RunnerAssumption DEF CurrentVersion
  <2> QED
    BY <1>1, <2>1, <2>2 DEF IInv, Versions, Pinned
<1>2. IInv => StaleDetected
  BY <1>1 DEF StaleDetected
<1> QED
  BY Invariance, <1>2, PTL

\* When WaitClosed returns, no goroutine runs and no accepted job is unsettled,
\* whichever calls of Enqueue raced the shutdown.
THEOREM ClosedMeansSettled == Spec => []SettledWhenClosed
<1>1. IInv => SettledWhenClosed
  BY DEF IInv, Shutdown, Held, SettledWhenClosed
<1> QED
  BY Invariance, <1>1, PTL
-----------------------------------------------------------------------------
\* The refinement.  What the executor sees of a conversation and of the runner.
Active(k) ==
  IF workers[k] # None /\ phase[workers[k]] = "running" THEN cur[workers[k]] ELSE None
Pending == [k \in Keys |-> Serving(k)]
Actives == [k \in Keys |-> Active(k)]
Stage ==
  CASE shut = "done" -> "done"
    [] shut \in {"closed", "draining"} -> "closed"
    [] cancelled /\ shut \in {"idle", "gate"} -> "stopping"
    [] OTHER -> "open"

\* What the steps of the executor need in addition: a worker that waits for the
\* semaphore or runs has its job, and a channel nobody serves is empty.
Hands ==
  \A w \in Workers :
    /\ phase[w] \in {"acquire", "running"} => cur[w] \in Jobs
    /\ phase[w] = "unused" => queue[w] = <<>>

\* A channel behind the job its worker holds.
LEMMA HandFacts ==
  ASSUME NEW q \in Seq(Jobs)
  PROVE  /\ <<>> \o q = q
         /\ q # <<>> => <<Head(q)>> \o Tail(q) = q
         /\ \A x \in Jobs :
              /\ <<x>> \o q \in Seq(Jobs) /\ <<x>> \o q # <<>>
              /\ Head(<<x>> \o q) = x /\ Tail(<<x>> \o q) = q
              /\ Len(<<x>> \o q) = Len(q) + 1
              /\ \A y \in Jobs : Append(<<x>> \o q, y) = <<x>> \o Append(q, y)
<1>1. <<>> \o q = q
  BY ConcatEmptySeq
<1>2. ASSUME NEW x \in Jobs
      PROVE  /\ <<x>> \in Seq(Jobs) /\ Len(<<x>>) = 1 /\ <<x>>[1] = x
             /\ <<x>> \o q \in Seq(Jobs) /\ Len(<<x>> \o q) = Len(q) + 1
             /\ (<<x>> \o q)[1] = x
             /\ \A i \in 1 .. Len(q) : (<<x>> \o q)[i + 1] = q[i]
  <2>1. <<x>> \in Seq(Jobs) /\ Len(<<x>>) = 1 /\ <<x>>[1] = x
    OBVIOUS
  <2>2. /\ <<x>> \o q \in Seq(Jobs) /\ Len(<<x>> \o q) = 1 + Len(q)
        /\ \A i \in 1 .. 1 + Len(q) :
             (<<x>> \o q)[i] = IF i <= 1 THEN <<x>>[i] ELSE q[i - 1]
    BY <2>1, ConcatProperties
  <2>3. Len(q) \in Nat /\ 1 \in 1 .. 1 + Len(q)
        /\ \A i \in 1 .. Len(q) : i + 1 \in 1 .. 1 + Len(q) /\ ~(i + 1 <= 1) /\ (i + 1) - 1 = i
    OBVIOUS
  <2> QED
    BY <2>1, <2>2, <2>3
<1>3. ASSUME NEW x \in Jobs
      PROVE  <<x>> \o q # <<>> /\ Head(<<x>> \o q) = x /\ Tail(<<x>> \o q) = q
  <2> DEFINE s == <<x>> \o q
  <2>1. /\ s \in Seq(Jobs) /\ Len(s) = Len(q) + 1 /\ s[1] = x /\ Len(q) \in Nat
        /\ \A i \in 1 .. Len(q) : s[i + 1] = q[i]
    BY <1>2
  <2> HIDE DEF s
  <2>2. s # <<>>
    BY <2>1
  <2>3. /\ Tail(s) \in Seq(Jobs) /\ Len(Tail(s)) = Len(q)
        /\ \A i \in 1 .. Len(Tail(s)) : Tail(s)[i] = s[i + 1]
    BY <2>1, <2>2, HeadTailProperties
  <2>4. Tail(s) = q
    BY <2>1, <2>3, SeqEqual
  <2> QED
    BY <2>1, <2>2, <2>4 DEF s
<1>4. ASSUME NEW x \in Jobs, NEW y \in Jobs
      PROVE  Append(<<x>> \o q, y) = <<x>> \o Append(q, y)
  <2>1. <<x>> \in Seq(Jobs) /\ <<y>> \in Seq(Jobs) /\ <<x>> \o q \in Seq(Jobs)
    BY <1>2
  <2>2. Append(<<x>> \o q, y) = (<<x>> \o q) \o <<y>> /\ Append(q, y) = q \o <<y>>
    BY <2>1, AppendIsConcat
  <2> QED
    BY <2>1, <2>2, ConcatAssociative
<1>5. ASSUME q # <<>> PROVE <<Head(q)>> \o Tail(q) = q
  <2>1. /\ Head(q) \in Jobs /\ Tail(q) \in Seq(Jobs) /\ Len(q) = Len(Tail(q)) + 1
        /\ Head(q) = q[1] /\ \A i \in 1 .. Len(Tail(q)) : Tail(q)[i] = q[i + 1]
    BY <1>5, HeadTailProperties
  <2> DEFINE s == <<Head(q)>> \o Tail(q)
             t == Tail(q)
  <2>2. /\ <<Head(q)>> \in Seq(Jobs) /\ Len(<<Head(q)>>) = 1 /\ <<Head(q)>>[1] = q[1]
    BY <2>1
  <2>3. /\ s \in Seq(Jobs) /\ Len(s) = 1 + Len(t)
        /\ \A i \in 1 .. 1 + Len(t) :
             s[i] = IF i <= 1 THEN <<Head(q)>>[i] ELSE t[i - 1]
    BY <2>1, <2>2, ConcatProperties
  <2>4. Len(t) \in Nat /\ \A i \in 1 .. Len(t) : t[i] = q[i + 1]
    BY <2>1
  <2>5. Len(q) = Len(t) + 1
    BY <2>1
  <2> HIDE DEF s, t
  <2>6. \A i \in 1 .. Len(s) : s[i] = q[i]
    <3> SUFFICES ASSUME NEW i \in 1 .. Len(s) PROVE s[i] = q[i]
      OBVIOUS
    <3>1. CASE i = 1
      BY <3>1, <2>2, <2>3, <2>4
    <3>2. CASE i # 1
      <4>1. i - 1 \in 1 .. Len(t) /\ ~(i <= 1) /\ (i - 1) + 1 = i
        BY <3>2, <2>3, <2>4
      <4> QED
        BY <4>1, <2>3, <2>4
    <3> QED
      BY <3>1, <3>2
  <2>7. s = q
    BY <2>3, <2>4, <2>5, <2>6, SeqEqual
  <2> QED
    BY <2>7 DEF s
<1> QED
  BY <1>1, <1>2, <1>3, <1>4, <1>5

\* What the executor sees of a conversation whose worker has not moved.
LEMMA SameView ==
  ASSUME NEW k \in Keys, workers'[k] = workers[k],
         workers[k] # None =>
           /\ phase'[workers[k]] = phase[workers[k]]
           /\ queue'[workers[k]] = queue[workers[k]]
           /\ cur'[workers[k]] = cur[workers[k]]
  PROVE  Serving(k)' = Serving(k) /\ Active(k)' = Active(k)
BY DEF Serving, Active

\* What it sees of a conversation and its worker.
LEMMA ViewOf ==
  ASSUME IInv, NEW k \in Keys
  PROVE  /\ workers[k] = None => Serving(k) = <<>> /\ Active(k) = None
         /\ workers[k] # None =>
              /\ workers[k] \in Workers /\ queue[workers[k]] \in Seq(Jobs)
              /\ Serving(k) = IF phase[workers[k]] = "acquire"
                              THEN <<cur[workers[k]]>> \o queue[workers[k]]
                              ELSE queue[workers[k]]
              /\ Active(k) = IF phase[workers[k]] = "running" THEN cur[workers[k]] ELSE None
         /\ \A x \in Keys : x # k /\ workers[k] # None => workers[x] # workers[k]
<1>1. /\ workers[k] # None => workers[k] \in Workers /\ queue[workers[k]] \in Seq(Jobs)
      /\ workers[k] # None => wkey[workers[k]] = k
      /\ \A x \in Keys : workers[x] # None => wkey[workers[x]] = x
  BY DEF IInv, TypeOK, Registry
<1>2. workers[k] # None => <<>> \o queue[workers[k]] = queue[workers[k]]
  BY <1>1, HandFacts
<1> QED
  BY <1>1, <1>2 DEF Serving, Active

\* A goroutine that has not returned serves its conversation.
LEMMA LiveView ==
  ASSUME IInv, NEW w \in Workers, Live(w)
  PROVE  /\ wkey[w] \in Keys /\ workers[wkey[w]] = w /\ w # None
         /\ \A k \in Keys : k # wkey[w] => workers[k] # w
         /\ shut \notin {"draining", "done"}
BY RunnerAssumption DEF IInv, TypeOK, Registry, Shutdown

\* The view of the conversations after a step that moved that of k at most.
LEMMA ViewAfter ==
  ASSUME NEW k \in Keys, NEW p, NEW a, Serving(k)' = p, Active(k)' = a,
         \A x \in Keys : x # k => Serving(x)' = Serving(x) /\ Active(x)' = Active(x)
  PROVE  Pending' = [Pending EXCEPT ![k] = p] /\ Actives' = [Actives EXCEPT ![k] = a]
<1>1. Pending' = [x \in Keys |-> Serving(x)'] /\ Actives' = [x \in Keys |-> Active(x)']
  BY DEF Pending, Actives
<1> QED
  BY <1>1 DEF Pending, Actives

\* A step nobody can see.
LEMMA Unseen ==
  ASSUME \A k \in Keys : Serving(k)' = Serving(k) /\ Active(k)' = Active(k),
         fate' = fate, Stage' = Stage
  PROVE  UNCHANGED Executor!vars
<1>1. Pending' = Pending /\ Actives' = Actives
  BY DEF Pending, Actives
<1> QED
  BY <1>1 DEF Pending, Actives, Active, Stage, Executor!vars

\* The stages, in words.
LEMMA StageFacts ==
  ASSUME IInv
  PROVE  /\ Stage = "open" <=> ~cancelled
         /\ Stage = "stopping" <=> cancelled /\ shut \in {"idle", "gate"}
         /\ Stage = "closed" <=> shut \in {"closed", "draining"}
         /\ Stage = "done" <=> shut = "done"
         /\ Stage \in {"open", "stopping", "closed", "done"}
BY DEF IInv, TypeOK, Shutdown, ShutStages, Stage

\* ensureWorkerLocked cannot be seen: the worker it starts has nothing to do.
LEMMA EnsureUnseen ==
  ASSUME IInv, Hands, NEW k \in Keys, NEW w \in Workers, EnsureWorker(k, w),
         queue' = queue, cur' = cur
  PROVE  \A x \in Keys : Serving(x)' = Serving(x) /\ Active(x)' = Active(x)
<1>1. /\ workers' = [workers EXCEPT ![k] = w]
      /\ \A v \in Workers : v # w => phase'[v] = phase[v]
      /\ \/ workers[k] = w /\ phase' = phase
         \/ workers[k] = None /\ phase[w] = "unused" /\ phase'[w] = "top"
  BY EnsureWorkerFacts DEF IInv
<1>2. workers \in [Keys -> Workers \cup {None}] /\ w # None
  BY RunnerAssumption DEF IInv, TypeOK
<1>3. CASE workers[k] = w /\ phase' = phase
  <2>1. workers' = workers
    BY <1>1, <1>2, <1>3
  <2> QED
    BY <1>3, <2>1, SameView
<1>4. CASE workers[k] = None /\ phase[w] = "unused" /\ phase'[w] = "top"
  <2>1. ASSUME NEW x \in Keys, x # k PROVE Serving(x)' = Serving(x) /\ Active(x)' = Active(x)
    <3>1. workers'[x] = workers[x] /\ (workers[x] # None => workers[x] \in Workers)
      BY <1>1, <1>2, <2>1
    <3>2. workers[x] # None => workers[x] # w
      BY <1>4 DEF IInv, Registry
    <3> QED
      BY <1>1, <3>1, <3>2, SameView
  <2>2. queue[w] = <<>>
    BY <1>4 DEF Hands
  <2>3. Serving(k)' = <<>> \o <<>>
    BY <1>1, <1>2, <1>4, <2>2 DEF Serving
  <2>4. Serving(k)' = <<>>
    BY <2>3
  <2>5. Active(k)' = None
    BY <1>1, <1>2, <1>4 DEF Active
  <2>6. Serving(k) = <<>> /\ Active(k) = None
    BY <1>4 DEF Serving, Active
  <2> QED
    BY <2>1, <2>4, <2>5, <2>6
<1> QED
  BY <1>1, <1>3, <1>4

\* A worker keeps its job until it has settled it.
LEMMA HandsStep == IInv /\ Hands /\ [Next]_vars => Hands'
<1> SUFFICES ASSUME IInv, Hands, [Next]_vars PROVE Hands'
  OBVIOUS
<1>1. ASSUME NEW j \in Jobs, EnqueueStart(j) PROVE Hands'
  BY <1>1 DEF IInv, TypeOK, Hands, workerVars, callVars, EnqueueStart
<1>2. ASSUME NEW j \in Jobs, Reserve(j) PROVE Hands'
  <2>1. PICK w \in Workers : EnsureWorker(KeyOf[j], w)
    BY <1>2 DEF Reserve
  <2>2. KeyOf[j] \in Keys /\ queue' = queue /\ cur' = cur
    BY <1>2, RunnerAssumption DEF Reserve
  <2>3. \A v \in Workers : phase'[v] = phase[v] \/ phase'[v] = "top"
    BY <2>1, <2>2, EnsureWorkerFacts DEF IInv
  <2> QED
    BY <2>2, <2>3 DEF Hands
<1>3. ASSUME NEW j \in Jobs, ReserveRefused(j) PROVE Hands'
  BY <1>3 DEF IInv, TypeOK, Hands, workerVars, callVars, ReserveRefused
<1>4. ASSUME NEW j \in Jobs, PassGate(j) PROVE Hands'
  BY <1>4 DEF IInv, TypeOK, Hands, workerVars, callVars, PassGate
<1>5. ASSUME NEW j \in Jobs, GateRefused(j) PROVE Hands'
  BY <1>5 DEF IInv, TypeOK, Hands, workerVars, callVars, GateRefused, Fail
<1>6. ASSUME NEW j \in Jobs, Send(j) PROVE Hands'
  <2>1. pc[j] = "sending" /\ ~Closed /\ shut # "done" /\ KeyOf[j] \in Keys
    BY <1>6, RunnerAssumption DEF IInv, Shutdown, Send, Closed
  <2>2. target[j] \in Workers /\ workers[KeyOf[j]] = target[j]
    BY <2>1 DEF IInv, Held, Pinned
  <2>3. phase[target[j]] # "unused"
    BY <2>1, <2>2, RunnerAssumption DEF IInv, Registry
  <2> QED
    BY <1>6, <2>3 DEF IInv, TypeOK, Hands, Send
<1>7. ASSUME NEW j \in Jobs, SendStopped(j) PROVE Hands'
  BY <1>7 DEF IInv, TypeOK, Hands, workerVars, callVars, SendStopped, Fail
<1>8. ASSUME NEW j \in Jobs, CallerGivesUp(j) PROVE Hands'
  BY <1>8 DEF IInv, TypeOK, Hands, workerVars, callVars, CallerGivesUp, Fail
<1>9. ASSUME NEW j \in Jobs, ReleaseSender(j) PROVE Hands'
  BY <1>9 DEF IInv, TypeOK, Hands, workerVars, callVars, ReleaseSender
<1>10. ASSUME NEW k \in Keys, IncrementVersion(k) PROVE Hands'
  <2>1. PICK w \in Workers : EnsureWorker(k, w)
    BY <1>10 DEF IncrementVersion
  <2>2. k \in Keys /\ queue' = queue /\ cur' = cur
    BY <1>10, RunnerAssumption DEF IncrementVersion
  <2>3. \A v \in Workers : phase'[v] = phase[v] \/ phase'[v] = "top"
    BY <2>1, <2>2, EnsureWorkerFacts DEF IInv
  <2> QED
    BY <2>2, <2>3 DEF Hands
<1>11. ASSUME NEW w \in Workers, LoopTop(w) PROVE Hands'
  BY <1>11 DEF IInv, TypeOK, Hands, workerVars, callVars, LoopTop
<1>12. ASSUME NEW w \in Workers, StopWorker(w) PROVE Hands'
  BY <1>12 DEF IInv, TypeOK, Hands, workerVars, callVars, StopWorker
<1>13. ASSUME NEW w \in Workers, RetireIdle(w) PROVE Hands'
  BY <1>13 DEF IInv, TypeOK, Hands, workerVars, callVars, RetireIdle
<1>14. ASSUME NEW w \in Workers, TakeJob(w) PROVE Hands'
  <2>1. Head(queue[w]) \in Jobs
    BY <1>14, HeadTailProperties DEF IInv, TypeOK, TakeJob
  <2> QED
    BY <1>14, <2>1 DEF IInv, TypeOK, Hands, TakeJob
<1>15. ASSUME NEW w \in Workers, AcquireSem(w) PROVE Hands'
  BY <1>15 DEF IInv, TypeOK, Hands, workerVars, callVars, AcquireSem
<1>16. ASSUME NEW w \in Workers, DropTaken(w) PROVE Hands'
  BY <1>16 DEF IInv, TypeOK, Hands, workerVars, callVars, DropTaken
<1>17. ASSUME NEW w \in Workers, FinishJob(w) PROVE Hands'
  BY <1>17 DEF IInv, TypeOK, Hands, workerVars, callVars, FinishJob
<1>18. CASE Cancel
  BY <1>18 DEF IInv, TypeOK, Hands, workerVars, callVars, Cancel
<1>19. CASE ShutWaitGate
  BY <1>19 DEF IInv, TypeOK, Hands, workerVars, callVars, ShutWaitGate
<1>20. CASE ShutClose
  BY <1>20 DEF IInv, TypeOK, Hands, workerVars, callVars, ShutClose
<1>21. CASE ShutJoin
  BY <1>21 DEF IInv, TypeOK, Hands, workerVars, callVars, ShutJoin
<1>22. CASE ShutDone
  BY <1>22 DEF IInv, TypeOK, Hands, workerVars, callVars, ShutDone
<1>23. ASSUME NEW k \in Keys, ShutDrain(k) PROVE Hands'
  <2>1. workers[k] \in Workers /\ phase[workers[k]] # "unused"
    BY <1>23 DEF IInv, TypeOK, Registry, ShutDrain
  <2> QED
    BY <1>23, <2>1 DEF IInv, TypeOK, Hands, ShutDrain
<1>24. CASE UNCHANGED vars
  BY <1>24 DEF IInv, TypeOK, Hands, workerVars, callVars, vars
<1> QED
  BY <1>1, <1>2, <1>3, <1>4, <1>5, <1>6, <1>7, <1>8, <1>9, <1>10, <1>11, <1>12,
     <1>13, <1>14, <1>15, <1>16, <1>17, <1>18, <1>19, <1>20, <1>21, <1>22, <1>23, <1>24
     DEF Next, CallStep, WorkerStep, ShutStep, Finished

MapsTo == [Executor!Next]_(Executor!vars)

\* The steps that leave all conversations alone.
LEMMA SameViews ==
  ASSUME UNCHANGED <<workers, phase, queue, cur, shut, cancelled>>
  PROVE  /\ \A k \in Keys : Serving(k)' = Serving(k) /\ Active(k)' = Active(k)
         /\ Pending' = Pending /\ Actives' = Actives /\ Stage' = Stage
<1>1. \A k \in Keys : Serving(k)' = Serving(k) /\ Active(k)' = Active(k)
  BY SameView
<1> QED
  BY <1>1 DEF Pending, Actives, Stage

\* A call that has no job in the runner yet can always be refused.
LEMMA RejectMaps ==
  ASSUME IInv, NEW j \in Jobs, fate[j] = "new", fate' = [fate EXCEPT ![j] = "rejected"],
         UNCHANGED <<workers, phase, queue, cur, shut, cancelled>>
  PROVE  MapsTo
<1>1. Pending' = Pending /\ Actives' = Actives /\ Stage' = Stage
  BY SameViews
<1>2. Executor!Reject(j)
  BY <1>1 DEF Executor!Reject, Pending, Actives, Active, Stage
<1> QED
  BY <1>2 DEF MapsTo, Executor!Next

\* A job that is sent is the last of its conversation, and there was room for it:
\* the capacity of the channel and the job its worker holds.
LEMMA SendMaps == ASSUME IInv, Hands, NEW j \in Jobs, Send(j) PROVE MapsTo
<1> DEFINE k == KeyOf[j]
           w == target[j]
<1>1. /\ pc[j] = "sending" /\ Len(queue[w]) < QueueSize /\ fate[j] = "new"
      /\ queue' = [queue EXCEPT ![w] = Append(@, j)]
      /\ fate' = [fate EXCEPT ![j] = "accepted"]
      /\ UNCHANGED <<cancelled, shut, workers, phase, cur>>
  BY DEF IInv, Calls, Send
<1>2. k \in Keys /\ ~Closed
  BY <1>1, RunnerAssumption DEF IInv, Shutdown
<1>3. w \in Workers /\ workers[k] = w /\ w # None
  BY <1>1, <1>2, RunnerAssumption DEF IInv, Held, Pinned, Closed
<1>4. /\ queue[w] \in Seq(Jobs) /\ Append(queue[w], j) \in Seq(Jobs)
      /\ queue \in [Workers -> Seq(Jobs)] /\ Len(queue[w]) \in Nat /\ QueueSize \in Nat
  BY <1>3, AppendProperties, RunnerAssumption DEF IInv, TypeOK
<1>5. queue'[w] = Append(queue[w], j) /\ \A v \in Workers : v # w => queue'[v] = queue[v]
  BY <1>1, <1>3, <1>4
<1>6. phase[w] = "acquire" => cur[w] \in Jobs
  BY <1>3 DEF Hands
<1>7. Serving(k) = IF phase[w] = "acquire" THEN <<cur[w]>> \o queue[w] ELSE queue[w]
  BY <1>2, <1>3, ViewOf
<1>8. Len(Serving(k)) < QueueSize + 1
  <2>1. CASE phase[w] = "acquire"
    <3>1. Len(<<cur[w]>> \o queue[w]) = Len(queue[w]) + 1
      BY <1>4, <1>6, <2>1, HandFacts
    <3> QED
      BY <1>1, <1>4, <1>7, <2>1, <3>1
  <2>2. CASE phase[w] # "acquire"
    BY <1>1, <1>4, <1>7, <2>2
  <2> QED
    BY <2>1, <2>2
<1>9. Serving(k)' = Append(Serving(k), j)
  <2>1. Serving(k)' = (IF phase[w] = "acquire" THEN <<cur[w]>> ELSE <<>>) \o Append(queue[w], j)
    BY <1>1, <1>3, <1>5 DEF Serving
  <2>2. CASE phase[w] = "acquire"
    BY SMTT(20), <1>4, <1>6, <1>7, <2>1, <2>2, HandFacts
  <2>3. CASE phase[w] # "acquire"
    <3>1. <<>> \o Append(queue[w], j) = Append(queue[w], j)
      BY <1>4, HandFacts
    <3> QED
      BY <1>7, <2>1, <2>3, <3>1
  <2> QED
    BY <2>2, <2>3
<1>10. Active(k)' = Active(k)
  BY <1>1 DEF Active
<1>11. ASSUME NEW x \in Keys, x # k PROVE Serving(x)' = Serving(x) /\ Active(x)' = Active(x)
  <2>1. workers[x] # None => workers[x] \in Workers /\ workers[x] # w
    BY <1>2, <1>3, <1>11, ViewOf
  <2> QED
    BY <1>1, <1>5, <2>1, SameView
<1> HIDE DEF k, w
<1>12. Pending' = [Pending EXCEPT ![k] = Append(Serving(k), j)]
  BY <1>2, <1>9, <1>10, <1>11, ViewAfter
<1>13. Actives' = Actives
  BY <1>10, <1>11 DEF Actives
<1>14. Stage \in {"open", "stopping"} /\ Stage' = Stage
  BY <1>1, <1>2, StageFacts DEF Closed, Stage
<1>15. Pending[k] = Serving(k)
  BY <1>2 DEF Pending
<1>16. Executor!Accept(j)
  BY <1>1, <1>8, <1>12, <1>13, <1>14, <1>15
     DEF Executor!Accept, Pending, Actives, Active, Stage, k
<1> QED
  BY <1>16 DEF MapsTo, Executor!Next

\* A step of a worker is seen in its own conversation only.
LEMMA OthersSame ==
  ASSUME IInv, NEW w \in Workers, Live(w),
         \A x \in Keys : x # wkey[w] => workers'[x] = workers[x],
         \A v \in Workers : v # w =>
           phase'[v] = phase[v] /\ queue'[v] = queue[v] /\ cur'[v] = cur[v]
  PROVE  \A x \in Keys : x # wkey[w] => Serving(x)' = Serving(x) /\ Active(x)' = Active(x)
<1> SUFFICES ASSUME NEW x \in Keys, x # wkey[w]
             PROVE  Serving(x)' = Serving(x) /\ Active(x)' = Active(x)
  OBVIOUS
<1>1. workers[x] # w /\ workers'[x] = workers[x]
  BY LiveView
<1>2. workers[x] # None => workers[x] \in Workers
  BY DEF IInv, TypeOK
<1> QED
  BY <1>1, <1>2, SameView

\* A worker that starts, looks around, or returns, holds no job.
LEMMA TurnUnseen ==
  ASSUME IInv, NEW w \in Workers, phase[w] \in {"top", "select"},
         phase' = [phase EXCEPT ![w] = phase'[w]], phase'[w] \in {"select", "exited"},
         UNCHANGED <<workers, queue, cur, fate, shut, cancelled>>
  PROVE  MapsTo
<1>1. Live(w) /\ phase \in [Workers -> Phases]
  BY DEF Live, IInv, TypeOK
<1>2. PICK k \in Keys : k = wkey[w] /\ workers[k] = w /\ w # None
  BY <1>1, LiveView
<1>3. \A x \in Keys : x # k => Serving(x)' = Serving(x) /\ Active(x)' = Active(x)
  BY <1>1, <1>2, OthersSame
<1>4. Serving(k)' = Serving(k) /\ Active(k)' = Active(k)
  BY <1>2 DEF Serving, Active
<1>5. Stage' = Stage
  BY DEF Stage
<1> QED
  BY <1>3, <1>4, <1>5, Unseen DEF MapsTo

\* The job a worker receives stays the first of those that have not started.
LEMMA TakeMaps == ASSUME IInv, NEW w \in Workers, TakeJob(w) PROVE MapsTo
<1>1. /\ phase[w] = "select" /\ queue[w] # <<>>
      /\ cur' = [cur EXCEPT ![w] = Head(queue[w])]
      /\ queue' = [queue EXCEPT ![w] = Tail(@)]
      /\ phase' = [phase EXCEPT ![w] = "acquire"]
      /\ UNCHANGED <<workers, fate, shut, cancelled>>
  BY DEF TakeJob
<1>2. /\ phase \in [Workers -> Phases] /\ queue \in [Workers -> Seq(Jobs)]
      /\ cur \in [Workers -> Jobs \cup {None}] /\ queue[w] \in Seq(Jobs)
  BY DEF IInv, TypeOK
<1>3. PICK k \in Keys : Live(w) /\ k = wkey[w] /\ workers[k] = w /\ w # None
  BY <1>1, LiveView DEF Live
<1>4. \A x \in Keys : x # k => Serving(x)' = Serving(x) /\ Active(x)' = Active(x)
  BY <1>1, <1>2, <1>3, OthersSame
<1>5. Serving(k) = queue[w] /\ Active(k) = None
  BY <1>1, <1>3, ViewOf
<1>6. phase'[w] = "acquire" /\ cur'[w] = Head(queue[w]) /\ queue'[w] = Tail(queue[w])
  BY <1>1, <1>2
<1>7. Serving(k)' = <<Head(queue[w])>> \o Tail(queue[w]) /\ Active(k)' = None
  BY <1>1, <1>3, <1>6 DEF Serving, Active
<1>8. Serving(k)' = Serving(k) /\ Active(k)' = Active(k)
  BY <1>1, <1>2, <1>5, <1>7, HandFacts
<1>9. Stage' = Stage
  BY <1>1 DEF Stage
<1>10. \A x \in Keys : Serving(x)' = Serving(x) /\ Active(x)' = Active(x)
  BY <1>4, <1>8
<1> QED
  BY <1>1, <1>9, <1>10, Unseen DEF MapsTo

\* There are no more running conversations than running handlers.
LEMMA ActiveBound ==
  ASSUME IInv
  PROVE  /\ Cardinality({k \in Keys : Active(k) # None}) \in Nat
         /\ Cardinality({k \in Keys : Active(k) # None}) <= Cardinality(Running)
<1> DEFINE S == {k \in Keys : Active(k) # None}
           f == [k \in S |-> workers[k]]
<1>1. IsFiniteSet(Running)
  BY FiniteCounts
<1>2. \A k \in S : workers[k] \in Running /\ wkey[workers[k]] = k
  BY DEF IInv, TypeOK, Registry, Active, Running
<1>3. f \in Injection(S, Running)
  <2>1. f \in [S -> Running]
    BY <1>2
  <2>2. \A a, b \in S : f[a] = f[b] => a = b
    BY <1>2
  <2> QED
    BY <2>1, <2>2 DEF Injection, IsInjective
<1> HIDE DEF S, f
<1>4. IsFiniteSet(S) /\ Cardinality(S) <= Cardinality(Running)
  BY <1>1, <1>3, FS_Injection
<1>5. Cardinality(S) \in Nat
  BY <1>4, FS_CardinalityType
<1> QED
  BY <1>4, <1>5 DEF S

\* The executor counts as this module does.
LEMMA SameCount == ASSUME NEW S PROVE Executor!Cardinality(S) = Cardinality(S)
BY Zenon DEF Executor!Cardinality, Cardinality

\* The job a worker starts is the first of its conversation, and there was a slot.
LEMMA AcquireMaps == ASSUME IInv, Hands, NEW w \in Workers, AcquireSem(w) PROVE MapsTo
<1>1. /\ phase[w] = "acquire" /\ sem < SemSize
      /\ phase' = [phase EXCEPT ![w] = "running"]
      /\ UNCHANGED <<workers, queue, cur, fate, shut, cancelled>>
  BY DEF AcquireSem
<1>2. /\ phase \in [Workers -> Phases] /\ queue[w] \in Seq(Jobs) /\ cur[w] \in Jobs
      /\ sem \in Nat /\ SemSize \in Nat
  BY <1>1, RunnerAssumption DEF IInv, TypeOK, Hands
<1>3. PICK k \in Keys : Live(w) /\ k = wkey[w] /\ workers[k] = w /\ w # None
  BY <1>1, LiveView DEF Live
<1>4. \A x \in Keys : x # k => Serving(x)' = Serving(x) /\ Active(x)' = Active(x)
  BY <1>1, <1>2, <1>3, OthersSame
<1>5. Serving(k) = <<cur[w]>> \o queue[w] /\ Active(k) = None
  BY <1>1, <1>3, ViewOf
<1>6. Serving(k) # <<>> /\ Head(Serving(k)) = cur[w] /\ Tail(Serving(k)) = queue[w]
  BY <1>2, <1>5, HandFacts
<1>7. phase'[w] = "running"
  BY <1>1, <1>2
<1>8. Serving(k)' = <<>> \o queue[w] /\ Active(k)' = cur[w]
  BY <1>1, <1>3, <1>7 DEF Serving, Active
<1>9. Serving(k)' = Tail(Serving(k)) /\ Active(k)' = Head(Serving(k))
  BY <1>2, <1>6, <1>8, HandFacts
<1>10. Stage' = Stage
  BY <1>1 DEF Stage
<1>11. Cardinality({x \in Keys : Active(x) # None}) < SemSize
  BY <1>1, <1>2, ActiveBound DEF IInv, SemCounted
<1>12. /\ Pending' = [Pending EXCEPT ![k] = Tail(Serving(k))]
       /\ Actives' = [Actives EXCEPT ![k] = Head(Serving(k))]
  BY <1>3, <1>4, <1>9, ViewAfter
<1>13. Pending[k] = Serving(k) /\ Actives[k] = Active(k)
  BY <1>3 DEF Pending, Actives
<1>14. {x \in Keys : Actives[x] # None} = {x \in Keys : Active(x) # None}
  BY DEF Actives
<1>15. Cardinality({x \in Keys : Actives[x] # None}) < SemSize
  BY <1>11, <1>14
<1>16. /\ Actives[k] = None /\ Pending[k] # <<>>
       /\ Cardinality({x \in Keys : Actives[x] # None}) < SemSize
       /\ Actives' = [Actives EXCEPT ![k] = Head(Pending[k])]
       /\ Pending' = [Pending EXCEPT ![k] = Tail(Pending[k])]
       /\ fate' = fate /\ Stage' = Stage
  BY <1>1, <1>5, <1>6, <1>10, <1>12, <1>13, <1>15
<1>17. Executor!Start(k)
  BY <1>16, SameCount DEF Executor!Start, Pending, Actives, Active, Stage
<1> QED
  BY <1>3, <1>17 DEF MapsTo, Executor!Next

\* A handler that returns has run the active job of its conversation.
LEMMA FinishMaps == ASSUME IInv, Hands, NEW w \in Workers, FinishJob(w) PROVE MapsTo
<1>1. /\ phase[w] = "running" /\ cur' = [cur EXCEPT ![w] = None]
      /\ fate' = [fate EXCEPT ![cur[w]] = "handled"]
      /\ phase' = [phase EXCEPT ![w] = "top"]
      /\ UNCHANGED <<workers, queue, shut, cancelled>>
  BY DEF FinishJob
<1>2. /\ phase \in [Workers -> Phases] /\ queue[w] \in Seq(Jobs) /\ cur[w] \in Jobs
      /\ cur[w] # None /\ cur \in [Workers -> Jobs \cup {None}]
  BY <1>1, RunnerAssumption DEF IInv, TypeOK, Hands
<1>3. PICK k \in Keys : Live(w) /\ k = wkey[w] /\ workers[k] = w /\ w # None
  BY <1>1, LiveView DEF Live
<1>4. \A x \in Keys : x # k => Serving(x)' = Serving(x) /\ Active(x)' = Active(x)
  BY <1>1, <1>2, <1>3, OthersSame
<1>5. Serving(k) = queue[w] /\ Active(k) = cur[w]
  BY <1>1, <1>3, ViewOf
<1>6. phase'[w] = "top"
  BY <1>1, <1>2
<1>7. Serving(k)' = <<>> \o queue[w] /\ Active(k)' = None
  BY <1>1, <1>3, <1>6 DEF Serving, Active
<1>8. Serving(k)' = Serving(k)
  BY <1>2, <1>5, <1>7, HandFacts
<1>9. Stage' = Stage
  BY <1>1 DEF Stage
<1>10. Actives' = [Actives EXCEPT ![k] = None] /\ Pending' = Pending
  <2>1. Actives' = [Actives EXCEPT ![k] = None]
    BY <1>4, <1>7, ViewAfter
  <2>2. Pending' = Pending
    BY <1>4, <1>8 DEF Pending
  <2> QED
    BY <2>1, <2>2
<1>11. Actives[k] = cur[w]
  BY <1>5 DEF Actives
<1>12. /\ Actives[k] # None /\ fate' = [fate EXCEPT ![Actives[k]] = "handled"]
       /\ Actives' = [Actives EXCEPT ![k] = None]
       /\ Pending' = Pending /\ Stage' = Stage
  BY <1>1, <1>2, <1>9, <1>10, <1>11
<1>13. Executor!Finish(k)
  BY <1>12 DEF Executor!Finish, Pending, Actives, Active, Stage
<1> QED
  BY <1>13 DEF MapsTo, Executor!Next

\* A worker that stops while it waits for a slot drops the first job.
LEMMA DropMaps == ASSUME IInv, Hands, NEW w \in Workers, DropTaken(w) PROVE MapsTo
<1>1. /\ phase[w] = "acquire" /\ cancelled /\ cur' = [cur EXCEPT ![w] = None]
      /\ fate' = [fate EXCEPT ![cur[w]] = "dropped"]
      /\ phase' = [phase EXCEPT ![w] = "exited"]
      /\ UNCHANGED <<workers, queue, shut, cancelled>>
  BY DEF DropTaken
<1>2. /\ phase \in [Workers -> Phases] /\ queue[w] \in Seq(Jobs) /\ cur[w] \in Jobs
      /\ cur \in [Workers -> Jobs \cup {None}]
  BY <1>1 DEF IInv, TypeOK, Hands
<1>3. PICK k \in Keys : Live(w) /\ k = wkey[w] /\ workers[k] = w /\ w # None
  BY <1>1, LiveView DEF Live
<1>4. \A x \in Keys : x # k => Serving(x)' = Serving(x) /\ Active(x)' = Active(x)
  BY <1>1, <1>2, <1>3, OthersSame
<1>5. Serving(k) = <<cur[w]>> \o queue[w] /\ Active(k) = None
  BY <1>1, <1>3, ViewOf
<1>6. Serving(k) # <<>> /\ Head(Serving(k)) = cur[w] /\ Tail(Serving(k)) = queue[w]
  BY <1>2, <1>5, HandFacts
<1>7. phase'[w] = "exited"
  BY <1>1, <1>2
<1>8. Serving(k)' = <<>> \o queue[w] /\ Active(k)' = None
  BY <1>1, <1>3, <1>7 DEF Serving, Active
<1>9. Serving(k)' = Tail(Serving(k)) /\ Active(k)' = Active(k)
  BY <1>2, <1>5, <1>6, <1>8, HandFacts
<1>10. Stage \in {"stopping", "closed"} /\ Stage' = Stage
  BY <1>1, <1>3, LiveView, StageFacts DEF Stage
<1>11. /\ Pending' = [Pending EXCEPT ![k] = Tail(Serving(k))]
       /\ Actives' = Actives
  <2>1. Pending' = [Pending EXCEPT ![k] = Tail(Serving(k))]
    BY <1>4, <1>9, ViewAfter
  <2>2. Actives' = Actives
    BY <1>4, <1>9 DEF Actives
  <2> QED
    BY <2>1, <2>2
<1>12. Pending[k] = Serving(k)
  BY DEF Pending
<1>13. /\ Stage \in {"stopping", "closed"} /\ Pending[k] # <<>>
       /\ fate' = [fate EXCEPT ![Head(Pending[k])] = "dropped"]
       /\ Pending' = [Pending EXCEPT ![k] = Tail(Pending[k])]
       /\ Actives' = Actives /\ Stage' = Stage
  BY <1>1, <1>6, <1>10, <1>11, <1>12
<1>14. Executor!Drop(k)
  BY <1>13 DEF Executor!Drop, Pending, Actives, Active, Stage
<1> QED
  BY <1>14 DEF MapsTo, Executor!Next

\* A worker that retires leaves nothing behind.
LEMMA RetireUnseen == ASSUME IInv, NEW w \in Workers, RetireIdle(w) PROVE MapsTo
<1>1. /\ phase[w] = "select" /\ Len(queue[w]) = 0
      /\ workers' = [workers EXCEPT ![wkey[w]] = None]
      /\ phase' = [phase EXCEPT ![w] = "exited"]
      /\ UNCHANGED <<queue, cur, fate, shut, cancelled>>
  BY DEF RetireIdle, CanRetire
<1>2. /\ phase \in [Workers -> Phases] /\ workers \in [Keys -> Workers \cup {None}]
      /\ queue[w] \in Seq(Jobs)
  BY DEF IInv, TypeOK
<1>3. PICK k \in Keys : Live(w) /\ k = wkey[w] /\ workers[k] = w /\ w # None
  BY <1>1, LiveView DEF Live
<1>4. \A x \in Keys : x # k => Serving(x)' = Serving(x) /\ Active(x)' = Active(x)
  BY <1>1, <1>2, <1>3, OthersSame
<1>5. Serving(k) = queue[w] /\ Active(k) = None /\ queue[w] = <<>>
  <2>1. queue[w] = <<>>
    BY <1>1, <1>2, EmptySeq
  <2>2. Serving(k) = queue[w] /\ Active(k) = None
    BY <1>1, <1>3, ViewOf
  <2> QED
    BY <2>1, <2>2
<1>6. workers'[k] = None
  BY <1>1, <1>2, <1>3
<1>7. Serving(k)' = <<>> /\ Active(k)' = None
  BY <1>6 DEF Serving, Active
<1>8. \A x \in Keys : Serving(x)' = Serving(x) /\ Active(x)' = Active(x)
  BY <1>4, <1>5, <1>7
<1>9. Stage' = Stage
  BY <1>1 DEF Stage
<1> QED
  BY <1>1, <1>8, <1>9, Unseen DEF MapsTo

\* The shutdown drops what is left in the channels, in order.
LEMMA DrainMaps == ASSUME IInv, NEW k \in Keys, ShutDrain(k) PROVE MapsTo
<1>1. PICK w \in Workers : w = workers[k] /\ w # None
  BY DEF ShutDrain, IInv, TypeOK
<1>2. /\ shut = "draining" /\ queue[w] # <<>> /\ queue' = [queue EXCEPT ![w] = Tail(@)]
      /\ fate' = [fate EXCEPT ![Head(queue[w])] = "dropped"]
      /\ UNCHANGED <<workers, phase, cur, shut, cancelled>>
  BY <1>1 DEF ShutDrain
<1>3. ~Live(w) /\ queue \in [Workers -> Seq(Jobs)] /\ queue[w] \in Seq(Jobs)
  BY <1>2 DEF IInv, Shutdown, TypeOK
<1>4. phase[w] # "acquire" /\ phase[w] # "running"
  BY <1>3 DEF Live
<1>5. Serving(k) = queue[w] /\ Active(k) = None
  BY <1>1, <1>4, ViewOf
<1>6. queue'[w] = Tail(queue[w]) /\ \A v \in Workers : v # w => queue'[v] = queue[v]
  BY <1>2, <1>3
<1>7. Serving(k)' = <<>> \o Tail(queue[w]) /\ Active(k)' = None
  BY <1>1, <1>2, <1>4, <1>6 DEF Serving, Active
<1>8. Tail(queue[w]) \in Seq(Jobs)
  BY <1>2, <1>3, HeadTailProperties
<1>9. Serving(k)' = Tail(Serving(k)) /\ Active(k)' = Active(k)
  BY <1>5, <1>7, <1>8, HandFacts
<1>10. ASSUME NEW x \in Keys, x # k PROVE Serving(x)' = Serving(x) /\ Active(x)' = Active(x)
  <2>1. workers[x] # None => workers[x] \in Workers /\ workers[x] # w
    BY <1>1, <1>10, ViewOf DEF IInv, TypeOK
  <2> QED
    BY <1>2, <1>6, <2>1, SameView
<1>11. /\ Pending' = [Pending EXCEPT ![k] = Tail(Serving(k))]
       /\ Actives' = Actives
  BY <1>9, <1>10, ViewAfter DEF Actives
<1>12. Pending[k] = Serving(k)
  BY DEF Pending
<1>13. Stage = "closed" /\ Stage' = Stage
  BY <1>2, StageFacts DEF Stage
<1>14. /\ Stage \in {"stopping", "closed"} /\ Pending[k] # <<>>
       /\ fate' = [fate EXCEPT ![Head(Pending[k])] = "dropped"]
       /\ Pending' = [Pending EXCEPT ![k] = Tail(Pending[k])]
       /\ Actives' = Actives /\ Stage' = Stage
  BY <1>2, <1>5, <1>11, <1>12, <1>13
<1>15. Executor!Drop(k)
  BY <1>14 DEF Executor!Drop, Pending, Actives, Active, Stage
<1> QED
  BY <1>15 DEF MapsTo, Executor!Next

\* The shutdown returns when nothing runs and nothing is left.
LEMMA DoneMaps == ASSUME IInv, ShutDone PROVE MapsTo
<1>1. /\ shut = "draining" /\ shut' = "done" /\ workers' = [k \in Keys |-> None]
      /\ \A k \in Keys : workers[k] # None => queue[workers[k]] = <<>>
      /\ fate' = fate
  BY DEF ShutDone
<1>2. ASSUME NEW k \in Keys PROVE Serving(k) = <<>> /\ Active(k) = None
  <2>1. workers[k] # None => ~Live(workers[k])
    BY <1>1 DEF IInv, TypeOK, Shutdown
  <2> QED
    BY <1>1, <2>1, ViewOf DEF Live
<1>3. ASSUME NEW k \in Keys PROVE Serving(k)' = <<>> /\ Active(k)' = None
  BY <1>1 DEF Serving, Active
<1>4. Pending' = Pending /\ Actives' = Actives
  BY <1>2, <1>3 DEF Pending, Actives
<1>5. \A k \in Keys : Pending[k] = <<>> /\ Actives[k] = None
  BY <1>2 DEF Pending, Actives
<1>6. Stage = "closed" /\ Stage' = "done"
  BY <1>1 DEF Stage
<1>7. Executor!Settle
  BY <1>1, <1>4, <1>5, <1>6 DEF Executor!Settle, Pending, Actives, Active, Stage
<1> QED
  BY <1>7 DEF MapsTo, Executor!Next

\* Every step of the runner is a step of the executor, or cannot be seen.
LEMMA MapStep == IInv /\ Hands /\ [Next]_vars => MapsTo
<1> SUFFICES ASSUME IInv, Hands, [Next]_vars PROVE MapsTo
  OBVIOUS
<1>1. ASSUME NEW j \in Jobs, EnqueueStart(j) PROVE MapsTo
  <2>1. CASE cancelled
    <3>1. fate[j] = "new" /\ fate' = [fate EXCEPT ![j] = "rejected"]
      BY <1>1, <2>1 DEF IInv, Calls, EnqueueStart
    <3>2. UNCHANGED <<workers, phase, queue, cur, shut, cancelled>>
      BY <1>1 DEF EnqueueStart, workerVars
    <3> QED
      BY <3>1, <3>2, RejectMaps
  <2>2. CASE ~cancelled
    <3>1. UNCHANGED <<workers, phase, queue, cur, fate, shut, cancelled>>
      BY <1>1, <2>2 DEF EnqueueStart, workerVars
    <3> QED
      BY <3>1, SameViews, Unseen DEF MapsTo
  <2> QED
    BY <2>1, <2>2
<1>2. ASSUME NEW j \in Jobs, Reserve(j) PROVE MapsTo
  <2>1. PICK w \in Workers : EnsureWorker(KeyOf[j], w)
    BY <1>2 DEF Reserve
  <2>2. KeyOf[j] \in Keys /\ UNCHANGED <<queue, cur, fate, shut, cancelled>>
    BY <1>2, RunnerAssumption DEF Reserve
  <2>3. \A x \in Keys : Serving(x)' = Serving(x) /\ Active(x)' = Active(x)
    BY <2>1, <2>2, EnsureUnseen
  <2>4. Stage' = Stage
    BY <2>2 DEF Stage
  <2> QED
    BY <2>2, <2>3, <2>4, Unseen DEF MapsTo
<1>3. ASSUME NEW j \in Jobs, ReserveRefused(j) PROVE MapsTo
  <2>1. fate[j] = "new" /\ fate' = [fate EXCEPT ![j] = "rejected"]
    BY <1>3 DEF IInv, Calls, ReserveRefused
  <2>2. UNCHANGED <<workers, phase, queue, cur, shut, cancelled>>
    BY <1>3 DEF ReserveRefused, workerVars, callVars
  <2> QED
    BY <2>1, <2>2, RejectMaps
<1>4. ASSUME NEW j \in Jobs, PassGate(j) PROVE MapsTo
  <2>1. UNCHANGED <<workers, phase, queue, cur, fate, shut, cancelled>>
    BY <1>4 DEF PassGate, vars, workerVars, callVars
  <2> QED
    BY <2>1, SameViews, Unseen DEF MapsTo
<1>5. ASSUME NEW j \in Jobs, GateRefused(j) PROVE MapsTo
  <2>1. fate[j] = "new" /\ fate' = [fate EXCEPT ![j] = "rejected"]
    BY <1>5 DEF IInv, Calls, GateRefused, Fail
  <2>2. UNCHANGED <<workers, phase, queue, cur, shut, cancelled>>
    BY <1>5 DEF GateRefused, Fail, workerVars, callVars
  <2> QED
    BY <2>1, <2>2, RejectMaps
<1>6. ASSUME NEW j \in Jobs, Send(j) PROVE MapsTo
  BY <1>6, SendMaps
<1>7. ASSUME NEW j \in Jobs, SendStopped(j) PROVE MapsTo
  <2>1. fate[j] = "new" /\ fate' = [fate EXCEPT ![j] = "rejected"]
    BY <1>7 DEF IInv, Calls, SendStopped, Fail
  <2>2. UNCHANGED <<workers, phase, queue, cur, shut, cancelled>>
    BY <1>7 DEF SendStopped, Fail, workerVars, callVars
  <2> QED
    BY <2>1, <2>2, RejectMaps
<1>8. ASSUME NEW j \in Jobs, CallerGivesUp(j) PROVE MapsTo
  <2>1. fate[j] = "new" /\ fate' = [fate EXCEPT ![j] = "rejected"]
    BY <1>8 DEF IInv, Calls, CallerGivesUp, Fail
  <2>2. UNCHANGED <<workers, phase, queue, cur, shut, cancelled>>
    BY <1>8 DEF CallerGivesUp, Fail, workerVars, callVars
  <2> QED
    BY <2>1, <2>2, RejectMaps
<1>9. ASSUME NEW j \in Jobs, ReleaseSender(j) PROVE MapsTo
  <2>1. UNCHANGED <<workers, phase, queue, cur, fate, shut, cancelled>>
    BY <1>9 DEF ReleaseSender, vars, workerVars, callVars
  <2> QED
    BY <2>1, SameViews, Unseen DEF MapsTo
<1>10. ASSUME NEW k \in Keys, IncrementVersion(k) PROVE MapsTo
  <2>1. PICK w \in Workers : EnsureWorker(k, w)
    BY <1>10 DEF IncrementVersion
  <2>2. k \in Keys /\ UNCHANGED <<queue, cur, fate, shut, cancelled>>
    BY <1>10, RunnerAssumption DEF IncrementVersion
  <2>3. \A x \in Keys : Serving(x)' = Serving(x) /\ Active(x)' = Active(x)
    BY <2>1, <2>2, EnsureUnseen
  <2>4. Stage' = Stage
    BY <2>2 DEF Stage
  <2> QED
    BY <2>2, <2>3, <2>4, Unseen DEF MapsTo
<1>11. ASSUME NEW w \in Workers, LoopTop(w) PROVE MapsTo
  <2>1. /\ phase[w] \in {"top", "select"} /\ phase' = [phase EXCEPT ![w] = phase'[w]]
        /\ phase'[w] \in {"select", "exited"}
        /\ UNCHANGED <<workers, queue, cur, fate, shut, cancelled>>
    BY <1>11 DEF IInv, TypeOK, LoopTop
  <2> QED
    BY <2>1, TurnUnseen
<1>12. ASSUME NEW w \in Workers, StopWorker(w) PROVE MapsTo
  <2>1. /\ phase[w] \in {"top", "select"} /\ phase' = [phase EXCEPT ![w] = phase'[w]]
        /\ phase'[w] \in {"select", "exited"}
        /\ UNCHANGED <<workers, queue, cur, fate, shut, cancelled>>
    BY <1>12 DEF IInv, TypeOK, StopWorker
  <2> QED
    BY <2>1, TurnUnseen
<1>13. ASSUME NEW w \in Workers, RetireIdle(w) PROVE MapsTo
  BY <1>13, RetireUnseen
<1>14. ASSUME NEW w \in Workers, TakeJob(w) PROVE MapsTo
  BY <1>14, TakeMaps
<1>15. ASSUME NEW w \in Workers, AcquireSem(w) PROVE MapsTo
  BY <1>15, AcquireMaps
<1>16. ASSUME NEW w \in Workers, DropTaken(w) PROVE MapsTo
  BY <1>16, DropMaps
<1>17. ASSUME NEW w \in Workers, FinishJob(w) PROVE MapsTo
  BY <1>17, FinishMaps
<1>18. CASE Cancel
  <2>1. UNCHANGED <<workers, phase, queue, cur, fate>>
    BY <1>18 DEF Cancel, workerVars
  <2>2. \A k \in Keys : Serving(k)' = Serving(k) /\ Active(k)' = Active(k)
    BY <2>1, SameView
  <2>3. Stage = "open" /\ Stage' = "stopping"
    BY <1>18 DEF IInv, TypeOK, Shutdown, ShutStages, Cancel, Stage
  <2>4. Pending' = Pending /\ Actives' = Actives
    BY <2>2 DEF Pending, Actives
  <2>5. Executor!Stop
    BY <2>1, <2>3, <2>4 DEF Executor!Stop, Pending, Actives, Active, Stage
  <2> QED
    BY <2>5 DEF MapsTo, Executor!Next
<1>19. CASE ShutWaitGate
  <2>1. UNCHANGED <<workers, phase, queue, cur, fate>>
    BY <1>19 DEF ShutWaitGate, workerVars
  <2>2. \A k \in Keys : Serving(k)' = Serving(k) /\ Active(k)' = Active(k)
    BY <2>1, SameView
  <2>3. Stage' = Stage
    BY <1>19 DEF ShutWaitGate, Stage
  <2> QED
    BY <2>1, <2>2, <2>3, Unseen DEF MapsTo
<1>20. CASE ShutClose
  <2>1. UNCHANGED <<workers, phase, queue, cur, fate>>
    BY <1>20 DEF ShutClose, workerVars
  <2>2. \A k \in Keys : Serving(k)' = Serving(k) /\ Active(k)' = Active(k)
    BY <2>1, SameView
  <2>3. Stage = "stopping" /\ Stage' = "closed"
    BY <1>20 DEF IInv, Shutdown, ShutClose, Stage
  <2>4. Pending' = Pending /\ Actives' = Actives
    BY <2>2 DEF Pending, Actives
  <2>5. Executor!Close
    BY <2>1, <2>3, <2>4 DEF Executor!Close, Pending, Actives, Active, Stage
  <2> QED
    BY <2>5 DEF MapsTo, Executor!Next
<1>21. CASE ShutJoin
  <2>1. UNCHANGED <<workers, phase, queue, cur, fate>>
    BY <1>21 DEF ShutJoin, workerVars
  <2>2. \A k \in Keys : Serving(k)' = Serving(k) /\ Active(k)' = Active(k)
    BY <2>1, SameView
  <2>3. Stage' = Stage
    BY <1>21 DEF ShutJoin, Stage
  <2> QED
    BY <2>1, <2>2, <2>3, Unseen DEF MapsTo
<1>22. CASE ShutDone
  BY <1>22, DoneMaps
<1>23. ASSUME NEW k \in Keys, ShutDrain(k) PROVE MapsTo
  BY <1>23, DrainMaps
<1>24. CASE UNCHANGED vars
  <2>1. UNCHANGED <<workers, phase, queue, cur, fate, shut, cancelled>>
    BY <1>24 DEF vars, workerVars, callVars
  <2> QED
    BY <2>1, SameViews, Unseen DEF MapsTo
<1> QED
  BY <1>1, <1>2, <1>3, <1>4, <1>5, <1>6, <1>7, <1>8, <1>9, <1>10, <1>11, <1>12,
     <1>13, <1>14, <1>15, <1>16, <1>17, <1>18, <1>19, <1>20, <1>21, <1>22, <1>23, <1>24
     DEF Next, CallStep, WorkerStep, ShutStep, Finished

\* The runner begins as the executor does.
LEMMA MapInit == Init => Executor!Init
<1> SUFFICES ASSUME Init PROVE Executor!Init
  OBVIOUS
<1>1. \A k \in Keys : Serving(k) = <<>> /\ Active(k) = None
  BY DEF Init, Serving, Active
<1>2. Pending = [k \in Keys |-> <<>>] /\ Actives = [k \in Keys |-> None] /\ Stage = "open"
  BY <1>1 DEF Pending, Actives, Init, Stage
<1> QED
  BY <1>2 DEF Init, Executor!Init, Pending, Actives, Active, Stage

\* To its callers the runner is the executor, for every set of conversations,
\* calls and workers and every capacity: the jobs of a conversation run one at a
\* time in the order of their acceptance, no more than the semaphore allows, and
\* none is lost, run twice or accepted too late (runWorker, shutdownWorkers).
THEOREM RunnerImplementsExecutor == Spec => ImplementsExecutor
<1>1. Init => Hands
  BY DEF Init, Hands
<1>2. IInv /\ Hands /\ [Next]_vars => Hands'
  BY HandsStep
<1>3. IInv /\ Hands /\ [Next]_vars => [Executor!Next]_(Executor!vars)
  BY MapStep DEF MapsTo
<1> QED
  BY <1>1, <1>2, <1>3, MapInit, Invariance, PTL
     DEF Spec, ImplementsExecutor, Executor!Spec
=============================================================================
