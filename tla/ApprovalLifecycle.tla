-------------------------- MODULE ApprovalLifecycle --------------------------
(***************************************************************************)
(* The life of a task that waits for approvals in the Telegram runtime:    *)
(* the worker that runs and parks it (runtime_owner.go), the decisions     *)
(* that arrive for it (runtime_state.go), the expiry of the approval       *)
(* (approval_expiry.go), the durable record (guard), the task store, the   *)
(* resumed run (agent/engine_resume.go) and the close of the runtime.      *)
(*                                                                         *)
(* The registry is PendingApprovals, whose actions are conjoined here with *)
(* what their callers do.  Between two steps of one goroutine any other    *)
(* may run: each call of the record store, of the task store, of the       *)
(* registry and of the runner is a step.  Claim owners identify the        *)
(* goroutines that hold a claim: a decision, or an expiry callback.        *)
(***************************************************************************)
EXTENDS PendingApprovals

CONSTANTS
  Tasks,       \* each in a conversation of its own
  TaskOf,      \* the task whose run asks for an approval
  FaultKinds,  \* which stores may fail: "record" and "task"
  MaxFaults    \* bound: failures of a store

ASSUME LifecycleAssumption ==
  /\ TaskOf \in [Ids -> Tasks]
  /\ FaultKinds \subseteq {"record", "task"}
  /\ MaxFaults \in Nat

VARIABLES
  record,    \* status of each ApprovalRecord
  consumed,  \* records with ConsumedAt set
  late,      \* approvals whose ExpiresAt has passed
  ran,       \* how often the approved tool call of an approval was started
  task,      \* TaskInfo.Status
  asked,     \* TaskInfo.ApprovalRequestID
  work,      \* where the worker goroutine of the task is
  about,     \* the approval the job resumes, or the run has paused for
  accepted,  \* tasks with a job in the runner that no worker has started
  retain,    \* retainGeneration of the worker
  released,  \* tasks whose generation lease was released
  kind,      \* per claim: "decision", "late" or "expiry"
  want,      \* per claim: the status it resolves the record to
  at,        \* per claim: the next step of its goroutine
  outcome,   \* per claim: ApprovalCommitState and whether an error came with it
  missing,   \* decisions that found no handle and have yet to update the task
  early,     \* history: tasks such a decision has updated
  stage,     \* where close() is
  hands,     \* handles Close returned: what is left to do for each
  faults     \* failures so far

recVars == <<record, consumed, late, ran>>
taskVars == <<task, asked>>
workVars == <<work, about, accepted, retain>>
claimVars == <<kind, want, at, outcome>>
missVars == <<missing, early>>
vars == <<regVars, recVars, taskVars, workVars, released, claimVars, missVars, stage, hands, faults>>

Resolutions == {"approved", "denied", "expired"}
Terminal == {"done", "failed", "canceled"}
TaskStates == {"queued", "running", "pending"} \cup Terminal
WorkPoints == {"idle", "start", "checked", "engine", "paused", "parked", "leaving"}
ClaimPoints == {"none", "read", "resolve", "reread", "act", "again", "fail", "cancel", "resume",
                "enqueue", "restore", "orphan", "release", "complete", "kept", "end"}
Outcomes == {"none", "committed", "committedErr", "pendingErr", "unknown", "indeterminate"}
Stages == {"up", "stopping", "drained", "down"}

\* enqueueInbound has recorded and enqueued every task.
Init ==
  /\ RegInit
  /\ record = [id \in Ids |-> "none"] /\ consumed = {} /\ late = {}
  /\ ran = [id \in Ids |-> 0]
  /\ task = [x \in Tasks |-> "queued"]
  /\ asked = [x \in Tasks |-> None]
  /\ work = [x \in Tasks |-> "idle"]
  /\ about = [x \in Tasks |-> None]
  /\ accepted = Tasks
  /\ retain = [x \in Tasks |-> FALSE]
  /\ released = {}
  /\ kind = [o \in Owners |-> "none"]
  /\ want = [o \in Owners |-> "none"]
  /\ at = [o \in Owners |-> "none"]
  /\ outcome = [o \in Owners |-> "none"]
  /\ missing = {} /\ early = {}
  /\ stage = "up"
  /\ hands = [e \in Entries |-> "none"]
  /\ faults = 0

-----------------------------------------------------------------------------
Fault(k) == k \in FaultKinds /\ faults < MaxFaults /\ faults' = faults + 1

SetTask(x, s, id) ==
  /\ task' = [task EXCEPT ![x] = s]
  /\ asked' = [asked EXCEPT ![x] = id]

\* An update that applies only while the task still waits for this approval.
UpdatePending(x, id, s, left) ==
  IF task[x] = "pending" /\ asked[x] = id THEN SetTask(x, s, left) ELSE UNCHANGED taskVars

\* FailPendingApprovalTask
FailPending(x, id) == UpdatePending(x, id, "failed", None)

\* Mutant: a task that waits for an approval is finalized too.
FinalizeAnyway(x, s) == SetTask(x, s, None)

\* finalizeAcceptedTask
FinalizeAccepted(x, s) ==
  IF task[x] \in {"queued", "running"} THEN SetTask(x, s, None) ELSE UNCHANGED taskVars

IdOf(o) == home[owned[o]]
JobOf(o) == TaskOf[IdOf(o)]

-----------------------------------------------------------------------------
\* The worker: runJob

\* The worker receives the job; with its context done it closes the job at once,
\* as the drain of the runner does.
StartJob(x) ==
  /\ x \in accepted /\ work[x] = "idle"
  /\ accepted' = accepted \ {x}
  /\ IF stage = "up"
     THEN \/ /\ work' = [work EXCEPT ![x] = IF about[x] = None THEN "engine" ELSE "start"]
             /\ SetTask(x, "running", asked[x])
             /\ UNCHANGED <<released, faults>>
          \/ /\ Fault("task")
             /\ released' = released \cup {x}
             /\ UNCHANGED <<work, taskVars>>
     ELSE /\ FinalizeAccepted(x, "canceled")
          /\ released' = released \cup {x}
          /\ UNCHANGED <<work, faults>>
  /\ retain' = [retain EXCEPT ![x] = FALSE]
  /\ UNCHANGED <<regVars, recVars, about, claimVars, missVars, stage, hands>>

\* The run ends in a final answer or an error.  With the context done an error
\* leaves the task to the deferred finalizer.
FinishRun(x) ==
  /\ work[x] = "engine"
  /\ work' = [work EXCEPT ![x] = "leaving"]
  /\ \/ SetTask(x, "done", asked[x]) /\ UNCHANGED faults
     \/ stage = "up" /\ \E s \in {"failed", "canceled"} : SetTask(x, s, asked[x]) /\ UNCHANGED faults
     \/ stage # "up" /\ UNCHANGED <<taskVars, faults>>
     \/ Fault("task") /\ UNCHANGED taskVars
  /\ UNCHANGED <<regVars, recVars, about, accepted, retain, released, claimVars, missVars, stage, hands>>

\* The guard asks for an approval: a record is created and the run pauses.
PauseRun(x, id) ==
  /\ work[x] = "engine"
  /\ TaskOf[id] = x /\ record[id] = "none"
  /\ record' = [record EXCEPT ![id] = "pending"]
  /\ about' = [about EXCEPT ![x] = id]
  /\ work' = [work EXCEPT ![x] = "paused"]
  /\ UNCHANGED <<regVars, consumed, late, ran, taskVars, accepted, retain, released, claimVars,
                 missVars, stage, hands, faults>>

\* engine.resume up to the last check before the approval is consumed.
CheckResume(x) ==
  /\ work[x] = "start"
  /\ \/ /\ about[x] \notin late /\ record[about[x]] = "approved"
        /\ work' = [work EXCEPT ![x] = "checked"]
        /\ UNCHANGED taskVars
     \/ /\ about[x] \in late \/ stage # "up"
        /\ work' = [work EXCEPT ![x] = "leaving"]
        /\ IF stage = "up" THEN SetTask(x, "failed", asked[x]) ELSE UNCHANGED taskVars
  /\ UNCHANGED <<regVars, recVars, about, accepted, retain, released, claimVars, missVars, stage,
                 hands, faults>>

\* The checks of ConsumeApproved.
Consumable(id) == record[id] = "approved" /\ id \notin consumed /\ id \notin late

\* Mutant: the error of ConsumeApproved is not looked at.
ConsumeIgnoresError(x) ==
  LET id == about[x] IN
  /\ work[x] = "checked"
  /\ ran' = [ran EXCEPT ![id] = @ + 1]
  /\ work' = [work EXCEPT ![x] = "engine"]
  /\ \/ Consumable(id) /\ consumed' = consumed \cup {id} /\ UNCHANGED faults
     \/ Fault("record") /\ UNCHANGED consumed
  /\ UNCHANGED <<regVars, record, late, taskVars, about, accepted, retain, released, claimVars,
                 missVars, stage, hands>>

\* ConsumeApproved under the file lock, and the tool call it allows.
Consume(x) ==
  LET id == about[x] IN
  /\ work[x] = "checked"
  /\ \/ /\ Consumable(id)
        /\ consumed' = consumed \cup {id}
        /\ ran' = [ran EXCEPT ![id] = @ + 1]
        /\ work' = [work EXCEPT ![x] = "engine"]
        /\ UNCHANGED <<taskVars, faults>>
     \/ /\ \/ ~Consumable(id) /\ UNCHANGED faults
           \/ Fault("record")
        /\ work' = [work EXCEPT ![x] = "leaving"]
        /\ IF stage = "up" THEN SetTask(x, "failed", asked[x]) ELSE UNCHANGED taskVars
        /\ UNCHANGED <<consumed, ran>>
  /\ UNCHANGED <<regVars, record, late, about, accepted, retain, released, claimVars, missVars,
                 stage, hands>>

\* The task is marked pending before its handle is registered.
MarkPending(x) ==
  /\ work[x] = "paused"
  /\ \/ /\ SetTask(x, "pending", about[x])
        /\ work' = [work EXCEPT ![x] = "parked"]
        /\ UNCHANGED faults
     \/ /\ Fault("task")
        /\ work' = [work EXCEPT ![x] = "leaving"]
        /\ UNCHANGED taskVars
  /\ UNCHANGED <<regVars, recVars, about, accepted, retain, released, claimVars, missVars, stage, hands>>

\* registerPendingApproval: the record is read for its deadline, then Register.
Park(x, e) ==
  /\ work[x] = "parked"
  /\ e = CHOOSE f \in Entries : home[f] = None
  /\ Register(about[x], e, TRUE)
  /\ retain' = [retain EXCEPT ![x] = TRUE]
  /\ work' = [work EXCEPT ![x] = "leaving"]
  /\ UNCHANGED <<recVars, taskVars, about, accepted, released, claimVars, missVars, stage, hands, faults>>

\* The record cannot be read: the task that waits for nobody is failed.
ParkFails(x) ==
  /\ work[x] = "parked"
  /\ Fault("record")
  /\ FailPending(x, about[x])
  /\ work' = [work EXCEPT ![x] = "leaving"]
  /\ UNCHANGED <<regVars, recVars, about, accepted, retain, released, claimVars, missVars, stage, hands>>

\* The deferred calls: with the context done the job is closed, retained or not.
LeaveJob(x) ==
  /\ work[x] = "leaving"
  /\ work' = [work EXCEPT ![x] = "idle"]
  /\ IF stage # "up" THEN FinalizeAccepted(x, "canceled") ELSE UNCHANGED taskVars
  /\ released' = IF stage # "up" \/ ~retain[x] THEN released \cup {x} ELSE released
  /\ UNCHANGED <<regVars, recVars, about, accepted, retain, claimVars, missVars, stage, hands, faults>>

-----------------------------------------------------------------------------
\* Claims: applyApprovalDecision and the expiry callback

Goto(o, p) == at' = [at EXCEPT ![o] = p]

claimRest == <<recVars, workVars, missVars, stage, hands>>

\* applyApprovalDecision gets the handle.
Decide(id, approve, o) ==
  /\ Claim(id, o)
  /\ kind' = [kind EXCEPT ![o] = "decision"]
  /\ want' = [want EXCEPT ![o] = IF approve THEN "approved" ELSE "denied"]
  /\ Goto(o, "read")
  /\ UNCHANGED <<claimRest, taskVars, released, outcome, faults>>

\* The timer gets it.
ExpireHandle(t, o) ==
  /\ Expire(t, o)
  /\ kind' = [kind EXCEPT ![o] = "expiry"]
  /\ want' = [want EXCEPT ![o] = "expired"]
  /\ Goto(o, "resolve")
  /\ UNCHANGED <<claimRest, taskVars, released, outcome, faults>>

\* GetApproval, and what a decision does about a record that is decided or late.
ReadRecord(o) ==
  LET id == IdOf(o) IN
  /\ at[o] = "read"
  /\ \/ Fault("record") /\ Goto(o, "fail") /\ UNCHANGED <<kind, want>>
     \/ /\ record[id] # "pending"
        /\ Goto(o, IF want[o] = "denied" /\ record[id] = "denied" THEN "cancel" ELSE "fail")
        /\ UNCHANGED <<kind, want, faults>>
     \/ /\ record[id] = "pending" /\ id \in late
        /\ kind' = [kind EXCEPT ![o] = "late"]
        /\ want' = [want EXCEPT ![o] = "expired"]
        /\ Goto(o, "resolve")
        /\ UNCHANGED faults
     \/ /\ record[id] = "pending" /\ id \notin late
        /\ Goto(o, "resolve")
        /\ UNCHANGED <<kind, want, faults>>
  /\ UNCHANGED <<regVars, claimRest, taskVars, released, outcome>>

\* guard.ResolveApproval: a compare-and-set from pending under the file lock,
\* then the audit.  Either may fail.
Resolve(o) ==
  LET id == IdOf(o) IN
  /\ at[o] = "resolve"
  /\ \/ /\ record[id] = "pending"
        /\ record' = [record EXCEPT ![id] = want[o]]
        /\ \/ Goto(o, "act") /\ outcome' = [outcome EXCEPT ![o] = "committed"] /\ UNCHANGED faults
           \/ Fault("record") /\ Goto(o, "reread") /\ UNCHANGED outcome
     \/ /\ \/ record[id] # "pending" /\ UNCHANGED faults
           \/ Fault("record")
        /\ Goto(o, "reread")
        /\ UNCHANGED <<record, outcome>>
  /\ UNCHANGED <<regVars, consumed, late, ran, workVars, missVars, stage, hands, taskVars,
                 released, kind, want>>

\* ResolveApprovalCommit reads the record again to tell whether it committed.
Reread(o) ==
  LET s == record[IdOf(o)] IN
  /\ at[o] = "reread"
  /\ Goto(o, "act")
  /\ \/ /\ UNCHANGED faults
        /\ outcome' = [outcome EXCEPT ![o] =
             IF s = want[o] THEN "committedErr" ELSE IF s = "pending" THEN "pendingErr" ELSE "unknown"]
     \/ Fault("record") /\ outcome' = [outcome EXCEPT ![o] = "indeterminate"]
  /\ UNCHANGED <<regVars, claimRest, taskVars, released, kind, want>>

-----------------------------------------------------------------------------
\* ExpirePendingApproval after the commit, for a late decision or a callback

Expiring(o) == kind[o] \in {"late", "expiry"}

\* Mutant: a callback that cannot tell lets the handle go.
GiveUpForGood(o) == Goto(o, IF kind[o] = "expiry" THEN "release" ELSE "fail")

\* The caller is done with the handle, or it has to try again later.
Done(o) == Goto(o, IF kind[o] = "expiry" THEN "release" ELSE "complete")
GiveUp(o) == Goto(o, IF kind[o] = "expiry" THEN "restore" ELSE "fail")

\* The record is expired: cancel the task that waits for it.
CancelExpired(o) ==
  /\ at[o] = "act" /\ Expiring(o)
  /\ outcome[o] \in {"committed", "committedErr"}
  /\ \/ UpdatePending(JobOf(o), IdOf(o), "canceled", IdOf(o)) /\ Done(o) /\ UNCHANGED faults
     \/ Fault("task") /\ Goto(o, "again") /\ UNCHANGED taskVars
  /\ UNCHANGED <<regVars, claimRest, released, kind, want, outcome>>

\* The record is still pending, or the first update failed: fail the task.
FailExpired(o) ==
  /\ \/ at[o] = "act" /\ Expiring(o) /\ outcome[o] = "pendingErr"
     \/ at[o] = "again"
  /\ \/ FailPending(JobOf(o), IdOf(o)) /\ Done(o) /\ UNCHANGED faults
     \/ Fault("task") /\ GiveUp(o) /\ UNCHANGED taskVars
  /\ UNCHANGED <<regVars, claimRest, released, kind, want, outcome>>

\* Nothing is known of the record.
ExpiryUnsure(o) ==
  /\ at[o] = "act" /\ Expiring(o) /\ outcome[o] = "indeterminate"
  /\ GiveUp(o)
  /\ UNCHANGED <<regVars, claimRest, taskVars, released, kind, want, outcome, faults>>

\* The callback gives the handle back for a retry and keeps its lease.
RetryExpiry(o) ==
  /\ at[o] = "restore"
  /\ RestoreClaim(o, TRUE)
  /\ Goto(o, "end")
  /\ UNCHANGED <<claimRest, taskVars, released, kind, want, outcome, faults>>

RetryRefused(o) ==
  /\ at[o] = "restore"
  /\ RestoreRefused(o)
  /\ Goto(o, "orphan")
  /\ UNCHANGED <<claimRest, taskVars, released, kind, want, outcome, faults>>

\* finalizeTelegramPendingApproval after a refused restore.
FinalizeOrphan(o) ==
  /\ at[o] = "orphan"
  /\ \/ FailPending(JobOf(o), IdOf(o)) /\ UNCHANGED faults
     \/ Fault("task") /\ UNCHANGED taskVars
  /\ released' = released \cup {JobOf(o)}
  /\ Goto(o, "end")
  /\ UNCHANGED <<regVars, claimRest, kind, want, outcome>>

-----------------------------------------------------------------------------
\* applyApprovalDecision after the commit

\* What the outcome of the commit means for a decision.
Settle(o) ==
  /\ at[o] = "act" /\ kind[o] = "decision"
  /\ outcome[o] # "pendingErr"
  /\ Goto(o, IF want[o] = "denied" /\ outcome[o] \in {"committed", "committedErr"} THEN "cancel"
             ELSE IF want[o] = "approved" /\ outcome[o] = "committed" THEN "resume" ELSE "fail")
  /\ UNCHANGED <<regVars, claimRest, taskVars, released, kind, want, outcome, faults>>

\* Mutant: the handle goes back without its deadline.
GiveBackUntimed(o) ==
  /\ at[o] = "act" /\ kind[o] = "decision" /\ outcome[o] = "pendingErr"
  /\ \/ RestoreClaim(o, FALSE) /\ Goto(o, "end")
     \/ RestoreRefused(o) /\ Goto(o, "fail")
  /\ UNCHANGED <<claimRest, taskVars, released, kind, want, outcome, faults>>

\* The record is still pending: the handle goes back with its old deadline.
GiveBack(o) ==
  /\ at[o] = "act" /\ kind[o] = "decision" /\ outcome[o] = "pendingErr"
  /\ \/ RestoreClaim(o, TRUE) /\ Goto(o, "end")
     \/ RestoreRefused(o) /\ Goto(o, "fail")
  /\ UNCHANGED <<claimRest, taskVars, released, kind, want, outcome, faults>>

\* failClaimed
FailClaimed(o) ==
  /\ at[o] = "fail"
  /\ \/ FailPending(JobOf(o), IdOf(o)) /\ UNCHANGED faults
     \/ Fault("task") /\ UNCHANGED taskVars
  /\ Goto(o, "complete")
  /\ UNCHANGED <<regVars, claimRest, released, kind, want, outcome>>

\* cancelClaimed does not look at the status of the task.
CancelClaimed(o) ==
  /\ at[o] = "cancel"
  /\ \/ SetTask(JobOf(o), "canceled", IdOf(o)) /\ UNCHANGED faults
     \/ Fault("task") /\ UNCHANGED taskVars
  /\ Goto(o, "complete")
  /\ UNCHANGED <<regVars, claimRest, released, kind, want, outcome>>

\* An approved task is queued again, whatever its status.
Requeue(o) ==
  /\ at[o] = "resume"
  /\ \/ SetTask(JobOf(o), "queued", None) /\ Goto(o, "enqueue") /\ UNCHANGED faults
     \/ Fault("task") /\ Goto(o, "fail") /\ UNCHANGED taskVars
  /\ UNCHANGED <<regVars, claimRest, released, kind, want, outcome>>

\* Mutant: the task is left queued when the runner refuses its job.
EnqueueForgets(o) ==
  LET x == JobOf(o) IN
  /\ at[o] = "enqueue"
  /\ \/ /\ stage \in {"up", "stopping"}
        /\ accepted' = accepted \cup {x}
        /\ about' = [about EXCEPT ![x] = IdOf(o)]
        /\ Goto(o, "kept")
     \/ /\ stage # "up"
        /\ Goto(o, "complete")
        /\ UNCHANGED <<accepted, about>>
  /\ UNCHANGED <<regVars, recVars, taskVars, work, retain, released, missVars, stage, hands, kind,
                 want, outcome, faults>>

\* runner.Enqueue; when the runner is stopping it may refuse, then the task fails
\* (markTelegramApprovalResumeFailed).
Enqueue(o) ==
  LET x == JobOf(o) IN
  /\ at[o] = "enqueue"
  /\ \/ /\ stage \in {"up", "stopping"}
        /\ accepted' = accepted \cup {x}
        /\ about' = [about EXCEPT ![x] = IdOf(o)]
        /\ Goto(o, "kept")
        /\ UNCHANGED <<taskVars, faults>>
     \/ /\ stage # "up"
        /\ \/ SetTask(x, "failed", None) /\ UNCHANGED faults
           \/ Fault("task") /\ UNCHANGED taskVars
        /\ Goto(o, "complete")
        /\ UNCHANGED <<accepted, about>>
  /\ UNCHANGED <<regVars, recVars, work, retain, released, missVars, stage, hands, kind, want, outcome>>

\* Mutant: the lease is released although the job was queued again.
CompleteReleases(o) ==
  /\ at[o] \in {"complete", "kept"}
  /\ Goto(o, IF kind[o] # "expiry" THEN "release" ELSE "end")
  /\ IF owner[o] = "live" THEN CompleteClaim(o) ELSE UNCHANGED regVars
  /\ UNCHANGED <<claimRest, taskVars, released, kind, want, outcome, faults>>

\* The deferred CompleteClaim: last in a callback, before the release in a decision.
Complete(o) ==
  /\ at[o] \in {"complete", "kept"}
  /\ Goto(o, IF kind[o] # "expiry" /\ at[o] = "complete" THEN "release" ELSE "end")
  /\ IF owner[o] = "live" THEN CompleteClaim(o) ELSE UNCHANGED regVars
  /\ UNCHANGED <<claimRest, taskVars, released, kind, want, outcome, faults>>

\* The deferred releaseGeneration.
ReleaseLease(o) ==
  /\ at[o] = "release"
  /\ released' = released \cup {JobOf(o)}
  /\ Goto(o, IF kind[o] = "expiry" THEN "complete" ELSE "end")
  /\ UNCHANGED <<regVars, claimRest, taskVars, kind, want, outcome, faults>>

-----------------------------------------------------------------------------
\* A decision that finds no handle: the task is looked up, and updated later.
DecideMissing(id, approve) ==
  /\ closing = "open" /\ claims[id] = None /\ entries[id] = None
  /\ task[TaskOf[id]] = "pending" /\ asked[TaskOf[id]] = id
  /\ missing' = missing \cup {<<id, approve>>}
  /\ UNCHANGED <<regVars, recVars, taskVars, workVars, released, claimVars, early, stage, hands, faults>>

\* markTelegramMissingApprovalHandle
UpdateMissing(id, approve) ==
  /\ <<id, approve>> \in missing
  /\ missing' = missing \ {<<id, approve>>}
  /\ \/ /\ IF approve THEN SetTask(TaskOf[id], "failed", None) ELSE SetTask(TaskOf[id], "canceled", id)
        /\ early' = early \cup {TaskOf[id]}
        /\ UNCHANGED faults
     \/ Fault("task") /\ UNCHANGED <<taskVars, early>>
  /\ UNCHANGED <<regVars, recVars, workVars, released, claimVars, stage, hands>>

-----------------------------------------------------------------------------
\* Time, and the steps of the registry nobody else takes part in

PassDeadline(id) ==
  /\ record[id] # "none" /\ id \notin late
  /\ late' = late \cup {id}
  /\ UNCHANGED <<regVars, record, consumed, ran, taskVars, workVars, released, claimVars, missVars,
                 stage, hands, faults>>

lifeVars == <<recVars, taskVars, workVars, released, claimVars, missVars, stage, hands, faults>>

\* No timer is set for less than the deadline of its approval.
FireTimer(t) == timer[t] = "armed" /\ home[timed[t]] \in late /\ Fire(t) /\ UNCHANGED lifeVars

Unlock(o) == OwnerDone(o) /\ UNCHANGED lifeVars

LeaveCallback(o) == at[o] = "end" /\ CallbackDone(o) /\ UNCHANGED lifeVars

Stale(t) == ExpireStale(t) /\ UNCHANGED lifeVars

-----------------------------------------------------------------------------
\* close()

StopWorkers ==
  /\ stage = "up"
  /\ stage' = "stopping"
  /\ UNCHANGED <<regVars, recVars, taskVars, workVars, released, claimVars, missVars, hands, faults>>

\* runner.WaitClosed
RunnerClosed ==
  /\ stage = "stopping"
  /\ accepted = {} /\ \A x \in Tasks : work[x] = "idle"
  /\ stage' = "drained"
  /\ UNCHANGED <<regVars, recVars, taskVars, workVars, released, claimVars, missVars, hands, faults>>

\* pendingApprovals.Close()
CloseRegistry ==
  /\ stage = "drained"
  /\ CloseStart
  /\ hands' = [e \in Entries |-> IF home[e] # None /\ entries[home[e]] = e THEN "resolve" ELSE "none"]
  /\ UNCHANGED <<recVars, taskVars, workVars, released, claimVars, missVars, stage, faults>>

WaitRegistry == (CloseOwners \/ CloseReturn) /\ UNCHANGED lifeVars

\* The approval of a handle Close returned is expired; an error is only logged.
ResolveHandle(e) ==
  LET id == home[e] IN
  /\ closing = "returned" /\ hands[e] = "resolve"
  /\ hands' = [hands EXCEPT ![e] = "finalize"]
  /\ \/ /\ record' = [record EXCEPT ![id] = IF @ = "pending" THEN "expired" ELSE @]
        /\ UNCHANGED faults
     \/ Fault("record") /\ UNCHANGED record
  /\ UNCHANGED <<regVars, consumed, late, ran, taskVars, workVars, released, claimVars, missVars, stage>>

\* Mutant: the lease of a closed handle is not released.
FinalizeHandleKeeps(e) ==
  /\ closing = "returned" /\ hands[e] = "finalize"
  /\ hands' = [hands EXCEPT ![e] = "none"]
  /\ FailPending(TaskOf[home[e]], home[e])
  /\ UNCHANGED <<regVars, recVars, workVars, released, claimVars, missVars, stage, faults>>

\* finalizeTelegramPendingApproval
FinalizeHandle(e) ==
  LET x == TaskOf[home[e]] IN
  /\ closing = "returned" /\ hands[e] = "finalize"
  /\ hands' = [hands EXCEPT ![e] = "none"]
  /\ \/ FailPending(x, home[e]) /\ UNCHANGED faults
     \/ Fault("task") /\ UNCHANGED taskVars
  /\ released' = released \cup {x}
  /\ UNCHANGED <<regVars, recVars, workVars, claimVars, missVars, stage>>

\* The bus and the generations are closed.
Down ==
  /\ stage = "drained" /\ closing = "returned"
  /\ \A e \in Entries : hands[e] = "none"
  /\ stage' = "down"
  /\ UNCHANGED <<regVars, recVars, taskVars, workVars, released, claimVars, missVars, hands, faults>>

Quiet ==
  /\ stage = "down" /\ missing = {}
  /\ \A o \in Owners : at[o] \in {"none", "end"}
  /\ \A t \in Timers : timer[t] \notin {"armed", "fired"}

Finished == Quiet /\ UNCHANGED vars

-----------------------------------------------------------------------------
WorkStep(x) ==
  \/ StartJob(x) \/ FinishRun(x) \/ CheckResume(x) \/ Consume(x) \/ MarkPending(x)
  \/ ParkFails(x) \/ LeaveJob(x)
  \/ \E id \in Ids : PauseRun(x, id)
  \/ \E e \in Entries : Park(x, e)

ClaimStep(o) ==
  \/ ReadRecord(o) \/ Resolve(o) \/ Reread(o)
  \/ CancelExpired(o) \/ FailExpired(o) \/ ExpiryUnsure(o)
  \/ RetryExpiry(o) \/ RetryRefused(o) \/ FinalizeOrphan(o)
  \/ Settle(o) \/ GiveBack(o) \/ FailClaimed(o) \/ CancelClaimed(o) \/ Requeue(o) \/ Enqueue(o)
  \/ Complete(o) \/ ReleaseLease(o)

Arrive(id) ==
  \E approve \in BOOLEAN : DecideMissing(id, approve) \/ \E o \in Owners : Decide(id, approve, o)

UpdateMissed(id) == \E approve \in BOOLEAN : UpdateMissing(id, approve)

CloseStep ==
  \/ RunnerClosed \/ CloseRegistry \/ WaitRegistry \/ Down
  \/ \E e \in Entries : ResolveHandle(e) \/ FinalizeHandle(e)

Next ==
  \/ \E x \in Tasks : WorkStep(x)
  \/ \E o \in Owners : ClaimStep(o) \/ Unlock(o) \/ LeaveCallback(o)
  \/ \E id \in Ids : Arrive(id) \/ UpdateMissed(id) \/ PassDeadline(id)
  \/ \E t \in Timers : FireTimer(t) \/ Stale(t) \/ \E o \in Owners : ExpireHandle(t, o)
  \/ StopWorkers \/ CloseStep
  \/ Finished

Spec == Init /\ [][Next]_vars

\* Goroutines go on, clocks advance and timers fire; nobody has to decide or to
\* close.
FairSpec ==
  /\ Spec
  /\ \A x \in Tasks : WF_vars(WorkStep(x))
  /\ \A o \in Owners : WF_vars(ClaimStep(o)) /\ WF_vars(Unlock(o)) /\ WF_vars(LeaveCallback(o))
  /\ \A id \in Ids : WF_vars(PassDeadline(id)) /\ WF_vars(UpdateMissed(id))
  /\ \A t \in Timers : WF_vars(FireTimer(t)) /\ WF_vars(Stale(t) \/ \E o \in Owners : ExpireHandle(t, o))
  /\ WF_vars(CloseStep)

-----------------------------------------------------------------------------
\* Every variable has its type.
TypeOK ==
  /\ RegTypeOK
  /\ record \in [Ids -> {"none", "pending"} \cup Resolutions]
  /\ consumed \subseteq Ids /\ late \subseteq Ids
  /\ ran \in [Ids -> Nat]
  /\ task \in [Tasks -> TaskStates]
  /\ asked \in [Tasks -> Ids \cup {None}]
  /\ work \in [Tasks -> WorkPoints]
  /\ about \in [Tasks -> Ids \cup {None}]
  /\ accepted \subseteq Tasks /\ released \subseteq Tasks /\ early \subseteq Tasks
  /\ retain \in [Tasks -> BOOLEAN]
  /\ kind \in [Owners -> {"none", "decision", "late", "expiry"}]
  /\ want \in [Owners -> {"none"} \cup Resolutions]
  /\ at \in [Owners -> ClaimPoints]
  /\ outcome \in [Owners -> Outcomes]
  /\ missing \subseteq Ids \X BOOLEAN
  /\ stage \in Stages
  /\ hands \in [Entries -> {"none", "resolve", "finalize"}]
  /\ faults \in 0 .. MaxFaults

\* The tool call of an approval is started at most once, and only on a record
\* that was approved and is marked consumed, whatever retries, late timers and
\* lost writes happen around it.
RunOnlyApproved ==
  \A id \in Ids :
    /\ ran[id] <= 1
    /\ ran[id] = 1 => record[id] = "approved" /\ id \in consumed

\* A task that waits for an approval has somebody who will settle it: the worker
\* about to register it, the registry, a claim that has yet to update it, or
\* close().  Failures of the record store do not lose it.
PendingHasCustodian ==
  "task" \notin FaultKinds =>
    \A x \in Tasks : task[x] = "pending" =>
      LET id == asked[x] IN
      \/ work[x] = "parked" /\ about[x] = id
      \/ entries[id] # None
      \/ \E o \in Owners : owned[o] # None /\ IdOf(o) = id
                          /\ at[o] \notin {"complete", "kept", "release", "end"}
      \/ \E e \in Entries : home[e] = id /\ hands[e] # "none"

\* While the runtime is up, a lease is released only when nobody can start to use
\* the generation for the task any more: no job, no run that has not parked, no
\* handle, no claim in progress.
LeaseHeldWhileUp ==
  stage = "up" =>
    \A x \in released :
      /\ x \notin accepted /\ work[x] \in {"idle", "leaving"}
      /\ \A id \in Ids : TaskOf[id] = x => entries[id] = None
      /\ \A o \in Owners : owned[o] # None /\ JobOf(o) = x =>
           at[o] \in {"kept", "end"} \/ (kind[o] = "expiry" /\ at[o] = "complete")

\* When everything has come to rest after close(), every lease was released.
LeasesReturned == Quiet => released = Tasks

\* close() leaves no task waiting, queued or running, and no approval open, unless
\* a store has failed.  A failed write of the record alone is enough: the decision
\* that cannot give its handle back to the closed registry updates its task after
\* close() has stopped waiting for it.
SettledWhenDown ==
  stage = "down" /\ faults = 0 =>
    /\ \A x \in Tasks : task[x] \in Terminal
    /\ \A id \in Ids : record[id] # "pending"

\* A task that is done, failed or canceled does not come back, unless a decision
\* was applied to it before its handle was registered.
TerminalUnlessEarly ==
  [][\A x \in Tasks : task[x] \in Terminal /\ x \notin early => task'[x] \in Terminal]_vars

\* "done, failed and canceled are terminal task states"
\* (docs/runtime-api.control.openapi.yaml).
TerminalStays ==
  [][\A x \in Tasks : task[x] \in Terminal => task'[x] \in Terminal]_vars

\* A task does not wait for an approval for ever: it is decided or it expires.
PendingResolves == \A x \in Tasks : (task[x] = "pending") ~> (task[x] # "pending")
=============================================================================
