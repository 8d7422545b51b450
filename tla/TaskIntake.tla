----------------------------- MODULE TaskIntake -----------------------------
(***************************************************************************)
(* How a message of a platform becomes a task that survives a crash: the   *)
(* connection that redelivers what was not acknowledged                    *)
(* (internal/mixinapi/blaze.go), the inbound flow with its inbox           *)
(* (internal/bus/adapters/inbound_flow.go), the bus, the handler and the   *)
(* worker of the channel (internal/channelruntime/mixin/runtime.go), and   *)
(* the task store over its journal (internal/daemonruntime/file_store.go). *)
(*                                                                         *)
(* The messages are those of one conversation, so one handler of the       *)
(* connection, one shard of the bus and one worker of the runner have them.*)
(***************************************************************************)
EXTENDS Naturals, Sequences, FiniteSets

CONSTANTS
  Msgs,        \* sent to the agent; each asks for a task, whose id it decides
  MaxTroubles, \* bound: crashes, losses of the connection and failed writes
  None

ASSUME IntakeAssumption ==
  /\ MaxTroubles \in Nat
  /\ None \notin Msgs

VARIABLES
  acked,      \* the messages the platform will not send again
  inbox,      \* the BusInboxRecords on disk
  journal,    \* the task events on disk
  snapshot,   \* the projection on disk
  stage,      \* of the process
  items,      \* FileTaskStore.items: per message, the status of its task
  cursor,     \* projectionCursor
  client,     \* where the handler of the connection is, and with which message
  lost,       \* connectionCtx is done
  bus,        \* the queue of the shard; its head is with the subscriber
  looked,     \* the subscriber has found no run of the conversation for the head
  recorded,   \* it has recorded the task of the head
  result,     \* the channel PublishValidatedAndWait waits on
  jobs,       \* the queue of the runner
  job,        \* where the worker is, and with which task
  beside,     \* per message, what became of it without a task of its own
  troubles

diskVars == <<inbox, journal, snapshot>>
storeVars == <<journal, items, cursor, troubles>>
clientVars == <<client, lost>>
busVars == <<bus, looked, recorded, result>>
runVars == <<jobs, job, beside>>
vars == <<acked, diskVars, stage, items, cursor, clientVars, busVars, runVars,
          troubles>>

Idle == [at |-> "idle", msg |-> None]
NoItems == [m \in Msgs |-> "none"]
Unfinished == {"queued", "running"}
Ended == {"done", "canceled"}
Statuses == {"none"} \cup Unfinished \cup Ended
Events == [msg : Msgs, status : Unfinished \cup Ended]
\* Given to a run, or answered at once.
Besides == {"none", "steered", "answered"}

Init ==
  /\ acked = {} /\ inbox = {} /\ journal = <<>>
  /\ snapshot = [cursor |-> 0, items |-> NoItems]
  /\ stage = "down"
  /\ items = NoItems /\ cursor = 0
  /\ client = Idle /\ lost = FALSE
  /\ bus = <<>> /\ looked = FALSE /\ recorded = FALSE /\ result = "none"
  /\ jobs = <<>> /\ job = Idle
  /\ beside = [m \in Msgs |-> "none"]
  /\ troubles = 0

-----------------------------------------------------------------------------
Trouble == troubles < MaxTroubles /\ troubles' = troubles + 1

Apply(view, event) == [view EXCEPT ![event.msg] = event.status]

\* The status of every task after the events of js, from what is in view.
Replay(view, js) ==
  LET after[n \in 0 .. Len(js)] == IF n = 0 THEN view ELSE Apply(after[n - 1], js[n])
  IN after[Len(js)]

\* Mutant: the view keeps an update that could not be written.
RecordViewFirst(m, status) ==
  /\ items' = [items EXCEPT ![m] = status]
  /\ \/ /\ journal' = Append(journal, [msg |-> m, status |-> status])
        /\ cursor' = Len(journal) + 1 /\ UNCHANGED troubles
     \/ Trouble /\ UNCHANGED <<journal, cursor>>

\* RecordTaskUpsert and RecordTaskUpdate: the event first, then the view.
Record(m, status) ==
  \/ /\ journal' = Append(journal, [msg |-> m, status |-> status])
     /\ cursor' = Len(journal) + 1
     /\ items' = [items EXCEPT ![m] = status] /\ UNCHANGED troubles
  \/ Trouble /\ UNCHANGED <<journal, cursor, items>>

Written == troubles' = troubles

-----------------------------------------------------------------------------
\* load: the snapshot and the events after it, or with a snapshot that cannot be
\* used all events.
Load ==
  /\ stage = "down"
  /\ \/ items' = Replay(snapshot.items, SubSeq(journal, snapshot.cursor + 1, Len(journal)))
     \/ items' = Replay(NoItems, journal)
  /\ cursor' = Len(journal)
  /\ stage' = "recovering"
  /\ UNCHANGED <<acked, diskVars, clientVars, busVars, runVars, troubles>>

\* Mutant: recovery cancels every task it finds.
RecoverAll(m) ==
  /\ stage = "recovering" /\ items[m] \in Unfinished \cup {"done"}
  /\ Record(m, "canceled") /\ Written
  /\ UNCHANGED <<acked, inbox, snapshot, stage, clientVars, busVars, runVars>>

\* recoverNonTerminalTasksLocked, one event at a time; a failure ends the start.
Recover(m) ==
  /\ stage = "recovering" /\ items[m] \in Unfinished
  /\ Record(m, "canceled") /\ Written
  /\ UNCHANGED <<acked, inbox, snapshot, stage, clientVars, busVars, runVars>>

\* persistSnapshotLocked, by rename; a failure is only remembered.
Save ==
  /\ stage = "recovering" /\ \A m \in Msgs : items[m] \notin Unfinished
  /\ \/ snapshot' = [cursor |-> cursor, items |-> items]
     \/ UNCHANGED snapshot
  /\ stage' = "up"
  /\ UNCHANGED <<acked, inbox, storeVars, clientVars, busVars, runVars>>

\* The process is killed, or cannot start.
Crash ==
  /\ Trouble
  /\ stage' = "down"
  /\ items' = NoItems /\ cursor' = 0
  /\ client' = Idle /\ lost' = FALSE
  /\ bus' = <<>> /\ looked' = FALSE /\ recorded' = FALSE /\ result' = "none"
  /\ jobs' = <<>> /\ job' = Idle
  /\ UNCHANGED <<acked, diskVars, beside>>

-----------------------------------------------------------------------------
\* The connection: what is not acknowledged is sent again on each new one.
LoseConnection ==
  /\ stage = "up" /\ ~lost
  /\ Trouble
  /\ lost' = TRUE
  /\ UNCHANGED <<acked, diskVars, stage, items, cursor, client, busVars, runVars>>

\* Run: the handlers of the old connection have returned.
Reconnect ==
  /\ lost /\ client = Idle
  /\ lost' = FALSE
  /\ UNCHANGED <<acked, diskVars, stage, items, cursor, client, busVars, runVars, troubles>>

At(point) == stage = "up" /\ client.at = point
Goto(point) == client' = [client EXCEPT !.at = point]
\* The handler returns an error: fail closes the connection.
Fail == client' = Idle /\ lost' = TRUE

Receive(m) ==
  /\ At("idle") /\ ~lost /\ m \notin acked
  /\ client' = [at |-> "lookup", msg |-> m]
  /\ UNCHANGED <<acked, diskVars, stage, items, cursor, lost, busVars, runVars, troubles>>

\* Mutant: a message that was seen before is an error.
LookUpSeenFails ==
  /\ At("lookup")
  /\ \/ lost /\ Fail
     \/ ~lost /\ client.msg \in inbox /\ Fail
     \/ ~lost /\ client.msg \notin inbox /\ Goto("publish") /\ UNCHANGED lost
  /\ UNCHANGED <<acked, diskVars, stage, items, cursor, busVars, runVars, troubles>>

\* GetBusInboxRecord
LookUp ==
  /\ At("lookup")
  /\ \/ lost /\ Fail
     \/ /\ ~lost /\ Goto(IF client.msg \in inbox THEN "ack" ELSE "publish")
        /\ UNCHANGED lost
  /\ UNCHANGED <<acked, diskVars, stage, items, cursor, busVars, runVars, troubles>>

\* Mutant: the message is published and not waited for.
PublishOnly ==
  /\ At("publish") /\ ~lost
  /\ bus' = Append(bus, client.msg) /\ result' = "none"
  /\ Goto("put")
  /\ UNCHANGED <<acked, diskVars, stage, items, cursor, lost, looked, recorded, runVars, troubles>>

\* PublishValidatedAndWait; with its context done it may be refused.
Publish ==
  /\ At("publish")
  /\ \/ /\ bus' = Append(bus, client.msg) /\ result' = "none"
        /\ Goto("wait")
        /\ UNCHANGED lost
     \/ lost /\ Fail /\ UNCHANGED <<bus, result>>
  /\ UNCHANGED <<acked, diskVars, stage, items, cursor, looked, recorded, runVars, troubles>>

\* The select: the result, or the end of the context, after which the message
\* is still in the bus.
Await ==
  /\ At("wait")
  /\ \/ result = "ok" /\ Goto("put") /\ UNCHANGED lost
     \/ (result = "error" \/ lost) /\ Fail
  /\ result' = "none"
  /\ UNCHANGED <<acked, diskVars, stage, items, cursor, bus, looked, recorded, runVars, troubles>>

\* PutBusInboxRecord
Put ==
  /\ At("put")
  /\ \/ ~lost /\ inbox' = inbox \cup {client.msg} /\ Goto("ack") /\ UNCHANGED <<lost, troubles>>
     \/ lost /\ Fail /\ UNCHANGED <<inbox, troubles>>
     \/ Trouble /\ Fail /\ UNCHANGED inbox
  /\ UNCHANGED <<acked, journal, snapshot, stage, items, cursor, busVars, runVars>>

\* acknowledge, on a connection that may be closed
Acknowledge ==
  /\ At("ack")
  /\ \/ ~lost /\ acked' = acked \cup {client.msg} /\ client' = Idle /\ UNCHANGED lost
     \/ lost /\ Fail /\ UNCHANGED acked
  /\ UNCHANGED <<diskVars, stage, items, cursor, busVars, runVars, troubles>>

-----------------------------------------------------------------------------
\* The subscriber has returned for the head of the queue; the client waits for
\* the message it published last.
Answer(answer) ==
  /\ bus' = Tail(bus)
  /\ result' = IF client.at = "wait" /\ Len(bus) = 1 THEN answer ELSE result

Take(how) == beside' = [beside EXCEPT ![Head(bus)] = how]

\* enqueueInbound with a run of the conversation: the message goes to the queue of
\* the run or is refused with a notice, and has no task; the reply may fail.
Steer ==
  /\ stage = "up" /\ bus # <<>> /\ ~looked /\ job.at = "run"
  /\ \E how \in {"steered", "answered"} : Take(how)
  /\ \/ Answer("ok") /\ UNCHANGED troubles
     \/ Trouble /\ Answer("error")
  /\ UNCHANGED <<acked, diskVars, stage, items, cursor, clientVars, looked, recorded, jobs, job>>

\* Without one. A run that begins after this is not seen.
FindNoRun ==
  /\ stage = "up" /\ bus # <<>> /\ ~looked /\ job.at # "run"
  /\ looked' = TRUE
  /\ UNCHANGED <<acked, diskVars, stage, items, cursor, clientVars, bus, recorded, result,
                 runVars, troubles>>

\* PrecheckHandled: an emoji is the answer.
AnswerAtOnce ==
  /\ stage = "up" /\ looked /\ ~recorded
  /\ Take("answered")
  /\ looked' = FALSE /\ Answer("ok")
  /\ UNCHANGED <<acked, diskVars, stage, items, cursor, clientVars, recorded, jobs, job, troubles>>

\* RecordTaskUpsert
RecordQueued ==
  /\ stage = "up" /\ looked /\ ~recorded
  /\ Record(Head(bus), "queued")
  /\ IF Written THEN recorded' = TRUE /\ UNCHANGED <<bus, looked, result>>
     ELSE Answer("error") /\ looked' = FALSE /\ UNCHANGED recorded
  /\ UNCHANGED <<acked, inbox, snapshot, stage, clientVars, runVars>>

\* runner.Enqueue
Enqueue ==
  /\ stage = "up" /\ recorded
  /\ jobs' = Append(jobs, Head(bus)) /\ looked' = FALSE /\ recorded' = FALSE
  /\ Answer("ok")
  /\ UNCHANGED <<acked, diskVars, stage, items, cursor, clientVars, job, beside, troubles>>

\* The worker: MarkTaskRunning, or the job ends there.
StartJob ==
  /\ stage = "up" /\ job = Idle /\ jobs # <<>>
  /\ jobs' = Tail(jobs)
  /\ Record(Head(jobs), "running")
  /\ job' = IF Written THEN [at |-> "marked", msg |-> Head(jobs)] ELSE Idle
  /\ UNCHANGED <<acked, inbox, snapshot, stage, clientVars, busVars, beside>>

\* StartLease: from here to Finish the conversation has a run.
StartRun ==
  /\ stage = "up" /\ job.at = "marked"
  /\ job' = [job EXCEPT !.at = "run"]
  /\ UNCHANGED <<acked, diskVars, stage, items, cursor, clientVars, busVars, jobs, beside,
                 troubles>>

\* Finish
EndRun ==
  /\ stage = "up" /\ job.at = "run"
  /\ job' = [job EXCEPT !.at = "over"]
  /\ UNCHANGED <<acked, diskVars, stage, items, cursor, clientVars, busVars, jobs, beside,
                 troubles>>

\* MarkTaskDone or MarkTaskFailed, also for a run that could not start
EndJob ==
  /\ stage = "up" /\ job.at \in {"marked", "over"}
  /\ Record(job.msg, "done")
  /\ job' = Idle
  /\ UNCHANGED <<acked, inbox, snapshot, stage, clientVars, busVars, jobs, beside>>

-----------------------------------------------------------------------------
\* Every message is acknowledged and every job has ended.
Quiet == stage = "up" /\ acked = Msgs /\ client = Idle /\ bus = <<>> /\ jobs = <<>> /\ job = Idle
Finished == Quiet /\ UNCHANGED vars

StoreStep == Load \/ Save \/ \E m \in Msgs : Recover(m)
ClientStep == LookUp \/ Publish \/ Await \/ Put \/ Acknowledge \/ Reconnect
BusStep == Steer \/ FindNoRun \/ AnswerAtOnce \/ RecordQueued \/ Enqueue
WorkerStep == StartJob \/ StartRun \/ EndRun \/ EndJob

Next ==
  \/ StoreStep \/ ClientStep \/ BusStep \/ WorkerStep
  \/ \E m \in Msgs : Receive(m)
  \/ LoseConnection \/ Crash
  \/ Finished

Spec == Init /\ [][Next]_vars

\* The process is started again and takes messages, and the platform sends what was
\* not acknowledged. No run of a task has to end.
FairSpec ==
  /\ Spec
  /\ WF_vars(StoreStep) /\ WF_vars(ClientStep) /\ WF_vars(BusStep)
  /\ \A m \in Msgs : SF_vars(Receive(m))

-----------------------------------------------------------------------------
Status(m) == Replay(NoItems, journal)[m]

\* Every variable has its type.
TypeOK ==
  /\ acked \subseteq Msgs /\ inbox \subseteq Msgs
  /\ journal \in Seq(Events)
  /\ snapshot.cursor \in 0 .. Len(journal)
  /\ stage \in {"down", "recovering", "up"}
  /\ items \in [Msgs -> Statuses]
  /\ cursor \in 0 .. Len(journal)
  /\ client \in {Idle} \cup [at : {"lookup", "publish", "wait", "put", "ack"}, msg : Msgs]
  /\ lost \in BOOLEAN
  /\ bus \in Seq(Msgs) /\ {looked, recorded} \subseteq BOOLEAN
  /\ result \in {"none", "ok", "error"}
  /\ jobs \in Seq(Msgs) /\ job \in {Idle} \cup [at : {"marked", "run", "over"}, msg : Msgs]
  /\ beside \in [Msgs -> Besides]
  /\ troubles \in 0 .. MaxTroubles

\* The view of a runtime that is up is what the journal says, whatever crash,
\* failed write or unusable snapshot came before: a restart shows nothing else.
ViewIsJournal == stage = "up" => items = Replay(NoItems, journal)

\* A message the platform will not send again has a task in the journal, or was given
\* to a run of its conversation, or was answered at once: no crash, lost connection or
\* failed write lets one be acknowledged that the agent did not take.
AckedIsTaken == \A m \in acked : Status(m) # "none" \/ beside[m] # "none"

Times(m, status) ==
  Cardinality({i \in 1 .. Len(journal) : journal[i] = [msg |-> m, status |-> status]})

\* A task that was queued once only moves forward, and what has ended stays as
\* it is, through restarts and recoveries as well.
Rank(s) == CASE s = "none" -> 0 [] s = "queued" -> 1 [] s = "running" -> 2 [] s \in Ended -> 3
OnlyForward ==
  [][\A m \in Msgs : Times(m, "queued")' <= 1 /\ Status(m)' # Status(m)
        => Rank(Status(m)) < Rank(Status(m)')]_vars

\* Troubles end, and then every message is acknowledged.
EveryMessageAcked == \A m \in Msgs : <>(m \in acked)

\* What the design of the channel promises as long as the process does not exit:
\* a message that is sent again does not start a second run of its task.
RunsOnce == \A m \in Msgs : Times(m, "running") <= 1
=============================================================================
