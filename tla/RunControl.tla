----------------------------- MODULE RunControl -----------------------------
(***************************************************************************)
(* The registry of active runs (internal/runtimecontrol), through which a  *)
(* user stops a run, steers it or answers its question, with the places in *)
(* the agent loop and in the job handlers that meet it.  Every call is one *)
(* step for each time it holds RunControl.mu.                              *)
(***************************************************************************)
EXTENDS Naturals, Sequences, FiniteSets, SequencesExt

CONSTANTS
  Convs, Tasks,
  Runs,         \* jobs of the conversation runner: each takes one lease
  ConvOf, TaskOf,
  Questions,
  RunOf,        \* the run that asks a question
  ChoicesOnly,  \* the questions a typed message does not answer
  Inputs,       \* messages and button presses, numbered as they come
  Stops,        \* calls of Stop and StopTask
  QueueLimit,
  None

ASSUME ControlAssumption ==
  /\ ConvOf \in [Runs -> Convs] /\ TaskOf \in [Runs -> Tasks]
  /\ RunOf \in [Questions -> Runs] /\ ChoicesOnly \subseteq Questions
  /\ QueueLimit \in Nat \ {0} /\ Inputs \subseteq Nat
  /\ None \notin Runs \cup Tasks \cup Questions \cup Inputs \cup Convs

VARIABLES
  active,         \* per conversation, the registered run
  pc,             \* per run, where its handler is
  stopRequested,
  cancelled,      \* the runs whose context was cancelled by a stop
  failed,         \* the runs that ended with an error
  cut,            \* the runs that ended well without a last look at the queue
  queue,          \* per run, its steer queue
  closed,         \* the runs whose steer queue is closed
  question,       \* per run, the question that is open
  asked,          \* per question, where the tool call that asks it is
  left,           \* the questions whose tool call the agent loop waits for no more
  answer,         \* per question, what was sent on its channel
  fate,           \* per input, what became of it
  to,             \* per input, the run it was accepted for
  late,           \* history: inputs accepted after the last drain of their run
  stop            \* per call: its next step, the task it names, what it found

runVars == <<active, pc, failed, cut, cancelled>>
queueVars == <<queue, closed>>
questionVars == <<question, asked, left, answer>>
inputVars == <<fate, to, late>>
vars == <<runVars, stopRequested, queueVars, questionVars, inputVars, stop>>

Init ==
  /\ active = [k \in Convs |-> None]
  /\ pc = [r \in Runs |-> "idle"]
  /\ stopRequested = {} /\ cancelled = {} /\ failed = {} /\ cut = {}
  /\ queue = [r \in Runs |-> <<>>] /\ closed = {}
  /\ question = [r \in Runs |-> None]
  /\ asked = [q \in Questions |-> "no"] /\ left = {}
  /\ answer = [q \in Questions |-> None]
  /\ fate = [i \in Inputs |-> "new"]
  /\ to = [i \in Inputs |-> None]
  /\ late = {}
  /\ stop = [s \in Stops |-> [at |-> "idle", task |-> None, found |-> None]]

-----------------------------------------------------------------------------
Goto(r, point) == pc' = [pc EXCEPT ![r] = point]
\* The questions of r whose tool call has not returned, and whether the agent
\* loop of r waits for one of them.
Calls(r) == {q \in Questions : RunOf[q] = r /\ asked[q] \in {"open", "answered", "gaveup"}}
Asking(r) == ~ Calls(r) \subseteq left
InQueue(r, i) == i \in ToSet(queue[r])

\* SteerQueue.Drain, and what the agent loop does with the items.
Drain(r) ==
  /\ fate' = [i \in Inputs |-> IF InQueue(r, i) THEN "applied" ELSE fate[i]]
  /\ queue' = [queue EXCEPT ![r] = <<>>]

\* SteerQueue.Close, and so its items are gone.
CloseQueue(r) ==
  /\ fate' = [i \in Inputs |-> IF InQueue(r, i) THEN "dropped" ELSE fate[i]]
  /\ queue' = [queue EXCEPT ![r] = <<>>]
  /\ closed' = closed \cup {r}

\* RunControl.Finish: only the entry of this task is removed.
FinishEntry(k, t) ==
  LET r == active[k] IN
  IF r # None /\ TaskOf[r] = t
  THEN active' = [active EXCEPT ![k] = None] /\ CloseQueue(r)
  ELSE UNCHANGED <<active, queueVars, fate>>

\* StartLease, in a job handler: the conversation runner has ended the one of
\* the job before.
Start(r) ==
  /\ pc[r] = "idle"
  /\ \A o \in Runs : ConvOf[o] = ConvOf[r] => pc[o] \in {"idle", "done", "refused"}
  /\ IF active[ConvOf[r]] = None
     THEN active' = [active EXCEPT ![ConvOf[r]] = r] /\ Goto(r, "running")
     ELSE Goto(r, "refused") /\ UNCHANGED active
  /\ UNCHANGED <<cancelled, failed, cut, stopRequested, queueVars, questionVars, inputVars, stop>>

\* The time of a tool call is over, or the run is cancelled: the agent loop goes
\* on without the call, which goes on by itself.
Abandon(q) ==
  /\ pc[RunOf[q]] = "running" /\ asked[q] \in {"no", "open", "answered", "gaveup"}
  /\ left' = left \cup {q}
  /\ UNCHANGED <<runVars, stopRequested, queueVars, question, asked, answer, inputVars, stop>>

\* applyQueuedSteer before a call of the model.
Checkpoint(r) ==
  /\ pc[r] = "running" /\ ~Asking(r) /\ queue[r] # <<>>
  /\ Drain(r)
  /\ UNCHANGED <<runVars, stopRequested, closed, questionVars, to, late, stop>>

\* Mutant: a final answer is taken without a look at the queue.
FinalAnyway(r) ==
  /\ pc[r] = "running" /\ ~Asking(r)
  /\ Goto(r, "final")
  /\ UNCHANGED <<active, failed, cut, cancelled, stopRequested, queueVars, questionVars,
                 inputVars, stop>>

\* A final answer is taken when the drain before it finds nothing; the queue
\* stays open while the answer is prepared.
Final(r) ==
  /\ pc[r] = "running" /\ ~Asking(r) /\ queue[r] = <<>>
  /\ Goto(r, "final")
  /\ UNCHANGED <<active, failed, cut, cancelled, stopRequested, queueVars, questionVars,
                 inputVars, stop>>

\* The answer is not accepted, files it should have written are missing: the
\* loop goes on, and will look at the queue again.
Reconsider(r) ==
  /\ pc[r] = "final"
  /\ Goto(r, "running")
  /\ late' = late \ ToSet(queue[r])
  /\ UNCHANGED <<active, failed, cut, cancelled, stopRequested, queueVars, questionVars,
                 fate, to, stop>>

\* The steps or the time of the run are used up: DrainAndClose, and one call of
\* the model to conclude.
Conclude(r) ==
  /\ pc[r] \in {"running", "final"}
  /\ Drain(r) /\ closed' = closed \cup {r}
  /\ left' = left \cup Calls(r)
  /\ Goto(r, "concluding")
  /\ UNCHANGED <<active, failed, cut, cancelled, stopRequested, question, asked, answer,
                 to, late, stop>>

\* Engine.Run is left from one of the points; its deferred function closes the
\* queue, and no tool call is waited for any more.
Leave(r, points, next) ==
  /\ pc[r] \in points
  /\ CloseQueue(r)
  /\ left' = left \cup Calls(r)
  /\ Goto(r, next)
  /\ UNCHANGED <<active, cancelled, stopRequested, question, asked, answer, to, late, stop>>

\* With the answer of the model, which was accepted.
Return(r) == Leave(r, {"final", "concluding"}, "returned") /\ UNCHANGED <<failed, cut>>

\* With no answer of the model, and no drain: a tool that ends the run, the
\* request for an approval, the compaction of the context.
Cut(r) ==
  /\ ~Asking(r)
  /\ Leave(r, {"running"}, "returned")
  /\ cut' = cut \cup {r} /\ UNCHANGED failed

\* Mutant: the loop waits for its tool calls in any case.
FailWaits(r) ==
  /\ ~Asking(r)
  /\ Leave(r, {"running", "final", "concluding"}, "returned")
  /\ failed' = failed \cup {r} /\ UNCHANGED cut

\* With an error.
Fail(r) ==
  /\ Leave(r, {"running", "final", "concluding"}, "returned")
  /\ failed' = failed \cup {r} /\ UNCHANGED cut

\* lease.Finish, and the rest of the handler.
Finish(r) ==
  /\ pc[r] = "returned"
  /\ FinishEntry(ConvOf[r], TaskOf[r])
  /\ Goto(r, "reporting")
  /\ UNCHANGED <<failed, cut, cancelled, stopRequested, questionVars, to, late, stop>>

Done(r) ==
  /\ pc[r] = "reporting"
  /\ Goto(r, "done")
  /\ UNCHANGED <<active, failed, cut, cancelled, stopRequested, queueVars, questionVars,
                 inputVars, stop>>

\* The handler panics, in the run or around it: the lease is not finished.
Panic(r) ==
  /\ Leave(r, {"running", "final", "concluding", "returned", "reporting"}, "panicked")
  /\ failed' = failed \cup {r} /\ UNCHANGED cut

\* Mutant: the callback only fails the task.
OnPanicTaskOnly(r) ==
  /\ pc[r] = "panicked"
  /\ Goto(r, "done")
  /\ UNCHANGED <<active, queueVars, fate, failed, cut, cancelled, stopRequested, questionVars, to,
                 late, stop>>

\* The runner recovers and calls OnPanic, which finishes the run by its task.
OnPanic(r) ==
  /\ pc[r] = "panicked"
  /\ FinishEntry(ConvOf[r], TaskOf[r])
  /\ Goto(r, "done")
  /\ UNCHANGED <<failed, cut, cancelled, stopRequested, questionVars, to, late, stop>>

-----------------------------------------------------------------------------
\* RunLease.OpenQuestion, by a tool call that may be abandoned already: any run
\* of the same task will do.
OpenQuestion(q) ==
  LET r == RunOf[q] e == active[ConvOf[r]] IN
  /\ asked[q] = "no" /\ (pc[r] = "running" \/ q \in left)
  /\ IF e # None /\ TaskOf[e] = TaskOf[r] /\ e \notin stopRequested /\ question[e] = None
     THEN question' = [question EXCEPT ![e] = q] /\ asked' = [asked EXCEPT ![q] = "open"]
     ELSE asked' = [asked EXCEPT ![q] = "refused"] /\ UNCHANGED question
  /\ UNCHANGED <<runVars, stopRequested, queueVars, left, answer, inputVars, stop>>

WaitAnswer(q) ==
  /\ asked[q] = "open" /\ answer[q] # None
  /\ asked' = [asked EXCEPT ![q] = "answered"]
  /\ UNCHANGED <<runVars, stopRequested, queueVars, question, left, answer, inputVars, stop>>

\* The question cannot be shown, or the context of the wait ends.
WaitEnds(q) ==
  /\ asked[q] = "open"
  /\ asked' = [asked EXCEPT ![q] = "gaveup"]
  /\ UNCHANGED <<runVars, stopRequested, queueVars, question, left, answer, inputVars, stop>>

\* OpenQuestion.Close, and the tool call returns: its answer reaches the model
\* if the loop waits for it.
CloseQuestion(q) ==
  /\ asked[q] \in {"answered", "gaveup"}
  /\ question' = [r \in Runs |-> IF question[r] = q THEN None ELSE question[r]]
  /\ asked' = [asked EXCEPT ![q] = IF @ = "answered" THEN "closed" ELSE "lapsed"]
  /\ fate' = [i \in Inputs |->
       IF answer[q] # i THEN fate[i]
       ELSE IF asked[q] = "answered" /\ q \notin left THEN "heard" ELSE "unheard"]
  /\ UNCHANGED <<runVars, stopRequested, queueVars, left, answer, to, late, stop>>

-----------------------------------------------------------------------------
Comes(i) == fate[i] = "new" /\ \A j \in Inputs : j < i => fate[j] # "new"

Put(i, verdict, r) ==
  /\ fate' = [fate EXCEPT ![i] = verdict]
  /\ to' = [to EXCEPT ![i] = r]

\* Mutant: an answered question stays open.
AnswerLockedOpen(r, i) ==
  /\ answer' = [answer EXCEPT ![question[r]] = i]
  /\ Put(i, "sent", r)
  /\ UNCHANGED <<question, queue, late>>

AnswerLocked(r, i) ==
  /\ answer' = [answer EXCEPT ![question[r]] = i]
  /\ question' = [question EXCEPT ![r] = None]
  /\ Put(i, "sent", r)
  /\ UNCHANGED <<queue, late>>

\* SteerQueue.Push.
Push(r, i) ==
  /\ IF r \in closed \/ Len(queue[r]) >= QueueLimit
     THEN Put(i, "refused", r) /\ UNCHANGED <<queue, late>>
     ELSE /\ Put(i, "queued", r)
          /\ queue' = [queue EXCEPT ![r] = Append(@, i)]
          /\ late' = IF pc[r] = "running" THEN late ELSE late \cup {i}
  /\ UNCHANGED <<question, answer>>

\* Without an active run the caller makes a task of the message.
Steer(i, k) ==
  LET r == active[k] IN
  /\ Comes(i)
  /\ IF r = None THEN Put(i, "task", None) /\ UNCHANGED <<question, answer, queue, late>>
     ELSE IF question[r] # None /\ question[r] \notin ChoicesOnly /\ r \notin stopRequested
          THEN AnswerLocked(r, i)
          ELSE Push(r, i)
  /\ UNCHANGED <<runVars, stopRequested, closed, asked, left, stop>>

\* Choose and AnswerText: by the id of a question that may be stale by now.
Press(i, q, typed) ==
  LET e == active[ConvOf[RunOf[q]]] IN
  /\ Comes(i) /\ asked[q] # "no"
  /\ IF e # None /\ question[e] = q /\ ~(typed /\ q \in ChoicesOnly)
     THEN AnswerLocked(e, i)
     ELSE Put(i, "refused", None) /\ UNCHANGED <<question, answer, queue, late>>
  /\ UNCHANGED <<runVars, stopRequested, closed, asked, left, stop>>

-----------------------------------------------------------------------------
Told(s, r, at) == stop' = [stop EXCEPT ![s].found = r, ![s].at = at]

\* stopByKey, to the unlock.
StopEntry(s, r) ==
  /\ IF r \in stopRequested
     THEN Told(s, r, "told") /\ UNCHANGED <<stopRequested, queueVars, fate>>
     ELSE /\ stopRequested' = stopRequested \cup {r}
          /\ CloseQueue(r)
          /\ Told(s, r, "cancel")

Stop(s, k) ==
  /\ stop[s].at = "idle"
  /\ IF active[k] = None
     THEN Told(s, None, "told") /\ UNCHANGED <<stopRequested, queueVars, fate>>
     ELSE StopEntry(s, active[k])
  /\ UNCHANGED <<runVars, questionVars, to, late>>

\* The first half of StopTask: the key of the task.
StopTask(s, t) ==
  /\ stop[s].at = "idle"
  /\ \/ /\ \E k \in Convs : active[k] # None /\ TaskOf[active[k]] = t
        /\ stop' = [stop EXCEPT ![s].task = t, ![s].at = "found",
             ![s].found = CHOOSE k \in Convs : active[k] # None /\ TaskOf[active[k]] = t]
     \/ /\ \A k \in Convs : active[k] # None => TaskOf[active[k]] # t
        /\ Told(s, None, "told")
  /\ UNCHANGED <<runVars, stopRequested, queueVars, questionVars, inputVars>>

\* Mutant: the second half stops whatever has the key.
StopFoundAny(s) ==
  /\ stop[s].at = "found"
  /\ IF active[stop[s].found] = None
     THEN Told(s, None, "told") /\ UNCHANGED <<stopRequested, queueVars, fate>>
     ELSE StopEntry(s, active[stop[s].found])
  /\ UNCHANGED <<runVars, questionVars, to, late>>

\* Its second half: stopByKey with the task that is expected there.
StopFound(s) ==
  LET r == active[stop[s].found] IN
  /\ stop[s].at = "found"
  /\ IF r = None \/ TaskOf[r] # stop[s].task
     THEN Told(s, None, "told") /\ UNCHANGED <<stopRequested, queueVars, fate>>
     ELSE StopEntry(s, r)
  /\ UNCHANGED <<runVars, questionVars, to, late>>

\* stopByKey calls Cancel after the unlock.
Cancel(s) ==
  /\ stop[s].at = "cancel"
  /\ cancelled' = cancelled \cup {stop[s].found}
  /\ stop' = [stop EXCEPT ![s].at = "told"]
  /\ UNCHANGED <<active, pc, failed, cut, stopRequested, queueVars, questionVars, inputVars>>

-----------------------------------------------------------------------------
Quiet == \A r \in Runs : pc[r] \in {"done", "refused"}

Next ==
  \/ \E r \in Runs : \/ Start(r) \/ Checkpoint(r) \/ Final(r) \/ Reconsider(r) \/ Conclude(r)
                     \/ Return(r) \/ Cut(r) \/ Fail(r) \/ Finish(r) \/ Done(r)
                     \/ Panic(r) \/ OnPanic(r)
  \/ \E q \in Questions : \/ Abandon(q) \/ OpenQuestion(q)
                          \/ WaitAnswer(q) \/ WaitEnds(q) \/ CloseQuestion(q)
  \/ \E i \in Inputs : \/ \E k \in Convs : Steer(i, k)
                       \/ \E q \in Questions, typed \in BOOLEAN : Press(i, q, typed)
  \/ \E s \in Stops : \/ \E k \in Convs : Stop(s, k)
                      \/ \E t \in Tasks : StopTask(s, t)
                      \/ StopFound(s) \/ Cancel(s)
  \/ Quiet /\ UNCHANGED vars

Spec == Init /\ [][Next]_vars

\* A handler goes on when it is not waiting for the model, a tool or a user, and
\* a run ends when its context does, whatever its tool calls do.
FairSpec ==
  /\ Spec
  /\ \A r \in Runs : WF_vars(Finish(r) \/ Done(r) \/ OnPanic(r) \/ Return(r)
                             \/ (r \in cancelled /\ Fail(r)))
  /\ \A s \in Stops : WF_vars(StopFound(s) \/ Cancel(s))

-----------------------------------------------------------------------------
\* Every variable has its type.
TypeOK ==
  /\ active \in [Convs -> Runs \cup {None}]
  /\ pc \in [Runs -> {"idle", "running", "final", "concluding", "returned", "reporting",
                      "panicked", "done", "refused"}]
  /\ stopRequested \cup cancelled \cup failed \cup cut \cup closed \subseteq Runs
  /\ queue \in [Runs -> Seq(Inputs)]
  /\ question \in [Runs -> Questions \cup {None}]
  /\ asked \in [Questions -> {"no", "open", "refused", "answered", "gaveup", "closed", "lapsed"}]
  /\ left \subseteq Questions
  /\ answer \in [Questions -> Inputs \cup {None}]
  /\ fate \in [Inputs -> {"new", "task", "queued", "sent", "applied", "heard", "unheard",
                          "dropped", "refused"}]
  /\ to \in [Inputs -> Runs \cup {None}]
  /\ late \subseteq Inputs
  /\ stop \in [Stops -> [at : {"idle", "found", "cancel", "told"}, task : Tasks \cup {None},
                         found : Runs \cup Convs \cup {None}]]

\* A conversation shows the run of its handler and no other: no job is refused
\* because an earlier one, which may have panicked, is still registered.
Registered ==
  /\ \A r \in Runs : pc[r] # "refused"
  /\ \A r \in Runs : pc[r] \in {"running", "final", "concluding", "returned"} =>
       active[ConvOf[r]] = r
  /\ \A k \in Convs : active[k] # None =>
       pc[active[k]] \in {"running", "final", "concluding", "returned", "panicked"}

\* A question gets one answer, so a sender never blocks with RunControl.mu held,
\* and a message that was taken for an answer is not given to another question.
OneAnswer ==
  [][\A q \in Questions : answer[q] # None => answer'[q] = answer[q]]_vars

\* Who waits for an answer waits for the question that its run shows: another
\* question of the run, whose call ends late, does not close this one.
WaitedForIsShown ==
  \A q \in Questions : asked[q] = "open" /\ answer[q] = None =>
    \E r \in Runs : question[r] = q /\ TaskOf[r] = TaskOf[RunOf[q]]

\* Who stops a task stops no other, although StopTask looks twice.
StopsItsTask ==
  \A s \in Stops : stop[s].task # None /\ stop[s].at \in {"cancel", "told"} /\ stop[s].found # None
    => TaskOf[stop[s].found] = stop[s].task

\* A message accepted for a run is lost only where the code loses it: with a run
\* that was stopped or failed, or that ended on a way without a drain (cut), or
\* after the drain that found the queue empty (late); an answer, when the wait
\* for it gave up or the loop had left the tool call.  Nothing stays in the queue
\* of a run that is over, or on the channel of a question whose call is.
LostForAReason ==
  \A i \in Inputs :
    /\ fate[i] = "dropped" => to[i] \in stopRequested \cup failed \cup cut \/ i \in late
    /\ fate[i] = "queued" => pc[to[i]] # "done"
    /\ fate[i] = "sent" => \E q \in Questions : answer[q] = i /\ asked[q] \notin {"closed", "lapsed"}
    /\ fate[i] = "unheard" => \E q \in Questions : answer[q] = i /\ (asked[q] = "lapsed" \/ q \in left)

\* A run that was told to stop ends, even if a tool call of it never returns.
StopEnds == \A r \in Runs : r \in stopRequested ~> pc[r] = "done"
=============================================================================
