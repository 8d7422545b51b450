--------------------------- MODULE RunControlProofs ---------------------------
(***************************************************************************)
(* Theorems about RunControl for any conversations, runs, questions and    *)
(* inputs, whether or not two runs have the same task.  IInv says which    *)
(* run a conversation may show, where an input that was accepted can be    *)
(* found, and what is known of a question that is open.                    *)
(***************************************************************************)
EXTENDS RunControl, TLAPS

\* The handler of a run has not returned.
Live(r) == pc[r] \in {"running", "final", "concluding", "returned", "reporting", "panicked"}

\* A conversation has one run at a time, and shows it until it finishes.
Shown ==
  /\ \A r \in Runs : pc[r] # "refused"
  /\ \A r \in Runs : pc[r] \in {"running", "final", "concluding", "returned"} => active[ConvOf[r]] = r
  /\ \A k \in Convs : active[k] # None =>
       /\ ConvOf[active[k]] = k
       /\ pc[active[k]] \in {"running", "final", "concluding", "returned", "panicked"}
  /\ \A r, o \in Runs : Live(r) /\ Live(o) /\ ConvOf[r] = ConvOf[o] => r = o

\* What was queued for a run is in its queue, and a queue that is closed is empty.
Queued ==
  /\ \A r \in Runs, i \in Inputs : InQueue(r, i) => fate[i] = "queued" /\ to[i] = r
  /\ \A i \in Inputs : fate[i] = "queued" => to[i] \in Runs /\ InQueue(to[i], i)
  /\ \A r \in closed : queue[r] = <<>>
  /\ \A r \in Runs : pc[r] \in {"returned", "reporting", "panicked", "done"} => r \in closed

\* An input was left over for a reason.
Excused ==
  /\ \A r \in Runs, i \in Inputs : InQueue(r, i) /\ pc[r] # "running" => i \in late
  /\ \A i \in Inputs : fate[i] = "dropped" => to[i] \in stopRequested \cup failed \cup cut \/ i \in late

\* A question that can be answered has no answer and is shown by one run, and one
\* that waits can be answered.
Asked ==
  /\ \A r \in Runs : question[r] # None =>
       answer[question[r]] = None /\ asked[question[r]] \in {"open", "gaveup"}
  /\ \A r, o \in Runs : question[r] # None /\ question[r] = question[o] => r = o
  /\ \A q \in Questions : asked[q] = "no" => answer[q] = None
  /\ WaitedForIsShown

\* An input answers one question, whose tool call settles it.
Answered ==
  /\ \A q \in Questions : answer[q] # None =>
       /\ fate[answer[q]] \notin {"new", "queued"}
       /\ asked[q] \in {"open", "answered", "gaveup"} => fate[answer[q]] = "sent"
  /\ \A q, p \in Questions : answer[q] # None /\ answer[q] = answer[p] => q = p
  /\ \A i \in Inputs : fate[i] = "sent" =>
       \E q \in Questions : answer[q] = i /\ asked[q] \in {"open", "answered", "gaveup"}
  /\ \A i \in Inputs : fate[i] = "unheard" =>
       \E q \in Questions : answer[q] = i /\ (asked[q] = "lapsed" \/ q \in left)

\* What a call of Stop or StopTask has found.
Stopping ==
  /\ \A s \in Stops : stop[s].at = "idle" => stop[s].task = None
  /\ \A s \in Stops : stop[s].at = "found" => stop[s].found \in Convs
  /\ \A s \in Stops : stop[s].at = "cancel" => stop[s].found \in Runs
  /\ StopsItsTask

IInv == TypeOK /\ Shown /\ Queued /\ Excused /\ Asked /\ Answered /\ Stopping

-----------------------------------------------------------------------------
\* An input was given to a run, to nobody, or to the question of a run.
Taken(i) ==
  /\ fate[i] = "new"
  /\ \/ /\ \E r \in Runs \cup {None}, v \in {"task", "refused"} : Put(i, v, r)
        /\ UNCHANGED <<question, answer, queue, late>>
     \/ \E r \in Runs : question[r] \in Questions /\ AnswerLocked(r, i)
     \/ \E r \in Runs \ closed :
          /\ Put(i, "queued", r) /\ queue' = [queue EXCEPT ![r] = Append(@, i)]
          /\ late' = IF pc[r] = "running" THEN late ELSE late \cup {i}
          /\ UNCHANGED <<question, answer>>
  /\ UNCHANGED <<runVars, stopRequested, closed, asked, left, stop>>

\* A call of Stop has found a run, or none, and may have closed its queue.
Halted(s) ==
  /\ \E r \in Runs \cup {None}, at \in {"cancel", "told"} :
       /\ Told(s, r, at)
       /\ at = "cancel" => r \in Runs
       /\ r # None /\ stop[s].task # None => TaskOf[r] = stop[s].task
       /\ \/ UNCHANGED <<stopRequested, queueVars, fate>>
          \/ r \in Runs /\ stopRequested' = stopRequested \cup {r} /\ CloseQueue(r)
  /\ UNCHANGED <<runVars, questionVars, to, late>>

\* Engine.Run was left, with an answer or without, or the handler panicked.
Ended(r) ==
  /\ \/ pc[r] \in {"running", "final", "concluding"} /\ Goto(r, "returned")
     \/ Live(r) /\ Goto(r, "panicked")
  /\ CloseQueue(r)
  /\ left' = left \cup Calls(r)
  /\ failed' \in {failed, failed \cup {r}} /\ cut' \in {cut, cut \cup {r}}
  /\ r \in failed' \cup cut' \/ pc[r] # "running"
  /\ UNCHANGED <<active, cancelled, stopRequested, question, asked, answer, to, late, stop>>

\* The handler of a run has left its conversation.
Departed(r, point) ==
  /\ active' = [active EXCEPT ![ConvOf[r]] = None]
  /\ Goto(r, point)
  /\ UNCHANGED <<failed, cut, cancelled, stopRequested, queueVars, questionVars, inputVars, stop>>

\* What a step can do to a state that satisfies IInv.
Moves ==
  \/ \E r \in Runs : \/ Start(r) \/ Checkpoint(r) \/ Final(r) \/ Conclude(r)
                     \/ Reconsider(r) \/ Ended(r) \/ Done(r)
                     \/ pc[r] = "returned" /\ Departed(r, "reporting")
                     \/ pc[r] = "panicked" /\ Departed(r, "done")
  \/ \E q \in Questions : \/ Abandon(q) \/ OpenQuestion(q)
                          \/ WaitAnswer(q) \/ WaitEnds(q) \/ CloseQuestion(q)
  \/ \E i \in Inputs : Taken(i)
  \/ \E s \in Stops : Halted(s) \/ Cancel(s) \/ \E t \in Tasks : StopTask(s, t)
  \/ UNCHANGED vars

-----------------------------------------------------------------------------
\* Nothing is in an empty queue.
LEMMA EmptyHasNone == \A j : j \notin ToSet(<<>>)
BY DEF ToSet

\* What is in the queues after one is emptied, and after an input is put into one.
LEMMA EmptyFacts ==
  ASSUME TypeOK, NEW r \in Runs, queue' = [queue EXCEPT ![r] = <<>>]
  PROVE  /\ queue' \in [Runs -> Seq(Inputs)]
         /\ queue'[r] = <<>> /\ \A o \in Runs : o # r => queue'[o] = queue[o]
         /\ \A o \in Runs, j \in Inputs : InQueue(o, j)' <=> InQueue(o, j) /\ o # r
<1>1. <<>> \in Seq(Inputs) /\ queue \in [Runs -> Seq(Inputs)]
  BY DEF TypeOK
<1>2. queue' \in [Runs -> Seq(Inputs)]
  BY <1>1
<1>3. queue'[r] = <<>> /\ \A o \in Runs : o # r => queue'[o] = queue[o]
  BY <1>1
<1> QED
  BY <1>2, <1>3, EmptyHasNone DEF InQueue

\* What is in the queues after an input is put into one.
LEMMA AppendFacts ==
  ASSUME TypeOK, NEW r \in Runs, NEW i \in Inputs, queue' = [queue EXCEPT ![r] = Append(@, i)]
  PROVE  /\ queue' \in [Runs -> Seq(Inputs)]
         /\ \A o \in Runs, j \in Inputs : InQueue(o, j)' <=> InQueue(o, j) \/ (o = r /\ j = i)
<1> DEFINE s == queue[r]
<1>1. s \in Seq(Inputs) /\ queue \in [Runs -> Seq(Inputs)]
  BY DEF TypeOK
<1>2. Append(s, i) \in Seq(Inputs) /\ queue' = [queue EXCEPT ![r] = Append(s, i)]
  BY <1>1
<1>3. queue' \in [Runs -> Seq(Inputs)]
  BY <1>1, <1>2
<1>4. queue'[r] = Append(s, i) /\ \A o \in Runs : o # r => queue'[o] = queue[o]
  BY <1>1, <1>2
<1>5. ASSUME NEW j \in Inputs
      PROVE  j \in ToSet(Append(s, i)) <=> j \in ToSet(s) \/ j = i
  <2>1. /\ Len(Append(s, i)) = Len(s) + 1 /\ Len(s) \in Nat /\ Append(s, i)[Len(s) + 1] = i
        /\ \A n \in 1 .. Len(s) : Append(s, i)[n] = s[n]
        /\ DOMAIN s = 1 .. Len(s) /\ DOMAIN Append(s, i) = 1 .. Len(s) + 1
    BY <1>1
  <2>2. \A n \in 1 .. Len(s) + 1 : n \in 1 .. Len(s) \/ n = Len(s) + 1
    BY <2>1
  <2>3. Len(s) + 1 \in 1 .. Len(s) + 1 /\ 1 .. Len(s) \subseteq 1 .. Len(s) + 1
    BY <2>1
  <2> HIDE DEF s
  <2> QED
    BY <2>1, <2>2, <2>3 DEF ToSet
<1> QED
  BY <1>3, <1>4, <1>5 DEF InQueue

\* What closing a queue does.
LEMMA CloseFacts ==
  ASSUME TypeOK, NEW r \in Runs, CloseQueue(r)
  PROVE  /\ queue' \in [Runs -> Seq(Inputs)] /\ closed' = closed \cup {r}
         /\ queue'[r] = <<>> /\ \A o \in Runs : o # r => queue'[o] = queue[o]
         /\ \A o \in Runs, j \in Inputs : InQueue(o, j)' <=> InQueue(o, j) /\ o # r
         /\ fate' \in [Inputs -> {"new", "task", "queued", "sent", "applied", "heard", "unheard",
                                  "dropped", "refused"}]
         /\ \A j \in Inputs : fate'[j] = IF InQueue(r, j) THEN "dropped" ELSE fate[j]
BY EmptyFacts DEF CloseQueue, TypeOK

\* What draining a queue does.
LEMMA DrainFacts ==
  ASSUME TypeOK, NEW r \in Runs, Drain(r)
  PROVE  /\ queue' \in [Runs -> Seq(Inputs)]
         /\ queue'[r] = <<>> /\ \A o \in Runs : o # r => queue'[o] = queue[o]
         /\ \A o \in Runs, j \in Inputs : InQueue(o, j)' <=> InQueue(o, j) /\ o # r
         /\ fate' \in [Inputs -> {"new", "task", "queued", "sent", "applied", "heard", "unheard",
                                  "dropped", "refused"}]
         /\ \A j \in Inputs : fate'[j] = IF InQueue(r, j) THEN "applied" ELSE fate[j]
BY EmptyFacts DEF Drain, TypeOK

\* The pc of a run that moves.
LEMMA GotoFacts ==
  ASSUME TypeOK, NEW r \in Runs, NEW point, Goto(r, point)
  PROVE  pc'[r] = point /\ \A o \in Runs : o # r => pc'[o] = pc[o]
BY DEF TypeOK, Goto

\* The fate of one input.
LEMMA PutFacts ==
  ASSUME TypeOK, NEW i \in Inputs, NEW v, NEW r, Put(i, v, r)
  PROVE  /\ fate'[i] = v /\ \A j \in Inputs : j # i => fate'[j] = fate[j]
         /\ to'[i] = r /\ \A j \in Inputs : j # i => to'[j] = to[j]
BY DEF TypeOK, Put

\* A question is answered and closed in one step.
LEMMA AnswerFacts ==
  ASSUME TypeOK, NEW i \in Inputs, NEW r \in Runs, question[r] \in Questions, AnswerLocked(r, i)
  PROVE  /\ answer'[question[r]] = i
         /\ \A p \in Questions : p # question[r] => answer'[p] = answer[p]
         /\ question'[r] = None /\ \A o \in Runs : o # r => question'[o] = question[o]
         /\ Put(i, "sent", r) /\ UNCHANGED <<queue, late>>
BY DEF TypeOK, AnswerLocked

\* The handler of a run removes no other from its conversation, and its queue is closed.
LEMMA FinishFacts ==
  ASSUME IInv, NEW r \in Runs, pc[r] \in {"returned", "panicked"}, FinishEntry(ConvOf[r], TaskOf[r])
  PROVE  active' = [active EXCEPT ![ConvOf[r]] = None] /\ UNCHANGED <<queueVars, fate>>
<1> DEFINE k == ConvOf[r]
           e == active[k]
<1>1. k \in Convs /\ e \in Runs \cup {None} /\ r \in closed /\ queue[r] = <<>>
  BY ControlAssumption DEF IInv, TypeOK, Queued
<1>2. e # None => e = r
  BY <1>1, ControlAssumption DEF IInv, Shown, Live
<1>3. CASE e = None
  BY <1>1, <1>3 DEF IInv, TypeOK, FinishEntry
<1>4. CASE e # None
  <2>1. active' = [active EXCEPT ![k] = None] /\ CloseQueue(r)
    BY <1>2, <1>4 DEF FinishEntry
  <2>2. \A j \in Inputs : ~InQueue(r, j)
    BY <1>1, EmptyHasNone DEF InQueue
  <2>3. fate' = fate
    BY <2>1, <2>2 DEF IInv, TypeOK, CloseQueue
  <2>4. queue' = queue
    BY <1>1, <2>1 DEF IInv, TypeOK, CloseQueue
  <2>5. closed' = closed
    BY <1>1, <2>1 DEF CloseQueue
  <2> QED
    BY <2>1, <2>3, <2>4, <2>5 DEF queueVars
<1> QED
  BY <1>3, <1>4

\* What a call of Stop writes of itself.
LEMMA ToldFacts ==
  ASSUME IInv, NEW s \in Stops, NEW r \in Runs \cup {None}, NEW at \in {"cancel", "told"},
         Told(s, r, at)
  PROVE  /\ stop'[s].found = r /\ stop'[s].at = at /\ stop'[s].task = stop[s].task
         /\ stop' \in [Stops -> [at : {"idle", "found", "cancel", "told"}, task : Tasks \cup {None},
                                 found : Runs \cup Convs \cup {None}]]
         /\ \A z \in Stops : z # s => stop'[z] = stop[z]
<1> DEFINE S == [at : {"idle", "found", "cancel", "told"}, task : Tasks \cup {None},
                 found : Runs \cup Convs \cup {None}]
           e == [[stop[s] EXCEPT !.found = r] EXCEPT !.at = at]
<1>1. stop \in [Stops -> S]
  BY DEF IInv, TypeOK
<1>2. stop[s] \in S
  BY <1>1
<1>3. e \in S /\ e.found = r /\ e.at = at /\ e.task = stop[s].task
  BY <1>2
<1>4. stop' = [stop EXCEPT ![s] = e]
  BY <1>1 DEF Told
<1> HIDE DEF e
<1>5. stop' \in [Stops -> S] /\ stop'[s] = e /\ \A z \in Stops : z # s => stop'[z] = stop[z]
  BY <1>1, <1>3, <1>4
<1> QED
  BY <1>3, <1>5

\* A call that found a run has its conversation.
LEMMA FoundFacts ==
  ASSUME IInv, NEW s \in Stops, NEW t \in Tasks, NEW k \in Convs,
         stop' = [stop EXCEPT ![s].task = t, ![s].at = "found", ![s].found = k]
  PROVE  /\ stop'[s].found = k /\ stop'[s].at = "found" /\ stop'[s].task = t
         /\ stop' \in [Stops -> [at : {"idle", "found", "cancel", "told"}, task : Tasks \cup {None},
                                 found : Runs \cup Convs \cup {None}]]
         /\ \A z \in Stops : z # s => stop'[z] = stop[z]
<1> DEFINE S == [at : {"idle", "found", "cancel", "told"}, task : Tasks \cup {None},
                 found : Runs \cup Convs \cup {None}]
           e == [[[stop[s] EXCEPT !.task = t] EXCEPT !.at = "found"] EXCEPT !.found = k]
<1>1. stop \in [Stops -> S]
  BY DEF IInv, TypeOK
<1>2. stop[s] \in S
  BY <1>1
<1>3. e \in S /\ e.found = k /\ e.at = "found" /\ e.task = t
  BY <1>2
<1>4. stop' = [stop EXCEPT ![s] = e]
  BY <1>1
<1> HIDE DEF e, S
<1>5. stop' \in [Stops -> S]
  BY <1>1, <1>3, <1>4
<1>6. stop'[s] = e /\ \A z \in Stops : z # s => stop'[z] = stop[z]
  BY <1>1, <1>4
<1> QED
  BY <1>3, <1>5, <1>6 DEF S

\* A call that has cancelled a run keeps what it found.
LEMMA TellFacts ==
  ASSUME IInv, NEW s \in Stops, stop' = [stop EXCEPT ![s].at = "told"]
  PROVE  /\ stop'[s].found = stop[s].found /\ stop'[s].at = "told" /\ stop'[s].task = stop[s].task
         /\ stop' \in [Stops -> [at : {"idle", "found", "cancel", "told"}, task : Tasks \cup {None},
                                 found : Runs \cup Convs \cup {None}]]
         /\ \A z \in Stops : z # s => stop'[z] = stop[z]
BY ZenonT(40) DEF IInv, TypeOK

\* Every step is one of the moves.
LEMMA StepMoves == IInv /\ [Next]_vars => Moves
<1> SUFFICES ASSUME IInv, [Next]_vars PROVE Moves
  OBVIOUS
<1>1. ASSUME NEW r \in Runs, Finish(r) PROVE Moves
  <2>1. Departed(r, "reporting")
    BY <1>1, FinishFacts DEF Finish, Departed, inputVars
  <2> QED
    BY <1>1, <2>1 DEF Finish, Moves
<1>2. ASSUME NEW r \in Runs, OnPanic(r) PROVE Moves
  <2>1. Departed(r, "done")
    BY <1>2, FinishFacts DEF OnPanic, Departed, inputVars
  <2> QED
    BY <1>2, <2>1 DEF OnPanic, Moves
<1>3. ASSUME NEW i \in Inputs, NEW k \in Convs, Steer(i, k) PROVE Moves
  <2> DEFINE r == active[k]
  <2>1. r \in Runs \cup {None} /\ (r # None => question[r] \in Questions \cup {None})
    BY DEF IInv, TypeOK
  <2>2. CASE r = None
    BY <1>3, <2>2 DEF Steer, Comes, Taken, Moves
  <2>3. CASE r # None /\ AnswerLocked(r, i) /\ question[r] # None
    BY <1>3, <2>1, <2>3 DEF Steer, Comes, Taken, Moves
  <2>4. CASE r # None /\ Push(r, i)
    <3>1. CASE r \in closed \/ Len(queue[r]) >= QueueLimit
      BY <1>3, <2>1, <2>4, <3>1 DEF Steer, Comes, Push, Taken, Moves
    <3>2. CASE ~(r \in closed \/ Len(queue[r]) >= QueueLimit)
      BY <1>3, <2>1, <2>4, <3>2 DEF Steer, Comes, Push, Taken, Moves
    <3> QED
      BY <3>1, <3>2
  <2> QED
    BY <1>3, <2>2, <2>3, <2>4 DEF Steer, Comes
<1>4. ASSUME NEW i \in Inputs, NEW q \in Questions, NEW typed \in BOOLEAN, Press(i, q, typed)
      PROVE  Moves
  <2> DEFINE e == active[ConvOf[RunOf[q]]]
  <2>1. e \in Runs \cup {None}
    BY ControlAssumption DEF IInv, TypeOK
  <2>2. CASE e # None /\ question[e] = q /\ AnswerLocked(e, i)
    BY <1>4, <2>1, <2>2 DEF Press, Comes, Taken, Moves
  <2>3. CASE Put(i, "refused", None) /\ UNCHANGED <<question, answer, queue, late>>
    BY <1>4, <2>3 DEF Press, Comes, Taken, Moves
  <2> QED
    BY <1>4, <2>2, <2>3 DEF Press, Comes
<1>5. ASSUME NEW s \in Stops, NEW r \in Runs, StopEntry(s, r),
             r # None /\ stop[s].task # None => TaskOf[r] = stop[s].task,
             UNCHANGED <<runVars, questionVars, to, late>>
      PROVE  Halted(s)
  <2>1. CASE r \in stopRequested
    BY <1>5, <2>1 DEF StopEntry, Halted
  <2>2. CASE r \notin stopRequested
    BY <1>5, <2>2 DEF StopEntry, Halted
  <2> QED
    BY <2>1, <2>2
<1>6. ASSUME NEW s \in Stops, Told(s, None, "told"), UNCHANGED <<stopRequested, queueVars, fate>>,
             UNCHANGED <<runVars, questionVars, to, late>>
      PROVE  Halted(s)
  BY <1>6, ControlAssumption DEF Halted
<1>7. ASSUME NEW s \in Stops, NEW k \in Convs, Stop(s, k) PROVE Halted(s)
  <2>1. active[k] \in Runs \cup {None} /\ stop[s].task = None
    BY <1>7 DEF IInv, TypeOK, Stopping, Stop
  <2> QED
    BY <1>5, <1>6, <1>7, <2>1 DEF Stop
<1>8. ASSUME NEW s \in Stops, StopFound(s) PROVE Halted(s)
  <2>1. active[stop[s].found] \in Runs \cup {None}
    BY <1>8 DEF IInv, TypeOK, Stopping, StopFound
  <2> QED
    BY <1>5, <1>6, <1>8, <2>1 DEF StopFound
<1>9. ASSUME NEW r \in Runs, Return(r) \/ Cut(r) \/ Fail(r) \/ Panic(r) PROVE Ended(r)
  BY <1>9 DEF Return, Cut, Fail, Panic, Leave, Ended, Live
<1> QED
  BY <1>1, <1>2, <1>3, <1>4, <1>7, <1>8, <1>9 DEF Next, Moves

\* Every step keeps the types.
LEMMA TypeStep == IInv /\ Moves => TypeOK'
<1> SUFFICES ASSUME IInv, Moves PROVE TypeOK'
  OBVIOUS
<1> USE DEF vars, runVars, queueVars, questionVars, inputVars
<1>0. TypeOK
  BY DEF IInv
<1>1. ASSUME NEW r \in Runs, Start(r) PROVE TypeOK'
  <2>1. UNCHANGED <<question, asked, left, answer, to, late, stop>>
    BY <1>0, <1>1 DEF Start
  <2>2. pc' \in [Runs -> {"idle", "running", "final", "concluding", "returned", "reporting",
                          "panicked", "done", "refused"}]
    BY <1>0, <1>1 DEF Start, Goto, TypeOK
  <2>3. ConvOf[r] \in Convs
    BY ControlAssumption
  <2>4. active' = active \/ active' = [active EXCEPT ![ConvOf[r]] = r]
    BY <1>1 DEF Start
  <2>5. active' \in [Convs -> Runs \cup {None}]
    BY <1>0, <2>3, <2>4 DEF TypeOK
  <2> QED
    BY <1>0, <1>1, <2>1, <2>2, <2>5 DEF Start, TypeOK
<1>2. ASSUME NEW r \in Runs, Checkpoint(r) PROVE TypeOK'
  <2>1. Drain(r)
    BY <1>0, <1>2 DEF Checkpoint
  <2> QED
    BY <1>0, <1>2, <2>1, DrainFacts DEF Checkpoint, TypeOK
<1>3. ASSUME NEW r \in Runs, Final(r) PROVE TypeOK'
  <2>1. UNCHANGED <<question, asked, left, answer, to, late, stop>>
    BY <1>0, <1>3 DEF Final
  <2>2. pc' \in [Runs -> {"idle", "running", "final", "concluding", "returned", "reporting",
                          "panicked", "done", "refused"}]
    BY <1>0, <1>3 DEF Final, Goto, TypeOK
  <2> QED
    BY <1>0, <1>3, <2>1, <2>2 DEF Final, TypeOK
<1>4. ASSUME NEW r \in Runs, Conclude(r) PROVE TypeOK'
  <2>1. UNCHANGED <<active, failed, cut, cancelled, stopRequested, question, asked, answer, to, late, stop>>
    BY <1>0, <1>4 DEF Conclude
  <2>2. pc' \in [Runs -> {"idle", "running", "final", "concluding", "returned", "reporting",
                          "panicked", "done", "refused"}]
    BY <1>0, <1>4 DEF Conclude, Goto, TypeOK
  <2>3. Drain(r)
    BY <1>0, <1>4 DEF Conclude
  <2>4. left' \subseteq Questions /\ closed' \subseteq Runs
    BY <1>0, <1>4 DEF Conclude, Calls, TypeOK
  <2> QED
    BY <1>0, <2>1, <2>2, <2>3, <2>4, DrainFacts DEF TypeOK
<1>5. ASSUME NEW r \in Runs, Reconsider(r) PROVE TypeOK'
  <2>1. UNCHANGED <<question, asked, left, answer, fate, to, stop>>
    BY <1>0, <1>5 DEF Reconsider
  <2>2. pc' \in [Runs -> {"idle", "running", "final", "concluding", "returned", "reporting",
                          "panicked", "done", "refused"}]
    BY <1>0, <1>5 DEF Reconsider, Goto, TypeOK
  <2>3. late' \subseteq Inputs
    BY <1>0, <1>5 DEF Reconsider, TypeOK
  <2> QED
    BY <1>0, <1>5, <2>1, <2>2, <2>3 DEF Reconsider, TypeOK
<1>6. ASSUME NEW r \in Runs, Ended(r) PROVE TypeOK'
  <2>1. UNCHANGED <<active, cancelled, stopRequested, question, asked, answer, to, late, stop>>
    BY <1>0, <1>6 DEF Ended
  <2>2. pc' \in [Runs -> {"idle", "running", "final", "concluding", "returned", "reporting",
                          "panicked", "done", "refused"}]
    BY <1>0, <1>6 DEF Ended, Goto, TypeOK
  <2>3. CloseQueue(r)
    BY <1>0, <1>6 DEF Ended
  <2>4. /\ queue' \in [Runs -> Seq(Inputs)] /\ closed' = closed \cup {r}
        /\ fate' \in [Inputs -> {"new", "task", "queued", "sent", "applied", "heard", "unheard",
                              "dropped", "refused"}]
    BY <1>0, <2>3, CloseFacts
  <2>5. failed' \cup cut' \subseteq Runs /\ left' \subseteq Questions
    BY <1>0, <1>6 DEF Ended, Calls, TypeOK
  <2> QED
    BY <1>0, <2>1, <2>2, <2>4, <2>5 DEF TypeOK
<1>7. ASSUME NEW r \in Runs, Done(r) PROVE TypeOK'
  <2>1. UNCHANGED <<question, asked, left, answer, to, late, stop>>
    BY <1>0, <1>7 DEF Done
  <2>2. pc' \in [Runs -> {"idle", "running", "final", "concluding", "returned", "reporting",
                          "panicked", "done", "refused"}]
    BY <1>0, <1>7 DEF Done, Goto, TypeOK
  <2> QED
    BY <1>0, <1>7, <2>1, <2>2 DEF Done, TypeOK
<1>8. ASSUME NEW r \in Runs, pc[r] = "returned", Departed(r, "reporting") PROVE TypeOK'
  <2>1. UNCHANGED <<question, asked, left, answer, to, late, stop>>
    BY <1>0, <1>8 DEF Departed
  <2>2. pc' \in [Runs -> {"idle", "running", "final", "concluding", "returned", "reporting",
                          "panicked", "done", "refused"}]
    BY <1>0, <1>8 DEF Departed, Goto, TypeOK
  <2>3. active' \in [Convs -> Runs \cup {None}]
    BY <1>0, <1>8, ControlAssumption DEF Departed, TypeOK
  <2> QED
    BY <1>0, <1>8, <2>1, <2>2, <2>3 DEF Departed, TypeOK
<1>9. ASSUME NEW r \in Runs, pc[r] = "panicked", Departed(r, "done") PROVE TypeOK'
  <2>1. UNCHANGED <<question, asked, left, answer, to, late, stop>>
    BY <1>0, <1>9 DEF Departed
  <2>2. pc' \in [Runs -> {"idle", "running", "final", "concluding", "returned", "reporting",
                          "panicked", "done", "refused"}]
    BY <1>0, <1>9 DEF Departed, Goto, TypeOK
  <2>3. active' \in [Convs -> Runs \cup {None}]
    BY <1>0, <1>9, ControlAssumption DEF Departed, TypeOK
  <2> QED
    BY <1>0, <1>9, <2>1, <2>2, <2>3 DEF Departed, TypeOK
<1>10. ASSUME NEW q \in Questions, Abandon(q) PROVE TypeOK'
  BY <1>0, <1>10 DEF Abandon, TypeOK
<1>11. ASSUME NEW q \in Questions, OpenQuestion(q) PROVE TypeOK'
  <2>1. question' = question \/ \E e \in Runs : question' = [question EXCEPT ![e] = q]
    BY <1>0, <1>11, ControlAssumption DEF OpenQuestion, TypeOK
  <2>2. asked' = [asked EXCEPT ![q] = "open"] \/ asked' = [asked EXCEPT ![q] = "refused"]
    BY <1>0, <1>11 DEF OpenQuestion
  <2>3. question' \in [Runs -> Questions \cup {None}]
    BY <1>0, <2>1 DEF TypeOK
  <2>4. asked' \in [Questions -> {"no", "open", "refused", "answered", "gaveup", "closed",
                              "lapsed"}]
    BY <1>0, <2>2 DEF TypeOK
  <2> QED
    BY <1>0, <1>11, <2>3, <2>4 DEF OpenQuestion, TypeOK
<1>12. ASSUME NEW q \in Questions, WaitAnswer(q) PROVE TypeOK'
  BY <1>0, <1>12 DEF IInv, TypeOK, WaitAnswer
<1>13. ASSUME NEW q \in Questions, WaitEnds(q) PROVE TypeOK'
  BY <1>0, <1>13 DEF IInv, TypeOK, WaitEnds
<1>14. ASSUME NEW q \in Questions, CloseQuestion(q) PROVE TypeOK'
  <2>1. question' \in [Runs -> Questions \cup {None}]
    BY <1>0, <1>14, ControlAssumption DEF CloseQuestion, TypeOK
  <2>2. asked' \in [Questions -> {"no", "open", "refused", "answered", "gaveup", "closed",
                              "lapsed"}]
    BY <1>0, <1>14 DEF CloseQuestion, TypeOK
  <2>3. fate' \in [Inputs -> {"new", "task", "queued", "sent", "applied", "heard", "unheard",
                         "dropped", "refused"}]
    BY <1>0, <1>14 DEF CloseQuestion, TypeOK
  <2> QED
    BY <1>0, <1>14, <2>1, <2>2, <2>3 DEF CloseQuestion, TypeOK
<1>15. ASSUME NEW i \in Inputs, Taken(i) PROVE TypeOK'
  <2>1. ASSUME NEW v \in {"task", "refused", "queued", "sent"}, NEW r \in Runs \cup {None}, Put(i, v, r)
        PROVE  /\ fate' \in [Inputs -> {"new", "task", "queued", "sent", "applied", "heard", "unheard",
                                      "dropped", "refused"}]
               /\ to' \in [Inputs -> Runs \cup {None}]
    BY <1>0, <2>1 DEF Put, TypeOK
  <2>2. UNCHANGED <<active, pc, stopRequested, cancelled, failed, cut, closed, asked, left, stop>>
    BY <1>0, <1>15 DEF Taken
  <2>3. CASE (\E r \in Runs \cup {None}, v \in {"task", "refused"} : Put(i, v, r)) /\ UNCHANGED <<question, answer, queue, late>>
    BY <1>0, <2>1, <2>2, <2>3 DEF TypeOK
  <2>4. ASSUME NEW r \in Runs, question[r] \in Questions, AnswerLocked(r, i)
        PROVE  TypeOK'
    <3>1. Put(i, "sent", r) /\ UNCHANGED <<queue, late>>
      BY <1>0, <2>4 DEF AnswerLocked
    <3>2. answer' \in [Questions -> Inputs \cup {None}]
      BY <1>0, <2>4 DEF AnswerLocked, TypeOK
    <3>3. question' \in [Runs -> Questions \cup {None}]
      BY <1>0, <2>4 DEF AnswerLocked, TypeOK
    <3> QED
      BY <1>0, <2>1, <2>2, <3>1, <3>2, <3>3 DEF TypeOK
  <2>5. ASSUME NEW r \in Runs \ closed, Put(i, "queued", r), queue' = [queue EXCEPT ![r] = Append(@, i)],
               late' = IF pc[r] = "running" THEN late ELSE late \cup {i}, UNCHANGED <<question, answer>>
        PROVE  TypeOK'
    <3>1. queue' \in [Runs -> Seq(Inputs)]
      BY <1>0, <2>5, AppendFacts
    <3> QED
      BY <1>0, <2>1, <2>2, <2>5, <3>1 DEF TypeOK
  <2> QED
    BY <1>0, <1>15, <2>3, <2>4, <2>5 DEF Taken
<1>16. ASSUME NEW s \in Stops, Halted(s) PROVE TypeOK'
  <2>1. PICK r \in Runs \cup {None}, at \in {"cancel", "told"} :
          /\ Told(s, r, at)
          /\ \/ UNCHANGED <<stopRequested, queueVars, fate>>
             \/ r \in Runs /\ stopRequested' = stopRequested \cup {r} /\ CloseQueue(r)
    BY <1>0, <1>16 DEF Halted
  <2>2. stop' \in [Stops -> [at : {"idle", "found", "cancel", "told"}, task : Tasks \cup {None},
                            found : Runs \cup Convs \cup {None}]]
    BY <1>0, <2>1, ToldFacts DEF IInv
  <2>3. UNCHANGED <<runVars, questionVars, to, late>>
    BY <1>0, <1>16 DEF Halted
  <2>4. CASE UNCHANGED <<stopRequested, queueVars, fate>>
    BY <1>0, <2>2, <2>3, <2>4 DEF TypeOK
  <2>5. CASE r \in Runs /\ stopRequested' = stopRequested \cup {r} /\ CloseQueue(r)
    BY <1>0, <2>2, <2>3, <2>5, CloseFacts DEF TypeOK
  <2> QED
    BY <1>0, <2>1, <2>4, <2>5
<1>17. ASSUME NEW s \in Stops, Cancel(s) PROVE TypeOK'
  <2>1. stop[s].found \in Runs
    BY <1>0, <1>17 DEF IInv, Stopping, Cancel
  <2>2. stop' \in [Stops -> [at : {"idle", "found", "cancel", "told"}, task : Tasks \cup {None},
                            found : Runs \cup Convs \cup {None}]]
    BY <1>0, <1>17, TellFacts DEF Cancel
  <2> QED
    BY <1>0, <1>17, <2>1, <2>2 DEF Cancel, TypeOK
<1>18. ASSUME NEW s \in Stops, NEW t \in Tasks, StopTask(s, t) PROVE TypeOK'
  <2>1. CASE Told(s, None, "told")
    BY <1>0, <1>18, <2>1, ToldFacts DEF StopTask, TypeOK
  <2>2. ASSUME NEW k \in Convs, stop' = [stop EXCEPT ![s].task = t, ![s].at = "found", ![s].found = k]
        PROVE  TypeOK'
    BY <1>0, <1>18, <2>2, FoundFacts DEF StopTask, TypeOK
  <2> QED
    BY <1>0, <1>18, <2>1, <2>2 DEF StopTask
<1>19. CASE UNCHANGED vars
  BY <1>0, <1>19 DEF IInv, TypeOK, vars
<1> QED
  BY <1>0, <1>1, <1>2, <1>3, <1>4, <1>5, <1>6, <1>7, <1>8, <1>9, <1>10, <1>11, <1>12,
     <1>13, <1>14, <1>15, <1>16, <1>17, <1>18, <1>19 DEF Moves

\* The handler of a run goes on, and its conversation shows what it did before.
LEMMA OnwardFacts ==
  ASSUME TypeOK, Shown, NEW r \in Runs, NEW point \in {"running", "final", "concluding", "returned", "panicked", "done"},
         UNCHANGED active, Live(r), Goto(r, point),
         \/ (pc[r] \in {"running", "final", "concluding", "returned"} /\ point # "done")
         \/ point = "panicked"
         \/ pc[r] = "reporting" /\ point = "done"
  PROVE  Shown'
<1>1. pc'[r] = point /\ \A o \in Runs : o # r => pc'[o] = pc[o]
  BY GotoFacts
<1>2. \A k \in Convs : active[k] \in Runs \cup {None}
  BY DEF TypeOK
<1>3. \A o \in Runs : Live(o)' => Live(o)
  BY <1>1 DEF Live
<1>4. \A o \in Runs : pc'[o] # "refused"
  BY <1>1 DEF Shown
<1>5. \A o \in Runs : pc'[o] \in {"running", "final", "concluding", "returned"} => active'[ConvOf[o]] = o
  BY <1>1 DEF Shown
<1>6. \A k \in Convs : active'[k] # None =>
         ConvOf[active'[k]] = k /\ pc'[active'[k]] \in {"running", "final", "concluding", "returned", "panicked"}
  BY <1>1, <1>2 DEF Shown
<1>7. \A o, p \in Runs : Live(o)' /\ Live(p)' /\ ConvOf[o] = ConvOf[p] => o = p
  BY <1>3 DEF Shown
<1> QED
  BY <1>4, <1>5, <1>6, <1>7 DEF Shown

\* Every step keeps what conversations show.
LEMMA ShownStep == IInv /\ Moves => Shown'
<1> SUFFICES ASSUME IInv, Moves PROVE Shown'
  OBVIOUS
<1> USE DEF vars, runVars, queueVars, questionVars, inputVars
<1>0. TypeOK /\ Shown
  BY DEF IInv
<1>1. ASSUME NEW r \in Runs, Start(r) PROVE Shown'
  <2> DEFINE k == ConvOf[r]
  <2>1. k \in Convs /\ active[k] \in Runs \cup {None}
    BY <1>0, ControlAssumption DEF TypeOK
  <2>2. active[k] = None
    BY <1>1, <1>0, <2>1 DEF Start, Shown
  <2>3. active' = [active EXCEPT ![k] = r] /\ Goto(r, "running")
    BY <1>1, <2>2 DEF Start
  <2>4. active'[k] = r /\ \A j \in Convs : j # k => active'[j] = active[j]
    BY <1>0, <2>1, <2>3 DEF TypeOK
  <2>5. pc'[r] = "running" /\ \A o \in Runs : o # r => pc'[o] = pc[o]
    BY <1>0, <2>3, GotoFacts
  <2>6. pc[r] = "idle" /\ \A o \in Runs : ConvOf[o] = k => ~Live(o)
    BY <1>1 DEF Start, Live
  <2>7. \A j \in Convs : active[j] \in Runs \cup {None}
    BY <1>0 DEF TypeOK
  <2>8. \A o \in Runs : ConvOf[o] \in Convs
    BY ControlAssumption
  <2>9. \A o \in Runs : Live(o)' <=> Live(o) \/ o = r
    BY <2>5, <2>6 DEF Live
  <2>10. (\A o \in Runs : pc'[o] # "refused")
         /\ (\A o \in Runs : pc'[o] \in {"running", "final", "concluding", "returned"} => active'[ConvOf[o]] = o)
    BY <1>0, <2>4, <2>5, <2>6, <2>8 DEF Shown, Live
  <2>11. \A j \in Convs : active'[j] # None =>
           ConvOf[active'[j]] = j /\ pc'[active'[j]] \in {"running", "final", "concluding", "returned", "panicked"}
    BY <1>0, <2>1, <2>2, <2>4, <2>5, <2>6, <2>7 DEF Shown, Live
  <2>12. \A o, p \in Runs : Live(o)' /\ Live(p)' /\ ConvOf[o] = ConvOf[p] => o = p
    BY <1>0, <2>6, <2>9 DEF Shown
  <2> QED
    BY <2>10, <2>11, <2>12 DEF Shown
<1>2. ASSUME NEW r \in Runs, Checkpoint(r) PROVE Shown'
  <2>1. UNCHANGED <<active, pc>>
    BY <1>2 DEF Checkpoint
  <2> QED
    BY <1>0, <2>1 DEF Shown, Live
<1>3. ASSUME NEW r \in Runs, Final(r) PROVE Shown'
  <2>1. UNCHANGED active /\ Live(r) /\ Goto(r, "final")
    BY <1>3 DEF Final, Live
  <2>2. pc[r] \in {"running", "final", "concluding", "returned"}
    BY <1>3 DEF Final
  <2> QED
    BY <1>0, <2>1, <2>2, OnwardFacts
<1>4. ASSUME NEW r \in Runs, Conclude(r) PROVE Shown'
  <2>1. UNCHANGED active /\ Live(r) /\ Goto(r, "concluding")
    BY <1>4 DEF Conclude, Live
  <2>2. pc[r] \in {"running", "final", "concluding", "returned"}
    BY <1>4 DEF Conclude
  <2> QED
    BY <1>0, <2>1, <2>2, OnwardFacts
<1>5. ASSUME NEW r \in Runs, Reconsider(r) PROVE Shown'
  <2>1. UNCHANGED active /\ Live(r) /\ Goto(r, "running")
    BY <1>5 DEF Reconsider, Live
  <2>2. pc[r] \in {"running", "final", "concluding", "returned"}
    BY <1>5 DEF Reconsider
  <2> QED
    BY <1>0, <2>1, <2>2, OnwardFacts
<1>6. ASSUME NEW r \in Runs, Ended(r) PROVE Shown'
  <2>1. UNCHANGED active
    BY <1>6 DEF Ended
  <2>2. CASE pc[r] \in {"running", "final", "concluding"} /\ Goto(r, "returned")
    <3>1. Live(r)
      BY <2>2 DEF Live
    <3> QED
      BY <1>0, <2>1, <2>2, <3>1, OnwardFacts
  <2>3. CASE Live(r) /\ Goto(r, "panicked")
    BY <1>0, <2>1, <2>3, OnwardFacts
  <2> QED
    BY <1>6, <2>2, <2>3 DEF Ended
<1>7. ASSUME NEW r \in Runs, Done(r) PROVE Shown'
  <2>1. UNCHANGED active /\ Live(r) /\ Goto(r, "done")
    BY <1>7 DEF Done, Live
  <2>2. pc[r] = "reporting"
    BY <1>7 DEF Done
  <2> QED
    BY <1>0, <2>1, <2>2, OnwardFacts
<1>8. ASSUME NEW r \in Runs, pc[r] = "returned", Departed(r, "reporting") PROVE Shown'
  <2> DEFINE k == ConvOf[r]
  <2>1. k \in Convs /\ \A j \in Convs : active[j] \in Runs \cup {None}
    BY <1>0, ControlAssumption DEF TypeOK
  <2>2. active'[k] = None /\ \A j \in Convs : j # k => active'[j] = active[j]
    BY <1>8, <1>0, <2>1 DEF Departed, TypeOK
  <2>3. pc'[r] = "reporting" /\ \A o \in Runs : o # r => pc'[o] = pc[o]
    BY <1>8, <1>0, GotoFacts DEF Departed
  <2>4. \A o \in Runs : ConvOf[o] \in Convs
    BY ControlAssumption
  <2>5. \A o \in Runs : Live(o) /\ ConvOf[o] = k => o = r
    BY <1>8, <1>0 DEF Shown, Live
  <2>6. \A o \in Runs : Live(o)' => Live(o)
    BY <1>8, <2>3 DEF Live
  <2>7. (\A o \in Runs : pc'[o] # "refused")
         /\ (\A o \in Runs : pc'[o] \in {"running", "final", "concluding", "returned"} => active'[ConvOf[o]] = o)
    BY <1>0, <2>2, <2>3, <2>4, <2>5 DEF Shown, Live
  <2>8. \A j \in Convs : active'[j] # None =>
           ConvOf[active'[j]] = j /\ pc'[active'[j]] \in {"running", "final", "concluding", "returned", "panicked"}
    BY <1>0, <2>1, <2>2, <2>3 DEF Shown
  <2>9. \A o, p \in Runs : Live(o)' /\ Live(p)' /\ ConvOf[o] = ConvOf[p] => o = p
    BY <1>0, <2>6 DEF Shown
  <2> QED
    BY <2>7, <2>8, <2>9 DEF Shown
<1>9. ASSUME NEW r \in Runs, pc[r] = "panicked", Departed(r, "done") PROVE Shown'
  <2> DEFINE k == ConvOf[r]
  <2>1. k \in Convs /\ \A j \in Convs : active[j] \in Runs \cup {None}
    BY <1>0, ControlAssumption DEF TypeOK
  <2>2. active'[k] = None /\ \A j \in Convs : j # k => active'[j] = active[j]
    BY <1>9, <1>0, <2>1 DEF Departed, TypeOK
  <2>3. pc'[r] = "done" /\ \A o \in Runs : o # r => pc'[o] = pc[o]
    BY <1>9, <1>0, GotoFacts DEF Departed
  <2>4. \A o \in Runs : ConvOf[o] \in Convs
    BY ControlAssumption
  <2>5. \A o \in Runs : Live(o) /\ ConvOf[o] = k => o = r
    BY <1>9, <1>0 DEF Shown, Live
  <2>6. \A o \in Runs : Live(o)' => Live(o)
    BY <1>9, <2>3 DEF Live
  <2>7. (\A o \in Runs : pc'[o] # "refused")
         /\ (\A o \in Runs : pc'[o] \in {"running", "final", "concluding", "returned"} => active'[ConvOf[o]] = o)
    BY <1>0, <2>2, <2>3, <2>4, <2>5 DEF Shown, Live
  <2>8. \A j \in Convs : active'[j] # None =>
           ConvOf[active'[j]] = j /\ pc'[active'[j]] \in {"running", "final", "concluding", "returned", "panicked"}
    BY <1>0, <2>1, <2>2, <2>3 DEF Shown
  <2>9. \A o, p \in Runs : Live(o)' /\ Live(p)' /\ ConvOf[o] = ConvOf[p] => o = p
    BY <1>0, <2>6 DEF Shown
  <2> QED
    BY <2>7, <2>8, <2>9 DEF Shown
<1>10. ASSUME NEW q \in Questions, Abandon(q) PROVE Shown'
  <2>1. UNCHANGED <<active, pc>>
    BY <1>10 DEF Abandon
  <2> QED
    BY <1>0, <2>1 DEF Shown, Live
<1>11. ASSUME NEW q \in Questions, OpenQuestion(q) PROVE Shown'
  <2>1. UNCHANGED <<active, pc>>
    BY <1>11 DEF OpenQuestion
  <2> QED
    BY <1>0, <2>1 DEF Shown, Live
<1>12. ASSUME NEW q \in Questions, WaitAnswer(q) PROVE Shown'
  <2>1. UNCHANGED <<active, pc>>
    BY <1>12 DEF WaitAnswer
  <2> QED
    BY <1>0, <2>1 DEF Shown, Live
<1>13. ASSUME NEW q \in Questions, WaitEnds(q) PROVE Shown'
  <2>1. UNCHANGED <<active, pc>>
    BY <1>13 DEF WaitEnds
  <2> QED
    BY <1>0, <2>1 DEF Shown, Live
<1>14. ASSUME NEW q \in Questions, CloseQuestion(q) PROVE Shown'
  <2>1. UNCHANGED <<active, pc>>
    BY <1>14 DEF CloseQuestion
  <2> QED
    BY <1>0, <2>1 DEF Shown, Live
<1>15. ASSUME NEW i \in Inputs, Taken(i) PROVE Shown'
  <2>1. UNCHANGED <<active, pc>>
    BY <1>15 DEF Taken
  <2> QED
    BY <1>0, <2>1 DEF Shown, Live
<1>16. ASSUME NEW s \in Stops, Halted(s) PROVE Shown'
  <2>1. UNCHANGED <<active, pc>>
    BY <1>16 DEF Halted
  <2> QED
    BY <1>0, <2>1 DEF Shown, Live
<1>17. ASSUME NEW s \in Stops, Cancel(s) PROVE Shown'
  <2>1. UNCHANGED <<active, pc>>
    BY <1>17 DEF Cancel
  <2> QED
    BY <1>0, <2>1 DEF Shown, Live
<1>18. ASSUME NEW s \in Stops, NEW t \in Tasks, StopTask(s, t) PROVE Shown'
  <2>1. UNCHANGED <<active, pc>>
    BY <1>18 DEF StopTask
  <2> QED
    BY <1>0, <2>1 DEF Shown, Live
<1>19. CASE UNCHANGED vars
  BY <1>0, <1>19 DEF Shown, Live
<1> QED
  BY <1>1, <1>2, <1>3, <1>4, <1>5, <1>6, <1>7, <1>8, <1>9, <1>10, <1>11, <1>12,
     <1>13, <1>14, <1>15, <1>16, <1>17, <1>18, <1>19 DEF Moves

\* A queue was emptied, and its inputs were applied or dropped.
Emptied(r, v) ==
  /\ queue'[r] = <<>> /\ \A o \in Runs : o # r => queue'[o] = queue[o]
  /\ \A o \in Runs, j \in Inputs : InQueue(o, j)' <=> InQueue(o, j) /\ o # r
  /\ \A j \in Inputs : fate'[j] = IF InQueue(r, j) THEN v ELSE fate[j]
  /\ UNCHANGED <<to, late>>

\* A queue that is emptied leaves the others as they are.
LEMMA EmptiedQueued ==
  ASSUME TypeOK, Queued, NEW r \in Runs, NEW v \in {"applied", "dropped"}, Emptied(r, v),
         closed' = closed \/ closed' = closed \cup {r},
         \A o \in Runs : pc'[o] = pc[o] \/ pc'[o] = "final" \/ o \in closed'
  PROVE  Queued'
<1>1. closed \subseteq Runs
  BY DEF TypeOK
<1>2. \A o \in Runs, j \in Inputs : InQueue(o, j)' => fate'[j] = "queued" /\ to'[j] = o
  BY DEF Queued, Emptied
<1>3. \A j \in Inputs : fate'[j] = "queued" => to'[j] \in Runs /\ InQueue(to[j], j)'
  BY DEF Queued, Emptied
<1>4. \A o \in closed' : queue'[o] = <<>>
  BY <1>1 DEF Queued, Emptied
<1>5. \A o \in Runs : pc'[o] \in {"returned", "reporting", "panicked", "done"} => o \in closed'
  BY DEF Queued
<1>6. to' = to
  BY DEF Emptied
<1> QED
  BY <1>2, <1>3, <1>4, <1>5, <1>6 DEF Queued, InQueue

\* What is dropped was left over for a reason.
LEMMA EmptiedExcused ==
  ASSUME TypeOK, Queued, Excused, NEW r \in Runs, NEW v \in {"applied", "dropped"}, Emptied(r, v),
         \/ v = "applied"
         \/ r \in stopRequested' \cup failed' \cup cut'
         \/ pc[r] # "running",
         \A o \in Runs : o # r => pc'[o] = pc[o],
         stopRequested \subseteq stopRequested', failed \subseteq failed', cut \subseteq cut'
  PROVE  Excused'
<1>1. \A o \in Runs, j \in Inputs : InQueue(o, j)' /\ pc'[o] # "running" => j \in late'
  BY DEF Excused, Emptied
<1>2. ASSUME NEW j \in Inputs, fate'[j] = "dropped"
      PROVE  to'[j] \in stopRequested' \cup failed' \cup cut' \/ j \in late'
  <2>1. CASE InQueue(r, j)
    BY <1>2, <2>1 DEF Queued, Excused, Emptied
  <2>2. CASE ~InQueue(r, j)
    BY <1>2, <2>2 DEF Excused, Emptied
  <2> QED
    BY <2>1, <2>2
<1> QED
  BY <1>1, <1>2 DEF Excused

\* Closing a queue drops its inputs.
LEMMA CloseEmpties ==
  ASSUME TypeOK, NEW r \in Runs, CloseQueue(r), UNCHANGED <<to, late>>
  PROVE  Emptied(r, "dropped") /\ closed' = closed \cup {r}
BY CloseFacts DEF Emptied

\* Draining a queue applies its inputs.
LEMMA DrainEmpties ==
  ASSUME TypeOK, NEW r \in Runs, Drain(r), UNCHANGED <<to, late>>
  PROVE  Emptied(r, "applied")
BY DrainFacts DEF Emptied

\* Every step keeps the queues.
LEMMA QueuedStep == IInv /\ Moves => Queued'
<1> SUFFICES ASSUME IInv, Moves PROVE Queued'
  OBVIOUS
<1> USE DEF vars, runVars, queueVars, questionVars, inputVars
<1>0. TypeOK /\ Queued
  BY DEF IInv
<1>a. Answered
  BY DEF IInv
<1>1. ASSUME NEW r \in Runs, Start(r) PROVE Queued'
  <2>1. UNCHANGED <<queue, closed, fate, to>>
    BY <1>1 DEF Start
  <2>2. \A o \in Runs : pc'[o] \in {"returned", "reporting", "panicked", "done"} => pc'[o] = pc[o]
    BY <1>1, <1>0, GotoFacts DEF Start
  <2> QED
    BY <1>0, <2>1, <2>2 DEF Queued, InQueue
<1>2. ASSUME NEW r \in Runs, Checkpoint(r) PROVE Queued'
  <2>1. Drain(r) /\ UNCHANGED <<to, late, closed, pc>>
    BY <1>2 DEF Checkpoint
  <2>2. Emptied(r, "applied")
    BY <1>0, <2>1, DrainEmpties
  <2> QED
    BY <1>0, <2>1, <2>2, EmptiedQueued
<1>3. ASSUME NEW r \in Runs, Final(r) PROVE Queued'
  <2>1. UNCHANGED <<queue, closed, fate, to>>
    BY <1>3 DEF Final
  <2>2. \A o \in Runs : pc'[o] \in {"returned", "reporting", "panicked", "done"} => pc'[o] = pc[o]
    BY <1>3, <1>0, GotoFacts DEF Final
  <2> QED
    BY <1>0, <2>1, <2>2 DEF Queued, InQueue
<1>4. ASSUME NEW r \in Runs, Conclude(r) PROVE Queued'
  <2>1. Drain(r) /\ UNCHANGED <<to, late>>
    BY <1>4 DEF Conclude
  <2>2. Emptied(r, "applied") /\ closed' = closed \cup {r}
    BY <1>4, <1>0, <2>1, DrainEmpties DEF Conclude
  <2>3. \A o \in Runs : pc'[o] = pc[o] \/ o \in closed'
    BY <1>4, <1>0, <2>2, GotoFacts DEF Conclude
  <2> QED
    BY <1>0, <2>2, <2>3, EmptiedQueued
<1>5. ASSUME NEW r \in Runs, Reconsider(r) PROVE Queued'
  <2>1. UNCHANGED <<queue, closed, fate, to>>
    BY <1>5 DEF Reconsider
  <2>2. \A o \in Runs : pc'[o] \in {"returned", "reporting", "panicked", "done"} => pc'[o] = pc[o]
    BY <1>5, <1>0, GotoFacts DEF Reconsider
  <2> QED
    BY <1>0, <2>1, <2>2 DEF Queued, InQueue
<1>6. ASSUME NEW r \in Runs, Ended(r) PROVE Queued'
  <2>1. CloseQueue(r) /\ UNCHANGED <<to, late>>
    BY <1>6 DEF Ended
  <2>2. Emptied(r, "dropped") /\ closed' = closed \cup {r}
    BY <1>0, <2>1, CloseEmpties
  <2>3. \A o \in Runs : pc'[o] = pc[o] \/ o \in closed'
    BY <1>6, <1>0, <2>2, GotoFacts DEF Ended
  <2> QED
    BY <1>0, <2>2, <2>3, EmptiedQueued
<1>7. ASSUME NEW r \in Runs, Done(r) PROVE Queued'
  <2>1. UNCHANGED <<queue, closed, fate, to>>
    BY <1>7 DEF Done
  <2>2. pc[r] \in {"returned", "reporting", "panicked"} /\ \A o \in Runs : o # r => pc'[o] = pc[o]
    BY <1>7, <1>0, GotoFacts DEF Done
  <2> QED
    BY <1>0, <2>1, <2>2 DEF Queued, InQueue
<1>8. ASSUME NEW r \in Runs, pc[r] = "returned", Departed(r, "reporting") PROVE Queued'
  <2>1. UNCHANGED <<queue, closed, fate, to>>
    BY <1>8 DEF Departed
  <2>2. pc[r] \in {"returned", "reporting", "panicked"} /\ \A o \in Runs : o # r => pc'[o] = pc[o]
    BY <1>8, <1>0, GotoFacts DEF Departed
  <2> QED
    BY <1>0, <2>1, <2>2 DEF Queued, InQueue
<1>9. ASSUME NEW r \in Runs, pc[r] = "panicked", Departed(r, "done") PROVE Queued'
  <2>1. UNCHANGED <<queue, closed, fate, to>>
    BY <1>9 DEF Departed
  <2>2. pc[r] \in {"returned", "reporting", "panicked"} /\ \A o \in Runs : o # r => pc'[o] = pc[o]
    BY <1>9, <1>0, GotoFacts DEF Departed
  <2> QED
    BY <1>0, <2>1, <2>2 DEF Queued, InQueue
<1>10. ASSUME NEW q \in Questions, Abandon(q) PROVE Queued'
  <2>1. UNCHANGED <<queue, closed, fate, to, pc>>
    BY <1>10 DEF Abandon
  <2> QED
    BY <1>0, <2>1 DEF Queued, InQueue
<1>11. ASSUME NEW q \in Questions, OpenQuestion(q) PROVE Queued'
  <2>1. UNCHANGED <<queue, closed, fate, to, pc>>
    BY <1>11 DEF OpenQuestion
  <2> QED
    BY <1>0, <2>1 DEF Queued, InQueue
<1>12. ASSUME NEW q \in Questions, WaitAnswer(q) PROVE Queued'
  <2>1. UNCHANGED <<queue, closed, fate, to, pc>>
    BY <1>12 DEF WaitAnswer
  <2> QED
    BY <1>0, <2>1 DEF Queued, InQueue
<1>13. ASSUME NEW q \in Questions, WaitEnds(q) PROVE Queued'
  <2>1. UNCHANGED <<queue, closed, fate, to, pc>>
    BY <1>13 DEF WaitEnds
  <2> QED
    BY <1>0, <2>1 DEF Queued, InQueue
<1>14. ASSUME NEW q \in Questions, CloseQuestion(q) PROVE Queued'
  <2>1. UNCHANGED <<queue, closed, to, pc>>
    BY <1>14 DEF CloseQuestion
  <2>2. \A j \in Inputs : fate'[j] # fate[j] => fate[j] = "sent" /\ fate'[j] # "queued"
    <3>1. \A j \in Inputs : fate'[j] # fate[j] => j = answer[q] /\ fate'[j] \in {"heard", "unheard"}
      BY <1>14 DEF CloseQuestion
    <3>2. answer[q] \in Inputs => fate[answer[q]] = "sent"
      BY <1>14, <1>a, ControlAssumption DEF CloseQuestion, Answered
    <3> QED
      BY <3>1, <3>2
  <2>3. \A o \in Runs, j \in Inputs : InQueue(o, j)' <=> InQueue(o, j)
    BY <2>1 DEF InQueue
  <2>4. \A j \in Inputs : to'[j] = to[j] /\ (InQueue(to[j], j)' <=> InQueue(to[j], j))
    BY <2>1 DEF InQueue
  <2> QED
    BY <1>0, <2>1, <2>2, <2>3, <2>4 DEF Queued
<1>15. ASSUME NEW i \in Inputs, Taken(i) PROVE Queued'
  <2>1. fate[i] = "new" /\ UNCHANGED <<pc, closed>>
    BY <1>15 DEF Taken
  <2>2. \A o \in Runs : ~InQueue(o, i)
    BY <1>0, <2>1 DEF Queued
  <2>3. ASSUME NEW r, NEW v \in {"task", "refused", "sent"}, Put(i, v, r), UNCHANGED queue
        PROVE  Queued'
    <3>1. fate'[i] = v /\ \A j \in Inputs : j # i => fate'[j] = fate[j] /\ to'[j] = to[j]
      BY <1>0, <2>3, PutFacts
    <3>2. \A o, j : InQueue(o, j)' <=> InQueue(o, j)
      BY <2>3 DEF InQueue
    <3>3. \A o \in Runs, j \in Inputs : InQueue(o, j)' => fate'[j] = "queued" /\ to'[j] = o
      BY <1>0, <2>2, <3>1, <3>2 DEF Queued
    <3>4. \A j \in Inputs : fate'[j] = "queued" => to'[j] \in Runs /\ InQueue(to'[j], j)
      BY <1>0, <3>1 DEF Queued
    <3> QED
      BY <1>0, <2>1, <2>3, <3>3, <3>4 DEF Queued, InQueue
  <2>4. ASSUME NEW r \in Runs \ closed, Put(i, "queued", r), queue' = [queue EXCEPT ![r] = Append(@, i)]
        PROVE  Queued'
    <3>1. /\ fate'[i] = "queued" /\ to'[i] = r
          /\ \A j \in Inputs : j # i => fate'[j] = fate[j] /\ to'[j] = to[j]
      BY <1>0, <2>4, PutFacts
    <3>2. \A o \in Runs, j \in Inputs : InQueue(o, j)' <=> InQueue(o, j) \/ (o = r /\ j = i)
      BY <1>0, <2>4, AppendFacts
    <3>3. \A o \in Runs, j \in Inputs : InQueue(o, j)' => fate'[j] = "queued" /\ to'[j] = o
      BY <1>0, <2>2, <3>1, <3>2 DEF Queued
    <3>4. \A j \in Inputs : fate'[j] = "queued" =>
             to'[j] \in Runs /\ (InQueue(to'[j], j) \/ (to'[j] = r /\ j = i))
      BY <1>0, <2>4, <3>1 DEF Queued
    <3>5. \A o \in closed : queue'[o] = queue[o]
      BY <1>0, <2>4 DEF TypeOK
    <3>6. \A j \in Inputs : fate'[j] = "queued" => to'[j] \in Runs /\ j \in ToSet(queue'[to'[j]])
      BY <3>2, <3>4 DEF InQueue
    <3> QED
      BY <1>0, <2>1, <3>3, <3>5, <3>6 DEF Queued, InQueue
  <2>5. CASE (\E r \in Runs \cup {None}, v \in {"task", "refused"} : Put(i, v, r)) /\ UNCHANGED queue
    BY <2>3, <2>5
  <2>6. CASE \E r \in Runs : question[r] \in Questions /\ AnswerLocked(r, i)
    BY <2>3, <2>6 DEF AnswerLocked
  <2> QED
    BY <1>15, <2>4, <2>5, <2>6 DEF Taken
<1>16. ASSUME NEW s \in Stops, Halted(s) PROVE Queued'
  <2>1. UNCHANGED <<pc, to, late>>
    BY <1>16 DEF Halted
  <2>2. CASE UNCHANGED <<queueVars, fate>>
    BY <1>0, <2>1, <2>2 DEF Queued, InQueue
  <2>3. ASSUME NEW r \in Runs, CloseQueue(r) PROVE Queued'
    <3>1. Emptied(r, "dropped") /\ closed' = closed \cup {r}
      BY <1>0, <2>1, <2>3, CloseEmpties
    <3> QED
      BY <1>0, <2>1, <3>1, EmptiedQueued
  <2> QED
    BY <1>16, <2>2, <2>3 DEF Halted
<1>17. ASSUME NEW s \in Stops, Cancel(s) PROVE Queued'
  <2>1. UNCHANGED <<queue, closed, fate, to, pc>>
    BY <1>17 DEF Cancel
  <2> QED
    BY <1>0, <2>1 DEF Queued, InQueue
<1>18. ASSUME NEW s \in Stops, NEW t \in Tasks, StopTask(s, t) PROVE Queued'
  <2>1. UNCHANGED <<queue, closed, fate, to, pc>>
    BY <1>18 DEF StopTask
  <2> QED
    BY <1>0, <2>1 DEF Queued, InQueue
<1>19. CASE UNCHANGED vars
  BY <1>0, <1>19 DEF Queued, InQueue
<1> QED
  BY <1>1, <1>2, <1>3, <1>4, <1>5, <1>6, <1>7, <1>8, <1>9, <1>10, <1>11, <1>12,
     <1>13, <1>14, <1>15, <1>16, <1>17, <1>18, <1>19 DEF Moves

\* Every step keeps the reasons for what is left over.
LEMMA ExcusedStep == IInv /\ Moves => Excused'
<1> SUFFICES ASSUME IInv, Moves PROVE Excused'
  OBVIOUS
<1> USE DEF vars, runVars, queueVars, questionVars, inputVars
<1>0. TypeOK /\ Queued /\ Excused
  BY DEF IInv
<1>1. ASSUME NEW r \in Runs, Start(r) PROVE Excused'
  <2>1. UNCHANGED <<queue, fate, to, late, failed, cut, stopRequested>>
    BY <1>1 DEF Start
  <2>2. \A o \in Runs : pc'[o] # "running" => pc[o] # "running"
    BY <1>1, <1>0, GotoFacts DEF Start
  <2> QED
    BY <1>0, <2>1, <2>2 DEF Excused, InQueue
<1>2. ASSUME NEW r \in Runs, Checkpoint(r) PROVE Excused'
  <2>1. Drain(r) /\ UNCHANGED <<to, late, stopRequested, failed, cut, pc>>
    BY <1>2 DEF Checkpoint
  <2>2. Emptied(r, "applied")
    BY <1>0, <2>1, DrainEmpties
  <2> QED
    BY <1>0, <2>1, <2>2, EmptiedExcused
<1>3. ASSUME NEW r \in Runs, Final(r) PROVE Excused'
  <2>1. UNCHANGED <<queue, fate, to, late, failed, cut, stopRequested>>
    BY <1>3 DEF Final
  <2>2. queue[r] = <<>> /\ \A o \in Runs : o # r => pc'[o] = pc[o]
    BY <1>3, <1>0, GotoFacts DEF Final
  <2>3. \A j \in Inputs : ~InQueue(r, j)
    BY <2>2, EmptyHasNone DEF InQueue
  <2>4. \A o \in Runs, j \in Inputs : InQueue(o, j)' <=> InQueue(o, j)
    BY <2>1 DEF InQueue
  <2> QED
    BY <1>0, <2>1, <2>2, <2>3, <2>4 DEF Excused
<1>4. ASSUME NEW r \in Runs, Conclude(r) PROVE Excused'
  <2>1. Drain(r) /\ UNCHANGED <<to, late, stopRequested, failed, cut>>
    BY <1>4 DEF Conclude
  <2>2. Emptied(r, "applied")
    BY <1>0, <2>1, DrainEmpties
  <2>3. \A o \in Runs : o # r => pc'[o] = pc[o]
    BY <1>4, <1>0, GotoFacts DEF Conclude
  <2> QED
    BY <1>0, <2>1, <2>2, <2>3, EmptiedExcused
<1>5. ASSUME NEW r \in Runs, Reconsider(r) PROVE Excused'
  <2>1. UNCHANGED <<queue, fate, to, failed, cut, stopRequested>>
    BY <1>5 DEF Reconsider
  <2>2. pc'[r] = "running" /\ \A o \in Runs : o # r => pc'[o] = pc[o]
    BY <1>5, <1>0, GotoFacts DEF Reconsider
  <2>3. \A j \in Inputs : j \in late' <=> j \in late /\ ~InQueue(r, j)
    BY <1>5 DEF Reconsider, InQueue
  <2>4. \A o \in Runs, j \in Inputs : InQueue(o, j) => fate[j] = "queued" /\ to[j] = o
    BY <1>0 DEF Queued
  <2>5. \A o \in Runs, j \in Inputs : InQueue(o, j)' <=> InQueue(o, j)
    BY <2>1 DEF InQueue
  <2>6. \A o \in Runs, j \in Inputs : InQueue(o, j)' /\ pc'[o] # "running" => j \in late'
    BY <1>0, <2>2, <2>3, <2>4, <2>5 DEF Excused
  <2>7. \A j \in Inputs : fate'[j] = "dropped" => to'[j] \in stopRequested' \cup failed' \cup cut' \/ j \in late'
    BY <1>0, <2>1, <2>3, <2>4 DEF Excused
  <2> QED
    BY <2>6, <2>7 DEF Excused
<1>6. ASSUME NEW r \in Runs, Ended(r) PROVE Excused'
  <2>1. CloseQueue(r) /\ UNCHANGED <<to, late, stopRequested>> /\ failed \subseteq failed' /\ cut \subseteq cut'
    BY <1>6 DEF Ended
  <2>2. Emptied(r, "dropped")
    BY <1>0, <2>1, CloseEmpties
  <2>3. \A o \in Runs : o # r => pc'[o] = pc[o]
    BY <1>6, <1>0, GotoFacts DEF Ended
  <2>4. r \in failed' \cup cut' \/ pc[r] # "running"
    BY <1>6 DEF Ended
  <2> QED
    BY <1>0, <2>1, <2>2, <2>3, <2>4, EmptiedExcused
<1>7. ASSUME NEW r \in Runs, Done(r) PROVE Excused'
  <2>1. UNCHANGED <<queue, fate, to, late, failed, cut, stopRequested>>
    BY <1>7 DEF Done
  <2>2. \A o \in Runs : pc'[o] # "running" => pc[o] # "running"
    BY <1>7, <1>0, GotoFacts DEF Done
  <2> QED
    BY <1>0, <2>1, <2>2 DEF Excused, InQueue
<1>8. ASSUME NEW r \in Runs, pc[r] = "returned", Departed(r, "reporting") PROVE Excused'
  <2>1. UNCHANGED <<queue, fate, to, late, failed, cut, stopRequested>>
    BY <1>8 DEF Departed
  <2>2. \A o \in Runs : pc'[o] # "running" => pc[o] # "running"
    BY <1>8, <1>0, GotoFacts DEF Departed
  <2> QED
    BY <1>0, <2>1, <2>2 DEF Excused, InQueue
<1>9. ASSUME NEW r \in Runs, pc[r] = "panicked", Departed(r, "done") PROVE Excused'
  <2>1. UNCHANGED <<queue, fate, to, late, failed, cut, stopRequested>>
    BY <1>9 DEF Departed
  <2>2. \A o \in Runs : pc'[o] # "running" => pc[o] # "running"
    BY <1>9, <1>0, GotoFacts DEF Departed
  <2> QED
    BY <1>0, <2>1, <2>2 DEF Excused, InQueue
<1>10. ASSUME NEW q \in Questions, Abandon(q) PROVE Excused'
  <2>1. UNCHANGED <<queue, fate, to, late, pc, failed, cut, stopRequested>>
    BY <1>10 DEF Abandon
  <2> QED
    BY <1>0, <2>1 DEF Excused, InQueue
<1>11. ASSUME NEW q \in Questions, OpenQuestion(q) PROVE Excused'
  <2>1. UNCHANGED <<queue, fate, to, late, pc, failed, cut, stopRequested>>
    BY <1>11 DEF OpenQuestion
  <2> QED
    BY <1>0, <2>1 DEF Excused, InQueue
<1>12. ASSUME NEW q \in Questions, WaitAnswer(q) PROVE Excused'
  <2>1. UNCHANGED <<queue, fate, to, late, pc, failed, cut, stopRequested>>
    BY <1>12 DEF WaitAnswer
  <2> QED
    BY <1>0, <2>1 DEF Excused, InQueue
<1>13. ASSUME NEW q \in Questions, WaitEnds(q) PROVE Excused'
  <2>1. UNCHANGED <<queue, fate, to, late, pc, failed, cut, stopRequested>>
    BY <1>13 DEF WaitEnds
  <2> QED
    BY <1>0, <2>1 DEF Excused, InQueue
<1>14. ASSUME NEW q \in Questions, CloseQuestion(q) PROVE Excused'
  <2>1. UNCHANGED <<queue, to, late, pc, failed, cut, stopRequested>>
    BY <1>14 DEF CloseQuestion
  <2>2. \A j \in Inputs : fate'[j] = "dropped" => fate[j] = "dropped"
    BY <1>14, <1>0 DEF CloseQuestion, TypeOK
  <2> QED
    BY <1>0, <2>1, <2>2 DEF Excused, InQueue
<1>15. ASSUME NEW i \in Inputs, Taken(i) PROVE Excused'
  <2>1. fate[i] = "new" /\ UNCHANGED <<pc, closed, failed, cut, stopRequested>>
    BY <1>15 DEF Taken
  <2>2. ASSUME NEW r, NEW v \in {"task", "refused", "sent"}, Put(i, v, r), UNCHANGED <<queue, late>>
        PROVE  Excused'
    <3>1. fate'[i] = v /\ \A j \in Inputs : j # i => fate'[j] = fate[j] /\ to'[j] = to[j]
      BY <1>0, <2>2, PutFacts
    <3> QED
      BY <1>0, <2>1, <2>2, <3>1 DEF Excused, InQueue
  <2>3. ASSUME NEW r \in Runs \ closed, Put(i, "queued", r), queue' = [queue EXCEPT ![r] = Append(@, i)],
               late' = IF pc[r] = "running" THEN late ELSE late \cup {i}
        PROVE  Excused'
    <3>1. fate'[i] = "queued" /\ \A j \in Inputs : j # i => fate'[j] = fate[j] /\ to'[j] = to[j]
      BY <1>0, <2>3, PutFacts
    <3>2. \A o \in Runs, j \in Inputs : InQueue(o, j)' <=> InQueue(o, j) \/ (o = r /\ j = i)
      BY <1>0, <2>3, AppendFacts
    <3>3. late \subseteq late' /\ (pc[r] # "running" => i \in late')
      BY <2>3
    <3>4. \A o \in Runs, j \in Inputs : InQueue(o, j)' /\ pc'[o] # "running" => j \in late'
      BY <1>0, <2>1, <3>2, <3>3 DEF Excused
    <3>5. \A j \in Inputs : fate'[j] = "dropped" => to'[j] \in stopRequested' \cup failed' \cup cut' \/ j \in late'
      BY <1>0, <2>1, <3>1, <3>3 DEF Excused
    <3> QED
      BY <3>4, <3>5 DEF Excused
  <2>4. CASE (\E r \in Runs \cup {None}, v \in {"task", "refused"} : Put(i, v, r)) /\ UNCHANGED <<queue, late>>
    BY <2>2, <2>4
  <2>5. CASE \E r \in Runs : question[r] \in Questions /\ AnswerLocked(r, i)
    BY <2>2, <2>5 DEF AnswerLocked
  <2> QED
    BY <1>15, <2>3, <2>4, <2>5 DEF Taken
<1>16. ASSUME NEW s \in Stops, Halted(s) PROVE Excused'
  <2>1. UNCHANGED <<pc, to, late, failed, cut>>
    BY <1>16 DEF Halted
  <2>2. CASE UNCHANGED <<stopRequested, queueVars, fate>>
    BY <1>0, <2>1, <2>2 DEF Excused, InQueue
  <2>3. ASSUME NEW r \in Runs, stopRequested' = stopRequested \cup {r}, CloseQueue(r)
        PROVE  Excused'
    <3>1. Emptied(r, "dropped")
      BY <1>0, <2>1, <2>3, CloseEmpties
    <3>2. stopRequested \subseteq stopRequested' /\ r \in stopRequested'
      BY <2>3
    <3> QED
      BY <1>0, <2>1, <3>1, <3>2, EmptiedExcused
  <2> QED
    BY <1>16, <2>2, <2>3 DEF Halted
<1>17. ASSUME NEW s \in Stops, Cancel(s) PROVE Excused'
  <2>1. UNCHANGED <<queue, fate, to, late, pc, failed, cut, stopRequested>>
    BY <1>17 DEF Cancel
  <2> QED
    BY <1>0, <2>1 DEF Excused, InQueue
<1>18. ASSUME NEW s \in Stops, NEW t \in Tasks, StopTask(s, t) PROVE Excused'
  <2>1. UNCHANGED <<queue, fate, to, late, pc, failed, cut, stopRequested>>
    BY <1>18 DEF StopTask
  <2> QED
    BY <1>0, <2>1 DEF Excused, InQueue
<1>19. CASE UNCHANGED vars
  BY <1>0, <1>19 DEF Excused, InQueue
<1> QED
  BY <1>1, <1>2, <1>3, <1>4, <1>5, <1>6, <1>7, <1>8, <1>9, <1>10, <1>11, <1>12,
     <1>13, <1>14, <1>15, <1>16, <1>17, <1>18, <1>19 DEF Moves

\* Every step keeps what is known of questions.
LEMMA AskedStep == IInv /\ Moves => Asked'
<1> SUFFICES ASSUME IInv, Moves PROVE Asked'
  OBVIOUS
<1> USE DEF vars, runVars, queueVars, questionVars, inputVars
<1>0. TypeOK /\ Asked
  BY DEF IInv
<1>1. ASSUME NEW r \in Runs, Start(r) PROVE Asked'
  <2>1. UNCHANGED <<question, asked, answer>>
    BY <1>1 DEF Start
  <2> QED
    BY <1>0, <2>1 DEF Asked, WaitedForIsShown
<1>2. ASSUME NEW r \in Runs, Checkpoint(r) PROVE Asked'
  <2>1. UNCHANGED <<question, asked, answer>>
    BY <1>2 DEF Checkpoint
  <2> QED
    BY <1>0, <2>1 DEF Asked, WaitedForIsShown
<1>3. ASSUME NEW r \in Runs, Final(r) PROVE Asked'
  <2>1. UNCHANGED <<question, asked, answer>>
    BY <1>3 DEF Final
  <2> QED
    BY <1>0, <2>1 DEF Asked, WaitedForIsShown
<1>4. ASSUME NEW r \in Runs, Conclude(r) PROVE Asked'
  <2>1. UNCHANGED <<question, asked, answer>>
    BY <1>4 DEF Conclude
  <2> QED
    BY <1>0, <2>1 DEF Asked, WaitedForIsShown
<1>5. ASSUME NEW r \in Runs, Reconsider(r) PROVE Asked'
  <2>1. UNCHANGED <<question, asked, answer>>
    BY <1>5 DEF Reconsider
  <2> QED
    BY <1>0, <2>1 DEF Asked, WaitedForIsShown
<1>6. ASSUME NEW r \in Runs, Ended(r) PROVE Asked'
  <2>1. UNCHANGED <<question, asked, answer>>
    BY <1>6 DEF Ended
  <2> QED
    BY <1>0, <2>1 DEF Asked, WaitedForIsShown
<1>7. ASSUME NEW r \in Runs, Done(r) PROVE Asked'
  <2>1. UNCHANGED <<question, asked, answer>>
    BY <1>7 DEF Done
  <2> QED
    BY <1>0, <2>1 DEF Asked, WaitedForIsShown
<1>8. ASSUME NEW r \in Runs, pc[r] = "returned", Departed(r, "reporting") PROVE Asked'
  <2>1. UNCHANGED <<question, asked, answer>>
    BY <1>8 DEF Departed
  <2> QED
    BY <1>0, <2>1 DEF Asked, WaitedForIsShown
<1>9. ASSUME NEW r \in Runs, pc[r] = "panicked", Departed(r, "done") PROVE Asked'
  <2>1. UNCHANGED <<question, asked, answer>>
    BY <1>9 DEF Departed
  <2> QED
    BY <1>0, <2>1 DEF Asked, WaitedForIsShown
<1>10. ASSUME NEW q \in Questions, Abandon(q) PROVE Asked'
  <2>1. UNCHANGED <<question, asked, answer>>
    BY <1>10 DEF Abandon
  <2> QED
    BY <1>0, <2>1 DEF Asked, WaitedForIsShown
<1>11. ASSUME NEW q \in Questions, OpenQuestion(q) PROVE Asked'
  <2> DEFINE e == active[ConvOf[RunOf[q]]]
  <2>1. asked[q] = "no" /\ answer[q] = None /\ UNCHANGED answer /\ q # None
    BY <1>11, <1>0, ControlAssumption DEF OpenQuestion, Asked
  <2>2. \A o \in Runs : question[o] # None => question[o] \in Questions /\ question[o] # q
    BY <1>0, <2>1 DEF Asked, TypeOK
  <2>3. CASE UNCHANGED question /\ asked' = [asked EXCEPT ![q] = "refused"]
    <3>1. asked'[q] = "refused" /\ \A p \in Questions : p # q => asked'[p] = asked[p]
      BY <1>0, <2>3 DEF TypeOK
    <3> QED
      BY <1>0, <2>1, <2>2, <2>3, <3>1 DEF Asked, WaitedForIsShown
  <2>4. CASE /\ e # None /\ TaskOf[e] = TaskOf[RunOf[q]] /\ question[e] = None
             /\ question' = [question EXCEPT ![e] = q] /\ asked' = [asked EXCEPT ![q] = "open"]
    <3>1. e \in Runs
      BY <1>0, <2>4, ControlAssumption DEF TypeOK
    <3>2. asked'[q] = "open" /\ \A p \in Questions : p # q => asked'[p] = asked[p]
      BY <1>0, <2>4 DEF TypeOK
    <3>3. question'[e] = q /\ \A o \in Runs : o # e => question'[o] = question[o]
      BY <1>0, <2>4, <3>1 DEF TypeOK
    <3>4. question[e] = None /\ TaskOf[e] = TaskOf[RunOf[q]]
      BY <2>4
    <3> HIDE DEF e
    <3>5. \A o \in Runs : question'[o] # None =>
            answer'[question'[o]] = None /\ asked'[question'[o]] \in {"open", "gaveup"}
      BY <1>0, <2>1, <2>2, <3>2, <3>3 DEF Asked
    <3>6. \A o, p \in Runs : question'[o] # None /\ question'[o] = question'[p] => o = p
      BY <1>0, <2>2, <3>3 DEF Asked
    <3>7. \A p \in Questions : asked'[p] = "no" => answer'[p] = None
      BY <1>0, <2>1, <3>2 DEF Asked
    <3>8. ASSUME NEW p \in Questions, asked'[p] = "open", answer'[p] = None
          PROVE  \E o \in Runs : question'[o] = p /\ TaskOf[o] = TaskOf[RunOf[p]]
      <4>1. CASE p = q
        BY <3>1, <3>3, <3>4, <4>1
      <4>2. CASE p # q
        <5>1. PICK o \in Runs : question[o] = p /\ TaskOf[o] = TaskOf[RunOf[p]]
          BY <1>0, <2>1, <3>2, <3>8, <4>2 DEF Asked, WaitedForIsShown
        <5>2. o # e
          BY <3>4, <5>1, ControlAssumption
        <5> QED
          BY <3>3, <5>1, <5>2
      <4> QED
        BY <4>1, <4>2
    <3> QED
      BY <3>5, <3>6, <3>7, <3>8 DEF Asked, WaitedForIsShown
  <2> QED
    BY <1>11, <2>3, <2>4 DEF OpenQuestion
<1>12. ASSUME NEW q \in Questions, WaitAnswer(q) PROVE Asked'
  <2>1. asked[q] = "open" /\ answer[q] # None /\ UNCHANGED <<question, answer>>
    BY <1>12 DEF WaitAnswer
  <2>2. asked'[q] = "answered" /\ \A p \in Questions : p # q => asked'[p] = asked[p]
    BY <1>12, <1>0 DEF WaitAnswer, TypeOK
  <2>3. \A o \in Runs : question[o] # q
    BY <1>0, <2>1, ControlAssumption DEF Asked
  <2>4. \A o \in Runs : question[o] # None => question[o] \in Questions
    BY <1>0 DEF TypeOK
  <2> QED
    BY <1>0, <2>1, <2>2, <2>3, <2>4 DEF Asked, WaitedForIsShown
<1>13. ASSUME NEW q \in Questions, WaitEnds(q) PROVE Asked'
  <2>1. asked[q] = "open" /\ UNCHANGED <<question, answer>>
    BY <1>13 DEF WaitEnds
  <2>2. asked'[q] = "gaveup" /\ \A p \in Questions : p # q => asked'[p] = asked[p]
    BY <1>13, <1>0 DEF WaitEnds, TypeOK
  <2>3. \A o \in Runs : question[o] # None => question[o] \in Questions
    BY <1>0 DEF TypeOK
  <2> QED
    BY <1>0, <2>1, <2>2, <2>3 DEF Asked, WaitedForIsShown
<1>14. ASSUME NEW q \in Questions, CloseQuestion(q) PROVE Asked'
  <2>1. asked[q] \in {"answered", "gaveup"} /\ UNCHANGED answer
    BY <1>14 DEF CloseQuestion
  <2>2. asked'[q] \in {"closed", "lapsed"} /\ \A p \in Questions : p # q => asked'[p] = asked[p]
    BY <1>14, <1>0 DEF CloseQuestion, TypeOK
  <2>3. \A o \in Runs : question'[o] = IF question[o] = q THEN None ELSE question[o]
    BY <1>14 DEF CloseQuestion
  <2>4. \A o \in Runs : question[o] # None => question[o] \in Questions
    BY <1>0 DEF TypeOK
  <2>5. \A o \in Runs : question'[o] # None => question'[o] = question[o] /\ question[o] # q
    BY <2>3
  <2>6. \A o, p \in Runs : question'[o] # None /\ question'[o] = question'[p] => o = p
    BY <1>0, <2>5 DEF Asked
  <2>7. \A o \in Runs : question'[o] # None =>
          answer'[question'[o]] = None /\ asked'[question'[o]] \in {"open", "gaveup"}
    BY <1>0, <2>1, <2>2, <2>4, <2>5 DEF Asked
  <2>8. \A p \in Questions : asked'[p] = "no" => answer'[p] = None
    BY <1>0, <2>1, <2>2 DEF Asked
  <2>9. ASSUME NEW p \in Questions, asked'[p] = "open", answer'[p] = None
        PROVE  \E o \in Runs : question'[o] = p /\ TaskOf[o] = TaskOf[RunOf[p]]
    <3>1. p # q /\ asked[p] = "open" /\ answer[p] = None
      BY <2>1, <2>2, <2>9
    <3> QED
      BY <1>0, <2>3, <3>1 DEF Asked, WaitedForIsShown
  <2> QED
    BY <2>6, <2>7, <2>8, <2>9 DEF Asked, WaitedForIsShown
<1>15. ASSUME NEW i \in Inputs, Taken(i) PROVE Asked'
  <2>1. UNCHANGED asked
    BY <1>15 DEF Taken
  <2>2. CASE UNCHANGED <<question, answer>>
    BY <1>0, <2>1, <2>2 DEF Asked, WaitedForIsShown
  <2>3. ASSUME NEW r \in Runs, question[r] \in Questions, AnswerLocked(r, i)
        PROVE  Asked'
    <3> DEFINE q == question[r]
    <3>1. /\ answer'[q] = i /\ \A p \in Questions : p # q => answer'[p] = answer[p]
          /\ question'[r] = None /\ \A o \in Runs : o # r => question'[o] = question[o]
      BY <1>0, <2>3, AnswerFacts
    <3>2. \A o \in Runs : question[o] # None => question[o] \in Questions
      BY <1>0 DEF TypeOK
    <3>3. q \in Questions /\ q # None /\ i # None /\ asked[q] # "no"
      BY <1>0, <2>3, ControlAssumption DEF Asked
    <3>4. \A o \in Runs : question'[o] # None => question'[o] = question[o] /\ question[o] # q /\ o # r
      BY <1>0, <3>1, <3>3 DEF Asked
    <3> HIDE DEF q
    <3>5. \A o \in Runs : question'[o] # None =>
            answer'[question'[o]] = None /\ asked'[question'[o]] \in {"open", "gaveup"}
      BY <1>0, <2>1, <3>1, <3>2, <3>4 DEF Asked
    <3>6. \A o, p \in Runs : question'[o] # None /\ question'[o] = question'[p] => o = p
      BY <1>0, <3>4 DEF Asked
    <3>7. \A p \in Questions : asked'[p] = "no" => answer'[p] = None
      BY <1>0, <2>1, <3>1, <3>3 DEF Asked
    <3>8. ASSUME NEW p \in Questions, asked'[p] = "open", answer'[p] = None
          PROVE  \E o \in Runs : question'[o] = p /\ TaskOf[o] = TaskOf[RunOf[p]]
      <4>1. p # q /\ asked[p] = "open" /\ answer[p] = None
        BY <2>1, <3>1, <3>3, <3>8
      <4>2. PICK o \in Runs : question[o] = p /\ TaskOf[o] = TaskOf[RunOf[p]]
        BY <1>0, <4>1 DEF Asked, WaitedForIsShown
      <4>3. o # r
        BY <4>1, <4>2 DEF q
      <4> QED
        BY <3>1, <4>2, <4>3
    <3> QED
      BY <3>5, <3>6, <3>7, <3>8 DEF Asked, WaitedForIsShown
  <2> QED
    BY <1>15, <2>2, <2>3 DEF Taken
<1>16. ASSUME NEW s \in Stops, Halted(s) PROVE Asked'
  <2>1. UNCHANGED questionVars
    BY <1>16 DEF Halted
  <2> QED
    BY <1>0, <2>1 DEF Asked, WaitedForIsShown
<1>17. ASSUME NEW s \in Stops, Cancel(s) PROVE Asked'
  <2>1. UNCHANGED questionVars
    BY <1>17 DEF Cancel
  <2> QED
    BY <1>0, <2>1 DEF Asked, WaitedForIsShown
<1>18. ASSUME NEW s \in Stops, NEW t \in Tasks, StopTask(s, t) PROVE Asked'
  <2>1. UNCHANGED questionVars
    BY <1>18 DEF StopTask
  <2> QED
    BY <1>0, <2>1 DEF Asked, WaitedForIsShown
<1>19. CASE UNCHANGED vars
  BY <1>0, <1>19 DEF Asked, WaitedForIsShown
<1> QED
  BY <1>1, <1>2, <1>3, <1>4, <1>5, <1>6, <1>7, <1>8, <1>9, <1>10, <1>11, <1>12,
     <1>13, <1>14, <1>15, <1>16, <1>17, <1>18, <1>19 DEF Moves

\* An input that answered a question is in no queue.
LEMMA EmptiedAnswered ==
  ASSUME TypeOK, Queued, Answered, NEW r \in Runs, NEW v \in {"applied", "dropped"}, Emptied(r, v),
         UNCHANGED <<answer, asked>>, left \subseteq left'
  PROVE  Answered'
<1>1. \A q \in Questions : answer[q] # None => answer[q] \in Inputs
  BY DEF TypeOK
<1>2. \A j \in Inputs : fate[j] # "queued" => fate'[j] = fate[j]
  BY DEF Queued, Emptied
<1>3. \A j \in Inputs : fate'[j] \in {"sent", "unheard"} => fate[j] = fate'[j]
  BY DEF Emptied
<1>4. \A q \in Questions : answer[q] # None =>
        fate[answer[q]] # "queued" /\ fate'[answer[q]] = fate[answer[q]]
  BY <1>1, <1>2 DEF Answered
<1> QED
  BY <1>3, <1>4 DEF Answered

\* Every step keeps what is known of answers.
LEMMA AnsweredStep == IInv /\ Moves => Answered'
<1> SUFFICES ASSUME IInv, Moves PROVE Answered'
  OBVIOUS
<1> USE DEF vars, runVars, queueVars, questionVars, inputVars
<1>0. TypeOK /\ Queued /\ Asked /\ Answered
  BY DEF IInv
<1>1. ASSUME NEW r \in Runs, Start(r) PROVE Answered'
  <2>1. UNCHANGED <<answer, asked, left, fate>>
    BY <1>1 DEF Start
  <2> QED
    BY <1>0, <2>1 DEF Answered
<1>2. ASSUME NEW r \in Runs, Checkpoint(r) PROVE Answered'
  <2>1. Drain(r) /\ UNCHANGED <<answer, asked, left, to, late>>
    BY <1>2 DEF Checkpoint
  <2>2. Emptied(r, "applied")
    BY <1>0, <2>1, DrainEmpties
  <2> QED
    BY <1>0, <2>1, <2>2, EmptiedAnswered
<1>3. ASSUME NEW r \in Runs, Final(r) PROVE Answered'
  <2>1. UNCHANGED <<answer, asked, left, fate>>
    BY <1>3 DEF Final
  <2> QED
    BY <1>0, <2>1 DEF Answered
<1>4. ASSUME NEW r \in Runs, Conclude(r) PROVE Answered'
  <2>1. Drain(r) /\ UNCHANGED <<answer, asked, to, late>> /\ left \subseteq left'
    BY <1>4 DEF Conclude
  <2>2. Emptied(r, "applied")
    BY <1>0, <2>1, DrainEmpties
  <2> QED
    BY <1>0, <2>1, <2>2, EmptiedAnswered
<1>5. ASSUME NEW r \in Runs, Reconsider(r) PROVE Answered'
  <2>1. UNCHANGED <<answer, asked, left, fate>>
    BY <1>5 DEF Reconsider
  <2> QED
    BY <1>0, <2>1 DEF Answered
<1>6. ASSUME NEW r \in Runs, Ended(r) PROVE Answered'
  <2>1. CloseQueue(r) /\ UNCHANGED <<answer, asked, to, late>> /\ left \subseteq left'
    BY <1>6 DEF Ended
  <2>2. Emptied(r, "dropped")
    BY <1>0, <2>1, CloseEmpties
  <2> QED
    BY <1>0, <2>1, <2>2, EmptiedAnswered
<1>7. ASSUME NEW r \in Runs, Done(r) PROVE Answered'
  <2>1. UNCHANGED <<answer, asked, left, fate>>
    BY <1>7 DEF Done
  <2> QED
    BY <1>0, <2>1 DEF Answered
<1>8. ASSUME NEW r \in Runs, pc[r] = "returned", Departed(r, "reporting") PROVE Answered'
  <2>1. UNCHANGED <<answer, asked, left, fate>>
    BY <1>8 DEF Departed
  <2> QED
    BY <1>0, <2>1 DEF Answered
<1>9. ASSUME NEW r \in Runs, pc[r] = "panicked", Departed(r, "done") PROVE Answered'
  <2>1. UNCHANGED <<answer, asked, left, fate>>
    BY <1>9 DEF Departed
  <2> QED
    BY <1>0, <2>1 DEF Answered
<1>10. ASSUME NEW q \in Questions, Abandon(q) PROVE Answered'
  <2>1. UNCHANGED <<answer, asked, fate>> /\ left \subseteq left'
    BY <1>10 DEF Abandon
  <2> QED
    BY <1>0, <2>1 DEF Answered
<1>11. ASSUME NEW q \in Questions, OpenQuestion(q) PROVE Answered'
  <2>1. /\ asked[q] = "no" /\ answer[q] = None /\ UNCHANGED <<answer, left, fate>>
        /\ \A p \in Questions : p # q => asked'[p] = asked[p]
    BY <1>11, <1>0 DEF OpenQuestion, TypeOK, Asked
  <2>2. \A j \in Inputs : j # None
    BY ControlAssumption
  <2> QED
    BY <1>0, <2>1, <2>2 DEF Answered
<1>12. ASSUME NEW q \in Questions, WaitAnswer(q) PROVE Answered'
  <2>1. /\ asked[q] = "open" /\ asked'[q] = "answered" /\ UNCHANGED <<answer, left, fate>>
        /\ \A p \in Questions : p # q => asked'[p] = asked[p]
    BY <1>12, <1>0 DEF WaitAnswer, TypeOK
  <2> QED
    BY <1>0, <2>1 DEF Answered
<1>13. ASSUME NEW q \in Questions, WaitEnds(q) PROVE Answered'
  <2>1. /\ asked[q] = "open" /\ asked'[q] = "gaveup" /\ UNCHANGED <<answer, left, fate>>
        /\ \A p \in Questions : p # q => asked'[p] = asked[p]
    BY <1>13, <1>0 DEF WaitEnds, TypeOK
  <2> QED
    BY <1>0, <2>1 DEF Answered
<1>14. ASSUME NEW q \in Questions, CloseQuestion(q) PROVE Answered'
  <2> DEFINE a == answer[q]
  <2>1. /\ asked[q] \in {"answered", "gaveup"} /\ UNCHANGED <<answer, left>>
        /\ asked'[q] = IF asked[q] = "answered" THEN "closed" ELSE "lapsed"
        /\ \A p \in Questions : p # q => asked'[p] = asked[p]
    BY <1>14, <1>0 DEF CloseQuestion, TypeOK
  <2>2. \A j \in Inputs : fate'[j] = IF a # j THEN fate[j]
          ELSE IF asked[q] = "answered" /\ q \notin left THEN "heard" ELSE "unheard"
    BY <1>14 DEF CloseQuestion
  <2>3. \A p \in Questions : answer[p] # None => answer[p] \in Inputs
    BY <1>0 DEF TypeOK
  <2>4. \A p \in Questions : p # q /\ answer[p] # None => fate'[answer[p]] = fate[answer[p]]
    BY <1>0, <2>2, <2>3 DEF Answered
  <2>5. a # None => a \in Inputs /\ fate'[a] \in {"heard", "unheard"}
    BY <2>2, <2>3
  <2> HIDE DEF a
  <2>6. \A p \in Questions : answer'[p] # None =>
          /\ fate'[answer'[p]] \notin {"new", "queued"}
          /\ asked'[p] \in {"open", "answered", "gaveup"} => fate'[answer'[p]] = "sent"
    BY <1>0, <2>1, <2>4, <2>5 DEF Answered, a
  <2>7. ASSUME NEW j \in Inputs, fate'[j] = "sent"
        PROVE  \E p \in Questions : answer'[p] = j /\ asked'[p] \in {"open", "answered", "gaveup"}
    <3>1. j # a /\ fate[j] = "sent"
      BY <2>2, <2>7
    <3> QED
      BY <1>0, <2>1, <3>1 DEF Answered, a
  <2>8. ASSUME NEW j \in Inputs, fate'[j] = "unheard"
        PROVE  \E p \in Questions : answer'[p] = j /\ (asked'[p] = "lapsed" \/ p \in left')
    <3>1. CASE j = a
      BY <2>1, <2>2, <2>8, <3>1 DEF a
    <3>2. CASE j # a
      <4>1. fate[j] = "unheard"
        BY <2>2, <2>8, <3>2
      <4>2. PICK p \in Questions : answer[p] = j /\ (asked[p] = "lapsed" \/ p \in left)
        BY <1>0, <4>1 DEF Answered
      <4> QED
        BY <2>1, <3>2, <4>2 DEF a
    <3> QED
      BY <3>1, <3>2
  <2>9. \A p, o \in Questions : answer'[p] # None /\ answer'[p] = answer'[o] => p = o
    BY <1>0, <2>1 DEF Answered
  <2> QED
    BY <2>6, <2>7, <2>8, <2>9 DEF Answered
<1>15. ASSUME NEW i \in Inputs, Taken(i) PROVE Answered'
  <2>1. fate[i] = "new" /\ UNCHANGED <<asked, left>>
    BY <1>15 DEF Taken
  <2>2. \A p \in Questions : answer[p] # None => answer[p] \in Inputs /\ answer[p] # i
    BY <1>0, <2>1 DEF TypeOK, Answered
  <2>3. ASSUME NEW r, NEW v \in {"task", "refused", "queued"}, Put(i, v, r), UNCHANGED answer
        PROVE  Answered'
    <3>1. fate'[i] = v /\ \A j \in Inputs : j # i => fate'[j] = fate[j]
      BY <1>0, <2>3, PutFacts
    <3>2. \A p \in Questions : answer[p] # None => fate'[answer[p]] = fate[answer[p]]
      BY <2>2, <3>1
    <3>3. \A j \in Inputs : fate'[j] \in {"sent", "unheard"} => fate[j] = fate'[j]
      BY <3>1
    <3> QED
      BY <1>0, <2>1, <2>3, <3>2, <3>3 DEF Answered
  <2>4. ASSUME NEW r \in Runs, question[r] \in Questions, AnswerLocked(r, i)
        PROVE  Answered'
    <3> DEFINE q == question[r]
    <3>1. answer'[q] = i /\ \A p \in Questions : p # q => answer'[p] = answer[p]
      BY <1>0, <2>4, AnswerFacts
    <3>2. q \in Questions /\ answer[q] = None /\ asked[q] \in {"open", "gaveup"}
      BY <1>0, <2>4, ControlAssumption DEF Asked
    <3>3. fate'[i] = "sent" /\ \A j \in Inputs : j # i => fate'[j] = fate[j]
      BY <1>0, <2>4, AnswerFacts, PutFacts
    <3>4. \A p \in Questions : p # q /\ answer[p] # None => fate'[answer[p]] = fate[answer[p]]
      BY <2>2, <3>3
    <3> HIDE DEF q
    <3>5. \A p \in Questions : answer'[p] # None =>
            /\ fate'[answer'[p]] \notin {"new", "queued"}
            /\ asked'[p] \in {"open", "answered", "gaveup"} => fate'[answer'[p]] = "sent"
      BY <1>0, <2>1, <3>1, <3>3, <3>4 DEF Answered
    <3>6. \A p, o \in Questions : answer'[p] # None /\ answer'[p] = answer'[o] => p = o
      BY <1>0, <2>2, <3>1, <3>2 DEF Answered
    <3>7. ASSUME NEW j \in Inputs, fate'[j] = "sent"
          PROVE  \E p \in Questions : answer'[p] = j /\ asked'[p] \in {"open", "answered", "gaveup"}
      <4>1. CASE j = i
        BY <2>1, <3>1, <3>2, <4>1
      <4>2. CASE j # i
        <5>1. PICK p \in Questions : answer[p] = j /\ asked[p] \in {"open", "answered", "gaveup"}
          BY <1>0, <3>3, <3>7, <4>2 DEF Answered
        <5> QED
          BY <2>1, <3>1, <3>2, <5>1, ControlAssumption
      <4> QED
        BY <4>1, <4>2
    <3>8. ASSUME NEW j \in Inputs, fate'[j] = "unheard"
          PROVE  \E p \in Questions : answer'[p] = j /\ (asked'[p] = "lapsed" \/ p \in left')
      <4>1. PICK p \in Questions : answer[p] = j /\ (asked[p] = "lapsed" \/ p \in left)
        BY <1>0, <3>3, <3>8 DEF Answered
      <4> QED
        BY <2>1, <3>1, <3>2, <4>1, ControlAssumption
    <3> QED
      BY <3>5, <3>6, <3>7, <3>8 DEF Answered
  <2> QED
    BY <1>15, <2>3, <2>4 DEF Taken
<1>16. ASSUME NEW s \in Stops, Halted(s) PROVE Answered'
  <2>1. UNCHANGED <<answer, asked, left, to, late>>
    BY <1>16 DEF Halted
  <2>2. CASE UNCHANGED <<stopRequested, queueVars, fate>>
    BY <1>0, <2>1, <2>2 DEF Answered
  <2>3. ASSUME NEW r \in Runs, CloseQueue(r) PROVE Answered'
    BY <1>0, <2>1, <2>3, CloseEmpties, EmptiedAnswered
  <2> QED
    BY <1>16, <2>2, <2>3 DEF Halted
<1>17. ASSUME NEW s \in Stops, Cancel(s) PROVE Answered'
  <2>1. UNCHANGED <<answer, asked, left, fate>>
    BY <1>17 DEF Cancel
  <2> QED
    BY <1>0, <2>1 DEF Answered
<1>18. ASSUME NEW s \in Stops, NEW t \in Tasks, StopTask(s, t) PROVE Answered'
  <2>1. UNCHANGED <<answer, asked, left, fate>>
    BY <1>18 DEF StopTask
  <2> QED
    BY <1>0, <2>1 DEF Answered
<1>19. CASE UNCHANGED vars
  BY <1>0, <1>19 DEF Answered
<1> QED
  BY <1>1, <1>2, <1>3, <1>4, <1>5, <1>6, <1>7, <1>8, <1>9, <1>10, <1>11, <1>12,
     <1>13, <1>14, <1>15, <1>16, <1>17, <1>18, <1>19 DEF Moves

\* Every step keeps what the calls of Stop have found.
LEMMA StoppingStep == IInv /\ Moves => Stopping'
<1> SUFFICES ASSUME IInv, Moves PROVE Stopping'
  OBVIOUS
<1> USE DEF vars, runVars, queueVars, questionVars, inputVars
<1>0. TypeOK /\ Stopping
  BY DEF IInv
<1>1. ASSUME NEW r \in Runs, Start(r) PROVE Stopping'
  <2>1. UNCHANGED stop
    BY <1>1 DEF Start
  <2> QED
    BY <1>0, <2>1 DEF Stopping, StopsItsTask
<1>2. ASSUME NEW r \in Runs, Checkpoint(r) PROVE Stopping'
  <2>1. UNCHANGED stop
    BY <1>2 DEF Checkpoint
  <2> QED
    BY <1>0, <2>1 DEF Stopping, StopsItsTask
<1>3. ASSUME NEW r \in Runs, Final(r) PROVE Stopping'
  <2>1. UNCHANGED stop
    BY <1>3 DEF Final
  <2> QED
    BY <1>0, <2>1 DEF Stopping, StopsItsTask
<1>4. ASSUME NEW r \in Runs, Conclude(r) PROVE Stopping'
  <2>1. UNCHANGED stop
    BY <1>4 DEF Conclude
  <2> QED
    BY <1>0, <2>1 DEF Stopping, StopsItsTask
<1>5. ASSUME NEW r \in Runs, Reconsider(r) PROVE Stopping'
  <2>1. UNCHANGED stop
    BY <1>5 DEF Reconsider
  <2> QED
    BY <1>0, <2>1 DEF Stopping, StopsItsTask
<1>6. ASSUME NEW r \in Runs, Ended(r) PROVE Stopping'
  <2>1. UNCHANGED stop
    BY <1>6 DEF Ended
  <2> QED
    BY <1>0, <2>1 DEF Stopping, StopsItsTask
<1>7. ASSUME NEW r \in Runs, Done(r) PROVE Stopping'
  <2>1. UNCHANGED stop
    BY <1>7 DEF Done
  <2> QED
    BY <1>0, <2>1 DEF Stopping, StopsItsTask
<1>8. ASSUME NEW r \in Runs, pc[r] = "returned", Departed(r, "reporting") PROVE Stopping'
  <2>1. UNCHANGED stop
    BY <1>8 DEF Departed
  <2> QED
    BY <1>0, <2>1 DEF Stopping, StopsItsTask
<1>9. ASSUME NEW r \in Runs, pc[r] = "panicked", Departed(r, "done") PROVE Stopping'
  <2>1. UNCHANGED stop
    BY <1>9 DEF Departed
  <2> QED
    BY <1>0, <2>1 DEF Stopping, StopsItsTask
<1>10. ASSUME NEW q \in Questions, Abandon(q) PROVE Stopping'
  <2>1. UNCHANGED stop
    BY <1>10 DEF Abandon
  <2> QED
    BY <1>0, <2>1 DEF Stopping, StopsItsTask
<1>11. ASSUME NEW q \in Questions, OpenQuestion(q) PROVE Stopping'
  <2>1. UNCHANGED stop
    BY <1>11 DEF OpenQuestion
  <2> QED
    BY <1>0, <2>1 DEF Stopping, StopsItsTask
<1>12. ASSUME NEW q \in Questions, WaitAnswer(q) PROVE Stopping'
  <2>1. UNCHANGED stop
    BY <1>12 DEF WaitAnswer
  <2> QED
    BY <1>0, <2>1 DEF Stopping, StopsItsTask
<1>13. ASSUME NEW q \in Questions, WaitEnds(q) PROVE Stopping'
  <2>1. UNCHANGED stop
    BY <1>13 DEF WaitEnds
  <2> QED
    BY <1>0, <2>1 DEF Stopping, StopsItsTask
<1>14. ASSUME NEW q \in Questions, CloseQuestion(q) PROVE Stopping'
  <2>1. UNCHANGED stop
    BY <1>14 DEF CloseQuestion
  <2> QED
    BY <1>0, <2>1 DEF Stopping, StopsItsTask
<1>15. ASSUME NEW i \in Inputs, Taken(i) PROVE Stopping'
  <2>1. UNCHANGED stop
    BY <1>15 DEF Taken
  <2> QED
    BY <1>0, <2>1 DEF Stopping, StopsItsTask
<1>16. ASSUME NEW s \in Stops, Halted(s) PROVE Stopping'
  <2>1. PICK r \in Runs \cup {None}, at \in {"cancel", "told"} :
          /\ Told(s, r, at) /\ (at = "cancel" => r \in Runs)
          /\ (r # None /\ stop[s].task # None => TaskOf[r] = stop[s].task)
    BY <1>16 DEF Halted
  <2>2. /\ stop'[s].found = r /\ stop'[s].at = at /\ stop'[s].task = stop[s].task
        /\ \A z \in Stops : z # s => stop'[z] = stop[z]
    BY <2>1, ToldFacts
  <2> QED
    BY <1>0, <2>1, <2>2 DEF Stopping, StopsItsTask
<1>17. ASSUME NEW s \in Stops, Cancel(s) PROVE Stopping'
  <2>1. stop[s].at = "cancel" /\ stop' = [stop EXCEPT ![s].at = "told"]
    BY <1>17 DEF Cancel
  <2>2. /\ stop'[s].found = stop[s].found /\ stop'[s].at = "told" /\ stop'[s].task = stop[s].task
        /\ \A z \in Stops : z # s => stop'[z] = stop[z]
    BY <2>1, TellFacts
  <2> QED
    BY <1>0, <2>1, <2>2 DEF Stopping, StopsItsTask
<1>18. ASSUME NEW s \in Stops, NEW t \in Tasks, StopTask(s, t) PROVE Stopping'
  <2>1. stop[s].at = "idle" /\ stop[s].task = None
    BY <1>18, <1>0 DEF StopTask, Stopping
  <2>2. CASE Told(s, None, "told")
    <3>1. /\ stop'[s].found = None /\ stop'[s].at = "told" /\ stop'[s].task = None
          /\ \A z \in Stops : z # s => stop'[z] = stop[z]
      BY <2>1, <2>2, ToldFacts
    <3> QED
      BY <1>0, <3>1 DEF Stopping, StopsItsTask
  <2>3. ASSUME NEW k \in Convs, stop' = [stop EXCEPT ![s].task = t, ![s].at = "found", ![s].found = k]
        PROVE  Stopping'
    <3>1. /\ stop'[s].found = k /\ stop'[s].at = "found"
          /\ \A z \in Stops : z # s => stop'[z] = stop[z]
      BY <2>3, FoundFacts
    <3> QED
      BY <1>0, <3>1 DEF Stopping, StopsItsTask
  <2> QED
    BY <1>18, <2>2, <2>3 DEF StopTask
<1>19. CASE UNCHANGED vars
  BY <1>0, <1>19 DEF Stopping, StopsItsTask
<1> QED
  BY <1>1, <1>2, <1>3, <1>4, <1>5, <1>6, <1>7, <1>8, <1>9, <1>10, <1>11, <1>12,
     <1>13, <1>14, <1>15, <1>16, <1>17, <1>18, <1>19 DEF Moves

-----------------------------------------------------------------------------
\* Nothing is registered, queued, asked or stopped at the start.
LEMMA InitInv == Init => IInv
<1> SUFFICES ASSUME Init PROVE IInv
  OBVIOUS
<1>1. \A o \in Runs, j \in Inputs : ~InQueue(o, j)
  BY EmptyHasNone DEF Init, InQueue
<1>2. <<>> \in Seq(Inputs)
  OBVIOUS
<1>3. TypeOK
  <2>1. queue \in [Runs -> Seq(Inputs)]
    BY <1>2 DEF Init
  <2>2. stop \in [Stops -> [at : {"idle", "found", "cancel", "told"}, task : Tasks \cup {None},
                            found : Runs \cup Convs \cup {None}]]
    BY DEF Init
  <2> QED
    BY <2>1, <2>2 DEF Init, TypeOK
<1>4. Shown
  BY DEF Init, Shown, Live
<1>5. Queued /\ Excused
  BY <1>1 DEF Init, Queued, Excused
<1>6. Asked /\ Answered
  BY DEF Init, Asked, Answered, WaitedForIsShown
<1>7. Stopping
  BY ControlAssumption DEF Init, Stopping, StopsItsTask
<1> QED
  BY <1>3, <1>4, <1>5, <1>6, <1>7 DEF IInv

\* Every step keeps the invariant.
LEMMA Inductive == IInv /\ [Next]_vars => IInv'
<1> SUFFICES ASSUME IInv, [Next]_vars PROVE IInv'
  OBVIOUS
<1>1. Moves
  BY StepMoves
<1> QED
  BY <1>1, TypeStep, ShownStep, QueuedStep, ExcusedStep, AskedStep, AnsweredStep,
     StoppingStep DEF IInv

\* The registry of active runs, its queues and its questions stay as IInv says.
THEOREM Invariance == Spec => []IInv
BY InitInv, Inductive, PTL DEF Spec

\* Every variable of the registry keeps its type.
THEOREM TypeCorrect == Spec => []TypeOK
<1>1. IInv => TypeOK
  BY DEF IInv
<1> QED
  BY <1>1, Invariance, PTL

\* A conversation shows the run of its handler and no other: StartLease refuses
\* no job because an earlier one, which may have panicked, is still registered,
\* also when two runs have the same task.
THEOREM RunsAreRegistered == Spec => []Registered
<1>1. IInv => Registered
  BY DEF IInv, Shown, Registered
<1> QED
  BY <1>1, Invariance, PTL

\* StopTask looks up the key of the task and stops what is there in a second
\* step; it stops no other task.
THEOREM TheRightTaskStops == Spec => []StopsItsTask
<1>1. IInv => StopsItsTask
  BY DEF IInv, Stopping
<1> QED
  BY <1>1, Invariance, PTL

\* Steer and AnswerText tell the user that a message was accepted.  It is dropped
\* only with a run that was stopped or failed or returned on a way without a
\* drain, or after the drain that found the queue empty; an answer is lost only
\* when its tool call gave up or was abandoned.
THEOREM AcceptedMessagesAreAccountedFor == Spec => []LostForAReason
<1>1. ASSUME IInv PROVE LostForAReason
  <2>1. \A i \in Inputs : fate[i] = "queued" => pc[to[i]] # "done"
    <3>1. \A r \in closed, i \in Inputs : ~InQueue(r, i)
      BY <1>1, EmptyHasNone DEF IInv, Queued, InQueue
    <3> QED
      BY <1>1, <3>1 DEF IInv, Queued
  <2>2. \A i \in Inputs : fate[i] = "sent" =>
          \E q \in Questions : answer[q] = i /\ asked[q] \notin {"closed", "lapsed"}
    BY <1>1 DEF IInv, Answered
  <2>3. \A i \in Inputs : fate[i] = "unheard" =>
          \E q \in Questions : answer[q] = i /\ (asked[q] = "lapsed" \/ q \in left)
    BY <1>1 DEF IInv, Answered
  <2>4. \A i \in Inputs : fate[i] = "dropped" =>
          to[i] \in stopRequested \cup failed \cup cut \/ i \in late
    BY <1>1 DEF IInv, Excused
  <2> QED
    BY <2>1, <2>2, <2>3, <2>4 DEF LostForAReason
<1> QED
  BY <1>1, Invariance, PTL

\* Who waits for an answer can be answered: a question of the same run, whose
\* call ends late, does not close this one.
THEOREM WaitingQuestionsAreShown == Spec => []WaitedForIsShown
<1>1. IInv => WaitedForIsShown
  BY DEF IInv, Asked
<1> QED
  BY <1>1, Invariance, PTL

\* A question gets one answer, so the sender, which holds RunControl.mu, never
\* blocks on the channel of capacity one.
THEOREM QuestionsGetOneAnswer == Spec => OneAnswer
<1>1. ASSUME IInv, [Next]_vars
      PROVE  \A q \in Questions : answer[q] # None => answer'[q] = answer[q]
  <2>1. Moves
    BY <1>1, StepMoves
  <2>2. ASSUME NEW i \in Inputs, Taken(i), NEW p \in Questions, answer[p] # None
        PROVE  answer'[p] = answer[p]
    <3>1. CASE UNCHANGED answer
      BY <3>1
    <3>2. ASSUME NEW r \in Runs, question[r] \in Questions, AnswerLocked(r, i)
          PROVE  answer'[p] = answer[p]
      <4>1. question[r] # p
        BY <1>1, <2>2, <3>2, ControlAssumption DEF IInv, Asked
      <4> QED
        BY <1>1, <3>2, <4>1, AnswerFacts DEF IInv
    <3> QED
      BY <2>2, <3>1, <3>2 DEF Taken
  <2>3. ASSUME NEW r \in Runs,
               \/ Start(r) \/ Checkpoint(r) \/ Final(r) \/ Conclude(r) \/ Reconsider(r) \/ Ended(r)
               \/ Done(r) \/ Departed(r, "reporting") \/ Departed(r, "done")
        PROVE  UNCHANGED answer
    BY <2>3 DEF Start, Checkpoint, Final, Conclude, Reconsider, Ended, Done, Departed, questionVars
  <2>4. ASSUME NEW q \in Questions,
               Abandon(q) \/ OpenQuestion(q) \/ WaitAnswer(q) \/ WaitEnds(q) \/ CloseQuestion(q)
        PROVE  UNCHANGED answer
    BY <2>4 DEF Abandon, OpenQuestion, WaitAnswer, WaitEnds, CloseQuestion
  <2>5. ASSUME NEW s \in Stops, Halted(s) \/ Cancel(s) \/ \E t \in Tasks : StopTask(s, t)
        PROVE  UNCHANGED answer
    BY <2>5 DEF Halted, Cancel, StopTask, questionVars
  <2>6. CASE UNCHANGED vars
    BY <2>6 DEF vars, questionVars
  <2> QED
    BY <2>1, <2>2, <2>3, <2>4, <2>5, <2>6 DEF Moves
<1> QED
  BY <1>1, Invariance, PTL DEF Spec, OneAnswer

=============================================================================
