---------------------------- MODULE TaskIntakeProofs ----------------------------
(***************************************************************************)
(* Theorems about TaskIntake for any messages and any number of crashes,   *)
(* losses of the connection and failed writes.  IInv is the inductive      *)
(* invariant: the view and the snapshot agree with the journal, every      *)
(* point of the path from the connection to the acknowledgement knows that *)
(* the message was taken, and a task that was queued once is in one place. *)
(* What Replay computes is proved by induction over the journal.           *)
(***************************************************************************)
EXTENDS TaskIntake, FiniteSetTheorems, SequenceTheorems, WellFoundedInduction, TLAPS

HasTask(m) == Status(m) # "none"
Taken(m) == HasTask(m) \/ beside[m] # "none"
In(q, m) == \E i \in 1 .. Len(q) : q[i] = m
Once(q, m) == \A i, j \in 1 .. Len(q) : q[i] = m /\ q[j] = m => i = j
Runs(m) == job.at # "idle" /\ job.msg = m
Waits(m) == recorded /\ Head(bus) = m

\* What the process has in memory is what it would load.
View ==
  /\ Replay(NoItems, journal) \in [Msgs -> Statuses]
  /\ stage # "down" => items = Replay(NoItems, journal) /\ cursor = Len(journal)

\* The events after the snapshot complete it.
Snapshot ==
  Replay(snapshot.items, SubSeq(journal, snapshot.cursor + 1, Len(journal)))
    = Replay(NoItems, journal)

\* Until the store has recovered nothing else runs.
Down ==
  stage # "up" =>
    /\ client = Idle /\ bus = <<>> /\ ~looked /\ ~recorded /\ result = "none"
    /\ jobs = <<>> /\ job = Idle

\* The result a client takes is that of the message it published.
Order ==
  /\ client.at = "wait" /\ result = "none" => bus # <<>> /\ bus[Len(bus)] = client.msg
  /\ client.at = "wait" /\ result # "none" => bus = <<>>
  /\ recorded => looked
  /\ looked => bus # <<>>

\* Whoever reports that a message was taken knows that its task is in the journal,
\* or that it was steered or answered.
Kept ==
  /\ \A m \in acked \cup inbox : Taken(m)
  /\ client.at \in {"put", "ack"} => Taken(client.msg)
  /\ client.at = "wait" /\ result = "ok" => Taken(client.msg)
  /\ recorded => HasTask(Head(bus))

\* A task that was queued once is with the subscriber, in the queue of the
\* runner or with the worker, and its status says which.
InOnePlace(m) ==
  /\ Waits(m) => Status(m) = "queued" /\ ~In(jobs, m) /\ ~Runs(m)
  /\ In(jobs, m) => Status(m) = "queued" /\ Once(jobs, m) /\ ~Runs(m)
  /\ Runs(m) => Status(m) = "running"
Placed ==
  \A m \in Msgs :
    /\ Times(m, "queued") = 0 => Status(m) = "none"
    /\ Times(m, "queued") <= 1 => InOnePlace(m)

IInv == TypeOK /\ View /\ Snapshot /\ Down /\ Order /\ Kept /\ Placed

-----------------------------------------------------------------------------
\* A set of numbers has a least one, which is what induction rests on here.
LEMMA Least ==
  ASSUME NEW S \in SUBSET Nat, S # {}
  PROVE  \E n \in S : \A m \in S : n <= m
<1>1. PICK n \in S : \A m \in S : ~(<<m, n>> \in OpToRel(<, Nat))
  BY WFMin, NatLessThanWellFounded
<1>2. \A m \in S : ~(m < n)
  BY <1>1 DEF OpToRel
<1> QED
  BY <1>2

\* Induction for a set of numbers.
LEMMA Induction ==
  ASSUME NEW S \in SUBSET Nat, 0 \in S, \A n \in S : n + 1 \in S
  PROVE  S = Nat
<1>1. SUFFICES ASSUME S # Nat PROVE FALSE
  OBVIOUS
<1>2. PICK n \in Nat \ S : \A m \in Nat \ S : n <= m
  BY <1>1, Least
<1>3. n - 1 \in S
  BY <1>2
<1> QED
  BY <1>2, <1>3

\* f has the views after the first N events of js and fewer.
Replays(view, js, N, f) ==
  f = [n \in 0 .. N |->
        IF n = 0 THEN view ELSE Apply(f[n - 1], js[n])]

\* What that says of each number of events.
LEMMA ReplaysAt ==
  ASSUME NEW view, NEW js, NEW N \in Nat, NEW f, Replays(view, js, N, f)
  PROVE  /\ f[0] = view
         /\ \A n \in 1 .. N : f[n] = Apply(f[n - 1], js[n])
<1> DEFINE E(n) == IF n = 0 THEN view ELSE Apply(f[n - 1], js[n])
<1>1. f = [n \in 0 .. N |-> E(n)]
  BY DEF Replays
<1> HIDE DEF E
<1>2. \A n \in 0 .. N : f[n] = E(n)
  BY <1>1
<1>3. 0 \in 0 .. N /\ \A n \in 1 .. N : n \in 0 .. N /\ n # 0
  OBVIOUS
<1> QED
  BY <1>2, <1>3 DEF E

\* The views after the events that two journals have in common are the same.
LEMMA ReplaysAgree ==
  ASSUME NEW view, NEW js, NEW ks, NEW N \in Nat, NEW M \in Nat, NEW f, NEW g,
         Replays(view, js, N, f), Replays(view, ks, M, g),
         N <= M, \A n \in 1 .. N : js[n] = ks[n]
  PROVE  \A n \in 0 .. N : f[n] = g[n]
<1>1. /\ f[0] = view
      /\ \A n \in 1 .. N : f[n] = Apply(f[n - 1], js[n])
  BY ReplaysAt
<1>2. /\ g[0] = view
      /\ \A n \in 1 .. M : g[n] = Apply(g[n - 1], ks[n])
  BY ReplaysAt
<1> DEFINE S == {n \in Nat : n <= N => f[n] = g[n]}
<1>3. 0 \in S
  BY <1>1, <1>2
<1>4. ASSUME NEW n \in S PROVE n + 1 \in S
  <2> SUFFICES ASSUME n + 1 <= N PROVE f[n + 1] = g[n + 1]
    OBVIOUS
  <2>1. f[n] = g[n] /\ n + 1 \in 1 .. N /\ n + 1 \in 1 .. M /\ (n + 1) - 1 = n
    BY <1>4
  <2>2. f[n + 1] = Apply(f[(n + 1) - 1], js[n + 1])
    BY <2>1, <1>1
  <2>3. g[n + 1] = Apply(g[(n + 1) - 1], ks[n + 1])
    BY <2>1, <1>2
  <2> QED
    BY <2>1, <2>2, <2>3
<1>5. S = Nat
  BY <1>3, <1>4, Induction
<1> QED
  BY <1>5

\* There are such views for any number of events.
LEMMA ReplaysExist ==
  ASSUME NEW view, NEW js
  PROVE  \A N \in Nat : \E f : Replays(view, js, N, f)
<1> DEFINE S == {N \in Nat : \E f : Replays(view, js, N, f)}
<1>1. 0 \in S
  <2>1. Replays(view, js, 0, [n \in 0 .. 0 |-> view])
    BY DEF Replays
  <2> QED
    BY <2>1
<1>2. ASSUME NEW N \in S PROVE N + 1 \in S
  <2>1. PICK f : Replays(view, js, N, f)
    BY <1>2
  <2> DEFINE last == Apply(f[N], js[N + 1])
             g == [n \in 0 .. N + 1 |-> IF n = N + 1 THEN last ELSE f[n]]
  <2>2. \A n \in 0 .. N : g[n] = f[n]
    OBVIOUS
  <2>3. ASSUME NEW n \in 0 .. N + 1
        PROVE  g[n] = IF n = 0 THEN view ELSE Apply(g[n - 1], js[n])
    <3>1. CASE n = 0
      <4>1. f[0] = view /\ g[0] = f[0]
        BY <2>1, <2>2, ReplaysAt
      <4> HIDE DEF g
      <4> QED
        BY <4>1, <3>1
    <3>2. CASE n \in 1 .. N
      <4>1. f[n] = Apply(f[n - 1], js[n])
        BY <3>2, <2>1, ReplaysAt
      <4>2. g[n] = f[n] /\ g[n - 1] = f[n - 1] /\ n # 0
        BY <3>2, <2>2
      <4> HIDE DEF g
      <4> QED
        BY <4>1, <4>2
    <3>3. CASE n = N + 1
      <4>1. g[n] = last /\ g[n - 1] = f[N] /\ n # 0
        BY <3>3, <2>2
      <4> HIDE DEF g
      <4> QED
        BY <4>1, <3>3
    <3> QED
      BY <3>1, <3>2, <3>3
  <2>4. g = [n \in 0 .. N + 1 |->
              IF n = 0 THEN view ELSE Apply(g[n - 1], js[n])]
    BY <2>3
  <2> HIDE DEF g
  <2>5. Replays(view, js, N + 1, g)
    BY <2>4 DEF Replays
  <2> QED
    BY <2>5
<1>3. S = Nat
  BY <1>1, <1>2, Induction
<1> QED
  BY <1>3

\* Replay is the last of them.
LEMMA ReplayIs ==
  ASSUME NEW view, NEW js, NEW f, Len(js) \in Nat, Replays(view, js, Len(js), f)
  PROVE  Replay(view, js) = f[Len(js)]
<1> DEFINE after[n \in 0 .. Len(js)] ==
             IF n = 0 THEN view ELSE Apply(after[n - 1], js[n])
<1>1. Replay(view, js) = after[Len(js)]
  BY DEF Replay
<1>2. after = CHOOSE g : Replays(view, js, Len(js), g)
  BY DEF Replays
<1> HIDE DEF after
<1>3. Replays(view, js, Len(js), after)
  BY <1>2
<1>4. \A n \in 0 .. Len(js) : after[n] = f[n]
  BY <1>3, ReplaysAgree
<1> QED
  BY <1>1, <1>4

\* Replay on an empty journal, and on one that grows by an event.
LEMMA ReplayFacts ==
  ASSUME NEW view
  PROVE  /\ Replay(view, <<>>) = view
         /\ \A js \in Seq(Events), e \in Events :
              Replay(view, Append(js, e)) = Apply(Replay(view, js), e)
<1>1. Replay(view, <<>>) = view
  <2>1. PICK f : Replays(view, <<>>, 0, f)
    BY ReplaysExist
  <2>2. Len(<<>>) = 0 /\ f[0] = view
    BY <2>1, ReplaysAt
  <2> QED
    BY <2>1, <2>2, ReplayIs
<1>2. ASSUME NEW js \in Seq(Events), NEW e \in Events
      PROVE  Replay(view, Append(js, e)) = Apply(Replay(view, js), e)
  <2> DEFINE N == Len(js)
             M == N + 1
             ks == Append(js, e)
  <2>1. /\ N \in Nat /\ N \in 0 .. N /\ N = Len(js)
        /\ M \in Nat /\ N <= M /\ M \in 1 .. M /\ M - 1 = N
        /\ M = Len(ks) /\ ks[M] = e
        /\ \A n \in 1 .. N : js[n] = ks[n]
    BY AppendProperties
  <2> HIDE DEF N, M, ks
  <2>2. PICK f : Replays(view, js, N, f)
    BY <2>1, ReplaysExist
  <2>3. PICK g : Replays(view, ks, M, g)
    BY <2>1, ReplaysExist
  <2>4. \A n \in 0 .. N : f[n] = g[n]
    <3>1. N \in Nat /\ M \in Nat /\ N <= M /\ \A n \in 1 .. N : js[n] = ks[n]
      BY <2>1
    <3> QED
      BY <2>2, <2>3, <3>1, ReplaysAgree, SMT
  <2>5. g[M] = Apply(g[M - 1], ks[M])
    BY <2>1, <2>3, ReplaysAt
  <2>6. Replay(view, js) = f[N] /\ Replay(view, ks) = g[M]
    BY <2>1, <2>2, <2>3, ReplayIs
  <2>7. Replay(view, ks) = Apply(Replay(view, js), e)
    BY <2>1, <2>4, <2>5, <2>6
  <2> QED
    BY <2>7 DEF ks
<1> QED
  BY <1>1, <1>2

\* What follows a position of a journal that grows by an event.
LEMMA Rest ==
  ASSUME NEW js \in Seq(Events), NEW e \in Events, NEW c \in 0 .. Len(js)
  PROVE  /\ SubSeq(js, c + 1, Len(js)) \in Seq(Events)
         /\ SubSeq(Append(js, e), c + 1, Len(js) + 1) = Append(SubSeq(js, c + 1, Len(js)), e)
<1> DEFINE N == Len(js)
           ks == Append(js, e)
           rest == SubSeq(js, c + 1, N)
           longer == SubSeq(ks, c + 1, N + 1)
<1>1. /\ N \in Nat /\ c \in 0 .. N /\ c + 1 \in Int /\ N \in Int /\ N + 1 \in Int
      /\ \A i \in c + 1 .. N : js[i] \in Events
  OBVIOUS
<1>2. /\ \A i \in 1 .. N : ks[i] = js[i]
      /\ ks[N + 1] = e
  BY AppendProperties
<1> HIDE DEF N, ks
<1>3. \A i \in c + 1 .. N + 1 : ks[i] \in Events
  BY <1>1, <1>2
<1>4. /\ rest \in Seq(Events) /\ Len(rest) = N - c
      /\ \A i \in 1 .. N - c : rest[i] = js[c + i]
  BY <1>1, SubSeqProperties
<1>5. /\ longer \in Seq(Events) /\ Len(longer) = N - c + 1
      /\ \A i \in 1 .. N - c + 1 : longer[i] = ks[c + i]
  BY <1>1, <1>3, SubSeqProperties
<1> HIDE DEF rest, longer
<1>6. /\ Append(rest, e) \in Seq(Events) /\ Len(Append(rest, e)) = N - c + 1
      /\ \A i \in 1 .. N - c : Append(rest, e)[i] = rest[i]
      /\ Append(rest, e)[N - c + 1] = e
  BY <1>4, AppendProperties
<1>7. ASSUME NEW i \in 1 .. N - c + 1 PROVE longer[i] = Append(rest, e)[i]
  <2>1. CASE i \in 1 .. N - c
    BY <2>1, <1>1, <1>2, <1>4, <1>5, <1>6
  <2>2. CASE i = N - c + 1
    BY <2>2, <1>1, <1>2, <1>5, <1>6
  <2>3. i \in 1 .. N - c \/ i = N - c + 1
    BY <1>1
  <2> QED
    BY <2>1, <2>2, <2>3
<1>8. longer = Append(rest, e)
  BY <1>5, <1>6, <1>7, SeqEqual
<1> QED
  BY <1>4, <1>8 DEF longer, rest, ks, N

-----------------------------------------------------------------------------
\* What RecordTaskUpsert and RecordTaskUpdate have done when they return.
RecordResult(m, status) ==
  \/ /\ Written
     /\ journal' = Append(journal, [msg |-> m, status |-> status])
     /\ cursor' = Len(journal') /\ items' = [items EXCEPT ![m] = status]
     /\ Replay(NoItems, journal)' = items'
     /\ \A x \in Msgs : Status(x)' = IF x = m THEN status ELSE Status(x)
     /\ snapshot' = snapshot => Snapshot'
  \/ /\ ~Written
     /\ UNCHANGED <<journal, cursor, items>>

\* That they do so, and keep the types.
LEMMA RecordFacts ==
  ASSUME TypeOK, View, Snapshot, NEW m \in Msgs, NEW status \in Unfinished \cup Ended,
         Record(m, status), stage # "down"
  PROVE  /\ journal' \in Seq(Events) /\ items' \in [Msgs -> Statuses]
         /\ cursor' \in 0 .. Len(journal') /\ troubles' \in 0 .. MaxTroubles
         /\ snapshot' = snapshot => snapshot'.cursor \in 0 .. Len(journal')
         /\ RecordResult(m, status)
<1> DEFINE e == [msg |-> m, status |-> status]
<1>0. e \in Events /\ e.msg = m /\ e.status = status
  BY DEF Events
<1>1. CASE /\ journal' = Append(journal, e)
           /\ cursor' = Len(journal) + 1
           /\ items' = [items EXCEPT ![m] = status] /\ UNCHANGED troubles
  <2>1. journal \in Seq(Events) /\ items = Replay(NoItems, journal) /\ items \in [Msgs -> Statuses]
    BY DEF TypeOK, View
  <2>2. journal' \in Seq(Events) /\ Len(journal') = Len(journal) + 1
    BY <1>0, <1>1, <2>1, AppendProperties
  <2>3. Replay(NoItems, Append(journal, e)) = Apply(Replay(NoItems, journal), e)
    BY <1>0, <2>1, ReplayFacts
  <2>4. Replay(NoItems, journal)' = Replay(NoItems, Append(journal, e))
    BY <1>1 DEF NoItems
  <2>5. Replay(NoItems, journal)' = items'
    BY <1>0, <1>1, <2>1, <2>3, <2>4 DEF Apply
  <2>6. ASSUME NEW x \in Msgs PROVE Status(x)' = IF x = m THEN status ELSE Status(x)
    BY <1>1, <2>1, <2>5 DEF Status
  <2>7. ASSUME snapshot' = snapshot PROVE Snapshot'
    <3> DEFINE c == snapshot.cursor
               rest == SubSeq(journal, c + 1, Len(journal))
    <3>1. c \in 0 .. Len(journal)
      BY DEF TypeOK
    <3>2. rest \in Seq(Events) /\ SubSeq(Append(journal, e), c + 1, Len(journal) + 1) = Append(rest, e)
      BY <1>0, <2>1, <3>1, Rest
    <3>3. SubSeq(journal', c + 1, Len(journal')) = Append(rest, e)
      BY <1>1, <2>2, <3>2
    <3>4. Replay(snapshot.items, Append(rest, e)) = Apply(Replay(snapshot.items, rest), e)
      BY <1>0, <3>2, ReplayFacts
    <3>5. Replay(snapshot.items, rest) = Replay(NoItems, journal)
      BY DEF Snapshot
    <3>6. Replay(snapshot.items, SubSeq(journal, c + 1, Len(journal)))' = Replay(snapshot.items, Append(rest, e))
      BY <2>7, <3>3
    <3> HIDE DEF c, rest, e
    <3>7. Snapshot' <=> Replay(snapshot.items, SubSeq(journal, c + 1, Len(journal)))' = Replay(NoItems, journal)'
      BY DEF Snapshot, c
    <3> QED
      BY <2>3, <2>4, <3>4, <3>5, <3>6, <3>7
  <2>8. RecordResult(m, status)
    BY <1>1, <2>2, <2>5, <2>6, <2>7 DEF Written, RecordResult
  <2>9. items' \in [Msgs -> Statuses]
    BY <1>1, <2>1 DEF Statuses
  <2>10. /\ cursor' \in 0 .. Len(journal') /\ troubles' \in 0 .. MaxTroubles
         /\ snapshot' = snapshot => snapshot'.cursor \in 0 .. Len(journal')
    BY <1>1, <2>1, <2>2 DEF TypeOK
  <2> QED
    BY <2>2, <2>8, <2>9, <2>10
<1>2. CASE Trouble /\ UNCHANGED <<journal, cursor, items>>
  BY <1>2, IntakeAssumption DEF Trouble, Written, TypeOK, RecordResult
<1> QED
  BY <1>1, <1>2 DEF Record

\* What reads the journal, when it has not changed.
LEMMA Unrecorded ==
  ASSUME journal' = journal
  PROVE  /\ Replay(NoItems, journal)' = Replay(NoItems, journal)
         /\ \A m : Status(m)' = Status(m)
         /\ \A m, status : Times(m, status)' = Times(m, status)
         /\ Snapshot /\ snapshot' = snapshot => Snapshot'
<1>1. Replay(NoItems, journal)' = Replay(NoItems, journal)
  BY DEF NoItems
<1>2. \A m : Status(m)' = Status(m)
  BY <1>1 DEF Status
<1>3. \A m, status : Times(m, status)' = Times(m, status)
  BY DEF Times
<1>4. Snapshot /\ snapshot' = snapshot => Snapshot'
  BY <1>1 DEF Snapshot
<1> QED
  BY <1>1, <1>2, <1>3, <1>4

\* The points and the queues as the types have them.
LEMMA Types ==
  ASSUME TypeOK
  PROVE  /\ client.at # "idle" => client.msg \in Msgs
         /\ client.at \in {"idle", "lookup", "publish", "wait", "put", "ack"}
         /\ client.at = "idle" <=> client = Idle
         /\ \A point \in {"lookup", "publish", "wait", "put", "ack"} :
              client.at # "idle" =>
                [client EXCEPT !.at = point] = [at |-> point, msg |-> client.msg]
         /\ bus # <<>> => Head(bus) \in Msgs /\ Tail(bus) \in Seq(Msgs)
         /\ jobs # <<>> => Head(jobs) \in Msgs /\ Tail(jobs) \in Seq(Msgs)
         /\ job.at # "idle" => job.msg \in Msgs
         /\ job.at \in {"idle", "marked", "run", "over"} /\ (job.at = "idle" <=> job = Idle)
<1>1. /\ client \in {Idle} \cup [at : {"lookup", "publish", "wait", "put", "ack"}, msg : Msgs]
      /\ job \in {Idle} \cup [at : {"marked", "run", "over"}, msg : Msgs]
      /\ bus \in Seq(Msgs) /\ jobs \in Seq(Msgs)
  BY DEF TypeOK
<1>2. /\ bus # <<>> => Head(bus) \in Msgs /\ Tail(bus) \in Seq(Msgs)
      /\ jobs # <<>> => Head(jobs) \in Msgs /\ Tail(jobs) \in Seq(Msgs)
  BY <1>1, HeadTailProperties
<1>3. job \in [at : {"marked", "run", "over"}, msg : Msgs] =>
        job.at \in {"marked", "run", "over"} /\ job.msg \in Msgs
  OBVIOUS
<1>4. Idle.at = "idle"
  BY DEF Idle
<1> QED
  BY <1>1, <1>2, <1>3, <1>4

\* The events that actions record, and the state they record them in.
LEMMA Recording ==
  ASSUME IInv
  PROVE  /\ \A m \in Msgs : Recover(m) => stage = "recovering" /\ Record(m, "canceled")
         /\ looked => bus # <<>> /\ Head(bus) \in Msgs
         /\ RecordQueued => Head(bus) \in Msgs /\ Record(Head(bus), "queued")
         /\ StartJob => Head(jobs) \in Msgs /\ Record(Head(jobs), "running")
         /\ EndJob => job.msg \in Msgs /\ Record(job.msg, "done")
<1>1. looked => bus # <<>> /\ Head(bus) \in Msgs
  BY Types DEF IInv, Order
<1> QED
  BY <1>1, Types DEF IInv, Recover, RecordQueued, StartJob, EndJob, Idle

\* Every step keeps the types.
LEMMA TypeStep == IInv /\ [Next]_vars => TypeOK'
<1> SUFFICES ASSUME IInv, [Next]_vars PROVE TypeOK'
  OBVIOUS
<1>1. CASE Load
  <2>1. items' = Replay(NoItems, journal)
    BY <1>1 DEF Load, IInv, Snapshot
  <2> QED
    BY <1>1, <2>1
       DEF IInv, TypeOK, View, Load, vars, diskVars, storeVars, clientVars, busVars,
           runVars
<1>2. ASSUME NEW m \in Msgs, Recover(m) PROVE TypeOK'
  <2>1. Record(m, "canceled")
    BY <1>2, Recording
  <2>2. stage # "down" /\ snapshot' = snapshot
    BY <1>2 DEF Recover, At
  <2>3. /\ journal' \in Seq(Events) /\ items' \in [Msgs -> Statuses]
        /\ cursor' \in 0 .. Len(journal') /\ troubles' \in 0 .. MaxTroubles
        /\ snapshot'.cursor \in 0 .. Len(journal')
    BY <2>1, <2>2, RecordFacts DEF IInv, Unfinished, Ended
  <2> QED
    BY <1>2, <2>3
       DEF IInv, TypeOK, Recover, vars, diskVars, storeVars, clientVars, busVars,
           runVars
<1>3. CASE Save
  BY <1>3
     DEF IInv, TypeOK, Save, vars, diskVars, storeVars, clientVars, busVars, runVars
<1>4. CASE Crash
  <2>1. NoItems \in [Msgs -> Statuses] /\ <<>> \in Seq(Msgs)
    BY EmptySeq DEF NoItems, Statuses
  <2>2. troubles' \in 0 .. MaxTroubles
    BY <1>4, IntakeAssumption DEF IInv, TypeOK, Crash, Trouble
  <2>3. 0 \in 0 .. Len(journal)
    BY DEF IInv, TypeOK
  <2> QED
    BY <1>4, <2>1, <2>2, <2>3
       DEF IInv, TypeOK, Crash, vars, diskVars, storeVars, clientVars, busVars, runVars
<1>5. CASE LoseConnection
  BY <1>5, Types, IntakeAssumption
     DEF IInv, TypeOK, LoseConnection, At, Goto, Fail, Trouble, Answer, vars, diskVars,
         storeVars, clientVars, busVars, runVars
<1>6. CASE Reconnect
  BY <1>6, Types, IntakeAssumption
     DEF IInv, TypeOK, Reconnect, At, Goto, Fail, Trouble, Answer, vars, diskVars,
         storeVars, clientVars, busVars, runVars
<1>7. ASSUME NEW m \in Msgs, Receive(m) PROVE TypeOK'
  BY <1>7, Types, IntakeAssumption
     DEF IInv, TypeOK, Receive, At, Goto, Fail, Trouble, Answer, vars, diskVars,
         storeVars, clientVars, busVars, runVars
<1>8. CASE LookUp
  BY <1>8, Types, IntakeAssumption
     DEF IInv, TypeOK, LookUp, At, Goto, Fail, Trouble, Answer, vars, diskVars,
         storeVars, clientVars, busVars, runVars
<1>9. CASE Publish
  <2>1. client.msg \in Msgs
    BY <1>9, Types DEF IInv, Publish, At
  <2>2. client' \in {Idle} \cup [at : {"wait"}, msg : Msgs]
    BY <1>9, <2>1, Types DEF IInv, Publish, At, Goto, Fail
  <2>3. bus' \in Seq(Msgs) /\ result' \in {"none", "ok", "error"}
    <3>1. Append(bus, client.msg) \in Seq(Msgs)
      BY <2>1, AppendProperties DEF IInv, TypeOK
    <3> QED
      BY <1>9, <3>1 DEF IInv, TypeOK, Publish
  <2>4. lost' \in BOOLEAN
    BY <1>9 DEF IInv, TypeOK, Publish, Fail
  <2> QED
    BY <1>9, <2>2, <2>3, <2>4
       DEF IInv, TypeOK, Publish, vars, diskVars, storeVars, clientVars, busVars,
           runVars
<1>10. CASE Await
  BY <1>10, Types, IntakeAssumption
     DEF IInv, TypeOK, Await, At, Goto, Fail, Trouble, Answer, vars, diskVars,
         storeVars, clientVars, busVars, runVars
<1>11. CASE Put
  <2>1. client.at = "put" /\ client.msg \in Msgs
    BY <1>11, Types DEF IInv, Put, At
  <2>2. client' \in {Idle} \cup [at : {"ack"}, msg : Msgs]
    BY <1>11, <2>1, Types DEF IInv, Put, Goto, Fail
  <2>3. inbox' \subseteq Msgs
    BY <1>11, <2>1 DEF IInv, TypeOK, Put
  <2>4. troubles' \in 0 .. MaxTroubles
    BY <1>11, IntakeAssumption DEF IInv, TypeOK, Put, Trouble
  <2>5. lost' \in BOOLEAN
    BY <1>11 DEF IInv, TypeOK, Put, Fail
  <2> QED
    BY <1>11, <2>2, <2>3, <2>4, <2>5
       DEF IInv, TypeOK, Put, vars, diskVars, storeVars, clientVars, busVars, runVars
<1>12. CASE Acknowledge
  BY <1>12, Types, IntakeAssumption
     DEF IInv, TypeOK, Acknowledge, At, Goto, Fail, Trouble, Answer, vars, diskVars,
         storeVars, clientVars, busVars, runVars
<1>13. CASE RecordQueued
  <2>1. Head(bus) \in Msgs /\ Record(Head(bus), "queued")
    BY <1>13, Recording
  <2>2. stage # "down" /\ snapshot' = snapshot
    BY <1>13 DEF RecordQueued, At
  <2>3. /\ journal' \in Seq(Events) /\ items' \in [Msgs -> Statuses]
        /\ cursor' \in 0 .. Len(journal') /\ troubles' \in 0 .. MaxTroubles
        /\ snapshot'.cursor \in 0 .. Len(journal')
    BY <2>1, <2>2, RecordFacts DEF IInv, Unfinished, Ended
  <2>4. /\ bus' \in Seq(Msgs) /\ looked' \in BOOLEAN /\ recorded' \in BOOLEAN
        /\ result' \in {"none", "ok", "error"}
    BY <1>13, Types, Recording DEF IInv, TypeOK, RecordQueued, Answer
  <2> QED
    BY <1>13, <2>3, <2>4
       DEF IInv, TypeOK, RecordQueued, vars, diskVars, storeVars, clientVars, busVars,
           runVars
<1>14. CASE Enqueue
  <2>1. bus # <<>> /\ Head(bus) \in Msgs /\ Tail(bus) \in Seq(Msgs)
    BY <1>14, Types DEF IInv, Order, Enqueue
  <2>2. jobs \in Seq(Msgs) /\ Append(jobs, Head(bus)) \in Seq(Msgs)
    BY <2>1, AppendProperties DEF IInv, TypeOK
  <2> QED
    BY <1>14, <2>1, <2>2
       DEF IInv, TypeOK, Enqueue, Answer, vars, diskVars, storeVars, clientVars,
           busVars, runVars
<1>15. CASE StartJob
  <2>1. Head(jobs) \in Msgs /\ Record(Head(jobs), "running")
    BY <1>15, Recording
  <2>2. stage # "down" /\ snapshot' = snapshot
    BY <1>15 DEF StartJob, At
  <2>3. /\ journal' \in Seq(Events) /\ items' \in [Msgs -> Statuses]
        /\ cursor' \in 0 .. Len(journal') /\ troubles' \in 0 .. MaxTroubles
        /\ snapshot'.cursor \in 0 .. Len(journal')
    BY <2>1, <2>2, RecordFacts DEF IInv, Unfinished, Ended
  <2>4. jobs' \in Seq(Msgs) /\ job' \in {Idle} \cup [at : {"marked"}, msg : Msgs]
    <3>1. jobs' = Tail(jobs) /\ Tail(jobs) \in Seq(Msgs)
      BY <1>15, Types DEF IInv, StartJob
    <3>2. job' = [at |-> "marked", msg |-> Head(jobs)] \/ job' = Idle
      BY <1>15 DEF StartJob
    <3> QED
      BY <2>1, <3>1, <3>2
  <2> QED
    BY <1>15, <2>3, <2>4
       DEF IInv, TypeOK, StartJob, vars, diskVars, storeVars, clientVars, busVars,
           runVars
<1>16. CASE EndJob
  <2>1. job.msg \in Msgs /\ Record(job.msg, "done")
    BY <1>16, Recording
  <2>2. stage # "down" /\ snapshot' = snapshot
    BY <1>16 DEF EndJob, At
  <2>3. /\ journal' \in Seq(Events) /\ items' \in [Msgs -> Statuses]
        /\ cursor' \in 0 .. Len(journal') /\ troubles' \in 0 .. MaxTroubles
        /\ snapshot'.cursor \in 0 .. Len(journal')
    BY <2>1, <2>2, RecordFacts DEF IInv, Unfinished, Ended
  <2> QED
    BY <1>16, <2>3
       DEF IInv, TypeOK, EndJob, vars, diskVars, storeVars, clientVars, busVars, runVars
<1>17. CASE UNCHANGED vars
  BY <1>17 DEF IInv, TypeOK, vars, diskVars, storeVars, clientVars, busVars, runVars
<1>18. CASE Steer
  <2>1. bus # <<>> /\ Head(bus) \in Msgs /\ Tail(bus) \in Seq(Msgs)
    BY <1>18, Types, Recording DEF IInv, Steer
  <2>2. beside' \in [Msgs -> Besides]
    BY <1>18, <2>1 DEF IInv, TypeOK, Steer, Take, Besides
  <2>3. troubles' \in 0 .. MaxTroubles
    BY <1>18, IntakeAssumption DEF IInv, TypeOK, Steer, Trouble
  <2>4. bus' \in Seq(Msgs) /\ result' \in {"none", "ok", "error"} /\ looked' \in BOOLEAN
    BY <1>18, <2>1 DEF IInv, TypeOK, Steer, Answer
  <2> QED
    BY <1>18, <2>2, <2>3, <2>4 DEF IInv, TypeOK, Steer, diskVars, clientVars
<1>19. CASE FindNoRun
  BY <1>19 DEF IInv, TypeOK, FindNoRun, diskVars, clientVars, runVars
<1>20. CASE AnswerAtOnce
  <2>1. bus # <<>> /\ Head(bus) \in Msgs /\ Tail(bus) \in Seq(Msgs)
    BY <1>20, Types, Recording DEF IInv, AnswerAtOnce
  <2>2. beside' \in [Msgs -> Besides]
    BY <1>20, <2>1 DEF IInv, TypeOK, AnswerAtOnce, Take, Besides
  <2>3. troubles' \in 0 .. MaxTroubles
    BY <1>20, IntakeAssumption DEF IInv, TypeOK, AnswerAtOnce, Trouble
  <2>4. bus' \in Seq(Msgs) /\ result' \in {"none", "ok", "error"} /\ looked' \in BOOLEAN
    BY <1>20, <2>1 DEF IInv, TypeOK, AnswerAtOnce, Answer
  <2> QED
    BY <1>20, <2>2, <2>3, <2>4 DEF IInv, TypeOK, AnswerAtOnce, diskVars, clientVars
<1>21. CASE StartRun
  <2>1. job' \in [at : {"run"}, msg : Msgs]
    BY <1>21, Types DEF IInv, TypeOK, StartRun
  <2> QED
    BY <1>21, <2>1 DEF IInv, TypeOK, StartRun, diskVars, clientVars, busVars
<1>22. CASE EndRun
  <2>1. job' \in [at : {"over"}, msg : Msgs]
    BY <1>22, Types DEF IInv, TypeOK, EndRun
  <2> QED
    BY <1>22, <2>1 DEF IInv, TypeOK, EndRun, diskVars, clientVars, busVars
<1> QED
  BY <1>1, <1>2, <1>3, <1>4, <1>5, <1>6, <1>7, <1>8, <1>9, <1>10, <1>11, <1>12,
     <1>13, <1>14, <1>15, <1>16, <1>17, <1>18, <1>19, <1>20, <1>21, <1>22
     DEF Next, StoreStep, ClientStep, BusStep, WorkerStep, Finished

\* Every step keeps the view and the snapshot what the journal says.
LEMMA ViewStep == IInv /\ [Next]_vars => (View /\ Snapshot)'
<1> SUFFICES ASSUME IInv, [Next]_vars PROVE (View /\ Snapshot)'
  OBVIOUS
<1>1. CASE Load
  <2>1. journal' = journal /\ snapshot' = snapshot /\ cursor' = Len(journal)
    BY <1>1 DEF Load, diskVars
  <2>2. items' = Replay(NoItems, journal)
    BY <1>1 DEF Load, IInv, Snapshot
  <2> QED
    BY <2>1, <2>2, Unrecorded DEF IInv, View
<1>2. ASSUME NEW m \in Msgs, Recover(m) PROVE (View /\ Snapshot)'
  <2>1. Record(m, "canceled")
    BY <1>2, Recording
  <2>2. stage # "down" /\ stage' = stage /\ snapshot' = snapshot
    BY <1>2 DEF Recover, At
  <2>3. RecordResult(m, "canceled")
    BY <2>1, <2>2, RecordFacts DEF IInv, Unfinished, Ended
  <2>4. View' /\ Snapshot'
    BY <2>2, <2>3, Unrecorded, TypeStep DEF RecordResult, IInv, View, TypeOK
  <2> QED
    BY <2>4
<1>3. CASE Save
  <2>1. journal' = journal /\ cursor' = cursor /\ items' = items /\ stage # "down"
    BY <1>3 DEF Save, storeVars
  <2>2. View'
    BY <2>1, Unrecorded DEF IInv, View
  <2>3. CASE snapshot' = [cursor |-> cursor, items |-> items]
    <3>1. items = Replay(NoItems, journal) /\ cursor = Len(journal) /\ journal \in Seq(Events)
      BY <2>1 DEF IInv, View, TypeOK
    <3>2. SubSeq(journal, cursor + 1, Len(journal)) = <<>>
      BY <3>1, SubSeqEmpty
    <3>3. Replay(items, <<>>) = items
      BY ReplayFacts
    <3>4. snapshot'.cursor = cursor /\ snapshot'.items = items
      BY <2>3
    <3>5. Replay(snapshot.items, SubSeq(journal, snapshot.cursor + 1, Len(journal)))' = items
      BY <2>1, <3>2, <3>3, <3>4
    <3> QED
      BY <2>1, <2>2, <3>1, <3>5, Unrecorded DEF Snapshot
  <2>4. CASE snapshot' = snapshot
    BY <2>1, <2>2, <2>4, Unrecorded DEF IInv
  <2> QED
    BY <1>3, <2>3, <2>4 DEF Save
<1>4. CASE Crash
  <2>1. journal' = journal /\ snapshot' = snapshot /\ stage' = "down"
    BY <1>4 DEF Crash, diskVars
  <2> QED
    BY <2>1, Unrecorded DEF IInv, View
<1>5. CASE LoseConnection
  <2>1. UNCHANGED <<journal, snapshot, stage, items, cursor>>
    BY <1>5 DEF LoseConnection, vars, diskVars, storeVars, clientVars, busVars, runVars
  <2> QED
    BY <2>1, Unrecorded DEF IInv, View
<1>6. CASE Reconnect
  <2>1. UNCHANGED <<journal, snapshot, stage, items, cursor>>
    BY <1>6 DEF Reconnect, vars, diskVars, storeVars, clientVars, busVars, runVars
  <2> QED
    BY <2>1, Unrecorded DEF IInv, View
<1>7. ASSUME NEW m \in Msgs, Receive(m) PROVE (View /\ Snapshot)'
  <2>1. UNCHANGED <<journal, snapshot, stage, items, cursor>>
    BY <1>7 DEF Receive, vars, diskVars, storeVars, clientVars, busVars, runVars
  <2> QED
    BY <2>1, Unrecorded DEF IInv, View
<1>8. CASE LookUp
  <2>1. UNCHANGED <<journal, snapshot, stage, items, cursor>>
    BY <1>8 DEF LookUp, vars, diskVars, storeVars, clientVars, busVars, runVars
  <2> QED
    BY <2>1, Unrecorded DEF IInv, View
<1>9. CASE Publish
  <2>1. UNCHANGED <<journal, snapshot, stage, items, cursor>>
    BY <1>9 DEF Publish, vars, diskVars, storeVars, clientVars, busVars, runVars
  <2> QED
    BY <2>1, Unrecorded DEF IInv, View
<1>10. CASE Await
  <2>1. UNCHANGED <<journal, snapshot, stage, items, cursor>>
    BY <1>10 DEF Await, vars, diskVars, storeVars, clientVars, busVars, runVars
  <2> QED
    BY <2>1, Unrecorded DEF IInv, View
<1>11. CASE Put
  <2>1. UNCHANGED <<journal, snapshot, stage, items, cursor>>
    BY <1>11 DEF Put, vars, diskVars, storeVars, clientVars, busVars, runVars
  <2> QED
    BY <2>1, Unrecorded DEF IInv, View
<1>12. CASE Acknowledge
  <2>1. UNCHANGED <<journal, snapshot, stage, items, cursor>>
    BY <1>12 DEF Acknowledge, vars, diskVars, storeVars, clientVars, busVars, runVars
  <2> QED
    BY <2>1, Unrecorded DEF IInv, View
<1>13. CASE RecordQueued
  <2>1. Head(bus) \in Msgs /\ Record(Head(bus), "queued")
    BY <1>13, Recording
  <2>2. stage # "down" /\ stage' = stage /\ snapshot' = snapshot
    BY <1>13 DEF RecordQueued, At
  <2>3. RecordResult(Head(bus), "queued")
    BY <2>1, <2>2, RecordFacts DEF IInv, Unfinished, Ended
  <2>4. View' /\ Snapshot'
    BY <2>2, <2>3, Unrecorded, TypeStep DEF RecordResult, IInv, View, TypeOK
  <2> QED
    BY <2>4
<1>14. CASE Enqueue
  <2>1. UNCHANGED <<journal, snapshot, stage, items, cursor>>
    BY <1>14 DEF Enqueue, vars, diskVars, storeVars, clientVars, busVars, runVars
  <2> QED
    BY <2>1, Unrecorded DEF IInv, View
<1>15. CASE StartJob
  <2>1. Head(jobs) \in Msgs /\ Record(Head(jobs), "running")
    BY <1>15, Recording
  <2>2. stage # "down" /\ stage' = stage /\ snapshot' = snapshot
    BY <1>15 DEF StartJob, At
  <2>3. RecordResult(Head(jobs), "running")
    BY <2>1, <2>2, RecordFacts DEF IInv, Unfinished, Ended
  <2>4. View' /\ Snapshot'
    BY <2>2, <2>3, Unrecorded, TypeStep DEF RecordResult, IInv, View, TypeOK
  <2> QED
    BY <2>4
<1>16. CASE EndJob
  <2>1. job.msg \in Msgs /\ Record(job.msg, "done")
    BY <1>16, Recording
  <2>2. stage # "down" /\ stage' = stage /\ snapshot' = snapshot
    BY <1>16 DEF EndJob, At
  <2>3. RecordResult(job.msg, "done")
    BY <2>1, <2>2, RecordFacts DEF IInv, Unfinished, Ended
  <2>4. View' /\ Snapshot'
    BY <2>2, <2>3, Unrecorded, TypeStep DEF RecordResult, IInv, View, TypeOK
  <2> QED
    BY <2>4
<1>17. CASE UNCHANGED vars
  <2>1. UNCHANGED <<journal, snapshot, stage, items, cursor>>
    BY <1>17 DEF vars, diskVars, storeVars, clientVars, busVars, runVars
  <2> QED
    BY <2>1, Unrecorded DEF IInv, View
<1>18. CASE Steer
  <2>1. UNCHANGED <<journal, snapshot, stage, items, cursor>>
    BY <1>18 DEF Steer, diskVars
  <2> QED
    BY <2>1, Unrecorded DEF IInv, View
<1>19. CASE FindNoRun
  <2>1. UNCHANGED <<journal, snapshot, stage, items, cursor>>
    BY <1>19 DEF FindNoRun, diskVars
  <2> QED
    BY <2>1, Unrecorded DEF IInv, View
<1>20. CASE AnswerAtOnce
  <2>1. UNCHANGED <<journal, snapshot, stage, items, cursor>>
    BY <1>20 DEF AnswerAtOnce, diskVars
  <2> QED
    BY <2>1, Unrecorded DEF IInv, View
<1>21. CASE StartRun
  <2>1. UNCHANGED <<journal, snapshot, stage, items, cursor>>
    BY <1>21 DEF StartRun, diskVars
  <2> QED
    BY <2>1, Unrecorded DEF IInv, View
<1>22. CASE EndRun
  <2>1. UNCHANGED <<journal, snapshot, stage, items, cursor>>
    BY <1>22 DEF EndRun, diskVars
  <2> QED
    BY <2>1, Unrecorded DEF IInv, View
<1> QED
  BY <1>1, <1>2, <1>3, <1>4, <1>5, <1>6, <1>7, <1>8, <1>9, <1>10, <1>11, <1>12,
     <1>13, <1>14, <1>15, <1>16, <1>17, <1>18, <1>19, <1>20, <1>21, <1>22
     DEF Next, StoreStep, ClientStep, BusStep, WorkerStep, Finished

\* Nothing runs before the store has recovered.
LEMMA DownStep == IInv /\ [Next]_vars => Down'
<1> SUFFICES ASSUME IInv, [Next]_vars PROVE Down'
  OBVIOUS
<1>1. CASE Load
  BY <1>1
     DEF IInv, Down, Load, At, Idle, vars, diskVars, storeVars, clientVars, busVars,
         runVars
<1>2. ASSUME NEW m \in Msgs, Recover(m) PROVE Down'
  BY <1>2
     DEF IInv, Down, Recover, At, Idle, vars, diskVars, storeVars, clientVars, busVars,
         runVars
<1>3. CASE Save
  BY <1>3
     DEF IInv, Down, Save, At, Idle, vars, diskVars, storeVars, clientVars, busVars,
         runVars
<1>4. CASE Crash
  BY <1>4 DEF Crash, Down
<1>5. CASE LoseConnection
  BY <1>5
     DEF IInv, Down, LoseConnection, At, Idle, vars, diskVars, storeVars, clientVars,
         busVars, runVars
<1>6. CASE Reconnect
  BY <1>6
     DEF IInv, Down, Reconnect, At, Idle, vars, diskVars, storeVars, clientVars,
         busVars, runVars
<1>7. ASSUME NEW m \in Msgs, Receive(m) PROVE Down'
  BY <1>7
     DEF IInv, Down, Receive, At, Idle, vars, diskVars, storeVars, clientVars, busVars,
         runVars
<1>8. CASE LookUp
  BY <1>8
     DEF IInv, Down, LookUp, At, Idle, vars, diskVars, storeVars, clientVars, busVars,
         runVars
<1>9. CASE Publish
  BY <1>9
     DEF IInv, Down, Publish, At, Idle, vars, diskVars, storeVars, clientVars, busVars,
         runVars
<1>10. CASE Await
  BY <1>10
     DEF IInv, Down, Await, At, Idle, vars, diskVars, storeVars, clientVars, busVars,
         runVars
<1>11. CASE Put
  BY <1>11
     DEF IInv, Down, Put, At, Idle, vars, diskVars, storeVars, clientVars, busVars,
         runVars
<1>12. CASE Acknowledge
  BY <1>12
     DEF IInv, Down, Acknowledge, At, Idle, vars, diskVars, storeVars, clientVars,
         busVars, runVars
<1>13. CASE RecordQueued
  BY <1>13
     DEF IInv, Down, RecordQueued, At, Idle, vars, diskVars, storeVars, clientVars,
         busVars, runVars
<1>14. CASE Enqueue
  BY <1>14
     DEF IInv, Down, Enqueue, At, Idle, vars, diskVars, storeVars, clientVars, busVars,
         runVars
<1>15. CASE StartJob
  BY <1>15
     DEF IInv, Down, StartJob, At, Idle, vars, diskVars, storeVars, clientVars,
         busVars, runVars
<1>16. CASE EndJob
  BY <1>16
     DEF IInv, Down, EndJob, At, Idle, vars, diskVars, storeVars, clientVars, busVars,
         runVars
<1>17. CASE UNCHANGED vars
  BY <1>17 DEF IInv, Down, vars, diskVars, storeVars, clientVars, busVars, runVars
<1>18. CASE Steer
  BY <1>18 DEF IInv, Down, Steer
<1>19. CASE FindNoRun
  BY <1>19 DEF IInv, Down, FindNoRun
<1>20. CASE AnswerAtOnce
  BY <1>20 DEF IInv, Down, AnswerAtOnce
<1>21. CASE StartRun
  BY <1>21 DEF IInv, Down, StartRun
<1>22. CASE EndRun
  BY <1>22 DEF IInv, Down, EndRun
<1> QED
  BY <1>1, <1>2, <1>3, <1>4, <1>5, <1>6, <1>7, <1>8, <1>9, <1>10, <1>11, <1>12,
     <1>13, <1>14, <1>15, <1>16, <1>17, <1>18, <1>19, <1>20, <1>21, <1>22
     DEF Next, StoreStep, ClientStep, BusStep, WorkerStep, Finished

\* The queue of the shard, without its head or with one message more.
LEMMA Ends ==
  ASSUME NEW q \in Seq(Msgs)
  PROVE  /\ q # <<>> => /\ Len(q) \in Nat \ {0} /\ Head(q) = q[1]
                        /\ Len(q) = 1 => Tail(q) = <<>>
                        /\ Len(q) # 1 => Tail(q) # <<>> /\ Tail(q)[Len(Tail(q))] = q[Len(q)]
         /\ \A m \in Msgs : Append(q, m) # <<>> /\ Append(q, m)[Len(Append(q, m))] = m
         /\ \A m \in Msgs : q # <<>> => Head(Append(q, m)) = Head(q)
<1>1. \A m \in Msgs : Append(q, m) # <<>> /\ Append(q, m)[Len(Append(q, m))] = m
  BY AppendProperties
<1>2. \A m \in Msgs : q # <<>> => Head(Append(q, m)) = Head(q)
  BY HeadTailAppend
<1>3. ASSUME q # <<>>
      PROVE  /\ Len(q) \in Nat \ {0} /\ Head(q) = q[1]
             /\ Len(q) = 1 => Tail(q) = <<>>
             /\ Len(q) # 1 => Tail(q) # <<>> /\ Tail(q)[Len(Tail(q))] = q[Len(q)]
  <2>1. /\ Len(q) \in Nat \ {0} /\ Tail(q) \in Seq(Msgs) /\ Len(Tail(q)) = Len(q) - 1
        /\ \A i \in 1 .. Len(Tail(q)) : Tail(q)[i] = q[i + 1]
    BY <1>3, EmptySeq, HeadTailProperties
  <2>2. Tail(q) = <<>> <=> Len(Tail(q)) = 0
    <3> DEFINE t == Tail(q)
    <3>1. t \in Seq(Msgs)
      BY <2>1
    <3> HIDE DEF t
    <3>2. t # <<>> => Len(t) # 0
      BY <3>1, EmptySeq
    <3>3. t = <<>> => Len(t) = 0
      OBVIOUS
    <3> QED
      BY <3>2, <3>3 DEF t
  <2>3. ASSUME Len(q) # 1 PROVE Tail(q)[Len(Tail(q))] = q[Len(q)]
    <3>1. Len(q) - 1 \in 1 .. Len(Tail(q)) /\ (Len(q) - 1) + 1 = Len(q)
      BY <2>1, <2>3
    <3> QED
      BY <2>1, <3>1
  <2> QED
    BY <1>3, <2>1, <2>2, <2>3
<1> QED
  BY <1>1, <1>2, <1>3

\* Every step keeps what a client waits for last in the queue.
LEMMA OrderStep == IInv /\ [Next]_vars => Order'
<1> SUFFICES ASSUME IInv, [Next]_vars PROVE Order'
  OBVIOUS
<1>1. CASE Load
  BY <1>1, Types
     DEF IInv, Order, Load, At, Goto, Fail, Idle, vars, diskVars, storeVars,
         clientVars, busVars, runVars
<1>2. ASSUME NEW m \in Msgs, Recover(m) PROVE Order'
  BY <1>2, Types
     DEF IInv, Order, Recover, At, Goto, Fail, Idle, vars, diskVars, storeVars,
         clientVars, busVars, runVars
<1>3. CASE Save
  BY <1>3, Types
     DEF IInv, Order, Save, At, Goto, Fail, Idle, vars, diskVars, storeVars,
         clientVars, busVars, runVars
<1>4. CASE Crash
  BY <1>4 DEF Crash, Order, Idle
<1>5. CASE LoseConnection
  BY <1>5, Types
     DEF IInv, Order, LoseConnection, At, Goto, Fail, Idle, vars, diskVars, storeVars,
         clientVars, busVars, runVars
<1>6. CASE Reconnect
  BY <1>6, Types
     DEF IInv, Order, Reconnect, At, Goto, Fail, Idle, vars, diskVars, storeVars,
         clientVars, busVars, runVars
<1>7. ASSUME NEW m \in Msgs, Receive(m) PROVE Order'
  BY <1>7, Types
     DEF IInv, Order, Receive, At, Goto, Fail, Idle, vars, diskVars, storeVars,
         clientVars, busVars, runVars
<1>8. CASE LookUp
  BY <1>8, Types
     DEF IInv, Order, LookUp, At, Goto, Fail, Idle, vars, diskVars, storeVars,
         clientVars, busVars, runVars
<1>9. CASE Publish
  <2>1. /\ bus \in Seq(Msgs) /\ client.msg \in Msgs
        /\ recorded' = recorded /\ looked' = looked /\ (recorded => looked) /\ (looked => bus # <<>>)
    BY <1>9, Types DEF IInv, TypeOK, Order, Publish, At
  <2>2. CASE bus' = Append(bus, client.msg) /\ result' = "none" /\ Goto("wait")
    <3>1. client'.msg = client.msg
      BY <1>9, <2>2, Types DEF IInv, Publish, At, Goto
    <3> QED
      BY <2>1, <2>2, <3>1, Ends DEF Order
  <2>3. CASE Fail /\ UNCHANGED <<bus, result>>
    BY <2>1, <2>3 DEF IInv, Order, Fail, Idle
  <2> QED
    BY <1>9, <2>2, <2>3 DEF Publish
<1>10. CASE Await
  BY <1>10, Types
     DEF IInv, Order, Await, At, Goto, Fail, Idle, vars, diskVars, storeVars,
         clientVars, busVars, runVars
<1>11. CASE Put
  BY <1>11, Types
     DEF IInv, Order, Put, At, Goto, Fail, Idle, vars, diskVars, storeVars, clientVars,
         busVars, runVars
<1>12. CASE Acknowledge
  BY <1>12, Types
     DEF IInv, Order, Acknowledge, At, Goto, Fail, Idle, vars, diskVars, storeVars,
         clientVars, busVars, runVars
<1>13. CASE RecordQueued
  <2>1. bus \in Seq(Msgs) /\ bus # <<>> /\ client' = client /\ looked /\ ~recorded
    BY <1>13 DEF IInv, TypeOK, Order, RecordQueued, clientVars
  <2>2. ASSUME bus' = Tail(bus),
               result' = IF client.at = "wait" /\ Len(bus) = 1 THEN "error" ELSE result,
               ~recorded', ~looked'
        PROVE  Order'
    BY <2>1, <2>2, Ends DEF IInv, Order
  <2>3. CASE Written
    BY <1>13, <2>1, <2>3 DEF IInv, Order, RecordQueued
  <2> QED
    BY <1>13, <2>2, <2>3 DEF RecordQueued, Answer
<1>14. CASE Enqueue
  <2>1. bus \in Seq(Msgs) /\ bus # <<>> /\ client' = client
    BY <1>14 DEF IInv, TypeOK, Order, Enqueue, clientVars
  <2>2. ASSUME bus' = Tail(bus),
               result' = IF client.at = "wait" /\ Len(bus) = 1 THEN "ok" ELSE result,
               ~recorded', ~looked'
        PROVE  Order'
    BY <2>1, <2>2, Ends DEF IInv, Order
  <2> QED
    BY <1>14, <2>2 DEF Enqueue, Answer
<1>15. CASE StartJob
  BY <1>15, Types
     DEF IInv, Order, StartJob, At, Goto, Fail, Idle, vars, diskVars, storeVars,
         clientVars, busVars, runVars
<1>16. CASE EndJob
  BY <1>16, Types
     DEF IInv, Order, EndJob, At, Goto, Fail, Idle, vars, diskVars, storeVars,
         clientVars, busVars, runVars
<1>17. CASE UNCHANGED vars
  BY <1>17 DEF IInv, Order, vars, diskVars, storeVars, clientVars, busVars, runVars
<1>18. CASE Steer
  <2>1. bus \in Seq(Msgs) /\ bus # <<>> /\ client' = client /\ ~looked' /\ ~recorded'
    BY <1>18, Recording DEF IInv, TypeOK, Order, Steer, clientVars
  <2>2. ASSUME NEW answer \in {"ok", "error"}, Answer(answer) PROVE Order'
    BY <2>1, <2>2, Ends DEF IInv, Order, Answer
  <2> QED
    BY <1>18, <2>2 DEF Steer
<1>19. CASE FindNoRun
  BY <1>19 DEF IInv, Order, FindNoRun, clientVars
<1>20. CASE AnswerAtOnce
  <2>1. bus \in Seq(Msgs) /\ bus # <<>> /\ client' = client /\ ~looked' /\ ~recorded'
    BY <1>20, Recording DEF IInv, TypeOK, Order, AnswerAtOnce, clientVars
  <2>2. ASSUME NEW answer \in {"ok", "error"}, Answer(answer) PROVE Order'
    BY <2>1, <2>2, Ends DEF IInv, Order, Answer
  <2> QED
    BY <1>20, <2>2 DEF AnswerAtOnce
<1>21. CASE StartRun
  BY <1>21 DEF IInv, Order, StartRun, clientVars, busVars
<1>22. CASE EndRun
  BY <1>22 DEF IInv, Order, EndRun, clientVars, busVars
<1> QED
  BY <1>1, <1>2, <1>3, <1>4, <1>5, <1>6, <1>7, <1>8, <1>9, <1>10, <1>11, <1>12,
     <1>13, <1>14, <1>15, <1>16, <1>17, <1>18, <1>19, <1>20, <1>21, <1>22
     DEF Next, StoreStep, ClientStep, BusStep, WorkerStep, Finished

\* What was recorded once stays recorded.
LEMMA StaysRecorded ==
  ASSUME NEW m \in Msgs, NEW status \in Unfinished \cup Ended, RecordResult(m, status)
  PROVE  /\ \A x \in Msgs : HasTask(x) => HasTask(x)'
         /\ Written => HasTask(m)'
<1>1. status # "none"
  BY DEF Unfinished, Ended
<1>2. CASE journal' = journal
  BY <1>2, Unrecorded DEF RecordResult, HasTask
<1>3. CASE \A x \in Msgs : Status(x)' = IF x = m THEN status ELSE Status(x)
  BY <1>1, <1>3 DEF HasTask
<1>4. Written => \A x \in Msgs : Status(x)' = IF x = m THEN status ELSE Status(x)
  BY DEF RecordResult
<1> QED
  BY <1>1, <1>2, <1>3, <1>4 DEF RecordResult, HasTask

\* Every step keeps what is known of the tasks of messages.
LEMMA KeptStep == IInv /\ [Next]_vars => Kept'
<1> SUFFICES ASSUME IInv, [Next]_vars PROVE Kept'
  OBVIOUS
<1>1. CASE Load
  <2>1. \A x \in Msgs : (HasTask(x)' <=> HasTask(x)) /\ (Taken(x)' <=> Taken(x))
    <3>1. journal' = journal /\ beside' = beside
      BY <1>1 DEF Load, diskVars, storeVars, clientVars, busVars, runVars, vars
    <3> QED
      BY <3>1, Unrecorded DEF HasTask, Taken
  <2>2. acked \subseteq Msgs /\ inbox \subseteq Msgs
    BY DEF IInv, TypeOK
  <2>3. recorded => Head(bus) \in Msgs
    BY Recording DEF IInv, Order
  <2> QED
    BY <1>1, <2>1, <2>2, <2>3, Types
       DEF IInv, Kept, Load, At, Goto, Fail, Idle, vars, diskVars, storeVars,
           clientVars, busVars, runVars
<1>2. ASSUME NEW m \in Msgs, Recover(m) PROVE Kept'
  <2>1. Record(m, "canceled")
    BY <1>2, Recording
  <2>2. stage # "down" /\ stage' = stage /\ snapshot' = snapshot
    BY <1>2 DEF Recover, At
  <2>3. RecordResult(m, "canceled")
    BY <2>1, <2>2, RecordFacts DEF IInv, Unfinished, Ended
  <2>4. \A x \in Msgs : (HasTask(x) => HasTask(x)') /\ (Taken(x) => Taken(x)')
    <3>1. \A x \in Msgs : HasTask(x) => HasTask(x)'
      BY <2>1, <2>3, StaysRecorded DEF Unfinished, Ended
    <3>2. beside' = beside
      BY <1>2 DEF Recover, runVars
    <3> QED
      BY <3>1, <3>2 DEF Taken
  <2>5. acked \subseteq Msgs /\ inbox \subseteq Msgs
    BY DEF IInv, TypeOK
  <2>6. client' = Idle /\ result' = "none" /\ ~recorded' /\ UNCHANGED <<acked, inbox>>
    BY <1>2 DEF IInv, Down, Recover, clientVars, busVars
  <2> QED
    BY <2>4, <2>5, <2>6 DEF IInv, Kept, Idle
<1>3. CASE Save
  <2>1. \A x \in Msgs : (HasTask(x)' <=> HasTask(x)) /\ (Taken(x)' <=> Taken(x))
    <3>1. journal' = journal /\ beside' = beside
      BY <1>3 DEF Save, diskVars, storeVars, clientVars, busVars, runVars, vars
    <3> QED
      BY <3>1, Unrecorded DEF HasTask, Taken
  <2>2. acked \subseteq Msgs /\ inbox \subseteq Msgs
    BY DEF IInv, TypeOK
  <2>3. recorded => Head(bus) \in Msgs
    BY Recording DEF IInv, Order
  <2> QED
    BY <1>3, <2>1, <2>2, <2>3, Types
       DEF IInv, Kept, Save, At, Goto, Fail, Idle, vars, diskVars, storeVars,
           clientVars, busVars, runVars
<1>4. CASE Crash
  <2>1. \A x \in Msgs : (HasTask(x)' <=> HasTask(x)) /\ (Taken(x)' <=> Taken(x))
    <3>1. journal' = journal /\ beside' = beside
      BY <1>4 DEF Crash, diskVars, storeVars, clientVars, busVars, runVars, vars
    <3> QED
      BY <3>1, Unrecorded DEF HasTask, Taken
  <2>2. acked \subseteq Msgs /\ inbox \subseteq Msgs
    BY DEF IInv, TypeOK
  <2> QED
    BY <1>4, <2>1, <2>2 DEF IInv, Kept, Crash, Idle, diskVars
<1>5. CASE LoseConnection
  <2>1. \A x \in Msgs : (HasTask(x)' <=> HasTask(x)) /\ (Taken(x)' <=> Taken(x))
    <3>1. journal' = journal /\ beside' = beside
      BY <1>5 DEF LoseConnection, diskVars, storeVars, clientVars, busVars, runVars, vars
    <3> QED
      BY <3>1, Unrecorded DEF HasTask, Taken
  <2>2. acked \subseteq Msgs /\ inbox \subseteq Msgs
    BY DEF IInv, TypeOK
  <2>3. recorded => Head(bus) \in Msgs
    BY Recording DEF IInv, Order
  <2> QED
    BY <1>5, <2>1, <2>2, <2>3, Types
       DEF IInv, Kept, LoseConnection, At, Goto, Fail, Idle, vars, diskVars, storeVars,
           clientVars, busVars, runVars
<1>6. CASE Reconnect
  <2>1. \A x \in Msgs : (HasTask(x)' <=> HasTask(x)) /\ (Taken(x)' <=> Taken(x))
    <3>1. journal' = journal /\ beside' = beside
      BY <1>6 DEF Reconnect, diskVars, storeVars, clientVars, busVars, runVars, vars
    <3> QED
      BY <3>1, Unrecorded DEF HasTask, Taken
  <2>2. acked \subseteq Msgs /\ inbox \subseteq Msgs
    BY DEF IInv, TypeOK
  <2>3. recorded => Head(bus) \in Msgs
    BY Recording DEF IInv, Order
  <2> QED
    BY <1>6, <2>1, <2>2, <2>3, Types
       DEF IInv, Kept, Reconnect, At, Goto, Fail, Idle, vars, diskVars, storeVars,
           clientVars, busVars, runVars
<1>7. ASSUME NEW m \in Msgs, Receive(m) PROVE Kept'
  <2>1. \A x \in Msgs : (HasTask(x)' <=> HasTask(x)) /\ (Taken(x)' <=> Taken(x))
    <3>1. journal' = journal /\ beside' = beside
      BY <1>7 DEF Receive, diskVars, storeVars, clientVars, busVars, runVars, vars
    <3> QED
      BY <3>1, Unrecorded DEF HasTask, Taken
  <2>2. acked \subseteq Msgs /\ inbox \subseteq Msgs
    BY DEF IInv, TypeOK
  <2>3. recorded => Head(bus) \in Msgs
    BY Recording DEF IInv, Order
  <2> QED
    BY <1>7, <2>1, <2>2, <2>3, Types
       DEF IInv, Kept, Receive, At, Goto, Fail, Idle, vars, diskVars, storeVars,
           clientVars, busVars, runVars
<1>8. CASE LookUp
  <2>1. \A x \in Msgs : (HasTask(x)' <=> HasTask(x)) /\ (Taken(x)' <=> Taken(x))
    <3>1. journal' = journal /\ beside' = beside
      BY <1>8 DEF LookUp, diskVars, storeVars, clientVars, busVars, runVars, vars
    <3> QED
      BY <3>1, Unrecorded DEF HasTask, Taken
  <2>2. acked \subseteq Msgs /\ inbox \subseteq Msgs
    BY DEF IInv, TypeOK
  <2>3. recorded => Head(bus) \in Msgs
    BY Recording DEF IInv, Order
  <2> QED
    BY <1>8, <2>1, <2>2, <2>3, Types
       DEF IInv, Kept, LookUp, At, Goto, Fail, Idle, vars, diskVars, storeVars,
           clientVars, busVars, runVars
<1>9. CASE Publish
  <2>1. \A x \in Msgs : (HasTask(x)' <=> HasTask(x)) /\ (Taken(x)' <=> Taken(x))
    <3>1. journal' = journal /\ beside' = beside
      BY <1>9 DEF Publish, diskVars, storeVars, clientVars, busVars, runVars, vars
    <3> QED
      BY <3>1, Unrecorded DEF HasTask, Taken
  <2>2. acked \subseteq Msgs /\ inbox \subseteq Msgs
    BY DEF IInv, TypeOK
  <2>3. /\ client'.at \in {"idle", "wait"} /\ (client'.at = "wait" => result' = "none")
        /\ UNCHANGED <<acked, inbox, recorded>>
    BY <1>9, Types DEF IInv, Publish, At, Goto, Fail, Idle, diskVars
  <2>4. recorded => Head(bus') = Head(bus) /\ Head(bus) \in Msgs
    <3>1. bus \in Seq(Msgs) /\ client.msg \in Msgs /\ bus' \in {bus, Append(bus, client.msg)}
      BY <1>9, Types DEF IInv, TypeOK, Publish, At
    <3>2. recorded => bus # <<>> /\ Head(bus) \in Msgs
      BY Recording DEF IInv, Order
    <3>3. bus # <<>> => Head(Append(bus, client.msg)) = Head(bus)
      BY <3>1, Ends
    <3> QED
      BY <3>1, <3>2, <3>3
  <2> QED
    BY <2>1, <2>2, <2>3, <2>4 DEF IInv, Kept
<1>10. CASE Await
  <2>1. \A x \in Msgs : (HasTask(x)' <=> HasTask(x)) /\ (Taken(x)' <=> Taken(x))
    <3>1. journal' = journal /\ beside' = beside
      BY <1>10 DEF Await, diskVars, storeVars, clientVars, busVars, runVars, vars
    <3> QED
      BY <3>1, Unrecorded DEF HasTask, Taken
  <2>2. acked \subseteq Msgs /\ inbox \subseteq Msgs
    BY DEF IInv, TypeOK
  <2>3. recorded => Head(bus) \in Msgs
    BY Recording DEF IInv, Order
  <2> QED
    BY <1>10, <2>1, <2>2, <2>3, Types
       DEF IInv, Kept, Await, At, Goto, Fail, Idle, vars, diskVars, storeVars,
           clientVars, busVars, runVars
<1>11. CASE Put
  <2>1. \A x \in Msgs : (HasTask(x)' <=> HasTask(x)) /\ (Taken(x)' <=> Taken(x))
    <3>1. journal' = journal /\ beside' = beside
      BY <1>11 DEF Put, diskVars, storeVars, clientVars, busVars, runVars, vars
    <3> QED
      BY <3>1, Unrecorded DEF HasTask, Taken
  <2>2. acked \subseteq Msgs /\ inbox \subseteq Msgs
    BY DEF IInv, TypeOK
  <2>3. recorded => Head(bus) \in Msgs
    BY Recording DEF IInv, Order
  <2> QED
    BY <1>11, <2>1, <2>2, <2>3, Types
       DEF IInv, Kept, Put, At, Goto, Fail, Idle, vars, diskVars, storeVars,
           clientVars, busVars, runVars
<1>12. CASE Acknowledge
  <2>1. \A x \in Msgs : (HasTask(x)' <=> HasTask(x)) /\ (Taken(x)' <=> Taken(x))
    <3>1. journal' = journal /\ beside' = beside
      BY <1>12 DEF Acknowledge, diskVars, storeVars, clientVars, busVars, runVars, vars
    <3> QED
      BY <3>1, Unrecorded DEF HasTask, Taken
  <2>2. acked \subseteq Msgs /\ inbox \subseteq Msgs
    BY DEF IInv, TypeOK
  <2>3. recorded => Head(bus) \in Msgs
    BY Recording DEF IInv, Order
  <2> QED
    BY <1>12, <2>1, <2>2, <2>3, Types
       DEF IInv, Kept, Acknowledge, At, Goto, Fail, Idle, vars, diskVars, storeVars,
           clientVars, busVars, runVars
<1>13. CASE RecordQueued
  <2>1. Head(bus) \in Msgs /\ Record(Head(bus), "queued")
    BY <1>13, Recording
  <2>2. stage # "down" /\ stage' = stage /\ snapshot' = snapshot
    BY <1>13 DEF RecordQueued, At
  <2>3. RecordResult(Head(bus), "queued")
    BY <2>1, <2>2, RecordFacts DEF IInv, Unfinished, Ended
  <2>4. \A x \in Msgs : (HasTask(x) => HasTask(x)') /\ (Taken(x) => Taken(x)')
    <3>1. \A x \in Msgs : HasTask(x) => HasTask(x)'
      BY <2>1, <2>3, StaysRecorded DEF Unfinished, Ended
    <3>2. beside' = beside
      BY <1>13 DEF RecordQueued, runVars
    <3> QED
      BY <3>1, <3>2 DEF Taken
  <2>5. acked \subseteq Msgs /\ inbox \subseteq Msgs
    BY DEF IInv, TypeOK
  <2>6. UNCHANGED <<acked, inbox, client>>
    BY <1>13 DEF RecordQueued, clientVars
  <2>7. client.at # "idle" => client.msg \in Msgs
    BY Types DEF IInv
  <2>8. CASE Written
    <3>1. recorded' = TRUE /\ bus' = bus /\ result' = result /\ HasTask(Head(bus))'
      BY <1>13, <2>1, <2>3, <2>8, StaysRecorded DEF RecordQueued, Unfinished, Ended
    <3> QED
      BY <2>1, <2>4, <2>5, <2>6, <2>7, <3>1 DEF IInv, Kept
  <2>9. CASE ~Written
    <3>1. ~recorded' /\ result' \in {"error", result}
      BY <1>13, <2>9 DEF RecordQueued, Answer, IInv, TypeOK
    <3> QED
      BY <2>4, <2>5, <2>6, <2>7, <3>1 DEF IInv, Kept
  <2> QED
    BY <2>8, <2>9
<1>14. CASE Enqueue
  <2>1. \A x \in Msgs : (HasTask(x)' <=> HasTask(x)) /\ (Taken(x)' <=> Taken(x))
    <3>1. journal' = journal /\ beside' = beside
      BY <1>14 DEF Enqueue, diskVars, storeVars, clientVars, busVars, runVars, vars
    <3> QED
      BY <3>1, Unrecorded DEF HasTask, Taken
  <2>2. acked \subseteq Msgs /\ inbox \subseteq Msgs
    BY DEF IInv, TypeOK
  <2>3. bus \in Seq(Msgs) /\ bus # <<>> /\ Head(bus) \in Msgs /\ HasTask(Head(bus))
    BY <1>14, Types DEF IInv, TypeOK, Order, Kept, Enqueue
  <2>4. client.at = "wait" /\ Len(bus) = 1 => Taken(client.msg)
    BY <2>3, Ends DEF IInv, Order, Taken
  <2>5. /\ UNCHANGED <<acked, inbox, client>> /\ ~recorded'
        /\ result' = IF client.at = "wait" /\ Len(bus) = 1 THEN "ok" ELSE result
    BY <1>14 DEF Enqueue, Answer, diskVars, clientVars
  <2> QED
    BY <2>1, <2>2, <2>4, <2>5, Types DEF IInv, Kept
<1>15. CASE StartJob
  <2>1. Head(jobs) \in Msgs /\ Record(Head(jobs), "running")
    BY <1>15, Recording
  <2>2. stage # "down" /\ stage' = stage /\ snapshot' = snapshot
    BY <1>15 DEF StartJob, At
  <2>3. RecordResult(Head(jobs), "running")
    BY <2>1, <2>2, RecordFacts DEF IInv, Unfinished, Ended
  <2>4. \A x \in Msgs : (HasTask(x) => HasTask(x)') /\ (Taken(x) => Taken(x)')
    <3>1. \A x \in Msgs : HasTask(x) => HasTask(x)'
      BY <2>1, <2>3, StaysRecorded DEF Unfinished, Ended
    <3>2. beside' = beside
      BY <1>15 DEF StartJob, runVars
    <3> QED
      BY <3>1, <3>2 DEF Taken
  <2>5. acked \subseteq Msgs /\ inbox \subseteq Msgs
    BY DEF IInv, TypeOK
  <2>6. UNCHANGED <<acked, inbox, client, result, recorded, bus>>
    BY <1>15 DEF StartJob, clientVars, busVars
  <2> QED
    BY <2>4, <2>5, <2>6, Types DEF IInv, Kept, Order
<1>16. CASE EndJob
  <2>1. job.msg \in Msgs /\ Record(job.msg, "done")
    BY <1>16, Recording
  <2>2. stage # "down" /\ stage' = stage /\ snapshot' = snapshot
    BY <1>16 DEF EndJob, At
  <2>3. RecordResult(job.msg, "done")
    BY <2>1, <2>2, RecordFacts DEF IInv, Unfinished, Ended
  <2>4. \A x \in Msgs : (HasTask(x) => HasTask(x)') /\ (Taken(x) => Taken(x)')
    <3>1. \A x \in Msgs : HasTask(x) => HasTask(x)'
      BY <2>1, <2>3, StaysRecorded DEF Unfinished, Ended
    <3>2. beside' = beside
      BY <1>16 DEF EndJob, runVars
    <3> QED
      BY <3>1, <3>2 DEF Taken
  <2>5. acked \subseteq Msgs /\ inbox \subseteq Msgs
    BY DEF IInv, TypeOK
  <2>6. UNCHANGED <<acked, inbox, client, result, recorded, bus>>
    BY <1>16 DEF EndJob, clientVars, busVars
  <2> QED
    BY <2>4, <2>5, <2>6, Types DEF IInv, Kept, Order
<1>17. CASE UNCHANGED vars
  <2>1. \A x \in Msgs : (HasTask(x)' <=> HasTask(x)) /\ (Taken(x)' <=> Taken(x))
    <3>1. journal' = journal /\ beside' = beside
      BY <1>17 DEF vars, diskVars, storeVars, clientVars, busVars, runVars, vars
    <3> QED
      BY <3>1, Unrecorded DEF HasTask, Taken
  <2>2. acked \subseteq Msgs /\ inbox \subseteq Msgs
    BY DEF IInv, TypeOK
  <2>3. recorded => Head(bus) \in Msgs
    BY Recording DEF IInv, Order
  <2> QED
    BY <1>17, <2>1, <2>2, <2>3, Types
       DEF IInv, Kept, vars, At, Goto, Fail, Idle, vars, diskVars, storeVars,
           clientVars, busVars, runVars
<1>18. CASE Steer
  <2>1. bus \in Seq(Msgs) /\ bus # <<>> /\ Head(bus) \in Msgs /\ ~recorded'
    BY <1>18, Types, Recording DEF IInv, TypeOK, Order, Steer
  <2>2. \A x \in Msgs : Taken(x) \/ x = Head(bus) => Taken(x)'
    <3>1. \A x \in Msgs : HasTask(x)' <=> HasTask(x)
      BY <1>18, Unrecorded DEF HasTask, Steer, diskVars
    <3>2. /\ \A x \in Msgs : beside[x] # "none" => beside'[x] # "none"
          /\ beside'[Head(bus)] # "none"
      BY <1>18, <2>1 DEF IInv, TypeOK, Steer, Take
    <3> QED
      BY <2>1, <3>1, <3>2 DEF Taken
  <2>3. acked \subseteq Msgs /\ inbox \subseteq Msgs
    BY DEF IInv, TypeOK
  <2>4. client.at = "wait" /\ Len(bus) = 1 => Head(bus) = client.msg \/ result # "none"
    BY <2>1, Ends DEF IInv, Order
  <2>5. client.at = "wait" /\ Len(bus) = 1 => Head(bus) = client.msg
    BY <2>1, <2>4 DEF IInv, Order
  <2>6. /\ UNCHANGED <<acked, inbox, client>>
        /\ result' \in {"ok", "error"} \/ result' = result
        /\ result' # result => client.at = "wait" /\ Len(bus) = 1
    BY <1>18 DEF Steer, Answer, diskVars, clientVars
  <2> QED
    BY <2>1, <2>2, <2>3, <2>5, <2>6, Types DEF IInv, Kept
<1>19. CASE FindNoRun
  <2>1. \A x \in Msgs : (HasTask(x)' <=> HasTask(x)) /\ (Taken(x)' <=> Taken(x))
    <3>1. journal' = journal /\ beside' = beside
      BY <1>19 DEF FindNoRun, diskVars, runVars
    <3> QED
      BY <3>1, Unrecorded DEF HasTask, Taken
  <2>2. acked \subseteq Msgs /\ inbox \subseteq Msgs
    BY DEF IInv, TypeOK
  <2>3. recorded => Head(bus) \in Msgs
    BY Recording DEF IInv, Order
  <2> QED
    BY <1>19, <2>1, <2>2, <2>3, Types
       DEF IInv, Kept, FindNoRun, diskVars, clientVars, busVars
<1>20. CASE AnswerAtOnce
  <2>1. bus \in Seq(Msgs) /\ bus # <<>> /\ Head(bus) \in Msgs /\ ~recorded'
    BY <1>20, Types, Recording DEF IInv, TypeOK, Order, AnswerAtOnce
  <2>2. \A x \in Msgs : Taken(x) \/ x = Head(bus) => Taken(x)'
    <3>1. \A x \in Msgs : HasTask(x)' <=> HasTask(x)
      BY <1>20, Unrecorded DEF HasTask, AnswerAtOnce, diskVars
    <3>2. /\ \A x \in Msgs : beside[x] # "none" => beside'[x] # "none"
          /\ beside'[Head(bus)] # "none"
      BY <1>20, <2>1 DEF IInv, TypeOK, AnswerAtOnce, Take
    <3> QED
      BY <2>1, <3>1, <3>2 DEF Taken
  <2>3. acked \subseteq Msgs /\ inbox \subseteq Msgs
    BY DEF IInv, TypeOK
  <2>4. client.at = "wait" /\ Len(bus) = 1 => Head(bus) = client.msg \/ result # "none"
    BY <2>1, Ends DEF IInv, Order
  <2>5. client.at = "wait" /\ Len(bus) = 1 => Head(bus) = client.msg
    BY <2>1, <2>4 DEF IInv, Order
  <2>6. /\ UNCHANGED <<acked, inbox, client>>
        /\ result' \in {"ok", "error"} \/ result' = result
        /\ result' # result => client.at = "wait" /\ Len(bus) = 1
    BY <1>20 DEF AnswerAtOnce, Answer, diskVars, clientVars
  <2> QED
    BY <2>1, <2>2, <2>3, <2>5, <2>6, Types DEF IInv, Kept
<1>21. CASE StartRun
  <2>1. \A x \in Msgs : (HasTask(x)' <=> HasTask(x)) /\ (Taken(x)' <=> Taken(x))
    <3>1. journal' = journal /\ beside' = beside
      BY <1>21 DEF StartRun, diskVars, runVars
    <3> QED
      BY <3>1, Unrecorded DEF HasTask, Taken
  <2>2. acked \subseteq Msgs /\ inbox \subseteq Msgs
    BY DEF IInv, TypeOK
  <2>3. recorded => Head(bus) \in Msgs
    BY Recording DEF IInv, Order
  <2> QED
    BY <1>21, <2>1, <2>2, <2>3, Types
       DEF IInv, Kept, StartRun, diskVars, clientVars, busVars
<1>22. CASE EndRun
  <2>1. \A x \in Msgs : (HasTask(x)' <=> HasTask(x)) /\ (Taken(x)' <=> Taken(x))
    <3>1. journal' = journal /\ beside' = beside
      BY <1>22 DEF EndRun, diskVars, runVars
    <3> QED
      BY <3>1, Unrecorded DEF HasTask, Taken
  <2>2. acked \subseteq Msgs /\ inbox \subseteq Msgs
    BY DEF IInv, TypeOK
  <2>3. recorded => Head(bus) \in Msgs
    BY Recording DEF IInv, Order
  <2> QED
    BY <1>22, <2>1, <2>2, <2>3, Types
       DEF IInv, Kept, EndRun, diskVars, clientVars, busVars
<1> QED
  BY <1>1, <1>2, <1>3, <1>4, <1>5, <1>6, <1>7, <1>8, <1>9, <1>10, <1>11, <1>12,
     <1>13, <1>14, <1>15, <1>16, <1>17, <1>18, <1>19, <1>20, <1>21, <1>22
     DEF Next, StoreStep, ClientStep, BusStep, WorkerStep, Finished

\* How often a status was recorded, before and after an event.
LEMMA TimesFacts ==
  ASSUME TypeOK, NEW m \in Msgs, NEW status \in Unfinished \cup Ended, NEW x \in Msgs
  PROVE  /\ Times(x, "queued") \in Nat
         /\ RecordResult(m, status) /\ Written =>
              Times(x, "queued")' = IF x = m /\ status = "queued"
                                    THEN Times(x, "queued") + 1 ELSE Times(x, "queued")
<1> DEFINE e == [msg |-> x, status |-> "queued"]
           At1(js) == {i \in 1 .. Len(js) : js[i] = e}
           new == [msg |-> m, status |-> status]
           N == Len(journal)
<1>1. journal \in Seq(Events) /\ N \in Nat /\ new \in Events
  BY DEF TypeOK, Events
<1>2. IsFiniteSet(At1(journal))
  <2>1. IsFiniteSet(1 .. N)
    BY <1>1, FS_Interval
  <2> QED
    BY <2>1, FS_Subset
<1>3. Times(x, "queued") = Cardinality(At1(journal)) /\ Times(x, "queued") \in Nat
  BY <1>2, FS_CardinalityType DEF Times
<1>4. ASSUME RecordResult(m, status), Written
      PROVE  Times(x, "queued")' = IF x = m /\ status = "queued"
                                   THEN Times(x, "queued") + 1 ELSE Times(x, "queued")
  <2>1. journal' = Append(journal, new)
    BY <1>4 DEF RecordResult
  <2>2. /\ Len(journal') = N + 1 /\ journal'[N + 1] = new
        /\ \A i \in 1 .. N : journal'[i] = journal[i]
    BY <1>1, <2>1, AppendProperties
  <2>3. new = e <=> x = m /\ status = "queued"
    OBVIOUS
  <2> HIDE DEF e, new
  <2>4. At1(journal') = IF new = e THEN At1(journal) \cup {N + 1} ELSE At1(journal)
    BY <1>1, <2>2
  <2>5. N + 1 \notin At1(journal)
    BY <1>1
  <2>6. Cardinality(At1(journal) \cup {N + 1}) = Cardinality(At1(journal)) + 1
    BY <1>2, <2>5, FS_AddElement
  <2>7. Times(x, "queued")' = Cardinality(At1(journal'))
    BY DEF Times, e
  <2> HIDE DEF At1
  <2> QED
    BY <1>3, <2>3, <2>4, <2>6, <2>7
<1> QED
  BY <1>3, <1>4

\* The queue of the runner, with one task more and without its head.
LEMMA JobFacts ==
  ASSUME NEW q \in Seq(Msgs), NEW x \in Msgs
  PROVE  /\ \A y : In(Append(q, x), y) <=> In(q, y) \/ y = x
         /\ ~In(q, x) => Once(Append(q, x), x)
         /\ \A y : y # x /\ Once(q, y) => Once(Append(q, x), y)
         /\ q # <<>> => /\ In(q, Head(q))
                        /\ \A y : In(Tail(q), y) => In(q, y)
                        /\ \A y : Once(q, y) => Once(Tail(q), y)
                        /\ Once(q, Head(q)) => ~In(Tail(q), Head(q))
<1> DEFINE N == Len(q)
           r == Append(q, x)
<1>1. /\ N \in Nat /\ Len(r) = N + 1 /\ r[N + 1] = x
      /\ \A i \in 1 .. N : r[i] = q[i]
      /\ 1 .. N + 1 = 1 .. N \cup {N + 1}
  BY AppendProperties
<1> HIDE DEF r, N
<1>2. ASSUME NEW y PROVE In(r, y) <=> In(q, y) \/ y = x
  BY <1>1 DEF In, N
<1>3. ~In(q, x) => Once(r, x)
  BY <1>1 DEF In, Once, N
<1>4. ASSUME NEW y, y # x, Once(q, y) PROVE Once(r, y)
  BY <1>1, <1>4 DEF Once, N
<1>5. ASSUME q # <<>>
      PROVE  /\ In(q, Head(q))
             /\ \A y : In(Tail(q), y) => In(q, y)
             /\ \A y : Once(q, y) => Once(Tail(q), y)
             /\ Once(q, Head(q)) => ~In(Tail(q), Head(q))
  <2> DEFINE t == Tail(q)
  <2>1. /\ N \in Nat \ {0} /\ Len(t) = N - 1 /\ Head(q) = q[1]
        /\ \A i \in 1 .. Len(t) : t[i] = q[i + 1]
    BY <1>5, EmptySeq, HeadTailProperties DEF N
  <2> HIDE DEF t
  <2>2. 1 \in 1 .. N /\ \A i \in 1 .. Len(t) : i + 1 \in 1 .. N /\ i + 1 # 1
    BY <2>1
  <2>3. In(q, Head(q))
    BY <2>1, <2>2 DEF In, N
  <2>4. \A y : In(t, y) => In(q, y)
    BY <2>1, <2>2 DEF In, N
  <2>5. ASSUME NEW y, Once(q, y), NEW i \in 1 .. Len(t), NEW j \in 1 .. Len(t),
               t[i] = y, t[j] = y
        PROVE  i = j
    <3>1. i + 1 = j + 1
      BY <2>1, <2>2, <2>5 DEF Once, N
    <3> QED
      BY <2>1, <3>1
  <2>6. Once(q, Head(q)) => ~In(t, Head(q))
    BY <2>1, <2>2 DEF In, Once, N
  <2> QED
    BY <2>3, <2>4, <2>5, <2>6 DEF t, Once
<1> QED
  BY <1>2, <1>3, <1>4, <1>5 DEF r

\* A task that is in no place, or in the place it was in, with the status it had.
LEMMA StaysPlaced ==
  ASSUME IInv, NEW x \in Msgs, Status(x)' = Status(x), Times(x, "queued")' = Times(x, "queued"),
         Waits(x)' => Waits(x), In(jobs, x)' => In(jobs, x), Runs(x)' => Runs(x),
         In(jobs, x)' /\ Once(jobs, x) => Once(jobs, x)'
  PROVE  /\ Times(x, "queued")' = 0 => Status(x)' = "none"
         /\ Times(x, "queued")' <= 1 => InOnePlace(x)'
BY DEF IInv, Placed, InOnePlace

\* With the same journal, what still is in a place is where it was.
LEMMA StaysInPlace ==
  ASSUME IInv, journal' = journal,
         recorded' => recorded /\ Head(bus') = Head(bus),
         jobs' \in {jobs, <<>>}, job' = job \/ job'.at = "idle" \/ (job.at # "idle" /\ job'.msg = job.msg)
  PROVE  Placed'
<1>1. ASSUME NEW x \in Msgs
      PROVE  /\ Times(x, "queued")' = 0 => Status(x)' = "none"
             /\ Times(x, "queued")' <= 1 => InOnePlace(x)'
  <2>1. Status(x)' = Status(x) /\ Times(x, "queued")' = Times(x, "queued")
    BY Unrecorded
  <2>2. ~In(<<>>, x)
    BY DEF In
  <2>3. (In(jobs, x)' => In(jobs, x)) /\ (In(jobs, x)' /\ Once(jobs, x) => Once(jobs, x)')
    BY <2>2 DEF In, Once
  <2>4. (Waits(x)' => Waits(x)) /\ (Runs(x)' => Runs(x))
    BY DEF Waits, Runs
  <2> QED
    BY <2>1, <2>3, <2>4, StaysPlaced
<1> QED
  BY <1>1 DEF Placed

\* Every step keeps a task that was queued once in one place.
LEMMA PlacedStep == IInv /\ [Next]_vars => Placed'
<1> SUFFICES ASSUME IInv, [Next]_vars PROVE Placed'
  OBVIOUS
<1>1. CASE Load
  <2>1. journal' = journal
    BY <1>1 DEF Load, vars, diskVars, storeVars, clientVars, busVars, runVars
  <2>2. jobs' = jobs /\ job' = job /\ recorded' = recorded /\ bus' = bus
    BY <1>1 DEF Load, vars, diskVars, storeVars, clientVars, busVars, runVars
  <2> QED
    BY <2>1, <2>2, StaysInPlace
<1>2. ASSUME NEW m \in Msgs, Recover(m) PROVE Placed'
  <2>1. Record(m, "canceled")
    BY <1>2, Recording
  <2>2. stage # "down" /\ stage' = stage /\ snapshot' = snapshot
    BY <1>2 DEF Recover, At
  <2>3. RecordResult(m, "canceled")
    BY <2>1, <2>2, RecordFacts DEF IInv, Unfinished, Ended
  <2>4. ~recorded' /\ jobs' = <<>> /\ job' = Idle
    BY <1>2 DEF IInv, Down, Recover, busVars, runVars
  <2>5. ASSUME NEW x \in Msgs, Written
        PROVE  /\ Status(x)' = IF x = m THEN "canceled" ELSE Status(x)
               /\ Times(x, "queued") \in Nat
               /\ Times(x, "queued")' = Times(x, "queued")
    <3>1. Status(x)' = IF x = m THEN "canceled" ELSE Status(x)
      BY <2>3, <2>5 DEF RecordResult
    <3>2. TypeOK /\ "canceled" \in Unfinished \cup Ended /\ "canceled" # "queued"
      BY DEF IInv, Unfinished, Ended
    <3>3. Times(x, "queued") \in Nat /\ Times(x, "queued")' = Times(x, "queued")
      BY <2>3, <2>5, <3>2, TimesFacts
    <3> QED
      BY <3>1, <3>3
  <2>6. ASSUME NEW x \in Msgs, ~Written
        PROVE  Status(x)' = Status(x) /\ Times(x, "queued")' = Times(x, "queued")
    BY <2>3, <2>6, Unrecorded DEF RecordResult
  <2>7. ASSUME NEW x \in Msgs PROVE (Times(x, "queued")' = 0 => Status(x)' = "none")
               /\ (Times(x, "queued")' <= 1 => InOnePlace(x)')
    <3>1. ~Waits(x)' /\ ~In(jobs, x)' /\ ~Runs(x)'
      BY <2>4 DEF Waits, In, Runs, Idle
    <3>2. Status(m) # "none"
      BY <1>2, <2>2 DEF IInv, View, Status, Recover, Unfinished
    <3> QED
      BY <2>5, <2>6, <3>1, <3>2 DEF IInv, Placed, InOnePlace
  <2> QED
    BY <2>7 DEF Placed
<1>3. CASE Save
  <2>1. journal' = journal
    BY <1>3 DEF Save, vars, diskVars, storeVars, clientVars, busVars, runVars
  <2>2. jobs' = jobs /\ job' = job /\ recorded' = recorded /\ bus' = bus
    BY <1>3 DEF Save, vars, diskVars, storeVars, clientVars, busVars, runVars
  <2> QED
    BY <2>1, <2>2, StaysInPlace
<1>4. CASE Crash
  <2>1. journal' = journal
    BY <1>4 DEF Crash, vars, diskVars, storeVars, clientVars, busVars, runVars
  <2>2. ~recorded' /\ jobs' = <<>> /\ job' = Idle /\ Idle.at = "idle"
    BY <1>4 DEF Crash, Idle
  <2> QED
    BY <2>1, <2>2, StaysInPlace
<1>5. CASE LoseConnection
  <2>1. journal' = journal
    BY <1>5 DEF LoseConnection, vars, diskVars, storeVars, clientVars, busVars, runVars
  <2>2. jobs' = jobs /\ job' = job /\ recorded' = recorded /\ bus' = bus
    BY <1>5 DEF LoseConnection, vars, diskVars, storeVars, clientVars, busVars, runVars
  <2> QED
    BY <2>1, <2>2, StaysInPlace
<1>6. CASE Reconnect
  <2>1. journal' = journal
    BY <1>6 DEF Reconnect, vars, diskVars, storeVars, clientVars, busVars, runVars
  <2>2. jobs' = jobs /\ job' = job /\ recorded' = recorded /\ bus' = bus
    BY <1>6 DEF Reconnect, vars, diskVars, storeVars, clientVars, busVars, runVars
  <2> QED
    BY <2>1, <2>2, StaysInPlace
<1>7. ASSUME NEW m \in Msgs, Receive(m) PROVE Placed'
  <2>1. journal' = journal
    BY <1>7 DEF Receive, vars, diskVars, storeVars, clientVars, busVars, runVars
  <2>2. jobs' = jobs /\ job' = job /\ recorded' = recorded /\ bus' = bus
    BY <1>7 DEF Receive, vars, diskVars, storeVars, clientVars, busVars, runVars
  <2> QED
    BY <2>1, <2>2, StaysInPlace
<1>8. CASE LookUp
  <2>1. journal' = journal
    BY <1>8 DEF LookUp, vars, diskVars, storeVars, clientVars, busVars, runVars
  <2>2. jobs' = jobs /\ job' = job /\ recorded' = recorded /\ bus' = bus
    BY <1>8 DEF LookUp, vars, diskVars, storeVars, clientVars, busVars, runVars
  <2> QED
    BY <2>1, <2>2, StaysInPlace
<1>9. CASE Publish
  <2>1. journal' = journal
    BY <1>9 DEF Publish, vars, diskVars, storeVars, clientVars, busVars, runVars
  <2>2. jobs' = jobs /\ job' = job /\ recorded' = recorded /\ (recorded => Head(bus') = Head(bus))
    <3>1. bus \in Seq(Msgs) /\ client.msg \in Msgs /\ bus' \in {bus, Append(bus, client.msg)}
      BY <1>9, Types DEF IInv, TypeOK, Publish, At
    <3>2. recorded => bus # <<>>
      BY DEF IInv, Order
    <3>3. bus # <<>> => Head(Append(bus, client.msg)) = Head(bus)
      BY <3>1, Ends
    <3> QED
      BY <1>9, <3>1, <3>2, <3>3 DEF Publish, runVars
  <2> QED
    BY <2>1, <2>2, StaysInPlace
<1>10. CASE Await
  <2>1. journal' = journal
    BY <1>10 DEF Await, vars, diskVars, storeVars, clientVars, busVars, runVars
  <2>2. jobs' = jobs /\ job' = job /\ recorded' = recorded /\ bus' = bus
    BY <1>10 DEF Await, vars, diskVars, storeVars, clientVars, busVars, runVars
  <2> QED
    BY <2>1, <2>2, StaysInPlace
<1>11. CASE Put
  <2>1. journal' = journal
    BY <1>11 DEF Put, vars, diskVars, storeVars, clientVars, busVars, runVars
  <2>2. jobs' = jobs /\ job' = job /\ recorded' = recorded /\ bus' = bus
    BY <1>11 DEF Put, vars, diskVars, storeVars, clientVars, busVars, runVars
  <2> QED
    BY <2>1, <2>2, StaysInPlace
<1>12. CASE Acknowledge
  <2>1. journal' = journal
    BY <1>12 DEF Acknowledge, vars, diskVars, storeVars, clientVars, busVars, runVars
  <2>2. jobs' = jobs /\ job' = job /\ recorded' = recorded /\ bus' = bus
    BY <1>12 DEF Acknowledge, vars, diskVars, storeVars, clientVars, busVars, runVars
  <2> QED
    BY <2>1, <2>2, StaysInPlace
<1>13. CASE RecordQueued
  <2>1. Head(bus) \in Msgs /\ Record(Head(bus), "queued")
    BY <1>13, Recording
  <2>2. stage # "down" /\ stage' = stage /\ snapshot' = snapshot
    BY <1>13 DEF RecordQueued, At
  <2>3. RecordResult(Head(bus), "queued")
    BY <2>1, <2>2, RecordFacts DEF IInv, Unfinished, Ended
  <2>4. /\ ~recorded /\ jobs' = jobs /\ job' = job
        /\ IF Written THEN recorded' /\ bus' = bus ELSE ~recorded'
    BY <1>13 DEF RecordQueued, runVars
  <2>5. ASSUME NEW x \in Msgs, Written
        PROVE  /\ Status(x)' = IF x = Head(bus) THEN "queued" ELSE Status(x)
               /\ Times(x, "queued") \in Nat
               /\ Times(x, "queued")' = IF x = Head(bus) THEN Times(x, "queued") + 1 ELSE Times(x, "queued")
    BY <2>1, <2>3, <2>5, TimesFacts DEF IInv, RecordResult, Unfinished, Ended
  <2>6. ASSUME NEW x \in Msgs, ~Written
        PROVE  Status(x)' = Status(x) /\ Times(x, "queued")' = Times(x, "queued")
    BY <2>3, <2>6, Unrecorded DEF RecordResult
  <2>7. ASSUME NEW x \in Msgs PROVE (Times(x, "queued")' = 0 => Status(x)' = "none")
               /\ (Times(x, "queued")' <= 1 => InOnePlace(x)')
    <3>1. In(jobs, x)' <=> In(jobs, x)
      BY <2>4 DEF In
    <3>2. (Once(jobs, x)' <=> Once(jobs, x)) /\ (Runs(x)' <=> Runs(x))
      BY <2>4 DEF Once, Runs
    <3>3. CASE ~Written \/ x # Head(bus)
      <4>1. Waits(x)' => Waits(x)
        BY <2>4, <3>3 DEF Waits
      <4>2. Status(x)' = Status(x) /\ Times(x, "queued")' = Times(x, "queued")
        BY <2>5, <2>6, <3>3
      <4> QED
        BY <3>1, <3>2, <4>1, <4>2, StaysPlaced
    <3>4. CASE Written /\ x = Head(bus)
      <4>1. /\ Status(x)' = "queued" /\ Times(x, "queued") \in Nat
            /\ Times(x, "queued")' = Times(x, "queued") + 1
        BY <2>5, <3>4
      <4>2. Times(x, "queued")' <= 1 => Times(x, "queued") = 0
        BY <4>1
      <4>3. Times(x, "queued") = 0 => ~In(jobs, x) /\ ~Runs(x)
        BY DEF IInv, Placed, InOnePlace
      <4> QED
        BY <3>1, <3>2, <4>1, <4>2, <4>3 DEF InOnePlace
    <3> QED
      BY <3>3, <3>4
  <2> QED
    BY <2>7 DEF Placed
<1>14. CASE Enqueue
  <2>1. journal' = journal /\ job' = job /\ ~recorded'
    BY <1>14 DEF Enqueue, diskVars
  <2>2. jobs \in Seq(Msgs) /\ Head(bus) \in Msgs /\ jobs' = Append(jobs, Head(bus)) /\ Waits(Head(bus))
    BY <1>14, Types DEF IInv, TypeOK, Order, Enqueue, Waits
  <2>3. ASSUME NEW x \in Msgs PROVE (Times(x, "queued")' = 0 => Status(x)' = "none")
               /\ (Times(x, "queued")' <= 1 => InOnePlace(x)')
    <3>1. Status(x)' = Status(x) /\ Times(x, "queued")' = Times(x, "queued")
      BY <2>1, Unrecorded
    <3>2. ~Waits(x)' /\ (Runs(x)' <=> Runs(x))
      BY <2>1 DEF Waits, Runs
    <3>3. In(jobs, x)' <=> In(Append(jobs, Head(bus)), x)
      BY <2>2 DEF In
    <3>4. Once(jobs, x)' <=> Once(Append(jobs, Head(bus)), x)
      BY <2>2 DEF Once
    <3>5. CASE x = Head(bus)
      <4>1. ~In(jobs, x) => Once(jobs, x)'
        BY <2>2, <3>4, <3>5, JobFacts
      <4> QED
        BY <2>2, <3>1, <3>2, <3>5, <4>1 DEF IInv, Placed, InOnePlace
    <3>6. CASE x # Head(bus)
      <4>1. (In(jobs, x)' => In(jobs, x)) /\ (Once(jobs, x) => Once(jobs, x)')
        BY <2>2, <3>3, <3>4, <3>6, JobFacts
      <4> QED
        BY <3>1, <3>2, <4>1, StaysPlaced
    <3> QED
      BY <3>5, <3>6
  <2> QED
    BY <2>3 DEF Placed
<1>15. CASE StartJob
  <2>1. Head(jobs) \in Msgs /\ Record(Head(jobs), "running")
    BY <1>15, Recording
  <2>2. stage # "down" /\ stage' = stage /\ snapshot' = snapshot
    BY <1>15 DEF StartJob, At
  <2>3. RecordResult(Head(jobs), "running")
    BY <2>1, <2>2, RecordFacts DEF IInv, Unfinished, Ended
  <2>4. /\ jobs \in Seq(Msgs) /\ jobs # <<>> /\ jobs' = Tail(jobs) /\ UNCHANGED <<bus, recorded>>
        /\ job' = IF Written THEN [at |-> "marked", msg |-> Head(jobs)] ELSE Idle
    BY <1>15 DEF IInv, TypeOK, StartJob, busVars
  <2>5. ASSUME NEW x \in Msgs, Written
        PROVE  /\ Status(x)' = IF x = Head(jobs) THEN "running" ELSE Status(x)
               /\ Times(x, "queued") \in Nat
               /\ Times(x, "queued")' = Times(x, "queued")
    BY <2>1, <2>3, <2>5, TimesFacts DEF IInv, RecordResult, Unfinished, Ended
  <2>6. ASSUME NEW x \in Msgs, ~Written
        PROVE  Status(x)' = Status(x) /\ Times(x, "queued")' = Times(x, "queued")
    BY <2>3, <2>6, Unrecorded DEF RecordResult
  <2>7. ASSUME NEW x \in Msgs PROVE (Times(x, "queued")' = 0 => Status(x)' = "none")
               /\ (Times(x, "queued")' <= 1 => InOnePlace(x)')
    <3>1. In(jobs, x)' => In(jobs, x)
      <4>1. In(jobs, x)' <=> In(Tail(jobs), x)
        BY <2>4 DEF In
      <4> QED
        BY <2>1, <2>4, <4>1, JobFacts
    <3>2. Once(jobs, x) => Once(jobs, x)'
      <4>1. Once(jobs, x)' <=> Once(Tail(jobs), x)
        BY <2>4 DEF Once
      <4> QED
        BY <2>1, <2>4, <4>1, JobFacts
    <3>3. Waits(x)' <=> Waits(x)
      BY <2>4 DEF Waits
    <3>4. CASE ~Written \/ x # Head(jobs)
      <4>1. ~Runs(x)'
        BY <2>4, <3>4 DEF Runs, Idle
      <4>2. Status(x)' = Status(x) /\ Times(x, "queued")' = Times(x, "queued")
        BY <2>5, <2>6, <3>4
      <4> QED
        BY <3>1, <3>2, <3>3, <4>1, <4>2, StaysPlaced
    <3>5. CASE Written /\ x = Head(jobs)
      <4>1. /\ Status(x)' = "running" /\ Times(x, "queued") \in Nat
            /\ Times(x, "queued")' = Times(x, "queued")
        BY <2>5, <3>5
      <4>2. In(jobs, x)
        BY <2>1, <2>4, <3>5, JobFacts
      <4>3. Times(x, "queued") # 0
        <5>1. Times(x, "queued") = 0 => Status(x) = "none" /\ InOnePlace(x)
          BY DEF IInv, Placed
        <5> QED
          BY <4>2, <5>1 DEF InOnePlace
      <4>4. Times(x, "queued") <= 1 => InOnePlace(x)
        BY DEF IInv, Placed
      <4>5. Once(jobs, x) => ~In(jobs, x)'
        <5>1. In(jobs, x)' <=> In(Tail(jobs), x)
          BY <2>4 DEF In
        <5> QED
          BY <2>1, <2>4, <3>5, <5>1, JobFacts
      <4> QED
        BY <3>3, <4>1, <4>2, <4>3, <4>4, <4>5 DEF InOnePlace
    <3> QED
      BY <3>4, <3>5
  <2> QED
    BY <2>7 DEF Placed
<1>16. CASE EndJob
  <2>1. job.msg \in Msgs /\ Record(job.msg, "done")
    BY <1>16, Recording
  <2>2. stage # "down" /\ stage' = stage /\ snapshot' = snapshot
    BY <1>16 DEF EndJob, At
  <2>3. RecordResult(job.msg, "done")
    BY <2>1, <2>2, RecordFacts DEF IInv, Unfinished, Ended
  <2>4. UNCHANGED <<bus, recorded, jobs>> /\ job' = Idle /\ Runs(job.msg)
    BY <1>16 DEF EndJob, busVars, Runs
  <2>5. ASSUME NEW x \in Msgs, Written
        PROVE  /\ Status(x)' = IF x = job.msg THEN "done" ELSE Status(x)
               /\ Times(x, "queued") \in Nat
               /\ Times(x, "queued")' = Times(x, "queued")
    BY <2>1, <2>3, <2>5, TimesFacts DEF IInv, RecordResult, Unfinished, Ended
  <2>6. ASSUME NEW x \in Msgs, ~Written
        PROVE  Status(x)' = Status(x) /\ Times(x, "queued")' = Times(x, "queued")
    BY <2>3, <2>6, Unrecorded DEF RecordResult
  <2>7. ASSUME NEW x \in Msgs PROVE (Times(x, "queued")' = 0 => Status(x)' = "none")
               /\ (Times(x, "queued")' <= 1 => InOnePlace(x)')
    <3>1. (In(jobs, x)' <=> In(jobs, x)) /\ (Once(jobs, x)' <=> Once(jobs, x))
      BY <2>4 DEF In, Once
    <3>2. (Waits(x)' <=> Waits(x)) /\ ~Runs(x)'
      BY <2>4 DEF Waits, Runs, Idle
    <3>3. CASE ~Written \/ x # job.msg
      BY <2>5, <2>6, <3>1, <3>2, <3>3, StaysPlaced
    <3>4. CASE Written /\ x = job.msg
      <4>1. /\ Status(x)' = "done" /\ Times(x, "queued") \in Nat
            /\ Times(x, "queued")' = Times(x, "queued")
        BY <2>5, <3>4
      <4>2. Times(x, "queued") = 0 => Status(x) = "none" /\ InOnePlace(x)
        BY DEF IInv, Placed
      <4>3. Times(x, "queued") <= 1 => InOnePlace(x)
        BY DEF IInv, Placed
      <4> QED
        BY <2>4, <3>1, <3>2, <3>4, <4>1, <4>2, <4>3 DEF InOnePlace
    <3> QED
      BY <3>3, <3>4
  <2> QED
    BY <2>7 DEF Placed
<1>17. CASE UNCHANGED vars
  <2>1. journal' = journal
    BY <1>17 DEF vars, diskVars, storeVars, clientVars, busVars, runVars
  <2>2. jobs' = jobs /\ job' = job /\ recorded' = recorded /\ bus' = bus
    BY <1>17 DEF vars, diskVars, storeVars, clientVars, busVars, runVars
  <2> QED
    BY <2>1, <2>2, StaysInPlace
<1>18. CASE Steer
  <2>1. journal' = journal /\ jobs' = jobs /\ job' = job /\ ~recorded'
    BY <1>18 DEF IInv, Order, Steer, diskVars
  <2> QED
    BY <2>1, StaysInPlace
<1>19. CASE FindNoRun
  <2>1. journal' = journal /\ jobs' = jobs /\ job' = job /\ recorded' = recorded /\ bus' = bus
    BY <1>19 DEF FindNoRun, diskVars, runVars
  <2> QED
    BY <2>1, StaysInPlace
<1>20. CASE AnswerAtOnce
  <2>1. journal' = journal /\ jobs' = jobs /\ job' = job /\ ~recorded'
    BY <1>20 DEF IInv, Order, AnswerAtOnce, diskVars
  <2> QED
    BY <2>1, StaysInPlace
<1>21. CASE StartRun
  <2>1. journal' = journal /\ jobs' = jobs /\ recorded' = recorded /\ bus' = bus
    BY <1>21 DEF StartRun, diskVars, busVars
  <2>2. job.at # "idle" /\ job'.msg = job.msg
    BY <1>21, Types DEF IInv, TypeOK, StartRun
  <2> QED
    BY <2>1, <2>2, StaysInPlace
<1>22. CASE EndRun
  <2>1. journal' = journal /\ jobs' = jobs /\ recorded' = recorded /\ bus' = bus
    BY <1>22 DEF EndRun, diskVars, busVars
  <2>2. job.at # "idle" /\ job'.msg = job.msg
    BY <1>22, Types DEF IInv, TypeOK, EndRun
  <2> QED
    BY <2>1, <2>2, StaysInPlace
<1> QED
  BY <1>1, <1>2, <1>3, <1>4, <1>5, <1>6, <1>7, <1>8, <1>9, <1>10, <1>11, <1>12,
     <1>13, <1>14, <1>15, <1>16, <1>17, <1>18, <1>19, <1>20, <1>21, <1>22
     DEF Next, StoreStep, ClientStep, BusStep, WorkerStep, Finished

\* What a step that may record an event has recorded when a status changes.
LEMMA ChangedBy ==
  ASSUME TypeOK, NEW m \in Msgs, NEW status \in Unfinished \cup Ended, RecordResult(m, status),
         NEW x \in Msgs, Status(x)' # Status(x)
  PROVE  /\ x = m /\ Status(x)' = status
         /\ Times(x, "queued") \in Nat
         /\ Times(x, "queued")' =
              IF status = "queued" THEN Times(x, "queued") + 1 ELSE Times(x, "queued")
<1>1. Written
  BY Unrecorded DEF RecordResult
<1>2. x = m /\ Status(x)' = status
  BY <1>1 DEF RecordResult
<1> QED
  BY <1>1, <1>2, TimesFacts

\* How far the statuses are.
LEMMA Ranks ==
  /\ Rank("none") = 0 /\ Rank("queued") = 1 /\ Rank("running") = 2
  /\ Rank("done") = 3 /\ Rank("canceled") = 3
BY DEF Rank, Ended

\* A task that was queued once only moves forward.
LEMMA ForwardStep ==
  ASSUME IInv, [Next]_vars, NEW x \in Msgs, Times(x, "queued")' <= 1, Status(x)' # Status(x)
  PROVE  Rank(Status(x)) < Rank(Status(x)')
<1>0. /\ Times(x, "queued") = 0 => Status(x) = "none"
      /\ Times(x, "queued") <= 1 => InOnePlace(x)
  BY DEF IInv, Placed
<1>1. ASSUME NEW m \in Msgs, Recover(m) PROVE Rank(Status(x)) < Rank(Status(x)')
  <2>1. Record(m, "canceled") /\ stage # "down" /\ snapshot' = snapshot /\ items[m] \in Unfinished
    BY <1>1, Recording DEF Recover
  <2>2. RecordResult(m, "canceled")
    BY <2>1, RecordFacts DEF IInv, Unfinished, Ended
  <2>3. x = m /\ Status(x)' = "canceled"
    BY <2>2, ChangedBy DEF IInv, Unfinished, Ended
  <2>4. Status(m) = items[m]
    BY <2>1 DEF IInv, View, Status
  <2> QED
    BY <2>1, <2>3, <2>4, Ranks DEF Unfinished
<1>2. CASE RecordQueued
  <2>1. Head(bus) \in Msgs /\ Record(Head(bus), "queued") /\ stage # "down" /\ snapshot' = snapshot
    BY <1>2, Recording DEF RecordQueued
  <2>2. RecordResult(Head(bus), "queued")
    BY <2>1, RecordFacts DEF IInv, Unfinished, Ended
  <2>3. /\ Status(x)' = "queued" /\ Times(x, "queued") \in Nat
        /\ Times(x, "queued")' = Times(x, "queued") + 1
    BY <2>1, <2>2, ChangedBy DEF IInv, Unfinished, Ended
  <2>4. Times(x, "queued") = 0
    BY <2>3
  <2> QED
    BY <1>0, <2>3, <2>4, Ranks
<1>3. CASE StartJob
  <2>1. /\ Head(jobs) \in Msgs /\ Record(Head(jobs), "running") /\ stage # "down"
        /\ snapshot' = snapshot /\ jobs # <<>> /\ jobs \in Seq(Msgs)
    BY <1>3, Recording DEF StartJob, IInv, TypeOK
  <2>2. RecordResult(Head(jobs), "running")
    BY <2>1, RecordFacts DEF IInv, Unfinished, Ended
  <2>3. x = Head(jobs) /\ Status(x)' = "running" /\ Times(x, "queued")' = Times(x, "queued")
    BY <2>1, <2>2, ChangedBy DEF IInv, Unfinished, Ended
  <2>4. In(jobs, x)
    BY <2>1, <2>3, JobFacts
  <2>5. InOnePlace(x)
    BY <1>0, <2>3
  <2> QED
    BY <2>3, <2>4, <2>5, Ranks DEF InOnePlace
<1>4. CASE EndJob
  <2>1. /\ job.msg \in Msgs /\ Record(job.msg, "done") /\ stage # "down"
        /\ snapshot' = snapshot /\ Runs(job.msg)
    BY <1>4, Recording DEF EndJob, Runs
  <2>2. RecordResult(job.msg, "done")
    BY <2>1, RecordFacts DEF IInv, Unfinished, Ended
  <2>3. x = job.msg /\ Status(x)' = "done" /\ Times(x, "queued")' = Times(x, "queued")
    BY <2>1, <2>2, ChangedBy DEF IInv, Unfinished, Ended
  <2>4. InOnePlace(x)
    BY <1>0, <2>3
  <2> QED
    BY <2>1, <2>3, <2>4, Ranks DEF InOnePlace
<1>5. journal' # journal
  BY Unrecorded
<1> QED
  BY <1>1, <1>2, <1>3, <1>4, <1>5
     DEF Next, StoreStep, ClientStep, BusStep, WorkerStep, Finished, Load, Save, Crash,
         LoseConnection, Reconnect, Receive, LookUp, Publish, Await, Put, Acknowledge, Enqueue,
         Steer, FindNoRun, AnswerAtOnce, StartRun, EndRun,
         diskVars, storeVars, vars

-----------------------------------------------------------------------------
\* A process that was never started has recorded nothing.
LEMMA IInvInit == Init => IInv
<1> SUFFICES ASSUME Init PROVE IInv
  OBVIOUS
<1>1. journal = <<>> /\ Len(<<>>) = 0 /\ <<>> \in Seq(Events) /\ <<>> \in Seq(Msgs)
  BY EmptySeq DEF Init
<1>2. NoItems \in [Msgs -> Statuses] /\ Replay(NoItems, journal) = NoItems
  BY <1>1, ReplayFacts DEF NoItems, Statuses
<1>3. TypeOK
  <2>1. journal \in Seq(Events) /\ 0 \in 0 .. Len(journal) /\ 0 \in 0 .. MaxTroubles
    BY <1>1, IntakeAssumption
  <2>2. snapshot.cursor = 0 /\ cursor = 0 /\ troubles = 0
    BY DEF Init
  <2>3. bus \in Seq(Msgs) /\ jobs \in Seq(Msgs) /\ client = Idle /\ job = Idle
    BY <1>1 DEF Init
  <2>4. /\ acked = {} /\ inbox = {} /\ stage = "down" /\ items = NoItems
        /\ lost = FALSE /\ looked = FALSE /\ recorded = FALSE /\ result = "none"
    BY DEF Init
  <2>5. beside \in [Msgs -> Besides]
    BY DEF Init, Besides
  <2> QED
    BY <1>2, <2>1, <2>2, <2>3, <2>4, <2>5 DEF TypeOK
<1>4. View
  BY <1>2 DEF Init, View
<1>5. Snapshot
  <2>1. snapshot.cursor = 0 /\ snapshot.items = NoItems
    BY DEF Init
  <2>2. SubSeq(journal, 0 + 1, Len(journal)) = <<>>
    BY <1>1, SubSeqEmpty
  <2> QED
    BY <1>2, <2>1, <2>2, ReplayFacts DEF Snapshot
<1>6. Down /\ Order
  BY DEF Init, Down, Order, Idle
<1>7. Kept
  BY DEF Init, Kept, Idle
<1>8. ASSUME NEW m \in Msgs PROVE Status(m) = "none" /\ InOnePlace(m)
  <2>1. Status(m) = "none"
    BY <1>2 DEF Status, NoItems
  <2>2. ~Waits(m) /\ ~In(jobs, m) /\ ~Runs(m)
    BY <1>1 DEF Init, Waits, In, Runs, Idle
  <2> QED
    BY <2>1, <2>2 DEF InOnePlace
<1> QED
  BY <1>3, <1>4, <1>5, <1>6, <1>7, <1>8 DEF IInv, Placed

\* Every step keeps the invariant.
LEMMA IInvStep == IInv /\ [Next]_vars => IInv'
BY TypeStep, ViewStep, DownStep, OrderStep, KeptStep, PlacedStep DEF IInv

\* The inductive invariant holds in every reachable state.
THEOREM Invariance == Spec => []IInv
BY IInvInit, IInvStep, PTL DEF Spec

\* Every variable has its type: no journal, queue or cursor leaves the values the
\* store and the channel can hold.
THEOREM TypeCorrect == Spec => []TypeOK
<1>1. IInv => TypeOK
  BY DEF IInv
<1> QED
  BY <1>1, Invariance, PTL

\* The view of a store that is up is what the journal says, whatever crashes,
\* failed writes and unusable snapshots came before (load, file_store.go).
THEOREM ViewFollowsJournal == Spec => []ViewIsJournal
<1>1. IInv => ViewIsJournal
  BY DEF IInv, View, ViewIsJournal
<1> QED
  BY <1>1, Invariance, PTL

\* A message that the platform will not send again has a task in the journal, or was
\* steered into a run of its conversation, or was answered at once (the connection
\* acknowledges what its handler has returned for, blaze.go).
THEOREM AcknowledgedMessagesAreTaken == Spec => []AckedIsTaken
<1>1. IInv => AckedIsTaken
  BY DEF IInv, Kept, HasTask, Taken, AckedIsTaken
<1> QED
  BY <1>1, Invariance, PTL

\* A task that was queued once only moves forward, through every restart and
\* every recovery (recoverNonTerminalTasksLocked, file_store.go).
THEOREM TasksMoveForward == Spec => OnlyForward
<1> DEFINE Forward ==
      \A m \in Msgs : Times(m, "queued")' <= 1 /\ Status(m)' # Status(m)
         => Rank(Status(m)) < Rank(Status(m)')
<1>1. IInv /\ [Next]_vars => [Forward]_vars
  BY ForwardStep
<1> QED
  BY <1>1, Invariance, PTL DEF Spec, OnlyForward
=============================================================================
