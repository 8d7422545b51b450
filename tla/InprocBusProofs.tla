-------------------------- MODULE InprocBusProofs --------------------------
(***************************************************************************)
(* Theorems about InprocBus for any messages, shards and number of tokens. *)
(* IInv is the inductive invariant.  A message has one place, the counts   *)
(* count places, and a handler that publishes is itself an outstanding     *)
(* delivery, so the count cannot be zero before it has enqueued.           *)
(***************************************************************************)
EXTENDS InprocBus, FiniteSetTheorems, SequenceTheorems, WellFoundedInduction, TLAPS

In(q, m) == \E i \in 1 .. Len(q) : q[i] = m
Distinct(q) == \A i, j \in 1 .. Len(q) : i # j => q[i] # q[j]
HeldBy(s, m) == cur[s] = m \/ In(queue[s], m)

\* A message is with one shard, once.
Placed ==
  /\ \A s \in Shards, m \in Msgs : HeldBy(s, m) => Shard(m) = s
  /\ \A s \in Shards : Distinct(queue[s])
  /\ \A s \in Shards : ~In(queue[s], cur[s])

\* What is in a queue, or with a worker, was accepted, and what was accepted is there.
Fates ==
  /\ \A s \in Shards, m \in Msgs : In(queue[s], m) => fate[m] = "accepted"
  /\ \A s \in Shards : cur[s] # None => fate[cur[s]] \in {"accepted", "handled", "failed"}
  /\ \A m \in Msgs : fate[m] = "accepted" => HeldBy(Shard(m), m)

\* Where a publisher is, and what it has been told.
Calls ==
  \A m \in Msgs :
    /\ pc[m] \in {"idle", "calling"} \cup Reading => fate[m] = "new"
    /\ pc[m] \in {"wait", "closed"} => fate[m] \in {"accepted", "handled", "failed"}
    /\ pc[m] = "closed" => fate[m] # "accepted"
    /\ pc[m] \in {"handled", "failed"} => fate[m] = pc[m]
    /\ pc[m] \in {"token", "send"} => m \in external
    /\ pc[m] \in {"idle", "calling", "entered", "internal"} => m \notin external

\* A handler cannot return while it publishes.
Scopes == \A m \in Msgs : pc[m] = "internal" => Active(ParentOf[m])

\* What each stage of Close has established.
Closed ==
  /\ stage \in {"drain", "seal"} \/ Done => \A m \in Msgs : pc[m] \notin {"token", "send"}
  /\ stage = "seal" \/ Done => Outstanding = {}

Counted == external \cap (Outstanding \cup Reserved)

IInv == TypeOK /\ Placed /\ Fates /\ Calls /\ Scopes /\ Closed /\ CountsExact

-----------------------------------------------------------------------------
\* The arithmetic of the counts: sets of messages that gain or lose one.
LEMMA Counting ==
  ASSUME NEW S \in SUBSET Msgs
  PROVE  /\ Cardinality(S) \in Nat
         /\ Cardinality(S) = 0 => S = {}
         /\ \A x : x \notin S => Cardinality(S \cup {x}) = Cardinality(S) + 1
         /\ \A x \in S : /\ Cardinality(S) > 0
                         /\ Cardinality(S \ {x}) = Cardinality(S) - 1
<1>1. IsFiniteSet(S)
  BY BusAssumption, FS_Subset
<1>2. Cardinality(S) \in Nat /\ (Cardinality(S) = 0 => S = {})
  BY <1>1, FS_CardinalityType, FS_EmptySet
<1>3. ASSUME NEW x, x \notin S PROVE Cardinality(S \cup {x}) = Cardinality(S) + 1
  BY <1>1, <1>3, FS_AddElement
<1>4. ASSUME NEW x \in S
      PROVE  Cardinality(S) > 0 /\ Cardinality(S \ {x}) = Cardinality(S) - 1
  <2>1. IsFiniteSet(S \ {x}) /\ Cardinality(S \ {x}) = Cardinality(S) - 1
    BY <1>1, FS_RemoveElement
  <2>2. Cardinality(S \ {x}) \in Nat
    BY <2>1, FS_CardinalityType
  <2> QED
    BY <1>2, <2>1, <2>2
<1> QED
  BY <1>2, <1>3, <1>4

\* The sets that the counts stand for.
LEMMA CountSets ==
  /\ Outstanding \in SUBSET Msgs /\ Reserved \in SUBSET Msgs /\ Counted \in SUBSET Msgs
  /\ Outstanding' \in SUBSET Msgs /\ Reserved' \in SUBSET Msgs /\ Counted' \in SUBSET Msgs
BY DEF Outstanding, Reserved, Counted

\* A delivery is outstanding as long as a shard has its message.
LEMMA OutstandingIsHeld ==
  /\ Outstanding = {m \in Msgs : \E s \in Shards : HeldBy(s, m)}
  /\ Outstanding' = {m \in Msgs : \E s \in Shards : HeldBy(s, m)'}
BY DEF Outstanding, HeldBy, In

\* The end of a channel that gets a message, and the front of one that loses it.
LEMMA AppendFacts ==
  ASSUME NEW q \in Seq(Msgs), NEW x \in Msgs
  PROVE  /\ Append(q, x) \in Seq(Msgs)
         /\ \A m : In(Append(q, x), m) <=> In(q, m) \/ m = x
         /\ Distinct(q) /\ ~In(q, x) => Distinct(Append(q, x))
<1>1. /\ Append(q, x) \in Seq(Msgs) /\ Len(Append(q, x)) = Len(q) + 1
      /\ \A i \in 1 .. Len(q) : Append(q, x)[i] = q[i]
      /\ Append(q, x)[Len(q) + 1] = x /\ Len(q) \in Nat
  BY AppendProperties
<1>2. 1 .. Len(q) + 1 = 1 .. Len(q) \cup {Len(q) + 1}
  BY <1>1
<1>3. ASSUME NEW m PROVE In(Append(q, x), m) <=> In(q, m) \/ m = x
  BY <1>1, <1>2 DEF In
<1>4. Distinct(q) /\ ~In(q, x) => Distinct(Append(q, x))
  BY <1>1, <1>2 DEF In, Distinct
<1> QED
  BY <1>1, <1>3, <1>4

\* The queue of a shard without its first message.
LEMMA TailFacts ==
  ASSUME NEW q \in Seq(Msgs), q # <<>>
  PROVE  /\ Head(q) \in Msgs /\ Tail(q) \in Seq(Msgs)
         /\ \A m : In(q, m) <=> m = Head(q) \/ In(Tail(q), m)
         /\ Distinct(q) => Distinct(Tail(q)) /\ ~In(Tail(q), Head(q))
<1>1. /\ Head(q) \in Msgs /\ Head(q) = q[1] /\ Len(q) \in Nat \ {0}
      /\ Tail(q) \in Seq(Msgs) /\ Len(Tail(q)) = Len(q) - 1
      /\ \A i \in 1 .. Len(q) - 1 : Tail(q)[i] = q[i + 1]
  OBVIOUS
<1>2. ASSUME NEW m PROVE In(q, m) <=> m = Head(q) \/ In(Tail(q), m)
  <2>1. ASSUME NEW i \in 1 .. Len(q), q[i] = m PROVE m = Head(q) \/ In(Tail(q), m)
    <3>1. i = 1 \/ (i - 1 \in 1 .. Len(q) - 1 /\ (i - 1) + 1 = i)
      BY <1>1
    <3> QED
      BY <1>1, <2>1, <3>1 DEF In
  <2>2. ASSUME NEW i \in 1 .. Len(q) - 1, Tail(q)[i] = m PROVE In(q, m)
    <3>1. i + 1 \in 1 .. Len(q) /\ q[i + 1] = m
      BY <1>1, <2>2
    <3> QED
      BY <3>1 DEF In
  <2>3. 1 \in 1 .. Len(q)
    BY <1>1
  <2> QED
    BY <1>1, <2>1, <2>2, <2>3 DEF In
<1>3. ASSUME Distinct(q) PROVE Distinct(Tail(q)) /\ ~In(Tail(q), Head(q))
  <2>1. \A i \in 1 .. Len(q) - 1 : i + 1 \in 1 .. Len(q) /\ 1 \in 1 .. Len(q)
    BY <1>1
  <2>2. ~In(Tail(q), Head(q))
    BY <1>1, <1>3, <2>1 DEF In, Distinct
  <2>3. Distinct(Tail(q))
    BY <1>1, <1>3, <2>1 DEF Distinct
  <2> QED
    BY <2>2, <2>3
<1> QED
  BY <1>1, <1>2, <1>3

\* The steps of Close, one by one.
LEMMA CloseFacts ==
  ASSUME Close
  PROVE  /\ \/ stage = "open" /\ stage' = "gate"
            \/ stage = "gate" /\ stage' = "drain" /\ Readers = {}
            \/ stage = "drain" /\ stage' = "seal" /\ delivery = 0
            \/ stage = "seal" /\ stage' = "join"
            \/ stage = "join" /\ stage' = "closed"
         /\ UNCHANGED <<subscribers, started, pc, tokens, delivery, queue, cur, stopped, fate,
                        external>>
<1>1. PICK i \in 1 .. 5 : stage = Stages[i] /\ stage' = Stages[i + 1]
  BY DEF Close, Stages
<1>2. /\ stage = "gate" => Readers = {}
      /\ stage = "drain" => delivery = 0
  BY Zenon DEF Close, StageMayEnd
<1> QED
  BY <1>1, <1>2 DEF Close, Stages, registryVars, countVars, shardVars

\* The worker of a shard has a message of its own, and an active one is outstanding.
LEMMA Holding ==
  ASSUME IInv, NEW s \in Shards, cur[s] # None
  PROVE  cur[s] \in Msgs /\ cur[s] \in Outstanding /\ Shard(cur[s]) = s
BY DEF IInv, TypeOK, Placed, HeldBy, Outstanding

\* Who has not enqueued yet has nothing outstanding.
LEMMA NewIsNotHeld ==
  ASSUME IInv, NEW m \in Msgs, fate[m] \in {"new", "refused"}
  PROVE  /\ m \notin Outstanding
         /\ \A s \in Shards : ~HeldBy(s, m) /\ cur[s] # m /\ ~In(queue[s], m)
<1>1. ASSUME NEW s \in Shards, HeldBy(s, m) PROVE FALSE
  BY <1>1, BusAssumption DEF IInv, Fates, HeldBy
<1> QED
  BY <1>1, OutstandingIsHeld DEF HeldBy

\* The send of a publisher keeps the types.
LEMMA SendTypes ==
  ASSUME IInv, NEW m \in Msgs
  PROVE  Shard(m) \in Shards /\ queue[Shard(m)] \in Seq(Msgs)
BY BusAssumption DEF IInv, TypeOK, Shard

\* What a message gains and loses on its way through the counts.
LEMMA TokenTaken ==
  ASSUME IInv, NEW m \in Msgs, TakeToken(m)
  PROVE  /\ Outstanding' = Outstanding
         /\ m \notin Reserved /\ Reserved' = Reserved \cup {m}
         /\ m \notin Counted /\ Counted' = Counted \cup {m}
<1>1. m \notin Outstanding /\ m \in external /\ external' = external
  BY NewIsNotHeld DEF IInv, Calls, Reading, TakeToken
<1>2. Outstanding' = Outstanding
  BY DEF TakeToken, shardVars, Outstanding
<1>3. m \notin Reserved /\ Reserved' = Reserved \cup {m}
  BY DEF IInv, TypeOK, TakeToken, Goto, Reserved
<1> QED
  BY <1>1, <1>2, <1>3 DEF Counted

\* A message that is sent moves from the reservations to the deliveries.
LEMMA Enqueued ==
  ASSUME IInv, NEW m \in Msgs, pc[m] \in {"send", "internal"}, Enqueue(m), UNCHANGED <<cur, external>>
  PROVE  /\ \A s \in Shards : queue'[s] \in Seq(Msgs)
         /\ \A s \in Shards, x \in Msgs :
              In(queue'[s], x) <=> In(queue[s], x) \/ (s = Shard(m) /\ x = m)
         /\ \A s \in Shards : Distinct(queue'[s])
         /\ m \notin Outstanding /\ Outstanding' = Outstanding \cup {m}
         /\ Reserved' = Reserved \ {m}
<1> DEFINE k == Shard(m)
<1>1. k \in Shards /\ queue[k] \in Seq(Msgs)
  BY SendTypes
<1>2. queue' = [queue EXCEPT ![k] = Append(queue[k], m)]
  BY DEF Enqueue
<1>3. queue'[k] = Append(queue[k], m) /\ \A s \in Shards : s # k => queue'[s] = queue[s]
  BY <1>1, <1>2 DEF IInv, TypeOK
<1>4. m \notin Outstanding /\ \A s \in Shards : ~HeldBy(s, m) /\ ~In(queue[s], m)
  BY NewIsNotHeld DEF IInv, Calls, Reading
<1>5. /\ Append(queue[k], m) \in Seq(Msgs)
      /\ \A x : In(Append(queue[k], m), x) <=> In(queue[k], x) \/ x = m
      /\ Distinct(Append(queue[k], m))
  BY <1>1, <1>4, AppendFacts DEF IInv, Placed
<1>6. /\ \A s \in Shards : queue'[s] \in Seq(Msgs) /\ Distinct(queue'[s])
      /\ \A s \in Shards, x \in Msgs : In(queue'[s], x) <=> In(queue[s], x) \/ (s = k /\ x = m)
  BY <1>1, <1>3, <1>5 DEF IInv, TypeOK, Placed
<1>7. Outstanding' = Outstanding \cup {m}
  BY <1>1, <1>6, OutstandingIsHeld DEF HeldBy
<1>8. Reserved' = Reserved \ {m}
  BY DEF IInv, TypeOK, Enqueue, Goto, Reserved
<1> QED
  BY <1>4, <1>6, <1>7, <1>8

\* A call that fails takes back what it had counted.
LEMMA Undone ==
  ASSUME IInv, NEW m \in Msgs, pc[m] \in {"token", "send", "internal"}, Refuse(m),
         UNCHANGED <<queue, cur, external>>
  PROVE  /\ m \notin Outstanding /\ Outstanding' = Outstanding
         /\ Reserved' = Reserved \ {m} /\ Counted' = Counted \ {m}
         /\ pc[m] = "send" <=> m \in Reserved
         /\ m \in Reserved <=> m \in Counted
<1>1. m \notin Outstanding
  BY NewIsNotHeld DEF IInv, Calls, Reading
<1>2. Outstanding' = Outstanding
  BY DEF Outstanding
<1>3. Reserved' = Reserved \ {m} /\ (pc[m] = "send" <=> m \in Reserved)
  BY DEF IInv, TypeOK, Refuse, Reserved
<1>4. m \in Reserved => m \in external
  BY DEF IInv, Calls, Reserved
<1> QED
  BY <1>1, <1>2, <1>3, <1>4 DEF Counted

\* A worker that takes a message changes none of the counted sets.
LEMMA Taken ==
  ASSUME IInv, NEW s \in Shards, Take(s)
  PROVE  /\ cur'[s] \in Msgs /\ cur' = [cur EXCEPT ![s] = cur'[s]]
         /\ In(queue[s], cur'[s]) /\ ~In(queue'[s], cur'[s])
         /\ \A x \in Shards : queue'[x] \in Seq(Msgs) /\ Distinct(queue'[x])
         /\ \A x \in Shards, m \in Msgs : HeldBy(x, m)' <=> HeldBy(x, m)
         /\ \A x \in Shards : \A m : In(queue'[x], m) => In(queue[x], m)
         /\ Outstanding' = Outstanding
<1>1. queue[s] \in Seq(Msgs) /\ queue[s] # <<>> /\ cur[s] = None
  BY DEF IInv, TypeOK, Take
<1>2. /\ queue'[s] = Tail(queue[s]) /\ cur'[s] = Head(queue[s])
      /\ \A x \in Shards : x # s => queue'[x] = queue[x] /\ cur'[x] = cur[x]
      /\ cur' = [cur EXCEPT ![s] = cur'[s]]
  BY DEF IInv, TypeOK, Take
<1>3. /\ cur'[s] \in Msgs /\ queue'[s] \in Seq(Msgs)
      /\ \A m : In(queue[s], m) <=> m = cur'[s] \/ In(queue'[s], m)
      /\ Distinct(queue'[s]) /\ ~In(queue'[s], cur'[s])
  BY <1>1, <1>2, TailFacts DEF IInv, Placed
<1>4. \A x \in Shards : queue'[x] \in Seq(Msgs) /\ Distinct(queue'[x])
  BY <1>2, <1>3 DEF IInv, TypeOK, Placed
<1>5. \A x \in Shards, m \in Msgs : HeldBy(x, m)' <=> HeldBy(x, m)
  BY <1>1, <1>2, <1>3, BusAssumption DEF HeldBy
<1>6. Outstanding' = Outstanding
  BY <1>5, OutstandingIsHeld
<1> QED
  BY <1>2, <1>3, <1>4, <1>5, <1>6

\* A worker that settles a message takes it out of them.
LEMMA Settled ==
  ASSUME IInv, NEW s \in Shards, Settle(s)
  PROVE  /\ cur[s] \in Outstanding /\ cur[s] \notin Reserved
         /\ \A x \in Shards, m \in Msgs : HeldBy(x, m)' <=> HeldBy(x, m) /\ m # cur[s]
         /\ Outstanding' = Outstanding \ {cur[s]} /\ Reserved' = Reserved
         /\ Counted' = Counted \ {cur[s]} /\ (cur[s] \in Counted <=> cur[s] \in external)
<1>1. cur[s] \in Msgs /\ cur[s] \in Outstanding /\ Shard(cur[s]) = s
  BY Holding DEF Settle
<1>2. fate[cur[s]] \in {"accepted", "handled", "failed"}
  BY DEF IInv, Fates, Settle
<1>3. cur[s] \notin Reserved /\ Reserved' = Reserved
  BY <1>1, <1>2 DEF IInv, Calls, Reading, Reserved, Settle
<1>4. cur'[s] = None /\ queue' = queue /\ \A x \in Shards : x # s => cur'[x] = cur[x]
  BY DEF IInv, TypeOK, Settle
<1>5. ASSUME NEW x \in Shards, NEW m \in Msgs
      PROVE  HeldBy(x, m)' <=> HeldBy(x, m) /\ m # cur[s]
  <2>1. CASE x = s
    BY <1>4, <2>1, BusAssumption DEF IInv, Placed, HeldBy
  <2>2. CASE x # s
    <3>1. HeldBy(x, m)' <=> HeldBy(x, m)
      BY <1>4, <2>2 DEF HeldBy
    <3>2. HeldBy(x, m) => m # cur[s]
      BY <1>1, <2>2 DEF IInv, Placed
    <3> QED
      BY <3>1, <3>2
  <2> QED
    BY <2>1, <2>2
<1>6. Outstanding' = Outstanding \ {cur[s]}
  BY <1>5, OutstandingIsHeld
<1>7. external' = external
  BY DEF Settle
<1> QED
  BY <1>1, <1>3, <1>5, <1>6, <1>7 DEF Counted

\* No other step touches the counts.
LEMMA SetsFrame ==
  ASSUME IInv, UNCHANGED <<queue, cur, external>>,
         \A m \in Msgs : (pc'[m] = "send") <=> (pc[m] = "send")
  PROVE  Outstanding' = Outstanding /\ Reserved' = Reserved /\ Counted' = Counted
BY DEF Outstanding, Reserved, Counted

\* One proof step per action here and below.
LEMMA TypeStep == IInv /\ [Next]_vars => TypeOK'
<1> SUFFICES ASSUME IInv, [Next]_vars PROVE TypeOK'
  OBVIOUS
<1>1. ASSUME NEW t \in Topics, Subscribe(t) PROVE TypeOK'
  BY <1>1 DEF IInv, TypeOK, Subscribe, registryVars, countVars, shardVars
<1>2. ASSUME NEW m \in Msgs, Publish(m) PROVE TypeOK'
  BY <1>2 DEF IInv, TypeOK, Reading, Answers, Stages, Publish, Goto, registryVars,
     countVars, shardVars
<1>3. ASSUME NEW m \in Msgs, Enter(m) PROVE TypeOK'
  BY <1>3 DEF IInv, TypeOK, Reading, Answers, Stages, Enter, Goto, registryVars,
     countVars, shardVars
<1>4. ASSUME NEW m \in Msgs, ClaimScope(m) PROVE TypeOK'
  BY <1>4 DEF IInv, TypeOK, Reading, Answers, Stages, ClaimScope, Goto, Refuse,
     Prepare, registryVars, countVars, shardVars
<1>5. ASSUME NEW m \in Msgs, ClaimNone(m) PROVE TypeOK'
  BY <1>5 DEF IInv, TypeOK, Reading, Answers, Stages, ClaimNone, Goto, Refuse,
     Prepare, registryVars, countVars, shardVars
<1>6. ASSUME NEW m \in Msgs, TakeToken(m) PROVE TypeOK'
  BY <1>6, BusAssumption DEF IInv, TypeOK, Reading, Answers, Stages, TakeToken, Goto,
     registryVars, countVars, shardVars
<1>7. ASSUME NEW m \in Msgs, Send(m) PROVE TypeOK'
  <2>1. \A s \in Shards : queue'[s] \in Seq(Msgs)
    BY <1>7, Enqueued DEF Send
  <2>2. queue' \in [Shards -> Seq(Msgs)]
    BY <2>1, <1>7 DEF IInv, TypeOK, Send, Enqueue
  <2> QED
    BY <2>2, <1>7 DEF IInv, TypeOK, Reading, Answers, Stages, Send, Enqueue, Goto,
       registryVars, countVars, shardVars
<1>8. ASSUME NEW m \in Msgs, Stop(m) PROVE TypeOK'
  <2>1. /\ Reserved' = Reserved \ {m} /\ (pc[m] = "send" <=> m \in Reserved)
        /\ m \in Reserved <=> m \in Counted
    BY <1>8, Undone DEF Stop, Undo, Refuse, shardVars
  <2>2. pc[m] = "send" => delivery - 1 \in Nat /\ tokens + 1 \in 0 .. MaxInFlight
    <3> SUFFICES ASSUME m \in Reserved
                 PROVE  delivery - 1 \in Nat /\ tokens + 1 \in 0 .. MaxInFlight
      BY <2>1
    <3>1. /\ Cardinality(Reserved) \in Nat /\ Cardinality(Reserved) > 0
          /\ Cardinality(Counted) \in Nat /\ Cardinality(Counted) > 0
          /\ Cardinality(Outstanding) \in Nat
      BY <2>1, CountSets, Counting
    <3>2. tokens + Cardinality(Counted) = MaxInFlight
          /\ delivery = Cardinality(Outstanding) + Cardinality(Reserved)
      BY DEF IInv, CountsExact, Counted
    <3> QED
      BY <3>1, <3>2, BusAssumption DEF IInv, TypeOK
  <2> QED
    BY <2>2, <1>8 DEF IInv, TypeOK, Reading, Answers, Stages, Stop, Undo, Refuse,
       registryVars, countVars, shardVars
<1>9. ASSUME NEW m \in Msgs, GiveUp(m) PROVE TypeOK'
  <2>1. /\ Reserved' = Reserved \ {m} /\ (pc[m] = "send" <=> m \in Reserved)
        /\ m \in Reserved <=> m \in Counted
    BY <1>9, Undone DEF GiveUp, Undo, Refuse, shardVars
  <2>2. pc[m] = "send" => delivery - 1 \in Nat /\ tokens + 1 \in 0 .. MaxInFlight
    <3> SUFFICES ASSUME m \in Reserved
                 PROVE  delivery - 1 \in Nat /\ tokens + 1 \in 0 .. MaxInFlight
      BY <2>1
    <3>1. /\ Cardinality(Reserved) \in Nat /\ Cardinality(Reserved) > 0
          /\ Cardinality(Counted) \in Nat /\ Cardinality(Counted) > 0
          /\ Cardinality(Outstanding) \in Nat
      BY <2>1, CountSets, Counting
    <3>2. tokens + Cardinality(Counted) = MaxInFlight
          /\ delivery = Cardinality(Outstanding) + Cardinality(Reserved)
      BY DEF IInv, CountsExact, Counted
    <3> QED
      BY <3>1, <3>2, BusAssumption DEF IInv, TypeOK
  <2> QED
    BY <2>2, <1>9 DEF IInv, TypeOK, Reading, Answers, Stages, GiveUp, Undo, Refuse,
       registryVars, countVars, shardVars
<1>10. ASSUME NEW m \in Msgs, SendInternal(m) PROVE TypeOK'
  <2>1. CASE Room(m)
    <3>1. Enqueue(m) /\ delivery' = delivery + 1
      BY <2>1, <1>10 DEF SendInternal
    <3>2. \A s \in Shards : queue'[s] \in Seq(Msgs)
      BY <3>1, <1>10, Enqueued DEF SendInternal
    <3>3. queue' \in [Shards -> Seq(Msgs)]
      BY <3>1, <3>2 DEF IInv, TypeOK, Enqueue
    <3> QED
      BY <3>1, <3>3, <1>10 DEF IInv, TypeOK, Reading, Answers, Stages, SendInternal,
         Enqueue, Goto, Refuse, registryVars, countVars, shardVars
  <2>2. CASE ~Room(m)
    BY <2>2, <1>10 DEF IInv, TypeOK, Reading, Answers, Stages, SendInternal, Enqueue,
       Goto, Refuse, registryVars, countVars, shardVars
  <2> QED
    BY <2>1, <2>2
<1>11. ASSUME NEW m \in Msgs, NEW answer \in Answers, Answer(m, answer) PROVE TypeOK'
  BY <1>11 DEF IInv, TypeOK, Reading, Answers, Stages, Answer, Goto, registryVars,
     countVars, shardVars
<1>12. ASSUME NEW m \in Msgs, StopWaiting(m) PROVE TypeOK'
  BY <1>12 DEF IInv, TypeOK, Reading, Answers, Stages, StopWaiting, Goto,
     registryVars, countVars, shardVars
<1>13. ASSUME NEW s \in Shards, Take(s) PROVE TypeOK'
  <2>1. cur'[s] \in Msgs /\ \A x \in Shards : queue'[x] \in Seq(Msgs)
    BY <1>13, Taken
  <2>2. cur' \in [Shards -> Msgs \cup {None}] /\ queue' \in [Shards -> Seq(Msgs)]
    BY <2>1, <1>13 DEF IInv, TypeOK, Take
  <2> QED
    BY <2>2, <1>13 DEF IInv, TypeOK, Take, registryVars, countVars, shardVars
<1>14. ASSUME NEW s \in Shards, Return(s) PROVE TypeOK'
  BY <1>14 DEF IInv, TypeOK, Return, registryVars, countVars, shardVars
<1>15. ASSUME NEW s \in Shards, Settle(s) PROVE TypeOK'
  <2>1. cur[s] \in Outstanding /\ (cur[s] \in Counted <=> cur[s] \in external)
    BY <1>15, Settled
  <2>2. /\ Cardinality(Outstanding) \in Nat /\ Cardinality(Outstanding) > 0
        /\ Cardinality(Counted) \in Nat /\ Cardinality(Reserved) \in Nat
        /\ cur[s] \in external => Cardinality(Counted) > 0
    BY <2>1, CountSets, Counting
  <2>3. tokens + Cardinality(Counted) = MaxInFlight
        /\ delivery = Cardinality(Outstanding) + Cardinality(Reserved)
    BY DEF IInv, CountsExact, Counted
  <2>4. delivery - 1 \in Nat /\ (cur[s] \in external => tokens + 1 \in 0 .. MaxInFlight)
    BY <2>2, <2>3, BusAssumption DEF IInv, TypeOK
  <2> QED
    BY <2>4, <1>15 DEF IInv, TypeOK, Settle, registryVars, countVars, shardVars
<1>16. ASSUME NEW s \in Shards, WorkerExit(s) PROVE TypeOK'
  BY <1>16 DEF IInv, TypeOK, WorkerExit, registryVars, countVars, shardVars
<1>17. ASSUME Close PROVE TypeOK'
  <2>1. stage' \in {Stages[i] : i \in 1 .. Len(Stages)}
    BY <1>17, CloseFacts DEF Stages
  <2> QED
    BY <2>1, <1>17, CloseFacts DEF IInv, TypeOK
<1>18. CASE UNCHANGED vars
  BY <1>18 DEF IInv, TypeOK, Reading, Answers, Stages, vars, registryVars,
     countVars, shardVars
<1> QED
  BY <1>1, <1>2, <1>3, <1>4, <1>5, <1>6, <1>7, <1>8, <1>9, <1>10, <1>11, <1>12,
     <1>13, <1>14, <1>15, <1>16, <1>17, <1>18 DEF Next, PublisherStep, WorkerStep,
     Finished

\* An idle worker is not mistaken for a message.
LEMMA NoneNotQueued ==
  ASSUME NEW q \in Seq(Msgs)
  PROVE  ~In(q, None)
BY BusAssumption DEF In

\* Every step keeps that a message is with one shard, once.
LEMMA PlacedStep == IInv /\ [Next]_vars => Placed'
<1> SUFFICES ASSUME IInv, [Next]_vars PROVE Placed'
  OBVIOUS
<1>1. ASSUME NEW t \in Topics, Subscribe(t) PROVE Placed'
  <2>1. queue' = queue /\ cur' = cur
    BY <1>1 DEF Subscribe, registryVars, countVars, shardVars
  <2> QED
    BY <2>1 DEF IInv, Placed, HeldBy
<1>2. ASSUME NEW m \in Msgs, Publish(m) PROVE Placed'
  <2>1. queue' = queue /\ cur' = cur
    BY <1>2 DEF Publish, Goto, registryVars, countVars, shardVars
  <2> QED
    BY <2>1 DEF IInv, Placed, HeldBy
<1>3. ASSUME NEW m \in Msgs, Enter(m) PROVE Placed'
  <2>1. queue' = queue /\ cur' = cur
    BY <1>3 DEF Enter, Goto, registryVars, countVars, shardVars
  <2> QED
    BY <2>1 DEF IInv, Placed, HeldBy
<1>4. ASSUME NEW m \in Msgs, ClaimScope(m) PROVE Placed'
  <2>1. queue' = queue /\ cur' = cur
    BY <1>4 DEF ClaimScope, Goto, Refuse, Prepare, registryVars, countVars, shardVars
  <2> QED
    BY <2>1 DEF IInv, Placed, HeldBy
<1>5. ASSUME NEW m \in Msgs, ClaimNone(m) PROVE Placed'
  <2>1. queue' = queue /\ cur' = cur
    BY <1>5 DEF ClaimNone, Goto, Refuse, Prepare, registryVars, countVars, shardVars
  <2> QED
    BY <2>1 DEF IInv, Placed, HeldBy
<1>6. ASSUME NEW m \in Msgs, TakeToken(m) PROVE Placed'
  <2>1. queue' = queue /\ cur' = cur
    BY <1>6 DEF TakeToken, Goto, registryVars, countVars, shardVars
  <2> QED
    BY <2>1 DEF IInv, Placed, HeldBy
<1>7. ASSUME NEW m \in Msgs, Send(m) PROVE Placed'
  <2>1. /\ cur' = cur
        /\ \A s \in Shards, x \in Msgs :
             In(queue'[s], x) <=> In(queue[s], x) \/ (s = Shard(m) /\ x = m)
        /\ \A s \in Shards : queue'[s] \in Seq(Msgs) /\ Distinct(queue'[s])
    BY <1>7, Enqueued DEF Send
  <2>2. \A s \in Shards : ~HeldBy(s, m) /\ cur[s] # m
    BY <1>7, NewIsNotHeld DEF IInv, Calls, Reading, Send
  <2>3. \A s \in Shards : cur[s] # None => cur[s] \in Msgs
    BY DEF IInv, TypeOK
  <2>4. \A s \in Shards : ~In(queue'[s], cur[s])
    <3>1. ASSUME NEW s \in Shards, cur[s] = None PROVE ~In(queue'[s], cur[s])
      BY <3>1, <2>1, NoneNotQueued
    <3>2. ASSUME NEW s \in Shards, cur[s] # None PROVE ~In(queue'[s], cur[s])
      BY <3>2, <2>1, <2>2, <2>3 DEF IInv, Placed
    <3> QED
      BY <3>1, <3>2
  <2> QED
    BY <2>1, <2>2, <2>4 DEF IInv, Placed, HeldBy
<1>8. ASSUME NEW m \in Msgs, Stop(m) PROVE Placed'
  <2>1. queue' = queue /\ cur' = cur
    BY <1>8 DEF Stop, Undo, Refuse, registryVars, countVars, shardVars
  <2> QED
    BY <2>1 DEF IInv, Placed, HeldBy
<1>9. ASSUME NEW m \in Msgs, GiveUp(m) PROVE Placed'
  <2>1. queue' = queue /\ cur' = cur
    BY <1>9 DEF GiveUp, Undo, Refuse, registryVars, countVars, shardVars
  <2> QED
    BY <2>1 DEF IInv, Placed, HeldBy
<1>10. ASSUME NEW m \in Msgs, SendInternal(m) PROVE Placed'
  <2>1. CASE Room(m)
    <3>0. Enqueue(m) /\ UNCHANGED <<cur, external>> /\ pc[m] = "internal"
      BY <2>1, <1>10 DEF SendInternal
    <3>1. /\ cur' = cur
          /\ \A s \in Shards, x \in Msgs :
               In(queue'[s], x) <=> In(queue[s], x) \/ (s = Shard(m) /\ x = m)
          /\ \A s \in Shards : queue'[s] \in Seq(Msgs) /\ Distinct(queue'[s])
      BY <3>0, Enqueued
    <3>2. \A s \in Shards : ~HeldBy(s, m) /\ cur[s] # m
      BY <1>10, NewIsNotHeld DEF IInv, Calls, Reading, SendInternal
    <3>3. \A s \in Shards : cur[s] # None => cur[s] \in Msgs
      BY DEF IInv, TypeOK
    <3>4. \A s \in Shards : ~In(queue'[s], cur[s])
      <4>1. ASSUME NEW s \in Shards, cur[s] = None PROVE ~In(queue'[s], cur[s])
        BY <4>1, <3>1, NoneNotQueued
      <4>2. ASSUME NEW s \in Shards, cur[s] # None PROVE ~In(queue'[s], cur[s])
        BY <4>2, <3>1, <3>2, <3>3 DEF IInv, Placed
      <4> QED
        BY <4>1, <4>2
    <3> QED
      BY <3>1, <3>2, <3>4 DEF IInv, Placed, HeldBy
  <2>2. CASE ~Room(m)
    <3>1. queue' = queue /\ cur' = cur
      BY <2>2, <1>10 DEF SendInternal, registryVars, countVars, shardVars
    <3> QED
      BY <3>1 DEF IInv, Placed, HeldBy
  <2> QED
    BY <2>1, <2>2
<1>11. ASSUME NEW m \in Msgs, NEW answer \in Answers, Answer(m, answer) PROVE Placed'
  <2>1. queue' = queue /\ cur' = cur
    BY <1>11 DEF Answer, Goto, registryVars, countVars, shardVars
  <2> QED
    BY <2>1 DEF IInv, Placed, HeldBy
<1>12. ASSUME NEW m \in Msgs, StopWaiting(m) PROVE Placed'
  <2>1. queue' = queue /\ cur' = cur
    BY <1>12 DEF StopWaiting, Goto, registryVars, countVars, shardVars
  <2> QED
    BY <2>1 DEF IInv, Placed, HeldBy
<1>13. ASSUME NEW s \in Shards, Take(s) PROVE Placed'
  <2>1. /\ \A x \in Shards, m \in Msgs : HeldBy(x, m)' <=> HeldBy(x, m)
        /\ \A x \in Shards : Distinct(queue'[x])
        /\ ~In(queue'[s], cur'[s])
    BY <1>13, Taken
  <2>2. \A x \in Shards : ~In(queue'[x], cur'[x])
    <3> SUFFICES ASSUME NEW x \in Shards, x # s PROVE ~In(queue'[x], cur'[x])
      BY <2>1
    <3>1. cur'[x] = cur[x] /\ queue'[x] = queue[x]
      BY <1>13 DEF IInv, TypeOK, Take
    <3> QED
      BY <3>1 DEF IInv, Placed
  <2> QED
    BY <2>1, <2>2 DEF IInv, Placed
<1>14. ASSUME NEW s \in Shards, Return(s) PROVE Placed'
  <2>1. queue' = queue /\ cur' = cur
    BY <1>14 DEF Return, registryVars, countVars, shardVars
  <2> QED
    BY <2>1 DEF IInv, Placed, HeldBy
<1>15. ASSUME NEW s \in Shards, Settle(s) PROVE Placed'
  <2>1. \A x \in Shards, m \in Msgs : HeldBy(x, m)' => HeldBy(x, m)
    BY <1>15, Settled
  <2>2. queue' = queue /\ \A x \in Shards : cur'[x] = None \/ cur'[x] = cur[x]
    BY <1>15 DEF IInv, TypeOK, Settle
  <2>3. \A x \in Shards : ~In(queue'[x], cur'[x])
    BY <2>2, NoneNotQueued DEF IInv, TypeOK, Placed
  <2> QED
    BY <2>1, <2>2, <2>3 DEF IInv, Placed
<1>16. ASSUME NEW s \in Shards, WorkerExit(s) PROVE Placed'
  <2>1. queue' = queue /\ cur' = cur
    BY <1>16 DEF WorkerExit, registryVars, countVars, shardVars
  <2> QED
    BY <2>1 DEF IInv, Placed, HeldBy
<1>17. ASSUME Close PROVE Placed'
  <2>1. queue' = queue /\ cur' = cur
    BY <1>17, CloseFacts
  <2> QED
    BY <2>1 DEF IInv, Placed, HeldBy
<1>18. CASE UNCHANGED vars
  <2>1. queue' = queue /\ cur' = cur
    BY <1>18 DEF vars, registryVars, countVars, shardVars
  <2> QED
    BY <2>1 DEF IInv, Placed, HeldBy
<1> QED
  BY <1>1, <1>2, <1>3, <1>4, <1>5, <1>6, <1>7, <1>8, <1>9, <1>10, <1>11, <1>12,
     <1>13, <1>14, <1>15, <1>16, <1>17, <1>18 DEF Next, PublisherStep, WorkerStep,
     Finished

\* Every step keeps what became of a message and where it is.
LEMMA FatesStep == IInv /\ [Next]_vars => Fates'
<1> SUFFICES ASSUME IInv, [Next]_vars PROVE Fates'
  OBVIOUS
<1>1. ASSUME NEW t \in Topics, Subscribe(t) PROVE Fates'
  <2>1. queue' = queue /\ cur' = cur
    BY <1>1 DEF Subscribe, registryVars, countVars, shardVars
  <2>2. \A x \in Msgs : fate'[x] = fate[x] \/ (fate[x] = "new" /\ fate'[x] = "refused")
    BY <1>1 DEF IInv, TypeOK, Calls, Reading, Subscribe
  <2> QED
    BY <2>1, <2>2 DEF IInv, TypeOK, Fates, HeldBy
<1>2. ASSUME NEW m \in Msgs, Publish(m) PROVE Fates'
  <2>1. queue' = queue /\ cur' = cur
    BY <1>2 DEF Publish, Goto, registryVars, countVars, shardVars
  <2>2. \A x \in Msgs : fate'[x] = fate[x] \/ (fate[x] = "new" /\ fate'[x] = "refused")
    BY <1>2 DEF IInv, TypeOK, Calls, Reading, Publish, Goto
  <2> QED
    BY <2>1, <2>2 DEF IInv, TypeOK, Fates, HeldBy
<1>3. ASSUME NEW m \in Msgs, Enter(m) PROVE Fates'
  <2>1. queue' = queue /\ cur' = cur
    BY <1>3 DEF Enter, Goto, registryVars, countVars, shardVars
  <2>2. \A x \in Msgs : fate'[x] = fate[x] \/ (fate[x] = "new" /\ fate'[x] = "refused")
    BY <1>3 DEF IInv, TypeOK, Calls, Reading, Enter, Goto
  <2> QED
    BY <2>1, <2>2 DEF IInv, TypeOK, Fates, HeldBy
<1>4. ASSUME NEW m \in Msgs, ClaimScope(m) PROVE Fates'
  <2>1. queue' = queue /\ cur' = cur
    BY <1>4 DEF ClaimScope, Goto, Refuse, Prepare, registryVars, countVars, shardVars
  <2>2. \A x \in Msgs : fate'[x] = fate[x] \/ (fate[x] = "new" /\ fate'[x] = "refused")
    BY <1>4 DEF IInv, TypeOK, Calls, Reading, ClaimScope, Goto, Refuse, Prepare
  <2> QED
    BY <2>1, <2>2 DEF IInv, TypeOK, Fates, HeldBy
<1>5. ASSUME NEW m \in Msgs, ClaimNone(m) PROVE Fates'
  <2>1. queue' = queue /\ cur' = cur
    BY <1>5 DEF ClaimNone, Goto, Refuse, Prepare, registryVars, countVars, shardVars
  <2>2. \A x \in Msgs : fate'[x] = fate[x] \/ (fate[x] = "new" /\ fate'[x] = "refused")
    BY <1>5 DEF IInv, TypeOK, Calls, Reading, ClaimNone, Goto, Refuse, Prepare
  <2> QED
    BY <2>1, <2>2 DEF IInv, TypeOK, Fates, HeldBy
<1>6. ASSUME NEW m \in Msgs, TakeToken(m) PROVE Fates'
  <2>1. queue' = queue /\ cur' = cur
    BY <1>6 DEF TakeToken, Goto, registryVars, countVars, shardVars
  <2>2. \A x \in Msgs : fate'[x] = fate[x] \/ (fate[x] = "new" /\ fate'[x] = "refused")
    BY <1>6 DEF IInv, TypeOK, Calls, Reading, TakeToken, Goto
  <2> QED
    BY <2>1, <2>2 DEF IInv, TypeOK, Fates, HeldBy
<1>7. ASSUME NEW m \in Msgs, Send(m) PROVE Fates'
  <2>1. /\ cur' = cur
        /\ \A s \in Shards, x \in Msgs :
             In(queue'[s], x) <=> In(queue[s], x) \/ (s = Shard(m) /\ x = m)
        /\ \A s \in Shards : queue'[s] \in Seq(Msgs) /\ Distinct(queue'[s])
    BY <1>7, Enqueued DEF Send
  <2>2. \A s \in Shards : ~HeldBy(s, m) /\ cur[s] # m
    BY <1>7, NewIsNotHeld DEF IInv, Calls, Reading, Send
  <2>3. \A s \in Shards : cur[s] # None => cur[s] \in Msgs
    BY DEF IInv, TypeOK
  <2>4. fate' = [fate EXCEPT ![m] = "accepted"]
    BY <1>7 DEF Send, Enqueue
  <2>5. \A x \in Msgs : Shard(x) \in Shards /\ Shard(x)' = Shard(x)
    BY SendTypes DEF Shard
  <2>6. \A x \in Msgs : fate'[x] = IF x = m THEN "accepted" ELSE fate[x]
    BY <2>4 DEF IInv, TypeOK
  <2>7. \A s \in Shards, x \in Msgs : In(queue'[s], x) => fate'[x] = "accepted"
    BY <2>1, <2>6 DEF IInv, Fates
  <2>8. \A s \in Shards : cur'[s] # None => fate'[cur'[s]] \in {"accepted", "handled", "failed"}
    BY <2>1, <2>3, <2>6 DEF IInv, Fates
  <2>9. \A x \in Msgs : fate'[x] = "accepted" => HeldBy(Shard(x), x)'
    BY <2>1, <2>5, <2>6 DEF IInv, Fates, HeldBy
  <2> QED
    BY <2>7, <2>8, <2>9 DEF Fates
<1>8. ASSUME NEW m \in Msgs, Stop(m) PROVE Fates'
  <2>1. queue' = queue /\ cur' = cur
    BY <1>8 DEF Stop, Undo, Refuse, registryVars, countVars, shardVars
  <2>2. \A x \in Msgs : fate'[x] = fate[x] \/ (fate[x] = "new" /\ fate'[x] = "refused")
    BY <1>8 DEF IInv, TypeOK, Calls, Reading, Stop, Undo, Refuse
  <2> QED
    BY <2>1, <2>2 DEF IInv, TypeOK, Fates, HeldBy
<1>9. ASSUME NEW m \in Msgs, GiveUp(m) PROVE Fates'
  <2>1. queue' = queue /\ cur' = cur
    BY <1>9 DEF GiveUp, Undo, Refuse, registryVars, countVars, shardVars
  <2>2. \A x \in Msgs : fate'[x] = fate[x] \/ (fate[x] = "new" /\ fate'[x] = "refused")
    BY <1>9 DEF IInv, TypeOK, Calls, Reading, GiveUp, Undo, Refuse
  <2> QED
    BY <2>1, <2>2 DEF IInv, TypeOK, Fates, HeldBy
<1>10. ASSUME NEW m \in Msgs, SendInternal(m) PROVE Fates'
  <2>1. CASE Room(m)
    <3>0. Enqueue(m) /\ UNCHANGED <<cur, external>> /\ pc[m] = "internal"
      BY <2>1, <1>10 DEF SendInternal
    <3>1. /\ cur' = cur
          /\ \A s \in Shards, x \in Msgs :
               In(queue'[s], x) <=> In(queue[s], x) \/ (s = Shard(m) /\ x = m)
          /\ \A s \in Shards : queue'[s] \in Seq(Msgs) /\ Distinct(queue'[s])
      BY <3>0, Enqueued
    <3>2. \A s \in Shards : ~HeldBy(s, m) /\ cur[s] # m
      BY <1>10, NewIsNotHeld DEF IInv, Calls, Reading, SendInternal
    <3>3. \A s \in Shards : cur[s] # None => cur[s] \in Msgs
      BY DEF IInv, TypeOK
    <3>4. fate' = [fate EXCEPT ![m] = "accepted"]
      BY <3>0 DEF Enqueue
    <3>5. \A x \in Msgs : Shard(x) \in Shards /\ Shard(x)' = Shard(x)
      BY SendTypes DEF Shard
    <3>6. \A x \in Msgs : fate'[x] = IF x = m THEN "accepted" ELSE fate[x]
      BY <3>4 DEF IInv, TypeOK
    <3>7. \A s \in Shards, x \in Msgs : In(queue'[s], x) => fate'[x] = "accepted"
      BY <3>1, <3>6 DEF IInv, Fates
    <3>8. \A s \in Shards : cur'[s] # None => fate'[cur'[s]] \in {"accepted", "handled", "failed"}
      BY <3>1, <3>3, <3>6 DEF IInv, Fates
    <3>9. \A x \in Msgs : fate'[x] = "accepted" => HeldBy(Shard(x), x)'
      BY <3>1, <3>5, <3>6 DEF IInv, Fates, HeldBy
    <3> QED
      BY <3>7, <3>8, <3>9 DEF Fates
  <2>2. CASE ~Room(m)
    <3>1. queue' = queue /\ cur' = cur
      BY <2>2, <1>10 DEF SendInternal, registryVars, countVars, shardVars
    <3>2. \A x \in Msgs : fate'[x] = fate[x] \/ (fate[x] = "new" /\ fate'[x] = "refused")
      BY <2>2, <1>10 DEF IInv, TypeOK, Calls, Reading, SendInternal, Refuse
    <3> QED
      BY <3>1, <3>2 DEF IInv, TypeOK, Fates, HeldBy
  <2> QED
    BY <2>1, <2>2
<1>11. ASSUME NEW m \in Msgs, NEW answer \in Answers, Answer(m, answer) PROVE Fates'
  <2>1. queue' = queue /\ cur' = cur
    BY <1>11 DEF Answer, Goto, registryVars, countVars, shardVars
  <2>2. \A x \in Msgs : fate'[x] = fate[x] \/ (fate[x] = "new" /\ fate'[x] = "refused")
    BY <1>11 DEF IInv, TypeOK, Calls, Reading, Answer, Goto
  <2> QED
    BY <2>1, <2>2 DEF IInv, TypeOK, Fates, HeldBy
<1>12. ASSUME NEW m \in Msgs, StopWaiting(m) PROVE Fates'
  <2>1. queue' = queue /\ cur' = cur
    BY <1>12 DEF StopWaiting, Goto, registryVars, countVars, shardVars
  <2>2. \A x \in Msgs : fate'[x] = fate[x] \/ (fate[x] = "new" /\ fate'[x] = "refused")
    BY <1>12 DEF IInv, TypeOK, Calls, Reading, StopWaiting, Goto
  <2> QED
    BY <2>1, <2>2 DEF IInv, TypeOK, Fates, HeldBy
<1>13. ASSUME NEW s \in Shards, Take(s) PROVE Fates'
  <2>1. /\ \A x \in Shards, m \in Msgs : HeldBy(x, m)' <=> HeldBy(x, m)
        /\ \A x \in Shards : \A m : In(queue'[x], m) => In(queue[x], m)
        /\ In(queue[s], cur'[s]) /\ cur'[s] \in Msgs
    BY <1>13, Taken
  <2>2. fate' = fate /\ \A x \in Shards : x # s => cur'[x] = cur[x]
    BY <1>13 DEF IInv, TypeOK, Take
  <2>3. \A x \in Msgs : Shard(x) \in Shards /\ Shard(x)' = Shard(x)
    BY SendTypes DEF Shard
  <2> QED
    BY <2>1, <2>2, <2>3 DEF IInv, Fates
<1>14. ASSUME NEW s \in Shards, Return(s) PROVE Fates'
  <2>1. queue' = queue /\ cur' = cur
    BY <1>14 DEF Return, shardVars
  <2>2. /\ cur[s] # None /\ cur[s] \in Msgs
        /\ \A x \in Msgs : x # cur[s] => fate'[x] = fate[x]
        /\ fate'[cur[s]] \in {"handled", "failed"}
    BY <1>14 DEF IInv, TypeOK, Return
  <2>3. \A x \in Shards : ~In(queue[x], cur[s])
    BY <2>2, Holding DEF IInv, Placed, HeldBy
  <2> QED
    BY <2>1, <2>2, <2>3 DEF IInv, TypeOK, Fates, HeldBy
<1>15. ASSUME NEW s \in Shards, Settle(s) PROVE Fates'
  <2>1. \A x \in Shards, m \in Msgs : HeldBy(x, m)' <=> HeldBy(x, m) /\ m # cur[s]
    BY <1>15, Settled
  <2>2. queue' = queue /\ fate' = fate /\ \A x \in Shards : cur'[x] = None \/ cur'[x] = cur[x]
    BY <1>15 DEF IInv, TypeOK, Settle
  <2>3. fate[cur[s]] # "accepted"
    BY <1>15 DEF Settle, Active
  <2>4. \A x \in Msgs : Shard(x) \in Shards /\ Shard(x)' = Shard(x)
    BY SendTypes DEF Shard
  <2> QED
    BY <2>1, <2>2, <2>3, <2>4 DEF IInv, Fates
<1>16. ASSUME NEW s \in Shards, WorkerExit(s) PROVE Fates'
  <2>1. queue' = queue /\ cur' = cur
    BY <1>16 DEF WorkerExit, registryVars, countVars, shardVars
  <2>2. \A x \in Msgs : fate'[x] = fate[x] \/ (fate[x] = "new" /\ fate'[x] = "refused")
    BY <1>16 DEF IInv, TypeOK, Calls, Reading, WorkerExit
  <2> QED
    BY <2>1, <2>2 DEF IInv, TypeOK, Fates, HeldBy
<1>17. ASSUME Close PROVE Fates'
  <2>1. queue' = queue /\ cur' = cur /\ fate' = fate
    BY <1>17, CloseFacts
  <2> QED
    BY <2>1 DEF IInv, Fates, HeldBy
<1>18. CASE UNCHANGED vars
  <2>1. queue' = queue /\ cur' = cur /\ fate' = fate
    BY <1>18 DEF vars, registryVars, countVars, shardVars
  <2> QED
    BY <2>1 DEF IInv, Fates, HeldBy
<1> QED
  BY <1>1, <1>2, <1>3, <1>4, <1>5, <1>6, <1>7, <1>8, <1>9, <1>10, <1>11, <1>12,
     <1>13, <1>14, <1>15, <1>16, <1>17, <1>18 DEF Next, PublisherStep, WorkerStep,
     Finished

\* Every step keeps where a publisher is and what it was told.
LEMMA CallsStep == IInv /\ [Next]_vars => Calls'
<1> SUFFICES ASSUME IInv, [Next]_vars PROVE Calls'
  OBVIOUS
<1>1. ASSUME NEW t \in Topics, Subscribe(t) PROVE Calls'
  BY <1>1 DEF IInv, TypeOK, Calls, Reading, Subscribe, registryVars, countVars,
     shardVars
<1>2. ASSUME NEW m \in Msgs, Publish(m) PROVE Calls'
  BY <1>2 DEF IInv, TypeOK, Calls, Reading, Publish, Goto, registryVars, countVars,
     shardVars
<1>3. ASSUME NEW m \in Msgs, Enter(m) PROVE Calls'
  BY <1>3 DEF IInv, TypeOK, Calls, Reading, Enter, Goto, registryVars, countVars,
     shardVars
<1>4. ASSUME NEW m \in Msgs, ClaimScope(m) PROVE Calls'
  BY <1>4 DEF IInv, TypeOK, Calls, Reading, ClaimScope, Goto, Refuse, Prepare,
     registryVars, countVars, shardVars
<1>5. ASSUME NEW m \in Msgs, ClaimNone(m) PROVE Calls'
  BY <1>5 DEF IInv, TypeOK, Calls, Reading, ClaimNone, Goto, Refuse, Prepare,
     registryVars, countVars, shardVars
<1>6. ASSUME NEW m \in Msgs, TakeToken(m) PROVE Calls'
  BY <1>6 DEF IInv, TypeOK, Calls, Reading, TakeToken, Goto, registryVars,
     countVars, shardVars
<1>7. ASSUME NEW m \in Msgs, Send(m) PROVE Calls'
  BY <1>7 DEF IInv, TypeOK, Calls, Reading, Send, Enqueue, Goto, registryVars,
     countVars, shardVars
<1>8. ASSUME NEW m \in Msgs, Stop(m) PROVE Calls'
  BY <1>8 DEF IInv, TypeOK, Calls, Reading, Stop, Undo, Refuse, registryVars,
     countVars, shardVars
<1>9. ASSUME NEW m \in Msgs, GiveUp(m) PROVE Calls'
  BY <1>9 DEF IInv, TypeOK, Calls, Reading, GiveUp, Undo, Refuse, registryVars,
     countVars, shardVars
<1>10. ASSUME NEW m \in Msgs, SendInternal(m) PROVE Calls'
  BY <1>10 DEF IInv, TypeOK, Calls, Reading, SendInternal, Enqueue, Goto, Refuse,
     registryVars, countVars, shardVars
<1>11. ASSUME NEW m \in Msgs, NEW answer \in Answers, Answer(m, answer) PROVE Calls'
  <2>1. answer = "closed" => fate[m] # "accepted"
    <3> SUFFICES ASSUME Done, fate[m] = "accepted" PROVE FALSE
      BY <1>11 DEF Answer
    <3> QED
      BY SendTypes, OutstandingIsHeld DEF IInv, Closed, Fates
  <2> QED
    BY <2>1, <1>11 DEF IInv, TypeOK, Calls, Reading, Answers, Answer, Goto
<1>12. ASSUME NEW m \in Msgs, StopWaiting(m) PROVE Calls'
  BY <1>12 DEF IInv, TypeOK, Calls, Reading, StopWaiting, Goto, registryVars,
     countVars, shardVars
<1>13. ASSUME NEW s \in Shards, Take(s) PROVE Calls'
  BY <1>13 DEF IInv, TypeOK, Calls, Reading, Take, registryVars, countVars,
     shardVars
<1>14. ASSUME NEW s \in Shards, Return(s) PROVE Calls'
  <2>1. /\ cur[s] \in Msgs /\ fate[cur[s]] = "accepted"
        /\ \A x \in Msgs : x # cur[s] => fate'[x] = fate[x]
        /\ fate'[cur[s]] \in {"handled", "failed"}
    BY <1>14 DEF IInv, TypeOK, Return, Active
  <2>2. UNCHANGED <<pc, external>>
    BY <1>14 DEF Return
  <2> QED
    BY <2>1, <2>2 DEF IInv, TypeOK, Calls, Reading
<1>15. ASSUME NEW s \in Shards, Settle(s) PROVE Calls'
  BY <1>15 DEF IInv, TypeOK, Calls, Reading, Settle, registryVars, countVars,
     shardVars
<1>16. ASSUME NEW s \in Shards, WorkerExit(s) PROVE Calls'
  BY <1>16 DEF IInv, TypeOK, Calls, Reading, WorkerExit, registryVars, countVars,
     shardVars
<1>17. ASSUME Close PROVE Calls'
  <2>1. UNCHANGED <<pc, fate, external>>
    BY <1>17, CloseFacts
  <2> QED
    BY <2>1 DEF IInv, Calls
<1>18. CASE UNCHANGED vars
  BY <1>18 DEF IInv, TypeOK, Calls, Reading, vars, registryVars, countVars,
     shardVars
<1> QED
  BY <1>1, <1>2, <1>3, <1>4, <1>5, <1>6, <1>7, <1>8, <1>9, <1>10, <1>11, <1>12,
     <1>13, <1>14, <1>15, <1>16, <1>17, <1>18 DEF Next, PublisherStep, WorkerStep,
     Finished

\* A publisher in a running handler has a message for its parent.
LEMMA ActiveParent ==
  ASSUME NEW m \in Msgs
  PROVE  Active(ParentOf[m]) => ParentOf[m] \in Msgs
BY BusAssumption DEF Active

\* No handler returns while it is in a call of publish.
LEMMA ScopesStep == IInv /\ [Next]_vars => Scopes'
<1> SUFFICES ASSUME IInv, [Next]_vars PROVE Scopes'
  OBVIOUS
<1>1. ASSUME NEW t \in Topics, Subscribe(t) PROVE Scopes'
  <2>1. \A x \in Msgs : Active(x) => Active(x)'
    BY <1>1 DEF IInv, TypeOK, Active, Calls, Reading, Subscribe, registryVars,
       countVars, shardVars
  <2>2. \A x \in Msgs : pc'[x] = "internal" => pc[x] = "internal"
    BY <1>1 DEF IInv, TypeOK, Subscribe
  <2> QED
    BY <2>1, <2>2, ActiveParent DEF IInv, Scopes
<1>2. ASSUME NEW m \in Msgs, Publish(m) PROVE Scopes'
  <2>1. \A x \in Msgs : Active(x) => Active(x)'
    BY <1>2 DEF IInv, TypeOK, Active, Calls, Reading, Publish, Goto, registryVars,
       countVars, shardVars
  <2>2. \A x \in Msgs : pc'[x] = "internal" => pc[x] = "internal"
    BY <1>2 DEF IInv, TypeOK, Publish, Goto
  <2> QED
    BY <2>1, <2>2, ActiveParent DEF IInv, Scopes
<1>3. ASSUME NEW m \in Msgs, Enter(m) PROVE Scopes'
  <2>1. \A x \in Msgs : Active(x) => Active(x)'
    BY <1>3 DEF IInv, TypeOK, Active, Calls, Reading, Enter, Goto, registryVars,
       countVars, shardVars
  <2>2. \A x \in Msgs : pc'[x] = "internal" => pc[x] = "internal"
    BY <1>3 DEF IInv, TypeOK, Enter, Goto
  <2> QED
    BY <2>1, <2>2, ActiveParent DEF IInv, Scopes
<1>4. ASSUME NEW m \in Msgs, ClaimScope(m) PROVE Scopes'
  <2>1. \A x \in Msgs : Active(x) => Active(x)'
    BY <1>4 DEF IInv, TypeOK, Active, Calls, Reading, ClaimScope, Goto, Refuse, Prepare,
       registryVars, countVars, shardVars
  <2>2. \A x \in Msgs : pc'[x] = "internal" => pc[x] = "internal" \/ Active(ParentOf[x])
    BY <1>4 DEF IInv, TypeOK, ClaimScope, Goto, Refuse, Prepare
  <2> QED
    BY <2>1, <2>2, ActiveParent DEF IInv, Scopes
<1>5. ASSUME NEW m \in Msgs, ClaimNone(m) PROVE Scopes'
  <2>1. \A x \in Msgs : Active(x) => Active(x)'
    BY <1>5 DEF IInv, TypeOK, Active, Calls, Reading, ClaimNone, Goto, Refuse, Prepare,
       registryVars, countVars, shardVars
  <2>2. \A x \in Msgs : pc'[x] = "internal" => pc[x] = "internal"
    BY <1>5 DEF IInv, TypeOK, ClaimNone, Goto, Refuse, Prepare
  <2> QED
    BY <2>1, <2>2, ActiveParent DEF IInv, Scopes
<1>6. ASSUME NEW m \in Msgs, TakeToken(m) PROVE Scopes'
  <2>1. \A x \in Msgs : Active(x) => Active(x)'
    BY <1>6 DEF IInv, TypeOK, Active, Calls, Reading, TakeToken, Goto, registryVars,
       countVars, shardVars
  <2>2. \A x \in Msgs : pc'[x] = "internal" => pc[x] = "internal"
    BY <1>6 DEF IInv, TypeOK, TakeToken, Goto
  <2> QED
    BY <2>1, <2>2, ActiveParent DEF IInv, Scopes
<1>7. ASSUME NEW m \in Msgs, Send(m) PROVE Scopes'
  <2>1. \A x \in Msgs : Active(x) => Active(x)'
    BY <1>7 DEF IInv, TypeOK, Active, Calls, Reading, Send, Enqueue, Goto, registryVars,
       countVars, shardVars
  <2>2. \A x \in Msgs : pc'[x] = "internal" => pc[x] = "internal"
    BY <1>7 DEF IInv, TypeOK, Send, Enqueue, Goto
  <2> QED
    BY <2>1, <2>2, ActiveParent DEF IInv, Scopes
<1>8. ASSUME NEW m \in Msgs, Stop(m) PROVE Scopes'
  <2>1. \A x \in Msgs : Active(x) => Active(x)'
    BY <1>8 DEF IInv, TypeOK, Active, Calls, Reading, Stop, Undo, Refuse, registryVars,
       countVars, shardVars
  <2>2. \A x \in Msgs : pc'[x] = "internal" => pc[x] = "internal"
    BY <1>8 DEF IInv, TypeOK, Stop, Undo, Refuse
  <2> QED
    BY <2>1, <2>2, ActiveParent DEF IInv, Scopes
<1>9. ASSUME NEW m \in Msgs, GiveUp(m) PROVE Scopes'
  <2>1. \A x \in Msgs : Active(x) => Active(x)'
    BY <1>9 DEF IInv, TypeOK, Active, Calls, Reading, GiveUp, Undo, Refuse,
       registryVars, countVars, shardVars
  <2>2. \A x \in Msgs : pc'[x] = "internal" => pc[x] = "internal"
    BY <1>9 DEF IInv, TypeOK, GiveUp, Undo, Refuse
  <2> QED
    BY <2>1, <2>2, ActiveParent DEF IInv, Scopes
<1>10. ASSUME NEW m \in Msgs, SendInternal(m) PROVE Scopes'
  <2>1. \A x \in Msgs : Active(x) => Active(x)'
    BY <1>10 DEF IInv, TypeOK, Active, Calls, Reading, SendInternal, Enqueue, Goto,
       Refuse, registryVars, countVars, shardVars
  <2>2. \A x \in Msgs : pc'[x] = "internal" => pc[x] = "internal"
    BY <1>10 DEF IInv, TypeOK, SendInternal, Enqueue, Goto, Refuse
  <2> QED
    BY <2>1, <2>2, ActiveParent DEF IInv, Scopes
<1>11. ASSUME NEW m \in Msgs, NEW answer \in Answers, Answer(m, answer) PROVE Scopes'
  <2>1. \A x \in Msgs : Active(x) => Active(x)'
    BY <1>11 DEF IInv, TypeOK, Active, Calls, Reading, Answer, Goto, registryVars,
       countVars, shardVars
  <2>2. \A x \in Msgs : pc'[x] = "internal" => pc[x] = "internal"
    BY <1>11 DEF IInv, TypeOK, Answer, Goto
  <2> QED
    BY <2>1, <2>2, ActiveParent DEF IInv, Scopes
<1>12. ASSUME NEW m \in Msgs, StopWaiting(m) PROVE Scopes'
  <2>1. \A x \in Msgs : Active(x) => Active(x)'
    BY <1>12 DEF IInv, TypeOK, Active, Calls, Reading, StopWaiting, Goto, registryVars,
       countVars, shardVars
  <2>2. \A x \in Msgs : pc'[x] = "internal" => pc[x] = "internal"
    BY <1>12 DEF IInv, TypeOK, StopWaiting, Goto
  <2> QED
    BY <2>1, <2>2, ActiveParent DEF IInv, Scopes
<1>13. ASSUME NEW s \in Shards, Take(s) PROVE Scopes'
  <2>1. \A x \in Msgs : Active(x) => Active(x)'
    BY <1>13 DEF IInv, TypeOK, Active, Take
  <2> QED
    BY <2>1, <1>13, ActiveParent DEF IInv, Scopes, Take
<1>14. ASSUME NEW s \in Shards, Return(s) PROVE Scopes'
  <2>1. \A x \in Msgs : Active(x) => x = cur[s] \/ Active(x)'
    BY <1>14 DEF IInv, TypeOK, Active, Return, shardVars
  <2>2. \A x \in Msgs : pc[x] = "internal" => ParentOf[x] # cur[s]
    BY <1>14 DEF Return, ScopeFree
  <2> QED
    BY <2>1, <2>2, <1>14, ActiveParent DEF IInv, Scopes, Return
<1>15. ASSUME NEW s \in Shards, Settle(s) PROVE Scopes'
  <2>1. \A x \in Msgs : Active(x) => Active(x)'
    BY <1>15 DEF IInv, TypeOK, Active, Settle
  <2> QED
    BY <2>1, <1>15, ActiveParent DEF IInv, Scopes, Settle
<1>16. ASSUME NEW s \in Shards, WorkerExit(s) PROVE Scopes'
  <2>1. \A x \in Msgs : Active(x) => Active(x)'
    BY <1>16 DEF IInv, TypeOK, Active, Calls, Reading, WorkerExit, registryVars,
       countVars, shardVars
  <2>2. \A x \in Msgs : pc'[x] = "internal" => pc[x] = "internal"
    BY <1>16 DEF IInv, TypeOK, WorkerExit
  <2> QED
    BY <2>1, <2>2, ActiveParent DEF IInv, Scopes
<1>17. ASSUME Close PROVE Scopes'
  <2>1. UNCHANGED <<pc, fate, cur>>
    BY <1>17, CloseFacts
  <2> QED
    BY <2>1 DEF IInv, Scopes, Active
<1>18. CASE UNCHANGED vars
  <2>1. UNCHANGED <<pc, fate, cur>>
    BY <1>18 DEF vars, registryVars, countVars, shardVars
  <2> QED
    BY <2>1 DEF IInv, Scopes, Active
<1> QED
  BY <1>1, <1>2, <1>3, <1>4, <1>5, <1>6, <1>7, <1>8, <1>9, <1>10, <1>11, <1>12,
     <1>13, <1>14, <1>15, <1>16, <1>17, <1>18 DEF Next, PublisherStep, WorkerStep,
     Finished

\* The delivery whose handler publishes is outstanding.
LEMMA InternalIsHeld ==
  ASSUME IInv, NEW m \in Msgs, pc[m] = "internal"
  PROVE  Outstanding # {}
<1>1. Active(ParentOf[m])
  BY DEF IInv, Scopes
<1>2. PICK s \in Shards : cur[s] = ParentOf[m]
  BY <1>1 DEF Active
<1> QED
  BY <1>1, <1>2, Holding DEF Active

\* Every step keeps what the stages of Close have established.
LEMMA ClosedStep == IInv /\ [Next]_vars => Closed'
<1> SUFFICES ASSUME IInv, [Next]_vars PROVE Closed'
  OBVIOUS
<1>1. ASSUME NEW t \in Topics, Subscribe(t) PROVE Closed'
  <2>1. Outstanding' = Outstanding /\ stage' = stage
    BY <1>1 DEF Subscribe, registryVars, countVars, shardVars, Outstanding
  <2>2. \A x \in Msgs : pc'[x] \in {"token", "send"} => pc[x] \in {"token", "send"}
    BY <1>1 DEF IInv, TypeOK, Subscribe
  <2> QED
    BY <2>1, <2>2 DEF IInv, Closed, Done
<1>2. ASSUME NEW m \in Msgs, Publish(m) PROVE Closed'
  <2>1. Outstanding' = Outstanding /\ stage' = stage
    BY <1>2 DEF Publish, Goto, registryVars, countVars, shardVars, Outstanding
  <2>2. \A x \in Msgs : pc'[x] \in {"token", "send"} => pc[x] \in {"token", "send"}
    BY <1>2 DEF IInv, TypeOK, Publish, Goto
  <2> QED
    BY <2>1, <2>2 DEF IInv, Closed, Done
<1>3. ASSUME NEW m \in Msgs, Enter(m) PROVE Closed'
  <2>1. Outstanding' = Outstanding /\ stage' = stage
    BY <1>3 DEF Enter, Goto, registryVars, countVars, shardVars, Outstanding
  <2>2. \A x \in Msgs : pc'[x] \in {"token", "send"} => pc[x] \in {"token", "send"}
    BY <1>3 DEF IInv, TypeOK, Enter, Goto
  <2> QED
    BY <2>1, <2>2 DEF IInv, Closed, Done
<1>4. ASSUME NEW m \in Msgs, ClaimScope(m) PROVE Closed'
  <2>1. Outstanding' = Outstanding /\ stage' = stage
    BY <1>4 DEF ClaimScope, Goto, Refuse, Prepare, registryVars, countVars, shardVars,
       Outstanding
  <2>2. \A x \in Msgs : pc'[x] \in {"token", "send"} => pc[x] \in {"token", "send"}
    BY <1>4 DEF IInv, TypeOK, ClaimScope, Goto, Refuse, Prepare
  <2> QED
    BY <2>1, <2>2 DEF IInv, Closed, Done
<1>5. ASSUME NEW m \in Msgs, ClaimNone(m) PROVE Closed'
  <2>1. Outstanding' = Outstanding /\ stage' = stage
    BY <1>5 DEF ClaimNone, shardVars, Outstanding
  <2>2. \/ stage = "open"
        \/ \A x \in Msgs : pc'[x] \in {"token", "send"} => pc[x] \in {"token", "send"}
    BY <1>5 DEF IInv, TypeOK, Closing, ClaimNone, Goto, Refuse, Prepare
  <2> QED
    BY <2>1, <2>2 DEF IInv, Closed, Done
<1>6. ASSUME NEW m \in Msgs, TakeToken(m) PROVE Closed'
  <2>1. Outstanding' = Outstanding /\ stage' = stage
    BY <1>6 DEF TakeToken, Goto, registryVars, countVars, shardVars, Outstanding
  <2>2. \A x \in Msgs : pc'[x] \in {"token", "send"} => pc[x] \in {"token", "send"}
    BY <1>6 DEF IInv, TypeOK, TakeToken, Goto
  <2> QED
    BY <2>1, <2>2 DEF IInv, Closed, Done
<1>7. ASSUME NEW m \in Msgs, Send(m) PROVE Closed'
  <2>1. ~(stage \in {"drain", "seal"} \/ Done)
    BY <1>7 DEF IInv, Closed, Send
  <2> QED
    BY <2>1, <1>7 DEF Closed, Done, Send
<1>8. ASSUME NEW m \in Msgs, Stop(m) PROVE Closed'
  <2>1. Outstanding' = Outstanding /\ stage' = stage
    BY <1>8 DEF Stop, Undo, Refuse, registryVars, countVars, shardVars, Outstanding
  <2>2. \A x \in Msgs : pc'[x] \in {"token", "send"} => pc[x] \in {"token", "send"}
    BY <1>8 DEF IInv, TypeOK, Stop, Undo, Refuse
  <2> QED
    BY <2>1, <2>2 DEF IInv, Closed, Done
<1>9. ASSUME NEW m \in Msgs, GiveUp(m) PROVE Closed'
  <2>1. Outstanding' = Outstanding /\ stage' = stage
    BY <1>9 DEF GiveUp, Undo, Refuse, registryVars, countVars, shardVars, Outstanding
  <2>2. \A x \in Msgs : pc'[x] \in {"token", "send"} => pc[x] \in {"token", "send"}
    BY <1>9 DEF IInv, TypeOK, GiveUp, Undo, Refuse
  <2> QED
    BY <2>1, <2>2 DEF IInv, Closed, Done
<1>10. ASSUME NEW m \in Msgs, SendInternal(m) PROVE Closed'
  <2>1. stage' = stage /\ ~(stage = "seal" \/ Done)
    BY <1>10, InternalIsHeld DEF IInv, Closed, SendInternal
  <2>2. \A x \in Msgs : pc'[x] \in {"token", "send"} => pc[x] \in {"token", "send"}
    BY <1>10 DEF IInv, TypeOK, SendInternal, Enqueue, Goto, Refuse
  <2> QED
    BY <2>1, <2>2 DEF IInv, Closed, Done
<1>11. ASSUME NEW m \in Msgs, NEW answer \in Answers, Answer(m, answer) PROVE Closed'
  <2>1. Outstanding' = Outstanding /\ stage' = stage
    BY <1>11 DEF Answer, Goto, registryVars, countVars, shardVars, Outstanding
  <2>2. \A x \in Msgs : pc'[x] \in {"token", "send"} => pc[x] \in {"token", "send"}
    BY <1>11 DEF IInv, TypeOK, Answer, Goto
  <2> QED
    BY <2>1, <2>2 DEF IInv, Closed, Done
<1>12. ASSUME NEW m \in Msgs, StopWaiting(m) PROVE Closed'
  <2>1. Outstanding' = Outstanding /\ stage' = stage
    BY <1>12 DEF StopWaiting, Goto, registryVars, countVars, shardVars, Outstanding
  <2>2. \A x \in Msgs : pc'[x] \in {"token", "send"} => pc[x] \in {"token", "send"}
    BY <1>12 DEF IInv, TypeOK, StopWaiting, Goto
  <2> QED
    BY <2>1, <2>2 DEF IInv, Closed, Done
<1>13. ASSUME NEW s \in Shards, Take(s) PROVE Closed'
  <2>1. Outstanding' = Outstanding
    BY <1>13, Taken
  <2> QED
    BY <2>1, <1>13 DEF IInv, Closed, Done, Take
<1>14. ASSUME NEW s \in Shards, Return(s) PROVE Closed'
  <2>1. Outstanding' = Outstanding /\ stage' = stage
    BY <1>14 DEF Return, registryVars, countVars, shardVars, Outstanding
  <2>2. \A x \in Msgs : pc'[x] \in {"token", "send"} => pc[x] \in {"token", "send"}
    BY <1>14 DEF IInv, TypeOK, Return
  <2> QED
    BY <2>1, <2>2 DEF IInv, Closed, Done
<1>15. ASSUME NEW s \in Shards, Settle(s) PROVE Closed'
  <2>1. Outstanding' \subseteq Outstanding
    BY <1>15, Settled
  <2> QED
    BY <2>1, <1>15 DEF IInv, Closed, Done, Settle
<1>16. ASSUME NEW s \in Shards, WorkerExit(s) PROVE Closed'
  <2>1. Outstanding' = Outstanding /\ stage' = stage
    BY <1>16 DEF WorkerExit, registryVars, countVars, shardVars, Outstanding
  <2>2. \A x \in Msgs : pc'[x] \in {"token", "send"} => pc[x] \in {"token", "send"}
    BY <1>16 DEF IInv, TypeOK, WorkerExit
  <2> QED
    BY <2>1, <2>2 DEF IInv, Closed, Done
<1>17. ASSUME Close PROVE Closed'
  <2>1. pc' = pc /\ Outstanding' = Outstanding
    BY <1>17, CloseFacts DEF Outstanding
  <2>2. stage = "gate" => \A m \in Msgs : pc[m] \notin {"token", "send"}
    BY <1>17, CloseFacts DEF Readers, Reading
  <2>3. stage = "drain" => Outstanding = {}
    <3> SUFFICES ASSUME delivery = 0 PROVE Outstanding = {}
      BY <1>17, CloseFacts
    <3>1. Cardinality(Outstanding) \in Nat /\ Cardinality(Reserved) \in Nat
      BY CountSets, Counting
    <3>2. Cardinality(Outstanding) = 0
      BY <3>1 DEF IInv, CountsExact
    <3> QED
      BY <3>2, CountSets, Counting
  <2> QED
    BY <2>1, <2>2, <2>3, <1>17, CloseFacts DEF IInv, Closed, Done
<1>18. CASE UNCHANGED vars
  <2>1. Outstanding' = Outstanding /\ stage' = stage
    BY <1>18 DEF vars, registryVars, countVars, shardVars, Outstanding
  <2>2. \A x \in Msgs : pc'[x] \in {"token", "send"} => pc[x] \in {"token", "send"}
    BY <1>18 DEF vars
  <2> QED
    BY <2>1, <2>2 DEF IInv, Closed, Done
<1> QED
  BY <1>1, <1>2, <1>3, <1>4, <1>5, <1>6, <1>7, <1>8, <1>9, <1>10, <1>11, <1>12,
     <1>13, <1>14, <1>15, <1>16, <1>17, <1>18 DEF Next, PublisherStep, WorkerStep,
     Finished

\* Every step keeps the tokens and the wait group exact.
LEMMA CountsStep == IInv /\ [Next]_vars => CountsExact'
<1> SUFFICES ASSUME IInv, [Next]_vars PROVE CountsExact'
  OBVIOUS
<1>1. ASSUME NEW t \in Topics, Subscribe(t) PROVE CountsExact'
  <2>1. Outstanding' = Outstanding /\ Reserved' = Reserved /\ Counted' = Counted
    <3>1. UNCHANGED <<queue, cur, external>>
      BY <1>1 DEF Subscribe, registryVars, countVars, shardVars
    <3>2. \A x \in Msgs : (pc'[x] = "send") <=> (pc[x] = "send")
      BY <1>1 DEF IInv, TypeOK, Subscribe
    <3> QED
      BY <3>1, <3>2, SetsFrame
  <2> QED
    BY <2>1, <1>1 DEF IInv, CountsExact, Counted, Subscribe, registryVars, countVars,
       shardVars
<1>2. ASSUME NEW m \in Msgs, Publish(m) PROVE CountsExact'
  <2>1. Outstanding' = Outstanding /\ Reserved' = Reserved /\ Counted' = Counted
    <3>1. UNCHANGED <<queue, cur, external>>
      BY <1>2 DEF Publish, Goto, registryVars, countVars, shardVars
    <3>2. \A x \in Msgs : (pc'[x] = "send") <=> (pc[x] = "send")
      BY <1>2 DEF IInv, TypeOK, Publish, Goto
    <3> QED
      BY <3>1, <3>2, SetsFrame
  <2> QED
    BY <2>1, <1>2 DEF IInv, CountsExact, Counted, Publish, Goto, registryVars,
       countVars, shardVars
<1>3. ASSUME NEW m \in Msgs, Enter(m) PROVE CountsExact'
  <2>1. Outstanding' = Outstanding /\ Reserved' = Reserved /\ Counted' = Counted
    <3>1. UNCHANGED <<queue, cur, external>>
      BY <1>3 DEF Enter, Goto, registryVars, countVars, shardVars
    <3>2. \A x \in Msgs : (pc'[x] = "send") <=> (pc[x] = "send")
      BY <1>3 DEF IInv, TypeOK, Enter, Goto
    <3> QED
      BY <3>1, <3>2, SetsFrame
  <2> QED
    BY <2>1, <1>3 DEF IInv, CountsExact, Counted, Enter, Goto, registryVars, countVars,
       shardVars
<1>4. ASSUME NEW m \in Msgs, ClaimScope(m) PROVE CountsExact'
  <2>1. Outstanding' = Outstanding /\ Reserved' = Reserved /\ Counted' = Counted
    <3>1. UNCHANGED <<queue, cur, external>>
      BY <1>4 DEF ClaimScope, Goto, Refuse, Prepare, registryVars, countVars, shardVars
    <3>2. \A x \in Msgs : (pc'[x] = "send") <=> (pc[x] = "send")
      BY <1>4 DEF IInv, TypeOK, ClaimScope, Goto, Refuse, Prepare
    <3> QED
      BY <3>1, <3>2, SetsFrame
  <2> QED
    BY <2>1, <1>4 DEF IInv, CountsExact, Counted, ClaimScope, Goto, Refuse, Prepare,
       registryVars, countVars, shardVars
<1>5. ASSUME NEW m \in Msgs, ClaimNone(m) PROVE CountsExact'
  <2>1. /\ Outstanding' = Outstanding /\ Reserved' = Reserved
        /\ m \notin Outstanding /\ m \notin Reserved
    <3>1. m \notin Outstanding
      BY <1>5, NewIsNotHeld DEF IInv, Calls, Reading, ClaimNone
    <3>2. Reserved' = Reserved /\ m \notin Reserved
      BY <1>5 DEF IInv, TypeOK, Reserved, ClaimNone, Goto, Refuse, Prepare
    <3> QED
      BY <3>1, <3>2, <1>5 DEF Outstanding, ClaimNone, shardVars
  <2>2. Counted' = Counted
    BY <2>1, <1>5 DEF Counted, ClaimNone, Prepare
  <2> QED
    BY <2>1, <2>2, <1>5 DEF IInv, CountsExact, Counted, ClaimNone, countVars
<1>6. ASSUME NEW m \in Msgs, TakeToken(m) PROVE CountsExact'
  <2>1. /\ Outstanding' = Outstanding
        /\ m \notin Reserved /\ Reserved' = Reserved \cup {m}
        /\ m \notin Counted /\ Counted' = Counted \cup {m}
    BY <1>6, TokenTaken
  <2>2. /\ Cardinality(Outstanding) \in Nat /\ Cardinality(Reserved) \in Nat
        /\ Cardinality(Counted) \in Nat
        /\ tokens + Cardinality(Counted) = MaxInFlight
        /\ delivery = Cardinality(Outstanding) + Cardinality(Reserved)
    BY CountSets, Counting DEF IInv, CountsExact, Counted
  <2>3. /\ Cardinality(Reserved') = Cardinality(Reserved) + 1
        /\ Cardinality(Counted') = Cardinality(Counted) + 1
    BY <2>1, CountSets, Counting
  <2>4. tokens' = tokens - 1 /\ delivery' = delivery + 1 /\ tokens \in Nat
    BY <1>6, BusAssumption DEF IInv, TypeOK, TakeToken
  <2>5. /\ tokens' + Cardinality(Counted') = MaxInFlight
        /\ delivery' = Cardinality(Outstanding') + Cardinality(Reserved')
    BY <2>1, <2>2, <2>3, <2>4
  <2> QED
    BY <2>5 DEF CountsExact, Counted
<1>7. ASSUME NEW m \in Msgs, Send(m) PROVE CountsExact'
  <2>1. /\ m \notin Outstanding /\ Outstanding' = Outstanding \cup {m}
        /\ Reserved' = Reserved \ {m}
    BY <1>7, Enqueued DEF Send
  <2>2. /\ Cardinality(Outstanding) \in Nat /\ Cardinality(Reserved) \in Nat
        /\ Cardinality(Counted) \in Nat
        /\ tokens + Cardinality(Counted) = MaxInFlight
        /\ delivery = Cardinality(Outstanding) + Cardinality(Reserved)
    BY CountSets, Counting DEF IInv, CountsExact, Counted
  <2>3. m \in Reserved /\ external' = external /\ tokens' = tokens /\ delivery' = delivery
    BY <1>7 DEF Reserved, Send, countVars
  <2>4. Counted' = Counted
    BY <2>1, <2>3 DEF Counted
  <2>5. /\ Cardinality(Outstanding') = Cardinality(Outstanding) + 1
        /\ Cardinality(Reserved') = Cardinality(Reserved) - 1
    BY <2>1, <2>3, CountSets, Counting
  <2>6. /\ tokens' + Cardinality(Counted') = MaxInFlight
        /\ delivery' = Cardinality(Outstanding') + Cardinality(Reserved')
    BY <2>2, <2>3, <2>4, <2>5
  <2> QED
    BY <2>6 DEF CountsExact, Counted
<1>8. ASSUME NEW m \in Msgs, Stop(m) PROVE CountsExact'
  <2>1. /\ Outstanding' = Outstanding
        /\ Reserved' = Reserved \ {m} /\ Counted' = Counted \ {m}
        /\ pc[m] = "send" <=> m \in Reserved
        /\ m \in Reserved <=> m \in Counted
    BY <1>8, Undone DEF Stop, Undo, Refuse, shardVars
  <2>2. /\ Cardinality(Outstanding) \in Nat /\ Cardinality(Reserved) \in Nat
        /\ Cardinality(Counted) \in Nat
        /\ tokens + Cardinality(Counted) = MaxInFlight
        /\ delivery = Cardinality(Outstanding) + Cardinality(Reserved)
    BY CountSets, Counting DEF IInv, CountsExact, Counted
  <2>3. CASE pc[m] = "send"
    <3>1. /\ Cardinality(Reserved') = Cardinality(Reserved) - 1
          /\ Cardinality(Counted') = Cardinality(Counted) - 1
      BY <2>1, <2>3, CountSets, Counting
    <3>2. delivery' = delivery - 1 /\ tokens' = tokens + 1
      BY <2>3, <1>8 DEF Stop, Undo, Refuse
    <3>3. /\ tokens' + Cardinality(Counted') = MaxInFlight
          /\ delivery' = Cardinality(Outstanding') + Cardinality(Reserved')
      <4>1. tokens \in Nat /\ delivery \in Nat /\ MaxInFlight \in Nat
        BY BusAssumption DEF IInv, TypeOK
      <4> QED
        BY <2>1, <2>2, <3>1, <3>2, <4>1
    <3> QED
      BY <3>3 DEF CountsExact, Counted
  <2>4. CASE pc[m] # "send"
    <3>1. Reserved' = Reserved /\ Counted' = Counted
      BY <2>1, <2>4
    <3>2. delivery' = delivery /\ tokens' = tokens
      BY <2>4, <1>8 DEF Stop, Undo, Refuse, countVars
    <3> QED
      BY <2>1, <3>1, <3>2 DEF IInv, CountsExact, Counted
  <2> QED
    BY <2>3, <2>4
<1>9. ASSUME NEW m \in Msgs, GiveUp(m) PROVE CountsExact'
  <2>1. /\ Outstanding' = Outstanding
        /\ Reserved' = Reserved \ {m} /\ Counted' = Counted \ {m}
        /\ pc[m] = "send" <=> m \in Reserved
        /\ m \in Reserved <=> m \in Counted
    BY <1>9, Undone DEF GiveUp, Undo, Refuse, shardVars
  <2>2. /\ Cardinality(Outstanding) \in Nat /\ Cardinality(Reserved) \in Nat
        /\ Cardinality(Counted) \in Nat
        /\ tokens + Cardinality(Counted) = MaxInFlight
        /\ delivery = Cardinality(Outstanding) + Cardinality(Reserved)
    BY CountSets, Counting DEF IInv, CountsExact, Counted
  <2>3. CASE pc[m] = "send"
    <3>1. /\ Cardinality(Reserved') = Cardinality(Reserved) - 1
          /\ Cardinality(Counted') = Cardinality(Counted) - 1
      BY <2>1, <2>3, CountSets, Counting
    <3>2. delivery' = delivery - 1 /\ tokens' = tokens + 1
      BY <2>3, <1>9 DEF GiveUp, Undo, Refuse
    <3>3. /\ tokens' + Cardinality(Counted') = MaxInFlight
          /\ delivery' = Cardinality(Outstanding') + Cardinality(Reserved')
      <4>1. tokens \in Nat /\ delivery \in Nat /\ MaxInFlight \in Nat
        BY BusAssumption DEF IInv, TypeOK
      <4> QED
        BY <2>1, <2>2, <3>1, <3>2, <4>1
    <3> QED
      BY <3>3 DEF CountsExact, Counted
  <2>4. CASE pc[m] # "send"
    <3>1. Reserved' = Reserved /\ Counted' = Counted
      BY <2>1, <2>4
    <3>2. delivery' = delivery /\ tokens' = tokens
      BY <2>4, <1>9 DEF GiveUp, Undo, Refuse, countVars
    <3> QED
      BY <2>1, <3>1, <3>2 DEF IInv, CountsExact, Counted
  <2> QED
    BY <2>3, <2>4
<1>10. ASSUME NEW m \in Msgs, SendInternal(m) PROVE CountsExact'
  <2>1. CASE Room(m)
    <3>1. /\ m \notin Outstanding /\ Outstanding' = Outstanding \cup {m}
          /\ Reserved' = Reserved \ {m}
      BY <2>1, <1>10, Enqueued DEF SendInternal
    <3>2. m \notin Reserved /\ m \notin external
      BY <1>10 DEF IInv, Calls, Reserved, SendInternal
    <3>3. Reserved' = Reserved /\ Counted' = Counted
      BY <3>1, <3>2, <1>10 DEF Counted, SendInternal
    <3>4. Cardinality(Outstanding') = Cardinality(Outstanding) + 1
      BY <3>1, CountSets, Counting
    <3>5. /\ Cardinality(Outstanding) \in Nat /\ Cardinality(Reserved) \in Nat
          /\ delivery = Cardinality(Outstanding) + Cardinality(Reserved)
      BY CountSets, Counting DEF IInv, CountsExact
    <3>6. delivery' = delivery + 1 /\ tokens' = tokens
      BY <2>1, <1>10 DEF SendInternal
    <3>7. delivery' = Cardinality(Outstanding') + Cardinality(Reserved')
      BY <3>3, <3>4, <3>5, <3>6
    <3> QED
      BY <3>3, <3>6, <3>7 DEF IInv, CountsExact, Counted
  <2>2. CASE ~Room(m)
    <3>1. UNCHANGED <<queue, cur, external, delivery, tokens>>
      BY <2>2, <1>10 DEF SendInternal
    <3>2. \A x \in Msgs : (pc'[x] = "send") <=> (pc[x] = "send")
      BY <2>2, <1>10 DEF IInv, TypeOK, SendInternal, Refuse
    <3>3. Outstanding' = Outstanding /\ Reserved' = Reserved /\ Counted' = Counted
      BY <3>1, <3>2, SetsFrame
    <3> QED
      BY <3>1, <3>3 DEF IInv, CountsExact, Counted
  <2> QED
    BY <2>1, <2>2
<1>11. ASSUME NEW m \in Msgs, NEW answer \in Answers, Answer(m, answer)
       PROVE  CountsExact'
  <2>1. Outstanding' = Outstanding /\ Reserved' = Reserved /\ Counted' = Counted
    <3>1. UNCHANGED <<queue, cur, external>>
      BY <1>11 DEF Answer, Goto, registryVars, countVars, shardVars
    <3>2. \A x \in Msgs : (pc'[x] = "send") <=> (pc[x] = "send")
      BY <1>11 DEF IInv, TypeOK, Answer, Goto
    <3> QED
      BY <3>1, <3>2, SetsFrame
  <2> QED
    BY <2>1, <1>11 DEF IInv, CountsExact, Counted, Answer, Goto, registryVars,
       countVars, shardVars
<1>12. ASSUME NEW m \in Msgs, StopWaiting(m) PROVE CountsExact'
  <2>1. Outstanding' = Outstanding /\ Reserved' = Reserved /\ Counted' = Counted
    <3>1. UNCHANGED <<queue, cur, external>>
      BY <1>12 DEF StopWaiting, Goto, registryVars, countVars, shardVars
    <3>2. \A x \in Msgs : (pc'[x] = "send") <=> (pc[x] = "send")
      BY <1>12 DEF IInv, TypeOK, StopWaiting, Goto
    <3> QED
      BY <3>1, <3>2, SetsFrame
  <2> QED
    BY <2>1, <1>12 DEF IInv, CountsExact, Counted, StopWaiting, Goto, registryVars,
       countVars, shardVars
<1>13. ASSUME NEW s \in Shards, Take(s) PROVE CountsExact'
  <2>1. Outstanding' = Outstanding /\ Reserved' = Reserved /\ Counted' = Counted
    BY <1>13, Taken DEF Take, Reserved, Counted
  <2> QED
    BY <2>1, <1>13 DEF IInv, CountsExact, Counted, Take, countVars
<1>14. ASSUME NEW s \in Shards, Return(s) PROVE CountsExact'
  <2>1. Outstanding' = Outstanding /\ Reserved' = Reserved /\ Counted' = Counted
    <3>1. UNCHANGED <<queue, cur, external>>
      BY <1>14 DEF Return, registryVars, countVars, shardVars
    <3>2. \A x \in Msgs : (pc'[x] = "send") <=> (pc[x] = "send")
      BY <1>14 DEF IInv, TypeOK, Return
    <3> QED
      BY <3>1, <3>2, SetsFrame
  <2> QED
    BY <2>1, <1>14 DEF IInv, CountsExact, Counted, Return, registryVars, countVars,
       shardVars
<1>15. ASSUME NEW s \in Shards, Settle(s) PROVE CountsExact'
  <2>1. /\ cur[s] \in Outstanding
        /\ Outstanding' = Outstanding \ {cur[s]} /\ Reserved' = Reserved
        /\ Counted' = Counted \ {cur[s]} /\ (cur[s] \in Counted <=> cur[s] \in external)
    BY <1>15, Settled
  <2>2. /\ Cardinality(Outstanding) \in Nat /\ Cardinality(Reserved) \in Nat
        /\ Cardinality(Counted) \in Nat
        /\ tokens + Cardinality(Counted) = MaxInFlight
        /\ delivery = Cardinality(Outstanding) + Cardinality(Reserved)
    BY CountSets, Counting DEF IInv, CountsExact, Counted
  <2>3. /\ Cardinality(Outstanding') = Cardinality(Outstanding) - 1
        /\ cur[s] \in external => Cardinality(Counted') = Cardinality(Counted) - 1
        /\ cur[s] \notin external => Counted' = Counted
    BY <2>1, CountSets, Counting
  <2>4. /\ delivery' = delivery - 1 /\ tokens \in Nat
        /\ tokens' = IF cur[s] \in external THEN tokens + 1 ELSE tokens
    BY <1>15, BusAssumption DEF IInv, TypeOK, Settle
  <2>5. delivery' = Cardinality(Outstanding') + Cardinality(Reserved')
    BY <2>1, <2>2, <2>3, <2>4
  <2>6. tokens' + Cardinality(Counted') = MaxInFlight
    BY <2>2, <2>3, <2>4
  <2> QED
    BY <2>5, <2>6 DEF CountsExact, Counted
<1>16. ASSUME NEW s \in Shards, WorkerExit(s) PROVE CountsExact'
  <2>1. Outstanding' = Outstanding /\ Reserved' = Reserved /\ Counted' = Counted
    <3>1. UNCHANGED <<queue, cur, external>>
      BY <1>16 DEF WorkerExit, registryVars, countVars, shardVars
    <3>2. \A x \in Msgs : (pc'[x] = "send") <=> (pc[x] = "send")
      BY <1>16 DEF IInv, TypeOK, WorkerExit
    <3> QED
      BY <3>1, <3>2, SetsFrame
  <2> QED
    BY <2>1, <1>16 DEF IInv, CountsExact, Counted, WorkerExit, registryVars, countVars,
       shardVars
<1>17. ASSUME Close PROVE CountsExact'
  <2>1. Outstanding' = Outstanding /\ Reserved' = Reserved /\ Counted' = Counted
    <3>1. UNCHANGED <<queue, cur, external>>
      BY <1>17, CloseFacts
    <3>2. \A x \in Msgs : (pc'[x] = "send") <=> (pc[x] = "send")
      BY <1>17, CloseFacts
    <3> QED
      BY <3>1, <3>2, SetsFrame
  <2> QED
    BY <2>1, <1>17, CloseFacts DEF IInv, CountsExact, Counted
<1>18. CASE UNCHANGED vars
  <2>1. Outstanding' = Outstanding /\ Reserved' = Reserved /\ Counted' = Counted
    <3>1. UNCHANGED <<queue, cur, external>>
      BY <1>18 DEF vars, registryVars, countVars, shardVars
    <3>2. \A x \in Msgs : (pc'[x] = "send") <=> (pc[x] = "send")
      BY <1>18 DEF vars
    <3> QED
      BY <3>1, <3>2, SetsFrame
  <2> QED
    BY <2>1, <1>18 DEF IInv, CountsExact, Counted, vars, registryVars, countVars, shardVars
<1> QED
  BY <1>1, <1>2, <1>3, <1>4, <1>5, <1>6, <1>7, <1>8, <1>9, <1>10, <1>11, <1>12,
     <1>13, <1>14, <1>15, <1>16, <1>17, <1>18 DEF Next, PublisherStep, WorkerStep,
     Finished

\* The initial state satisfies the invariant.
LEMMA IInvInit == Init => IInv
<1> SUFFICES ASSUME Init PROVE IInv
  OBVIOUS
<1>1. TypeOK
  <2>1. stage \in {Stages[i] : i \in 1 .. Len(Stages)}
    BY Stages[1] = "open", 1 \in 1 .. Len(Stages) DEF Init, Stages
  <2>2. tokens \in 0 .. MaxInFlight /\ delivery \in Nat
    BY BusAssumption DEF Init
  <2>3. queue \in [Shards -> Seq(Msgs)] /\ cur \in [Shards -> Msgs \cup {None}]
    BY DEF Init
  <2>4. pc \in [Msgs -> {"idle", "calling", "wait"} \cup Reading \cup Answers]
    BY DEF Init
  <2>5. /\ fate \in [Msgs -> {"new", "refused", "accepted", "handled", "failed"}]
        /\ subscribers \subseteq Topics /\ started \in BOOLEAN
        /\ stopped \subseteq Shards /\ external \subseteq Msgs
    BY DEF Init
  <2> QED
    BY <2>1, <2>2, <2>3, <2>4, <2>5 DEF TypeOK
<1>2. \A s \in Shards : \A m : ~In(queue[s], m)
  BY DEF Init, In
<1>3. \A s \in Shards, m \in Msgs : ~HeldBy(s, m)
  BY <1>2, BusAssumption DEF Init, HeldBy
<1>4. Placed
  BY <1>2, <1>3 DEF Init, Placed, Distinct
<1>5. Fates
  BY <1>2 DEF Init, Fates
<1>6. Calls /\ Scopes
  BY DEF Init, Calls, Scopes
<1>7. Outstanding = {} /\ Reserved = {}
  BY <1>3, OutstandingIsHeld DEF Init, Reserved
<1>8. Closed
  BY <1>7 DEF Init, Closed, Done
<1>9. CountsExact
  <2>1. external \cap (Outstanding \cup Reserved) = {}
    BY <1>7
  <2> QED
    BY <1>7, <2>1, FS_EmptySet, BusAssumption DEF Init, CountsExact
<1> QED
  BY <1>1, <1>4, <1>5, <1>6, <1>8, <1>9 DEF IInv

\* The inductive invariant holds in every state.
THEOREM Invariance == Spec => []IInv
<1>1. IInv /\ [Next]_vars => IInv'
  BY TypeStep, PlacedStep, FatesStep, CallsStep, ScopesStep, ClosedStep, CountsStep DEF IInv
<1> QED
  BY <1>1, IInvInit, PTL DEF Spec

\* The variables keep their types: the token channel never holds more tokens than it
\* has room for, and the wait group never goes below zero.
THEOREM TypeCorrect == Spec => []TypeOK
<1>1. IInv => TypeOK
  BY DEF IInv
<1> QED
  BY <1>1, Invariance, PTL

\* Tokens and the wait group count what they stand for, whichever way each publisher
\* leaves publish and however many handlers publish in turn.
THEOREM CountsAreExact == Spec => []CountsExact
<1>1. IInv => CountsExact
  BY DEF IInv
<1> QED
  BY <1>1, Invariance, PTL

\* When Close closes the shard channels they are empty and no call of publish is left
\* that could send on one.
THEOREM NobodySendsOnClosed == Spec => []NoSendOnClosed
<1>1. IInv => NoSendOnClosed
  <2> SUFFICES ASSUME IInv, Done
               PROVE  Outstanding = {} /\ \A m \in Msgs : pc[m] \notin {"internal", "send"}
    BY DEF NoSendOnClosed
  <2>1. Outstanding = {} /\ \A m \in Msgs : pc[m] # "send"
    BY DEF IInv, Closed
  <2> QED
    BY <2>1, InternalIsHeld
<1> QED
  BY <1>1, Invariance, PTL

\* A synchronous publisher is told what its handler returned, or, of a message that was
\* handled, that the bus has closed.
THEOREM AnswersAreTrue == Spec => []SyncAnswers
<1>1. IInv => SyncAnswers
  <2> SUFFICES ASSUME IInv, NEW m \in Synchronous
               PROVE  /\ pc[m] \in {"handled", "failed"} => fate[m] = pc[m]
                      /\ pc[m] = "closed" => fate[m] \in {"handled", "failed"}
    BY DEF SyncAnswers
  <2> QED
    BY BusAssumption DEF IInv, TypeOK, Calls
<1> QED
  BY <1>1, Invariance, PTL

-----------------------------------------------------------------------------
\* The refinement.  First what Of computes, by induction over the queue.

\* A set of numbers has a least one, which is what induction rests on here.
LEMMA Least ==
  ASSUME NEW S \in SUBSET Nat, S # {}
  PROVE  \E n \in S : \A m \in S : n <= m
<1>1. PICK n \in S : \A m \in S : ~(<<m, n>> \in OpToRel(<, Nat))
  BY WFMin, NatLessThanWellFounded
<1>2. \A m \in S : ~(m < n)
  BY <1>1 DEF OpToRel
<1> QED
  BY <1>2

\* Induction for a set of numbers.
LEMMA Induction ==
  ASSUME NEW S \in SUBSET Nat, 0 \in S, \A n \in S : n + 1 \in S
  PROVE  S = Nat
<1>1. SUFFICES ASSUME S # Nat PROVE FALSE
  OBVIOUS
<1>2. PICK n \in Nat \ S : \A m \in Nat \ S : n <= m
  BY <1>1, Least
<1>3. n - 1 \in S
  BY <1>2
<1> QED
  BY <1>2, <1>3

\* f has what the first N messages of q and fewer hold of k.
Ups(k, q, N, f) ==
  f = [n \in 0 .. N |->
        IF n = 0 THEN <<>> ELSE With(k, f[n - 1], q[n])]

\* What that says of each number of messages.
Climbs(k, q, N, f) ==
  /\ f[0] = <<>>
  /\ \A n \in 1 .. N : f[n] = With(k, f[n - 1], q[n])

LEMMA UpsAt ==
  ASSUME NEW k, NEW q, NEW N \in Nat, NEW f, Ups(k, q, N, f)
  PROVE  Climbs(k, q, N, f)
<1> DEFINE E(n) == IF n = 0 THEN <<>> ELSE With(k, f[n - 1], q[n])
<1>1. f = [n \in 0 .. N |-> E(n)]
  BY DEF Ups
<1> HIDE DEF E
<1>2. \A n \in 0 .. N : f[n] = E(n)
  BY <1>1
<1>3. 0 \in 0 .. N /\ \A n \in 1 .. N : n \in 0 .. N /\ n # 0
  OBVIOUS
<1> QED
  BY <1>2, <1>3 DEF E, Climbs

\* What queues hold after the messages that they have in common is the same.
LEMMA UpsAgree ==
  ASSUME NEW k, NEW q, NEW r, NEW N \in Nat, NEW M \in Nat, NEW f, NEW g,
         Ups(k, q, N, f), Ups(k, r, M, g), N <= M, \A n \in 1 .. N : q[n] = r[n]
  PROVE  \A n \in 0 .. N : f[n] = g[n]
<1>1. Climbs(k, q, N, f) /\ Climbs(k, r, M, g)
  BY UpsAt
<1>2. f[0] = <<>> /\ g[0] = <<>>
  BY <1>1 DEF Climbs
<1> DEFINE S == {n \in Nat : n <= N => f[n] = g[n]}
<1>3. 0 \in S
  BY <1>2
<1>4. ASSUME NEW n \in S PROVE n + 1 \in S
  <2> SUFFICES ASSUME n + 1 <= N PROVE f[n + 1] = g[n + 1]
    OBVIOUS
  <2>1. f[n] = g[n] /\ n + 1 \in 1 .. N /\ n + 1 \in 1 .. M /\ (n + 1) - 1 = n
    BY <1>4
  <2>2. q[n + 1] = r[n + 1]
    BY <2>1
  <2>3. f[n + 1] = With(k, f[n], q[n + 1])
    BY <2>1, <1>1 DEF Climbs
  <2>4. g[n + 1] = With(k, g[n], r[n + 1])
    BY <2>1, <1>1 DEF Climbs
  <2> QED
    BY <2>1, <2>2, <2>3, <2>4
<1>5. S = Nat
  BY <1>3, <1>4, Induction
<1> QED
  BY <1>5

\* There is such an f for any number of messages.
LEMMA UpsExist ==
  ASSUME NEW k, NEW q
  PROVE  \A N \in Nat : \E f : Ups(k, q, N, f)
<1> DEFINE S == {N \in Nat : \E f : Ups(k, q, N, f)}
<1>1. 0 \in S
  <2>1. Ups(k, q, 0, [n \in 0 .. 0 |-> <<>>])
    BY DEF Ups
  <2> QED
    BY <2>1
<1>2. ASSUME NEW N \in S PROVE N + 1 \in S
  <2>1. PICK f : Ups(k, q, N, f)
    BY <1>2
  <2>0. Climbs(k, q, N, f)
    BY <2>1, UpsAt
  <2> DEFINE last == With(k, f[N], q[N + 1])
             g == [n \in 0 .. N + 1 |-> IF n = N + 1 THEN last ELSE f[n]]
  <2>2. \A n \in 0 .. N : g[n] = f[n]
    OBVIOUS
  <2>3. ASSUME NEW n \in 0 .. N + 1
        PROVE  g[n] = IF n = 0 THEN <<>> ELSE With(k, g[n - 1], q[n])
    <3>1. CASE n = 0
      <4>1. f[0] = <<>> /\ g[0] = f[0]
        BY <2>0, <2>2 DEF Climbs
      <4> HIDE DEF g
      <4> QED
        BY <4>1, <3>1
    <3>2. CASE n \in 1 .. N
      <4>1. f[n] = With(k, f[n - 1], q[n])
        BY <3>2, <2>0 DEF Climbs
      <4>2. g[n] = f[n] /\ g[n - 1] = f[n - 1] /\ n # 0
        BY <3>2, <2>2
      <4> HIDE DEF g
      <4> QED
        BY <4>1, <4>2
    <3>3. CASE n = N + 1
      <4>1. g[n] = last /\ g[n - 1] = f[N] /\ n # 0
        BY <3>3, <2>2
      <4> HIDE DEF g
      <4> QED
        BY <4>1, <3>3
    <3> QED
      BY <3>1, <3>2, <3>3
  <2>4. g = [n \in 0 .. N + 1 |->
              IF n = 0 THEN <<>> ELSE With(k, g[n - 1], q[n])]
    BY <2>3
  <2> HIDE DEF g
  <2>5. Ups(k, q, N + 1, g)
    BY <2>4 DEF Ups
  <2> QED
    BY <2>5
<1>3. S = Nat
  BY <1>1, <1>2, Induction
<1> QED
  BY <1>3

\* Of is the last of them.
LEMMA OfIs ==
  ASSUME NEW k, NEW q, NEW f, Len(q) \in Nat, Ups(k, q, Len(q), f)
  PROVE  Of(k, q) = f[Len(q)]
<1> DEFINE upTo[n \in 0 .. Len(q)] ==
             IF n = 0 THEN <<>> ELSE With(k, upTo[n - 1], q[n])
<1>1. Of(k, q) = upTo[Len(q)]
  BY DEF Of
<1>2. upTo = CHOOSE g : Ups(k, q, Len(q), g)
  BY DEF Ups
<1> HIDE DEF upTo
<1>3. Ups(k, q, Len(q), upTo)
  BY <1>2
<1>4. \A n \in 0 .. Len(q) : upTo[n] = f[n]
  BY <1>3, UpsAgree
<1> QED
  BY <1>1, <1>4

\* Of, of an empty queue and of one that grows at its end.
LEMMA OfAppend ==
  ASSUME NEW k
  PROVE  /\ Of(k, <<>>) = <<>>
         /\ \A q \in Seq(Msgs), m \in Msgs :
              Of(k, Append(q, m)) = With(k, Of(k, q), m)
<1>1. Of(k, <<>>) = <<>>
  <2>1. PICK f : Ups(k, <<>>, 0, f)
    BY UpsExist
  <2>2. Len(<<>>) = 0 /\ f[0] = <<>>
    BY <2>1, UpsAt DEF Climbs
  <2> QED
    BY <2>1, <2>2, OfIs
<1>2. ASSUME NEW q \in Seq(Msgs), NEW m \in Msgs
      PROVE  Of(k, Append(q, m)) = With(k, Of(k, q), m)
  <2> DEFINE N == Len(q)
             M == N + 1
             r == Append(q, m)
  <2>1. /\ N \in Nat /\ N \in 0 .. N /\ N = Len(q)
        /\ M \in Nat /\ N <= M /\ M \in 1 .. M /\ M - 1 = N
        /\ M = Len(r) /\ r[M] = m
        /\ \A n \in 1 .. N : q[n] = r[n]
    BY AppendProperties
  <2> HIDE DEF N, M, r
  <2>2. PICK f : Ups(k, q, N, f)
    BY <2>1, UpsExist
  <2>3. PICK g : Ups(k, r, M, g)
    BY <2>1, UpsExist
  <2>4. \A n \in 0 .. N : f[n] = g[n]
    <3>1. N \in Nat /\ M \in Nat /\ N <= M /\ \A n \in 1 .. N : q[n] = r[n]
      BY <2>1
    <3> QED
      BY <2>2, <2>3, <3>1, UpsAgree, SMT
  <2>5. g[M] = With(k, g[M - 1], r[M])
    <3>1. Climbs(k, r, M, g)
      BY <2>1, <2>3, UpsAt
    <3> QED
      BY <2>1, <3>1 DEF Climbs
  <2>6. Of(k, q) = f[N] /\ Of(k, r) = g[M]
    BY <2>1, <2>2, <2>3, OfIs
  <2>7. Of(k, r) = With(k, Of(k, q), m)
    BY <2>1, <2>4, <2>5, <2>6
  <2> QED
    BY <2>7 DEF r
<1> QED
  BY <1>1, <1>2

\* Induction over the queues.
LEMMA QueueInduction ==
  ASSUME NEW S \in SUBSET Seq(Msgs), <<>> \in S, \A q \in S, m \in Msgs : Append(q, m) \in S
  PROVE  S = Seq(Msgs)
<1> DEFINE T == {n \in Nat : \A q \in Seq(Msgs) : Len(q) = n => q \in S}
<1>1. 0 \in T
  <2>1. \A q \in Seq(Msgs) : Len(q) = 0 => q = <<>>
    BY EmptySeq
  <2> QED
    BY <2>1
<1>2. ASSUME NEW n \in T PROVE n + 1 \in T
  <2> SUFFICES ASSUME NEW q \in Seq(Msgs), Len(q) = n + 1 PROVE q \in S
    OBVIOUS
  <2>1. q # <<>>
    BY EmptySeq
  <2>2. PICK p \in Seq(Msgs), m \in Msgs : q = Append(p, m)
    BY <2>1, SequenceEmptyOrAppend
  <2>3. Len(q) = Len(p) + 1 /\ Len(p) \in Nat
    BY <2>2, AppendProperties
  <2>4. p \in S
    BY <2>3
  <2> QED
    BY <2>2, <2>4
<1>3. T = Nat
  BY <1>1, <1>2, Induction
<1>4. \A q \in Seq(Msgs) : Len(q) \in Nat
  OBVIOUS
<1> QED
  BY <1>3, <1>4

\* A message before those that a queue holds behind it.
LEMMA Before ==
  ASSUME NEW q \in Seq(Msgs), NEW x \in Msgs
  PROVE  /\ <<x>> \o q # <<>> /\ Head(<<x>> \o q) = x /\ Tail(<<x>> \o q) = q
         /\ <<x>> \o <<>> = Append(<<>>, x)
         /\ \A y \in Msgs : Append(<<x>> \o q, y) = <<x>> \o Append(q, y)
<1>1. <<x>> \in Seq(Msgs) /\ Len(<<x>>) = 1 /\ <<x>>[1] = x
  OBVIOUS
<1> DEFINE s == <<x>> \o q
<1>2. /\ s \in Seq(Msgs) /\ Len(s) = 1 + Len(q) /\ Len(q) \in Nat
      /\ \A i \in 1 .. 1 + Len(q) : s[i] = IF i <= 1 THEN <<x>>[i] ELSE q[i - 1]
  BY <1>1, ConcatProperties
<1>3. /\ 1 \in 1 .. 1 + Len(q)
      /\ \A i \in 1 .. Len(q) : i + 1 \in 1 .. 1 + Len(q) /\ ~(i + 1 <= 1) /\ (i + 1) - 1 = i
  BY <1>2
<1> HIDE DEF s
<1>4. s[1] = x /\ \A i \in 1 .. Len(q) : s[i + 1] = q[i]
  BY <1>1, <1>2, <1>3
<1>5. s # <<>>
  BY <1>2
<1>6. /\ Tail(s) \in Seq(Msgs) /\ Len(Tail(s)) = Len(q)
      /\ \A i \in 1 .. Len(Tail(s)) : Tail(s)[i] = s[i + 1]
  BY <1>2, <1>5, HeadTailProperties
<1>7. Tail(s) = q
  BY <1>4, <1>6, SeqEqual
<1>8. Head(s) = x
  BY <1>2, <1>4, <1>5
<1>9. ASSUME NEW y \in Msgs PROVE Append(<<x>> \o q, y) = <<x>> \o Append(q, y)
  <2>1. <<y>> \in Seq(Msgs) /\ <<x>> \o q \in Seq(Msgs)
    BY <1>2 DEF s
  <2>2. Append(<<x>> \o q, y) = (<<x>> \o q) \o <<y>> /\ Append(q, y) = q \o <<y>>
    BY <2>1, AppendIsConcat
  <2> QED
    BY <1>1, <2>1, <2>2, ConcatAssociative
<1>10. <<x>> \o <<>> = Append(<<>>, x)
  <2>1. <<x>> \o <<>> = <<x>>
    BY <1>1, ConcatEmptySeq
  <2> QED
    BY <2>1
<1> QED
  BY <1>5, <1>7, <1>8, <1>9, <1>10 DEF s

\* What a queue holds of a conversation are messages of the queue, and no more of them.
LEMMA OfType ==
  ASSUME NEW k, NEW q \in Seq(Msgs)
  PROVE  Of(k, q) \in Seq(Msgs) /\ Len(Of(k, q)) <= Len(q)
<1> DEFINE S == {p \in Seq(Msgs) : Of(k, p) \in Seq(Msgs) /\ Len(Of(k, p)) <= Len(p)}
<1>1. <<>> \in S
  <2>1. PICK e \in Seq(Msgs) : e = <<>> /\ Len(e) = 0
    BY EmptySeq
  <2>2. Of(k, e) = e
    BY <2>1, OfAppend
  <2>3. Of(k, e) \in Seq(Msgs)
    BY <2>2
  <2>4. Len(Of(k, e)) <= Len(e)
    <3>1. Len(Of(k, e)) = 0 /\ Len(e) = 0
      BY <2>1, <2>2, Zenon
    <3> QED
      BY <3>1, 0 <= 0
  <2>5. e \in S
    BY <2>3, <2>4
  <2> QED
    BY <2>1, <2>5
<1>2. ASSUME NEW p \in S, NEW m \in Msgs PROVE Append(p, m) \in S
  <2>1. Append(p, m) \in Seq(Msgs) /\ Len(Append(p, m)) = Len(p) + 1 /\ Len(p) \in Nat
    BY AppendProperties
  <2>2. /\ Append(Of(k, p), m) \in Seq(Msgs)
        /\ Len(Append(Of(k, p), m)) = Len(Of(k, p)) + 1 /\ Len(Of(k, p)) \in Nat
    BY AppendProperties
  <2>3. Of(k, Append(p, m)) = With(k, Of(k, p), m)
    BY OfAppend
  <2>4. Of(k, Append(p, m)) \in {Of(k, p), Append(Of(k, p), m)}
    BY <2>3 DEF With
  <2>5. Of(k, p) \in Seq(Msgs) /\ Len(Of(k, p)) <= Len(p)
    OBVIOUS
  <2>6. Of(k, Append(p, m)) \in Seq(Msgs) /\ Len(Of(k, Append(p, m))) <= Len(Append(p, m))
    BY <2>1, <2>2, <2>4, <2>5
  <2> QED
    BY <2>1, <2>6
<1>3. S = Seq(Msgs)
  BY <1>1, <1>2, QueueInduction
<1> QED
  BY <1>3

\* The first message of a queue in front of what the rest holds of a conversation.
Ahead(k, m, held) == IF ConvOf[m] = k THEN <<m>> \o held ELSE held

\* A message goes to the end of what there is, whatever is at its front.
LEMMA FrontAndEnd ==
  ASSUME NEW k, NEW held \in Seq(Msgs), NEW m \in Msgs, NEW x \in Msgs
  PROVE  With(k, Ahead(k, m, held), x) = Ahead(k, m, With(k, held, x))
<1>1. Append(<<m>> \o held, x) = <<m>> \o Append(held, x)
  BY Before
<1> QED
  BY <1>1 DEF With, Ahead

\* Of, of a queue that loses its first message.
LEMMA OfHead ==
  ASSUME NEW k, NEW q \in Seq(Msgs), q # <<>>
  PROVE  Of(k, q) = Ahead(k, Head(q), Of(k, Tail(q)))
<1> DEFINE S == {p \in Seq(Msgs) : p # <<>> => Of(k, p) = Ahead(k, Head(p), Of(k, Tail(p)))}
<1>1. <<>> \in S
  OBVIOUS
<1>2. ASSUME NEW p \in S, NEW m \in Msgs PROVE Append(p, m) \in S
  <2>1. /\ Append(p, m) \in Seq(Msgs)
        /\ Of(k, Append(p, m)) = With(k, Of(k, p), m)
    BY OfAppend, AppendProperties
  <2>2. CASE p = <<>>
    <3>1. Head(Append(p, m)) = m /\ Tail(Append(p, m)) = <<>>
      BY <2>2, HeadTailAppend
    <3>2. Of(k, <<>>) = <<>>
      BY OfAppend
    <3>3. <<m>> \o <<>> = Append(<<>>, m)
      BY Before, EmptySeq
    <3>4. With(k, <<>>, m) = Ahead(k, m, <<>>)
      BY <3>3 DEF With, Ahead
    <3> QED
      BY <2>1, <2>2, <3>1, <3>2, <3>4
  <2>3. CASE p # <<>>
    <3>1. /\ Head(Append(p, m)) = Head(p) /\ Tail(Append(p, m)) = Append(Tail(p), m)
          /\ Head(p) \in Msgs /\ Tail(p) \in Seq(Msgs)
      BY <2>3, HeadTailAppend, HeadTailProperties
    <3>2. Of(k, p) = Ahead(k, Head(p), Of(k, Tail(p))) /\ Of(k, Tail(p)) \in Seq(Msgs)
      BY <2>3, <3>1, OfType
    <3>3. Of(k, Append(Tail(p), m)) = With(k, Of(k, Tail(p)), m)
      BY <3>1, OfAppend
    <3>4. With(k, Ahead(k, Head(p), Of(k, Tail(p))), m)
            = Ahead(k, Head(p), With(k, Of(k, Tail(p)), m))
      BY <3>1, <3>2, FrontAndEnd
    <3> QED
      BY <2>1, <3>1, <3>2, <3>3, <3>4
  <2> QED
    BY <2>2, <2>3
<1>3. S = Seq(Msgs)
  BY <1>1, <1>2, QueueInduction
<1> QED
  BY <1>3

\* What the executor sees of a conversation and of the bus.
Waiting(k) == Of(k, queue[ShardOf[k]])
Handled(k) ==
  LET m == cur[ShardOf[k]] IN IF m # None /\ ConvOf[m] = k /\ Active(m) THEN m ELSE None
Pending == [k \in Convs |-> Waiting(k)]
Actives == [k \in Convs |-> Handled(k)]
Outcome ==
  [m \in Msgs |-> CASE fate[m] = "refused" -> "rejected"
                    [] fate[m] = "failed" -> "handled"
                    [] OTHER -> fate[m]]
Stage ==
  CASE stage \in {"gate", "drain"} -> "stopping"
    [] stage = "seal" -> "closed"
    [] Done -> "done"
    [] OTHER -> stage

MapsTo == [Executor!Next]_(Executor!vars)

\* The view of a conversation depends on its shard alone.
LEMMA HandledIs ==
  ASSUME NEW k \in Convs
  PROVE  /\ ShardOf[k] \in Shards
         /\ Handled(k) = IF /\ cur[ShardOf[k]] # None /\ ConvOf[cur[ShardOf[k]]] = k
                            /\ fate[cur[ShardOf[k]]] = "accepted"
                         THEN cur[ShardOf[k]] ELSE None
         /\ Handled(k)' = IF /\ cur'[ShardOf[k]] # None /\ ConvOf[cur'[ShardOf[k]]] = k
                             /\ fate'[cur'[ShardOf[k]]] = "accepted"
                          THEN cur'[ShardOf[k]] ELSE None
<1>1. ShardOf[k] \in Shards
  BY BusAssumption
<1> QED
  BY <1>1 DEF Handled, Active

\* It is what it was if the shard has what it had.
LEMMA SameView ==
  ASSUME NEW k \in Convs, queue'[ShardOf[k]] = queue[ShardOf[k]],
         cur'[ShardOf[k]] = cur[ShardOf[k]],
         cur[ShardOf[k]] # None => fate'[cur[ShardOf[k]]] = fate[cur[ShardOf[k]]]
  PROVE  Waiting(k)' = Waiting(k) /\ Handled(k)' = Handled(k)
<1>1. Waiting(k)' = Waiting(k)
  BY DEF Waiting
<1>2. Handled(k)' = Handled(k)
  BY HandledIs
<1> QED
  BY <1>1, <1>2

\* The view of the conversations after a step that moved that of k at most.
LEMMA ViewAfter ==
  ASSUME NEW k \in Convs, NEW p, NEW a, Waiting(k)' = p, Handled(k)' = a,
         \A x \in Convs : x # k => Waiting(x)' = Waiting(x) /\ Handled(x)' = Handled(x)
  PROVE  Pending' = [Pending EXCEPT ![k] = p] /\ Actives' = [Actives EXCEPT ![k] = a]
<1>1. Pending' = [x \in Convs |-> Waiting(x)'] /\ Actives' = [x \in Convs |-> Handled(x)']
  BY DEF Pending, Actives
<1> QED
  BY <1>1 DEF Pending, Actives

\* The view of them after one that moved none.
LEMMA SameViews ==
  ASSUME \A k \in Convs : Waiting(k)' = Waiting(k) /\ Handled(k)' = Handled(k)
  PROVE  Pending' = Pending /\ Actives' = Actives
BY DEF Pending, Actives

\* The outcome of a message that is decided, and of the others.
LEMMA OutcomeFacts ==
  ASSUME TypeOK, NEW m \in Msgs, NEW e \in {"refused", "accepted", "handled", "failed"},
         fate' = [fate EXCEPT ![m] = e]
  PROVE  Outcome' = [Outcome EXCEPT ![m] = CASE e = "refused" -> "rejected"
                                             [] e = "failed" -> "handled"
                                             [] OTHER -> e]
<1>1. \A x \in Msgs : fate'[x] = IF x = m THEN e ELSE fate[x]
  BY DEF TypeOK
<1> QED
  BY <1>1 DEF Outcome

\* The stages, in words.
LEMMA StageFacts ==
  ASSUME TypeOK
  PROVE  /\ stage \in {"open", "gate", "drain", "seal", "join", "closed"}
         /\ stage = "open" => Stage = "open"
         /\ stage \in {"gate", "drain"} => Stage = "stopping"
         /\ stage = "seal" => Stage = "closed"
         /\ Done => Stage = "done"
<1>1. stage \in {"open", "gate", "drain", "seal", "join", "closed"}
  BY DEF TypeOK, Stages
<1> QED
  BY <1>1 DEF Stage, Done

\* A step nobody can see.
LEMMA Unseen ==
  ASSUME \A k \in Convs : Waiting(k)' = Waiting(k) /\ Handled(k)' = Handled(k),
         Outcome' = Outcome, Stage' = Stage
  PROVE  MapsTo
<1>1. Pending' = Pending /\ Actives' = Actives
  BY SameViews
<1> QED
  BY <1>1 DEF MapsTo, Pending, Waiting, Actives, Handled, Outcome, Stage, Executor!vars

\* Nor one that leaves the shards, the fates and Close alone.
LEMMA Quiet ==
  ASSUME UNCHANGED <<queue, cur, fate, stage>>
  PROVE  MapsTo
<1>1. \A k \in Convs : Waiting(k)' = Waiting(k) /\ Handled(k)' = Handled(k)
  BY SameView
<1>2. Outcome' = Outcome /\ Stage' = Stage
  BY DEF Outcome, Stage, Done
<1> QED
  BY <1>1, <1>2, Unseen

\* A call whose message is not in the bus yet can always be refused.
LEMMA RejectMaps ==
  ASSUME IInv, NEW m \in Msgs, fate[m] = "new", fate' = [fate EXCEPT ![m] = "refused"],
         UNCHANGED <<queue, cur, stage>>
  PROVE  MapsTo
<1>1. TypeOK /\ \A s \in Shards : cur[s] # m
  BY NewIsNotHeld DEF IInv
<1>2. \A x \in Msgs : x # m => fate'[x] = fate[x]
  BY <1>1 DEF TypeOK
<1>3. ASSUME NEW k \in Convs PROVE Waiting(k)' = Waiting(k) /\ Handled(k)' = Handled(k)
  <2>1. ShardOf[k] \in Shards
    BY BusAssumption
  <2>2. cur[ShardOf[k]] # None => cur[ShardOf[k]] \in Msgs /\ cur[ShardOf[k]] # m
    BY <1>1, <2>1 DEF TypeOK
  <2> QED
    BY <1>2, <2>2, SameView
<1>4. Pending' = Pending /\ Actives' = Actives
  BY <1>3, SameViews
<1>5. Outcome' = [Outcome EXCEPT ![m] = "rejected"]
  BY <1>1, OutcomeFacts
<1>6. Outcome[m] = "new" /\ Stage' = Stage
  BY DEF Outcome, Stage, Done
<1>7. Executor!Reject(m)
  BY <1>4, <1>5, <1>6
     DEF Executor!Reject, Pending, Waiting, Actives, Handled, Outcome, Stage
<1> QED
  BY <1>7 DEF MapsTo, Executor!Next

\* A message that is sent is the last of its conversation, and there was room for it.
LEMMA AcceptMaps ==
  ASSUME IInv, NEW m \in Msgs, pc[m] \in {"send", "internal"}, Room(m), Enqueue(m),
         UNCHANGED <<cur, stage>>
  PROVE  MapsTo
<1> DEFINE k == ConvOf[m]
           s == Shard(m)
           q == queue[s]
<1>1. /\ k \in Convs /\ s \in Shards /\ s = ShardOf[k] /\ q \in Seq(Msgs) /\ Len(q) \in Nat
      /\ Len(q) < MaxInFlight /\ MaxInFlight \in Nat
  BY SendTypes, BusAssumption DEF Shard, Room
<1>2. TypeOK /\ fate[m] = "new" /\ \A x \in Shards : cur[x] # m
  BY NewIsNotHeld DEF IInv, Calls, Reading
<1>3. /\ queue'[s] = Append(q, m) /\ \A x \in Shards : x # s => queue'[x] = queue[x]
      /\ fate' = [fate EXCEPT ![m] = "accepted"]
  BY <1>1, <1>2 DEF Enqueue, TypeOK
<1>4. \A x \in Msgs : x # m => fate'[x] = fate[x]
  BY <1>2, <1>3 DEF TypeOK
<1>5. /\ Of(k, q) \in Seq(Msgs) /\ Len(Of(k, q)) <= Len(q)
      /\ Of(k, Append(q, m)) = Append(Of(k, q), m)
      /\ \A x \in Convs : x # k => Of(x, Append(q, m)) = Of(x, q)
  <2>1. Of(k, q) \in Seq(Msgs) /\ Len(Of(k, q)) <= Len(q)
    BY <1>1, OfType
  <2>2. \A x \in Convs : Of(x, Append(q, m)) = With(x, Of(x, q), m)
    BY <1>1, OfAppend
  <2> QED
    BY <1>1, <2>1, <2>2 DEF With
<1>6. \A x \in Convs : Handled(x)' = Handled(x)
  <2> SUFFICES ASSUME NEW x \in Convs PROVE Handled(x)' = Handled(x)
    OBVIOUS
  <2>1. ShardOf[x] \in Shards
    BY BusAssumption
  <2>2. cur[ShardOf[x]] # None => cur[ShardOf[x]] \in Msgs /\ cur[ShardOf[x]] # m
    BY <1>2, <2>1 DEF TypeOK
  <2> QED
    BY <1>4, <2>2, HandledIs
<1> HIDE DEF k, s, q
<1>7. /\ Waiting(k) = Of(k, q) /\ Waiting(k)' = Append(Of(k, q), m)
      /\ \A x \in Convs : x # k => Waiting(x)' = Waiting(x)
  <2>1. Waiting(k) = Of(k, q)
    BY <1>1 DEF Waiting, q
  <2>2. Waiting(k)' = Of(k, queue'[ShardOf[k]])
    BY DEF Waiting, k
  <2>3. ASSUME NEW x \in Convs, x # k PROVE Waiting(x)' = Waiting(x)
    <3>1. Waiting(x)' = Of(x, queue'[ShardOf[x]]) /\ Waiting(x) = Of(x, queue[ShardOf[x]])
      BY DEF Waiting
    <3>2. ShardOf[x] \in Shards
      BY BusAssumption
    <3> QED
      BY <1>3, <1>5, <2>3, <3>1, <3>2 DEF q
  <2> QED
    BY <1>1, <1>3, <1>5, <2>1, <2>2, <2>3
<1>8. Pending' = [Pending EXCEPT ![k] = Append(Of(k, q), m)]
  BY <1>1, <1>6, <1>7, ViewAfter
<1>9. Actives' = Actives
  BY <1>6 DEF Actives
<1>10. Outcome' = [Outcome EXCEPT ![m] = "accepted"] /\ Outcome[m] = "new"
  <2>1. Outcome[m] = "new"
    BY <1>2 DEF Outcome
  <2> QED
    BY <1>2, <1>3, <2>1, OutcomeFacts
<1>11. Stage \in {"open", "stopping"} /\ Stage' = Stage
  <2>1. pc[m] = "internal" => Outstanding # {}
    BY InternalIsHeld
  <2>2. ~(stage = "seal" \/ Done)
    BY <2>1 DEF IInv, Closed
  <2> QED
    BY <1>2, <2>2, StageFacts DEF Stage, Done
<1>12. Pending[k] = Of(k, q)
  BY <1>1, <1>7 DEF Pending
<1>13. /\ Len(Pending[k]) < MaxInFlight
       /\ Pending' = [Pending EXCEPT ![k] = Append(Pending[k], m)]
  <2>1. Len(Of(k, q)) \in Nat
    BY <1>5
  <2> QED
    BY <1>1, <1>5, <1>8, <1>12, <2>1
<1>14. Executor!Accept(m)
  BY <1>9, <1>10, <1>11, <1>13
     DEF Executor!Accept, Pending, Waiting, Actives, Handled, Outcome, Stage, k
<1> QED
  BY <1>14 DEF MapsTo, Executor!Next

\* The executor counts as this module does.
LEMMA SameCount == ASSUME NEW S PROVE Executor!Cardinality(S) = Cardinality(S)
BY Zenon DEF Executor!Cardinality, Cardinality

\* While the worker of a shard has nothing, fewer conversations than shards are handled.
LEMMA HandledBound ==
  ASSUME IInv, NEW s \in Shards, cur[s] = None
  PROVE  Cardinality({k \in Convs : Handled(k) # None}) < Cardinality(Shards)
<1> DEFINE S == {k \in Convs : Handled(k) # None}
           T == Shards \ {s}
           f == [k \in S |-> ShardOf[k]]
<1>1. IsFiniteSet(T) /\ Cardinality(T) = Cardinality(Shards) - 1 /\ Cardinality(Shards) \in Nat
  BY BusAssumption, FS_RemoveElement, FS_CardinalityType
<1>2. \A k \in S : ShardOf[k] \in T /\ ConvOf[cur[ShardOf[k]]] = k
  BY HandledIs
<1>3. f \in Injection(S, T)
  <2>1. f \in [S -> T]
    BY <1>2
  <2>2. \A a, b \in S : f[a] = f[b] => a = b
    BY <1>2
  <2> QED
    BY <2>1, <2>2 DEF Injection, IsInjective
<1> HIDE DEF S, T, f
<1>4. IsFiniteSet(S) /\ Cardinality(S) <= Cardinality(T)
  BY <1>1, <1>3, FS_Injection
<1>5. Cardinality(S) \in Nat
  BY <1>4, FS_CardinalityType
<1> QED
  BY <1>1, <1>4, <1>5 DEF S

\* The message a worker takes is the first of its conversation.
LEMMA StartMaps == ASSUME IInv, NEW s \in Shards, Take(s) PROVE MapsTo
<1>1. PICK q \in Seq(Msgs), m \in Msgs, k \in Convs :
        /\ q = queue[s] /\ q # <<>> /\ m = Head(q) /\ k = ConvOf[m] /\ Tail(q) \in Seq(Msgs)
  <2>1. queue[s] \in Seq(Msgs) /\ queue[s] # <<>>
    BY DEF Take, IInv, TypeOK
  <2>2. Head(queue[s]) \in Msgs /\ Tail(queue[s]) \in Seq(Msgs)
    BY <2>1, HeadTailProperties
  <2> QED
    BY <2>1, <2>2, BusAssumption
<1>2. /\ cur[s] = None /\ cur'[s] = m /\ queue'[s] = Tail(q)
      /\ \A x \in Shards : x # s => cur'[x] = cur[x] /\ queue'[x] = queue[x]
      /\ fate' = fate /\ stage' = stage
  BY <1>1 DEF Take, IInv, TypeOK
<1>3. In(queue[s], m) /\ m # None /\ ShardOf[k] = s /\ fate[m] = "accepted"
  <2>1. In(queue[s], m)
    BY <1>1, TailFacts
  <2> QED
    BY <1>1, <2>1, BusAssumption DEF IInv, Placed, Fates, HeldBy, Shard
<1>4. /\ Of(k, q) = <<m>> \o Of(k, Tail(q)) /\ Of(k, Tail(q)) \in Seq(Msgs)
      /\ \A x \in Convs : x # k => Of(x, q) = Of(x, Tail(q))
  <2>1. \A x \in Convs : Of(x, q) = Ahead(x, m, Of(x, Tail(q)))
    BY <1>1, OfHead
  <2>2. Of(k, Tail(q)) \in Seq(Msgs)
    BY <1>1, OfType
  <2> QED
    BY <1>1, <2>1, <2>2 DEF Ahead
<1>5. Of(k, q) # <<>> /\ Head(Of(k, q)) = m /\ Tail(Of(k, q)) = Of(k, Tail(q))
  BY <1>4, Before
<1>6. Waiting(k) = Of(k, q) /\ Waiting(k)' = Of(k, Tail(q))
  BY <1>1, <1>2, <1>3 DEF Waiting
<1>7. Handled(k) = None /\ Handled(k)' = m
  BY <1>1, <1>2, <1>3, HandledIs
<1>8. ASSUME NEW x \in Convs, x # k PROVE Waiting(x)' = Waiting(x) /\ Handled(x)' = Handled(x)
  <2>1. ShardOf[x] \in Shards
    BY BusAssumption
  <2>2. CASE ShardOf[x] # s
    BY <1>2, <2>1, <2>2, SameView
  <2>3. CASE ShardOf[x] = s
    <3>1. Waiting(x)' = Of(x, Tail(q)) /\ Waiting(x) = Of(x, q)
      BY <1>1, <1>2, <2>3 DEF Waiting
    <3>2. Handled(x) = None /\ Handled(x)' = None
      BY <1>1, <1>2, <1>8, <2>3, HandledIs
    <3> QED
      BY <1>4, <1>8, <3>1, <3>2
  <2> QED
    BY <2>2, <2>3
<1>9. /\ Pending' = [Pending EXCEPT ![k] = Tail(Of(k, q))]
      /\ Actives' = [Actives EXCEPT ![k] = Head(Of(k, q))]
  <2>1. Waiting(k)' = Tail(Of(k, q)) /\ Handled(k)' = Head(Of(k, q))
    BY <1>5, <1>6, <1>7
  <2> QED
    BY <1>8, <2>1, ViewAfter
<1>10. Pending[k] = Of(k, q) /\ Actives[k] = None
  BY <1>6, <1>7 DEF Pending, Actives
<1>11. Cardinality({x \in Convs : Actives[x] # None}) < Cardinality(Shards)
  <2>1. {x \in Convs : Actives[x] # None} = {x \in Convs : Handled(x) # None}
    BY DEF Actives
  <2> QED
    BY <1>2, <2>1, HandledBound
<1>12. Outcome' = Outcome /\ Stage' = Stage
  BY <1>2 DEF Outcome, Stage, Done
<1>13. /\ Actives[k] = None /\ Pending[k] # <<>>
       /\ Cardinality({x \in Convs : Actives[x] # None}) < Cardinality(Shards)
       /\ Actives' = [Actives EXCEPT ![k] = Head(Pending[k])]
       /\ Pending' = [Pending EXCEPT ![k] = Tail(Pending[k])]
       /\ Outcome' = Outcome /\ Stage' = Stage
  BY <1>5, <1>9, <1>10, <1>11, <1>12
<1>14. Executor!Start(k)
  BY <1>13, SameCount
     DEF Executor!Start, Pending, Waiting, Actives, Handled, Outcome, Stage
<1> QED
  BY <1>14 DEF MapsTo, Executor!Next

\* A handler that returns or fails has handled the active message of its conversation.
LEMMA FinishMaps == ASSUME IInv, NEW s \in Shards, Return(s) PROVE MapsTo
<1>1. PICK m \in Msgs, k \in Convs, e \in {"handled", "failed"} :
        /\ m = cur[s] /\ m # None /\ k = ConvOf[m] /\ fate[m] = "accepted"
        /\ fate' = [fate EXCEPT ![m] = e]
  <2>1. cur[s] \in Msgs /\ cur[s] # None /\ fate[cur[s]] = "accepted"
    BY DEF Return, Active, IInv, TypeOK
  <2>2. ConvOf[cur[s]] \in Convs
    BY <2>1, BusAssumption
  <2> QED
    BY <2>1, <2>2 DEF Return
<1>2. /\ ShardOf[k] = s /\ \A x \in Shards : x # s => cur[x] # m
      /\ UNCHANGED <<queue, cur, stage>> /\ TypeOK
  BY <1>1 DEF IInv, Placed, HeldBy, Shard, Return, shardVars
<1>3. fate'[m] = e /\ \A x \in Msgs : x # m => fate'[x] = fate[x]
  BY <1>1, <1>2 DEF TypeOK
<1>4. Handled(k) = m /\ Handled(k)' = None
  BY <1>1, <1>2, <1>3, HandledIs
<1>5. ASSUME NEW x \in Convs, x # k PROVE Handled(x)' = Handled(x)
  <2>1. ShardOf[x] \in Shards
    BY BusAssumption
  <2>2. CASE ShardOf[x] # s
    <3>1. cur[ShardOf[x]] # None => cur[ShardOf[x]] \in Msgs /\ cur[ShardOf[x]] # m
      BY <1>2, <2>1, <2>2 DEF TypeOK
    <3> QED
      BY <1>2, <1>3, <3>1, HandledIs
  <2>3. CASE ShardOf[x] = s
    BY <1>1, <1>2, <1>5, <2>3, HandledIs
  <2> QED
    BY <2>2, <2>3
<1>6. \A x \in Convs : Waiting(x)' = Waiting(x)
  BY <1>2 DEF Waiting
<1>7. Pending' = Pending
  BY <1>6 DEF Pending
<1>8. Actives' = [Actives EXCEPT ![k] = None]
  BY <1>4, <1>5, <1>6, ViewAfter
<1>9. Outcome' = [Outcome EXCEPT ![m] = "handled"] /\ Stage' = Stage
  <2>1. Outcome' = [Outcome EXCEPT ![m] = CASE e = "refused" -> "rejected"
                                            [] e = "failed" -> "handled"
                                            [] OTHER -> e]
    BY <1>1, <1>2, OutcomeFacts
  <2>2. Stage' = Stage
    BY <1>2 DEF Stage, Done
  <2> QED
    BY <1>1, <2>1, <2>2
<1>10. Actives[k] = m
  BY <1>4 DEF Actives
<1>11. /\ Actives[k] # None /\ Outcome' = [Outcome EXCEPT ![Actives[k]] = "handled"]
       /\ Actives' = [Actives EXCEPT ![k] = None] /\ Pending' = Pending /\ Stage' = Stage
  BY <1>1, <1>7, <1>8, <1>9, <1>10
<1>12. Executor!Finish(k)
  BY <1>11 DEF Executor!Finish, Pending, Waiting, Actives, Handled, Outcome, Stage
<1> QED
  BY <1>12 DEF MapsTo, Executor!Next

\* A worker that settles a message had finished it.
LEMMA SettleMaps == ASSUME IInv, NEW s \in Shards, Settle(s) PROVE MapsTo
<1>1. /\ cur[s] # None /\ cur[s] \in Msgs /\ fate[cur[s]] # "accepted"
      /\ cur'[s] = None /\ \A x \in Shards : x # s => cur'[x] = cur[x]
      /\ UNCHANGED <<queue, fate, stage>>
  BY DEF IInv, TypeOK, Settle, Active
<1>2. ASSUME NEW k \in Convs PROVE Waiting(k)' = Waiting(k) /\ Handled(k)' = Handled(k)
  <2>1. Waiting(k)' = Waiting(k)
    BY <1>1 DEF Waiting
  <2>2. Handled(k)' = Handled(k)
    BY <1>1, HandledIs
  <2> QED
    BY <2>1, <2>2
<1>3. Outcome' = Outcome /\ Stage' = Stage
  BY <1>1 DEF Outcome, Stage, Done
<1> QED
  BY <1>2, <1>3, Unseen

\* Close stops the executor, closes it, and returns when nothing is left in it.
LEMMA CloseMaps == ASSUME IInv, Close PROVE MapsTo
<1>1. /\ \/ stage = "open" /\ stage' = "gate"
         \/ stage = "gate" /\ stage' = "drain"
         \/ stage = "drain" /\ stage' = "seal"
         \/ stage = "seal" /\ stage' = "join"
         \/ stage = "join" /\ stage' = "closed"
      /\ UNCHANGED <<queue, cur, fate>>
  BY CloseFacts
<1>2. \A k \in Convs : Waiting(k)' = Waiting(k) /\ Handled(k)' = Handled(k)
  BY <1>1, SameView
<1>3. Pending' = Pending /\ Actives' = Actives /\ Outcome' = Outcome
  BY <1>1, <1>2, SameViews DEF Outcome
<1>4. CASE stage = "open"
  <2>1. Stage = "open" /\ Stage' = "stopping"
    BY <1>1, <1>4 DEF Stage, Done
  <2>2. Executor!Stop
    BY <1>3, <2>1 DEF Executor!Stop, Pending, Waiting, Actives, Handled, Outcome, Stage
  <2> QED
    BY <2>2 DEF MapsTo, Executor!Next
<1>5. CASE stage = "drain"
  <2>1. Stage = "stopping" /\ Stage' = "closed"
    BY <1>1, <1>5 DEF Stage, Done
  <2>2. Executor!Close
    BY <1>3, <2>1 DEF Executor!Close, Pending, Waiting, Actives, Handled, Outcome, Stage
  <2> QED
    BY <2>2 DEF MapsTo, Executor!Next
<1>6. CASE stage = "seal"
  <2>1. Stage = "closed" /\ Stage' = "done"
    BY <1>1, <1>6 DEF Stage, Done
  <2>2. \A s \in Shards : cur[s] = None /\ queue[s] = <<>>
    <3> SUFFICES ASSUME NEW s \in Shards PROVE cur[s] = None /\ queue[s] = <<>>
      OBVIOUS
    <3>1. Outstanding = {} /\ queue[s] \in Seq(Msgs)
      BY <1>6 DEF IInv, Closed, TypeOK
    <3>2. cur[s] = None
      BY <3>1, Holding
    <3>3. ASSUME queue[s] # <<>> PROVE FALSE
      <4>1. Head(queue[s]) \in Msgs /\ In(queue[s], Head(queue[s]))
        BY <3>1, <3>3, TailFacts
      <4> QED
        BY <3>1, <4>1, OutstandingIsHeld DEF HeldBy
    <3> QED
      BY <3>2, <3>3
  <2>3. ASSUME NEW k \in Convs PROVE Waiting(k) = <<>> /\ Handled(k) = None
    <3>1. cur[ShardOf[k]] = None /\ queue[ShardOf[k]] = <<>>
      BY <2>2, BusAssumption
    <3>2. Of(k, <<>>) = <<>>
      BY OfAppend
    <3> QED
      BY <3>1, <3>2, HandledIs DEF Waiting
  <2>4. \A k \in Convs : Pending[k] = <<>> /\ Actives[k] = None
    BY <2>3 DEF Pending, Actives
  <2>5. Executor!Settle
    BY <1>3, <2>1, <2>4
       DEF Executor!Settle, Pending, Waiting, Actives, Handled, Outcome, Stage
  <2> QED
    BY <2>5 DEF MapsTo, Executor!Next
<1>7. CASE stage \in {"gate", "join"}
  <2>1. Stage' = Stage
    BY <1>1, <1>7 DEF Stage, Done
  <2>2. Outcome' = Outcome
    BY <1>3
  <2> QED
    BY <1>2, <2>1, <2>2, Unseen
<1> QED
  BY <1>1, <1>4, <1>5, <1>6, <1>7

\* Every step of the bus is a step of the executor, or cannot be seen.
LEMMA MapStep == IInv /\ [Next]_vars => MapsTo
<1> SUFFICES ASSUME IInv, [Next]_vars PROVE MapsTo
  OBVIOUS
<1>1. ASSUME NEW t \in Topics, Subscribe(t) PROVE MapsTo
  <2>1. UNCHANGED <<queue, cur, fate, stage>>
    BY <1>1 DEF Subscribe, shardVars
  <2> QED
    BY <2>1, Quiet
<1>2. ASSUME NEW m \in Msgs, Publish(m) PROVE MapsTo
  <2>1. UNCHANGED <<queue, cur, fate, stage>>
    BY <1>2 DEF Publish, shardVars
  <2> QED
    BY <2>1, Quiet
<1>3. ASSUME NEW m \in Msgs, Enter(m) PROVE MapsTo
  <2>1. UNCHANGED <<queue, cur, fate, stage>>
    BY <1>3 DEF Enter, shardVars
  <2> QED
    BY <2>1, Quiet
<1>4. ASSUME NEW m \in Msgs, ClaimScope(m) PROVE MapsTo
  <2>1. UNCHANGED <<queue, cur, stage>> /\ fate[m] = "new"
    BY <1>4 DEF ClaimScope, shardVars, IInv, Calls, Reading
  <2>2. fate' = fate \/ fate' = [fate EXCEPT ![m] = "refused"]
    BY <1>4 DEF ClaimScope, Prepare, Refuse
  <2> QED
    BY <2>1, <2>2, Quiet, RejectMaps
<1>5. ASSUME NEW m \in Msgs, ClaimNone(m) PROVE MapsTo
  <2>1. UNCHANGED <<queue, cur, stage>> /\ fate[m] = "new"
    BY <1>5 DEF ClaimNone, shardVars, IInv, Calls, Reading
  <2>2. fate' = fate \/ fate' = [fate EXCEPT ![m] = "refused"]
    BY <1>5 DEF ClaimNone, Prepare, Refuse
  <2> QED
    BY <2>1, <2>2, Quiet, RejectMaps
<1>6. ASSUME NEW m \in Msgs, TakeToken(m) PROVE MapsTo
  <2>1. UNCHANGED <<queue, cur, fate, stage>>
    BY <1>6 DEF TakeToken, shardVars
  <2> QED
    BY <2>1, Quiet
<1>7. ASSUME NEW m \in Msgs, Send(m) PROVE MapsTo
  <2>1. pc[m] = "send" /\ Room(m) /\ Enqueue(m) /\ UNCHANGED <<cur, stage>>
    BY <1>7 DEF Send
  <2> QED
    BY <2>1, AcceptMaps
<1>8. ASSUME NEW m \in Msgs, Stop(m) PROVE MapsTo
  <2>1. /\ UNCHANGED <<queue, cur, stage>> /\ fate[m] = "new"
        /\ fate' = [fate EXCEPT ![m] = "refused"]
    BY <1>8 DEF Stop, Refuse, shardVars, IInv, Calls, Reading
  <2> QED
    BY <2>1, RejectMaps
<1>9. ASSUME NEW m \in Msgs, GiveUp(m) PROVE MapsTo
  <2>1. /\ UNCHANGED <<queue, cur, stage>> /\ fate[m] = "new"
        /\ fate' = [fate EXCEPT ![m] = "refused"]
    BY <1>9 DEF GiveUp, Refuse, shardVars, IInv, Calls, Reading
  <2> QED
    BY <2>1, RejectMaps
<1>10. ASSUME NEW m \in Msgs, SendInternal(m) PROVE MapsTo
  <2>1. pc[m] = "internal" /\ UNCHANGED <<cur, stage>> /\ fate[m] = "new"
    BY <1>10 DEF SendInternal, IInv, Calls, Reading
  <2>2. \/ Room(m) /\ Enqueue(m)
        \/ queue' = queue /\ fate' = [fate EXCEPT ![m] = "refused"]
    BY <1>10 DEF SendInternal, Refuse
  <2> QED
    BY <2>1, <2>2, AcceptMaps, RejectMaps
<1>11. ASSUME NEW m \in Msgs, NEW answer \in Answers, Answer(m, answer) PROVE MapsTo
  <2>1. UNCHANGED <<queue, cur, fate, stage>>
    BY <1>11 DEF Answer, shardVars
  <2> QED
    BY <2>1, Quiet
<1>12. ASSUME NEW m \in Msgs, StopWaiting(m) PROVE MapsTo
  <2>1. UNCHANGED <<queue, cur, fate, stage>>
    BY <1>12 DEF StopWaiting, shardVars
  <2> QED
    BY <2>1, Quiet
<1>13. ASSUME NEW s \in Shards, Take(s) PROVE MapsTo
  BY <1>13, StartMaps
<1>14. ASSUME NEW s \in Shards, Return(s) PROVE MapsTo
  BY <1>14, FinishMaps
<1>15. ASSUME NEW s \in Shards, Settle(s) PROVE MapsTo
  BY <1>15, SettleMaps
<1>16. ASSUME NEW s \in Shards, WorkerExit(s) PROVE MapsTo
  <2>1. UNCHANGED <<queue, cur, fate, stage>>
    BY <1>16 DEF WorkerExit
  <2> QED
    BY <2>1, Quiet
<1>17. CASE Close
  BY <1>17, CloseMaps
<1>18. CASE UNCHANGED vars
  <2>1. UNCHANGED <<queue, cur, fate, stage>>
    BY <1>18 DEF vars, shardVars
  <2> QED
    BY <2>1, Quiet
<1> QED
  BY <1>1, <1>2, <1>3, <1>4, <1>5, <1>6, <1>7, <1>8, <1>9, <1>10, <1>11, <1>12,
     <1>13, <1>14, <1>15, <1>16, <1>17, <1>18 DEF Next, PublisherStep, WorkerStep,
     Finished

\* The bus begins as the executor does.
LEMMA MapInit == Init => Executor!Init
<1> SUFFICES ASSUME Init PROVE Executor!Init
  OBVIOUS
<1>1. ASSUME NEW k \in Convs PROVE Waiting(k) = <<>> /\ Handled(k) = None
  <2>1. queue[ShardOf[k]] = <<>> /\ cur[ShardOf[k]] = None
    BY BusAssumption DEF Init
  <2>2. Of(k, <<>>) = <<>>
    BY OfAppend
  <2> QED
    BY <2>1, <2>2, HandledIs DEF Waiting
<1>2. Pending = [k \in Convs |-> <<>>] /\ Actives = [k \in Convs |-> None]
  BY <1>1 DEF Pending, Actives
<1>3. Outcome = [m \in Msgs |-> "new"] /\ Stage = "open"
  BY DEF Init, Outcome, Stage, Done
<1> QED
  BY <1>2, <1>3 DEF Executor!Init, Pending, Waiting, Actives, Handled, Outcome, Stage

\* To its publishers the bus is the executor too, for every set of messages, shards
\* and tokens: the messages of a conversation are handled one at a time in the order
\* in which publish accepted them, whatever shares their shard, no more of them at
\* once than there are shards, and Close leaves none behind (runShardWorker, Close).
THEOREM BusImplementsExecutor == Spec => ImplementsExecutor
<1>1. IInv /\ [Next]_vars => [Executor!Next]_(Executor!vars)
  BY MapStep DEF MapsTo
<1> QED
  BY <1>1, MapInit, Invariance, PTL DEF Spec, ImplementsExecutor, Executor!Spec
=============================================================================
