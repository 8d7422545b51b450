------------------------------ MODULE InprocBus ------------------------------
(***************************************************************************)
(* The in-process message bus (internal/bus/inproc.go).  A message is one  *)
(* call of Publish or PublishValidatedAndWait; ParentOf names the delivery *)
(* whose context the call was made with.  The handler of that delivery may *)
(* have returned by then: its goroutines may outlive it.  A publisher      *)
(* holds the read side of enqueueMu from Enter to its answer from publish. *)
(***************************************************************************)
EXTENDS Naturals, Sequences, FiniteSets

CONSTANTS
  Msgs,
  Convs,
  Shards,
  Topics,
  ConvOf,
  ShardOf,      \* the hash of a conversation key
  TopicOf,
  ParentOf,
  Synchronous,  \* the messages published with PublishValidatedAndWait
  MaxInFlight,
  None

ASSUME BusAssumption ==
  /\ IsFiniteSet(Msgs) /\ IsFiniteSet(Shards)
  /\ ConvOf \in [Msgs -> Convs] /\ TopicOf \in [Msgs -> Topics]
  /\ ShardOf \in [Convs -> Shards]
  /\ ParentOf \in [Msgs -> Msgs \cup {None}]
  /\ Synchronous \subseteq Msgs
  /\ MaxInFlight \in Nat \ {0}
  /\ None \notin Msgs

VARIABLES
  subscribers,  \* the topics with a handler
  started,      \* the topic registry is frozen
  stage,        \* where Close is
  pc,           \* per message, where its publisher is, or what it was told
  tokens,       \* tokens in the channel
  delivery,     \* the count of the wait group
  queue,        \* per shard, its channel
  cur,          \* per shard, the message its worker has, or None
  stopped,      \* the shards whose worker has returned
  fate,         \* what became of each message
  external      \* history: the messages that had to have a token

registryVars == <<subscribers, started>>
countVars == <<tokens, delivery>>
shardVars == <<queue, cur, stopped>>
vars == <<registryVars, stage, pc, countVars, shardVars, fate, external>>

Reading == {"entered", "internal", "token", "send"}
Answers == {"accepted", "handled", "failed", "refused", "closed", "gaveup"}
Stages == <<"open", "gate", "drain", "seal", "join", "closed">>

Init ==
  /\ subscribers = {} /\ started = FALSE
  /\ stage = "open"
  /\ pc = [m \in Msgs |-> "idle"]
  /\ tokens = MaxInFlight /\ delivery = 0
  /\ queue = [s \in Shards |-> <<>>]
  /\ cur = [s \in Shards |-> None]
  /\ stopped = {}
  /\ fate = [m \in Msgs |-> "new"]
  /\ external = {}

-----------------------------------------------------------------------------
\* The channels closing and done.
Closing == stage # "open"
Done == stage \in {"join", "closed"}
Readers == {m \in Msgs : pc[m] \in Reading}
\* A writer that waits for enqueueMu holds new readers off.
GateFree == stage \notin {"gate", "seal"}
Shard(m) == ShardOf[ConvOf[m]]
Room(m) == Len(queue[Shard(m)]) < MaxInFlight
\* The handler of p runs: its delivery scope is active.
Active(p) == p # None /\ fate[p] = "accepted" /\ \E s \in Shards : cur[s] = p
\* Mutant: an active scope is not locked against the return of its handler.
ScopeFreeAlways(p) == TRUE

\* No call of publish has the lock of the scope.
ScopeFree(p) == \A m \in Msgs : ParentOf[m] = p => pc[m] # "internal"

Goto(m, point) == pc' = [pc EXCEPT ![m] = point]
Refuse(m) ==
  /\ pc' = [pc EXCEPT ![m] = "refused"]
  /\ fate' = [fate EXCEPT ![m] = "refused"]

-----------------------------------------------------------------------------
Subscribe(t) ==
  /\ ~Closing /\ ~started /\ t \notin subscribers
  /\ subscribers' = subscribers \cup {t}
  /\ UNCHANGED <<started, stage, pc, countVars, shardVars, fate, external>>

\* A call of publish begins: from outside, or from a handler or what it started.
Publish(m) ==
  /\ pc[m] = "idle"
  /\ ParentOf[m] # None => Active(ParentOf[m]) \/ fate[ParentOf[m]] \in {"handled", "failed"}
  /\ Goto(m, "calling")
  /\ UNCHANGED <<registryVars, stage, countVars, shardVars, fate, external>>

Enter(m) ==
  /\ pc[m] = "calling" /\ GateFree
  /\ Goto(m, "entered")
  /\ UNCHANGED <<registryVars, stage, countVars, shardVars, fate, external>>

\* preparePublish: the first message freezes the registry.
Prepare(m, point) ==
  /\ started' = TRUE
  /\ IF TopicOf[m] \in subscribers
     THEN Goto(m, point) /\ UNCHANGED fate
     ELSE Refuse(m)

\* claimActiveDeliveryContext locks the scope until publish returns.
ClaimScope(m) ==
  /\ pc[m] = "entered"
  /\ Active(ParentOf[m]) /\ ScopeFree(ParentOf[m])
  /\ IF m \in Synchronous
     THEN Refuse(m) /\ UNCHANGED started
     ELSE Prepare(m, "internal")
  /\ UNCHANGED <<subscribers, stage, countVars, shardVars, external>>

\* No scope, or one whose handler has returned.
ClaimNone(m) ==
  /\ pc[m] = "entered"
  /\ ~Active(ParentOf[m])
  /\ IF Closing
     THEN Refuse(m) /\ UNCHANGED <<started, external>>
     ELSE Prepare(m, "token") /\ external' = external \cup {m}
  /\ UNCHANGED <<subscribers, stage, countVars, shardVars>>

TakeToken(m) ==
  /\ pc[m] = "token" /\ tokens > 0
  /\ tokens' = tokens - 1
  /\ delivery' = delivery + 1
  /\ Goto(m, "send")
  /\ UNCHANGED <<registryVars, stage, shardVars, fate, external>>

Enqueue(m) ==
  /\ queue' = [queue EXCEPT ![Shard(m)] = Append(@, m)]
  /\ fate' = [fate EXCEPT ![m] = "accepted"]
  /\ Goto(m, IF m \in Synchronous THEN "wait" ELSE "accepted")

Send(m) ==
  /\ pc[m] = "send" /\ Room(m)
  /\ Enqueue(m)
  /\ UNCHANGED <<registryVars, stage, countVars, cur, stopped, external>>

\* Mutant: the deferred function returns no token.
UndoKeeping(m) ==
  /\ delivery' = IF pc[m] = "send" THEN delivery - 1 ELSE delivery
  /\ UNCHANGED tokens

\* The deferred function of a publish that did not enqueue.
Undo(m) ==
  IF pc[m] = "send"
  THEN delivery' = delivery - 1 /\ tokens' = tokens + 1
  ELSE UNCHANGED countVars

\* Mutant: a publisher that waits for a token does not see the bus close.
StopBlocked(m) ==
  /\ pc[m] = "send" /\ Closing
  /\ Undo(m) /\ Refuse(m)
  /\ UNCHANGED <<registryVars, stage, shardVars, external>>

\* A blocked publisher sees closing.
Stop(m) ==
  /\ pc[m] \in {"token", "send"} /\ Closing
  /\ Undo(m) /\ Refuse(m)
  /\ UNCHANGED <<registryVars, stage, shardVars, external>>

\* The publisher's own context has ended.
GiveUp(m) ==
  /\ pc[m] \in {"token", "send", "internal"}
  /\ Undo(m) /\ Refuse(m)
  /\ UNCHANGED <<registryVars, stage, shardVars, external>>

\* Mutant: a handler waits for room in the queue it may be needed to empty.
SendInternalBlocking(m) ==
  /\ pc[m] = "internal" /\ Room(m)
  /\ Enqueue(m) /\ delivery' = delivery + 1
  /\ UNCHANGED <<registryVars, stage, tokens, cur, stopped, external>>

\* Without a token, and without waiting for room.
SendInternal(m) ==
  /\ pc[m] = "internal"
  /\ IF Room(m)
     THEN Enqueue(m) /\ delivery' = delivery + 1
     ELSE Refuse(m) /\ UNCHANGED <<queue, delivery>>
  /\ UNCHANGED <<registryVars, stage, tokens, cur, stopped, external>>

\* The select of PublishValidatedAndWait: any of its cases that is ready.
Answer(m, answer) ==
  /\ pc[m] = "wait"
  /\ \/ answer = fate[m] /\ answer \in {"handled", "failed"}
     \/ answer = "closed" /\ Done
  /\ Goto(m, answer)
  /\ UNCHANGED <<registryVars, stage, countVars, shardVars, fate, external>>

StopWaiting(m) ==
  /\ pc[m] = "wait"
  /\ Goto(m, "gaveup")
  /\ UNCHANGED <<registryVars, stage, countVars, shardVars, fate, external>>

-----------------------------------------------------------------------------
\* runShardWorker takes the next message; its scope becomes active.
Take(s) ==
  /\ cur[s] = None /\ queue[s] # <<>>
  /\ cur' = [cur EXCEPT ![s] = Head(queue[s])]
  /\ queue' = [queue EXCEPT ![s] = Tail(@)]
  /\ UNCHANGED <<registryVars, stage, pc, countVars, stopped, fate, external>>

\* The handler returns, fails or panics; deliver locks the scope to end it, and
\* the result goes into a channel that has room for it.
Return(s) ==
  /\ cur[s] # None /\ Active(cur[s]) /\ ScopeFree(cur[s])
  /\ \E answer \in {"handled", "failed"} : fate' = [fate EXCEPT ![cur[s]] = answer]
  /\ UNCHANGED <<registryVars, stage, pc, countVars, shardVars, external>>

\* The deferred releaseToken and delivery.Done.
Settle(s) ==
  /\ cur[s] # None /\ ~Active(cur[s])
  /\ tokens' = IF cur[s] \in external THEN tokens + 1 ELSE tokens
  /\ delivery' = delivery - 1
  /\ cur' = [cur EXCEPT ![s] = None]
  /\ UNCHANGED <<registryVars, stage, pc, queue, stopped, fate, external>>

\* The range over a closed and empty channel ends.
WorkerExit(s) ==
  /\ Done /\ s \notin stopped
  /\ cur[s] = None /\ queue[s] = <<>>
  /\ stopped' = stopped \cup {s}
  /\ UNCHANGED <<registryVars, stage, pc, countVars, queue, cur, fate, external>>

-----------------------------------------------------------------------------
\* Mutant: the shards are closed as soon as no delivery is counted.
StageMayEndUngated ==
  CASE stage = "open"  -> TRUE
    [] stage = "gate"  -> TRUE
    [] stage = "drain" -> delivery = 0
    [] stage = "seal"  -> TRUE
    [] stage = "join"  -> stopped = Shards
    [] OTHER           -> FALSE

\* Mutant: Close does not wait for the deliveries.
StageMayEndImpatient ==
  CASE stage = "open"  -> TRUE
    [] stage = "gate"  -> Readers = {}
    [] stage = "drain" -> TRUE
    [] stage = "seal"  -> Readers = {}
    [] stage = "join"  -> stopped = Shards
    [] OTHER           -> FALSE

\* Close: close(closing), Lock and Unlock, delivery.Wait, close(shards) and
\* close(done) under the lock, wg.Wait.
StageMayEnd ==
  CASE stage = "open"  -> TRUE
    [] stage = "gate"  -> Readers = {}
    [] stage = "drain" -> delivery = 0
    [] stage = "seal"  -> Readers = {}
    [] stage = "join"  -> stopped = Shards
    [] OTHER           -> FALSE

Close ==
  /\ StageMayEnd
  /\ \E i \in 1 .. Len(Stages) - 1 : stage = Stages[i] /\ stage' = Stages[i + 1]
  /\ UNCHANGED <<registryVars, pc, countVars, shardVars, fate, external>>

Finished ==
  /\ stage = "closed" /\ \A m \in Msgs : pc[m] \in Answers \cup {"idle"}
  /\ UNCHANGED vars

PublisherStep(m) ==
  \/ Enter(m) \/ ClaimScope(m) \/ ClaimNone(m) \/ TakeToken(m) \/ Send(m) \/ Stop(m)
  \/ SendInternal(m) \/ \E answer \in Answers : Answer(m, answer)
WorkerStep(s) == Take(s) \/ Return(s) \/ Settle(s) \/ WorkerExit(s)
\* The handler does not wait for a call of publish.
Unblocked(s) == \A m \in Msgs : ParentOf[m] = cur[s] => pc[m] \in Answers \cup {"idle"}

Next ==
  \/ \E t \in Topics : Subscribe(t)
  \/ \E m \in Msgs : Publish(m) \/ PublisherStep(m) \/ GiveUp(m) \/ StopWaiting(m)
  \/ \E s \in Shards : WorkerStep(s)
  \/ Close
  \/ Finished

Spec == Init /\ [][Next]_vars

\* Goroutines run, and a handler returns unless it is in a call of publish; a
\* Close that has begun goes on.  Nobody has to publish, to give up or to close.
FairSpec ==
  /\ Spec
  /\ \A m \in Msgs : WF_vars(PublisherStep(m))
  /\ \A s \in Shards : WF_vars(WorkerStep(s) /\ (Active(cur[s]) => Unblocked(s)))
  /\ WF_vars(stage # "open" /\ Close)

-----------------------------------------------------------------------------
Outstanding == {m \in Msgs : \E s \in Shards :
                  cur[s] = m \/ \E i \in 1 .. Len(queue[s]) : queue[s][i] = m}
Reserved == {m \in Msgs : pc[m] = "send"}

\* Every variable has its type.
TypeOK ==
  /\ subscribers \subseteq Topics /\ started \in BOOLEAN
  /\ stage \in {Stages[i] : i \in 1 .. Len(Stages)}
  /\ pc \in [Msgs -> {"idle", "calling", "wait"} \cup Reading \cup Answers]
  /\ tokens \in 0 .. MaxInFlight /\ delivery \in Nat
  /\ queue \in [Shards -> Seq(Msgs)]
  /\ cur \in [Shards -> Msgs \cup {None}]
  /\ stopped \subseteq Shards
  /\ fate \in [Msgs -> {"new", "refused", "accepted", "handled", "failed"}]
  /\ external \subseteq Msgs

\* The token channel and the wait group count what they stand for, whoever gives
\* up, is refused or publishes from a handler: releaseToken never finds the
\* channel full, and delivery.Wait neither returns early nor waits for nobody.
CountsExact ==
  /\ tokens + Cardinality(external \cap (Outstanding \cup Reserved)) = MaxInFlight
  /\ delivery = Cardinality(Outstanding) + Cardinality(Reserved)

\* When the shard channels are closed nobody is about to send on one, not even
\* a goroutine that a handler has left behind, and none has anything in it.
NoSendOnClosed ==
  Done => Outstanding = {} /\ \A m \in Msgs : pc[m] \notin {"internal", "send"}

\* A synchronous publisher is told what its handler returned.  It may be told
\* that the bus is closed instead, but only of a message that was handled.
SyncAnswers ==
  \A m \in Synchronous :
    /\ pc[m] \in {"handled", "failed"} => fate[m] = pc[m]
    /\ pc[m] = "closed" => fate[m] \in {"handled", "failed"}

\* What a queue holds of one conversation.
With(k, held, m) == IF ConvOf[m] = k THEN Append(held, m) ELSE held
Of(k, q) ==
  LET upTo[n \in 0 .. Len(q)] == IF n = 0 THEN <<>> ELSE With(k, upTo[n - 1], q[n])
  IN upTo[Len(q)]

\* As an executor of one job at a time per conversation, in the order in which
\* publish accepted them, that drops nothing when it closes.
Executor == INSTANCE KeyedExecutor WITH
  Keys <- Convs, Jobs <- Msgs, KeyOf <- ConvOf, Depth <- MaxInFlight,
  Limit <- Cardinality(Shards),
  pending <- [k \in Convs |-> Of(k, queue[ShardOf[k]])],
  active <- [k \in Convs |->
    LET m == cur[ShardOf[k]] IN IF m # None /\ ConvOf[m] = k /\ Active(m) THEN m ELSE None],
  fate <- [m \in Msgs |-> CASE fate[m] = "refused" -> "rejected"
                            [] fate[m] = "failed" -> "handled"
                            [] OTHER -> fate[m]],
  stage <- CASE stage \in {"gate", "drain"} -> "stopping"
             [] stage = "seal" -> "closed"
             [] Done -> "done"
             [] OTHER -> stage
ImplementsExecutor == Executor!Spec

\* A call of publish ends unless it waits for a token, and an accepted message is
\* handled: no token, slot or wakeup is lost, and no handler blocks its own shard.
PublishEnds ==
  []<>(\A m \in Msgs : fate[m] # "accepted" /\ pc[m] \notin {"internal", "send", "wait"})

\* Close returns, and so does every publisher that it found inside, or that
\* arrives while it waits.
CloseReturns ==
  Closing ~> stage = "closed" /\ \A m \in Msgs : pc[m] \in Answers \cup {"idle"}
=============================================================================
