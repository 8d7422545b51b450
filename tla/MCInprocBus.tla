----------------------------- MODULE MCInprocBus -----------------------------
(* A small instance of InprocBus: a synchronous message, two that are         *)
(* published with the context of its delivery, and one from outside; two     *)
(* conversations on one shard, and room for one message in flight.           *)
EXTENDS InprocBus, TLC

CONSTANTS a, b, shard, topic, m1, m2, m3, m4

MCConvOf == m1 :> a @@ m2 :> a @@ m3 :> b @@ m4 :> a
MCShardOf == a :> shard @@ b :> shard
MCTopicOf == [m \in Msgs |-> topic]
MCParentOf == m1 :> None @@ m2 :> m1 @@ m3 :> m1 @@ m4 :> None
=============================================================================
