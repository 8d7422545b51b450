---------------------------- MODULE MCRunControl ----------------------------
(* A small instance of RunControl: two runs of one conversation, each for a   *)
(* task of its own, of which the first may ask a question, two inputs, and a  *)
(* call of Stop or StopTask.                                                  *)
EXTENDS RunControl, TLC

CONSTANTS a, r1, r2, t1, t2, q1, s1

MCConvOf == [r \in Runs |-> a]
MCTaskOf == r1 :> t1 @@ r2 :> t2
MCRunOf == [q \in Questions |-> r1]
=============================================================================
