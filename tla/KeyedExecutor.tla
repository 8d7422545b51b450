--------------------------- MODULE KeyedExecutor ---------------------------
(***************************************************************************)
(* What a channel runtime relies on when it hands work to the conversation *)
(* runner: jobs of one conversation run one at a time, in the order in     *)
(* which they were accepted; at most Limit jobs run at once over all       *)
(* conversations; an accepted job is run, or dropped because the runtime   *)
(* is stopping, and nothing is accepted once the runner has closed.        *)
(***************************************************************************)
EXTENDS Naturals, Sequences, FiniteSets

CONSTANTS Keys, Jobs, KeyOf, Depth, Limit, None

VARIABLES
  pending,   \* per conversation, the accepted jobs that have not started
  active,    \* per conversation, the running job or None
  fate,      \* what became of each job
  stage      \* "open", "stopping", "closed", "done"

vars == <<pending, active, fate, stage>>

Stages == {"open", "stopping", "closed", "done"}
Fates == {"new", "rejected", "accepted", "handled", "dropped"}

Init ==
  /\ pending = [k \in Keys |-> <<>>]
  /\ active = [k \in Keys |-> None]
  /\ fate = [j \in Jobs |-> "new"]
  /\ stage = "open"

Accept(j) ==
  LET k == KeyOf[j] IN
  /\ stage \in {"open", "stopping"}
  /\ fate[j] = "new"
  /\ Len(pending[k]) < Depth
  /\ fate' = [fate EXCEPT ![j] = "accepted"]
  /\ pending' = [pending EXCEPT ![k] = Append(@, j)]
  /\ UNCHANGED <<active, stage>>

Reject(j) ==
  /\ fate[j] = "new"
  /\ fate' = [fate EXCEPT ![j] = "rejected"]
  /\ UNCHANGED <<pending, active, stage>>

Start(k) ==
  /\ active[k] = None
  /\ pending[k] # <<>>
  /\ Cardinality({x \in Keys : active[x] # None}) < Limit
  /\ active' = [active EXCEPT ![k] = Head(pending[k])]
  /\ pending' = [pending EXCEPT ![k] = Tail(@)]
  /\ UNCHANGED <<fate, stage>>

Finish(k) ==
  /\ active[k] # None
  /\ fate' = [fate EXCEPT ![active[k]] = "handled"]
  /\ active' = [active EXCEPT ![k] = None]
  /\ UNCHANGED <<pending, stage>>

Drop(k) ==
  /\ stage \in {"stopping", "closed"}
  /\ pending[k] # <<>>
  /\ fate' = [fate EXCEPT ![Head(pending[k])] = "dropped"]
  /\ pending' = [pending EXCEPT ![k] = Tail(@)]
  /\ UNCHANGED <<active, stage>>

Stop == stage = "open" /\ stage' = "stopping" /\ UNCHANGED <<pending, active, fate>>
Close == stage = "stopping" /\ stage' = "closed" /\ UNCHANGED <<pending, active, fate>>

Settle ==
  /\ stage = "closed"
  /\ \A k \in Keys : pending[k] = <<>> /\ active[k] = None
  /\ stage' = "done"
  /\ UNCHANGED <<pending, active, fate>>

Next ==
  \/ \E j \in Jobs : Accept(j) \/ Reject(j)
  \/ \E k \in Keys : Start(k) \/ Finish(k) \/ Drop(k)
  \/ Stop \/ Close \/ Settle

Spec == Init /\ [][Next]_vars
=============================================================================
