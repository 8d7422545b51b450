---------------------------- MODULE BundleLifetime ----------------------------
(***************************************************************************)
(* What the runtime generations promise to their users: at most one bundle *)
(* is current; a task takes hold of the current one and keeps it as long   *)
(* as it runs; a bundle is cleaned up after it was replaced and its last   *)
(* task let go, and once the manager is shut no bundle becomes current.    *)
(***************************************************************************)
CONSTANTS Bundles, Leases

VARIABLES
  stage,    \* where a bundle is in its life
  holders,  \* the leases on it
  open      \* the manager has not been closed

lifetimeVars == <<stage, holders, open>>

LifetimeInit ==
  /\ stage = [b \in Bundles |-> "absent"]
  /\ holders = [b \in Bundles |-> {}]
  /\ open = TRUE

\* Built, and nobody can get it yet.
Make(b) ==
  /\ stage[b] = "absent"
  /\ stage' = [stage EXCEPT ![b] = "spare"]
  /\ UNCHANGED <<holders, open>>

\* The new bundle replaces the current one.
Install(b) ==
  /\ open
  /\ stage[b] \in {"absent", "spare"}
  /\ stage' = [c \in Bundles |-> IF c = b THEN "current"
                                 ELSE IF stage[c] = "current" THEN "retired" ELSE stage[c]]
  /\ UNCHANGED <<holders, open>>

Grab(b, l) ==
  /\ stage[b] = "current"
  /\ \A c \in Bundles : l \notin holders[c]
  /\ holders' = [holders EXCEPT ![b] = @ \cup {l}]
  /\ UNCHANGED <<stage, open>>

Drop(b, l) ==
  /\ l \in holders[b]
  /\ holders' = [holders EXCEPT ![b] = @ \ {l}]
  /\ UNCHANGED <<stage, open>>

Shut ==
  /\ open
  /\ open' = FALSE
  /\ stage' = [c \in Bundles |-> IF stage[c] = "current" THEN "retired" ELSE stage[c]]
  /\ UNCHANGED holders

\* A bundle nobody can get any more; one that was never current only after Shut.
Clean(b) ==
  /\ stage[b] = "retired" \/ (stage[b] = "spare" /\ ~open)
  /\ holders[b] = {}
  /\ stage' = [stage EXCEPT ![b] = "clean"]
  /\ UNCHANGED <<holders, open>>

LifetimeNext ==
  \/ \E b \in Bundles : Make(b) \/ Install(b) \/ Clean(b) \/ \E l \in Leases : Grab(b, l) \/ Drop(b, l)
  \/ Shut

LifetimeSpec == LifetimeInit /\ [][LifetimeNext]_lifetimeVars
=============================================================================
