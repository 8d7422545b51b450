---------------------------- MODULE HandleCustody ----------------------------
(***************************************************************************)
(* What a channel runtime relies on when it parks a job behind an approval *)
(* in PendingApprovalRegistry: at any moment a handle has one custodian,   *)
(* the registry or one claimant; an approval id has at most one handle in  *)
(* custody; a claimed handle comes back only while the registry is open;   *)
(* and Close hands out what is left and returns when nothing is claimed.   *)
(***************************************************************************)
CONSTANTS Ids, Entries, None

VARIABLES
  custody,  \* who has each handle
  home,     \* the approval id a handle was registered for
  stage     \* "open", "closed", "returned"

vars == <<custody, home, stage>>

Custodians == {"new", "registry", "claimant", "released"}
Stages == {"open", "closed", "returned"}

Init ==
  /\ custody = [e \in Entries |-> "new"]
  /\ home = [e \in Entries |-> None]
  /\ stage = "open"

Claimed(id) == \E e \in Entries : home[e] = id /\ custody[e] = "claimant"

\* A new handle for id displaces the one the registry had for it.
Park(id, e) ==
  /\ stage = "open"
  /\ custody[e] = "new"
  /\ ~Claimed(id)
  /\ custody' = [x \in Entries |->
                   IF x = e THEN "registry"
                   ELSE IF home[x] = id /\ custody[x] = "registry" THEN "released"
                   ELSE custody[x]]
  /\ home' = [home EXCEPT ![e] = id]
  /\ UNCHANGED stage

Take(e) ==
  /\ stage = "open"
  /\ custody[e] = "registry"
  /\ custody' = [custody EXCEPT ![e] = "claimant"]
  /\ UNCHANGED <<home, stage>>

GiveBack(e) ==
  /\ stage = "open"
  /\ custody[e] = "claimant"
  /\ custody' = [custody EXCEPT ![e] = "registry"]
  /\ UNCHANGED <<home, stage>>

Release(e) ==
  /\ custody[e] = "claimant"
  /\ custody' = [custody EXCEPT ![e] = "released"]
  /\ UNCHANGED <<home, stage>>

Close ==
  /\ stage = "open"
  /\ stage' = "closed"
  /\ custody' = [e \in Entries |-> IF custody[e] = "registry" THEN "released" ELSE custody[e]]
  /\ UNCHANGED home

Return ==
  /\ stage = "closed"
  /\ \A e \in Entries : custody[e] # "claimant"
  /\ stage' = "returned"
  /\ UNCHANGED <<custody, home>>

Next ==
  \/ \E id \in Ids, e \in Entries : Park(id, e)
  \/ \E e \in Entries : Take(e) \/ GiveBack(e) \/ Release(e)
  \/ Close \/ Return

Spec == Init /\ [][Next]_vars
=============================================================================
