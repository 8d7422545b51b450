-------------------------- MODULE PendingApprovals --------------------------
(***************************************************************************)
(* internal/channelruntime/core/pending_approval.go: the registry that     *)
(* parks a job while its approval is undecided.  A handle leaves by a      *)
(* claim (a decision), by its expiry timer, or by Close; a claimant may    *)
(* give it back for a retry.                                               *)
(*                                                                         *)
(* Regions under r.mu are one step.  Entries are pendingApprovalEntry      *)
(* structs, Owners pendingApprovalClaimOwner structs and Timers the calls  *)
(* of time.AfterFunc; each identity is used once.  A timer that has fired  *)
(* is a goroutine waiting for r.mu in expire: Stop cannot take it back.    *)
(***************************************************************************)
EXTENDS Naturals, FiniteSets

CONSTANTS
  Ids,      \* approval ids
  Entries,  \* bound: calls of Register
  Owners,   \* bound: claims
  Timers,   \* bound: timers started
  MaxRestores,  \* bound: successful calls of RestoreClaim
  None

ASSUME RegistryAssumption ==
  /\ IsFiniteSet(Owners)
  /\ MaxRestores \in Nat
  /\ None \notin Ids \cup Entries \cup Owners \cup Timers

VARIABLES
  entries,     \* r.entries
  claims,      \* r.claims
  home,        \* the id an entry was registered for
  timerOf,     \* entry.timer
  timer,       \* what became of each timer
  timed,       \* the entry a timer was started for
  owned,       \* owner.entry
  owner,       \* where the life of each owner is: done is the sync.Once
  callback,    \* owners whose onExpire goroutine has not left expire
  ownerWG,     \* r.ownerWG
  callbackWG,  \* r.callbackWG
  restores,    \* successful calls of RestoreClaim
  closing      \* where Close is; r.closed = (closing # "open")

timerVars == <<timerOf, timer, timed>>
ownerVars == <<owned, owner, callback, ownerWG, callbackWG>>
regVars == <<entries, claims, home, timerVars, ownerVars, restores, closing>>

TimerStates == {"unused", "armed", "fired", "over"}
OwnerStates == {"unused", "live", "settling", "done"}
CloseStages == {"open", "owners", "callbacks", "returned"}

RegInit ==
  /\ entries = [id \in Ids |-> None]
  /\ claims = [id \in Ids |-> None]
  /\ home = [e \in Entries |-> None]
  /\ timerOf = [e \in Entries |-> None]
  /\ timer = [t \in Timers |-> "unused"]
  /\ timed = [t \in Timers |-> None]
  /\ owned = [o \in Owners |-> None]
  /\ owner = [o \in Owners |-> "unused"]
  /\ callback = {}
  /\ ownerWG = 0
  /\ callbackWG = 0
  /\ restores = 0
  /\ closing = "open"

-----------------------------------------------------------------------------
\* Fresh structs are interchangeable, so which of them is next is fixed.
FreshTimer == CHOOSE t \in Timers : timer[t] = "unused"
FreshOwner == CHOOSE o \in Owners : owner[o] = "unused"

\* Entries whose timer has not fired yet lose it; a fired one is past stopping.
Stopped(es) ==
  [t \in Timers |-> IF timer[t] = "armed" /\ \E e \in es : timerOf[e] = t
                    THEN "over" ELSE timer[t]]

\* entry.timer = time.AfterFunc(delay, ...), or no timer for a zero deadline.
Arm(e, deadline, states) ==
  IF deadline
  THEN LET t == FreshTimer IN
       /\ t \in Timers /\ timer[t] = "unused"
       /\ timer' = [states EXCEPT ![t] = "armed"]
       /\ timed' = [timed EXCEPT ![t] = e]
       /\ timerOf' = [timerOf EXCEPT ![e] = t]
  ELSE timer' = states /\ UNCHANGED <<timed, timerOf>>

\* A new owner takes the entry of id out of the registry.
Own(id, o) ==
  /\ owner[o] = "unused" /\ o = FreshOwner
  /\ owned' = [owned EXCEPT ![o] = entries[id]]
  /\ owner' = [owner EXCEPT ![o] = "live"]
  /\ claims' = [claims EXCEPT ![id] = o]
  /\ entries' = [entries EXCEPT ![id] = None]
  /\ ownerWG' = ownerWG + 1

-----------------------------------------------------------------------------
\* Register: refused when closed or while a claim on id is in flight.
Registrable(id) == closing = "open" /\ claims[id] = None

Register(id, e, deadline) ==
  /\ Registrable(id)
  /\ home[e] = None
  /\ home' = [home EXCEPT ![e] = id]
  /\ entries' = [entries EXCEPT ![id] = e]
  /\ Arm(e, deadline, Stopped({entries[id]} \ {None}))
  /\ UNCHANGED <<claims, ownerVars, closing, restores>>

\* Claim returning PendingApprovalClaimOwned.
Claim(id, o) ==
  /\ closing = "open"
  /\ claims[id] = None
  /\ entries[id] # None
  /\ Own(id, o)
  /\ timer' = Stopped({entries[id]})
  /\ timerOf' = [timerOf EXCEPT ![entries[id]] = None]
  /\ UNCHANGED <<home, timed, callback, callbackWG, closing, restores>>

\* CompleteClaim up to the unlock; done.Do runs it once.
CompleteClaim(o) ==
  /\ owner[o] = "live"
  /\ owner' = [owner EXCEPT ![o] = "settling"]
  /\ claims' = [id \in Ids |-> IF claims[id] = o THEN None ELSE claims[id]]
  /\ UNCHANGED <<entries, home, timerVars, owned, callback, ownerWG, callbackWG, closing, restores>>

\* Mutant: r.closed is not checked.
RestoreUnchecked(o, deadline) ==
  LET e == owned[o] IN
  /\ owner[o] = "live"
  /\ restores < MaxRestores
  /\ restores' = restores + 1
  /\ owner' = [owner EXCEPT ![o] = "settling"]
  /\ claims' = [claims EXCEPT ![home[e]] = None]
  /\ entries' = [entries EXCEPT ![home[e]] = e]
  /\ Arm(e, deadline, timer)
  /\ UNCHANGED <<home, owned, callback, ownerWG, callbackWG, closing>>

\* Mutant: the restored claim is never counted down.
RestoreLeaks(o, deadline) ==
  LET e == owned[o] IN
  /\ owner[o] = "live"
  /\ closing = "open"
  /\ restores < MaxRestores
  /\ restores' = restores + 1
  /\ owner' = [owner EXCEPT ![o] = "done"]
  /\ claims' = [claims EXCEPT ![home[e]] = None]
  /\ entries' = [entries EXCEPT ![home[e]] = e]
  /\ Arm(e, deadline, timer)
  /\ UNCHANGED <<home, owned, callback, ownerWG, callbackWG, closing>>

\* RestoreClaim that succeeds: the same entry goes back.
RestoreClaim(o, deadline) ==
  LET e == owned[o] IN
  /\ owner[o] = "live"
  /\ closing = "open"
  /\ restores < MaxRestores
  /\ restores' = restores + 1
  /\ claims[home[e]] = o
  /\ owner' = [owner EXCEPT ![o] = "settling"]
  /\ claims' = [claims EXCEPT ![home[e]] = None]
  /\ entries' = [entries EXCEPT ![home[e]] = e]
  /\ Arm(e, deadline, timer)
  /\ UNCHANGED <<home, owned, callback, ownerWG, callbackWG, closing>>

\* RestoreClaim that fails because the registry has closed.
RestoreRefused(o) ==
  /\ closing # "open"
  /\ CompleteClaim(o)

\* The deferred ownerWG.Done, after the lock is released.
OwnerDone(o) ==
  /\ owner[o] = "settling"
  /\ owner' = [owner EXCEPT ![o] = "done"]
  /\ ownerWG' = ownerWG - 1
  /\ UNCHANGED <<entries, claims, home, timerVars, owned, callback, callbackWG, closing, restores>>

-----------------------------------------------------------------------------
\* The runtime starts the goroutine of an armed timer.
Fire(t) ==
  /\ timer[t] = "armed"
  /\ timer' = [timer EXCEPT ![t] = "fired"]
  /\ UNCHANGED <<entries, claims, home, timerOf, timed, ownerVars, closing, restores>>

\* expire finds the registry still holds the entry it was started for.
Expire(t, o) ==
  LET e == timed[t] IN
  /\ timer[t] = "fired"
  /\ entries[home[e]] = e
  /\ Own(home[e], o)
  /\ callback' = callback \cup {o}
  /\ callbackWG' = callbackWG + 1
  /\ timer' = [timer EXCEPT ![t] = "over"]
  /\ UNCHANGED <<home, timerOf, timed, closing, restores>>

\* expire finds another entry, or none, and returns.
ExpireStale(t) ==
  LET e == timed[t] IN
  /\ timer[t] = "fired"
  /\ entries[home[e]] # e
  /\ timer' = [timer EXCEPT ![t] = "over"]
  /\ UNCHANGED <<entries, claims, home, timerOf, timed, ownerVars, closing, restores>>

\* The deferred calls of expire: CompleteClaim, then callbackWG.Done.
CallbackDone(o) ==
  /\ o \in callback
  /\ owner[o] = "done"
  /\ callback' = callback \ {o}
  /\ callbackWG' = callbackWG - 1
  /\ UNCHANGED <<entries, claims, home, timerVars, owned, owner, ownerWG, closing, restores>>

-----------------------------------------------------------------------------
\* Close under r.mu: every handle left becomes the caller's.
CloseStart ==
  /\ closing = "open"
  /\ closing' = "owners"
  /\ timer' = Stopped({entries[id] : id \in Ids} \ {None})
  /\ entries' = [id \in Ids |-> None]
  /\ UNCHANGED <<claims, home, timerOf, timed, ownerVars, restores>>

\* ownerWG.Wait
CloseOwners ==
  /\ closing = "owners"
  /\ ownerWG = 0
  /\ closing' = "callbacks"
  /\ UNCHANGED <<entries, claims, home, timerVars, ownerVars, restores>>

\* callbackWG.Wait
CloseReturn ==
  /\ closing = "callbacks"
  /\ callbackWG = 0
  /\ closing' = "returned"
  /\ UNCHANGED <<entries, claims, home, timerVars, ownerVars, restores>>

RegSettled == closing = "returned" /\ \A t \in Timers : timer[t] \notin {"armed", "fired"}

RegTerminated == RegSettled /\ UNCHANGED regVars

RegStep ==
  \/ \E id \in Ids, e \in Entries, d \in BOOLEAN : Register(id, e, d)
  \/ \E id \in Ids, o \in Owners : Claim(id, o)
  \/ \E o \in Owners : CompleteClaim(o) \/ RestoreRefused(o) \/ OwnerDone(o) \/ CallbackDone(o)
  \/ \E o \in Owners, d \in BOOLEAN : RestoreClaim(o, d)
  \/ \E t \in Timers : Fire(t) \/ ExpireStale(t) \/ \E o \in Owners : Expire(t, o)
  \/ CloseStart \/ CloseOwners \/ CloseReturn

RegNext == RegStep \/ RegTerminated

RegSpec == RegInit /\ [][RegNext]_regVars

-----------------------------------------------------------------------------
\* Every variable has its type.
RegTypeOK ==
  /\ entries \in [Ids -> Entries \cup {None}]
  /\ claims \in [Ids -> Owners \cup {None}]
  /\ home \in [Entries -> Ids \cup {None}]
  /\ timerOf \in [Entries -> Timers \cup {None}]
  /\ timer \in [Timers -> TimerStates]
  /\ timed \in [Timers -> Entries \cup {None}]
  /\ owned \in [Owners -> Entries \cup {None}]
  /\ owner \in [Owners -> OwnerStates]
  /\ callback \subseteq Owners
  /\ ownerWG \in Nat
  /\ callbackWG \in Nat
  /\ restores \in 0 .. MaxRestores
  /\ closing \in CloseStages

\* A claim that has not been settled is the one the map shows for its id, so a
\* second decision sees it in flight, and its entry is not in the registry: a
\* timer, a decision and a retry never hold the same handle.
ClaimExclusive ==
  \A o \in Owners : owner[o] = "live" =>
    LET id == home[owned[o]] IN claims[id] = o /\ entries[id] = None

\* Close waits for exactly the claims not settled and the callbacks not left:
\* a lost Done would block it for ever, an extra one would panic.
WaitGroupsExact ==
  /\ ownerWG = Cardinality({o \in Owners : owner[o] \in {"live", "settling"}})
  /\ callbackWG = Cardinality(callback)

\* Once Close has returned its handles, no handle is in the registry or
\* claimed, and no expiry callback is running that could bring one back.
QuietAfterClose ==
  closing = "returned" =>
    /\ \A id \in Ids : entries[id] = None /\ claims[id] = None
    /\ callback = {} /\ \A o \in Owners : owner[o] \in {"unused", "done"}

\* The registry keeps the custody of handles as HandleCustody describes it.
custody ==
  [e \in Entries |->
     IF home[e] = None THEN "new"
     ELSE IF entries[home[e]] = e THEN "registry"
     ELSE IF \E o \in Owners : owned[o] = e /\ owner[o] = "live" THEN "claimant"
     ELSE "released"]

custodyStage == IF closing \in {"open", "returned"} THEN closing ELSE "closed"

HC == INSTANCE HandleCustody WITH stage <- custodyStage

\* Every step of the registry is a step of HandleCustody.
ImplementsCustody == HC!Spec
=============================================================================
