----------------------- MODULE ApprovalLifecycleProofs -----------------------
(***************************************************************************)
(* Theorems about PendingApprovals and ApprovalLifecycle for any tasks,    *)
(* approvals, claims, timers and failures.  The first part is about the    *)
(* registry.  RegIInv is its inductive invariant: the map of claims and    *)
(* the owners name each other, what they name was registered, and each     *)
(* stage of Close has emptied what it waited for.  From it the registry is *)
(* shown to implement HandleCustody.  In the second part every step is a   *)
(* step of the registry or leaves it alone, so what was shown of it holds. *)
(* On top of RegIInv, IInv says which points the workers, the claims and   *)
(* close() may be at together, that one of them at most holds a task, and  *)
(* that one of them does until its lease is released.                      *)
(***************************************************************************)
EXTENDS ApprovalLifecycle, FiniteSetTheorems, TLAPS

\* What an id, a claim or a timer refers to was registered.
Homed ==
  /\ \A id \in Ids : entries[id] # None => home[entries[id]] = id
  /\ \A o \in Owners : owner[o] # "unused" => owned[o] \in Entries /\ home[owned[o]] \in Ids
  /\ \A t \in Timers : timer[t] # "unused" => timed[t] \in Entries /\ home[timed[t]] \in Ids

\* The map shows the live claims, and an entry that is claimed is in no map.
Held ==
  /\ \A o \in Owners : owner[o] = "live" => claims[home[owned[o]]] = o
  /\ \A id \in Ids : claims[id] # None =>
       owner[claims[id]] = "live" /\ home[owned[claims[id]]] = id /\ entries[id] = None

\* What each stage of Close has established.
Emptied ==
  /\ closing # "open" => \A id \in Ids : entries[id] = None
  /\ closing \in {"callbacks", "returned"} => \A o \in Owners : owner[o] \in {"unused", "done"}
  /\ closing = "returned" => callback = {}

Unsettled == {o \in Owners : owner[o] \in {"live", "settling"}}
Called == \A o \in callback : owner[o] # "unused"

RegIInv == RegTypeOK /\ Homed /\ Held /\ Emptied /\ Called /\ WaitGroupsExact

-----------------------------------------------------------------------------
\* Sets of claims and callbacks that gain or lose one.
LEMMA FiniteOwners ==
  ASSUME NEW S \in SUBSET Owners
  PROVE  /\ Cardinality(S) \in Nat
         /\ Cardinality(S) = 0 => S = {}
         /\ \A o : o \notin S => Cardinality(S \cup {o}) = Cardinality(S) + 1
         /\ \A o \in S : /\ Cardinality(S) > 0
                         /\ Cardinality(S \ {o}) = Cardinality(S) - 1
<1>1. IsFiniteSet(S)
  BY RegistryAssumption, FS_Subset
<1>2. Cardinality(S) \in Nat /\ (Cardinality(S) = 0 => S = {})
  BY <1>1, FS_CardinalityType, FS_EmptySet
<1>3. ASSUME NEW o, o \notin S PROVE Cardinality(S \cup {o}) = Cardinality(S) + 1
  BY <1>1, <1>3, FS_AddElement
<1>4. ASSUME NEW o \in S
      PROVE  Cardinality(S) > 0 /\ Cardinality(S \ {o}) = Cardinality(S) - 1
  <2>1. IsFiniteSet(S \ {o}) /\ Cardinality(S \ {o}) = Cardinality(S) - 1
    BY <1>1, FS_RemoveElement
  <2>2. Cardinality(S \ {o}) \in Nat
    BY <2>1, FS_CardinalityType
  <2> QED
    BY <1>2, <2>1, <2>2
<1> QED
  BY <1>2, <1>3, <1>4

\* The wait groups in terms of the sets they count.
LEMMA Counts ==
  /\ Unsettled \in SUBSET Owners /\ Unsettled' \in SUBSET Owners
  /\ WaitGroupsExact <=> ownerWG = Cardinality(Unsettled) /\ callbackWG = Cardinality(callback)
  /\ WaitGroupsExact' <=> ownerWG' = Cardinality(Unsettled') /\ callbackWG' = Cardinality(callback')
BY DEF Unsettled, WaitGroupsExact

\* Stopping timers starts none.
LEMMA StoppedFacts ==
  ASSUME RegTypeOK, NEW es
  PROVE  /\ Stopped(es) \in [Timers -> TimerStates]
         /\ \A t \in Timers : Stopped(es)[t] = "unused" <=> timer[t] = "unused"
BY DEF RegTypeOK, Stopped, TimerStates

\* The entry gets a timer that was not used before, or none.
LEMMA ArmFacts ==
  ASSUME RegTypeOK, NEW e \in Entries, NEW d \in BOOLEAN, NEW states \in [Timers -> TimerStates],
         \A t \in Timers : states[t] = "unused" <=> timer[t] = "unused",
         Arm(e, d, states)
  PROVE  /\ timer' \in [Timers -> TimerStates]
         /\ timed' \in [Timers -> Entries \cup {None}]
         /\ timerOf' \in [Entries -> Timers \cup {None}]
         /\ \A t \in Timers : timer'[t] # "unused" =>
              timed'[t] = e \/ (timer[t] # "unused" /\ timed'[t] = timed[t])
<1>1. CASE d = TRUE
  <2>1. PICK t \in Timers : /\ timer' = [states EXCEPT ![t] = "armed"]
                            /\ timed' = [timed EXCEPT ![t] = e]
                            /\ timerOf' = [timerOf EXCEPT ![e] = t]
    BY <1>1 DEF Arm
  <2> QED
    BY <2>1 DEF RegTypeOK, TimerStates
<1>2. CASE d = FALSE
  BY <1>2 DEF Arm, RegTypeOK
<1> QED
  BY <1>1, <1>2

\* A claim, by a decision or by a timer.
LEMMA OwnFacts ==
  ASSUME RegIInv, NEW id \in Ids, NEW o \in Owners, entries[id] # None, Own(id, o)
  PROVE  /\ closing = "open" /\ claims[id] = None
         /\ entries[id] \in Entries /\ home[entries[id]] = id
         /\ owner[o] = "unused" /\ o \notin callback
         /\ o \notin Unsettled /\ Unsettled' = Unsettled \cup {o}
<1>1. closing = "open" /\ claims[id] = None
  BY DEF RegIInv, Emptied, Held
<1>2. entries[id] \in Entries /\ home[entries[id]] = id
  BY DEF RegIInv, RegTypeOK, Homed
<1>3. owner[o] = "unused" /\ o \notin callback
  BY DEF RegIInv, Called, Own
<1>4. o \notin Unsettled /\ Unsettled' = Unsettled \cup {o}
  BY <1>3 DEF RegIInv, RegTypeOK, Unsettled, Own
<1> QED
  BY <1>1, <1>2, <1>3, <1>4

\* A claim that is given back or settled is the one the map shows.
LEMMA LiveFacts ==
  ASSUME RegIInv, NEW o \in Owners, owner[o] = "live"
  PROVE  /\ owned[o] \in Entries /\ home[owned[o]] \in Ids
         /\ claims[home[owned[o]]] = o /\ entries[home[owned[o]]] = None
         /\ \A id \in Ids : claims[id] = o => id = home[owned[o]]
         /\ \A x \in Owners : owner[x] = "live" /\ owned[x] = owned[o] => x = o
BY RegistryAssumption DEF RegIInv, Homed, Held

\* One proof step per action here and below.
LEMMA TypeStep == RegIInv /\ [RegNext]_regVars => RegTypeOK'
<1> SUFFICES ASSUME RegIInv, [RegNext]_regVars PROVE RegTypeOK'
  OBVIOUS
<1>1. ASSUME NEW id \in Ids, NEW e \in Entries, NEW d \in BOOLEAN, Register(id, e, d)
      PROVE  RegTypeOK'
  <2>1. Arm(e, d, Stopped({entries[id]} \ {None}))
    BY <1>1 DEF Register
  <2>2. /\ timer' \in [Timers -> TimerStates]
        /\ timed' \in [Timers -> Entries \cup {None}]
        /\ timerOf' \in [Entries -> Timers \cup {None}]
    BY <2>1, StoppedFacts, ArmFacts DEF RegIInv
  <2> QED
    BY <2>2, <1>1 DEF RegIInv, RegTypeOK, Register, ownerVars
<1>2. ASSUME NEW id \in Ids, NEW o \in Owners, Claim(id, o) PROVE RegTypeOK'
  <2>1. timer' \in [Timers -> TimerStates]
    BY <1>2, StoppedFacts DEF RegIInv, Claim
  <2>2. Own(id, o) /\ entries[id] \in Entries /\ timerOf' = [timerOf EXCEPT ![entries[id]] = None]
        /\ UNCHANGED <<home, timed, callback, callbackWG, closing, restores>>
    BY <1>2 DEF RegIInv, RegTypeOK, Claim
  <2> QED
    BY <2>1, <2>2 DEF RegIInv, RegTypeOK, Own, OwnerStates
<1>3. ASSUME NEW o \in Owners, CompleteClaim(o) PROVE RegTypeOK'
  BY <1>3 DEF RegIInv, RegTypeOK, TimerStates, OwnerStates, CloseStages,
     CompleteClaim, timerVars, ownerVars
<1>4. ASSUME NEW o \in Owners, OwnerDone(o) PROVE RegTypeOK'
  <2>1. o \in Unsettled
    BY <1>4 DEF Unsettled, OwnerDone
  <2>2. ownerWG - 1 \in Nat
    BY <2>1, Counts, FiniteOwners DEF RegIInv
  <2> QED
    BY <2>2, <1>4 DEF RegIInv, RegTypeOK, TimerStates, OwnerStates, CloseStages,
       OwnerDone, timerVars, ownerVars
<1>5. ASSUME NEW o \in Owners, CallbackDone(o) PROVE RegTypeOK'
  <2>1. callbackWG - 1 \in Nat
    BY <1>5, Counts, FiniteOwners DEF RegIInv, RegTypeOK, CallbackDone
  <2> QED
    BY <2>1, <1>5 DEF RegIInv, RegTypeOK, TimerStates, OwnerStates, CloseStages,
       CallbackDone, timerVars, ownerVars
<1>6. ASSUME NEW o \in Owners, NEW d \in BOOLEAN, RestoreClaim(o, d) PROVE RegTypeOK'
  <2> DEFINE e == owned[o]
  <2>1. e \in Entries /\ home[e] \in Ids /\ Arm(e, d, timer)
    BY <1>6, LiveFacts DEF RestoreClaim
  <2>2. /\ timer' \in [Timers -> TimerStates]
        /\ timed' \in [Timers -> Entries \cup {None}]
        /\ timerOf' \in [Entries -> Timers \cup {None}]
    BY <2>1, ArmFacts DEF RegIInv, RegTypeOK
  <2>3. restores' \in 0 .. MaxRestores
    BY <1>6, RegistryAssumption DEF RegIInv, RegTypeOK, RestoreClaim
  <2> QED
    BY <2>1, <2>2, <2>3, <1>6 DEF RegIInv, RegTypeOK, OwnerStates, RestoreClaim
<1>7. ASSUME NEW t \in Timers, Fire(t) PROVE RegTypeOK'
  BY <1>7 DEF RegIInv, RegTypeOK, TimerStates, OwnerStates, CloseStages, Fire,
     timerVars, ownerVars
<1>8. ASSUME NEW t \in Timers, ExpireStale(t) PROVE RegTypeOK'
  BY <1>8 DEF RegIInv, RegTypeOK, TimerStates, OwnerStates, CloseStages,
     ExpireStale, timerVars, ownerVars
<1>9. ASSUME NEW t \in Timers, NEW o \in Owners, Expire(t, o) PROVE RegTypeOK'
  <2>1. home[timed[t]] \in Ids /\ timed[t] \in Entries
    BY <1>9 DEF RegIInv, Homed, Expire
  <2> QED
    BY <2>1, <1>9 DEF RegIInv, RegTypeOK, TimerStates, OwnerStates, CloseStages, Own,
       Expire, timerVars, ownerVars
<1>10. ASSUME CloseStart PROVE RegTypeOK'
  <2>1. timer' \in [Timers -> TimerStates]
    BY <1>10, StoppedFacts DEF RegIInv, CloseStart
  <2> QED
    BY <2>1, <1>10 DEF RegIInv, RegTypeOK, CloseStages, CloseStart, ownerVars
<1>11. ASSUME CloseOwners PROVE RegTypeOK'
  BY <1>11 DEF RegIInv, RegTypeOK, TimerStates, OwnerStates, CloseStages,
     CloseOwners, timerVars, ownerVars
<1>12. ASSUME CloseReturn PROVE RegTypeOK'
  BY <1>12 DEF RegIInv, RegTypeOK, TimerStates, OwnerStates, CloseStages,
     CloseReturn, timerVars, ownerVars
<1>13. CASE UNCHANGED regVars
  BY <1>13 DEF RegIInv, RegTypeOK, TimerStates, OwnerStates, CloseStages, regVars,
     timerVars, ownerVars
<1> QED
  BY <1>1, <1>2, <1>3, <1>4, <1>5, <1>6, <1>7, <1>8, <1>9, <1>10, <1>11, <1>12,
     <1>13 DEF RegNext, RegStep, RegTerminated, RestoreRefused

\* Every step keeps where handles, owners and timers belong.
LEMMA HomedStep == RegIInv /\ [RegNext]_regVars => Homed'
<1> SUFFICES ASSUME RegIInv, [RegNext]_regVars PROVE Homed'
  OBVIOUS
<1>1. ASSUME NEW id \in Ids, NEW e \in Entries, NEW d \in BOOLEAN, Register(id, e, d)
      PROVE  Homed'
  <2>1. Arm(e, d, Stopped({entries[id]} \ {None}))
    BY <1>1 DEF Register
  <2>2. \A t \in Timers : timer'[t] # "unused" =>
           timed'[t] = e \/ (timer[t] # "unused" /\ timed'[t] = timed[t])
    BY <2>1, StoppedFacts, ArmFacts DEF RegIInv
  <2>3. home' = [home EXCEPT ![e] = id] /\ home[e] = None
    BY <1>1 DEF Register
  <2>4. \A f \in Entries : home[f] \in Ids => home'[f] = home[f]
    BY <2>3, RegistryAssumption DEF RegIInv, RegTypeOK
  <2>5. \A i \in Ids : entries'[i] # None => home'[entries'[i]] = i
    BY <2>3, <2>4, <1>1 DEF RegIInv, RegTypeOK, Homed, Register
  <2>6. UNCHANGED <<owner, owned>>
    BY <1>1 DEF Register, ownerVars
  <2>7. \A x \in Owners : owner'[x] # "unused" => owned'[x] \in Entries /\ home'[owned'[x]] \in Ids
    BY <2>4, <2>6 DEF RegIInv, Homed
  <2>8. \A t \in Timers : timer'[t] # "unused" => timed'[t] \in Entries /\ home'[timed'[t]] \in Ids
    BY <2>2, <2>3, <2>4 DEF RegIInv, RegTypeOK, Homed
  <2> QED
    BY <2>5, <2>7, <2>8 DEF Homed
<1>2. ASSUME NEW id \in Ids, NEW o \in Owners, Claim(id, o) PROVE Homed'
  <2>1. /\ \A t \in Timers : timer'[t] # "unused" => timer[t] # "unused"
        /\ UNCHANGED <<home, timed>>
    BY <1>2, StoppedFacts DEF RegIInv, Claim
  <2>2. entries[id] \in Entries /\ home[entries[id]] = id
    BY <1>2, OwnFacts DEF Claim
  <2> QED
    BY <2>1, <2>2, <1>2 DEF RegIInv, RegTypeOK, Homed, Claim, Own
<1>3. ASSUME NEW o \in Owners, CompleteClaim(o) PROVE Homed'
  BY <1>3 DEF RegIInv, RegTypeOK, Homed, CompleteClaim, timerVars, ownerVars
<1>4. ASSUME NEW o \in Owners, OwnerDone(o) PROVE Homed'
  BY <1>4 DEF RegIInv, RegTypeOK, Homed, OwnerDone, timerVars, ownerVars
<1>5. ASSUME NEW o \in Owners, CallbackDone(o) PROVE Homed'
  BY <1>5 DEF RegIInv, RegTypeOK, Homed, CallbackDone, timerVars, ownerVars
<1>6. ASSUME NEW o \in Owners, NEW d \in BOOLEAN, RestoreClaim(o, d) PROVE Homed'
  <2> DEFINE e == owned[o]
  <2>1. e \in Entries /\ home[e] \in Ids /\ Arm(e, d, timer)
    BY <1>6, LiveFacts DEF RestoreClaim
  <2>2. \A t \in Timers : timer'[t] # "unused" =>
           timed'[t] = e \/ (timer[t] # "unused" /\ timed'[t] = timed[t])
    BY <2>1, ArmFacts DEF RegIInv, RegTypeOK
  <2> QED
    BY <2>1, <2>2, <1>6 DEF RegIInv, RegTypeOK, Homed, RestoreClaim
<1>7. ASSUME NEW t \in Timers, Fire(t) PROVE Homed'
  BY <1>7 DEF RegIInv, RegTypeOK, Homed, Fire, timerVars, ownerVars
<1>8. ASSUME NEW t \in Timers, ExpireStale(t) PROVE Homed'
  BY <1>8 DEF RegIInv, RegTypeOK, Homed, ExpireStale, timerVars, ownerVars
<1>9. ASSUME NEW t \in Timers, NEW o \in Owners, Expire(t, o) PROVE Homed'
  <2>1. timed[t] \in Entries /\ home[timed[t]] \in Ids
    BY <1>9 DEF RegIInv, Homed, Expire
  <2> QED
    BY <2>1, <1>9 DEF RegIInv, RegTypeOK, Homed, Own, Expire
<1>10. ASSUME CloseStart PROVE Homed'
  <2>1. \A t \in Timers : timer'[t] # "unused" => timer[t] # "unused"
    BY <1>10, StoppedFacts DEF RegIInv, CloseStart
  <2> QED
    BY <2>1, <1>10 DEF RegIInv, RegTypeOK, Homed, CloseStart, ownerVars
<1>11. ASSUME CloseOwners PROVE Homed'
  BY <1>11 DEF RegIInv, RegTypeOK, Homed, CloseOwners, timerVars, ownerVars
<1>12. ASSUME CloseReturn PROVE Homed'
  BY <1>12 DEF RegIInv, RegTypeOK, Homed, CloseReturn, timerVars, ownerVars
<1>13. CASE UNCHANGED regVars
  BY <1>13 DEF RegIInv, RegTypeOK, Homed, regVars, timerVars, ownerVars
<1> QED
  BY <1>1, <1>2, <1>3, <1>4, <1>5, <1>6, <1>7, <1>8, <1>9, <1>10, <1>11, <1>12,
     <1>13 DEF RegNext, RegStep, RegTerminated, RestoreRefused

\* Every step keeps that the map shows the live claims.
LEMMA HeldStep == RegIInv /\ [RegNext]_regVars => Held'
<1> SUFFICES ASSUME RegIInv, [RegNext]_regVars PROVE Held'
  OBVIOUS
<1>1. ASSUME NEW id \in Ids, NEW e \in Entries, NEW d \in BOOLEAN, Register(id, e, d)
      PROVE  Held'
  <2>1. \A f \in Entries : home[f] \in Ids => home'[f] = home[f]
    BY <1>1, RegistryAssumption DEF RegIInv, RegTypeOK, Register
  <2>2. UNCHANGED <<owner, owned, claims>> /\ claims[id] = None
    BY <1>1 DEF Register, Registrable, ownerVars
  <2>3. \A i \in Ids : i # id => entries'[i] = entries[i]
    BY <1>1 DEF RegIInv, RegTypeOK, Register
  <2> QED
    BY <2>1, <2>2, <2>3, RegistryAssumption DEF RegIInv, RegTypeOK, Homed, Held
<1>2. ASSUME NEW id \in Ids, NEW o \in Owners, Claim(id, o) PROVE Held'
  <2>1. /\ claims[id] = None /\ owner[o] = "unused"
        /\ entries[id] \in Entries /\ home[entries[id]] = id
    BY <1>2, OwnFacts DEF Claim
  <2> QED
    BY <2>1, <1>2, RegistryAssumption DEF RegIInv, RegTypeOK, Homed, Held, Claim, Own
<1>3. ASSUME NEW o \in Owners, CompleteClaim(o) PROVE Held'
  BY <1>3, RegistryAssumption DEF RegIInv, RegTypeOK, Homed, Held, CompleteClaim,
     timerVars, ownerVars
<1>4. ASSUME NEW o \in Owners, OwnerDone(o) PROVE Held'
  BY <1>4, RegistryAssumption DEF RegIInv, RegTypeOK, Homed, Held, OwnerDone,
     timerVars, ownerVars
<1>5. ASSUME NEW o \in Owners, CallbackDone(o) PROVE Held'
  BY <1>5, RegistryAssumption DEF RegIInv, RegTypeOK, Homed, Held, CallbackDone,
     timerVars, ownerVars
<1>6. ASSUME NEW o \in Owners, NEW d \in BOOLEAN, RestoreClaim(o, d) PROVE Held'
  BY <1>6, RegistryAssumption DEF RegIInv, RegTypeOK, Homed, Held, RestoreClaim,
     timerVars, ownerVars
<1>7. ASSUME NEW t \in Timers, Fire(t) PROVE Held'
  BY <1>7, RegistryAssumption DEF RegIInv, RegTypeOK, Homed, Held, Fire, timerVars,
     ownerVars
<1>8. ASSUME NEW t \in Timers, ExpireStale(t) PROVE Held'
  BY <1>8, RegistryAssumption DEF RegIInv, RegTypeOK, Homed, Held, ExpireStale,
     timerVars, ownerVars
<1>9. ASSUME NEW t \in Timers, NEW o \in Owners, Expire(t, o) PROVE Held'
  <2> DEFINE id == home[timed[t]]
  <2>0. timed[t] \in Entries /\ id \in Ids /\ entries[id] # None
    BY <1>9, RegistryAssumption DEF RegIInv, Homed, Expire
  <2>1. /\ claims[id] = None /\ owner[o] = "unused"
        /\ entries[id] \in Entries /\ home[entries[id]] = id
    BY <2>0, <1>9, OwnFacts DEF Expire
  <2> QED
    BY <2>0, <2>1, <1>9, RegistryAssumption DEF RegIInv, RegTypeOK, Homed, Held, Expire, Own
<1>10. ASSUME CloseStart PROVE Held'
  BY <1>10, RegistryAssumption DEF RegIInv, RegTypeOK, Homed, Held, CloseStart,
     timerVars, ownerVars
<1>11. ASSUME CloseOwners PROVE Held'
  BY <1>11, RegistryAssumption DEF RegIInv, RegTypeOK, Homed, Held, CloseOwners,
     timerVars, ownerVars
<1>12. ASSUME CloseReturn PROVE Held'
  BY <1>12, RegistryAssumption DEF RegIInv, RegTypeOK, Homed, Held, CloseReturn,
     timerVars, ownerVars
<1>13. CASE UNCHANGED regVars
  BY <1>13, RegistryAssumption DEF RegIInv, RegTypeOK, Homed, Held, regVars,
     timerVars, ownerVars
<1> QED
  BY <1>1, <1>2, <1>3, <1>4, <1>5, <1>6, <1>7, <1>8, <1>9, <1>10, <1>11, <1>12,
     <1>13 DEF RegNext, RegStep, RegTerminated, RestoreRefused

\* Every step keeps what the stages of Close have established.
LEMMA EmptiedStep == RegIInv /\ [RegNext]_regVars => Emptied'
<1> SUFFICES ASSUME RegIInv, [RegNext]_regVars PROVE Emptied'
  OBVIOUS
<1>1. ASSUME NEW id \in Ids, NEW e \in Entries, NEW d \in BOOLEAN, Register(id, e, d)
      PROVE  Emptied'
  BY <1>1 DEF RegIInv, RegTypeOK, Emptied, Register, Registrable, timerVars,
     ownerVars
<1>2. ASSUME NEW id \in Ids, NEW o \in Owners, Claim(id, o) PROVE Emptied'
  <2>1. closing = "open" /\ closing' = closing
    BY <1>2 DEF Claim
  <2> QED
    BY <2>1 DEF Emptied
<1>3. ASSUME NEW o \in Owners, CompleteClaim(o) PROVE Emptied'
  BY <1>3 DEF RegIInv, RegTypeOK, Emptied, CompleteClaim, timerVars, ownerVars
<1>4. ASSUME NEW o \in Owners, OwnerDone(o) PROVE Emptied'
  BY <1>4 DEF RegIInv, RegTypeOK, Emptied, OwnerDone, timerVars, ownerVars
<1>5. ASSUME NEW o \in Owners, CallbackDone(o) PROVE Emptied'
  BY <1>5 DEF RegIInv, RegTypeOK, Emptied, CallbackDone, timerVars, ownerVars
<1>6. ASSUME NEW o \in Owners, NEW d \in BOOLEAN, RestoreClaim(o, d) PROVE Emptied'
  BY <1>6 DEF RegIInv, RegTypeOK, Emptied, RestoreClaim, timerVars, ownerVars
<1>7. ASSUME NEW t \in Timers, Fire(t) PROVE Emptied'
  BY <1>7 DEF RegIInv, RegTypeOK, Emptied, Fire, timerVars, ownerVars
<1>8. ASSUME NEW t \in Timers, ExpireStale(t) PROVE Emptied'
  BY <1>8 DEF RegIInv, RegTypeOK, Emptied, ExpireStale, timerVars, ownerVars
<1>9. ASSUME NEW t \in Timers, NEW o \in Owners, Expire(t, o) PROVE Emptied'
  <2>1. entries[home[timed[t]]] # None /\ home[timed[t]] \in Ids
    BY <1>9, RegistryAssumption DEF RegIInv, Homed, Expire
  <2>2. closing = "open" /\ closing' = closing
    BY <2>1, <1>9 DEF RegIInv, Emptied, Expire
  <2> QED
    BY <2>2 DEF Emptied
<1>10. ASSUME CloseStart PROVE Emptied'
  BY <1>10 DEF RegIInv, RegTypeOK, Emptied, CloseStart, timerVars, ownerVars
<1>11. ASSUME CloseOwners PROVE Emptied'
  <2>1. Unsettled = {}
    BY <1>11, Counts, FiniteOwners DEF RegIInv, CloseOwners
  <2>2. \A o \in Owners : owner[o] \in {"unused", "done"}
    BY <2>1 DEF RegIInv, RegTypeOK, OwnerStates, Unsettled
  <2> QED
    BY <2>2, <1>11 DEF RegIInv, Emptied, CloseOwners, ownerVars
<1>12. ASSUME CloseReturn PROVE Emptied'
  <2>1. callback = {}
    BY <1>12, Counts, FiniteOwners DEF RegIInv, RegTypeOK, CloseReturn
  <2> QED
    BY <2>1, <1>12 DEF RegIInv, Emptied, CloseReturn, ownerVars
<1>13. CASE UNCHANGED regVars
  BY <1>13 DEF RegIInv, RegTypeOK, Emptied, regVars, timerVars, ownerVars
<1> QED
  BY <1>1, <1>2, <1>3, <1>4, <1>5, <1>6, <1>7, <1>8, <1>9, <1>10, <1>11, <1>12,
     <1>13 DEF RegNext, RegStep, RegTerminated, RestoreRefused

\* Every step keeps that a callback under way has an owner.
LEMMA CalledStep == RegIInv /\ [RegNext]_regVars => Called'
<1> SUFFICES ASSUME RegIInv, [RegNext]_regVars PROVE Called'
  OBVIOUS
<1>1. ASSUME NEW id \in Ids, NEW e \in Entries, NEW d \in BOOLEAN, Register(id, e, d)
      PROVE  Called'
  BY <1>1 DEF RegIInv, RegTypeOK, Called, Register, Registrable, timerVars,
     ownerVars
<1>2. ASSUME NEW id \in Ids, NEW o \in Owners, Claim(id, o) PROVE Called'
  BY <1>2 DEF RegIInv, RegTypeOK, Called, Claim, Own
<1>3. ASSUME NEW o \in Owners, CompleteClaim(o) PROVE Called'
  BY <1>3 DEF RegIInv, RegTypeOK, Called, CompleteClaim, timerVars, ownerVars
<1>4. ASSUME NEW o \in Owners, OwnerDone(o) PROVE Called'
  BY <1>4 DEF RegIInv, RegTypeOK, Called, OwnerDone, timerVars, ownerVars
<1>5. ASSUME NEW o \in Owners, CallbackDone(o) PROVE Called'
  BY <1>5 DEF RegIInv, RegTypeOK, Called, CallbackDone, timerVars, ownerVars
<1>6. ASSUME NEW o \in Owners, NEW d \in BOOLEAN, RestoreClaim(o, d) PROVE Called'
  BY <1>6 DEF RegIInv, RegTypeOK, Called, RestoreClaim, timerVars, ownerVars
<1>7. ASSUME NEW t \in Timers, Fire(t) PROVE Called'
  BY <1>7 DEF RegIInv, RegTypeOK, Called, Fire, timerVars, ownerVars
<1>8. ASSUME NEW t \in Timers, ExpireStale(t) PROVE Called'
  BY <1>8 DEF RegIInv, RegTypeOK, Called, ExpireStale, timerVars, ownerVars
<1>9. ASSUME NEW t \in Timers, NEW o \in Owners, Expire(t, o) PROVE Called'
  BY <1>9 DEF RegIInv, RegTypeOK, Called, Expire, Own
<1>10. ASSUME CloseStart PROVE Called'
  BY <1>10 DEF RegIInv, RegTypeOK, Called, CloseStart, timerVars, ownerVars
<1>11. ASSUME CloseOwners PROVE Called'
  BY <1>11 DEF RegIInv, RegTypeOK, Called, CloseOwners, timerVars, ownerVars
<1>12. ASSUME CloseReturn PROVE Called'
  BY <1>12 DEF RegIInv, RegTypeOK, Called, CloseReturn, timerVars, ownerVars
<1>13. CASE UNCHANGED regVars
  BY <1>13 DEF RegIInv, RegTypeOK, Called, regVars, timerVars, ownerVars
<1> QED
  BY <1>1, <1>2, <1>3, <1>4, <1>5, <1>6, <1>7, <1>8, <1>9, <1>10, <1>11, <1>12,
     <1>13 DEF RegNext, RegStep, RegTerminated, RestoreRefused

\* Every step keeps the wait groups exact.
LEMMA CountsStep == RegIInv /\ [RegNext]_regVars => WaitGroupsExact'
<1> SUFFICES ASSUME RegIInv, [RegNext]_regVars PROVE WaitGroupsExact'
  OBVIOUS
<1>1. ASSUME NEW id \in Ids, NEW e \in Entries, NEW d \in BOOLEAN, Register(id, e, d)
      PROVE  WaitGroupsExact'
  <2>1. Unsettled' = Unsettled /\ UNCHANGED <<callback, ownerWG, callbackWG>>
    BY <1>1 DEF RegIInv, RegTypeOK, Unsettled, Register, Registrable, timerVars, ownerVars
  <2> QED
    BY <2>1, Counts DEF RegIInv
<1>2. ASSUME NEW id \in Ids, NEW o \in Owners, Claim(id, o) PROVE WaitGroupsExact'
  <2>2. /\ ownerWG' = ownerWG + 1 /\ o \notin Unsettled /\ Unsettled' = Unsettled \cup {o}
        /\ o \notin callback
    BY <1>2, OwnFacts DEF Own, Claim
  <2>3. Cardinality(Unsettled') = Cardinality(Unsettled) + 1
    BY <2>2, Counts, FiniteOwners
  <2>4. UNCHANGED <<callback, callbackWG>>
    BY <1>2 DEF Claim
  <2> QED
    BY <2>2, <2>3, <2>4, Counts DEF RegIInv
<1>3. ASSUME NEW o \in Owners, CompleteClaim(o) PROVE WaitGroupsExact'
  <2>1. Unsettled' = Unsettled /\ UNCHANGED <<callback, ownerWG, callbackWG>>
    BY <1>3 DEF RegIInv, RegTypeOK, Unsettled, CompleteClaim, timerVars, ownerVars
  <2> QED
    BY <2>1, Counts DEF RegIInv
<1>4. ASSUME NEW o \in Owners, OwnerDone(o) PROVE WaitGroupsExact'
  <2>1. o \in Unsettled /\ Unsettled' = Unsettled \ {o} /\ ownerWG' = ownerWG - 1
        /\ UNCHANGED <<callback, callbackWG>>
    BY <1>4 DEF RegIInv, RegTypeOK, Unsettled, OwnerDone
  <2>2. Cardinality(Unsettled') = Cardinality(Unsettled) - 1
    BY <2>1, Counts, FiniteOwners
  <2> QED
    BY <2>1, <2>2, Counts DEF RegIInv
<1>5. ASSUME NEW o \in Owners, CallbackDone(o) PROVE WaitGroupsExact'
  <2>1. Unsettled' = Unsettled /\ UNCHANGED ownerWG
    BY <1>5 DEF Unsettled, CallbackDone
  <2>2. o \in callback /\ callback' = callback \ {o} /\ callbackWG' = callbackWG - 1
    BY <1>5 DEF CallbackDone
  <2>3. Cardinality(callback') = Cardinality(callback) - 1
    BY <2>2, FiniteOwners DEF RegIInv, RegTypeOK
  <2> QED
    BY <2>1, <2>2, <2>3, Counts DEF RegIInv
<1>6. ASSUME NEW o \in Owners, NEW d \in BOOLEAN, RestoreClaim(o, d)
      PROVE  WaitGroupsExact'
  <2>1. Unsettled' = Unsettled /\ UNCHANGED <<callback, ownerWG, callbackWG>>
    BY <1>6 DEF RegIInv, RegTypeOK, Unsettled, RestoreClaim, timerVars, ownerVars
  <2> QED
    BY <2>1, Counts DEF RegIInv
<1>7. ASSUME NEW t \in Timers, Fire(t) PROVE WaitGroupsExact'
  <2>1. Unsettled' = Unsettled /\ UNCHANGED <<callback, ownerWG, callbackWG>>
    BY <1>7 DEF RegIInv, RegTypeOK, Unsettled, Fire, timerVars, ownerVars
  <2> QED
    BY <2>1, Counts DEF RegIInv
<1>8. ASSUME NEW t \in Timers, ExpireStale(t) PROVE WaitGroupsExact'
  <2>1. Unsettled' = Unsettled /\ UNCHANGED <<callback, ownerWG, callbackWG>>
    BY <1>8 DEF RegIInv, RegTypeOK, Unsettled, ExpireStale, timerVars, ownerVars
  <2> QED
    BY <2>1, Counts DEF RegIInv
<1>9. ASSUME NEW t \in Timers, NEW o \in Owners, Expire(t, o) PROVE WaitGroupsExact'
  <2>1. home[timed[t]] \in Ids /\ entries[home[timed[t]]] # None
    BY <1>9, RegistryAssumption DEF RegIInv, Homed, Expire
  <2>2. /\ ownerWG' = ownerWG + 1 /\ o \notin Unsettled /\ Unsettled' = Unsettled \cup {o}
        /\ o \notin callback
    BY <2>1, <1>9, OwnFacts DEF Own, Expire
  <2>3. Cardinality(Unsettled') = Cardinality(Unsettled) + 1
    BY <2>2, Counts, FiniteOwners
  <2>4. callbackWG' = callbackWG + 1 /\ callback' = callback \cup {o}
    BY <1>9 DEF Expire
  <2>5. Cardinality(callback') = Cardinality(callback) + 1
    BY <2>2, <2>4, FiniteOwners DEF RegIInv, RegTypeOK
  <2> QED
    BY <2>2, <2>3, <2>4, <2>5, Counts DEF RegIInv
<1>10. ASSUME CloseStart PROVE WaitGroupsExact'
  <2>1. Unsettled' = Unsettled /\ UNCHANGED <<callback, ownerWG, callbackWG>>
    BY <1>10 DEF RegIInv, RegTypeOK, Unsettled, CloseStart, timerVars, ownerVars
  <2> QED
    BY <2>1, Counts DEF RegIInv
<1>11. ASSUME CloseOwners PROVE WaitGroupsExact'
  <2>1. Unsettled' = Unsettled /\ UNCHANGED <<callback, ownerWG, callbackWG>>
    BY <1>11 DEF RegIInv, RegTypeOK, Unsettled, CloseOwners, timerVars, ownerVars
  <2> QED
    BY <2>1, Counts DEF RegIInv
<1>12. ASSUME CloseReturn PROVE WaitGroupsExact'
  <2>1. Unsettled' = Unsettled /\ UNCHANGED <<callback, ownerWG, callbackWG>>
    BY <1>12 DEF RegIInv, RegTypeOK, Unsettled, CloseReturn, timerVars, ownerVars
  <2> QED
    BY <2>1, Counts DEF RegIInv
<1>13. CASE UNCHANGED regVars
  <2>1. Unsettled' = Unsettled /\ UNCHANGED <<callback, ownerWG, callbackWG>>
    BY <1>13 DEF RegIInv, RegTypeOK, Unsettled, regVars, timerVars, ownerVars
  <2> QED
    BY <2>1, Counts DEF RegIInv
<1> QED
  BY <1>1, <1>2, <1>3, <1>4, <1>5, <1>6, <1>7, <1>8, <1>9, <1>10, <1>11, <1>12,
     <1>13 DEF RegNext, RegStep, RegTerminated, RestoreRefused

\* The initial state of the registry satisfies the invariant.
LEMMA RegInitInv == RegInit => RegIInv
<1> SUFFICES ASSUME RegInit PROVE RegIInv
  OBVIOUS
<1>1. RegTypeOK
  BY RegistryAssumption DEF RegInit, RegTypeOK, TimerStates, OwnerStates, CloseStages
<1>2. Homed /\ Held /\ Emptied /\ Called
  BY DEF RegInit, Homed, Held, Emptied, Called
<1>3. Unsettled = {} /\ callback = {}
  BY DEF RegInit, Unsettled
<1>4. WaitGroupsExact
  BY <1>3, Counts, FS_EmptySet DEF RegInit
<1> QED
  BY <1>1, <1>2, <1>4 DEF RegIInv

\* Every step of the registry keeps the invariant.
LEMMA RegInductive == RegIInv /\ [RegNext]_regVars => RegIInv'
BY TypeStep, HomedStep, HeldStep, EmptiedStep, CalledStep, CountsStep DEF RegIInv

\* The inductive invariant holds in every state of the registry.
THEOREM RegInvariance == RegSpec => []RegIInv
BY RegInitInv, RegInductive, PTL DEF RegSpec

\* The variables keep their types; no wait group goes below zero, which would panic.
THEOREM RegTypeCorrect == RegSpec => []RegTypeOK
<1>1. RegIInv => RegTypeOK
  BY DEF RegIInv
<1> QED
  BY <1>1, RegInvariance, PTL

\* The two wait groups of the registry count the claims that are not settled and the
\* callbacks that are running, so Close waits for all of them and for nothing else.
THEOREM WaitsAreExact == RegSpec => []WaitGroupsExact
<1>1. RegIInv => WaitGroupsExact
  BY DEF RegIInv
<1> QED
  BY <1>1, RegInvariance, PTL

\* One claimant per handle: a claim that is not settled is the one the map shows, and
\* its handle is not in the registry.
THEOREM ClaimsAreExclusive == RegSpec => []ClaimExclusive
<1>1. RegIInv => ClaimExclusive
  BY LiveFacts DEF ClaimExclusive
<1> QED
  BY <1>1, RegInvariance, PTL

\* Nothing is in custody and no callback runs once Close has returned.
THEOREM QuietOnceClosed == RegSpec => []QuietAfterClose
<1>1. RegIInv => QuietAfterClose
  BY DEF RegIInv, RegTypeOK, Emptied, Held, QuietAfterClose
<1> QED
  BY <1>1, RegInvariance, PTL

-----------------------------------------------------------------------------
\* The refinement of HandleCustody.
Live(e) == \E o \in Owners : owned[o] = e /\ owner[o] = "live"
Parked(e) == home[e] # None /\ entries[home[e]] = e

\* Who has a handle, in the terms of the registry.
LEMMA CustodyFacts ==
  ASSUME RegIInv, NEW e \in Entries
  PROVE  /\ custody[e] = "new" <=> home[e] = None
         /\ custody[e] = "registry" <=> Parked(e)
         /\ custody[e] = "claimant" <=> Live(e)
         /\ Parked(e) => ~Live(e) /\ closing = "open"
         /\ Live(e) => home[e] # None
<1>1. ASSUME NEW o \in Owners, owned[o] = e, owner[o] = "live"
      PROVE  home[e] \in Ids /\ entries[home[e]] = None
  BY <1>1, LiveFacts
<1>2. Live(e) => home[e] # None /\ ~Parked(e)
  BY <1>1, RegistryAssumption DEF Live, Parked
<1>3. home[e] \in Ids \cup {None} /\ (Parked(e) => closing = "open")
  BY RegistryAssumption DEF RegIInv, RegTypeOK, Emptied, Parked
<1>4. custody[e] = IF home[e] = None THEN "new" ELSE IF Parked(e) THEN "registry"
                   ELSE IF Live(e) THEN "claimant" ELSE "released"
  BY DEF custody, Live, Parked
<1>5. /\ custody[e] = "new" <=> home[e] = None
      /\ custody[e] = "registry" <=> Parked(e)
      /\ custody[e] = "claimant" <=> Live(e)
  <2>1. CASE home[e] = None
    BY <1>2, <1>4, <2>1 DEF Parked
  <2>2. CASE home[e] # None /\ Parked(e)
    BY <1>2, <1>4, <2>2
  <2>3. CASE home[e] # None /\ ~Parked(e) /\ Live(e)
    BY <1>4, <2>3
  <2>4. CASE home[e] # None /\ ~Parked(e) /\ ~Live(e)
    BY <1>4, <2>4
  <2> QED
    BY <2>1, <2>2, <2>3, <2>4
<1> QED
  BY <1>2, <1>3, <1>5

\* How custody changes when those three facts do.
LEMMA CustodyNext ==
  ASSUME NEW e \in Entries
  PROVE  custody'[e] = IF home'[e] = None THEN "new" ELSE IF Parked(e)' THEN "registry"
                       ELSE IF Live(e)' THEN "claimant" ELSE "released"
BY DEF custody, Live, Parked

\* The refinement mapping is a function on the handles.
LEMMA CustodyDomain == DOMAIN custody = Entries /\ DOMAIN custody' = Entries
                       /\ custody = [e \in Entries |-> custody[e]]
                       /\ custody' = [e \in Entries |-> custody'[e]]
BY DEF custody

\* A step that leaves every handle where it is maps to a stutter.
LEMMA Same ==
  ASSUME RegIInv, UNCHANGED home,
         \A e \in Entries : (Parked(e)' <=> Parked(e)) /\ (Live(e)' <=> Live(e))
  PROVE  custody' = custody
<1>1. \A e \in Entries : custody'[e] = custody[e]
  BY CustodyNext, Zenon DEF custody, Live, Parked
<1> QED
  BY <1>1, CustodyDomain

\* A claim takes the handle of its id.
LEMMA OwnMaps ==
  ASSUME RegIInv, NEW id \in Ids, NEW o \in Owners, entries[id] # None, Own(id, o),
         UNCHANGED <<home, closing>>
  PROVE  \E e \in Entries : HC!Take(e)
<1> DEFINE h == entries[id]
<1>1. /\ h \in Entries /\ home[h] = id /\ Parked(h) /\ closing = "open" /\ owner[o] = "unused"
  BY OwnFacts, RegistryAssumption DEF Parked
<1>2. /\ owned' = [owned EXCEPT ![o] = h] /\ owner' = [owner EXCEPT ![o] = "live"]
      /\ entries' = [entries EXCEPT ![id] = None]
  BY DEF Own
<1>3. \A e \in Entries : Live(e)' <=> Live(e) \/ e = h
  BY <1>1, <1>2 DEF RegIInv, RegTypeOK, Live
<1>4. \A e \in Entries : Parked(e)' <=> Parked(e) /\ e # h
  BY <1>1, <1>2, RegistryAssumption DEF RegIInv, RegTypeOK, Homed, Parked
<1>5. \A e \in Entries : custody'[e] = IF e = h THEN "claimant" ELSE custody[e]
  BY <1>1, <1>3, <1>4, CustodyNext, CustodyFacts DEF custody, Parked, Live
<1>6. custody' = [custody EXCEPT ![h] = "claimant"]
  BY <1>1, <1>5, CustodyDomain
<1>7. custodyStage = "open" /\ custodyStage' = custodyStage /\ custody[h] = "registry"
  BY <1>1, CustodyFacts DEF custodyStage
<1> QED
  BY <1>1, <1>6, <1>7 DEF HC!Take

\* Every step of the registry is one of HandleCustody or a stutter.
LEMMA MapStep == RegIInv /\ [RegNext]_regVars => [HC!Next]_(HC!vars)
<1> SUFFICES ASSUME RegIInv, [RegNext]_regVars PROVE [HC!Next]_(HC!vars)
  OBVIOUS
<1>1. ASSUME NEW id \in Ids, NEW e \in Entries, NEW d \in BOOLEAN, Register(id, e, d)
      PROVE  [HC!Next]_(HC!vars)
  <2>1. /\ closing = "open" /\ claims[id] = None /\ home[e] = None
        /\ home' = [home EXCEPT ![e] = id] /\ entries' = [entries EXCEPT ![id] = e]
        /\ UNCHANGED <<claims, owned, owner, closing>>
    BY <1>1 DEF Register, Registrable, ownerVars
  <2>2. \A f \in Entries : Live(f)' <=> Live(f)
    BY <2>1 DEF Live
  <2>3. ~Live(e) /\ ~Parked(e)
    BY <2>1, CustodyFacts DEF Parked
  <2>4. \A f \in Entries : home[f] = id => ~Live(f)
    BY <2>1, LiveFacts, RegistryAssumption DEF Live
  <2>5. home'[e] = id /\ entries'[id] = e /\ id # None /\ e # None
    BY <2>1, RegistryAssumption DEF RegIInv, RegTypeOK
  <2>6. \A f \in Entries : f # e => home'[f] = home[f] /\ (Parked(f)' <=> Parked(f) /\ home[f] # id)
    BY <2>1, <2>5 DEF RegIInv, RegTypeOK, Parked
  <2>7. custody'[e] = "registry"
    BY <2>5, CustodyNext DEF Parked
  <2>8. ASSUME NEW f \in Entries, f # e
        PROVE  custody'[f] = IF home[f] = id /\ custody[f] = "registry" THEN "released" ELSE custody[f]
    <3>1. custody[f] = IF home[f] = None THEN "new" ELSE IF Parked(f) THEN "registry"
                       ELSE IF Live(f) THEN "claimant" ELSE "released"
      BY DEF custody, Live, Parked
    <3> QED
      BY <2>2, <2>4, <2>5, <2>6, <2>8, <3>1, CustodyNext
  <2>9. custody' = [x \in Entries |->
                      IF x = e THEN "registry"
                      ELSE IF home[x] = id /\ custody[x] = "registry" THEN "released"
                      ELSE custody[x]]
    BY <2>7, <2>8, CustodyDomain
  <2>10. custody[e] = "new" /\ ~HC!Claimed(id) /\ custodyStage = "open" /\ custodyStage' = "open"
    BY <2>1, <2>4, CustodyFacts DEF HC!Claimed, custodyStage
  <2>11. HC!Park(id, e)
    BY <2>1, <2>9, <2>10 DEF HC!Park
  <2> QED
    BY <2>11 DEF HC!Next
<1>2. ASSUME NEW id \in Ids, NEW o \in Owners, Claim(id, o) PROVE [HC!Next]_(HC!vars)
  <2>1. \E e \in Entries : HC!Take(e)
    BY <1>2, OwnMaps DEF Claim
  <2> QED
    BY <2>1 DEF HC!Next
<1>3. ASSUME NEW o \in Owners, CompleteClaim(o) PROVE [HC!Next]_(HC!vars)
  <2> DEFINE h == owned[o]
  <2>1. h \in Entries /\ Live(h) /\ owner[o] = "live"
    BY <1>3, LiveFacts DEF CompleteClaim, Live
  <2>2. owner' = [owner EXCEPT ![o] = "settling"] /\ UNCHANGED <<home, entries, owned, closing>>
    BY <1>3 DEF CompleteClaim
  <2>3. \A e \in Entries : Parked(e)' <=> Parked(e)
    BY <2>2 DEF Parked
  <2>4. \A e \in Entries : Live(e)' <=> Live(e) /\ e # h
    BY <2>1, <2>2, LiveFacts DEF RegIInv, RegTypeOK, Live
  <2>5. \A e \in Entries : custody'[e] = IF e = h THEN "released" ELSE custody[e]
    BY <2>1, <2>2, <2>3, <2>4, CustodyNext, CustodyFacts DEF custody, Parked, Live
  <2>6. custody' = [custody EXCEPT ![h] = "released"]
    BY <2>1, <2>5, CustodyDomain
  <2>7. HC!Release(h)
    BY <2>1, <2>2, <2>6, CustodyFacts DEF HC!Release, custodyStage
  <2> QED
    BY <2>1, <2>7 DEF HC!Next
<1>4. ASSUME NEW o \in Owners, OwnerDone(o) PROVE [HC!Next]_(HC!vars)
  <2>1. UNCHANGED <<home, entries, owned>> /\ custodyStage' = custodyStage
    BY <1>4 DEF OwnerDone, timerVars, ownerVars, custodyStage
  <2>2. \A e \in Entries : Parked(e)' <=> Parked(e)
    BY <2>1 DEF Parked
  <2>3. \A x \in Owners : owner'[x] = "live" <=> owner[x] = "live"
    BY <1>4 DEF RegIInv, RegTypeOK, OwnerDone, timerVars, ownerVars
  <2>4. \A e \in Entries : Live(e)' <=> Live(e)
    BY <2>1, <2>3 DEF Live
  <2>5. custody' = custody
    BY <2>1, <2>2, <2>4, Same
  <2> QED
    BY <2>1, <2>5 DEF HC!vars
<1>5. ASSUME NEW o \in Owners, CallbackDone(o) PROVE [HC!Next]_(HC!vars)
  <2>1. UNCHANGED <<home, entries, owned>> /\ custodyStage' = custodyStage
    BY <1>5 DEF CallbackDone, timerVars, ownerVars, custodyStage
  <2>2. \A e \in Entries : Parked(e)' <=> Parked(e)
    BY <2>1 DEF Parked
  <2>3. \A x \in Owners : owner'[x] = "live" <=> owner[x] = "live"
    BY <1>5 DEF RegIInv, RegTypeOK, CallbackDone, timerVars, ownerVars
  <2>4. \A e \in Entries : Live(e)' <=> Live(e)
    BY <2>1, <2>3 DEF Live
  <2>5. custody' = custody
    BY <2>1, <2>2, <2>4, Same
  <2> QED
    BY <2>1, <2>5 DEF HC!vars
<1>6. ASSUME NEW o \in Owners, NEW d \in BOOLEAN, RestoreClaim(o, d)
      PROVE  [HC!Next]_(HC!vars)
  <2> DEFINE h == owned[o]
  <2>1. h \in Entries /\ home[h] \in Ids /\ Live(h) /\ entries[home[h]] = None /\ owner[o] = "live"
    BY <1>6, LiveFacts DEF RestoreClaim, Live
  <2>2. /\ owner' = [owner EXCEPT ![o] = "settling"] /\ entries' = [entries EXCEPT ![home[h]] = h]
        /\ UNCHANGED <<home, owned, closing>> /\ closing = "open"
    BY <1>6 DEF RestoreClaim
  <2>3. \A e \in Entries : Parked(e)' <=> Parked(e) \/ e = h
    BY <2>1, <2>2, RegistryAssumption DEF RegIInv, RegTypeOK, Parked
  <2>4. \A e \in Entries : Live(e)' <=> Live(e) /\ e # h
    BY <2>1, <2>2, LiveFacts DEF RegIInv, RegTypeOK, Live
  <2>5. \A e \in Entries : custody'[e] = IF e = h THEN "registry" ELSE custody[e]
    BY <2>1, <2>2, <2>3, <2>4, CustodyNext, CustodyFacts DEF custody, Parked, Live
  <2>6. custody' = [custody EXCEPT ![h] = "registry"]
    BY <2>1, <2>5, CustodyDomain
  <2>7. HC!GiveBack(h)
    BY <2>1, <2>2, <2>6, CustodyFacts DEF HC!GiveBack, custodyStage
  <2> QED
    BY <2>1, <2>7 DEF HC!Next
<1>7. ASSUME NEW t \in Timers, Fire(t) PROVE [HC!Next]_(HC!vars)
  <2>1. UNCHANGED <<home, entries, owned>> /\ custodyStage' = custodyStage
    BY <1>7 DEF Fire, timerVars, ownerVars, custodyStage
  <2>2. \A e \in Entries : Parked(e)' <=> Parked(e)
    BY <2>1 DEF Parked
  <2>3. \A x \in Owners : owner'[x] = "live" <=> owner[x] = "live"
    BY <1>7 DEF RegIInv, RegTypeOK, Fire, timerVars, ownerVars
  <2>4. \A e \in Entries : Live(e)' <=> Live(e)
    BY <2>1, <2>3 DEF Live
  <2>5. custody' = custody
    BY <2>1, <2>2, <2>4, Same
  <2> QED
    BY <2>1, <2>5 DEF HC!vars
<1>8. ASSUME NEW t \in Timers, ExpireStale(t) PROVE [HC!Next]_(HC!vars)
  <2>1. UNCHANGED <<home, entries, owned>> /\ custodyStage' = custodyStage
    BY <1>8 DEF ExpireStale, timerVars, ownerVars, custodyStage
  <2>2. \A e \in Entries : Parked(e)' <=> Parked(e)
    BY <2>1 DEF Parked
  <2>3. \A x \in Owners : owner'[x] = "live" <=> owner[x] = "live"
    BY <1>8 DEF RegIInv, RegTypeOK, ExpireStale, timerVars, ownerVars
  <2>4. \A e \in Entries : Live(e)' <=> Live(e)
    BY <2>1, <2>3 DEF Live
  <2>5. custody' = custody
    BY <2>1, <2>2, <2>4, Same
  <2> QED
    BY <2>1, <2>5 DEF HC!vars
<1>9. ASSUME NEW t \in Timers, NEW o \in Owners, Expire(t, o) PROVE [HC!Next]_(HC!vars)
  <2>1. home[timed[t]] \in Ids /\ entries[home[timed[t]]] # None
    BY <1>9, RegistryAssumption DEF RegIInv, Homed, Expire
  <2>2. \E e \in Entries : HC!Take(e)
    BY <2>1, <1>9, OwnMaps DEF Expire
  <2> QED
    BY <2>2 DEF HC!Next
<1>10. ASSUME CloseStart PROVE [HC!Next]_(HC!vars)
  <2>1. /\ closing = "open" /\ closing' = "owners" /\ entries' = [id \in Ids |-> None]
        /\ UNCHANGED <<home, owned, owner>>
    BY <1>10 DEF CloseStart, ownerVars
  <2>2. \A e \in Entries : ~Parked(e)' /\ (Live(e)' <=> Live(e))
    BY <2>1, RegistryAssumption DEF RegIInv, RegTypeOK, Parked, Live
  <2>3. \A e \in Entries :
          custody'[e] = IF custody[e] = "registry" THEN "released" ELSE custody[e]
    BY <2>1, <2>2, CustodyNext, CustodyFacts DEF custody, Parked, Live
  <2>4. custody' = [e \in Entries |-> IF custody[e] = "registry" THEN "released" ELSE custody[e]]
    BY <2>3, CustodyDomain
  <2>5. HC!Close
    BY <2>1, <2>4 DEF HC!Close, custodyStage
  <2> QED
    BY <2>5 DEF HC!Next
<1>11. ASSUME CloseOwners PROVE [HC!Next]_(HC!vars)
  <2>1. UNCHANGED <<home, entries, owned>> /\ custodyStage' = custodyStage
    BY <1>11 DEF CloseOwners, timerVars, ownerVars, custodyStage
  <2>2. \A e \in Entries : Parked(e)' <=> Parked(e)
    BY <2>1 DEF Parked
  <2>3. \A x \in Owners : owner'[x] = "live" <=> owner[x] = "live"
    BY <1>11 DEF RegIInv, RegTypeOK, CloseOwners, timerVars, ownerVars
  <2>4. \A e \in Entries : Live(e)' <=> Live(e)
    BY <2>1, <2>3 DEF Live
  <2>5. custody' = custody
    BY <2>1, <2>2, <2>4, Same
  <2> QED
    BY <2>1, <2>5 DEF HC!vars
<1>12. ASSUME CloseReturn PROVE [HC!Next]_(HC!vars)
  <2>1. /\ closing = "callbacks" /\ closing' = "returned"
        /\ UNCHANGED <<home, entries, owned, owner>>
    BY <1>12 DEF CloseReturn, ownerVars
  <2>2. \A e \in Entries : (Parked(e)' <=> Parked(e)) /\ (Live(e)' <=> Live(e)) /\ ~Live(e)
    BY <2>1 DEF RegIInv, Emptied, Parked, Live
  <2>3. custody' = custody
    BY <2>1, <2>2, Same
  <2>4. HC!Return
    BY <2>1, <2>2, <2>3, CustodyFacts DEF HC!Return, custodyStage
  <2> QED
    BY <2>4 DEF HC!Next
<1>13. CASE UNCHANGED regVars
  <2>1. UNCHANGED <<home, entries, owned>> /\ custodyStage' = custodyStage
    BY <1>13 DEF regVars, timerVars, ownerVars, custodyStage
  <2>2. \A e \in Entries : Parked(e)' <=> Parked(e)
    BY <2>1 DEF Parked
  <2>3. \A x \in Owners : owner'[x] = "live" <=> owner[x] = "live"
    BY <1>13 DEF RegIInv, RegTypeOK, regVars, timerVars, ownerVars
  <2>4. \A e \in Entries : Live(e)' <=> Live(e)
    BY <2>1, <2>3 DEF Live
  <2>5. custody' = custody
    BY <2>1, <2>2, <2>4, Same
  <2> QED
    BY <2>1, <2>5 DEF HC!vars
<1> QED
  BY <1>1, <1>2, <1>3, <1>4, <1>5, <1>6, <1>7, <1>8, <1>9, <1>10, <1>11, <1>12,
     <1>13 DEF RegNext, RegStep, RegTerminated, RestoreRefused

\* The initial states of the registry are those of HandleCustody.
LEMMA MapInit == RegInit => HC!Init
<1> SUFFICES ASSUME RegInit PROVE HC!Init
  OBVIOUS
<1>1. custody = [e \in Entries |-> "new"]
  BY DEF RegInit, custody
<1> QED
  BY <1>1 DEF RegInit, HC!Init, custodyStage

\* The registry implements HandleCustody: one custodian per handle, one handle per
\* approval, and nothing comes back once it has closed.
THEOREM Implementation == RegSpec => ImplementsCustody
BY MapInit, MapStep, RegInvariance, PTL DEF RegSpec, ImplementsCustody, HC!Spec

-----------------------------------------------------------------------------
\* The second part: the tasks, the workers and the daemon around the registry.

\* The part of TypeOK that is not about the registry.
LifeTypeOK ==
  /\ record \in [Ids -> {"none", "pending"} \cup Resolutions]
  /\ consumed \subseteq Ids /\ late \subseteq Ids
  /\ ran \in [Ids -> Nat]
  /\ task \in [Tasks -> TaskStates]
  /\ asked \in [Tasks -> Ids \cup {None}]
  /\ work \in [Tasks -> WorkPoints]
  /\ about \in [Tasks -> Ids \cup {None}]
  /\ accepted \subseteq Tasks /\ released \subseteq Tasks /\ early \subseteq Tasks
  /\ retain \in [Tasks -> BOOLEAN]
  /\ kind \in [Owners -> {"none", "decision", "late", "expiry"}]
  /\ want \in [Owners -> {"none"} \cup Resolutions]
  /\ at \in [Owners -> ClaimPoints]
  /\ outcome \in [Owners -> Outcomes]
  /\ missing \subseteq Ids \X BOOLEAN
  /\ stage \in Stages
  /\ hands \in [Entries -> {"none", "resolve", "finalize"}]
  /\ faults \in 0 .. MaxFaults

\* A claim has an owner from the step that makes it.
Fresh ==
  /\ \A o \in Owners : owner[o] = "unused" <=> at[o] = "none"
  /\ \A o \in Owners : owner[o] = "unused" => owned[o] = None

\* What holds at some points of a worker and of a claim.
Points ==
  /\ \A x \in Tasks : work[x] \in {"start", "checked", "paused", "parked"} => about[x] \in Ids
  /\ \A x \in Tasks : work[x] \notin {"idle", "leaving"} => ~retain[x]
  /\ \A o \in Owners : kind[o] = "expiry" =>
       at[o] \notin {"read", "fail", "cancel", "resume", "enqueue", "kept"}
  /\ \A o \in Owners : at[o] # "none" => want[o] \in Resolutions

\* The approval a task names is one of its own.
Links ==
  /\ \A x \in Tasks : about[x] # None => TaskOf[about[x]] = x
  /\ \A x \in Tasks : task[x] = "pending" => asked[x] \in Ids /\ TaskOf[asked[x]] = x

\* The tool call was started once if the approval was consumed, else never.
Once ==
  \A id \in Ids : /\ id \in consumed => ran[id] = 1 /\ record[id] = "approved"
                  /\ id \notin consumed => ran[id] = 0

\* What each stage of close() has waited for.
Closedown ==
  /\ closing # "open" => stage \in {"drained", "down"}
  /\ stage \in {"drained", "down"} => accepted = {} /\ \A x \in Tasks : work[x] = "idle"
  /\ \A e \in Entries : hands[e] # "none" => closing # "open" /\ home[e] \in Ids
  /\ stage = "down" => closing = "returned" /\ \A e \in Entries : hands[e] = "none"

\* Who may hold a task: a run that has not been parked, a handle in the registry, a
\* claim that has not passed the task on, or a handle that Close has returned.
Working(x) == work[x] # "idle" /\ ~(work[x] = "leaving" /\ retain[x])
Waits(x) == \E id \in Ids : TaskOf[id] = x /\ entries[id] # None
Holds(o) == at[o] \notin {"none", "kept", "end"} /\ ~(kind[o] = "expiry" /\ at[o] = "complete")
Claimed(x) == \E o \in Owners : Holds(o) /\ JobOf(o) = x
Returned(x) == \E e \in Entries : hands[e] # "none" /\ TaskOf[home[e]] = x

\* A task whose lease was not released is held.
Covered ==
  \A x \in Tasks :
    x \in released \/ x \in accepted \/ Working(x) \/ Waits(x) \/ Claimed(x) \/ Returned(x)

\* No two of them hold one task.
Baton ==
  /\ \A x \in accepted : ~Working(x) /\ ~Waits(x) /\ ~Claimed(x) /\ ~Returned(x)
  /\ \A x \in Tasks : Working(x) => ~Waits(x) /\ ~Claimed(x) /\ ~Returned(x)
  /\ \A x \in Tasks : Waits(x) => ~Claimed(x)
  /\ \A x \in Tasks : Claimed(x) => ~Returned(x)
  /\ \A o, w \in Owners : Holds(o) /\ Holds(w) /\ JobOf(o) = JobOf(w) => o = w
  /\ \A i, j \in Ids : entries[i] # None /\ entries[j] # None /\ TaskOf[i] = TaskOf[j] => i = j

\* While the runtime is up nobody holds a task whose lease was released.
Free ==
  stage = "up" =>
    \A x \in released : x \notin accepted /\ ~Working(x) /\ ~Waits(x) /\ ~Claimed(x)

IInv ==
  /\ RegIInv /\ LifeTypeOK /\ Fresh /\ Points /\ Links /\ Once /\ Closedown
  /\ Covered /\ Baton /\ Free

-----------------------------------------------------------------------------
\* The registry types its own variables, and the lifecycle the rest.
LEMMA TypeParts == TypeOK <=> RegTypeOK /\ LifeTypeOK
BY DEF TypeOK, LifeTypeOK

\* A claim that was made names a handle, an approval and a task.
LEMMA ClaimFacts ==
  ASSUME IInv, NEW o \in Owners, at[o] # "none"
  PROVE  /\ owner[o] # "unused" /\ owned[o] \in Entries
         /\ IdOf(o) \in Ids /\ JobOf(o) \in Tasks /\ JobOf(o) = TaskOf[IdOf(o)]
<1>1. owner[o] # "unused"
  BY DEF IInv, Fresh
<1>2. owned[o] \in Entries /\ IdOf(o) \in Ids
  BY <1>1 DEF IInv, RegIInv, Homed, IdOf
<1> QED
  BY <1>1, <1>2, LifecycleAssumption DEF JobOf

\* A worker that has paused, or resumes, names an approval of its task.
LEMMA AboutFacts ==
  ASSUME IInv, NEW x \in Tasks, work[x] \in {"start", "checked", "paused", "parked"}
  PROVE  about[x] \in Ids /\ TaskOf[about[x]] = x
BY RegistryAssumption DEF IInv, Points, Links

\* What a step does to the registry is a step of the registry.
LEMMA RegistryStep == IInv /\ [Next]_vars => [RegNext]_regVars
<1> SUFFICES ASSUME IInv, [Next]_vars PROVE [RegNext]_regVars
  OBVIOUS
<1> USE DEF lifeVars, claimRest, recVars, taskVars, workVars, claimVars, missVars,
   regVars, timerVars, ownerVars
<1>1. ASSUME NEW x \in Tasks, StartJob(x) PROVE [RegNext]_regVars
  BY <1>1 DEF StartJob, lifeVars, claimRest
<1>2. ASSUME NEW x \in Tasks, FinishRun(x) PROVE [RegNext]_regVars
  BY <1>2 DEF FinishRun, lifeVars, claimRest
<1>3. ASSUME NEW x \in Tasks, NEW id \in Ids, PauseRun(x, id) PROVE [RegNext]_regVars
  BY <1>3 DEF PauseRun, lifeVars, claimRest
<1>4. ASSUME NEW x \in Tasks, CheckResume(x) PROVE [RegNext]_regVars
  BY <1>4 DEF CheckResume, lifeVars, claimRest
<1>5. ASSUME NEW x \in Tasks, Consume(x) PROVE [RegNext]_regVars
  BY <1>5 DEF Consume, lifeVars, claimRest
<1>6. ASSUME NEW x \in Tasks, MarkPending(x) PROVE [RegNext]_regVars
  BY <1>6 DEF MarkPending, lifeVars, claimRest
<1>7. ASSUME NEW x \in Tasks, NEW e \in Entries, Park(x, e) PROVE [RegNext]_regVars
  <2>1. about[x] \in Ids
    BY <1>7, AboutFacts DEF Park
  <2>2. Register(about[x], e, TRUE)
    BY <1>7 DEF Park
  <2> QED
    BY <2>1, <2>2 DEF RegNext, RegStep
<1>8. ASSUME NEW x \in Tasks, ParkFails(x) PROVE [RegNext]_regVars
  BY <1>8 DEF ParkFails, lifeVars, claimRest
<1>9. ASSUME NEW x \in Tasks, LeaveJob(x) PROVE [RegNext]_regVars
  BY <1>9 DEF LeaveJob, lifeVars, claimRest
<1>10. ASSUME NEW id \in Ids, NEW approve \in BOOLEAN, NEW o \in Owners, Decide(id, approve, o)
       PROVE  [RegNext]_regVars
  BY <1>10 DEF Decide, RegNext, RegStep
<1>11. ASSUME NEW t \in Timers, NEW o \in Owners, ExpireHandle(t, o)
       PROVE  [RegNext]_regVars
  BY <1>11 DEF ExpireHandle, RegNext, RegStep
<1>12. ASSUME NEW o \in Owners, ReadRecord(o) PROVE [RegNext]_regVars
  BY <1>12 DEF ReadRecord, lifeVars, claimRest
<1>13. ASSUME NEW o \in Owners, Resolve(o) PROVE [RegNext]_regVars
  BY <1>13 DEF Resolve, lifeVars, claimRest
<1>14. ASSUME NEW o \in Owners, Reread(o) PROVE [RegNext]_regVars
  BY <1>14 DEF Reread, lifeVars, claimRest
<1>15. ASSUME NEW o \in Owners, CancelExpired(o) PROVE [RegNext]_regVars
  BY <1>15 DEF CancelExpired, lifeVars, claimRest
<1>16. ASSUME NEW o \in Owners, FailExpired(o) PROVE [RegNext]_regVars
  BY <1>16 DEF FailExpired, lifeVars, claimRest
<1>17. ASSUME NEW o \in Owners, ExpiryUnsure(o) PROVE [RegNext]_regVars
  BY <1>17 DEF ExpiryUnsure, lifeVars, claimRest
<1>18. ASSUME NEW o \in Owners, RetryExpiry(o) PROVE [RegNext]_regVars
  BY <1>18 DEF RetryExpiry, RegNext, RegStep
<1>19. ASSUME NEW o \in Owners, RetryRefused(o) PROVE [RegNext]_regVars
  BY <1>19 DEF RetryRefused, RegNext, RegStep
<1>20. ASSUME NEW o \in Owners, FinalizeOrphan(o) PROVE [RegNext]_regVars
  BY <1>20 DEF FinalizeOrphan, lifeVars, claimRest
<1>21. ASSUME NEW o \in Owners, Settle(o) PROVE [RegNext]_regVars
  BY <1>21 DEF Settle, lifeVars, claimRest
<1>22. ASSUME NEW o \in Owners, GiveBack(o) PROVE [RegNext]_regVars
  BY <1>22 DEF GiveBack, RegNext, RegStep
<1>23. ASSUME NEW o \in Owners, FailClaimed(o) PROVE [RegNext]_regVars
  BY <1>23 DEF FailClaimed, lifeVars, claimRest
<1>24. ASSUME NEW o \in Owners, CancelClaimed(o) PROVE [RegNext]_regVars
  BY <1>24 DEF CancelClaimed, lifeVars, claimRest
<1>25. ASSUME NEW o \in Owners, Requeue(o) PROVE [RegNext]_regVars
  BY <1>25 DEF Requeue, lifeVars, claimRest
<1>26. ASSUME NEW o \in Owners, Enqueue(o) PROVE [RegNext]_regVars
  BY <1>26 DEF Enqueue, lifeVars, claimRest
<1>27. ASSUME NEW o \in Owners, Complete(o) PROVE [RegNext]_regVars
  BY <1>27 DEF Complete, RegNext, RegStep
<1>28. ASSUME NEW o \in Owners, ReleaseLease(o) PROVE [RegNext]_regVars
  BY <1>28 DEF ReleaseLease, lifeVars, claimRest
<1>29. ASSUME NEW id \in Ids, NEW approve \in BOOLEAN, DecideMissing(id, approve)
       PROVE  [RegNext]_regVars
  BY <1>29 DEF DecideMissing, lifeVars, claimRest
<1>30. ASSUME NEW id \in Ids, NEW approve \in BOOLEAN, UpdateMissing(id, approve)
       PROVE  [RegNext]_regVars
  BY <1>30 DEF UpdateMissing, lifeVars, claimRest
<1>31. ASSUME NEW id \in Ids, PassDeadline(id) PROVE [RegNext]_regVars
  BY <1>31 DEF PassDeadline, lifeVars, claimRest
<1>32. ASSUME NEW t \in Timers, FireTimer(t) PROVE [RegNext]_regVars
  BY <1>32 DEF FireTimer, RegNext, RegStep
<1>33. ASSUME NEW o \in Owners, Unlock(o) PROVE [RegNext]_regVars
  BY <1>33 DEF Unlock, RegNext, RegStep
<1>34. ASSUME NEW o \in Owners, LeaveCallback(o) PROVE [RegNext]_regVars
  BY <1>34 DEF LeaveCallback, RegNext, RegStep
<1>35. ASSUME NEW t \in Timers, Stale(t) PROVE [RegNext]_regVars
  BY <1>35 DEF Stale, RegNext, RegStep
<1>36. ASSUME StopWorkers PROVE [RegNext]_regVars
  BY <1>36 DEF StopWorkers, lifeVars, claimRest
<1>37. ASSUME RunnerClosed PROVE [RegNext]_regVars
  BY <1>37 DEF RunnerClosed, lifeVars, claimRest
<1>38. ASSUME CloseRegistry PROVE [RegNext]_regVars
  BY <1>38 DEF CloseRegistry, RegNext, RegStep
<1>39. ASSUME WaitRegistry PROVE [RegNext]_regVars
  BY <1>39 DEF WaitRegistry, RegNext, RegStep
<1>40. ASSUME NEW e \in Entries, ResolveHandle(e) PROVE [RegNext]_regVars
  BY <1>40 DEF ResolveHandle, lifeVars, claimRest
<1>41. ASSUME NEW e \in Entries, FinalizeHandle(e) PROVE [RegNext]_regVars
  BY <1>41 DEF FinalizeHandle, lifeVars, claimRest
<1>42. ASSUME Down PROVE [RegNext]_regVars
  BY <1>42 DEF Down, lifeVars, claimRest
<1>43. CASE UNCHANGED vars
  BY <1>43 DEF vars
<1> QED
  BY <1>1, <1>2, <1>3, <1>4, <1>5, <1>6, <1>7, <1>8, <1>9, <1>10, <1>11, <1>12,
     <1>13, <1>14, <1>15, <1>16, <1>17, <1>18, <1>19, <1>20, <1>21, <1>22, <1>23,
     <1>24, <1>25, <1>26, <1>27, <1>28, <1>29, <1>30, <1>31, <1>32, <1>33, <1>34,
     <1>35, <1>36, <1>37, <1>38, <1>39, <1>40, <1>41, <1>42, <1>43 DEF Next,
     WorkStep, ClaimStep, Arrive, UpdateMissed, CloseStep, Finished

\* What an entry was registered for, and what a claim holds, stays.
LEMMA RegKeeps ==
  ASSUME RegIInv, [RegNext]_regVars
  PROVE  /\ \A f \in Entries : home[f] # None => home'[f] = home[f]
         /\ \A w \in Owners : owner[w] # "unused" => owned'[w] = owned[w] /\ owner'[w] # "unused"
<1> DEFINE Goal == /\ \A f \in Entries : home[f] # None => home'[f] = home[f]
                   /\ \A w \in Owners : owner[w] # "unused" =>
                        owned'[w] = owned[w] /\ owner'[w] # "unused"
<1>1. ASSUME NEW id \in Ids, NEW e \in Entries, NEW d \in BOOLEAN, Register(id, e, d)
      PROVE  Goal
  BY <1>1 DEF RegIInv, RegTypeOK, Register, Registrable, Own, timerVars, ownerVars
<1>2. ASSUME NEW id \in Ids, NEW o \in Owners, Claim(id, o) PROVE Goal
  BY <1>2 DEF RegIInv, RegTypeOK, Claim, Own, timerVars, ownerVars
<1>3. ASSUME NEW o \in Owners, CompleteClaim(o) PROVE Goal
  BY <1>3 DEF RegIInv, RegTypeOK, CompleteClaim, Own, timerVars, ownerVars
<1>4. ASSUME NEW o \in Owners, OwnerDone(o) PROVE Goal
  BY <1>4 DEF RegIInv, RegTypeOK, OwnerDone, Own, timerVars, ownerVars
<1>5. ASSUME NEW o \in Owners, CallbackDone(o) PROVE Goal
  BY <1>5 DEF RegIInv, RegTypeOK, CallbackDone, Own, timerVars, ownerVars
<1>6. ASSUME NEW o \in Owners, NEW d \in BOOLEAN, RestoreClaim(o, d) PROVE Goal
  BY <1>6 DEF RegIInv, RegTypeOK, RestoreClaim, Own, timerVars, ownerVars
<1>7. ASSUME NEW t \in Timers, Fire(t) PROVE Goal
  BY <1>7 DEF RegIInv, RegTypeOK, Fire, Own, timerVars, ownerVars
<1>8. ASSUME NEW t \in Timers, ExpireStale(t) PROVE Goal
  BY <1>8 DEF RegIInv, RegTypeOK, ExpireStale, Own, timerVars, ownerVars
<1>9. ASSUME NEW t \in Timers, NEW o \in Owners, Expire(t, o) PROVE Goal
  BY <1>9 DEF RegIInv, RegTypeOK, Expire, Own, timerVars, ownerVars
<1>10. ASSUME CloseStart PROVE Goal
  BY <1>10 DEF RegIInv, RegTypeOK, CloseStart, Own, timerVars, ownerVars
<1>11. ASSUME CloseOwners PROVE Goal
  BY <1>11 DEF RegIInv, RegTypeOK, CloseOwners, Own, timerVars, ownerVars
<1>12. ASSUME CloseReturn PROVE Goal
  BY <1>12 DEF RegIInv, RegTypeOK, CloseReturn, Own, timerVars, ownerVars
<1>13. ASSUME UNCHANGED regVars PROVE Goal
  BY <1>13 DEF RegIInv, RegTypeOK, regVars, Own, timerVars, ownerVars
<1> QED
  BY <1>1, <1>2, <1>3, <1>4, <1>5, <1>6, <1>7, <1>8, <1>9, <1>10, <1>11, <1>12,
     <1>13 DEF RegNext, RegStep, RegTerminated, RestoreRefused

\* A claim keeps its approval and its task.
LEMMA IdKept ==
  ASSUME IInv, [Next]_vars
  PROVE  \A w \in Owners : at[w] # "none" => IdOf(w)' = IdOf(w) /\ JobOf(w)' = JobOf(w)
<1>1. [RegNext]_regVars
  BY RegistryStep
<1> SUFFICES ASSUME NEW w \in Owners, at[w] # "none"
             PROVE  IdOf(w)' = IdOf(w) /\ JobOf(w)' = JobOf(w)
  OBVIOUS
<1>2. owner[w] # "unused" /\ owned[w] \in Entries /\ IdOf(w) \in Ids
  BY ClaimFacts
<1>3. RegIInv /\ home[owned[w]] # None
  BY <1>2, RegistryAssumption DEF IInv, IdOf
<1>4. owned'[w] = owned[w] /\ home'[owned[w]] = home[owned[w]]
  BY <1>1, <1>2, <1>3, RegKeeps
<1> QED
  BY <1>4 DEF IdOf, JobOf

\* The count of failures stays within its bound.
LEMMA FaultStep ==
  ASSUME IInv, NEW k, Fault(k) PROVE faults' \in 0 .. MaxFaults
BY LifecycleAssumption DEF IInv, LifeTypeOK, Fault

\* Every step keeps the types of the lifecycle.
LEMMA LifeTypeStep == IInv /\ [Next]_vars => LifeTypeOK'
<1> SUFFICES ASSUME IInv, [Next]_vars PROVE LifeTypeOK'
  OBVIOUS
<1> USE DEF lifeVars, claimRest, recVars, taskVars, workVars, claimVars, missVars,
   regVars, timerVars, ownerVars
<1>1. ASSUME NEW x \in Tasks, StartJob(x) PROVE LifeTypeOK'
  <2>1. faults' \in 0 .. MaxFaults
    BY <1>1, FaultStep DEF IInv, LifeTypeOK, StartJob, SetTask, FinalizeAccepted, Fault
  <2> QED
    BY <1>1, <2>1 DEF IInv, LifeTypeOK, WorkPoints, ClaimPoints, Outcomes, Stages,
       TaskStates, Terminal, Resolutions, StartJob, SetTask, FinalizeAccepted, Fault
<1>2. ASSUME NEW x \in Tasks, FinishRun(x) PROVE LifeTypeOK'
  <2>1. faults' \in 0 .. MaxFaults
    BY <1>2, FaultStep DEF IInv, LifeTypeOK, FinishRun, SetTask, Fault
  <2> QED
    BY <1>2, <2>1 DEF IInv, LifeTypeOK, WorkPoints, ClaimPoints, Outcomes, Stages,
       TaskStates, Terminal, Resolutions, FinishRun, SetTask, Fault
<1>3. ASSUME NEW x \in Tasks, NEW id \in Ids, PauseRun(x, id) PROVE LifeTypeOK'
  BY <1>3 DEF IInv, LifeTypeOK, WorkPoints, ClaimPoints, Outcomes, Stages,
     TaskStates, Terminal, Resolutions, PauseRun
<1>4. ASSUME NEW x \in Tasks, CheckResume(x) PROVE LifeTypeOK'
  <2>1. about[x] \in Ids
    BY <1>4, AboutFacts DEF CheckResume
  <2> QED
    BY <1>4, <2>1 DEF IInv, LifeTypeOK, WorkPoints, ClaimPoints, Outcomes, Stages,
       TaskStates, Terminal, Resolutions, CheckResume, SetTask
<1>5. ASSUME NEW x \in Tasks, Consume(x) PROVE LifeTypeOK'
  <2>1. faults' \in 0 .. MaxFaults
    BY <1>5, FaultStep DEF IInv, LifeTypeOK, Consume, Consumable, SetTask, Fault
  <2>2. about[x] \in Ids
    BY <1>5, AboutFacts DEF Consume
  <2> QED
    BY <1>5, <2>1, <2>2 DEF IInv, LifeTypeOK, WorkPoints, ClaimPoints, Outcomes,
       Stages, TaskStates, Terminal, Resolutions, Consume, Consumable, SetTask,
       Fault
<1>6. ASSUME NEW x \in Tasks, MarkPending(x) PROVE LifeTypeOK'
  <2>1. faults' \in 0 .. MaxFaults
    BY <1>6, FaultStep DEF IInv, LifeTypeOK, MarkPending, SetTask, Fault
  <2>2. about[x] \in Ids
    BY <1>6, AboutFacts DEF MarkPending
  <2> QED
    BY <1>6, <2>1, <2>2 DEF IInv, LifeTypeOK, WorkPoints, ClaimPoints, Outcomes,
       Stages, TaskStates, Terminal, Resolutions, MarkPending, SetTask, Fault
<1>7. ASSUME NEW x \in Tasks, NEW e \in Entries, Park(x, e) PROVE LifeTypeOK'
  <2>1. about[x] \in Ids
    BY <1>7, AboutFacts DEF Park
  <2> QED
    BY <1>7, <2>1 DEF IInv, LifeTypeOK, WorkPoints, ClaimPoints, Outcomes, Stages,
       TaskStates, Terminal, Resolutions, Park, Register, Registrable
<1>8. ASSUME NEW x \in Tasks, ParkFails(x) PROVE LifeTypeOK'
  <2>1. faults' \in 0 .. MaxFaults
    BY <1>8, FaultStep DEF IInv, LifeTypeOK, ParkFails, Fault, FailPending,
       UpdatePending, SetTask
  <2>2. about[x] \in Ids
    BY <1>8, AboutFacts DEF ParkFails
  <2> QED
    BY <1>8, <2>1, <2>2 DEF IInv, LifeTypeOK, WorkPoints, ClaimPoints, Outcomes,
       Stages, TaskStates, Terminal, Resolutions, ParkFails, Fault, FailPending,
       UpdatePending, SetTask
<1>9. ASSUME NEW x \in Tasks, LeaveJob(x) PROVE LifeTypeOK'
  BY <1>9 DEF IInv, LifeTypeOK, WorkPoints, ClaimPoints, Outcomes, Stages,
     TaskStates, Terminal, Resolutions, LeaveJob, FinalizeAccepted, SetTask
<1>10. ASSUME NEW id \in Ids, NEW approve \in BOOLEAN, NEW o \in Owners, Decide(id, approve, o)
       PROVE  LifeTypeOK'
  BY <1>10 DEF IInv, LifeTypeOK, WorkPoints, ClaimPoints, Outcomes, Stages,
     TaskStates, Terminal, Resolutions, Decide, Claim, Own, Goto
<1>11. ASSUME NEW t \in Timers, NEW o \in Owners, ExpireHandle(t, o) PROVE LifeTypeOK'
  BY <1>11 DEF IInv, LifeTypeOK, WorkPoints, ClaimPoints, Outcomes, Stages,
     TaskStates, Terminal, Resolutions, ExpireHandle, Expire, Own, Goto
<1>12. ASSUME NEW o \in Owners, ReadRecord(o) PROVE LifeTypeOK'
  <2>1. at[o] # "none"
    BY <1>12 DEF ReadRecord
  <2>2. IdOf(o) \in Ids /\ JobOf(o) \in Tasks
    BY <2>1, ClaimFacts
  <2>3. faults' \in 0 .. MaxFaults
    BY <1>12, FaultStep DEF IInv, LifeTypeOK, ReadRecord, Fault, Goto
  <2> QED
    BY <1>12, <2>2, <2>3 DEF IInv, LifeTypeOK, WorkPoints, ClaimPoints, Outcomes,
       Stages, TaskStates, Terminal, Resolutions, ReadRecord, Fault, Goto
<1>13. ASSUME NEW o \in Owners, Resolve(o) PROVE LifeTypeOK'
  <2>1. at[o] # "none"
    BY <1>13 DEF Resolve
  <2>2. IdOf(o) \in Ids /\ JobOf(o) \in Tasks
    BY <2>1, ClaimFacts
  <2>3. faults' \in 0 .. MaxFaults
    BY <1>13, FaultStep DEF IInv, LifeTypeOK, Resolve, Fault, Goto
  <2> QED
    BY <1>13, <2>2, <2>3 DEF IInv, LifeTypeOK, WorkPoints, ClaimPoints, Outcomes,
       Stages, TaskStates, Terminal, Resolutions, Resolve, Fault, Goto
<1>14. ASSUME NEW o \in Owners, Reread(o) PROVE LifeTypeOK'
  <2>1. at[o] # "none"
    BY <1>14 DEF Reread
  <2>2. IdOf(o) \in Ids /\ JobOf(o) \in Tasks
    BY <2>1, ClaimFacts
  <2>3. faults' \in 0 .. MaxFaults
    BY <1>14, FaultStep DEF IInv, LifeTypeOK, Reread, Fault, Goto
  <2> QED
    BY <1>14, <2>2, <2>3 DEF IInv, LifeTypeOK, WorkPoints, ClaimPoints, Outcomes,
       Stages, TaskStates, Terminal, Resolutions, Reread, Fault, Goto
<1>15. ASSUME NEW o \in Owners, CancelExpired(o) PROVE LifeTypeOK'
  <2>1. at[o] # "none"
    BY <1>15 DEF CancelExpired
  <2>2. IdOf(o) \in Ids /\ JobOf(o) \in Tasks
    BY <2>1, ClaimFacts
  <2>3. faults' \in 0 .. MaxFaults
    BY <1>15, FaultStep DEF IInv, LifeTypeOK, CancelExpired, Expiring,
       UpdatePending, SetTask, Done, Goto, Fault
  <2> QED
    BY <1>15, <2>2, <2>3 DEF IInv, LifeTypeOK, WorkPoints, ClaimPoints, Outcomes,
       Stages, TaskStates, Terminal, Resolutions, CancelExpired, Expiring,
       UpdatePending, SetTask, Done, Goto, Fault
<1>16. ASSUME NEW o \in Owners, FailExpired(o) PROVE LifeTypeOK'
  <2>1. at[o] # "none"
    BY <1>16 DEF FailExpired
  <2>2. IdOf(o) \in Ids /\ JobOf(o) \in Tasks
    BY <2>1, ClaimFacts
  <2>3. faults' \in 0 .. MaxFaults
    BY <1>16, FaultStep DEF IInv, LifeTypeOK, FailExpired, Expiring, FailPending,
       UpdatePending, SetTask, Done, GiveUp, Goto, Fault
  <2> QED
    BY <1>16, <2>2, <2>3 DEF IInv, LifeTypeOK, WorkPoints, ClaimPoints, Outcomes,
       Stages, TaskStates, Terminal, Resolutions, FailExpired, Expiring,
       FailPending, UpdatePending, SetTask, Done, GiveUp, Goto, Fault
<1>17. ASSUME NEW o \in Owners, ExpiryUnsure(o) PROVE LifeTypeOK'
  <2>1. at[o] # "none"
    BY <1>17 DEF ExpiryUnsure
  <2>2. IdOf(o) \in Ids /\ JobOf(o) \in Tasks
    BY <2>1, ClaimFacts
  <2> QED
    BY <1>17, <2>2 DEF IInv, LifeTypeOK, WorkPoints, ClaimPoints, Outcomes, Stages,
       TaskStates, Terminal, Resolutions, ExpiryUnsure, Expiring, GiveUp, Goto
<1>18. ASSUME NEW o \in Owners, RetryExpiry(o) PROVE LifeTypeOK'
  <2>1. at[o] # "none"
    BY <1>18 DEF RetryExpiry
  <2>2. IdOf(o) \in Ids /\ JobOf(o) \in Tasks
    BY <2>1, ClaimFacts
  <2> QED
    BY <1>18, <2>2 DEF IInv, LifeTypeOK, WorkPoints, ClaimPoints, Outcomes, Stages,
       TaskStates, Terminal, Resolutions, RetryExpiry, RestoreClaim, Goto
<1>19. ASSUME NEW o \in Owners, RetryRefused(o) PROVE LifeTypeOK'
  <2>1. at[o] # "none"
    BY <1>19 DEF RetryRefused
  <2>2. IdOf(o) \in Ids /\ JobOf(o) \in Tasks
    BY <2>1, ClaimFacts
  <2> QED
    BY <1>19, <2>2 DEF IInv, LifeTypeOK, WorkPoints, ClaimPoints, Outcomes, Stages,
       TaskStates, Terminal, Resolutions, RetryRefused, RestoreRefused,
       CompleteClaim, Goto
<1>20. ASSUME NEW o \in Owners, FinalizeOrphan(o) PROVE LifeTypeOK'
  <2>1. at[o] # "none"
    BY <1>20 DEF FinalizeOrphan
  <2>2. IdOf(o) \in Ids /\ JobOf(o) \in Tasks
    BY <2>1, ClaimFacts
  <2>3. faults' \in 0 .. MaxFaults
    BY <1>20, FaultStep DEF IInv, LifeTypeOK, FinalizeOrphan, FailPending,
       UpdatePending, SetTask, Fault, Goto
  <2> QED
    BY <1>20, <2>2, <2>3 DEF IInv, LifeTypeOK, WorkPoints, ClaimPoints, Outcomes,
       Stages, TaskStates, Terminal, Resolutions, FinalizeOrphan, FailPending,
       UpdatePending, SetTask, Fault, Goto
<1>21. ASSUME NEW o \in Owners, Settle(o) PROVE LifeTypeOK'
  <2>1. at[o] # "none"
    BY <1>21 DEF Settle
  <2>2. IdOf(o) \in Ids /\ JobOf(o) \in Tasks
    BY <2>1, ClaimFacts
  <2> QED
    BY <1>21, <2>2 DEF IInv, LifeTypeOK, WorkPoints, ClaimPoints, Outcomes, Stages,
       TaskStates, Terminal, Resolutions, Settle, Goto
<1>22. ASSUME NEW o \in Owners, GiveBack(o) PROVE LifeTypeOK'
  <2>1. at[o] # "none"
    BY <1>22 DEF GiveBack
  <2>2. IdOf(o) \in Ids /\ JobOf(o) \in Tasks
    BY <2>1, ClaimFacts
  <2> QED
    BY ZenonT(40), <1>22, <2>2 DEF IInv, LifeTypeOK, WorkPoints, ClaimPoints, Outcomes, Stages,
       TaskStates, Terminal, Resolutions, GiveBack, RestoreClaim, RestoreRefused,
       CompleteClaim, Goto
<1>23. ASSUME NEW o \in Owners, FailClaimed(o) PROVE LifeTypeOK'
  <2>1. at[o] # "none"
    BY <1>23 DEF FailClaimed
  <2>2. IdOf(o) \in Ids /\ JobOf(o) \in Tasks
    BY <2>1, ClaimFacts
  <2>3. faults' \in 0 .. MaxFaults
    BY <1>23, FaultStep DEF IInv, LifeTypeOK, FailClaimed, FailPending,
       UpdatePending, SetTask, Fault, Goto
  <2> QED
    BY <1>23, <2>2, <2>3 DEF IInv, LifeTypeOK, WorkPoints, ClaimPoints, Outcomes,
       Stages, TaskStates, Terminal, Resolutions, FailClaimed, FailPending,
       UpdatePending, SetTask, Fault, Goto
<1>24. ASSUME NEW o \in Owners, CancelClaimed(o) PROVE LifeTypeOK'
  <2>1. at[o] # "none"
    BY <1>24 DEF CancelClaimed
  <2>2. IdOf(o) \in Ids /\ JobOf(o) \in Tasks
    BY <2>1, ClaimFacts
  <2>3. faults' \in 0 .. MaxFaults
    BY <1>24, FaultStep DEF IInv, LifeTypeOK, CancelClaimed, SetTask, Fault, Goto
  <2> QED
    BY <1>24, <2>2, <2>3 DEF IInv, LifeTypeOK, WorkPoints, ClaimPoints, Outcomes,
       Stages, TaskStates, Terminal, Resolutions, CancelClaimed, SetTask, Fault,
       Goto
<1>25. ASSUME NEW o \in Owners, Requeue(o) PROVE LifeTypeOK'
  <2>1. at[o] # "none"
    BY <1>25 DEF Requeue
  <2>2. IdOf(o) \in Ids /\ JobOf(o) \in Tasks
    BY <2>1, ClaimFacts
  <2>3. faults' \in 0 .. MaxFaults
    BY <1>25, FaultStep DEF IInv, LifeTypeOK, Requeue, SetTask, Fault, Goto
  <2> QED
    BY <1>25, <2>2, <2>3 DEF IInv, LifeTypeOK, WorkPoints, ClaimPoints, Outcomes,
       Stages, TaskStates, Terminal, Resolutions, Requeue, SetTask, Fault, Goto
<1>26. ASSUME NEW o \in Owners, Enqueue(o) PROVE LifeTypeOK'
  <2>1. at[o] # "none"
    BY <1>26 DEF Enqueue
  <2>2. IdOf(o) \in Ids /\ JobOf(o) \in Tasks
    BY <2>1, ClaimFacts
  <2>3. faults' \in 0 .. MaxFaults
    BY <1>26, FaultStep DEF IInv, LifeTypeOK, Enqueue, SetTask, Fault, Goto
  <2> QED
    BY <1>26, <2>2, <2>3 DEF IInv, LifeTypeOK, WorkPoints, ClaimPoints, Outcomes,
       Stages, TaskStates, Terminal, Resolutions, Enqueue, SetTask, Fault, Goto
<1>27. ASSUME NEW o \in Owners, Complete(o) PROVE LifeTypeOK'
  <2>1. at[o] # "none"
    BY <1>27 DEF Complete
  <2>2. IdOf(o) \in Ids /\ JobOf(o) \in Tasks
    BY <2>1, ClaimFacts
  <2> QED
    BY <1>27, <2>2 DEF IInv, LifeTypeOK, WorkPoints, ClaimPoints, Outcomes, Stages,
       TaskStates, Terminal, Resolutions, Complete, CompleteClaim, Goto
<1>28. ASSUME NEW o \in Owners, ReleaseLease(o) PROVE LifeTypeOK'
  <2>1. at[o] # "none"
    BY <1>28 DEF ReleaseLease
  <2>2. IdOf(o) \in Ids /\ JobOf(o) \in Tasks
    BY <2>1, ClaimFacts
  <2> QED
    BY <1>28, <2>2 DEF IInv, LifeTypeOK, WorkPoints, ClaimPoints, Outcomes, Stages,
       TaskStates, Terminal, Resolutions, ReleaseLease, Goto
<1>29. ASSUME NEW id \in Ids, NEW approve \in BOOLEAN, DecideMissing(id, approve)
       PROVE  LifeTypeOK'
  BY <1>29 DEF IInv, LifeTypeOK, WorkPoints, ClaimPoints, Outcomes, Stages,
     TaskStates, Terminal, Resolutions, DecideMissing
<1>30. ASSUME NEW id \in Ids, NEW approve \in BOOLEAN, UpdateMissing(id, approve)
       PROVE  LifeTypeOK'
  <2>1. TaskOf[id] \in Tasks
    BY LifecycleAssumption
  <2>2. faults' \in 0 .. MaxFaults
    BY <1>30, FaultStep DEF IInv, LifeTypeOK, UpdateMissing, SetTask, Fault
  <2>3. missing' \subseteq Ids \X BOOLEAN
    BY <1>30 DEF IInv, LifeTypeOK, UpdateMissing
  <2>4. /\ task' \in [Tasks -> TaskStates]
        /\ asked' \in [Tasks -> Ids \cup {None}]
        /\ early' \subseteq Tasks
    BY <2>1, <1>30 DEF IInv, LifeTypeOK, TaskStates, Terminal, UpdateMissing,
       SetTask, taskVars
  <2> QED
    BY <2>2, <2>3, <2>4, <1>30 DEF IInv, LifeTypeOK, UpdateMissing
<1>31. ASSUME NEW id \in Ids, PassDeadline(id) PROVE LifeTypeOK'
  BY <1>31 DEF IInv, LifeTypeOK, WorkPoints, ClaimPoints, Outcomes, Stages,
     TaskStates, Terminal, Resolutions, PassDeadline
<1>32. ASSUME NEW t \in Timers, FireTimer(t) PROVE LifeTypeOK'
  BY <1>32 DEF IInv, LifeTypeOK, WorkPoints, ClaimPoints, Outcomes, Stages,
     TaskStates, Terminal, Resolutions, FireTimer, Fire
<1>33. ASSUME NEW o \in Owners, Unlock(o) PROVE LifeTypeOK'
  BY <1>33 DEF IInv, LifeTypeOK, WorkPoints, ClaimPoints, Outcomes, Stages,
     TaskStates, Terminal, Resolutions, Unlock, OwnerDone
<1>34. ASSUME NEW o \in Owners, LeaveCallback(o) PROVE LifeTypeOK'
  BY <1>34 DEF IInv, LifeTypeOK, WorkPoints, ClaimPoints, Outcomes, Stages,
     TaskStates, Terminal, Resolutions, LeaveCallback, CallbackDone
<1>35. ASSUME NEW t \in Timers, Stale(t) PROVE LifeTypeOK'
  BY <1>35 DEF IInv, LifeTypeOK, WorkPoints, ClaimPoints, Outcomes, Stages,
     TaskStates, Terminal, Resolutions, Stale, ExpireStale
<1>36. ASSUME StopWorkers PROVE LifeTypeOK'
  BY <1>36 DEF IInv, LifeTypeOK, WorkPoints, ClaimPoints, Outcomes, Stages,
     TaskStates, Terminal, Resolutions, StopWorkers
<1>37. ASSUME RunnerClosed PROVE LifeTypeOK'
  BY <1>37 DEF IInv, LifeTypeOK, WorkPoints, ClaimPoints, Outcomes, Stages,
     TaskStates, Terminal, Resolutions, RunnerClosed
<1>38. ASSUME CloseRegistry PROVE LifeTypeOK'
  BY <1>38 DEF IInv, LifeTypeOK, WorkPoints, ClaimPoints, Outcomes, Stages,
     TaskStates, Terminal, Resolutions, CloseRegistry, CloseStart
<1>39. ASSUME WaitRegistry PROVE LifeTypeOK'
  BY <1>39 DEF IInv, LifeTypeOK, WorkPoints, ClaimPoints, Outcomes, Stages,
     TaskStates, Terminal, Resolutions, WaitRegistry, CloseOwners, CloseReturn
<1>40. ASSUME NEW e \in Entries, ResolveHandle(e) PROVE LifeTypeOK'
  <2>1. faults' \in 0 .. MaxFaults
    BY <1>40, FaultStep DEF IInv, LifeTypeOK, ResolveHandle, Fault
  <2> QED
    BY <1>40, <2>1 DEF IInv, LifeTypeOK, WorkPoints, ClaimPoints, Outcomes, Stages,
       TaskStates, Terminal, Resolutions, ResolveHandle, Fault
<1>41. ASSUME NEW e \in Entries, FinalizeHandle(e) PROVE LifeTypeOK'
  <2>1. home[e] \in Ids /\ TaskOf[home[e]] \in Tasks
    BY <1>41, LifecycleAssumption DEF IInv, Closedown, FinalizeHandle
  <2>2. faults' \in 0 .. MaxFaults
    BY <1>41, FaultStep DEF IInv, LifeTypeOK, FinalizeHandle, FailPending,
       UpdatePending, SetTask, Fault
  <2>3. task' \in [Tasks -> TaskStates] /\ asked' \in [Tasks -> Ids \cup {None}]
    BY <2>1, <1>41 DEF IInv, LifeTypeOK, TaskStates, Terminal, FinalizeHandle,
       FailPending, UpdatePending, SetTask, Fault, taskVars
  <2>4. released' \subseteq Tasks /\ hands' \in [Entries -> {"none", "resolve", "finalize"}]
    BY <2>1, <1>41 DEF IInv, LifeTypeOK, FinalizeHandle
  <2> QED
    BY <2>2, <2>3, <2>4, <1>41 DEF IInv, LifeTypeOK, FinalizeHandle
<1>42. ASSUME Down PROVE LifeTypeOK'
  BY <1>42 DEF IInv, LifeTypeOK, WorkPoints, ClaimPoints, Outcomes, Stages,
     TaskStates, Terminal, Resolutions, Down
<1>43. CASE UNCHANGED vars
  BY <1>43, LifecycleAssumption DEF IInv, LifeTypeOK, WorkPoints, ClaimPoints,
     Outcomes, Stages, TaskStates, Terminal, Resolutions, vars
<1> QED
  BY <1>1, <1>2, <1>3, <1>4, <1>5, <1>6, <1>7, <1>8, <1>9, <1>10, <1>11, <1>12,
     <1>13, <1>14, <1>15, <1>16, <1>17, <1>18, <1>19, <1>20, <1>21, <1>22, <1>23,
     <1>24, <1>25, <1>26, <1>27, <1>28, <1>29, <1>30, <1>31, <1>32, <1>33, <1>34,
     <1>35, <1>36, <1>37, <1>38, <1>39, <1>40, <1>41, <1>42, <1>43 DEF Next,
     WorkStep, ClaimStep, Arrive, UpdateMissed, CloseStep, Finished

\* Every step keeps that a claim has an owner from the step that makes it.
LEMMA FreshStep == IInv /\ [Next]_vars => Fresh'
<1> SUFFICES ASSUME IInv, [Next]_vars PROVE Fresh'
  OBVIOUS
<1> USE DEF lifeVars, claimRest, recVars, taskVars, workVars, claimVars, missVars,
   regVars, timerVars, ownerVars
<1>1. ASSUME NEW x \in Tasks, StartJob(x) PROVE Fresh'
  BY <1>1 DEF IInv, Fresh, LifeTypeOK, RegIInv, RegTypeOK, StartJob, SetTask,
     FinalizeAccepted, Fault
<1>2. ASSUME NEW x \in Tasks, FinishRun(x) PROVE Fresh'
  BY <1>2 DEF IInv, Fresh, LifeTypeOK, RegIInv, RegTypeOK, FinishRun, SetTask, Fault
<1>3. ASSUME NEW x \in Tasks, NEW id \in Ids, PauseRun(x, id) PROVE Fresh'
  BY <1>3 DEF IInv, Fresh, LifeTypeOK, RegIInv, RegTypeOK, PauseRun
<1>4. ASSUME NEW x \in Tasks, CheckResume(x) PROVE Fresh'
  BY <1>4 DEF IInv, Fresh, LifeTypeOK, RegIInv, RegTypeOK, CheckResume, SetTask
<1>5. ASSUME NEW x \in Tasks, Consume(x) PROVE Fresh'
  BY <1>5 DEF IInv, Fresh, LifeTypeOK, RegIInv, RegTypeOK, Consume, Consumable,
     SetTask, Fault
<1>6. ASSUME NEW x \in Tasks, MarkPending(x) PROVE Fresh'
  BY <1>6 DEF IInv, Fresh, LifeTypeOK, RegIInv, RegTypeOK, MarkPending, SetTask,
     Fault
<1>7. ASSUME NEW x \in Tasks, NEW e \in Entries, Park(x, e) PROVE Fresh'
  BY <1>7 DEF IInv, Fresh, LifeTypeOK, RegIInv, RegTypeOK, Park, Register,
     Registrable
<1>8. ASSUME NEW x \in Tasks, ParkFails(x) PROVE Fresh'
  BY <1>8 DEF IInv, Fresh, LifeTypeOK, RegIInv, RegTypeOK, ParkFails, Fault,
     FailPending, UpdatePending, SetTask
<1>9. ASSUME NEW x \in Tasks, LeaveJob(x) PROVE Fresh'
  BY <1>9 DEF IInv, Fresh, LifeTypeOK, RegIInv, RegTypeOK, LeaveJob,
     FinalizeAccepted, SetTask
<1>10. ASSUME NEW id \in Ids, NEW approve \in BOOLEAN, NEW o \in Owners, Decide(id, approve, o)
       PROVE  Fresh'
  BY <1>10 DEF IInv, Fresh, LifeTypeOK, RegIInv, RegTypeOK, Decide, Claim, Own, Goto
<1>11. ASSUME NEW t \in Timers, NEW o \in Owners, ExpireHandle(t, o) PROVE Fresh'
  BY <1>11 DEF IInv, Fresh, LifeTypeOK, RegIInv, RegTypeOK, ExpireHandle, Expire,
     Own, Goto
<1>12. ASSUME NEW o \in Owners, ReadRecord(o) PROVE Fresh'
  BY <1>12 DEF IInv, Fresh, LifeTypeOK, RegIInv, RegTypeOK, ReadRecord, Fault, Goto
<1>13. ASSUME NEW o \in Owners, Resolve(o) PROVE Fresh'
  BY <1>13 DEF IInv, Fresh, LifeTypeOK, RegIInv, RegTypeOK, Resolve, Fault, Goto
<1>14. ASSUME NEW o \in Owners, Reread(o) PROVE Fresh'
  BY <1>14 DEF IInv, Fresh, LifeTypeOK, RegIInv, RegTypeOK, Reread, Fault, Goto
<1>15. ASSUME NEW o \in Owners, CancelExpired(o) PROVE Fresh'
  BY <1>15 DEF IInv, Fresh, LifeTypeOK, RegIInv, RegTypeOK, CancelExpired, Expiring,
     UpdatePending, SetTask, Done, Goto, Fault
<1>16. ASSUME NEW o \in Owners, FailExpired(o) PROVE Fresh'
  BY <1>16 DEF IInv, Fresh, LifeTypeOK, RegIInv, RegTypeOK, FailExpired, Expiring,
     FailPending, UpdatePending, SetTask, Done, GiveUp, Goto, Fault
<1>17. ASSUME NEW o \in Owners, ExpiryUnsure(o) PROVE Fresh'
  BY <1>17 DEF IInv, Fresh, LifeTypeOK, RegIInv, RegTypeOK, ExpiryUnsure, Expiring,
     GiveUp, Goto
<1>18. ASSUME NEW o \in Owners, RetryExpiry(o) PROVE Fresh'
  BY <1>18 DEF IInv, Fresh, LifeTypeOK, RegIInv, RegTypeOK, RetryExpiry,
     RestoreClaim, Goto
<1>19. ASSUME NEW o \in Owners, RetryRefused(o) PROVE Fresh'
  BY <1>19 DEF IInv, Fresh, LifeTypeOK, RegIInv, RegTypeOK, RetryRefused,
     RestoreRefused, CompleteClaim, Goto
<1>20. ASSUME NEW o \in Owners, FinalizeOrphan(o) PROVE Fresh'
  BY <1>20 DEF IInv, Fresh, LifeTypeOK, RegIInv, RegTypeOK, FinalizeOrphan,
     FailPending, UpdatePending, SetTask, Fault, Goto
<1>21. ASSUME NEW o \in Owners, Settle(o) PROVE Fresh'
  BY <1>21 DEF IInv, Fresh, LifeTypeOK, RegIInv, RegTypeOK, Settle, Goto
<1>22. ASSUME NEW o \in Owners, GiveBack(o) PROVE Fresh'
  <2>1. /\ at' \in [Owners -> ClaimPoints] /\ at' = [at EXCEPT ![o] = at'[o]] /\ at'[o] # "none"
        /\ owner' = [owner EXCEPT ![o] = "settling"]
        /\ owned' = owned
    <3>1. CASE RestoreClaim(o, TRUE) /\ Goto(o, "end")
      BY <3>1 DEF IInv, LifeTypeOK, ClaimPoints, RestoreClaim, Goto
    <3>2. CASE RestoreRefused(o) /\ Goto(o, "fail")
      BY <3>2 DEF IInv, LifeTypeOK, ClaimPoints, RestoreRefused, CompleteClaim, Goto
    <3> QED
      BY <1>22, <3>1, <3>2 DEF GiveBack
  <2> QED
    BY <2>1, <1>22 DEF IInv, Fresh, RegIInv, RegTypeOK, GiveBack
<1>23. ASSUME NEW o \in Owners, FailClaimed(o) PROVE Fresh'
  BY <1>23 DEF IInv, Fresh, LifeTypeOK, RegIInv, RegTypeOK, FailClaimed,
     FailPending, UpdatePending, SetTask, Fault, Goto
<1>24. ASSUME NEW o \in Owners, CancelClaimed(o) PROVE Fresh'
  BY <1>24 DEF IInv, Fresh, LifeTypeOK, RegIInv, RegTypeOK, CancelClaimed, SetTask,
     Fault, Goto
<1>25. ASSUME NEW o \in Owners, Requeue(o) PROVE Fresh'
  BY <1>25 DEF IInv, Fresh, LifeTypeOK, RegIInv, RegTypeOK, Requeue, SetTask, Fault,
     Goto
<1>26. ASSUME NEW o \in Owners, Enqueue(o) PROVE Fresh'
  BY <1>26 DEF IInv, Fresh, LifeTypeOK, RegIInv, RegTypeOK, Enqueue, SetTask, Fault,
     Goto
<1>27. ASSUME NEW o \in Owners, Complete(o) PROVE Fresh'
  BY <1>27 DEF IInv, Fresh, LifeTypeOK, RegIInv, RegTypeOK, Complete, CompleteClaim,
     Goto
<1>28. ASSUME NEW o \in Owners, ReleaseLease(o) PROVE Fresh'
  BY <1>28 DEF IInv, Fresh, LifeTypeOK, RegIInv, RegTypeOK, ReleaseLease, Goto
<1>29. ASSUME NEW id \in Ids, NEW approve \in BOOLEAN, DecideMissing(id, approve)
       PROVE  Fresh'
  BY <1>29 DEF IInv, Fresh, LifeTypeOK, RegIInv, RegTypeOK, DecideMissing
<1>30. ASSUME NEW id \in Ids, NEW approve \in BOOLEAN, UpdateMissing(id, approve)
       PROVE  Fresh'
  BY <1>30 DEF IInv, Fresh, LifeTypeOK, RegIInv, RegTypeOK, UpdateMissing, SetTask,
     Fault
<1>31. ASSUME NEW id \in Ids, PassDeadline(id) PROVE Fresh'
  BY <1>31 DEF IInv, Fresh, LifeTypeOK, RegIInv, RegTypeOK, PassDeadline
<1>32. ASSUME NEW t \in Timers, FireTimer(t) PROVE Fresh'
  BY <1>32 DEF IInv, Fresh, LifeTypeOK, RegIInv, RegTypeOK, FireTimer, Fire
<1>33. ASSUME NEW o \in Owners, Unlock(o) PROVE Fresh'
  BY <1>33 DEF IInv, Fresh, LifeTypeOK, RegIInv, RegTypeOK, Unlock, OwnerDone
<1>34. ASSUME NEW o \in Owners, LeaveCallback(o) PROVE Fresh'
  BY <1>34 DEF IInv, Fresh, LifeTypeOK, RegIInv, RegTypeOK, LeaveCallback,
     CallbackDone
<1>35. ASSUME NEW t \in Timers, Stale(t) PROVE Fresh'
  BY <1>35 DEF IInv, Fresh, LifeTypeOK, RegIInv, RegTypeOK, Stale, ExpireStale
<1>36. ASSUME StopWorkers PROVE Fresh'
  BY <1>36 DEF IInv, Fresh, LifeTypeOK, RegIInv, RegTypeOK, StopWorkers
<1>37. ASSUME RunnerClosed PROVE Fresh'
  BY <1>37 DEF IInv, Fresh, LifeTypeOK, RegIInv, RegTypeOK, RunnerClosed
<1>38. ASSUME CloseRegistry PROVE Fresh'
  BY <1>38 DEF IInv, Fresh, LifeTypeOK, RegIInv, RegTypeOK, CloseRegistry,
     CloseStart
<1>39. ASSUME WaitRegistry PROVE Fresh'
  BY <1>39 DEF IInv, Fresh, LifeTypeOK, RegIInv, RegTypeOK, WaitRegistry,
     CloseOwners, CloseReturn
<1>40. ASSUME NEW e \in Entries, ResolveHandle(e) PROVE Fresh'
  BY <1>40 DEF IInv, Fresh, LifeTypeOK, RegIInv, RegTypeOK, ResolveHandle, Fault
<1>41. ASSUME NEW e \in Entries, FinalizeHandle(e) PROVE Fresh'
  BY <1>41 DEF IInv, Fresh, LifeTypeOK, RegIInv, RegTypeOK, FinalizeHandle,
     FailPending, UpdatePending, SetTask, Fault
<1>42. ASSUME Down PROVE Fresh'
  BY <1>42 DEF IInv, Fresh, LifeTypeOK, RegIInv, RegTypeOK, Down
<1>43. CASE UNCHANGED vars
  BY <1>43 DEF IInv, Fresh, LifeTypeOK, RegIInv, RegTypeOK, vars
<1> QED
  BY <1>1, <1>2, <1>3, <1>4, <1>5, <1>6, <1>7, <1>8, <1>9, <1>10, <1>11, <1>12,
     <1>13, <1>14, <1>15, <1>16, <1>17, <1>18, <1>19, <1>20, <1>21, <1>22, <1>23,
     <1>24, <1>25, <1>26, <1>27, <1>28, <1>29, <1>30, <1>31, <1>32, <1>33, <1>34,
     <1>35, <1>36, <1>37, <1>38, <1>39, <1>40, <1>41, <1>42, <1>43 DEF Next,
     WorkStep, ClaimStep, Arrive, UpdateMissed, CloseStep, Finished

\* Every step keeps what holds at the points of workers and claims.
LEMMA PointsStep == IInv /\ [Next]_vars => Points'
<1> SUFFICES ASSUME IInv, [Next]_vars PROVE Points'
  OBVIOUS
<1> USE DEF lifeVars, claimRest, recVars, taskVars, workVars, claimVars, missVars,
   regVars, timerVars, ownerVars
<1>1. ASSUME NEW x \in Tasks, StartJob(x) PROVE Points'
  BY <1>1 DEF IInv, Points, LifeTypeOK, WorkPoints, Resolutions, StartJob, SetTask,
     FinalizeAccepted, Fault
<1>2. ASSUME NEW x \in Tasks, FinishRun(x) PROVE Points'
  BY <1>2 DEF IInv, Points, LifeTypeOK, WorkPoints, Resolutions, FinishRun, SetTask,
     Fault
<1>3. ASSUME NEW x \in Tasks, NEW id \in Ids, PauseRun(x, id) PROVE Points'
  BY <1>3 DEF IInv, Points, LifeTypeOK, WorkPoints, Resolutions, PauseRun
<1>4. ASSUME NEW x \in Tasks, CheckResume(x) PROVE Points'
  BY <1>4 DEF IInv, Points, LifeTypeOK, WorkPoints, Resolutions, CheckResume,
     SetTask
<1>5. ASSUME NEW x \in Tasks, Consume(x) PROVE Points'
  BY <1>5 DEF IInv, Points, LifeTypeOK, WorkPoints, Resolutions, Consume,
     Consumable, SetTask, Fault
<1>6. ASSUME NEW x \in Tasks, MarkPending(x) PROVE Points'
  BY <1>6 DEF IInv, Points, LifeTypeOK, WorkPoints, Resolutions, MarkPending,
     SetTask, Fault
<1>7. ASSUME NEW x \in Tasks, NEW e \in Entries, Park(x, e) PROVE Points'
  BY <1>7 DEF IInv, Points, LifeTypeOK, WorkPoints, Resolutions, Park, Register,
     Registrable
<1>8. ASSUME NEW x \in Tasks, ParkFails(x) PROVE Points'
  BY <1>8 DEF IInv, Points, LifeTypeOK, WorkPoints, Resolutions, ParkFails, Fault,
     FailPending, UpdatePending, SetTask
<1>9. ASSUME NEW x \in Tasks, LeaveJob(x) PROVE Points'
  BY <1>9 DEF IInv, Points, LifeTypeOK, WorkPoints, Resolutions, LeaveJob,
     FinalizeAccepted, SetTask
<1>10. ASSUME NEW id \in Ids, NEW approve \in BOOLEAN, NEW o \in Owners, Decide(id, approve, o)
       PROVE  Points'
  BY <1>10 DEF IInv, Points, LifeTypeOK, WorkPoints, Resolutions, Decide, Claim,
     Own, Goto
<1>11. ASSUME NEW t \in Timers, NEW o \in Owners, ExpireHandle(t, o) PROVE Points'
  BY <1>11 DEF IInv, Points, LifeTypeOK, WorkPoints, Resolutions, ExpireHandle,
     Expire, Own, Goto
<1>12. ASSUME NEW o \in Owners, ReadRecord(o) PROVE Points'
  BY <1>12 DEF IInv, Points, LifeTypeOK, WorkPoints, Resolutions, ReadRecord, Fault,
     Goto
<1>13. ASSUME NEW o \in Owners, Resolve(o) PROVE Points'
  BY <1>13 DEF IInv, Points, LifeTypeOK, WorkPoints, Resolutions, Resolve, Fault,
     Goto
<1>14. ASSUME NEW o \in Owners, Reread(o) PROVE Points'
  BY <1>14 DEF IInv, Points, LifeTypeOK, WorkPoints, Resolutions, Reread, Fault,
     Goto
<1>15. ASSUME NEW o \in Owners, CancelExpired(o) PROVE Points'
  BY <1>15 DEF IInv, Points, LifeTypeOK, WorkPoints, Resolutions, CancelExpired,
     Expiring, UpdatePending, SetTask, Done, Goto, Fault
<1>16. ASSUME NEW o \in Owners, FailExpired(o) PROVE Points'
  BY <1>16 DEF IInv, Points, LifeTypeOK, WorkPoints, Resolutions, FailExpired,
     Expiring, FailPending, UpdatePending, SetTask, Done, GiveUp, Goto, Fault
<1>17. ASSUME NEW o \in Owners, ExpiryUnsure(o) PROVE Points'
  BY <1>17 DEF IInv, Points, LifeTypeOK, WorkPoints, Resolutions, ExpiryUnsure,
     Expiring, GiveUp, Goto
<1>18. ASSUME NEW o \in Owners, RetryExpiry(o) PROVE Points'
  BY <1>18 DEF IInv, Points, LifeTypeOK, WorkPoints, Resolutions, RetryExpiry,
     RestoreClaim, Goto
<1>19. ASSUME NEW o \in Owners, RetryRefused(o) PROVE Points'
  BY <1>19 DEF IInv, Points, LifeTypeOK, WorkPoints, Resolutions, RetryRefused,
     RestoreRefused, CompleteClaim, Goto
<1>20. ASSUME NEW o \in Owners, FinalizeOrphan(o) PROVE Points'
  BY <1>20 DEF IInv, Points, LifeTypeOK, WorkPoints, Resolutions, FinalizeOrphan,
     FailPending, UpdatePending, SetTask, Fault, Goto
<1>21. ASSUME NEW o \in Owners, Settle(o) PROVE Points'
  BY <1>21 DEF IInv, Points, LifeTypeOK, WorkPoints, Resolutions, Settle, Goto
<1>22. ASSUME NEW o \in Owners, GiveBack(o) PROVE Points'
  BY ZenonT(40), <1>22 DEF IInv, Points, LifeTypeOK, WorkPoints, Resolutions, GiveBack,
     RestoreClaim, RestoreRefused, CompleteClaim, Goto
<1>23. ASSUME NEW o \in Owners, FailClaimed(o) PROVE Points'
  BY <1>23 DEF IInv, Points, LifeTypeOK, WorkPoints, Resolutions, FailClaimed,
     FailPending, UpdatePending, SetTask, Fault, Goto
<1>24. ASSUME NEW o \in Owners, CancelClaimed(o) PROVE Points'
  BY <1>24 DEF IInv, Points, LifeTypeOK, WorkPoints, Resolutions, CancelClaimed,
     SetTask, Fault, Goto
<1>25. ASSUME NEW o \in Owners, Requeue(o) PROVE Points'
  BY <1>25 DEF IInv, Points, LifeTypeOK, WorkPoints, Resolutions, Requeue, SetTask,
     Fault, Goto
<1>26. ASSUME NEW o \in Owners, Enqueue(o) PROVE Points'
  <2>1. at[o] # "none"
    BY <1>26 DEF Enqueue
  <2>2. IdOf(o) \in Ids
    BY <2>1, ClaimFacts
  <2> QED
    BY <2>2, <1>26 DEF IInv, Points, LifeTypeOK, WorkPoints, Resolutions, Enqueue,
       SetTask, Fault, Goto
<1>27. ASSUME NEW o \in Owners, Complete(o) PROVE Points'
  BY <1>27 DEF IInv, Points, LifeTypeOK, WorkPoints, Resolutions, Complete,
     CompleteClaim, Goto
<1>28. ASSUME NEW o \in Owners, ReleaseLease(o) PROVE Points'
  BY <1>28 DEF IInv, Points, LifeTypeOK, WorkPoints, Resolutions, ReleaseLease, Goto
<1>29. ASSUME NEW id \in Ids, NEW approve \in BOOLEAN, DecideMissing(id, approve)
       PROVE  Points'
  BY <1>29 DEF IInv, Points, LifeTypeOK, WorkPoints, Resolutions, DecideMissing
<1>30. ASSUME NEW id \in Ids, NEW approve \in BOOLEAN, UpdateMissing(id, approve)
       PROVE  Points'
  BY <1>30 DEF IInv, Points, LifeTypeOK, WorkPoints, Resolutions, UpdateMissing,
     SetTask, Fault
<1>31. ASSUME NEW id \in Ids, PassDeadline(id) PROVE Points'
  BY <1>31 DEF IInv, Points, LifeTypeOK, WorkPoints, Resolutions, PassDeadline
<1>32. ASSUME NEW t \in Timers, FireTimer(t) PROVE Points'
  BY <1>32 DEF IInv, Points, LifeTypeOK, WorkPoints, Resolutions, FireTimer, Fire
<1>33. ASSUME NEW o \in Owners, Unlock(o) PROVE Points'
  BY <1>33 DEF IInv, Points, LifeTypeOK, WorkPoints, Resolutions, Unlock, OwnerDone
<1>34. ASSUME NEW o \in Owners, LeaveCallback(o) PROVE Points'
  BY <1>34 DEF IInv, Points, LifeTypeOK, WorkPoints, Resolutions, LeaveCallback,
     CallbackDone
<1>35. ASSUME NEW t \in Timers, Stale(t) PROVE Points'
  BY <1>35 DEF IInv, Points, LifeTypeOK, WorkPoints, Resolutions, Stale, ExpireStale
<1>36. ASSUME StopWorkers PROVE Points'
  BY <1>36 DEF IInv, Points, LifeTypeOK, WorkPoints, Resolutions, StopWorkers
<1>37. ASSUME RunnerClosed PROVE Points'
  BY <1>37 DEF IInv, Points, LifeTypeOK, WorkPoints, Resolutions, RunnerClosed
<1>38. ASSUME CloseRegistry PROVE Points'
  BY <1>38 DEF IInv, Points, LifeTypeOK, WorkPoints, Resolutions, CloseRegistry,
     CloseStart
<1>39. ASSUME WaitRegistry PROVE Points'
  BY <1>39 DEF IInv, Points, LifeTypeOK, WorkPoints, Resolutions, WaitRegistry,
     CloseOwners, CloseReturn
<1>40. ASSUME NEW e \in Entries, ResolveHandle(e) PROVE Points'
  BY <1>40 DEF IInv, Points, LifeTypeOK, WorkPoints, Resolutions, ResolveHandle,
     Fault
<1>41. ASSUME NEW e \in Entries, FinalizeHandle(e) PROVE Points'
  BY <1>41 DEF IInv, Points, LifeTypeOK, WorkPoints, Resolutions, FinalizeHandle,
     FailPending, UpdatePending, SetTask, Fault
<1>42. ASSUME Down PROVE Points'
  BY <1>42 DEF IInv, Points, LifeTypeOK, WorkPoints, Resolutions, Down
<1>43. CASE UNCHANGED vars
  BY <1>43 DEF IInv, Points, LifeTypeOK, WorkPoints, Resolutions, vars
<1> QED
  BY <1>1, <1>2, <1>3, <1>4, <1>5, <1>6, <1>7, <1>8, <1>9, <1>10, <1>11, <1>12,
     <1>13, <1>14, <1>15, <1>16, <1>17, <1>18, <1>19, <1>20, <1>21, <1>22, <1>23,
     <1>24, <1>25, <1>26, <1>27, <1>28, <1>29, <1>30, <1>31, <1>32, <1>33, <1>34,
     <1>35, <1>36, <1>37, <1>38, <1>39, <1>40, <1>41, <1>42, <1>43 DEF Next,
     WorkStep, ClaimStep, Arrive, UpdateMissed, CloseStep, Finished

\* Every step keeps that a call of a tool is started once, with consent.
LEMMA OnceStep == IInv /\ [Next]_vars => Once'
<1> SUFFICES ASSUME IInv, [Next]_vars PROVE Once'
  OBVIOUS
<1> USE DEF lifeVars, claimRest, recVars, taskVars, workVars, claimVars, missVars,
   regVars, timerVars, ownerVars
<1>1. ASSUME NEW x \in Tasks, StartJob(x) PROVE Once'
  BY <1>1 DEF IInv, Once, LifeTypeOK, StartJob, SetTask, FinalizeAccepted, Fault
<1>2. ASSUME NEW x \in Tasks, FinishRun(x) PROVE Once'
  BY <1>2 DEF IInv, Once, LifeTypeOK, FinishRun, SetTask, Fault
<1>3. ASSUME NEW x \in Tasks, NEW id \in Ids, PauseRun(x, id) PROVE Once'
  BY <1>3 DEF IInv, Once, LifeTypeOK, PauseRun
<1>4. ASSUME NEW x \in Tasks, CheckResume(x) PROVE Once'
  BY <1>4 DEF IInv, Once, LifeTypeOK, CheckResume, SetTask
<1>5. ASSUME NEW x \in Tasks, Consume(x) PROVE Once'
  BY <1>5 DEF IInv, Once, LifeTypeOK, Consume, Consumable, SetTask, Fault
<1>6. ASSUME NEW x \in Tasks, MarkPending(x) PROVE Once'
  BY <1>6 DEF IInv, Once, LifeTypeOK, MarkPending, SetTask, Fault
<1>7. ASSUME NEW x \in Tasks, NEW e \in Entries, Park(x, e) PROVE Once'
  BY <1>7 DEF IInv, Once, LifeTypeOK, Park, Register, Registrable
<1>8. ASSUME NEW x \in Tasks, ParkFails(x) PROVE Once'
  BY <1>8 DEF IInv, Once, LifeTypeOK, ParkFails, Fault, FailPending, UpdatePending,
     SetTask
<1>9. ASSUME NEW x \in Tasks, LeaveJob(x) PROVE Once'
  BY <1>9 DEF IInv, Once, LifeTypeOK, LeaveJob, FinalizeAccepted, SetTask
<1>10. ASSUME NEW id \in Ids, NEW approve \in BOOLEAN, NEW o \in Owners, Decide(id, approve, o)
       PROVE  Once'
  BY <1>10 DEF IInv, Once, LifeTypeOK, Decide, Claim, Own, Goto
<1>11. ASSUME NEW t \in Timers, NEW o \in Owners, ExpireHandle(t, o) PROVE Once'
  BY <1>11 DEF IInv, Once, LifeTypeOK, ExpireHandle, Expire, Own, Goto
<1>12. ASSUME NEW o \in Owners, ReadRecord(o) PROVE Once'
  BY <1>12 DEF IInv, Once, LifeTypeOK, ReadRecord, Fault, Goto
<1>13. ASSUME NEW o \in Owners, Resolve(o) PROVE Once'
  BY <1>13 DEF IInv, Once, LifeTypeOK, Resolve, Fault, Goto
<1>14. ASSUME NEW o \in Owners, Reread(o) PROVE Once'
  BY <1>14 DEF IInv, Once, LifeTypeOK, Reread, Fault, Goto
<1>15. ASSUME NEW o \in Owners, CancelExpired(o) PROVE Once'
  BY <1>15 DEF IInv, Once, LifeTypeOK, CancelExpired, Expiring, UpdatePending,
     SetTask, Done, Goto, Fault
<1>16. ASSUME NEW o \in Owners, FailExpired(o) PROVE Once'
  BY <1>16 DEF IInv, Once, LifeTypeOK, FailExpired, Expiring, FailPending,
     UpdatePending, SetTask, Done, GiveUp, Goto, Fault
<1>17. ASSUME NEW o \in Owners, ExpiryUnsure(o) PROVE Once'
  BY <1>17 DEF IInv, Once, LifeTypeOK, ExpiryUnsure, Expiring, GiveUp, Goto
<1>18. ASSUME NEW o \in Owners, RetryExpiry(o) PROVE Once'
  BY <1>18 DEF IInv, Once, LifeTypeOK, RetryExpiry, RestoreClaim, Goto
<1>19. ASSUME NEW o \in Owners, RetryRefused(o) PROVE Once'
  BY <1>19 DEF IInv, Once, LifeTypeOK, RetryRefused, RestoreRefused, CompleteClaim,
     Goto
<1>20. ASSUME NEW o \in Owners, FinalizeOrphan(o) PROVE Once'
  BY <1>20 DEF IInv, Once, LifeTypeOK, FinalizeOrphan, FailPending, UpdatePending,
     SetTask, Fault, Goto
<1>21. ASSUME NEW o \in Owners, Settle(o) PROVE Once'
  BY <1>21 DEF IInv, Once, LifeTypeOK, Settle, Goto
<1>22. ASSUME NEW o \in Owners, GiveBack(o) PROVE Once'
  BY <1>22 DEF IInv, Once, LifeTypeOK, GiveBack, RestoreClaim, RestoreRefused,
     CompleteClaim, Goto
<1>23. ASSUME NEW o \in Owners, FailClaimed(o) PROVE Once'
  BY <1>23 DEF IInv, Once, LifeTypeOK, FailClaimed, FailPending, UpdatePending,
     SetTask, Fault, Goto
<1>24. ASSUME NEW o \in Owners, CancelClaimed(o) PROVE Once'
  BY <1>24 DEF IInv, Once, LifeTypeOK, CancelClaimed, SetTask, Fault, Goto
<1>25. ASSUME NEW o \in Owners, Requeue(o) PROVE Once'
  BY <1>25 DEF IInv, Once, LifeTypeOK, Requeue, SetTask, Fault, Goto
<1>26. ASSUME NEW o \in Owners, Enqueue(o) PROVE Once'
  BY <1>26 DEF IInv, Once, LifeTypeOK, Enqueue, SetTask, Fault, Goto
<1>27. ASSUME NEW o \in Owners, Complete(o) PROVE Once'
  BY <1>27 DEF IInv, Once, LifeTypeOK, Complete, CompleteClaim, Goto
<1>28. ASSUME NEW o \in Owners, ReleaseLease(o) PROVE Once'
  BY <1>28 DEF IInv, Once, LifeTypeOK, ReleaseLease, Goto
<1>29. ASSUME NEW id \in Ids, NEW approve \in BOOLEAN, DecideMissing(id, approve)
       PROVE  Once'
  BY <1>29 DEF IInv, Once, LifeTypeOK, DecideMissing
<1>30. ASSUME NEW id \in Ids, NEW approve \in BOOLEAN, UpdateMissing(id, approve)
       PROVE  Once'
  BY <1>30 DEF IInv, Once, LifeTypeOK, UpdateMissing, SetTask, Fault
<1>31. ASSUME NEW id \in Ids, PassDeadline(id) PROVE Once'
  BY <1>31 DEF IInv, Once, LifeTypeOK, PassDeadline
<1>32. ASSUME NEW t \in Timers, FireTimer(t) PROVE Once'
  BY <1>32 DEF IInv, Once, LifeTypeOK, FireTimer, Fire
<1>33. ASSUME NEW o \in Owners, Unlock(o) PROVE Once'
  BY <1>33 DEF IInv, Once, LifeTypeOK, Unlock, OwnerDone
<1>34. ASSUME NEW o \in Owners, LeaveCallback(o) PROVE Once'
  BY <1>34 DEF IInv, Once, LifeTypeOK, LeaveCallback, CallbackDone
<1>35. ASSUME NEW t \in Timers, Stale(t) PROVE Once'
  BY <1>35 DEF IInv, Once, LifeTypeOK, Stale, ExpireStale
<1>36. ASSUME StopWorkers PROVE Once'
  BY <1>36 DEF IInv, Once, LifeTypeOK, StopWorkers
<1>37. ASSUME RunnerClosed PROVE Once'
  BY <1>37 DEF IInv, Once, LifeTypeOK, RunnerClosed
<1>38. ASSUME CloseRegistry PROVE Once'
  BY <1>38 DEF IInv, Once, LifeTypeOK, CloseRegistry, CloseStart
<1>39. ASSUME WaitRegistry PROVE Once'
  BY <1>39 DEF IInv, Once, LifeTypeOK, WaitRegistry, CloseOwners, CloseReturn
<1>40. ASSUME NEW e \in Entries, ResolveHandle(e) PROVE Once'
  BY <1>40 DEF IInv, Once, LifeTypeOK, ResolveHandle, Fault
<1>41. ASSUME NEW e \in Entries, FinalizeHandle(e) PROVE Once'
  BY <1>41 DEF IInv, Once, LifeTypeOK, FinalizeHandle, FailPending, UpdatePending,
     SetTask, Fault
<1>42. ASSUME Down PROVE Once'
  BY <1>42 DEF IInv, Once, LifeTypeOK, Down
<1>43. CASE UNCHANGED vars
  BY <1>43 DEF IInv, Once, LifeTypeOK, vars
<1> QED
  BY <1>1, <1>2, <1>3, <1>4, <1>5, <1>6, <1>7, <1>8, <1>9, <1>10, <1>11, <1>12,
     <1>13, <1>14, <1>15, <1>16, <1>17, <1>18, <1>19, <1>20, <1>21, <1>22, <1>23,
     <1>24, <1>25, <1>26, <1>27, <1>28, <1>29, <1>30, <1>31, <1>32, <1>33, <1>34,
     <1>35, <1>36, <1>37, <1>38, <1>39, <1>40, <1>41, <1>42, <1>43 DEF Next,
     WorkStep, ClaimStep, Arrive, UpdateMissed, CloseStep, Finished

\* Every step keeps that a task names an approval of its own.
LEMMA LinksStep == IInv /\ [Next]_vars => Links'
<1> SUFFICES ASSUME IInv, [Next]_vars PROVE Links'
  OBVIOUS
<1> USE DEF lifeVars, claimRest, recVars, taskVars, workVars, claimVars, missVars,
   regVars, timerVars, ownerVars
<1>1. ASSUME NEW x \in Tasks, StartJob(x) PROVE Links'
  BY <1>1, RegistryAssumption, LifecycleAssumption DEF IInv, Links, LifeTypeOK,
     StartJob, SetTask, FinalizeAccepted, Fault
<1>2. ASSUME NEW x \in Tasks, FinishRun(x) PROVE Links'
  BY <1>2, RegistryAssumption, LifecycleAssumption DEF IInv, Links, LifeTypeOK,
     FinishRun, SetTask, Fault
<1>3. ASSUME NEW x \in Tasks, NEW id \in Ids, PauseRun(x, id) PROVE Links'
  BY <1>3, RegistryAssumption, LifecycleAssumption DEF IInv, Links, LifeTypeOK,
     PauseRun
<1>4. ASSUME NEW x \in Tasks, CheckResume(x) PROVE Links'
  <2>1. about[x] \in Ids /\ TaskOf[about[x]] = x
    BY <1>4, AboutFacts DEF CheckResume
  <2> QED
    BY <2>1, <1>4 DEF IInv, Links, LifeTypeOK, CheckResume, SetTask
<1>5. ASSUME NEW x \in Tasks, Consume(x) PROVE Links'
  <2>1. about[x] \in Ids /\ TaskOf[about[x]] = x
    BY <1>5, AboutFacts DEF Consume
  <2> QED
    BY <2>1, <1>5 DEF IInv, Links, LifeTypeOK, Consume, Consumable, SetTask, Fault
<1>6. ASSUME NEW x \in Tasks, MarkPending(x) PROVE Links'
  <2>1. about[x] \in Ids /\ TaskOf[about[x]] = x
    BY <1>6, AboutFacts DEF MarkPending
  <2> QED
    BY <2>1, <1>6 DEF IInv, Links, LifeTypeOK, MarkPending, SetTask, Fault
<1>7. ASSUME NEW x \in Tasks, NEW e \in Entries, Park(x, e) PROVE Links'
  <2>1. about[x] \in Ids /\ TaskOf[about[x]] = x
    BY <1>7, AboutFacts DEF Park
  <2> QED
    BY <2>1, <1>7 DEF IInv, Links, LifeTypeOK, Park, Register, Registrable
<1>8. ASSUME NEW x \in Tasks, ParkFails(x) PROVE Links'
  <2>1. about[x] \in Ids /\ TaskOf[about[x]] = x
    BY <1>8, AboutFacts DEF ParkFails
  <2> QED
    BY <2>1, <1>8 DEF IInv, Links, LifeTypeOK, ParkFails, Fault, FailPending,
       UpdatePending, SetTask
<1>9. ASSUME NEW x \in Tasks, LeaveJob(x) PROVE Links'
  BY <1>9, RegistryAssumption, LifecycleAssumption DEF IInv, Links, LifeTypeOK,
     LeaveJob, FinalizeAccepted, SetTask
<1>10. ASSUME NEW id \in Ids, NEW approve \in BOOLEAN, NEW o \in Owners, Decide(id, approve, o)
       PROVE  Links'
  BY <1>10, RegistryAssumption, LifecycleAssumption DEF IInv, Links, LifeTypeOK,
     Decide, Claim, Own, Goto
<1>11. ASSUME NEW t \in Timers, NEW o \in Owners, ExpireHandle(t, o) PROVE Links'
  BY <1>11, RegistryAssumption, LifecycleAssumption DEF IInv, Links, LifeTypeOK,
     ExpireHandle, Expire, Own, Goto
<1>12. ASSUME NEW o \in Owners, ReadRecord(o) PROVE Links'
  <2>1. at[o] # "none"
    BY <1>12 DEF ReadRecord
  <2>2. IdOf(o) \in Ids /\ JobOf(o) \in Tasks /\ JobOf(o) = TaskOf[IdOf(o)]
    BY <2>1, ClaimFacts
  <2> QED
    BY <2>2, <1>12 DEF IInv, Links, LifeTypeOK, ReadRecord, Fault, Goto
<1>13. ASSUME NEW o \in Owners, Resolve(o) PROVE Links'
  <2>1. at[o] # "none"
    BY <1>13 DEF Resolve
  <2>2. IdOf(o) \in Ids /\ JobOf(o) \in Tasks /\ JobOf(o) = TaskOf[IdOf(o)]
    BY <2>1, ClaimFacts
  <2> QED
    BY <2>2, <1>13 DEF IInv, Links, LifeTypeOK, Resolve, Fault, Goto
<1>14. ASSUME NEW o \in Owners, Reread(o) PROVE Links'
  <2>1. at[o] # "none"
    BY <1>14 DEF Reread
  <2>2. IdOf(o) \in Ids /\ JobOf(o) \in Tasks /\ JobOf(o) = TaskOf[IdOf(o)]
    BY <2>1, ClaimFacts
  <2> QED
    BY <2>2, <1>14 DEF IInv, Links, LifeTypeOK, Reread, Fault, Goto
<1>15. ASSUME NEW o \in Owners, CancelExpired(o) PROVE Links'
  <2>1. at[o] # "none"
    BY <1>15 DEF CancelExpired
  <2>2. IdOf(o) \in Ids /\ JobOf(o) \in Tasks /\ JobOf(o) = TaskOf[IdOf(o)]
    BY <2>1, ClaimFacts
  <2> QED
    BY <2>2, <1>15 DEF IInv, Links, LifeTypeOK, CancelExpired, Expiring,
       UpdatePending, SetTask, Done, Goto, Fault
<1>16. ASSUME NEW o \in Owners, FailExpired(o) PROVE Links'
  <2>1. at[o] # "none"
    BY <1>16 DEF FailExpired
  <2>2. IdOf(o) \in Ids /\ JobOf(o) \in Tasks /\ JobOf(o) = TaskOf[IdOf(o)]
    BY <2>1, ClaimFacts
  <2> QED
    BY <2>2, <1>16 DEF IInv, Links, LifeTypeOK, FailExpired, Expiring, FailPending,
       UpdatePending, SetTask, Done, GiveUp, Goto, Fault
<1>17. ASSUME NEW o \in Owners, ExpiryUnsure(o) PROVE Links'
  <2>1. at[o] # "none"
    BY <1>17 DEF ExpiryUnsure
  <2>2. IdOf(o) \in Ids /\ JobOf(o) \in Tasks /\ JobOf(o) = TaskOf[IdOf(o)]
    BY <2>1, ClaimFacts
  <2> QED
    BY <2>2, <1>17 DEF IInv, Links, LifeTypeOK, ExpiryUnsure, Expiring, GiveUp, Goto
<1>18. ASSUME NEW o \in Owners, RetryExpiry(o) PROVE Links'
  <2>1. at[o] # "none"
    BY <1>18 DEF RetryExpiry
  <2>2. IdOf(o) \in Ids /\ JobOf(o) \in Tasks /\ JobOf(o) = TaskOf[IdOf(o)]
    BY <2>1, ClaimFacts
  <2> QED
    BY <2>2, <1>18 DEF IInv, Links, LifeTypeOK, RetryExpiry, RestoreClaim, Goto
<1>19. ASSUME NEW o \in Owners, RetryRefused(o) PROVE Links'
  <2>1. at[o] # "none"
    BY <1>19 DEF RetryRefused
  <2>2. IdOf(o) \in Ids /\ JobOf(o) \in Tasks /\ JobOf(o) = TaskOf[IdOf(o)]
    BY <2>1, ClaimFacts
  <2> QED
    BY <2>2, <1>19 DEF IInv, Links, LifeTypeOK, RetryRefused, RestoreRefused,
       CompleteClaim, Goto
<1>20. ASSUME NEW o \in Owners, FinalizeOrphan(o) PROVE Links'
  <2>1. at[o] # "none"
    BY <1>20 DEF FinalizeOrphan
  <2>2. IdOf(o) \in Ids /\ JobOf(o) \in Tasks /\ JobOf(o) = TaskOf[IdOf(o)]
    BY <2>1, ClaimFacts
  <2> QED
    BY <2>2, <1>20 DEF IInv, Links, LifeTypeOK, FinalizeOrphan, FailPending,
       UpdatePending, SetTask, Fault, Goto
<1>21. ASSUME NEW o \in Owners, Settle(o) PROVE Links'
  <2>1. at[o] # "none"
    BY <1>21 DEF Settle
  <2>2. IdOf(o) \in Ids /\ JobOf(o) \in Tasks /\ JobOf(o) = TaskOf[IdOf(o)]
    BY <2>1, ClaimFacts
  <2> QED
    BY <2>2, <1>21 DEF IInv, Links, LifeTypeOK, Settle, Goto
<1>22. ASSUME NEW o \in Owners, GiveBack(o) PROVE Links'
  <2>1. at[o] # "none"
    BY <1>22 DEF GiveBack
  <2>2. IdOf(o) \in Ids /\ JobOf(o) \in Tasks /\ JobOf(o) = TaskOf[IdOf(o)]
    BY <2>1, ClaimFacts
  <2> QED
    BY <2>2, <1>22 DEF IInv, Links, LifeTypeOK, GiveBack, RestoreClaim,
       RestoreRefused, CompleteClaim, Goto
<1>23. ASSUME NEW o \in Owners, FailClaimed(o) PROVE Links'
  <2>1. at[o] # "none"
    BY <1>23 DEF FailClaimed
  <2>2. IdOf(o) \in Ids /\ JobOf(o) \in Tasks /\ JobOf(o) = TaskOf[IdOf(o)]
    BY <2>1, ClaimFacts
  <2> QED
    BY <2>2, <1>23 DEF IInv, Links, LifeTypeOK, FailClaimed, FailPending,
       UpdatePending, SetTask, Fault, Goto
<1>24. ASSUME NEW o \in Owners, CancelClaimed(o) PROVE Links'
  <2>1. at[o] # "none"
    BY <1>24 DEF CancelClaimed
  <2>2. IdOf(o) \in Ids /\ JobOf(o) \in Tasks /\ JobOf(o) = TaskOf[IdOf(o)]
    BY <2>1, ClaimFacts
  <2> QED
    BY <2>2, <1>24 DEF IInv, Links, LifeTypeOK, CancelClaimed, SetTask, Fault, Goto
<1>25. ASSUME NEW o \in Owners, Requeue(o) PROVE Links'
  <2>1. at[o] # "none"
    BY <1>25 DEF Requeue
  <2>2. IdOf(o) \in Ids /\ JobOf(o) \in Tasks /\ JobOf(o) = TaskOf[IdOf(o)]
    BY <2>1, ClaimFacts
  <2> QED
    BY <2>2, <1>25 DEF IInv, Links, LifeTypeOK, Requeue, SetTask, Fault, Goto
<1>26. ASSUME NEW o \in Owners, Enqueue(o) PROVE Links'
  <2>1. at[o] # "none"
    BY <1>26 DEF Enqueue
  <2>2. IdOf(o) \in Ids /\ JobOf(o) \in Tasks /\ JobOf(o) = TaskOf[IdOf(o)]
    BY <2>1, ClaimFacts
  <2> QED
    BY <2>2, <1>26 DEF IInv, Links, LifeTypeOK, Enqueue, SetTask, Fault, Goto
<1>27. ASSUME NEW o \in Owners, Complete(o) PROVE Links'
  <2>1. at[o] # "none"
    BY <1>27 DEF Complete
  <2>2. IdOf(o) \in Ids /\ JobOf(o) \in Tasks /\ JobOf(o) = TaskOf[IdOf(o)]
    BY <2>1, ClaimFacts
  <2> QED
    BY <2>2, <1>27 DEF IInv, Links, LifeTypeOK, Complete, CompleteClaim, Goto
<1>28. ASSUME NEW o \in Owners, ReleaseLease(o) PROVE Links'
  <2>1. at[o] # "none"
    BY <1>28 DEF ReleaseLease
  <2>2. IdOf(o) \in Ids /\ JobOf(o) \in Tasks /\ JobOf(o) = TaskOf[IdOf(o)]
    BY <2>1, ClaimFacts
  <2> QED
    BY <2>2, <1>28 DEF IInv, Links, LifeTypeOK, ReleaseLease, Goto
<1>29. ASSUME NEW id \in Ids, NEW approve \in BOOLEAN, DecideMissing(id, approve)
       PROVE  Links'
  BY <1>29, RegistryAssumption, LifecycleAssumption DEF IInv, Links, LifeTypeOK,
     DecideMissing
<1>30. ASSUME NEW id \in Ids, NEW approve \in BOOLEAN, UpdateMissing(id, approve)
       PROVE  Links'
  BY <1>30, RegistryAssumption, LifecycleAssumption DEF IInv, Links, LifeTypeOK,
     UpdateMissing, SetTask, Fault
<1>31. ASSUME NEW id \in Ids, PassDeadline(id) PROVE Links'
  BY <1>31, RegistryAssumption, LifecycleAssumption DEF IInv, Links, LifeTypeOK,
     PassDeadline
<1>32. ASSUME NEW t \in Timers, FireTimer(t) PROVE Links'
  BY <1>32, RegistryAssumption, LifecycleAssumption DEF IInv, Links, LifeTypeOK,
     FireTimer, Fire
<1>33. ASSUME NEW o \in Owners, Unlock(o) PROVE Links'
  BY <1>33, RegistryAssumption, LifecycleAssumption DEF IInv, Links, LifeTypeOK,
     Unlock, OwnerDone
<1>34. ASSUME NEW o \in Owners, LeaveCallback(o) PROVE Links'
  BY <1>34, RegistryAssumption, LifecycleAssumption DEF IInv, Links, LifeTypeOK,
     LeaveCallback, CallbackDone
<1>35. ASSUME NEW t \in Timers, Stale(t) PROVE Links'
  BY <1>35, RegistryAssumption, LifecycleAssumption DEF IInv, Links, LifeTypeOK,
     Stale, ExpireStale
<1>36. ASSUME StopWorkers PROVE Links'
  BY <1>36, RegistryAssumption, LifecycleAssumption DEF IInv, Links, LifeTypeOK,
     StopWorkers
<1>37. ASSUME RunnerClosed PROVE Links'
  BY <1>37, RegistryAssumption, LifecycleAssumption DEF IInv, Links, LifeTypeOK,
     RunnerClosed
<1>38. ASSUME CloseRegistry PROVE Links'
  BY <1>38, RegistryAssumption, LifecycleAssumption DEF IInv, Links, LifeTypeOK,
     CloseRegistry, CloseStart
<1>39. ASSUME WaitRegistry PROVE Links'
  BY <1>39, RegistryAssumption, LifecycleAssumption DEF IInv, Links, LifeTypeOK,
     WaitRegistry, CloseOwners, CloseReturn
<1>40. ASSUME NEW e \in Entries, ResolveHandle(e) PROVE Links'
  BY <1>40, RegistryAssumption, LifecycleAssumption DEF IInv, Links, LifeTypeOK,
     ResolveHandle, Fault
<1>41. ASSUME NEW e \in Entries, FinalizeHandle(e) PROVE Links'
  <2>1. home[e] \in Ids /\ TaskOf[home[e]] \in Tasks
    BY <1>41, LifecycleAssumption DEF IInv, Closedown, FinalizeHandle
  <2> QED
    BY <2>1, <1>41 DEF IInv, Links, LifeTypeOK, FinalizeHandle, FailPending,
       UpdatePending, SetTask, Fault
<1>42. ASSUME Down PROVE Links'
  BY <1>42, RegistryAssumption, LifecycleAssumption DEF IInv, Links, LifeTypeOK,
     Down
<1>43. CASE UNCHANGED vars
  BY <1>43, RegistryAssumption, LifecycleAssumption DEF IInv, Links, LifeTypeOK,
     vars
<1> QED
  BY <1>1, <1>2, <1>3, <1>4, <1>5, <1>6, <1>7, <1>8, <1>9, <1>10, <1>11, <1>12,
     <1>13, <1>14, <1>15, <1>16, <1>17, <1>18, <1>19, <1>20, <1>21, <1>22, <1>23,
     <1>24, <1>25, <1>26, <1>27, <1>28, <1>29, <1>30, <1>31, <1>32, <1>33, <1>34,
     <1>35, <1>36, <1>37, <1>38, <1>39, <1>40, <1>41, <1>42, <1>43 DEF Next,
     WorkStep, ClaimStep, Arrive, UpdateMissed, CloseStep, Finished

\* Every step keeps what the stages of close() have established.
LEMMA ClosedownStep == IInv /\ [Next]_vars => Closedown'
<1> SUFFICES ASSUME IInv, [Next]_vars PROVE Closedown'
  OBVIOUS
<1> USE DEF lifeVars, claimRest, recVars, taskVars, workVars, claimVars, missVars,
   regVars, timerVars, ownerVars
<1>1. ASSUME NEW x \in Tasks, StartJob(x) PROVE Closedown'
  BY <1>1 DEF IInv, Closedown, LifeTypeOK, RegIInv, RegTypeOK, Homed, StartJob,
     SetTask, FinalizeAccepted, Fault
<1>2. ASSUME NEW x \in Tasks, FinishRun(x) PROVE Closedown'
  BY <1>2 DEF IInv, Closedown, LifeTypeOK, RegIInv, RegTypeOK, Homed, FinishRun,
     SetTask, Fault
<1>3. ASSUME NEW x \in Tasks, NEW id \in Ids, PauseRun(x, id) PROVE Closedown'
  BY <1>3 DEF IInv, Closedown, LifeTypeOK, RegIInv, RegTypeOK, Homed, PauseRun
<1>4. ASSUME NEW x \in Tasks, CheckResume(x) PROVE Closedown'
  BY <1>4 DEF IInv, Closedown, LifeTypeOK, RegIInv, RegTypeOK, Homed, CheckResume,
     SetTask
<1>5. ASSUME NEW x \in Tasks, Consume(x) PROVE Closedown'
  BY <1>5 DEF IInv, Closedown, LifeTypeOK, RegIInv, RegTypeOK, Homed, Consume,
     Consumable, SetTask, Fault
<1>6. ASSUME NEW x \in Tasks, MarkPending(x) PROVE Closedown'
  BY <1>6 DEF IInv, Closedown, LifeTypeOK, RegIInv, RegTypeOK, Homed, MarkPending,
     SetTask, Fault
<1>7. ASSUME NEW x \in Tasks, NEW e \in Entries, Park(x, e) PROVE Closedown'
  BY <1>7 DEF IInv, Closedown, LifeTypeOK, RegIInv, RegTypeOK, Homed, Park,
     Register, Registrable
<1>8. ASSUME NEW x \in Tasks, ParkFails(x) PROVE Closedown'
  BY <1>8 DEF IInv, Closedown, LifeTypeOK, RegIInv, RegTypeOK, Homed, ParkFails,
     Fault, FailPending, UpdatePending, SetTask
<1>9. ASSUME NEW x \in Tasks, LeaveJob(x) PROVE Closedown'
  BY <1>9 DEF IInv, Closedown, LifeTypeOK, RegIInv, RegTypeOK, Homed, LeaveJob,
     FinalizeAccepted, SetTask
<1>10. ASSUME NEW id \in Ids, NEW approve \in BOOLEAN, NEW o \in Owners, Decide(id, approve, o)
       PROVE  Closedown'
  BY <1>10 DEF IInv, Closedown, LifeTypeOK, RegIInv, RegTypeOK, Homed, Decide,
     Claim, Own, Goto
<1>11. ASSUME NEW t \in Timers, NEW o \in Owners, ExpireHandle(t, o) PROVE Closedown'
  BY <1>11 DEF IInv, Closedown, LifeTypeOK, RegIInv, RegTypeOK, Homed, ExpireHandle,
     Expire, Own, Goto
<1>12. ASSUME NEW o \in Owners, ReadRecord(o) PROVE Closedown'
  BY <1>12 DEF IInv, Closedown, LifeTypeOK, RegIInv, RegTypeOK, Homed, ReadRecord,
     Fault, Goto
<1>13. ASSUME NEW o \in Owners, Resolve(o) PROVE Closedown'
  BY <1>13 DEF IInv, Closedown, LifeTypeOK, RegIInv, RegTypeOK, Homed, Resolve,
     Fault, Goto
<1>14. ASSUME NEW o \in Owners, Reread(o) PROVE Closedown'
  BY <1>14 DEF IInv, Closedown, LifeTypeOK, RegIInv, RegTypeOK, Homed, Reread,
     Fault, Goto
<1>15. ASSUME NEW o \in Owners, CancelExpired(o) PROVE Closedown'
  BY <1>15 DEF IInv, Closedown, LifeTypeOK, RegIInv, RegTypeOK, Homed,
     CancelExpired, Expiring, UpdatePending, SetTask, Done, Goto, Fault
<1>16. ASSUME NEW o \in Owners, FailExpired(o) PROVE Closedown'
  BY <1>16 DEF IInv, Closedown, LifeTypeOK, RegIInv, RegTypeOK, Homed, FailExpired,
     Expiring, FailPending, UpdatePending, SetTask, Done, GiveUp, Goto, Fault
<1>17. ASSUME NEW o \in Owners, ExpiryUnsure(o) PROVE Closedown'
  BY <1>17 DEF IInv, Closedown, LifeTypeOK, RegIInv, RegTypeOK, Homed, ExpiryUnsure,
     Expiring, GiveUp, Goto
<1>18. ASSUME NEW o \in Owners, RetryExpiry(o) PROVE Closedown'
  BY <1>18 DEF IInv, Closedown, LifeTypeOK, RegIInv, RegTypeOK, Homed, RetryExpiry,
     RestoreClaim, Goto
<1>19. ASSUME NEW o \in Owners, RetryRefused(o) PROVE Closedown'
  BY <1>19 DEF IInv, Closedown, LifeTypeOK, RegIInv, RegTypeOK, Homed, RetryRefused,
     RestoreRefused, CompleteClaim, Goto
<1>20. ASSUME NEW o \in Owners, FinalizeOrphan(o) PROVE Closedown'
  BY <1>20 DEF IInv, Closedown, LifeTypeOK, RegIInv, RegTypeOK, Homed,
     FinalizeOrphan, FailPending, UpdatePending, SetTask, Fault, Goto
<1>21. ASSUME NEW o \in Owners, Settle(o) PROVE Closedown'
  BY <1>21 DEF IInv, Closedown, LifeTypeOK, RegIInv, RegTypeOK, Homed, Settle, Goto
<1>22. ASSUME NEW o \in Owners, GiveBack(o) PROVE Closedown'
  BY <1>22 DEF IInv, Closedown, LifeTypeOK, RegIInv, RegTypeOK, Homed, GiveBack,
     RestoreClaim, RestoreRefused, CompleteClaim, Goto
<1>23. ASSUME NEW o \in Owners, FailClaimed(o) PROVE Closedown'
  BY <1>23 DEF IInv, Closedown, LifeTypeOK, RegIInv, RegTypeOK, Homed, FailClaimed,
     FailPending, UpdatePending, SetTask, Fault, Goto
<1>24. ASSUME NEW o \in Owners, CancelClaimed(o) PROVE Closedown'
  BY <1>24 DEF IInv, Closedown, LifeTypeOK, RegIInv, RegTypeOK, Homed,
     CancelClaimed, SetTask, Fault, Goto
<1>25. ASSUME NEW o \in Owners, Requeue(o) PROVE Closedown'
  BY <1>25 DEF IInv, Closedown, LifeTypeOK, RegIInv, RegTypeOK, Homed, Requeue,
     SetTask, Fault, Goto
<1>26. ASSUME NEW o \in Owners, Enqueue(o) PROVE Closedown'
  BY <1>26 DEF IInv, Closedown, LifeTypeOK, RegIInv, RegTypeOK, Homed, Enqueue,
     SetTask, Fault, Goto
<1>27. ASSUME NEW o \in Owners, Complete(o) PROVE Closedown'
  BY <1>27 DEF IInv, Closedown, LifeTypeOK, RegIInv, RegTypeOK, Homed, Complete,
     CompleteClaim, Goto
<1>28. ASSUME NEW o \in Owners, ReleaseLease(o) PROVE Closedown'
  BY <1>28 DEF IInv, Closedown, LifeTypeOK, RegIInv, RegTypeOK, Homed, ReleaseLease,
     Goto
<1>29. ASSUME NEW id \in Ids, NEW approve \in BOOLEAN, DecideMissing(id, approve)
       PROVE  Closedown'
  BY <1>29 DEF IInv, Closedown, LifeTypeOK, RegIInv, RegTypeOK, Homed, DecideMissing
<1>30. ASSUME NEW id \in Ids, NEW approve \in BOOLEAN, UpdateMissing(id, approve)
       PROVE  Closedown'
  BY <1>30 DEF IInv, Closedown, LifeTypeOK, RegIInv, RegTypeOK, Homed,
     UpdateMissing, SetTask, Fault
<1>31. ASSUME NEW id \in Ids, PassDeadline(id) PROVE Closedown'
  BY <1>31 DEF IInv, Closedown, LifeTypeOK, RegIInv, RegTypeOK, Homed, PassDeadline
<1>32. ASSUME NEW t \in Timers, FireTimer(t) PROVE Closedown'
  BY <1>32 DEF IInv, Closedown, LifeTypeOK, RegIInv, RegTypeOK, Homed, FireTimer,
     Fire
<1>33. ASSUME NEW o \in Owners, Unlock(o) PROVE Closedown'
  BY <1>33 DEF IInv, Closedown, LifeTypeOK, RegIInv, RegTypeOK, Homed, Unlock,
     OwnerDone
<1>34. ASSUME NEW o \in Owners, LeaveCallback(o) PROVE Closedown'
  BY <1>34 DEF IInv, Closedown, LifeTypeOK, RegIInv, RegTypeOK, Homed,
     LeaveCallback, CallbackDone
<1>35. ASSUME NEW t \in Timers, Stale(t) PROVE Closedown'
  BY <1>35 DEF IInv, Closedown, LifeTypeOK, RegIInv, RegTypeOK, Homed, Stale,
     ExpireStale
<1>36. ASSUME StopWorkers PROVE Closedown'
  BY <1>36 DEF IInv, Closedown, LifeTypeOK, RegIInv, RegTypeOK, Homed, StopWorkers
<1>37. ASSUME RunnerClosed PROVE Closedown'
  BY <1>37 DEF IInv, Closedown, LifeTypeOK, RegIInv, RegTypeOK, Homed, RunnerClosed
<1>38. ASSUME CloseRegistry PROVE Closedown'
  BY <1>38 DEF IInv, Closedown, LifeTypeOK, RegIInv, RegTypeOK, Homed,
     CloseRegistry, CloseStart
<1>39. ASSUME WaitRegistry PROVE Closedown'
  BY <1>39 DEF IInv, Closedown, LifeTypeOK, RegIInv, RegTypeOK, Homed, WaitRegistry,
     CloseOwners, CloseReturn
<1>40. ASSUME NEW e \in Entries, ResolveHandle(e) PROVE Closedown'
  BY <1>40 DEF IInv, Closedown, LifeTypeOK, RegIInv, RegTypeOK, Homed,
     ResolveHandle, Fault
<1>41. ASSUME NEW e \in Entries, FinalizeHandle(e) PROVE Closedown'
  BY <1>41 DEF IInv, Closedown, LifeTypeOK, RegIInv, RegTypeOK, Homed,
     FinalizeHandle, FailPending, UpdatePending, SetTask, Fault
<1>42. ASSUME Down PROVE Closedown'
  BY <1>42 DEF IInv, Closedown, LifeTypeOK, RegIInv, RegTypeOK, Homed, Down
<1>43. CASE UNCHANGED vars
  BY <1>43 DEF IInv, Closedown, LifeTypeOK, RegIInv, RegTypeOK, Homed, vars
<1> QED
  BY <1>1, <1>2, <1>3, <1>4, <1>5, <1>6, <1>7, <1>8, <1>9, <1>10, <1>11, <1>12,
     <1>13, <1>14, <1>15, <1>16, <1>17, <1>18, <1>19, <1>20, <1>21, <1>22, <1>23,
     <1>24, <1>25, <1>26, <1>27, <1>28, <1>29, <1>30, <1>31, <1>32, <1>33, <1>34,
     <1>35, <1>36, <1>37, <1>38, <1>39, <1>40, <1>41, <1>42, <1>43 DEF Next,
     WorkStep, ClaimStep, Arrive, UpdateMissed, CloseStep, Finished

\* The step that makes a claim.
LEMMA OwnEffect ==
  ASSUME IInv, NEW id \in Ids, NEW o \in Owners, Own(id, o), entries[id] # None, UNCHANGED home
  PROVE  /\ at[o] = "none" /\ closing = "open"
         /\ IdOf(o)' = id /\ JobOf(o)' = TaskOf[id]
         /\ entries' = [entries EXCEPT ![id] = None]
<1>1. closing = "open" /\ owner[o] = "unused"
  BY OwnFacts DEF IInv
<1>2. entries[id] \in Entries /\ home[entries[id]] = id
  BY OwnFacts DEF IInv
<1>3. owned' = [owned EXCEPT ![o] = entries[id]] /\ owned'[o] = entries[id]
  BY DEF IInv, RegIInv, RegTypeOK, Own
<1>4. IdOf(o)' = id
  BY <1>2, <1>3 DEF IdOf
<1> QED
  BY <1>1, <1>4 DEF IInv, Fresh, Own, JobOf

\* The same for a decision and for a timer.
LEMMA DecideEffect ==
  ASSUME IInv, NEW id \in Ids, NEW approve \in BOOLEAN, NEW o \in Owners, Decide(id, approve, o)
  PROVE  /\ at[o] = "none" /\ entries[id] # None /\ closing = "open"
         /\ IdOf(o)' = id /\ JobOf(o)' = TaskOf[id]
         /\ entries' = [entries EXCEPT ![id] = None]
<1>1. Own(id, o) /\ entries[id] # None /\ UNCHANGED home
  BY DEF Decide, Claim
<1> QED
  BY <1>1, OwnEffect

\* What a timer that expires takes from the registry.
LEMMA ExpireEffect ==
  ASSUME IInv, NEW t \in Timers, NEW o \in Owners, ExpireHandle(t, o)
  PROVE  \E id \in Ids : /\ at[o] = "none" /\ entries[id] # None /\ closing = "open"
                        /\ IdOf(o)' = id /\ JobOf(o)' = TaskOf[id]
                        /\ entries' = [entries EXCEPT ![id] = None]
<1> DEFINE e == timed[t]
<1>1. Expire(t, o)
  BY DEF ExpireHandle
<1>2. e \in Entries /\ home[e] \in Ids /\ entries[home[e]] = e /\ Own(home[e], o) /\ UNCHANGED home
  BY <1>1 DEF IInv, RegIInv, Homed, Expire
<1>3. entries[home[e]] # None
  BY <1>2, RegistryAssumption
<1> QED
  BY <1>2, <1>3, OwnEffect

\* The step that gives the handle of a claim back.
LEMMA RestoreEffect ==
  ASSUME IInv, NEW o \in Owners, at[o] # "none", NEW d \in BOOLEAN, RestoreClaim(o, d)
  PROVE  /\ owned[o] \in Entries /\ owned[o] # None /\ closing = "open" /\ UNCHANGED home
         /\ entries' = [entries EXCEPT ![IdOf(o)] = owned[o]]
BY ClaimFacts, RegistryAssumption DEF RestoreClaim, IdOf

\* A handle in the registry is one of the entries.
LEMMA EntryFacts ==
  ASSUME IInv, NEW id \in Ids, entries[id] # None
  PROVE  entries[id] \in Entries /\ home[entries[id]] = id
BY DEF IInv, RegIInv, RegTypeOK, Homed

\* Every step keeps a holder for each task or releases its lease.
LEMMA CoveredStep == IInv /\ [Next]_vars => Covered'
<1> SUFFICES ASSUME IInv, [Next]_vars PROVE Covered'
  OBVIOUS
<1> USE DEF lifeVars, claimRest, recVars, taskVars, workVars, claimVars, missVars,
   regVars, timerVars, ownerVars
<1>0. \A w \in Owners : at[w] # "none" => JobOf(w)' = JobOf(w)
  BY IdKept
<1>1. ASSUME NEW x \in Tasks, StartJob(x) PROVE Covered'
  BY <1>1, <1>0, LifecycleAssumption DEF IInv, Covered, Working, Waits, Holds,
     Claimed, Returned, LifeTypeOK, Points, StartJob, SetTask, FinalizeAccepted,
     Fault
<1>2. ASSUME NEW x \in Tasks, FinishRun(x) PROVE Covered'
  BY <1>2, <1>0, LifecycleAssumption DEF IInv, Covered, Working, Waits, Holds,
     Claimed, Returned, LifeTypeOK, Points, FinishRun, SetTask, Fault
<1>3. ASSUME NEW x \in Tasks, NEW id \in Ids, PauseRun(x, id) PROVE Covered'
  BY <1>3, <1>0, LifecycleAssumption DEF IInv, Covered, Working, Waits, Holds,
     Claimed, Returned, LifeTypeOK, Points, PauseRun
<1>4. ASSUME NEW x \in Tasks, CheckResume(x) PROVE Covered'
  <2>1. about[x] \in Ids /\ TaskOf[about[x]] = x
    BY <1>4, AboutFacts DEF CheckResume
  <2> QED
    BY <1>0, <2>1, <1>4 DEF IInv, Covered, Working, Waits, Holds, Claimed, Returned,
       LifeTypeOK, Points, CheckResume, SetTask
<1>5. ASSUME NEW x \in Tasks, Consume(x) PROVE Covered'
  <2>1. about[x] \in Ids /\ TaskOf[about[x]] = x
    BY <1>5, AboutFacts DEF Consume
  <2> QED
    BY <1>0, <2>1, <1>5 DEF IInv, Covered, Working, Waits, Holds, Claimed, Returned,
       LifeTypeOK, Points, Consume, Consumable, SetTask, Fault
<1>6. ASSUME NEW x \in Tasks, MarkPending(x) PROVE Covered'
  <2>1. about[x] \in Ids /\ TaskOf[about[x]] = x
    BY <1>6, AboutFacts DEF MarkPending
  <2> QED
    BY <1>0, <2>1, <1>6 DEF IInv, Covered, Working, Waits, Holds, Claimed, Returned,
       LifeTypeOK, Points, MarkPending, SetTask, Fault
<1>7. ASSUME NEW x \in Tasks, NEW e \in Entries, Park(x, e) PROVE Covered'
  <2>1. about[x] \in Ids /\ TaskOf[about[x]] = x
    BY <1>7, AboutFacts DEF Park
  <2>2. /\ e # None /\ entries' = [entries EXCEPT ![about[x]] = e]
        /\ UNCHANGED <<owned, owner, at, kind, accepted, released, hands>>
    BY <1>7, RegistryAssumption DEF Park, Register, Registrable, ownerVars, claimVars
  <2>3. \A y \in Tasks : (Waits(y) => Waits(y)') /\ Waits(x)'
    BY <2>1, <2>2 DEF IInv, RegIInv, RegTypeOK, Waits
  <2>4. \A y \in Tasks : y # x => work'[y] = work[y] /\ retain'[y] = retain[y]
    BY <1>7 DEF IInv, LifeTypeOK, Park
  <2>5. \A y \in Tasks : Claimed(y) => Claimed(y)'
    BY <1>0, <2>2 DEF Claimed, Holds
  <2>6. \A y \in Tasks : Returned(y) => Returned(y)'
    BY <2>2, <1>7, RegistryAssumption DEF IInv, Closedown, Returned, Park, Register,
       Registrable
  <2> QED
    BY <2>2, <2>3, <2>4, <2>5, <2>6 DEF IInv, Covered, Working
<1>8. ASSUME NEW x \in Tasks, ParkFails(x) PROVE Covered'
  <2>1. about[x] \in Ids /\ TaskOf[about[x]] = x
    BY <1>8, AboutFacts DEF ParkFails
  <2> QED
    BY <1>0, <2>1, <1>8 DEF IInv, Covered, Working, Waits, Holds, Claimed, Returned,
       LifeTypeOK, Points, ParkFails, Fault, FailPending, UpdatePending, SetTask
<1>9. ASSUME NEW x \in Tasks, LeaveJob(x) PROVE Covered'
  BY <1>9, <1>0, LifecycleAssumption DEF IInv, Covered, Working, Waits, Holds,
     Claimed, Returned, LifeTypeOK, Points, LeaveJob, FinalizeAccepted, SetTask
<1>10. ASSUME NEW id \in Ids, NEW approve \in BOOLEAN, NEW o \in Owners, Decide(id, approve, o)
       PROVE  Covered'
  <2>1. /\ at[o] = "none" /\ entries[id] # None /\ closing = "open"
        /\ JobOf(o)' = TaskOf[id] /\ entries' = [entries EXCEPT ![id] = None]
    BY <1>10, DecideEffect
  <2>2. /\ Holds(o)' /\ UNCHANGED <<work, retain, accepted, released, hands, home>>
        /\ \A w \in Owners : w # o => at'[w] = at[w] /\ kind'[w] = kind[w]
    BY <1>10 DEF IInv, LifeTypeOK, Holds, Decide, Goto, Claim, Expire, claimRest,
       workVars
  <2>3. \A y \in Tasks : Waits(y) => Waits(y)' \/ Claimed(y)'
    BY <2>1, <2>2 DEF IInv, RegIInv, RegTypeOK, Waits, Claimed
  <2>4. \A y \in Tasks : Claimed(y) => Claimed(y)'
    BY <1>0, <2>1, <2>2 DEF Claimed, Holds
  <2> QED
    BY <2>2, <2>3, <2>4 DEF IInv, Covered, Working, Returned
<1>11. ASSUME NEW t \in Timers, NEW o \in Owners, ExpireHandle(t, o) PROVE Covered'
  <2>1. PICK id \in Ids : /\ at[o] = "none" /\ entries[id] # None /\ closing = "open"
                        /\ JobOf(o)' = TaskOf[id] /\ entries' = [entries EXCEPT ![id] = None]
    BY <1>11, ExpireEffect
  <2>2. /\ Holds(o)' /\ UNCHANGED <<work, retain, accepted, released, hands, home>>
        /\ \A w \in Owners : w # o => at'[w] = at[w] /\ kind'[w] = kind[w]
    BY <1>11 DEF IInv, LifeTypeOK, Holds, ExpireHandle, Goto, Claim, Expire,
       claimRest, workVars
  <2>3. \A y \in Tasks : Waits(y) => Waits(y)' \/ Claimed(y)'
    BY <2>1, <2>2 DEF IInv, RegIInv, RegTypeOK, Waits, Claimed
  <2>4. \A y \in Tasks : Claimed(y) => Claimed(y)'
    BY <1>0, <2>1, <2>2 DEF Claimed, Holds
  <2> QED
    BY <2>2, <2>3, <2>4 DEF IInv, Covered, Working, Returned
<1>12. ASSUME NEW o \in Owners, ReadRecord(o) PROVE Covered'
  <2>1. at[o] # "none"
    BY <1>12 DEF ReadRecord
  <2>2. IdOf(o) \in Ids /\ JobOf(o) \in Tasks /\ JobOf(o) = TaskOf[IdOf(o)]
    BY <2>1, ClaimFacts
  <2> QED
    BY <1>0, <2>2, <1>12 DEF IInv, Covered, Working, Waits, Holds, Claimed,
       Returned, LifeTypeOK, Points, ReadRecord, Fault, Goto
<1>13. ASSUME NEW o \in Owners, Resolve(o) PROVE Covered'
  <2>1. at[o] # "none"
    BY <1>13 DEF Resolve
  <2>2. IdOf(o) \in Ids /\ JobOf(o) \in Tasks /\ JobOf(o) = TaskOf[IdOf(o)]
    BY <2>1, ClaimFacts
  <2> QED
    BY <1>0, <2>2, <1>13 DEF IInv, Covered, Working, Waits, Holds, Claimed,
       Returned, LifeTypeOK, Points, Resolve, Fault, Goto
<1>14. ASSUME NEW o \in Owners, Reread(o) PROVE Covered'
  <2>1. at[o] # "none"
    BY <1>14 DEF Reread
  <2>2. IdOf(o) \in Ids /\ JobOf(o) \in Tasks /\ JobOf(o) = TaskOf[IdOf(o)]
    BY <2>1, ClaimFacts
  <2> QED
    BY <1>0, <2>2, <1>14 DEF IInv, Covered, Working, Waits, Holds, Claimed,
       Returned, LifeTypeOK, Points, Reread, Fault, Goto
<1>15. ASSUME NEW o \in Owners, CancelExpired(o) PROVE Covered'
  <2>1. at[o] # "none"
    BY <1>15 DEF CancelExpired
  <2>2. IdOf(o) \in Ids /\ JobOf(o) \in Tasks /\ JobOf(o) = TaskOf[IdOf(o)]
    BY <2>1, ClaimFacts
  <2> QED
    BY <1>0, <2>2, <1>15 DEF IInv, Covered, Working, Waits, Holds, Claimed,
       Returned, LifeTypeOK, Points, CancelExpired, Expiring, UpdatePending,
       SetTask, Done, Goto, Fault
<1>16. ASSUME NEW o \in Owners, FailExpired(o) PROVE Covered'
  <2>1. at[o] # "none"
    BY <1>16 DEF FailExpired
  <2>2. IdOf(o) \in Ids /\ JobOf(o) \in Tasks /\ JobOf(o) = TaskOf[IdOf(o)]
    BY <2>1, ClaimFacts
  <2> QED
    BY <1>0, <2>2, <1>16 DEF IInv, Covered, Working, Waits, Holds, Claimed,
       Returned, LifeTypeOK, Points, FailExpired, Expiring, FailPending,
       UpdatePending, SetTask, Done, GiveUp, Goto, Fault
<1>17. ASSUME NEW o \in Owners, ExpiryUnsure(o) PROVE Covered'
  <2>1. at[o] # "none"
    BY <1>17 DEF ExpiryUnsure
  <2>2. IdOf(o) \in Ids /\ JobOf(o) \in Tasks /\ JobOf(o) = TaskOf[IdOf(o)]
    BY <2>1, ClaimFacts
  <2> QED
    BY <1>0, <2>2, <1>17 DEF IInv, Covered, Working, Waits, Holds, Claimed,
       Returned, LifeTypeOK, Points, ExpiryUnsure, Expiring, GiveUp, Goto
<1>18. ASSUME NEW o \in Owners, RetryExpiry(o) PROVE Covered'
  <2>1. RestoreClaim(o, TRUE) /\ at[o] # "none"
    BY <1>18 DEF RetryExpiry
  <2>2. IdOf(o) \in Ids /\ JobOf(o) = TaskOf[IdOf(o)]
    BY <2>1, ClaimFacts
  <2>3. /\ owned[o] # None /\ closing = "open" /\ UNCHANGED home
        /\ entries' = [entries EXCEPT ![IdOf(o)] = owned[o]]
    BY <2>1, RestoreEffect
  <2> QED
    BY <1>0, <2>2, <2>3, <1>18 DEF IInv, RegIInv, RegTypeOK, Covered, Working,
       Waits, Holds, Claimed, Returned, LifeTypeOK, Points, RetryExpiry, Goto
<1>19. ASSUME NEW o \in Owners, RetryRefused(o) PROVE Covered'
  <2>1. at[o] # "none"
    BY <1>19 DEF RetryRefused
  <2>2. IdOf(o) \in Ids /\ JobOf(o) \in Tasks /\ JobOf(o) = TaskOf[IdOf(o)]
    BY <2>1, ClaimFacts
  <2> QED
    BY <1>0, <2>2, <1>19 DEF IInv, Covered, Working, Waits, Holds, Claimed,
       Returned, LifeTypeOK, Points, RetryRefused, RestoreRefused, CompleteClaim,
       Goto
<1>20. ASSUME NEW o \in Owners, FinalizeOrphan(o) PROVE Covered'
  <2>1. at[o] # "none"
    BY <1>20 DEF FinalizeOrphan
  <2>2. IdOf(o) \in Ids /\ JobOf(o) \in Tasks /\ JobOf(o) = TaskOf[IdOf(o)]
    BY <2>1, ClaimFacts
  <2> QED
    BY <1>0, <2>2, <1>20 DEF IInv, Covered, Working, Waits, Holds, Claimed,
       Returned, LifeTypeOK, Points, FinalizeOrphan, FailPending, UpdatePending,
       SetTask, Fault, Goto
<1>21. ASSUME NEW o \in Owners, Settle(o) PROVE Covered'
  <2>1. at[o] # "none"
    BY <1>21 DEF Settle
  <2>2. IdOf(o) \in Ids /\ JobOf(o) \in Tasks /\ JobOf(o) = TaskOf[IdOf(o)]
    BY <2>1, ClaimFacts
  <2> QED
    BY <1>0, <2>2, <1>21 DEF IInv, Covered, Working, Waits, Holds, Claimed,
       Returned, LifeTypeOK, Points, Settle, Goto
<1>22. ASSUME NEW o \in Owners, GiveBack(o) PROVE Covered'
  <2>1. at[o] # "none"
    BY <1>22 DEF GiveBack
  <2>2. IdOf(o) \in Ids /\ JobOf(o) = TaskOf[IdOf(o)]
    BY <2>1, ClaimFacts
  <2>3. CASE RestoreClaim(o, TRUE) /\ Goto(o, "end")
    <3>1. /\ owned[o] # None /\ closing = "open" /\ UNCHANGED home
          /\ entries' = [entries EXCEPT ![IdOf(o)] = owned[o]]
      BY <2>1, <2>3, RestoreEffect
    <3> QED
      BY <1>0, <2>2, <2>3, <3>1, <1>22 DEF IInv, RegIInv, RegTypeOK, Covered,
         Working, Waits, Holds, Claimed, Returned, LifeTypeOK, Points, GiveBack,
         Goto
  <2>4. CASE RestoreRefused(o) /\ Goto(o, "fail")
    BY <1>0, <2>2, <2>4, <1>22 DEF IInv, Covered, Working, Waits, Holds, Claimed,
       Returned, LifeTypeOK, Points, GiveBack, RestoreRefused, CompleteClaim, Goto
  <2> QED
    BY <1>22, <2>3, <2>4 DEF GiveBack
<1>23. ASSUME NEW o \in Owners, FailClaimed(o) PROVE Covered'
  <2>1. at[o] # "none"
    BY <1>23 DEF FailClaimed
  <2>2. IdOf(o) \in Ids /\ JobOf(o) \in Tasks /\ JobOf(o) = TaskOf[IdOf(o)]
    BY <2>1, ClaimFacts
  <2> QED
    BY <1>0, <2>2, <1>23 DEF IInv, Covered, Working, Waits, Holds, Claimed,
       Returned, LifeTypeOK, Points, FailClaimed, FailPending, UpdatePending,
       SetTask, Fault, Goto
<1>24. ASSUME NEW o \in Owners, CancelClaimed(o) PROVE Covered'
  <2>1. at[o] # "none"
    BY <1>24 DEF CancelClaimed
  <2>2. IdOf(o) \in Ids /\ JobOf(o) \in Tasks /\ JobOf(o) = TaskOf[IdOf(o)]
    BY <2>1, ClaimFacts
  <2> QED
    BY <1>0, <2>2, <1>24 DEF IInv, Covered, Working, Waits, Holds, Claimed,
       Returned, LifeTypeOK, Points, CancelClaimed, SetTask, Fault, Goto
<1>25. ASSUME NEW o \in Owners, Requeue(o) PROVE Covered'
  <2>1. at[o] # "none"
    BY <1>25 DEF Requeue
  <2>2. IdOf(o) \in Ids /\ JobOf(o) \in Tasks /\ JobOf(o) = TaskOf[IdOf(o)]
    BY <2>1, ClaimFacts
  <2> QED
    BY <1>0, <2>2, <1>25 DEF IInv, Covered, Working, Waits, Holds, Claimed,
       Returned, LifeTypeOK, Points, Requeue, SetTask, Fault, Goto
<1>26. ASSUME NEW o \in Owners, Enqueue(o) PROVE Covered'
  <2>1. at[o] # "none"
    BY <1>26 DEF Enqueue
  <2>2. IdOf(o) \in Ids /\ JobOf(o) \in Tasks /\ JobOf(o) = TaskOf[IdOf(o)]
    BY <2>1, ClaimFacts
  <2> QED
    BY <1>0, <2>2, <1>26 DEF IInv, Covered, Working, Waits, Holds, Claimed,
       Returned, LifeTypeOK, Points, Enqueue, SetTask, Fault, Goto
<1>27. ASSUME NEW o \in Owners, Complete(o) PROVE Covered'
  <2>1. at[o] # "none"
    BY <1>27 DEF Complete
  <2>2. IdOf(o) \in Ids /\ JobOf(o) \in Tasks /\ JobOf(o) = TaskOf[IdOf(o)]
    BY <2>1, ClaimFacts
  <2> QED
    BY <1>0, <2>2, <1>27 DEF IInv, Covered, Working, Waits, Holds, Claimed,
       Returned, LifeTypeOK, Points, Complete, CompleteClaim, Goto
<1>28. ASSUME NEW o \in Owners, ReleaseLease(o) PROVE Covered'
  <2>1. at[o] # "none"
    BY <1>28 DEF ReleaseLease
  <2>2. IdOf(o) \in Ids /\ JobOf(o) \in Tasks /\ JobOf(o) = TaskOf[IdOf(o)]
    BY <2>1, ClaimFacts
  <2> QED
    BY <1>0, <2>2, <1>28 DEF IInv, Covered, Working, Waits, Holds, Claimed,
       Returned, LifeTypeOK, Points, ReleaseLease, Goto
<1>29. ASSUME NEW id \in Ids, NEW approve \in BOOLEAN, DecideMissing(id, approve)
       PROVE  Covered'
  BY <1>29, <1>0, LifecycleAssumption DEF IInv, Covered, Working, Waits, Holds,
     Claimed, Returned, LifeTypeOK, Points, DecideMissing
<1>30. ASSUME NEW id \in Ids, NEW approve \in BOOLEAN, UpdateMissing(id, approve)
       PROVE  Covered'
  BY <1>30, <1>0, LifecycleAssumption DEF IInv, Covered, Working, Waits, Holds,
     Claimed, Returned, LifeTypeOK, Points, UpdateMissing, SetTask, Fault
<1>31. ASSUME NEW id \in Ids, PassDeadline(id) PROVE Covered'
  BY <1>31, <1>0, LifecycleAssumption DEF IInv, Covered, Working, Waits, Holds,
     Claimed, Returned, LifeTypeOK, Points, PassDeadline
<1>32. ASSUME NEW t \in Timers, FireTimer(t) PROVE Covered'
  BY <1>32, <1>0, LifecycleAssumption DEF IInv, Covered, Working, Waits, Holds,
     Claimed, Returned, LifeTypeOK, Points, FireTimer, Fire
<1>33. ASSUME NEW o \in Owners, Unlock(o) PROVE Covered'
  BY <1>33, <1>0, LifecycleAssumption DEF IInv, Covered, Working, Waits, Holds,
     Claimed, Returned, LifeTypeOK, Points, Unlock, OwnerDone
<1>34. ASSUME NEW o \in Owners, LeaveCallback(o) PROVE Covered'
  BY <1>34, <1>0, LifecycleAssumption DEF IInv, Covered, Working, Waits, Holds,
     Claimed, Returned, LifeTypeOK, Points, LeaveCallback, CallbackDone
<1>35. ASSUME NEW t \in Timers, Stale(t) PROVE Covered'
  BY <1>35, <1>0, LifecycleAssumption DEF IInv, Covered, Working, Waits, Holds,
     Claimed, Returned, LifeTypeOK, Points, Stale, ExpireStale
<1>36. ASSUME StopWorkers PROVE Covered'
  BY <1>36, <1>0, LifecycleAssumption DEF IInv, Covered, Working, Waits, Holds,
     Claimed, Returned, LifeTypeOK, Points, StopWorkers
<1>37. ASSUME RunnerClosed PROVE Covered'
  BY <1>37, <1>0, LifecycleAssumption DEF IInv, Covered, Working, Waits, Holds,
     Claimed, Returned, LifeTypeOK, Points, RunnerClosed
<1>38. ASSUME CloseRegistry PROVE Covered'
  <2>1. /\ UNCHANGED <<home, at, kind, work, retain, accepted, released>>
        /\ \A f \in Entries : hands'[f] =
             IF home[f] # None /\ entries[home[f]] = f THEN "resolve" ELSE "none"
    BY <1>38 DEF CloseRegistry, CloseStart, claimVars, workVars
  <2>2. ASSUME NEW y \in Tasks, Waits(y) PROVE Returned(y)'
    <3>1. PICK i \in Ids : TaskOf[i] = y /\ entries[i] # None
      BY <2>2 DEF Waits
    <3>2. entries[i] \in Entries /\ home[entries[i]] = i /\ i # None
      BY <3>1, EntryFacts, RegistryAssumption
    <3>3. hands'[entries[i]] = "resolve"
      BY <2>1, <3>2
    <3> QED
      BY <2>1, <3>1, <3>2, <3>3 DEF Returned
  <2>3. \A f \in Entries : hands[f] = "none"
    BY <1>38 DEF IInv, LifeTypeOK, Closedown, CloseRegistry, CloseStart
  <2>4. \A y \in Tasks : Claimed(y) => Claimed(y)'
    BY <1>0, <2>1 DEF Claimed, Holds
  <2> QED
    BY <2>1, <2>2, <2>3, <2>4 DEF IInv, Covered, Working, Returned
<1>39. ASSUME WaitRegistry PROVE Covered'
  BY <1>39, <1>0, LifecycleAssumption DEF IInv, Covered, Working, Waits, Holds,
     Claimed, Returned, LifeTypeOK, Points, WaitRegistry, CloseOwners, CloseReturn
<1>40. ASSUME NEW e \in Entries, ResolveHandle(e) PROVE Covered'
  BY <1>40, <1>0, LifecycleAssumption DEF IInv, Covered, Working, Waits, Holds,
     Claimed, Returned, LifeTypeOK, Points, ResolveHandle, Fault
<1>41. ASSUME NEW e \in Entries, FinalizeHandle(e) PROVE Covered'
  <2>1. home[e] \in Ids /\ TaskOf[home[e]] \in Tasks
    BY <1>41, LifecycleAssumption DEF IInv, Closedown, FinalizeHandle
  <2> QED
    BY <1>0, <2>1, <1>41 DEF IInv, Covered, Working, Waits, Holds, Claimed,
       Returned, LifeTypeOK, Points, FinalizeHandle, FailPending, UpdatePending,
       SetTask, Fault
<1>42. ASSUME Down PROVE Covered'
  BY <1>42, <1>0, LifecycleAssumption DEF IInv, Covered, Working, Waits, Holds,
     Claimed, Returned, LifeTypeOK, Points, Down
<1>43. CASE UNCHANGED vars
  BY <1>43, <1>0, LifecycleAssumption DEF IInv, Covered, Working, Waits, Holds,
     Claimed, Returned, LifeTypeOK, Points, vars
<1> QED
  BY <1>1, <1>2, <1>3, <1>4, <1>5, <1>6, <1>7, <1>8, <1>9, <1>10, <1>11, <1>12,
     <1>13, <1>14, <1>15, <1>16, <1>17, <1>18, <1>19, <1>20, <1>21, <1>22, <1>23,
     <1>24, <1>25, <1>26, <1>27, <1>28, <1>29, <1>30, <1>31, <1>32, <1>33, <1>34,
     <1>35, <1>36, <1>37, <1>38, <1>39, <1>40, <1>41, <1>42, <1>43 DEF Next,
     WorkStep, ClaimStep, Arrive, UpdateMissed, CloseStep, Finished

\* A step that gives nobody a task keeps one holder at most.
LEMMA BatonMono ==
  ASSUME IInv, [Next]_vars,
         accepted' \subseteq accepted,
         \A y \in Tasks : (Working(y)' => Working(y)) /\ (Returned(y)' => Returned(y)),
         \A w \in Owners : Holds(w)' => Holds(w),
         \A i \in Ids : entries'[i] # None => entries[i] # None
  PROVE  Baton'
<1>1. \A w \in Owners : Holds(w)' => Holds(w) /\ JobOf(w)' = JobOf(w)
  BY IdKept DEF Holds
<1>2. \A y \in Tasks : (Waits(y)' => Waits(y)) /\ (Claimed(y)' => Claimed(y))
  BY <1>1 DEF Waits, Claimed
<1>3. Baton /\ accepted \subseteq Tasks
  BY DEF IInv, LifeTypeOK
<1> QED
  BY <1>1, <1>2, <1>3 DEF Baton

\* A claim takes the task from the registry.
LEMMA BatonClaim ==
  ASSUME IInv, [Next]_vars, NEW id \in Ids, NEW o \in Owners,
         entries[id] # None, entries' = [entries EXCEPT ![id] = None], closing = "open",
         JobOf(o)' = TaskOf[id],
         UNCHANGED <<work, retain, accepted, hands, home>>,
         \A w \in Owners : w # o => at'[w] = at[w] /\ kind'[w] = kind[w]
  PROVE  Baton'
<1> DEFINE x == TaskOf[id]
<1>1. Baton /\ accepted \subseteq Tasks /\ x \in Tasks /\ accepted' = accepted
  BY LifecycleAssumption DEF IInv, LifeTypeOK
<1>2. Waits(x) /\ x \notin accepted /\ ~Working(x) /\ ~Claimed(x)
  BY <1>1 DEF Baton, Waits
<1>3. \A y \in Tasks : ~Returned(y) /\ ~Returned(y)'
  BY DEF IInv, Closedown, Returned
<1>4. \A y \in Tasks : Working(y)' <=> Working(y)
  BY DEF Working
<1>5. \A i \in Ids : entries'[i] # None => entries[i] # None /\ i # id
  BY DEF IInv, RegIInv, RegTypeOK
<1>6. \A y \in Tasks : Waits(y)' => Waits(y) /\ y # x
  BY <1>1, <1>5 DEF Waits, Baton
<1>7. \A w \in Owners : w # o /\ Holds(w)' => Holds(w) /\ JobOf(w)' = JobOf(w)
  BY IdKept DEF Holds
<1>8. \A y \in Tasks : Claimed(y)' => y = x \/ Claimed(y)
  BY <1>7 DEF Claimed
<1>9. \A w \in Owners : w # o /\ Holds(w)' => JobOf(w)' # x
  BY <1>2, <1>7 DEF Claimed
<1>10. \A v, w \in Owners : Holds(v)' /\ Holds(w)' /\ JobOf(v)' = JobOf(w)' => v = w
  BY <1>1, <1>7, <1>9 DEF Baton
<1>11. \A i, j \in Ids : entries'[i] # None /\ entries'[j] # None /\ TaskOf[i] = TaskOf[j] => i = j
  BY <1>1, <1>5 DEF Baton
<1>12. /\ \A y \in accepted' : ~Working(y)' /\ ~Waits(y)' /\ ~Claimed(y)' /\ ~Returned(y)'
       /\ \A y \in Tasks : Working(y)' => ~Waits(y)' /\ ~Claimed(y)' /\ ~Returned(y)'
       /\ \A y \in Tasks : Waits(y)' => ~Claimed(y)'
       /\ \A y \in Tasks : Claimed(y)' => ~Returned(y)'
  BY <1>1, <1>2, <1>3, <1>4, <1>6, <1>8 DEF Baton
<1> QED
  BY <1>10, <1>11, <1>12 DEF Baton

\* A claim hands its task back to the registry.
LEMMA BatonRestore ==
  ASSUME IInv, [Next]_vars, NEW o \in Owners, RestoreClaim(o, TRUE), Goto(o, "end"),
         at[o] \in {"restore", "act"},
         UNCHANGED <<work, retain, accepted, hands, kind>>
  PROVE  Baton'
<1> DEFINE x == JobOf(o)
<1>1. Baton /\ accepted \subseteq Tasks /\ x \in Tasks /\ accepted' = accepted
  BY ClaimFacts DEF IInv, LifeTypeOK
<1>2. IdOf(o) \in Ids /\ x = TaskOf[IdOf(o)]
  BY ClaimFacts
<1>3. /\ owned[o] # None /\ closing = "open" /\ UNCHANGED home
      /\ entries' = [entries EXCEPT ![IdOf(o)] = owned[o]]
  BY RestoreEffect
<1>4. Holds(o) /\ Claimed(x) /\ x \notin accepted /\ ~Working(x) /\ ~Waits(x)
  BY <1>1 DEF Baton, Holds, Claimed
<1>5. \A y \in Tasks : ~Returned(y) /\ ~Returned(y)'
  BY <1>3 DEF IInv, Closedown, Returned
<1>6. \A y \in Tasks : Working(y)' <=> Working(y)
  BY DEF Working
<1>7. \A i \in Ids : entries'[i] # None => i = IdOf(o) \/ entries[i] # None
  BY <1>3 DEF IInv, RegIInv, RegTypeOK
<1>8. \A y \in Tasks : Waits(y)' => y = x \/ Waits(y)
  BY <1>2, <1>7 DEF Waits
<1>9. \A w \in Owners : Holds(w)' => w # o /\ Holds(w) /\ JobOf(w)' = JobOf(w)
  BY IdKept DEF IInv, LifeTypeOK, Holds, Goto
<1>10. \A y \in Tasks : Claimed(y)' => Claimed(y) /\ y # x
  BY <1>1, <1>4, <1>9 DEF Claimed, Baton
<1>11. \A v, w \in Owners : Holds(v)' /\ Holds(w)' /\ JobOf(v)' = JobOf(w)' => v = w
  BY <1>1, <1>9 DEF Baton
<1>12. \A i, j \in Ids : entries'[i] # None /\ entries'[j] # None /\ TaskOf[i] = TaskOf[j] => i = j
  BY <1>1, <1>2, <1>4, <1>7 DEF Baton, Waits
<1>13. /\ \A y \in accepted' : ~Working(y)' /\ ~Waits(y)' /\ ~Claimed(y)' /\ ~Returned(y)'
       /\ \A y \in Tasks : Working(y)' => ~Waits(y)' /\ ~Claimed(y)' /\ ~Returned(y)'
       /\ \A y \in Tasks : Waits(y)' => ~Claimed(y)'
       /\ \A y \in Tasks : Claimed(y)' => ~Returned(y)'
  BY <1>1, <1>4, <1>5, <1>6, <1>8, <1>10 DEF Baton
<1> QED
  BY <1>11, <1>12, <1>13 DEF Baton

\* A task passes from one holder to the next: a step never leaves it with two.
LEMMA BatonStep == IInv /\ [Next]_vars => Baton'
<1> SUFFICES ASSUME IInv, [Next]_vars PROVE Baton'
  OBVIOUS
<1> USE DEF lifeVars, claimRest, recVars, taskVars, workVars, claimVars, missVars,
   regVars, timerVars, ownerVars
<1>0. \A w \in Owners : at[w] # "none" => JobOf(w)' = JobOf(w)
  BY IdKept
<1>1. ASSUME NEW x \in Tasks, StartJob(x) PROVE Baton'
  <2>1. Baton /\ accepted \subseteq Tasks /\ x \in accepted
    BY <1>1 DEF IInv, LifeTypeOK, StartJob
  <2>2. ~Working(x) /\ ~Waits(x) /\ ~Claimed(x) /\ ~Returned(x)
    BY <2>1 DEF Baton
  <2>3. accepted' = accepted \ {x} /\ UNCHANGED <<entries, home, hands, at, kind, owned>>
    BY <1>1 DEF StartJob
  <2>4. \A y \in Tasks : Working(y)' => y = x \/ Working(y)
    BY <1>1 DEF IInv, LifeTypeOK, StartJob, Working
  <2>5. \A y \in Tasks : (Waits(y)' <=> Waits(y)) /\ (Returned(y)' <=> Returned(y))
    BY <2>3 DEF Waits, Returned
  <2>6. \A w \in Owners : (Holds(w)' <=> Holds(w)) /\ JobOf(w)' = JobOf(w)
    BY <2>3 DEF Holds, JobOf, IdOf
  <2>7. \A y \in Tasks : Claimed(y)' <=> Claimed(y)
    BY <2>6 DEF Claimed
  <2> QED
    BY <2>1, <2>2, <2>3, <2>4, <2>5, <2>6, <2>7 DEF Baton
<1>2. ASSUME NEW x \in Tasks, FinishRun(x) PROVE Baton'
  <2>1. /\ accepted' \subseteq accepted
        /\ \A y \in Tasks : (Working(y)' => Working(y)) /\ (Returned(y)' => Returned(y))
        /\ \A w \in Owners : Holds(w)' => Holds(w)
        /\ \A i \in Ids : entries'[i] # None => entries[i] # None
    BY <1>2, LifecycleAssumption DEF IInv, LifeTypeOK, Points, Working, Holds,
       Returned, FinishRun, SetTask, Fault
  <2> QED
    BY <2>1, BatonMono
<1>3. ASSUME NEW x \in Tasks, NEW id \in Ids, PauseRun(x, id) PROVE Baton'
  <2>1. /\ accepted' \subseteq accepted
        /\ \A y \in Tasks : (Working(y)' => Working(y)) /\ (Returned(y)' => Returned(y))
        /\ \A w \in Owners : Holds(w)' => Holds(w)
        /\ \A i \in Ids : entries'[i] # None => entries[i] # None
    BY <1>3, LifecycleAssumption DEF IInv, LifeTypeOK, Points, Working, Holds,
       Returned, PauseRun
  <2> QED
    BY <2>1, BatonMono
<1>4. ASSUME NEW x \in Tasks, CheckResume(x) PROVE Baton'
  <2>1. /\ accepted' \subseteq accepted
        /\ \A y \in Tasks : (Working(y)' => Working(y)) /\ (Returned(y)' => Returned(y))
        /\ \A w \in Owners : Holds(w)' => Holds(w)
        /\ \A i \in Ids : entries'[i] # None => entries[i] # None
    BY <1>4, LifecycleAssumption DEF IInv, LifeTypeOK, Points, Working, Holds,
       Returned, CheckResume, SetTask
  <2> QED
    BY <2>1, BatonMono
<1>5. ASSUME NEW x \in Tasks, Consume(x) PROVE Baton'
  <2>1. /\ accepted' \subseteq accepted
        /\ \A y \in Tasks : (Working(y)' => Working(y)) /\ (Returned(y)' => Returned(y))
        /\ \A w \in Owners : Holds(w)' => Holds(w)
        /\ \A i \in Ids : entries'[i] # None => entries[i] # None
    BY <1>5, LifecycleAssumption DEF IInv, LifeTypeOK, Points, Working, Holds,
       Returned, Consume, Consumable, SetTask, Fault
  <2> QED
    BY <2>1, BatonMono
<1>6. ASSUME NEW x \in Tasks, MarkPending(x) PROVE Baton'
  <2>1. /\ accepted' \subseteq accepted
        /\ \A y \in Tasks : (Working(y)' => Working(y)) /\ (Returned(y)' => Returned(y))
        /\ \A w \in Owners : Holds(w)' => Holds(w)
        /\ \A i \in Ids : entries'[i] # None => entries[i] # None
    BY <1>6, LifecycleAssumption DEF IInv, LifeTypeOK, Points, Working, Holds,
       Returned, MarkPending, SetTask, Fault
  <2> QED
    BY <2>1, BatonMono
<1>7. ASSUME NEW x \in Tasks, NEW e \in Entries, Park(x, e) PROVE Baton'
  <2>1. about[x] \in Ids /\ TaskOf[about[x]] = x
    BY <1>7, AboutFacts DEF Park
  <2>2. /\ closing = "open" /\ UNCHANGED <<owned, owner, at, kind, accepted, hands>>
        /\ entries' = [entries EXCEPT ![about[x]] = e]
    BY <1>7 DEF Park, Register, Registrable, ownerVars, claimVars
  <2>3. Baton /\ accepted \subseteq Tasks /\ Working(x)
    BY <1>7 DEF IInv, LifeTypeOK, Park, Working
  <2>4. x \notin accepted /\ ~Waits(x) /\ ~Claimed(x)
    BY <2>3 DEF Baton
  <2>5. \A y \in Tasks : Working(y)' => Working(y) /\ y # x
    BY <1>7 DEF IInv, LifeTypeOK, Working, Park
  <2>6. \A y \in Tasks : ~Returned(y) /\ ~Returned(y)'
    BY <2>2 DEF IInv, Closedown, Returned
  <2>7. \A w \in Owners : (Holds(w)' <=> Holds(w)) /\ (Holds(w) => JobOf(w)' = JobOf(w))
    BY <1>0, <2>2 DEF Holds
  <2>8. \A y \in Tasks : Claimed(y)' <=> Claimed(y)
    BY <2>7 DEF Claimed
  <2>9. \A i \in Ids : entries'[i] # None => i = about[x] \/ entries[i] # None
    BY <2>1, <2>2 DEF IInv, RegIInv, RegTypeOK
  <2>10. \A y \in Tasks : Waits(y)' => y = x \/ Waits(y)
    BY <2>1, <2>9 DEF Waits
  <2>11. \A i, j \in Ids : entries'[i] # None /\ entries'[j] # None /\ TaskOf[i] = TaskOf[j] => i = j
    BY <2>1, <2>3, <2>4, <2>9 DEF Baton, Waits
  <2>12. \A v, w \in Owners : Holds(v)' /\ Holds(w)' /\ JobOf(v)' = JobOf(w)' => v = w
    BY <2>3, <2>7 DEF Baton
  <2>13. accepted' = accepted
    BY <2>2
  <2> QED
    BY <2>3, <2>4, <2>5, <2>6, <2>8, <2>10, <2>11, <2>12, <2>13 DEF Baton
<1>8. ASSUME NEW x \in Tasks, ParkFails(x) PROVE Baton'
  <2>1. /\ accepted' \subseteq accepted
        /\ \A y \in Tasks : (Working(y)' => Working(y)) /\ (Returned(y)' => Returned(y))
        /\ \A w \in Owners : Holds(w)' => Holds(w)
        /\ \A i \in Ids : entries'[i] # None => entries[i] # None
    BY <1>8, LifecycleAssumption DEF IInv, LifeTypeOK, Points, Working, Holds,
       Returned, ParkFails, Fault, FailPending, UpdatePending, SetTask
  <2> QED
    BY <2>1, BatonMono
<1>9. ASSUME NEW x \in Tasks, LeaveJob(x) PROVE Baton'
  <2>1. /\ accepted' \subseteq accepted
        /\ \A y \in Tasks : (Working(y)' => Working(y)) /\ (Returned(y)' => Returned(y))
        /\ \A w \in Owners : Holds(w)' => Holds(w)
        /\ \A i \in Ids : entries'[i] # None => entries[i] # None
    BY <1>9, LifecycleAssumption DEF IInv, LifeTypeOK, Points, Working, Holds,
       Returned, LeaveJob, FinalizeAccepted, SetTask
  <2> QED
    BY <2>1, BatonMono
<1>10. ASSUME NEW id \in Ids, NEW approve \in BOOLEAN, NEW o \in Owners, Decide(id, approve, o)
       PROVE  Baton'
  <2>1. /\ at[o] = "none" /\ entries[id] # None /\ closing = "open"
        /\ JobOf(o)' = TaskOf[id] /\ entries' = [entries EXCEPT ![id] = None]
    BY <1>10, DecideEffect
  <2>2. /\ UNCHANGED <<work, retain, accepted, hands, home>>
        /\ \A w \in Owners : w # o => at'[w] = at[w] /\ kind'[w] = kind[w]
    BY <1>10 DEF IInv, LifeTypeOK, Decide, Goto, Claim, claimRest, workVars
  <2> QED
    BY <2>1, <2>2, BatonClaim
<1>11. ASSUME NEW t \in Timers, NEW o \in Owners, ExpireHandle(t, o) PROVE Baton'
  <2>1. PICK id \in Ids : /\ at[o] = "none" /\ entries[id] # None /\ closing = "open"
                        /\ JobOf(o)' = TaskOf[id] /\ entries' = [entries EXCEPT ![id] = None]
    BY <1>11, ExpireEffect
  <2>2. /\ UNCHANGED <<work, retain, accepted, hands, home>>
        /\ \A w \in Owners : w # o => at'[w] = at[w] /\ kind'[w] = kind[w]
    BY <1>11 DEF IInv, LifeTypeOK, ExpireHandle, Goto, Expire, claimRest, workVars
  <2> QED
    BY <2>1, <2>2, BatonClaim
<1>12. ASSUME NEW o \in Owners, ReadRecord(o) PROVE Baton'
  <2>1. /\ accepted' \subseteq accepted
        /\ \A y \in Tasks : (Working(y)' => Working(y)) /\ (Returned(y)' => Returned(y))
        /\ \A w \in Owners : Holds(w)' => Holds(w)
        /\ \A i \in Ids : entries'[i] # None => entries[i] # None
    BY <1>12, LifecycleAssumption DEF IInv, LifeTypeOK, Working, Holds, Returned,
       ReadRecord, Fault, Goto
  <2> QED
    BY <2>1, BatonMono
<1>13. ASSUME NEW o \in Owners, Resolve(o) PROVE Baton'
  <2>1. /\ accepted' \subseteq accepted
        /\ \A y \in Tasks : (Working(y)' => Working(y)) /\ (Returned(y)' => Returned(y))
        /\ \A w \in Owners : Holds(w)' => Holds(w)
        /\ \A i \in Ids : entries'[i] # None => entries[i] # None
    BY <1>13, LifecycleAssumption DEF IInv, LifeTypeOK, Working, Holds, Returned,
       Resolve, Fault, Goto
  <2> QED
    BY <2>1, BatonMono
<1>14. ASSUME NEW o \in Owners, Reread(o) PROVE Baton'
  <2>1. /\ accepted' \subseteq accepted
        /\ \A y \in Tasks : (Working(y)' => Working(y)) /\ (Returned(y)' => Returned(y))
        /\ \A w \in Owners : Holds(w)' => Holds(w)
        /\ \A i \in Ids : entries'[i] # None => entries[i] # None
    BY <1>14, LifecycleAssumption DEF IInv, LifeTypeOK, Working, Holds, Returned,
       Reread, Fault, Goto
  <2> QED
    BY <2>1, BatonMono
<1>15. ASSUME NEW o \in Owners, CancelExpired(o) PROVE Baton'
  <2>1. /\ accepted' \subseteq accepted
        /\ \A y \in Tasks : (Working(y)' => Working(y)) /\ (Returned(y)' => Returned(y))
        /\ \A w \in Owners : Holds(w)' => Holds(w)
        /\ \A i \in Ids : entries'[i] # None => entries[i] # None
    BY <1>15, LifecycleAssumption DEF IInv, LifeTypeOK, Working, Holds, Returned,
       CancelExpired, Expiring, UpdatePending, SetTask, Done, Goto, Fault
  <2> QED
    BY <2>1, BatonMono
<1>16. ASSUME NEW o \in Owners, FailExpired(o) PROVE Baton'
  <2>1. /\ accepted' \subseteq accepted
        /\ \A y \in Tasks : (Working(y)' => Working(y)) /\ (Returned(y)' => Returned(y))
        /\ \A w \in Owners : Holds(w)' => Holds(w)
        /\ \A i \in Ids : entries'[i] # None => entries[i] # None
    BY <1>16, LifecycleAssumption DEF IInv, LifeTypeOK, Working, Holds, Returned,
       FailExpired, Expiring, FailPending, UpdatePending, SetTask, Done, GiveUp,
       Goto, Fault
  <2> QED
    BY <2>1, BatonMono
<1>17. ASSUME NEW o \in Owners, ExpiryUnsure(o) PROVE Baton'
  <2>1. /\ accepted' \subseteq accepted
        /\ \A y \in Tasks : (Working(y)' => Working(y)) /\ (Returned(y)' => Returned(y))
        /\ \A w \in Owners : Holds(w)' => Holds(w)
        /\ \A i \in Ids : entries'[i] # None => entries[i] # None
    BY <1>17, LifecycleAssumption DEF IInv, LifeTypeOK, Working, Holds, Returned,
       ExpiryUnsure, Expiring, GiveUp, Goto
  <2> QED
    BY <2>1, BatonMono
<1>18. ASSUME NEW o \in Owners, RetryExpiry(o) PROVE Baton'
  <2>1. RestoreClaim(o, TRUE) /\ Goto(o, "end") /\ UNCHANGED <<work, retain, accepted, hands, kind>>
    BY <1>18 DEF RetryExpiry, claimRest, workVars
  <2> QED
    BY <2>1, <1>18, BatonRestore DEF RetryExpiry
<1>19. ASSUME NEW o \in Owners, RetryRefused(o) PROVE Baton'
  <2>1. /\ accepted' \subseteq accepted
        /\ \A y \in Tasks : (Working(y)' => Working(y)) /\ (Returned(y)' => Returned(y))
        /\ \A w \in Owners : Holds(w)' => Holds(w)
        /\ \A i \in Ids : entries'[i] # None => entries[i] # None
    BY <1>19, LifecycleAssumption DEF IInv, LifeTypeOK, Working, Holds, Returned,
       RetryRefused, RestoreRefused, CompleteClaim, Goto
  <2> QED
    BY <2>1, BatonMono
<1>20. ASSUME NEW o \in Owners, FinalizeOrphan(o) PROVE Baton'
  <2>1. /\ accepted' \subseteq accepted
        /\ \A y \in Tasks : (Working(y)' => Working(y)) /\ (Returned(y)' => Returned(y))
        /\ \A w \in Owners : Holds(w)' => Holds(w)
        /\ \A i \in Ids : entries'[i] # None => entries[i] # None
    BY <1>20, LifecycleAssumption DEF IInv, LifeTypeOK, Working, Holds, Returned,
       FinalizeOrphan, FailPending, UpdatePending, SetTask, Fault, Goto
  <2> QED
    BY <2>1, BatonMono
<1>21. ASSUME NEW o \in Owners, Settle(o) PROVE Baton'
  <2>1. /\ accepted' \subseteq accepted
        /\ \A y \in Tasks : (Working(y)' => Working(y)) /\ (Returned(y)' => Returned(y))
        /\ \A w \in Owners : Holds(w)' => Holds(w)
        /\ \A i \in Ids : entries'[i] # None => entries[i] # None
    BY <1>21, LifecycleAssumption DEF IInv, LifeTypeOK, Working, Holds, Returned,
       Settle, Goto
  <2> QED
    BY <2>1, BatonMono
<1>22. ASSUME NEW o \in Owners, GiveBack(o) PROVE Baton'
  <2>1. at[o] = "act" /\ UNCHANGED <<work, retain, accepted, hands, kind>>
    BY <1>22 DEF GiveBack, claimRest, workVars
  <2>2. CASE RestoreClaim(o, TRUE) /\ Goto(o, "end")
    BY <2>1, <2>2, BatonRestore
  <2>3. CASE RestoreRefused(o) /\ Goto(o, "fail")
    <3>1. /\ accepted' \subseteq accepted
          /\ \A y \in Tasks : (Working(y)' => Working(y)) /\ (Returned(y)' => Returned(y))
          /\ \A w \in Owners : Holds(w)' => Holds(w)
          /\ \A i \in Ids : entries'[i] # None => entries[i] # None
      BY <2>1, <2>3 DEF IInv, LifeTypeOK, Working, Holds, Returned, RestoreRefused,
         CompleteClaim, Goto
    <3> QED
      BY <3>1, BatonMono
  <2> QED
    BY <1>22, <2>2, <2>3 DEF GiveBack
<1>23. ASSUME NEW o \in Owners, FailClaimed(o) PROVE Baton'
  <2>1. /\ accepted' \subseteq accepted
        /\ \A y \in Tasks : (Working(y)' => Working(y)) /\ (Returned(y)' => Returned(y))
        /\ \A w \in Owners : Holds(w)' => Holds(w)
        /\ \A i \in Ids : entries'[i] # None => entries[i] # None
    BY <1>23, LifecycleAssumption DEF IInv, LifeTypeOK, Working, Holds, Returned,
       FailClaimed, FailPending, UpdatePending, SetTask, Fault, Goto
  <2> QED
    BY <2>1, BatonMono
<1>24. ASSUME NEW o \in Owners, CancelClaimed(o) PROVE Baton'
  <2>1. /\ accepted' \subseteq accepted
        /\ \A y \in Tasks : (Working(y)' => Working(y)) /\ (Returned(y)' => Returned(y))
        /\ \A w \in Owners : Holds(w)' => Holds(w)
        /\ \A i \in Ids : entries'[i] # None => entries[i] # None
    BY <1>24, LifecycleAssumption DEF IInv, LifeTypeOK, Working, Holds, Returned,
       CancelClaimed, SetTask, Fault, Goto
  <2> QED
    BY <2>1, BatonMono
<1>25. ASSUME NEW o \in Owners, Requeue(o) PROVE Baton'
  <2>1. /\ accepted' \subseteq accepted
        /\ \A y \in Tasks : (Working(y)' => Working(y)) /\ (Returned(y)' => Returned(y))
        /\ \A w \in Owners : Holds(w)' => Holds(w)
        /\ \A i \in Ids : entries'[i] # None => entries[i] # None
    BY <1>25, LifecycleAssumption DEF IInv, LifeTypeOK, Working, Holds, Returned,
       Requeue, SetTask, Fault, Goto
  <2> QED
    BY <2>1, BatonMono
<1>26. ASSUME NEW o \in Owners, Enqueue(o) PROVE Baton'
  <2>1. at[o] = "enqueue" /\ JobOf(o) \in Tasks /\ Baton /\ accepted \subseteq Tasks
    BY <1>26, ClaimFacts DEF IInv, LifeTypeOK, Enqueue
  <2>2. Holds(o) /\ Claimed(JobOf(o))
    BY <2>1 DEF Holds, Claimed
  <2>3. /\ accepted' \subseteq accepted \cup {JobOf(o)}
        /\ accepted' # accepted => ~Holds(o)'
        /\ \A w \in Owners : Holds(w)' => Holds(w)
        /\ UNCHANGED <<entries, home, hands, work, retain, owned>>
    BY <2>1, <1>26 DEF IInv, LifeTypeOK, Points, Enqueue, Goto, Holds
  <2>4. \A w \in Owners : Holds(w)' => Holds(w) /\ JobOf(w)' = JobOf(w)
    BY <1>0, <2>3 DEF Holds
  <2>5. \A y \in Tasks : (Working(y)' <=> Working(y)) /\ (Waits(y)' <=> Waits(y)) /\ (Returned(y)' <=> Returned(y))
    BY <2>3 DEF Working, Waits, Returned
  <2>6. \A y \in Tasks : Claimed(y)' => Claimed(y)
    BY <2>4 DEF Claimed
  <2>7. \A y \in Tasks : y = JobOf(o) /\ ~Holds(o)' => ~Claimed(y)'
    BY <2>1, <2>2, <2>4 DEF Baton, Claimed
  <2>8. ~Working(JobOf(o)) /\ ~Waits(JobOf(o)) /\ ~Returned(JobOf(o))
    BY <2>1, <2>2 DEF Baton
  <2>9. \A y \in accepted' : ~Working(y)' /\ ~Waits(y)' /\ ~Claimed(y)' /\ ~Returned(y)'
    BY <2>1, <2>3, <2>5, <2>6, <2>7, <2>8 DEF Baton
  <2>10. UNCHANGED entries
    BY <2>3
  <2> QED
    BY <2>1, <2>4, <2>5, <2>6, <2>9, <2>10 DEF Baton
<1>27. ASSUME NEW o \in Owners, Complete(o) PROVE Baton'
  <2>1. /\ accepted' \subseteq accepted
        /\ \A y \in Tasks : (Working(y)' => Working(y)) /\ (Returned(y)' => Returned(y))
        /\ \A w \in Owners : Holds(w)' => Holds(w)
        /\ \A i \in Ids : entries'[i] # None => entries[i] # None
    BY <1>27, LifecycleAssumption DEF IInv, LifeTypeOK, Working, Holds, Returned,
       Complete, CompleteClaim, Goto
  <2> QED
    BY <2>1, BatonMono
<1>28. ASSUME NEW o \in Owners, ReleaseLease(o) PROVE Baton'
  <2>1. /\ accepted' \subseteq accepted
        /\ \A y \in Tasks : (Working(y)' => Working(y)) /\ (Returned(y)' => Returned(y))
        /\ \A w \in Owners : Holds(w)' => Holds(w)
        /\ \A i \in Ids : entries'[i] # None => entries[i] # None
    BY <1>28, LifecycleAssumption DEF IInv, LifeTypeOK, Working, Holds, Returned,
       ReleaseLease, Goto
  <2> QED
    BY <2>1, BatonMono
<1>29. ASSUME NEW id \in Ids, NEW approve \in BOOLEAN, DecideMissing(id, approve)
       PROVE  Baton'
  <2>1. /\ accepted' \subseteq accepted
        /\ \A y \in Tasks : (Working(y)' => Working(y)) /\ (Returned(y)' => Returned(y))
        /\ \A w \in Owners : Holds(w)' => Holds(w)
        /\ \A i \in Ids : entries'[i] # None => entries[i] # None
    BY <1>29, LifecycleAssumption DEF IInv, LifeTypeOK, Points, Working, Holds,
       Returned, DecideMissing
  <2> QED
    BY <2>1, BatonMono
<1>30. ASSUME NEW id \in Ids, NEW approve \in BOOLEAN, UpdateMissing(id, approve)
       PROVE  Baton'
  <2>1. /\ accepted' \subseteq accepted
        /\ \A y \in Tasks : (Working(y)' => Working(y)) /\ (Returned(y)' => Returned(y))
        /\ \A w \in Owners : Holds(w)' => Holds(w)
        /\ \A i \in Ids : entries'[i] # None => entries[i] # None
    BY <1>30, LifecycleAssumption DEF IInv, LifeTypeOK, Points, Working, Holds,
       Returned, UpdateMissing, SetTask, Fault
  <2> QED
    BY <2>1, BatonMono
<1>31. ASSUME NEW id \in Ids, PassDeadline(id) PROVE Baton'
  <2>1. /\ accepted' \subseteq accepted
        /\ \A y \in Tasks : (Working(y)' => Working(y)) /\ (Returned(y)' => Returned(y))
        /\ \A w \in Owners : Holds(w)' => Holds(w)
        /\ \A i \in Ids : entries'[i] # None => entries[i] # None
    BY <1>31, LifecycleAssumption DEF IInv, LifeTypeOK, Points, Working, Holds,
       Returned, PassDeadline
  <2> QED
    BY <2>1, BatonMono
<1>32. ASSUME NEW t \in Timers, FireTimer(t) PROVE Baton'
  <2>1. /\ accepted' \subseteq accepted
        /\ \A y \in Tasks : (Working(y)' => Working(y)) /\ (Returned(y)' => Returned(y))
        /\ \A w \in Owners : Holds(w)' => Holds(w)
        /\ \A i \in Ids : entries'[i] # None => entries[i] # None
    BY <1>32, LifecycleAssumption DEF IInv, LifeTypeOK, Points, Working, Holds,
       Returned, FireTimer, Fire
  <2> QED
    BY <2>1, BatonMono
<1>33. ASSUME NEW o \in Owners, Unlock(o) PROVE Baton'
  <2>1. /\ accepted' \subseteq accepted
        /\ \A y \in Tasks : (Working(y)' => Working(y)) /\ (Returned(y)' => Returned(y))
        /\ \A w \in Owners : Holds(w)' => Holds(w)
        /\ \A i \in Ids : entries'[i] # None => entries[i] # None
    BY <1>33, LifecycleAssumption DEF IInv, LifeTypeOK, Points, Working, Holds,
       Returned, Unlock, OwnerDone
  <2> QED
    BY <2>1, BatonMono
<1>34. ASSUME NEW o \in Owners, LeaveCallback(o) PROVE Baton'
  <2>1. /\ accepted' \subseteq accepted
        /\ \A y \in Tasks : (Working(y)' => Working(y)) /\ (Returned(y)' => Returned(y))
        /\ \A w \in Owners : Holds(w)' => Holds(w)
        /\ \A i \in Ids : entries'[i] # None => entries[i] # None
    BY <1>34, LifecycleAssumption DEF IInv, LifeTypeOK, Points, Working, Holds,
       Returned, LeaveCallback, CallbackDone
  <2> QED
    BY <2>1, BatonMono
<1>35. ASSUME NEW t \in Timers, Stale(t) PROVE Baton'
  <2>1. /\ accepted' \subseteq accepted
        /\ \A y \in Tasks : (Working(y)' => Working(y)) /\ (Returned(y)' => Returned(y))
        /\ \A w \in Owners : Holds(w)' => Holds(w)
        /\ \A i \in Ids : entries'[i] # None => entries[i] # None
    BY <1>35, LifecycleAssumption DEF IInv, LifeTypeOK, Points, Working, Holds,
       Returned, Stale, ExpireStale
  <2> QED
    BY <2>1, BatonMono
<1>36. ASSUME StopWorkers PROVE Baton'
  <2>1. /\ accepted' \subseteq accepted
        /\ \A y \in Tasks : (Working(y)' => Working(y)) /\ (Returned(y)' => Returned(y))
        /\ \A w \in Owners : Holds(w)' => Holds(w)
        /\ \A i \in Ids : entries'[i] # None => entries[i] # None
    BY <1>36, LifecycleAssumption DEF IInv, LifeTypeOK, Points, Working, Holds,
       Returned, StopWorkers
  <2> QED
    BY <2>1, BatonMono
<1>37. ASSUME RunnerClosed PROVE Baton'
  <2>1. /\ accepted' \subseteq accepted
        /\ \A y \in Tasks : (Working(y)' => Working(y)) /\ (Returned(y)' => Returned(y))
        /\ \A w \in Owners : Holds(w)' => Holds(w)
        /\ \A i \in Ids : entries'[i] # None => entries[i] # None
    BY <1>37, LifecycleAssumption DEF IInv, LifeTypeOK, Points, Working, Holds,
       Returned, RunnerClosed
  <2> QED
    BY <2>1, BatonMono
<1>38. ASSUME CloseRegistry PROVE Baton'
  <2>1. /\ UNCHANGED <<home, at, kind, work, retain, accepted, owned>>
        /\ \A f \in Entries : hands'[f] =
             IF home[f] # None /\ entries[home[f]] = f THEN "resolve" ELSE "none"
        /\ \A i \in Ids : entries'[i] = None
    BY <1>38 DEF CloseRegistry, CloseStart, claimVars, workVars, ownerVars
  <2>2. Baton /\ accepted = {}
    BY <1>38 DEF IInv, Closedown, CloseRegistry
  <2>3. \A y \in Tasks : Returned(y)' => Waits(y)
    <3> SUFFICES ASSUME NEW y \in Tasks, Returned(y)' PROVE Waits(y)
      OBVIOUS
    <3>1. PICK f \in Entries : hands'[f] # "none" /\ TaskOf[home[f]] = y
      BY <2>1 DEF Returned
    <3>2. home[f] \in Ids /\ entries[home[f]] = f /\ f # None
      BY <2>1, <3>1, RegistryAssumption DEF IInv, RegIInv, RegTypeOK
    <3> QED
      BY <3>1, <3>2 DEF Waits
  <2>4. \A y \in Tasks : ~Waits(y)'
    BY <2>1 DEF Waits
  <2>5. \A w \in Owners : (Holds(w)' <=> Holds(w)) /\ JobOf(w)' = JobOf(w)
    BY <2>1 DEF Holds, JobOf, IdOf
  <2>6. \A y \in Tasks : (Claimed(y)' <=> Claimed(y)) /\ (Working(y)' <=> Working(y))
    BY <2>1, <2>5 DEF Claimed, Working
  <2>7. accepted' = {}
    BY <2>1, <2>2
  <2> QED
    BY <2>1, <2>2, <2>3, <2>4, <2>5, <2>6, <2>7 DEF Baton
<1>39. ASSUME WaitRegistry PROVE Baton'
  <2>1. /\ accepted' \subseteq accepted
        /\ \A y \in Tasks : (Working(y)' => Working(y)) /\ (Returned(y)' => Returned(y))
        /\ \A w \in Owners : Holds(w)' => Holds(w)
        /\ \A i \in Ids : entries'[i] # None => entries[i] # None
    BY <1>39, LifecycleAssumption DEF IInv, LifeTypeOK, Points, Working, Holds,
       Returned, WaitRegistry, CloseOwners, CloseReturn
  <2> QED
    BY <2>1, BatonMono
<1>40. ASSUME NEW e \in Entries, ResolveHandle(e) PROVE Baton'
  <2>1. /\ accepted' \subseteq accepted
        /\ \A y \in Tasks : (Working(y)' => Working(y)) /\ (Returned(y)' => Returned(y))
        /\ \A w \in Owners : Holds(w)' => Holds(w)
        /\ \A i \in Ids : entries'[i] # None => entries[i] # None
    BY <1>40, LifecycleAssumption DEF IInv, LifeTypeOK, Points, Working, Holds,
       Returned, ResolveHandle, Fault
  <2> QED
    BY <2>1, BatonMono
<1>41. ASSUME NEW e \in Entries, FinalizeHandle(e) PROVE Baton'
  <2>1. /\ accepted' \subseteq accepted
        /\ \A y \in Tasks : (Working(y)' => Working(y)) /\ (Returned(y)' => Returned(y))
        /\ \A w \in Owners : Holds(w)' => Holds(w)
        /\ \A i \in Ids : entries'[i] # None => entries[i] # None
    BY <1>41, LifecycleAssumption DEF IInv, LifeTypeOK, Points, Working, Holds,
       Returned, FinalizeHandle, FailPending, UpdatePending, SetTask, Fault
  <2> QED
    BY <2>1, BatonMono
<1>42. ASSUME Down PROVE Baton'
  <2>1. /\ accepted' \subseteq accepted
        /\ \A y \in Tasks : (Working(y)' => Working(y)) /\ (Returned(y)' => Returned(y))
        /\ \A w \in Owners : Holds(w)' => Holds(w)
        /\ \A i \in Ids : entries'[i] # None => entries[i] # None
    BY <1>42, LifecycleAssumption DEF IInv, LifeTypeOK, Points, Working, Holds,
       Returned, Down
  <2> QED
    BY <2>1, BatonMono
<1>43. CASE UNCHANGED vars
  <2>1. /\ accepted' \subseteq accepted
        /\ \A y \in Tasks : (Working(y)' => Working(y)) /\ (Returned(y)' => Returned(y))
        /\ \A w \in Owners : Holds(w)' => Holds(w)
        /\ \A i \in Ids : entries'[i] # None => entries[i] # None
    BY <1>43, LifecycleAssumption DEF IInv, LifeTypeOK, Points, Working, Holds,
       Returned, vars
  <2> QED
    BY <2>1, BatonMono
<1> QED
  BY <1>1, <1>2, <1>3, <1>4, <1>5, <1>6, <1>7, <1>8, <1>9, <1>10, <1>11, <1>12,
     <1>13, <1>14, <1>15, <1>16, <1>17, <1>18, <1>19, <1>20, <1>21, <1>22, <1>23,
     <1>24, <1>25, <1>26, <1>27, <1>28, <1>29, <1>30, <1>31, <1>32, <1>33, <1>34,
     <1>35, <1>36, <1>37, <1>38, <1>39, <1>40, <1>41, <1>42, <1>43 DEF Next,
     WorkStep, ClaimStep, Arrive, UpdateMissed, CloseStep, Finished

\* A lease is released by the step that ends the last holder.
LEMMA FreeStep == IInv /\ [Next]_vars => Free'
<1> SUFFICES ASSUME IInv, [Next]_vars PROVE Free'
  OBVIOUS
<1> USE DEF lifeVars, claimRest, recVars, taskVars, workVars, claimVars, missVars,
   regVars, timerVars, ownerVars
<1>0. \A w \in Owners : at[w] # "none" => JobOf(w)' = JobOf(w)
  BY IdKept
<1>1. ASSUME NEW x \in Tasks, StartJob(x) PROVE Free'
  BY <1>1, <1>0, LifecycleAssumption DEF IInv, Free, Baton, Closedown, Working,
     Waits, Holds, Claimed, LifeTypeOK, Points, StartJob, SetTask, FinalizeAccepted,
     Fault
<1>2. ASSUME NEW x \in Tasks, FinishRun(x) PROVE Free'
  BY <1>2, <1>0, LifecycleAssumption DEF IInv, Free, Baton, Closedown, Working,
     Waits, Holds, Claimed, LifeTypeOK, Points, FinishRun, SetTask, Fault
<1>3. ASSUME NEW x \in Tasks, NEW id \in Ids, PauseRun(x, id) PROVE Free'
  BY <1>3, <1>0, LifecycleAssumption DEF IInv, Free, Baton, Closedown, Working,
     Waits, Holds, Claimed, LifeTypeOK, Points, PauseRun
<1>4. ASSUME NEW x \in Tasks, CheckResume(x) PROVE Free'
  <2>1. about[x] \in Ids /\ TaskOf[about[x]] = x
    BY <1>4, AboutFacts DEF CheckResume
  <2> QED
    BY <1>0, <2>1, <1>4 DEF IInv, Free, Baton, Closedown, Working, Waits, Holds,
       Claimed, LifeTypeOK, Points, CheckResume, SetTask
<1>5. ASSUME NEW x \in Tasks, Consume(x) PROVE Free'
  <2>1. about[x] \in Ids /\ TaskOf[about[x]] = x
    BY <1>5, AboutFacts DEF Consume
  <2> QED
    BY <1>0, <2>1, <1>5 DEF IInv, Free, Baton, Closedown, Working, Waits, Holds,
       Claimed, LifeTypeOK, Points, Consume, Consumable, SetTask, Fault
<1>6. ASSUME NEW x \in Tasks, MarkPending(x) PROVE Free'
  <2>1. about[x] \in Ids /\ TaskOf[about[x]] = x
    BY <1>6, AboutFacts DEF MarkPending
  <2> QED
    BY <1>0, <2>1, <1>6 DEF IInv, Free, Baton, Closedown, Working, Waits, Holds,
       Claimed, LifeTypeOK, Points, MarkPending, SetTask, Fault
<1>7. ASSUME NEW x \in Tasks, NEW e \in Entries, Park(x, e) PROVE Free'
  <2>1. about[x] \in Ids /\ TaskOf[about[x]] = x
    BY <1>7, AboutFacts DEF Park
  <2>2. /\ closing = "open" /\ UNCHANGED <<owned, owner>> /\ e # None
        /\ entries' = [entries EXCEPT ![about[x]] = e]
    BY <1>7, RegistryAssumption DEF Park, Register, Registrable, ownerVars
  <2> QED
    BY <1>0, <2>1, <2>2, <1>7 DEF IInv, RegIInv, RegTypeOK, Free, Baton, Closedown,
       Working, Waits, Holds, Claimed, LifeTypeOK, Points, Park
<1>8. ASSUME NEW x \in Tasks, ParkFails(x) PROVE Free'
  <2>1. about[x] \in Ids /\ TaskOf[about[x]] = x
    BY <1>8, AboutFacts DEF ParkFails
  <2> QED
    BY <1>0, <2>1, <1>8 DEF IInv, Free, Baton, Closedown, Working, Waits, Holds,
       Claimed, LifeTypeOK, Points, ParkFails, Fault, FailPending, UpdatePending,
       SetTask
<1>9. ASSUME NEW x \in Tasks, LeaveJob(x) PROVE Free'
  BY <1>9, <1>0, LifecycleAssumption DEF IInv, Free, Baton, Closedown, Working,
     Waits, Holds, Claimed, LifeTypeOK, Points, LeaveJob, FinalizeAccepted, SetTask
<1>10. ASSUME NEW id \in Ids, NEW approve \in BOOLEAN, NEW o \in Owners, Decide(id, approve, o)
       PROVE  Free'
  <2>1. /\ at[o] = "none" /\ entries[id] # None /\ closing = "open"
        /\ JobOf(o)' = TaskOf[id] /\ entries' = [entries EXCEPT ![id] = None]
    BY <1>10, DecideEffect
  <2> QED
    BY <1>0, <2>1, <1>10 DEF IInv, RegIInv, RegTypeOK, Free, Baton, Closedown,
       Working, Waits, Holds, Claimed, LifeTypeOK, Points, Decide, Goto
<1>11. ASSUME NEW t \in Timers, NEW o \in Owners, ExpireHandle(t, o) PROVE Free'
  <2>1. PICK id \in Ids : /\ at[o] = "none" /\ entries[id] # None /\ closing = "open"
        /\ JobOf(o)' = TaskOf[id] /\ entries' = [entries EXCEPT ![id] = None]
    BY <1>11, ExpireEffect
  <2> QED
    BY <1>0, <2>1, <1>11 DEF IInv, RegIInv, RegTypeOK, Free, Baton, Closedown,
       Working, Waits, Holds, Claimed, LifeTypeOK, Points, ExpireHandle, Goto
<1>12. ASSUME NEW o \in Owners, ReadRecord(o) PROVE Free'
  <2>1. at[o] # "none"
    BY <1>12 DEF ReadRecord
  <2>2. IdOf(o) \in Ids /\ JobOf(o) \in Tasks /\ JobOf(o) = TaskOf[IdOf(o)]
    BY <2>1, ClaimFacts
  <2> QED
    BY <1>0, <2>2, <1>12 DEF IInv, Free, Baton, Closedown, Working, Waits, Holds,
       Claimed, LifeTypeOK, Points, ReadRecord, Fault, Goto
<1>13. ASSUME NEW o \in Owners, Resolve(o) PROVE Free'
  <2>1. at[o] # "none"
    BY <1>13 DEF Resolve
  <2>2. IdOf(o) \in Ids /\ JobOf(o) \in Tasks /\ JobOf(o) = TaskOf[IdOf(o)]
    BY <2>1, ClaimFacts
  <2> QED
    BY <1>0, <2>2, <1>13 DEF IInv, Free, Baton, Closedown, Working, Waits, Holds,
       Claimed, LifeTypeOK, Points, Resolve, Fault, Goto
<1>14. ASSUME NEW o \in Owners, Reread(o) PROVE Free'
  <2>1. at[o] # "none"
    BY <1>14 DEF Reread
  <2>2. IdOf(o) \in Ids /\ JobOf(o) \in Tasks /\ JobOf(o) = TaskOf[IdOf(o)]
    BY <2>1, ClaimFacts
  <2> QED
    BY <1>0, <2>2, <1>14 DEF IInv, Free, Baton, Closedown, Working, Waits, Holds,
       Claimed, LifeTypeOK, Points, Reread, Fault, Goto
<1>15. ASSUME NEW o \in Owners, CancelExpired(o) PROVE Free'
  <2>1. at[o] # "none"
    BY <1>15 DEF CancelExpired
  <2>2. IdOf(o) \in Ids /\ JobOf(o) \in Tasks /\ JobOf(o) = TaskOf[IdOf(o)]
    BY <2>1, ClaimFacts
  <2> QED
    BY <1>0, <2>2, <1>15 DEF IInv, Free, Baton, Closedown, Working, Waits, Holds,
       Claimed, LifeTypeOK, Points, CancelExpired, Expiring, UpdatePending, SetTask,
       Done, Goto, Fault
<1>16. ASSUME NEW o \in Owners, FailExpired(o) PROVE Free'
  <2>1. at[o] # "none"
    BY <1>16 DEF FailExpired
  <2>2. IdOf(o) \in Ids /\ JobOf(o) \in Tasks /\ JobOf(o) = TaskOf[IdOf(o)]
    BY <2>1, ClaimFacts
  <2> QED
    BY <1>0, <2>2, <1>16 DEF IInv, Free, Baton, Closedown, Working, Waits, Holds,
       Claimed, LifeTypeOK, Points, FailExpired, Expiring, FailPending,
       UpdatePending, SetTask, Done, GiveUp, Goto, Fault
<1>17. ASSUME NEW o \in Owners, ExpiryUnsure(o) PROVE Free'
  <2>1. at[o] # "none"
    BY <1>17 DEF ExpiryUnsure
  <2>2. IdOf(o) \in Ids /\ JobOf(o) \in Tasks /\ JobOf(o) = TaskOf[IdOf(o)]
    BY <2>1, ClaimFacts
  <2> QED
    BY <1>0, <2>2, <1>17 DEF IInv, Free, Baton, Closedown, Working, Waits, Holds,
       Claimed, LifeTypeOK, Points, ExpiryUnsure, Expiring, GiveUp, Goto
<1>18. ASSUME NEW o \in Owners, RetryExpiry(o) PROVE Free'
  <2>1. RestoreClaim(o, TRUE) /\ at[o] # "none"
    BY <1>18 DEF RetryExpiry
  <2>2. IdOf(o) \in Ids /\ JobOf(o) = TaskOf[IdOf(o)]
    BY <2>1, ClaimFacts
  <2>3. /\ owned[o] # None /\ closing = "open" /\ UNCHANGED home
        /\ entries' = [entries EXCEPT ![IdOf(o)] = owned[o]]
    BY <2>1, RestoreEffect
  <2> SUFFICES ASSUME stage' = "up", NEW x \in Tasks, x \in released'
               PROVE  /\ x \notin accepted' /\ ~Working(x)'
                      /\ ~Waits(x)' /\ ~Claimed(x)'
    BY <1>18 DEF IInv, LifeTypeOK, Free, RetryExpiry, claimRest, workVars
  <2>4. x \notin accepted /\ ~Working(x) /\ ~Waits(x) /\ ~Claimed(x)
    BY <1>18 DEF IInv, Free, RetryExpiry, claimRest
  <2>5. x \notin accepted' /\ ~Working(x)'
    BY <2>4, <1>18 DEF Working, RetryExpiry, claimRest, workVars
  <2>6. TaskOf[IdOf(o)] # x
    BY <2>2, <2>4, <1>18 DEF Claimed, Holds, RetryExpiry
  <2>7. ~Waits(x)'
    BY <2>2, <2>3, <2>4, <2>6 DEF IInv, RegIInv, RegTypeOK, Waits
  <2>8. ~Claimed(x)'
    BY <1>0, <2>4, <1>18 DEF IInv, LifeTypeOK, Claimed, Holds, RetryExpiry, Goto
  <2> QED
    BY <2>5, <2>7, <2>8
<1>19. ASSUME NEW o \in Owners, RetryRefused(o) PROVE Free'
  <2>1. at[o] # "none"
    BY <1>19 DEF RetryRefused
  <2>2. IdOf(o) \in Ids /\ JobOf(o) \in Tasks /\ JobOf(o) = TaskOf[IdOf(o)]
    BY <2>1, ClaimFacts
  <2> QED
    BY <1>0, <2>2, <1>19 DEF IInv, Free, Baton, Closedown, Working, Waits, Holds,
       Claimed, LifeTypeOK, Points, RetryRefused, RestoreRefused, CompleteClaim,
       Goto
<1>20. ASSUME NEW o \in Owners, FinalizeOrphan(o) PROVE Free'
  <2>1. at[o] # "none"
    BY <1>20 DEF FinalizeOrphan
  <2>2. IdOf(o) \in Ids /\ JobOf(o) \in Tasks /\ JobOf(o) = TaskOf[IdOf(o)]
    BY <2>1, ClaimFacts
  <2> QED
    BY <1>0, <2>2, <1>20 DEF IInv, Free, Baton, Closedown, Working, Waits, Holds,
       Claimed, LifeTypeOK, Points, FinalizeOrphan, FailPending, UpdatePending,
       SetTask, Fault, Goto
<1>21. ASSUME NEW o \in Owners, Settle(o) PROVE Free'
  <2>1. at[o] # "none"
    BY <1>21 DEF Settle
  <2>2. IdOf(o) \in Ids /\ JobOf(o) \in Tasks /\ JobOf(o) = TaskOf[IdOf(o)]
    BY <2>1, ClaimFacts
  <2> QED
    BY <1>0, <2>2, <1>21 DEF IInv, Free, Baton, Closedown, Working, Waits, Holds,
       Claimed, LifeTypeOK, Points, Settle, Goto
<1>22. ASSUME NEW o \in Owners, GiveBack(o) PROVE Free'
  <2>1. at[o] = "act" /\ UNCHANGED <<work, retain, accepted, released, hands, kind, stage>>
    BY <1>22 DEF GiveBack, claimRest, workVars
  <2>2. IdOf(o) \in Ids /\ JobOf(o) = TaskOf[IdOf(o)] /\ JobOf(o) \in Tasks
    BY <2>1, ClaimFacts
  <2>3. CASE RestoreClaim(o, TRUE) /\ Goto(o, "end")
    <3>1. entries' = [entries EXCEPT ![IdOf(o)] = owned[o]]
      BY <2>1, <2>3, RestoreEffect
    <3>2. stage = "up" => JobOf(o) \notin released
      BY <2>1, <2>2 DEF IInv, Free, Claimed, Holds
    <3>3. \A y \in Tasks : Waits(y)' => y = JobOf(o) \/ Waits(y)
      BY <2>2, <3>1 DEF IInv, RegIInv, RegTypeOK, Waits
    <3>4. \A w \in Owners : Holds(w)' => Holds(w) /\ JobOf(w)' = JobOf(w)
      BY <1>0, <2>1, <2>3 DEF IInv, LifeTypeOK, Holds, Goto
    <3>5. \A y \in Tasks : (Claimed(y)' => Claimed(y)) /\ (Working(y)' <=> Working(y))
      BY <2>1, <3>4 DEF Claimed, Working
    <3>6. Free /\ released \subseteq Tasks
      BY DEF IInv, LifeTypeOK
    <3> QED
      BY <2>1, <3>2, <3>3, <3>5, <3>6 DEF Free
  <2>4. CASE RestoreRefused(o) /\ Goto(o, "fail")
    BY <2>1, <2>4 DEF IInv, Free, Closedown, RestoreRefused
  <2> QED
    BY <1>22, <2>3, <2>4 DEF GiveBack
<1>23. ASSUME NEW o \in Owners, FailClaimed(o) PROVE Free'
  <2>1. at[o] # "none"
    BY <1>23 DEF FailClaimed
  <2>2. IdOf(o) \in Ids /\ JobOf(o) \in Tasks /\ JobOf(o) = TaskOf[IdOf(o)]
    BY <2>1, ClaimFacts
  <2> QED
    BY <1>0, <2>2, <1>23 DEF IInv, Free, Baton, Closedown, Working, Waits, Holds,
       Claimed, LifeTypeOK, Points, FailClaimed, FailPending, UpdatePending,
       SetTask, Fault, Goto
<1>24. ASSUME NEW o \in Owners, CancelClaimed(o) PROVE Free'
  <2>1. at[o] # "none"
    BY <1>24 DEF CancelClaimed
  <2>2. IdOf(o) \in Ids /\ JobOf(o) \in Tasks /\ JobOf(o) = TaskOf[IdOf(o)]
    BY <2>1, ClaimFacts
  <2> QED
    BY <1>0, <2>2, <1>24 DEF IInv, Free, Baton, Closedown, Working, Waits, Holds,
       Claimed, LifeTypeOK, Points, CancelClaimed, SetTask, Fault, Goto
<1>25. ASSUME NEW o \in Owners, Requeue(o) PROVE Free'
  <2>1. at[o] # "none"
    BY <1>25 DEF Requeue
  <2>2. IdOf(o) \in Ids /\ JobOf(o) \in Tasks /\ JobOf(o) = TaskOf[IdOf(o)]
    BY <2>1, ClaimFacts
  <2> QED
    BY <1>0, <2>2, <1>25 DEF IInv, Free, Baton, Closedown, Working, Waits, Holds,
       Claimed, LifeTypeOK, Points, Requeue, SetTask, Fault, Goto
<1>26. ASSUME NEW o \in Owners, Enqueue(o) PROVE Free'
  <2>1. at[o] # "none"
    BY <1>26 DEF Enqueue
  <2>2. IdOf(o) \in Ids /\ JobOf(o) \in Tasks /\ JobOf(o) = TaskOf[IdOf(o)]
    BY <2>1, ClaimFacts
  <2> QED
    BY <1>0, <2>2, <1>26 DEF IInv, Free, Baton, Closedown, Working, Waits, Holds,
       Claimed, LifeTypeOK, Points, Enqueue, SetTask, Fault, Goto
<1>27. ASSUME NEW o \in Owners, Complete(o) PROVE Free'
  <2>1. at[o] # "none"
    BY <1>27 DEF Complete
  <2>2. IdOf(o) \in Ids /\ JobOf(o) \in Tasks /\ JobOf(o) = TaskOf[IdOf(o)]
    BY <2>1, ClaimFacts
  <2> QED
    BY <1>0, <2>2, <1>27 DEF IInv, Free, Baton, Closedown, Working, Waits, Holds,
       Claimed, LifeTypeOK, Points, Complete, CompleteClaim, Goto
<1>28. ASSUME NEW o \in Owners, ReleaseLease(o) PROVE Free'
  <2>1. at[o] # "none"
    BY <1>28 DEF ReleaseLease
  <2>2. IdOf(o) \in Ids /\ JobOf(o) \in Tasks /\ JobOf(o) = TaskOf[IdOf(o)]
    BY <2>1, ClaimFacts
  <2> QED
    BY <1>0, <2>2, <1>28 DEF IInv, Free, Baton, Closedown, Working, Waits, Holds,
       Claimed, LifeTypeOK, Points, ReleaseLease, Goto
<1>29. ASSUME NEW id \in Ids, NEW approve \in BOOLEAN, DecideMissing(id, approve)
       PROVE  Free'
  BY <1>29, <1>0, LifecycleAssumption DEF IInv, Free, Baton, Closedown, Working,
     Waits, Holds, Claimed, LifeTypeOK, Points, DecideMissing
<1>30. ASSUME NEW id \in Ids, NEW approve \in BOOLEAN, UpdateMissing(id, approve)
       PROVE  Free'
  BY <1>30, <1>0, LifecycleAssumption DEF IInv, Free, Baton, Closedown, Working,
     Waits, Holds, Claimed, LifeTypeOK, Points, UpdateMissing, SetTask, Fault
<1>31. ASSUME NEW id \in Ids, PassDeadline(id) PROVE Free'
  BY <1>31, <1>0, LifecycleAssumption DEF IInv, Free, Baton, Closedown, Working,
     Waits, Holds, Claimed, LifeTypeOK, Points, PassDeadline
<1>32. ASSUME NEW t \in Timers, FireTimer(t) PROVE Free'
  BY <1>32, <1>0, LifecycleAssumption DEF IInv, Free, Baton, Closedown, Working,
     Waits, Holds, Claimed, LifeTypeOK, Points, FireTimer, Fire
<1>33. ASSUME NEW o \in Owners, Unlock(o) PROVE Free'
  BY <1>33, <1>0, LifecycleAssumption DEF IInv, Free, Baton, Closedown, Working,
     Waits, Holds, Claimed, LifeTypeOK, Points, Unlock, OwnerDone
<1>34. ASSUME NEW o \in Owners, LeaveCallback(o) PROVE Free'
  BY <1>34, <1>0, LifecycleAssumption DEF IInv, Free, Baton, Closedown, Working,
     Waits, Holds, Claimed, LifeTypeOK, Points, LeaveCallback, CallbackDone
<1>35. ASSUME NEW t \in Timers, Stale(t) PROVE Free'
  BY <1>35, <1>0, LifecycleAssumption DEF IInv, Free, Baton, Closedown, Working,
     Waits, Holds, Claimed, LifeTypeOK, Points, Stale, ExpireStale
<1>36. ASSUME StopWorkers PROVE Free'
  BY <1>36, <1>0, LifecycleAssumption DEF IInv, Free, Baton, Closedown, Working,
     Waits, Holds, Claimed, LifeTypeOK, Points, StopWorkers
<1>37. ASSUME RunnerClosed PROVE Free'
  BY <1>37, <1>0, LifecycleAssumption DEF IInv, Free, Baton, Closedown, Working,
     Waits, Holds, Claimed, LifeTypeOK, Points, RunnerClosed
<1>38. ASSUME CloseRegistry PROVE Free'
  BY <1>38, <1>0, LifecycleAssumption DEF IInv, Free, Baton, Closedown, Working,
     Waits, Holds, Claimed, LifeTypeOK, Points, CloseRegistry, CloseStart
<1>39. ASSUME WaitRegistry PROVE Free'
  BY <1>39, <1>0, LifecycleAssumption DEF IInv, Free, Baton, Closedown, Working,
     Waits, Holds, Claimed, LifeTypeOK, Points, WaitRegistry, CloseOwners,
     CloseReturn
<1>40. ASSUME NEW e \in Entries, ResolveHandle(e) PROVE Free'
  BY <1>40, <1>0, LifecycleAssumption DEF IInv, Free, Baton, Closedown, Working,
     Waits, Holds, Claimed, LifeTypeOK, Points, ResolveHandle, Fault
<1>41. ASSUME NEW e \in Entries, FinalizeHandle(e) PROVE Free'
  BY <1>41, <1>0, LifecycleAssumption DEF IInv, Free, Baton, Closedown, Working,
     Waits, Holds, Claimed, LifeTypeOK, Points, FinalizeHandle, FailPending,
     UpdatePending, SetTask, Fault
<1>42. ASSUME Down PROVE Free'
  BY <1>42, <1>0, LifecycleAssumption DEF IInv, Free, Baton, Closedown, Working,
     Waits, Holds, Claimed, LifeTypeOK, Points, Down
<1>43. CASE UNCHANGED vars
  BY <1>43, <1>0, LifecycleAssumption DEF IInv, Free, Baton, Closedown, Working,
     Waits, Holds, Claimed, LifeTypeOK, Points, vars
<1> QED
  BY <1>1, <1>2, <1>3, <1>4, <1>5, <1>6, <1>7, <1>8, <1>9, <1>10, <1>11, <1>12,
     <1>13, <1>14, <1>15, <1>16, <1>17, <1>18, <1>19, <1>20, <1>21, <1>22, <1>23,
     <1>24, <1>25, <1>26, <1>27, <1>28, <1>29, <1>30, <1>31, <1>32, <1>33, <1>34,
     <1>35, <1>36, <1>37, <1>38, <1>39, <1>40, <1>41, <1>42, <1>43 DEF Next,
     WorkStep, ClaimStep, Arrive, UpdateMissed, CloseStep, Finished

-----------------------------------------------------------------------------
\* The initial state satisfies the invariant.
LEMMA InitInv == Init => IInv
<1> SUFFICES ASSUME Init PROVE IInv
  OBVIOUS
<1>1. RegIInv
  BY RegInitInv DEF Init
<1>2. LifeTypeOK
  BY LifecycleAssumption DEF Init, LifeTypeOK, TaskStates, WorkPoints, ClaimPoints,
     Outcomes,
     Stages
<1>3. Fresh /\ Points /\ Links /\ Once /\ Closedown
  BY DEF Init, RegInit, Fresh, Points, Links, Once, Closedown
<1>4. accepted = Tasks /\ released = {} /\ \A x \in Tasks : ~Working(x) /\ ~Waits(x) /\ ~Claimed(x)
  BY DEF Init, RegInit, Working, Waits, Claimed, Holds
<1>5. \A x \in Tasks : ~Returned(x)
  BY DEF Init, Returned
<1>6. Covered /\ Baton /\ Free
  BY <1>4, <1>5 DEF Init, RegInit, Covered, Baton, Free, Holds
<1> QED
  BY <1>1, <1>2, <1>3, <1>6 DEF IInv

\* Every step keeps the invariant.
LEMMA Inductive == IInv /\ [Next]_vars => IInv'
<1> SUFFICES ASSUME IInv, [Next]_vars PROVE IInv'
  OBVIOUS
<1>1. RegIInv'
  BY RegistryStep, RegInductive DEF IInv
<1> QED
  BY <1>1, LifeTypeStep, FreshStep, PointsStep, LinksStep, OnceStep, ClosedownStep,
     CoveredStep,
     BatonStep, FreeStep DEF IInv

\* The inductive invariant holds in every state of the life of the tasks.
THEOREM Invariance == Spec => []IInv
BY InitInv, Inductive, PTL DEF Spec

\* Every variable keeps its type.
THEOREM TypeCorrect == Spec => []TypeOK
<1>1. IInv => TypeOK
  BY TypeParts DEF IInv, RegIInv
<1> QED
  BY <1>1, Invariance, PTL

\* Whatever the runtime does with its registry, it uses it as RegSpec says.
THEOREM UsesRegistry == Spec => RegSpec
<1>1. Init => RegInit
  BY DEF Init
<1> QED
  BY <1>1, RegistryStep, Invariance, PTL DEF Spec, RegSpec

\* So Close waits for exactly the claims and the callbacks of the runtime.
THEOREM WaitsAreExactHere == Spec => []WaitGroupsExact
BY UsesRegistry, WaitsAreExact, PTL

\* And the custody of every handle is that of HandleCustody.
THEOREM CustodyImplemented == Spec => ImplementsCustody
BY UsesRegistry, Implementation, PTL

\* The tool call of an approval is started at most once, and only on a record that was
\* approved and is marked consumed, with any number of retries, timers and lost writes.
THEOREM RunsOnlyApproved == Spec => []RunOnlyApproved
<1>1. IInv => RunOnlyApproved
  BY DEF IInv, Once, RunOnlyApproved
<1> QED
  BY <1>1, Invariance, PTL

\* While the runtime is up no lease is released under a task that is still in use.
THEOREM LeasesAreHeld == Spec => []LeaseHeldWhileUp
<1>1. ASSUME IInv PROVE LeaseHeldWhileUp
  <2> SUFFICES ASSUME stage = "up", NEW x \in released
               PROVE  /\ x \notin accepted /\ work[x] \in {"idle", "leaving"}
                      /\ \A id \in Ids : TaskOf[id] = x => entries[id] = None
                      /\ \A o \in Owners : owned[o] # None /\ JobOf(o) = x =>
                           at[o] \in {"kept", "end"} \/ (kind[o] = "expiry" /\ at[o] = "complete")
    BY DEF LeaseHeldWhileUp
  <2>1. x \notin accepted /\ ~Working(x) /\ ~Waits(x) /\ ~Claimed(x)
    BY <1>1 DEF IInv, Free
  <2>2. \A o \in Owners : owned[o] # None => at[o] # "none"
    BY <1>1 DEF IInv, Fresh
  <2> QED
    BY <2>1, <2>2 DEF Working, Waits, Claimed, Holds
<1> QED
  BY <1>1, Invariance, PTL

\* Once everything has come to rest after close(), the lease of every task was released.
THEOREM LeasesAreReturned == Spec => []LeasesReturned
<1>1. ASSUME IInv PROVE LeasesReturned
  <2> SUFFICES ASSUME Quiet PROVE Tasks \subseteq released /\ released \subseteq Tasks
    BY DEF LeasesReturned
  <2>1. /\ accepted = {} /\ \A x \in Tasks : work[x] = "idle"
        /\ closing = "returned" /\ \A e \in Entries : hands[e] = "none"
    BY <1>1 DEF IInv, Closedown, Quiet
  <2>2. \A id \in Ids : entries[id] = None
    BY <1>1, <2>1 DEF IInv, RegIInv, Emptied
  <2>3. \A x \in Tasks : x \notin accepted /\ ~Working(x) /\ ~Waits(x) /\ ~Claimed(x) /\ ~Returned(x)
    BY <2>1, <2>2 DEF Quiet, Working, Waits, Claimed, Holds, Returned
  <2> QED
    BY <1>1, <2>3 DEF IInv, Covered, LifeTypeOK
<1> QED
  BY <1>1, Invariance, PTL

-----------------------------------------------------------------------------
\* What becomes of the tasks and of the records.

\* A claim that has yet to decide about its task.
Settling(o) ==
  at[o] \in {"read", "resolve", "reread", "act", "again", "fail", "cancel", "resume", "restore", "orphan"}

\* The status of a task agrees with who holds it, unless a decision came early.
Status ==
  \A x \in Tasks : x \notin early =>
    /\ work[x] \in {"start", "checked", "engine", "paused"} => task[x] = "running"
    /\ work[x] = "parked" => task[x] = "pending"
    /\ Waits(x) => task[x] = "pending"
    /\ \A o \in Owners : Settling(o) /\ JobOf(o) = x => task[x] = "pending"
    /\ stage = "up" /\ x \in accepted => task[x] = "queued"
    /\ stage = "up" => \A o \in Owners : at[o] = "enqueue" /\ JobOf(o) = x => task[x] = "queued"

\* The task store does not fail.
TasksKept == "task" \notin FaultKinds \/ faults = 0

\* Who settles a task that is queued or runs.
ActiveKept ==
  TasksKept => \A x \in Tasks : task[x] \in {"queued", "running"} =>
    \/ x \in accepted \/ work[x] \in {"start", "checked", "engine", "paused"}
    \/ work[x] = "leaving" /\ stage # "up"
    \/ \E o \in Owners : at[o] = "enqueue" /\ JobOf(o) = x

\* Who settles a task that waits for an approval.
PendingKept ==
  TasksKept => \A x \in Tasks : task[x] = "pending" =>
    \/ work[x] = "parked" /\ about[x] = asked[x]
    \/ entries[asked[x]] # None
    \/ \E o \in Owners : Settling(o) /\ IdOf(o) = asked[x]
    \/ \E e \in Entries : home[e] = asked[x] /\ hands[e] # "none"

\* Who resolves a record that is open.
RecordKept ==
  faults = 0 => \A id \in Ids : record[id] = "pending" =>
    \/ work[TaskOf[id]] \in {"paused", "parked"} /\ about[TaskOf[id]] = id
    \/ entries[id] # None
    \/ \E o \in Owners : at[o] \in {"read", "resolve"} /\ IdOf(o) = id
    \/ \E e \in Entries : home[e] = id /\ hands[e] = "resolve"

\* What is named was recorded.
Recorded ==
  /\ \A e \in Entries : home[e] \in Ids => record[home[e]] # "none"
  /\ \A x \in Tasks : about[x] \in Ids => record[about[x]] # "none"

\* Without failures a claim that is settled in the registry has settled its task.
Orderly ==
  faults = 0 => \A o \in Owners :
    /\ at[o] = "reread" => record[IdOf(o)] # "pending"
    /\ outcome[o] \notin {"pendingErr", "indeterminate"} /\ at[o] \notin {"restore", "orphan", "again"}
    /\ owner[o] \in {"settling", "done"} => at[o] \in {"release", "end", "complete"}

\* The holder of a task is its only one.
LEMMA HolderFacts ==
  ASSUME IInv, NEW o \in Owners, Holds(o)
  PROVE  /\ at[o] # "none" /\ JobOf(o) \in Tasks /\ IdOf(o) \in Ids /\ JobOf(o) = TaskOf[IdOf(o)]
         /\ JobOf(o) \notin accepted /\ work[JobOf(o)] \in {"idle", "leaving"} /\ ~Waits(JobOf(o))
         /\ \A w \in Owners : Holds(w) /\ JobOf(w) = JobOf(o) => w = o
<1>1. at[o] # "none"
  BY DEF Holds
<1>2. JobOf(o) \in Tasks /\ IdOf(o) \in Ids /\ JobOf(o) = TaskOf[IdOf(o)]
  BY <1>1, ClaimFacts
<1>3. Claimed(JobOf(o)) /\ Baton
  BY DEF Claimed, IInv
<1> QED
  BY <1>1, <1>2, <1>3 DEF Baton, Working

\* A claim that has yet to decide, or to pass the task on, holds the task.
LEMMA SettlingHolds ==
  ASSUME NEW w \in Owners, Settling(w) \/ at[w] = "enqueue"
  PROVE  Holds(w)
BY DEF Settling, Holds

\* The approval a claim holds was recorded.
LEMMA IdRecorded ==
  ASSUME IInv, Recorded, NEW o \in Owners, at[o] # "none"
  PROVE  record[IdOf(o)] # "none"
BY ClaimFacts DEF Recorded, IdOf

\* Close takes over every handle of the registry.
LEMMA HandsTaken ==
  ASSUME IInv, CloseRegistry
  PROVE  /\ \A i \in Ids : entries[i] # None =>
              home[entries[i]] = i /\ entries[i] \in Entries /\ hands'[entries[i]] = "resolve"
         /\ \A f \in Entries : hands[f] = "none"
         /\ UNCHANGED home
<1>1. /\ UNCHANGED home
      /\ \A f \in Entries : hands'[f] =
           IF home[f] # None /\ entries[home[f]] = f THEN "resolve" ELSE "none"
  BY DEF CloseRegistry, CloseStart
<1>2. \A i \in Ids : entries[i] # None => entries[i] \in Entries /\ home[entries[i]] = i /\ i # None
  BY EntryFacts, RegistryAssumption
<1>3. \A f \in Entries : hands[f] = "none"
  BY DEF IInv, LifeTypeOK, Closedown, CloseRegistry, CloseStart
<1> QED
  BY <1>1, <1>2, <1>3

\* Every step keeps that a status agrees with who holds the task.
LEMMA StatusStep == IInv /\ Status /\ [Next]_vars => Status'
<1> SUFFICES ASSUME IInv, Status, [Next]_vars PROVE Status'
  OBVIOUS
<1> USE DEF lifeVars, claimRest, recVars, taskVars, workVars, claimVars, missVars,
   regVars, timerVars, ownerVars
<1>0. \A w \in Owners : at[w] # "none" => IdOf(w)' = IdOf(w) /\ JobOf(w)' = JobOf(w)
  BY IdKept
<1>1. ASSUME NEW x \in Tasks, StartJob(x) PROVE Status'
  BY <1>1, <1>0, LifecycleAssumption DEF IInv, Status, Settling, Waits, Working,
     Claimed, Holds, Returned, LifeTypeOK, Points, Links, Closedown, Baton,
     StartJob, SetTask, FinalizeAccepted, Fault
<1>2. ASSUME NEW x \in Tasks, FinishRun(x) PROVE Status'
  BY <1>2, <1>0, LifecycleAssumption DEF IInv, Status, Settling, Waits, Working,
     Claimed, Holds, Returned, LifeTypeOK, Points, Links, Closedown, Baton,
     FinishRun, SetTask, Fault
<1>3. ASSUME NEW x \in Tasks, NEW id \in Ids, PauseRun(x, id) PROVE Status'
  BY <1>3, <1>0, LifecycleAssumption DEF IInv, Status, Settling, Waits, Working,
     Claimed, Holds, Returned, LifeTypeOK, Points, Links, Closedown, Baton, PauseRun
<1>4. ASSUME NEW x \in Tasks, CheckResume(x) PROVE Status'
  <2>1. about[x] \in Ids /\ TaskOf[about[x]] = x
    BY <1>4, AboutFacts DEF CheckResume
  <2> QED
    BY <1>0, <2>1, <1>4 DEF IInv, Status, Settling, Waits, Working, Claimed, Holds,
       Returned, LifeTypeOK, Points, Links, Closedown, Baton, CheckResume, SetTask
<1>5. ASSUME NEW x \in Tasks, Consume(x) PROVE Status'
  <2>1. about[x] \in Ids /\ TaskOf[about[x]] = x
    BY <1>5, AboutFacts DEF Consume
  <2> QED
    BY <1>0, <2>1, <1>5 DEF IInv, Status, Settling, Waits, Working, Claimed, Holds,
       Returned, LifeTypeOK, Points, Links, Closedown, Baton, Consume, Consumable,
       SetTask, Fault
<1>6. ASSUME NEW x \in Tasks, MarkPending(x) PROVE Status'
  <2>1. about[x] \in Ids /\ TaskOf[about[x]] = x
    BY <1>6, AboutFacts DEF MarkPending
  <2> QED
    BY <1>0, <2>1, <1>6 DEF IInv, Status, Settling, Waits, Working, Claimed, Holds,
       Returned, LifeTypeOK, Points, Links, Closedown, Baton, MarkPending, SetTask,
       Fault
<1>7. ASSUME NEW x \in Tasks, NEW e \in Entries, Park(x, e) PROVE Status'
  <2>1. about[x] \in Ids /\ TaskOf[about[x]] = x
    BY <1>7, AboutFacts DEF Park
  <2>2. /\ closing = "open" /\ UNCHANGED <<owned, owner>> /\ e # None
        /\ entries' = [entries EXCEPT ![about[x]] = e]
    BY <1>7, RegistryAssumption DEF Park, Register, Registrable, ownerVars
  <2> QED
    BY <1>0, <2>1, <2>2, <1>7 DEF IInv, RegIInv, RegTypeOK, Status, Settling, Waits,
       Working, Claimed, Holds, Returned, LifeTypeOK, Points, Links, Closedown,
       Baton, Park
<1>8. ASSUME NEW x \in Tasks, ParkFails(x) PROVE Status'
  <2>1. about[x] \in Ids /\ TaskOf[about[x]] = x
    BY <1>8, AboutFacts DEF ParkFails
  <2> QED
    BY <1>0, <2>1, <1>8 DEF IInv, Status, Settling, Waits, Working, Claimed, Holds,
       Returned, LifeTypeOK, Points, Links, Closedown, Baton, ParkFails, Fault,
       FailPending, UpdatePending, SetTask
<1>9. ASSUME NEW x \in Tasks, LeaveJob(x) PROVE Status'
  BY <1>9, <1>0, LifecycleAssumption DEF IInv, Status, Settling, Waits, Working,
     Claimed, Holds, Returned, LifeTypeOK, Points, Links, Closedown, Baton,
     LeaveJob, FinalizeAccepted, SetTask
<1>10. ASSUME NEW id \in Ids, NEW approve \in BOOLEAN, NEW o \in Owners, Decide(id, approve, o)
       PROVE  Status'
  <2>1. /\ at[o] = "none" /\ entries[id] # None /\ closing = "open"
        /\ IdOf(o)' = id /\ JobOf(o)' = TaskOf[id] /\ entries' = [entries EXCEPT ![id] = None]
    BY <1>10, DecideEffect
  <2> QED
    BY <1>0, <2>1, <1>10 DEF IInv, RegIInv, RegTypeOK, Status, Settling, Waits,
       Working, Claimed, Holds, Returned, LifeTypeOK, Points, Links, Closedown,
       Baton, Decide, Goto
<1>11. ASSUME NEW t \in Timers, NEW o \in Owners, ExpireHandle(t, o) PROVE Status'
  <2>1. PICK id \in Ids : /\ at[o] = "none" /\ entries[id] # None /\ closing = "open"
        /\ IdOf(o)' = id /\ JobOf(o)' = TaskOf[id] /\ entries' = [entries EXCEPT ![id] = None]
    BY <1>11, ExpireEffect
  <2> QED
    BY <1>0, <2>1, <1>11 DEF IInv, RegIInv, RegTypeOK, Status, Settling, Waits,
       Working, Claimed, Holds, Returned, LifeTypeOK, Points, Links, Closedown,
       Baton, ExpireHandle, Goto
<1>12. ASSUME NEW o \in Owners, ReadRecord(o) PROVE Status'
  <2>1. UNCHANGED <<task, work, entries, accepted, early, stage>>
    BY <1>12 DEF ReadRecord, Fault, Goto
  <2>2. \A w \in Owners : (Settling(w)' => Settling(w)) /\ (at'[w] = "enqueue" => at[w] = "enqueue")
    BY <1>12 DEF IInv, LifeTypeOK, Settling, ReadRecord, Fault, Goto
  <2>3. \A y \in Tasks : Waits(y)' <=> Waits(y)
    BY <2>1 DEF Waits
  <2>4. \A w \in Owners : Settling(w) \/ at[w] = "enqueue" => JobOf(w)' = JobOf(w)
    BY <1>0 DEF Settling
  <2> QED
    BY <2>1, <2>2, <2>3, <2>4 DEF Status
<1>13. ASSUME NEW o \in Owners, Resolve(o) PROVE Status'
  <2>1. UNCHANGED <<task, work, entries, accepted, early, stage>>
    BY <1>13 DEF Resolve, Fault, Goto
  <2>2. \A w \in Owners : (Settling(w)' => Settling(w)) /\ (at'[w] = "enqueue" => at[w] = "enqueue")
    BY <1>13 DEF IInv, LifeTypeOK, Settling, Resolve, Fault, Goto
  <2>3. \A y \in Tasks : Waits(y)' <=> Waits(y)
    BY <2>1 DEF Waits
  <2>4. \A w \in Owners : Settling(w) \/ at[w] = "enqueue" => JobOf(w)' = JobOf(w)
    BY <1>0 DEF Settling
  <2> QED
    BY <2>1, <2>2, <2>3, <2>4 DEF Status
<1>14. ASSUME NEW o \in Owners, Reread(o) PROVE Status'
  <2>1. UNCHANGED <<task, work, entries, accepted, early, stage>>
    BY <1>14 DEF Reread, Fault, Goto
  <2>2. \A w \in Owners : (Settling(w)' => Settling(w)) /\ (at'[w] = "enqueue" => at[w] = "enqueue")
    BY <1>14 DEF IInv, LifeTypeOK, Settling, Reread, Fault, Goto
  <2>3. \A y \in Tasks : Waits(y)' <=> Waits(y)
    BY <2>1 DEF Waits
  <2>4. \A w \in Owners : Settling(w) \/ at[w] = "enqueue" => JobOf(w)' = JobOf(w)
    BY <1>0 DEF Settling
  <2> QED
    BY <2>1, <2>2, <2>3, <2>4 DEF Status
<1>15. ASSUME NEW o \in Owners, CancelExpired(o) PROVE Status'
  <2>1. at[o] # "none"
    BY <1>15 DEF CancelExpired
  <2>2. IdOf(o) \in Ids /\ JobOf(o) \in Tasks /\ JobOf(o) = TaskOf[IdOf(o)]
    BY <2>1, ClaimFacts
  <2> QED
    BY <1>0, <2>2, <1>15 DEF IInv, Status, Settling, Waits, Working, Claimed, Holds,
       Returned, LifeTypeOK, Points, Links, Closedown, Baton, CancelExpired,
       Expiring, UpdatePending, SetTask, Done, Goto, Fault
<1>16. ASSUME NEW o \in Owners, FailExpired(o) PROVE Status'
  <2>1. at[o] # "none"
    BY <1>16 DEF FailExpired
  <2>2. IdOf(o) \in Ids /\ JobOf(o) \in Tasks /\ JobOf(o) = TaskOf[IdOf(o)]
    BY <2>1, ClaimFacts
  <2> QED
    BY <1>0, <2>2, <1>16 DEF IInv, Status, Settling, Waits, Working, Claimed, Holds,
       Returned, LifeTypeOK, Points, Links, Closedown, Baton, FailExpired, Expiring,
       FailPending, UpdatePending, SetTask, Done, GiveUp, Goto, Fault
<1>17. ASSUME NEW o \in Owners, ExpiryUnsure(o) PROVE Status'
  <2>1. UNCHANGED <<task, work, entries, accepted, early, stage>>
    BY <1>17 DEF ExpiryUnsure, Expiring, GiveUp, Goto
  <2>2. \A w \in Owners : (Settling(w)' => Settling(w)) /\ (at'[w] = "enqueue" => at[w] = "enqueue")
    BY <1>17 DEF IInv, LifeTypeOK, Settling, ExpiryUnsure, Expiring, GiveUp, Goto
  <2>3. \A y \in Tasks : Waits(y)' <=> Waits(y)
    BY <2>1 DEF Waits
  <2>4. \A w \in Owners : Settling(w) \/ at[w] = "enqueue" => JobOf(w)' = JobOf(w)
    BY <1>0 DEF Settling
  <2> QED
    BY <2>1, <2>2, <2>3, <2>4 DEF Status
<1>18. ASSUME NEW o \in Owners, RetryExpiry(o) PROVE Status'
  <2>1. RestoreClaim(o, TRUE) /\ at[o] # "none"
    BY <1>18 DEF RetryExpiry
  <2>2. IdOf(o) \in Ids /\ JobOf(o) = TaskOf[IdOf(o)]
    BY <2>1, ClaimFacts
  <2>3. /\ owned[o] # None /\ closing = "open" /\ UNCHANGED home
        /\ entries' = [entries EXCEPT ![IdOf(o)] = owned[o]]
    BY <2>1, RestoreEffect
  <2> QED
    BY <1>0, <2>2, <2>3, <1>18 DEF IInv, RegIInv, RegTypeOK, Status, Settling,
       Waits, Working, Claimed, Holds, Returned, LifeTypeOK, Points, Links,
       Closedown, Baton, RetryExpiry, Goto
<1>19. ASSUME NEW o \in Owners, RetryRefused(o) PROVE Status'
  <2>1. UNCHANGED <<task, work, entries, accepted, early, stage>>
    BY <1>19 DEF RetryRefused, RestoreRefused, CompleteClaim, Goto
  <2>2. \A w \in Owners : (Settling(w)' => Settling(w)) /\ (at'[w] = "enqueue" => at[w] = "enqueue")
    BY <1>19 DEF IInv, LifeTypeOK, Settling, RetryRefused, RestoreRefused,
       CompleteClaim, Goto
  <2>3. \A y \in Tasks : Waits(y)' <=> Waits(y)
    BY <2>1 DEF Waits
  <2>4. \A w \in Owners : Settling(w) \/ at[w] = "enqueue" => JobOf(w)' = JobOf(w)
    BY <1>0 DEF Settling
  <2> QED
    BY <2>1, <2>2, <2>3, <2>4 DEF Status
<1>20. ASSUME NEW o \in Owners, FinalizeOrphan(o) PROVE Status'
  <2> DEFINE x == JobOf(o)
  <2>1. Holds(o)
    BY <1>20 DEF FinalizeOrphan, Holds
  <2>2. /\ at[o] # "none" /\ x \in Tasks /\ x \notin accepted /\ work[x] \in {"idle", "leaving"} /\ ~Waits(x)
        /\ \A w \in Owners : Holds(w) /\ JobOf(w) = x => w = o
    BY <2>1, HolderFacts
  <2>3. /\ UNCHANGED <<work, entries, early, stage>>
        /\ \A y \in Tasks : y # x => task'[y] = task[y]
        /\ \A w \in Owners : w # o => at'[w] = at[w]
    BY <2>2, <1>20 DEF IInv, LifeTypeOK, FinalizeOrphan, FailPending, UpdatePending,
       SetTask, Fault, Goto
  <2>4. ~Settling(o)' /\ at'[o] # "enqueue"
    BY <1>20 DEF IInv, LifeTypeOK, FinalizeOrphan, Goto, Settling
  <2>5. UNCHANGED accepted
    BY <1>20 DEF FinalizeOrphan
  <2>6. \A y \in Tasks : Waits(y)' <=> Waits(y)
    BY <2>3 DEF Waits
  <2>7. \A w \in Owners : w # o /\ (Settling(w)' \/ at'[w] = "enqueue") =>
          /\ Settling(w)' <=> Settling(w)
          /\ JobOf(w)' = JobOf(w) /\ JobOf(w) # x
    BY <1>0, <2>2, <2>3, SettlingHolds DEF Settling
  <2> QED
    BY <2>2, <2>3, <2>4, <2>5, <2>6, <2>7, <1>0 DEF Status
<1>21. ASSUME NEW o \in Owners, Settle(o) PROVE Status'
  <2>1. UNCHANGED <<task, work, entries, accepted, early, stage>>
    BY <1>21 DEF Settle, Goto
  <2>2. \A w \in Owners : (Settling(w)' => Settling(w)) /\ (at'[w] = "enqueue" => at[w] = "enqueue")
    BY <1>21 DEF IInv, LifeTypeOK, Settling, Settle, Goto
  <2>3. \A y \in Tasks : Waits(y)' <=> Waits(y)
    BY <2>1 DEF Waits
  <2>4. \A w \in Owners : Settling(w) \/ at[w] = "enqueue" => JobOf(w)' = JobOf(w)
    BY <1>0 DEF Settling
  <2> QED
    BY <2>1, <2>2, <2>3, <2>4 DEF Status
<1>22. ASSUME NEW o \in Owners, GiveBack(o) PROVE Status'
  <2>1. at[o] # "none"
    BY <1>22 DEF GiveBack
  <2>2. IdOf(o) \in Ids /\ JobOf(o) = TaskOf[IdOf(o)]
    BY <2>1, ClaimFacts
  <2>3. CASE RestoreClaim(o, TRUE) /\ Goto(o, "end")
    <3>1. /\ owned[o] # None /\ closing = "open" /\ UNCHANGED home
          /\ entries' = [entries EXCEPT ![IdOf(o)] = owned[o]]
      BY <2>1, <2>3, RestoreEffect
    <3> QED
      BY <1>0, <2>2, <2>3, <3>1, <1>22 DEF IInv, RegIInv, RegTypeOK, Status,
         Settling, Waits, Working, Claimed, Holds, Returned, LifeTypeOK, Points,
         Links, Closedown, Baton, GiveBack, Goto
  <2>4. CASE RestoreRefused(o) /\ Goto(o, "fail")
    BY <1>0, <2>2, <2>4, <1>22 DEF IInv, Status, Settling, Waits, Working, Claimed,
       Holds, Returned, LifeTypeOK, Points, Links, Closedown, Baton, GiveBack,
       RestoreRefused, CompleteClaim, Goto
  <2> QED
    BY <1>22, <2>3, <2>4 DEF GiveBack
<1>23. ASSUME NEW o \in Owners, FailClaimed(o) PROVE Status'
  <2>1. at[o] # "none"
    BY <1>23 DEF FailClaimed
  <2>2. IdOf(o) \in Ids /\ JobOf(o) \in Tasks /\ JobOf(o) = TaskOf[IdOf(o)]
    BY <2>1, ClaimFacts
  <2> QED
    BY <1>0, <2>2, <1>23 DEF IInv, Status, Settling, Waits, Working, Claimed, Holds,
       Returned, LifeTypeOK, Points, Links, Closedown, Baton, FailClaimed,
       FailPending, UpdatePending, SetTask, Fault, Goto
<1>24. ASSUME NEW o \in Owners, CancelClaimed(o) PROVE Status'
  <2> DEFINE x == JobOf(o)
  <2>1. Holds(o)
    BY <1>24 DEF CancelClaimed, Holds
  <2>2. /\ at[o] # "none" /\ x \in Tasks /\ x \notin accepted /\ work[x] \in {"idle", "leaving"} /\ ~Waits(x)
        /\ \A w \in Owners : Holds(w) /\ JobOf(w) = x => w = o
    BY <2>1, HolderFacts
  <2>3. /\ UNCHANGED <<work, entries, early, stage>>
        /\ \A y \in Tasks : y # x => task'[y] = task[y]
        /\ \A w \in Owners : w # o => at'[w] = at[w]
    BY <2>2, <1>24 DEF IInv, LifeTypeOK, CancelClaimed, SetTask, Fault, Goto
  <2>4. ~Settling(o)' /\ at'[o] # "enqueue"
    BY <1>24 DEF IInv, LifeTypeOK, CancelClaimed, Goto, Settling
  <2>5. UNCHANGED accepted
    BY <1>24 DEF CancelClaimed
  <2>6. \A y \in Tasks : Waits(y)' <=> Waits(y)
    BY <2>3 DEF Waits
  <2>7. \A w \in Owners : w # o /\ (Settling(w)' \/ at'[w] = "enqueue") =>
          /\ Settling(w)' <=> Settling(w)
          /\ JobOf(w)' = JobOf(w) /\ JobOf(w) # x
    BY <1>0, <2>2, <2>3, SettlingHolds DEF Settling
  <2> QED
    BY <2>2, <2>3, <2>4, <2>5, <2>6, <2>7, <1>0 DEF Status
<1>25. ASSUME NEW o \in Owners, Requeue(o) PROVE Status'
  <2> DEFINE x == JobOf(o)
  <2>1. Holds(o)
    BY <1>25 DEF Requeue, Holds
  <2>2. /\ at[o] # "none" /\ x \in Tasks /\ x \notin accepted /\ work[x] \in {"idle", "leaving"} /\ ~Waits(x)
        /\ \A w \in Owners : Holds(w) /\ JobOf(w) = x => w = o
    BY <2>1, HolderFacts
  <2>3. /\ UNCHANGED <<work, entries, early, stage>>
        /\ \A y \in Tasks : y # x => task'[y] = task[y]
        /\ \A w \in Owners : w # o => at'[w] = at[w]
    BY <2>2, <1>25 DEF IInv, LifeTypeOK, Requeue, SetTask, Fault, Goto
  <2>4. /\ at'[o] \in {"enqueue", "fail"} /\ at[o] = "resume"
        /\ at'[o] = "enqueue" => task'[x] = "queued"
        /\ at'[o] = "fail" => task'[x] = task[x]
    BY <2>2, <1>25 DEF IInv, LifeTypeOK, Requeue, SetTask, Goto
  <2>5. UNCHANGED accepted /\ Settling(o) /\ (at'[o] = "enqueue" => ~Settling(o)')
    BY <2>4, <1>25 DEF Requeue, Settling
  <2>6. \A y \in Tasks : Waits(y)' <=> Waits(y)
    BY <2>3 DEF Waits
  <2>7. \A w \in Owners : w # o /\ (Settling(w)' \/ at'[w] = "enqueue") =>
          /\ Settling(w)' <=> Settling(w)
          /\ JobOf(w)' = JobOf(w) /\ JobOf(w) # x
    BY <1>0, <2>2, <2>3, SettlingHolds DEF Settling
  <2> QED
    BY <2>2, <2>3, <2>4, <2>5, <2>6, <2>7, <1>0 DEF Status
<1>26. ASSUME NEW o \in Owners, Enqueue(o) PROVE Status'
  <2> DEFINE x == JobOf(o)
  <2>1. Holds(o)
    BY <1>26 DEF Enqueue, Holds
  <2>2. /\ at[o] # "none" /\ x \in Tasks /\ x \notin accepted /\ work[x] \in {"idle", "leaving"} /\ ~Waits(x)
        /\ \A w \in Owners : Holds(w) /\ JobOf(w) = x => w = o
    BY <2>1, HolderFacts
  <2>3. /\ UNCHANGED <<work, entries, early, stage>>
        /\ \A y \in Tasks : y # x => task'[y] = task[y]
        /\ \A w \in Owners : w # o => at'[w] = at[w]
    BY <2>2, <1>26 DEF IInv, LifeTypeOK, Enqueue, SetTask, Fault, Goto
  <2>4. ~Settling(o)' /\ at'[o] # "enqueue" /\ at[o] = "enqueue"
    BY <1>26 DEF IInv, LifeTypeOK, Enqueue, Goto, Settling
  <2>5. /\ \A y \in Tasks : y # x => (y \in accepted' <=> y \in accepted)
        /\ stage = "up" => task'[x] = task[x]
    BY <2>2, <1>26 DEF Enqueue
  <2>6. \A y \in Tasks : Waits(y)' <=> Waits(y)
    BY <2>3 DEF Waits
  <2>7. \A w \in Owners : w # o /\ (Settling(w)' \/ at'[w] = "enqueue") =>
          /\ Settling(w)' <=> Settling(w)
          /\ JobOf(w)' = JobOf(w) /\ JobOf(w) # x
    BY <1>0, <2>2, <2>3, SettlingHolds DEF Settling
  <2> QED
    BY <2>2, <2>3, <2>4, <2>5, <2>6, <2>7, <1>0 DEF Status
<1>27. ASSUME NEW o \in Owners, Complete(o) PROVE Status'
  <2>1. at[o] # "none"
    BY <1>27 DEF Complete
  <2>2. IdOf(o) \in Ids /\ JobOf(o) \in Tasks /\ JobOf(o) = TaskOf[IdOf(o)]
    BY <2>1, ClaimFacts
  <2> QED
    BY <1>0, <2>2, <1>27 DEF IInv, Status, Settling, Waits, Working, Claimed, Holds,
       Returned, LifeTypeOK, Points, Links, Closedown, Baton, Complete,
       CompleteClaim, Goto
<1>28. ASSUME NEW o \in Owners, ReleaseLease(o) PROVE Status'
  <2>1. at[o] # "none"
    BY <1>28 DEF ReleaseLease
  <2>2. IdOf(o) \in Ids /\ JobOf(o) \in Tasks /\ JobOf(o) = TaskOf[IdOf(o)]
    BY <2>1, ClaimFacts
  <2> QED
    BY <1>0, <2>2, <1>28 DEF IInv, Status, Settling, Waits, Working, Claimed, Holds,
       Returned, LifeTypeOK, Points, Links, Closedown, Baton, ReleaseLease, Goto
<1>29. ASSUME NEW id \in Ids, NEW approve \in BOOLEAN, DecideMissing(id, approve)
       PROVE  Status'
  BY <1>29, <1>0, LifecycleAssumption DEF IInv, Status, Settling, Waits, Working,
     Claimed, Holds, Returned, LifeTypeOK, Points, Links, Closedown, Baton,
     DecideMissing
<1>30. ASSUME NEW id \in Ids, NEW approve \in BOOLEAN, UpdateMissing(id, approve)
       PROVE  Status'
  BY <1>30, <1>0, LifecycleAssumption DEF IInv, Status, Settling, Waits, Working,
     Claimed, Holds, Returned, LifeTypeOK, Points, Links, Closedown, Baton,
     UpdateMissing, SetTask, Fault
<1>31. ASSUME NEW id \in Ids, PassDeadline(id) PROVE Status'
  BY <1>31, <1>0, LifecycleAssumption DEF IInv, Status, Settling, Waits, Working,
     Claimed, Holds, Returned, LifeTypeOK, Points, Links, Closedown, Baton,
     PassDeadline
<1>32. ASSUME NEW t \in Timers, FireTimer(t) PROVE Status'
  BY <1>32, <1>0, LifecycleAssumption DEF IInv, Status, Settling, Waits, Working,
     Claimed, Holds, Returned, LifeTypeOK, Points, Links, Closedown, Baton,
     FireTimer, Fire
<1>33. ASSUME NEW o \in Owners, Unlock(o) PROVE Status'
  BY <1>33, <1>0, LifecycleAssumption DEF IInv, Status, Settling, Waits, Working,
     Claimed, Holds, Returned, LifeTypeOK, Points, Links, Closedown, Baton, Unlock,
     OwnerDone
<1>34. ASSUME NEW o \in Owners, LeaveCallback(o) PROVE Status'
  BY <1>34, <1>0, LifecycleAssumption DEF IInv, Status, Settling, Waits, Working,
     Claimed, Holds, Returned, LifeTypeOK, Points, Links, Closedown, Baton,
     LeaveCallback, CallbackDone
<1>35. ASSUME NEW t \in Timers, Stale(t) PROVE Status'
  BY <1>35, <1>0, LifecycleAssumption DEF IInv, Status, Settling, Waits, Working,
     Claimed, Holds, Returned, LifeTypeOK, Points, Links, Closedown, Baton, Stale,
     ExpireStale
<1>36. ASSUME StopWorkers PROVE Status'
  BY <1>36, <1>0, LifecycleAssumption DEF IInv, Status, Settling, Waits, Working,
     Claimed, Holds, Returned, LifeTypeOK, Points, Links, Closedown, Baton,
     StopWorkers
<1>37. ASSUME RunnerClosed PROVE Status'
  BY <1>37, <1>0, LifecycleAssumption DEF IInv, Status, Settling, Waits, Working,
     Claimed, Holds, Returned, LifeTypeOK, Points, Links, Closedown, Baton,
     RunnerClosed
<1>38. ASSUME CloseRegistry PROVE Status'
  BY <1>38, <1>0, LifecycleAssumption DEF IInv, Status, Settling, Waits, Working,
     Claimed, Holds, Returned, LifeTypeOK, Points, Links, Closedown, Baton,
     CloseRegistry, CloseStart
<1>39. ASSUME WaitRegistry PROVE Status'
  BY <1>39, <1>0, LifecycleAssumption DEF IInv, Status, Settling, Waits, Working,
     Claimed, Holds, Returned, LifeTypeOK, Points, Links, Closedown, Baton,
     WaitRegistry, CloseOwners, CloseReturn
<1>40. ASSUME NEW e \in Entries, ResolveHandle(e) PROVE Status'
  BY <1>40, <1>0, LifecycleAssumption DEF IInv, Status, Settling, Waits, Working,
     Claimed, Holds, Returned, LifeTypeOK, Points, Links, Closedown, Baton,
     ResolveHandle, Fault
<1>41. ASSUME NEW e \in Entries, FinalizeHandle(e) PROVE Status'
  <2> DEFINE x == TaskOf[home[e]]
  <2>1. home[e] \in Ids /\ x \in Tasks /\ closing = "returned" /\ stage # "up"
        /\ accepted = {} /\ \A y \in Tasks : work[y] = "idle"
    BY <1>41, LifecycleAssumption DEF IInv, Closedown, FinalizeHandle
  <2>2. Returned(x) /\ ~Claimed(x)
    BY <2>1, <1>41 DEF IInv, Baton, FinalizeHandle, Returned
  <2>3. /\ UNCHANGED <<work, entries, at, early, stage, accepted>>
        /\ \A y \in Tasks : y # x => task'[y] = task[y]
    BY <2>1, <1>41 DEF IInv, LifeTypeOK, FinalizeHandle, FailPending, UpdatePending,
       SetTask, Fault
  <2>4. \A i \in Ids : entries'[i] = None
    BY <2>1, <2>3 DEF IInv, RegIInv, Emptied
  <2>5. \A y \in Tasks : ~Waits(y)'
    BY <2>4 DEF Waits
  <2>6. \A w \in Owners : Settling(w)' => Settling(w) /\ JobOf(w)' = JobOf(w) /\ JobOf(w) # x
    BY <1>0, <2>2, <2>3, SettlingHolds DEF Settling, Claimed
  <2> QED
    BY <2>1, <2>3, <2>5, <2>6 DEF Status
<1>42. ASSUME Down PROVE Status'
  BY <1>42, <1>0, LifecycleAssumption DEF IInv, Status, Settling, Waits, Working,
     Claimed, Holds, Returned, LifeTypeOK, Points, Links, Closedown, Baton, Down
<1>43. CASE UNCHANGED vars
  BY <1>43, <1>0, LifecycleAssumption DEF IInv, Status, Settling, Waits, Working,
     Claimed, Holds, Returned, LifeTypeOK, Points, Links, Closedown, Baton, vars
<1> QED
  BY <1>1, <1>2, <1>3, <1>4, <1>5, <1>6, <1>7, <1>8, <1>9, <1>10, <1>11, <1>12,
     <1>13, <1>14, <1>15, <1>16, <1>17, <1>18, <1>19, <1>20, <1>21, <1>22, <1>23,
     <1>24, <1>25, <1>26, <1>27, <1>28, <1>29, <1>30, <1>31, <1>32, <1>33, <1>34,
     <1>35, <1>36, <1>37, <1>38, <1>39, <1>40, <1>41, <1>42, <1>43 DEF Next,
     WorkStep, ClaimStep, Arrive, UpdateMissed, CloseStep, Finished

\* Every step keeps who settles a task that is queued or runs.
LEMMA ActiveStep == IInv /\ ActiveKept /\ [Next]_vars => ActiveKept'
<1> SUFFICES ASSUME IInv, ActiveKept, [Next]_vars PROVE ActiveKept'
  OBVIOUS
<1> USE DEF lifeVars, claimRest, recVars, taskVars, workVars, claimVars, missVars,
   regVars, timerVars, ownerVars
<1>0. \A w \in Owners : at[w] # "none" => IdOf(w)' = IdOf(w) /\ JobOf(w)' = JobOf(w)
  BY IdKept
<1>1. ASSUME NEW x \in Tasks, StartJob(x) PROVE ActiveKept'
  BY <1>1, <1>0, LifecycleAssumption DEF IInv, ActiveKept, TasksKept, LifeTypeOK,
     Points, TaskStates, StartJob, SetTask, FinalizeAccepted, Fault
<1>2. ASSUME NEW x \in Tasks, FinishRun(x) PROVE ActiveKept'
  BY <1>2, <1>0, LifecycleAssumption DEF IInv, ActiveKept, TasksKept, LifeTypeOK,
     Points, TaskStates, FinishRun, SetTask, Fault
<1>3. ASSUME NEW x \in Tasks, NEW id \in Ids, PauseRun(x, id) PROVE ActiveKept'
  BY <1>3, <1>0, LifecycleAssumption DEF IInv, ActiveKept, TasksKept, LifeTypeOK,
     Points, TaskStates, PauseRun
<1>4. ASSUME NEW x \in Tasks, CheckResume(x) PROVE ActiveKept'
  <2>1. about[x] \in Ids /\ TaskOf[about[x]] = x
    BY <1>4, AboutFacts DEF CheckResume
  <2> QED
    BY <1>0, <2>1, <1>4 DEF IInv, ActiveKept, TasksKept, LifeTypeOK, Points,
       TaskStates, CheckResume, SetTask
<1>5. ASSUME NEW x \in Tasks, Consume(x) PROVE ActiveKept'
  <2>1. about[x] \in Ids /\ TaskOf[about[x]] = x
    BY <1>5, AboutFacts DEF Consume
  <2> QED
    BY <1>0, <2>1, <1>5 DEF IInv, ActiveKept, TasksKept, LifeTypeOK, Points,
       TaskStates, Consume, Consumable, SetTask, Fault
<1>6. ASSUME NEW x \in Tasks, MarkPending(x) PROVE ActiveKept'
  <2>1. about[x] \in Ids /\ TaskOf[about[x]] = x
    BY <1>6, AboutFacts DEF MarkPending
  <2> QED
    BY <1>0, <2>1, <1>6 DEF IInv, ActiveKept, TasksKept, LifeTypeOK, Points,
       TaskStates, MarkPending, SetTask, Fault
<1>7. ASSUME NEW x \in Tasks, NEW e \in Entries, Park(x, e) PROVE ActiveKept'
  <2>1. about[x] \in Ids /\ TaskOf[about[x]] = x
    BY <1>7, AboutFacts DEF Park
  <2>2. /\ closing = "open" /\ UNCHANGED <<owned, owner>> /\ e # None
        /\ entries' = [entries EXCEPT ![about[x]] = e]
    BY <1>7, RegistryAssumption DEF Park, Register, Registrable, ownerVars
  <2> QED
    BY <1>0, <2>1, <2>2, <1>7 DEF IInv, RegIInv, RegTypeOK, ActiveKept, TasksKept,
       LifeTypeOK, Points, TaskStates, Park
<1>8. ASSUME NEW x \in Tasks, ParkFails(x) PROVE ActiveKept'
  <2>1. about[x] \in Ids /\ TaskOf[about[x]] = x
    BY <1>8, AboutFacts DEF ParkFails
  <2> QED
    BY <1>0, <2>1, <1>8 DEF IInv, ActiveKept, TasksKept, LifeTypeOK, Points,
       TaskStates, ParkFails, Fault, FailPending, UpdatePending, SetTask
<1>9. ASSUME NEW x \in Tasks, LeaveJob(x) PROVE ActiveKept'
  BY <1>9, <1>0, LifecycleAssumption DEF IInv, ActiveKept, TasksKept, LifeTypeOK,
     Points, TaskStates, LeaveJob, FinalizeAccepted, SetTask
<1>10. ASSUME NEW id \in Ids, NEW approve \in BOOLEAN, NEW o \in Owners, Decide(id, approve, o)
       PROVE  ActiveKept'
  <2>1. /\ at[o] = "none" /\ entries[id] # None /\ closing = "open"
        /\ IdOf(o)' = id /\ JobOf(o)' = TaskOf[id] /\ entries' = [entries EXCEPT ![id] = None]
    BY <1>10, DecideEffect
  <2> QED
    BY <1>0, <2>1, <1>10 DEF IInv, RegIInv, RegTypeOK, ActiveKept, TasksKept,
       LifeTypeOK, Points, TaskStates, Decide, Goto
<1>11. ASSUME NEW t \in Timers, NEW o \in Owners, ExpireHandle(t, o) PROVE ActiveKept'
  <2>1. PICK id \in Ids : /\ at[o] = "none" /\ entries[id] # None /\ closing = "open"
        /\ IdOf(o)' = id /\ JobOf(o)' = TaskOf[id] /\ entries' = [entries EXCEPT ![id] = None]
    BY <1>11, ExpireEffect
  <2> QED
    BY <1>0, <2>1, <1>11 DEF IInv, RegIInv, RegTypeOK, ActiveKept, TasksKept,
       LifeTypeOK, Points, TaskStates, ExpireHandle, Goto
<1>12. ASSUME NEW o \in Owners, ReadRecord(o) PROVE ActiveKept'
  <2>1. at[o] # "none"
    BY <1>12 DEF ReadRecord
  <2>2. IdOf(o) \in Ids /\ JobOf(o) \in Tasks /\ JobOf(o) = TaskOf[IdOf(o)]
    BY <2>1, ClaimFacts
  <2> QED
    BY <1>0, <2>2, <1>12 DEF IInv, ActiveKept, TasksKept, LifeTypeOK, Points,
       TaskStates, ReadRecord, Fault, Goto
<1>13. ASSUME NEW o \in Owners, Resolve(o) PROVE ActiveKept'
  <2>1. at[o] # "none"
    BY <1>13 DEF Resolve
  <2>2. IdOf(o) \in Ids /\ JobOf(o) \in Tasks /\ JobOf(o) = TaskOf[IdOf(o)]
    BY <2>1, ClaimFacts
  <2> QED
    BY <1>0, <2>2, <1>13 DEF IInv, ActiveKept, TasksKept, LifeTypeOK, Points,
       TaskStates, Resolve, Fault, Goto
<1>14. ASSUME NEW o \in Owners, Reread(o) PROVE ActiveKept'
  <2>1. at[o] # "none"
    BY <1>14 DEF Reread
  <2>2. IdOf(o) \in Ids /\ JobOf(o) \in Tasks /\ JobOf(o) = TaskOf[IdOf(o)]
    BY <2>1, ClaimFacts
  <2> QED
    BY <1>0, <2>2, <1>14 DEF IInv, ActiveKept, TasksKept, LifeTypeOK, Points,
       TaskStates, Reread, Fault, Goto
<1>15. ASSUME NEW o \in Owners, CancelExpired(o) PROVE ActiveKept'
  <2>1. at[o] # "none"
    BY <1>15 DEF CancelExpired
  <2>2. IdOf(o) \in Ids /\ JobOf(o) \in Tasks /\ JobOf(o) = TaskOf[IdOf(o)]
    BY <2>1, ClaimFacts
  <2> QED
    BY <1>0, <2>2, <1>15 DEF IInv, ActiveKept, TasksKept, LifeTypeOK, Points,
       TaskStates, CancelExpired, Expiring, UpdatePending, SetTask, Done, Goto,
       Fault
<1>16. ASSUME NEW o \in Owners, FailExpired(o) PROVE ActiveKept'
  <2>1. at[o] # "none"
    BY <1>16 DEF FailExpired
  <2>2. IdOf(o) \in Ids /\ JobOf(o) \in Tasks /\ JobOf(o) = TaskOf[IdOf(o)]
    BY <2>1, ClaimFacts
  <2> QED
    BY <1>0, <2>2, <1>16 DEF IInv, ActiveKept, TasksKept, LifeTypeOK, Points,
       TaskStates, FailExpired, Expiring, FailPending, UpdatePending, SetTask, Done,
       GiveUp, Goto, Fault
<1>17. ASSUME NEW o \in Owners, ExpiryUnsure(o) PROVE ActiveKept'
  <2>1. at[o] # "none"
    BY <1>17 DEF ExpiryUnsure
  <2>2. IdOf(o) \in Ids /\ JobOf(o) \in Tasks /\ JobOf(o) = TaskOf[IdOf(o)]
    BY <2>1, ClaimFacts
  <2> QED
    BY <1>0, <2>2, <1>17 DEF IInv, ActiveKept, TasksKept, LifeTypeOK, Points,
       TaskStates, ExpiryUnsure, Expiring, GiveUp, Goto
<1>18. ASSUME NEW o \in Owners, RetryExpiry(o) PROVE ActiveKept'
  <2>1. RestoreClaim(o, TRUE) /\ at[o] # "none"
    BY <1>18 DEF RetryExpiry
  <2>2. IdOf(o) \in Ids /\ JobOf(o) = TaskOf[IdOf(o)]
    BY <2>1, ClaimFacts
  <2>3. /\ owned[o] # None /\ closing = "open" /\ UNCHANGED home
        /\ entries' = [entries EXCEPT ![IdOf(o)] = owned[o]]
    BY <2>1, RestoreEffect
  <2> QED
    BY <1>0, <2>2, <2>3, <1>18 DEF IInv, RegIInv, RegTypeOK, ActiveKept, TasksKept,
       LifeTypeOK, Points, TaskStates, RetryExpiry, Goto
<1>19. ASSUME NEW o \in Owners, RetryRefused(o) PROVE ActiveKept'
  <2>1. at[o] # "none"
    BY <1>19 DEF RetryRefused
  <2>2. IdOf(o) \in Ids /\ JobOf(o) \in Tasks /\ JobOf(o) = TaskOf[IdOf(o)]
    BY <2>1, ClaimFacts
  <2> QED
    BY <1>0, <2>2, <1>19 DEF IInv, ActiveKept, TasksKept, LifeTypeOK, Points,
       TaskStates, RetryRefused, RestoreRefused, CompleteClaim, Goto
<1>20. ASSUME NEW o \in Owners, FinalizeOrphan(o) PROVE ActiveKept'
  <2>1. at[o] # "none"
    BY <1>20 DEF FinalizeOrphan
  <2>2. IdOf(o) \in Ids /\ JobOf(o) \in Tasks /\ JobOf(o) = TaskOf[IdOf(o)]
    BY <2>1, ClaimFacts
  <2> QED
    BY <1>0, <2>2, <1>20 DEF IInv, ActiveKept, TasksKept, LifeTypeOK, Points,
       TaskStates, FinalizeOrphan, FailPending, UpdatePending, SetTask, Fault, Goto
<1>21. ASSUME NEW o \in Owners, Settle(o) PROVE ActiveKept'
  <2>1. at[o] # "none"
    BY <1>21 DEF Settle
  <2>2. IdOf(o) \in Ids /\ JobOf(o) \in Tasks /\ JobOf(o) = TaskOf[IdOf(o)]
    BY <2>1, ClaimFacts
  <2> QED
    BY <1>0, <2>2, <1>21 DEF IInv, ActiveKept, TasksKept, LifeTypeOK, Points,
       TaskStates, Settle, Goto
<1>22. ASSUME NEW o \in Owners, GiveBack(o) PROVE ActiveKept'
  <2>1. at[o] # "none"
    BY <1>22 DEF GiveBack
  <2>2. IdOf(o) \in Ids /\ JobOf(o) = TaskOf[IdOf(o)]
    BY <2>1, ClaimFacts
  <2>3. CASE RestoreClaim(o, TRUE) /\ Goto(o, "end")
    <3>1. /\ owned[o] # None /\ closing = "open" /\ UNCHANGED home
          /\ entries' = [entries EXCEPT ![IdOf(o)] = owned[o]]
      BY <2>1, <2>3, RestoreEffect
    <3> QED
      BY <1>0, <2>2, <2>3, <3>1, <1>22 DEF IInv, RegIInv, RegTypeOK, ActiveKept,
         TasksKept, LifeTypeOK, Points, TaskStates, GiveBack, Goto
  <2>4. CASE RestoreRefused(o) /\ Goto(o, "fail")
    BY <1>0, <2>2, <2>4, <1>22 DEF IInv, ActiveKept, TasksKept, LifeTypeOK, Points,
       TaskStates, GiveBack, RestoreRefused, CompleteClaim, Goto
  <2> QED
    BY <1>22, <2>3, <2>4 DEF GiveBack
<1>23. ASSUME NEW o \in Owners, FailClaimed(o) PROVE ActiveKept'
  <2>1. at[o] # "none"
    BY <1>23 DEF FailClaimed
  <2>2. IdOf(o) \in Ids /\ JobOf(o) \in Tasks /\ JobOf(o) = TaskOf[IdOf(o)]
    BY <2>1, ClaimFacts
  <2> QED
    BY <1>0, <2>2, <1>23 DEF IInv, ActiveKept, TasksKept, LifeTypeOK, Points,
       TaskStates, FailClaimed, FailPending, UpdatePending, SetTask, Fault, Goto
<1>24. ASSUME NEW o \in Owners, CancelClaimed(o) PROVE ActiveKept'
  <2>1. at[o] # "none"
    BY <1>24 DEF CancelClaimed
  <2>2. IdOf(o) \in Ids /\ JobOf(o) \in Tasks /\ JobOf(o) = TaskOf[IdOf(o)]
    BY <2>1, ClaimFacts
  <2> QED
    BY <1>0, <2>2, <1>24 DEF IInv, ActiveKept, TasksKept, LifeTypeOK, Points,
       TaskStates, CancelClaimed, SetTask, Fault, Goto
<1>25. ASSUME NEW o \in Owners, Requeue(o) PROVE ActiveKept'
  <2>1. at[o] # "none"
    BY <1>25 DEF Requeue
  <2>2. IdOf(o) \in Ids /\ JobOf(o) \in Tasks /\ JobOf(o) = TaskOf[IdOf(o)]
    BY <2>1, ClaimFacts
  <2> QED
    BY <1>0, <2>2, <1>25 DEF IInv, ActiveKept, TasksKept, LifeTypeOK, Points,
       TaskStates, Requeue, SetTask, Fault, Goto
<1>26. ASSUME NEW o \in Owners, Enqueue(o) PROVE ActiveKept'
  <2>1. at[o] # "none"
    BY <1>26 DEF Enqueue
  <2>2. IdOf(o) \in Ids /\ JobOf(o) \in Tasks /\ JobOf(o) = TaskOf[IdOf(o)]
    BY <2>1, ClaimFacts
  <2> QED
    BY <1>0, <2>2, <1>26 DEF IInv, ActiveKept, TasksKept, LifeTypeOK, Points,
       TaskStates, Enqueue, SetTask, Fault, Goto
<1>27. ASSUME NEW o \in Owners, Complete(o) PROVE ActiveKept'
  <2>1. at[o] # "none"
    BY <1>27 DEF Complete
  <2>2. IdOf(o) \in Ids /\ JobOf(o) \in Tasks /\ JobOf(o) = TaskOf[IdOf(o)]
    BY <2>1, ClaimFacts
  <2> QED
    BY <1>0, <2>2, <1>27 DEF IInv, ActiveKept, TasksKept, LifeTypeOK, Points,
       TaskStates, Complete, CompleteClaim, Goto
<1>28. ASSUME NEW o \in Owners, ReleaseLease(o) PROVE ActiveKept'
  <2>1. at[o] # "none"
    BY <1>28 DEF ReleaseLease
  <2>2. IdOf(o) \in Ids /\ JobOf(o) \in Tasks /\ JobOf(o) = TaskOf[IdOf(o)]
    BY <2>1, ClaimFacts
  <2> QED
    BY <1>0, <2>2, <1>28 DEF IInv, ActiveKept, TasksKept, LifeTypeOK, Points,
       TaskStates, ReleaseLease, Goto
<1>29. ASSUME NEW id \in Ids, NEW approve \in BOOLEAN, DecideMissing(id, approve)
       PROVE  ActiveKept'
  BY <1>29, <1>0, LifecycleAssumption DEF IInv, ActiveKept, TasksKept, LifeTypeOK,
     Points, TaskStates, DecideMissing
<1>30. ASSUME NEW id \in Ids, NEW approve \in BOOLEAN, UpdateMissing(id, approve)
       PROVE  ActiveKept'
  BY <1>30, <1>0, LifecycleAssumption DEF IInv, ActiveKept, TasksKept, LifeTypeOK,
     Points, TaskStates, UpdateMissing, SetTask, Fault
<1>31. ASSUME NEW id \in Ids, PassDeadline(id) PROVE ActiveKept'
  BY <1>31, <1>0, LifecycleAssumption DEF IInv, ActiveKept, TasksKept, LifeTypeOK,
     Points, TaskStates, PassDeadline
<1>32. ASSUME NEW t \in Timers, FireTimer(t) PROVE ActiveKept'
  BY <1>32, <1>0, LifecycleAssumption DEF IInv, ActiveKept, TasksKept, LifeTypeOK,
     Points, TaskStates, FireTimer, Fire
<1>33. ASSUME NEW o \in Owners, Unlock(o) PROVE ActiveKept'
  BY <1>33, <1>0, LifecycleAssumption DEF IInv, ActiveKept, TasksKept, LifeTypeOK,
     Points, TaskStates, Unlock, OwnerDone
<1>34. ASSUME NEW o \in Owners, LeaveCallback(o) PROVE ActiveKept'
  BY <1>34, <1>0, LifecycleAssumption DEF IInv, ActiveKept, TasksKept, LifeTypeOK,
     Points, TaskStates, LeaveCallback, CallbackDone
<1>35. ASSUME NEW t \in Timers, Stale(t) PROVE ActiveKept'
  BY <1>35, <1>0, LifecycleAssumption DEF IInv, ActiveKept, TasksKept, LifeTypeOK,
     Points, TaskStates, Stale, ExpireStale
<1>36. ASSUME StopWorkers PROVE ActiveKept'
  BY <1>36, <1>0, LifecycleAssumption DEF IInv, ActiveKept, TasksKept, LifeTypeOK,
     Points, TaskStates, StopWorkers
<1>37. ASSUME RunnerClosed PROVE ActiveKept'
  BY <1>37, <1>0, LifecycleAssumption DEF IInv, ActiveKept, TasksKept, LifeTypeOK,
     Points, TaskStates, RunnerClosed
<1>38. ASSUME CloseRegistry PROVE ActiveKept'
  BY <1>38, <1>0, LifecycleAssumption DEF IInv, ActiveKept, TasksKept, LifeTypeOK,
     Points, TaskStates, CloseRegistry, CloseStart
<1>39. ASSUME WaitRegistry PROVE ActiveKept'
  BY <1>39, <1>0, LifecycleAssumption DEF IInv, ActiveKept, TasksKept, LifeTypeOK,
     Points, TaskStates, WaitRegistry, CloseOwners, CloseReturn
<1>40. ASSUME NEW e \in Entries, ResolveHandle(e) PROVE ActiveKept'
  BY <1>40, <1>0, LifecycleAssumption DEF IInv, ActiveKept, TasksKept, LifeTypeOK,
     Points, TaskStates, ResolveHandle, Fault
<1>41. ASSUME NEW e \in Entries, FinalizeHandle(e) PROVE ActiveKept'
  BY <1>41, <1>0, LifecycleAssumption DEF IInv, ActiveKept, TasksKept, LifeTypeOK,
     Points, TaskStates, FinalizeHandle, FailPending, UpdatePending, SetTask, Fault
<1>42. ASSUME Down PROVE ActiveKept'
  BY <1>42, <1>0, LifecycleAssumption DEF IInv, ActiveKept, TasksKept, LifeTypeOK,
     Points, TaskStates, Down
<1>43. CASE UNCHANGED vars
  BY <1>43, <1>0, LifecycleAssumption DEF IInv, ActiveKept, TasksKept, LifeTypeOK,
     Points, TaskStates, vars
<1> QED
  BY <1>1, <1>2, <1>3, <1>4, <1>5, <1>6, <1>7, <1>8, <1>9, <1>10, <1>11, <1>12,
     <1>13, <1>14, <1>15, <1>16, <1>17, <1>18, <1>19, <1>20, <1>21, <1>22, <1>23,
     <1>24, <1>25, <1>26, <1>27, <1>28, <1>29, <1>30, <1>31, <1>32, <1>33, <1>34,
     <1>35, <1>36, <1>37, <1>38, <1>39, <1>40, <1>41, <1>42, <1>43 DEF Next,
     WorkStep, ClaimStep, Arrive, UpdateMissed, CloseStep, Finished

\* Every step keeps who settles a task that waits.
LEMMA PendingStep == IInv /\ PendingKept /\ [Next]_vars => PendingKept'
<1> SUFFICES ASSUME IInv, PendingKept, [Next]_vars PROVE PendingKept'
  OBVIOUS
<1> USE DEF lifeVars, claimRest, recVars, taskVars, workVars, claimVars, missVars,
   regVars, timerVars, ownerVars
<1>0. \A w \in Owners : at[w] # "none" => IdOf(w)' = IdOf(w) /\ JobOf(w)' = JobOf(w)
  BY IdKept
<1>1. ASSUME NEW x \in Tasks, StartJob(x) PROVE PendingKept'
  BY <1>1, <1>0, LifecycleAssumption DEF IInv, PendingKept, TasksKept, Settling,
     LifeTypeOK, Points, Links, Closedown, StartJob, SetTask, FinalizeAccepted,
     Fault
<1>2. ASSUME NEW x \in Tasks, FinishRun(x) PROVE PendingKept'
  BY <1>2, <1>0, LifecycleAssumption DEF IInv, PendingKept, TasksKept, Settling,
     LifeTypeOK, Points, Links, Closedown, FinishRun, SetTask, Fault
<1>3. ASSUME NEW x \in Tasks, NEW id \in Ids, PauseRun(x, id) PROVE PendingKept'
  BY <1>3, <1>0, LifecycleAssumption DEF IInv, PendingKept, TasksKept, Settling,
     LifeTypeOK, Points, Links, Closedown, PauseRun
<1>4. ASSUME NEW x \in Tasks, CheckResume(x) PROVE PendingKept'
  <2>1. about[x] \in Ids /\ TaskOf[about[x]] = x
    BY <1>4, AboutFacts DEF CheckResume
  <2> QED
    BY <1>0, <2>1, <1>4 DEF IInv, PendingKept, TasksKept, Settling, LifeTypeOK,
       Points, Links, Closedown, CheckResume, SetTask
<1>5. ASSUME NEW x \in Tasks, Consume(x) PROVE PendingKept'
  <2>1. about[x] \in Ids /\ TaskOf[about[x]] = x
    BY <1>5, AboutFacts DEF Consume
  <2> QED
    BY <1>0, <2>1, <1>5 DEF IInv, PendingKept, TasksKept, Settling, LifeTypeOK,
       Points, Links, Closedown, Consume, Consumable, SetTask, Fault
<1>6. ASSUME NEW x \in Tasks, MarkPending(x) PROVE PendingKept'
  <2>1. about[x] \in Ids /\ TaskOf[about[x]] = x
    BY <1>6, AboutFacts DEF MarkPending
  <2> QED
    BY <1>0, <2>1, <1>6 DEF IInv, PendingKept, TasksKept, Settling, LifeTypeOK,
       Points, Links, Closedown, MarkPending, SetTask, Fault
<1>7. ASSUME NEW x \in Tasks, NEW e \in Entries, Park(x, e) PROVE PendingKept'
  <2>1. about[x] \in Ids /\ TaskOf[about[x]] = x
    BY <1>7, AboutFacts DEF Park
  <2>2. /\ closing = "open" /\ UNCHANGED <<owned, owner>> /\ e # None
        /\ entries' = [entries EXCEPT ![about[x]] = e]
    BY <1>7, RegistryAssumption DEF Park, Register, Registrable, ownerVars
  <2> QED
    BY <1>0, <2>1, <2>2, <1>7 DEF IInv, RegIInv, RegTypeOK, PendingKept, TasksKept,
       Settling, LifeTypeOK, Points, Links, Closedown, Park
<1>8. ASSUME NEW x \in Tasks, ParkFails(x) PROVE PendingKept'
  <2>1. about[x] \in Ids /\ TaskOf[about[x]] = x
    BY <1>8, AboutFacts DEF ParkFails
  <2> QED
    BY <1>0, <2>1, <1>8 DEF IInv, PendingKept, TasksKept, Settling, LifeTypeOK,
       Points, Links, Closedown, ParkFails, Fault, FailPending, UpdatePending,
       SetTask
<1>9. ASSUME NEW x \in Tasks, LeaveJob(x) PROVE PendingKept'
  BY <1>9, <1>0, LifecycleAssumption DEF IInv, PendingKept, TasksKept, Settling,
     LifeTypeOK, Points, Links, Closedown, LeaveJob, FinalizeAccepted, SetTask
<1>10. ASSUME NEW id \in Ids, NEW approve \in BOOLEAN, NEW o \in Owners, Decide(id, approve, o)
       PROVE  PendingKept'
  <2>1. /\ at[o] = "none" /\ entries[id] # None /\ closing = "open"
        /\ IdOf(o)' = id /\ JobOf(o)' = TaskOf[id] /\ entries' = [entries EXCEPT ![id] = None]
    BY <1>10, DecideEffect
  <2> QED
    BY <1>0, <2>1, <1>10 DEF IInv, RegIInv, RegTypeOK, PendingKept, TasksKept,
       Settling, LifeTypeOK, Points, Links, Closedown, Decide, Goto
<1>11. ASSUME NEW t \in Timers, NEW o \in Owners, ExpireHandle(t, o) PROVE PendingKept'
  <2>1. PICK id \in Ids : /\ at[o] = "none" /\ entries[id] # None /\ closing = "open"
        /\ IdOf(o)' = id /\ JobOf(o)' = TaskOf[id] /\ entries' = [entries EXCEPT ![id] = None]
    BY <1>11, ExpireEffect
  <2> QED
    BY <1>0, <2>1, <1>11 DEF IInv, RegIInv, RegTypeOK, PendingKept, TasksKept,
       Settling, LifeTypeOK, Points, Links, Closedown, ExpireHandle, Goto
<1>12. ASSUME NEW o \in Owners, ReadRecord(o) PROVE PendingKept'
  <2>1. at[o] # "none"
    BY <1>12 DEF ReadRecord
  <2>2. IdOf(o) \in Ids /\ JobOf(o) \in Tasks /\ JobOf(o) = TaskOf[IdOf(o)]
    BY <2>1, ClaimFacts
  <2> QED
    BY <1>0, <2>2, <1>12 DEF IInv, PendingKept, TasksKept, Settling, LifeTypeOK,
       Points, Links, Closedown, ReadRecord, Fault, Goto
<1>13. ASSUME NEW o \in Owners, Resolve(o) PROVE PendingKept'
  <2>1. at[o] # "none"
    BY <1>13 DEF Resolve
  <2>2. IdOf(o) \in Ids /\ JobOf(o) \in Tasks /\ JobOf(o) = TaskOf[IdOf(o)]
    BY <2>1, ClaimFacts
  <2> QED
    BY <1>0, <2>2, <1>13 DEF IInv, PendingKept, TasksKept, Settling, LifeTypeOK,
       Points, Links, Closedown, Resolve, Fault, Goto
<1>14. ASSUME NEW o \in Owners, Reread(o) PROVE PendingKept'
  <2>1. at[o] # "none"
    BY <1>14 DEF Reread
  <2>2. IdOf(o) \in Ids /\ JobOf(o) \in Tasks /\ JobOf(o) = TaskOf[IdOf(o)]
    BY <2>1, ClaimFacts
  <2> QED
    BY <1>0, <2>2, <1>14 DEF IInv, PendingKept, TasksKept, Settling, LifeTypeOK,
       Points, Links, Closedown, Reread, Fault, Goto
<1>15. ASSUME NEW o \in Owners, CancelExpired(o) PROVE PendingKept'
  <2>1. at[o] # "none"
    BY <1>15 DEF CancelExpired
  <2>2. IdOf(o) \in Ids /\ JobOf(o) \in Tasks /\ JobOf(o) = TaskOf[IdOf(o)]
    BY <2>1, ClaimFacts
  <2> QED
    BY <1>0, <2>2, <1>15 DEF IInv, PendingKept, TasksKept, Settling, LifeTypeOK,
       Points, Links, Closedown, CancelExpired, Expiring, UpdatePending, SetTask,
       Done, Goto, Fault
<1>16. ASSUME NEW o \in Owners, FailExpired(o) PROVE PendingKept'
  <2>1. at[o] # "none"
    BY <1>16 DEF FailExpired
  <2>2. IdOf(o) \in Ids /\ JobOf(o) \in Tasks /\ JobOf(o) = TaskOf[IdOf(o)]
    BY <2>1, ClaimFacts
  <2> QED
    BY <1>0, <2>2, <1>16 DEF IInv, PendingKept, TasksKept, Settling, LifeTypeOK,
       Points, Links, Closedown, FailExpired, Expiring, FailPending, UpdatePending,
       SetTask, Done, GiveUp, Goto, Fault
<1>17. ASSUME NEW o \in Owners, ExpiryUnsure(o) PROVE PendingKept'
  <2>1. at[o] # "none"
    BY <1>17 DEF ExpiryUnsure
  <2>2. IdOf(o) \in Ids /\ JobOf(o) \in Tasks /\ JobOf(o) = TaskOf[IdOf(o)]
    BY <2>1, ClaimFacts
  <2> QED
    BY <1>0, <2>2, <1>17 DEF IInv, PendingKept, TasksKept, Settling, LifeTypeOK,
       Points, Links, Closedown, ExpiryUnsure, Expiring, GiveUp, Goto
<1>18. ASSUME NEW o \in Owners, RetryExpiry(o) PROVE PendingKept'
  <2>1. RestoreClaim(o, TRUE) /\ at[o] # "none"
    BY <1>18 DEF RetryExpiry
  <2>2. IdOf(o) \in Ids /\ JobOf(o) = TaskOf[IdOf(o)]
    BY <2>1, ClaimFacts
  <2>3. /\ owned[o] # None /\ closing = "open" /\ UNCHANGED home
        /\ entries' = [entries EXCEPT ![IdOf(o)] = owned[o]]
    BY <2>1, RestoreEffect
  <2> QED
    BY <1>0, <2>2, <2>3, <1>18 DEF IInv, RegIInv, RegTypeOK, PendingKept, TasksKept,
       Settling, LifeTypeOK, Points, Links, Closedown, RetryExpiry, Goto
<1>19. ASSUME NEW o \in Owners, RetryRefused(o) PROVE PendingKept'
  <2>1. at[o] # "none"
    BY <1>19 DEF RetryRefused
  <2>2. IdOf(o) \in Ids /\ JobOf(o) \in Tasks /\ JobOf(o) = TaskOf[IdOf(o)]
    BY <2>1, ClaimFacts
  <2> QED
    BY <1>0, <2>2, <1>19 DEF IInv, PendingKept, TasksKept, Settling, LifeTypeOK,
       Points, Links, Closedown, RetryRefused, RestoreRefused, CompleteClaim, Goto
<1>20. ASSUME NEW o \in Owners, FinalizeOrphan(o) PROVE PendingKept'
  <2>1. at[o] # "none"
    BY <1>20 DEF FinalizeOrphan
  <2>2. IdOf(o) \in Ids /\ JobOf(o) \in Tasks /\ JobOf(o) = TaskOf[IdOf(o)]
    BY <2>1, ClaimFacts
  <2> QED
    BY <1>0, <2>2, <1>20 DEF IInv, PendingKept, TasksKept, Settling, LifeTypeOK,
       Points, Links, Closedown, FinalizeOrphan, FailPending, UpdatePending,
       SetTask, Fault, Goto
<1>21. ASSUME NEW o \in Owners, Settle(o) PROVE PendingKept'
  <2>1. at[o] # "none"
    BY <1>21 DEF Settle
  <2>2. IdOf(o) \in Ids /\ JobOf(o) \in Tasks /\ JobOf(o) = TaskOf[IdOf(o)]
    BY <2>1, ClaimFacts
  <2> QED
    BY <1>0, <2>2, <1>21 DEF IInv, PendingKept, TasksKept, Settling, LifeTypeOK,
       Points, Links, Closedown, Settle, Goto
<1>22. ASSUME NEW o \in Owners, GiveBack(o) PROVE PendingKept'
  <2>1. at[o] # "none"
    BY <1>22 DEF GiveBack
  <2>2. IdOf(o) \in Ids /\ JobOf(o) = TaskOf[IdOf(o)]
    BY <2>1, ClaimFacts
  <2>3. CASE RestoreClaim(o, TRUE) /\ Goto(o, "end")
    <3>1. /\ owned[o] # None /\ closing = "open" /\ UNCHANGED home
          /\ entries' = [entries EXCEPT ![IdOf(o)] = owned[o]]
      BY <2>1, <2>3, RestoreEffect
    <3> QED
      BY <1>0, <2>2, <2>3, <3>1, <1>22 DEF IInv, RegIInv, RegTypeOK, PendingKept,
         TasksKept, Settling, LifeTypeOK, Points, Links, Closedown, GiveBack, Goto
  <2>4. CASE RestoreRefused(o) /\ Goto(o, "fail")
    BY <1>0, <2>2, <2>4, <1>22 DEF IInv, PendingKept, TasksKept, Settling,
       LifeTypeOK, Points, Links, Closedown, GiveBack, RestoreRefused,
       CompleteClaim, Goto
  <2> QED
    BY <1>22, <2>3, <2>4 DEF GiveBack
<1>23. ASSUME NEW o \in Owners, FailClaimed(o) PROVE PendingKept'
  <2>1. at[o] # "none"
    BY <1>23 DEF FailClaimed
  <2>2. IdOf(o) \in Ids /\ JobOf(o) \in Tasks /\ JobOf(o) = TaskOf[IdOf(o)]
    BY <2>1, ClaimFacts
  <2> QED
    BY <1>0, <2>2, <1>23 DEF IInv, PendingKept, TasksKept, Settling, LifeTypeOK,
       Points, Links, Closedown, FailClaimed, FailPending, UpdatePending, SetTask,
       Fault, Goto
<1>24. ASSUME NEW o \in Owners, CancelClaimed(o) PROVE PendingKept'
  <2>1. at[o] # "none"
    BY <1>24 DEF CancelClaimed
  <2>2. IdOf(o) \in Ids /\ JobOf(o) \in Tasks /\ JobOf(o) = TaskOf[IdOf(o)]
    BY <2>1, ClaimFacts
  <2> QED
    BY <1>0, <2>2, <1>24 DEF IInv, PendingKept, TasksKept, Settling, LifeTypeOK,
       Points, Links, Closedown, CancelClaimed, SetTask, Fault, Goto
<1>25. ASSUME NEW o \in Owners, Requeue(o) PROVE PendingKept'
  <2>1. at[o] # "none"
    BY <1>25 DEF Requeue
  <2>2. IdOf(o) \in Ids /\ JobOf(o) \in Tasks /\ JobOf(o) = TaskOf[IdOf(o)]
    BY <2>1, ClaimFacts
  <2> QED
    BY <1>0, <2>2, <1>25 DEF IInv, PendingKept, TasksKept, Settling, LifeTypeOK,
       Points, Links, Closedown, Requeue, SetTask, Fault, Goto
<1>26. ASSUME NEW o \in Owners, Enqueue(o) PROVE PendingKept'
  <2>1. Holds(o) /\ ~Settling(o) /\ \A w \in Owners : w # o => at'[w] = at[w]
    BY <1>26 DEF IInv, LifeTypeOK, Enqueue, Goto, Holds, Settling
  <2>2. JobOf(o) \in Tasks /\ work[JobOf(o)] \in {"idle", "leaving"}
    BY <2>1, HolderFacts
  <2>3. \A w \in Owners : Settling(w) => Settling(w)' /\ IdOf(w)' = IdOf(w)
    BY <1>0, <2>1 DEF Settling
  <2>4. /\ UNCHANGED <<work, entries, home, hands>>
        /\ \A y \in Tasks : y # JobOf(o) => about'[y] = about[y]
        /\ TasksKept' => TasksKept
    BY <2>2, <1>26 DEF IInv, LifeTypeOK, Enqueue, Fault, TasksKept
  <2>5. \A y \in Tasks : task'[y] = "pending" => task[y] = "pending" /\ asked'[y] = asked[y]
    BY <2>2, <1>26 DEF IInv, LifeTypeOK, Enqueue, SetTask
  <2> QED
    BY <2>2, <2>3, <2>4, <2>5 DEF PendingKept
<1>27. ASSUME NEW o \in Owners, Complete(o) PROVE PendingKept'
  <2>1. at[o] # "none"
    BY <1>27 DEF Complete
  <2>2. IdOf(o) \in Ids /\ JobOf(o) \in Tasks /\ JobOf(o) = TaskOf[IdOf(o)]
    BY <2>1, ClaimFacts
  <2> QED
    BY <1>0, <2>2, <1>27 DEF IInv, PendingKept, TasksKept, Settling, LifeTypeOK,
       Points, Links, Closedown, Complete, CompleteClaim, Goto
<1>28. ASSUME NEW o \in Owners, ReleaseLease(o) PROVE PendingKept'
  <2>1. at[o] # "none"
    BY <1>28 DEF ReleaseLease
  <2>2. IdOf(o) \in Ids /\ JobOf(o) \in Tasks /\ JobOf(o) = TaskOf[IdOf(o)]
    BY <2>1, ClaimFacts
  <2> QED
    BY <1>0, <2>2, <1>28 DEF IInv, PendingKept, TasksKept, Settling, LifeTypeOK,
       Points, Links, Closedown, ReleaseLease, Goto
<1>29. ASSUME NEW id \in Ids, NEW approve \in BOOLEAN, DecideMissing(id, approve)
       PROVE  PendingKept'
  BY <1>29, <1>0, LifecycleAssumption DEF IInv, PendingKept, TasksKept, Settling,
     LifeTypeOK, Points, Links, Closedown, DecideMissing
<1>30. ASSUME NEW id \in Ids, NEW approve \in BOOLEAN, UpdateMissing(id, approve)
       PROVE  PendingKept'
  BY <1>30, <1>0, LifecycleAssumption DEF IInv, PendingKept, TasksKept, Settling,
     LifeTypeOK, Points, Links, Closedown, UpdateMissing, SetTask, Fault
<1>31. ASSUME NEW id \in Ids, PassDeadline(id) PROVE PendingKept'
  BY <1>31, <1>0, LifecycleAssumption DEF IInv, PendingKept, TasksKept, Settling,
     LifeTypeOK, Points, Links, Closedown, PassDeadline
<1>32. ASSUME NEW t \in Timers, FireTimer(t) PROVE PendingKept'
  BY <1>32, <1>0, LifecycleAssumption DEF IInv, PendingKept, TasksKept, Settling,
     LifeTypeOK, Points, Links, Closedown, FireTimer, Fire
<1>33. ASSUME NEW o \in Owners, Unlock(o) PROVE PendingKept'
  BY <1>33, <1>0, LifecycleAssumption DEF IInv, PendingKept, TasksKept, Settling,
     LifeTypeOK, Points, Links, Closedown, Unlock, OwnerDone
<1>34. ASSUME NEW o \in Owners, LeaveCallback(o) PROVE PendingKept'
  BY <1>34, <1>0, LifecycleAssumption DEF IInv, PendingKept, TasksKept, Settling,
     LifeTypeOK, Points, Links, Closedown, LeaveCallback, CallbackDone
<1>35. ASSUME NEW t \in Timers, Stale(t) PROVE PendingKept'
  BY <1>35, <1>0, LifecycleAssumption DEF IInv, PendingKept, TasksKept, Settling,
     LifeTypeOK, Points, Links, Closedown, Stale, ExpireStale
<1>36. ASSUME StopWorkers PROVE PendingKept'
  BY <1>36, <1>0, LifecycleAssumption DEF IInv, PendingKept, TasksKept, Settling,
     LifeTypeOK, Points, Links, Closedown, StopWorkers
<1>37. ASSUME RunnerClosed PROVE PendingKept'
  BY <1>37, <1>0, LifecycleAssumption DEF IInv, PendingKept, TasksKept, Settling,
     LifeTypeOK, Points, Links, Closedown, RunnerClosed
<1>38. ASSUME CloseRegistry PROVE PendingKept'
  <2>1. /\ \A i \in Ids : entries[i] # None =>
             home[entries[i]] = i /\ entries[i] \in Entries /\ hands'[entries[i]] = "resolve"
        /\ \A f \in Entries : hands[f] = "none"
        /\ UNCHANGED home
    BY <1>38, HandsTaken
  <2>2. UNCHANGED <<work, about, task, asked, at, faults>>
    BY <1>38 DEF CloseRegistry
  <2>3. \A w \in Owners : Settling(w) => Settling(w)' /\ IdOf(w)' = IdOf(w)
    BY <1>0, <2>2 DEF Settling
  <2> QED
    BY <2>1, <2>2, <2>3 DEF IInv, Links, PendingKept, TasksKept
<1>39. ASSUME WaitRegistry PROVE PendingKept'
  BY <1>39, <1>0, LifecycleAssumption DEF IInv, PendingKept, TasksKept, Settling,
     LifeTypeOK, Points, Links, Closedown, WaitRegistry, CloseOwners, CloseReturn
<1>40. ASSUME NEW e \in Entries, ResolveHandle(e) PROVE PendingKept'
  BY <1>40, <1>0, LifecycleAssumption DEF IInv, PendingKept, TasksKept, Settling,
     LifeTypeOK, Points, Links, Closedown, ResolveHandle, Fault
<1>41. ASSUME NEW e \in Entries, FinalizeHandle(e) PROVE PendingKept'
  BY <1>41, <1>0, LifecycleAssumption DEF IInv, PendingKept, TasksKept, Settling,
     LifeTypeOK, Points, Links, Closedown, FinalizeHandle, FailPending,
     UpdatePending, SetTask, Fault
<1>42. ASSUME Down PROVE PendingKept'
  BY <1>42, <1>0, LifecycleAssumption DEF IInv, PendingKept, TasksKept, Settling,
     LifeTypeOK, Points, Links, Closedown, Down
<1>43. CASE UNCHANGED vars
  BY <1>43, <1>0, LifecycleAssumption DEF IInv, PendingKept, TasksKept, Settling,
     LifeTypeOK, Points, Links, Closedown, vars
<1> QED
  BY <1>1, <1>2, <1>3, <1>4, <1>5, <1>6, <1>7, <1>8, <1>9, <1>10, <1>11, <1>12,
     <1>13, <1>14, <1>15, <1>16, <1>17, <1>18, <1>19, <1>20, <1>21, <1>22, <1>23,
     <1>24, <1>25, <1>26, <1>27, <1>28, <1>29, <1>30, <1>31, <1>32, <1>33, <1>34,
     <1>35, <1>36, <1>37, <1>38, <1>39, <1>40, <1>41, <1>42, <1>43 DEF Next,
     WorkStep, ClaimStep, Arrive, UpdateMissed, CloseStep, Finished

\* Every step keeps who resolves a record that is open.
LEMMA RecordStep == IInv /\ RecordKept /\ [Next]_vars => RecordKept'
<1> SUFFICES ASSUME IInv, RecordKept, [Next]_vars PROVE RecordKept'
  OBVIOUS
<1> USE DEF lifeVars, claimRest, recVars, taskVars, workVars, claimVars, missVars,
   regVars, timerVars, ownerVars
<1>0. \A w \in Owners : at[w] # "none" => IdOf(w)' = IdOf(w) /\ JobOf(w)' = JobOf(w)
  BY IdKept
<1>1. ASSUME NEW x \in Tasks, StartJob(x) PROVE RecordKept'
  BY <1>1, <1>0, LifecycleAssumption DEF IInv, RecordKept, LifeTypeOK, Points,
     Links, Closedown, StartJob, SetTask, FinalizeAccepted, Fault
<1>2. ASSUME NEW x \in Tasks, FinishRun(x) PROVE RecordKept'
  BY <1>2, <1>0, LifecycleAssumption DEF IInv, RecordKept, LifeTypeOK, Points,
     Links, Closedown, FinishRun, SetTask, Fault
<1>3. ASSUME NEW x \in Tasks, NEW id \in Ids, PauseRun(x, id) PROVE RecordKept'
  BY <1>3, <1>0, LifecycleAssumption DEF IInv, RecordKept, LifeTypeOK, Points,
     Links, Closedown, PauseRun
<1>4. ASSUME NEW x \in Tasks, CheckResume(x) PROVE RecordKept'
  <2>1. about[x] \in Ids /\ TaskOf[about[x]] = x
    BY <1>4, AboutFacts DEF CheckResume
  <2>2. /\ UNCHANGED <<record, about, entries, at, home, hands>>
        /\ \A y \in Tasks : y # x => work'[y] = work[y]
        /\ work[x] \notin {"paused", "parked"} \/ (faults' = 0 => work'[x] = "parked")
        /\ faults' = 0 => faults = 0
    BY <1>4 DEF IInv, LifeTypeOK, CheckResume, SetTask
  <2>3. \A w \in Owners : at[w] \in {"read", "resolve"} => at'[w] = at[w] /\ IdOf(w)' = IdOf(w)
    BY <1>0, <2>2
  <2> QED
    BY <2>2, <2>3, LifecycleAssumption DEF RecordKept
<1>5. ASSUME NEW x \in Tasks, Consume(x) PROVE RecordKept'
  <2>1. about[x] \in Ids /\ TaskOf[about[x]] = x
    BY <1>5, AboutFacts DEF Consume
  <2>2. /\ UNCHANGED <<record, about, entries, at, home, hands>>
        /\ \A y \in Tasks : y # x => work'[y] = work[y]
        /\ work[x] \notin {"paused", "parked"} \/ (faults' = 0 => work'[x] = "parked")
        /\ faults' = 0 => faults = 0
    BY <1>5 DEF IInv, LifeTypeOK, Consume, Consumable, SetTask, Fault
  <2>3. \A w \in Owners : at[w] \in {"read", "resolve"} => at'[w] = at[w] /\ IdOf(w)' = IdOf(w)
    BY <1>0, <2>2
  <2> QED
    BY <2>2, <2>3, LifecycleAssumption DEF RecordKept
<1>6. ASSUME NEW x \in Tasks, MarkPending(x) PROVE RecordKept'
  <2>1. about[x] \in Ids /\ TaskOf[about[x]] = x
    BY <1>6, AboutFacts DEF MarkPending
  <2>2. /\ UNCHANGED <<record, about, entries, at, home, hands>>
        /\ \A y \in Tasks : y # x => work'[y] = work[y]
        /\ work[x] \notin {"paused", "parked"} \/ (faults' = 0 => work'[x] = "parked")
        /\ faults' = 0 => faults = 0
    BY <1>6 DEF IInv, LifeTypeOK, MarkPending, SetTask, Fault
  <2>3. \A w \in Owners : at[w] \in {"read", "resolve"} => at'[w] = at[w] /\ IdOf(w)' = IdOf(w)
    BY <1>0, <2>2
  <2> QED
    BY <2>2, <2>3, LifecycleAssumption DEF RecordKept
<1>7. ASSUME NEW x \in Tasks, NEW e \in Entries, Park(x, e) PROVE RecordKept'
  <2>1. about[x] \in Ids /\ TaskOf[about[x]] = x
    BY <1>7, AboutFacts DEF Park
  <2>2. /\ closing = "open" /\ UNCHANGED <<owned, owner>> /\ e # None
        /\ entries' = [entries EXCEPT ![about[x]] = e]
    BY <1>7, RegistryAssumption DEF Park, Register, Registrable, ownerVars
  <2> QED
    BY <1>0, <2>1, <2>2, <1>7 DEF IInv, RegIInv, RegTypeOK, RecordKept, LifeTypeOK,
       Points, Links, Closedown, Park
<1>8. ASSUME NEW x \in Tasks, ParkFails(x) PROVE RecordKept'
  <2>1. about[x] \in Ids /\ TaskOf[about[x]] = x
    BY <1>8, AboutFacts DEF ParkFails
  <2> QED
    BY <1>0, <2>1, <1>8 DEF IInv, RecordKept, LifeTypeOK, Points, Links, Closedown,
       ParkFails, Fault, FailPending, UpdatePending, SetTask
<1>9. ASSUME NEW x \in Tasks, LeaveJob(x) PROVE RecordKept'
  BY <1>9, <1>0, LifecycleAssumption DEF IInv, RecordKept, LifeTypeOK, Points,
     Links, Closedown, LeaveJob, FinalizeAccepted, SetTask
<1>10. ASSUME NEW id \in Ids, NEW approve \in BOOLEAN, NEW o \in Owners, Decide(id, approve, o)
       PROVE  RecordKept'
  <2>1. /\ at[o] = "none" /\ entries[id] # None /\ closing = "open"
        /\ IdOf(o)' = id /\ JobOf(o)' = TaskOf[id] /\ entries' = [entries EXCEPT ![id] = None]
    BY <1>10, DecideEffect
  <2> QED
    BY <1>0, <2>1, <1>10 DEF IInv, RegIInv, RegTypeOK, RecordKept, LifeTypeOK,
       Points, Links, Closedown, Decide, Goto
<1>11. ASSUME NEW t \in Timers, NEW o \in Owners, ExpireHandle(t, o) PROVE RecordKept'
  <2>1. PICK id \in Ids : /\ at[o] = "none" /\ entries[id] # None /\ closing = "open"
        /\ IdOf(o)' = id /\ JobOf(o)' = TaskOf[id] /\ entries' = [entries EXCEPT ![id] = None]
    BY <1>11, ExpireEffect
  <2> QED
    BY <1>0, <2>1, <1>11 DEF IInv, RegIInv, RegTypeOK, RecordKept, LifeTypeOK,
       Points, Links, Closedown, ExpireHandle, Goto
<1>12. ASSUME NEW o \in Owners, ReadRecord(o) PROVE RecordKept'
  <2>1. at[o] # "none"
    BY <1>12 DEF ReadRecord
  <2>2. IdOf(o) \in Ids /\ JobOf(o) \in Tasks /\ JobOf(o) = TaskOf[IdOf(o)]
    BY <2>1, ClaimFacts
  <2> QED
    BY <1>0, <2>2, <1>12 DEF IInv, RecordKept, LifeTypeOK, Points, Links, Closedown,
       ReadRecord, Fault, Goto
<1>13. ASSUME NEW o \in Owners, Resolve(o) PROVE RecordKept'
  <2>1. at[o] = "resolve" /\ IdOf(o) \in Ids
    BY <1>13, ClaimFacts DEF Resolve
  <2>2. want[o] # "pending"
    BY <2>1 DEF IInv, Points, Resolutions
  <2>3. /\ UNCHANGED <<work, about, entries, home, hands>>
        /\ \A w \in Owners : w # o => at'[w] = at[w]
        /\ faults' = 0 => faults = 0
    BY <1>13 DEF IInv, LifeTypeOK, Resolve, Fault, Goto
  <2>4. faults' = 0 => \A i \in Ids : record'[i] = "pending" => record[i] = "pending" /\ i # IdOf(o)
    BY <2>1, <2>2, <1>13 DEF IInv, LifeTypeOK, Resolve, Fault
  <2>5. \A w \in Owners : w # o /\ at[w] \in {"read", "resolve"} => at'[w] = at[w] /\ IdOf(w)' = IdOf(w)
    BY <1>0, <2>3
  <2> QED
    BY <2>3, <2>4, <2>5 DEF RecordKept
<1>14. ASSUME NEW o \in Owners, Reread(o) PROVE RecordKept'
  <2>1. at[o] # "none"
    BY <1>14 DEF Reread
  <2>2. IdOf(o) \in Ids /\ JobOf(o) \in Tasks /\ JobOf(o) = TaskOf[IdOf(o)]
    BY <2>1, ClaimFacts
  <2> QED
    BY <1>0, <2>2, <1>14 DEF IInv, RecordKept, LifeTypeOK, Points, Links, Closedown,
       Reread, Fault, Goto
<1>15. ASSUME NEW o \in Owners, CancelExpired(o) PROVE RecordKept'
  <2>1. at[o] # "none"
    BY <1>15 DEF CancelExpired
  <2>2. IdOf(o) \in Ids /\ JobOf(o) \in Tasks /\ JobOf(o) = TaskOf[IdOf(o)]
    BY <2>1, ClaimFacts
  <2> QED
    BY <1>0, <2>2, <1>15 DEF IInv, RecordKept, LifeTypeOK, Points, Links, Closedown,
       CancelExpired, Expiring, UpdatePending, SetTask, Done, Goto, Fault
<1>16. ASSUME NEW o \in Owners, FailExpired(o) PROVE RecordKept'
  <2>1. at[o] # "none"
    BY <1>16 DEF FailExpired
  <2>2. IdOf(o) \in Ids /\ JobOf(o) \in Tasks /\ JobOf(o) = TaskOf[IdOf(o)]
    BY <2>1, ClaimFacts
  <2> QED
    BY <1>0, <2>2, <1>16 DEF IInv, RecordKept, LifeTypeOK, Points, Links, Closedown,
       FailExpired, Expiring, FailPending, UpdatePending, SetTask, Done, GiveUp,
       Goto, Fault
<1>17. ASSUME NEW o \in Owners, ExpiryUnsure(o) PROVE RecordKept'
  <2>1. at[o] # "none"
    BY <1>17 DEF ExpiryUnsure
  <2>2. IdOf(o) \in Ids /\ JobOf(o) \in Tasks /\ JobOf(o) = TaskOf[IdOf(o)]
    BY <2>1, ClaimFacts
  <2> QED
    BY <1>0, <2>2, <1>17 DEF IInv, RecordKept, LifeTypeOK, Points, Links, Closedown,
       ExpiryUnsure, Expiring, GiveUp, Goto
<1>18. ASSUME NEW o \in Owners, RetryExpiry(o) PROVE RecordKept'
  <2>1. RestoreClaim(o, TRUE) /\ at[o] # "none"
    BY <1>18 DEF RetryExpiry
  <2>2. IdOf(o) \in Ids /\ JobOf(o) = TaskOf[IdOf(o)]
    BY <2>1, ClaimFacts
  <2>3. /\ owned[o] # None /\ closing = "open" /\ UNCHANGED home
        /\ entries' = [entries EXCEPT ![IdOf(o)] = owned[o]]
    BY <2>1, RestoreEffect
  <2> QED
    BY <1>0, <2>2, <2>3, <1>18 DEF IInv, RegIInv, RegTypeOK, RecordKept, LifeTypeOK,
       Points, Links, Closedown, RetryExpiry, Goto
<1>19. ASSUME NEW o \in Owners, RetryRefused(o) PROVE RecordKept'
  <2>1. at[o] # "none"
    BY <1>19 DEF RetryRefused
  <2>2. IdOf(o) \in Ids /\ JobOf(o) \in Tasks /\ JobOf(o) = TaskOf[IdOf(o)]
    BY <2>1, ClaimFacts
  <2> QED
    BY <1>0, <2>2, <1>19 DEF IInv, RecordKept, LifeTypeOK, Points, Links, Closedown,
       RetryRefused, RestoreRefused, CompleteClaim, Goto
<1>20. ASSUME NEW o \in Owners, FinalizeOrphan(o) PROVE RecordKept'
  <2>1. at[o] # "none"
    BY <1>20 DEF FinalizeOrphan
  <2>2. IdOf(o) \in Ids /\ JobOf(o) \in Tasks /\ JobOf(o) = TaskOf[IdOf(o)]
    BY <2>1, ClaimFacts
  <2> QED
    BY <1>0, <2>2, <1>20 DEF IInv, RecordKept, LifeTypeOK, Points, Links, Closedown,
       FinalizeOrphan, FailPending, UpdatePending, SetTask, Fault, Goto
<1>21. ASSUME NEW o \in Owners, Settle(o) PROVE RecordKept'
  <2>1. at[o] # "none"
    BY <1>21 DEF Settle
  <2>2. IdOf(o) \in Ids /\ JobOf(o) \in Tasks /\ JobOf(o) = TaskOf[IdOf(o)]
    BY <2>1, ClaimFacts
  <2> QED
    BY <1>0, <2>2, <1>21 DEF IInv, RecordKept, LifeTypeOK, Points, Links, Closedown,
       Settle, Goto
<1>22. ASSUME NEW o \in Owners, GiveBack(o) PROVE RecordKept'
  <2>1. at[o] # "none"
    BY <1>22 DEF GiveBack
  <2>2. IdOf(o) \in Ids /\ JobOf(o) = TaskOf[IdOf(o)]
    BY <2>1, ClaimFacts
  <2>3. CASE RestoreClaim(o, TRUE) /\ Goto(o, "end")
    <3>1. /\ owned[o] # None /\ closing = "open" /\ UNCHANGED home
          /\ entries' = [entries EXCEPT ![IdOf(o)] = owned[o]]
      BY <2>1, <2>3, RestoreEffect
    <3> QED
      BY <1>0, <2>2, <2>3, <3>1, <1>22 DEF IInv, RegIInv, RegTypeOK, RecordKept,
         LifeTypeOK, Points, Links, Closedown, GiveBack, Goto
  <2>4. CASE RestoreRefused(o) /\ Goto(o, "fail")
    BY <1>0, <2>2, <2>4, <1>22 DEF IInv, RecordKept, LifeTypeOK, Points, Links,
       Closedown, GiveBack, RestoreRefused, CompleteClaim, Goto
  <2> QED
    BY <1>22, <2>3, <2>4 DEF GiveBack
<1>23. ASSUME NEW o \in Owners, FailClaimed(o) PROVE RecordKept'
  <2>1. at[o] # "none"
    BY <1>23 DEF FailClaimed
  <2>2. IdOf(o) \in Ids /\ JobOf(o) \in Tasks /\ JobOf(o) = TaskOf[IdOf(o)]
    BY <2>1, ClaimFacts
  <2> QED
    BY <1>0, <2>2, <1>23 DEF IInv, RecordKept, LifeTypeOK, Points, Links, Closedown,
       FailClaimed, FailPending, UpdatePending, SetTask, Fault, Goto
<1>24. ASSUME NEW o \in Owners, CancelClaimed(o) PROVE RecordKept'
  <2>1. at[o] # "none"
    BY <1>24 DEF CancelClaimed
  <2>2. IdOf(o) \in Ids /\ JobOf(o) \in Tasks /\ JobOf(o) = TaskOf[IdOf(o)]
    BY <2>1, ClaimFacts
  <2> QED
    BY <1>0, <2>2, <1>24 DEF IInv, RecordKept, LifeTypeOK, Points, Links, Closedown,
       CancelClaimed, SetTask, Fault, Goto
<1>25. ASSUME NEW o \in Owners, Requeue(o) PROVE RecordKept'
  <2>1. at[o] # "none"
    BY <1>25 DEF Requeue
  <2>2. IdOf(o) \in Ids /\ JobOf(o) \in Tasks /\ JobOf(o) = TaskOf[IdOf(o)]
    BY <2>1, ClaimFacts
  <2> QED
    BY <1>0, <2>2, <1>25 DEF IInv, RecordKept, LifeTypeOK, Points, Links, Closedown,
       Requeue, SetTask, Fault, Goto
<1>26. ASSUME NEW o \in Owners, Enqueue(o) PROVE RecordKept'
  <2>1. Holds(o) /\ at[o] = "enqueue" /\ \A w \in Owners : w # o => at'[w] = at[w]
    BY <1>26 DEF IInv, LifeTypeOK, Enqueue, Goto, Holds
  <2>2. JobOf(o) \in Tasks /\ work[JobOf(o)] \in {"idle", "leaving"}
    BY <2>1, HolderFacts
  <2>3. \A w \in Owners : at[w] \in {"read", "resolve"} => at'[w] = at[w] /\ IdOf(w)' = IdOf(w)
    BY <1>0, <2>1
  <2>4. /\ UNCHANGED <<work, entries, home, hands, record>>
        /\ \A y \in Tasks : y # JobOf(o) => about'[y] = about[y]
        /\ faults' = 0 => faults = 0
    BY <2>2, <1>26 DEF IInv, LifeTypeOK, Enqueue, Fault
  <2> QED
    BY <2>2, <2>3, <2>4, LifecycleAssumption DEF RecordKept
<1>27. ASSUME NEW o \in Owners, Complete(o) PROVE RecordKept'
  <2>1. at[o] # "none"
    BY <1>27 DEF Complete
  <2>2. IdOf(o) \in Ids /\ JobOf(o) \in Tasks /\ JobOf(o) = TaskOf[IdOf(o)]
    BY <2>1, ClaimFacts
  <2> QED
    BY <1>0, <2>2, <1>27 DEF IInv, RecordKept, LifeTypeOK, Points, Links, Closedown,
       Complete, CompleteClaim, Goto
<1>28. ASSUME NEW o \in Owners, ReleaseLease(o) PROVE RecordKept'
  <2>1. at[o] # "none"
    BY <1>28 DEF ReleaseLease
  <2>2. IdOf(o) \in Ids /\ JobOf(o) \in Tasks /\ JobOf(o) = TaskOf[IdOf(o)]
    BY <2>1, ClaimFacts
  <2> QED
    BY <1>0, <2>2, <1>28 DEF IInv, RecordKept, LifeTypeOK, Points, Links, Closedown,
       ReleaseLease, Goto
<1>29. ASSUME NEW id \in Ids, NEW approve \in BOOLEAN, DecideMissing(id, approve)
       PROVE  RecordKept'
  BY <1>29, <1>0, LifecycleAssumption DEF IInv, RecordKept, LifeTypeOK, Points,
     Links, Closedown, DecideMissing
<1>30. ASSUME NEW id \in Ids, NEW approve \in BOOLEAN, UpdateMissing(id, approve)
       PROVE  RecordKept'
  BY <1>30, <1>0, LifecycleAssumption DEF IInv, RecordKept, LifeTypeOK, Points,
     Links, Closedown, UpdateMissing, SetTask, Fault
<1>31. ASSUME NEW id \in Ids, PassDeadline(id) PROVE RecordKept'
  BY <1>31, <1>0, LifecycleAssumption DEF IInv, RecordKept, LifeTypeOK, Points,
     Links, Closedown, PassDeadline
<1>32. ASSUME NEW t \in Timers, FireTimer(t) PROVE RecordKept'
  BY <1>32, <1>0, LifecycleAssumption DEF IInv, RecordKept, LifeTypeOK, Points,
     Links, Closedown, FireTimer, Fire
<1>33. ASSUME NEW o \in Owners, Unlock(o) PROVE RecordKept'
  BY <1>33, <1>0, LifecycleAssumption DEF IInv, RecordKept, LifeTypeOK, Points,
     Links, Closedown, Unlock, OwnerDone
<1>34. ASSUME NEW o \in Owners, LeaveCallback(o) PROVE RecordKept'
  BY <1>34, <1>0, LifecycleAssumption DEF IInv, RecordKept, LifeTypeOK, Points,
     Links, Closedown, LeaveCallback, CallbackDone
<1>35. ASSUME NEW t \in Timers, Stale(t) PROVE RecordKept'
  BY <1>35, <1>0, LifecycleAssumption DEF IInv, RecordKept, LifeTypeOK, Points,
     Links, Closedown, Stale, ExpireStale
<1>36. ASSUME StopWorkers PROVE RecordKept'
  BY <1>36, <1>0, LifecycleAssumption DEF IInv, RecordKept, LifeTypeOK, Points,
     Links, Closedown, StopWorkers
<1>37. ASSUME RunnerClosed PROVE RecordKept'
  BY <1>37, <1>0, LifecycleAssumption DEF IInv, RecordKept, LifeTypeOK, Points,
     Links, Closedown, RunnerClosed
<1>38. ASSUME CloseRegistry PROVE RecordKept'
  <2>1. /\ \A i \in Ids : entries[i] # None =>
             home[entries[i]] = i /\ entries[i] \in Entries /\ hands'[entries[i]] = "resolve"
        /\ \A f \in Entries : hands[f] = "none"
        /\ UNCHANGED home
    BY <1>38, HandsTaken
  <2>2. UNCHANGED <<work, about, record, at, faults>>
    BY <1>38 DEF CloseRegistry
  <2>3. \A w \in Owners : at[w] \in {"read", "resolve"} => at'[w] = at[w] /\ IdOf(w)' = IdOf(w)
    BY <1>0, <2>2
  <2> QED
    BY <2>1, <2>2, <2>3 DEF RecordKept
<1>39. ASSUME WaitRegistry PROVE RecordKept'
  BY <1>39, <1>0, LifecycleAssumption DEF IInv, RecordKept, LifeTypeOK, Points,
     Links, Closedown, WaitRegistry, CloseOwners, CloseReturn
<1>40. ASSUME NEW e \in Entries, ResolveHandle(e) PROVE RecordKept'
  BY <1>40, <1>0, LifecycleAssumption DEF IInv, RecordKept, LifeTypeOK, Points,
     Links, Closedown, ResolveHandle, Fault
<1>41. ASSUME NEW e \in Entries, FinalizeHandle(e) PROVE RecordKept'
  BY <1>41, <1>0, LifecycleAssumption DEF IInv, RecordKept, LifeTypeOK, Points,
     Links, Closedown, FinalizeHandle, FailPending, UpdatePending, SetTask, Fault
<1>42. ASSUME Down PROVE RecordKept'
  BY <1>42, <1>0, LifecycleAssumption DEF IInv, RecordKept, LifeTypeOK, Points,
     Links, Closedown, Down
<1>43. CASE UNCHANGED vars
  BY <1>43, <1>0, LifecycleAssumption DEF IInv, RecordKept, LifeTypeOK, Points,
     Links, Closedown, vars
<1> QED
  BY <1>1, <1>2, <1>3, <1>4, <1>5, <1>6, <1>7, <1>8, <1>9, <1>10, <1>11, <1>12,
     <1>13, <1>14, <1>15, <1>16, <1>17, <1>18, <1>19, <1>20, <1>21, <1>22, <1>23,
     <1>24, <1>25, <1>26, <1>27, <1>28, <1>29, <1>30, <1>31, <1>32, <1>33, <1>34,
     <1>35, <1>36, <1>37, <1>38, <1>39, <1>40, <1>41, <1>42, <1>43 DEF Next,
     WorkStep, ClaimStep, Arrive, UpdateMissed, CloseStep, Finished

\* Every step keeps that what is named was recorded.
LEMMA RecordedStep == IInv /\ Recorded /\ [Next]_vars => Recorded'
<1> SUFFICES ASSUME IInv, Recorded, [Next]_vars PROVE Recorded'
  OBVIOUS
<1> USE DEF lifeVars, claimRest, recVars, taskVars, workVars, claimVars, missVars,
   regVars, timerVars, ownerVars
<1>1. ASSUME NEW x \in Tasks, StartJob(x) PROVE Recorded'
  BY <1>1, RegistryAssumption DEF IInv, Recorded, LifeTypeOK, Resolutions, StartJob,
     SetTask, FinalizeAccepted, Fault
<1>2. ASSUME NEW x \in Tasks, FinishRun(x) PROVE Recorded'
  BY <1>2, RegistryAssumption DEF IInv, Recorded, LifeTypeOK, Resolutions,
     FinishRun, SetTask, Fault
<1>3. ASSUME NEW x \in Tasks, NEW id \in Ids, PauseRun(x, id) PROVE Recorded'
  BY <1>3, RegistryAssumption DEF IInv, Recorded, LifeTypeOK, Resolutions, PauseRun
<1>4. ASSUME NEW x \in Tasks, CheckResume(x) PROVE Recorded'
  BY <1>4, RegistryAssumption DEF IInv, Recorded, LifeTypeOK, Resolutions,
     CheckResume, SetTask
<1>5. ASSUME NEW x \in Tasks, Consume(x) PROVE Recorded'
  BY <1>5, RegistryAssumption DEF IInv, Recorded, LifeTypeOK, Resolutions, Consume,
     Consumable, SetTask, Fault
<1>6. ASSUME NEW x \in Tasks, MarkPending(x) PROVE Recorded'
  BY <1>6, RegistryAssumption DEF IInv, Recorded, LifeTypeOK, Resolutions,
     MarkPending, SetTask, Fault
<1>7. ASSUME NEW x \in Tasks, NEW e \in Entries, Park(x, e) PROVE Recorded'
  <2>1. about[x] \in Ids
    BY <1>7, AboutFacts DEF Park
  <2> QED
    BY <2>1, <1>7 DEF IInv, RegIInv, RegTypeOK, Recorded, Park, Register
<1>8. ASSUME NEW x \in Tasks, ParkFails(x) PROVE Recorded'
  BY <1>8, RegistryAssumption DEF IInv, Recorded, LifeTypeOK, Resolutions,
     ParkFails, Fault, FailPending, UpdatePending, SetTask
<1>9. ASSUME NEW x \in Tasks, LeaveJob(x) PROVE Recorded'
  BY <1>9, RegistryAssumption DEF IInv, Recorded, LifeTypeOK, Resolutions, LeaveJob,
     FinalizeAccepted, SetTask
<1>10. ASSUME NEW id \in Ids, NEW approve \in BOOLEAN, NEW o \in Owners, Decide(id, approve, o)
       PROVE  Recorded'
  BY <1>10, RegistryAssumption DEF IInv, Recorded, LifeTypeOK, Resolutions, Decide,
     Claim, Own, Goto
<1>11. ASSUME NEW t \in Timers, NEW o \in Owners, ExpireHandle(t, o) PROVE Recorded'
  BY <1>11, RegistryAssumption DEF IInv, Recorded, LifeTypeOK, Resolutions,
     ExpireHandle, Expire, Own, Goto
<1>12. ASSUME NEW o \in Owners, ReadRecord(o) PROVE Recorded'
  BY <1>12, RegistryAssumption DEF IInv, Recorded, LifeTypeOK, Resolutions,
     ReadRecord, Fault, Goto
<1>13. ASSUME NEW o \in Owners, Resolve(o) PROVE Recorded'
  <2>1. want[o] # "none"
    BY <1>13 DEF IInv, Points, Resolutions, Resolve
  <2>2. \A i \in Ids : record[i] # "none" => record'[i] # "none"
    BY <2>1, <1>13 DEF IInv, LifeTypeOK, Resolve
  <2> QED
    BY <2>2, <1>13 DEF Recorded, Resolve
<1>14. ASSUME NEW o \in Owners, Reread(o) PROVE Recorded'
  BY <1>14, RegistryAssumption DEF IInv, Recorded, LifeTypeOK, Resolutions, Reread,
     Fault, Goto
<1>15. ASSUME NEW o \in Owners, CancelExpired(o) PROVE Recorded'
  BY <1>15, RegistryAssumption DEF IInv, Recorded, LifeTypeOK, Resolutions,
     CancelExpired, Expiring, UpdatePending, SetTask, Done, Goto, Fault
<1>16. ASSUME NEW o \in Owners, FailExpired(o) PROVE Recorded'
  BY <1>16, RegistryAssumption DEF IInv, Recorded, LifeTypeOK, Resolutions,
     FailExpired, Expiring, FailPending, UpdatePending, SetTask, Done, GiveUp, Goto,
     Fault
<1>17. ASSUME NEW o \in Owners, ExpiryUnsure(o) PROVE Recorded'
  BY <1>17, RegistryAssumption DEF IInv, Recorded, LifeTypeOK, Resolutions,
     ExpiryUnsure, Expiring, GiveUp, Goto
<1>18. ASSUME NEW o \in Owners, RetryExpiry(o) PROVE Recorded'
  BY <1>18, RegistryAssumption DEF IInv, Recorded, LifeTypeOK, Resolutions,
     RetryExpiry, RestoreClaim, Goto
<1>19. ASSUME NEW o \in Owners, RetryRefused(o) PROVE Recorded'
  BY <1>19, RegistryAssumption DEF IInv, Recorded, LifeTypeOK, Resolutions,
     RetryRefused, RestoreRefused, CompleteClaim, Goto
<1>20. ASSUME NEW o \in Owners, FinalizeOrphan(o) PROVE Recorded'
  BY <1>20, RegistryAssumption DEF IInv, Recorded, LifeTypeOK, Resolutions,
     FinalizeOrphan, FailPending, UpdatePending, SetTask, Fault, Goto
<1>21. ASSUME NEW o \in Owners, Settle(o) PROVE Recorded'
  BY <1>21, RegistryAssumption DEF IInv, Recorded, LifeTypeOK, Resolutions, Settle,
     Goto
<1>22. ASSUME NEW o \in Owners, GiveBack(o) PROVE Recorded'
  BY <1>22, RegistryAssumption DEF IInv, Recorded, LifeTypeOK, Resolutions,
     GiveBack, RestoreClaim, RestoreRefused, CompleteClaim, Goto
<1>23. ASSUME NEW o \in Owners, FailClaimed(o) PROVE Recorded'
  BY <1>23, RegistryAssumption DEF IInv, Recorded, LifeTypeOK, Resolutions,
     FailClaimed, FailPending, UpdatePending, SetTask, Fault, Goto
<1>24. ASSUME NEW o \in Owners, CancelClaimed(o) PROVE Recorded'
  BY <1>24, RegistryAssumption DEF IInv, Recorded, LifeTypeOK, Resolutions,
     CancelClaimed, SetTask, Fault, Goto
<1>25. ASSUME NEW o \in Owners, Requeue(o) PROVE Recorded'
  BY <1>25, RegistryAssumption DEF IInv, Recorded, LifeTypeOK, Resolutions, Requeue,
     SetTask, Fault, Goto
<1>26. ASSUME NEW o \in Owners, Enqueue(o) PROVE Recorded'
  <2>1. at[o] # "none"
    BY <1>26 DEF Enqueue
  <2>2. record[IdOf(o)] # "none"
    BY <2>1, IdRecorded
  <2> QED
    BY <2>2, <1>26 DEF IInv, LifeTypeOK, Recorded, Enqueue
<1>27. ASSUME NEW o \in Owners, Complete(o) PROVE Recorded'
  BY <1>27, RegistryAssumption DEF IInv, Recorded, LifeTypeOK, Resolutions,
     Complete, CompleteClaim, Goto
<1>28. ASSUME NEW o \in Owners, ReleaseLease(o) PROVE Recorded'
  BY <1>28, RegistryAssumption DEF IInv, Recorded, LifeTypeOK, Resolutions,
     ReleaseLease, Goto
<1>29. ASSUME NEW id \in Ids, NEW approve \in BOOLEAN, DecideMissing(id, approve)
       PROVE  Recorded'
  BY <1>29, RegistryAssumption DEF IInv, Recorded, LifeTypeOK, Resolutions,
     DecideMissing
<1>30. ASSUME NEW id \in Ids, NEW approve \in BOOLEAN, UpdateMissing(id, approve)
       PROVE  Recorded'
  BY <1>30, RegistryAssumption DEF IInv, Recorded, LifeTypeOK, Resolutions,
     UpdateMissing, SetTask, Fault
<1>31. ASSUME NEW id \in Ids, PassDeadline(id) PROVE Recorded'
  BY <1>31, RegistryAssumption DEF IInv, Recorded, LifeTypeOK, Resolutions,
     PassDeadline
<1>32. ASSUME NEW t \in Timers, FireTimer(t) PROVE Recorded'
  BY <1>32, RegistryAssumption DEF IInv, Recorded, LifeTypeOK, Resolutions,
     FireTimer, Fire
<1>33. ASSUME NEW o \in Owners, Unlock(o) PROVE Recorded'
  BY <1>33, RegistryAssumption DEF IInv, Recorded, LifeTypeOK, Resolutions, Unlock,
     OwnerDone
<1>34. ASSUME NEW o \in Owners, LeaveCallback(o) PROVE Recorded'
  BY <1>34, RegistryAssumption DEF IInv, Recorded, LifeTypeOK, Resolutions,
     LeaveCallback, CallbackDone
<1>35. ASSUME NEW t \in Timers, Stale(t) PROVE Recorded'
  BY <1>35, RegistryAssumption DEF IInv, Recorded, LifeTypeOK, Resolutions, Stale,
     ExpireStale
<1>36. ASSUME StopWorkers PROVE Recorded'
  BY <1>36, RegistryAssumption DEF IInv, Recorded, LifeTypeOK, Resolutions,
     StopWorkers
<1>37. ASSUME RunnerClosed PROVE Recorded'
  BY <1>37, RegistryAssumption DEF IInv, Recorded, LifeTypeOK, Resolutions,
     RunnerClosed
<1>38. ASSUME CloseRegistry PROVE Recorded'
  BY <1>38, RegistryAssumption DEF IInv, Recorded, LifeTypeOK, Resolutions,
     CloseRegistry, CloseStart
<1>39. ASSUME WaitRegistry PROVE Recorded'
  BY <1>39, RegistryAssumption DEF IInv, Recorded, LifeTypeOK, Resolutions,
     WaitRegistry, CloseOwners, CloseReturn
<1>40. ASSUME NEW e \in Entries, ResolveHandle(e) PROVE Recorded'
  BY <1>40, RegistryAssumption DEF IInv, Recorded, LifeTypeOK, Resolutions,
     ResolveHandle, Fault
<1>41. ASSUME NEW e \in Entries, FinalizeHandle(e) PROVE Recorded'
  BY <1>41, RegistryAssumption DEF IInv, Recorded, LifeTypeOK, Resolutions,
     FinalizeHandle, FailPending, UpdatePending, SetTask, Fault
<1>42. ASSUME Down PROVE Recorded'
  BY <1>42, RegistryAssumption DEF IInv, Recorded, LifeTypeOK, Resolutions, Down
<1>43. CASE UNCHANGED vars
  BY <1>43, RegistryAssumption DEF IInv, Recorded, LifeTypeOK, Resolutions, vars
<1> QED
  BY <1>1, <1>2, <1>3, <1>4, <1>5, <1>6, <1>7, <1>8, <1>9, <1>10, <1>11, <1>12,
     <1>13, <1>14, <1>15, <1>16, <1>17, <1>18, <1>19, <1>20, <1>21, <1>22, <1>23,
     <1>24, <1>25, <1>26, <1>27, <1>28, <1>29, <1>30, <1>31, <1>32, <1>33, <1>34,
     <1>35, <1>36, <1>37, <1>38, <1>39, <1>40, <1>41, <1>42, <1>43 DEF Next,
     WorkStep, ClaimStep, Arrive, UpdateMissed, CloseStep, Finished

\* Without failures every step keeps that what is settled in the registry is settled in its task.
LEMMA OrderlyStep == IInv /\ Recorded /\ Orderly /\ [Next]_vars => Orderly'
<1> SUFFICES ASSUME IInv, Recorded, Orderly, [Next]_vars PROVE Orderly'
  OBVIOUS
<1> USE DEF lifeVars, claimRest, recVars, taskVars, workVars, claimVars, missVars,
   regVars, timerVars, ownerVars
<1>0. \A w \in Owners : at[w] # "none" => IdOf(w)' = IdOf(w) /\ JobOf(w)' = JobOf(w)
  BY IdKept
<1>1. ASSUME NEW x \in Tasks, StartJob(x) PROVE Orderly'
  BY <1>1, <1>0, LifecycleAssumption DEF IInv, Orderly, LifeTypeOK, Fresh, StartJob,
     SetTask, FinalizeAccepted, Fault
<1>2. ASSUME NEW x \in Tasks, FinishRun(x) PROVE Orderly'
  BY <1>2, <1>0, LifecycleAssumption DEF IInv, Orderly, LifeTypeOK, Fresh,
     FinishRun, SetTask, Fault
<1>3. ASSUME NEW x \in Tasks, NEW id \in Ids, PauseRun(x, id) PROVE Orderly'
  <2>1. /\ faults' = faults /\ UNCHANGED <<at, owner, outcome>>
        /\ \A i \in Ids : i # id => record'[i] = record[i]
        /\ record[id] = "none"
    BY <1>3 DEF IInv, LifeTypeOK, PauseRun
  <2>2. \A w \in Owners : at[w] # "none" => IdOf(w) \in Ids /\ record[IdOf(w)] # "none"
    BY ClaimFacts, IdRecorded
  <2> QED
    BY <1>0, <2>1, <2>2 DEF Orderly
<1>4. ASSUME NEW x \in Tasks, CheckResume(x) PROVE Orderly'
  <2>1. about[x] \in Ids /\ TaskOf[about[x]] = x
    BY <1>4, AboutFacts DEF CheckResume
  <2> QED
    BY <1>0, <2>1, <1>4 DEF IInv, Orderly, LifeTypeOK, Fresh, CheckResume, SetTask
<1>5. ASSUME NEW x \in Tasks, Consume(x) PROVE Orderly'
  <2>1. about[x] \in Ids /\ TaskOf[about[x]] = x
    BY <1>5, AboutFacts DEF Consume
  <2> QED
    BY <1>0, <2>1, <1>5 DEF IInv, Orderly, LifeTypeOK, Fresh, Consume, Consumable,
       SetTask, Fault
<1>6. ASSUME NEW x \in Tasks, MarkPending(x) PROVE Orderly'
  <2>1. about[x] \in Ids /\ TaskOf[about[x]] = x
    BY <1>6, AboutFacts DEF MarkPending
  <2> QED
    BY <1>0, <2>1, <1>6 DEF IInv, Orderly, LifeTypeOK, Fresh, MarkPending, SetTask,
       Fault
<1>7. ASSUME NEW x \in Tasks, NEW e \in Entries, Park(x, e) PROVE Orderly'
  <2>1. about[x] \in Ids /\ TaskOf[about[x]] = x
    BY <1>7, AboutFacts DEF Park
  <2>2. /\ closing = "open" /\ UNCHANGED <<owned, owner>> /\ e # None
        /\ entries' = [entries EXCEPT ![about[x]] = e]
    BY <1>7, RegistryAssumption DEF Park, Register, Registrable, ownerVars
  <2> QED
    BY <1>0, <2>1, <2>2, <1>7 DEF IInv, RegIInv, RegTypeOK, Orderly, LifeTypeOK,
       Fresh, Park
<1>8. ASSUME NEW x \in Tasks, ParkFails(x) PROVE Orderly'
  <2>1. about[x] \in Ids /\ TaskOf[about[x]] = x
    BY <1>8, AboutFacts DEF ParkFails
  <2> QED
    BY <1>0, <2>1, <1>8 DEF IInv, Orderly, LifeTypeOK, Fresh, ParkFails, Fault,
       FailPending, UpdatePending, SetTask
<1>9. ASSUME NEW x \in Tasks, LeaveJob(x) PROVE Orderly'
  BY <1>9, <1>0, LifecycleAssumption DEF IInv, Orderly, LifeTypeOK, Fresh, LeaveJob,
     FinalizeAccepted, SetTask
<1>10. ASSUME NEW id \in Ids, NEW approve \in BOOLEAN, NEW o \in Owners, Decide(id, approve, o)
       PROVE  Orderly'
  <2>1. /\ UNCHANGED <<record, outcome, faults>> /\ Own(id, o)
        /\ at'[o] \in {"read", "resolve"} /\ \A w \in Owners : w # o => at'[w] = at[w]
    BY <1>10 DEF IInv, LifeTypeOK, Decide, Claim, Goto
  <2>2. owner'[o] = "live" /\ \A w \in Owners : w # o => owner'[w] = owner[w]
    BY <2>1 DEF IInv, RegIInv, RegTypeOK, Own
  <2> QED
    BY <1>0, <2>1, <2>2 DEF Orderly
<1>11. ASSUME NEW t \in Timers, NEW o \in Owners, ExpireHandle(t, o) PROVE Orderly'
  <2>1. /\ UNCHANGED <<record, outcome, faults>> /\ Own(home[timed[t]], o)
        /\ at'[o] \in {"read", "resolve"} /\ \A w \in Owners : w # o => at'[w] = at[w]
    BY <1>11 DEF IInv, LifeTypeOK, ExpireHandle, Expire, Goto
  <2>2. owner'[o] = "live" /\ \A w \in Owners : w # o => owner'[w] = owner[w]
    BY <2>1 DEF IInv, RegIInv, RegTypeOK, Own
  <2> QED
    BY <1>0, <2>1, <2>2 DEF Orderly
<1>12. ASSUME NEW o \in Owners, ReadRecord(o) PROVE Orderly'
  <2>1. at[o] # "none"
    BY <1>12 DEF ReadRecord
  <2>2. IdOf(o) \in Ids /\ JobOf(o) \in Tasks /\ JobOf(o) = TaskOf[IdOf(o)]
    BY <2>1, ClaimFacts
  <2> QED
    BY <1>0, <2>2, <1>12 DEF IInv, Orderly, LifeTypeOK, Fresh, ReadRecord, Fault, Goto
<1>13. ASSUME NEW o \in Owners, Resolve(o) PROVE Orderly'
  <2>1. at[o] = "resolve" /\ IdOf(o) \in Ids /\ want[o] # "pending"
    BY <1>13, ClaimFacts DEF IInv, Points, Resolutions, Resolve
  <2>2. /\ faults' = 0 => faults = 0
        /\ \A i \in Ids : record'[i] = "pending" => record[i] = "pending"
        /\ faults' = 0 /\ at'[o] = "reread" => record'[IdOf(o)] # "pending"
        /\ UNCHANGED owner
        /\ at'[o] \in {"act", "reread"} /\ \A w \in Owners : w # o => at'[w] = at[w]
        /\ \A w \in Owners : outcome'[w] \in {outcome[w], "committed"}
    BY <2>1, <1>13 DEF IInv, LifeTypeOK, Resolve, Fault, Goto
  <2>3. \A w \in Owners : at[w] # "none" => IdOf(w) \in Ids
    BY ClaimFacts
  <2> QED
    BY <1>0, <2>1, <2>2, <2>3 DEF Orderly
<1>14. ASSUME NEW o \in Owners, Reread(o) PROVE Orderly'
  <2>1. at[o] # "none"
    BY <1>14 DEF Reread
  <2>2. IdOf(o) \in Ids /\ JobOf(o) \in Tasks /\ JobOf(o) = TaskOf[IdOf(o)]
    BY <2>1, ClaimFacts
  <2> QED
    BY <1>0, <2>2, <1>14 DEF IInv, Orderly, LifeTypeOK, Fresh, Reread, Fault, Goto
<1>15. ASSUME NEW o \in Owners, CancelExpired(o) PROVE Orderly'
  <2>1. at[o] # "none"
    BY <1>15 DEF CancelExpired
  <2>2. IdOf(o) \in Ids /\ JobOf(o) \in Tasks /\ JobOf(o) = TaskOf[IdOf(o)]
    BY <2>1, ClaimFacts
  <2> QED
    BY <1>0, <2>2, <1>15 DEF IInv, Orderly, LifeTypeOK, Fresh, CancelExpired,
       Expiring, UpdatePending, SetTask, Done, Goto, Fault
<1>16. ASSUME NEW o \in Owners, FailExpired(o) PROVE Orderly'
  <2>1. at[o] # "none"
    BY <1>16 DEF FailExpired
  <2>2. IdOf(o) \in Ids /\ JobOf(o) \in Tasks /\ JobOf(o) = TaskOf[IdOf(o)]
    BY <2>1, ClaimFacts
  <2> QED
    BY <1>0, <2>2, <1>16 DEF IInv, Orderly, LifeTypeOK, Fresh, FailExpired,
       Expiring, FailPending, UpdatePending, SetTask, Done, GiveUp, Goto, Fault
<1>17. ASSUME NEW o \in Owners, ExpiryUnsure(o) PROVE Orderly'
  <2>1. at[o] # "none"
    BY <1>17 DEF ExpiryUnsure
  <2>2. IdOf(o) \in Ids /\ JobOf(o) \in Tasks /\ JobOf(o) = TaskOf[IdOf(o)]
    BY <2>1, ClaimFacts
  <2> QED
    BY <1>0, <2>2, <1>17 DEF IInv, Orderly, LifeTypeOK, Fresh, ExpiryUnsure,
       Expiring, GiveUp, Goto
<1>18. ASSUME NEW o \in Owners, RetryExpiry(o) PROVE Orderly'
  <2>1. RestoreClaim(o, TRUE) /\ at[o] # "none"
    BY <1>18 DEF RetryExpiry
  <2>2. IdOf(o) \in Ids /\ JobOf(o) = TaskOf[IdOf(o)]
    BY <2>1, ClaimFacts
  <2>3. /\ owned[o] # None /\ closing = "open" /\ UNCHANGED home
        /\ entries' = [entries EXCEPT ![IdOf(o)] = owned[o]]
    BY <2>1, RestoreEffect
  <2> QED
    BY <1>0, <2>2, <2>3, <1>18 DEF IInv, RegIInv, RegTypeOK, Orderly, LifeTypeOK,
       Fresh, RetryExpiry, Goto
<1>19. ASSUME NEW o \in Owners, RetryRefused(o) PROVE Orderly'
  <2>1. at[o] # "none"
    BY <1>19 DEF RetryRefused
  <2>2. IdOf(o) \in Ids /\ JobOf(o) \in Tasks /\ JobOf(o) = TaskOf[IdOf(o)]
    BY <2>1, ClaimFacts
  <2> QED
    BY <1>0, <2>2, <1>19 DEF IInv, Orderly, LifeTypeOK, Fresh, RetryRefused,
       RestoreRefused, CompleteClaim, Goto
<1>20. ASSUME NEW o \in Owners, FinalizeOrphan(o) PROVE Orderly'
  <2>1. at[o] # "none"
    BY <1>20 DEF FinalizeOrphan
  <2>2. IdOf(o) \in Ids /\ JobOf(o) \in Tasks /\ JobOf(o) = TaskOf[IdOf(o)]
    BY <2>1, ClaimFacts
  <2> QED
    BY <1>0, <2>2, <1>20 DEF IInv, Orderly, LifeTypeOK, Fresh, FinalizeOrphan,
       FailPending, UpdatePending, SetTask, Fault, Goto
<1>21. ASSUME NEW o \in Owners, Settle(o) PROVE Orderly'
  <2>1. at[o] # "none"
    BY <1>21 DEF Settle
  <2>2. IdOf(o) \in Ids /\ JobOf(o) \in Tasks /\ JobOf(o) = TaskOf[IdOf(o)]
    BY <2>1, ClaimFacts
  <2> QED
    BY <1>0, <2>2, <1>21 DEF IInv, Orderly, LifeTypeOK, Fresh, Settle, Goto
<1>22. ASSUME NEW o \in Owners, GiveBack(o) PROVE Orderly'
  <2>1. at[o] # "none"
    BY <1>22 DEF GiveBack
  <2>2. IdOf(o) \in Ids /\ JobOf(o) = TaskOf[IdOf(o)]
    BY <2>1, ClaimFacts
  <2>3. CASE RestoreClaim(o, TRUE) /\ Goto(o, "end")
    <3>1. /\ owned[o] # None /\ closing = "open" /\ UNCHANGED home
          /\ entries' = [entries EXCEPT ![IdOf(o)] = owned[o]]
      BY <2>1, <2>3, RestoreEffect
    <3> QED
      BY <1>0, <2>2, <2>3, <3>1, <1>22 DEF IInv, RegIInv, RegTypeOK, Orderly,
         LifeTypeOK, Fresh, GiveBack, Goto
  <2>4. CASE RestoreRefused(o) /\ Goto(o, "fail")
    BY <1>0, <2>2, <2>4, <1>22 DEF IInv, Orderly, LifeTypeOK, Fresh, GiveBack,
       RestoreRefused, CompleteClaim, Goto
  <2> QED
    BY <1>22, <2>3, <2>4 DEF GiveBack
<1>23. ASSUME NEW o \in Owners, FailClaimed(o) PROVE Orderly'
  <2>1. at[o] # "none"
    BY <1>23 DEF FailClaimed
  <2>2. IdOf(o) \in Ids /\ JobOf(o) \in Tasks /\ JobOf(o) = TaskOf[IdOf(o)]
    BY <2>1, ClaimFacts
  <2> QED
    BY <1>0, <2>2, <1>23 DEF IInv, Orderly, LifeTypeOK, Fresh, FailClaimed,
       FailPending, UpdatePending, SetTask, Fault, Goto
<1>24. ASSUME NEW o \in Owners, CancelClaimed(o) PROVE Orderly'
  <2>1. at[o] # "none"
    BY <1>24 DEF CancelClaimed
  <2>2. IdOf(o) \in Ids /\ JobOf(o) \in Tasks /\ JobOf(o) = TaskOf[IdOf(o)]
    BY <2>1, ClaimFacts
  <2> QED
    BY <1>0, <2>2, <1>24 DEF IInv, Orderly, LifeTypeOK, Fresh, CancelClaimed,
       SetTask, Fault, Goto
<1>25. ASSUME NEW o \in Owners, Requeue(o) PROVE Orderly'
  <2>1. at[o] # "none"
    BY <1>25 DEF Requeue
  <2>2. IdOf(o) \in Ids /\ JobOf(o) \in Tasks /\ JobOf(o) = TaskOf[IdOf(o)]
    BY <2>1, ClaimFacts
  <2> QED
    BY <1>0, <2>2, <1>25 DEF IInv, Orderly, LifeTypeOK, Fresh, Requeue, SetTask,
       Fault, Goto
<1>26. ASSUME NEW o \in Owners, Enqueue(o) PROVE Orderly'
  <2>1. at[o] # "none"
    BY <1>26 DEF Enqueue
  <2>2. IdOf(o) \in Ids /\ JobOf(o) \in Tasks /\ JobOf(o) = TaskOf[IdOf(o)]
    BY <2>1, ClaimFacts
  <2> QED
    BY <1>0, <2>2, <1>26 DEF IInv, Orderly, LifeTypeOK, Fresh, Enqueue, SetTask,
       Fault, Goto
<1>27. ASSUME NEW o \in Owners, Complete(o) PROVE Orderly'
  <2>1. /\ UNCHANGED <<record, outcome, faults>>
        /\ at'[o] \in {"release", "end"} /\ \A w \in Owners : w # o => at'[w] = at[w]
    BY <1>27 DEF IInv, LifeTypeOK, Complete, Goto
  <2>2. \A w \in Owners : w # o => owner'[w] = owner[w]
    <3>1. CASE owner[o] = "live"
      BY <3>1, <1>27 DEF IInv, RegIInv, RegTypeOK, Complete, CompleteClaim
    <3>2. CASE owner[o] # "live"
      BY <3>2, <1>27 DEF Complete
    <3> QED
      BY <3>1, <3>2
  <2> QED
    BY <1>0, <2>1, <2>2 DEF Orderly
<1>28. ASSUME NEW o \in Owners, ReleaseLease(o) PROVE Orderly'
  <2>1. at[o] # "none"
    BY <1>28 DEF ReleaseLease
  <2>2. IdOf(o) \in Ids /\ JobOf(o) \in Tasks /\ JobOf(o) = TaskOf[IdOf(o)]
    BY <2>1, ClaimFacts
  <2> QED
    BY <1>0, <2>2, <1>28 DEF IInv, Orderly, LifeTypeOK, Fresh, ReleaseLease, Goto
<1>29. ASSUME NEW id \in Ids, NEW approve \in BOOLEAN, DecideMissing(id, approve)
       PROVE  Orderly'
  BY <1>29, <1>0, LifecycleAssumption DEF IInv, Orderly, LifeTypeOK, Fresh,
     DecideMissing
<1>30. ASSUME NEW id \in Ids, NEW approve \in BOOLEAN, UpdateMissing(id, approve)
       PROVE  Orderly'
  BY <1>30, <1>0, LifecycleAssumption DEF IInv, Orderly, LifeTypeOK, Fresh,
     UpdateMissing, SetTask, Fault
<1>31. ASSUME NEW id \in Ids, PassDeadline(id) PROVE Orderly'
  BY <1>31, <1>0, LifecycleAssumption DEF IInv, Orderly, LifeTypeOK, Fresh,
     PassDeadline
<1>32. ASSUME NEW t \in Timers, FireTimer(t) PROVE Orderly'
  BY <1>32, <1>0, LifecycleAssumption DEF IInv, Orderly, LifeTypeOK, Fresh,
     FireTimer, Fire
<1>33. ASSUME NEW o \in Owners, Unlock(o) PROVE Orderly'
  BY <1>33, <1>0, LifecycleAssumption DEF IInv, Orderly, LifeTypeOK, Fresh, Unlock,
     OwnerDone
<1>34. ASSUME NEW o \in Owners, LeaveCallback(o) PROVE Orderly'
  BY <1>34, <1>0, LifecycleAssumption DEF IInv, Orderly, LifeTypeOK, Fresh,
     LeaveCallback, CallbackDone
<1>35. ASSUME NEW t \in Timers, Stale(t) PROVE Orderly'
  BY <1>35, <1>0, LifecycleAssumption DEF IInv, Orderly, LifeTypeOK, Fresh, Stale,
     ExpireStale
<1>36. ASSUME StopWorkers PROVE Orderly'
  BY <1>36, <1>0, LifecycleAssumption DEF IInv, Orderly, LifeTypeOK, Fresh,
     StopWorkers
<1>37. ASSUME RunnerClosed PROVE Orderly'
  BY <1>37, <1>0, LifecycleAssumption DEF IInv, Orderly, LifeTypeOK, Fresh,
     RunnerClosed
<1>38. ASSUME CloseRegistry PROVE Orderly'
  BY <1>38, <1>0, LifecycleAssumption DEF IInv, Orderly, LifeTypeOK, Fresh,
     CloseRegistry, CloseStart
<1>39. ASSUME WaitRegistry PROVE Orderly'
  BY <1>39, <1>0, LifecycleAssumption DEF IInv, Orderly, LifeTypeOK, Fresh,
     WaitRegistry, CloseOwners, CloseReturn
<1>40. ASSUME NEW e \in Entries, ResolveHandle(e) PROVE Orderly'
  <2>1. /\ faults' = 0 => faults = 0
        /\ \A i \in Ids : record'[i] = "pending" => record[i] = "pending"
        /\ UNCHANGED <<at, owner, outcome>>
    BY <1>40 DEF IInv, LifeTypeOK, ResolveHandle, Fault
  <2>2. \A w \in Owners : at[w] # "none" => IdOf(w) \in Ids
    BY ClaimFacts
  <2> QED
    BY <1>0, <2>1, <2>2 DEF Orderly
<1>41. ASSUME NEW e \in Entries, FinalizeHandle(e) PROVE Orderly'
  BY <1>41, <1>0, LifecycleAssumption DEF IInv, Orderly, LifeTypeOK, Fresh,
     FinalizeHandle, FailPending, UpdatePending, SetTask, Fault
<1>42. ASSUME Down PROVE Orderly'
  BY <1>42, <1>0, LifecycleAssumption DEF IInv, Orderly, LifeTypeOK, Fresh, Down
<1>43. CASE UNCHANGED vars
  BY <1>43, <1>0, LifecycleAssumption DEF IInv, Orderly, LifeTypeOK, Fresh, vars
<1> QED
  BY <1>1, <1>2, <1>3, <1>4, <1>5, <1>6, <1>7, <1>8, <1>9, <1>10, <1>11, <1>12,
     <1>13, <1>14, <1>15, <1>16, <1>17, <1>18, <1>19, <1>20, <1>21, <1>22, <1>23,
     <1>24, <1>25, <1>26, <1>27, <1>28, <1>29, <1>30, <1>31, <1>32, <1>33, <1>34,
     <1>35, <1>36, <1>37, <1>38, <1>39, <1>40, <1>41, <1>42, <1>43 DEF Next,
     WorkStep, ClaimStep, Arrive, UpdateMissed, CloseStep, Finished

-----------------------------------------------------------------------------
\* The inductive invariant, and what becomes of the tasks and of the records.
TInv == IInv /\ Status /\ ActiveKept /\ PendingKept /\ RecordKept /\ Recorded /\ Orderly

\* The tasks start in the runner, and nothing else has begun.
LEMMA TInit == Init => TInv
<1> SUFFICES ASSUME Init PROVE TInv
  OBVIOUS
<1>1. IInv
  BY InitInv
<1>2. /\ \A x \in Tasks : task[x] = "queued" /\ work[x] = "idle" /\ about[x] = None /\ ~Waits(x)
      /\ \A o \in Owners : ~Settling(o) /\ at[o] = "none" /\ outcome[o] = "none" /\ owner[o] = "unused"
      /\ \A e \in Entries : home[e] = None
      /\ \A id \in Ids : record[id] = "none"
      /\ accepted = Tasks
  BY DEF Init, RegInit, Settling, Waits
<1>3. Status /\ ActiveKept /\ PendingKept /\ RecordKept
  BY <1>2 DEF Status, ActiveKept, PendingKept, RecordKept
<1>4. Recorded /\ Orderly
  BY <1>2, RegistryAssumption DEF Recorded, Orderly
<1> QED
  BY <1>1, <1>3, <1>4 DEF TInv

\* Every step keeps it.
LEMMA TInductive == TInv /\ [Next]_vars => TInv'
BY Inductive, StatusStep, ActiveStep, PendingStep, RecordStep, RecordedStep, OrderlyStep
   DEF TInv

\* The larger invariant holds in every state of the life of the tasks.
THEOREM SettlingInvariance == Spec => []TInv
BY TInit, TInductive, PTL DEF Spec

\* Failures of the record store lose no task that waits for an approval: the worker that
\* parks it, the registry, a claim or close() has yet to settle it.
THEOREM PendingIsKept == Spec => []PendingHasCustodian
<1>1. ASSUME TInv PROVE PendingHasCustodian
  <2> SUFFICES ASSUME "task" \notin FaultKinds, NEW x \in Tasks, task[x] = "pending"
               PROVE  \/ work[x] = "parked" /\ about[x] = asked[x]
                      \/ entries[asked[x]] # None
                      \/ \E o \in Owners : owned[o] # None /\ IdOf(o) = asked[x]
                                          /\ at[o] \notin {"complete", "kept", "release", "end"}
                      \/ \E e \in Entries : home[e] = asked[x] /\ hands[e] # "none"
    BY DEF PendingHasCustodian
  <2>1. \/ work[x] = "parked" /\ about[x] = asked[x]
        \/ entries[asked[x]] # None
        \/ \E o \in Owners : Settling(o) /\ IdOf(o) = asked[x]
        \/ \E e \in Entries : home[e] = asked[x] /\ hands[e] # "none"
    BY <1>1 DEF TInv, PendingKept, TasksKept
  <2>2. \A o \in Owners : Settling(o) =>
          owned[o] # None /\ at[o] \notin {"complete", "kept", "release", "end"}
    <3> SUFFICES ASSUME NEW o \in Owners, Settling(o)
                 PROVE  owned[o] # None /\ at[o] \notin {"complete", "kept", "release", "end"}
      OBVIOUS
    <3>1. at[o] # "none" /\ at[o] \notin {"complete", "kept", "release", "end"}
      BY DEF Settling
    <3>2. owned[o] \in Entries
      BY <1>1, <3>1, ClaimFacts DEF TInv
    <3> QED
      BY <3>1, <3>2, RegistryAssumption
  <2> QED
    BY <2>1, <2>2
<1> QED
  BY <1>1, SettlingInvariance, PTL

\* Without a failure close() leaves no task waiting, queued or running and no approval open,
\* however its steps interleave with decisions, expiries and workers.
THEOREM SettledOnceDown == Spec => []SettledWhenDown
<1>1. ASSUME TInv PROVE SettledWhenDown
  <2> SUFFICES ASSUME stage = "down", faults = 0
               PROVE  /\ \A x \in Tasks : task[x] \in Terminal
                      /\ \A id \in Ids : record[id] # "pending"
    BY DEF SettledWhenDown
  <2>1. /\ closing = "returned" /\ accepted = {}
        /\ \A x \in Tasks : work[x] = "idle"
        /\ \A e \in Entries : hands[e] = "none"
    BY <1>1 DEF TInv, IInv, Closedown
  <2>2. /\ \A id \in Ids : entries[id] = None
        /\ \A o \in Owners : owner[o] \in {"unused", "done"}
    BY <1>1, <2>1 DEF TInv, IInv, RegIInv, Emptied
  <2>3. \A o \in Owners : at[o] \in {"none", "release", "end", "complete"}
    BY <1>1, <2>2 DEF TInv, IInv, Fresh, Orderly
  <2>4. \A o \in Owners : ~Settling(o) /\ at[o] \notin {"enqueue", "read", "resolve"}
    BY <2>3 DEF Settling
  <2>5. ASSUME NEW x \in Tasks PROVE task[x] \in Terminal
    <3>1. task[x] \notin {"queued", "running"}
      BY <1>1, <2>1, <2>4 DEF TInv, ActiveKept, TasksKept
    <3>2. task[x] # "pending"
      <4> SUFFICES ASSUME task[x] = "pending" PROVE FALSE
        OBVIOUS
      <4>1. asked[x] \in Ids
        BY <1>1 DEF TInv, IInv, Links
      <4> QED
        BY <1>1, <2>1, <2>2, <2>4, <4>1 DEF TInv, PendingKept, TasksKept
    <3> QED
      BY <1>1, <3>1, <3>2 DEF TInv, IInv, LifeTypeOK, TaskStates
  <2>6. ASSUME NEW id \in Ids PROVE record[id] # "pending"
    BY <1>1, <2>1, <2>2, <2>4, LifecycleAssumption DEF TInv, RecordKept
  <2> QED
    BY <2>5, <2>6
<1> QED
  BY <1>1, SettlingInvariance, PTL

\* A finished task stays finished, unless it was decided early.
TerminalKept == \A y \in Tasks : task[y] \in Terminal /\ y \notin early => task'[y] \in Terminal

\* A terminal status is left only by a task that a decision came to early.
LEMMA TerminalStep == IInv /\ Status /\ [Next]_vars => TerminalKept
<1> SUFFICES ASSUME IInv, Status, [Next]_vars PROVE TerminalKept
  OBVIOUS
<1> USE DEF TerminalKept
<1> USE DEF lifeVars, claimRest, recVars, taskVars, workVars, claimVars, missVars,
   regVars, timerVars, ownerVars
<1>1. ASSUME NEW x \in Tasks, StartJob(x) PROVE TerminalKept
  <2>1. x \in accepted /\ (stage = "up" /\ x \notin early => task[x] = "queued")
    BY <1>1 DEF Status, StartJob
  <2>2. /\ \A y \in Tasks : y # x => task'[y] = task[y]
        /\ stage # "up" => task'[x] = task[x] \/ task'[x] = "canceled"
    BY <1>1 DEF IInv, LifeTypeOK, StartJob, SetTask, FinalizeAccepted, Fault
  <2>3. stage = "up" /\ x \notin early => task[x] \notin Terminal
    BY <2>1 DEF Terminal
  <2>4. CASE stage = "up"
    BY <2>2, <2>3, <2>4
  <2>5. CASE stage # "up"
    BY <2>2, <2>5 DEF Terminal
  <2> QED
    BY <2>4, <2>5
<1>2. ASSUME NEW x \in Tasks, FinishRun(x) PROVE TerminalKept
  <2>1. \A y \in Tasks : task'[y] = task[y] \/ task'[y] \in {"done", "failed", "canceled"}
    BY <1>2 DEF IInv, LifeTypeOK, FinishRun, SetTask, Fault
  <2> QED
    BY <2>1 DEF Terminal
<1>3. ASSUME NEW x \in Tasks, NEW id \in Ids, PauseRun(x, id) PROVE TerminalKept
  BY <1>3 DEF PauseRun
<1>4. ASSUME NEW x \in Tasks, CheckResume(x) PROVE TerminalKept
  <2>1. \A y \in Tasks : task'[y] = task[y] \/ task'[y] \in {"done", "failed", "canceled"}
    BY <1>4 DEF IInv, LifeTypeOK, CheckResume, SetTask
  <2> QED
    BY <2>1 DEF Terminal
<1>5. ASSUME NEW x \in Tasks, Consume(x) PROVE TerminalKept
  <2>1. \A y \in Tasks : task'[y] = task[y] \/ task'[y] \in {"done", "failed", "canceled"}
    BY <1>5 DEF IInv, LifeTypeOK, Consume, Consumable, SetTask, Fault
  <2> QED
    BY <2>1 DEF Terminal
<1>6. ASSUME NEW x \in Tasks, MarkPending(x) PROVE TerminalKept
  <2>1. x \notin early => task[x] \notin Terminal
    BY <1>6 DEF Status, Terminal, MarkPending
  <2>2. \A y \in Tasks : y # x => task'[y] = task[y]
    BY <1>6 DEF IInv, LifeTypeOK, MarkPending, SetTask, Fault
  <2> QED
    BY <2>1, <2>2
<1>7. ASSUME NEW x \in Tasks, NEW e \in Entries, Park(x, e) PROVE TerminalKept
  BY <1>7 DEF Park, Register, Registrable
<1>8. ASSUME NEW x \in Tasks, ParkFails(x) PROVE TerminalKept
  <2>1. \A y \in Tasks : task'[y] = task[y] \/ task'[y] \in {"done", "failed", "canceled"}
    BY <1>8 DEF IInv, LifeTypeOK, ParkFails, Fault, FailPending, UpdatePending, SetTask
  <2> QED
    BY <2>1 DEF Terminal
<1>9. ASSUME NEW x \in Tasks, LeaveJob(x) PROVE TerminalKept
  <2>1. \A y \in Tasks : task'[y] = task[y] \/ task'[y] \in {"done", "failed", "canceled"}
    BY <1>9 DEF IInv, LifeTypeOK, LeaveJob, FinalizeAccepted, SetTask
  <2> QED
    BY <2>1 DEF Terminal
<1>10. ASSUME NEW id \in Ids, NEW approve \in BOOLEAN, NEW o \in Owners, Decide(id, approve, o)
       PROVE  TerminalKept
  BY <1>10 DEF Decide, Claim, Own, Goto
<1>11. ASSUME NEW t \in Timers, NEW o \in Owners, ExpireHandle(t, o) PROVE TerminalKept
  BY <1>11 DEF ExpireHandle, Expire, Own, Goto
<1>12. ASSUME NEW o \in Owners, ReadRecord(o) PROVE TerminalKept
  BY <1>12 DEF ReadRecord, Fault, Goto
<1>13. ASSUME NEW o \in Owners, Resolve(o) PROVE TerminalKept
  BY <1>13 DEF Resolve, Fault, Goto
<1>14. ASSUME NEW o \in Owners, Reread(o) PROVE TerminalKept
  BY <1>14 DEF Reread, Fault, Goto
<1>15. ASSUME NEW o \in Owners, CancelExpired(o) PROVE TerminalKept
  <2>1. \A y \in Tasks : task'[y] = task[y] \/ task'[y] \in {"done", "failed", "canceled"}
    BY <1>15 DEF IInv, LifeTypeOK, CancelExpired, Expiring, UpdatePending, SetTask,
       Done, Goto, Fault
  <2> QED
    BY <2>1 DEF Terminal
<1>16. ASSUME NEW o \in Owners, FailExpired(o) PROVE TerminalKept
  <2>1. \A y \in Tasks : task'[y] = task[y] \/ task'[y] \in {"done", "failed", "canceled"}
    BY <1>16 DEF IInv, LifeTypeOK, FailExpired, Expiring, FailPending,
       UpdatePending, SetTask, Done, GiveUp, Goto, Fault
  <2> QED
    BY <2>1 DEF Terminal
<1>17. ASSUME NEW o \in Owners, ExpiryUnsure(o) PROVE TerminalKept
  BY <1>17 DEF ExpiryUnsure, Expiring, GiveUp, Goto
<1>18. ASSUME NEW o \in Owners, RetryExpiry(o) PROVE TerminalKept
  BY <1>18 DEF RetryExpiry, RestoreClaim, Goto
<1>19. ASSUME NEW o \in Owners, RetryRefused(o) PROVE TerminalKept
  BY <1>19 DEF RetryRefused, RestoreRefused, CompleteClaim, Goto
<1>20. ASSUME NEW o \in Owners, FinalizeOrphan(o) PROVE TerminalKept
  <2>1. \A y \in Tasks : task'[y] = task[y] \/ task'[y] \in {"done", "failed", "canceled"}
    BY <1>20 DEF IInv, LifeTypeOK, FinalizeOrphan, FailPending, UpdatePending,
       SetTask, Fault, Goto
  <2> QED
    BY <2>1 DEF Terminal
<1>21. ASSUME NEW o \in Owners, Settle(o) PROVE TerminalKept
  BY <1>21 DEF Settle, Goto
<1>22. ASSUME NEW o \in Owners, GiveBack(o) PROVE TerminalKept
  BY <1>22 DEF GiveBack, RestoreClaim, RestoreRefused, CompleteClaim, Goto
<1>23. ASSUME NEW o \in Owners, FailClaimed(o) PROVE TerminalKept
  <2>1. \A y \in Tasks : task'[y] = task[y] \/ task'[y] \in {"done", "failed", "canceled"}
    BY <1>23 DEF IInv, LifeTypeOK, FailClaimed, FailPending, UpdatePending, SetTask,
       Fault, Goto
  <2> QED
    BY <2>1 DEF Terminal
<1>24. ASSUME NEW o \in Owners, CancelClaimed(o) PROVE TerminalKept
  <2>1. \A y \in Tasks : task'[y] = task[y] \/ task'[y] \in {"done", "failed", "canceled"}
    BY <1>24 DEF IInv, LifeTypeOK, CancelClaimed, SetTask, Fault, Goto
  <2> QED
    BY <2>1 DEF Terminal
<1>25. ASSUME NEW o \in Owners, Requeue(o) PROVE TerminalKept
  <2>1. Settling(o) /\ JobOf(o) \in Tasks
    BY <1>25, ClaimFacts DEF Requeue, Settling
  <2>2. JobOf(o) \notin early => task[JobOf(o)] \notin Terminal
    BY <2>1 DEF Status, Terminal
  <2>3. \A y \in Tasks : y # JobOf(o) => task'[y] = task[y]
    BY <1>25 DEF IInv, LifeTypeOK, Requeue, SetTask, Fault, Goto
  <2> QED
    BY <2>2, <2>3
<1>26. ASSUME NEW o \in Owners, Enqueue(o) PROVE TerminalKept
  <2>1. \A y \in Tasks : task'[y] = task[y] \/ task'[y] \in {"done", "failed", "canceled"}
    BY <1>26 DEF IInv, LifeTypeOK, Enqueue, SetTask, Fault, Goto
  <2> QED
    BY <2>1 DEF Terminal
<1>27. ASSUME NEW o \in Owners, Complete(o) PROVE TerminalKept
  BY <1>27 DEF Complete, CompleteClaim, Goto
<1>28. ASSUME NEW o \in Owners, ReleaseLease(o) PROVE TerminalKept
  BY <1>28 DEF ReleaseLease, Goto
<1>29. ASSUME NEW id \in Ids, NEW approve \in BOOLEAN, DecideMissing(id, approve)
       PROVE  TerminalKept
  BY <1>29 DEF DecideMissing
<1>30. ASSUME NEW id \in Ids, NEW approve \in BOOLEAN, UpdateMissing(id, approve)
       PROVE  TerminalKept
  <2>1. \A y \in Tasks : task'[y] = task[y] \/ task'[y] \in {"done", "failed", "canceled"}
    BY <1>30 DEF IInv, LifeTypeOK, UpdateMissing, SetTask, Fault
  <2> QED
    BY <2>1 DEF Terminal
<1>31. ASSUME NEW id \in Ids, PassDeadline(id) PROVE TerminalKept
  BY <1>31 DEF PassDeadline
<1>32. ASSUME NEW t \in Timers, FireTimer(t) PROVE TerminalKept
  BY <1>32 DEF FireTimer, Fire
<1>33. ASSUME NEW o \in Owners, Unlock(o) PROVE TerminalKept
  BY <1>33 DEF Unlock, OwnerDone
<1>34. ASSUME NEW o \in Owners, LeaveCallback(o) PROVE TerminalKept
  BY <1>34 DEF LeaveCallback, CallbackDone
<1>35. ASSUME NEW t \in Timers, Stale(t) PROVE TerminalKept
  BY <1>35 DEF Stale, ExpireStale
<1>36. ASSUME StopWorkers PROVE TerminalKept
  BY <1>36 DEF StopWorkers
<1>37. ASSUME RunnerClosed PROVE TerminalKept
  BY <1>37 DEF RunnerClosed
<1>38. ASSUME CloseRegistry PROVE TerminalKept
  BY <1>38 DEF CloseRegistry, CloseStart
<1>39. ASSUME WaitRegistry PROVE TerminalKept
  BY <1>39 DEF WaitRegistry, CloseOwners, CloseReturn
<1>40. ASSUME NEW e \in Entries, ResolveHandle(e) PROVE TerminalKept
  BY <1>40 DEF ResolveHandle, Fault
<1>41. ASSUME NEW e \in Entries, FinalizeHandle(e) PROVE TerminalKept
  <2>1. \A y \in Tasks : task'[y] = task[y] \/ task'[y] \in {"done", "failed", "canceled"}
    BY <1>41 DEF IInv, LifeTypeOK, FinalizeHandle, FailPending, UpdatePending,
       SetTask, Fault
  <2> QED
    BY <2>1 DEF Terminal
<1>42. ASSUME Down PROVE TerminalKept
  BY <1>42 DEF Down
<1>43. CASE UNCHANGED vars
  BY <1>43 DEF vars
<1> QED
  BY <1>1, <1>2, <1>3, <1>4, <1>5, <1>6, <1>7, <1>8, <1>9, <1>10, <1>11, <1>12,
     <1>13, <1>14, <1>15, <1>16, <1>17, <1>18, <1>19, <1>20, <1>21, <1>22, <1>23,
     <1>24, <1>25, <1>26, <1>27, <1>28, <1>29, <1>30, <1>31, <1>32, <1>33, <1>34,
     <1>35, <1>36, <1>37, <1>38, <1>39, <1>40, <1>41, <1>42, <1>43 DEF Next,
     WorkStep, ClaimStep, Arrive, UpdateMissed, CloseStep, Finished

\* A task that is done, failed or canceled does not come back, unless a decision was applied
\* to it before its handle was registered.
THEOREM TerminalIsFinal == Spec => TerminalUnlessEarly
<1>1. TInv /\ [Next]_vars =>
        \A x \in Tasks : task[x] \in Terminal /\ x \notin early => task'[x] \in Terminal
  BY TerminalStep DEF TInv, TerminalKept
<1>2. TInv /\ [Next]_vars =>
        [\A x \in Tasks : task[x] \in Terminal /\ x \notin early => task'[x] \in Terminal]_vars
  BY <1>1
<1> QED
  BY <1>2, SettlingInvariance, PTL DEF Spec, TerminalUnlessEarly
=============================================================================
