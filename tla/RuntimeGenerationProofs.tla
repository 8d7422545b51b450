----------------------- MODULE RuntimeGenerationProofs -----------------------
(***************************************************************************)
(* Theorems about RuntimeGeneration for every number of bundles, leases,   *)
(* callers, contents and edits.  IInv is the inductive invariant: the      *)
(* reference counts are exact, a bundle that is neither current nor        *)
(* retired belongs to the one Reload inside reloadMu, and every bundle     *)
(* that is not cleaned up yet has somebody who will do it.                 *)
(***************************************************************************)
EXTENDS RuntimeGeneration, FiniteSetTheorems, TLAPS

\* The manager: m.current and the flags agree.
Managed ==
  /\ current # None => current \in built /\ current \notin retired \cup cleaned
  /\ retired \subseteq built /\ cleaned \subseteq built
  /\ phase # "up" => /\ built = {} /\ current = None /\ ~closed /\ poll = "off"
                     /\ \A l \in Leases : hold[l] = "unused"
                     /\ \A c \in Callers : point[c] = "idle"
  /\ phase = "up" /\ ~closed => current # None
  /\ closed => current = None
  /\ closing = "open" <=> ~closed
  /\ poll = "reload" <=> point[Poller] # "idle"

\* Leases are on generations, and on one that is cleaned up there is none.
Leased ==
  /\ \A l \in Leases : hold[l] # "unused" =>
        lease[l] \in Bundles /\ (lease[l] \in retired \/ lease[l] = current)
  /\ \A l \in Leases : hold[l] = "last" => lease[l] \in retired /\ refs[lease[l]] = 0
  /\ \A b \in cleaned : refs[b] = 0

Carrying(c) == point[c] \in {"built", "discard"}

\* reloadMu, and what the one caller inside has in its hands.
Reloading ==
  /\ \A c, d \in Callers : Inside(c) /\ Inside(d) => c = d
  /\ \A c \in Callers : Carrying(c) =>
        mine[c] \in built /\ mine[c] \notin retired \cup cleaned /\ mine[c] # current
  /\ \A c \in Callers : point[c] = "discard" => closed
  /\ \A c \in Callers : point[c] \in {"loaded", "build", "built"} => cand[c] \in Contents
  /\ \A c \in Callers : point[c] = "sweep" => old[c] \in retired /\ refs[old[c]] = 0

\* What Close has left to do.
Resigned == rest # None => closed /\ rest \in retired /\ refs[rest] = 0

\* Every bundle that is not cleaned up is in use or in somebody's hands.
InHand(b) ==
  \/ b = current
  \/ \E c \in Callers : Carrying(c) /\ mine[c] = b
  \/ /\ b \in retired
     /\ \/ refs[b] # 0
        \/ \E l \in Leases : hold[l] = "last" /\ lease[l] = b
        \/ \E c \in Callers : point[c] = "sweep" /\ old[c] = b
        \/ closing = "waiting" /\ rest = b

Owed == \A b \in built : b \notin cleaned => InHand(b)

IInv == TypeOK /\ RefsExact /\ Managed /\ Leased /\ Reloading /\ Resigned /\ Owed
-----------------------------------------------------------------------------

\* What a failure and the return of Reload do to the types.
LEMMA FaultTypes ==
  ASSUME TypeOK, Fault
  PROVE  faults' \in 0 .. MaxFaults
BY GenerationAssumption DEF TypeOK, Fault

\* The end of a call keeps the types.
LEMMA ReturnTypes ==
  ASSUME TypeOK, NEW c \in Callers, NEW ok \in BOOLEAN, Return(c, ok)
  PROVE  /\ point' = [point EXCEPT ![c] = "idle"]
         /\ point' \in [Callers -> Points]
         /\ poll' \in {"off", "begin", "wait", "reload", "done"}
         /\ dropped' \in BOOLEAN /\ unseen' \in BOOLEAN
BY DEF TypeOK, Return, Points

\* Every variable keeps its type.
LEMMA TypeStep ==
  ASSUME TypeOK, Managed, Leased, Reloading, Resigned, [Next]_vars
  PROVE  TypeOK'
<1> USE DEF genVars, leaseVars, reloadVars, pollVars, closeVars, fileVars, history, vars
<1>1. CASE NewFingerprint
  BY <1>1, GenerationAssumption DEF NewFingerprint, Fault, TypeOK, Phases
<1>2. CASE NewFails
  BY <1>2, GenerationAssumption DEF NewFails, Fault, TypeOK, Phases
<1>3. ASSUME NEW b \in Bundles, NewBuild(b) PROVE TypeOK'
  BY <1>3 DEF NewBuild, TypeOK, Phases
<1>4. ASSUME NEW l \in Leases, Capture(l) PROVE TypeOK'
  BY <1>4 DEF Capture, TypeOK
<1>5. ASSUME NEW l \in Leases, Release(l) PROVE TypeOK'
  BY <1>5 DEF Release, TypeOK, Leased
<1>6. ASSUME NEW l \in Leases, CleanupLast(l) PROVE TypeOK'
  BY <1>6 DEF CleanupLast, Cleanup, TypeOK, Leased
<1>7. ASSUME NEW c \in Callers, CallReload(c) PROVE TypeOK'
  BY <1>7 DEF CallReload, TypeOK, Points
<1>8. ASSUME NEW c \in Callers, LockReload(c) PROVE TypeOK'
  BY <1>8 DEF LockReload, TypeOK, Points
<1>9. ASSUME NEW c \in Callers, LoadCandidate(c) PROVE TypeOK'
  <2>1. CASE /\ cand' = [cand EXCEPT ![c] = file]
             /\ point' = [point EXCEPT ![c] = "loaded"]
             /\ torn' = (file # last \/ (c # Poller /\ torn))
             /\ UNCHANGED <<poll, dropped, unseen, faults>>
    <3>1. torn' \in BOOLEAN
      BY <2>1, Zenon DEF TypeOK
    <3>2. cand' \in [Callers -> Contents \cup {None}] /\ point' \in [Callers -> Points]
      BY <2>1 DEF TypeOK, Points
    <3> QED
      BY <1>9, <2>1, <3>1, <3>2 DEF LoadCandidate, TypeOK
  <2>2. CASE Fault /\ Return(c, FALSE) /\ UNCHANGED <<cand, torn>>
    BY <1>9, <2>2, FaultTypes, ReturnTypes, ZenonT(60) DEF LoadCandidate, TypeOK
  <2> QED
    BY <1>9, <2>1, <2>2 DEF LoadCandidate
<1>10. ASSUME NEW c \in Callers, CheckCandidate(c) PROVE TypeOK'
  <2>1. CASE Return(c, ~closed)
    BY <1>10, <2>1, ReturnTypes, ZenonT(60) DEF CheckCandidate, TypeOK
  <2>2. CASE point' = [point EXCEPT ![c] = "build"] /\ UNCHANGED <<poll, dropped, unseen>>
    BY <1>10, <2>2, SMT DEF CheckCandidate, TypeOK, Points
  <2> QED
    BY <1>10, <2>1, <2>2 DEF CheckCandidate
<1>11. ASSUME NEW c \in Callers, BuildCandidate(c) PROVE TypeOK'
  <2>1. ASSUME NEW b \in Bundles, FreshBundle(b),
               built' = built \cup {b},
               config' = [config EXCEPT ![b] = cand[c]],
               mine' = [mine EXCEPT ![c] = b],
               point' = [point EXCEPT ![c] = "built"],
               UNCHANGED <<poll, dropped, unseen, faults>>
        PROVE  TypeOK'
    BY <1>11, <2>1 DEF BuildCandidate, TypeOK, Points
  <2>2. CASE (Fault \/ UNCHANGED faults) /\ Return(c, FALSE) /\ UNCHANGED <<built, config, mine>>
    BY <1>11, <2>2, FaultTypes, ReturnTypes, ZenonT(60) DEF BuildCandidate, TypeOK
  <2> QED
    BY <1>11, <2>1, <2>2 DEF BuildCandidate
<1>12. ASSUME NEW c \in Callers, Commit(c) PROVE TypeOK'
  <2>1. CASE closed
    BY <1>12, <2>1 DEF Commit, TypeOK, Points
  <2>2. CASE ~closed
    <3>1. mine[c] \in Bundles /\ cand[c] \in Contents /\ current \in Bundles
      BY <1>12, <2>2 DEF Commit, TypeOK, Managed, Reloading, Carrying
    <3>2. current' \in Bundles /\ source' \in Contents /\ retired' \subseteq Bundles
      BY <1>12, <2>2, <3>1 DEF Commit, TypeOK
    <3>3. CASE Idle(current)
      BY <1>12, <2>2, <3>1, <3>2, <3>3 DEF Commit, TypeOK, Points
    <3>4. CASE ~Idle(current)
      <4>1. Return(c, TRUE)
        BY <1>12, <2>2, <3>4 DEF Commit
      <4> QED
        BY <1>12, <2>2, <3>2, <3>4, <4>1, ReturnTypes DEF Commit, TypeOK
    <3> QED
      BY <3>3, <3>4
  <2> QED
    BY <2>1, <2>2
<1>13. ASSUME NEW c \in Callers, Discard(c) PROVE TypeOK'
  <2>1. Return(c, FALSE) /\ mine[c] \in Bundles
    BY <1>13 DEF Discard, Reloading, Carrying, TypeOK
  <2> QED
    BY <1>13, <2>1, ReturnTypes, ZenonT(60) DEF Discard, Cleanup, TypeOK
<1>14. ASSUME NEW c \in Callers, SweepPrevious(c) PROVE TypeOK'
  <2>1. Return(c, TRUE) /\ old[c] \in Bundles
    BY <1>14 DEF SweepPrevious, Reloading, TypeOK
  <2> QED
    BY <1>14, <2>1, ReturnTypes, ZenonT(60) DEF SweepPrevious, Cleanup, TypeOK
<1>15. CASE Start
  BY <1>15 DEF Start, TypeOK
<1>16. CASE PollBegin
  BY <1>16, GenerationAssumption DEF PollBegin, Fault, TypeOK
<1>17. CASE PollTick
  BY <1>17, GenerationAssumption DEF PollTick, Fault, TypeOK, Points
<1>18. CASE PollExit
  BY <1>18 DEF PollExit, TypeOK
<1>19. CASE CancelContext
  BY <1>19 DEF CancelContext, TypeOK
<1>20. CASE Close
  BY <1>20 DEF Close, TypeOK, Managed
<1>21. CASE CloseReturn
  BY <1>21 DEF CloseReturn, TypeOK
<1>22. ASSUME NEW x \in Contents, EditFile(x) PROVE TypeOK'
  BY <1>22, GenerationAssumption DEF EditFile, TypeOK
<1>23. CASE UNCHANGED vars
  BY <1>23 DEF TypeOK
<1> QED
  BY <1>1, <1>2, <1>3, <1>4, <1>5, <1>6, <1>7, <1>8, <1>9, <1>10, <1>11, <1>12, <1>13,
     <1>14, <1>15, <1>16, <1>17, <1>18, <1>19, <1>20, <1>21, <1>22, <1>23 DEF Next,
     ReloadStep, Rested


\* The leases on a bundle are finitely many.
LEMMA HoldersFinite == \A b : IsFiniteSet(Holders(b))
BY GenerationAssumption, FS_Subset DEF Holders

\* Capture and Release move one lease in or out of the holders it counts.
LEMMA CaptureCounts ==
  ASSUME TypeOK, RefsExact, Managed, NEW l \in Leases, Capture(l)
  PROVE  RefsExact'
<1>1. current \in Bundles /\ hold[l] = "unused"
  BY DEF Capture, TypeOK
<1>2. Holders(current)' = Holders(current) \cup {l} /\ l \notin Holders(current)
  BY <1>1 DEF Capture, Holders, TypeOK
<1>3. \A b \in Bundles : b # current => Holders(b)' = Holders(b)
  BY <1>1 DEF Capture, Holders, TypeOK
<1>4. Cardinality(Holders(current) \cup {l}) = Cardinality(Holders(current)) + 1
  BY <1>2, HoldersFinite, FS_AddElement
<1>5. refs' = [refs EXCEPT ![current] = @ + 1]
  BY DEF Capture
<1> SUFFICES ASSUME NEW b \in Bundles PROVE refs'[b] = Cardinality(Holders(b)')
  BY DEF RefsExact
<1>6. CASE b = current
  <2>1. refs'[current] = refs[current] + 1
    BY <1>1, <1>5 DEF TypeOK
  <2>2. refs[current] = Cardinality(Holders(current))
    BY <1>1 DEF RefsExact
  <2>3. Holders(b)' = Holders(current) \cup {l}
    <3>1. lease' = [lease EXCEPT ![l] = current] /\ hold' = [hold EXCEPT ![l] = "held"]
      BY DEF Capture
    <3> QED
      BY <1>1, <1>6, <3>1 DEF Holders, TypeOK
  <2> QED
    BY <1>4, <1>6, <2>1, <2>2, <2>3
<1>7. CASE b # current
  BY <1>1, <1>3, <1>5, <1>7 DEF RefsExact
<1> QED
  BY <1>6, <1>7

\* What releasing a lease does to the counts.
LEMMA ReleaseCounts ==
  ASSUME TypeOK, RefsExact, Leased, NEW l \in Leases, Release(l)
  PROVE  /\ RefsExact'
         /\ lease[l] \in Bundles
         /\ refs[lease[l]] > 0
         /\ refs' = [refs EXCEPT ![lease[l]] = @ - 1]
<1>1. lease[l] \in Bundles /\ hold[l] = "held"
  BY DEF Release, Leased
<1>2. l \in Holders(lease[l]) /\ Holders(lease[l])' = Holders(lease[l]) \ {l}
  BY <1>1 DEF Release, Holders, TypeOK
<1>3. \A b \in Bundles : b # lease[l] => Holders(b)' = Holders(b)
  BY <1>1 DEF Release, Holders
<1>4. /\ Cardinality(Holders(lease[l])) \in Nat
      /\ Cardinality(Holders(lease[l]) \ {l}) \in Nat
      /\ Cardinality(Holders(lease[l]) \ {l}) = Cardinality(Holders(lease[l])) - 1
  <2>1. IsFiniteSet(Holders(lease[l]) \ {l})
        /\ Cardinality(Holders(lease[l]) \ {l}) = Cardinality(Holders(lease[l])) - 1
    BY <1>2, HoldersFinite, FS_RemoveElement
  <2> QED
    BY <2>1, HoldersFinite, FS_CardinalityType
<1>5. refs[lease[l]] = Cardinality(Holders(lease[l])) /\ refs[lease[l]] > 0
  BY <1>1, <1>4 DEF RefsExact
<1>6. refs' = [refs EXCEPT ![lease[l]] = @ - 1]
  BY <1>5 DEF Release
<1>7. ASSUME NEW b \in Bundles PROVE refs'[b] = Cardinality(Holders(b)')
  <2>1. CASE b = lease[l]
    <3>1. refs'[b] = refs[lease[l]] - 1
      BY <1>1, <1>6, <2>1 DEF TypeOK
    <3>2. Holders(b)' = Holders(lease[l]) \ {l}
      <4>1. lease' = lease
        BY DEF Release
      <4> QED
        BY <1>2, <2>1, <4>1 DEF Holders
    <3> QED
      BY <1>4, <1>5, <3>1, <3>2
  <2>2. CASE b # lease[l]
    BY <1>1, <1>3, <1>6, <2>2 DEF RefsExact
  <2> QED
    BY <2>1, <2>2
<1> QED
  BY <1>1, <1>5, <1>6, <1>7 DEF RefsExact

\* A step that moves no lease keeps the counts.
LEMMA RefsFrame ==
  ASSUME RefsExact, UNCHANGED <<refs, lease>>,
         \A l \in Leases : hold'[l] = "held" <=> hold[l] = "held"
  PROVE  RefsExact'
<1>1. \A b \in Bundles : Holders(b)' = Holders(b)
  BY DEF Holders
<1> QED
  BY <1>1 DEF RefsExact

\* The counts stay exact.
LEMMA RefsStep ==
  ASSUME TypeOK, RefsExact, Managed, Leased, [Next]_vars
  PROVE  RefsExact'
<1> USE DEF genVars, leaseVars, reloadVars, pollVars, closeVars, fileVars, history, vars
<1>1. CASE NewFingerprint
  BY <1>1, RefsFrame DEF NewFingerprint
<1>2. CASE NewFails
  BY <1>2, RefsFrame DEF NewFails
<1>3. ASSUME NEW b \in Bundles, NewBuild(b) PROVE RefsExact'
  BY <1>3, RefsFrame DEF NewBuild
<1>4. ASSUME NEW l \in Leases, Capture(l) PROVE RefsExact'
  BY <1>4, CaptureCounts
<1>5. ASSUME NEW l \in Leases, Release(l) PROVE RefsExact'
  BY <1>5, ReleaseCounts
<1>6. ASSUME NEW l \in Leases, CleanupLast(l) PROVE RefsExact'
  <2>1. \A k \in Leases : hold'[k] = "held" <=> hold[k] = "held"
    BY <1>6 DEF CleanupLast
  <2> QED
    BY <1>6, <2>1, RefsFrame DEF CleanupLast
<1>7. ASSUME NEW c \in Callers, CallReload(c) PROVE RefsExact'
  BY <1>7, RefsFrame DEF CallReload
<1>8. ASSUME NEW c \in Callers, LockReload(c) PROVE RefsExact'
  BY <1>8, RefsFrame DEF LockReload
<1>9. ASSUME NEW c \in Callers, LoadCandidate(c) PROVE RefsExact'
  BY <1>9, RefsFrame DEF LoadCandidate
<1>10. ASSUME NEW c \in Callers, CheckCandidate(c) PROVE RefsExact'
  BY <1>10, RefsFrame DEF CheckCandidate
<1>11. ASSUME NEW c \in Callers, BuildCandidate(c) PROVE RefsExact'
  BY <1>11, RefsFrame DEF BuildCandidate
<1>12. ASSUME NEW c \in Callers, Commit(c) PROVE RefsExact'
  BY <1>12, RefsFrame DEF Commit
<1>13. ASSUME NEW c \in Callers, Discard(c) PROVE RefsExact'
  BY <1>13, RefsFrame DEF Discard, Cleanup
<1>14. ASSUME NEW c \in Callers, SweepPrevious(c) PROVE RefsExact'
  BY <1>14, RefsFrame DEF SweepPrevious, Cleanup
<1>15. CASE Start
  BY <1>15, RefsFrame DEF Start
<1>16. CASE PollBegin
  BY <1>16, RefsFrame DEF PollBegin
<1>17. CASE PollTick
  BY <1>17, RefsFrame DEF PollTick
<1>18. CASE PollExit
  BY <1>18, RefsFrame DEF PollExit
<1>19. CASE CancelContext
  BY <1>19, RefsFrame DEF CancelContext
<1>20. CASE Close
  BY <1>20, RefsFrame DEF Close
<1>21. CASE CloseReturn
  BY <1>21, RefsFrame DEF CloseReturn
<1>22. ASSUME NEW x \in Contents, EditFile(x) PROVE RefsExact'
  BY <1>22, RefsFrame DEF EditFile
<1>23. CASE UNCHANGED vars
  BY <1>23, RefsFrame
<1> QED
  BY <1>1, <1>2, <1>3, <1>4, <1>5, <1>6, <1>7, <1>8, <1>9, <1>10, <1>11, <1>12, <1>13,
     <1>14, <1>15, <1>16, <1>17, <1>18, <1>19, <1>20, <1>21, <1>22, <1>23 DEF Next,
     ReloadStep, Rested

\* The manager stays consistent.
LEMMA ManagedStep ==
  ASSUME TypeOK, RefsExact, Managed, Leased, Reloading, Resigned, Owed, [Next]_vars
  PROVE  Managed'
<1> USE DEF genVars, leaseVars, reloadVars, pollVars, closeVars, fileVars, history, vars
<1>1. CASE NewFingerprint
  BY <1>1 DEF NewFingerprint, Managed
<1>2. CASE NewFails
  BY <1>2 DEF NewFails, Managed
<1>3. ASSUME NEW b \in Bundles, NewBuild(b) PROVE Managed'
  BY <1>3, GenerationAssumption DEF NewBuild, Managed
<1>4. ASSUME NEW l \in Leases, Capture(l) PROVE Managed'
  BY <1>4 DEF Capture, Managed
<1>5. ASSUME NEW l \in Leases, Release(l) PROVE Managed'
  BY <1>5 DEF Release, Managed
<1>6. ASSUME NEW l \in Leases, CleanupLast(l) PROVE Managed'
  BY <1>6 DEF CleanupLast, Cleanup, Managed, Leased
<1>7. ASSUME NEW c \in Callers, CallReload(c) PROVE Managed'
  BY <1>7 DEF CallReload, Managed
<1>8. ASSUME NEW c \in Callers, LockReload(c) PROVE Managed'
  BY <1>8 DEF LockReload, Managed
<1>9. ASSUME NEW c \in Callers, LoadCandidate(c) PROVE Managed'
  BY <1>9, GenerationAssumption DEF LoadCandidate, Return, Managed, TypeOK
<1>10. ASSUME NEW c \in Callers, CheckCandidate(c) PROVE Managed'
  BY <1>10, GenerationAssumption DEF CheckCandidate, Return, Managed, TypeOK
<1>11. ASSUME NEW c \in Callers, BuildCandidate(c) PROVE Managed'
  BY <1>11, GenerationAssumption DEF BuildCandidate, Return, Managed, TypeOK
<1>12. ASSUME NEW c \in Callers, Commit(c) PROVE Managed'
  BY <1>12, GenerationAssumption DEF Commit, Return, Managed, TypeOK, Reloading, Carrying
<1>13. ASSUME NEW c \in Callers, Discard(c) PROVE Managed'
  BY <1>13 DEF Discard, Cleanup, Return, Managed, TypeOK, Reloading, Carrying
<1>14. ASSUME NEW c \in Callers, SweepPrevious(c) PROVE Managed'
  BY <1>14 DEF SweepPrevious, Cleanup, Return, Managed, TypeOK, Reloading
<1>15. CASE Start
  BY <1>15 DEF Start, Managed
<1>16. CASE PollBegin
  BY <1>16 DEF PollBegin, Managed
<1>17. CASE PollTick
  BY <1>17, GenerationAssumption DEF PollTick, Managed, TypeOK
<1>18. CASE PollExit
  BY <1>18 DEF PollExit, Managed
<1>19. CASE CancelContext
  BY <1>19 DEF CancelContext, Managed
<1>20. CASE Close
  BY <1>20 DEF Close, Managed
<1>21. CASE CloseReturn
  BY <1>21 DEF CloseReturn, Managed, Resigned
<1>22. ASSUME NEW x \in Contents, EditFile(x) PROVE Managed'
  BY <1>22 DEF EditFile, Managed
<1>23. CASE UNCHANGED vars
  BY <1>23 DEF Return, Managed
<1> QED
  BY <1>1, <1>2, <1>3, <1>4, <1>5, <1>6, <1>7, <1>8, <1>9, <1>10, <1>11, <1>12, <1>13,
     <1>14, <1>15, <1>16, <1>17, <1>18, <1>19, <1>20, <1>21, <1>22, <1>23 DEF Next,
     ReloadStep, Rested

\* Leases stay on generations that are not cleaned up.
LEMMA LeasedStep ==
  ASSUME TypeOK, RefsExact, Managed, Leased, Reloading, Resigned, Owed, [Next]_vars
  PROVE  Leased'
<1> USE DEF genVars, leaseVars, reloadVars, pollVars, closeVars, fileVars, history, vars
<1>1. CASE NewFingerprint
  BY <1>1 DEF NewFingerprint, Leased
<1>2. CASE NewFails
  BY <1>2 DEF NewFails, Leased
<1>3. ASSUME NEW b \in Bundles, NewBuild(b) PROVE Leased'
  BY <1>3 DEF NewBuild, Managed, Leased
<1>4. ASSUME NEW l \in Leases, Capture(l) PROVE Leased'
  BY <1>4 DEF Capture, TypeOK, Leased
<1>5. ASSUME NEW l \in Leases, Release(l) PROVE Leased'
  BY <1>5 DEF Release, Leased
<1>6. ASSUME NEW l \in Leases, CleanupLast(l) PROVE Leased'
  BY <1>6 DEF CleanupLast, Cleanup, Leased
<1>7. ASSUME NEW c \in Callers, CallReload(c) PROVE Leased'
  BY <1>7 DEF CallReload, Leased
<1>8. ASSUME NEW c \in Callers, LockReload(c) PROVE Leased'
  BY <1>8 DEF LockReload, Leased
<1>9. ASSUME NEW c \in Callers, LoadCandidate(c) PROVE Leased'
  BY <1>9 DEF LoadCandidate, Leased
<1>10. ASSUME NEW c \in Callers, CheckCandidate(c) PROVE Leased'
  BY <1>10 DEF CheckCandidate, Leased
<1>11. ASSUME NEW c \in Callers, BuildCandidate(c) PROVE Leased'
  BY <1>11 DEF BuildCandidate, Leased
<1>12. ASSUME NEW c \in Callers, Commit(c) PROVE Leased'
  BY <1>12 DEF Commit, Return, Leased
<1>13. ASSUME NEW c \in Callers, Discard(c) PROVE Leased'
  <2>1. mine[c] \in Bundles /\ Holders(mine[c]) = {}
    BY <1>13 DEF Discard, Holders, Leased, Reloading, Carrying, TypeOK
  <2>2. refs[mine[c]] = 0
    BY <2>1, FS_EmptySet DEF RefsExact
  <2> QED
    BY <1>13, <2>1, <2>2 DEF Discard, Cleanup, Leased
<1>14. ASSUME NEW c \in Callers, SweepPrevious(c) PROVE Leased'
  BY <1>14 DEF SweepPrevious, Cleanup, Reloading, Leased
<1>15. CASE Start
  BY <1>15 DEF Start, Leased
<1>16. CASE PollBegin
  BY <1>16 DEF PollBegin, Leased
<1>17. CASE PollTick
  BY <1>17 DEF PollTick, Leased
<1>18. CASE PollExit
  BY <1>18 DEF PollExit, Leased
<1>19. CASE CancelContext
  BY <1>19 DEF CancelContext, Leased
<1>20. CASE Close
  BY <1>20 DEF Close, Leased
<1>21. CASE CloseReturn
  BY <1>21 DEF CloseReturn, Resigned, Leased
<1>22. ASSUME NEW x \in Contents, EditFile(x) PROVE Leased'
  BY <1>22 DEF EditFile, Leased
<1>23. CASE UNCHANGED vars
  BY <1>23 DEF Managed, Leased
<1> QED
  BY <1>1, <1>2, <1>3, <1>4, <1>5, <1>6, <1>7, <1>8, <1>9, <1>10, <1>11, <1>12, <1>13,
     <1>14, <1>15, <1>16, <1>17, <1>18, <1>19, <1>20, <1>21, <1>22, <1>23 DEF Next,
     ReloadStep, Rested

\* What a caller of Reload has in its hands stays its own.
LEMMA ReloadingStep ==
  ASSUME TypeOK, RefsExact, Managed, Leased, Reloading, Resigned, Owed, [Next]_vars
  PROVE  Reloading'
<1> USE DEF genVars, leaseVars, reloadVars, pollVars, closeVars, fileVars, history, vars
<1>1. CASE NewFingerprint
  BY <1>1 DEF NewFingerprint, Reloading, Carrying, Inside
<1>2. CASE NewFails
  BY <1>2 DEF NewFails, Reloading, Carrying, Inside
<1>3. ASSUME NEW b \in Bundles, NewBuild(b) PROVE Reloading'
  BY <1>3 DEF NewBuild, Managed, Reloading, Carrying, Inside
<1>4. ASSUME NEW l \in Leases, Capture(l) PROVE Reloading'
  BY <1>4 DEF Capture, Reloading, Carrying, Inside
<1>5. ASSUME NEW l \in Leases, Release(l) PROVE Reloading'
  BY <1>5 DEF Release, Reloading, Carrying, Inside
<1>6. ASSUME NEW l \in Leases, CleanupLast(l) PROVE Reloading'
  BY <1>6 DEF CleanupLast, Cleanup, Reloading, Leased, Carrying, Inside
<1>7. ASSUME NEW c \in Callers, CallReload(c) PROVE Reloading'
  BY <1>7 DEF CallReload, Reloading, Carrying, Inside
<1>8. ASSUME NEW c \in Callers, LockReload(c) PROVE Reloading'
  BY <1>8 DEF LockReload, Reloading, Carrying, Inside
<1>9. ASSUME NEW c \in Callers, LoadCandidate(c) PROVE Reloading'
  BY <1>9 DEF LoadCandidate, Return, TypeOK, Reloading, Carrying, Inside
<1>10. ASSUME NEW c \in Callers, CheckCandidate(c) PROVE Reloading'
  BY <1>10 DEF CheckCandidate, Return, TypeOK, Reloading, Carrying, Inside
<1>11. ASSUME NEW c \in Callers, BuildCandidate(c) PROVE Reloading'
  BY <1>11, GenerationAssumption DEF BuildCandidate, Return, FreshBundle, Return,
     Managed, TypeOK, Reloading, Carrying, Inside
<1>12. ASSUME NEW c \in Callers, Commit(c) PROVE Reloading'
  BY <1>12 DEF Commit, Return, Idle, Return, TypeOK, Reloading, Carrying, Inside
<1>13. ASSUME NEW c \in Callers, Discard(c) PROVE Reloading'
  BY <1>13 DEF Discard, Cleanup, Return, TypeOK, Reloading, Carrying, Inside
<1>14. ASSUME NEW c \in Callers, SweepPrevious(c) PROVE Reloading'
  BY <1>14 DEF SweepPrevious, Cleanup, Return, Reloading, Carrying, Inside
<1>15. CASE Start
  BY <1>15 DEF Start, Reloading, Carrying, Inside
<1>16. CASE PollBegin
  BY <1>16 DEF PollBegin, Reloading, Carrying, Inside
<1>17. CASE PollTick
  BY <1>17 DEF PollTick, TypeOK, Reloading, Carrying, Inside
<1>18. CASE PollExit
  BY <1>18 DEF PollExit, Reloading, Carrying, Inside
<1>19. CASE CancelContext
  BY <1>19 DEF CancelContext, Reloading, Carrying, Inside
<1>20. CASE Close
  BY <1>20, GenerationAssumption DEF Close, TypeOK, Reloading, Carrying, Inside
<1>21. CASE CloseReturn
  BY <1>21 DEF CloseReturn, Reloading, Resigned, Carrying, Inside
<1>22. ASSUME NEW x \in Contents, EditFile(x) PROVE Reloading'
  BY <1>22 DEF EditFile, Reloading, Carrying, Inside
<1>23. CASE UNCHANGED vars
  BY <1>23 DEF Return, Reloading, Carrying, Inside
<1> QED
  BY <1>1, <1>2, <1>3, <1>4, <1>5, <1>6, <1>7, <1>8, <1>9, <1>10, <1>11, <1>12, <1>13,
     <1>14, <1>15, <1>16, <1>17, <1>18, <1>19, <1>20, <1>21, <1>22, <1>23 DEF Next,
     ReloadStep, Rested

\* What Close has to clean up nobody gets back.
LEMMA ResignedStep ==
  ASSUME TypeOK, RefsExact, Managed, Leased, Reloading, Resigned, Owed, [Next]_vars
  PROVE  Resigned'
<1> USE DEF genVars, leaseVars, reloadVars, pollVars, closeVars, fileVars, history, vars
<1>1. CASE NewFingerprint
  BY <1>1 DEF NewFingerprint, Resigned
<1>2. CASE NewFails
  BY <1>2 DEF NewFails, Resigned
<1>3. ASSUME NEW b \in Bundles, NewBuild(b) PROVE Resigned'
  BY <1>3 DEF NewBuild, Resigned
<1>4. ASSUME NEW l \in Leases, Capture(l) PROVE Resigned'
  BY <1>4 DEF Capture, Resigned
<1>5. ASSUME NEW l \in Leases, Release(l) PROVE Resigned'
  BY <1>5 DEF Release, Resigned
<1>6. ASSUME NEW l \in Leases, CleanupLast(l) PROVE Resigned'
  BY <1>6 DEF CleanupLast, Cleanup, Resigned
<1>7. ASSUME NEW c \in Callers, CallReload(c) PROVE Resigned'
  BY <1>7 DEF CallReload, Resigned
<1>8. ASSUME NEW c \in Callers, LockReload(c) PROVE Resigned'
  BY <1>8 DEF LockReload, Resigned
<1>9. ASSUME NEW c \in Callers, LoadCandidate(c) PROVE Resigned'
  BY <1>9 DEF LoadCandidate, Resigned
<1>10. ASSUME NEW c \in Callers, CheckCandidate(c) PROVE Resigned'
  BY <1>10 DEF CheckCandidate, Resigned
<1>11. ASSUME NEW c \in Callers, BuildCandidate(c) PROVE Resigned'
  BY <1>11 DEF BuildCandidate, Resigned
<1>12. ASSUME NEW c \in Callers, Commit(c) PROVE Resigned'
  BY <1>12 DEF Commit, Resigned
<1>13. ASSUME NEW c \in Callers, Discard(c) PROVE Resigned'
  BY <1>13 DEF Discard, Cleanup, Resigned
<1>14. ASSUME NEW c \in Callers, SweepPrevious(c) PROVE Resigned'
  BY <1>14 DEF SweepPrevious, Cleanup, Resigned
<1>15. CASE Start
  BY <1>15 DEF Start, Resigned
<1>16. CASE PollBegin
  BY <1>16 DEF PollBegin, Resigned
<1>17. CASE PollTick
  BY <1>17 DEF PollTick, Resigned
<1>18. CASE PollExit
  BY <1>18 DEF PollExit, Resigned
<1>19. CASE CancelContext
  BY <1>19 DEF CancelContext, Resigned
<1>20. CASE Close
  BY <1>20 DEF Close, Idle, Resigned
<1>21. CASE CloseReturn
  BY <1>21 DEF CloseReturn, Resigned
<1>22. ASSUME NEW x \in Contents, EditFile(x) PROVE Resigned'
  BY <1>22 DEF EditFile, Resigned
<1>23. CASE UNCHANGED vars
  BY <1>23 DEF Managed, Resigned
<1> QED
  BY <1>1, <1>2, <1>3, <1>4, <1>5, <1>6, <1>7, <1>8, <1>9, <1>10, <1>11, <1>12, <1>13,
     <1>14, <1>15, <1>16, <1>17, <1>18, <1>19, <1>20, <1>21, <1>22, <1>23 DEF Next,
     ReloadStep, Rested

\* No bundle is forgotten.
LEMMA OwedStep ==
  ASSUME TypeOK, RefsExact, Managed, Leased, Reloading, Resigned, Owed, [Next]_vars
  PROVE  Owed'
<1> USE DEF genVars, leaseVars, reloadVars, pollVars, closeVars, fileVars, history, vars
<1>1. CASE NewFingerprint
  BY <1>1 DEF NewFingerprint, Owed, Managed
<1>2. CASE NewFails
  BY <1>2 DEF NewFails, Owed, Managed
<1>3. ASSUME NEW b \in Bundles, NewBuild(b) PROVE Owed'
  BY <1>3 DEF NewBuild, InHand, Owed, Managed
<1>4. ASSUME NEW l \in Leases, Capture(l) PROVE Owed'
  BY <1>4 DEF Capture, InHand, Owed, Carrying
<1>5. ASSUME NEW l \in Leases, Release(l) PROVE Owed'
  BY <1>5 DEF Release, InHand, Owed, TypeOK, Carrying
<1>6. ASSUME NEW l \in Leases, CleanupLast(l) PROVE Owed'
  BY <1>6 DEF CleanupLast, Cleanup, InHand, Owed, Carrying
<1>7. ASSUME NEW c \in Callers, CallReload(c) PROVE Owed'
  BY <1>7 DEF CallReload, InHand, Owed, Carrying
<1>8. ASSUME NEW c \in Callers, LockReload(c) PROVE Owed'
  BY <1>8 DEF LockReload, InHand, Owed, Carrying
<1>9. ASSUME NEW c \in Callers, LoadCandidate(c) PROVE Owed'
  BY <1>9 DEF LoadCandidate, InHand, Owed, Reloading, Carrying, Inside
<1>10. ASSUME NEW c \in Callers, CheckCandidate(c) PROVE Owed'
  BY <1>10 DEF CheckCandidate, InHand, Owed, Reloading, Carrying, Inside
<1>11. ASSUME NEW c \in Callers, BuildCandidate(c) PROVE Owed'
  BY <1>11 DEF BuildCandidate, Return, InHand, Owed, TypeOK, Carrying
<1>12. ASSUME NEW c \in Callers, Commit(c) PROVE Owed'
  BY <1>12 DEF Commit, Return, Idle, Return, InHand, Owed, TypeOK, Carrying
<1>13. ASSUME NEW c \in Callers, Discard(c) PROVE Owed'
  BY <1>13 DEF Discard, Cleanup, InHand, Owed, Reloading, Carrying, Inside
<1>14. ASSUME NEW c \in Callers, SweepPrevious(c) PROVE Owed'
  BY <1>14 DEF SweepPrevious, Cleanup, InHand, Owed, Reloading, Carrying, Inside
<1>15. CASE Start
  BY <1>15 DEF Start, InHand, Owed, Carrying
<1>16. CASE PollBegin
  BY <1>16 DEF PollBegin, InHand, Owed, Carrying
<1>17. CASE PollTick
  BY <1>17 DEF PollTick, InHand, Owed, Managed, TypeOK, Carrying
<1>18. CASE PollExit
  BY <1>18 DEF PollExit, InHand, Owed, Carrying
<1>19. CASE CancelContext
  BY <1>19 DEF CancelContext, InHand, Owed, Carrying
<1>20. CASE Close
  BY <1>20 DEF Close, Idle, InHand, Owed, Resigned, Carrying
<1>21. CASE CloseReturn
  BY <1>21, GenerationAssumption DEF CloseReturn, InHand, Owed, TypeOK, Carrying
<1>22. ASSUME NEW x \in Contents, EditFile(x) PROVE Owed'
  BY <1>22 DEF EditFile, InHand, Owed, Carrying
<1>23. CASE UNCHANGED vars
  BY <1>23 DEF Return, InHand, Owed, Carrying
<1> QED
  BY <1>1, <1>2, <1>3, <1>4, <1>5, <1>6, <1>7, <1>8, <1>9, <1>10, <1>11, <1>12, <1>13,
     <1>14, <1>15, <1>16, <1>17, <1>18, <1>19, <1>20, <1>21, <1>22, <1>23 DEF Next,
     ReloadStep, Rested


\* The initial state satisfies the invariant.
LEMMA IInvInit == Init => IInv
<1> SUFFICES ASSUME Init PROVE IInv
  OBVIOUS
<1>1. TypeOK
  <2>1. edits \in 0 .. MaxEdits /\ faults \in 0 .. MaxFaults
    BY GenerationAssumption DEF Init
  <2>2. /\ config \in [Bundles -> Contents \cup {None}]
        /\ refs \in [Bundles -> Nat]
        /\ lease \in [Leases -> Bundles \cup {None}]
        /\ hold \in [Leases -> {"unused", "held", "last", "released"}]
        /\ point \in [Callers -> Points]
        /\ cand \in [Callers -> Contents \cup {None}]
        /\ mine \in [Callers -> Bundles \cup {None}]
        /\ old \in [Callers -> Bundles \cup {None}]
    BY DEF Init, Points
  <2> QED
    BY <2>1, <2>2 DEF Init, TypeOK, Phases
<1>2. RefsExact
  <2>1. \A b \in Bundles : Holders(b) = {} /\ refs[b] = 0
    BY DEF Init, Holders
  <2> QED
    BY <2>1, FS_EmptySet DEF RefsExact
<1>3. Managed /\ Leased /\ Reloading /\ Resigned /\ Owed
  BY GenerationAssumption DEF Init, Managed, Leased, Reloading, Carrying, Inside,
     Resigned, Owed
<1> QED
  BY <1>1, <1>2, <1>3 DEF IInv

\* The manager stays as the invariant says.
THEOREM Invariance == Spec => []IInv
<1>1. IInv /\ [Next]_vars => IInv'
  BY TypeStep, RefsStep, ManagedStep, LeasedStep, ReloadingStep, ResignedStep, OwedStep
     DEF IInv
<1> QED
  BY IInvInit, <1>1, PTL DEF Spec

\* The variables keep their types; in particular no reference count goes below
\* zero, whoever releases a lease when.
THEOREM TypeCorrect == Spec => []TypeOK
<1>1. IInv => TypeOK
  BY DEF IInv
<1> QED
  BY Invariance, <1>1, PTL

\* g.refs is the number of leases out, so retire and release, which look at it
\* under different locks, agree on who is last.
THEOREM CountsExact == Spec => []RefsExact
<1>1. IInv => RefsExact
  BY DEF IInv
<1> QED
  BY Invariance, <1>1, PTL

\* A bundle that is about to be cleaned up is free.
LEMMA CleanedIsFree == IInv => NeverUsedAfterCleanup
<1> SUFFICES ASSUME IInv PROVE NeverUsedAfterCleanup
  OBVIOUS
<1>1. ASSUME NEW b \in cleaned PROVE Holders(b) = {}
  <2>1. b \in Bundles /\ refs[b] = 0
    BY DEF IInv, TypeOK, Leased
  <2>2. Cardinality(Holders(b)) = 0
    BY <2>1 DEF IInv, RefsExact
  <2> QED
    BY <2>2, HoldersFinite, FS_EmptySet
<1>2. current \notin cleaned
  BY GenerationAssumption DEF IInv, Managed, TypeOK
<1> QED
  BY <1>1, <1>2 DEF NeverUsedAfterCleanup

\* A running task's tools, stores and clients are never shut down under it.
THEOREM HeldIsUsable == Spec => []NeverUsedAfterCleanup
BY Invariance, CleanedIsFree, PTL

\* Nothing a bundle opened outlives the runtime, however Close, reloads and
\* releases were interleaved.
THEOREM AllCleaned == Spec => []NothingLeft
<1>1. ASSUME IInv, Resting PROVE built \subseteq cleaned
  <2> SUFFICES ASSUME NEW b \in built, b \notin cleaned PROVE FALSE
    OBVIOUS
  <2>1. InHand(b) /\ b \in Bundles
    BY <1>1 DEF IInv, Owed, TypeOK
  <2>2. phase # "failed" /\ closing = "returned"
    BY <1>1 DEF IInv, Managed, Resting
  <2>3. b # current
    BY <1>1, <2>1, <2>2, GenerationAssumption DEF IInv, Managed
  <2>4. refs[b] = 0
    <3>1. Holders(b) = {}
      BY <1>1 DEF Resting, Holders
    <3> QED
      BY <1>1, <2>1, <3>1, FS_EmptySet DEF IInv, RefsExact
  <2> QED
    BY <1>1, <2>1, <2>2, <2>3, <2>4 DEF InHand, Carrying, Resting
<1>2. IInv => NothingLeft
  BY <1>1 DEF NothingLeft
<1> QED
  BY Invariance, <1>2, PTL


-----------------------------------------------------------------------------
\* The steps of the manager as steps of BundleLifetime.
MapsTo == [Lifetime!LifetimeNext]_(Lifetime!lifetimeVars)

\* A step that changes no bundle maps to a stutter.
LEMMA StutterMaps ==
  ASSUME UNCHANGED <<current, built, retired, cleaned, closed, lease>>,
         \A l \in Leases : hold'[l] = "held" <=> hold[l] = "held"
  PROVE  MapsTo
<1>1. \A b \in Bundles : Holders(b)' = Holders(b) /\ StageOf(b)' = StageOf(b)
  BY DEF Holders, StageOf
<1> QED
  BY <1>1 DEF MapsTo, Lifetime!lifetimeVars

\* A step that cleans up maps to one that cleans up.
LEMMA CleanMaps ==
  ASSUME TypeOK, NEW b \in Bundles, Holders(b) = {},
         b \in retired \/ (closed /\ b \in built /\ b # current),
         cleaned' = cleaned \cup {b},
         UNCHANGED <<current, built, retired, closed, lease>>,
         \A l \in Leases : hold'[l] = "held" <=> hold[l] = "held"
  PROVE  MapsTo
<1>1. CASE b \in cleaned
  <2>1. cleaned' = cleaned
    BY <1>1
  <2> QED
    BY <2>1, StutterMaps
<1>2. CASE b \notin cleaned
  <2>1. \A d \in Bundles : Holders(d)' = Holders(d)
    BY DEF Holders
  <2>2. \A d \in Bundles : StageOf(d)' = IF d = b THEN "clean" ELSE StageOf(d)
    BY DEF StageOf
  <2>3. StageOf(b) = "retired" \/ (StageOf(b) = "spare" /\ closed)
    BY <1>2 DEF StageOf
  <2>4. Lifetime!Clean(b)
    BY <2>1, <2>2, <2>3 DEF Lifetime!Clean
  <2> QED
    BY <2>4 DEF MapsTo, Lifetime!LifetimeNext
<1> QED
  BY <1>1, <1>2

\* A step that installs maps to one that installs.
LEMMA InstallMaps ==
  ASSUME TypeOK, Managed, ~closed, NEW b \in Bundles,
         b # current, b \notin retired \cup cleaned,
         current' = b, b \in built', built \subseteq built', built' \subseteq built \cup {b},
         retired' = retired \cup ({current} \ {None}),
         UNCHANGED <<cleaned, closed, lease, hold>>
  PROVE  MapsTo
<1>1. \A d \in Bundles : Holders(d)' = Holders(d)
  BY DEF Holders
<1>2. StageOf(b) \in {"absent", "spare"}
  BY DEF StageOf
<1>3. \A d \in Bundles : StageOf(d)' = IF d = b THEN "current"
                                     ELSE IF StageOf(d) = "current" THEN "retired" ELSE StageOf(d)
  BY GenerationAssumption DEF StageOf
<1>4. Lifetime!Install(b)
  BY <1>1, <1>2, <1>3 DEF Lifetime!Install
<1> QED
  BY <1>4 DEF MapsTo, Lifetime!LifetimeNext

\* A bundle without leases that is not current is free.
LEMMA UnheldIsFree ==
  ASSUME RefsExact
  PROVE  \A b \in Bundles : refs[b] = 0 => Holders(b) = {}
BY HoldersFinite, FS_EmptySet DEF RefsExact

\* Every step maps to a step or a stutter.
LEMMA MapStep ==
  ASSUME TypeOK, RefsExact, Managed, Leased, Reloading, Resigned, [Next]_vars
  PROVE  MapsTo
<1> USE DEF genVars, leaseVars, reloadVars, pollVars, closeVars, fileVars, history, vars
<1>1. CASE NewFingerprint
  <2>1. hold' = hold /\ UNCHANGED <<current, built, retired, cleaned, closed, lease>>
    BY <1>1 DEF NewFingerprint
  <2> QED
    BY <2>1, StutterMaps
<1>2. CASE NewFails
  <2>1. hold' = hold /\ UNCHANGED <<current, built, retired, cleaned, closed, lease>>
    BY <1>2 DEF NewFails
  <2> QED
    BY <2>1, StutterMaps
<1>3. ASSUME NEW b \in Bundles, NewBuild(b) PROVE MapsTo
  <2>1. b \in Bundles /\ ~closed /\ current = None /\ built = {} /\ retired = {} /\ cleaned = {}
    BY <1>3 DEF NewBuild, Managed
  <2>2. b # current /\ retired' = retired \cup ({current} \ {None})
    BY <1>3, <2>1, GenerationAssumption DEF NewBuild
  <2> QED
    BY <1>3, <2>1, <2>2, InstallMaps DEF NewBuild
<1>4. ASSUME NEW l \in Leases, Capture(l) PROVE MapsTo
  <2>1. current \in Bundles /\ hold[l] = "unused"
    BY <1>4 DEF Capture, TypeOK
  <2>2. \A d \in Bundles : Holders(d)' = IF d = current THEN Holders(d) \cup {l} ELSE Holders(d)
    BY <1>4, <2>1 DEF Capture, Holders, TypeOK
  <2>3. \A d \in Bundles : StageOf(d)' = StageOf(d) /\ l \notin Holders(d)
    BY <1>4, <2>1 DEF Capture, StageOf, Holders
  <2>4. StageOf(current) = "current" /\ closed' = closed
    BY <1>4, <2>1 DEF Capture, StageOf
  <2>5. Lifetime!Grab(current, l)
    BY <2>1, <2>2, <2>3, <2>4 DEF Lifetime!Grab
  <2> QED
    BY <2>1, <2>5 DEF MapsTo, Lifetime!LifetimeNext
<1>5. ASSUME NEW l \in Leases, Release(l) PROVE MapsTo
  <2>1. lease[l] \in Bundles /\ hold[l] = "held" /\ l \in Holders(lease[l])
    BY <1>5 DEF Release, Leased, Holders
  <2>2. \A d \in Bundles : Holders(d)' = IF d = lease[l] THEN Holders(d) \ {l} ELSE Holders(d)
    BY <1>5, <2>1 DEF Release, Holders, TypeOK
  <2>3. \A d \in Bundles : StageOf(d)' = StageOf(d)
    BY <1>5 DEF Release, StageOf
  <2>4. closed' = closed
    BY <1>5 DEF Release
  <2>5. Lifetime!Drop(lease[l], l)
    BY <2>1, <2>2, <2>3, <2>4 DEF Lifetime!Drop
  <2> QED
    BY <2>1, <2>5 DEF MapsTo, Lifetime!LifetimeNext
<1>6. ASSUME NEW l \in Leases, CleanupLast(l) PROVE MapsTo
  <2>1. lease[l] \in retired /\ lease[l] \in Bundles /\ Holders(lease[l]) = {}
    BY <1>6, UnheldIsFree DEF CleanupLast, Leased
  <2>2. \A k \in Leases : hold'[k] = "held" <=> hold[k] = "held"
    BY <1>6 DEF CleanupLast
  <2> QED
    BY <1>6, <2>1, <2>2, CleanMaps DEF CleanupLast, Cleanup
<1>7. ASSUME NEW c \in Callers, CallReload(c) PROVE MapsTo
  <2>1. hold' = hold /\ UNCHANGED <<current, built, retired, cleaned, closed, lease>>
    BY <1>7 DEF CallReload
  <2> QED
    BY <2>1, StutterMaps
<1>8. ASSUME NEW c \in Callers, LockReload(c) PROVE MapsTo
  <2>1. hold' = hold /\ UNCHANGED <<current, built, retired, cleaned, closed, lease>>
    BY <1>8 DEF LockReload
  <2> QED
    BY <2>1, StutterMaps
<1>9. ASSUME NEW c \in Callers, LoadCandidate(c) PROVE MapsTo
  <2>1. hold' = hold /\ UNCHANGED <<current, built, retired, cleaned, closed, lease>>
    BY <1>9 DEF LoadCandidate
  <2> QED
    BY <2>1, StutterMaps
<1>10. ASSUME NEW c \in Callers, CheckCandidate(c) PROVE MapsTo
  <2>1. hold' = hold /\ UNCHANGED <<current, built, retired, cleaned, closed, lease>>
    BY <1>10 DEF CheckCandidate
  <2> QED
    BY <2>1, StutterMaps
<1>11. ASSUME NEW c \in Callers, BuildCandidate(c) PROVE MapsTo
  <2>1. CASE built' = built
    BY <1>11, <2>1, StutterMaps DEF BuildCandidate
  <2>2. ASSUME NEW b \in Bundles, FreshBundle(b), built' = built \cup {b} PROVE MapsTo
    <3>1. \A d \in Bundles : Holders(d)' = Holders(d)
      BY <1>11 DEF BuildCandidate, Holders
    <3>2. \A d \in Bundles : StageOf(d)' = IF d = b THEN "spare" ELSE StageOf(d)
      BY <1>11, <2>2, GenerationAssumption DEF BuildCandidate, StageOf, FreshBundle, Managed
    <3>3. StageOf(b) = "absent" /\ closed' = closed
      BY <1>11, <2>2, GenerationAssumption DEF BuildCandidate, StageOf, FreshBundle, Managed
    <3>4. Lifetime!Make(b)
      BY <3>1, <3>2, <3>3 DEF Lifetime!Make
    <3> QED
      BY <3>4 DEF MapsTo, Lifetime!LifetimeNext
  <2> QED
    BY <1>11, <2>1, <2>2 DEF BuildCandidate
<1>12. ASSUME NEW c \in Callers, Commit(c) PROVE MapsTo
  <2>1. CASE closed
    BY <1>12, <2>1, StutterMaps DEF Commit
  <2>2. CASE ~closed
    <3>1. /\ mine[c] \in Bundles /\ mine[c] \in built
          /\ mine[c] # current /\ mine[c] \notin retired \cup cleaned
      BY <1>12 DEF Commit, Reloading, Carrying, TypeOK
    <3>2. current # None
      BY <1>12, <2>2 DEF Commit, Managed
    <3> QED
      BY <1>12, <2>2, <3>1, <3>2, InstallMaps DEF Commit
  <2> QED
    BY <2>1, <2>2
<1>13. ASSUME NEW c \in Callers, Discard(c) PROVE MapsTo
  <2>1. closed /\ mine[c] \in Bundles /\ mine[c] \in built /\ mine[c] # current
        /\ Holders(mine[c]) = {}
    BY <1>13 DEF Discard, Holders, Leased, Reloading, Carrying, TypeOK
  <2> QED
    BY <1>13, <2>1, CleanMaps DEF Discard, Cleanup
<1>14. ASSUME NEW c \in Callers, SweepPrevious(c) PROVE MapsTo
  <2>1. old[c] \in retired /\ old[c] \in Bundles /\ Holders(old[c]) = {}
    BY <1>14, UnheldIsFree DEF SweepPrevious, Reloading, TypeOK
  <2> QED
    BY <1>14, <2>1, CleanMaps DEF SweepPrevious, Cleanup
<1>15. CASE Start
  <2>1. hold' = hold /\ UNCHANGED <<current, built, retired, cleaned, closed, lease>>
    BY <1>15 DEF Start
  <2> QED
    BY <2>1, StutterMaps
<1>16. CASE PollBegin
  <2>1. hold' = hold /\ UNCHANGED <<current, built, retired, cleaned, closed, lease>>
    BY <1>16 DEF PollBegin
  <2> QED
    BY <2>1, StutterMaps
<1>17. CASE PollTick
  <2>1. hold' = hold /\ UNCHANGED <<current, built, retired, cleaned, closed, lease>>
    BY <1>17 DEF PollTick
  <2> QED
    BY <2>1, StutterMaps
<1>18. CASE PollExit
  <2>1. hold' = hold /\ UNCHANGED <<current, built, retired, cleaned, closed, lease>>
    BY <1>18 DEF PollExit
  <2> QED
    BY <2>1, StutterMaps
<1>19. CASE CancelContext
  <2>1. hold' = hold /\ UNCHANGED <<current, built, retired, cleaned, closed, lease>>
    BY <1>19 DEF CancelContext
  <2> QED
    BY <2>1, StutterMaps
<1>20. CASE Close
  <2>1. current \in Bundles /\ current \notin retired \cup cleaned
    BY <1>20 DEF Close, Managed, TypeOK
  <2>2. \A d \in Bundles : Holders(d)' = Holders(d)
    BY <1>20 DEF Close, Holders
  <2>3. \A d \in Bundles : StageOf(d)' = IF StageOf(d) = "current" THEN "retired" ELSE StageOf(d)
    BY <1>20, <2>1, GenerationAssumption DEF Close, StageOf
  <2>4. Lifetime!Shut
    BY <1>20, <2>2, <2>3 DEF Close, Lifetime!Shut
  <2> QED
    BY <2>4 DEF MapsTo, Lifetime!LifetimeNext
<1>21. CASE CloseReturn
  <2>1. CASE rest = None
    BY <1>21, <2>1, StutterMaps DEF CloseReturn
  <2>2. CASE rest # None
    <3>1. rest \in retired /\ rest \in Bundles /\ Holders(rest) = {}
      BY <2>2, UnheldIsFree DEF Resigned, TypeOK
    <3> QED
      BY <1>21, <2>2, <3>1, CleanMaps DEF CloseReturn
  <2> QED
    BY <2>1, <2>2
<1>22. ASSUME NEW x \in Contents, EditFile(x) PROVE MapsTo
  <2>1. hold' = hold /\ UNCHANGED <<current, built, retired, cleaned, closed, lease>>
    BY <1>22 DEF EditFile
  <2> QED
    BY <2>1, StutterMaps
<1>23. CASE UNCHANGED vars
  BY <1>23, StutterMaps
<1> QED
  BY <1>1, <1>2, <1>3, <1>4, <1>5, <1>6, <1>7, <1>8, <1>9, <1>10, <1>11, <1>12, <1>13,
     <1>14, <1>15, <1>16, <1>17, <1>18, <1>19, <1>20, <1>21, <1>22, <1>23 DEF Next,
     ReloadStep, Rested

\* Refinement: reference counts, the retired and cleaned flags, reloadMu and the
\* second look at closed implement the life of a bundle that BundleLifetime states.
THEOREM Implementation == Spec => ImplementsLifetime
<1>1. Init => Lifetime!LifetimeInit
  <2> SUFFICES ASSUME Init PROVE Lifetime!LifetimeInit
    OBVIOUS
  <2>1. \A b \in Bundles : StageOf(b) = "absent" /\ Holders(b) = {}
    BY GenerationAssumption DEF Init, StageOf, Holders
  <2> QED
    BY <2>1 DEF Init, Lifetime!LifetimeInit
<1>2. IInv /\ [Next]_vars => MapsTo
  BY MapStep DEF IInv
<1> QED
  BY <1>1, <1>2, Invariance, PTL DEF Spec, MapsTo, ImplementsLifetime, Lifetime!LifetimeSpec
=============================================================================
