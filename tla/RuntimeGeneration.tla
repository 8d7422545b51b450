-------------------------- MODULE RuntimeGeneration --------------------------
(***************************************************************************)
(* RuntimeGenerationManager                                                *)
(* (internal/channelruntime/core/runtime_generation.go): the bundle that   *)
(* tasks run with is replaced when the config file changes, while tasks    *)
(* hold leases on the old one, and everything is cleaned up by whoever     *)
(* lets go of a bundle last.                                               *)
(*                                                                         *)
(* Critical sections of m.mu and g.mu are steps; reloadMu is held over     *)
(* several.  Loading, building and cleaning up happen outside m.mu.  A     *)
(* generation is identified with its bundle; the file always exists, so    *)
(* the zero digest (None) differs from every content.                      *)
(***************************************************************************)
EXTENDS Naturals, FiniteSets

CONSTANTS
  Bundles,   \* what a call of build may return
  Leases,    \* one per call of Capture
  Callers,   \* goroutines that call Reload, the poller among them
  Poller,
  Contents,  \* what the config file may say
  None,
  MaxEdits,  \* bound: changes of the config file
  MaxFaults  \* bound: failures to read the file, load or build

ASSUME GenerationAssumption ==
  /\ None \notin Bundles \cup Contents
  /\ Poller \in Callers
  /\ IsFiniteSet(Leases)
  /\ MaxEdits \in Nat /\ MaxFaults \in Nat

VARIABLES
  phase,    \* where NewRuntimeGenerationManager is
  current,  \* m.current
  built,    \* the bundles there are
  config,   \* per bundle: the reader it was built from
  refs, retired, cleaned,  \* fields of each generation
  closed,   \* m.closed
  source,   \* the reader the settings owner hands out
  lease,    \* per Capture: its generation
  hold,     \* per Capture: where its use of the lease is
  point,    \* per caller: where its Reload is
  cand,     \* per caller: the candidate it loaded
  mine,     \* per caller: the bundle it built
  old,      \* per caller: the generation it has to clean up
  poll,     \* the poll goroutine
  last,     \* the digest it compares with
  ctxDone,  \* pollCtx is done
  closing,  \* where Close is
  rest,     \* the generation Close has to clean up
  file,     \* the content of the config file
  edits, faults,
  dropped,  \* history: the last Reload of the poller failed
  unseen,   \* history: the file changed before a digest of it was stored
  torn      \* history: a Reload loaded a content other than the one the poller had hashed

genVars == <<current, built, config, refs, retired, cleaned, closed, source>>
leaseVars == <<lease, hold>>
reloadVars == <<point, cand, mine, old>>
pollVars == <<poll, last, ctxDone>>
closeVars == <<closing, rest>>
fileVars == <<file, edits>>
history == <<dropped, unseen, torn>>
vars == <<phase, genVars, leaseVars, reloadVars, pollVars, closeVars, fileVars, faults, history>>

Phases == {"new", "hashed", "up", "failed"}
Points == {"idle", "waiting", "locked", "loaded", "build", "built", "discard", "sweep"}

\* The settings owner has loaded the file and made its reader.
Init ==
  /\ phase = "new"
  /\ current = None
  /\ built = {} /\ retired = {} /\ cleaned = {}
  /\ config = [b \in Bundles |-> None]
  /\ refs = [b \in Bundles |-> 0]
  /\ closed = FALSE
  /\ file \in Contents /\ source = file
  /\ lease = [l \in Leases |-> None]
  /\ hold = [l \in Leases |-> "unused"]
  /\ point = [c \in Callers |-> "idle"]
  /\ cand = [c \in Callers |-> None]
  /\ mine = [c \in Callers |-> None]
  /\ old = [c \in Callers |-> None]
  /\ poll = "off" /\ last = None /\ ctxDone = FALSE
  /\ closing = "open" /\ rest = None
  /\ edits = 0 /\ faults = 0
  /\ dropped = FALSE /\ unseen = FALSE /\ torn = FALSE

-----------------------------------------------------------------------------
Fault == faults < MaxFaults /\ faults' = faults + 1

FreshBundle(b) == b \in Bundles \ built /\ b = CHOOSE d \in Bundles \ built : TRUE

\* What retire and release return: nobody holds it and it has to be cleaned up.
Idle(b) == refs[b] = 0 /\ b \notin cleaned

\* cleanup: the first call marks the generation and cleans the bundle up.
Cleanup(b) == cleaned' = cleaned \cup {b}

-----------------------------------------------------------------------------
\* NewRuntimeGenerationManager, after CurrentReader

\* A digest that cannot be read is left to the poller.
NewFingerprint ==
  /\ phase = "new"
  /\ phase' = "hashed"
  /\ \/ last' = file /\ UNCHANGED faults
     \/ Fault /\ UNCHANGED last
  /\ UNCHANGED <<genVars, leaseVars, reloadVars, poll, ctxDone, closeVars, fileVars, history>>

NewBuild(b) ==
  /\ phase = "hashed"
  /\ FreshBundle(b)
  /\ phase' = "up"
  /\ current' = b
  /\ built' = built \cup {b}
  /\ config' = [config EXCEPT ![b] = source]
  /\ UNCHANGED <<refs, retired, cleaned, closed, source, leaseVars, reloadVars, pollVars, closeVars,
                 fileVars, faults, history>>

NewFails ==
  /\ phase = "hashed"
  /\ Fault
  /\ phase' = "failed"
  /\ UNCHANGED <<genVars, leaseVars, reloadVars, pollVars, closeVars, fileVars, history>>

-----------------------------------------------------------------------------
\* Leases

Capture(l) ==
  /\ phase = "up" /\ hold[l] = "unused"
  /\ ~closed /\ current # None
  /\ current \notin retired \cup cleaned
  /\ refs' = [refs EXCEPT ![current] = @ + 1]
  /\ lease' = [lease EXCEPT ![l] = current]
  /\ hold' = [hold EXCEPT ![l] = "held"]
  /\ UNCHANGED <<phase, current, built, config, retired, cleaned, closed, source, reloadVars, pollVars,
                 closeVars, fileVars, faults, history>>

\* Mutant: only Reload and Close clean up.
ReleaseOnly(l) ==
  LET b == lease[l] IN
  /\ hold[l] = "held"
  /\ refs' = [refs EXCEPT ![b] = IF @ > 0 THEN @ - 1 ELSE @]
  /\ hold' = [hold EXCEPT ![l] = "released"]
  /\ UNCHANGED <<phase, current, built, config, retired, cleaned, closed, source, lease, reloadVars,
                 pollVars, closeVars, fileVars, faults, history>>

\* Release inside releaseOnce: the last lease of a retired generation cleans up.
Release(l) ==
  LET b == lease[l] IN
  /\ hold[l] = "held"
  /\ refs' = [refs EXCEPT ![b] = IF @ > 0 THEN @ - 1 ELSE @]
  /\ hold' = [hold EXCEPT ![l] = IF b \in retired /\ refs'[b] = 0 /\ b \notin cleaned
                                 THEN "last" ELSE "released"]
  /\ UNCHANGED <<phase, current, built, config, retired, cleaned, closed, source, lease, reloadVars,
                 pollVars, closeVars, fileVars, faults, history>>

CleanupLast(l) ==
  /\ hold[l] = "last"
  /\ Cleanup(lease[l])
  /\ hold' = [hold EXCEPT ![l] = "released"]
  /\ UNCHANGED <<phase, current, built, config, refs, retired, closed, source, lease, reloadVars,
                 pollVars, closeVars, fileVars, faults, history>>

-----------------------------------------------------------------------------
\* Reload

Inside(c) == point[c] \notin {"idle", "waiting"}

CallReload(c) ==
  /\ c # Poller /\ phase = "up" /\ point[c] = "idle"
  /\ point' = [point EXCEPT ![c] = "waiting"]
  /\ UNCHANGED <<phase, genVars, leaseVars, cand, mine, old, pollVars, closeVars, fileVars, faults, history>>

LockReload(c) ==
  /\ point[c] = "waiting"
  /\ \A d \in Callers : ~Inside(d)
  /\ point' = [point EXCEPT ![c] = "locked"]
  /\ UNCHANGED <<phase, genVars, leaseVars, cand, mine, old, pollVars, closeVars, fileVars, faults, history>>

\* Reload returns; the poller takes note and goes back to its loop.
Return(c, ok) ==
  /\ point' = [point EXCEPT ![c] = "idle"]
  /\ IF c = Poller
     THEN /\ poll' = "wait"
          /\ dropped' = ~ok
          /\ unseen' = (unseen /\ ~ok)
     ELSE UNCHANGED <<poll, dropped, unseen>>

LoadCandidate(c) ==
  /\ point[c] = "locked"
  /\ \/ /\ cand' = [cand EXCEPT ![c] = file]
        /\ point' = [point EXCEPT ![c] = "loaded"]
        /\ torn' = (file # last \/ (c # Poller /\ torn))
        /\ UNCHANGED <<poll, dropped, unseen, faults>>
     \/ Fault /\ Return(c, FALSE) /\ UNCHANGED <<cand, torn>>
  /\ UNCHANGED <<phase, genVars, leaseVars, mine, old, last, ctxDone, closeVars, fileVars>>

\* Under m.mu: closed, or nothing to do.
CheckCandidate(c) ==
  /\ point[c] = "loaded"
  /\ IF closed \/ (current # None /\ config[current] = cand[c])
     THEN Return(c, ~closed)
     ELSE point' = [point EXCEPT ![c] = "build"] /\ UNCHANGED <<poll, dropped, unseen>>
  /\ UNCHANGED <<phase, genVars, leaseVars, cand, mine, old, last, ctxDone, closeVars, fileVars, faults, torn>>

\* build gets the context of the caller.
BuildCandidate(c) ==
  /\ point[c] = "build"
  /\ \/ \E b \in Bundles :
          /\ FreshBundle(b)
          /\ built' = built \cup {b}
          /\ config' = [config EXCEPT ![b] = cand[c]]
          /\ mine' = [mine EXCEPT ![c] = b]
          /\ point' = [point EXCEPT ![c] = "built"]
          /\ UNCHANGED <<poll, dropped, unseen, faults>>
     \/ /\ Fault \/ (c = Poller /\ ctxDone /\ UNCHANGED faults)
        /\ Return(c, FALSE)
        /\ UNCHANGED <<built, config, mine>>
  /\ UNCHANGED <<phase, current, refs, retired, cleaned, closed, source, leaseVars, cand, old, last,
                 ctxDone, closeVars, fileVars, torn>>

\* Mutant: closed is not checked again after the build.
CommitUnchecked(c) ==
  /\ point[c] = "built"
  /\ current' = mine[c]
  /\ source' = cand[c]
  /\ retired' = retired \cup ({current} \ {None})
  /\ IF current # None /\ Idle(current)
     THEN /\ old' = [old EXCEPT ![c] = current]
          /\ point' = [point EXCEPT ![c] = "sweep"]
          /\ UNCHANGED <<poll, dropped, unseen>>
     ELSE Return(c, TRUE) /\ UNCHANGED old
  /\ UNCHANGED <<phase, built, config, refs, cleaned, closed, leaseVars, cand, mine, last, ctxDone, closeVars,
                 fileVars, faults, torn>>

\* Mutant: a bundle that comes too late is dropped.
CommitLeaks(c) ==
  /\ point[c] = "built"
  /\ IF closed
     THEN Return(c, FALSE) /\ UNCHANGED <<current, source, retired, old>>
     ELSE /\ current' = mine[c]
          /\ source' = cand[c]
          /\ retired' = retired \cup {current}
          /\ IF Idle(current)
             THEN /\ old' = [old EXCEPT ![c] = current]
                  /\ point' = [point EXCEPT ![c] = "sweep"]
                  /\ UNCHANGED <<poll, dropped, unseen>>
             ELSE Return(c, TRUE) /\ UNCHANGED old
  /\ UNCHANGED <<phase, built, config, refs, cleaned, closed, leaseVars, cand, mine, last, ctxDone, closeVars,
                 fileVars, faults, torn>>

\* Under m.mu again: the manager was closed during the build, or the bundle
\* becomes current.
Commit(c) ==
  /\ point[c] = "built"
  /\ IF closed
     THEN /\ point' = [point EXCEPT ![c] = "discard"]
          /\ UNCHANGED <<current, source, retired, old, poll, dropped, unseen>>
     ELSE /\ current' = mine[c]
          /\ source' = cand[c]
          /\ retired' = retired \cup {current}
          /\ IF Idle(current)
             THEN /\ old' = [old EXCEPT ![c] = current]
                  /\ point' = [point EXCEPT ![c] = "sweep"]
                  /\ UNCHANGED <<poll, dropped, unseen>>
             ELSE Return(c, TRUE) /\ UNCHANGED old
  /\ UNCHANGED <<phase, built, config, refs, cleaned, closed, leaseVars, cand, mine, last, ctxDone, closeVars,
                 fileVars, faults, torn>>

\* bundle.Cleanup of a bundle that never became current.
Discard(c) ==
  /\ point[c] = "discard"
  /\ Cleanup(mine[c])
  /\ Return(c, FALSE)
  /\ UNCHANGED <<phase, current, built, config, refs, retired, closed, source, leaseVars, cand, mine, old,
                 last, ctxDone, closeVars, fileVars, faults, torn>>

\* previous.cleanup()
SweepPrevious(c) ==
  /\ point[c] = "sweep"
  /\ Cleanup(old[c])
  /\ Return(c, TRUE)
  /\ UNCHANGED <<phase, current, built, config, refs, retired, closed, source, leaseVars, cand, mine, old,
                 last, ctxDone, closeVars, fileVars, faults, torn>>

-----------------------------------------------------------------------------
\* The poller

Start ==
  /\ phase = "up" /\ poll = "off" /\ ~closed
  /\ poll' = "begin"
  /\ UNCHANGED <<phase, genVars, leaseVars, reloadVars, last, ctxDone, closeVars, fileVars, faults, history>>

\* Mutant: the digest New stored is not used.
PollBeginAnew ==
  /\ poll = "begin"
  /\ poll' = "wait"
  /\ \/ last' = file /\ UNCHANGED faults
     \/ Fault /\ UNCHANGED last
  /\ UNCHANGED <<phase, genVars, leaseVars, reloadVars, ctxDone, closeVars, fileVars, history>>

PollBegin ==
  /\ poll = "begin"
  /\ poll' = "wait"
  /\ \/ last # None /\ UNCHANGED <<last, faults>>
     \/ last = None /\ last' = file /\ UNCHANGED faults
     \/ last = None /\ Fault /\ UNCHANGED last
  /\ UNCHANGED <<phase, genVars, leaseVars, reloadVars, ctxDone, closeVars, fileVars, history>>

\* A tick that finds another digest; it may be chosen although ctx is done.
PollTick ==
  /\ poll = "wait" /\ file # last
  /\ \/ /\ last' = file
        /\ poll' = "reload"
        /\ point' = [point EXCEPT ![Poller] = "waiting"]
        /\ UNCHANGED faults
     \/ Fault /\ UNCHANGED <<last, poll, point>>
  /\ UNCHANGED <<phase, genVars, leaseVars, cand, mine, old, ctxDone, closeVars, fileVars, history>>

PollExit ==
  /\ poll = "wait" /\ ctxDone
  /\ poll' = "done"
  /\ UNCHANGED <<phase, genVars, leaseVars, reloadVars, last, ctxDone, closeVars, fileVars, faults, history>>

\* The context given to Start ends.
CancelContext ==
  /\ poll # "off" /\ ~ctxDone
  /\ ctxDone' = TRUE
  /\ UNCHANGED <<phase, genVars, leaseVars, reloadVars, poll, last, closeVars, fileVars, faults, history>>

-----------------------------------------------------------------------------
\* Close

\* Mutant: the poller is not told.
CloseUncancelled ==
  /\ phase = "up" /\ ~closed
  /\ closed' = TRUE
  /\ closing' = "waiting"
  /\ current' = None
  /\ retired' = retired \cup {current}
  /\ rest' = IF Idle(current) THEN current ELSE None
  /\ UNCHANGED <<phase, built, config, refs, cleaned, source, leaseVars, reloadVars, poll, last, ctxDone,
                 fileVars, faults, history>>

\* Under m.mu, then cancelPoll.
Close ==
  /\ phase = "up" /\ ~closed
  /\ closed' = TRUE
  /\ closing' = "waiting"
  /\ current' = None
  /\ retired' = retired \cup {current}
  /\ rest' = IF Idle(current) THEN current ELSE None
  /\ ctxDone' = (ctxDone \/ poll # "off")
  /\ UNCHANGED <<phase, built, config, refs, cleaned, source, leaseVars, reloadVars, poll, last, fileVars,
                 faults, history>>

\* pollWG.Wait, and the cleanup.
CloseReturn ==
  /\ closing = "waiting" /\ poll \in {"off", "done"}
  /\ closing' = "returned"
  /\ cleaned' = cleaned \cup ({rest} \ {None})
  /\ UNCHANGED <<phase, current, built, config, refs, retired, closed, source, leaseVars, reloadVars, pollVars,
                 rest, fileVars, faults, history>>

-----------------------------------------------------------------------------
EditFile(x) ==
  /\ edits < MaxEdits /\ x # file
  /\ file' = x
  /\ edits' = edits + 1
  /\ unseen' = (unseen \/ last = None)
  /\ UNCHANGED <<phase, genVars, leaseVars, reloadVars, pollVars, closeVars, faults, dropped, torn>>

Resting ==
  /\ phase = "failed" \/ closing = "returned"
  /\ \A c \in Callers : point[c] = "idle"
  /\ \A l \in Leases : hold[l] \in {"unused", "released"}

Rested == Resting /\ UNCHANGED vars

ReloadStep(c) ==
  \/ LockReload(c) \/ LoadCandidate(c) \/ CheckCandidate(c) \/ BuildCandidate(c) \/ Commit(c)
  \/ Discard(c) \/ SweepPrevious(c)

Next ==
  \/ NewFingerprint \/ NewFails \/ \E b \in Bundles : NewBuild(b)
  \/ \E l \in Leases : Capture(l) \/ Release(l) \/ CleanupLast(l)
  \/ \E c \in Callers : CallReload(c) \/ ReloadStep(c)
  \/ Start \/ PollBegin \/ PollTick \/ PollExit \/ CancelContext
  \/ Close \/ CloseReturn
  \/ \E x \in Contents : EditFile(x)
  \/ Rested

Spec == Init /\ [][Next]_vars

\* The runtime starts the poller it has built, ticks come, and calls that are
\* under way go on; a Go mutex is not kept from a waiter for ever.  Nobody has to
\* close, to release or to leave the file alone.
FairSpec ==
  /\ Spec
  /\ WF_vars(NewFingerprint) /\ WF_vars(NewFails \/ \E b \in Bundles : NewBuild(b))
  /\ WF_vars(Start) /\ WF_vars(PollBegin) /\ WF_vars(PollTick) /\ WF_vars(PollExit)
  /\ \A c \in Callers : WF_vars(ReloadStep(c)) /\ SF_vars(LockReload(c))
  /\ \A l \in Leases : WF_vars(CleanupLast(l))
  /\ WF_vars(CloseReturn)

-----------------------------------------------------------------------------
\* Every variable has its type.
TypeOK ==
  /\ phase \in Phases
  /\ current \in Bundles \cup {None}
  /\ built \subseteq Bundles /\ retired \subseteq Bundles /\ cleaned \subseteq Bundles
  /\ config \in [Bundles -> Contents \cup {None}]
  /\ refs \in [Bundles -> Nat]
  /\ closed \in BOOLEAN
  /\ source \in Contents /\ file \in Contents
  /\ lease \in [Leases -> Bundles \cup {None}]
  /\ hold \in [Leases -> {"unused", "held", "last", "released"}]
  /\ point \in [Callers -> Points]
  /\ cand \in [Callers -> Contents \cup {None}]
  /\ mine \in [Callers -> Bundles \cup {None}]
  /\ old \in [Callers -> Bundles \cup {None}]
  /\ poll \in {"off", "begin", "wait", "reload", "done"}
  /\ last \in Contents \cup {None}
  /\ ctxDone \in BOOLEAN
  /\ closing \in {"open", "waiting", "returned"}
  /\ rest \in Bundles \cup {None}
  /\ edits \in 0 .. MaxEdits /\ faults \in 0 .. MaxFaults
  /\ dropped \in BOOLEAN /\ unseen \in BOOLEAN /\ torn \in BOOLEAN

Holders(b) == {l \in Leases : hold[l] = "held" /\ lease[l] = b}

\* The reference count of a generation is the number of leases on it: it decides
\* who cleans up, in Reload, in Close and in the last Release.
RefsExact == \A b \in Bundles : refs[b] = Cardinality(Holders(b))

\* No task runs with a bundle that was cleaned up, and no new task gets one.
NeverUsedAfterCleanup ==
  /\ \A b \in cleaned : Holders(b) = {}
  /\ current \notin cleaned

\* When Close has returned, the calls of Reload have and the leases are released,
\* every bundle that was ever built was cleaned up, one whose build was under way
\* when Close was called included.
NothingLeft == Resting => built \subseteq cleaned

StageOf(b) ==
  IF b \in cleaned THEN "clean"
  ELSE IF b \in retired THEN "retired"
  ELSE IF b = current THEN "current"
  ELSE IF b \in built THEN "spare" ELSE "absent"

Lifetime == INSTANCE BundleLifetime WITH
  stage <- [b \in Bundles |-> StageOf(b)],
  holders <- [b \in Bundles |-> Holders(b)],
  open <- ~closed

\* Counts, flags and locks add up to the life of a bundle that the users of the
\* manager rely on.
ImplementsLifetime == Lifetime!LifetimeSpec

\* Close comes back although it waits for a poller that may be in the middle of a
\* reload.
CloseReturns == (closing = "waiting") ~> (closing = "returned")

\* A generation that was replaced or closed is cleaned up, unless a task keeps it.
RetiredIsCleaned ==
  \A b \in Bundles : (b \in retired) ~> (b \in cleaned \/ Holders(b) # {})

Applied == current # None => config[current] = file
Stopped == ctxDone \/ closed \/ phase = "failed"

\* New tasks come to run with what the file says, unless a reload failed, or the
\* file was changed in one of the two windows in which the digest the poller keeps
\* is not that of the settings in use.
ChangesApplied == <>[](Applied \/ Stopped \/ dropped \/ unseen \/ torn)
=============================================================================
