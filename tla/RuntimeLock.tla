----------------------------- MODULE RuntimeLock -----------------------------
(***************************************************************************)
(* The lock file of a polled account (internal/runtimelock/lock.go).       *)
(* Every call of the file system is a step, which may fail: other          *)
(* processes run, and this one may die, between any two.  The file is a    *)
(* directory entry for an inode; a descriptor keeps its inode when the     *)
(* entry is removed.  A process is one incarnation, so two of them may     *)
(* have had the same pid.                                                  *)
(***************************************************************************)
EXTENDS Naturals

CONSTANTS
  Calls,    \* each an Acquire and the Release of its lock
  Procs,
  ProcOf,   \* the process that makes a call
  PidOf,
  Inodes,   \* bound: enough for every call to create a file
  FaultKinds, \* the calls of the file system that may fail
  None

ASSUME LockAssumption ==
  /\ None \notin Procs \cup Inodes
  /\ ProcOf \in [Calls -> Procs]
  /\ PidOf \in [Procs -> Nat]
  /\ FaultKinds \subseteq {"open", "write", "close", "read", "remove"}

VARIABLES
  life,     \* per process
  dir,      \* the inode at the path
  holder,   \* per inode: who it names, None for a file nothing was written to
  used,     \* the inodes created so far
  pc,       \* per call: its next step
  tries,    \* per call: attempts that are over
  fd,       \* per call: the inode it has created
  raced,    \* history: two calls of Acquire have run at the same time
  misread,  \* history: the file of a process that lives could not be read by Acquire
  left      \* history: the files a call has failed to remove as it ended

callVars == <<pc, tries, fd>>
vars == <<life, dir, holder, used, callVars, raced, misread, left>>

Acquiring(c) == pc[c] \in {"create", "write", "close", "undo", "read", "remove"}
Over == {"refused", "failed", "exhausted", "done", "gone"}

Init ==
  /\ life = [p \in Procs |-> "new"]
  /\ dir = None
  /\ holder = [i \in Inodes |-> None]
  /\ used = {}
  /\ pc = [c \in Calls |-> "idle"]
  /\ tries = [c \in Calls |-> 0]
  /\ fd = [c \in Calls |-> None]
  /\ raced = FALSE /\ misread = FALSE
  /\ left = {}

-----------------------------------------------------------------------------
Goto(c, s) == pc' = [pc EXCEPT ![c] = s]

Fails(kind) == kind \in FaultKinds

Leave(c) == left' = left \cup {fd[c]}

\* processAlive
PidAlive(n) == \E p \in Procs : life[p] = "alive" /\ PidOf[p] = n

\* The system gives a pid to one process at a time.
Boot(p) ==
  /\ life[p] = "new" /\ ~PidAlive(PidOf[p])
  /\ life' = [life EXCEPT ![p] = "alive"]
  /\ UNCHANGED <<dir, holder, used, callVars, raced, misread, left>>

\* The process ends without releasing anything.
Die(p) ==
  /\ life[p] = "alive"
  /\ life' = [life EXCEPT ![p] = "dead"]
  /\ pc' = [c \in Calls |-> IF ProcOf[c] = p THEN "gone" ELSE pc[c]]
  /\ UNCHANGED <<dir, holder, used, tries, fd, raced, misread, left>>

\* A runtime starts and calls Acquire.
Begin(c) ==
  /\ pc[c] = "idle" /\ life[ProcOf[c]] = "alive"
  /\ Goto(c, "create")
  /\ raced' = (raced \/ \E d \in Calls : Acquiring(d))
  /\ UNCHANGED <<life, dir, holder, used, tries, fd, misread, left>>

\* Mutant: the file is opened without O_EXCL.
CreateShared(c) ==
  /\ pc[c] = "create"
  /\ IF dir # None
     THEN fd' = [fd EXCEPT ![c] = dir] /\ UNCHANGED <<dir, used>>
     ELSE /\ used # Inodes
          /\ dir' = CHOOSE i \in Inodes : i \notin used
          /\ used' = used \cup {dir'}
          /\ fd' = [fd EXCEPT ![c] = dir']
  /\ Goto(c, "write")
  /\ UNCHANGED <<life, holder, tries, raced, misread, left>>

\* os.OpenFile with O_CREATE and O_EXCL.
Create(c) ==
  /\ pc[c] = "create"
  /\ \/ /\ dir # None
        /\ Goto(c, "read")
        /\ UNCHANGED <<dir, used, fd>>
     \/ /\ dir = None /\ used # Inodes
        /\ dir' = CHOOSE i \in Inodes : i \notin used
        /\ used' = used \cup {dir'}
        /\ fd' = [fd EXCEPT ![c] = dir']
        /\ Goto(c, "write")
     \/ /\ Fails("open")
        /\ Goto(c, "failed")
        /\ UNCHANGED <<dir, used, fd>>
  /\ UNCHANGED <<life, holder, tries, raced, misread, left>>

\* A write that fails leaves a file that names nobody.  The file is closed either way.
Write(c) ==
  /\ pc[c] = "write"
  /\ \/ /\ holder' = [holder EXCEPT ![fd[c]] = ProcOf[c]]
        /\ Goto(c, "close")
     \/ /\ Fails("write")
        /\ Goto(c, "undo")
        /\ UNCHANGED holder
  /\ UNCHANGED <<life, dir, used, tries, fd, raced, misread, left>>

CloseFile(c) ==
  /\ pc[c] = "close"
  /\ \/ Goto(c, "held")
     \/ Fails("close") /\ Goto(c, "undo")
  /\ UNCHANGED <<life, dir, holder, used, tries, fd, raced, misread, left>>

\* os.Remove after a failed write or close; its own error is ignored.
Undo(c) ==
  /\ pc[c] = "undo"
  /\ \/ dir' = None /\ UNCHANGED left
     \/ Fails("remove") /\ Leave(c) /\ UNCHANGED dir
  /\ Goto(c, "failed")
  /\ UNCHANGED <<life, holder, used, tries, fd, raced, misread>>

\* The file at the path names a process that keeps the lock from c.
Kept(c) ==
  /\ dir # None /\ holder[dir] # None
  /\ PidOf[holder[dir]] = PidOf[ProcOf[c]] \/ PidAlive(PidOf[holder[dir]])

\* Mutant: whoever is named keeps the lock.
ReadTrusting(c) ==
  /\ pc[c] = "read"
  /\ Goto(c, IF dir # None /\ holder[dir] # None THEN "refused" ELSE "remove")
  /\ UNCHANGED <<life, dir, holder, used, tries, fd, raced, misread, left>>

\* readHolder and what is made of it: a file that cannot be read is taken over, whoever
\* it names.
Read(c) ==
  /\ pc[c] = "read"
  /\ \/ Goto(c, IF Kept(c) THEN "refused" ELSE "remove") /\ UNCHANGED misread
     \/ /\ Fails("read")
        /\ Goto(c, "remove")
        /\ misread' = (misread \/ Kept(c))
  /\ UNCHANGED <<life, dir, holder, used, tries, fd, raced, left>>

\* os.Remove of whatever is at the path by now, and the second attempt.
RemoveStale(c) ==
  /\ pc[c] = "remove"
  /\ \/ /\ dir' = None
        /\ tries' = [tries EXCEPT ![c] = @ + 1]
        /\ Goto(c, IF tries[c] = 0 THEN "create" ELSE "exhausted")
     \/ /\ Fails("remove")
        /\ Goto(c, "failed")
        /\ UNCHANGED <<dir, tries>>
  /\ UNCHANGED <<life, holder, used, fd, raced, misread, left>>

\* Release reads the file, and removes it if it names this process.
Release(c) ==
  /\ pc[c] = "held"
  /\ \/ /\ Goto(c, IF dir # None /\ holder[dir] # None
                       /\ PidOf[holder[dir]] = PidOf[ProcOf[c]]
                   THEN "unlink" ELSE "done")
        /\ UNCHANGED left
     \/ Fails("read") /\ Goto(c, "done") /\ Leave(c)
  /\ UNCHANGED <<life, dir, holder, used, tries, fd, raced, misread>>

\* The removal in Release; its error is ignored.
Unlink(c) ==
  /\ pc[c] = "unlink"
  /\ \/ dir' = None /\ UNCHANGED left
     \/ Fails("remove") /\ Leave(c) /\ UNCHANGED dir
  /\ Goto(c, "done")
  /\ UNCHANGED <<life, holder, used, tries, fd, raced, misread>>

Quiet == \A c \in Calls : pc[c] \in Over

Next ==
  \/ \E p \in Procs : Boot(p) \/ Die(p)
  \/ \E c \in Calls : Begin(c) \/ Create(c) \/ Write(c) \/ CloseFile(c) \/ Undo(c)
                      \/ Read(c) \/ RemoveStale(c) \/ Release(c) \/ Unlink(c)
  \/ Quiet /\ UNCHANGED vars

Spec == Init /\ [][Next]_vars

-----------------------------------------------------------------------------
\* Every variable has its type; an Acquire makes at most two attempts.
TypeOK ==
  /\ life \in [Procs -> {"new", "alive", "dead"}]
  /\ dir \in Inodes \cup {None}
  /\ holder \in [Inodes -> Procs \cup {None}]
  /\ used \subseteq Inodes
  /\ pc \in [Calls -> {"idle", "create", "write", "close", "undo", "read", "remove", "held",
                      "unlink"} \cup Over]
  /\ tries \in [Calls -> 0 .. 2]
  /\ fd \in [Calls -> Inodes \cup {None}]
  /\ raced \in BOOLEAN /\ misread \in BOOLEAN
  /\ left \subseteq Inodes

\* "one process per account polling a channel" (lock.go): two calls do not both
\* have the lock.
Exclusive == \A c, d \in Calls : pc[c] = "held" /\ pc[d] = "held" => c = d

\* The same as long as no two calls of Acquire have overlapped, in one process or in two,
\* and none has failed to read the file of a process that lives: whatever files crashes, failed writes and failed removals have left and
\* whoever releases meanwhile.
ExclusiveInTurn == ~raced /\ ~misread => Exclusive

\* Who is refused is refused by a call that has the lock, is about to have it or gives it
\* up, or by the file of a call that has failed to remove it; never by what a crash or a
\* write that was undone has left at the path.
RefusedByAHolder ==
  [][\A c \in Calls : pc[c] # "refused" /\ pc'[c] = "refused" =>
       \/ \E d \in Calls : pc[d] \in {"close", "undo", "held", "unlink"} /\ fd[d] = dir
       \/ dir \in left]_vars
=============================================================================
