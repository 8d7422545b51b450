--------------------------- MODULE RuntimeLockProofs ---------------------------
(***************************************************************************)
(* Theorems about RuntimeLock for any calls, processes and pids.  IInv is  *)
(* the inductive invariant: a file belongs to the call that created it and *)
(* names its process, and a live process that is named at the path has a   *)
(* call that will remove the file.  Alone is what a single Acquire at a    *)
(* time adds to that.                                                      *)
(***************************************************************************)
EXTENDS RuntimeLock, TLAPS

\* A call that is under way is of a process that lives.
Living ==
  \A c \in Calls :
    pc[c] \in {"create", "write", "close", "undo", "read", "remove", "held", "unlink"} =>
      life[ProcOf[c]] = "alive"

\* A call that goes on has one attempt behind it at most.
Attempts == \A c \in Calls : pc[c] \notin Over => tries[c] <= 1

\* A file was written to by a process that was started.
Named == \A i \in Inodes : holder[i] # None => i \in used /\ life[holder[i]] # "new"

\* A file is created by one call, which writes its process into it.
Owned ==
  /\ dir # None => dir \in used
  /\ \A c \in Calls : fd[c] # None => fd[c] \in used
  /\ \A c, d \in Calls : fd[c] # None /\ fd[c] = fd[d] => c = d
  /\ \A c \in Calls : pc[c] \in {"write", "close", "undo", "held", "unlink"} => fd[c] \in Inodes
  /\ \A c \in Calls : pc[c] \in {"close", "held", "unlink"} => holder[fd[c]] = ProcOf[c]
  /\ \A c \in Calls : pc[c] \in {"write", "undo"} => holder[fd[c]] \in {ProcOf[c], None}

\* The file at the path is the one of call d, which is to keep or to remove it.
Serves(d) == pc[d] \in {"close", "undo", "held", "unlink"} /\ fd[d] = dir

\* Whoever lives and is named at the path has a call that serves it, unless the file was
\* left there.
Served ==
  dir # None /\ holder[dir] # None /\ life[holder[dir]] = "alive" =>
    dir \in left \/ \E d \in Calls : Serves(d)

\* With one Acquire at a time and no misreading the file of whoever has the lock is at the path, and
\* nobody is about to remove it.
Alone ==
  ~raced /\ ~misread =>
    /\ \A c, d \in Calls : Acquiring(c) /\ Acquiring(d) => c = d
    /\ \A c \in Calls : pc[c] \in {"write", "close", "undo", "held", "unlink"} => dir = fd[c]
    /\ \A c, d \in Calls : pc[c] = "remove" => pc[d] \notin {"held", "unlink"}

IInv == TypeOK /\ Living /\ Attempts /\ Named /\ Owned /\ Served /\ Alone

-----------------------------------------------------------------------------
\* The new file is one that nobody has created.
LEMMA FreshInode ==
  ASSUME IInv, NEW c \in Calls, Create(c), Goto(c, "write")
  PROVE  /\ dir = None /\ dir' \in Inodes /\ dir' # None /\ dir' \notin used /\ used' = used \cup {dir'}
         /\ fd' = [fd EXCEPT ![c] = dir'] /\ pc' = [pc EXCEPT ![c] = "write"]
<1>1. dir = None /\ used # Inodes /\ dir' = CHOOSE i \in Inodes : i \notin used
  BY DEF IInv, TypeOK, Create, Goto
<1>2. \E i \in Inodes : i \notin used
  BY <1>1 DEF IInv, TypeOK
<1> QED
  BY <1>1, <1>2, LockAssumption DEF Create, Goto

\* Every step keeps the types.
LEMMA TypeStep == IInv /\ [Next]_vars => TypeOK'
<1> SUFFICES ASSUME IInv, [Next]_vars PROVE TypeOK'
  OBVIOUS
<1> USE DEF callVars, Leave
<1>1. ASSUME NEW p \in Procs, Boot(p) PROVE TypeOK'
  BY <1>1, LockAssumption DEF IInv, TypeOK, Over, Boot, PidAlive
<1>2. ASSUME NEW p \in Procs, Die(p) PROVE TypeOK'
  BY <1>2, LockAssumption DEF IInv, TypeOK, Over, Die
<1>3. ASSUME NEW c \in Calls, Begin(c) PROVE TypeOK'
  BY <1>3, LockAssumption DEF IInv, TypeOK, Over, Begin, Goto
<1>4. ASSUME NEW c \in Calls, Create(c) PROVE TypeOK'
  <2>1. CASE ~Goto(c, "write")
    BY <2>1, <1>4, LockAssumption DEF IInv, TypeOK, Over, Create, Goto
  <2>2. CASE Goto(c, "write")
    BY <2>2, <1>4, FreshInode DEF IInv, TypeOK, Create
  <2> QED
    BY <2>1, <2>2
<1>5. ASSUME NEW c \in Calls, Write(c) PROVE TypeOK'
  BY <1>5, LockAssumption DEF IInv, TypeOK, Over, Write, Goto
<1>6. ASSUME NEW c \in Calls, Read(c) PROVE TypeOK'
  BY <1>6, LockAssumption DEF IInv, TypeOK, Over, Read, Goto, PidAlive
<1>7. ASSUME NEW c \in Calls, RemoveStale(c) PROVE TypeOK'
  <2>1. tries[c] \in {0, 1}
    BY <1>7 DEF IInv, TypeOK, Attempts, Over, RemoveStale
  <2>2. tries' \in [Calls -> 0 .. 2]
    BY <2>1, <1>7 DEF IInv, TypeOK, RemoveStale
  <2>3. pc' \in [Calls -> {"create", "exhausted", "failed"} \cup {pc[d] : d \in Calls}]
    BY <1>7 DEF IInv, TypeOK, RemoveStale, Goto
  <2> QED
    BY <2>2, <2>3, <1>7, LockAssumption DEF IInv, TypeOK, Over, RemoveStale
<1>8. ASSUME NEW c \in Calls, Release(c) PROVE TypeOK'
  BY <1>8, LockAssumption DEF IInv, TypeOK, Owned, Over, Release, Goto
<1>9. ASSUME NEW c \in Calls, Unlink(c) PROVE TypeOK'
  BY <1>9, LockAssumption DEF IInv, TypeOK, Owned, Over, Unlink, Goto
<1>10. CASE UNCHANGED vars
  BY <1>10, LockAssumption DEF IInv, TypeOK, Over, vars
<1>11. ASSUME NEW c \in Calls, CloseFile(c) PROVE TypeOK'
  BY <1>11, LockAssumption DEF IInv, TypeOK, Over, CloseFile, Goto
<1>12. ASSUME NEW c \in Calls, Undo(c) PROVE TypeOK'
  BY <1>12, LockAssumption DEF IInv, TypeOK, Owned, Over, Undo, Goto
<1> QED
  BY <1>1, <1>2, <1>3, <1>4, <1>5, <1>6, <1>7, <1>8, <1>9, <1>10, <1>11, <1>12 DEF Next, Quiet

\* Every step keeps that a call under way is of a process that lives.
LEMMA LivingStep == IInv /\ [Next]_vars => Living'
<1> SUFFICES ASSUME IInv, [Next]_vars PROVE Living'
  OBVIOUS
<1> USE DEF callVars, Leave
<1>1. ASSUME NEW p \in Procs, Boot(p) PROVE Living'
  BY <1>1, LockAssumption DEF IInv, Living, TypeOK, Boot, PidAlive
<1>2. ASSUME NEW p \in Procs, Die(p) PROVE Living'
  BY <1>2, LockAssumption DEF IInv, Living, TypeOK, Die
<1>3. ASSUME NEW c \in Calls, Begin(c) PROVE Living'
  BY <1>3, LockAssumption DEF IInv, Living, TypeOK, Begin, Goto
<1>4. ASSUME NEW c \in Calls, Create(c) PROVE Living'
  <2>1. CASE ~Goto(c, "write")
    BY <2>1, <1>4, LockAssumption DEF IInv, TypeOK, Living, Create, Goto
  <2>2. CASE Goto(c, "write")
    BY <2>2, <1>4, FreshInode DEF IInv, TypeOK, Living, Create
  <2> QED
    BY <2>1, <2>2
<1>5. ASSUME NEW c \in Calls, Write(c) PROVE Living'
  BY <1>5, LockAssumption DEF IInv, Living, TypeOK, Write, Goto
<1>6. ASSUME NEW c \in Calls, Read(c) PROVE Living'
  BY <1>6, LockAssumption DEF IInv, Living, TypeOK, Read, Goto, PidAlive
<1>7. ASSUME NEW c \in Calls, RemoveStale(c) PROVE Living'
  BY <1>7, LockAssumption DEF IInv, Living, TypeOK, RemoveStale, Goto
<1>8. ASSUME NEW c \in Calls, Release(c) PROVE Living'
  BY <1>8, LockAssumption DEF IInv, Living, TypeOK, Release, Goto
<1>9. ASSUME NEW c \in Calls, Unlink(c) PROVE Living'
  BY <1>9, LockAssumption DEF IInv, Living, TypeOK, Unlink, Goto
<1>10. CASE UNCHANGED vars
  BY <1>10, LockAssumption DEF IInv, Living, TypeOK, vars
<1>11. ASSUME NEW c \in Calls, CloseFile(c) PROVE Living'
  BY <1>11, LockAssumption DEF IInv, Living, TypeOK, CloseFile, Goto
<1>12. ASSUME NEW c \in Calls, Undo(c) PROVE Living'
  BY <1>12, LockAssumption DEF IInv, Living, TypeOK, Undo, Goto
<1> QED
  BY <1>1, <1>2, <1>3, <1>4, <1>5, <1>6, <1>7, <1>8, <1>9, <1>10, <1>11, <1>12 DEF Next, Quiet

\* Every step keeps how many attempts a call has behind it.
LEMMA AttemptsStep == IInv /\ [Next]_vars => Attempts'
<1> SUFFICES ASSUME IInv, [Next]_vars PROVE Attempts'
  OBVIOUS
<1> USE DEF callVars, Leave
<1>1. ASSUME NEW p \in Procs, Boot(p) PROVE Attempts'
  BY <1>1 DEF IInv, Attempts, Over, TypeOK, Boot, PidAlive
<1>2. ASSUME NEW p \in Procs, Die(p) PROVE Attempts'
  BY <1>2 DEF IInv, Attempts, Over, TypeOK, Die
<1>3. ASSUME NEW c \in Calls, Begin(c) PROVE Attempts'
  BY <1>3 DEF IInv, Attempts, Over, TypeOK, Begin, Goto
<1>4. ASSUME NEW c \in Calls, Create(c) PROVE Attempts'
  <2>1. CASE ~Goto(c, "write")
    BY <2>1, <1>4, LockAssumption DEF IInv, TypeOK, Attempts, Over, Create, Goto
  <2>2. CASE Goto(c, "write")
    BY <2>2, <1>4, FreshInode DEF IInv, TypeOK, Attempts, Over, Create
  <2> QED
    BY <2>1, <2>2
<1>5. ASSUME NEW c \in Calls, Write(c) PROVE Attempts'
  BY <1>5 DEF IInv, Attempts, Over, TypeOK, Write, Goto
<1>6. ASSUME NEW c \in Calls, Read(c) PROVE Attempts'
  BY <1>6 DEF IInv, Attempts, Over, TypeOK, Read, Goto, PidAlive
<1>7. ASSUME NEW c \in Calls, RemoveStale(c) PROVE Attempts'
  <2>1. /\ tries[c] \in {0, 1} /\ (tries[c] = 0 => tries'[c] <= 1)
        /\ pc'[c] \in Over \/ tries[c] = 0
        /\ \A d \in Calls : d # c => pc'[d] = pc[d]
        /\ \A d \in Calls : d # c => tries'[d] = tries[d]
    BY <1>7 DEF IInv, TypeOK, Attempts, Over, RemoveStale, Goto
  <2> QED
    BY <2>1 DEF IInv, TypeOK, Attempts, Over
<1>8. ASSUME NEW c \in Calls, Release(c) PROVE Attempts'
  BY <1>8 DEF IInv, Attempts, Over, TypeOK, Release, Goto
<1>9. ASSUME NEW c \in Calls, Unlink(c) PROVE Attempts'
  BY <1>9 DEF IInv, Attempts, Over, TypeOK, Unlink, Goto
<1>10. CASE UNCHANGED vars
  BY <1>10 DEF IInv, Attempts, Over, TypeOK, vars
<1>11. ASSUME NEW c \in Calls, CloseFile(c) PROVE Attempts'
  BY <1>11 DEF IInv, Attempts, Over, TypeOK, CloseFile, Goto
<1>12. ASSUME NEW c \in Calls, Undo(c) PROVE Attempts'
  BY <1>12 DEF IInv, Attempts, Over, TypeOK, Undo, Goto
<1> QED
  BY <1>1, <1>2, <1>3, <1>4, <1>5, <1>6, <1>7, <1>8, <1>9, <1>10, <1>11, <1>12 DEF Next, Quiet

\* Every step keeps that a file names a process that was started.
LEMMA NamedStep == IInv /\ [Next]_vars => Named'
<1> SUFFICES ASSUME IInv, [Next]_vars PROVE Named'
  OBVIOUS
<1> USE DEF callVars, Leave
<1>1. ASSUME NEW p \in Procs, Boot(p) PROVE Named'
  BY <1>1, LockAssumption DEF IInv, Named, TypeOK, Boot, PidAlive
<1>2. ASSUME NEW p \in Procs, Die(p) PROVE Named'
  BY <1>2, LockAssumption DEF IInv, Named, TypeOK, Die
<1>3. ASSUME NEW c \in Calls, Begin(c) PROVE Named'
  BY <1>3, LockAssumption DEF IInv, Named, TypeOK, Begin, Goto
<1>4. ASSUME NEW c \in Calls, Create(c) PROVE Named'
  <2>1. CASE ~Goto(c, "write")
    BY <2>1, <1>4, LockAssumption DEF IInv, TypeOK, Named, Create, Goto
  <2>2. CASE Goto(c, "write")
    BY <2>2, <1>4, FreshInode DEF IInv, TypeOK, Named, Create
  <2> QED
    BY <2>1, <2>2
<1>5. ASSUME NEW c \in Calls, Write(c) PROVE Named'
  <2>1. fd[c] \in used /\ life[ProcOf[c]] = "alive"
    BY <1>5, LockAssumption DEF IInv, Owned, Living, Write
  <2> QED
    BY <2>1, <1>5 DEF IInv, TypeOK, Named, Write, Goto
<1>6. ASSUME NEW c \in Calls, Read(c) PROVE Named'
  BY <1>6, LockAssumption DEF IInv, Named, TypeOK, Read, Goto, PidAlive
<1>7. ASSUME NEW c \in Calls, RemoveStale(c) PROVE Named'
  BY <1>7, LockAssumption DEF IInv, Named, TypeOK, RemoveStale, Goto
<1>8. ASSUME NEW c \in Calls, Release(c) PROVE Named'
  BY <1>8, LockAssumption DEF IInv, Named, TypeOK, Release, Goto
<1>9. ASSUME NEW c \in Calls, Unlink(c) PROVE Named'
  BY <1>9, LockAssumption DEF IInv, Named, TypeOK, Unlink, Goto
<1>10. CASE UNCHANGED vars
  BY <1>10, LockAssumption DEF IInv, Named, TypeOK, vars
<1>11. ASSUME NEW c \in Calls, CloseFile(c) PROVE Named'
  BY <1>11, LockAssumption DEF IInv, Named, TypeOK, CloseFile, Goto
<1>12. ASSUME NEW c \in Calls, Undo(c) PROVE Named'
  BY <1>12, LockAssumption DEF IInv, Named, TypeOK, Undo, Goto
<1> QED
  BY <1>1, <1>2, <1>3, <1>4, <1>5, <1>6, <1>7, <1>8, <1>9, <1>10, <1>11, <1>12 DEF Next, Quiet

\* Every step keeps that a file is of one call.
LEMMA OwnedStep == IInv /\ [Next]_vars => Owned'
<1> SUFFICES ASSUME IInv, [Next]_vars PROVE Owned'
  OBVIOUS
<1> USE DEF callVars, Leave
<1>1. ASSUME NEW p \in Procs, Boot(p) PROVE Owned'
  BY <1>1, LockAssumption DEF IInv, Owned, TypeOK, Boot, PidAlive
<1>2. ASSUME NEW p \in Procs, Die(p) PROVE Owned'
  BY <1>2, LockAssumption DEF IInv, Owned, TypeOK, Die
<1>3. ASSUME NEW c \in Calls, Begin(c) PROVE Owned'
  BY <1>3, LockAssumption DEF IInv, Owned, TypeOK, Begin, Goto
<1>4. ASSUME NEW c \in Calls, Create(c) PROVE Owned'
  <2>1. CASE ~Goto(c, "write")
    BY <2>1, <1>4, LockAssumption DEF IInv, TypeOK, Owned, Named, Create, Goto
  <2>2. CASE Goto(c, "write")
    BY <2>2, <1>4, FreshInode DEF IInv, TypeOK, Owned, Named, Create
  <2> QED
    BY <2>1, <2>2
<1>5. ASSUME NEW c \in Calls, Write(c) PROVE Owned'
  BY <1>5, LockAssumption DEF IInv, Owned, TypeOK, Write, Goto
<1>6. ASSUME NEW c \in Calls, Read(c) PROVE Owned'
  BY <1>6, LockAssumption DEF IInv, Owned, TypeOK, Read, Goto, PidAlive
<1>7. ASSUME NEW c \in Calls, RemoveStale(c) PROVE Owned'
  BY <1>7, LockAssumption DEF IInv, Owned, TypeOK, RemoveStale, Goto
<1>8. ASSUME NEW c \in Calls, Release(c) PROVE Owned'
  BY <1>8, LockAssumption DEF IInv, Owned, TypeOK, Release, Goto
<1>9. ASSUME NEW c \in Calls, Unlink(c) PROVE Owned'
  BY <1>9, LockAssumption DEF IInv, Owned, TypeOK, Unlink, Goto
<1>10. CASE UNCHANGED vars
  BY <1>10, LockAssumption DEF IInv, Owned, TypeOK, vars
<1>11. ASSUME NEW c \in Calls, CloseFile(c) PROVE Owned'
  BY <1>11, LockAssumption DEF IInv, Owned, TypeOK, CloseFile, Goto
<1>12. ASSUME NEW c \in Calls, Undo(c) PROVE Owned'
  BY <1>12, LockAssumption DEF IInv, Owned, TypeOK, Undo, Goto
<1> QED
  BY <1>1, <1>2, <1>3, <1>4, <1>5, <1>6, <1>7, <1>8, <1>9, <1>10, <1>11, <1>12 DEF Next, Quiet

\* What a step of call c has to respect to keep Served when it leaves the files alone.
LEMMA StillServed ==
  ASSUME IInv, NEW c \in Calls, UNCHANGED <<life, dir, holder, fd>>, left \subseteq left',
         \A d \in Calls : d # c => pc'[d] = pc[d],
         Serves(c) => Serves(c)' \/ dir \in left'
  PROVE  Served'
<1> SUFFICES ASSUME dir # None, holder[dir] # None, life[holder[dir]] = "alive"
             PROVE  dir \in left' \/ \E d \in Calls : Serves(d)'
  BY DEF Served
<1>1. CASE dir \in left
  BY <1>1
<1>2. ASSUME NEW d \in Calls, Serves(d) PROVE dir \in left' \/ \E e \in Calls : Serves(e)'
  BY <1>2 DEF Serves
<1> QED
  BY <1>1, <1>2 DEF IInv, Served

\* Every step keeps that a process that lives and is named has a call that serves the file.
LEMMA ServedStep == IInv /\ [Next]_vars => Served'
<1> SUFFICES ASSUME IInv, [Next]_vars PROVE Served'
  OBVIOUS
<1> USE DEF callVars, Leave
<1>1. ASSUME NEW p \in Procs, Boot(p) PROVE Served'
  BY <1>1, LockAssumption DEF IInv, Served, Serves, Living, Owned, Named, TypeOK, Boot, PidAlive
<1>2. ASSUME NEW p \in Procs, Die(p) PROVE Served'
  <2>1. UNCHANGED <<dir, holder, fd, left>> /\ \A q \in Procs : q # p => life'[q] = life[q]
    BY <1>2 DEF IInv, TypeOK, Die
  <2>2. \A d \in Calls : ProcOf[d] # p => pc'[d] = pc[d]
    BY <1>2 DEF Die
  <2> SUFFICES ASSUME dir # None, holder[dir] # None, life'[holder[dir]] = "alive", dir \notin left
               PROVE  \E d \in Calls : Serves(d)'
    BY <2>1 DEF Served
  <2>3. holder[dir] \in Procs /\ holder[dir] # p
    BY <1>2 DEF IInv, TypeOK, Die
  <2>4. PICK d \in Calls : Serves(d)
    BY <2>1, <2>3 DEF IInv, Served
  <2>5. holder[dir] = ProcOf[d]
    BY <2>4 DEF IInv, Owned, Serves
  <2> QED
    BY <2>1, <2>2, <2>3, <2>4, <2>5 DEF Serves
<1>3. ASSUME NEW c \in Calls, Begin(c) PROVE Served'
  BY <1>3, StillServed DEF IInv, TypeOK, Serves, Begin, Goto
<1>4. ASSUME NEW c \in Calls, Create(c) PROVE Served'
  <2>1. CASE ~Goto(c, "write")
    BY <2>1, <1>4, StillServed DEF IInv, TypeOK, Serves, Create, Goto
  <2>2. CASE Goto(c, "write")
    BY <2>2, <1>4, FreshInode DEF IInv, TypeOK, Served, Named, Owned, Create
  <2> QED
    BY <2>1, <2>2
<1>5. ASSUME NEW c \in Calls, Write(c) PROVE Served'
  <2>1. UNCHANGED <<life, dir, fd, left>> /\ pc'[c] \in {"close", "undo"}
        /\ \A d \in Calls : d # c => pc'[d] = pc[d]
    BY <1>5 DEF IInv, TypeOK, Write, Goto
  <2>2. CASE dir = fd[c]
    BY <2>1, <2>2 DEF Served, Serves
  <2>3. CASE dir # fd[c]
    <3>1. dir # None => holder'[dir] = holder[dir]
      BY <2>3, <1>5 DEF IInv, TypeOK, Write
    <3>2. \A d \in Calls : Serves(d) => Serves(d)'
      BY <2>1, <2>3 DEF Serves
    <3> QED
      BY <2>1, <3>1, <3>2 DEF IInv, Served
  <2> QED
    BY <2>2, <2>3
<1>6. ASSUME NEW c \in Calls, CloseFile(c) PROVE Served'
  BY <1>6, StillServed DEF IInv, TypeOK, Serves, CloseFile, Goto
<1>7. ASSUME NEW c \in Calls, Undo(c) PROVE Served'
  <2>1. CASE dir' = None
    BY <2>1 DEF Served
  <2>2. CASE dir' # None
    BY <2>2, <1>7, StillServed DEF IInv, TypeOK, Serves, Undo, Goto
  <2> QED
    BY <2>1, <2>2
<1>8. ASSUME NEW c \in Calls, Read(c) PROVE Served'
  BY <1>8, StillServed DEF IInv, TypeOK, Serves, Read, Goto
<1>9. ASSUME NEW c \in Calls, RemoveStale(c) PROVE Served'
  <2>1. CASE dir' = None
    BY <2>1 DEF Served
  <2>2. CASE dir' # None
    BY <2>2, <1>9, StillServed DEF IInv, TypeOK, Serves, RemoveStale, Goto
  <2> QED
    BY <2>1, <2>2
<1>10. ASSUME NEW c \in Calls, Release(c) PROVE Served'
  <2>1. /\ UNCHANGED <<life, dir, holder, fd>> /\ left \subseteq left'
        /\ \A d \in Calls : d # c => pc'[d] = pc[d]
    BY <1>10 DEF IInv, TypeOK, Release, Goto
  <2>2. ASSUME dir = fd[c], dir \notin left' PROVE pc'[c] = "unlink"
    <3>1. dir # None /\ holder[dir] = ProcOf[c] /\ ProcOf[c] # None
      BY <2>2, <1>10, LockAssumption DEF IInv, Owned, Release
    <3> QED
      BY <3>1, <2>2, <1>10 DEF IInv, TypeOK, Release, Goto
  <2>3. Serves(c) => Serves(c)' \/ dir \in left'
    BY <2>1, <2>2 DEF Serves
  <2> QED
    BY <2>1, <2>3, StillServed
<1>11. ASSUME NEW c \in Calls, Unlink(c) PROVE Served'
  <2>1. CASE dir' = None
    BY <2>1 DEF Served
  <2>2. CASE dir' # None
    BY <2>2, <1>11, StillServed DEF IInv, TypeOK, Serves, Unlink, Goto
  <2> QED
    BY <2>1, <2>2
<1>12. CASE UNCHANGED vars
  BY <1>12 DEF IInv, Served, Serves, vars
<1> QED
  BY <1>1, <1>2, <1>3, <1>4, <1>5, <1>6, <1>7, <1>8, <1>9, <1>10, <1>11, <1>12 DEF Next, Quiet

\* What a step of an Acquire has to respect to keep Alone when it leaves the files alone.
LEMMA StillAlone ==
  ASSUME IInv, NEW c \in Calls, Acquiring(c), UNCHANGED <<raced, dir, fd>>, misread => misread',
         \A d \in Calls : d # c => pc'[d] = pc[d],
         pc'[c] \in {"write", "close", "undo", "held", "unlink"} =>
           pc[c] \in {"write", "close", "undo"},
         ~raced /\ ~misread' /\ pc'[c] = "remove" =>
           \A d \in Calls : pc[d] \notin {"held", "unlink"}
  PROVE  Alone'
<1> SUFFICES ASSUME ~raced, ~misread' PROVE Alone'
  BY DEF Alone
<1>1. \A d \in Calls : Acquiring(d) => d = c
  BY DEF IInv, Alone
<1>2. \A d \in Calls : Acquiring(d)' => d = c
  BY <1>1 DEF Acquiring
<1>3. \A d \in Calls : pc'[d] \in {"write", "close", "undo", "held", "unlink"} => dir = fd[d]
  BY DEF IInv, Alone
<1>4. ASSUME NEW d \in Calls, NEW e \in Calls, pc'[d] = "remove"
      PROVE  pc'[e] \notin {"held", "unlink"}
  <2>1. d = c
    BY <1>2, <1>4 DEF Acquiring
  <2> QED
    BY <2>1, <1>4
<1> QED
  BY <1>2, <1>3, <1>4 DEF Alone

\* Every step keeps that a holder is alone when no calls overlapped.
LEMMA AloneStep == IInv /\ [Next]_vars => Alone'
<1> SUFFICES ASSUME IInv, [Next]_vars PROVE Alone'
  OBVIOUS
<1> USE DEF callVars, Leave
<1>1. ASSUME NEW p \in Procs, Boot(p) PROVE Alone'
  BY <1>1 DEF IInv, Alone, Acquiring, Boot
<1>2. ASSUME NEW p \in Procs, Die(p) PROVE Alone'
  BY <1>2 DEF IInv, Alone, Acquiring, TypeOK, Die
<1>3. ASSUME NEW c \in Calls, Begin(c) PROVE Alone'
  BY ZenonT(40), <1>3, LockAssumption DEF IInv, Alone, Acquiring, TypeOK, Begin, Goto
<1>4. ASSUME NEW c \in Calls, Create(c) PROVE Alone'
  <2>1. /\ UNCHANGED <<raced, misread>> /\ Acquiring(c) /\ pc'[c] \in {"read", "write", "failed"}
        /\ \A d \in Calls : d # c => pc'[d] = pc[d]
    BY <1>4 DEF IInv, TypeOK, Create, Goto, Acquiring
  <2>2. CASE ~Goto(c, "write")
    <3>1. UNCHANGED <<dir, fd>> /\ pc'[c] \in {"read", "failed"}
      BY <2>2, <1>4 DEF IInv, TypeOK, Create, Goto
    <3> QED
      BY <2>1, <3>1, StillAlone
  <2>3. CASE Goto(c, "write")
    <3>1. dir = None /\ fd'[c] = dir' /\ pc'[c] = "write" /\ \A d \in Calls : d # c => fd'[d] = fd[d]
      BY <2>3, <1>4, FreshInode DEF IInv, TypeOK
    <3>2. \A d \in Calls : Acquiring(d)' => Acquiring(d)
      BY <2>1 DEF Acquiring
    <3>3. ~raced /\ ~misread =>
            \A d \in Calls : pc[d] \notin {"write", "close", "undo", "held", "unlink"}
      BY <3>1, LockAssumption DEF IInv, Alone, Owned
    <3>4. ~raced /\ ~misread =>
            \A d \in Calls : pc'[d] \in {"write", "close", "undo", "held", "unlink"} => d = c
      BY <2>1, <3>3
    <3> QED
      BY <2>1, <3>1, <3>2, <3>4 DEF IInv, Alone
  <2> QED
    BY <2>2, <2>3
<1>5. ASSUME NEW c \in Calls, Write(c) PROVE Alone'
  BY <1>5, StillAlone DEF IInv, TypeOK, Acquiring, Write, Goto
<1>6. ASSUME NEW c \in Calls, CloseFile(c) PROVE Alone'
  BY <1>6, StillAlone DEF IInv, TypeOK, Acquiring, CloseFile, Goto
<1>7. ASSUME NEW c \in Calls, Undo(c) PROVE Alone'
  <2>1. /\ UNCHANGED <<raced, misread, fd>> /\ Acquiring(c) /\ pc[c] = "undo" /\ pc'[c] = "failed"
        /\ \A d \in Calls : d # c => pc'[d] = pc[d]
    BY <1>7 DEF IInv, TypeOK, Undo, Goto, Acquiring
  <2>2. CASE dir' = dir
    BY <2>1, <2>2, StillAlone
  <2>3. CASE dir' # dir
    <3>1. \A d \in Calls : Acquiring(d)' => Acquiring(d)
      BY <2>1 DEF Acquiring
    <3>2. ASSUME ~raced, ~misread, NEW d \in Calls,
                 pc[d] \in {"write", "close", "undo", "held", "unlink"}
          PROVE  d = c
      BY <3>2, <2>1, LockAssumption DEF IInv, Alone, Owned
    <3> QED
      BY <2>1, <3>1, <3>2 DEF IInv, Alone
  <2> QED
    BY <2>2, <2>3
<1>8. ASSUME NEW c \in Calls, Read(c) PROVE Alone'
  <2>1. /\ UNCHANGED <<raced, dir, fd>> /\ Acquiring(c) /\ pc'[c] \in {"refused", "remove"}
        /\ \A d \in Calls : d # c => pc'[d] = pc[d]
    BY <1>8 DEF IInv, TypeOK, Read, Goto, Acquiring
  <2>2. misread => misread'
    BY <1>8 DEF Read
  <2>3. ASSUME NEW d \in Calls, ~raced, ~misread', pc[d] \in {"held", "unlink"}
        PROVE  pc'[c] # "remove"
    <3>1. dir = fd[d] /\ dir # None /\ holder[dir] = ProcOf[d] /\ life[ProcOf[d]] = "alive"
      BY <2>2, <2>3, LockAssumption DEF IInv, Alone, Owned, Living
    <3>2. PidAlive(PidOf[ProcOf[d]]) /\ ProcOf[d] # None
      BY <3>1, LockAssumption DEF PidAlive
    <3>3. Kept(c)
      BY <3>1, <3>2 DEF Kept
    <3> QED
      BY <2>3, <3>3, <1>8 DEF IInv, TypeOK, Read, Goto
  <2> QED
    BY <2>1, <2>2, <2>3, StillAlone
<1>9. ASSUME NEW c \in Calls, RemoveStale(c) PROVE Alone'
  <2>1. /\ UNCHANGED <<raced, misread, fd>> /\ Acquiring(c) /\ pc[c] = "remove"
        /\ pc'[c] \in {"create", "exhausted", "failed"}
        /\ \A d \in Calls : d # c => pc'[d] = pc[d]
    BY <1>9 DEF IInv, TypeOK, RemoveStale, Goto, Acquiring
  <2>2. \A d \in Calls : Acquiring(d)' => Acquiring(d)
    BY <2>1 DEF Acquiring
  <2>3. ASSUME ~raced, ~misread, NEW d \in Calls
        PROVE  pc[d] \notin {"write", "close", "undo", "held", "unlink"}
    BY <2>3, <2>1 DEF IInv, Alone, Acquiring
  <2> QED
    BY <2>1, <2>2, <2>3 DEF IInv, Alone
<1>10. ASSUME NEW c \in Calls, Release(c) PROVE Alone'
  <2>1. /\ UNCHANGED <<raced, misread, dir, fd>> /\ pc[c] = "held" /\ pc'[c] \in {"unlink", "done"}
        /\ \A d \in Calls : d # c => pc'[d] = pc[d]
    BY <1>10 DEF IInv, TypeOK, Release, Goto
  <2>2. \A d \in Calls : Acquiring(d)' => Acquiring(d)
    BY <2>1 DEF Acquiring
  <2> QED
    BY <2>1, <2>2 DEF IInv, Alone
<1>11. ASSUME NEW c \in Calls, Unlink(c) PROVE Alone'
  <2>1. /\ UNCHANGED <<raced, misread, fd>> /\ pc[c] = "unlink" /\ pc'[c] = "done"
        /\ \A d \in Calls : d # c => pc'[d] = pc[d]
    BY <1>11 DEF IInv, TypeOK, Unlink, Goto
  <2>2. \A d \in Calls : Acquiring(d)' => Acquiring(d)
    BY <2>1 DEF Acquiring
  <2>3. ASSUME ~raced, ~misread, NEW d \in Calls,
               pc[d] \in {"write", "close", "undo", "held", "unlink"}
        PROVE  d = c
    BY <2>3, <2>1, LockAssumption DEF IInv, Alone, Owned
  <2> QED
    BY <2>1, <2>2, <2>3 DEF IInv, Alone
<1>12. CASE UNCHANGED vars
  BY <1>12 DEF IInv, Alone, Acquiring, vars
<1> QED
  BY <1>1, <1>2, <1>3, <1>4, <1>5, <1>6, <1>7, <1>8, <1>9, <1>10, <1>11, <1>12 DEF Next, Quiet

-----------------------------------------------------------------------------
\* Nothing has run and there is no file.
LEMMA InitInv == Init => IInv
<1> SUFFICES ASSUME Init PROVE IInv
  OBVIOUS
<1>1. TypeOK
  <2>1. life \in [Procs -> {"new", "alive", "dead"}] /\ holder \in [Inodes -> Procs \cup {None}]
    BY DEF Init
  <2>2. pc \in [Calls -> {"idle", "create", "write", "close", "undo", "read", "remove", "held",
                       "unlink"} \cup Over]
    BY DEF Init
  <2>3. tries \in [Calls -> 0 .. 2]
    BY DEF Init
  <2>4. fd \in [Calls -> Inodes \cup {None}] /\ dir \in Inodes \cup {None} /\ used \subseteq Inodes
    BY DEF Init
  <2> QED
    BY <2>1, <2>2, <2>3, <2>4 DEF Init, TypeOK
<1>2. Living /\ Attempts /\ Named
  BY DEF Init, Living, Attempts, Named
<1>3. Owned /\ Served
  BY DEF Init, Owned, Served
<1>4. Alone
  BY DEF Init, Alone, Acquiring
<1> QED
  BY <1>1, <1>2, <1>3, <1>4 DEF IInv

\* Every step keeps the invariant.
LEMMA Inductive == IInv /\ [Next]_vars => IInv'
BY TypeStep, LivingStep, AttemptsStep, NamedStep, OwnedStep, ServedStep, AloneStep DEF IInv

\* The inductive invariant holds in every state.
THEOREM Invariance == Spec => []IInv
BY InitInv, Inductive, PTL DEF Spec

\* Every variable keeps its type, and no Acquire makes a third attempt.
THEOREM TypeCorrect == Spec => []TypeOK
<1>1. IInv => TypeOK
  BY DEF IInv
<1> QED
  BY <1>1, Invariance, PTL

\* As long as no two calls of Acquire have overlapped and none has failed to read the file
\* of a process that lives, two calls never have the lock, also when pids are used again
\* and whichever other calls of the file system fail.
THEOREM ExclusionInTurn == Spec => []ExclusiveInTurn
<1>1. IInv => ExclusiveInTurn
  <2> SUFFICES ASSUME IInv, ~raced, ~misread, NEW c \in Calls, NEW d \in Calls,
                      pc[c] = "held", pc[d] = "held"
               PROVE  c = d
    BY DEF ExclusiveInTurn, Exclusive
  <2>1. dir = fd[c] /\ dir = fd[d] /\ fd[c] # None
    BY LockAssumption DEF IInv, Alone, Owned
  <2> QED
    BY <2>1 DEF IInv, Owned
<1> QED
  BY <1>1, Invariance, PTL

\* When no pid is used twice, who is refused is refused by a call that has the lock, is
\* about to have it or gives it up, or by a file whose call has failed to remove it,
\* whatever crashes and writes that were undone have left at the path.
THEOREM RefusalIsTrue ==
  ASSUME \A p, q \in Procs : PidOf[p] = PidOf[q] => p = q
  PROVE  Spec => RefusedByAHolder
<1> DEFINE Refusal ==
      \A c \in Calls : pc[c] # "refused" /\ pc'[c] = "refused" =>
        \/ \E d \in Calls : pc[d] \in {"close", "undo", "held", "unlink"} /\ fd[d] = dir
        \/ dir \in left
<1>1. IInv /\ [Next]_vars => Refusal
  <2> SUFFICES ASSUME IInv, [Next]_vars, NEW c \in Calls, pc[c] # "refused", pc'[c] = "refused"
               PROVE  dir \in left \/ \E d \in Calls : Serves(d)
    BY DEF Serves
  <2>1. Read(c)
    BY DEF IInv, TypeOK, Next, vars, callVars, Boot, Die, Begin, Create, Write, CloseFile,
       Undo, Read, RemoveStale, Release, Unlink, Goto, Quiet
  <2>2. life[ProcOf[c]] = "alive"
    BY <2>1 DEF IInv, Living, Read
  <2>3. Kept(c)
    BY <2>1 DEF IInv, TypeOK, Read, Goto
  <2>4. dir # None /\ holder[dir] \in Procs /\ ProcOf[c] \in Procs
    BY <2>3, LockAssumption DEF IInv, TypeOK, Kept
  <2>5. life[holder[dir]] = "alive"
    BY <2>2, <2>3, <2>4 DEF PidAlive, Kept
  <2> QED
    BY <2>3, <2>5 DEF IInv, Served, Kept
<1>2. IInv /\ [Next]_vars => [Refusal]_vars
  BY <1>1
<1> QED
  BY <1>2, Invariance, PTL DEF Spec, RefusedByAHolder
=============================================================================
