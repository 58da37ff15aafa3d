-------------------------- MODULE LifecycleProofs --------------------------
(***************************************************************************)
(* Proofs about module Lifecycle, for any number of processes, kills and   *)
(* leftovers, and any number of inodes the lock file goes through.         *)
(***************************************************************************)
EXTENDS Lifecycle, FiniteSetTheorems, TLAPS

\* A process that has the lock, until it gives it up.
Locking == {"truncate", "write", "pid", "token", "unsock", "bind"}
Holding == Locking \cup {"serving", "revoke", "unlock"}

\* A process that touches the shared files.
Moving(p) == pc[p] \in Starting \cup Ending

(***************************************************************************)
(* Of the lock, in any history.                                            *)
(***************************************************************************)
LockInv ==
  \A p \in Proc :
    /\ pc[p] = "flock" => fd[p] # None
    /\ pc[p] \in Locking => p \in locked
    /\ p \in locked => pc[p] \in Holding

(***************************************************************************)
(* Of an orderly history.  One process moves at a time, so that what a     *)
(* start (Established) or an end (CleanedUp) has done to the files is not  *)
(* undone before its next step.  The instance that serves has them all,    *)
(* and a start beside it gets no further than to the pid in the lock file  *)
(* (Undisputed).  A start that found no instance meets none, and its flock *)
(* succeeds (Welcome).                                                     *)
(***************************************************************************)
OneMoves == \A p, q \in Proc : Moving(p) /\ Moving(q) => p = q

Owns(p) ==
  /\ path = fd[p] /\ p \in locked /\ pidIn[path] = p
  /\ \A f \in File : file[f] = p

Undisputed(p) ==
  pc[p] = "serving" =>
    /\ Owns(p)
    /\ \A q \in Proc : pc[q] = "serving" => q = p
    /\ \A q \in Proc : Moving(q) => pc[q] \in {"open", "flock", "exists", "read"}

Established(p) ==
  /\ pc[p] \in {"flock"} \cup Locking => path = fd[p]
  /\ pc[p] \in {"pid", "token", "unsock", "bind"} => pidIn[path] = p
  /\ pc[p] \in {"token", "unsock", "bind"} => file["pid"] = p
  /\ pc[p] \in {"unsock", "bind"} => file["token"] = p
  /\ pc[p] = "bind" => file["sock"] = None

Welcome(p) ==
  /\ pc[p] \in {"exists", "read", "reap", "refused"} => p \in rival
  /\ pc[p] \in {"open", "flock"} /\ p \notin rival => Serving = {}

CleanedUp(p) ==
  /\ pc[p] \in {"rmsock", "rmlock", "rmtoken"} => file["pid"] = None
  /\ pc[p] \in {"rmlock", "rmtoken"} => file["sock"] = None
  /\ pc[p] = "rmtoken" => path = None

ProcInv(p) == Undisputed(p) /\ Established(p) /\ Welcome(p) /\ CleanedUp(p)

OrderlyInv == OneMoves /\ \A p \in Proc : ProcInv(p)

IInv == TypeOK /\ LockInv /\ (orderly => OrderlyInv)

-----------------------------------------------------------------------------
LEMMA InvInit == Init => IInv
<1> SUFFICES ASSUME Init PROVE IInv
  OBVIOUS
<1>1. TypeOK
  BY DEF Init, TypeOK, PC
<1>2. LockInv
  BY DEF Init, LockInv, Locking
<1>3. OrderlyInv
  BY DEF Init, OrderlyInv, OneMoves, Moving, Starting, Ending, ProcInv,
     Undisputed, Established, Welcome, CleanedUp, Locking
<1> QED BY <1>1, <1>2, <1>3 DEF IInv

-----------------------------------------------------------------------------
(***************************************************************************)
(* The lock, in any history.                                               *)
(***************************************************************************)
TypeAndLock == TypeOK /\ LockInv

\* A step that opens, locks or closes nothing, and goes on with what it had.
LEMMA PlainStep ==
  ASSUME TypeAndLock, NEW p \in Proc, NEW x \in PC, Goto(p, x),
         UNCHANGED <<fd, locked>>, x # "flock",
         x \in Locking => p \in locked, p \in locked => x \in Holding,
         retried' \in SUBSET Proc, path' \in Inode \cup {None},
         pidIn' \in [Inode -> Proc \cup {None}],
         file' \in [File -> Proc \cup {None}],
         rival' \in SUBSET Proc, orderly' \in BOOLEAN
  PROVE  TypeAndLock'
<1>1. pc' = [pc EXCEPT ![p] = x] /\ pc \in [Proc -> PC]
  BY DEF Goto, TypeAndLock, TypeOK
<1>2. TypeOK'
  BY <1>1 DEF TypeAndLock, TypeOK
<1>3. LockInv'
  BY <1>1 DEF TypeAndLock, LockInv
<1> QED BY <1>2, <1>3 DEF TypeAndLock

LEMMA StartLock ==
  ASSUME TypeAndLock, NEW p \in Proc, Start(p) PROVE TypeAndLock'
<1>1. p \notin locked
  BY DEF TypeAndLock, LockInv, Start, At, Holding, Locking
<1>2. /\ Goto(p, "open") /\ UNCHANGED <<fd, locked, retried, path, pidIn, file>>
      /\ rival' \in SUBSET Proc /\ orderly' \in BOOLEAN
  BY DEF Start, diskVars, TypeAndLock, TypeOK, Undisturbed
<1> QED BY <1>1, <1>2, PlainStep DEF TypeAndLock, TypeOK, PC, Starting, Locking

LEMMA OpenLock ==
  ASSUME TypeAndLock, NEW p \in Proc, Open(p) PROVE TypeAndLock'
<1>1. TypeOK /\ LockInv /\ pc[p] = "open"
  BY DEF TypeAndLock, Open, At
<1>2. p \notin locked
  BY <1>1 DEF LockInv, Holding, Locking
<1>3. /\ pc' = [pc EXCEPT ![p] = "flock"]
      /\ UNCHANGED <<locked, retried, file, rival, orderly>>
  BY DEF Open, Goto, history
<1>4. \E i \in Inode : /\ fd' = [fd EXCEPT ![p] = i]
                       /\ path' = i
                       /\ pidIn' \in {pidIn, [pidIn EXCEPT ![i] = None]}
  BY <1>1 DEF Open, TypeOK
<1>5. TypeOK'
  BY <1>1, <1>2, <1>3, <1>4, ProcAssumption DEF TypeOK, PC, Starting
<1>6. LockInv'
  BY <1>1, <1>2, <1>3, <1>4, ProcAssumption DEF LockInv, TypeOK, Locking, Holding
<1> QED BY <1>5, <1>6 DEF TypeAndLock

LEMMA FlockLock ==
  ASSUME TypeAndLock, NEW p \in Proc, Flock(p) PROVE TypeAndLock'
<1>1. TypeOK /\ LockInv /\ pc[p] = "flock" /\ p \notin locked /\ fd[p] # None
  BY DEF TypeAndLock, Flock, At, LockInv, Holding, Locking
<1>2. UNCHANGED <<retried, path, pidIn, file, rival, orderly>>
  BY DEF Flock, diskVars, history
<1>3. CASE \E q \in locked : fd[q] = fd[p]
  <2>1. /\ fd' = [fd EXCEPT ![p] = None] /\ UNCHANGED locked
        /\ \E x \in {"refused", "exists"} : pc' = [pc EXCEPT ![p] = x]
    BY <1>3 DEF Flock, Goto
  <2>2. TypeOK'
    BY <1>1, <1>2, <2>1 DEF TypeOK, PC, Starting
  <2>3. LockInv'
    BY <1>1, <1>2, <2>1 DEF LockInv, TypeOK, Locking
  <2> QED BY <2>2, <2>3 DEF TypeAndLock
<1>4. CASE ~ \E q \in locked : fd[q] = fd[p]
  <2>1. /\ locked' = locked \cup {p} /\ fd' = fd
        /\ pc' = [pc EXCEPT ![p] = "truncate"]
    BY <1>4 DEF Flock, Goto
  <2>2. TypeOK'
    BY <1>1, <1>2, <2>1 DEF TypeOK, PC, Starting
  <2>3. LockInv'
    BY <1>1, <1>2, <2>1 DEF LockInv, TypeOK, Locking, Holding
  <2> QED BY <2>2, <2>3 DEF TypeAndLock
<1> QED BY <1>3, <1>4

\* The pid is written into the file the process has locked.
LEMMA PidLock ==
  ASSUME TypeAndLock, NEW p \in Proc, Truncate(p) \/ Write(p)
  PROVE  TypeAndLock'
<1>1. TypeOK /\ p \in locked /\ fd[p] \in Inode
  BY DEF TypeAndLock, TypeOK, LockInv, Locking, Truncate, Write, At
<1>2. /\ \E x \in {"write", "pid"} : Goto(p, x)
      /\ UNCHANGED <<fd, locked, retried, path, file, rival, orderly>>
      /\ \E v \in {p, None} : pidIn' = [pidIn EXCEPT ![fd[p]] = v]
  BY DEF Truncate, Write, history
<1>3. pidIn' \in [Inode -> Proc \cup {None}]
  BY <1>1, <1>2 DEF TypeOK
<1> QED BY <1>1, <1>2, <1>3, PlainStep DEF TypeOK, PC, Starting, Locking, Holding

LEMMA RecoverLock ==
  ASSUME TypeAndLock, NEW p \in Proc,
         Exists(p) \/ Read(p) \/ Reap(p) \/ GiveUp(p)
  PROVE  TypeAndLock'
<1>1. TypeOK /\ p \notin locked
  BY DEF TypeAndLock, LockInv, Holding, Locking, Exists, Read, Reap, GiveUp, At
<1>2. /\ \E x \in {"read", "refused", "reap", "open", "exited"} : Goto(p, x)
      /\ UNCHANGED <<fd, locked, pidIn, file, rival, orderly>>
      /\ path' \in {path, None} /\ retried' \in {retried, retried \cup {p}}
  BY DEF Exists, Read, Reap, GiveUp, diskVars, history
<1> QED BY <1>1, <1>2, PlainStep DEF TypeOK, PC, Starting, Dead, Locking

\* The steps on the plain files.
LEMMA FileLock ==
  ASSUME TypeAndLock, NEW p \in Proc, NEW x \in PC, NEW y \in PC,
         FileStep(p, x, y), file' \in [File -> Proc \cup {None}],
         y \notin {"flock", "write", "truncate"},
         y \in Locking => x \in Locking,
         x \in Holding => y \in Holding
  PROVE  TypeAndLock'
<1>1. /\ TypeOK /\ Goto(p, y)
      /\ UNCHANGED <<fd, locked, retried, path, pidIn, rival, orderly>>
      /\ y \in Locking => p \in locked
      /\ p \in locked => y \in Holding
  BY DEF TypeAndLock, LockInv, FileStep, At, history
<1> QED BY <1>1, PlainStep DEF TypeOK

LEMMA FilesLock ==
  ASSUME TypeAndLock, NEW p \in Proc,
         \/ WritePid(p) \/ IssueToken(p) \/ RemoveStaleSocket(p) \/ Bind(p)
         \/ Revoke(p) \/ RemovePid(p) \/ RemoveSocket(p) \/ RemoveToken(p)
  PROVE  TypeAndLock'
<1> USE FileLock DEF PC, Starting, Ending, Dead, Locking, Holding
<1>1. file' \in [File -> Proc \cup {None}]
  BY DEF WritePid, IssueToken, RemoveStaleSocket, Bind, Revoke, RemovePid,
     RemoveSocket, RemoveToken, Put, Remove, TypeAndLock, TypeOK
<1>2. CASE WritePid(p)
  BY <1>1, <1>2 DEF WritePid
<1>3. CASE IssueToken(p)
  BY <1>1, <1>3 DEF IssueToken
<1>4. CASE RemoveStaleSocket(p)
  BY <1>1, <1>4 DEF RemoveStaleSocket
<1>5. CASE Bind(p)
  BY <1>1, <1>5 DEF Bind
<1>6. CASE Revoke(p)
  BY <1>1, <1>6 DEF Revoke
<1>7. CASE RemovePid(p)
  BY <1>1, <1>7 DEF RemovePid
<1>8. CASE RemoveSocket(p)
  BY <1>1, <1>8 DEF RemoveSocket
<1>9. CASE RemoveToken(p)
  BY <1>1, <1>9 DEF RemoveToken
<1> QED BY <1>2, <1>3, <1>4, <1>5, <1>6, <1>7, <1>8, <1>9

LEMMA EndLock ==
  ASSUME TypeAndLock, NEW p \in Proc,
         Stop(p) \/ StraySignal(p) \/ RemoveLock(p)
  PROVE  TypeAndLock'
<1>1. /\ TypeOK
      /\ RemoveLock(p) => p \notin locked
  BY DEF TypeAndLock, LockInv, RemoveLock, At, Holding, Locking
<1>2. /\ UNCHANGED <<fd, locked, retried, pidIn, file, rival>>
      /\ path' \in {path, None} /\ orderly' \in BOOLEAN
      /\ \/ \E x \in {"revoke", "unlock"} : Goto(p, x)
         \/ Goto(p, "rmtoken") /\ p \notin locked
  BY <1>1 DEF Stop, StraySignal, RemoveLock, diskVars, history, TypeOK,
     Undisturbed
<1> QED BY <1>1, <1>2, PlainStep DEF TypeOK, PC, Ending, Locking, Holding

\* The lock is given up with the descriptor.
LEMMA CloseLock ==
  ASSUME TypeAndLock, NEW p \in Proc, Unlock(p) \/ Kill(p) PROVE TypeAndLock'
<1>1. /\ TypeOK /\ LockInv /\ fd' = [fd EXCEPT ![p] = None]
      /\ locked' = locked \ {p}
      /\ \E x \in {"rmpid", "killed"} : pc' = [pc EXCEPT ![p] = x]
      /\ UNCHANGED <<retried, path, pidIn, file, rival, orderly>>
  BY DEF TypeAndLock, Unlock, Kill, Goto, diskVars, history
<1>2. TypeOK'
  BY <1>1 DEF TypeOK, PC, Ending, Dead
<1>3. LockInv'
  BY <1>1 DEF LockInv, TypeOK, Locking
<1> QED BY <1>2, <1>3 DEF TypeAndLock

LEMMA LockNext == TypeAndLock /\ [Next]_vars => TypeAndLock'
<1> SUFFICES ASSUME TypeAndLock, [Next]_vars PROVE TypeAndLock'
  OBVIOUS
<1>1. CASE UNCHANGED vars
  BY <1>1 DEF vars, procVars, diskVars, TypeAndLock, TypeOK, LockInv
<1>2. ASSUME NEW p \in Proc,
             Start(p) \/ Step(p) \/ Stop(p) \/ StraySignal(p) \/ Kill(p)
      PROVE  TypeAndLock'
  BY <1>2, StartLock, OpenLock, FlockLock, PidLock, RecoverLock, FilesLock,
     EndLock, CloseLock DEF Step
<1> QED BY <1>1, <1>2 DEF Next

-----------------------------------------------------------------------------
(***************************************************************************)
(* The rest is about orderly histories.  Beyond its first steps a process  *)
(* is alone.                                                               *)
(***************************************************************************)
Beside == {"open", "flock", "exists", "read"}

LEMMA Alone ==
  ASSUME OrderlyInv, NEW p \in Proc, Moving(p), pc[p] \notin Beside
  PROVE  Serving = {}
BY DEF OrderlyInv, ProcInv, Undisputed, Serving, Beside

LEMMA SameServing ==
  ASSUME TypeOK, NEW p \in Proc, NEW x, Goto(p, x), pc[p] # "serving",
         x # "serving"
  PROVE  Serving' = Serving
BY DEF TypeOK, Goto, Serving

(***************************************************************************)
(* A step of the process that moves: what is to be shown is what it finds  *)
(* after it, and that an instance beside it still has its files.           *)
(***************************************************************************)
LEMMA MoveInv ==
  ASSUME TypeOK, OrderlyInv, NEW p \in Proc, NEW x, Moving(p), Goto(p, x),
         rival' = rival,
         \A s \in Serving : Owns(s)' /\ x \in Beside \cup {"refused"},
         ProcInv(p)'
  PROVE  OrderlyInv'
<1>1. pc'[p] = x /\ \A q \in Proc : q # p => pc'[q] = pc[q]
  BY DEF TypeOK, Goto
<1>2. OneMoves /\ \A q \in Proc : ProcInv(q)
  BY DEF OrderlyInv
<1>3. \A q \in Proc : q # p => ~Moving(q) /\ ~Moving(q)'
  BY <1>1, <1>2 DEF OneMoves, Moving
<1>4. OneMoves'
  BY <1>3 DEF OneMoves
<1>5. ASSUME NEW q \in Proc, q # p PROVE ProcInv(q)'
  <2>1. pc'[q] = pc[q] /\ pc[q] \notin Starting \cup Ending
    BY <1>1, <1>3, <1>5 DEF Moving
  <2>2. Undisputed(q)'
    <3> SUFFICES ASSUME pc[q] = "serving"
                 PROVE  /\ Owns(q)'
                        /\ \A r \in Proc : pc'[r] = "serving" => r = q
                        /\ \A r \in Proc : Moving(r)' => pc'[r] \in Beside
      BY <2>1 DEF Undisputed, Beside
    <3>1. q \in Serving
      BY DEF Serving
    <3>2. Owns(q)' /\ x \in Beside \cup {"refused"}
      BY <3>1
    <3>3. \A r \in Proc : pc[r] = "serving" => r = q
      BY <1>2 DEF ProcInv, Undisputed
    <3>4. \A r \in Proc : pc'[r] = "serving" => r = q
      BY <1>1, <3>2, <3>3 DEF Beside
    <3>5. \A r \in Proc : Moving(r)' => pc'[r] \in Beside
      BY <1>1, <1>3, <3>2 DEF Moving, Starting, Ending
    <3> QED BY <3>2, <3>4, <3>5
  <2>3. Established(q)' /\ CleanedUp(q)'
    BY <2>1 DEF Established, CleanedUp, Starting, Ending, Locking
  <2>4. Welcome(q)'
    BY <1>2, <2>1 DEF ProcInv, Welcome, Starting
  <2> QED BY <2>2, <2>3, <2>4 DEF ProcInv
<1> QED BY <1>4, <1>5 DEF OrderlyInv

\* The premise on the instance beside it, for a process that is alone.
LEMMA AloneInv ==
  ASSUME TypeOK, OrderlyInv, NEW p \in Proc, NEW x, Moving(p),
         pc[p] \notin Beside, Goto(p, x), rival' = rival, ProcInv(p)'
  PROVE  OrderlyInv'
<1>1. Serving = {}
  BY Alone
<1> QED BY <1>1, MoveInv

LEMMA StartInv ==
  ASSUME IInv, NEW p \in Proc, Start(p), orderly' PROVE OrderlyInv'
<1>1. /\ TypeOK /\ OrderlyInv /\ Undisturbed(p) /\ Goto(p, "open")
      /\ pc[p] = "off"
      /\ UNCHANGED <<fd, locked, path, pidIn, file>>
      /\ rival' = IF Serving # {} THEN rival \cup {p} ELSE rival
  BY DEF IInv, Start, At, diskVars
<1>2. pc'[p] = "open" /\ \A q \in Proc : q # p => pc'[q] = pc[q]
  BY <1>1 DEF TypeOK, Goto
<1>3. \A q \in Proc : q # p => ~Moving(q) /\ ~Moving(q)'
  BY <1>1, <1>2 DEF Undisturbed, Moving
<1>4. OneMoves'
  BY <1>3 DEF OneMoves
<1>5. Serving' = Serving
  BY <1>1, SameServing
<1>6. ProcInv(p)'
  <2>1. Welcome(p)'
    BY <1>1, <1>2, <1>5 DEF Welcome
  <2> QED BY <1>2, <2>1 DEF ProcInv, Undisputed, Established, CleanedUp, Locking
<1>7. ASSUME NEW q \in Proc, q # p PROVE ProcInv(q)'
  <2>1. ProcInv(q) /\ pc'[q] = pc[q] /\ pc[q] \notin Starting \cup Ending
    BY <1>1, <1>2, <1>3, <1>7 DEF OrderlyInv, Moving
  <2>2. Owns(q)' <=> Owns(q)
    BY <1>1 DEF Owns
  <2>3. \A r \in Proc : pc'[r] = "serving" => pc[r] = "serving"
    BY <1>2
  <2>4. \A r \in Proc : Moving(r)' => pc'[r] \in Beside
    BY <1>2, <1>3 DEF Beside
  <2>5. Undisputed(q)'
    BY <2>1, <2>2, <2>3, <2>4 DEF ProcInv, Undisputed, Beside
  <2>6. Established(q)' /\ CleanedUp(q)'
    BY <2>1 DEF Established, CleanedUp, Starting, Ending, Locking
  <2>7. Welcome(q)'
    BY <1>1, <2>1 DEF ProcInv, Welcome, Starting
  <2> QED BY <2>5, <2>6, <2>7 DEF ProcInv
<1> QED BY <1>4, <1>6, <1>7 DEF OrderlyInv

\* The lock file is found, or is new and nobody's.
LEMMA OpenInv ==
  ASSUME TypeAndLock, OrderlyInv, NEW p \in Proc, Open(p) PROVE OrderlyInv'
<1>1. /\ TypeOK /\ ProcInv(p) /\ pc[p] = "open" /\ Goto(p, "flock")
      /\ Moving(p) /\ p \notin locked
      /\ UNCHANGED <<locked, retried, file, rival, orderly>>
  BY DEF TypeAndLock, OrderlyInv, Open, At, Moving, Starting, history, LockInv,
     Holding, Locking
<1>2. pc'[p] = "flock" /\ Serving' = Serving
  BY <1>1, SameServing DEF TypeOK, Goto
<1>3. /\ fd'[p] = path' /\ \A q \in Proc : q # p => fd'[q] = fd[q]
      /\ path # None => path' = path /\ pidIn' = pidIn
  BY <1>1 DEF Open, TypeOK
<1>4. ProcInv(p)'
  <2>1. Established(p)'
    BY <1>2, <1>3 DEF Established, Locking
  <2>2. Welcome(p)'
    BY <1>1, <1>2 DEF ProcInv, Welcome
  <2> QED BY <1>2, <2>1, <2>2 DEF ProcInv, Undisputed, CleanedUp
<1>5. ASSUME NEW s \in Serving PROVE Owns(s)'
  <2>1. Owns(s) /\ s # p
    BY <1>1 DEF Serving, OrderlyInv, ProcInv, Undisputed
  <2>2. path # None
    BY <1>1, <2>1 DEF Owns, TypeOK
  <2> QED BY <1>1, <1>3, <2>1, <2>2 DEF Owns, Serving
<1> QED BY <1>1, <1>4, <1>5, MoveInv DEF Beside

(***************************************************************************)
(* Who has the lock of the file the path names?  The instance that serves, *)
(* for a process that starts beside it; nobody, for one that found none.   *)
(***************************************************************************)
LEMMA FlockInv ==
  ASSUME TypeAndLock, OrderlyInv, NEW p \in Proc, Flock(p) PROVE OrderlyInv'
<1>1. /\ TypeOK /\ LockInv /\ ProcInv(p) /\ pc[p] = "flock" /\ Moving(p)
      /\ p \notin locked /\ fd[p] = path
      /\ UNCHANGED <<retried, path, pidIn, file, rival, orderly>>
  BY DEF TypeAndLock, OrderlyInv, ProcInv, Established, Flock, At, Moving,
     Starting, history, diskVars, LockInv, Holding, Locking
<1>2. ASSUME NEW s \in Serving PROVE s # p /\ Owns(s) /\ fd[s] = fd[p]
  BY <1>1 DEF Serving, OrderlyInv, ProcInv, Undisputed, Owns
<1>3. \A q \in locked : q \in Serving
  <2> SUFFICES ASSUME NEW q \in locked PROVE pc[q] = "serving"
    BY <1>1 DEF Serving, TypeOK
  <2>1. q \in Proc /\ q # p /\ pc[q] \in Holding
    BY <1>1 DEF TypeOK, LockInv
  <2>2. ~Moving(q)
    BY <1>1, <2>1 DEF OrderlyInv, OneMoves
  <2> QED BY <2>1, <2>2 DEF Moving, Holding, Locking, Starting, Ending
<1>4. CASE \E q \in locked : fd[q] = fd[p]
  <2>1. /\ Serving # {} /\ fd' = [fd EXCEPT ![p] = None] /\ UNCHANGED locked
        /\ Goto(p, IF p \in retried THEN "refused" ELSE "exists")
    BY <1>3, <1>4 DEF Flock
  <2>2. PICK x \in {"refused", "exists"} : Goto(p, x)
    BY <2>1
  <2>3. pc'[p] = x /\ Serving' = Serving /\ p \in rival
    BY <1>1, <2>1, <2>2, SameServing DEF TypeOK, Goto, ProcInv, Welcome
  <2>4. ProcInv(p)'
    BY <1>1, <2>3 DEF ProcInv, Undisputed, Established, Welcome, CleanedUp,
       Locking
  <2>5. \A s \in Serving : Owns(s)'
    BY <1>1, <1>2, <2>1 DEF Owns, Serving, TypeOK
  <2> QED BY <1>1, <2>2, <2>4, <2>5, MoveInv DEF Beside
<1>5. CASE ~ \E q \in locked : fd[q] = fd[p]
  <2>1. /\ locked' = locked \cup {p} /\ Goto(p, "truncate") /\ fd' = fd
    BY <1>5 DEF Flock
  <2>2. Serving = {}
    BY <1>2, <1>5 DEF Owns
  <2>3. pc'[p] = "truncate"
    BY <1>1, <2>1 DEF TypeOK, Goto
  <2>4. ProcInv(p)'
    BY <1>1, <2>1, <2>3
       DEF ProcInv, Undisputed, Established, Welcome, CleanedUp, Locking
  <2> QED BY <1>1, <2>1, <2>2, <2>4, MoveInv
<1> QED BY <1>4, <1>5

LEMMA PidInv ==
  ASSUME TypeAndLock, OrderlyInv, NEW p \in Proc, Truncate(p) \/ Write(p)
  PROVE  OrderlyInv'
<1>1. /\ TypeOK /\ Moving(p) /\ pc[p] \in {"truncate", "write"}
      /\ fd[p] = path /\ fd[p] \in Inode
      /\ UNCHANGED <<fd, locked, retried, path, file, rival, orderly>>
  BY DEF TypeAndLock, TypeOK, LockInv, OrderlyInv, ProcInv, Established,
     Truncate, Write, At, Moving, Starting, Locking, history
<1>2. \/ Goto(p, "write")
      \/ Goto(p, "pid") /\ pidIn' = [pidIn EXCEPT ![fd[p]] = p]
  BY DEF Truncate, Write
<1>3. \/ pc'[p] = "write"
      \/ pc'[p] = "pid" /\ pidIn'[path'] = p
  BY <1>1, <1>2 DEF TypeOK, Goto
<1>4. ProcInv(p)'
  BY <1>1, <1>3
     DEF ProcInv, Undisputed, Established, Welcome, CleanedUp, Locking
<1> QED BY <1>1, <1>2, <1>4, AloneInv DEF Beside

(***************************************************************************)
(* Recovery: the lock is reaped only when nobody serves.                   *)
(***************************************************************************)
LEMMA RecoverInv ==
  ASSUME TypeAndLock, OrderlyInv, NEW p \in Proc,
         Exists(p) \/ Read(p) \/ Reap(p)
  PROVE  OrderlyInv'
<1>1. /\ TypeOK /\ ProcInv(p) /\ pc[p] \in {"exists", "read", "reap"}
      /\ Moving(p) /\ p \in rival
      /\ UNCHANGED <<fd, locked, pidIn, file, rival, orderly>>
  BY DEF TypeAndLock, OrderlyInv, ProcInv, Welcome, Exists, Read, Reap, At,
     Moving, Starting, diskVars, history
<1>2. ASSUME NEW s \in Serving
      PROVE  Owns(s) /\ s # p /\ path # None /\ Alive(s)
  BY <1>1 DEF Serving, OrderlyInv, ProcInv, Undisputed, Owns, TypeOK, Alive, Dead
<1>3. PICK x \in {"read", "refused", "reap", "open"} : Goto(p, x)
  BY DEF Exists, Read, Reap
<1>4. pc'[p] = x /\ Serving' = Serving
  BY <1>1, <1>3, SameServing DEF TypeOK, Goto
<1>5. ProcInv(p)'
  BY <1>1, <1>4 DEF ProcInv, Undisputed, Established, Welcome, CleanedUp,
     Locking
<1>6. ASSUME NEW s \in Serving PROVE Owns(s)' /\ x # "reap"
  <2>1. pc[p] # "reap"
    BY <1>1, <1>6, Alone DEF Beside
  <2>2. Exists(p) \/ Read(p)
    BY <2>1 DEF Reap, At
  <2>3. path' = path
    BY <2>2 DEF Exists, Read, diskVars
  <2>4. x # "reap"
    <3>1. CASE Exists(p)
      BY <1>1, <1>4, <3>1 DEF Exists, Goto, TypeOK
    <3>2. CASE Read(p)
      <4>1. pidIn[path] = s /\ s # None
        BY <1>2, <1>6, ProcAssumption DEF Owns, Serving
      <4>2. Goto(p, "refused")
        BY <1>2, <1>6, <3>2, <4>1 DEF Read
      <4> QED BY <1>1, <1>4, <4>2 DEF Goto, TypeOK
    <3> QED BY <2>2, <3>1, <3>2
  <2> QED BY <1>1, <1>2, <1>6, <2>3, <2>4 DEF Owns
<1>7. \A s \in Serving : Owns(s)' /\ x \in Beside \cup {"refused"}
  BY <1>6 DEF Beside
<1> QED BY <1>1, <1>3, <1>5, <1>7, MoveInv

\* The files a start writes, up to the socket: bind finds the path free.
LEMMA EstablishInv ==
  ASSUME TypeAndLock, OrderlyInv, NEW p \in Proc,
         WritePid(p) \/ IssueToken(p) \/ RemoveStaleSocket(p) \/ Bind(p)
  PROVE  OrderlyInv'
<1>1. /\ TypeOK /\ Moving(p) /\ Established(p) /\ p \in locked
      /\ pc[p] \in {"pid", "token", "unsock", "bind"}
      /\ UNCHANGED <<fd, locked, path, pidIn, rival, orderly>>
  BY DEF TypeAndLock, LockInv, OrderlyInv, ProcInv, WritePid, IssueToken,
     RemoveStaleSocket, Bind, FileStep, At, Moving, Starting, Locking, history
<1>2. path = fd[p] /\ pidIn[path] = p
  BY <1>1 DEF Established, Locking
<1>3. Serving = {} /\ \A q \in Proc : q # p => ~Moving(q)
  BY <1>1, Alone DEF Beside, OrderlyInv, OneMoves
<1>4. CASE WritePid(p) \/ IssueToken(p) \/ RemoveStaleSocket(p)
  <2>1. \/ /\ Goto(p, "token") /\ file' = [file EXCEPT !["pid"] = p]
        \/ /\ Goto(p, "unsock") /\ pc[p] = "token"
           /\ file' = [file EXCEPT !["token"] = p]
        \/ /\ Goto(p, "bind") /\ pc[p] = "unsock"
           /\ file' = [file EXCEPT !["sock"] = None]
    BY <1>4 DEF WritePid, IssueToken, RemoveStaleSocket, FileStep, At, Put, Remove
  <2>2. \/ pc'[p] = "token" /\ file'["pid"] = p
        \/ pc'[p] = "unsock" /\ file'["pid"] = p /\ file'["token"] = p
        \/ /\ pc'[p] = "bind" /\ file'["pid"] = p /\ file'["token"] = p
           /\ file'["sock"] = None
    BY <1>1, <2>1 DEF TypeOK, Goto, File, Established
  <2>3. ProcInv(p)'
    BY <1>1, <1>2, <2>2
       DEF ProcInv, Undisputed, Established, Welcome, CleanedUp, Locking
  <2> QED BY <1>1, <2>1, <2>3, AloneInv DEF Beside
<1>5. CASE Bind(p)
  <2>1. /\ pc[p] = "bind" /\ Goto(p, "serving")
        /\ file' = [file EXCEPT !["sock"] = p]
    BY <1>1, <1>5 DEF Bind, FileStep, At, Put, Established
  <2>2. pc'[p] = "serving" /\ \A q \in Proc : q # p => pc'[q] = pc[q]
    BY <1>1, <2>1 DEF TypeOK, Goto
  <2>3. \A f \in File : file'[f] = p
    BY <1>1, <2>1 DEF TypeOK, File, Established
  <2>4. Owns(p)'
    BY <1>1, <1>2, <2>3 DEF Owns
  <2>5. \A q \in Proc : q # p => pc'[q] # "serving" /\ ~Moving(q)'
    BY <1>3, <2>2 DEF Serving, Moving
  <2>6. ~Moving(p)'
    BY <2>2 DEF Moving, Starting, Ending
  <2>7. ProcInv(p)'
    BY <2>2, <2>4, <2>5, <2>6
       DEF ProcInv, Undisputed, Established, Welcome, CleanedUp, Locking
  <2> QED BY <1>1, <2>1, <2>7, AloneInv DEF Beside
<1> QED BY <1>4, <1>5

LEMMA CleanUpInv ==
  ASSUME TypeAndLock, OrderlyInv, NEW p \in Proc,
         \/ Revoke(p) \/ Unlock(p) \/ RemovePid(p) \/ RemoveSocket(p)
         \/ RemoveLock(p) \/ RemoveToken(p)
  PROVE  OrderlyInv'
<1>1. /\ TypeOK /\ Moving(p) /\ CleanedUp(p)
      /\ pc[p] \in Ending /\ UNCHANGED <<rival, orderly>>
  BY DEF TypeAndLock, OrderlyInv, ProcInv, Revoke, Unlock, RemovePid,
     RemoveSocket, RemoveLock, RemoveToken, FileStep, At, Moving, Ending, history
<1>2. PICK x \in {"unlock", "rmpid", "rmsock", "rmlock", "rmtoken", "exited"} :
        Goto(p, x)
  BY DEF Revoke, Unlock, RemovePid, RemoveSocket, RemoveLock, RemoveToken,
     FileStep
<1>3. pc'[p] = x
  BY <1>1, <1>2 DEF TypeOK, Goto
<1>4. CleanedUp(p)'
  <2>1. CASE Revoke(p) \/ Unlock(p) \/ RemoveToken(p)
    <3>1. x \in {"unlock", "rmpid", "exited"}
      BY <1>1, <1>3, <2>1
         DEF Revoke, Unlock, RemoveToken, FileStep, Goto, TypeOK
    <3> QED BY <1>3, <3>1 DEF CleanedUp
  <2>2. CASE RemovePid(p)
    <3>1. pc'[p] = "rmsock" /\ file'["pid"] = None
      BY <1>1, <2>2 DEF RemovePid, FileStep, Goto, Remove, TypeOK, File
    <3> QED BY <3>1 DEF CleanedUp
  <2>3. CASE RemoveSocket(p)
    <3>1. /\ pc'[p] = "rmlock" /\ file'["pid"] = file["pid"]
          /\ file'["sock"] = None /\ pc[p] = "rmsock"
      BY <1>1, <2>3 DEF RemoveSocket, FileStep, Goto, Remove, TypeOK, File, At
    <3> QED BY <1>1, <3>1 DEF CleanedUp
  <2>4. CASE RemoveLock(p)
    <3>1. /\ pc'[p] = "rmtoken" /\ file' = file /\ path' = None
          /\ pc[p] = "rmlock"
      BY <1>1, <2>4 DEF RemoveLock, Goto, TypeOK, At
    <3> QED BY <1>1, <3>1 DEF CleanedUp
  <2> QED BY <2>1, <2>2, <2>3, <2>4
<1>5. ProcInv(p)'
  BY <1>3, <1>4 DEF ProcInv, Undisputed, Established, Welcome, Locking
<1> QED BY <1>1, <1>2, <1>5, AloneInv DEF Beside, Ending

\* The end begins when nobody else starts or ends.
LEMMA StopInv ==
  ASSUME IInv, NEW p \in Proc, Stop(p), orderly' PROVE OrderlyInv'
<1>1. /\ TypeOK /\ OrderlyInv /\ Undisturbed(p) /\ Goto(p, "revoke")
      /\ pc[p] = "serving" /\ rival' = rival
  BY DEF IInv, Stop, At
<1>2. pc'[p] = "revoke" /\ \A q \in Proc : q # p => pc'[q] = pc[q]
  BY <1>1 DEF TypeOK, Goto
<1>3. \A q \in Proc : q # p => pc[q] # "serving" /\ ~Moving(q) /\ ~Moving(q)'
  BY <1>1, <1>2 DEF Undisturbed, Moving, OrderlyInv, ProcInv, Undisputed
<1>4. OneMoves'
  BY <1>3 DEF OneMoves
<1>5. ProcInv(p)'
  BY <1>2 DEF ProcInv, Undisputed, Established, Welcome, CleanedUp, Locking
<1>6. ASSUME NEW q \in Proc, q # p PROVE ProcInv(q)'
  <2>1. pc'[q] = pc[q] /\ pc[q] \notin Starting \cup Ending \cup {"serving"}
    BY <1>2, <1>3, <1>6 DEF Moving
  <2>2. Undisputed(q)' /\ Established(q)' /\ CleanedUp(q)'
    BY <2>1 DEF Undisputed, Established, CleanedUp, Starting, Ending, Locking
  <2>3. Welcome(q)'
    BY <1>1, <2>1 DEF OrderlyInv, ProcInv, Welcome, Starting
  <2> QED BY <2>2, <2>3 DEF ProcInv
<1> QED BY <1>4, <1>5, <1>6 DEF OrderlyInv

\* A process that is no more, killed or refused, disturbs nobody.
LEMMA DeathInv ==
  ASSUME TypeOK, OrderlyInv, NEW p \in Proc, Kill(p) \/ GiveUp(p)
  PROVE  OrderlyInv'
<1>1. /\ UNCHANGED <<path, pidIn, file, rival>>
      /\ pc'[p] \in Dead /\ \A q \in Proc : q # p => pc'[q] = pc[q]
      /\ \A q \in Proc : q # p => /\ fd'[q] = fd[q]
                                  /\ q \in locked => q \in locked'
  BY DEF Kill, GiveUp, Goto, TypeOK, diskVars, history, Dead
<1>2. ~Moving(p)' /\ pc'[p] # "serving"
  BY <1>1 DEF Moving, Starting, Ending, Dead
<1>3. OneMoves'
  BY <1>1, <1>2 DEF OrderlyInv, OneMoves, Moving
<1>4. ProcInv(p)'
  BY <1>1 DEF ProcInv, Undisputed, Established, Welcome, CleanedUp, Locking, Dead
<1>5. ASSUME NEW q \in Proc, q # p PROVE ProcInv(q)'
  <2>1. ProcInv(q) /\ pc'[q] = pc[q]
    BY <1>1, <1>5 DEF OrderlyInv
  <2>2. Undisputed(q)'
    <3>1. Owns(q) => Owns(q)'
      BY <1>1, <1>5 DEF Owns
    <3> QED BY <1>1, <1>2, <2>1, <3>1 DEF ProcInv, Undisputed, Moving
  <2>3. Established(q)' /\ CleanedUp(q)'
    BY <1>1, <1>5, <2>1 DEF ProcInv, Established, CleanedUp
  <2>4. Welcome(q)'
    BY <1>1, <1>2, <2>1 DEF ProcInv, Welcome, Serving
  <2> QED BY <2>2, <2>3, <2>4 DEF ProcInv
<1> QED BY <1>3, <1>4, <1>5 DEF OrderlyInv

LEMMA OrderlyNext == IInv /\ [Next]_vars /\ orderly' => OrderlyInv'
<1> SUFFICES ASSUME IInv, [Next]_vars, orderly' PROVE OrderlyInv'
  OBVIOUS
<1>1. CASE UNCHANGED vars
  BY <1>1 DEF vars, procVars, diskVars, IInv, OrderlyInv, OneMoves, Moving,
     ProcInv, Undisputed, Owns, Established, Welcome, CleanedUp, Serving
<1>2. ASSUME NEW p \in Proc,
             Start(p) \/ Step(p) \/ Stop(p) \/ StraySignal(p) \/ Kill(p)
      PROVE  OrderlyInv'
  <2>1. CASE Start(p) \/ Stop(p)
    BY <2>1, StartInv, StopInv
  <2>2. CASE StraySignal(p)
    BY <2>2 DEF StraySignal
  <2>3. CASE Step(p) \/ Kill(p)
    <3>1. orderly' = orderly
      BY <2>3 DEF Step, Kill, Open, Flock, Truncate, Write, Exists, Read, Reap,
         GiveUp, WritePid, IssueToken, RemoveStaleSocket, Bind, Revoke, Unlock,
         RemovePid, RemoveSocket, RemoveLock, RemoveToken, FileStep, history
    <3>2. TypeAndLock /\ OrderlyInv
      BY <3>1 DEF IInv, TypeAndLock
    <3>3. CASE Kill(p) \/ GiveUp(p)
      BY <3>2, <3>3, DeathInv DEF TypeAndLock
    <3>4. CASE Step(p) /\ ~GiveUp(p)
      BY <3>2, <3>4, OpenInv, FlockInv, PidInv, RecoverInv, EstablishInv,
         CleanUpInv DEF Step
    <3> QED BY <2>3, <3>3, <3>4
  <2> QED BY <1>2, <2>1, <2>2, <2>3
<1> QED BY <1>1, <1>2 DEF Next

LEMMA InvNext == IInv /\ [Next]_vars => IInv'
BY LockNext, OrderlyNext DEF IInv, TypeAndLock

LEMMA Invariant == Spec => []IInv
BY InvInit, InvNext, PTL DEF Spec

-----------------------------------------------------------------------------
(***************************************************************************)
(* The variables have their types; a process that holds the lock has the   *)
(* file open.                                                              *)
(***************************************************************************)
THEOREM TypeCorrect == Spec => []TypeOK
<1>1. IInv => TypeOK
  BY DEF IInv
<1> QED BY <1>1, Invariant, PTL

(***************************************************************************)
(* One instance serves at most, as long as starts and ends do not overlap, *)
(* whatever kills have left behind.                                        *)
(***************************************************************************)
THEOREM InstancesExclude == Spec => []OrderlyInstancesExclude
<1>1. IInv => OrderlyInstancesExclude
  <2> SUFFICES ASSUME IInv, orderly PROVE Cardinality(Serving) <= 1
    BY DEF OrderlyInstancesExclude
  <2>1. \A p, q \in Serving : p = q
    BY DEF IInv, OrderlyInv, ProcInv, Undisputed, Serving
  <2>2. CASE Serving = {}
    BY <2>2, FS_EmptySet
  <2>3. CASE Serving # {}
    <3>1. PICK p \in Serving : Serving = {p}
      BY <2>1, <2>3
    <3> QED BY <3>1, FS_Singleton
  <2> QED BY <2>2, <2>3
<1> QED BY <1>1, Invariant, PTL

(***************************************************************************)
(* ... and the lock, the pid, the socket and the token are its own.        *)
(***************************************************************************)
THEOREM InstanceIsFound == Spec => []OrderlyInstanceIsFound
<1>1. IInv => OrderlyInstanceIsFound
  BY DEF IInv, OrderlyInv, ProcInv, Undisputed, Owns, Serving,
     OrderlyInstanceIsFound
<1> QED BY <1>1, Invariant, PTL

(***************************************************************************)
(* ... a start is refused only beside an instance: no lock, socket or pid  *)
(* file that was left behind, by kills at any points, keeps anybody out.   *)
(***************************************************************************)
THEOREM LeftoversLockNobodyOut == Spec => []NoOneLockedOut
<1>1. IInv => NoOneLockedOut
  BY DEF IInv, OrderlyInv, ProcInv, Welcome, NoOneLockedOut
<1> QED BY <1>1, Invariant, PTL

(***************************************************************************)
(* ... and the step with which the last process exits leaves no file.      *)
(***************************************************************************)
THEOREM ExitIsClean == Spec => CleanExit
<1> DEFINE LastExit(p) == /\ pc[p] = "rmtoken" /\ pc'[p] = "exited"
                          /\ \A q \in Proc \ {p} : ~Alive(q)
<1>1. ASSUME IInv, [Next]_vars, orderly', NEW p \in Proc, LastExit(p)
      PROVE  path' = None /\ \A f \in File : file'[f] = None
  <2>1. TypeOK /\ ~(UNCHANGED vars)
    BY <1>1 DEF IInv, vars, procVars
  <2>2. RemoveToken(p)
    <3>1. PICK q \in Proc : \/ Start(q) \/ Step(q) \/ Stop(q)
                            \/ StraySignal(q) \/ Kill(q)
      BY <1>1, <2>1 DEF Next
    <3>2. \E x : Goto(q, x)
      BY <3>1 DEF Start, Step, Stop, StraySignal, Kill, Open, Flock, Truncate,
         Write, Exists, Read, Reap, GiveUp, WritePid, IssueToken,
         RemoveStaleSocket, Bind, Revoke, Unlock, RemovePid, RemoveSocket,
         RemoveLock, RemoveToken, FileStep
    <3>3. q = p
      BY <1>1, <2>1, <3>2 DEF Goto, TypeOK
    <3>4. RemoveToken(p) \/ Kill(p)
      BY <1>1, <3>1, <3>3 DEF Start, Step, Stop, StraySignal, Open, Flock,
         Truncate, Write, Exists, Read, Reap, GiveUp, WritePid, IssueToken,
         RemoveStaleSocket, Bind, Revoke, Unlock, RemovePid, RemoveSocket,
         RemoveLock, FileStep, At, Starting
    <3>5. ~Kill(p)
      BY <1>1, <2>1 DEF Kill, Goto, TypeOK
    <3> QED BY <3>4, <3>5
  <2>3. CleanedUp(p) /\ file' = [file EXCEPT !["token"] = None] /\ path' = path
    BY <1>1, <2>2 DEF RemoveToken, FileStep, Remove, history, IInv, OrderlyInv,
       ProcInv
  <2> QED BY <1>1, <2>1, <2>3 DEF CleanedUp, TypeOK, File
<1>2. IInv /\ [Next]_vars =>
        [orderly' => \A p \in Proc : LastExit(p) =>
           path' = None /\ \A f \in File : file'[f] = None]_vars
  BY <1>1
<1> QED BY <1>2, Invariant, PTL DEF Spec, CleanExit
=============================================================================
