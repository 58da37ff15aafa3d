----------------------------- MODULE Lifecycle ------------------------------
(***************************************************************************)
(* Start and end of the processes of NetMedic: LifecycleManager of         *)
(* netmedic/lifecycle.py with bootstrap, shutdown and handle_signals of    *)
(* netmedic/runtime.py.                                                    *)
(*                                                                         *)
(* What makes it hard is that files are known by two names.  A process     *)
(* keeps the lock file it has opened by its descriptor, and flock is on    *)
(* that inode; others open, read and remove the file by its path.  Every   *)
(* system call on a shared file is a step.                                 *)
(*                                                                         *)
(* Pids are not reused.  The other files carry no lock, so only who wrote  *)
(* them last is kept.                                                      *)
(***************************************************************************)
EXTENDS Naturals, FiniteSets

CONSTANTS Proc,     \* runs of the program, by their pid
          Inode,    \* inodes the lock file may have
          None      \* no process, no inode, no such file

ASSUME ProcAssumption ==
  /\ IsFiniteSet(Proc) /\ None \notin Proc \cup Inode
  /\ IsFiniteSet(Inode) /\ Cardinality(Inode) > Cardinality(Proc)

VARIABLES pc,       \* [Proc -> point the process has reached]
          fd,       \* [Proc -> inode of _lock_fd]
          locked,   \* processes whose flock on it succeeded
          retried,  \* processes in their second _try_acquire_lock
          path,     \* inode netmedic.lock is the path of
          pidIn,    \* [Inode -> pid written in it, None when empty]
          file,     \* [File -> the process that wrote the file]
          rival,    \* history: processes that started while another served
          orderly   \* history: no two starts or ends have overlapped, and
                    \*   no signal reached a process that does not serve

procVars == <<pc, fd, locked, retried>>
diskVars == <<path, pidIn, file>>
vars == <<procVars, diskVars, rival, orderly>>

File == {"pid", "sock", "token"}

Starting == {"open", "flock", "truncate", "write", "pid", "token", "unsock",
             "bind", "exists", "read", "reap"}
Ending == {"revoke", "unlock", "rmpid", "rmsock", "rmlock", "rmtoken"}
Dead == {"exited", "killed"}
PC == {"off", "serving", "refused"} \cup Starting \cup Ending \cup Dead

Alive(p) == pc[p] \notin {"off"} \cup Dead
Serving == {p \in Proc : pc[p] = "serving"}
\* No other process is starting or ending.
Undisturbed(p) == \A q \in Proc \ {p} : pc[q] \notin Starting \cup Ending

TypeOK ==
  /\ pc \in [Proc -> PC]
  /\ fd \in [Proc -> Inode \cup {None}]
  /\ locked \in SUBSET {p \in Proc : fd[p] # None}
  /\ retried \in SUBSET Proc
  /\ path \in Inode \cup {None}
  /\ pidIn \in [Inode -> Proc \cup {None}]
  /\ file \in [File -> Proc \cup {None}]
  /\ rival \in SUBSET Proc
  /\ orderly \in BOOLEAN

Init ==
  /\ pc = [p \in Proc |-> "off"]
  /\ fd = [p \in Proc |-> None]
  /\ locked = {}
  /\ retried = {}
  /\ path = None
  /\ pidIn = [i \in Inode |-> None]
  /\ file = [f \in File |-> None]
  /\ rival = {}
  /\ orderly = TRUE

-----------------------------------------------------------------------------
Goto(p, point) == pc' = [pc EXCEPT ![p] = point]
At(p, point) == pc[p] = point
history == <<rival, orderly>>

\* The user starts the program.
Start(p) ==
  /\ At(p, "off")
  /\ Goto(p, "open")
  /\ rival' = IF Serving # {} THEN rival \cup {p} ELSE rival
  /\ orderly' = (orderly /\ Undisturbed(p))
  /\ UNCHANGED <<fd, locked, retried, diskVars>>

\* Mutant: the lock file is created exclusively, a leftover is an error.
OpenExclusive(p) ==
  /\ At(p, "open")
  /\ IF path # None
     THEN Goto(p, "refused") /\ UNCHANGED <<fd, path, pidIn>>
     ELSE \E i \in Inode : /\ \A q \in Proc : fd[q] # i
                           /\ fd' = [fd EXCEPT ![p] = i]
                           /\ path' = i
                           /\ pidIn' = [pidIn EXCEPT ![i] = None]
                           /\ Goto(p, "flock")
  /\ UNCHANGED <<locked, retried, file, history>>

\* open("a+"): the file of that name, or an empty one that is created.
Open(p) ==
  /\ At(p, "open")
  /\ IF path # None
     THEN fd' = [fd EXCEPT ![p] = path] /\ UNCHANGED <<path, pidIn>>
     ELSE \E i \in Inode : /\ \A q \in Proc : fd[q] # i
                           /\ fd' = [fd EXCEPT ![p] = i]
                           /\ path' = i
                           /\ pidIn' = [pidIn EXCEPT ![i] = None]
  /\ Goto(p, "flock")
  /\ UNCHANGED <<locked, retried, file, history>>

\* flock(LOCK_EX | LOCK_NB); a failure closes the file again.
Flock(p) ==
  /\ At(p, "flock")
  /\ IF \E q \in locked : fd[q] = fd[p]
     THEN /\ fd' = [fd EXCEPT ![p] = None]
          /\ Goto(p, IF p \in retried THEN "refused" ELSE "exists")
          /\ UNCHANGED locked
     ELSE /\ locked' = locked \cup {p}
          /\ Goto(p, "truncate")
          /\ UNCHANGED fd
  /\ UNCHANGED <<retried, diskVars, history>>

Truncate(p) ==
  /\ At(p, "truncate")
  /\ pidIn' = [pidIn EXCEPT ![fd[p]] = None]
  /\ Goto(p, "write")
  /\ UNCHANGED <<fd, locked, retried, path, file, history>>

\* The pid reaches the file with flush().
Write(p) ==
  /\ At(p, "write")
  /\ pidIn' = [pidIn EXCEPT ![fd[p]] = p]
  /\ Goto(p, "pid")
  /\ UNCHANGED <<fd, locked, retried, path, file, history>>

-----------------------------------------------------------------------------
\* acquire_lock after the first failure: is there a lock file at all?
Exists(p) ==
  /\ At(p, "exists")
  /\ Goto(p, IF path # None THEN "read" ELSE "refused")
  /\ UNCHANGED <<fd, locked, retried, diskVars, history>>

\* Mutant: the pid in the file is not tested for being alive.
ReadToReap(p) ==
  /\ At(p, "read")
  /\ Goto(p, "reap")
  /\ UNCHANGED <<fd, locked, retried, diskVars, history>>

\* Whose pid is in it?  A file that is empty or gone counts as corrupt.
Read(p) ==
  /\ At(p, "read")
  /\ LET owner == IF path # None THEN pidIn[path] ELSE None IN
     Goto(p, IF owner # None /\ Alive(owner) THEN "refused" ELSE "reap")
  /\ UNCHANGED <<fd, locked, retried, diskVars, history>>

\* The lock of a dead process, or a corrupt one, is removed; try again.
Reap(p) ==
  /\ At(p, "reap")
  /\ path' = None
  /\ retried' = retried \cup {p}
  /\ Goto(p, "open")
  /\ UNCHANGED <<fd, locked, pidIn, file, history>>

\* Mutant: a start that was refused cleans up as well.
GiveUpCleaning(p) ==
  /\ At(p, "refused")
  /\ Goto(p, "unlock")
  /\ UNCHANGED <<fd, locked, retried, diskVars, history>>

\* bootstrap returns False; the dialog is closed and the process exits.
GiveUp(p) ==
  /\ At(p, "refused")
  /\ Goto(p, "exited")
  /\ UNCHANGED <<fd, locked, retried, diskVars, history>>

-----------------------------------------------------------------------------
Put(p, f) == file' = [file EXCEPT ![f] = p]
Remove(f) == file' = [file EXCEPT ![f] = None]

\* A step on one of the plain files.
FileStep(p, from, to) ==
  /\ At(p, from)
  /\ Goto(p, to)
  /\ UNCHANGED <<fd, locked, retried, path, pidIn, history>>

WritePid(p) == FileStep(p, "pid", "token") /\ Put(p, "pid")
IssueToken(p) == FileStep(p, "token", "unsock") /\ Put(p, "token")

\* _remove_stale_socket, whoever bound it.
RemoveStaleSocket(p) == FileStep(p, "unsock", "bind") /\ Remove("sock")

\* bind fails when the path exists; bootstrap then cleans up and raises.
Bind(p) ==
  \/ /\ file["sock"] = None
     /\ FileStep(p, "bind", "serving")
     /\ Put(p, "sock")
  \/ /\ file["sock"] # None
     /\ FileStep(p, "bind", "unlock")
     /\ UNCHANGED file

-----------------------------------------------------------------------------
(***************************************************************************)
(* shutdown() at the end of run(), or a signal to a process that serves.   *)
(***************************************************************************)
Stop(p) ==
  /\ At(p, "serving")
  /\ Goto(p, "revoke")
  /\ orderly' = (orderly /\ Undisturbed(p))
  /\ UNCHANGED <<fd, locked, retried, diskVars, rival>>

(***************************************************************************)
(* The handlers are installed before bootstrap: a signal runs the same     *)
(* cleanup in a process that is starting or was refused.  The token is     *)
(* revoked by the session, once there is one.                              *)
(***************************************************************************)
StraySignal(p) ==
  /\ pc[p] \in Starting \cup {"refused"}
  /\ Goto(p, IF pc[p] \in {"unsock", "bind"} THEN "revoke" ELSE "unlock")
  /\ orderly' = FALSE
  /\ UNCHANGED <<fd, locked, retried, diskVars, rival>>

\* IPCSession.cleanup
Revoke(p) == FileStep(p, "revoke", "unlock") /\ Remove("token")

\* LifecycleManager.cleanup gives up the lock ...
Unlock(p) ==
  /\ At(p, "unlock")
  /\ fd' = [fd EXCEPT ![p] = None]
  /\ locked' = locked \ {p}
  /\ Goto(p, "rmpid")
  /\ UNCHANGED <<retried, diskVars, history>>

\* ... and removes the files, whosever they are by now.
RemovePid(p) == FileStep(p, "rmpid", "rmsock") /\ Remove("pid")
RemoveSocket(p) == FileStep(p, "rmsock", "rmlock") /\ Remove("sock")

\* Mutant: the lock file is left for the next process to take over.
KeepLock(p) ==
  /\ At(p, "rmlock")
  /\ Goto(p, "rmtoken")
  /\ UNCHANGED <<fd, locked, retried, diskVars, history>>

RemoveLock(p) ==
  /\ At(p, "rmlock")
  /\ path' = None
  /\ Goto(p, "rmtoken")
  /\ UNCHANGED <<fd, locked, retried, pidIn, file, history>>

RemoveToken(p) == FileStep(p, "rmtoken", "exited") /\ Remove("token")

\* kill -9, a power failure: the kernel closes the files.
Kill(p) ==
  /\ Alive(p)
  /\ Goto(p, "killed")
  /\ fd' = [fd EXCEPT ![p] = None]
  /\ locked' = locked \ {p}
  /\ UNCHANGED <<retried, diskVars, history>>

Step(p) ==
  \/ Open(p) \/ Flock(p) \/ Truncate(p) \/ Write(p)
  \/ Exists(p) \/ Read(p) \/ Reap(p) \/ GiveUp(p)
  \/ WritePid(p) \/ IssueToken(p) \/ RemoveStaleSocket(p) \/ Bind(p)
  \/ Revoke(p) \/ Unlock(p)
  \/ RemovePid(p) \/ RemoveSocket(p) \/ RemoveLock(p) \/ RemoveToken(p)

Next ==
  \E p \in Proc : Start(p) \/ Step(p) \/ Stop(p) \/ StraySignal(p) \/ Kill(p)

Spec == Init /\ [][Next]_vars

-----------------------------------------------------------------------------
(***************************************************************************)
(* As long as starts and ends do not overlap, one instance serves at most, *)
(* whatever a kill at any point has left behind.                           *)
(***************************************************************************)
OrderlyInstancesExclude == orderly => Cardinality(Serving) <= 1

(***************************************************************************)
(* ... and it can be found: lock, pid, socket and token are its own, so    *)
(* that a second start is refused and clients reach it.                    *)
(***************************************************************************)
OrderlyInstanceIsFound ==
  orderly =>
    \A p \in Serving :
      /\ path = fd[p] /\ p \in locked /\ pidIn[path] = p
      /\ \A f \in File : file[f] = p

(***************************************************************************)
(* ... and nobody is locked out by leftovers: a start is refused only if   *)
(* another instance served when it began (acquire_lock recovers orphaned   *)
(* locks).                                                                 *)
(***************************************************************************)
NoOneLockedOut ==
  orderly => \A p \in Proc : pc[p] = "refused" => p \in rival

(***************************************************************************)
(* ... and the last process to exit leaves none of its files behind.       *)
(***************************************************************************)
CleanExit ==
  [][orderly' =>
       \A p \in Proc :
         /\ pc[p] = "rmtoken" /\ pc'[p] = "exited"
         /\ \A q \in Proc \ {p} : ~Alive(q)
         => path' = None /\ \A f \in File : file'[f] = None]_vars

(***************************************************************************)
(* runtime.py 138: only one active instance is allowed.                    *)
(***************************************************************************)
OneActiveInstance == Cardinality(Serving) <= 1
=============================================================================
