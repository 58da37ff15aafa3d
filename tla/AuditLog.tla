------------------------------ MODULE AuditLog ------------------------------
(***************************************************************************)
(* The files behind the audit log (netmedic/audit_log.py): audit.log,      *)
(* which grows, and its backups audit.log.1 (the newest) to .Backups,      *)
(* through which a full log is rotated inside the append that finds it     *)
(* full.                                                                   *)
(*                                                                         *)
(* Entries are numbered in the order they are written, so what a file      *)
(* holds is an interval of numbers.  Any rename, the removal of the oldest *)
(* backup and the write may fail, and the process may be killed between    *)
(* any two of them; another one goes on with the files it finds.  There is *)
(* one writer at a time: the lock of the module within a process, the lock *)
(* file between processes.  What an entry says, and which callers an error *)
(* stops, is the subject of modules AuditTrail and Dispatch.               *)
(***************************************************************************)
EXTENDS Integers

CONSTANTS Backups,     \* _MAX_AUDIT_BACKUPS
          Full,        \* entries that make _MAX_AUDIT_BYTES
          MaxEntries,  \* bound: entries written
          MaxTears     \* bound: entries written in part

ASSUME LogAssumption ==
  /\ Backups \in Nat \ {0} /\ Full \in Nat \ {0}
  /\ MaxEntries \in Nat /\ MaxTears \in Nat

VARIABLES at,       \* "idle", "rotate" or "write": where _append_entry is
          step,     \* the round of the rotation, counted down to 0
          first,    \* audit.log holds the entries first..last
          last,     \* entries written so far
          backup,   \* [1..Backups -> the entries lo..hi of that backup]
          torn,     \* audit.log ends in the middle of a line
          tears,    \* entries written in part so far
          spoiled,  \* entries written behind a torn line
          lossy     \* history: a backup could not be moved out of the way

rotation == <<first, backup, lossy>>
lines == <<torn, tears, spoiled>>
vars == <<at, step, first, last, backup, torn, tears, spoiled, lossy>>

Interval == [lo : Nat, hi : Nat]
None == [lo |-> 1, hi |-> 0]
Exists(i) == backup[i].lo <= backup[i].hi

TypeOK ==
  /\ at \in {"idle", "rotate", "write"}
  /\ step \in 0..Backups
  /\ first \in Nat /\ last \in Nat
  /\ backup \in [1..Backups -> Interval]
  /\ torn \in BOOLEAN
  /\ tears \in Nat /\ spoiled \in Nat
  /\ lossy \in BOOLEAN

Init ==
  /\ at = "idle"
  /\ step = 0
  /\ first = 1 /\ last = 0
  /\ backup = [i \in 1..Backups |-> None]
  /\ torn = FALSE
  /\ tears = 0 /\ spoiled = 0
  /\ lossy = FALSE

-----------------------------------------------------------------------------
IsFull == last - first + 1 >= Full

\* An append that does not find the log full, or cannot tell, writes at once.
Begin ==
  /\ at = "idle" /\ last < MaxEntries
  /\ \/ at' = "write" /\ UNCHANGED step
     \/ IsFull /\ at' = "rotate" /\ step' = Backups
  /\ UNCHANGED <<last, rotation, lines>>

\* Mutant: the log is renamed before the backups are.
LogFirst(round) == IF round = Backups THEN 0 ELSE round + 1

\* The file a round of the rotation deals with: the oldest first, 0 is the log.
File(round) == round

NextRound ==
  IF step = 0 THEN at' = "write" /\ UNCHANGED step
              ELSE at' = at /\ step' = step - 1

RemoveOldest ==
  /\ at = "rotate" /\ File(step) = Backups
  /\ backup' \in {[backup EXCEPT ![Backups] = None], backup}
  /\ NextRound
  /\ UNCHANGED <<first, last, lines, lossy>>

\* What rename(2) makes of the backups.
Moved(i) == [backup EXCEPT ![i + 1] = backup[i], ![i] = None]

\* .1 becomes .2 and so on; a failure is ignored.
MoveBackup ==
  LET i == File(step) IN
  /\ at = "rotate" /\ i \in 1..(Backups - 1)
  /\ \/ /\ backup' = IF Exists(i) THEN Moved(i) ELSE backup
        /\ UNCHANGED lossy
     \/ Exists(i) /\ lossy' = TRUE /\ UNCHANGED backup
  /\ NextRound
  /\ UNCHANGED <<first, last, lines>>

\* Mutant: the log starts anew whether or not it could be renamed.
MoveLogOrTruncate ==
  /\ at = "rotate" /\ File(step) = 0
  /\ backup' \in {[backup EXCEPT ![1] = [lo |-> first, hi |-> last]], backup}
  /\ first' = last + 1
  /\ torn' = FALSE
  /\ NextRound
  /\ UNCHANGED <<last, tears, spoiled, lossy>>

\* The log becomes .1, with a torn end if it has one; or it stays.
MoveLog ==
  /\ at = "rotate" /\ File(step) = 0
  /\ \/ /\ backup' = [backup EXCEPT ![1] = [lo |-> first, hi |-> last]]
        /\ first' = last + 1
        /\ torn' = FALSE
     \/ UNCHANGED <<backup, first, torn>>
  /\ NextRound
  /\ UNCHANGED <<last, tears, spoiled, lossy>>

\* Mutant: an entry is not ended by a line feed.
NoLineFeed ==
  /\ torn' = TRUE
  /\ spoiled' = IF torn THEN spoiled + 1 ELSE spoiled

\* A line that follows a torn one shares it.
EndLine ==
  /\ torn' = FALSE
  /\ spoiled' = IF torn THEN spoiled + 1 ELSE spoiled

\* The entry is written; whether fsync then succeeds is for the caller.
Write ==
  /\ at = "write"
  /\ last' = last + 1
  /\ EndLine
  /\ at' = "idle"
  /\ UNCHANGED <<step, rotation, tears>>

\* The device is full, or the process is killed: part of it is written ...
Tear ==
  /\ at = "write" /\ tears < MaxTears
  /\ torn' = TRUE
  /\ tears' = tears + 1
  /\ at' = "idle"
  /\ UNCHANGED <<step, last, spoiled, rotation>>

\* ... or nothing, the log cannot be opened, or the end came before.
GiveUp ==
  /\ at # "idle"
  /\ at' = "idle"
  /\ UNCHANGED <<step, last, rotation, lines>>

Next == Begin \/ RemoveOldest \/ MoveBackup \/ MoveLog \/ Write \/ Tear \/ GiveUp

Spec == Init /\ [][Next]_vars

-----------------------------------------------------------------------------
Kept(n) ==
  \/ first <= n /\ n <= last
  \/ \E i \in 1..Backups : backup[i].lo <= n /\ n <= backup[i].hi

(***************************************************************************)
(* Whatever fails and wherever a process is killed, the newest entries, as *)
(* many as make a full log, are on disk.                                   *)
(***************************************************************************)
NewestKept == \A n \in 1..last : n > last - Full => Kept(n)

(***************************************************************************)
(* What is on disk has no holes: with an entry, all later ones are there.  *)
(* Kills do not change that, nor does an oldest backup that cannot be      *)
(* removed or a log that cannot be renamed; only a backup that stays where *)
(* the next one is moved.                                                  *)
(***************************************************************************)
RetainedIsSuffix ==
  ~lossy => \A m, n \in 1..last : Kept(m) /\ m < n => Kept(n)

(***************************************************************************)
(* An entry written in part spoils one later entry at most, the one        *)
(* written behind it: _append_entry does not repair the end of the log.    *)
(***************************************************************************)
TornSpoilsNext == spoiled + (IF torn THEN 1 ELSE 0) <= tears
=============================================================================
