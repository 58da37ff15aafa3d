--------------------------- MODULE AuditLogProofs ---------------------------
(***************************************************************************)
(* Proofs about module AuditLog, for any number of backups, any size of a  *)
(* log and any number of entries.                                          *)
(***************************************************************************)
EXTENDS AuditLog, TLAPS

(***************************************************************************)
(* Every variable keeps its type.                                          *)
(***************************************************************************)
THEOREM TypeCorrect == Spec => []TypeOK
<1> USE LogAssumption
<1>1. Init => TypeOK
  <2>1. None \in Interval
    BY DEF None, Interval
  <2>2. Init => backup \in [1..Backups -> Interval]
    BY <2>1 DEF Init
  <2>3. Init => torn \in BOOLEAN /\ lossy \in BOOLEAN
    BY DEF Init
  <2>4. Init => step \in 0..Backups /\ first \in Nat /\ last \in Nat
    BY DEF Init
  <2> QED BY <2>2, <2>3, <2>4 DEF Init, TypeOK
<1>2. TypeOK /\ [Next]_vars => TypeOK'
  <2> SUFFICES ASSUME TypeOK, [Next]_vars PROVE TypeOK'
    OBVIOUS
  <2>1. CASE Begin
    BY <2>1 DEF TypeOK, Begin, rotation, lines
  <2>2. CASE RemoveOldest
    <3>1. backup' \in [1..Backups -> Interval]
      BY <2>2 DEF TypeOK, RemoveOldest, None, Interval
    <3> QED BY <2>2, <3>1 DEF TypeOK, RemoveOldest, NextRound, File, lines
  <2>3. CASE MoveBackup
    <3>1. None \in Interval
      BY DEF None, Interval
    <3>2. backup' \in [1..Backups -> Interval]
      <4>1. step \in 1..Backups /\ step + 1 \in 1..Backups
        BY <2>3 DEF MoveBackup, File
      <4>2. backup' \in {backup, Moved(step)}
        BY <2>3, Zenon DEF MoveBackup, File
      <4>3. Moved(step) \in [1..Backups -> Interval]
        BY <3>1, <4>1 DEF TypeOK, Moved
      <4> QED BY <4>2, <4>3 DEF TypeOK
    <3>3. lossy' \in BOOLEAN
      BY <2>3, Zenon DEF TypeOK, MoveBackup
    <3>4. at' \in {at, "write"} /\ step' \in 0..Backups
      BY <2>3 DEF TypeOK, MoveBackup, NextRound, File
    <3>5. UNCHANGED <<first, last, torn, tears, spoiled>>
      BY <2>3 DEF MoveBackup, lines
    <3> QED BY <3>2, <3>3, <3>4, <3>5 DEF TypeOK
  <2>4. CASE MoveLog
    <3>1. backup' \in [1..Backups -> Interval]
      <4>1. [lo |-> first, hi |-> last] \in Interval
        BY DEF TypeOK, Interval
      <4>2. backup' \in {backup, [backup EXCEPT ![1] = [lo |-> first, hi |-> last]]}
        BY <2>4, Zenon DEF MoveLog
      <4> QED BY <4>1, <4>2 DEF TypeOK
    <3>2. first' \in Nat
      BY <2>4 DEF TypeOK, MoveLog
    <3>3. torn' \in BOOLEAN
      BY <2>4, Zenon DEF TypeOK, MoveLog
    <3>4. at' \in {at, "write"} /\ step' \in 0..Backups
      BY <2>4 DEF TypeOK, MoveLog, NextRound, File
    <3>5. UNCHANGED <<last, tears, spoiled, lossy>>
      BY <2>4 DEF MoveLog
    <3> QED BY <3>1, <3>2, <3>3, <3>4, <3>5 DEF TypeOK
  <2>5. CASE Write
    <3>1. spoiled' \in {spoiled, spoiled + 1}
      BY <2>5, Zenon DEF Write, EndLine
    <3>2. spoiled' \in Nat
      BY <3>1 DEF TypeOK
    <3>3. torn' \in BOOLEAN
      BY <2>5, Zenon DEF Write, EndLine
    <3> QED BY <2>5, <3>2, <3>3 DEF TypeOK, Write, rotation
  <2>6. CASE Tear
    BY <2>6 DEF TypeOK, Tear, rotation
  <2>7. CASE GiveUp
    BY <2>7 DEF TypeOK, GiveUp, rotation, lines
  <2>8. CASE UNCHANGED vars
    BY <2>8 DEF TypeOK, vars
  <2> QED BY <2>1, <2>2, <2>3, <2>4, <2>5, <2>6, <2>7, <2>8 DEF Next
<1> QED BY <1>1, <1>2, PTL DEF Spec

-----------------------------------------------------------------------------
(***************************************************************************)
(* The log is full, or holds every entry, or goes on where a full first    *)
(* backup ends; and only a full log is rotated.                            *)
(***************************************************************************)
LogOrNewest ==
  \/ IsFull
  \/ first = 1
  \/ backup[1].hi = first - 1 /\ backup[1].lo <= first - Full

NewestInv ==
  /\ 1 <= first /\ first <= last + 1
  /\ at = "rotate" => IsFull
  /\ LogOrNewest

LEMMA NewestStep ==
  ASSUME TypeOK, NewestInv, [Next]_vars
  PROVE  NewestInv'
<1> USE LogAssumption
<1>1. CASE Begin
  BY <1>1 DEF TypeOK, NewestInv, LogOrNewest, IsFull, Begin, rotation, lines
<1>2. CASE RemoveOldest
  BY <1>2 DEF TypeOK, NewestInv, LogOrNewest, IsFull, RemoveOldest, NextRound, File
<1>3. CASE MoveBackup
  BY <1>3 DEF TypeOK, NewestInv, LogOrNewest, IsFull, MoveBackup, NextRound, File
<1>4. CASE MoveLog
  <2>1. CASE UNCHANGED <<backup, first, torn>>
    BY <1>4, <2>1 DEF TypeOK, NewestInv, LogOrNewest, IsFull, MoveLog, NextRound, File
  <2>2. CASE /\ backup' = [backup EXCEPT ![1] = [lo |-> first, hi |-> last]]
             /\ first' = last + 1
    <3>1. backup'[1] = [lo |-> first, hi |-> last]
      BY <2>2 DEF TypeOK
    <3>2. last - first + 1 >= Full /\ last' = last /\ at' = "write"
      BY <1>4 DEF NewestInv, IsFull, MoveLog, NextRound, File
    <3> QED BY <2>2, <3>1, <3>2 DEF TypeOK, NewestInv, LogOrNewest
  <2> QED BY <1>4, <2>1, <2>2 DEF MoveLog
<1>5. CASE Write
  BY <1>5 DEF TypeOK, NewestInv, LogOrNewest, IsFull, Write, rotation
<1>6. CASE Tear
  BY <1>6 DEF TypeOK, NewestInv, LogOrNewest, IsFull, Tear, rotation
<1>7. CASE GiveUp
  BY <1>7 DEF TypeOK, NewestInv, LogOrNewest, IsFull, GiveUp, rotation
<1>8. CASE UNCHANGED vars
  BY <1>8 DEF TypeOK, NewestInv, LogOrNewest, IsFull, vars
<1> QED BY <1>1, <1>2, <1>3, <1>4, <1>5, <1>6, <1>7, <1>8 DEF Next

(***************************************************************************)
(* The newest entries, as many as make a full log, are always on disk: no  *)
(* failure of a rename and no kill takes one of them.                      *)
(***************************************************************************)
THEOREM NewestAreKept == Spec => []NewestKept
<1>1. Init => NewestInv
  BY LogAssumption DEF Init, NewestInv, LogOrNewest, IsFull
<1>2. TypeOK /\ NewestInv /\ [Next]_vars => NewestInv'
  BY NewestStep
<1>3. TypeOK /\ NewestInv => NewestKept
  <2> SUFFICES ASSUME TypeOK, NewestInv, NEW n \in 1..last, n > last - Full
               PROVE  Kept(n)
    BY DEF NewestKept
  <2>1. CASE first <= n
    BY <2>1 DEF Kept
  <2>2. CASE ~(first <= n)
    <3>1. backup[1].hi = first - 1 /\ backup[1].lo <= first - Full
      BY <2>2, LogAssumption DEF TypeOK, NewestInv, LogOrNewest, IsFull
    <3>2. backup[1].lo <= n /\ n <= backup[1].hi
      BY <2>2, <3>1, LogAssumption DEF TypeOK, NewestInv, Interval
    <3>3. 1 \in 1..Backups
      BY LogAssumption
    <3> QED BY <3>2, <3>3 DEF Kept
  <2> QED BY <2>1, <2>2
<1> QED BY <1>1, <1>2, <1>3, TypeCorrect, PTL DEF Spec

-----------------------------------------------------------------------------
(***************************************************************************)
(* An entry written in part spoils one later entry at most.                *)
(***************************************************************************)
THEOREM TornLinesAreFew == Spec => []TornSpoilsNext
<1>1. Init => TornSpoilsNext
  BY DEF Init, TornSpoilsNext
<1>2. TypeOK /\ TornSpoilsNext /\ [Next]_vars => TornSpoilsNext'
  <2> SUFFICES ASSUME TypeOK, TornSpoilsNext, [Next]_vars
               PROVE  TornSpoilsNext'
    OBVIOUS
  <2>1. CASE Begin \/ RemoveOldest \/ MoveBackup \/ GiveUp \/ UNCHANGED vars
    <3>1. UNCHANGED lines
      BY <2>1 DEF Begin, RemoveOldest, MoveBackup, GiveUp, vars, lines
    <3> QED BY <3>1 DEF TornSpoilsNext, lines
  <2>2. CASE MoveLog
    BY <2>2 DEF TypeOK, TornSpoilsNext, MoveLog
  <2>3. CASE Write
    BY <2>3 DEF TypeOK, TornSpoilsNext, Write, EndLine
  <2>4. CASE Tear
    BY <2>4 DEF TypeOK, TornSpoilsNext, Tear
  <2> QED BY <2>1, <2>2, <2>3, <2>4 DEF Next
<1> QED BY <1>1, <1>2, TypeCorrect, PTL DEF Spec

-----------------------------------------------------------------------------
(***************************************************************************)
(* Between the end of a backup and the log nothing is missing: what comes  *)
(* after it is in newer backups.  Inside a rotation, the name a file is    *)
(* about to get is free, or that of the oldest.                            *)
(***************************************************************************)
Holds(i, n) == backup[i].lo <= n /\ n <= backup[i].hi
Covered(j) ==
  Exists(j) =>
    /\ backup[j].hi < first
    /\ \A n \in Nat : backup[j].hi < n /\ n < first =>
         \E i \in 1..Backups : i < j /\ Holds(i, n)

SuffixInv ==
  ~lossy =>
    /\ \A j \in 1..Backups : Covered(j)
    /\ at = "rotate" /\ step < Backups - 1 => ~Exists(step + 1)

\* A rename to a free name, or to that of the oldest, keeps what is covered.
LEMMA MovedCovered ==
  ASSUME TypeOK, NEW s \in 1..Backups, s + 1 \in 1..Backups,
         \A j \in 1..Backups : Covered(j),
         s + 1 < Backups => ~Exists(s + 1),
         backup' = Moved(s), first' = first
  PROVE  /\ \A j \in 1..Backups : Covered(j)'
         /\ ~Exists(s)'
<1> USE LogAssumption
<1>1. /\ backup'[s] = None /\ backup'[s + 1] = backup[s]
      /\ \A j \in 1..Backups : j # s /\ j # s + 1 => backup'[j] = backup[j]
  BY DEF Moved, TypeOK
<1>2. ~Exists(s)'
  BY <1>1 DEF Exists, None
<1>3. ASSUME NEW j \in 1..Backups PROVE Covered(j)'
  <2>1. CASE j = s
    BY <1>2, <2>1 DEF Covered
  <2>2. CASE j = s + 1
    <3> SUFFICES ASSUME Exists(j)'
                 PROVE  /\ backup'[j].hi < first
                        /\ \A n \in Nat : backup'[j].hi < n /\ n < first =>
                             \E i \in 1..Backups : i < j /\ Holds(i, n)'
      BY DEF Covered
    <3>1. Exists(s) /\ backup'[j] = backup[s]
      BY <1>1, <2>2 DEF Exists
    <3>2. ASSUME NEW n \in Nat, backup[s].hi < n, n < first
          PROVE  \E i \in 1..Backups : i < j /\ Holds(i, n)'
      <4>1. PICK i \in 1..Backups : i < s /\ Holds(i, n)
        BY <3>1, <3>2 DEF Covered
      <4>2. Holds(i, n)'
        BY <4>1, <1>1 DEF Holds
      <4> QED BY <4>1, <4>2, <2>2
    <3> QED BY <3>1, <3>2 DEF Covered
  <2>3. CASE j # s /\ j # s + 1
    <3> SUFFICES ASSUME Exists(j)'
                 PROVE  /\ backup'[j].hi < first
                        /\ \A n \in Nat : backup'[j].hi < n /\ n < first =>
                             \E i \in 1..Backups : i < j /\ Holds(i, n)'
      BY DEF Covered
    <3>1. Exists(j) /\ backup'[j] = backup[j]
      BY <1>1, <2>3 DEF Exists
    <3>2. ASSUME NEW n \in Nat, backup[j].hi < n, n < first
          PROVE  \E i \in 1..Backups : i < j /\ Holds(i, n)'
      <4>1. PICK i \in 1..Backups : i < j /\ Holds(i, n)
        BY <3>1, <3>2 DEF Covered
      <4>2. CASE i = s
        <5>1. Holds(s + 1, n)' /\ s + 1 < j
          BY <4>1, <4>2, <1>1, <2>3 DEF Holds
        <5> QED BY <5>1
      <4>3. CASE i = s + 1
        <5>1. Exists(s + 1)
          BY <4>1, <4>3 DEF Holds, Exists, TypeOK, Interval
        <5> QED BY <5>1, <4>1, <4>3
      <4>4. CASE i # s /\ i # s + 1
        <5>1. Holds(i, n)'
          BY <4>1, <4>4, <1>1 DEF Holds
        <5> QED BY <5>1, <4>1
      <4> QED BY <4>2, <4>3, <4>4
    <3> QED BY <3>1, <3>2 DEF Covered
  <2> QED BY <2>1, <2>2, <2>3
<1> QED BY <1>2, <1>3

\* As long as the backups and the log are where they were, so is SuffixInv.
LEMMA SameFiles ==
  ASSUME UNCHANGED <<first, backup>>
  PROVE  /\ \A i \in 1..Backups : Exists(i)' = Exists(i)
         /\ (\A j \in 1..Backups : Covered(j)) => \A j \in 1..Backups : Covered(j)'
<1>1. \A i \in 1..Backups : Exists(i)' = Exists(i)
  BY DEF Exists
<1>2. \A i \in 1..Backups, n \in Nat : Holds(i, n)' = Holds(i, n)
  BY DEF Holds
<1> QED BY <1>1, <1>2 DEF Covered

LEMMA SuffixStep ==
  ASSUME TypeOK, TypeOK', NewestInv, SuffixInv, [Next]_vars
  PROVE  SuffixInv'
<1> SUFFICES ASSUME ~lossy'
             PROVE  /\ \A j \in 1..Backups : Covered(j)'
                    /\ at' = "rotate" /\ step' < Backups - 1 => ~Exists(step + 1)'
  BY DEF SuffixInv
<1> USE LogAssumption
<1>0. ~lossy
  BY DEF Next, Begin, RemoveOldest, MoveBackup, MoveLog, Write, Tear, GiveUp,
         rotation, lines, vars
<1>a. /\ \A j \in 1..Backups : Covered(j)
      /\ at = "rotate" /\ step < Backups - 1 => ~Exists(step + 1)
  BY <1>0 DEF SuffixInv
<1>1. CASE Begin
  BY <1>1, <1>a, SameFiles DEF Begin, rotation
<1>2. CASE RemoveOldest
  <2>1. at' # "rotate" \/ step' = Backups - 1
    BY <1>2 DEF RemoveOldest, NextRound, File
  <2>2. CASE backup' = backup
    BY <1>2, <1>a, <2>1, <2>2, SameFiles DEF RemoveOldest
  <2>3. CASE backup' = [backup EXCEPT ![Backups] = None]
    <3>1. /\ backup'[Backups] = None
          /\ \A i \in 1..Backups : i < Backups => backup'[i] = backup[i]
          /\ first' = first
      BY <1>2, <2>3 DEF TypeOK, RemoveOldest
    <3>2. ~Exists(Backups)'
      BY <3>1 DEF Exists, None
    <3>3. ASSUME NEW j \in 1..Backups, Exists(j)' PROVE Covered(j)'
      <4>1. j < Backups /\ Exists(j) /\ backup'[j] = backup[j]
        BY <3>1, <3>2, <3>3 DEF Exists
      <4>2. ASSUME NEW n \in Nat, backup[j].hi < n, n < first
            PROVE  \E i \in 1..Backups : i < j /\ Holds(i, n)'
        <5>1. PICK i \in 1..Backups : i < j /\ Holds(i, n)
          BY <1>a, <4>1, <4>2 DEF Covered
        <5>2. Holds(i, n)'
          BY <3>1, <4>1, <5>1 DEF Holds
        <5> QED BY <5>1, <5>2
      <4> QED BY <1>a, <3>1, <4>1, <4>2 DEF Covered
    <3> QED BY <2>1, <3>3 DEF Covered
  <2> QED BY <1>2, <2>2, <2>3 DEF RemoveOldest
<1>3. CASE MoveBackup
  <2>1. step \in 1..Backups /\ step + 1 \in 1..Backups
    BY <1>3 DEF MoveBackup, File
  <2>2. at' = "rotate" /\ step' = step - 1
    BY <1>3, <2>1 DEF MoveBackup, NextRound, File
  <2>3. backup' = IF Exists(step) THEN Moved(step) ELSE backup
    BY <1>0, <1>3 DEF MoveBackup, File
  <2>4. first' = first
    BY <1>3 DEF MoveBackup
  <2>5. step + 1 < Backups => ~Exists(step + 1)
    BY <1>a, <1>3, <2>1 DEF MoveBackup
  <2>6. CASE Exists(step)
    BY <1>a, <2>1, <2>2, <2>3, <2>4, <2>5, <2>6, MovedCovered
  <2>7. CASE ~Exists(step)
    BY <1>a, <2>1, <2>2, <2>3, <2>4, <2>7, SameFiles
  <2> QED BY <2>6, <2>7
<1>4. CASE MoveLog
  <2>1. at' = "write" /\ at = "rotate" /\ step = 0
    BY <1>4 DEF MoveLog, NextRound, File
  <2>2. CASE UNCHANGED <<backup, first, torn>>
    BY <1>a, <2>1, <2>2, SameFiles
  <2>3. CASE /\ backup' = [backup EXCEPT ![1] = [lo |-> first, hi |-> last]]
             /\ first' = last + 1
    <3>1. /\ backup'[1] = [lo |-> first, hi |-> last]
          /\ \A i \in 1..Backups : i > 1 => backup'[i] = backup[i]
      BY <2>3 DEF TypeOK
    <3>2. first <= last
      BY <2>1 DEF TypeOK, NewestInv, IsFull
    <3>3. Backups > 1 => ~Exists(1)
      BY <1>a, <2>1
    <3>4. ASSUME NEW j \in 1..Backups, Exists(j)' PROVE Covered(j)'
      <4>1. CASE j = 1
        BY <2>3, <3>1, <4>1 DEF Covered, TypeOK
      <4>2. CASE j > 1
        <5>1. Exists(j) /\ backup'[j] = backup[j] /\ backup[j].hi < first
          BY <1>a, <3>1, <3>4, <4>2 DEF Exists, Covered
        <5>2. ASSUME NEW n \in Nat, backup[j].hi < n, n < last + 1
              PROVE  \E i \in 1..Backups : i < j /\ Holds(i, n)'
          <6>1. CASE n >= first
            <7>1. Holds(1, n)'
              BY <3>1, <5>2, <6>1 DEF Holds, TypeOK
            <7> QED BY <7>1, <4>2
          <6>2. CASE n < first
            <7>1. PICK i \in 1..Backups : i < j /\ Holds(i, n)
              BY <1>a, <5>1, <5>2, <6>2 DEF Covered
            <7>2. Exists(i)
              <8>1. backup[i].lo \in Nat /\ backup[i].hi \in Nat
                BY <7>1 DEF TypeOK, Interval
              <8> QED BY <7>1, <8>1 DEF Holds, Exists
            <7>3. i > 1
              BY <3>3, <4>2, <7>2
            <7>4. Holds(i, n)'
              BY <3>1, <7>1, <7>3 DEF Holds
            <7> QED BY <7>1, <7>4
          <6> QED BY <6>1, <6>2 DEF TypeOK
        <5>3. backup'[j].hi < last + 1
          <6>1. backup[j].hi \in Nat /\ first \in Nat /\ last \in Nat
            BY DEF TypeOK, Interval
          <6>2. backup[j].hi < last + 1
            BY <3>2, <5>1, <6>1
          <6> QED BY <5>1, <6>2
        <5> QED BY <2>3, <5>1, <5>2, <5>3 DEF Covered
      <4> QED BY <4>1, <4>2
    <3> QED BY <2>1, <3>4 DEF Covered
  <2> QED BY <1>4, <2>2, <2>3 DEF MoveLog
<1>5. CASE Write
  BY <1>5, <1>a, SameFiles DEF Write, rotation
<1>6. CASE Tear
  BY <1>6, <1>a, SameFiles DEF Tear, rotation
<1>7. CASE GiveUp
  BY <1>7, <1>a, SameFiles DEF GiveUp, rotation
<1>8. CASE UNCHANGED vars
  BY <1>8, <1>a, SameFiles DEF vars, TypeOK
<1> QED BY <1>1, <1>2, <1>3, <1>4, <1>5, <1>6, <1>7, <1>8 DEF Next

(***************************************************************************)
(* What is on disk is a suffix of what was written, however many processes *)
(* were killed, unless a backup could not be moved out of the way.         *)
(***************************************************************************)
THEOREM NoHoles == Spec => []RetainedIsSuffix
<1>1. Init => NewestInv /\ SuffixInv
  BY LogAssumption DEF Init, NewestInv, LogOrNewest, IsFull, SuffixInv, Covered,
     Exists, None
<1>2. TypeOK /\ TypeOK' /\ NewestInv /\ SuffixInv /\ [Next]_vars
        => (NewestInv /\ SuffixInv)'
  BY NewestStep, SuffixStep
<1>3. TypeOK /\ SuffixInv => RetainedIsSuffix
  <2> SUFFICES ASSUME TypeOK, SuffixInv, ~lossy, NEW m \in 1..last,
                      NEW n \in 1..last, Kept(m), m < n
               PROVE  Kept(n)
    BY DEF RetainedIsSuffix
  <2>1. CASE first <= n
    BY <2>1 DEF Kept
  <2>2. CASE ~(first <= n)
    <3>1. PICK j \in 1..Backups : backup[j].lo <= m /\ m <= backup[j].hi
      BY <2>2 DEF Kept, TypeOK
    <3>2. Exists(j) /\ Covered(j)
      BY <3>1 DEF Exists, SuffixInv, TypeOK, Interval
    <3>3. CASE n <= backup[j].hi
      BY <3>1, <3>3 DEF Kept, TypeOK, Interval
    <3>4. CASE backup[j].hi < n
      BY <2>2, <3>2, <3>4 DEF Covered, Holds, Kept, TypeOK
    <3> QED BY <3>3, <3>4 DEF TypeOK, Interval
  <2> QED BY <2>1, <2>2
<1> QED BY <1>1, <1>2, <1>3, TypeCorrect, PTL DEF Spec
=============================================================================
