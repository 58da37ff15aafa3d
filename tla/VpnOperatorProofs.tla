------------------------- MODULE VpnOperatorProofs -------------------------
(***************************************************************************)
(* Proofs about module VpnOperator, for any clients, any length of a list, *)
(* any number of operations and of changes by others: what root runs has   *)
(* the pinned hash, a dialog that is confirmed too late runs nothing, and  *)
(* what an operation says of a client is so.                               *)
(***************************************************************************)
EXTENDS VpnOperator, SequenceTheorems, TLAPS

(***************************************************************************)
(* The part of TypeOK the arguments need: neither the index nor what an    *)
(* operation remembers of it matters, so op.start is left free.            *)
(***************************************************************************)
IsOp(o) ==
  o \in [name : Name \cup {"none"}, at : Stage, client : Client \cup {NoClient},
         code : {"none", "ok", "failed"}, listed : BOOLEAN,
         start : {o.start}, disturbed : BOOLEAN]
Shape ==
  /\ IsOp(op)
  /\ copy \in [Job -> Content]
  /\ job \in [Job -> JobType]
  /\ ops \in Nat

\* What is ready to run has been hashed where only root may write.
ReadyIsPinned == \A n \in Job : job[n].at = "ready" => job[n].staged = "pinned"

\* A copy belongs to the operation that made it, or to one that was killed.
CopiesAreHeld ==
  \A n \in Job : copy[n] # "none" =>
    n \in killed \/ (n = ops /\ op.at \in {"rehash", "root"})

\* An operation has no helper before the daemon called it.
Early == {"download", "validate", "list", "hash", "copy", "rehash"}
NoHelperYet ==
  \A n \in Job : n > ops \/ (n = ops /\ op.at \in Early) => job[n].at = "none"

\* A copy was staged for a daemon that waited, or that was killed.
StagedInTime ==
  \A n \in Job : job[n].at \in {"staged", "ready"} =>
    job[n].intime \/ n \in killed

PinnedInv == Shape /\ OnlyPinnedRuns /\ ReadyIsPinned
LateInv == Shape /\ CopiesAreHeld /\ NoHelperYet /\ StagedInTime

-----------------------------------------------------------------------------
LEMMA NoOpIsOp == IsOp(NoOp)
BY DEF IsOp, NoOp, Stage

LEMMA GotoIsOp ==
  ASSUME IsOp(op), NEW s \in Stage, Goto(s) PROVE IsOp(op') /\ op'.at = s
BY DEF IsOp, Goto

LEMMA AnswerIsOp ==
  ASSUME IsOp(op), NEW c \in {"ok", "failed"}, Answer(c)
  PROVE  IsOp(op') /\ op'.at = "done"
BY DEF IsOp, Answer, Stage

LEMMA ShapeInit == Init => Shape
<1> SUFFICES ASSUME Init PROVE Shape
  OBVIOUS
<1>1. NoJob \in JobType
  BY DEF NoJob, JobType, Content
<1>2. job \in [Job -> JobType] /\ copy \in [Job -> Content]
  BY <1>1 DEF Init, Content
<1>3. IsOp(op)
  BY NoOpIsOp DEF Init
<1> QED BY <1>2, <1>3 DEF Init, Shape

LEMMA ReturnShape ==
  ASSUME Shape, NEW n \in Job, NEW done \in BOOLEAN, Return(n, done)
  PROVE  IsOp(op') /\ copy' \in [Job -> Content]
<1> USE DEF Waiting
<1>1. CASE At("root") /\ n = ops
  <2>1. IsOp(op')
    <3>1. "verify" \in Stage
      BY DEF Stage
    <3> QED BY <1>1, <3>1, GotoIsOp, AnswerIsOp DEF Return, Shape
  <2>2. copy' \in [Job -> Content]
    BY <1>1 DEF Return, Unlink, Shape, Content
  <2> QED BY <2>1, <2>2
<1>2. CASE ~(At("root") /\ n = ops)
  <2>1. op' = [op EXCEPT !.disturbed = TRUE] /\ copy' = copy
    BY <1>2 DEF Return
  <2> QED BY <2>1 DEF IsOp, Shape
<1> QED BY <1>1, <1>2

LEMMA EndShape ==
  ASSUME Shape, NEW n \in Job, End(n) PROVE job' \in [Job -> JobType]
BY DEF End, Shape, JobType

LEMMA ShapeNext == Shape /\ [Next]_vars => Shape'
<1> SUFFICES ASSUME Shape, [Next]_vars PROVE Shape'
  OBVIOUS
<1> USE DEF Shape
<1>0. /\ Stage = {"idle", "download", "validate", "list", "hash", "copy", "rehash",
                  "root", "verify", "unit", "done"}
      /\ Content = {"pinned", "other", "none"}
  BY DEF Stage, Content
<1>1. ASSUME NEW name \in Name, NEW c \in Client \cup {NoClient}, Ask(name, c)
      PROVE  Shape'
  <2>1. op' = [NoOp EXCEPT !.name = name, !.client = c, !.start = Entries,
                           !.at = op'.at]
        /\ op'.at \in {"download", "list", "hash", "unit"}
    BY <1>1 DEF Ask, NoOp, Name, ByUnit
  <2>2. IsOp(op')
    BY <1>0, <2>1 DEF NoOp, IsOp
  <2>3. ops' \in Nat
    BY <1>1 DEF Ask
  <2> QED BY <1>1, <2>2, <2>3 DEF Ask, files
<1>2. CASE Download
  <2>1. IsOp(op')
    BY <1>0, <1>2, GotoIsOp, AnswerIsOp DEF Download
  <2> QED BY <1>0, <1>2, <2>1 DEF Download, bounds
<1>3. CASE Validate
  <2>1. IsOp(op')
    BY <1>0, <1>3, GotoIsOp, AnswerIsOp DEF Validate
  <2> QED BY <1>3, <2>1 DEF Validate, bounds
<1>4. CASE List
  <2>1. IsOp(op')
    BY <1>0, <1>4, AnswerIsOp DEF List, IsOp
  <2> QED BY <1>4, <2>1 DEF List, files, bounds
<1>5. CASE HashScript
  <2>1. IsOp(op')
    BY <1>0, <1>5, GotoIsOp, AnswerIsOp DEF HashScript
  <2> QED BY <1>5, <2>1 DEF HashScript, files, bounds
<1>6. CASE CopyScript
  <2>1. IsOp(op')
    BY <1>0, <1>6, GotoIsOp, AnswerIsOp DEF CopyScript
  <2>2. copy' \in [Job -> Content]
    BY <1>0, <1>6 DEF CopyScript
  <2> QED BY <1>6, <2>1, <2>2 DEF CopyScript, bounds
<1>7. CASE HashCopy
  <2>1. IsOp(op')
    BY <1>0, <1>7, GotoIsOp, AnswerIsOp DEF HashCopy
  <2>2. copy' \in [Job -> Content]
    BY <1>0, <1>7 DEF HashCopy, Unlink
  <2>3. [NoJob EXCEPT !.at = "dialog", !.name = op.name, !.client = op.client] \in JobType
    BY <1>0 DEF NoJob, JobType, IsOp
  <2>4. job' \in [Job -> JobType]
    BY <1>7, <2>3 DEF HashCopy
  <2> QED BY <1>7, <2>1, <2>2, <2>4 DEF HashCopy, bounds
<1>8. CASE TimesOut
  <2>1. IsOp(op')
    BY <1>0, <1>8, AnswerIsOp DEF TimesOut
  <2>2. copy' \in [Job -> Content]
    BY <1>0, <1>8 DEF TimesOut, Unlink
  <2> QED BY <1>8, <2>1, <2>2 DEF TimesOut, bounds
<1>9. CASE Verify
  <2>1. IsOp(op')
    BY <1>9, AnswerIsOp DEF Verify
  <2> QED BY <1>9, <2>1 DEF Verify, files, bounds
<1>10. CASE Unit
  <2>1. IsOp(op')
    BY <1>10, AnswerIsOp DEF Unit
  <2> QED BY <1>10, <2>1 DEF Unit, files, bounds
<1>11. CASE Delivered
  BY <1>11, NoOpIsOp DEF Delivered, files, bounds
<1>12. ASSUME NEW n \in Job, JobRefused(n) PROVE Shape'
  <2>1. IsOp(op') /\ copy' \in [Job -> Content]
    BY <1>12, ReturnShape DEF JobRefused
  <2>2. job' \in [Job -> JobType]
    BY <1>12, EndShape DEF JobRefused
  <2> QED BY <1>12, <2>1, <2>2 DEF JobRefused, bounds
<1>13. ASSUME NEW n \in Job, StageCopy(n) PROVE Shape'
  <2>0. PICK got \in {"pinned", "other"} :
          job' = [job EXCEPT ![n].at = "staged", ![n].staged = got,
                             ![n].intime = Waiting(n)]
    BY <1>13 DEF StageCopy
  <2>1. job' \in [Job -> JobType]
    <3>1. got \in Content
      BY <1>0
    <3>2. [job[n] EXCEPT !.at = "staged", !.staged = got,
                         !.intime = Waiting(n)] \in JobType
      BY <3>1 DEF JobType, Waiting, At
    <3> QED BY <2>0, <3>2
  <2> QED BY <1>13, <2>1 DEF StageCopy, files, bounds
<1>14. ASSUME NEW n \in Job, HashStaged(n) PROVE Shape'
  <2>1. CASE job[n].staged = "pinned"
    <3>1. job' \in [Job -> JobType]
      BY <1>14, <2>1 DEF HashStaged, JobType
    <3> QED BY <1>14, <2>1, <3>1 DEF HashStaged, bounds
  <2>2. CASE job[n].staged # "pinned"
    <3>1. IsOp(op') /\ copy' \in [Job -> Content]
      BY <1>14, <2>2, ReturnShape DEF HashStaged
    <3>2. job' \in [Job -> JobType]
      BY <1>14, <2>2, EndShape DEF HashStaged
    <3> QED BY <1>14, <3>1, <3>2 DEF HashStaged, bounds
  <2> QED BY <2>1, <2>2
<1>15. ASSUME NEW n \in Job, RunScript(n) PROVE Shape'
  <2>1. IsOp(op') /\ copy' \in [Job -> Content]
    BY <1>15, ReturnShape DEF RunScript
  <2>2. job' \in [Job -> JobType]
    BY <1>15, EndShape DEF RunScript
  <2> QED BY <1>15, <2>1, <2>2 DEF RunScript, bounds
<1>16. CASE FilesChange
  <2>1. copy' \in [Job -> Content]
    BY <1>0, <1>16 DEF FilesChange
  <2> QED BY <1>16, <2>1 DEF FilesChange
<1>17. CASE ServiceChanges
  BY <1>17 DEF ServiceChanges, files
<1>18. CASE Kill
  BY <1>18, NoOpIsOp DEF Kill, files
<1>19. CASE UNCHANGED vars
  BY <1>19 DEF vars, IsOp
<1> QED BY <1>1, <1>2, <1>3, <1>4, <1>5, <1>6, <1>7, <1>8, <1>9, <1>10, <1>11,
           <1>12, <1>13, <1>14, <1>15, <1>16, <1>17, <1>18, <1>19 DEF Next
-----------------------------------------------------------------------------
(***************************************************************************)
(* What root runs.  Only HashStaged makes a script ready and only          *)
(* RunScript runs one; nobody writes to what was staged.                   *)
(***************************************************************************)
LEMMA PinnedStep == PinnedInv /\ [Next]_vars => PinnedInv'
<1> SUFFICES ASSUME PinnedInv, [Next]_vars PROVE OnlyPinnedRuns' /\ ReadyIsPinned'
  BY ShapeNext DEF PinnedInv
<1> USE DEF PinnedInv, OnlyPinnedRuns, ReadyIsPinned
<1>1. job \in [Job -> JobType]
  BY DEF Shape
<1>2. CASE UNCHANGED <<job, executed>>
  BY <1>2
<1>3. CASE HashCopy
  <2>1. CASE copy[ops] = "pinned"
    <3>1. job' = [job EXCEPT ![ops] = [NoJob EXCEPT !.at = "dialog",
                     !.name = op.name, !.client = op.client]]
      BY <1>3, <2>1 DEF HashCopy
    <3>2. \A n \in Job : job'[n] = job[n] \/ job'[n].at = "dialog"
      BY <1>1, <3>1 DEF NoJob
    <3> QED BY <1>3, <3>2 DEF HashCopy
  <2>2. CASE copy[ops] # "pinned"
    BY <1>3, <2>2 DEF HashCopy
  <2> QED BY <2>1, <2>2
<1>4. ASSUME NEW n \in Job, End(n), UNCHANGED executed
      PROVE  OnlyPinnedRuns' /\ ReadyIsPinned'
  BY <1>1, <1>4 DEF End, JobType
<1>5. ASSUME NEW n \in Job, StageCopy(n)
      PROVE  OnlyPinnedRuns' /\ ReadyIsPinned'
  BY <1>1, <1>5 DEF StageCopy, JobType
<1>6. ASSUME NEW n \in Job, HashStaged(n)
      PROVE  OnlyPinnedRuns' /\ ReadyIsPinned'
  BY <1>1, <1>4, <1>6 DEF HashStaged, JobType
<1>7. ASSUME NEW n \in Job, RunScript(n)
      PROVE  OnlyPinnedRuns' /\ ReadyIsPinned'
  <2>1. executed' \subseteq {"pinned"}
    BY <1>7 DEF RunScript, Runs
  <2>2. ReadyIsPinned'
    BY <1>1, <1>7 DEF RunScript, End, JobType
  <2> QED BY <2>1, <2>2
<1>8. CASE \E name \in Name, c \in Client \cup {NoClient} : Ask(name, c)
  BY <1>2, <1>8 DEF Ask
<1>9. CASE \/ Download \/ Validate \/ List \/ HashScript \/ CopyScript
           \/ TimesOut \/ Verify \/ Unit \/ Delivered
           \/ FilesChange \/ ServiceChanges \/ Kill \/ UNCHANGED vars
  BY <1>2, <1>9 DEF Download, Validate, List, HashScript, CopyScript, TimesOut,
     Verify, Unit, Delivered, FilesChange, ServiceChanges, Kill, vars
<1>10. ASSUME NEW n \in Job, JobRefused(n)
       PROVE  OnlyPinnedRuns' /\ ReadyIsPinned'
  BY <1>4, <1>10 DEF JobRefused
<1> QED BY <1>3, <1>5, <1>6, <1>7, <1>8, <1>9, <1>10 DEF Next

(***************************************************************************)
(* Root runs the pinned script and nothing else (helper_main.py 164).      *)
(***************************************************************************)
THEOREM RootRunsPinned == Spec => []OnlyPinnedRuns
<1>1. Init => PinnedInv
  <2> SUFFICES ASSUME Init PROVE PinnedInv
    OBVIOUS
  <2>1. ReadyIsPinned
    BY DEF Init, NoJob, ReadyIsPinned
  <2> QED BY <2>1, ShapeInit DEF Init, PinnedInv, OnlyPinnedRuns
<1>2. PinnedInv => OnlyPinnedRuns
  BY DEF PinnedInv
<1> QED BY <1>1, <1>2, PinnedStep, PTL DEF Spec

-----------------------------------------------------------------------------
(***************************************************************************)
(* When scripts are staged.  The copy of an operation is there while it is *)
(* rehashed and while the daemon waits, and is removed on every way out    *)
(* but the daemon's death; a helper without a copy stages nothing.         *)
(***************************************************************************)
LEMMA ReturnHolds ==
  ASSUME LateInv, NEW n \in Job, job[n].at # "none", NEW done \in BOOLEAN,
         Return(n, done), End(n), UNCHANGED <<ops, killed>>
  PROVE  CopiesAreHeld' /\ NoHelperYet'
<1> USE DEF LateInv, Shape, Waiting
<1>1. \A k \in Job : job'[k] = job[k] \/ (k = n /\ job'[k].at = "over")
  BY DEF End, JobType
<1>2. CASE At("root") /\ n = ops
  <2>1. op'.at \in {"verify", "done"}
    <3>1. "verify" \in Stage
      BY DEF Stage
    <3> QED BY <1>2, <3>1, GotoIsOp, AnswerIsOp DEF Return
  <2>2. copy' = [copy EXCEPT ![ops] = "none"]
    BY <1>2 DEF Return, Unlink
  <2>3. CopiesAreHeld'
    BY <2>2 DEF CopiesAreHeld
  <2>4. NoHelperYet'
    BY <1>1, <1>2, <2>1 DEF NoHelperYet, Early
  <2> QED BY <2>3, <2>4
<1>3. CASE ~(At("root") /\ n = ops)
  <2>1. op' = [op EXCEPT !.disturbed = TRUE] /\ copy' = copy
    BY <1>3 DEF Return
  <2>2. op'.at = op.at
    BY <2>1 DEF IsOp
  <2>3. CopiesAreHeld'
    BY <2>1, <2>2 DEF CopiesAreHeld
  <2>4. NoHelperYet'
    BY <1>1, <2>2 DEF NoHelperYet
  <2> QED BY <2>3, <2>4
<1> QED BY <1>2, <1>3

LEMMA StagedStep == LateInv /\ [Next]_vars => StagedInTime'
<1> SUFFICES ASSUME LateInv, [Next]_vars PROVE StagedInTime'
  OBVIOUS
<1> USE DEF LateInv, Shape, StagedInTime
<1>1. CASE UNCHANGED job /\ killed \subseteq killed'
  BY <1>1
<1>2. ASSUME NEW n \in Job, End(n), UNCHANGED killed PROVE StagedInTime'
  BY <1>2 DEF End, JobType
<1>3. ASSUME NEW n \in Job, StageCopy(n) PROVE StagedInTime'
  <2>1. Waiting(n) \/ n \in killed
    BY <1>3 DEF StageCopy, CopiesAreHeld, NoHelperYet, Early, Waiting, At
  <2>2. PICK got \in {"pinned", "other"} :
          job' = [job EXCEPT ![n].at = "staged", ![n].staged = got,
                             ![n].intime = Waiting(n)]
    BY <1>3 DEF StageCopy
  <2>3. /\ \A k \in Job : k # n => job'[k] = job[k]
        /\ job'[n].intime = Waiting(n)
    BY <2>2 DEF JobType
  <2>4. killed' = killed
    BY <1>3 DEF StageCopy, bounds
  <2> QED BY <2>1, <2>3, <2>4
<1>4. ASSUME NEW n \in Job, HashStaged(n) PROVE StagedInTime'
  <2>1. CASE job[n].staged = "pinned"
    <3>1. /\ \A k \in Job : k # n => job'[k] = job[k]
          /\ job'[n].intime = job[n].intime /\ job[n].at = "staged"
          /\ killed' = killed
      BY <1>4, <2>1 DEF HashStaged, JobType, bounds
    <3> QED BY <3>1
  <2>2. CASE job[n].staged # "pinned"
    BY <1>2, <1>4, <2>2 DEF HashStaged, bounds
  <2> QED BY <2>1, <2>2
<1>5. ASSUME NEW n \in Job, JobRefused(n) \/ RunScript(n) PROVE StagedInTime'
  BY <1>2, <1>5 DEF JobRefused, RunScript, bounds
<1>6. CASE HashCopy
  <2>1. \A n \in Job : job'[n] = job[n] \/ job'[n].at = "dialog"
    BY <1>6 DEF HashCopy, NoJob
  <2>2. killed' = killed
    BY <1>6 DEF HashCopy, bounds
  <2> QED BY <2>1, <2>2
<1>7. CASE \E name \in Name, c \in Client \cup {NoClient} : Ask(name, c)
  BY <1>1, <1>7 DEF Ask
<1>8. CASE \/ Download \/ Validate \/ List \/ HashScript \/ CopyScript
           \/ TimesOut \/ Verify \/ Unit \/ Delivered
  BY <1>1, <1>8 DEF Download, Validate, List, HashScript, CopyScript, TimesOut,
     Verify, Unit, Delivered, bounds
<1>9. CASE FilesChange \/ ServiceChanges \/ Kill \/ UNCHANGED vars
  BY <1>1, <1>9 DEF FilesChange, ServiceChanges, Kill, vars
<1> QED BY <1>3, <1>4, <1>5, <1>6, <1>7, <1>8, <1>9 DEF Next

LEMMA LateStep == LateInv /\ [Next]_vars => LateInv'
<1> SUFFICES ASSUME LateInv, [Next]_vars PROVE CopiesAreHeld' /\ NoHelperYet'
  BY ShapeNext, StagedStep DEF LateInv
<1> USE DEF LateInv, Shape
<1>0. \A s \in {"validate", "hash", "copy", "rehash", "root"} : s \in Stage
  BY DEF Stage
<1>1. ASSUME NEW name \in Name, NEW c \in Client \cup {NoClient}, Ask(name, c)
      PROVE  CopiesAreHeld' /\ NoHelperYet'
  <2>1. op.at = "idle" /\ ops' = ops + 1 /\ UNCHANGED <<copy, job, killed>>
    BY <1>1 DEF Ask, At, files
  <2>2. CopiesAreHeld'
    BY <2>1 DEF CopiesAreHeld
  <2>3. NoHelperYet'
    BY <2>1, VpnAssumption DEF NoHelperYet, Job
  <2> QED BY <2>2, <2>3
\* Before there is a copy.
<1>2. CASE Download \/ Validate \/ List \/ HashScript
  <2>1. UNCHANGED <<copy, job, ops, killed>>
    <3>1. CASE Download \/ Validate
      BY <3>1 DEF Download, Validate, bounds
    <3>2. CASE List
      BY <3>2 DEF List, files, bounds
    <3>3. CASE HashScript
      BY <3>3 DEF HashScript, files, bounds
    <3> QED BY <1>2, <3>1, <3>2, <3>3
  <2>2. op.at \in {"download", "validate", "list", "hash"}
    BY <1>2 DEF Download, Validate, List, HashScript, At
  <2>3. CopiesAreHeld'
    BY <2>1, <2>2 DEF CopiesAreHeld
  <2>4. NoHelperYet'
    BY <2>1, <2>2 DEF NoHelperYet, Early
  <2> QED BY <2>3, <2>4
<1>3. CASE Verify \/ Unit \/ Delivered
  <2>1. op'.at \in {"idle", "done"}
    BY <1>3, AnswerIsOp, NoOpIsOp DEF Verify, Unit, Delivered, NoOp
  <2>2. op.at \in {"verify", "unit", "done"} /\ UNCHANGED <<copy, job, ops, killed>>
    BY <1>3 DEF Verify, Unit, Delivered, At, files, bounds
  <2>3. CopiesAreHeld'
    BY <2>1, <2>2 DEF CopiesAreHeld
  <2>4. NoHelperYet'
    BY <2>1, <2>2 DEF NoHelperYet, Early
  <2> QED BY <2>3, <2>4
<1>4. CASE CopyScript
  <2>1. op.at = "copy" /\ UNCHANGED <<job, ops, killed>>
    BY <1>4 DEF CopyScript, At, bounds
  <2>2. \/ op'.at = "done" /\ copy' = copy
        \/ op'.at = "rehash" /\ \E got \in Content : copy' = [copy EXCEPT ![ops] = got]
    BY <1>0, <1>4, GotoIsOp, AnswerIsOp DEF CopyScript, Content
  <2>3. CopiesAreHeld'
    BY <2>1, <2>2 DEF CopiesAreHeld
  <2>4. NoHelperYet'
    BY <2>1, <2>2 DEF NoHelperYet, Early
  <2> QED BY <2>3, <2>4
<1>5. CASE HashCopy
  <2>1. op.at = "rehash" /\ UNCHANGED <<ops, killed>>
    BY <1>5 DEF HashCopy, At, bounds
  <2>2. CASE copy[ops] = "pinned"
    <3>1. op'.at = "root" /\ copy' = copy
      BY <1>0, <1>5, <2>2, GotoIsOp DEF HashCopy
    <3>2. \A n \in Job : n # ops => job'[n] = job[n]
      BY <1>5, <2>2 DEF HashCopy
    <3> QED BY <2>1, <3>1, <3>2 DEF CopiesAreHeld, NoHelperYet, Early
  <2>3. CASE copy[ops] # "pinned"
    <3>1. op'.at = "done" /\ job' = job /\ copy' = [copy EXCEPT ![ops] = "none"]
      BY <1>5, <2>3, AnswerIsOp DEF HashCopy, Unlink
    <3> QED BY <2>1, <3>1 DEF CopiesAreHeld, NoHelperYet, Early
  <2> QED BY <2>2, <2>3
<1>6. CASE TimesOut
  <2>1. op'.at = "done" /\ copy' = [copy EXCEPT ![ops] = "none"]
    BY <1>6, AnswerIsOp DEF TimesOut, Unlink
  <2> QED BY <1>6, <2>1 DEF TimesOut, bounds, CopiesAreHeld, NoHelperYet, Early
<1>7. ASSUME NEW n \in Job, JobRefused(n)
      PROVE  CopiesAreHeld' /\ NoHelperYet'
  BY <1>7, ReturnHolds DEF JobRefused, bounds
<1>8. ASSUME NEW n \in Job, StageCopy(n)
      PROVE  CopiesAreHeld' /\ NoHelperYet'
  <2>1. \A k \in Job : k # n => job'[k] = job[k]
    BY <1>8 DEF StageCopy
  <2> QED BY <1>8, <2>1 DEF StageCopy, CopiesAreHeld, NoHelperYet, files, bounds
<1>9. ASSUME NEW n \in Job, HashStaged(n)
       PROVE  CopiesAreHeld' /\ NoHelperYet'
  <2>1. CASE job[n].staged = "pinned"
    <3>1. \A k \in Job : k # n => job'[k] = job[k]
      BY <1>9, <2>1 DEF HashStaged
    <3> QED BY <1>9, <2>1, <3>1 DEF HashStaged, CopiesAreHeld, NoHelperYet, bounds
  <2>2. CASE job[n].staged # "pinned"
    BY <1>9, <2>2, ReturnHolds DEF HashStaged, bounds
  <2> QED BY <2>1, <2>2
<1>10. ASSUME NEW n \in Job, RunScript(n)
       PROVE  CopiesAreHeld' /\ NoHelperYet'
  BY <1>10, ReturnHolds DEF RunScript, bounds
<1>11. CASE FilesChange
  BY <1>11 DEF FilesChange, CopiesAreHeld, NoHelperYet
<1>12. CASE ServiceChanges \/ UNCHANGED vars
  BY <1>12 DEF ServiceChanges, vars, files, CopiesAreHeld, NoHelperYet
<1>13. CASE Kill
  BY <1>13 DEF Kill, NoOp, files, CopiesAreHeld, NoHelperYet, Early
<1> QED BY <1>1, <1>2, <1>3, <1>4, <1>5, <1>6, <1>7, <1>8, <1>9, <1>10, <1>11,
           <1>12, <1>13 DEF Next

LEMMA LateSafe ==
  LateInv /\ [Next]_vars =>
    [\A n \in Job : job[n].at = "ready" /\ job'[n].at = "over" =>
       job[n].intime \/ n \in killed]_vars
BY DEF LateInv, StagedInTime

(***************************************************************************)
(* A script is run only if its copy was staged while the daemon waited for *)
(* the helper, or the daemon was killed: confirming a dialog after the     *)
(* daemon gave up runs nothing (helper_main.py 172, angristan.py 103).     *)
(***************************************************************************)
THEOREM LateDialogsRunNothing == Spec => LateDialogRunsNothing
<1>1. Init => LateInv
  <2> SUFFICES ASSUME Init PROVE LateInv
    OBVIOUS
  <2>1. CopiesAreHeld /\ NoHelperYet /\ StagedInTime
    BY DEF Init, NoJob, CopiesAreHeld, NoHelperYet, StagedInTime
  <2> QED BY <2>1, ShapeInit DEF LateInv
<1> QED BY <1>1, LateStep, LateSafe, PTL DEF Spec, LateDialogRunsNothing

-----------------------------------------------------------------------------
(***************************************************************************)
(* What "verified" means.  Nobody but the helpers changes the index, and   *)
(* an operation is marked as disturbed when a helper other than its own    *)
(* ends.  Until its own runs the index is therefore the one it began on    *)
(* (OnItsIndex), and what it saw there was so (ListedWasFree).  A client   *)
(* has one valid certificate at most (IndexInv): the one a revocation      *)
(* takes away, so that it leaves none (RevokedIsGone).                     *)
(***************************************************************************)
OneValidEach(entries) ==
  \A i, j \in DOMAIN entries :
    entries[i] = entries[j] /\ entries[i].active => i = j

IndexInv == Entries \in Seq(Entry) /\ OneValidEach(Entries)

OnItsIndex ==
  ~op.disturbed /\ op.at \in Early \cup {"root"} => Entries = op.start

ListedWasFree ==
  op.listed /\ ~op.disturbed => ~HasEntry(op.start, op.client, TRUE)

RevokedIsGone ==
  op.at = "verify" /\ op.name = "revoke_client" /\ ~op.disturbed =>
    \/ HasEntry(op.start, op.client, FALSE)
    \/ ~HasEntry(Entries, op.client, TRUE)
    \/ ~HasEntry(Entries, op.client, FALSE)

\* Where an operation may be, by its name.
Named ==
  /\ op.at \in {"download", "validate"} => op.name = "install"
  /\ op.at = "list" => op.name \in {"add_client", "list_clients"}
  /\ op.at \in {"hash", "copy", "rehash", "root"} => op.name \in ByScript
  /\ op.at = "unit" => op.name \in ByUnit
  /\ op.name \in {"add_client", "revoke_client"} => op.client \in Client

\* A helper has a verb of a script, and the awaited one that of the operation.
JobsNamed ==
  /\ \A n \in Job : job[n].at # "none" =>
       /\ job[n].name \in ByScript
       /\ job[n].name # "install" => job[n].client \in Client
  /\ op.at = "root" /\ ops \in Job =>
       job[ops].name = op.name /\ job[ops].client = op.client

VerdictInv ==
  /\ Shape /\ IndexInv /\ OnItsIndex /\ ListedWasFree /\ RevokedIsGone
  /\ Named /\ JobsNamed /\ ClientVerdictsAreTrue

-----------------------------------------------------------------------------
(***************************************************************************)
(* What a list shows of a client is in the index, or it is a cut line.     *)
(***************************************************************************)
LEMMA ShownIsThere ==
  ASSUME Entries \in Seq(Entry), NEW shown \in Listings, NEW c,
         NEW a \in BOOLEAN, HasEntry(shown, c, a)
  PROVE  HasEntry(Entries, c, a) \/ MayBeCutTo(c)
<1>1. CASE shown = Entries
  BY <1>1
<1>2. ASSUME NEW k \in Cap..(Len(Entries) - 1), NEW last \in CutLine(k + 1),
             shown = SubSeq(Entries, 1, k) \o last
      PROVE  HasEntry(Entries, c, a) \/ MayBeCutTo(c)
  <2>1. k \in Nat /\ k > Cap - 1 /\ k + 1 \in 1..Len(Entries) /\ k + 1 > Cap
    BY VpnAssumption
  <2>2. PICK i \in DOMAIN shown : shown[i] = [name |-> c, active |-> a]
    BY DEF HasEntry
  <2> DEFINE head == SubSeq(Entries, 1, k)
  <2>3. head \in Seq(Entry) /\ Len(head) = k
        /\ \A j \in 1..k : head[j] = Entries[j] /\ j \in DOMAIN Entries
    BY <2>1
  <2> HIDE DEF head
  <2>4. CASE last = <<>>
    <3>1. shown = head
      BY <1>2, <2>3, <2>4 DEF head
    <3>2. i \in 1..k
      BY <2>2, <2>3, <3>1
    <3> QED BY <2>2, <2>3, <3>1, <3>2 DEF HasEntry
  <2>5. ASSUME NEW d \in Beginnings[Entries[k + 1].name],
               last = <<[name |-> d, active |-> Entries[k + 1].active]>>
        PROVE  HasEntry(Entries, c, a) \/ MayBeCutTo(c)
    <3> DEFINE e == [name |-> d, active |-> Entries[k + 1].active]
    <3> HIDE DEF e
    <3>1. shown = head \o <<e>>
      BY <1>2, <2>5 DEF head, e
    <3>2. /\ DOMAIN shown = 1..(k + 1)
          /\ \A j \in 1..k : shown[j] = head[j]
          /\ shown[k + 1] = e
      BY <2>1, <2>3, <3>1
    <3>3. CASE i \in 1..k
      BY <2>2, <2>3, <3>2, <3>3 DEF HasEntry
    <3>4. CASE i = k + 1
      <4>1. e = [name |-> c, active |-> a]
        BY <2>2, <3>2, <3>4
      <4>2. c = d
        BY <4>1 DEF e
      <4> QED BY <2>1, <2>5, <4>2 DEF MayBeCutTo
    <3> QED BY <2>1, <2>2, <3>2, <3>3, <3>4
  <2> QED BY <1>2, <2>4, <2>5 DEF CutLine
<1> QED BY <1>1, <1>2 DEF Listings

LEMMA SameEntries ==
  ASSUME index' = index PROVE Entries' = Entries
BY DEF Entries

\* What the script may make of the index, and what it leaves in it.
LEMMA AddedIsValid ==
  ASSUME NEW e \in Seq(Entry), OneValidEach(e), NEW c \in Client,
         ~HasEntry(e, c, TRUE)
  PROVE  LET a == Append(e, [name |-> c, active |-> TRUE])
         IN  a \in Seq(Entry) /\ OneValidEach(a)
<1> DEFINE a == Append(e, [name |-> c, active |-> TRUE])
<1>1. a \in Seq(Entry)
  BY DEF Entry
<1>2. /\ DOMAIN a = DOMAIN e \cup {Len(e) + 1}
      /\ \A i \in DOMAIN e : a[i] = e[i] /\ i # Len(e) + 1
      /\ a[Len(e) + 1] = [name |-> c, active |-> TRUE]
  OBVIOUS
<1>3. OneValidEach(a)
  BY <1>2 DEF OneValidEach, HasEntry
<1> QED BY <1>1, <1>3

LEMMA InvalidEntry ==
  ASSUME NEW y \in Entry, NEW z, z = [y EXCEPT !.active = FALSE]
  PROVE  z = [name |-> y.name, active |-> FALSE]
BY DEF Entry

LEMMA RevokedIsValid ==
  ASSUME NEW e \in Seq(Entry), OneValidEach(e), NEW c \in Client,
         NEW k \in DOMAIN e, e[k] = [name |-> c, active |-> TRUE]
  PROVE  LET r == [e EXCEPT ![k].active = FALSE]
         IN  r \in Seq(Entry) /\ OneValidEach(r) /\ ~HasEntry(r, c, TRUE)
<1> DEFINE x == [name |-> c, active |-> FALSE]
           r == [e EXCEPT ![k] = x]
<1>1. [e EXCEPT ![k].active = FALSE] = r
  <2>1. e[k] \in Entry /\ e[k].name = c
    <3>1. k \in 1..Len(e)
      OBVIOUS
    <3>2. \A i \in 1..Len(e) : e[i] \in Entry
      OBVIOUS
    <3>3. e[k].name = c
      BY SMT
    <3> QED BY <3>1, <3>2, <3>3
  <2>2. [e[k] EXCEPT !.active = FALSE] = [name |-> e[k].name, active |-> FALSE]
    BY <2>1, InvalidEntry
  <2> QED BY <2>1, <2>2
<1>2. k \in 1..Len(e) /\ x \in Entry
  BY DEF Entry
<1>3. /\ r \in Seq(Entry) /\ DOMAIN r = DOMAIN e /\ r[k] = x
      /\ \A i \in DOMAIN e : i # k => r[i] = e[i]
  BY <1>2, ExceptSeq
<1> HIDE DEF r
<1>4. OneValidEach(r)
  BY <1>3 DEF OneValidEach
<1>5. ~HasEntry(r, c, TRUE)
  <2> SUFFICES ASSUME NEW i \in DOMAIN r, r[i] = [name |-> c, active |-> TRUE]
               PROVE  FALSE
    BY DEF HasEntry
  <2>1. i # k
    <3>1. r[i].active # x.active
      OBVIOUS
    <3> QED BY <1>3, <3>1
  <2>2. e[i] = e[k] /\ e[i].active
    BY <1>3, <2>1
  <2> QED BY <1>3, <2>1, <2>2 DEF OneValidEach
<1> QED BY <1>1, <1>3, <1>4, <1>5

(***************************************************************************)
(* The script leaves a valid index; a revocation leaves no valid           *)
(* certificate of the client, or the index as it was.                      *)
(***************************************************************************)
LEMMA ScriptedIsValid ==
  ASSUME IndexInv, NEW name \in ByScript, NEW c \in Client \cup {NoClient},
         name # "install" => c \in Client,
         index' \in Scripted(name, c) \cup {index}
  PROVE  /\ IndexInv'
         /\ name = "revoke_client" =>
              Entries' = Entries \/ ~HasEntry(Entries', c, TRUE)
<1> DEFINE Found == {i \in DOMAIN Entries :
                       Entries[i] = [name |-> c, active |-> TRUE]}
<1>1. ASSUME NEW x, index' = Index(x) PROVE Entries' = x
  BY <1>1 DEF Entries, Index
<1>2. CASE index' = index
  BY <1>2, SameEntries DEF IndexInv
<1>3. CASE name = "install" /\ index' \in Scripted(name, c)
  <2>1. Entries' = Entries
    BY <1>1, <1>3 DEF Scripted
  <2> QED BY <1>3, <2>1 DEF IndexInv
<1>4. CASE name = "add_client" /\ index' \in Scripted(name, c)
  <2>1. /\ ~HasEntry(Entries, c, TRUE)
        /\ Entries' = Append(Entries, [name |-> c, active |-> TRUE])
    BY <1>1, <1>4 DEF Scripted
  <2> QED BY <1>4, <2>1, AddedIsValid DEF IndexInv
<1>5. CASE name = "revoke_client" /\ index' \in Scripted(name, c)
  <2>1. PICK k \in Found : index' = Index([Entries EXCEPT ![k].active = FALSE])
    BY <1>5 DEF Scripted
  <2>2. Entries' = [Entries EXCEPT ![k].active = FALSE]
    BY <1>1, <2>1
  <2> QED BY <1>5, <2>2, RevokedIsValid DEF IndexInv
<1> QED BY <1>2, <1>3, <1>4, <1>5 DEF ByScript

-----------------------------------------------------------------------------
(***************************************************************************)
(* A step that leaves the index, and what the operation and the helpers    *)
(* are about: the operation stays where it is, fails, goes on before its   *)
(* helper or is to look at what its helper has done.                       *)
(***************************************************************************)
SameOp ==
  /\ op'.name = op.name /\ op'.client = op.client /\ op'.start = op.start
  /\ op'.listed = op.listed
  /\ ~op'.disturbed => ~op.disturbed
SameJobs ==
  \A n \in Job : /\ job'[n].name = job[n].name /\ job'[n].client = job[n].client
                 /\ job'[n].at # "none" => job[n].at # "none"
Onward ==
  \/ op'.at = op.at /\ op'.code = op.code
  \/ op'.at = "done" /\ op'.code = "failed"
  \/ op.at \in Early /\ op'.at \in Early /\ Named'
  \/ op.at = "root" /\ op'.at = "verify"

LEMMA SameIndexInv ==
  ASSUME VerdictInv, Shape', UNCHANGED <<index, ops>>, SameOp, SameJobs, Onward
  PROVE  VerdictInv'
<1> USE DEF VerdictInv, SameOp
<1>1. Entries' = Entries /\ IndexInv'
  BY SameEntries DEF IndexInv
<1>2. OnItsIndex'
  BY <1>1 DEF OnItsIndex, Onward, Early
<1>3. ListedWasFree'
  BY DEF ListedWasFree
<1>4. RevokedIsGone'
  <2>1. CASE op.at = "root" /\ op'.at = "verify"
    <3>1. ~op'.disturbed => Entries' = op'.start
      BY <1>1, <2>1 DEF OnItsIndex
    <3> QED BY <3>1 DEF RevokedIsGone
  <2>2. CASE ~(op.at = "root" /\ op'.at = "verify")
    BY <1>1, <2>2 DEF RevokedIsGone, Onward, Early
  <2> QED BY <2>1, <2>2
<1>5. Named'
  BY DEF Named, Onward, Early
<1>6. JobsNamed'
  BY DEF JobsNamed, SameJobs, Onward, Early
<1>7. ClientVerdictsAreTrue'
  BY <1>1 DEF ClientVerdictsAreTrue, MayBeCutTo, Onward, At, Early
<1> QED BY <1>1, <1>2, <1>3, <1>4, <1>5, <1>6, <1>7

\* Nothing is known of an operation that is not there.
LEMMA NoOpInv ==
  ASSUME VerdictInv, Shape', UNCHANGED <<index, job>>, op' = NoOp
  PROVE  VerdictInv'
<1>1. Entries' = Entries /\ IndexInv'
  BY SameEntries DEF VerdictInv, IndexInv
<1>2. JobsNamed'
  BY DEF VerdictInv, JobsNamed, NoOp
<1>3. ~op'.listed /\ op'.at = "idle" /\ op'.name = "none"
  BY DEF NoOp
<1> QED BY <1>1, <1>2, <1>3 DEF VerdictInv, OnItsIndex, ListedWasFree,
        RevokedIsGone, Named, ClientVerdictsAreTrue, At, Early

LEMMA AskVerdict ==
  ASSUME VerdictInv, Shape', NEW name \in Name, NEW c \in Client \cup {NoClient},
         Ask(name, c)
  PROVE  VerdictInv'
<1>1. /\ UNCHANGED <<index, job>> /\ op.at = "idle"
      /\ c = NoClient => name \notin {"add_client", "revoke_client"}
      /\ op' = [NoOp EXCEPT
                  !.name = name, !.client = c, !.start = Entries,
                  !.at = CASE name = "install" -> "download"
                           [] name \in {"add_client", "list_clients"} -> "list"
                           [] name = "revoke_client" -> "hash"
                           [] name \in ByUnit -> "unit"]
  BY DEF Ask, At
<1>2. Entries' = Entries /\ IndexInv'
  BY <1>1, SameEntries DEF VerdictInv, IndexInv
<1>3. /\ op'.name = name /\ op'.client = c /\ op'.start = Entries
      /\ ~op'.listed
  BY <1>1 DEF NoOp
<1>4. \/ name = "install" /\ op'.at = "download"
      \/ name \in {"add_client", "list_clients"} /\ op'.at = "list"
      \/ name = "revoke_client" /\ op'.at = "hash"
      \/ name \in ByUnit /\ op'.at = "unit"
  BY <1>1 DEF NoOp, Name, ByUnit
<1>5. OnItsIndex' /\ ListedWasFree' /\ RevokedIsGone' /\ ClientVerdictsAreTrue'
  BY <1>2, <1>3, <1>4 DEF OnItsIndex, ListedWasFree, RevokedIsGone,
     ClientVerdictsAreTrue, At, Early
<1>6. Named'
  BY <1>1, <1>3, <1>4 DEF Named, ByScript, ByUnit
<1>7. JobsNamed'
  BY <1>1, <1>4 DEF VerdictInv, JobsNamed
<1> QED BY <1>2, <1>5, <1>6, <1>7 DEF VerdictInv

\* The list add_client begins with shows no valid certificate of the client.
LEMMA ListVerdict ==
  ASSUME VerdictInv, Shape', List PROVE VerdictInv'
<1>1. op.at = "list" /\ IsOp(op) /\ UNCHANGED <<index, job, ops>>
  BY DEF List, At, files, bounds, VerdictInv, Shape
<1>2. PICK listed \in {FALSE, Listable}, shown \in Listings :
        IF op.name = "list_clients"
        THEN Answer(IF listed THEN "ok" ELSE "failed")
        ELSE IF listed /\ HasEntry(shown, op.client, TRUE)
        THEN Answer("failed")
        ELSE op' = [op EXCEPT !.at = "hash",
                              !.listed = listed /\ shown = Entries]
  BY DEF List
<1>3. SameJobs
  BY <1>1 DEF SameJobs
<1>4. Entries' = Entries /\ IndexInv'
  BY <1>1, SameEntries DEF VerdictInv, IndexInv
<1>5. CASE op.name = "list_clients"
  <2>1. /\ op'.at = "done" /\ op'.name = "list_clients"
        /\ op'.listed = op.listed /\ op'.disturbed = op.disturbed
        /\ op'.start = op.start /\ op'.client = op.client
    BY <1>1, <1>2, <1>5 DEF Answer, IsOp
  <2> QED BY <1>1, <1>3, <1>4, <2>1 DEF VerdictInv, OnItsIndex, ListedWasFree,
          RevokedIsGone, Named, JobsNamed, ClientVerdictsAreTrue, At, Early
<1>6. CASE op.name # "list_clients" /\ listed /\ HasEntry(shown, op.client, TRUE)
  <2>1. Answer("failed")
    BY <1>2, <1>6
  <2>2. SameOp /\ Onward
    BY <1>1, <2>1 DEF Answer, IsOp, SameOp, Onward
  <2> QED BY <1>1, <1>3, <2>2, SameIndexInv
<1>7. CASE /\ op.name # "list_clients"
           /\ ~(listed /\ HasEntry(shown, op.client, TRUE))
  <2>1. op' = [op EXCEPT !.at = "hash", !.listed = listed /\ shown = Entries]
    BY <1>2, <1>7
  <2>2. /\ op'.at = "hash" /\ op'.name = op.name /\ op'.client = op.client
        /\ op'.start = op.start /\ op'.disturbed = op.disturbed
        /\ op'.listed = (listed /\ shown = Entries)
    BY <1>1, <2>1 DEF IsOp
  <2>3. op.name = "add_client"
    BY <1>1, <1>7 DEF VerdictInv, Named
  <2>4. OnItsIndex'
    BY <1>1, <1>4, <2>2 DEF VerdictInv, OnItsIndex, Early
  <2>5. ListedWasFree'
    <3>1. ~op'.disturbed => Entries = op.start
      BY <1>1, <2>2 DEF VerdictInv, OnItsIndex, Early
    <3>2. op'.listed => ~HasEntry(Entries, op.client, TRUE)
      BY <1>7, <2>2
    <3> QED BY <2>2, <3>1, <3>2 DEF ListedWasFree
  <2>6. RevokedIsGone' /\ ClientVerdictsAreTrue' /\ JobsNamed' /\ Named'
    BY <1>1, <2>2, <2>3 DEF VerdictInv, RevokedIsGone, ClientVerdictsAreTrue,
       At, JobsNamed, Named, ByScript
  <2> QED BY <1>4, <2>4, <2>5, <2>6 DEF VerdictInv
<1> QED BY <1>5, <1>6, <1>7

\* What a step to another stage, or to a failure, leaves of the operation.
LEMMA GotoKeeps ==
  ASSUME IsOp(op), NEW s, Goto(s) \/ Answer(s)
  PROVE  SameOp /\ (Goto(s) => op'.at = s)
         /\ (Answer(s) => op'.at = "done" /\ op'.code = s)
BY DEF IsOp, Goto, Answer, SameOp

\* The steps of the daemon before the helper and those nobody waits for.
LEMMA QuietVerdict ==
  ASSUME VerdictInv, Shape',
         \/ Download \/ Validate \/ HashScript \/ CopyScript \/ TimesOut
         \/ FilesChange \/ ServiceChanges \/ UNCHANGED vars
  PROVE  VerdictInv'
<1>1. /\ IsOp(op) /\ UNCHANGED <<index, job, ops>> /\ SameJobs
  BY DEF Download, Validate, HashScript, CopyScript, TimesOut, FilesChange,
     ServiceChanges, vars, files, bounds, VerdictInv, Shape, SameJobs
<1>2. Named
  BY DEF VerdictInv
<1>3. CASE FilesChange \/ ServiceChanges \/ UNCHANGED vars
  <2>1. op' = op
    BY <1>3 DEF FilesChange, ServiceChanges, vars
  <2>2. SameOp /\ Onward
    BY <2>1 DEF SameOp, Onward
  <2> QED BY <1>1, <2>2, SameIndexInv
<1>4. CASE Answer("failed")
  <2>1. SameOp /\ Onward
    BY <1>1, <1>4, GotoKeeps DEF Onward
  <2> QED BY <1>1, <2>1, SameIndexInv
<1>5. CASE \/ op.at = "download" /\ Goto("validate")
           \/ op.at = "validate" /\ Goto("hash")
           \/ op.at = "hash" /\ Goto("copy")
           \/ op.at = "copy" /\ Goto("rehash")
  <2>1. SameOp /\ op.at \in Early /\ op'.at \in Early
    BY <1>1, <1>5, GotoKeeps DEF Early
  <2>2. Named'
    BY <1>1, <1>2, <1>5, <2>1, GotoKeeps DEF Named, SameOp, ByScript
  <2> QED BY <1>1, <2>1, <2>2, SameIndexInv DEF Onward
<1>6. \/ FilesChange \/ ServiceChanges \/ UNCHANGED vars
      \/ Answer("failed")
      \/ op.at = "download" /\ Goto("validate")
      \/ op.at = "validate" /\ Goto("hash")
      \/ op.at = "hash" /\ Goto("copy")
      \/ op.at = "copy" /\ Goto("rehash")
  BY DEF Download, Validate, HashScript, CopyScript, TimesOut, At
<1> QED BY <1>3, <1>4, <1>5, <1>6

LEMMA HashCopyVerdict ==
  ASSUME VerdictInv, Shape', HashCopy PROVE VerdictInv'
<1>1. /\ op.at = "rehash" /\ IsOp(op) /\ UNCHANGED <<index, ops>>
      /\ job \in [Job -> JobType]
  BY DEF HashCopy, At, bounds, VerdictInv, Shape
<1>2. CASE copy[ops] # "pinned"
  <2>1. Answer("failed") /\ job' = job
    BY <1>2 DEF HashCopy
  <2>2. SameOp /\ SameJobs /\ Onward
    BY <1>1, <2>1, GotoKeeps DEF SameJobs, Onward
  <2> QED BY <1>1, <2>2, SameIndexInv
<1>3. CASE copy[ops] = "pinned"
  <2>1. /\ Goto("root")
        /\ job' = [job EXCEPT ![ops] = [NoJob EXCEPT !.at = "dialog",
                     !.name = op.name, !.client = op.client]]
    BY <1>3 DEF HashCopy
  <2>2. SameOp /\ op'.at = "root"
    BY <1>1, <2>1, GotoKeeps
  <2>3. Entries' = Entries /\ IndexInv'
    BY <1>1, SameEntries DEF VerdictInv, IndexInv
  <2>4. OnItsIndex' /\ ListedWasFree' /\ RevokedIsGone' /\ ClientVerdictsAreTrue'
    BY <1>1, <2>2, <2>3 DEF VerdictInv, SameOp, OnItsIndex, ListedWasFree,
       RevokedIsGone, ClientVerdictsAreTrue, At, Early
  <2>5. Named'
    BY <1>1, <2>2 DEF VerdictInv, SameOp, Named
  <2>6. JobsNamed'
    <3>1. op.name \in ByScript /\ (op.name # "install" => op.client \in Client)
      BY <1>1 DEF VerdictInv, Named, ByScript
    <3>2. \A n \in Job : n # ops => job'[n] = job[n]
      BY <1>1, <2>1
    <3>3. ops \in Job =>
            job'[ops].name = op.name /\ job'[ops].client = op.client
      BY <1>1, <2>1 DEF NoJob
    <3> QED BY <1>1, <2>2, <3>1, <3>2, <3>3 DEF VerdictInv, SameOp, JobsNamed
  <2> QED BY <2>3, <2>4, <2>5, <2>6 DEF VerdictInv
<1> QED BY <1>2, <1>3

(***************************************************************************)
(* A helper ends, its own operation goes on or fails, and any other one is *)
(* disturbed.                                                              *)
(***************************************************************************)
LEMMA EndKeeps ==
  ASSUME Shape, NEW n \in Job, job[n].at # "none", End(n) PROVE SameJobs
BY DEF Shape, End, SameJobs, JobType

LEMMA ReturnKeeps ==
  ASSUME IsOp(op), NEW n \in Job, NEW done \in BOOLEAN, Return(n, done)
  PROVE  /\ SameOp /\ Onward
         /\ \/ op'.disturbed
            \/ At("root") /\ n = ops /\ op'.at = "verify"
            \/ op'.at = "done" /\ op'.code = "failed"
<1>1. CASE At("root") /\ n = ops
  BY <1>1, GotoKeeps DEF Return, Waiting, Onward, At
<1>2. CASE ~(At("root") /\ n = ops)
  <2>1. op' = [op EXCEPT !.disturbed = TRUE]
    BY <1>2 DEF Return, Waiting
  <2> QED BY <2>1 DEF IsOp, SameOp, Onward
<1> QED BY <1>1, <1>2

LEMMA JobVerdict ==
  ASSUME VerdictInv, Shape', NEW n \in Job,
         JobRefused(n) \/ StageCopy(n) \/ HashStaged(n)
  PROVE  VerdictInv'
<1>1. /\ Shape /\ IsOp(op) /\ UNCHANGED <<index, ops>>
      /\ job \in [Job -> JobType] /\ job[n].at # "none"
  BY DEF JobRefused, StageCopy, HashStaged, bounds, VerdictInv, Shape
<1>2. CASE End(n) /\ Return(n, FALSE)
  BY <1>1, <1>2, EndKeeps, ReturnKeeps, SameIndexInv
<1>3. ASSUME op' = op, SameJobs PROVE VerdictInv'
  <2>1. SameOp /\ Onward
    BY <1>3 DEF SameOp, Onward
  <2> QED BY <1>1, <1>3, <2>1, SameIndexInv
<1>4. CASE StageCopy(n)
  <2>1. op' = op
    BY <1>4 DEF StageCopy
  <2>2. PICK got \in {"pinned", "other"} :
          job' = [job EXCEPT ![n].at = "staged", ![n].staged = got,
                             ![n].intime = Waiting(n)]
    BY <1>4 DEF StageCopy
  <2>3. SameJobs
    BY <1>1, <2>2 DEF SameJobs, JobType
  <2> QED BY <1>3, <2>1, <2>3
<1>5. CASE JobRefused(n)
  BY <1>2, <1>5 DEF JobRefused
<1>6. CASE HashStaged(n)
  <2>1. CASE job[n].staged = "pinned"
    <3>1. op' = op /\ job' = [job EXCEPT ![n].at = "ready"]
      BY <1>6, <2>1 DEF HashStaged
    <3>2. SameJobs
      BY <1>1, <3>1 DEF SameJobs, JobType
    <3> QED BY <1>3, <3>1, <3>2
  <2>2. CASE job[n].staged # "pinned"
    BY <1>2, <1>6, <2>2 DEF HashStaged
  <2> QED BY <2>1, <2>2
<1> QED BY <1>4, <1>5, <1>6

\* The script changes the index under its own operation, or disturbs another.
LEMMA RunVerdict ==
  ASSUME VerdictInv, Shape', NEW n \in Job, RunScript(n) PROVE VerdictInv'
<1>1. /\ Shape /\ IsOp(op) /\ ops' = ops /\ job[n].at = "ready" /\ End(n)
      /\ index' \in Scripted(job[n].name, job[n].client) \cup {index}
  BY DEF RunScript, bounds, VerdictInv, Shape
<1>2. PICK done \in BOOLEAN : Return(n, done)
  BY DEF RunScript
<1>3. SameJobs
  BY <1>1, EndKeeps
<1>4. /\ SameOp /\ Onward
      /\ \/ op'.disturbed
         \/ op.at = "root" /\ n = ops /\ op'.at = "verify"
         \/ op'.at = "done" /\ op'.code = "failed"
  BY <1>1, <1>2, ReturnKeeps DEF At
<1>5. /\ job[n].name \in ByScript /\ job[n].client \in Client \cup {NoClient}
      /\ job[n].name # "install" => job[n].client \in Client
  BY <1>1 DEF VerdictInv, JobsNamed, Shape, JobType
<1>6. /\ IndexInv'
      /\ job[n].name = "revoke_client" =>
           Entries' = Entries \/ ~HasEntry(Entries', job[n].client, TRUE)
  BY <1>1, <1>5, ScriptedIsValid DEF VerdictInv
<1>7. OnItsIndex' /\ ClientVerdictsAreTrue'
  BY <1>4 DEF OnItsIndex, ClientVerdictsAreTrue, At, Early
<1>8. ListedWasFree'
  BY <1>4 DEF VerdictInv, SameOp, ListedWasFree
<1>9. RevokedIsGone'
  <2> SUFFICES ASSUME op'.at = "verify", op'.name = "revoke_client",
                      ~op'.disturbed
               PROVE  \/ HasEntry(op'.start, op'.client, FALSE)
                      \/ ~HasEntry(Entries', op'.client, TRUE)
                      \/ ~HasEntry(Entries', op'.client, FALSE)
    BY DEF RevokedIsGone
  <2>1. op.at = "root" /\ n = ops
    BY <1>4
  <2>2. job[n].name = "revoke_client" /\ job[n].client = op'.client
    BY <1>4, <2>1 DEF VerdictInv, JobsNamed, SameOp
  <2>3. Entries = op'.start
    BY <1>4, <2>1 DEF VerdictInv, OnItsIndex, SameOp
  <2> QED BY <1>6, <2>2, <2>3
<1>10. Named'
  BY <1>4 DEF VerdictInv, SameOp, Named, Onward, Early
<1>11. JobsNamed'
  BY <1>1, <1>3, <1>4 DEF VerdictInv, SameOp, SameJobs, JobsNamed, Onward, Early
<1> QED BY <1>6, <1>7, <1>8, <1>9, <1>10, <1>11 DEF VerdictInv

\* "verified" is said of what the list shows, and what it shows is there.
LEMMA VerifyVerdict ==
  ASSUME VerdictInv, Shape', Verify PROVE VerdictInv'
<1>1. /\ op.at = "verify" /\ IsOp(op) /\ UNCHANGED <<index, job, ops>>
  BY DEF Verify, At, files, bounds, VerdictInv, Shape
<1>2. PICK looked \in {FALSE, op.name = "install" \/ Listable},
           shown \in Listings :
        Answer(IF looked /\ Confirmed(shown) THEN "ok" ELSE "failed")
  BY DEF Verify
<1>3. SameOp /\ op'.at = "done" /\ (op'.code = "ok" => Confirmed(shown))
  BY <1>1, <1>2, GotoKeeps
<1>4. Entries' = Entries /\ IndexInv'
  BY <1>1, SameEntries DEF VerdictInv, IndexInv
<1>5. ListedWasFree'
  BY <1>3 DEF VerdictInv, SameOp, ListedWasFree
<1>6. OnItsIndex' /\ RevokedIsGone'
  BY <1>3 DEF OnItsIndex, RevokedIsGone, Early
<1>7. Named' /\ JobsNamed'
  BY <1>1, <1>3 DEF VerdictInv, SameOp, Named, JobsNamed
<1>8. ClientVerdictsAreTrue'
  <2> SUFFICES ASSUME op'.code = "ok", ~op'.disturbed
               PROVE  /\ op'.name = "add_client" =>
                           /\ \/ HasEntry(Entries', op'.client, TRUE)
                              \/ MayBeCutTo(op.client)'
                           /\ op'.listed => ~HasEntry(op'.start, op'.client, TRUE)
                      /\ op'.name = "revoke_client" =>
                           \/ HasEntry(op'.start, op'.client, FALSE)
                           \/ ~HasEntry(Entries', op'.client, TRUE)
                           \/ MayBeCutTo(op.client)'
    BY DEF ClientVerdictsAreTrue, MayBeCutTo
  <2>1. Confirmed(shown) /\ Entries \in Seq(Entry) /\ op'.client = op.client
    BY <1>3 DEF VerdictInv, IndexInv, SameOp
  <2>2. MayBeCutTo(op.client) => MayBeCutTo(op.client)'
    BY <1>4, <2>1 DEF MayBeCutTo
  <2>3. ASSUME op'.name = "add_client"
        PROVE  HasEntry(Entries', op'.client, TRUE) \/ MayBeCutTo(op.client)'
    <3>1. HasEntry(shown, op.client, TRUE)
      BY <1>3, <2>1, <2>3 DEF Confirmed, SameOp
    <3> QED BY <1>4, <2>1, <2>2, <3>1, ShownIsThere
  <2>4. ASSUME op'.name = "revoke_client"
        PROVE  \/ HasEntry(op'.start, op'.client, FALSE)
               \/ ~HasEntry(Entries', op'.client, TRUE)
               \/ MayBeCutTo(op.client)'
    <3>1. HasEntry(shown, op.client, FALSE)
      BY <1>3, <2>1, <2>4 DEF Confirmed, SameOp
    <3>2. HasEntry(Entries, op.client, FALSE) \/ MayBeCutTo(op.client)
      BY <2>1, <3>1, ShownIsThere
    <3> QED BY <1>1, <1>3, <1>4, <2>2, <2>4, <3>2
            DEF VerdictInv, RevokedIsGone, SameOp
  <2> QED BY <1>5, <2>3, <2>4 DEF ListedWasFree
<1> QED BY <1>4, <1>5, <1>6, <1>7, <1>8 DEF VerdictInv

\* The unit is not a client.
LEMMA UnitVerdict ==
  ASSUME VerdictInv, Shape', Unit PROVE VerdictInv'
<1>1. op.at = "unit" /\ IsOp(op) /\ UNCHANGED <<index, job, ops>>
  BY DEF Unit, At, files, bounds, VerdictInv, Shape
<1>2. \E code \in {"ok", "failed"} : Answer(code)
  BY DEF Unit
<1>3. SameOp /\ op'.at = "done"
  BY <1>1, <1>2, GotoKeeps
<1>4. Entries' = Entries /\ IndexInv'
  BY <1>1, SameEntries DEF VerdictInv, IndexInv
<1>5. op'.name \in ByUnit
  BY <1>1, <1>3 DEF VerdictInv, Named, SameOp
<1>6. OnItsIndex' /\ ListedWasFree' /\ RevokedIsGone'
  BY <1>3 DEF VerdictInv, SameOp, OnItsIndex, ListedWasFree, RevokedIsGone, Early
<1>7. Named' /\ JobsNamed'
  BY <1>1, <1>3 DEF VerdictInv, SameOp, Named, JobsNamed
<1>8. ClientVerdictsAreTrue'
  BY <1>5 DEF ClientVerdictsAreTrue, ByUnit
<1> QED BY <1>4, <1>6, <1>7, <1>8 DEF VerdictInv

LEMMA VerdictStep == VerdictInv /\ [Next]_vars => VerdictInv'
<1> SUFFICES ASSUME VerdictInv, [Next]_vars PROVE VerdictInv'
  OBVIOUS
<1>1. Shape'
  BY ShapeNext DEF VerdictInv
<1>2. CASE \E name \in Name, c \in Client \cup {NoClient} : Ask(name, c)
  BY <1>1, <1>2, AskVerdict
<1>3. CASE \/ Download \/ Validate \/ HashScript \/ CopyScript \/ TimesOut
           \/ FilesChange \/ ServiceChanges \/ UNCHANGED vars
  BY <1>1, <1>3, QuietVerdict
<1>4. CASE \E n \in Job : JobRefused(n) \/ StageCopy(n) \/ HashStaged(n)
  BY <1>1, <1>4, JobVerdict
<1>5. CASE \E n \in Job : RunScript(n)
  BY <1>1, <1>5, RunVerdict
<1>6. CASE Delivered \/ Kill
  <2>1. UNCHANGED <<index, job>> /\ op' = NoOp
    BY <1>6 DEF Delivered, Kill
  <2> QED BY <1>1, <2>1, NoOpInv
<1>7. CASE List
  BY <1>1, <1>7, ListVerdict
<1>8. CASE HashCopy
  BY <1>1, <1>8, HashCopyVerdict
<1>9. CASE Verify
  BY <1>1, <1>9, VerifyVerdict
<1>10. CASE Unit
  BY <1>1, <1>10, UnitVerdict
<1> QED BY <1>2, <1>3, <1>4, <1>5, <1>6, <1>7, <1>8, <1>9, <1>10 DEF Next

LEMMA VerdictInit == Init => VerdictInv
<1> SUFFICES ASSUME Init PROVE VerdictInv
  OBVIOUS
<1>1. IndexInv
  <2>1. CASE index = NoIndex
    <3>1. Entries = <<>>
      BY <2>1 DEF Entries, NoIndex
    <3> QED BY <3>1 DEF IndexInv, OneValidEach
  <2>2. CASE index # NoIndex
    <3>0. PICK n \in 0..2 : \E entries \in [1..n -> Entry] :
            /\ \A i, j \in 1..n : entries[i] = entries[j] /\ entries[i].active
                                    => i = j
            /\ index = Index(entries)
      BY <2>2 DEF Init
    <3>1. PICK entries \in [1..n -> Entry] :
            /\ \A i, j \in 1..n : entries[i] = entries[j] /\ entries[i].active
                                    => i = j
            /\ index = Index(entries)
      BY <3>0
    <3>2. Entries = entries /\ DOMAIN entries = 1..n
      BY <3>1 DEF Entries, Index
    <3>3. entries \in Seq(Entry)
      BY SeqDef
    <3> QED BY <3>1, <3>2, <3>3 DEF IndexInv, OneValidEach
  <2> QED BY <2>1, <2>2
<1>2. op = NoOp /\ \A n \in Job : job[n].at = "none"
  BY DEF Init, NoJob
<1>3. ~op.listed /\ op.at = "idle" /\ op.name = "none" /\ op.start = <<>>
  BY <1>2 DEF NoOp
<1>4. OnItsIndex /\ ListedWasFree /\ RevokedIsGone /\ Named /\ ClientVerdictsAreTrue
  BY <1>3 DEF OnItsIndex, ListedWasFree, RevokedIsGone, Named,
     ClientVerdictsAreTrue, At, Early
<1>5. JobsNamed
  BY <1>2, <1>3 DEF JobsNamed
<1> QED BY <1>1, <1>4, <1>5, ShapeInit DEF VerdictInv

(***************************************************************************)
(* "created and verified" means a valid certificate now and, if the list   *)
(* before was complete, none before; "revoked and verified" that none is   *)
(* left, if the name was not used before (angristan.py 330, 352).          *)
(***************************************************************************)
THEOREM VerdictsAreTrue == Spec => []ClientVerdictsAreTrue
<1>1. VerdictInv => ClientVerdictsAreTrue
  BY DEF VerdictInv
<1> QED BY <1>1, VerdictInit, VerdictStep, PTL DEF Spec

-----------------------------------------------------------------------------
(***************************************************************************)
(* The rest of TypeOK: an operation that is under way has a number.        *)
(***************************************************************************)
ScriptType == [content : Content, sealed : BOOLEAN]

RestInv ==
  /\ script \in ScriptType
  /\ service \in BOOLEAN
  /\ index = NoIndex \/ index \in [missing : {FALSE}, entries : Seq(Entry)]
  /\ op.start \in Seq(Entry)
  /\ executed \subseteq Content
  /\ killed \subseteq Job
  /\ ops \in 0..MaxOps /\ changes \in 0..MaxChanges
  /\ op.at # "idle" => ops # 0

TypeInv == VerdictInv /\ RestInv

LEMMA TypeIsKnown == TypeInv => TypeOK
<1> SUFFICES ASSUME TypeInv PROVE TypeOK
  OBVIOUS
<1>1. op \in OpType
  BY DEF TypeInv, VerdictInv, RestInv, Shape, IsOp, OpType
<1> QED BY <1>1 DEF TypeInv, VerdictInv, RestInv, ScriptType, Shape, TypeOK

LEMMA Scripts ==
  /\ \A c \in {"pinned", "other", "none"}, b \in BOOLEAN :
       [content |-> c, sealed |-> b] \in ScriptType
  /\ \A x \in ScriptType : [x EXCEPT !.sealed = TRUE] \in ScriptType
BY DEF ScriptType, Content

LEMMA Nobody == NoOp.start \in Seq(Entry) /\ NoOp.at = "idle"
<1>1. NoOp.start = <<>> /\ NoOp.at = "idle"
  BY DEF NoOp
<1>2. <<>> \in Seq(Entry)
  OBVIOUS
<1> QED BY <1>1, <1>2

LEMMA RestInit == Init => RestInv
<1> SUFFICES ASSUME Init PROVE RestInv
  OBVIOUS
<1>1. index = NoIndex \/ index \in [missing : {FALSE}, entries : Seq(Entry)]
  <2>1. ASSUME index # NoIndex
        PROVE  \E n \in 0..2 : \E e \in [1..n -> Entry] : index = Index(e)
    BY <2>1 DEF Init
  <2>2. ASSUME NEW n \in 0..2, NEW e \in [1..n -> Entry], index = Index(e)
        PROVE  index \in [missing : {FALSE}, entries : Seq(Entry)]
    <3>1. e \in Seq(Entry)
      BY SeqDef
    <3> QED BY <2>2, <3>1 DEF Index
  <2> QED BY <2>1, <2>2
<1>2. /\ script \in ScriptType
      /\ service \in BOOLEAN
  <2>1. \/ script = [content |-> "none", sealed |-> FALSE]
        \/ script = [content |-> "pinned", sealed |-> TRUE]
    BY Zenon DEF Init
  <2>2. service = FALSE \/ service \in BOOLEAN
    BY Zenon DEF Init
  <2>3. service \in BOOLEAN
    BY <2>2
  <2>4. /\ [content |-> "none", sealed |-> FALSE] \in ScriptType
        /\ [content |-> "pinned", sealed |-> TRUE] \in ScriptType
    BY DEF ScriptType, Content
  <2>5. script \in ScriptType
    BY <2>1, <2>4, Zenon
  <2> QED BY <2>3, <2>5
<1>3. op.start \in Seq(Entry) /\ op.at = "idle"
  BY Nobody DEF Init
<1>4. /\ executed \subseteq Content /\ killed \subseteq Job
      /\ ops = 0 /\ changes = 0
  BY DEF Init
<1>5. 0 \in 0..MaxOps /\ 0 \in 0..MaxChanges
  BY VpnAssumption
<1>6. op.at # "idle" => ops # 0
  BY <1>3
<1> QED BY <1>1, <1>2, <1>3, <1>4, <1>5, <1>6 DEF RestInv

\* A step of the operation that is under way, or of a helper.
LEMMA RestKept ==
  ASSUME RestInv, VerdictInv', UNCHANGED <<killed, ops, changes>>,
         script' \in ScriptType,
         service' \in BOOLEAN, executed' \subseteq Content,
         index' = index \/ \E e : index' = Index(e),
         op' = NoOp \/ (op'.start = op.start /\ (op'.at # "idle" => op.at # "idle"))
  PROVE  RestInv'
<1>1. index' = NoIndex \/ index' \in [missing : {FALSE}, entries : Seq(Entry)]
  <2>1. ASSUME NEW e, index' = Index(e)
        PROVE  index' \in [missing : {FALSE}, entries : Seq(Entry)]
    <3>1. Entries' = e /\ Entries' \in Seq(Entry)
      BY <2>1 DEF Entries, Index, VerdictInv, IndexInv
    <3> QED BY <2>1, <3>1 DEF Index
  <2> QED BY <2>1 DEF RestInv
<1>2. op'.start \in Seq(Entry) /\ (op'.at # "idle" => ops # 0)
  BY Nobody DEF RestInv
<1> QED BY <1>1, <1>2 DEF RestInv

LEMMA RestStep == TypeInv /\ [Next]_vars => RestInv'
<1> SUFFICES ASSUME TypeInv, [Next]_vars PROVE RestInv'
  OBVIOUS
<1>1. RestInv /\ VerdictInv' /\ Shape /\ IsOp(op)
  BY VerdictStep DEF TypeInv, VerdictInv, Shape
<1>2. /\ script \in ScriptType
      /\ service \in BOOLEAN /\ executed \subseteq Content
  BY <1>1 DEF RestInv
<1>3. ASSUME NEW s, Goto(s) \/ Answer(s)
      PROVE  op'.start = op.start /\ (op'.at # "idle" => Goto(s) \/ Answer(s))
  BY <1>1, <1>3 DEF Goto, Answer, IsOp
<1>4. CASE \E name \in Name, c \in Client \cup {NoClient} : Ask(name, c)
  <2>1. /\ UNCHANGED <<script, service, index, executed, killed, changes>>
        /\ ops < MaxOps /\ ops' = ops + 1 /\ op'.start = Entries
    BY <1>4 DEF Ask, files, NoOp
  <2>2. Entries \in Seq(Entry)
    BY DEF TypeInv, VerdictInv, IndexInv
  <2>3. ops' \in 0..MaxOps /\ ops' # 0
    BY <1>1, <2>1, VpnAssumption DEF RestInv
  <2> QED BY <1>1, <2>1, <2>2, <2>3 DEF RestInv
<1>5. CASE Download \/ Validate
  <2>1. /\ UNCHANGED <<service, index, executed, killed, ops, changes>>
        /\ op.at # "idle"
    BY <1>5 DEF Download, Validate, bounds, At
  <2>2. op'.start = op.start
    BY <1>3, <1>5 DEF Download, Validate
  <2>3. script' \in ScriptType
    BY <1>2, <1>5, Scripts DEF Download, Validate
  <2> QED BY <1>1, <1>2, <2>1, <2>2, <2>3, RestKept
<1>6. CASE List \/ HashScript \/ CopyScript \/ HashCopy \/ TimesOut \/ Verify
  <2>1. /\ UNCHANGED <<script, service, index, executed, killed, ops, changes>>
        /\ op.at # "idle"
    BY <1>6 DEF List, HashScript, CopyScript, HashCopy, TimesOut, Verify,
       files, bounds, At
  <2>2. op'.start = op.start
    <3>1. CASE List
      BY <1>1, <1>3, <3>1 DEF List, IsOp
    <3>2. CASE HashScript \/ CopyScript \/ HashCopy \/ TimesOut \/ Verify
      BY <1>3, <3>2 DEF HashScript, CopyScript, HashCopy, TimesOut, Verify
    <3> QED BY <1>6, <3>1, <3>2
  <2> QED BY <1>1, <1>2, <2>1, <2>2, RestKept
<1>7. CASE Unit
  <2>1. /\ UNCHANGED <<script, index, executed, killed, ops, changes>>
        /\ op.at # "idle" /\ service' \in BOOLEAN
    BY <1>2, <1>7 DEF Unit, files, bounds, At
  <2>2. op'.start = op.start
    BY <1>3, <1>7 DEF Unit
  <2> QED BY <1>1, <1>2, <2>1, <2>2, RestKept
<1>8. CASE Delivered
  BY <1>1, <1>2, <1>8, RestKept DEF Delivered, files, bounds
<1>9. ASSUME NEW n \in Job,
             JobRefused(n) \/ StageCopy(n) \/ HashStaged(n) \/ RunScript(n)
      PROVE  RestInv'
  <2>1. UNCHANGED <<script, killed, ops, changes>>
    BY <1>9 DEF JobRefused, StageCopy, HashStaged, RunScript, files, bounds
  <2>2. op'.start = op.start /\ (op'.at # "idle" => op.at # "idle")
    <3>1. ASSUME NEW done \in BOOLEAN, Return(n, done)
          PROVE  op'.start = op.start /\ (op'.at # "idle" => op.at # "idle")
      BY <1>1, <1>3, <3>1 DEF Return, Waiting, At, IsOp
    <3> QED BY <1>9, <3>1 DEF JobRefused, StageCopy, HashStaged, RunScript
  <2>3. CASE JobRefused(n) \/ StageCopy(n) \/ HashStaged(n)
    <3>1. UNCHANGED <<service, index, executed>>
      BY <2>3 DEF JobRefused, StageCopy, HashStaged
    <3> QED BY <1>1, <1>2, <2>1, <2>2, <3>1, RestKept
  <2>4. CASE RunScript(n)
    <3>1. executed' \subseteq Content /\ service' \in BOOLEAN
      BY <1>1, <1>2, <2>4 DEF RunScript, Runs, Shape, JobType
    <3>2. index' = index \/ \E e : index' = Index(e)
      <4>1. job[n].name \in ByScript
        BY <2>4 DEF RunScript, TypeInv, VerdictInv, JobsNamed
      <4>2. index' \in Scripted(job[n].name, job[n].client) \cup {index}
        BY <2>4 DEF RunScript
      <4> QED BY <4>1, <4>2 DEF Scripted, ByScript
    <3> QED BY <1>1, <1>2, <2>1, <2>2, <3>1, <3>2, RestKept
  <2> QED BY <1>9, <2>3, <2>4
<1>10. CASE FilesChange \/ ServiceChanges
  <2>1. /\ UNCHANGED <<index, op, executed, killed, ops>>
        /\ changes < MaxChanges /\ changes' = changes + 1
    BY <1>10 DEF FilesChange, ServiceChanges
  <2>2. /\ script' \in ScriptType
        /\ service' \in BOOLEAN
    BY <1>2, <1>10, Scripts DEF FilesChange, ServiceChanges, files
  <2>3. changes' \in 0..MaxChanges
    BY <1>1, <2>1, VpnAssumption DEF RestInv
  <2> QED BY <1>1, <2>1, <2>2, <2>3 DEF RestInv
<1>11. CASE Kill
  <2>1. /\ UNCHANGED <<script, service, index, executed, ops>>
        /\ changes < MaxChanges /\ changes' = changes + 1
        /\ op' = NoOp /\ killed' = killed \cup {ops} /\ op.at # "idle"
    BY <1>11 DEF Kill, files, At
  <2>2. changes' \in 0..MaxChanges /\ ops \in Job
    BY <1>1, <2>1, VpnAssumption DEF RestInv, Job
  <2>3. op'.start \in Seq(Entry) /\ op'.at = "idle"
    BY <2>1, Nobody
  <2> QED BY <1>1, <2>1, <2>2, <2>3 DEF RestInv
<1>12. CASE UNCHANGED vars
  BY <1>1, <1>12 DEF RestInv, vars
<1> QED BY <1>4, <1>5, <1>6, <1>7, <1>8, <1>9, <1>10, <1>11, <1>12 DEF Next

(***************************************************************************)
(* Every variable keeps its type: no operation leaves an index that is not *)
(* a list of certificates, or a script that is neither of the known ones.  *)
(***************************************************************************)
THEOREM TypeCorrect == Spec => []TypeOK
<1>1. Init => TypeInv
  BY RestInit, VerdictInit DEF TypeInv
<1>2. TypeInv /\ [Next]_vars => TypeInv'
  BY RestStep, VerdictStep DEF TypeInv
<1> QED BY <1>1, <1>2, TypeIsKnown, PTL DEF Spec
=============================================================================
