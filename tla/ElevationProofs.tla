-------------------------- MODULE ElevationProofs ---------------------------
(***************************************************************************)
(* Proofs about module Elevation, for any calls, verbs of any length, and  *)
(* any timeout, margin and time to kill a process group.                   *)
(***************************************************************************)
EXTENDS Elevation, TLAPS

(***************************************************************************)
(* The inductive invariant, call by call.  The daemon waits for a call     *)
(* until it has an answer, and a dialog is open only as long (Awaited).    *)
(* The time it has waited is the time the helper has spent in its stages   *)
(* (Elapsed); this is what the margin is compared with.  Commands are      *)
(* counted (Counted).  A helper that has ended has reported how, and the   *)
(* journal has its record of a call that ran, or one of the two defects    *)
(* the property names (Recorded, Reported).                                *)
(***************************************************************************)
Awaited(c) ==
  /\ c = current => stage[c] # "none" /\ answer[c] = "none"
  /\ c # current /\ stage[c] # "none" => answer[c] # "none"
  /\ stage[c] = "none" => answer[c] = "none"
  /\ stage[c] = "prompt" => c = current

Elapsed(c) ==
  /\ stage[c] = "none" => clock[c] = 0
  /\ stage[c] \in {"none", "prompt"} => spent[c] = 0
  /\ Live(c) => clock[c] <= StageLimit(c)
  /\ stage[c] = "prompt" => waited = clock[c]
  /\ c = current =>
       /\ stage[c] = "command" => waited = spent[c] + clock[c]
       /\ stage[c] = "stopping" => waited = spent[c] + Timeout + clock[c]

Counted(c) ==
  /\ stage[c] = "none" => cmd[c] = 0
  /\ Live(c) => cmd[c] < plan[c]
  /\ exit[c] = "ok" => cmd[c] = plan[c]

Recorded(c) ==
  /\ RootWork(c) => c \in begun
  /\ stage[c] \in {"none", "prompt"} => c \notin begun
  /\ stage[c] # "ended" \/ c \notin begun => journal[c] = <<>>
  /\ stage[c] = "ended" /\ c \in begun =>
       \/ journal[c] = <<exit[c]>>
       \/ journal[c] = <<>> /\ exit[c] = "failed"
       \/ journal[c] = <<"failed">> /\ exit[c] = "cancelled"

Reported(c) ==
  /\ exit[c] = "none" <=> stage[c] # "ended"
  /\ answer[c] \notin {"none", "timeout"} =>
       stage[c] = "ended" /\ answer[c] = exit[c]
  /\ Fits(c) /\ answer[c] # "none" => ~RootWork(c)
  /\ c \in begun /\ Fits(c) /\ answer[c] = "timeout" => exit[c] = "timeout"

CallInv(c) ==
  Awaited(c) /\ Elapsed(c) /\ Counted(c) /\ Recorded(c) /\ Reported(c)

IInv == TypeOK /\ \A c \in Call : CallInv(c)

-----------------------------------------------------------------------------
LEMMA LimitType == Limit \in Nat
BY TimeAssumption DEF Limit

LEMMA NaturalPlans == Plans \cup {0} \subseteq Nat
BY PlansAssumption

\* What TypeOK says of one call.
LEMMA CallTypes ==
  ASSUME TypeOK, NEW c \in Call
  PROVE  /\ stage[c] \in Stage /\ clock[c] \in Nat /\ spent[c] \in Nat
         /\ cmd[c] \in Nat /\ plan[c] \in Plans \cup {0} /\ plan[c] \in Nat
         /\ exit[c] \in Exit /\ journal[c] \in Seq(Exit) /\ answer[c] \in Exit
         /\ waited \in Nat
BY NaturalPlans, LimitType DEF TypeOK

LEMMA SpentType ==
  ASSUME TypeOK, NEW c \in Call PROVE Spent(c) \in Nat
BY CallTypes DEF Spent

LEMMA InvInit == Init => IInv
<1> SUFFICES ASSUME Init PROVE IInv
  OBVIOUS
<1>1. TypeOK
  BY LimitType DEF Init, TypeOK, Stage, Exit
<1>2. ASSUME NEW c \in Call PROVE CallInv(c)
  BY CallAssumption DEF Init, CallInv, Awaited, Elapsed, Counted, Recorded,
     Reported, Live, RootWork
<1> QED BY <1>1, <1>2 DEF IInv

-----------------------------------------------------------------------------
(***************************************************************************)
(* A step of one call leaves what is known of another one: the daemon      *)
(* waits as before, or did not wait for the other and does not now.        *)
(***************************************************************************)
SameAt(d) ==
  /\ stage'[d] = stage[d] /\ clock'[d] = clock[d] /\ spent'[d] = spent[d]
  /\ cmd'[d] = cmd[d] /\ plan'[d] = plan[d] /\ exit'[d] = exit[d]
  /\ d \in begun' <=> d \in begun
  /\ journal'[d] = journal[d] /\ answer'[d] = answer[d]

LEMMA OtherCall ==
  ASSUME NEW d \in Call, CallInv(d), SameAt(d),
         \/ UNCHANGED <<current, waited>>
         \/ current # d /\ current' # d
  PROVE  CallInv(d)'
<1> USE DEF CallInv, SameAt
<1>1. Awaited(d)'
  BY DEF Awaited
<1>2. Elapsed(d)'
  BY DEF Elapsed, Awaited, Live, StageLimit
<1>3. Counted(d)'
  BY DEF Counted, Live
<1>4. Recorded(d)'
  BY DEF Recorded, RootWork
<1>5. Reported(d)'
  BY DEF Reported, RootWork, Fits, Spent
<1> QED BY <1>1, <1>2, <1>3, <1>4, <1>5

LEMMA LaunchInv ==
  ASSUME IInv, NEW c \in Call, NEW n \in Plans, Launch(c, n) PROVE IInv'
<1>1. TypeOK /\ CallInv(c) /\ c # NoCall
  BY CallAssumption DEF IInv
<1>2. /\ current = NoCall /\ stage[c] = "none" /\ current' = c /\ waited' = 0
      /\ stage' = [stage EXCEPT ![c] = "prompt"]
      /\ plan' = [plan EXCEPT ![c] = n]
      /\ UNCHANGED <<clock, spent, cmd, begun, exit, journal, answer>>
  BY DEF Launch
<1>3. /\ stage'[c] = "prompt" /\ plan'[c] = n /\ n \in Nat /\ n > 0
      /\ \A d \in Call : d # c => stage'[d] = stage[d] /\ plan'[d] = plan[d]
  BY <1>1, <1>2, PlansAssumption DEF TypeOK
<1>4. /\ clock[c] = 0 /\ cmd[c] = 0 /\ answer[c] = "none" /\ exit[c] = "none"
      /\ spent[c] = 0 /\ journal[c] = <<>> /\ c \notin begun
  BY <1>1, <1>2 DEF CallInv, Awaited, Elapsed, Counted, Recorded, Reported
<1>5. TypeOK'
  <2>1. \A d \in Call : cmd'[d] <= plan'[d]
    BY <1>1, <1>2, <1>3, <1>4 DEF TypeOK
  <2> QED BY <1>1, <1>2, <2>1, LimitType DEF TypeOK, Stage
<1>6. CallInv(c)'
  <2>1. Awaited(c)'
    BY <1>2, <1>3, <1>4 DEF Awaited
  <2>2. Elapsed(c)'
    BY <1>2, <1>3, <1>4, LimitType DEF Elapsed, Live, StageLimit
  <2>3. Counted(c)'
    BY <1>2, <1>3, <1>4 DEF Counted, Live
  <2>4. Recorded(c)' /\ Reported(c)'
    BY <1>2, <1>3, <1>4 DEF Recorded, Reported, RootWork
  <2> QED BY <2>1, <2>2, <2>3, <2>4 DEF CallInv
<1>7. ASSUME NEW d \in Call, d # c PROVE CallInv(d)'
  BY <1>2, <1>3, <1>7, CallAssumption, OtherCall DEF IInv, SameAt
<1> QED BY <1>5, <1>6, <1>7 DEF IInv

-----------------------------------------------------------------------------
(***************************************************************************)
(* What a step of the helper leaves alone: the daemon, the length of the   *)
(* verb, and the other calls.                                              *)
(***************************************************************************)
HelperFrame(c) ==
  /\ UNCHANGED <<plan, answer, current, waited>>
  /\ \A d \in Call : d # c =>
       /\ stage'[d] = stage[d] /\ clock'[d] = clock[d] /\ spent'[d] = spent[d]
       /\ d \in begun' <=> d \in begun
       /\ cmd'[d] = cmd[d] /\ exit'[d] = exit[d] /\ journal'[d] = journal[d]

LEMMA HelperInv ==
  ASSUME IInv, NEW c \in Call, HelperFrame(c), TypeOK', CallInv(c)'
  PROVE  IInv'
<1>1. ASSUME NEW d \in Call, d # c PROVE CallInv(d)'
  BY <1>1, OtherCall DEF IInv, HelperFrame, SameAt
<1> QED BY <1>1 DEF IInv

LEMMA PromptInv ==
  ASSUME IInv, NEW c \in Call, Authorize(c) \/ Dismiss(c) PROVE IInv'
<1>1. TypeOK /\ CallInv(c) /\ stage[c] = "prompt"
  BY DEF IInv, Authorize, Dismiss
<1>2. /\ c = current /\ answer[c] = "none" /\ waited = clock[c]
      /\ cmd[c] < plan[c] /\ exit[c] = "none" /\ journal[c] = <<>>
      /\ spent[c] = 0 /\ c \notin begun
  BY <1>1 DEF CallInv, Awaited, Elapsed, Counted, Recorded, Reported, Live
<1>3. clock[c] \in Nat /\ spent[c] \in Nat /\ waited \in Nat
  BY <1>1, CallTypes
<1>4. CASE Authorize(c)
  <2>1. /\ stage' = [stage EXCEPT ![c] = "command"]
        /\ clock' = [clock EXCEPT ![c] = 0]
        /\ spent' = [spent EXCEPT ![c] = @ + clock[c]]
        /\ begun' = begun \cup {c}
        /\ UNCHANGED <<cmd, plan, exit, journal, answer, current, waited>>
    BY <1>4 DEF Authorize, EnterStage, AddToSpent, daemonVars
  <2>2. stage'[c] = "command" /\ clock'[c] = 0 /\ spent'[c] = clock[c]
    BY <1>1, <1>2, <1>3, <2>1 DEF TypeOK
  <2>3. HelperFrame(c)
    BY <1>1, <2>1 DEF HelperFrame, TypeOK
  <2>4. TypeOK'
    BY <1>1, <1>3, <2>1 DEF TypeOK, Stage
  <2>5. Awaited(c)'
    BY <1>2, <2>1, <2>2 DEF Awaited
  <2>6. Elapsed(c)'
    BY <1>2, <1>3, <2>1, <2>2, TimeAssumption DEF Elapsed, Live, StageLimit
  <2>7. Counted(c)' /\ Recorded(c)' /\ Reported(c)'
    BY <1>2, <2>1, <2>2 DEF Counted, Recorded, Reported, RootWork, Live
  <2> QED BY <2>3, <2>4, <2>5, <2>6, <2>7, HelperInv DEF CallInv
<1>5. CASE Dismiss(c)
  <2>1. PICK how \in {"cancelled", "failed"} :
           exit' = [exit EXCEPT ![c] = how]
    BY <1>5 DEF Dismiss
  <2>2. /\ stage' = [stage EXCEPT ![c] = "ended"]
        /\ clock' = [clock EXCEPT ![c] = 0]
        /\ UNCHANGED <<spent, cmd, plan, begun, journal, answer, current, waited>>
    BY <1>5 DEF Dismiss, EnterStage, daemonVars
  <2>3. stage'[c] = "ended" /\ clock'[c] = 0 /\ exit'[c] = how
    BY <1>1, <2>1, <2>2 DEF TypeOK
  <2>4. HelperFrame(c)
    BY <1>1, <2>1, <2>2 DEF HelperFrame, TypeOK
  <2>5. TypeOK'
    BY <1>1, <1>3, <2>1, <2>2 DEF TypeOK, Stage, Exit
  <2>6. Awaited(c)' /\ Elapsed(c)'
    BY <1>2, <2>2, <2>3 DEF Awaited, Elapsed, Live
  <2>7. Counted(c)' /\ Recorded(c)' /\ Reported(c)'
    BY <1>2, <2>2, <2>3 DEF Counted, Recorded, Reported, RootWork, Live
  <2> QED BY <2>4, <2>5, <2>6, <2>7, HelperInv DEF CallInv
<1> QED BY <1>4, <1>5

-----------------------------------------------------------------------------
(***************************************************************************)
(* The helper ends a stage it worked in as root: with a record, or without *)
(* one after an exception.  The daemon still waits, or has given up.       *)
(***************************************************************************)
RecordFits(r, o) ==
  r = <<o>> \/ (r = <<>> /\ o = "failed") \/ (r = <<"failed">> /\ o = "cancelled")

LEMMA EndInv ==
  ASSUME IInv, NEW c \in Call, NEW o \in Exit \ {"none"}, NEW r \in Seq(Exit),
         EnterStage(c, "ended"), RecordFits(r, o), RootWork(c),
         exit' = [exit EXCEPT ![c] = o], journal' = [journal EXCEPT ![c] = r],
         HelperFrame(c), begun' = begun, cmd' \in [Call -> Nat],
         spent' \in [Call -> Nat], cmd'[c] <= plan[c],
         o = "ok" => cmd'[c] = plan[c], Spent(c)' = Spent(c)
  PROVE  IInv'
<1>1. TypeOK /\ CallInv(c) /\ stage[c] # "none" /\ c \in begun
  BY DEF IInv, RootWork, CallInv, Recorded
<1>2. /\ stage' = [stage EXCEPT ![c] = "ended"]
      /\ clock' = [clock EXCEPT ![c] = 0]
      /\ UNCHANGED <<plan, answer, current, waited>>
  BY DEF EnterStage, HelperFrame
<1>3. /\ c # current => answer[c] # "none"
      /\ c = current => answer[c] = "none"
      /\ answer[c] \in {"none", "timeout"}
      /\ ~(Fits(c) /\ answer[c] # "none")
  BY <1>1 DEF CallInv, Reported, Awaited, RootWork
<1>4. /\ stage'[c] = "ended" /\ clock'[c] = 0 /\ exit'[c] = o
      /\ journal'[c] = r
  BY <1>1, <1>2 DEF TypeOK
<1>5. TypeOK'
  <2>1. \A d \in Call : cmd'[d] <= plan'[d]
    BY <1>1, <1>2 DEF HelperFrame, TypeOK
  <2> QED BY <1>1, <1>2, <2>1 DEF TypeOK, Stage
<1>6. Awaited(c)' /\ Elapsed(c)'
  BY <1>1, <1>2, <1>3, <1>4 DEF Awaited, Elapsed, Live
<1>7. Counted(c)' /\ Recorded(c)'
  BY <1>1, <1>2, <1>4 DEF Counted, Recorded, RecordFits, RootWork, Live
<1>8. Reported(c)'
  <2>1. Fits(c)' <=> Fits(c)
    BY DEF Fits
  <2> QED BY <1>2, <1>3, <1>4, <2>1 DEF Reported, RootWork
<1> QED BY <1>5, <1>6, <1>7, <1>8, HelperInv DEF CallInv

\* The same, of a helper that wrote its record.
LEMMA ReportInv ==
  ASSUME IInv, NEW c \in Call, NEW e \in Exit, NEW o \in Exit \ {"none"},
         Report(c, e, o), e = o \/ (e = "failed" /\ o = "cancelled"),
         HelperFrame(c), begun' = begun, cmd' \in [Call -> Nat],
         spent' \in [Call -> Nat], cmd'[c] <= plan[c],
         RootWork(c), o = "ok" => cmd'[c] = plan[c], Spent(c)' = Spent(c)
  PROVE  IInv'
<1>1. TypeOK /\ journal[c] = <<>>
  BY DEF IInv, CallInv, Recorded, RootWork
<1>2. /\ EnterStage(c, "ended") /\ exit' = [exit EXCEPT ![c] = o]
      /\ journal' = [journal EXCEPT ![c] = Append(@, e)]
  BY DEF Report
<1>3. journal' = [journal EXCEPT ![c] = <<e>>]
  BY <1>1, <1>2 DEF TypeOK
<1>4. <<e>> \in Seq(Exit) /\ RecordFits(<<e>>, o)
  BY DEF RecordFits
<1> QED BY <1>2, <1>3, <1>4, EndInv

LEMMA CommandSucceedsInv ==
  ASSUME IInv, NEW c \in Call, CommandSucceeds(c) PROVE IInv'
<1>1. TypeOK /\ CallInv(c) /\ stage[c] = "command" /\ RootWork(c)
  BY DEF IInv, CommandSucceeds, RootWork
<1>2. /\ cmd[c] \in Nat /\ plan[c] \in Nat /\ clock[c] \in Nat
      /\ spent[c] \in Nat /\ waited \in Nat
  BY <1>1, CallTypes
<1>3. cmd[c] < plan[c]
  BY <1>1 DEF CallInv, Counted, Live
<1>4. /\ cmd' = [cmd EXCEPT ![c] = @ + 1]
      /\ UNCHANGED <<plan, begun, answer, current, waited>>
  BY DEF CommandSucceeds, daemonVars
<1>5. cmd'[c] = cmd[c] + 1 /\ cmd' \in [Call -> Nat]
  BY <1>1, <1>4 DEF TypeOK
<1>6. CASE cmd[c] + 1 < plan[c]
  <2>1. /\ stage' = [stage EXCEPT ![c] = "command"]
        /\ clock' = [clock EXCEPT ![c] = 0]
        /\ spent' = [spent EXCEPT ![c] = @ + clock[c]]
        /\ UNCHANGED <<exit, journal>>
    BY <1>6 DEF CommandSucceeds, EnterStage, AddToSpent
  <2>2. /\ stage'[c] = "command" /\ clock'[c] = 0
        /\ spent'[c] = spent[c] + clock[c]
    BY <1>1, <2>1 DEF TypeOK
  <2>3. HelperFrame(c)
    BY <1>1, <1>4, <2>1 DEF HelperFrame, TypeOK
  <2>4. TypeOK'
    <3>1. \A d \in Call : cmd'[d] <= plan'[d]
      BY <1>1, <1>2, <1>4, <1>5, <1>6, <2>3 DEF HelperFrame, TypeOK
    <3> QED BY <1>1, <1>2, <1>4, <1>5, <2>1, <3>1 DEF TypeOK, Stage
  <2>5. Fits(c)' => Fits(c)
    BY <1>1, <1>2, <2>2, TimeAssumption DEF Fits, Spent
  <2>6. Awaited(c)'
    BY <1>1, <1>4, <2>1, <2>2 DEF CallInv, Awaited
  <2>7. Elapsed(c)'
    <3>1. c = current => waited = spent[c] + clock[c]
      BY <1>1 DEF CallInv, Elapsed
    <3> QED BY <1>2, <1>4, <2>2, <3>1, TimeAssumption
            DEF Elapsed, Live, StageLimit
  <2>8. exit[c] = "none" /\ c \in begun /\ journal[c] = <<>>
    BY <1>1 DEF CallInv, Reported, Recorded
  <2>9. Counted(c)' /\ Recorded(c)'
    BY <1>4, <1>5, <1>6, <2>1, <2>2, <2>8
       DEF Counted, Recorded, RootWork, Live
  <2>10. Reported(c)'
    BY <1>1, <1>4, <2>1, <2>2, <2>5, <2>8 DEF CallInv, Reported, RootWork
  <2> QED BY <2>3, <2>4, <2>6, <2>7, <2>9, <2>10, HelperInv DEF CallInv
<1>7. CASE ~(cmd[c] + 1 < plan[c])
  <2>1. Report(c, "ok", "ok") /\ spent' = spent
    BY <1>7 DEF CommandSucceeds
  <2>2. cmd'[c] = plan[c] /\ cmd'[c] <= plan[c]
    BY <1>2, <1>3, <1>5, <1>7
  <2>3. HelperFrame(c)
    BY <1>1, <1>4, <2>1 DEF HelperFrame, TypeOK, Report, EnterStage
  <2>4. Spent(c)' = Spent(c) /\ spent' \in [Call -> Nat]
    BY <1>1, <2>1 DEF Spent, Report, EnterStage, TypeOK
  <2> QED BY <1>1, <1>4, <1>5, <2>1, <2>2, <2>3, <2>4, ReportInv DEF Exit
<1> QED BY <1>6, <1>7

LEMMA CommandFailsInv ==
  ASSUME IInv, NEW c \in Call, CommandFails(c) PROVE IInv'
<1>1. TypeOK /\ stage[c] = "command" /\ RootWork(c)
  BY DEF IInv, CommandFails, RootWork
<1>2. UNCHANGED <<spent, cmd, plan, begun, answer, current, waited>>
  BY DEF CommandFails, daemonVars
<1>3. PICK e \in {"failed", "cancelled"}, o \in {"failed", "cancelled"} :
         Report(c, e, o) /\ (e = o \/ (e = "failed" /\ o = "cancelled"))
  BY DEF CommandFails
<1>4. HelperFrame(c)
  BY <1>1, <1>2, <1>3 DEF HelperFrame, TypeOK, Report, EnterStage
<1>5. /\ cmd' \in [Call -> Nat] /\ cmd'[c] <= plan[c]
      /\ spent' \in [Call -> Nat]
  BY <1>1, <1>2 DEF TypeOK
<1>6. Spent(c)' = Spent(c)
  BY <1>1, <1>2, <1>3 DEF Spent, Report, EnterStage, TypeOK
<1> QED BY <1>1, <1>2, <1>3, <1>4, <1>5, <1>6, ReportInv DEF Exit

LEMMA HelperRaisesInv ==
  ASSUME IInv, NEW c \in Call, HelperRaises(c) PROVE IInv'
<1>1. TypeOK /\ CallInv(c) /\ stage[c] = "command" /\ RootWork(c)
  BY DEF IInv, HelperRaises, RootWork
<1>2. /\ EnterStage(c, "ended") /\ exit' = [exit EXCEPT ![c] = "failed"]
      /\ cmd' \in {cmd, [cmd EXCEPT ![c] = @ + 1]}
      /\ UNCHANGED <<spent, plan, begun, journal, answer, current, waited>>
  BY DEF HelperRaises, daemonVars
<1>3. journal' = [journal EXCEPT ![c] = <<>>] /\ RecordFits(<<>>, "failed")
  BY <1>1, <1>2 DEF CallInv, Recorded, TypeOK, RecordFits
<1>4. cmd' \in [Call -> Nat] /\ cmd'[c] <= plan[c]
  <2>1. cmd[c] \in Nat /\ plan[c] \in Nat /\ cmd[c] < plan[c]
    BY <1>1, CallTypes DEF CallInv, Counted, Live
  <2>2. CASE cmd' = cmd
    BY <1>1, <2>1, <2>2 DEF TypeOK
  <2>3. CASE cmd' = [cmd EXCEPT ![c] = @ + 1]
    <3>1. cmd'[c] = cmd[c] + 1 /\ cmd' \in [Call -> Nat]
      BY <1>1, <2>1, <2>3 DEF TypeOK
    <3> QED BY <2>1, <3>1
  <2> QED BY <1>2, <2>2, <2>3
<1>5. HelperFrame(c)
  BY <1>1, <1>2 DEF HelperFrame, TypeOK, EnterStage
<1>6. Spent(c)' = Spent(c) /\ spent' \in [Call -> Nat]
  BY <1>1, <1>2 DEF Spent, EnterStage, TypeOK
<1>7. <<>> \in Seq(Exit) /\ "failed" \in Exit \ {"none"}
  BY DEF Exit
<1> QED BY <1>1, <1>2, <1>3, <1>4, <1>5, <1>6, <1>7, EndInv

LEMMA StoppedInv ==
  ASSUME IInv, NEW c \in Call, Stopped(c) PROVE IInv'
<1>1. TypeOK /\ stage[c] = "stopping" /\ RootWork(c)
  BY DEF IInv, Stopped, RootWork
<1>2. /\ Report(c, "timeout", "timeout")
      /\ spent' = [spent EXCEPT ![c] = @ + clock[c]]
      /\ UNCHANGED <<cmd, plan, begun, answer, current, waited>>
  BY DEF Stopped, AddToSpent, daemonVars
<1>3. HelperFrame(c)
  BY <1>1, <1>2 DEF HelperFrame, TypeOK, Report, EnterStage
<1>4. clock[c] \in Nat /\ spent[c] \in Nat
  BY <1>1, CallTypes
<1>5. /\ cmd' \in [Call -> Nat] /\ cmd'[c] <= plan[c]
      /\ spent' \in [Call -> Nat] /\ spent'[c] = spent[c] + clock[c]
      /\ stage'[c] = "ended"
  BY <1>1, <1>2, <1>4 DEF TypeOK, Report, EnterStage
<1>6. Spent(c)' = Spent(c)
  BY <1>1, <1>4, <1>5 DEF Spent
<1> QED BY <1>1, <1>2, <1>3, <1>5, <1>6, ReportInv DEF Exit

LEMMA CommandTimesOutInv ==
  ASSUME IInv, NEW c \in Call, CommandTimesOut(c) PROVE IInv'
<1>1. TypeOK /\ CallInv(c) /\ stage[c] = "command" /\ clock[c] = Timeout
  BY DEF IInv, CommandTimesOut
<1>2. /\ stage' = [stage EXCEPT ![c] = "stopping"]
      /\ clock' = [clock EXCEPT ![c] = 0]
      /\ UNCHANGED <<spent, cmd, plan, begun, exit, journal, answer, current, waited>>
  BY DEF CommandTimesOut, EnterStage, daemonVars
<1>3. stage'[c] = "stopping" /\ clock'[c] = 0
  BY <1>1, <1>2 DEF TypeOK
<1>4. HelperFrame(c)
  BY <1>1, <1>2 DEF HelperFrame, TypeOK
<1>5. TypeOK'
  BY <1>1, <1>2 DEF TypeOK, Stage
<1>6. Awaited(c)'
  BY <1>1, <1>2, <1>3 DEF CallInv, Awaited
<1>7. Elapsed(c)'
  <2>1. c = current => waited = spent[c] + Timeout
    BY <1>1 DEF CallInv, Elapsed
  <2>2. spent[c] \in Nat
    BY <1>1, CallTypes
  <2> QED BY <1>2, <1>3, <2>1, <2>2, TimeAssumption DEF Elapsed, Live, StageLimit
<1>8. Counted(c)' /\ Recorded(c)'
  BY <1>1, <1>2, <1>3 DEF CallInv, Counted, Recorded, RootWork, Live
<1>9. Reported(c)'
  <2>1. Spent(c)' = Spent(c)
    BY <1>1, <1>2, <1>3, CallTypes DEF Spent
  <2> QED BY <1>1, <1>2, <1>3, <2>1 DEF CallInv, Reported, RootWork, Fits
<1> QED BY <1>4, <1>5, <1>6, <1>7, <1>8, <1>9, HelperInv DEF CallInv

-----------------------------------------------------------------------------
(***************************************************************************)
(* The daemon gives up on a call within its margin only while the dialog   *)
(* is open: a command takes at most Timeout, and the rest less than Margin.*)
(***************************************************************************)
LEMMA LimitOutlastsWork ==
  ASSUME IInv, NEW c \in Call, DaemonTimesOut(c), Fits(c)
  PROVE  ~RootWork(c)
<1>1. /\ TypeOK /\ CallInv(c) /\ c = current /\ waited = Limit
      /\ Spent(c) < Margin
  BY DEF IInv, DaemonTimesOut, Fits
<1>2. clock[c] \in Nat /\ spent[c] \in Nat /\ waited = Timeout + Margin
  BY <1>1, CallTypes DEF Limit
<1>3. CASE stage[c] = "command"
  <2>1. waited = spent[c] + clock[c] /\ clock[c] <= Timeout
    BY <1>1, <1>3 DEF CallInv, Elapsed, Live, StageLimit
  <2> QED BY <1>1, <1>2, <1>3, <2>1, TimeAssumption DEF Spent
<1>4. CASE stage[c] = "stopping"
  <2>1. waited = spent[c] + Timeout + clock[c]
    BY <1>1, <1>4 DEF CallInv, Elapsed
  <2> QED BY <1>1, <1>2, <1>4, <2>1, TimeAssumption DEF Spent
<1> QED BY <1>3, <1>4 DEF RootWork

LEMMA DaemonInv ==
  ASSUME IInv, NEW c \in Call, Daemon(c) PROVE IInv'
<1>1. TypeOK /\ CallInv(c) /\ c = current /\ c # NoCall
  BY CallAssumption DEF IInv, Daemon, Collect, DaemonTimesOut
<1>2. stage[c] # "none" /\ answer[c] = "none"
  BY <1>1 DEF CallInv, Awaited
<1>3. CASE Collect(c)
  <2>1. /\ stage[c] = "ended" /\ answer' = [answer EXCEPT ![c] = exit[c]]
        /\ current' = NoCall /\ waited' = 0
        /\ UNCHANGED <<stage, clock, spent, cmd, plan, begun, exit, journal>>
    BY <1>3 DEF Collect, Return, helperVars
  <2>2. answer'[c] = exit[c] /\ exit[c] \in Exit /\ exit[c] # "none"
    BY <1>1, <2>1 DEF TypeOK, CallInv, Reported
  <2>3. TypeOK'
    BY <1>1, <2>1, <2>2, LimitType DEF TypeOK
  <2>4. Awaited(c)' /\ Elapsed(c)' /\ Counted(c)' /\ Recorded(c)'
    BY <1>1, <1>2, <2>1, <2>2, CallAssumption
       DEF CallInv, Awaited, Elapsed, Counted, Recorded, RootWork, Live
  <2>5. Reported(c)'
    BY <1>1, <2>1, <2>2 DEF CallInv, Reported, RootWork
  <2>6. ASSUME NEW d \in Call, d # c PROVE CallInv(d)'
    <3>1. SameAt(d)
      BY <1>1, <2>1, <2>6 DEF SameAt, TypeOK
    <3> QED BY <1>1, <2>1, <2>6, <3>1, CallAssumption, OtherCall DEF IInv
  <2> QED BY <2>3, <2>4, <2>5, <2>6 DEF IInv, CallInv
<1>4. CASE DaemonTimesOut(c)
  <2>1. /\ stage[c] # "ended" /\ answer' = [answer EXCEPT ![c] = "timeout"]
        /\ current' = NoCall /\ waited' = 0
        /\ UNCHANGED <<spent, cmd, plan, begun, journal>>
    BY <1>4 DEF DaemonTimesOut, Return
  <2>2. answer'[c] = "timeout" /\ exit[c] = "none" /\ journal[c] = <<>>
    BY <1>1, <2>1 DEF TypeOK, CallInv, Reported, Recorded
  <2>3. CASE stage[c] = "prompt"
    <3>1. /\ stage' = [stage EXCEPT ![c] = "ended"]
          /\ clock' = [clock EXCEPT ![c] = 0]
          /\ exit' = [exit EXCEPT ![c] = "killed"]
      BY <1>4, <2>3 DEF DaemonTimesOut, EnterStage
    <3>2. stage'[c] = "ended" /\ clock'[c] = 0 /\ exit'[c] = "killed"
      BY <1>1, <3>1 DEF TypeOK
    <3>3. TypeOK'
      BY <1>1, <2>1, <3>1, LimitType DEF TypeOK, Stage, Exit
    <3>4. c \notin begun
      BY <1>1, <2>3 DEF CallInv, Recorded
    <3>5. Awaited(c)' /\ Elapsed(c)' /\ Counted(c)'
      BY <1>1, <2>1, <2>2, <3>2, CallAssumption
         DEF Awaited, Elapsed, Counted, Live
    <3>6. Recorded(c)' /\ Reported(c)'
      BY <2>1, <2>2, <3>2, <3>4 DEF Recorded, Reported, RootWork
    <3>7. ASSUME NEW d \in Call, d # c PROVE CallInv(d)'
      <4>1. SameAt(d)
        BY <1>1, <2>1, <3>1, <3>7 DEF SameAt, TypeOK
      <4> QED BY <1>1, <2>1, <3>7, <4>1, CallAssumption, OtherCall DEF IInv
    <3> QED BY <3>3, <3>5, <3>6, <3>7 DEF IInv, CallInv
  <2>4. CASE stage[c] # "prompt"
    <3>1. UNCHANGED <<stage, clock, exit>>
      BY <1>4, <2>4 DEF DaemonTimesOut
    <3>2. RootWork(c)
      BY <1>1, <1>2, <2>1, <2>4 DEF TypeOK, Stage, RootWork
    <3>3. ~Fits(c)
      BY <1>4, <3>2, LimitOutlastsWork
    <3>4. TypeOK'
      BY <1>1, <2>1, <3>1, LimitType DEF TypeOK, Exit
    <3>5. Awaited(c)' /\ Elapsed(c)' /\ Counted(c)' /\ Recorded(c)'
      BY <1>1, <1>2, <2>1, <2>2, <2>4, <3>1, CallAssumption
         DEF CallInv, Awaited, Elapsed, Counted, Recorded, RootWork, Live,
             StageLimit
    <3>6. Reported(c)'
      <4>1. ~Fits(c)'
        BY <2>1, <3>1, <3>3 DEF Fits, Spent
      <4> QED BY <1>1, <2>1, <2>2, <3>1, <4>1 DEF CallInv, Reported
    <3>7. ASSUME NEW d \in Call, d # c PROVE CallInv(d)'
      <4>1. SameAt(d)
        BY <1>1, <2>1, <3>1, <3>7 DEF SameAt, TypeOK
      <4> QED BY <1>1, <2>1, <3>7, <4>1, CallAssumption, OtherCall DEF IInv
    <3> QED BY <3>4, <3>5, <3>6, <3>7 DEF IInv, CallInv
  <2> QED BY <2>3, <2>4
<1> QED BY <1>3, <1>4 DEF Daemon

-----------------------------------------------------------------------------
(***************************************************************************)
(* A second is counted by the helper and by the daemon that waits for it.  *)
(***************************************************************************)
LEMMA TickInv == IInv /\ Tick => IInv'
<1> SUFFICES ASSUME IInv, Tick PROVE IInv'
  OBVIOUS
<1>1. /\ TypeOK
      /\ \A c \in Call : Live(c) => clock[c] < StageLimit(c)
      /\ current # NoCall => waited < Limit /\ Live(current)
      /\ clock' = [c \in Call |-> IF Live(c) THEN clock[c] + 1 ELSE clock[c]]
      /\ waited' = IF current = NoCall THEN 0 ELSE waited + 1
      /\ UNCHANGED <<stage, spent, cmd, plan, begun, exit, journal, answer, current>>
  BY DEF IInv, Tick
<1>2. TypeOK'
  <2>1. clock' \in [Call -> Nat]
    BY <1>1 DEF TypeOK
  <2>2. waited' \in 0..Limit
    BY <1>1, LimitType DEF TypeOK
  <2> QED BY <1>1, <2>1, <2>2 DEF TypeOK
<1>3. ASSUME NEW c \in Call PROVE CallInv(c)'
  <2>1. /\ CallInv(c) /\ c # NoCall /\ clock[c] \in Nat /\ spent[c] \in Nat
        /\ waited \in Nat /\ StageLimit(c) \in Nat
    BY <1>1, CallTypes, CallAssumption, LimitType, TimeAssumption
       DEF IInv, StageLimit
  <2>2. /\ clock'[c] = IF Live(c) THEN clock[c] + 1 ELSE clock[c]
        /\ c = current => waited' = waited + 1
    BY <1>1, <2>1
  <2>3. Awaited(c)' /\ Counted(c)' /\ Recorded(c)' /\ Reported(c)'
    <3>1. Fits(c)' => Fits(c)
      BY <1>1, <2>1, <2>2, TimeAssumption DEF Fits, Spent, Live
    <3> QED BY <1>1, <2>1, <3>1 DEF CallInv, Awaited, Counted, Recorded,
               Reported, Live, RootWork
  <2>4. Elapsed(c)'
    <3>1. Live(c)' <=> Live(c)
      BY <1>1 DEF Live
    <3>2. StageLimit(c)' = StageLimit(c)
      BY <1>1 DEF StageLimit
    <3>3. /\ stage'[c] = "none" => clock'[c] = 0
          /\ stage'[c] \in {"none", "prompt"} => spent'[c] = 0
      BY <1>1, <2>1, <2>2 DEF Live, CallInv, Elapsed
    <3>4. Live(c)' => clock'[c] <= StageLimit(c)'
      BY <1>1, <2>1, <2>2, <3>1, <3>2
    <3>5. stage'[c] = "prompt" => waited' = clock'[c]
      BY <1>1, <2>1, <2>2 DEF Live, CallInv, Elapsed, Awaited
    <3>6. ASSUME c = current'
          PROVE  /\ stage'[c] = "command" => waited' = spent'[c] + clock'[c]
                 /\ stage'[c] = "stopping" =>
                      waited' = spent'[c] + Timeout + clock'[c]
      <4>1. /\ stage[c] = "command" => waited = spent[c] + clock[c]
            /\ stage[c] = "stopping" => waited = spent[c] + Timeout + clock[c]
        BY <1>1, <2>1, <3>6 DEF CallInv, Elapsed
      <4>2. /\ waited' = waited + 1 /\ stage' = stage /\ spent' = spent
            /\ Live(c) => clock'[c] = clock[c] + 1
        BY <1>1, <2>2, <3>6
      <4>3. stage[c] \in {"command", "stopping"} => clock'[c] = clock[c] + 1
        BY <4>2 DEF Live
      <4>4. stage'[c] = stage[c] /\ spent'[c] = spent[c]
        BY <4>2
      <4>5. CASE stage[c] = "command"
        BY <2>1, <4>1, <4>2, <4>3, <4>4, <4>5
      <4>6. CASE stage[c] = "stopping"
        BY <2>1, <4>1, <4>2, <4>3, <4>4, <4>6, TimeAssumption
      <4> QED BY <4>4, <4>5, <4>6
    <3> QED BY <3>3, <3>4, <3>5, <3>6 DEF Elapsed
  <2> QED BY <2>3, <2>4 DEF CallInv
<1> QED BY <1>2, <1>3 DEF IInv

LEMMA InvNext == IInv /\ [Next]_vars => IInv'
<1> SUFFICES ASSUME IInv, [Next]_vars PROVE IInv'
  OBVIOUS
<1>1. ASSUME NEW c \in Call, NEW n \in Plans, Launch(c, n) PROVE IInv'
  BY <1>1, LaunchInv
<1>2. ASSUME NEW c \in Call, Helper(c) PROVE IInv'
  BY <1>2, PromptInv, CommandSucceedsInv, CommandFailsInv, HelperRaisesInv,
     CommandTimesOutInv, StoppedInv DEF Helper
<1>3. ASSUME NEW c \in Call, Daemon(c) PROVE IInv'
  BY <1>3, DaemonInv
<1>4. ASSUME Tick PROVE IInv'
  BY <1>4, TickInv
<1>5. CASE UNCHANGED vars
  <2>1. /\ UNCHANGED <<stage, clock, spent, cmd, plan, begun, exit, journal>>
        /\ UNCHANGED <<answer, current, waited>>
    BY <1>5 DEF vars, helperVars, daemonVars
  <2>2. TypeOK'
    BY <2>1 DEF IInv, TypeOK
  <2>3. ASSUME NEW c \in Call PROVE CallInv(c)'
    BY <2>1, OtherCall DEF IInv, SameAt
  <2> QED BY <2>2, <2>3 DEF IInv
<1> QED BY <1>1, <1>2, <1>3, <1>4, <1>5 DEF Next

-----------------------------------------------------------------------------
LEMMA Invariant == Spec => []IInv
BY InvInit, InvNext, PTL DEF Spec

(***************************************************************************)
(* The variables of the daemon and of the helpers have their types, and no *)
(* helper completes more commands than its verb has.                       *)
(***************************************************************************)
THEOREM TypeCorrect == Spec => []TypeOK
<1>1. IInv => TypeOK
  BY DEF IInv
<1> QED BY <1>1, Invariant, PTL

(***************************************************************************)
(* A call that has spent less than the margin on its dialog, its earlier   *)
(* commands and the killing of the last one is over before its caller goes *)
(* on, for verbs of any length and any limits.                             *)
(***************************************************************************)
THEOREM FittingVerbsAreOver == Spec => []FittingVerbsEndFirst
<1>1. IInv => FittingVerbsEndFirst
  BY DEF IInv, CallInv, Reported, FittingVerbsEndFirst
<1> QED BY <1>1, Invariant, PTL

(***************************************************************************)
(* Two verbs work as root at the same time only if one of them outran the  *)
(* margin: the other is over when the slot of the dispatcher is free.      *)
(***************************************************************************)
THEOREM OneAtATime == Spec => []NoOverlap
<1>1. IInv => NoOverlap
  <2> SUFFICES ASSUME IInv, NEW c \in Call, NEW d \in Call,
                      RootWork(c), RootWork(d), c # d
               PROVE  ~Fits(c) \/ ~Fits(d)
    BY DEF NoOverlap
  <2>1. /\ c # current => answer[c] # "none"
        /\ d # current => answer[d] # "none"
    BY DEF IInv, CallInv, Awaited, RootWork
  <2> QED BY <2>1 DEF IInv, CallInv, Reported
<1> QED BY <1>1, Invariant, PTL

(***************************************************************************)
(* "ok" is the answer only of a verb whose commands all completed.         *)
(***************************************************************************)
THEOREM OkIsComplete == Spec => []OkMeansAllCommands
<1>1. IInv => OkMeansAllCommands
  BY DEF IInv, CallInv, Reported, Counted, OkMeansAllCommands
<1> QED BY <1>1, Invariant, PTL

LEMMA ShortRecords ==
  Len(<<>>) <= 1 /\ \A e \in Exit : Len(<<e>>) <= 1
OBVIOUS

(***************************************************************************)
(* A helper that never was root left no record in the journal, one that    *)
(* was left at most one; within the margin it is what the caller was told, *)
(* or there is none because an exception ended the helper, or it is of a   *)
(* failure whose words made the answer "cancelled".                        *)
(***************************************************************************)
THEOREM AnswersAreJournalled == Spec => []AnswerMatchesJournal
<1>1. IInv => AnswerMatchesJournal
  <2> SUFFICES ASSUME IInv, NEW c \in Call
               PROVE  /\ Len(journal[c]) <= 1
                      /\ c \notin begun => journal[c] = <<>>
                      /\ c \in begun /\ Fits(c) /\ answer[c] # "none" =>
                           \/ journal[c] = <<answer[c]>>
                           \/ Unrecorded(c) \/ Misread(c)
    BY DEF AnswerMatchesJournal
  <2>1. TypeOK /\ CallInv(c)
    BY DEF IInv
  <2>2. Len(journal[c]) <= 1 /\ (c \notin begun => journal[c] = <<>>)
    <3>1. /\ journal[c] = <<>> \/ \E e \in Exit : journal[c] = <<e>>
          /\ c \notin begun => journal[c] = <<>>
      BY <2>1, CallTypes DEF CallInv, Recorded, Exit
    <3>2. CASE journal[c] = <<>>
      BY <3>2, ShortRecords, Zenon
    <3>3. ASSUME NEW e \in Exit, journal[c] = <<e>>
          PROVE  Len(journal[c]) <= 1
      BY <3>3, ShortRecords, Zenon
    <3> QED BY <3>1, <3>2, <3>3
  <2>3. ASSUME c \in begun, Fits(c), answer[c] # "none"
        PROVE  \/ journal[c] = <<answer[c]>>
               \/ Unrecorded(c) \/ Misread(c)
    <3>1. stage[c] = "ended"
      BY <2>1, <2>3, CallTypes
         DEF CallInv, Awaited, Reported, RootWork, Stage
    <3>2. answer[c] = exit[c]
      BY <2>1, <2>3 DEF CallInv, Reported
    <3> QED BY <2>1, <2>3, <3>1, <3>2
            DEF CallInv, Recorded, Unrecorded, Misread
  <2> QED BY <2>2, <2>3
<1> QED BY <1>1, Invariant, PTL
=============================================================================
