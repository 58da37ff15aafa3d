--------------------------- MODULE DispatchProofs ---------------------------
(***************************************************************************)
(* Proofs about the dispatcher, for any sets of requests, actions and      *)
(* inputs, any number of slots and workers, and any number of kills.       *)
(*                                                                         *)
(* TypeOK alone says nothing about the order in which a thread goes        *)
(* through the code.  IInv (DispatchInvariant) adds what the points of the *)
(* code know: who holds a slot there, who is recorded, who is answered.    *)
(* Each part of IInv is shown to survive the step of one thread, from two  *)
(* facts: what a step leaves alone (StepFrame) and what it may append to   *)
(* the log (StepLog).                                                      *)
(***************************************************************************)
EXTENDS DispatchInvariant, FiniteSetTheorems, TLAPS

(***************************************************************************)
(* The two entries the dispatcher writes are entries.                      *)
(***************************************************************************)
LEMMA EntryTypes ==
  ASSUME torn \in BOOLEAN, NEW r \in Request, NEW o \in Outcome, NEW n \in Nat
  PROVE  /\ IntentOf(r) \in Entry
         /\ CompletionOf(r, o, n) \in Entry
BY DEF IntentOf, CompletionOf, Entry, Outcome

(***************************************************************************)
(* An append, failed or not, leaves a log of entries.                      *)
(***************************************************************************)
LEMMA AppendTypes ==
  ASSUME trail \in Seq(Entry), torn \in BOOLEAN, NEW e \in Entry,
         AppendFails(e) \/ WriteEntry(e)
  PROVE  trail' \in Seq(Entry) /\ torn' \in BOOLEAN
<1>1. Append(trail, e) \in Seq(Entry)
  OBVIOUS
<1> QED BY <1>1 DEF AppendFails, WriteEntry

(***************************************************************************)
(* record(), failed or not, leaves a log of entries.                       *)
(***************************************************************************)
LEMMA RecordTypes ==
  ASSUME TypeOK, NEW r \in Request, NEW o \in Outcome, NEW n \in Nat,
         Record(r, CompletionOf(r, o, n))
  PROVE  /\ trail' \in Seq(Entry) /\ torn' \in BOOLEAN
         /\ unlogged' \in SUBSET Request
<1>1. trail \in Seq(Entry) /\ torn \in BOOLEAN
  BY DEF TypeOK, AuditTypeOK
<1>2. CompletionOf(r, o, n) \in Entry
  BY <1>1, EntryTypes
<1>3. AppendFails(CompletionOf(r, o, n)) \/ WriteEntry(CompletionOf(r, o, n))
  BY DEF Record
<1>4. unlogged' \in SUBSET Request
  BY DEF Record, TypeOK
<1> QED BY <1>1, <1>2, <1>3, <1>4, AppendTypes

(***************************************************************************)
(* Every step of a thread preserves the type invariant.                    *)
(***************************************************************************)
LEMMA StepTypes ==
  ASSUME TypeOK, NEW r \in Request, Step(r)
  PROVE  TypeOK'
<1> USE DEF TypeOK, AuditTypeOK, Goto, Answer, Stage, Reply, Refusal,
            LocalStep, LogStep, slotVars, auditVars
<1>1. CASE Reject(r)
  BY <1>1 DEF Reject
<1>2. CASE DenyAuth(r)
  BY <1>2 DEF DenyAuth
<1>3. CASE AuthRaises(r)
  BY <1>3 DEF AuthRaises
<1>4. CASE RejectParams(r)
  BY <1>4 DEF RejectParams
<1>5. CASE Admit(r)
  BY <1>5 DEF Admit
<1>6. CASE AcquireSlot(r)
  BY <1>6 DEF AcquireSlot
<1>7. CASE Busy(r)
  BY <1>7 DEF Busy
<1>8. CASE LimitDenial(r)
  <2>1. q[r].action \in Action
    BY <1>8, InputAssumption DEF LimitDenial, InputType
  <2> DEFINE a == q[r].action
  <2>2. CASE SuppressDenial(a) /\ Goto(r, "leaving") /\ UNCHANGED folded
    <3>1. suppressed' \in [Action -> Nat]
      BY <2>1, <2>2 DEF SuppressDenial
    <3> QED BY <1>8, <2>2, <3>1 DEF LimitDenial, SuppressDenial
  <2>3. CASE /\ AllowDenial(a) /\ Goto(r, "logdenial")
             /\ folded' = [folded EXCEPT ![r] = suppressed[a]]
    <3>1. /\ suppressed' \in [Action -> Nat]
          /\ windowOpen' \in [Action -> BOOLEAN]
          /\ folded' \in [Request -> Nat]
      BY <2>1, <2>3 DEF AllowDenial
    <3> QED BY <1>8, <2>3, <3>1 DEF LimitDenial
  <2> QED BY <1>8, <2>2, <2>3 DEF LimitDenial
<1>9. CASE LogDenial(r)
  <2>1. CASE Record(r, CompletionOf(r, "denied", folded[r]))
    <3>1. folded[r] \in Nat /\ "denied" \in Outcome
      BY DEF Outcome
    <3>2. trail' \in Seq(Entry) /\ torn' \in BOOLEAN
          /\ unlogged' \in SUBSET Request
      BY <2>1, <3>1, RecordTypes
    <3> QED BY <1>9, <3>2 DEF LogDenial
  <2>2. CASE EncodingRaises(r)
    BY <1>9, <2>2 DEF LogDenial, EncodingRaises
  <2> QED BY <1>9, <2>1, <2>2 DEF LogDenial
<1>10. CASE Begin(r)
  <2>1. trail' \in Seq(Entry) /\ torn' \in BOOLEAN
    BY <1>10, EntryTypes, AppendTypes DEF Begin, Outcome
  <2> QED BY <1>10, <2>1 DEF Begin
<1>11. CASE RefuseUnaudited(r)
  <2>1. trail' \in Seq(Entry) /\ torn' \in BOOLEAN
    BY <1>11, EntryTypes, AppendTypes DEF RefuseUnaudited, Outcome
  <2> QED BY <1>11, <2>1 DEF RefuseUnaudited
<1>12. CASE IntentRaises(r)
  BY <1>12 DEF IntentRaises, EncodingRaises
<1>13. CASE HandlerReturns(r)
  BY <1>13 DEF HandlerReturns
<1>14. CASE HandlerRaises(r)
  BY <1>14 DEF HandlerRaises
<1>15. CASE LogCompletion(r)
  <2>1. CASE Record(r, CompletionOf(r, OutcomeOf(r), 0))
    <3>1. OutcomeOf(r) \in Outcome
      BY DEF OutcomeOf, Outcome
    <3>2. trail' \in Seq(Entry) /\ torn' \in BOOLEAN
          /\ unlogged' \in SUBSET Request
      BY <2>1, <3>1, RecordTypes
    <3> QED BY <1>15, <3>2 DEF LogCompletion
  <2>2. CASE EncodingRaises(r)
    BY <1>15, <2>2 DEF LogCompletion, EncodingRaises
  <2> QED BY <1>15, <2>1, <2>2 DEF LogCompletion
<1>16. CASE LogException(r)
  <2>1. CASE Record(r, CompletionOf(r, "error", 0))
    <3>1. trail' \in Seq(Entry) /\ torn' \in BOOLEAN
          /\ unlogged' \in SUBSET Request
      BY <2>1, RecordTypes DEF Outcome
    <3> QED BY <1>16, <3>1 DEF LogException
  <2>2. CASE EncodingRaises(r)
    BY <1>16, <2>2 DEF LogException, EncodingRaises
  <2> QED BY <1>16, <2>1, <2>2 DEF LogException
<1>17. CASE Leave(r)
  BY <1>17 DEF Leave
<1> QED
  BY <1>1, <1>2, <1>3, <1>4, <1>5, <1>6, <1>7, <1>8, <1>9, <1>10, <1>11,
     <1>12, <1>13, <1>14, <1>15, <1>16, <1>17 DEF Step

(***************************************************************************)
(* Every step of the system preserves the type invariant.                  *)
(***************************************************************************)
LEMMA NextTypes == TypeOK /\ [Next]_vars => TypeOK'
<1> SUFFICES ASSUME TypeOK, [Next]_vars PROVE TypeOK'
  OBVIOUS
<1>1. CASE \E r \in Request : \E in \in Input : Receive(r, in)
  <2>1. PICK r \in Request, in \in Input : Receive(r, in)
    BY <1>1
  <2>2. AuditTypeOK'
    BY <2>1 DEF TypeOK, AuditTypeOK, Receive, auditVars
  <2> QED
    BY <2>1, <2>2 DEF TypeOK, Receive, Goto, Stage, slotVars
<1>2. CASE \E r \in Request : Step(r)
  BY <1>2, StepTypes
<1>3. CASE \E a \in Privileged :
             WindowExpires(a) /\ UNCHANGED <<taskVars, slotVars, crashes>>
  <2>1. AuditTypeOK'
    BY <1>3 DEF TypeOK, AuditTypeOK, WindowExpires
  <2> QED BY <1>3, <2>1 DEF TypeOK, taskVars, slotVars
<1>4. CASE Crash
  <2>1. AuditTypeOK'
    BY <1>4 DEF TypeOK, AuditTypeOK, Crash, AuditRestart
  <2>2. pc' \in [Request -> Stage]
    BY <1>4 DEF TypeOK, Crash, Stage
  <2>3. \A r \in Request : pc'[r] # "idle" => q'[r] \in Input
    BY <1>4 DEF TypeOK, Crash, InFlight
  <2>4. /\ free' \in Nat /\ held' \in SUBSET Request /\ crashes' \in Nat
    BY <1>4, BoundAssumption DEF TypeOK, Crash
  <2> QED BY <1>4, <2>1, <2>2, <2>3, <2>4 DEF TypeOK, Crash
<1>5. CASE UNCHANGED vars
  <2>1. AuditTypeOK'
    BY <1>5 DEF TypeOK, AuditTypeOK, vars, auditVars
  <2> QED BY <1>5, <2>1 DEF TypeOK, vars, taskVars, slotVars
<1> QED BY <1>1, <1>2, <1>3, <1>4, <1>5 DEF Next

(***************************************************************************)
(* The daemon starts with the types as declared.                           *)
(***************************************************************************)
LEMMA InitTypes == Init => TypeOK
<1>1. ASSUME Init PROVE TypeOK
  <2>1. AuditTypeOK
    <3>1. PICK justBooted \in BOOLEAN :
            windowOpen = [a \in Action |-> justBooted]
      BY <1>1 DEF Init, AuditInit
    <3>2. windowOpen \in [Action -> BOOLEAN]
      BY <3>1, Zenon
    <3>3. trail \in Seq(Entry) /\ suppressed \in [Action -> Nat]
      BY <1>1 DEF Init, AuditInit
    <3> QED BY <1>1, <3>2, <3>3 DEF Init, AuditInit, AuditTypeOK
  <2> QED BY <1>1, <2>1, BoundAssumption DEF Init, TypeOK, Stage, Reply
<1> QED BY <1>1

(***************************************************************************)
(* Types are as declared in every reachable state: no request is counted   *)
(* out of the semaphore, the log or the limiter in a form the code does    *)
(* not know.                                                               *)
(***************************************************************************)
THEOREM TypeCorrect == Spec => []TypeOK
BY InitTypes, NextTypes, PTL DEF Spec

-----------------------------------------------------------------------------
(***************************************************************************)
(* What a request carries does not change while it is served.              *)
(***************************************************************************)
LEMMA StepInput ==
  ASSUME NEW r \in Request, Step(r)
  PROVE  q' = q
BY DEF Step, Reject, DenyAuth, AuthRaises, RejectParams, Admit, AcquireSlot,
   Busy, LimitDenial, LogDenial, Begin, RefuseUnaudited, IntentRaises,
   HandlerReturns, HandlerRaises, LogCompletion, LogException, Leave,
   LocalStep, LogStep

(***************************************************************************)
(* Whoever has run has run.                                                *)
(***************************************************************************)
LEMMA StepKeepsRan ==
  ASSUME NEW r \in Request, Step(r)
  PROVE  ran \subseteq ran'
BY DEF Step, Reject, DenyAuth, AuthRaises, RejectParams, Admit, AcquireSlot,
   Busy, LimitDenial, LogDenial, Begin, RefuseUnaudited, IntentRaises,
   HandlerReturns, HandlerRaises, LogCompletion, LogException, Leave,
   LocalStep, LogStep

(***************************************************************************)
(* A thread leaves what belongs to the other requests alone.               *)
(***************************************************************************)
LEMMA StepFrame ==
  ASSUME TypeOK, NEW r \in Request, Step(r), NEW s \in Request \ {r}
  PROVE  /\ q' = q
         /\ pc'[s] = pc[s]
         /\ reply'[s] = reply[s]
         /\ s \in ran' <=> s \in ran
         /\ s \in held' <=> s \in held
<1>1. pc \in [Request -> Stage] /\ reply \in [Request -> Reply] /\ s # r
  BY DEF TypeOK
<1> USE DEF Goto, Answer, LocalStep, LogStep, slotVars
<1>2. CASE Reject(r) \/ DenyAuth(r) \/ AuthRaises(r) \/ RejectParams(r)
  BY <1>1, <1>2 DEF Reject, DenyAuth, AuthRaises, RejectParams
<1>3. CASE Admit(r) \/ AcquireSlot(r) \/ Busy(r)
  BY <1>1, <1>3 DEF Admit, AcquireSlot, Busy
<1>4. CASE LimitDenial(r)
  BY <1>1, <1>4 DEF LimitDenial
<1>5. CASE LogDenial(r)
  BY <1>1, <1>5 DEF LogDenial
<1>6. CASE Begin(r) \/ RefuseUnaudited(r) \/ IntentRaises(r)
  BY <1>1, <1>6 DEF Begin, RefuseUnaudited, IntentRaises
<1>7. CASE HandlerReturns(r) \/ HandlerRaises(r)
  BY <1>1, <1>7 DEF HandlerReturns, HandlerRaises
<1>8. CASE LogCompletion(r) \/ LogException(r)
  BY <1>1, <1>8 DEF LogCompletion, LogException
<1>9. CASE Leave(r)
  BY <1>1, <1>9 DEF Leave
<1> QED
  BY <1>2, <1>3, <1>4, <1>5, <1>6, <1>7, <1>8, <1>9 DEF Step

(***************************************************************************)
(* What a thread may append to the log, and at which point: its intent     *)
(* when it holds the slot, its verdict when it goes on to "leaving".       *)
(***************************************************************************)
IntentStep(r) ==
  /\ pc[r] = "intent" /\ pc'[r] \in {"running", "completing"}
  /\ trail' = Append(trail, IntentOf(r))

VerdictStep(r) ==
  /\ pc[r] \in {"logdenial", "completing", "raised"}
  /\ pc'[r] = "leaving"
  /\ r \in ran' <=> r \in ran
  /\ \E o \in {"ok", "error", "denied"}, n \in Nat :
       /\ trail' = Append(trail, CompletionOf(r, o, n))
       /\ o = "ok" <=> reply'[r] = "ok"
       /\ o = "denied" => pc[r] = "logdenial"

LEMMA StepLog ==
  ASSUME TypeOK, AnswerInv, NEW r \in Request, Step(r)
  PROVE  trail' = trail \/ IntentStep(r) \/ VerdictStep(r)
<1>1. /\ pc \in [Request -> Stage] /\ reply \in [Request -> Reply]
      /\ folded[r] \in Nat
  BY DEF TypeOK
<1> USE DEF Goto, Answer, LocalStep, LogStep, auditVars
<1>2. CASE Reject(r) \/ DenyAuth(r) \/ AuthRaises(r) \/ RejectParams(r)
  BY <1>2 DEF Reject, DenyAuth, AuthRaises, RejectParams
<1>3. CASE Admit(r) \/ AcquireSlot(r) \/ Busy(r) \/ LimitDenial(r)
  BY <1>3 DEF Admit, AcquireSlot, Busy, LimitDenial
<1>4. CASE LogDenial(r)
  <2>1. reply'[r] = reply[r] /\ reply[r] # "ok" /\ pc[r] = "logdenial"
    BY <1>4 DEF LogDenial, AnswerInv, Refusal
  <2>2. CASE Goto(r, "leaving") /\ Record(r, CompletionOf(r, "denied", folded[r]))
    <3>1. \/ trail' = trail
          \/ trail' = Append(trail, CompletionOf(r, "denied", folded[r]))
      BY <2>2 DEF Record, WriteEntry, AppendFails
    <3>2. pc'[r] = "leaving" /\ ran' = ran
      BY <1>1, <1>4, <2>2 DEF LogDenial
    <3> QED BY <1>1, <2>1, <3>1, <3>2 DEF VerdictStep
  <2> QED BY <1>4, <2>2 DEF LogDenial, EncodingRaises
<1>5. CASE Begin(r)
  BY <1>1, <1>5 DEF Begin, WriteEntry, IntentStep
<1>6. CASE RefuseUnaudited(r)
  BY <1>1, <1>6 DEF RefuseUnaudited, AppendFails, WriteEntry, IntentStep
<1>7. CASE IntentRaises(r) \/ HandlerReturns(r) \/ HandlerRaises(r) \/ Leave(r)
  BY <1>7 DEF IntentRaises, EncodingRaises, HandlerReturns, HandlerRaises, Leave
<1>8. CASE LogCompletion(r)
  <2>1. /\ reply'[r] = reply[r] /\ pc[r] = "completing" /\ ran' = ran
        /\ OutcomeOf(r) \in {"ok", "error"}
        /\ OutcomeOf(r) = "ok" <=> reply[r] = "ok"
    BY <1>8 DEF LogCompletion, OutcomeOf
  <2>2. CASE Goto(r, "leaving") /\ Record(r, CompletionOf(r, OutcomeOf(r), 0))
    <3>1. \/ trail' = trail
          \/ trail' = Append(trail, CompletionOf(r, OutcomeOf(r), 0))
      BY <2>2 DEF Record, WriteEntry, AppendFails
    <3>2. pc'[r] = "leaving"
      BY <1>1, <2>2
    <3> QED BY <2>1, <3>1, <3>2 DEF VerdictStep
  <2> QED BY <1>8, <2>2 DEF LogCompletion, EncodingRaises
<1>9. CASE LogException(r)
  <2>1. /\ reply'[r] = "internal" /\ pc[r] = "raised" /\ ran' = ran
        /\ pc'[r] = "leaving"
    BY <1>1, <1>9 DEF LogException
  <2>2. CASE Record(r, CompletionOf(r, "error", 0))
    <3>1. \/ trail' = trail
          \/ trail' = Append(trail, CompletionOf(r, "error", 0))
      BY <2>2 DEF Record, WriteEntry, AppendFails
    <3> QED BY <2>1, <3>1 DEF VerdictStep
  <2> QED BY <1>9, <2>2 DEF LogException, EncodingRaises
<1> QED
  BY <1>2, <1>3, <1>4, <1>5, <1>6, <1>7, <1>8, <1>9 DEF Step

-----------------------------------------------------------------------------
(***************************************************************************)
(* A thread comes to the points of slot, limiter and log only with a       *)
(* privileged request, and to the handler only by entering it.             *)
(***************************************************************************)
LEMMA StepPath ==
  ASSUME TypeOK, PathInv, NEW r \in Request, Step(r)
  PROVE  PathInv'
<1> SUFFICES ASSUME NEW s \in Request
             PROVE  /\ pc'[s] \in Before => s \notin ran'
                    /\ pc'[s] = "running" => s \in ran'
                    /\ pc'[s] \in Unrecorded \ {"idle", "received", "running"}
                         => IsPrivileged(s)'
  BY DEF PathInv
<1>1. CASE s # r
  BY <1>1, StepFrame DEF PathInv, IsPrivileged
<1>2. CASE s = r
  <2>1. pc \in [Request -> Stage]
    BY DEF TypeOK
  <2> USE DEF PathInv, IsPrivileged, Before, Unrecorded, Goto, Answer,
              LocalStep, LogStep
  <2>2. CASE Reject(r) \/ DenyAuth(r) \/ AuthRaises(r) \/ RejectParams(r)
    BY <1>2, <2>1, <2>2 DEF Reject, DenyAuth, AuthRaises, RejectParams
  <2>3. CASE Admit(r) \/ AcquireSlot(r) \/ Busy(r)
    BY <1>2, <2>1, <2>3 DEF Admit, AcquireSlot, Busy
  <2>4. CASE LimitDenial(r) \/ LogDenial(r)
    BY <1>2, <2>1, <2>4 DEF LimitDenial, LogDenial
  <2>5. CASE Begin(r) \/ RefuseUnaudited(r) \/ IntentRaises(r)
    BY <1>2, <2>1, <2>5 DEF Begin, RefuseUnaudited, IntentRaises
  <2>6. CASE HandlerReturns(r) \/ HandlerRaises(r)
    BY <1>2, <2>1, <2>6 DEF HandlerReturns, HandlerRaises
  <2>7. CASE LogCompletion(r) \/ LogException(r) \/ Leave(r)
    BY <1>2, <2>1, <2>7 DEF LogCompletion, LogException, Leave
  <2> QED BY <2>2, <2>3, <2>4, <2>5, <2>6, <2>7 DEF Step
<1> QED BY <1>1, <1>2

(***************************************************************************)
(* A thread does not answer a request that ran as refused.                 *)
(***************************************************************************)
LEMMA StepAnswer ==
  ASSUME TypeOK, PathInv, AnswerInv, NEW r \in Request, Step(r)
  PROVE  AnswerInv'
<1> SUFFICES ASSUME NEW s \in Request
             PROVE  /\ pc'[s] \in {"idle", "received", "slotting", "intent",
                                   "running"} => reply'[s] = "none"
                    /\ pc'[s] \in {"denying", "logdenial"} =>
                         reply'[s] \in Refusal
                    /\ s \in ran' => reply'[s] \notin Refusal
  BY DEF AnswerInv
<1>1. CASE s # r
  BY <1>1, StepFrame DEF AnswerInv
<1>2. CASE s = r
  <2>1. pc \in [Request -> Stage] /\ reply \in [Request -> Reply]
    BY DEF TypeOK
  <2> USE DEF PathInv, AnswerInv, Before, Refusal, Goto, Answer, LocalStep,
              LogStep
  <2>2. CASE Reject(r) \/ DenyAuth(r) \/ AuthRaises(r) \/ RejectParams(r)
    BY <1>2, <2>1, <2>2 DEF Reject, DenyAuth, AuthRaises, RejectParams
  <2>3. CASE Admit(r) \/ AcquireSlot(r) \/ Busy(r)
    BY <1>2, <2>1, <2>3 DEF Admit, AcquireSlot, Busy
  <2>4. CASE LimitDenial(r) \/ LogDenial(r)
    BY <1>2, <2>1, <2>4 DEF LimitDenial, LogDenial
  <2>5. CASE Begin(r) \/ RefuseUnaudited(r) \/ IntentRaises(r)
    BY <1>2, <2>1, <2>5 DEF Begin, RefuseUnaudited, IntentRaises
  <2>6. CASE HandlerReturns(r) \/ HandlerRaises(r)
    BY <1>2, <2>1, <2>6 DEF HandlerReturns, HandlerRaises
  <2>7. CASE LogCompletion(r) \/ LogException(r) \/ Leave(r)
    BY <1>2, <2>1, <2>7 DEF LogCompletion, LogException, Leave
  <2> QED BY <2>2, <2>3, <2>4, <2>5, <2>6, <2>7 DEF Step
<1> QED BY <1>1, <1>2

(***************************************************************************)
(* A thread takes one slot and gives one back, and keeps it from before    *)
(* the intent until after the verdict.                                     *)
(***************************************************************************)
LEMMA StepSlots ==
  ASSUME TypeOK, SlotInv, PathInv, NEW r \in Request, Step(r)
  PROVE  SlotInv'
<1>1. /\ pc \in [Request -> Stage] /\ free \in Nat /\ Slots \in Nat
      /\ held \in SUBSET Request /\ IsFiniteSet(held)
      /\ Cardinality(held) \in Nat
  BY RequestAssumption, BoundAssumption, FS_Subset, FS_CardinalityType
  DEF TypeOK
<1>2. free' + Cardinality(held') = Slots
  <2>1. CASE AcquireSlot(r)
    <3>1. r \notin held
      BY <2>1 DEF AcquireSlot, SlotInv, Holding
    <3>2. Cardinality(held \cup {r}) = Cardinality(held) + 1
      BY <1>1, <3>1, FS_AddElement
    <3> QED BY <1>1, <2>1, <3>2 DEF AcquireSlot, SlotInv
  <2>2. CASE Leave(r)
    <3>1. CASE r \in held
      <4>1. Cardinality(held \ {r}) = Cardinality(held) - 1
        BY <1>1, <3>1, FS_RemoveElement
      <4>2. free' = free + 1 /\ held' = held \ {r}
        BY <2>2, <3>1 DEF Leave
      <4>3. free + Cardinality(held) = Slots
        BY DEF SlotInv
      <4> QED BY <1>1, <4>1, <4>2, <4>3
    <3>2. CASE r \notin held
      BY <2>2, <3>2 DEF Leave, SlotInv, slotVars
    <3> QED BY <3>1, <3>2
  <2>3. CASE ~AcquireSlot(r) /\ ~Leave(r)
    <3>1. free' = free /\ held' = held
      BY <2>3 DEF Step, Reject, DenyAuth, AuthRaises, RejectParams, Admit,
         Busy, LimitDenial, LogDenial, Begin, RefuseUnaudited, IntentRaises,
         HandlerReturns, HandlerRaises, LogCompletion, LogException,
         LocalStep, LogStep, slotVars
    <3> QED BY <3>1 DEF SlotInv
  <2> QED BY <2>1, <2>2, <2>3
<1>3. ASSUME NEW s \in Request
      PROVE  /\ s \in held' => pc'[s] \in Holding /\ IsPrivileged(s)'
             /\ /\ \/ pc'[s] \in {"intent", "running"}
                   \/ pc'[s] \in {"completing", "raised"} /\ s \in ran'
                /\ IsPrivileged(s)'
                => s \in held'
  <2>1. CASE s # r
    BY <2>1, StepFrame DEF SlotInv, IsPrivileged
  <2>2. CASE s = r
    <3> USE DEF SlotInv, PathInv, IsPrivileged, Before, Unrecorded, Holding,
                Goto, Answer, LocalStep, LogStep, slotVars
    <3>2. CASE Reject(r) \/ DenyAuth(r) \/ AuthRaises(r) \/ RejectParams(r)
      BY <1>1, <2>2, <3>2 DEF Reject, DenyAuth, AuthRaises, RejectParams
    <3>3. CASE Admit(r) \/ AcquireSlot(r) \/ Busy(r)
      BY <1>1, <2>2, <3>3 DEF Admit, AcquireSlot, Busy
    <3>4. CASE LimitDenial(r) \/ LogDenial(r)
      BY <1>1, <2>2, <3>4 DEF LimitDenial, LogDenial
    <3>5. CASE Begin(r) \/ RefuseUnaudited(r) \/ IntentRaises(r)
      BY <1>1, <2>2, <3>5 DEF Begin, RefuseUnaudited, IntentRaises
    <3>6. CASE HandlerReturns(r) \/ HandlerRaises(r)
      BY <1>1, <2>2, <3>6 DEF HandlerReturns, HandlerRaises
    <3>7. CASE LogCompletion(r) \/ LogException(r) \/ Leave(r)
      BY <1>1, <2>2, <3>7 DEF LogCompletion, LogException, Leave
    <3> QED BY <3>2, <3>3, <3>4, <3>5, <3>6, <3>7 DEF Step
  <2> QED BY <2>1, <2>2
<1>4. held' \subseteq Request
  BY StepTypes DEF TypeOK
<1> QED BY <1>2, <1>3, <1>4 DEF SlotInv

-----------------------------------------------------------------------------
(***************************************************************************)
(* Appending keeps the entries there are and adds one behind them.         *)
(***************************************************************************)
LEMMA AppendFacts ==
  ASSUME trail \in Seq(Entry), NEW e, trail' = Append(trail, e)
  PROVE  /\ DOMAIN trail' = DOMAIN trail \cup {Len(trail) + 1}
         /\ \A k \in DOMAIN trail : k < Len(trail) + 1 /\ trail'[k] = trail[k]
         /\ trail'[Len(trail) + 1] = e
         /\ Len(trail) + 1 \in Nat /\ DOMAIN trail \subseteq Nat
OBVIOUS

(***************************************************************************)
(* Every entry is about a request.                                         *)
(***************************************************************************)
LEMMA RequestAt ==
  ASSUME TypeOK, NEW k \in DOMAIN trail
  PROVE  trail[k].req \in Request
<1>1. trail[k] \in Entry
  BY DEF TypeOK, AuditTypeOK
<1> QED BY <1>1 DEF Entry

(***************************************************************************)
(* One element at most is in held when there is one slot.                  *)
(***************************************************************************)
LEMMA SoleHolder ==
  ASSUME TypeOK, SlotInv, Slots = 1, NEW r \in held, NEW s \in held
  PROVE  r = s
<1>1. IsFiniteSet(held) /\ Cardinality(held) \in Nat /\ free \in Nat
  BY RequestAssumption, FS_Subset, FS_CardinalityType DEF TypeOK
<1>2. Cardinality(held) = 0 \/ Cardinality(held) = 1
  BY <1>1 DEF SlotInv
<1>3. Cardinality(held) # 0
  BY <1>1, FS_EmptySet
<1> QED BY <1>1, <1>2, <1>3, FS_Singleton

(***************************************************************************)
(* A thread only moves forward: it does not come back to the points before *)
(* the handler, nor to those before its verdict.  It enters a handler from *)
(* a point before it, and after the verdict it only leaves.                *)
(***************************************************************************)
LEMMA StepForward ==
  ASSUME TypeOK, PathInv, NEW r \in Request, Step(r)
  PROVE  /\ pc[r] \notin Before => pc'[r] \notin Before
         /\ pc[r] \notin Unrecorded =>
              /\ pc'[r] \notin Unrecorded
              /\ reply'[r] = reply[r] /\ trail' = trail
              /\ r \in ran' <=> r \in ran
         /\ r \in ran' /\ r \notin ran => pc[r] \in Before
         /\ IsPrivileged(r) /\ (pc'[r] = "running" \/ (r \in ran' /\ r \notin ran))
              => Begin(r)
<1>1. pc \in [Request -> Stage]
  BY DEF TypeOK
<1> USE DEF PathInv, Before, Unrecorded, Goto, Answer, LocalStep, LogStep
<1>2. CASE Reject(r) \/ DenyAuth(r) \/ AuthRaises(r) \/ RejectParams(r)
  BY <1>1, <1>2 DEF Reject, DenyAuth, AuthRaises, RejectParams
<1>3. CASE Admit(r) \/ AcquireSlot(r) \/ Busy(r)
  BY <1>1, <1>3 DEF Admit, AcquireSlot, Busy
<1>4. CASE LimitDenial(r) \/ LogDenial(r)
  BY <1>1, <1>4 DEF LimitDenial, LogDenial
<1>5. CASE Begin(r) \/ RefuseUnaudited(r) \/ IntentRaises(r)
  BY <1>1, <1>5 DEF Begin, RefuseUnaudited, IntentRaises
<1>6. CASE HandlerReturns(r) \/ HandlerRaises(r)
  BY <1>1, <1>6 DEF HandlerReturns, HandlerRaises
<1>7. CASE LogCompletion(r) \/ LogException(r)
  BY <1>1, <1>7 DEF LogCompletion, LogException
<1>8. CASE Leave(r)
  BY <1>1, <1>8 DEF Leave, auditVars
<1> QED BY <1>2, <1>3, <1>4, <1>5, <1>6, <1>7, <1>8 DEF Step

(***************************************************************************)
(* A thread writes in the order of the code.                               *)
(***************************************************************************)
LEMMA StepLogInv ==
  ASSUME TypeOK, PathInv, AnswerInv, LogInv, NEW r \in Request, Step(r)
  PROVE  LogInv'
<1> SUFFICES ASSUME NEW k \in DOMAIN trail'
             PROVE  /\ pc'[trail'[k].req] \notin Before
                    /\ trail'[k].event = "completion" =>
                         pc'[trail'[k].req] \notin Unrecorded
  BY DEF LogInv
<1>1. trail \in Seq(Entry)
  BY DEF TypeOK, AuditTypeOK
<1>2. CASE k \in DOMAIN trail /\ trail'[k] = trail[k]
  <2>1. trail[k].req \in Request
    BY <1>2, RequestAt
  <2>2. CASE trail[k].req = r
    BY <1>2, <2>2, StepForward DEF LogInv
  <2>3. CASE trail[k].req # r
    BY <1>2, <2>1, <2>3, StepFrame DEF LogInv
  <2> QED BY <2>2, <2>3
<1>3. CASE trail' = trail
  BY <1>2, <1>3
<1>4. CASE IntentStep(r)
  <2>1. trail' = Append(trail, IntentOf(r))
    BY <1>4 DEF IntentStep
  <2>2. CASE k = Len(trail) + 1
    BY <1>1, <1>4, <2>1, <2>2, AppendFacts
    DEF IntentStep, IntentOf, Before, Unrecorded
  <2> QED BY <1>1, <1>2, <2>1, <2>2, AppendFacts
<1>5. CASE VerdictStep(r)
  <2>1. PICK o \in {"ok", "error", "denied"}, n \in Nat :
          trail' = Append(trail, CompletionOf(r, o, n))
    BY <1>5 DEF VerdictStep
  <2>2. CASE k = Len(trail) + 1
    BY <1>1, <1>5, <2>1, <2>2, AppendFacts
    DEF VerdictStep, CompletionOf, Before, Unrecorded
  <2> QED BY <1>1, <1>2, <2>1, <2>2, AppendFacts
<1> QED BY <1>3, <1>4, <1>5, StepLog

(***************************************************************************)
(* A handler is entered with its intent in the log, and the log only       *)
(* grows.                                                                  *)
(***************************************************************************)
LEMMA StepIntent ==
  ASSUME TypeOK, PathInv, AnswerInv, NoActionWithoutIntent,
         NEW r \in Request, Step(r)
  PROVE  NoActionWithoutIntent'
<1> SUFFICES ASSUME NEW s \in ran', IsPrivileged(s)'
             PROVE  Intents(s)' # {}
  BY DEF NoActionWithoutIntent
<1>1. trail \in Seq(Entry) /\ s \in Request /\ q' = q
  BY StepTypes, StepInput DEF TypeOK, AuditTypeOK
<1>2. IsPrivileged(s)
  BY <1>1 DEF IsPrivileged
<1>3. CASE s \in ran
  <2>1. PICK i \in Intents(s) : TRUE
    BY <1>2, <1>3 DEF NoActionWithoutIntent
  <2>2. i \in DOMAIN trail' /\ trail'[i] = trail[i]
    BY <1>1, <2>1, StepLog, AppendFacts
    DEF IntentStep, VerdictStep, Intents
  <2> QED BY <2>1, <2>2 DEF Intents
<1>4. CASE s \notin ran
  <2>1. s = r /\ Begin(r)
    BY <1>1, <1>2, <1>4, StepFrame, StepForward
  <2>2. trail' = Append(trail, IntentOf(r))
    BY <2>1 DEF Begin, WriteEntry
  <2>3. Len(trail) + 1 \in Intents(r)'
    BY <1>1, <2>2, AppendFacts DEF Intents, IntentOf
  <2> QED BY <2>1, <2>3
<1> QED BY <1>3, <1>4

(***************************************************************************)
(* With one slot, no other operation that ran can write behind the intent  *)
(* of the one that runs: to write it would have to hold the slot as well.  *)
(***************************************************************************)
LEMMA StepBrackets ==
  ASSUME TypeOK, SlotInv, PathInv, AnswerInv, LogInv, LogBracketsOperations,
         NEW r \in Request, Step(r)
  PROVE  LogBracketsOperations'
<1> SUFFICES ASSUME Slots = 1, NEW s \in Running', NEW i \in Intents(s)',
                    NEW k \in DOMAIN trail', k > i
             PROVE  trail'[k].req \notin ran'
  BY DEF LogBracketsOperations
<1>1. trail \in Seq(Entry) /\ s \in Request /\ q' = q
  BY StepInput DEF TypeOK, AuditTypeOK, Running
<1>2. IsPrivileged(s) /\ pc'[s] = "running"
  BY <1>1 DEF Running, IsPrivileged
<1>3. i \in DOMAIN trail' /\ trail'[i].req = s
  BY DEF Intents
<1>4. CASE s = r
  <2>1. pc[r] = "intent" /\ trail' = Append(trail, IntentOf(r))
    <3>1. IsPrivileged(r) /\ pc'[r] = "running"
      BY <1>2, <1>4 DEF IsPrivileged
    <3> QED BY <3>1, StepForward DEF IsPrivileged, Begin, WriteEntry
  <2>2. \A j \in DOMAIN trail : trail[j].req # r
    BY <2>1 DEF LogInv, Before
  <2>3. i = Len(trail) + 1
    BY <1>1, <1>3, <1>4, <2>1, <2>2, AppendFacts
  <2>4. k \in DOMAIN trail => k < i
    BY <1>1, <2>1, <2>3, AppendFacts
  <2>5. k \in DOMAIN trail \/ k = i
    BY <1>1, <2>1, <2>3, AppendFacts
  <2>6. i \in Nat /\ k \in Nat
    BY <1>1, <1>3, <2>1, AppendFacts
  <2> QED BY <2>4, <2>5, <2>6
<1>5. CASE s # r
  <2>1. s \in Running /\ s \in held
    BY <1>1, <1>2, <1>5, StepFrame DEF Running, SlotInv
  <2>2. r \in held => FALSE
    BY <1>5, <2>1, SoleHolder
  <2>3. CASE k \in DOMAIN trail /\ trail'[k] = trail[k]
              /\ i \in DOMAIN trail /\ trail'[i] = trail[i]
    <3>1. i \in Intents(s)
      BY <2>3 DEF Intents
    <3>2. trail[k].req \notin ran
      BY <2>1, <2>3, <3>1 DEF LogBracketsOperations
    <3>3. pc[trail[k].req] \notin Before /\ trail[k].req \in Request
      BY <2>3, RequestAt DEF LogInv
    <3>4. trail[k].req \notin ran'
      BY <3>2, <3>3, StepFrame, StepForward
    <3> QED BY <2>3, <3>4
  <2>4. CASE trail' = trail
    BY <1>3, <2>3, <2>4
  <2>5. ASSUME NEW e, trail' = Append(trail, e), e.req = r, r \notin ran'
        PROVE  trail'[k].req \notin ran'
    <3>1. CASE k = Len(trail) + 1
      BY <1>1, <2>5, <3>1, AppendFacts
    <3>2. CASE k \in DOMAIN trail
      <4>1. i \in DOMAIN trail
        BY <1>1, <1>3, <2>5, <3>2, AppendFacts
      <4> QED BY <1>1, <2>3, <2>5, <3>2, <4>1, AppendFacts
    <3> QED BY <1>1, <2>5, <3>1, <3>2, AppendFacts
  <2>6. CASE IntentStep(r)
    <3>1. r \in held
      BY <2>6 DEF IntentStep, SlotInv, PathInv, Unrecorded, Before
    <3> QED BY <2>2, <3>1
  <2>7. CASE VerdictStep(r)
    <3>1. PICK o \in {"ok", "error", "denied"}, n \in Nat :
            trail' = Append(trail, CompletionOf(r, o, n))
      BY <2>7 DEF VerdictStep
    <3>2. r \notin ran
      BY <2>2, <2>7 DEF VerdictStep, SlotInv, PathInv, Unrecorded, Before
    <3>3. r \notin ran' /\ CompletionOf(r, o, n).req = r
      BY <2>7, <3>2 DEF VerdictStep, CompletionOf
    <3> QED BY <2>5, <3>1, <3>3
  <2> QED BY <2>4, <2>6, <2>7, StepLog
<1> QED BY <1>4, <1>5

(***************************************************************************)
(* A verdict is written once, and says what the answer says.               *)
(***************************************************************************)
LEMMA StepVerdict ==
  ASSUME TypeOK, PathInv, AnswerInv, LogInv, OneTrueVerdict,
         NEW r \in Request, Step(r)
  PROVE  OneTrueVerdict'
<1> DEFINE True(s) ==
      /\ Cardinality(Completions(s)) <= 1
      /\ \A i \in Completions(s) :
           /\ trail[i].outcome = "ok" <=> reply[s] = "ok"
           /\ trail[i].outcome = "denied" => s \notin ran
<1> SUFFICES ASSUME NEW s \in Request PROVE True(s)'
  BY DEF OneTrueVerdict
<1>1. trail \in Seq(Entry)
  BY DEF TypeOK, AuditTypeOK
<1>2. True(s)
  BY DEF OneTrueVerdict
<1>3. CASE s # r
  <2>1. /\ Completions(s)' = Completions(s)
        /\ \A i \in Completions(s) : trail'[i] = trail[i]
    <3>1. CASE trail' = trail
      BY <3>1 DEF Completions
    <3>2. ASSUME NEW e, trail' = Append(trail, e), e.req = r
          PROVE  /\ Completions(s)' = Completions(s)
                 /\ \A i \in Completions(s) : trail'[i] = trail[i]
      BY <1>1, <1>3, <3>2, AppendFacts DEF Completions
    <3>3. CASE IntentStep(r)
      <4>1. IntentOf(r).req = r
        BY DEF IntentOf
      <4> QED BY <3>2, <3>3, <4>1 DEF IntentStep
    <3>4. CASE VerdictStep(r)
      <4>1. PICK o \in {"ok", "error", "denied"}, n \in Nat :
              trail' = Append(trail, CompletionOf(r, o, n))
        BY <3>4 DEF VerdictStep
      <4>2. CompletionOf(r, o, n).req = r
        BY DEF CompletionOf
      <4> QED BY <3>2, <4>1, <4>2
    <3> QED BY <3>1, <3>3, <3>4, StepLog
  <2>2. reply'[s] = reply[s] /\ (s \in ran' <=> s \in ran)
    BY <1>3, StepFrame
  <2> QED BY <1>2, <2>1, <2>2
<1>4. CASE s = r /\ pc[r] \notin Unrecorded
  <2>1. trail' = trail /\ reply'[s] = reply[s] /\ (s \in ran' <=> s \in ran)
    BY <1>4, StepForward
  <2>2. Completions(s)' = Completions(s)
    BY <2>1 DEF Completions
  <2> QED BY <1>2, <2>1, <2>2
<1>5. CASE s = r /\ pc[r] \in Unrecorded
  <2>1. \A k \in DOMAIN trail :
          ~(trail[k].event = "completion" /\ trail[k].req = r)
    BY <1>5 DEF LogInv
  <2>2. CASE Completions(s)' = {}
    BY <2>2, FS_EmptySet
  <2>3. CASE trail' = trail
    BY <1>5, <2>1, <2>2, <2>3 DEF Completions
  <2>4. CASE IntentStep(r)
    <3>1. Completions(s)' = {}
      BY <1>1, <1>5, <2>1, <2>4, AppendFacts
      DEF IntentStep, IntentOf, Completions
    <3> QED BY <2>2, <3>1
  <2>5. CASE VerdictStep(r)
    <3>1. PICK o \in {"ok", "error", "denied"}, n \in Nat :
            /\ trail' = Append(trail, CompletionOf(r, o, n))
            /\ o = "ok" <=> reply'[r] = "ok"
            /\ o = "denied" => pc[r] = "logdenial"
      BY <2>5 DEF VerdictStep
    <3>2. trail'[Len(trail) + 1] = CompletionOf(r, o, n)
      BY <1>1, <3>1, AppendFacts
    <3>3. Completions(s)' = {Len(trail) + 1}
      BY <1>1, <1>5, <2>1, <3>1, AppendFacts DEF CompletionOf, Completions
    <3>4. Cardinality(Completions(s)') = 1
      BY <3>3, FS_Singleton
    <3>5. o = "denied" => r \notin ran'
      BY <2>5, <3>1 DEF VerdictStep, PathInv, Before
    <3> QED BY <1>5, <3>1, <3>2, <3>3, <3>4, <3>5 DEF CompletionOf
  <2> QED BY <2>3, <2>4, <2>5, StepLog
<1> QED BY <1>3, <1>4, <1>5

-----------------------------------------------------------------------------
(***************************************************************************)
(* A request that arrives has no slot, no entry and no history.            *)
(***************************************************************************)
LEMMA ReceiveInv ==
  ASSUME IInv, NEW r \in Request, NEW in \in Input, Receive(r, in)
  PROVE  /\ SlotInv' /\ PathInv' /\ AnswerInv' /\ LogInv'
         /\ NoActionWithoutIntent' /\ LogBracketsOperations' /\ OneTrueVerdict'
<1>1. /\ pc[r] = "idle" /\ pc' = [pc EXCEPT ![r] = "received"]
      /\ q' = [q EXCEPT ![r] = in]
      /\ trail' = trail /\ free' = free /\ held' = held /\ reply' = reply
      /\ ran' = ran
  BY DEF Receive, Goto, auditVars, slotVars
<1>2. /\ TypeOK /\ SlotInv /\ PathInv /\ AnswerInv /\ LogInv
      /\ NoActionWithoutIntent /\ LogBracketsOperations /\ OneTrueVerdict
  BY DEF IInv
<1>3. /\ pc \in [Request -> Stage] /\ q \in [Request -> Input \cup {NoInput}]
      /\ held \subseteq Request /\ ran \subseteq Request
  BY <1>2 DEF TypeOK
<1>4. r \notin held /\ r \notin ran
  BY <1>1, <1>2 DEF SlotInv, PathInv, Holding, Before
<1>5. \A s \in Request \ {r} : pc'[s] = pc[s] /\ q'[s] = q[s]
  BY <1>1, <1>3
<1>6. pc'[r] = "received"
  BY <1>1, <1>3
<1>7. SlotInv'
  BY <1>1, <1>2, <1>3, <1>4, <1>5, <1>6 DEF SlotInv, IsPrivileged
<1>8. PathInv'
  BY <1>1, <1>2, <1>4, <1>5, <1>6 DEF PathInv, IsPrivileged
<1>9. AnswerInv'
  BY <1>1, <1>2, <1>4, <1>5, <1>6 DEF AnswerInv
<1>10. LogInv'
  <2>1. ASSUME NEW k \in DOMAIN trail PROVE pc'[trail[k].req] = pc[trail[k].req]
    <3>1. trail[k].req \in Request /\ trail[k].req # r
      BY <1>1, <1>2, RequestAt DEF LogInv, Before
    <3> QED BY <1>5, <3>1
  <2> QED BY <1>1, <1>2, <2>1 DEF LogInv
<1>11. NoActionWithoutIntent'
  BY <1>1, <1>2, <1>3, <1>4, <1>5
  DEF NoActionWithoutIntent, IsPrivileged, Intents
<1>12. LogBracketsOperations'
  <2>1. Running' \subseteq Running
    BY <1>5, <1>6 DEF Running, IsPrivileged
  <2> QED BY <1>1, <1>2, <2>1 DEF LogBracketsOperations, Intents
<1>13. OneTrueVerdict'
  BY <1>1, <1>2 DEF OneTrueVerdict, Completions
<1> QED BY <1>7, <1>8, <1>9, <1>10, <1>11, <1>12, <1>13

(***************************************************************************)
(* A kill leaves no thread and no slot taken; log and answers stand.       *)
(***************************************************************************)
LEMMA CrashInv ==
  ASSUME IInv, Crash
  PROVE  /\ SlotInv' /\ PathInv' /\ AnswerInv' /\ LogInv'
         /\ NoActionWithoutIntent' /\ LogBracketsOperations' /\ OneTrueVerdict'
<1>1. /\ pc' = [r \in Request |-> IF r \in InFlight THEN "lost" ELSE pc[r]]
      /\ q' = q /\ trail' = trail /\ free' = Slots /\ held' = {}
      /\ reply' = reply /\ ran' = ran
  BY DEF Crash, AuditRestart
<1>2. /\ TypeOK /\ SlotInv /\ PathInv /\ AnswerInv /\ LogInv
      /\ NoActionWithoutIntent /\ LogBracketsOperations /\ OneTrueVerdict
  BY DEF IInv
<1>3. ASSUME NEW s \in Request
      PROVE  \/ pc'[s] = "idle" /\ pc[s] = "idle"
             \/ pc'[s] \in {"done", "lost"}
  BY <1>1 DEF InFlight
<1>4. SlotInv'
  <2>1. Cardinality({}) = 0
    BY FS_EmptySet
  <2>2. free' + Cardinality(held') = Slots
    BY <1>1, <2>1, BoundAssumption
  <2> QED BY <1>1, <1>3, <2>2 DEF SlotInv
<1>5. PathInv'
  BY <1>1, <1>2, <1>3 DEF PathInv, Before, Unrecorded
<1>6. AnswerInv'
  BY <1>1, <1>2, <1>3 DEF AnswerInv
<1>7. LogInv'
  <2>1. ASSUME NEW k \in DOMAIN trail PROVE pc'[trail[k].req] \in {"done", "lost"}
    <3>1. trail[k].req \in Request /\ pc[trail[k].req] # "idle"
      BY <1>2, RequestAt DEF LogInv, Before
    <3> QED BY <1>3, <3>1
  <2> QED BY <1>1, <2>1 DEF LogInv, Before, Unrecorded
<1>8. NoActionWithoutIntent'
  BY <1>1, <1>2 DEF NoActionWithoutIntent, IsPrivileged, Intents
<1>9. LogBracketsOperations'
  <2>1. Running' = {}
    BY <1>3 DEF Running
  <2> QED BY <2>1 DEF LogBracketsOperations
<1>10. OneTrueVerdict'
  BY <1>1, <1>2 DEF OneTrueVerdict, Completions
<1> QED BY <1>4, <1>5, <1>6, <1>7, <1>8, <1>9, <1>10

(***************************************************************************)
(* Nothing in the invariant depends on the limiter.                        *)
(***************************************************************************)
LEMMA QuietInv ==
  ASSUME IInv, UNCHANGED <<trail, taskVars, slotVars>>
  PROVE  /\ SlotInv' /\ PathInv' /\ AnswerInv' /\ LogInv'
         /\ NoActionWithoutIntent' /\ LogBracketsOperations' /\ OneTrueVerdict'
<1>1. /\ trail' = trail /\ q' = q /\ pc' = pc /\ reply' = reply /\ ran' = ran
      /\ free' = free /\ held' = held
  BY DEF taskVars, slotVars
<1>2. SlotInv' /\ PathInv' /\ AnswerInv' /\ LogInv'
  BY <1>1 DEF IInv, SlotInv, PathInv, AnswerInv, LogInv, IsPrivileged
<1>3. NoActionWithoutIntent' /\ OneTrueVerdict'
  BY <1>1 DEF IInv, NoActionWithoutIntent, OneTrueVerdict, IsPrivileged,
     Intents, Completions
<1>4. LogBracketsOperations'
  BY <1>1 DEF IInv, LogBracketsOperations, Running, IsPrivileged, Intents
<1> QED BY <1>2, <1>3, <1>4

(***************************************************************************)
(* IInv is inductive.                                                      *)
(***************************************************************************)
LEMMA InitInv == Init => IInv
<1> SUFFICES ASSUME Init PROVE IInv
  OBVIOUS
<1>1. TypeOK
  BY InitTypes
<1>2. /\ trail = <<>> /\ pc = [r \in Request |-> "idle"] /\ free = Slots
      /\ reply = [r \in Request |-> "none"] /\ held = {} /\ ran = {}
  BY DEF Init, AuditInit
<1>3. SlotInv
  BY <1>2, FS_EmptySet, BoundAssumption DEF SlotInv
<1>4. PathInv /\ AnswerInv
  BY <1>2 DEF PathInv, AnswerInv, Before, Unrecorded
<1>5. LogInv /\ NoActionWithoutIntent
  BY <1>2 DEF LogInv, NoActionWithoutIntent
<1>6. LogBracketsOperations
  BY <1>2 DEF LogBracketsOperations, Running
<1>7. OneTrueVerdict
  <2> SUFFICES ASSUME NEW r \in Request
               PROVE  /\ Cardinality(Completions(r)) <= 1
                      /\ \A i \in Completions(r) : FALSE
    BY DEF OneTrueVerdict
  <2>1. Completions(r) = {}
    BY <1>2 DEF Completions
  <2>2. Cardinality({}) <= 1
    BY FS_EmptySet
  <2> QED BY <2>1, <2>2
<1> QED BY <1>1, <1>3, <1>4, <1>5, <1>6, <1>7 DEF IInv

LEMMA NextInv == IInv /\ [Next]_vars => IInv'
<1> SUFFICES ASSUME IInv, [Next]_vars PROVE IInv'
  OBVIOUS
<1>1. TypeOK'
  BY NextTypes DEF IInv
<1> SUFFICES /\ SlotInv' /\ PathInv' /\ AnswerInv' /\ LogInv'
             /\ NoActionWithoutIntent' /\ LogBracketsOperations'
             /\ OneTrueVerdict'
  BY <1>1 DEF IInv
<1>2. CASE \E r \in Request : \E in \in Input : Receive(r, in)
  BY <1>2, ReceiveInv
<1>3. CASE \E r \in Request : Step(r)
  BY <1>3, StepSlots, StepPath, StepAnswer, StepLogInv, StepIntent,
     StepBrackets, StepVerdict DEF IInv
<1>4. CASE \E a \in Privileged :
             WindowExpires(a) /\ UNCHANGED <<taskVars, slotVars, crashes>>
  BY <1>4, QuietInv DEF WindowExpires
<1>5. CASE Crash
  BY <1>5, CrashInv
<1>6. CASE UNCHANGED vars
  BY <1>6, QuietInv DEF vars, auditVars
<1> QED BY <1>2, <1>3, <1>4, <1>5, <1>6 DEF Next

LEMMA Invariant == Spec => []IInv
BY InitInv, NextInv, PTL DEF Spec

(***************************************************************************)
(* Whoever is inside a privileged handler holds a slot.                    *)
(***************************************************************************)
LEMMA RunningHoldSlots ==
  ASSUME TypeOK, SlotInv
  PROVE  /\ Running \subseteq held /\ IsFiniteSet(held)
         /\ Cardinality(held) \in Nat /\ Cardinality(held) <= Slots
<1>1. Running \subseteq held
  BY DEF SlotInv, Running
<1>2. IsFiniteSet(held) /\ Cardinality(held) \in Nat /\ free \in Nat
  BY RequestAssumption, FS_Subset, FS_CardinalityType DEF TypeOK
<1> QED BY <1>1, <1>2, BoundAssumption DEF SlotInv

(***************************************************************************)
(* Privileged operations are serialised by the slots: never more than      *)
(* Slots handlers at a time, through refusals, exceptions and kills        *)
(* (_privileged_slots and its finally in ipc_actions.py).                  *)
(***************************************************************************)
THEOREM SlotsSerialise == Spec => []Serialised
<1>1. IInv => Serialised
  <2> SUFFICES ASSUME IInv PROVE Cardinality(Running) <= Slots
    BY DEF Serialised
  <2>1. /\ Running \subseteq held /\ IsFiniteSet(held)
        /\ Cardinality(held) \in Nat /\ Cardinality(held) <= Slots
    BY RunningHoldSlots DEF IInv
  <2>2. Cardinality(Running) <= Cardinality(held) /\ IsFiniteSet(Running)
    BY <2>1, FS_Subset
  <2>3. Cardinality(Running) \in Nat
    BY <2>2, FS_CardinalityType
  <2> QED BY <2>1, <2>2, <2>3, BoundAssumption
<1> QED BY <1>1, Invariant, PTL

(***************************************************************************)
(* No privileged handler is entered without an intent in the log (the      *)
(* fail-closed gate around record_intent in ipc_actions.py).               *)
(***************************************************************************)
THEOREM IntentBeforeAction == Spec => []NoActionWithoutIntent
<1>1. IInv => NoActionWithoutIntent
  BY DEF IInv
<1> QED BY <1>1, Invariant, PTL

(***************************************************************************)
(* With one slot the log brackets the operations: none that ran writes     *)
(* between the intent of another and its end.                              *)
(***************************************************************************)
THEOREM LogIsBracketed == Spec => []LogBracketsOperations
<1>1. IInv => LogBracketsOperations
  BY DEF IInv
<1> QED BY <1>1, Invariant, PTL

(***************************************************************************)
(* A request answered as refused was never carried out: the client may     *)
(* send it again.                                                          *)
(***************************************************************************)
THEOREM RefusalIsSafe == Spec => []RefusedNeverRan
<1>1. IInv => RefusedNeverRan
  BY DEF IInv, AnswerInv, RefusedNeverRan
<1> QED BY <1>1, Invariant, PTL

(***************************************************************************)
(* The log holds at most one verdict per request, and it is the answer     *)
(* the client got.                                                         *)
(***************************************************************************)
THEOREM VerdictIsTrue == Spec => []OneTrueVerdict
<1>1. IInv => OneTrueVerdict
  BY DEF IInv
<1> QED BY <1>1, Invariant, PTL

-----------------------------------------------------------------------------
(***************************************************************************)
(* A record that failed to be written stays missing.                       *)
(***************************************************************************)
LEMMA StepKeepsUnlogged ==
  ASSUME NEW r \in Request, Step(r)
  PROVE  unlogged \subseteq unlogged'
BY DEF Step, Reject, DenyAuth, AuthRaises, RejectParams, Admit, AcquireSlot,
   Busy, LimitDenial, LogDenial, Begin, RefuseUnaudited, IntentRaises,
   HandlerReturns, HandlerRaises, LogCompletion, LogException, Leave,
   LocalStep, LogStep, Record, EncodingRaises

(***************************************************************************)
(* An operation that ran is on its way out once its verdict was recorded,  *)
(* or failed to be, and it gets no further than that.                      *)
(***************************************************************************)
LEMMA StepOut ==
  ASSUME TypeOK, PathInv, NEW r \in Request, Step(r), r \in ran,
         IsPrivileged(r), q[r].plain, pc'[r] \in {"leaving", "done"}
  PROVE  \/ pc[r] = "leaving"
         \/ r \in unlogged'
         \/ \E e : /\ trail' = Append(trail, e)
                   /\ e.event = "completion" /\ e.req = r
<1>1. pc \in [Request -> Stage] /\ pc[r] \notin Before
  BY DEF TypeOK, PathInv
<1>2. ASSUME NEW o, NEW n, Record(r, CompletionOf(r, o, n))
      PROVE  \/ r \in unlogged'
             \/ \E e : /\ trail' = Append(trail, e)
                       /\ e.event = "completion" /\ e.req = r
  BY <1>2 DEF Record, WriteEntry, CompletionOf
<1> USE DEF Goto, LocalStep, LogStep
<1>3. CASE LogCompletion(r) \/ LogException(r)
  BY <1>2, <1>3 DEF LogCompletion, LogException, EncodingRaises
<1>4. CASE Leave(r)
  BY <1>4 DEF Leave
<1>5. CASE HandlerReturns(r) \/ HandlerRaises(r)
  BY <1>1, <1>5 DEF HandlerReturns, HandlerRaises
<1>6. CASE Reject(r) \/ DenyAuth(r) \/ AuthRaises(r) \/ RejectParams(r)
           \/ Admit(r) \/ AcquireSlot(r) \/ Busy(r) \/ LimitDenial(r)
           \/ LogDenial(r) \/ Begin(r) \/ RefuseUnaudited(r) \/ IntentRaises(r)
  BY <1>1, <1>6 DEF Before, Reject, DenyAuth, AuthRaises, RejectParams, Admit,
     AcquireSlot, Busy, LimitDenial, LogDenial, Begin, RefuseUnaudited,
     IntentRaises
<1> QED BY <1>3, <1>4, <1>5, <1>6 DEF Step

(***************************************************************************)
(* What is in the log stays where it is.                                   *)
(***************************************************************************)
LEMMA StepKeepsLog ==
  ASSUME TypeOK, AnswerInv, NEW r \in Request, Step(r), NEW s \in Request
  PROVE  Intents(s) \subseteq Intents(s)' /\ Completions(s) \subseteq Completions(s)'
<1>1. trail \in Seq(Entry)
  BY DEF TypeOK, AuditTypeOK
<1>2. \A k \in DOMAIN trail : k \in DOMAIN trail' /\ trail'[k] = trail[k]
  BY <1>1, StepLog, AppendFacts DEF IntentStep, VerdictStep
<1> QED BY <1>2 DEF Intents, Completions

LEMMA StepRecords ==
  ASSUME IInv, RecordsInv, NEW r \in Request, Step(r)
  PROVE  RecordsInv'
<1>1. /\ TypeOK /\ PathInv /\ AnswerInv /\ NoActionWithoutIntent
      /\ trail \in Seq(Entry) /\ q' = q /\ ran' \subseteq Request
  BY StepInput, StepTypes DEF IInv, TypeOK, AuditTypeOK
<1> DEFINE Paired(s) == \E i \in Intents(s), j \in Completions(s) : i < j
<1> SUFFICES ASSUME NEW s \in ran', IsPrivileged(s)
             PROVE  /\ q[s].plain
                    /\ pc'[s] \in {"leaving", "done"} /\ s \notin unlogged' =>
                         Paired(s)'
  BY <1>1 DEF RecordsInv, IsPrivileged
<1>2. s \in Request
  BY <1>1
<1>3. Paired(s) => Paired(s)'
  BY <1>1, <1>2, StepKeepsLog
<1>4. CASE s \in ran
  <2>1. /\ q[s].plain
        /\ pc[s] \in {"leaving", "done"} /\ s \notin unlogged => Paired(s)
    BY <1>4 DEF RecordsInv
  <2> SUFFICES ASSUME pc'[s] \in {"leaving", "done"}, s \notin unlogged'
               PROVE  Paired(s)'
    BY <2>1
  <2>2. s \notin unlogged
    BY StepKeepsUnlogged
  <2>3. CASE pc[s] \in {"leaving", "done"}
    BY <1>3, <2>1, <2>2, <2>3
  <2>4. CASE pc[s] \notin {"leaving", "done"}
    <3>1. s = r
      BY <1>1, <1>2, <2>4, StepFrame
    <3>2. PICK e : /\ trail' = Append(trail, e)
                   /\ e.event = "completion" /\ e.req = r
      BY <1>1, <1>4, <2>1, <2>4, <3>1, StepOut
    <3>3. PICK i \in Intents(s) : TRUE
      BY <1>1, <1>4 DEF NoActionWithoutIntent
    <3>4. i \in DOMAIN trail /\ i \in Intents(s)'
      BY <1>1, <1>2, <3>3, StepKeepsLog DEF Intents
    <3>5. i < Len(trail) + 1 /\ Len(trail) + 1 \in Completions(s)'
      BY <1>1, <3>1, <3>2, <3>4, AppendFacts DEF Completions
    <3> QED BY <3>4, <3>5
  <2> QED BY <2>3, <2>4
<1>5. CASE s \notin ran
  <2>1. s = r
    BY <1>1, <1>2, <1>5, StepFrame
  <2>2. Begin(r)
    BY <1>1, <1>5, <2>1, StepForward
  <2>3. q[r].plain /\ pc'[r] = "running"
    BY <1>1, <2>2 DEF Begin, Goto, TypeOK
  <2> QED BY <2>1, <2>3
<1> QED BY <1>4, <1>5

LEMMA NextRecords == IInv /\ RecordsInv /\ [Next]_vars => RecordsInv'
<1> SUFFICES ASSUME IInv, RecordsInv, [Next]_vars PROVE RecordsInv'
  OBVIOUS
<1>1. CASE \E r \in Request : \E in \in Input : Receive(r, in)
  <2>1. PICK r \in Request, in \in Input : Receive(r, in)
    BY <1>1
  <2>2. /\ r \notin ran /\ UNCHANGED <<trail, ran, unlogged>>
        /\ \A s \in Request \ {r} : pc'[s] = pc[s] /\ q'[s] = q[s]
        /\ ran \subseteq Request
    BY <2>1 DEF Receive, Goto, auditVars, IInv, TypeOK, PathInv, Before
  <2> QED BY <2>2 DEF RecordsInv, IsPrivileged, Intents, Completions
<1>2. CASE \E r \in Request : Step(r)
  BY <1>2, StepRecords
<1>3. ASSUME UNCHANGED <<trail, q, ran, unlogged>>,
             \A s \in ran : pc'[s] \in {"leaving", "done"} => pc'[s] = pc[s]
      PROVE  RecordsInv'
  BY <1>3 DEF RecordsInv, IsPrivileged, Intents, Completions
<1>4. CASE \E a \in Privileged :
             WindowExpires(a) /\ UNCHANGED <<taskVars, slotVars, crashes>>
  BY <1>3, <1>4 DEF WindowExpires, taskVars
<1>5. CASE Crash
  <2>1. \A s \in Request : pc'[s] = "lost" \/ pc'[s] = pc[s]
    BY <1>5 DEF Crash
  <2> QED BY <1>3, <1>5, <2>1 DEF Crash, AuditRestart, IInv, TypeOK
<1>6. CASE UNCHANGED vars
  BY <1>3, <1>6 DEF vars, auditVars, taskVars
<1> QED BY <1>1, <1>2, <1>4, <1>5, <1>6 DEF Next

(***************************************************************************)
(* A privileged operation that ran and was answered is bracketed by its    *)
(* own intent and verdict in the log, unless an append of it failed        *)
(* (docs/OPS.md: two records per privileged action).                       *)
(***************************************************************************)
THEOREM BothRecordsWritten == Spec => []TwoRecords
<1>1. Init => RecordsInv
  BY DEF Init, RecordsInv
<1>2. RecordsInv => TwoRecords
  BY DEF RecordsInv, TwoRecords
<1> QED BY <1>1, <1>2, NextRecords, Invariant, PTL DEF Spec

-----------------------------------------------------------------------------
(***************************************************************************)
(* How many denials a set of entries, or of requests, stands for.          *)
(***************************************************************************)
LEMMA BehindIs ==
  ASSUME NEW S, NEW n, NEW p
  PROVE  p \in Behind(S, n) <=> \E x \in S : p \in {x} \X (0..n[x])
BY Zenon DEF Behind

LEMMA BehindSame ==
  ASSUME NEW S, NEW n, NEW m, \A x \in S : m[x] = n[x]
  PROVE  Behind(S, m) = Behind(S, n)
<1>1. \A x \in S : {x} \X (0..m[x]) = {x} \X (0..n[x])
  OBVIOUS
<1> QED BY <1>1 DEF Behind

LEMMA BehindAdd ==
  ASSUME NEW S, NEW n, NEW x, x \notin S, n[x] \in Nat, IsFiniteSet(Behind(S, n))
  PROVE  /\ IsFiniteSet(Behind(S \cup {x}, n))
         /\ Cardinality(Behind(S \cup {x}, n)) = Cardinality(Behind(S, n)) + n[x] + 1
<1> DEFINE P == {x} \X (0..n[x])
<1>1. IsFiniteSet(P) /\ Cardinality(P) = n[x] + 1
  <2>1. IsFiniteSet({x}) /\ Cardinality({x}) = 1
    BY FS_Singleton
  <2>2. IsFiniteSet(0..n[x]) /\ Cardinality(0..n[x]) = n[x] + 1
    BY FS_Interval
  <2>3. /\ IsFiniteSet(P)
        /\ Cardinality(P) = Cardinality({x}) * Cardinality(0..n[x])
    BY <2>1, <2>2, FS_Product
  <2>4. Cardinality({x}) * Cardinality(0..n[x]) = 1 * (n[x] + 1)
    BY <2>1, <2>2
  <2> QED BY <2>3, <2>4
<1>2. Behind(S \cup {x}, n) = Behind(S, n) \cup P
  <2>1. ASSUME NEW p PROVE p \in Behind(S \cup {x}, n) <=> p \in Behind(S, n) \cup P
    <3>1. /\ p \in Behind(S \cup {x}, n) <=> \E y \in S \cup {x} : p \in {y} \X (0..n[y])
          /\ p \in Behind(S, n) <=> \E y \in S : p \in {y} \X (0..n[y])
      BY BehindIs
    <3> QED BY <3>1, Zenon
  <2> QED BY <2>1
<1>3. Behind(S, n) \cap P = {}
  <2> SUFFICES ASSUME NEW p \in Behind(S, n), p \in P PROVE FALSE
    OBVIOUS
  <2>1. PICK y \in S : p \in {y} \X (0..n[y])
    BY BehindIs
  <2>2. p[1] = y /\ p[1] = x
    BY <2>1
  <2> QED BY <2>2
<1> HIDE DEF P
<1>4. /\ IsFiniteSet(Behind(S, n) \cup P)
      /\ Cardinality(Behind(S, n) \cup P)
           = Cardinality(Behind(S, n)) + Cardinality(P) - Cardinality({})
  BY <1>1, <1>3, FS_Union
<1>5. Cardinality(Behind(S, n)) \in Nat /\ Cardinality({}) = 0
  BY FS_CardinalityType, FS_EmptySet
<1> DEFINE old == Cardinality(Behind(S, n))
<1>6. old + Cardinality(P) - Cardinality({}) = old + n[x] + 1
  BY <1>1, <1>5
<1> QED BY <1>2, <1>4, <1>6

LEMMA BehindRemove ==
  ASSUME NEW S, NEW n, NEW x \in S, n[x] \in Nat, IsFiniteSet(Behind(S, n))
  PROVE  /\ IsFiniteSet(Behind(S \ {x}, n))
         /\ Cardinality(Behind(S, n)) = Cardinality(Behind(S \ {x}, n)) + n[x] + 1
<1>1. Behind(S \ {x}, n) \subseteq Behind(S, n)
  BY DEF Behind
<1>2. IsFiniteSet(Behind(S \ {x}, n))
  BY <1>1, FS_Subset
<1>3. (S \ {x}) \cup {x} = S /\ x \notin S \ {x}
  OBVIOUS
<1>4. Cardinality(Behind((S \ {x}) \cup {x}, n)) = Cardinality(Behind(S \ {x}, n)) + n[x] + 1
  BY <1>2, <1>3, BehindAdd
<1> QED BY <1>2, <1>3, <1>4

(***************************************************************************)
(* Denials that nothing happens to.                                        *)
(***************************************************************************)
Unmoved(a) ==
  /\ Denied(a)' = Denied(a) /\ OnTheWay(a)' = OnTheWay(a)
  /\ DenialEntries(a)' = DenialEntries(a)
  /\ suppressed'[a] = suppressed[a]
  /\ \A s \in OnTheWay(a) : folded'[s] = folded[s]
  /\ \A i \in DenialEntries(a) : FoldedIn'[i] = FoldedIn[i]

LEMMA UnmovedBalance ==
  ASSUME NEW a \in Privileged, Balanced(a), Unmoved(a)
  PROVE  Balanced(a)'
<1>1. Behind(DenialEntries(a)', FoldedIn') = Behind(DenialEntries(a), FoldedIn)
  BY BehindSame DEF Unmoved
<1>2. Behind(OnTheWay(a)', folded') = Behind(OnTheWay(a), folded)
  BY BehindSame DEF Unmoved
<1> QED BY <1>1, <1>2 DEF Balanced, Unmoved

LEMMA StepDenialAnswers ==
  ASSUME TypeOK, AnswerInv, DenialAnswers, NEW r \in Request, Step(r)
  PROVE  DenialAnswers'
<1>1. pc \in [Request -> Stage] /\ reply \in [Request -> Reply]
  BY DEF TypeOK
<1> SUFFICES ASSUME NEW s \in Request
             PROVE  /\ pc'[s] \in {"denying", "logdenial"} => reply'[s] \in Denial
                    /\ pc'[s] = "completing" => reply'[s] \notin Denial
  BY DEF DenialAnswers
<1>2. CASE s # r
  BY <1>2, StepFrame DEF DenialAnswers
<1>3. CASE s = r
  <2> USE DEF DenialAnswers, Denial, Goto, Answer, LocalStep, LogStep
  <2>1. CASE Reject(r) \/ DenyAuth(r) \/ AuthRaises(r) \/ RejectParams(r)
    BY <1>1, <1>3, <2>1 DEF Reject, DenyAuth, AuthRaises, RejectParams
  <2>2. CASE Admit(r) \/ AcquireSlot(r) \/ Busy(r)
    BY <1>1, <1>3, <2>2 DEF Admit, AcquireSlot, Busy
  <2>3. CASE LimitDenial(r) \/ LogDenial(r)
    BY <1>1, <1>3, <2>3 DEF LimitDenial, LogDenial
  <2>4. CASE Begin(r) \/ RefuseUnaudited(r) \/ IntentRaises(r)
    BY <1>1, <1>3, <2>4 DEF Begin, RefuseUnaudited, IntentRaises
  <2>5. CASE HandlerReturns(r) \/ HandlerRaises(r)
    BY <1>1, <1>3, <2>5 DEF HandlerReturns, HandlerRaises
  <2>6. CASE LogCompletion(r) \/ LogException(r) \/ Leave(r)
    BY <1>1, <1>3, <2>6 DEF LogCompletion, LogException, Leave
  <2> QED BY <2>1, <2>2, <2>3, <2>4, <2>5, <2>6 DEF Step
<1> QED BY <1>2, <1>3

(***************************************************************************)
(* Outside the limiter a thread makes no denial, and takes none away.      *)
(***************************************************************************)
LEMMA StepElsewhere ==
  ASSUME TypeOK, AnswerInv, DenialAnswers, NEW r \in Request, Step(r),
         pc[r] \notin {"denying", "logdenial"}
  PROVE  /\ folded' = folded /\ suppressed' = suppressed
         /\ pc'[r] # "logdenial"
         /\ pc'[r] \in {"leaving", "done"} /\ reply'[r] \in Denial
              <=> pc[r] \in {"leaving", "done"} /\ reply[r] \in Denial
<1>1. pc \in [Request -> Stage] /\ reply \in [Request -> Reply]
  BY DEF TypeOK
<1> USE DEF AnswerInv, DenialAnswers, Denial, Goto, Answer, LocalStep, LogStep,
            auditVars
<1>2. CASE Reject(r) \/ DenyAuth(r) \/ AuthRaises(r) \/ RejectParams(r)
  BY <1>1, <1>2 DEF Reject, DenyAuth, AuthRaises, RejectParams
<1>3. CASE Admit(r) \/ AcquireSlot(r) \/ Busy(r)
  BY <1>1, <1>3 DEF Admit, AcquireSlot, Busy
<1>4. CASE Begin(r) \/ RefuseUnaudited(r) \/ IntentRaises(r)
  BY <1>1, <1>4 DEF Begin, RefuseUnaudited, IntentRaises
<1>5. CASE HandlerReturns(r) \/ HandlerRaises(r)
  BY <1>1, <1>5 DEF HandlerReturns, HandlerRaises
<1>6. CASE LogCompletion(r) \/ LogException(r) \/ Leave(r)
  BY <1>1, <1>6 DEF LogCompletion, LogException, Leave
<1> QED BY <1>2, <1>3, <1>4, <1>5, <1>6 DEF Step, LimitDenial, LogDenial

(***************************************************************************)
(* The denials of the other requests, and the entries of the log, stay.    *)
(***************************************************************************)
LEMMA StepKeepsDenials ==
  ASSUME TypeOK, AnswerInv, NEW r \in Request, Step(r), NEW a \in Privileged
  PROVE  /\ \A s \in Request \ {r} :
              /\ s \in Denied(a)' <=> s \in Denied(a)
              /\ s \in OnTheWay(a)' <=> s \in OnTheWay(a)
         /\ \A i \in DOMAIN trail :
              /\ i \in DOMAIN trail' /\ FoldedIn'[i] = FoldedIn[i]
              /\ i \in DenialEntries(a)' <=> i \in DenialEntries(a)
<1>1. \A s \in Request \ {r} : /\ s \in Denied(a)' <=> s \in Denied(a)
                               /\ s \in OnTheWay(a)' <=> s \in OnTheWay(a)
  BY StepFrame, StepInput DEF Denied, OnTheWay
<1>2. trail \in Seq(Entry)
  BY DEF TypeOK, AuditTypeOK
<1>3. \A i \in DOMAIN trail : i \in DOMAIN trail' /\ trail'[i] = trail[i]
  BY <1>2, StepLog, AppendFacts DEF IntentStep, VerdictStep
<1>4. \A i \in DOMAIN trail : /\ FoldedIn'[i] = FoldedIn[i]
                              /\ i \in DenialEntries(a)' <=> i \in DenialEntries(a)
  BY <1>3, StepInput DEF FoldedIn, DenialEntries
<1> QED BY <1>1, <1>3, <1>4

(***************************************************************************)
(* A thread in the limiter goes through it, and none becomes idle.         *)
(***************************************************************************)
LEMMA StepAt ==
  ASSUME NEW r \in Request, Step(r)
  PROVE  /\ pc[r] = "denying" => LimitDenial(r)
         /\ pc[r] = "logdenial" => LogDenial(r)
BY DEF Step, Reject, DenyAuth, AuthRaises, RejectParams, Admit, AcquireSlot,
   Busy, LimitDenial, LogDenial, Begin, RefuseUnaudited, IntentRaises,
   HandlerReturns, HandlerRaises, LogCompletion, LogException, Leave

LEMMA StepStarted ==
  ASSUME TypeOK, NEW r \in Request, Step(r)
  PROVE  pc'[r] # "idle"
<1>1. pc \in [Request -> Stage]
  BY DEF TypeOK
<1> QED BY <1>1 DEF Step, Reject, DenyAuth, AuthRaises, RejectParams, Admit,
        AcquireSlot, Busy, LimitDenial, LogDenial, Begin, RefuseUnaudited,
        IntentRaises, HandlerReturns, HandlerRaises, LogCompletion, LogException,
        Leave, Goto

LEMMA StepKeepsOthers ==
  ASSUME TypeOK, AnswerInv, NEW r \in Request, Step(r), NEW a \in Privileged
  PROVE  /\ Denied(a)' \ {r} = Denied(a) \ {r}
         /\ OnTheWay(a)' \ {r} = OnTheWay(a) \ {r}
<1>1. /\ Denied(a) \subseteq Request /\ Denied(a)' \subseteq Request
      /\ OnTheWay(a) \subseteq Request /\ OnTheWay(a)' \subseteq Request
  BY DEF Denied, OnTheWay
<1> QED BY <1>1, StepKeepsDenials

LEMMA ElsewhereUnmoved ==
  ASSUME TypeOK, AnswerInv, DenialAnswers, NEW r \in Request, Step(r),
         pc[r] \notin {"denying", "logdenial"}, NEW a \in Privileged
  PROVE  Unmoved(a)
<1>1. /\ folded' = folded /\ suppressed' = suppressed /\ q' = q
      /\ r \in Denied(a)' <=> r \in Denied(a)
      /\ r \notin OnTheWay(a)' /\ r \notin OnTheWay(a)
  BY StepElsewhere, StepInput DEF Denied, OnTheWay, Denial
<1>2. Denied(a)' = Denied(a) /\ OnTheWay(a)' = OnTheWay(a)
  BY <1>1, StepKeepsOthers
<1>3. DenialEntries(a)' = DenialEntries(a)
  <2>1. trail \in Seq(Entry)
    BY DEF TypeOK, AuditTypeOK
  <2>2. ASSUME NEW i \in DOMAIN trail', i \notin DOMAIN trail
        PROVE  trail'[i].outcome # "denied"
    <3>1. IntentStep(r) \/ VerdictStep(r)
      BY <2>2, StepLog
    <3>2. \E e : trail' = Append(trail, e) /\ e.outcome # "denied"
      <4>1. CASE IntentStep(r)
        BY <4>1 DEF IntentStep, IntentOf
      <4>2. CASE VerdictStep(r)
        <5>1. PICK o \in {"ok", "error"}, n \in Nat :
                trail' = Append(trail, CompletionOf(r, o, n))
          BY <4>2 DEF VerdictStep
        <5>2. CompletionOf(r, o, n).outcome # "denied"
          BY DEF CompletionOf
        <5> QED BY <5>1, <5>2
      <4> QED BY <3>1, <4>1, <4>2
    <3> QED BY <2>1, <2>2, <3>2, AppendFacts
  <2>3. DenialEntries(a) \subseteq DOMAIN trail
    BY DEF DenialEntries
  <2>4. \A i \in DenialEntries(a)' : i \in DOMAIN trail' /\ trail'[i].outcome = "denied"
    BY DEF DenialEntries
  <2> QED BY <2>2, <2>3, <2>4, StepKeepsDenials
<1>4. DenialEntries(a) \subseteq DOMAIN trail
  BY DEF DenialEntries
<1> QED BY <1>1, <1>2, <1>3, <1>4, StepKeepsDenials DEF Unmoved

(***************************************************************************)
(* The limiter counts the denial, or sends it on its way with the count.   *)
(***************************************************************************)
LEMMA LimitBalance ==
  ASSUME TypeOK, PathInv, AnswerInv, DenialAnswers, NEW r \in Request, LimitDenial(r),
         NEW a \in Privileged, Balanced(a)
  PROVE  Balanced(a)'
<1>1. /\ Step(r) /\ pc[r] = "denying" /\ reply'[r] = reply[r] /\ reply[r] \in Denial
      /\ trail' = trail /\ q' = q /\ q[r].action \in Action
      /\ suppressed \in [Action -> Nat] /\ a \in Action
      /\ pc \in [Request -> Stage] /\ folded \in [Request -> Nat]
  BY InputAssumption, ActionAssumption DEF Step, LimitDenial, DenialAnswers, TypeOK,
     AuditTypeOK, InputType
<1>2. /\ DenialEntries(a)' = DenialEntries(a) /\ FoldedIn' = FoldedIn
      /\ DenialEntries(a) \subseteq DOMAIN trail
  BY <1>1 DEF DenialEntries, FoldedIn
<1>3. /\ r \notin Denied(a) /\ r \notin OnTheWay(a)
      /\ OnTheWay(a) \subseteq Request /\ IsFiniteSet(Denied(a))
  BY <1>1, RequestAssumption, FS_Subset DEF Denied, OnTheWay
<1>0. /\ Denied(a)' \ {r} = Denied(a) \ {r}
      /\ OnTheWay(a)' \ {r} = OnTheWay(a) \ {r}
  BY <1>1, StepKeepsOthers
<1>4. CASE q[r].action # a
  <2>1. suppressed'[a] = suppressed[a] /\ \A s \in Request \ {r} : folded'[s] = folded[s]
    BY <1>1, <1>4 DEF LimitDenial, SuppressDenial, AllowDenial
  <2>2. r \notin Denied(a)' /\ r \notin OnTheWay(a)'
    BY <1>1, <1>4 DEF Denied, OnTheWay
  <2>3. Denied(a)' = Denied(a) /\ OnTheWay(a)' = OnTheWay(a)
    BY <1>0, <1>3, <2>2
  <2> QED BY <1>2, <1>3, <2>1, <2>3, UnmovedBalance DEF Unmoved
<1>5. CASE q[r].action = a
  <2>1. r \in Denied(a)'
    BY <1>1, <1>5 DEF LimitDenial, Goto, Denied, Denial
  <2>2. Denied(a)' = Denied(a) \cup {r}
    BY <1>0, <1>3, <2>1
  <2>3. Cardinality(Denied(a)') = Cardinality(Denied(a)) + 1
    BY <1>3, <2>2, FS_AddElement
  <2>4. /\ Cardinality(Behind(DenialEntries(a), FoldedIn)) \in Nat
        /\ Cardinality(Behind(OnTheWay(a), folded)) \in Nat /\ suppressed[a] \in Nat
    BY <1>1, FS_CardinalityType DEF Balanced
  <2>5. CASE SuppressDenial(a) /\ Goto(r, "leaving") /\ UNCHANGED folded
    <3>1. OnTheWay(a)' = OnTheWay(a)
      <4>1. r \notin OnTheWay(a)'
        BY <1>1, <2>5 DEF Goto, OnTheWay
      <4> QED BY <1>0, <1>3, <4>1
    <3>2. suppressed'[a] = suppressed[a] + 1
      BY <1>1, <2>5 DEF SuppressDenial
    <3> QED BY <1>2, <2>3, <2>4, <2>5, <3>1, <3>2 DEF Balanced
  <2>6. CASE /\ AllowDenial(a) /\ Goto(r, "logdenial")
             /\ folded' = [folded EXCEPT ![r] = suppressed[a]]
    <3>1. OnTheWay(a)' = OnTheWay(a) \cup {r}
      <4>1. r \in OnTheWay(a)'
        BY <1>1, <2>1, <2>6 DEF Goto, OnTheWay
      <4> QED BY <1>0, <1>3, <4>1
    <3>2. /\ suppressed'[a] = 0 /\ folded'[r] = suppressed[a]
          /\ \A s \in OnTheWay(a) : folded'[s] = folded[s]
      BY <1>1, <1>3, <2>6 DEF AllowDenial
    <3>3. Behind(OnTheWay(a), folded') = Behind(OnTheWay(a), folded)
      BY <3>2, BehindSame
    <3>4. /\ IsFiniteSet(Behind(OnTheWay(a) \cup {r}, folded'))
          /\ Cardinality(Behind(OnTheWay(a) \cup {r}, folded'))
               = Cardinality(Behind(OnTheWay(a), folded')) + folded'[r] + 1
      <4>1. IsFiniteSet(Behind(OnTheWay(a), folded'))
        BY <3>3 DEF Balanced
      <4>2. folded'[r] \in Nat
        BY <2>4, <3>2
      <4>3. r \notin OnTheWay(a)
        BY <1>3
      <4>4. ASSUME NEW f, NEW S, r \notin S, f[r] \in Nat, IsFiniteSet(Behind(S, f))
            PROVE  /\ IsFiniteSet(Behind(S \cup {r}, f))
                   /\ Cardinality(Behind(S \cup {r}, f))
                        = Cardinality(Behind(S, f)) + f[r] + 1
        BY <4>4, BehindAdd
      <4>5. IsFiniteSet(Behind(OnTheWay(a) \cup {r}, folded'))
        BY <4>1, <4>2, <4>3, <4>4
      <4> QED BY <4>1, <4>2, <4>3, <4>4, <4>5
    <3> QED BY <1>2, <2>3, <2>4, <3>1, <3>2, <3>3, <3>4 DEF Balanced
  <2> QED BY <1>5, <2>5, <2>6 DEF LimitDenial
<1> QED BY <1>4, <1>5

(***************************************************************************)
(* The entry of a denial takes over what was on the way.                   *)
(***************************************************************************)
LEMMA LogBalance ==
  ASSUME TypeOK, PathInv, AnswerInv, DenialAnswers, NEW r \in Request, LogDenial(r),
         q[r].plain, r \notin unlogged', NEW a \in Privileged, Balanced(a)
  PROVE  Balanced(a)'
<1> DEFINE e == CompletionOf(r, "denied", folded[r])
           k == Len(trail) + 1
<1>1. /\ Step(r) /\ pc[r] = "logdenial" /\ pc'[r] = "leaving" /\ reply'[r] = reply[r]
      /\ reply[r] \in Denial /\ trail' = Append(trail, e) /\ q' = q
      /\ folded' = folded /\ suppressed' = suppressed /\ trail \in Seq(Entry)
  BY DEF Step, LogDenial, DenialAnswers, TypeOK, AuditTypeOK, Goto, LogStep, Record,
     EncodingRaises, WriteEntry
<1>2. e.outcome = "denied" /\ e.req = r /\ e.folded = folded[r]
  BY DEF CompletionOf
<1> HIDE DEF e
<1>3. /\ DOMAIN trail' = DOMAIN trail \cup {k} /\ k \notin DOMAIN trail
      /\ trail'[k] = e /\ DenialEntries(a) \subseteq DOMAIN trail
      /\ DenialEntries(a)' \subseteq DOMAIN trail'
  BY <1>1, AppendFacts DEF DenialEntries
<1>4. /\ r \in Denied(a)' <=> r \in Denied(a)
      /\ r \notin OnTheWay(a)' /\ (r \in OnTheWay(a) <=> q[r].action = a)
  BY <1>1 DEF Denied, OnTheWay, Denial
<1>5. Denied(a)' = Denied(a) /\ OnTheWay(a)' = OnTheWay(a) \ {r}
  <2>1. /\ Denied(a)' \ {r} = Denied(a) \ {r}
        /\ OnTheWay(a)' \ {r} = OnTheWay(a) \ {r}
    BY <1>1, StepKeepsOthers
  <2> QED BY <1>4, <2>1
<1>6. /\ Cardinality(Behind(DenialEntries(a), FoldedIn)) \in Nat
      /\ Cardinality(Behind(OnTheWay(a), folded)) \in Nat /\ suppressed[a] \in Nat
  BY ActionAssumption, FS_CardinalityType DEF Balanced, TypeOK, AuditTypeOK
<1>7. \A i \in DenialEntries(a) : FoldedIn'[i] = FoldedIn[i]
  BY <1>1, <1>3, StepKeepsDenials
<1>8. CASE q[r].action # a
  <2>1. k \notin DenialEntries(a)'
    BY <1>1, <1>2, <1>3, <1>8 DEF DenialEntries
  <2>2. DenialEntries(a)' = DenialEntries(a)
    BY <1>1, <1>3, <2>1, StepKeepsDenials
  <2>3. OnTheWay(a)' = OnTheWay(a)
    BY <1>4, <1>5, <1>8
  <2> QED BY <1>1, <1>5, <1>7, <2>2, <2>3, UnmovedBalance DEF Unmoved
<1>9. CASE q[r].action = a
  <2>1. k \in DenialEntries(a)'
    BY <1>1, <1>2, <1>3, <1>9 DEF DenialEntries
  <2>2. DenialEntries(a)' = DenialEntries(a) \cup {k}
    BY <1>1, <1>3, <2>1, StepKeepsDenials
  <2>3. FoldedIn'[k] = folded[r] /\ folded[r] \in Nat
    BY <1>2, <1>3 DEF FoldedIn, TypeOK
  <2>4. Behind(DenialEntries(a), FoldedIn') = Behind(DenialEntries(a), FoldedIn)
    BY <1>7, BehindSame
  <2>5. /\ IsFiniteSet(Behind(DenialEntries(a) \cup {k}, FoldedIn'))
        /\ Cardinality(Behind(DenialEntries(a) \cup {k}, FoldedIn'))
             = Cardinality(Behind(DenialEntries(a), FoldedIn)) + folded[r] + 1
    <3>1. k \notin DenialEntries(a) /\ IsFiniteSet(Behind(DenialEntries(a), FoldedIn'))
      BY <1>3, <2>4 DEF Balanced
    <3>2. FoldedIn'[k] \in Nat
      BY <2>3
    <3> QED BY <2>3, <2>4, <3>1, <3>2, BehindAdd
  <2>6. /\ IsFiniteSet(Behind(OnTheWay(a) \ {r}, folded))
        /\ Cardinality(Behind(OnTheWay(a), folded))
             = Cardinality(Behind(OnTheWay(a) \ {r}, folded)) + folded[r] + 1
    <3>1. r \in OnTheWay(a) /\ IsFiniteSet(Behind(OnTheWay(a), folded))
      BY <1>4, <1>9 DEF Balanced
    <3>2. folded[r] \in Nat
      BY <2>3
    <3> QED BY <3>1, <3>2, BehindRemove
  <2>7. Cardinality(Behind(OnTheWay(a) \ {r}, folded)) \in Nat
    BY <2>6, FS_CardinalityType
  <2> QED BY <1>1, <1>5, <1>6, <2>2, <2>3, <2>5, <2>6, <2>7 DEF Balanced
<1> QED BY <1>8, <1>9

LEMMA StepDenials ==
  ASSUME IInv, DenialInv, NEW r \in Request, Step(r)
  PROVE  DenialInv'
<1>1. TypeOK /\ PathInv /\ AnswerInv /\ DenialAnswers
  BY DEF IInv, DenialInv
<1>2. DenialAnswers'
  BY <1>1, StepDenialAnswers
<1> SUFFICES ASSUME NothingLost', NEW a \in Privileged PROVE Balanced(a)'
  BY <1>2 DEF DenialInv
<1>3. NothingLost
  <2>1. q' = q /\ unlogged = {}
    BY StepInput, StepKeepsUnlogged DEF NothingLost
  <2>2. crashes' = crashes
    BY DEF Step, Reject, DenyAuth, AuthRaises, RejectParams, Admit, AcquireSlot,
       Busy, LimitDenial, LogDenial, Begin, RefuseUnaudited, IntentRaises,
       HandlerReturns, HandlerRaises, LogCompletion, LogException, Leave,
       LocalStep, LogStep
  <2>3. \A s \in Request : pc[s] # "idle" => pc'[s] # "idle"
    <3>1. pc[r] # "idle" => pc'[r] # "idle"
      BY <1>1, StepStarted
    <3> QED BY <1>1, <3>1, StepFrame
  <2> QED BY <2>1, <2>2, <2>3 DEF NothingLost
<1>4. Balanced(a)
  BY <1>3 DEF DenialInv
<1>5. CASE pc[r] = "denying"
  <2>1. LimitDenial(r)
    BY <1>5, StepAt
  <2> QED BY <1>1, <1>4, <2>1, LimitBalance
<1>6. CASE pc[r] = "logdenial"
  <2>1. LogDenial(r)
    BY <1>6, StepAt
  <2>2. q[r].plain /\ r \notin unlogged'
    BY <1>3, <1>6 DEF NothingLost
  <2> QED BY <1>1, <1>4, <2>1, <2>2, LogBalance
<1>7. CASE pc[r] \notin {"denying", "logdenial"}
  BY <1>1, <1>4, <1>7, ElsewhereUnmoved, UnmovedBalance
<1> QED BY <1>5, <1>6, <1>7

LEMMA NextDenials == IInv /\ DenialInv /\ [Next]_vars => DenialInv'
<1> SUFFICES ASSUME IInv, DenialInv, [Next]_vars PROVE DenialInv'
  OBVIOUS
<1>0. TypeOK /\ LogInv /\ DenialAnswers
  BY DEF IInv, DenialInv
<1>1. CASE \E r \in Request : \E in \in Input : Receive(r, in)
  <2>1. PICK r \in Request, in \in Input : Receive(r, in)
    BY <1>1
  <2>2. /\ pc[r] = "idle" /\ pc'[r] = "received"
        /\ \A s \in Request \ {r} : pc'[s] = pc[s] /\ q'[s] = q[s]
        /\ UNCHANGED <<trail, suppressed, reply, folded, unlogged, crashes>>
    BY <1>0, <2>1 DEF Receive, Goto, auditVars, TypeOK
  <2>3. DenialAnswers'
    BY <1>0, <2>2 DEF DenialAnswers
  <2>4. NothingLost' => NothingLost
    BY <2>2 DEF NothingLost
  <2>5. ASSUME NEW a \in Privileged PROVE Unmoved(a)
    <3>1. Denied(a)' = Denied(a) /\ OnTheWay(a)' = OnTheWay(a)
      BY <2>2 DEF Denied, OnTheWay
    <3>2. \A i \in DOMAIN trail : trail[i].req \in Request \ {r}
      BY <1>0, <2>2, RequestAt DEF LogInv, Before
    <3>3. DenialEntries(a)' = DenialEntries(a) /\ FoldedIn' = FoldedIn
      BY <2>2, <3>2 DEF DenialEntries, FoldedIn
    <3> QED BY <2>2, <3>1, <3>3 DEF Unmoved
  <2> QED BY <2>3, <2>4, <2>5, UnmovedBalance DEF DenialInv
<1>2. CASE \E r \in Request : Step(r)
  BY <1>2, StepDenials
<1>3. CASE UNCHANGED <<trail, suppressed, q, pc, reply, folded, unlogged, crashes>>
  <2>1. DenialAnswers' /\ (NothingLost' => NothingLost)
    BY <1>0, <1>3 DEF DenialAnswers, NothingLost
  <2>2. ASSUME NEW a \in Privileged PROVE Unmoved(a)
    BY <1>3 DEF Unmoved, Denied, OnTheWay, DenialEntries, FoldedIn
  <2> QED BY <2>1, <2>2, UnmovedBalance DEF DenialInv
<1>4. CASE \E a \in Privileged :
             WindowExpires(a) /\ UNCHANGED <<taskVars, slotVars, crashes>>
  BY <1>3, <1>4 DEF WindowExpires, taskVars
<1>5. CASE Crash
  <2>1. crashes' # 0
    BY <1>0, <1>5 DEF Crash, TypeOK
  <2>2. DenialAnswers'
    BY <1>0, <1>5 DEF Crash, DenialAnswers
  <2> QED BY <2>1, <2>2 DEF DenialInv, NothingLost
<1>6. CASE UNCHANGED vars
  BY <1>3, <1>6 DEF vars, auditVars, taskVars
<1> QED BY <1>1, <1>2, <1>4, <1>5, <1>6 DEF Next

(***************************************************************************)
(* Every denial that went through the limiter is an entry, folded into     *)
(* one, counted or on its way (audit_log.py 89), as long as none is lost.  *)
(***************************************************************************)
THEOREM DenialsAddUp == Spec => []DenialsConserved
<1>1. Init => DenialInv
  <2> SUFFICES ASSUME Init PROVE DenialInv
    OBVIOUS
  <2>1. DenialAnswers
    BY DEF Init, DenialAnswers
  <2>2. ASSUME NEW a \in Privileged PROVE Balanced(a)
    <3>1. Denied(a) = {} /\ OnTheWay(a) = {} /\ DenialEntries(a) = {}
      BY DEF Init, AuditInit, Denied, OnTheWay, DenialEntries
    <3>2. \A n : Behind({}, n) = {}
      BY DEF Behind
    <3>3. suppressed[a] = 0
      BY ActionAssumption DEF Init, AuditInit
    <3> QED BY <3>1, <3>2, <3>3, FS_EmptySet DEF Balanced
  <2> QED BY <2>1, <2>2 DEF DenialInv
<1>2. DenialInv => DenialsConserved
  BY DEF DenialInv, DenialsConserved, Balanced
<1> QED BY <1>1, <1>2, NextDenials, Invariant, PTL DEF Spec

-----------------------------------------------------------------------------
(***************************************************************************)
(* The sets of PrivilegedGate, as functions of the state of Dispatch.      *)
(***************************************************************************)
Announced == {r \in Request : Intents(r) # {}}
Entered == {r \in ran : IsPrivileged(r)}

(***************************************************************************)
(* A request is announced by its own intent and by nothing else.           *)
(***************************************************************************)
LEMMA StepAnnounced ==
  ASSUME TypeOK, AnswerInv, NEW r \in Request, Step(r)
  PROVE  Announced' = Announced
         \/ (IntentStep(r) /\ Announced' = Announced \cup {r})
<1>1. trail \in Seq(Entry)
  BY DEF TypeOK, AuditTypeOK
<1>2. CASE trail' = trail
  BY <1>2 DEF Announced, Intents
<1>3. CASE IntentStep(r)
  <2>1. trail' = Append(trail, IntentOf(r))
    BY <1>3 DEF IntentStep
  <2>2. ASSUME NEW s \in Request, s # r PROVE Intents(s)' = Intents(s)
    BY <1>1, <2>1, <2>2, AppendFacts DEF Intents, IntentOf
  <2>3. Len(trail) + 1 \in Intents(r)'
    BY <1>1, <2>1, AppendFacts DEF Intents, IntentOf
  <2>4. Announced' = Announced \cup {r}
    BY <2>2, <2>3 DEF Announced
  <2> QED BY <1>3, <2>4
<1>4. CASE VerdictStep(r)
  <2>1. PICK o \in {"ok", "error", "denied"}, n \in Nat :
          trail' = Append(trail, CompletionOf(r, o, n))
    BY <1>4 DEF VerdictStep
  <2>2. ASSUME NEW s \in Request PROVE Intents(s)' = Intents(s)
    BY <1>1, <2>1, AppendFacts DEF Intents, CompletionOf
  <2> QED BY <2>2 DEF Announced
<1> QED BY <1>2, <1>3, <1>4, StepLog

(***************************************************************************)
(* A step of a thread is an Enter, an Announce or an Exit of its request,  *)
(* or a stutter.                                                           *)
(***************************************************************************)
LEMMA StepGate ==
  ASSUME IInv, NEW r \in Request, Step(r)
  PROVE  Gate!Next \/ UNCHANGED Gate!vars
<1>1. TypeOK /\ SlotInv /\ PathInv /\ AnswerInv
  BY DEF IInv
<1>2. q' = q /\ ran \subseteq Request /\ ran' \subseteq Request
  BY <1>1, StepInput, StepTypes DEF TypeOK
<1>3. ASSUME NEW s \in Request \ {r}
      PROVE  /\ s \in Running' <=> s \in Running
             /\ s \in Entered' <=> s \in Entered
  BY <1>1, <1>2, <1>3, StepFrame DEF Running, Entered, IsPrivileged
<1>4. r \in Entered => r \in Entered'
  BY <1>1, <1>2, StepKeepsRan DEF Entered, IsPrivileged
<1>5. Running \subseteq Request /\ Running' \subseteq Request
      /\ Entered \subseteq Request /\ Entered' \subseteq Request
  BY <1>2 DEF Running, Entered
<1>6. CASE Begin(r)
  <2>1. /\ pc[r] = "intent" /\ pc'[r] = "running" /\ r \in ran'
        /\ trail' = Append(trail, IntentOf(r))
    BY <1>1, <1>6 DEF Begin, Goto, WriteEntry, TypeOK
  <2>2. IsPrivileged(r) /\ r \notin ran /\ r \in held
    BY <1>1, <2>1 DEF PathInv, SlotInv, Before, Unrecorded
  <2>3. r \notin Entered /\ r \in Entered' /\ r \notin Running /\ r \in Running'
    BY <1>2, <2>1, <2>2 DEF Entered, Running, IsPrivileged
  <2>4. Running' = Running \cup {r} /\ Entered' = Entered \cup {r}
    BY <1>3, <1>5, <2>3
  <2>5. r \in Announced'
    <3>1. trail \in Seq(Entry)
      BY <1>1 DEF TypeOK, AuditTypeOK
    <3>2. Len(trail) + 1 \in Intents(r)'
      BY <2>1, <3>1, AppendFacts DEF Intents, IntentOf
    <3> QED BY <3>2 DEF Announced
  <2>6. Announced' = Announced \cup {r}
    BY <1>1, <2>5, StepAnnounced
  <2>7. Cardinality(Running) < Slots
    <3>1. /\ Running \subseteq held \ {r} /\ IsFiniteSet(held)
          /\ Cardinality(held) \in Nat /\ Cardinality(held) <= Slots
      BY <1>1, <2>3, RunningHoldSlots
    <3>2. IsFiniteSet(held \ {r}) /\ Cardinality(held \ {r}) = Cardinality(held) - 1
      BY <2>2, <3>1, FS_RemoveElement
    <3>3. Cardinality(Running) <= Cardinality(held \ {r}) /\ IsFiniteSet(Running)
      BY <3>1, <3>2, FS_Subset
    <3>4. Cardinality(Running) \in Nat
      BY <3>3, FS_CardinalityType
    <3> QED BY <3>1, <3>2, <3>3, <3>4, BoundAssumption
  <2>8. Gate!Enter(r)
    <3>1. /\ r \notin {s \in ran : IsPrivileged(s)}
          /\ {s \in ran : IsPrivileged(s)}' = {s \in ran : IsPrivileged(s)} \cup {r}
      BY <2>3, <2>4 DEF Entered
    <3>2. {s \in Request : Intents(s) # {}}'
            = {s \in Request : Intents(s) # {}} \cup {r}
      BY <2>6 DEF Announced
    <3>3. Gate!Cardinality(Running) < Slots
      BY <2>7 DEF Gate!Cardinality, Cardinality
    <3> QED BY <2>4, <3>1, <3>2, <3>3 DEF Gate!Enter
  <2> QED BY <2>8 DEF Gate!Next
<1>7. CASE ~Begin(r)
  <2>1. r \notin Running' /\ (r \in Entered' => r \in Entered)
    BY <1>1, <1>2, <1>7, StepForward DEF Running, Entered, IsPrivileged
  <2>2. Running' = Running \ {r} /\ Entered' = Entered
    BY <1>3, <1>4, <1>5, <2>1
  <2>3. CASE IntentStep(r) /\ Announced' = Announced \cup {r}
    <3>1. r \notin Running /\ r \notin Entered
      BY <1>1, <2>3 DEF IntentStep, PathInv, Running, Entered, Before
    <3>2. Gate!Announce(r)
      BY <2>2, <2>3, <3>1 DEF Gate!Announce, Announced, Entered
    <3> QED BY <3>2 DEF Gate!Next
  <2>4. CASE Announced' = Announced /\ r \in Running
    <3>1. Gate!Exit(r)
      BY <2>2, <2>4 DEF Gate!Exit, Announced, Entered
    <3> QED BY <3>1 DEF Gate!Next
  <2>5. CASE Announced' = Announced /\ r \notin Running
    BY <2>2, <2>5 DEF Gate!vars, Announced, Entered
  <2> QED BY <1>1, <2>3, <2>4, <2>5, StepAnnounced
<1> QED BY <1>6, <1>7

(***************************************************************************)
(* The dispatcher implements PrivilegedGate: operations are announced      *)
(* before they start, bounded in number, and started once.                 *)
(***************************************************************************)
THEOREM ImplementsGate == Spec => GateSpec
<1>1. Init => Gate!Init
  <2> SUFFICES ASSUME Init PROVE Gate!Init
    OBVIOUS
  <2>1. trail = <<>> /\ pc = [r \in Request |-> "idle"] /\ ran = {}
    BY DEF Init, AuditInit
  <2> QED BY <2>1 DEF Gate!Init, Intents, Running
<1>2. IInv /\ [Next]_vars => [Gate!Next]_Gate!vars
  <2> SUFFICES ASSUME IInv, [Next]_vars PROVE Gate!Next \/ UNCHANGED Gate!vars
    OBVIOUS
  <2>1. CASE \E r \in Request : \E in \in Input : Receive(r, in)
    <3>1. PICK r \in Request, in \in Input : Receive(r, in)
      BY <2>1
    <3>2. /\ pc[r] = "idle" /\ pc'[r] = "received" /\ r \notin ran
          /\ \A s \in Request \ {r} : pc'[s] = pc[s] /\ q'[s] = q[s]
          /\ trail' = trail /\ ran' = ran /\ ran \subseteq Request
      BY <3>1 DEF Receive, Goto, auditVars, IInv, TypeOK, PathInv, Before
    <3>3. Running' = Running /\ Entered' = Entered /\ Announced' = Announced
      BY <3>2 DEF Running, Entered, Announced, Intents, IsPrivileged
    <3> QED BY <3>3 DEF Gate!vars, Announced, Entered
  <2>2. CASE \E r \in Request : Step(r)
    BY <2>2, StepGate
  <2>3. CASE UNCHANGED <<trail, q, pc, ran>>
    BY <2>3 DEF Gate!vars, Intents, Running, IsPrivileged
  <2>4. CASE \E a \in Privileged :
               WindowExpires(a) /\ UNCHANGED <<taskVars, slotVars, crashes>>
    BY <2>3, <2>4 DEF WindowExpires, taskVars
  <2>5. CASE Crash
    <3>1. Running' = {}
      BY <2>5 DEF Crash, Running, InFlight
    <3>2. trail' = trail /\ ran' = ran /\ q' = q
      BY <2>5 DEF Crash, AuditRestart
    <3>3. Gate!Reset
      BY <3>1, <3>2 DEF Gate!Reset, Intents, IsPrivileged
    <3> QED BY <3>3 DEF Gate!Next
  <2>6. CASE UNCHANGED vars
    BY <2>3, <2>6 DEF vars, auditVars, taskVars
  <2> QED BY <2>1, <2>2, <2>4, <2>5, <2>6 DEF Next
<1> QED BY <1>1, <1>2, Invariant, PTL DEF Spec, GateSpec, Gate!Spec
=============================================================================
