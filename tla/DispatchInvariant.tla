-------------------------- MODULE DispatchInvariant --------------------------
(***************************************************************************)
(* The inductive invariant of the dispatcher: what a thread's point in the *)
(* code says about the slot, the log, the answer and the history.          *)
(***************************************************************************)
EXTENDS Dispatch

\* Points before the handler: nothing has been written or run.
Before == {"idle", "received", "denying", "logdenial", "slotting", "intent"}
\* Points from which a verdict may still be recorded.
Unrecorded == Before \cup {"running", "completing", "raised"}
\* Points between the acquisition of the slot and its release.
Holding == {"intent", "running", "completing", "raised", "leaving"}

(***************************************************************************)
(* Slots are conserved: every slot is free or held by one request, held    *)
(* only on the way from acquire to finally, and held by every operation    *)
(* that is about to run, runs, or ran and is not yet recorded.             *)
(***************************************************************************)
SlotInv ==
  /\ free + Cardinality(held) = Slots
  /\ \A r \in held : pc[r] \in Holding /\ IsPrivileged(r)
  /\ \A r \in Request :
       /\ \/ pc[r] \in {"intent", "running"}
          \/ pc[r] \in {"completing", "raised"} /\ r \in ran
       /\ IsPrivileged(r)
       => r \in held

(***************************************************************************)
(* Only privileged requests pass the points that concern slot, limiter and *)
(* log; the handler is entered at "running" and not before.                *)
(***************************************************************************)
PathInv ==
  \A r \in Request :
    /\ pc[r] \in Before => r \notin ran
    /\ pc[r] = "running" => r \in ran
    /\ pc[r] \in Unrecorded \ {"idle", "received", "running"} =>
         IsPrivileged(r)

(***************************************************************************)
(* The answer is still open until the thread knows it, a denied request    *)
(* is refused, and no refused request ran.                                 *)
(***************************************************************************)
AnswerInv ==
  \A r \in Request :
    /\ pc[r] \in {"idle", "received", "slotting", "intent", "running"} =>
         reply[r] = "none"
    /\ pc[r] \in {"denying", "logdenial"} => reply[r] \in Refusal
    /\ r \in ran => reply[r] \notin Refusal

(***************************************************************************)
(* A request has no entry before its intent and no verdict before the      *)
(* point at which it is recorded.                                          *)
(***************************************************************************)
LogInv ==
  \A k \in DOMAIN trail :
    /\ pc[trail[k].req] \notin Before
    /\ trail[k].event = "completion" => pc[trail[k].req] \notin Unrecorded

IInv ==
  /\ TypeOK
  /\ SlotInv
  /\ PathInv
  /\ AnswerInv
  /\ LogInv
  /\ NoActionWithoutIntent
  /\ LogBracketsOperations
  /\ OneTrueVerdict

(***************************************************************************)
(* An operation that ran could be encoded, so that its verdict, once the   *)
(* thread is on its way out, is behind its intent or failed to be written. *)
(* IInv says why there is an intent.                                       *)
(***************************************************************************)
RecordsInv ==
  \A r \in ran : IsPrivileged(r) =>
    /\ q[r].plain
    /\ pc[r] \in {"leaving", "done"} /\ r \notin unlogged =>
         \E i \in Intents(r), j \in Completions(r) : i < j

(***************************************************************************)
(* The limiter sees the answers that are denials and no others, and as     *)
(* long as no denial is lost, they add up.                                 *)
(***************************************************************************)
Denial == {"auth_error", "busy"}
DenialAnswers ==
  \A r \in Request :
    /\ pc[r] \in {"denying", "logdenial"} => reply[r] \in Denial
    /\ pc[r] = "completing" => reply[r] \notin Denial

Balanced(a) ==
  LET written == Behind(DenialEntries(a), FoldedIn)
      coming == Behind(OnTheWay(a), folded) IN
  /\ IsFiniteSet(written) /\ IsFiniteSet(coming)
  /\ Cardinality(Denied(a)) = Cardinality(written) + Cardinality(coming) + suppressed[a]

DenialInv == DenialAnswers /\ (NothingLost => \A a \in Privileged : Balanced(a))
==============================================================================
