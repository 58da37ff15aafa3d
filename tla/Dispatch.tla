------------------------------ MODULE Dispatch ------------------------------
(***************************************************************************)
(* The dispatcher of the IPC daemon: create_action_dispatcher in           *)
(* netmedic/ipc_actions.py, run by the worker threads of                   *)
(* netmedic/ipc_bridge.py and gated by IPCSession in                       *)
(* netmedic/ipc_security.py.                                               *)
(*                                                                         *)
(* A request is one connection.  pc names the point its worker thread has  *)
(* reached; between two points the other threads run.  A thread shares the *)
(* semaphore _privileged_slots, the audit log and the denial limiter with  *)
(* the others, and everything else it touches is its own, so each action   *)
(* covers the code from one use of shared state to the next.               *)
(***************************************************************************)
EXTENDS AuditTrail, FiniteSets

CONSTANTS Privileged,   \* action_catalog.PRIVILEGED_ACTIONS
          Safe,         \* action_catalog.SAFE_ACTIONS
          Input,        \* what the requests may carry
          NoInput,      \* no request received yet
          Slots,        \* _MAX_CONCURRENT_PRIVILEGED
          Workers,      \* _MAX_WORKERS of the thread pool
          UseHelper,    \* Config.use_privileged_helper()
          MaxCrashes    \* bound on the kills of the daemon that are explored

(***************************************************************************)
(* The facts about a request that the dispatcher looks at.  token: the     *)
(* session token is the daemon's own.  plain: the parameters can be        *)
(* encoded in UTF-8; JSON text can carry lone surrogates that cannot.      *)
(***************************************************************************)
InputType == [action : Action, peer : BOOLEAN, confirmed : BOOLEAN,
              token : BOOLEAN, params : BOOLEAN, plain : BOOLEAN]

ASSUME ActionAssumption ==
  /\ Privileged \cup Safe \subseteq Action
  /\ Privileged \cap Safe = {}
ASSUME InputAssumption == Input \subseteq InputType /\ NoInput \notin Input
ASSUME RequestAssumption == IsFiniteSet(Request)
ASSUME BoundAssumption ==
  /\ Slots \in Nat \ {0}
  /\ Workers \in Nat \ {0}
  /\ UseHelper \in BOOLEAN
  /\ MaxCrashes \in Nat

VARIABLES q,        \* [Request -> what the request carries]
          pc,       \* [Request -> point its worker has reached]
          reply,    \* [Request -> the answer computed so far]
          free,     \* counter of the semaphore _privileged_slots
          held,     \* requests with held_privileged_slot = True
          folded,   \* [Request -> suppressed count its denial entry carries]
          ran,      \* history: requests whose handler has been entered
          unlogged, \* history: requests whose append failed, error swallowed
          crashes   \* history: number of kills so far

taskVars == <<q, pc, reply, folded, ran, unlogged>>
slotVars == <<free, held>>
vars == <<auditVars, taskVars, slotVars, crashes>>

Stage == {"idle", "received", "denying", "logdenial", "slotting", "intent",
          "running", "completing", "raised", "leaving", "done", "lost"}

Refusal == {"rejected", "auth_error", "bad_params", "busy",
            "audit_unavailable"}
Reply == Refusal \cup {"none", "ok", "failed", "internal"}

InFlight == {r \in Request : pc[r] \notin {"idle", "done", "lost"}}
IsPrivileged(r) == q[r].action \in Privileged
\* Threads inside the handler of a privileged action.
Running == {r \in Request : pc[r] = "running" /\ IsPrivileged(r)}

TypeOK ==
  /\ AuditTypeOK
  /\ q \in [Request -> Input \cup {NoInput}]
  /\ pc \in [Request -> Stage]
  /\ reply \in [Request -> Reply]
  /\ free \in Nat
  /\ held \in SUBSET Request
  /\ folded \in [Request -> Nat]
  /\ ran \in SUBSET Request
  /\ unlogged \in SUBSET Request
  /\ crashes \in Nat
  /\ \A r \in Request : pc[r] # "idle" => q[r] \in Input

Init ==
  /\ AuditInit
  /\ q = [r \in Request |-> NoInput]
  /\ pc = [r \in Request |-> "idle"]
  /\ reply = [r \in Request |-> "none"]
  /\ free = Slots
  /\ held = {}
  /\ folded = [r \in Request |-> 0]
  /\ ran = {}
  /\ unlogged = {}
  /\ crashes = 0

-----------------------------------------------------------------------------
Goto(r, stage) == pc' = [pc EXCEPT ![r] = stage]
Answer(r, what) == reply' = [reply EXCEPT ![r] = what]

\* An idle worker takes a connection and reads a well-formed request.
Receive(r, in) ==
  /\ pc[r] = "idle"
  /\ Cardinality(InFlight) < Workers
  /\ q' = [q EXCEPT ![r] = in]
  /\ Goto(r, "received")
  /\ UNCHANGED <<auditVars, slotVars, reply, folded, ran, unlogged, crashes>>

\* Frame of a step that only moves the thread and sets its answer.
LocalStep ==
  UNCHANGED <<auditVars, slotVars, q, folded, ran, unlogged, crashes>>

\* Foreign peers and unknown actions are turned away without a record.
Reject(r) ==
  /\ pc[r] = "received"
  /\ ~q[r].peer \/ q[r].action \notin Privileged \cup Safe
  /\ Answer(r, "rejected")
  /\ Goto(r, "leaving")
  /\ LocalStep

Known(r) == q[r].peer /\ q[r].action \in Privileged \cup Safe

\* What validate_privileged can settle without asking polkit.
Presented(r) == q[r].confirmed /\ q[r].token

(***************************************************************************)
(* IPCSession.validate_privileged returns an error: the confirmation or    *)
(* the token is missing, or polkit says no.  With the helper in use polkit *)
(* is asked later, by pkexec.                                              *)
(***************************************************************************)
DenyAuth(r) ==
  /\ pc[r] = "received"
  /\ Known(r) /\ IsPrivileged(r)
  /\ Presented(r) => ~UseHelper
  /\ Answer(r, "auth_error")
  /\ Goto(r, "denying")
  /\ LocalStep

\* It raises: compare_digest takes no token that is not ASCII.
AuthRaises(r) ==
  /\ pc[r] = "received"
  /\ Known(r) /\ IsPrivileged(r)
  /\ q[r].confirmed /\ ~q[r].token
  /\ Goto(r, "raised")
  /\ UNCHANGED reply
  /\ LocalStep

Authorized(r) == Known(r) /\ (IsPrivileged(r) => Presented(r))

\* The parameters are bad: answered, and recorded when privileged.
RejectParams(r) ==
  /\ pc[r] = "received"
  /\ Authorized(r)
  /\ ~q[r].params
  /\ Answer(r, "bad_params")
  /\ Goto(r, IF IsPrivileged(r) THEN "completing" ELSE "leaving")
  /\ LocalStep

\* Authorized with good parameters; a safe action needs nothing more.
Admit(r) ==
  /\ pc[r] = "received"
  /\ Authorized(r)
  /\ q[r].params
  /\ UNCHANGED <<auditVars, slotVars, q, reply, folded, unlogged, crashes>>
  /\ IF IsPrivileged(r)
     THEN Goto(r, "slotting") /\ UNCHANGED ran
     ELSE Goto(r, "running") /\ ran' = ran \cup {r}

\* _privileged_slots.acquire(blocking=False) succeeds ...
AcquireSlot(r) ==
  /\ pc[r] = "slotting"
  /\ free > 0
  /\ free' = free - 1
  /\ held' = held \cup {r}
  /\ Goto(r, "intent")
  /\ UNCHANGED <<auditVars, q, reply, folded, ran, unlogged, crashes>>

\* ... or the request is turned away as busy.
Busy(r) ==
  /\ pc[r] = "slotting"
  /\ free = 0
  /\ Answer(r, "busy")
  /\ Goto(r, "denying")
  /\ LocalStep

-----------------------------------------------------------------------------
\* record(outcome="denied") first asks the limiter, under the audit lock ...
LimitDenial(r) ==
  LET a == q[r].action IN
  /\ pc[r] = "denying"
  /\ \/ /\ SuppressDenial(a)
        /\ Goto(r, "leaving")
        /\ UNCHANGED folded
     \/ /\ AllowDenial(a)
        /\ folded' = [folded EXCEPT ![r] = suppressed[a]]
        /\ Goto(r, "logdenial")
  /\ UNCHANGED <<trail, torn, slotVars, q, reply, ran, unlogged, crashes>>

\* Frame of a step that appends to the log and moves the thread.
LogStep ==
  UNCHANGED <<windowOpen, suppressed, slotVars, q, folded, crashes>>

\* record(): an OSError is logged and swallowed.
Record(r, e) ==
  \/ WriteEntry(e) /\ UNCHANGED unlogged
  \/ AppendFails(e) /\ unlogged' = unlogged \cup {r}

\* Encoding the entry raises UnicodeEncodeError, which is no OSError.
EncodingRaises(r) ==
  /\ ~q[r].plain
  /\ UNCHANGED <<trail, torn, unlogged>>

\* ... and takes the lock a second time to append the entry.
LogDenial(r) ==
  /\ pc[r] = "logdenial"
  /\ \/ /\ q[r].plain
        /\ Record(r, CompletionOf(r, "denied", folded[r]))
        /\ Goto(r, "leaving")
     \/ EncodingRaises(r) /\ Goto(r, "raised")
  /\ UNCHANGED <<reply, ran>>
  /\ LogStep

\* Mutant: the failure of record_intent is swallowed like that of record.
BeginAnyway(r) ==
  /\ pc[r] = "intent"
  /\ q[r].plain
  /\ WriteEntry(IntentOf(r)) \/ AppendFails(IntentOf(r))
  /\ Goto(r, "running")
  /\ ran' = ran \cup {r}
  /\ UNCHANGED <<reply, unlogged>>
  /\ LogStep

\* record_intent succeeds and the handler is called.
Begin(r) ==
  /\ pc[r] = "intent"
  /\ q[r].plain
  /\ WriteEntry(IntentOf(r))
  /\ Goto(r, "running")
  /\ ran' = ran \cup {r}
  /\ UNCHANGED <<reply, unlogged>>
  /\ LogStep

\* Mutant: the intent is recorded after the handler was called.
RefuseAfterRunning(r) ==
  /\ pc[r] = "intent"
  /\ q[r].plain
  /\ AppendFails(IntentOf(r))
  /\ Answer(r, "audit_unavailable")
  /\ Goto(r, "completing")
  /\ ran' = ran \cup {r}
  /\ UNCHANGED unlogged
  /\ LogStep

\* record_intent raises OSError: the action is refused.
RefuseUnaudited(r) ==
  /\ pc[r] = "intent"
  /\ q[r].plain
  /\ AppendFails(IntentOf(r))
  /\ Answer(r, "audit_unavailable")
  /\ Goto(r, "completing")
  /\ UNCHANGED <<ran, unlogged>>
  /\ LogStep

\* record_intent raises something else, caught by the outer handler.
IntentRaises(r) ==
  /\ pc[r] = "intent"
  /\ EncodingRaises(r)
  /\ Goto(r, "raised")
  /\ UNCHANGED <<reply, ran>>
  /\ LogStep

\* Mutant: the slot is returned with the handler, before the verdict.
ReleaseOnReturn(r) ==
  /\ pc[r] = "running"
  /\ \E what \in {"ok", "failed"} : Answer(r, what)
  /\ Goto(r, IF IsPrivileged(r) THEN "completing" ELSE "leaving")
  /\ IF r \in held
     THEN free' = free + 1 /\ held' = held \ {r}
     ELSE UNCHANGED slotVars
  /\ UNCHANGED <<auditVars, q, folded, ran, unlogged, crashes>>

\* The handler returns its NetResult.
HandlerReturns(r) ==
  /\ pc[r] = "running"
  /\ \E what \in {"ok", "failed"} : Answer(r, what)
  /\ Goto(r, IF IsPrivileged(r) THEN "completing" ELSE "leaving")
  /\ LocalStep

\* Mutant: an exception is answered without a record.
RaiseUnrecorded(r) ==
  /\ pc[r] = "running"
  /\ Goto(r, "leaving")
  /\ Answer(r, "internal")
  /\ LocalStep

\* Mutant: the operation is tried again after an exception.
RaiseAndRetry(r) ==
  /\ pc[r] = "running"
  /\ IF IsPrivileged(r)
     THEN Goto(r, "intent") /\ UNCHANGED reply
     ELSE Goto(r, "leaving") /\ Answer(r, "internal")
  /\ LocalStep

\* The handler raises; the exception of a safe action is not recorded.
HandlerRaises(r) ==
  /\ pc[r] = "running"
  /\ IF IsPrivileged(r)
     THEN Goto(r, "raised") /\ UNCHANGED reply
     ELSE Goto(r, "leaving") /\ Answer(r, "internal")
  /\ LocalStep

OutcomeOf(r) == IF reply[r] = "ok" THEN "ok" ELSE "error"

\* Mutant: a failed append is not swallowed but raised.
LogCompletionOrRaise(r) ==
  /\ pc[r] = "completing"
  /\ LET e == CompletionOf(r, OutcomeOf(r), 0) IN
     \/ q[r].plain /\ WriteEntry(e) /\ Goto(r, "leaving")
     \/ q[r].plain /\ AppendFails(e) /\ Goto(r, "raised")
     \/ EncodingRaises(r) /\ Goto(r, "raised")
  /\ UNCHANGED <<reply, ran, unlogged>>
  /\ LogStep

\* _finish_privileged records the result that is about to be returned.
LogCompletion(r) ==
  /\ pc[r] = "completing"
  /\ \/ /\ q[r].plain
        /\ Record(r, CompletionOf(r, OutcomeOf(r), 0))
        /\ Goto(r, "leaving")
     \/ EncodingRaises(r) /\ Goto(r, "raised")
  /\ UNCHANGED <<reply, ran>>
  /\ LogStep

\* Mutant: nothing catches what the record of an exception raises.
LogExceptionUncaught(r) ==
  /\ pc[r] = "raised"
  /\ Answer(r, "internal")
  /\ Goto(r, "leaving")
  /\ q[r].plain /\ Record(r, CompletionOf(r, "error", 0))
  /\ UNCHANGED ran
  /\ LogStep

(***************************************************************************)
(* "except Exception": the answer becomes "Internal IPC error." and is     *)
(* recorded; when that raises too the exception leaves dispatch, and       *)
(* _handle_payload gives the same answer.                                  *)
(***************************************************************************)
LogException(r) ==
  /\ pc[r] = "raised"
  /\ Answer(r, "internal")
  /\ Goto(r, "leaving")
  /\ \/ q[r].plain /\ Record(r, CompletionOf(r, "error", 0))
     \/ EncodingRaises(r)
  /\ UNCHANGED ran
  /\ LogStep

\* Mutant: release() at the end of the try block, not in a finally.
LeaveReleasingUnlessRaised(r) ==
  /\ pc[r] = "leaving"
  /\ held' = held \ {r}
  /\ free' = IF r \in held /\ reply[r] # "internal" THEN free + 1 ELSE free
  /\ Goto(r, "done")
  /\ UNCHANGED <<auditVars, q, reply, folded, ran, unlogged, crashes>>

\* "finally": the slot is returned if this request holds one.
Leave(r) ==
  /\ pc[r] = "leaving"
  /\ IF r \in held
     THEN free' = free + 1 /\ held' = held \ {r}
     ELSE UNCHANGED slotVars
  /\ Goto(r, "done")
  /\ UNCHANGED <<auditVars, q, reply, folded, ran, unlogged, crashes>>

-----------------------------------------------------------------------------
(***************************************************************************)
(* The daemon is killed and started again: threads, semaphore and limiter  *)
(* are those of a new process, the file is what the old one left.          *)
(***************************************************************************)
Crash ==
  /\ crashes < MaxCrashes
  /\ crashes' = crashes + 1
  /\ pc' = [r \in Request |-> IF r \in InFlight THEN "lost" ELSE pc[r]]
  /\ free' = Slots
  /\ held' = {}
  /\ AuditRestart
  /\ UNCHANGED <<q, reply, folded, ran, unlogged>>

\* One step of the thread that serves r, once it has the request.
Step(r) ==
  \/ Reject(r) \/ DenyAuth(r) \/ AuthRaises(r) \/ RejectParams(r) \/ Admit(r)
  \/ AcquireSlot(r) \/ Busy(r)
  \/ LimitDenial(r) \/ LogDenial(r)
  \/ Begin(r) \/ RefuseUnaudited(r) \/ IntentRaises(r)
  \/ HandlerReturns(r) \/ HandlerRaises(r)
  \/ LogCompletion(r) \/ LogException(r)
  \/ Leave(r)

Next ==
  \/ \E r \in Request : (\E in \in Input : Receive(r, in)) \/ Step(r)
  \/ \E a \in Privileged :
       WindowExpires(a) /\ UNCHANGED <<taskVars, slotVars, crashes>>
  \/ Crash

Spec == Init /\ [][Next]_vars

(***************************************************************************)
(* Every handler bounds the time it waits (subprocess timeouts), so each   *)
(* thread keeps moving once it has a request.                              *)
(***************************************************************************)
FairSpec == Spec /\ \A r \in Request : WF_vars(Step(r))
-----------------------------------------------------------------------------
(***************************************************************************)
(* At most Slots privileged handlers run at any time, whatever happened to *)
(* the requests before them (_privileged_slots, ipc_actions.py): a slot    *)
(* released twice would let a second one in.                               *)
(***************************************************************************)
Serialised == Cardinality(Running) <= Slots

(***************************************************************************)
(* No privileged handler is entered unless an intent entry for its request *)
(* is already in the log, also after a kill (the fail-closed gate around   *)
(* record_intent).                                                         *)
(***************************************************************************)
NoActionWithoutIntent ==
  \A r \in ran : IsPrivileged(r) => Intents(r) # {}

(***************************************************************************)
(* With one slot the log brackets the operations: after the intent of the  *)
(* running one no entry of another operation that ran appears, because an  *)
(* operation is recorded as finished before its slot is returned.          *)
(***************************************************************************)
LogBracketsOperations ==
  Slots = 1 =>
    \A r \in Running : \A i \in Intents(r) : \A k \in DOMAIN trail :
      k > i => trail[k].req \notin ran

(***************************************************************************)
(* A client that is told its request was refused (bad authorization,       *)
(* parameters, busy, audit unavailable) may send it again: the handler was *)
(* never entered for it.                                                   *)
(***************************************************************************)
RefusedNeverRan == \A r \in Request : reply[r] \in Refusal => r \notin ran

(***************************************************************************)
(* The log holds one verdict per request at most, and the verdict is the   *)
(* answer the client got: through the completion record, the record of the *)
(* outer exception handler and the denial record together.                 *)
(***************************************************************************)
OneTrueVerdict ==
  \A r \in Request :
    /\ Cardinality(Completions(r)) <= 1
    /\ \A i \in Completions(r) :
         /\ trail[i].outcome = "ok" <=> reply[r] = "ok"
         /\ trail[i].outcome = "denied" => r \notin ran

(***************************************************************************)
(* A privileged operation that ran and was answered has both its records   *)
(* unless an append failed on the way (docs/OPS.md: two records per        *)
(* privileged action).                                                     *)
(***************************************************************************)
TwoRecords ==
  \A r \in ran : pc[r] = "done" /\ IsPrivileged(r) /\ r \notin unlogged =>
    \E i \in Intents(r), j \in Completions(r) : i < j

\* Denials of action a that have gone through the limiter.
Denied(a) ==
  {r \in Request : /\ pc[r] \in {"logdenial", "leaving", "done"}
                   /\ q[r].action = a
                   /\ reply[r] \in {"auth_error", "busy"}}
DenialEntries(a) ==
  {i \in DOMAIN trail : trail[i].outcome = "denied"
                        /\ q[trail[i].req].action = a}

OnTheWay(a) == {r \in Denied(a) : pc[r] = "logdenial"}

\* The denials that each x in S stands for: its own and the n[x] folded in it.
Behind(S, n) == UNION {{x} \X (0..n[x]) : x \in S}
FoldedIn == [i \in DOMAIN trail |-> trail[i].folded]

\* No kill, no entry that could not be written.
NothingLost ==
  /\ crashes = 0
  /\ unlogged = {}
  /\ \A r \in Request : pc[r] # "idle" => q[r].plain

(***************************************************************************)
(* No denial is forgotten or counted twice by the limiter, however the     *)
(* threads interleave between asking it and appending: every denial is an  *)
(* entry, folded into an entry, waiting in the counter, or on its way.     *)
(* Kills excepted, and entries that could not be written.                  *)
(***************************************************************************)
DenialsConserved ==
  NothingLost =>
    \A a \in Privileged :
      Cardinality(Denied(a)) =
          Cardinality(Behind(DenialEntries(a), FoldedIn))
        + Cardinality(Behind(OnTheWay(a), folded))
        + suppressed[a]

(***************************************************************************)
(* Every request a worker has taken is answered or dies with the daemon.   *)
(***************************************************************************)
EveryRequestAnswered ==
  \A r \in Request : pc[r] = "received" ~> pc[r] \in {"done", "lost"}

(***************************************************************************)
(* Whatever path a request leaves by (denied, refused, raised), the slots  *)
(* are all free again and again: none is ever lost.                        *)
(***************************************************************************)
SlotsComeBack == []<>(free = Slots)

-----------------------------------------------------------------------------
(***************************************************************************)
(* The dispatcher implements PrivilegedGate: announced are the requests    *)
(* with an intent in the log, active those in a privileged handler.        *)
(***************************************************************************)
Gate == INSTANCE PrivilegedGate WITH
          announced <- {r \in Request : Intents(r) # {}},
          active <- Running,
          entered <- {r \in ran : IsPrivileged(r)}
GateSpec == Gate!Spec
=============================================================================
