----------------------------- MODULE IpcClient ------------------------------
(***************************************************************************)
(* Clients of the daemon: SyncIPCClient (netmedic/ipc_sync_client.py) and  *)
(* PilotClient (netmedic/ipc_client.py), the token they cache, and daemons *)
(* that are stopped, killed and started under them (netmedic/runtime.py,   *)
(* netmedic/ipc_bridge.py).                                                *)
(*                                                                         *)
(* Only privileged requests are modelled: the others carry no token.  What *)
(* the daemon does between accepting a request and carrying it out is      *)
(* module Dispatch; here it is one step, which finds the token invalid or  *)
(* the slot taken, or runs the operation.  The requests of one client      *)
(* follow each other.  A daemon is known by its number, which also stands  *)
(* for the token it issues; 0 is no daemon and no token.                   *)
(***************************************************************************)
EXTENDS Naturals, FiniteSets

CONSTANTS Request,      \* privileged requests
          Client,       \* client objects, each with one cached token
          Pilot,        \* those that are a PilotClient
          client,       \* [Request -> Client]
          MaxDaemons    \* bound on the starts of the daemon

ASSUME RequestAssumption ==
  /\ IsFiniteSet(Request)
  /\ Pilot \subseteq Client
  /\ client \in [Request -> Client]
ASSUME DaemonsAssumption == MaxDaemons \in Nat

VARIABLES serving,   \* daemon that listens on the socket
          started,   \* number of daemons started so far
          killed,    \* daemons that were killed
          token,     \* [Client -> _session_token]
          pc,        \* [Request -> what its client does next]
          try,       \* [Request -> number of the attempt, 1 or 2]
          job,       \* [Request -> [attempt -> what the daemon did]]
          by,        \* [Request -> daemon the last attempt was sent to]
          with,      \* [Request -> token it was sent with]
          answer,    \* [Request -> what the caller got]
          disturbed  \* history: requests during which a daemon started or
                     \*   no token could be fetched

daemonVars == <<serving, started, killed>>
clientVars == <<token, pc, try, answer>>
jobVars == <<job, by, with>>
vars == <<daemonVars, clientVars, jobVars, disturbed>>

Daemon == 1..MaxDaemons
Attempt == {1, 2}

(***************************************************************************)
(* What an operation answers: "failed", or "mention" when the message of   *)
(* the failure happens to contain the word token, as that of a VPN client  *)
(* called token-1 does.                                                    *)
(***************************************************************************)
Ran == {"ok", "failed", "mention"}
Refusal == {"invalid", "busy"}
Job == {"none", "queued", "running", "dropped"} \cup Refusal \cup Ran
Answer == {"none", "noToken", "lost", "timeout"} \cup Refusal \cup Ran
PC == {"idle", "fetch", "send", "wait", "refetch", "done"}

TypeOK ==
  /\ serving \in 0..MaxDaemons
  /\ started \in 0..MaxDaemons
  /\ killed \in SUBSET Daemon
  /\ token \in [Client -> 0..MaxDaemons]
  /\ pc \in [Request -> PC]
  /\ try \in [Request -> Attempt]
  /\ job \in [Request -> [Attempt -> Job]]
  /\ by \in [Request -> 0..MaxDaemons]
  /\ with \in [Request -> 0..MaxDaemons]
  /\ answer \in [Request -> Answer]
  /\ disturbed \in SUBSET Request
  /\ \A r \in Request : answer[r] # "none" <=> pc[r] = "done"

\* A first daemon may have served, and clients may hold its token.
Init ==
  /\ started \in 0..1
  /\ started <= MaxDaemons
  /\ serving = started
  /\ killed = {}
  /\ token \in [Client -> 0..started]
  /\ pc = [r \in Request |-> "idle"]
  /\ try = [r \in Request |-> 1]
  /\ job = [r \in Request |-> [k \in Attempt |-> "none"]]
  /\ by = [r \in Request |-> 0]
  /\ with = [r \in Request |-> 0]
  /\ answer = [r \in Request |-> "none"]
  /\ disturbed = {}

-----------------------------------------------------------------------------
InProgress == {r \in Request : pc[r] \notin {"idle", "done"}}

\* The daemon issues a token and listens (bootstrap).
Start ==
  /\ serving = 0
  /\ started < MaxDaemons
  /\ started' = started + 1
  /\ serving' = started + 1
  /\ disturbed' = disturbed \cup InProgress
  /\ UNCHANGED <<killed, clientVars, jobVars>>

\* A handler of the daemon carries out an operation.
SlotHeld(d) ==
  \E r \in Request, k \in Attempt : job[r][k] = "running" /\ by[r] = d

Queued(d) ==
  {a \in Request \X Attempt : job[a[1]][a[2]] = "queued" /\ by[a[1]] = d}

Drop(attempts) ==
  job' = [r \in Request |-> [k \in Attempt |->
            IF <<r, k>> \in attempts THEN "dropped" ELSE job[r][k]]]

\* stop(): what is queued is cancelled, what a worker has taken goes on.
Stop ==
  /\ serving # 0
  /\ serving' = 0
  /\ \E attempts \in SUBSET Queued(serving) : Drop(attempts)
  /\ UNCHANGED <<started, killed, clientVars, by, with, disturbed>>

(***************************************************************************)
(* A daemon is killed, while it serves or while handlers that had begun    *)
(* when it was stopped keep it from exiting.  What they had begun as root  *)
(* goes on (module Elevation); nobody is left to answer.                   *)
(***************************************************************************)
Kill(d) ==
  /\ d <= started /\ d \notin killed
  /\ \/ serving = d
     \/ SlotHeld(d) \/ Queued(d) # {}
  /\ killed' = killed \cup {d}
  /\ serving' = IF serving = d THEN 0 ELSE serving
  /\ Drop(Queued(d))
  /\ UNCHANGED <<started, clientVars, by, with, disturbed>>

\* A worker takes the connection: token, then slot, then the operation.
Handle(r, k) ==
  /\ job[r][k] = "queued"
  /\ job' = [job EXCEPT ![r][k] =
       IF with[r] # by[r] THEN "invalid"
       ELSE IF SlotHeld(by[r]) THEN "busy"
       ELSE "running"]
  /\ UNCHANGED <<daemonVars, clientVars, by, with, disturbed>>

Finish(r, k) ==
  /\ job[r][k] = "running"
  /\ \E outcome \in Ran : job' = [job EXCEPT ![r][k] = outcome]
  /\ UNCHANGED <<daemonVars, clientVars, by, with, disturbed>>

-----------------------------------------------------------------------------
Goto(r, point) == pc' = [pc EXCEPT ![r] = point]

Return(r, what) ==
  /\ answer' = [answer EXCEPT ![r] = what]
  /\ Goto(r, "done")

\* Mutant: a token that was obtained once is never fetched again.
ResolveWithoutRetry(r, what) == Return(r, what) /\ UNCHANGED try

\* Mutant: every error is worth another attempt.
ResolveAnyError(r, what) ==
  IF try[r] = 1 /\ what # "ok"
  THEN /\ Goto(r, "refetch")
       /\ UNCHANGED <<answer, try>>
  ELSE Return(r, what) /\ UNCHANGED try

\* An error that mentions the token is worth one more attempt.
Resolve(r, what) ==
  IF try[r] = 1 /\ what \in {"invalid", "mention"}
  THEN /\ Goto(r, "refetch")
       /\ UNCHANGED <<answer, try>>
  ELSE Return(r, what) /\ UNCHANGED try

\* request() is called: the cached token is used, if there is one.
Begin(r) ==
  /\ pc[r] = "idle"
  /\ \A s \in Request : client[s] = client[r] => pc[s] \in {"idle", "done"}
  /\ Goto(r, IF token[client[r]] = 0 THEN "fetch" ELSE "send")
  /\ UNCHANGED <<daemonVars, token, try, answer, jobVars, disturbed>>

\* The second attempt, with whatever token the client holds now.
Again(r) == try' = [try EXCEPT ![r] = 2] /\ Goto(r, "send")

\* get_session_token is answered.
FetchToken(r) ==
  /\ pc[r] \in {"fetch", "refetch"}
  /\ serving # 0
  /\ token' = [token EXCEPT ![client[r]] = serving]
  /\ IF pc[r] = "fetch" THEN Goto(r, "send") /\ UNCHANGED try ELSE Again(r)
  /\ UNCHANGED <<daemonVars, answer, jobVars, disturbed>>

(***************************************************************************)
(* get_session_token fails: nobody listens, or all workers are occupied    *)
(* until the client's timeout.  SyncIPCClient gives up, with the error it  *)
(* already has or with one of its own; PilotClient goes on regardless.     *)
(***************************************************************************)
FetchFails(r) ==
  /\ pc[r] \in {"fetch", "refetch"}
  /\ disturbed' = disturbed \cup {r}
  /\ IF client[r] \in Pilot
     THEN /\ IF pc[r] = "fetch" THEN Goto(r, "send") /\ UNCHANGED try
                                ELSE Again(r)
          /\ UNCHANGED answer
     ELSE /\ Return(r, IF pc[r] = "fetch" THEN "noToken" ELSE job[r][1])
          /\ UNCHANGED try
  /\ UNCHANGED <<daemonVars, token, jobVars>>

\* connect() and sendall(); the connection is queued for the workers.
Send(r) ==
  /\ pc[r] = "send"
  /\ serving # 0
  /\ job' = [job EXCEPT ![r][try[r]] = "queued"]
  /\ by' = [by EXCEPT ![r] = serving]
  /\ with' = [with EXCEPT ![r] = token[client[r]]]
  /\ Goto(r, "wait")
  /\ UNCHANGED <<daemonVars, token, try, answer, disturbed>>

\* There is no socket, or nobody listens on it.
Unreachable(r) ==
  /\ pc[r] = "send"
  /\ serving = 0
  /\ Resolve(r, "lost")
  /\ UNCHANGED <<daemonVars, token, jobVars, disturbed>>

\* The answer of the daemon arrives.
Receive(r) ==
  /\ pc[r] = "wait"
  /\ job[r][try[r]] \in Refusal \cup Ran
  /\ Resolve(r, job[r][try[r]])
  /\ UNCHANGED <<daemonVars, token, jobVars, disturbed>>

\* The connection is closed: by a daemon that was stopped, or by a kill.
Closed(r) ==
  /\ pc[r] = "wait"
  /\ job[r][try[r]] = "dropped" \/ by[r] \in killed
  /\ Resolve(r, "lost")
  /\ UNCHANGED <<daemonVars, token, jobVars, disturbed>>

\* Mutant: the timeout counts only once the daemon has begun.
TimeOutRunning(r) ==
  /\ pc[r] = "wait"
  /\ job[r][try[r]] = "running"
  /\ Resolve(r, "timeout")
  /\ UNCHANGED <<daemonVars, token, jobVars, disturbed>>

\* Mutant: a timeout is reported as a failure of the operation.
TimeOutFails(r) ==
  /\ pc[r] = "wait"
  /\ job[r][try[r]] \in {"queued", "running"}
  /\ Resolve(r, "failed")
  /\ UNCHANGED <<daemonVars, token, jobVars, disturbed>>

\* IPC_SOCKET_TIMEOUT expires before an answer.
TimeOut(r) ==
  /\ pc[r] = "wait"
  /\ job[r][try[r]] \in {"queued", "running"}
  /\ Resolve(r, "timeout")
  /\ UNCHANGED <<daemonVars, token, jobVars, disturbed>>

\* The client's part of a request once it has begun.
Proceed(r) ==
  \/ FetchToken(r) \/ FetchFails(r) \/ Send(r) \/ Unreachable(r)
  \/ Receive(r) \/ Closed(r) \/ TimeOut(r)

Next ==
  \/ Start \/ Stop \/ \E d \in Daemon : Kill(d)
  \/ \E r \in Request :
       \/ Begin(r) \/ Proceed(r)
       \/ \E k \in Attempt : Handle(r, k) \/ Finish(r, k)

Spec == Init /\ [][Next]_vars

(***************************************************************************)
(* A client that has begun goes on: each of its calls returns within 30    *)
(* seconds.  Nothing is asked of the daemons.                              *)
(***************************************************************************)
FairSpec == Spec /\ \A r \in Request : WF_vars(Proceed(r))

-----------------------------------------------------------------------------
(***************************************************************************)
(* An operation is carried out with success at most once per request,      *)
(* although the client repeats it on what it takes for a stale token, and  *)
(* whatever becomes of the daemon in the meantime.                         *)
(***************************************************************************)
OneSuccess ==
  \A r \in Request : ~(job[r][1] = "ok" /\ job[r][2] = "ok")

(***************************************************************************)
(* Every answer but a timeout and a broken connection settles the matter:  *)
(* the operation has succeeded when the answer is "ok", and otherwise it   *)
(* has not, is not running any more, and never will.                       *)
(***************************************************************************)
OnlySilenceIsUncertain ==
  \A r \in Request : answer[r] \notin {"none", "lost", "timeout"} =>
    IF answer[r] = "ok"
    THEN \E k \in Attempt : job[r][k] = "ok"
    ELSE \A k \in Attempt : job[r][k] \notin {"ok", "queued", "running"}

(***************************************************************************)
(* A restart of the daemon costs no request: a token cached from an older  *)
(* daemon is replaced behind the caller's back.  Only a restart during the *)
(* request, or a token that could not be fetched, shows as an invalid one. *)
(***************************************************************************)
RestartIsInvisible ==
  \A r \in Request :
    answer[r] = "invalid" => r \in disturbed

\* Every request is answered, by the daemon or by the client's timeout.
EveryRequestAnswered ==
  \A r \in Request : r \in InProgress ~> pc[r] = "done"
=============================================================================
