-------------------------- MODULE UserSideProofs ----------------------------
(***************************************************************************)
(* Theorems about the user's side of the socket: the clients (IpcClient),  *)
(* for any clients, requests and daemons, and the main window (Window),    *)
(* for any tasks and any number of workers.                                *)
(*                                                                         *)
(* The argument for the clients (IInv): a second attempt is made only      *)
(* after the daemon has answered the first one with an error, so that at   *)
(* most one attempt is under way (Attempts); what the caller is told is    *)
(* what became of the last one (Told); and a token fetched during a        *)
(* request stays valid until it is sent, unless a daemon is started in     *)
(* between (Fresh), because the requests of one client do not overlap      *)
(* (Alone).                                                                *)
(*                                                                         *)
(* The argument for the window (WindowInv): what the GTK thread is about   *)
(* to do fits the stage of the task it is doing it for (GtkInv), so that   *)
(* no task is announced twice; a callback is queued at most once and only  *)
(* for a task that waits for it (BackInv), so that none ends twice; and a  *)
(* task that a callback will start is in nobody else's hands (FollowInv).  *)
(***************************************************************************)
EXTENDS IpcClient, Window, FiniteSetTheorems, TLAPS

\* How far the attempts of a request have come.
Attempts(r) ==
  /\ pc[r] \in {"idle", "fetch"} => try[r] = 1 /\ job[r][1] = "none"
  /\ try[r] = 1 => job[r][2] = "none"
  /\ pc[r] = "send" => job[r][try[r]] = "none"
  /\ pc[r] = "refetch" => try[r] = 1
  /\ try[r] = 2 \/ pc[r] = "refetch" => job[r][1] \in {"invalid", "mention"}

\* OnlySilenceIsUncertain, for one request.
Told(r) ==
  answer[r] \notin {"none", "lost", "timeout"} =>
    IF answer[r] = "ok"
    THEN \E k \in Attempt : job[r][k] = "ok"
    ELSE \A k \in Attempt : job[r][k] \notin {"ok", "queued", "running"}

\* The token of a second attempt is that of the daemon it goes to.
Fresh(r) ==
  r \notin disturbed =>
    /\ pc[r] = "send" /\ try[r] = 2 => serving \in {0, token[client[r]]}
    /\ pc[r] = "wait" /\ try[r] = 2 =>
         with[r] = by[r] /\ job[r][2] # "invalid"
    /\ answer[r] # "invalid"

\* The requests of a client follow each other.
Alone ==
  \A r, s \in InProgress : client[r] = client[s] => r = s

IInv ==
  /\ TypeOK
  /\ \A r \in Request : Attempts(r)
  /\ \A r \in Request : Told(r)
  /\ \A r \in Request : Fresh(r)
  /\ Alone

-----------------------------------------------------------------------------
LEMMA JobKinds ==
  /\ Refusal \subseteq Job /\ Ran \subseteq Job
  /\ Refusal \subseteq Answer /\ Ran \subseteq Answer
  /\ \A what \in Refusal \cup Ran : what \notin {"none", "queued", "running"}
BY DEF Refusal, Ran, Job, Answer

\* A job changes from "queued" or "running" to something else, if at all.
LEMMA JobChange ==
  ASSUME NEW r \in Request, NEW k \in Attempt, Handle(r, k) \/ Finish(r, k)
  PROVE  \E what \in Job \ {"none", "queued", "dropped"} :
           /\ job[r][k] \in {"queued", "running"}
           /\ job' = [job EXCEPT ![r][k] = what]
           /\ what = "invalid" => with[r] # by[r]
<1>1. CASE Handle(r, k)
  <2> DEFINE what == IF with[r] # by[r] THEN "invalid"
                     ELSE IF SlotHeld(by[r]) THEN "busy" ELSE "running"
  <2>1. job[r][k] = "queued" /\ job' = [job EXCEPT ![r][k] = what]
    BY <1>1 DEF Handle
  <2>2. /\ what \in Job \ {"none", "queued", "dropped"}
        /\ what = "invalid" => with[r] # by[r]
    BY DEF Job, Refusal
  <2> HIDE DEF what
  <2> QED BY <2>1, <2>2
<1>2. CASE Finish(r, k)
  BY <1>2 DEF Finish, Job, Ran
<1> QED BY <1>1, <1>2

(***************************************************************************)
(* Every variable keeps its type, and a request has an answer exactly when *)
(* it is done.                                                             *)
(***************************************************************************)
LEMMA TypeInit == Init => TypeOK
BY RequestAssumption, DaemonsAssumption
   DEF Init, TypeOK, Daemon, Attempt, Job, Answer, PC

LEMMA TypeNext == IInv /\ [Next]_vars => TypeOK'
<1> SUFFICES ASSUME TypeOK, \A r \in Request : Attempts(r), [Next]_vars
             PROVE  TypeOK'
  BY DEF IInv
<1> USE RequestAssumption, DaemonsAssumption
<1>1. CASE Start
  BY <1>1 DEF Start, TypeOK, Daemon, InProgress, clientVars, jobVars
<1>2. CASE Stop
  <2>1. PICK attempts \in SUBSET Queued(serving) : Drop(attempts)
    BY <1>2 DEF Stop
  <2>2. job' \in [Request -> [Attempt -> Job]]
    BY <2>1 DEF Drop, TypeOK, Job
  <2> QED BY <1>2, <2>2 DEF Stop, TypeOK, clientVars
<1>3. ASSUME NEW d \in Daemon, Kill(d) PROVE TypeOK'
  <2>1. job' \in [Request -> [Attempt -> Job]]
    BY <1>3 DEF Kill, Drop, TypeOK, Job
  <2> QED BY <1>3, <2>1 DEF Kill, TypeOK, clientVars
<1>4. ASSUME NEW r \in Request, NEW k \in Attempt, Handle(r, k) \/ Finish(r, k)
      PROVE  TypeOK'
  <2>1. PICK what \in Job : job' = [job EXCEPT ![r][k] = what]
    BY <1>4, JobChange
  <2>2. job' \in [Request -> [Attempt -> Job]]
    BY <2>1 DEF TypeOK
  <2> QED BY <1>4, <2>2 DEF Handle, Finish, TypeOK, daemonVars, clientVars
<1>5. ASSUME NEW r \in Request, Begin(r) PROVE TypeOK'
  BY <1>5 DEF Begin, Goto, TypeOK, PC, daemonVars, jobVars
<1>6. ASSUME NEW r \in Request, FetchToken(r) \/ FetchFails(r) PROVE TypeOK'
  <2>1. CASE FetchToken(r)
    BY <2>1 DEF FetchToken, Again, Goto, TypeOK, PC, Attempt, daemonVars, jobVars
  <2>2. CASE FetchFails(r) /\ client[r] \in Pilot
    BY <2>2 DEF FetchFails, Again, Goto, TypeOK, PC, Attempt, daemonVars, jobVars
  <2>3. CASE FetchFails(r) /\ client[r] \notin Pilot
    <3>1. PICK what \in Answer \ {"none"} : Return(r, what)
      <4>1. pc[r] = "refetch" => job[r][1] \in {"invalid", "mention"}
        BY DEF Attempts
      <4> QED BY <2>3, <4>1 DEF FetchFails, Answer, Refusal, Ran
    <3>2. answer' \in [Request -> Answer]
      BY <3>1 DEF Return, TypeOK
    <3> QED BY <2>3, <3>1, <3>2
        DEF FetchFails, Return, Goto, TypeOK, PC, daemonVars, jobVars
  <2> QED BY <1>6, <2>1, <2>2, <2>3
<1>7. ASSUME NEW r \in Request, Send(r) PROVE TypeOK'
  BY <1>7 DEF Send, Goto, TypeOK, PC, Attempt, Job, daemonVars
<1>8. ASSUME NEW r \in Request,
             Unreachable(r) \/ Receive(r) \/ Closed(r) \/ TimeOut(r)
      PROVE  TypeOK'
  <2>1. PICK what \in Answer \ {"none"} : Resolve(r, what)
    BY <1>8, JobKinds
       DEF Unreachable, Receive, Closed, TimeOut, Answer
  <2>2. UNCHANGED <<daemonVars, token, jobVars, disturbed>>
    BY <1>8 DEF Unreachable, Receive, Closed, TimeOut
  <2>3. pc[r] \in {"send", "wait"}
    BY <1>8 DEF Unreachable, Receive, Closed, TimeOut
  <2>4. CASE Goto(r, "refetch") /\ UNCHANGED <<answer, try>>
    BY <2>2, <2>3, <2>4 DEF Goto, TypeOK, PC, daemonVars, jobVars
  <2>5. CASE Return(r, what) /\ UNCHANGED try
    BY <2>2, <2>5 DEF Return, Goto, TypeOK, PC, daemonVars, jobVars
  <2> QED BY <2>1, <2>4, <2>5 DEF Resolve
<1>9. CASE UNCHANGED vars
  BY <1>9 DEF vars, daemonVars, clientVars, jobVars, TypeOK
<1> QED BY <1>1, <1>2, <1>3, <1>4, <1>5, <1>6, <1>7, <1>8, <1>9
        DEF Next, Proceed

-----------------------------------------------------------------------------
\* What the steps of the daemons touch.
LEMMA DaemonFrame ==
  ASSUME TypeOK, Start \/ Stop \/ \E d \in Daemon : Kill(d)
  PROVE  /\ UNCHANGED <<token, pc, try, answer, by, with>>
         /\ \A r \in Request, k \in Attempt :
              \/ job'[r][k] = job[r][k]
              \/ job[r][k] = "queued" /\ job'[r][k] = "dropped"
         /\ disturbed \subseteq disturbed'
         /\ \/ InProgress \subseteq disturbed'
            \/ serving' \in {0, serving}
<1>1. CASE Start
  BY <1>1 DEF Start, clientVars, jobVars
<1>2. CASE Stop
  <2>1. PICK attempts \in SUBSET Queued(serving) : Drop(attempts)
    BY <1>2 DEF Stop
  <2> QED BY <1>2, <2>1 DEF Stop, Drop, Queued, clientVars
<1>3. CASE \E d \in Daemon : Kill(d)
  <2>1. PICK d \in Daemon : Kill(d)
    BY <1>3
  <2> QED BY <2>1 DEF Kill, Drop, Queued, clientVars
<1> QED BY <1>1, <1>2, <1>3

\* What a worker of a daemon touches.
LEMMA WorkerFrame ==
  ASSUME TypeOK, NEW r \in Request, NEW k \in Attempt,
         Handle(r, k) \/ Finish(r, k)
  PROVE  /\ UNCHANGED <<serving, token, pc, try, answer, by, with, disturbed>>
         /\ job[r][k] \in {"queued", "running"}
         /\ job'[r][k] \notin {"none", "queued", "dropped"}
         /\ job'[r][k] = "invalid" => with[r] # by[r]
         /\ \A s \in Request, j \in Attempt :
              s # r \/ j # k => job'[s][j] = job[s][j]
<1>1. UNCHANGED <<serving, token, pc, try, answer, by, with, disturbed>>
  BY DEF Handle, Finish, daemonVars, clientVars
<1>2. PICK what \in Job \ {"none", "queued", "dropped"} :
        /\ job[r][k] \in {"queued", "running"}
        /\ job' = [job EXCEPT ![r][k] = what]
        /\ what = "invalid" => with[r] # by[r]
  BY JobChange
<1> QED BY <1>1, <1>2 DEF TypeOK

\* What the step of a client does not touch.
LEMMA ClientFrame ==
  ASSUME TypeOK, NEW r \in Request, Begin(r) \/ Proceed(r)
  PROVE  /\ UNCHANGED serving
         /\ \A s \in Request \ {r} :
              /\ pc'[s] = pc[s] /\ try'[s] = try[s] /\ answer'[s] = answer[s]
              /\ job'[s] = job[s] /\ by'[s] = by[s] /\ with'[s] = with[s]
              /\ s \in disturbed' <=> s \in disturbed
              /\ client[s] # client[r] => token'[client[s]] = token[client[s]]
<1> USE RequestAssumption DEF TypeOK, daemonVars, jobVars
<1>1. CASE Begin(r)
  BY <1>1 DEF Begin, Goto
<1>2. CASE FetchToken(r)
  BY <1>2 DEF FetchToken, Again, Goto
<1>3. CASE FetchFails(r) /\ client[r] \in Pilot
  BY <1>3 DEF FetchFails, Again, Goto
<1>4. CASE FetchFails(r) /\ client[r] \notin Pilot
  BY <1>4 DEF FetchFails, Return, Goto
<1>5. CASE Send(r)
  BY <1>5 DEF Send, Goto
<1>6. CASE Unreachable(r) \/ Receive(r) \/ Closed(r) \/ TimeOut(r)
  <2>1. PICK what : Resolve(r, what)
    BY <1>6 DEF Unreachable, Receive, Closed, TimeOut
  <2>2. UNCHANGED <<daemonVars, token, jobVars, disturbed>>
    BY <1>6 DEF Unreachable, Receive, Closed, TimeOut
  <2> QED BY <2>1, <2>2 DEF Resolve, Return, Goto
<1> QED BY <1>1, <1>2, <1>3, <1>4, <1>5, <1>6 DEF Proceed

\* How a client that waits, or finds nobody, goes on.
LEMMA Resolved ==
  ASSUME TypeOK, NEW r \in Request,
         Unreachable(r) \/ Receive(r) \/ Closed(r) \/ TimeOut(r)
  PROVE  /\ UNCHANGED <<serving, token, try, job, by, with, disturbed>>
         /\ pc[r] \in {"send", "wait"}
         /\ \/ /\ pc'[r] = "refetch" /\ answer'[r] = answer[r]
               /\ try[r] = 1 /\ pc[r] = "wait"
               /\ job[r][1] \in {"invalid", "mention"}
            \/ /\ pc'[r] = "done" /\ answer'[r] \in {"lost", "timeout"}
            \/ /\ pc'[r] = "done" /\ answer'[r] = job[r][try[r]]
               /\ answer'[r] \in Refusal \cup Ran
               /\ try[r] = 1 => answer'[r] \notin {"invalid", "mention"}
               /\ pc[r] = "wait"
<1> USE DEF TypeOK, daemonVars, jobVars, Resolve, Return, Goto
<1>1. CASE Unreachable(r)
  BY <1>1 DEF Unreachable
<1>2. CASE Closed(r)
  BY <1>2 DEF Closed
<1>3. CASE TimeOut(r)
  BY <1>3 DEF TimeOut
<1>4. CASE Receive(r)
  BY <1>4 DEF Receive
<1> QED BY <1>1, <1>2, <1>3, <1>4

-----------------------------------------------------------------------------
DaemonStep == Start \/ Stop \/ \E d \in Daemon : Kill(d)
WorkerStep(r) == \E k \in Attempt : Handle(r, k) \/ Finish(r, k)
ClientStep(r) == Begin(r) \/ Proceed(r)

LEMMA NextSteps ==
  Next <=> DaemonStep \/ \E r \in Request : WorkerStep(r) \/ ClientStep(r)
BY DEF Next, DaemonStep, WorkerStep, ClientStep

(***************************************************************************)
(* A second attempt is made only after an answered first one.              *)
(***************************************************************************)
LEMMA AttemptsNext ==
  ASSUME IInv, Next, NEW s \in Request PROVE Attempts(s)'
<1> USE DEF IInv, Attempts, TypeOK, Attempt, PC
<1>1. CASE DaemonStep
  BY <1>1, DaemonFrame DEF DaemonStep
<1>2. ASSUME NEW r \in Request, WorkerStep(r) PROVE Attempts(s)'
  BY <1>2, WorkerFrame DEF WorkerStep
<1>3. ASSUME NEW r \in Request, ClientStep(r), r # s PROVE Attempts(s)'
  BY <1>3, ClientFrame DEF ClientStep
<1>4. CASE Begin(s)
  BY <1>4 DEF Begin, Goto, jobVars
<1>5. CASE FetchToken(s)
  BY <1>5 DEF FetchToken, Again, Goto, jobVars
<1>6. CASE FetchFails(s)
  BY <1>6 DEF FetchFails, Again, Return, Goto, jobVars
<1>7. CASE Send(s)
  BY <1>7 DEF Send, Goto
<1>8. CASE Unreachable(s) \/ Receive(s) \/ Closed(s) \/ TimeOut(s)
  BY <1>8, Resolved
<1> QED BY <1>1, <1>2, <1>3, <1>4, <1>5, <1>6, <1>7, <1>8, NextSteps
        DEF ClientStep, Proceed

(***************************************************************************)
(* What the caller was told is what became of the last attempt.            *)
(***************************************************************************)
LEMMA ToldNext ==
  ASSUME IInv, Next, NEW s \in Request PROVE Told(s)'
<1> USE DEF IInv, Told, TypeOK, Attempt
<1>1. CASE DaemonStep
  BY <1>1, DaemonFrame DEF DaemonStep
<1>2. ASSUME NEW r \in Request, WorkerStep(r) PROVE Told(s)'
  BY <1>2, WorkerFrame DEF WorkerStep
<1>3. ASSUME NEW r \in Request, ClientStep(r), r # s PROVE Told(s)'
  BY <1>3, ClientFrame DEF ClientStep
<1>4. CASE Begin(s) \/ FetchToken(s) \/ Send(s)
  BY <1>4 DEF Begin, FetchToken, Send
<1>5. CASE FetchFails(s)
  BY <1>5 DEF FetchFails, Return, Again, jobVars, Attempts
<1>6. CASE Unreachable(s) \/ Receive(s) \/ Closed(s) \/ TimeOut(s)
  BY <1>6, Resolved DEF Attempts, Refusal, Ran
<1> QED BY <1>1, <1>2, <1>3, <1>4, <1>5, <1>6, NextSteps
        DEF ClientStep, Proceed

(***************************************************************************)
(* The token of a second attempt is the valid one, and remains so unless a *)
(* daemon is started.                                                      *)
(***************************************************************************)
LEMMA FreshNext ==
  ASSUME IInv, Next, NEW s \in Request PROVE Fresh(s)'
<1> USE DEF IInv, Fresh, TypeOK, Attempt
<1>1. CASE DaemonStep
  BY <1>1, DaemonFrame DEF DaemonStep, InProgress
<1>2. ASSUME NEW r \in Request, WorkerStep(r) PROVE Fresh(s)'
  BY <1>2, WorkerFrame DEF WorkerStep, Attempts
<1>3. ASSUME NEW r \in Request, ClientStep(r), r # s PROVE Fresh(s)'
  <2>1. CASE client[r] # client[s]
    BY <1>3, <2>1, ClientFrame DEF ClientStep
  <2>2. CASE client[r] = client[s] /\ Begin(r)
    BY <1>3, <2>2, ClientFrame DEF ClientStep, Begin
  <2>3. CASE client[r] = client[s] /\ Proceed(r)
    <3>1. r \in InProgress
      BY <2>3 DEF InProgress, Proceed, FetchToken, FetchFails, Send,
                  Unreachable, Receive, Closed, TimeOut
    <3>2. s \notin InProgress
      BY <1>3, <2>3, <3>1 DEF Alone
    <3> QED BY <1>3, <2>3, <3>2, ClientFrame DEF ClientStep, InProgress
  <2> QED BY <1>3, <2>1, <2>2, <2>3 DEF ClientStep
<1>4. CASE Begin(s)
  BY <1>4 DEF Begin, Goto, daemonVars, jobVars, Attempts
<1>5. CASE FetchToken(s)
  BY <1>5, RequestAssumption DEF FetchToken, Again, Goto, daemonVars, jobVars
<1>6. CASE FetchFails(s)
  BY <1>6 DEF FetchFails
<1>7. CASE Send(s)
  BY <1>7 DEF Send, Goto, daemonVars
<1>8. CASE Unreachable(s) \/ Receive(s) \/ Closed(s) \/ TimeOut(s)
  BY <1>8, Resolved DEF Attempts, Refusal, Ran
<1> QED BY <1>1, <1>2, <1>3, <1>4, <1>5, <1>6, <1>7, <1>8, NextSteps
        DEF ClientStep, Proceed

\* A client begins a request when none of its others is under way.
LEMMA AloneNext ==
  ASSUME IInv, Next PROVE Alone'
<1> USE DEF IInv, Alone, InProgress
<1>1. CASE DaemonStep
  BY <1>1, DaemonFrame DEF DaemonStep
<1>2. ASSUME NEW r \in Request, WorkerStep(r) PROVE Alone'
  BY <1>2, WorkerFrame DEF WorkerStep
<1>3. ASSUME NEW r \in Request, Begin(r) PROVE Alone'
  BY <1>3, ClientFrame DEF Begin
<1>4. ASSUME NEW r \in Request, Proceed(r) PROVE Alone'
  <2>1. r \in InProgress
    BY <1>4 DEF Proceed, FetchToken, FetchFails, Send,
                Unreachable, Receive, Closed, TimeOut
  <2> QED BY <1>4, <2>1, ClientFrame
<1> QED BY <1>1, <1>2, <1>3, <1>4, NextSteps DEF ClientStep

-----------------------------------------------------------------------------
LEMMA InvInit == Init => IInv
<1> SUFFICES ASSUME Init PROVE IInv
  OBVIOUS
<1>1. TypeOK
  BY TypeInit
<1>2. \A r \in Request : Attempts(r) /\ Told(r) /\ Fresh(r)
  BY DEF Init, Attempts, Told, Fresh, Attempt
<1>3. Alone
  BY DEF Init, Alone, InProgress
<1> QED BY <1>1, <1>2, <1>3 DEF IInv

LEMMA InvNext == IInv /\ [Next]_vars => IInv'
<1> SUFFICES ASSUME IInv, [Next]_vars PROVE IInv'
  OBVIOUS
<1>1. TypeOK'
  BY TypeNext
<1>2. CASE Next
  BY <1>1, <1>2, AttemptsNext, ToldNext, FreshNext, AloneNext DEF IInv
<1>3. CASE UNCHANGED vars
  BY <1>3 DEF vars, daemonVars, clientVars, jobVars, IInv, TypeOK,
              Attempts, Told, Fresh, Alone, InProgress
<1> QED BY <1>2, <1>3

LEMMA Invariance == Spec => []IInv
BY InvInit, InvNext, PTL DEF Spec

(***************************************************************************)
(* Every variable keeps its type, and a request has an answer exactly when *)
(* it is done.                                                             *)
(***************************************************************************)
THEOREM TypeCorrect == Spec => []TypeOK
<1>1. IInv => TypeOK
  BY DEF IInv
<1> QED BY <1>1, Invariance, PTL

(***************************************************************************)
(* SyncIPCClient.request and PilotClient repeat a request on a message     *)
(* that mentions the token; it is never carried out twice with success.    *)
(***************************************************************************)
THEOREM RetryIsSafe == Spec => []OneSuccess
<1>1. IInv => OneSuccess
  BY DEF IInv, Attempts, OneSuccess, TypeOK, Attempt
<1> QED BY <1>1, Invariance, PTL

(***************************************************************************)
(* An answer other than a timeout or a broken connection says for good     *)
(* whether the operation has succeeded, across stop, kill and restart.     *)
(***************************************************************************)
THEOREM AnswersSettle == Spec => []OnlySilenceIsUncertain
<1>1. IInv => OnlySilenceIsUncertain
  BY DEF IInv, Told, OnlySilenceIsUncertain
<1> QED BY <1>1, Invariance, PTL

(***************************************************************************)
(* A token cached from an earlier daemon costs no request: it is fetched   *)
(* anew and the request repeated, unless daemons come and go meanwhile.    *)
(***************************************************************************)
THEOREM RestartsAreInvisible == Spec => []RestartIsInvisible
<1>1. IInv => RestartIsInvisible
  BY DEF IInv, Fresh, RestartIsInvisible
<1> QED BY <1>1, Invariance, PTL

-----------------------------------------------------------------------------
(***************************************************************************)
(* The window.  The callback of t is in the queue, once.                   *)
(***************************************************************************)
BackQueued(t) == \E i \in DOMAIN idle : idle[i] = Back(t)
Once(t) ==
  \A i, j \in DOMAIN idle : idle[i] = Back(t) /\ idle[j] = Back(t) => i = j

\* What the GTK thread is in the middle of agrees with the task it is about.
GtkInv ==
  /\ At("stuck") => signalled
  /\ At("on") => gtk.task \in Task /\ task[gtk.task] = "none"
  /\ gtk.at \in {"onLocked", "submit", "submitting"} =>
       gtk.task \in Task /\ task[gtk.task] = "shown"
  /\ At("off") => gtk.task \in Ai /\ task[gtk.task] = "called"

\* A queued callback belongs to a task that is waiting for it.
BackInv ==
  \A t \in Task :
    /\ Once(t)
    /\ BackQueued(t) => task[t] = (IF t \in Ai THEN "called" ELSE "done")
    /\ BackQueued(t) /\ t \notin Ai => follow[t] # NoTask
    /\ t \notin Ai /\ task[t] = "called" => follow[t] # NoTask
    /\ At("off") /\ gtk.task = t => ~BackQueued(t)

\* The task a callback will start has not been started by anyone else.
FollowInv ==
  \A t \in Task :
    follow[t] # NoTask /\ (task[t] # "done" \/ BackQueued(t)) =>
      /\ task[follow[t]] = "none"
      /\ ~(At("on") /\ gtk.task = follow[t])

WindowInv ==
  /\ WindowTypeOK
  /\ GtkInv
  /\ BackInv
  /\ FollowInv
  /\ CountIsWork
  /\ ShownIsTrue

\* The two kinds of callback in the queue.
LEMMA Kinds ==
  /\ \A b \in BOOLEAN : Show(b) \in Event /\ IsShow(Show(b)) /\ Show(b).show = b
  /\ \A t \in Task : Back(t) \in Event /\ ~IsShow(Back(t)) /\ Back(t).back = t
  /\ \A e \in Event :
       IF IsShow(e) THEN e.show \in BOOLEAN /\ e = Show(e.show)
                    ELSE e.back \in Task /\ e = Back(e.back)
<1>1. \A b \in BOOLEAN :
         Show(b) \in Event /\ IsShow(Show(b)) /\ Show(b).show = b
  BY DEF Show, Event, IsShow
<1>2. \A t \in Task :
         Back(t) \in Event /\ ~IsShow(Back(t)) /\ Back(t).back = t
  BY DEF Back, Event, IsShow
<1>3. ASSUME NEW e \in Event
      PROVE  IF IsShow(e) THEN e.show \in BOOLEAN /\ e = Show(e.show)
                          ELSE e.back \in Task /\ e = Back(e.back)
  <2>1. CASE e \in [show : BOOLEAN]
    BY <2>1 DEF Show, IsShow
  <2>2. CASE e \in [back : Task]
    BY <2>2 DEF Back, IsShow
  <2> QED BY <2>1, <2>2 DEF Event
<1> QED BY <1>1, <1>2, <1>3

\* What Append and Tail do to the positions of the queue.
LEMMA Appended ==
  ASSUME NEW q \in Seq(Event), NEW e \in Event
  PROVE  LET r == Append(q, e) IN
         /\ r \in Seq(Event)
         /\ DOMAIN q = 1 .. Len(q) /\ Len(q) \in Nat
         /\ DOMAIN r = 1 .. (Len(q) + 1)
         /\ \A i \in DOMAIN q : r[i] = q[i] /\ i \in DOMAIN r
         /\ r[Len(q) + 1] = e
OBVIOUS

LEMMA Shortened ==
  ASSUME NEW q \in Seq(Event), q # <<>>
  PROVE  LET r == Tail(q) IN
         /\ r \in Seq(Event)
         /\ DOMAIN q = 1 .. Len(q) /\ Len(q) \in Nat \ {0}
         /\ DOMAIN r = 1 .. (Len(q) - 1)
         /\ \A i \in DOMAIN r : r[i] = q[i + 1] /\ i + 1 \in DOMAIN q
         /\ Head(q) = q[1] /\ Head(q) \in Event
OBVIOUS

\* Showing the state leaves the callbacks of the tasks alone.
LEMMA BackAfterShow ==
  ASSUME idle \in Seq(Event), NEW b \in BOOLEAN, idle' = Append(idle, Show(b)),
         NEW t \in Task
  PROVE  /\ idle' \in Seq(Event)
         /\ BackQueued(t)' <=> BackQueued(t)
         /\ Once(t) => Once(t)'
<1>1. Show(b) \in Event /\ Show(b) # Back(t)
  BY Kinds
<1>2. /\ idle' \in Seq(Event)
      /\ DOMAIN idle = 1 .. Len(idle) /\ Len(idle) \in Nat
      /\ DOMAIN idle' = 1 .. (Len(idle) + 1)
      /\ \A i \in DOMAIN idle : idle'[i] = idle[i] /\ i \in DOMAIN idle'
      /\ idle'[Len(idle) + 1] = Show(b)
  BY <1>1, Appended
<1>3. \A i \in DOMAIN idle' : idle'[i] = Back(t) => i \in DOMAIN idle
  BY <1>1, <1>2
<1>4. BackQueued(t)' <=> \E i \in DOMAIN idle' : idle'[i] = Back(t)
  BY DEF BackQueued, Back
<1>5. Once(t)' <=> \A i, j \in DOMAIN idle' :
                      idle'[i] = Back(t) /\ idle'[j] = Back(t) => i = j
  BY DEF Once, Back
<1> QED BY <1>2, <1>3, <1>4, <1>5 DEF BackQueued, Once

\* A task's own callback joins the queue.
LEMMA BackAfterBack ==
  ASSUME idle \in Seq(Event), NEW u \in Task, idle' = Append(idle, Back(u)),
         NEW t \in Task
  PROVE  /\ idle' \in Seq(Event)
         /\ BackQueued(t)' <=> BackQueued(t) \/ t = u
         /\ Once(t) /\ (t = u => ~BackQueued(t)) => Once(t)'
<1>1. Back(u) \in Event /\ (Back(u) = Back(t) <=> t = u)
  BY Kinds
<1>2. /\ idle' \in Seq(Event)
      /\ DOMAIN idle = 1 .. Len(idle) /\ Len(idle) \in Nat
      /\ DOMAIN idle' = 1 .. (Len(idle) + 1)
      /\ \A i \in DOMAIN idle : idle'[i] = idle[i] /\ i \in DOMAIN idle'
      /\ idle'[Len(idle) + 1] = Back(u)
  BY <1>1, Appended
<1>3. \A i \in DOMAIN idle' : i \in DOMAIN idle \/ i = Len(idle) + 1
  BY <1>2
<1>4. Len(idle) + 1 \in DOMAIN idle'
  BY <1>2
<1>5. BackQueued(t)' <=> \E i \in DOMAIN idle' : idle'[i] = Back(t)
  BY DEF BackQueued, Back
<1>6. Once(t)' <=> \A i, j \in DOMAIN idle' :
                      idle'[i] = Back(t) /\ idle'[j] = Back(t) => i = j
  BY DEF Once, Back
<1>7. BackQueued(t)' <=> BackQueued(t) \/ t = u
  BY <1>1, <1>2, <1>3, <1>4, <1>5 DEF BackQueued
<1>8. ASSUME Once(t), t = u => ~BackQueued(t)
      PROVE  Once(t)'
  BY <1>1, <1>2, <1>3, <1>6, <1>8 DEF BackQueued, Once
<1> QED BY <1>2, <1>7, <1>8

\* The first callback leaves the queue.
LEMMA BackAfterTail ==
  ASSUME idle \in Seq(Event), idle # <<>>, idle' = Tail(idle),
         NEW t \in Task
  PROVE  /\ idle' \in Seq(Event)
         /\ BackQueued(t)' => BackQueued(t)
         /\ Once(t) => Once(t)'
         /\ Once(t) /\ Head(idle) = Back(t) => ~BackQueued(t)'
<1>1. /\ idle' \in Seq(Event)
      /\ DOMAIN idle = 1 .. Len(idle) /\ Len(idle) \in Nat \ {0}
      /\ DOMAIN idle' = 1 .. (Len(idle) - 1)
      /\ \A i \in DOMAIN idle' : idle'[i] = idle[i + 1] /\ i + 1 \in DOMAIN idle
      /\ Head(idle) = idle[1]
  BY Shortened
<1>2. BackQueued(t)' <=> \E i \in DOMAIN idle' : idle'[i] = Back(t)
  BY DEF BackQueued, Back
<1>3. Once(t)' <=> \A i, j \in DOMAIN idle' :
                      idle'[i] = Back(t) /\ idle'[j] = Back(t) => i = j
  BY DEF Once, Back
<1>4. BackQueued(t)' => BackQueued(t)
  BY <1>1, <1>2 DEF BackQueued
<1>5. ASSUME Once(t) PROVE Once(t)'
  BY <1>1, <1>3, <1>5 DEF Once
<1>6. ASSUME Once(t), Head(idle) = Back(t) PROVE ~BackQueued(t)'
  BY <1>1, <1>2, <1>6 DEF Once
<1> QED BY <1>1, <1>4, <1>5, <1>6

-----------------------------------------------------------------------------
\* The controls and the callbacks that will set them.
LEMMA TrueAfterShow ==
  ASSUME idle \in Seq(Event), count' \in Nat, NEW b \in BOOLEAN,
         b <=> count' > 0, idle' = Append(idle, Show(b))
  PROVE  ShownIsTrue'
<1> DEFINE e == Show(b)
           n == Len(idle) + 1
<1>1. e \in Event /\ IsShow(e) /\ (e.show <=> count' > 0)
  BY Kinds
<1> HIDE DEF e
<1>2. /\ DOMAIN idle = 1 .. Len(idle) /\ Len(idle) \in Nat
      /\ DOMAIN idle' = 1 .. n
      /\ idle'[n] = e
  BY <1>1, Appended DEF e
<1>3. Shows' = {i \in DOMAIN idle' : IsShow(idle'[i])}
  BY DEF Shows, IsShow
<1>4. n \in Shows' /\ \A i \in Shows' : i \in Nat /\ i <= n
  BY <1>1, <1>2, <1>3
<1>5. \A i \in Shows' : (\A j \in Shows' : j <= i) => i = n
  BY <1>2, <1>4
<1>6. \A i \in Shows' : (\A j \in Shows' : j <= i) =>
                           idle'[i].show = (count' > 0)
  <2>1. e.show = b /\ b = (count' > 0)
    BY Kinds DEF e
  <2> QED BY <1>2, <1>5, <2>1
<1> QED BY <1>4, <1>6 DEF ShownIsTrue

LEMMA TrueAfterBack ==
  ASSUME idle \in Seq(Event), NEW t \in Task, idle' = Append(idle, Back(t)),
         UNCHANGED <<count, sensitive>>, ShownIsTrue
  PROVE  ShownIsTrue'
<1>1. Back(t) \in Event /\ ~IsShow(Back(t))
  BY Kinds
<1>2. /\ DOMAIN idle = 1 .. Len(idle) /\ Len(idle) \in Nat
      /\ DOMAIN idle' = 1 .. (Len(idle) + 1)
      /\ \A i \in DOMAIN idle : idle'[i] = idle[i] /\ i \in DOMAIN idle'
      /\ idle'[Len(idle) + 1] = Back(t)
  BY <1>1, Appended
<1>3. Shows' = {i \in DOMAIN idle' : IsShow(idle'[i])}
  BY DEF Shows, IsShow
<1>4. Shows' = Shows
  <2>1. ASSUME NEW i PROVE i \in Shows' <=> i \in Shows
    BY <1>1, <1>2, <1>3 DEF Shows
  <2> QED BY <2>1
<1>5. \A i \in Shows : idle'[i] = idle[i]
  BY <1>2 DEF Shows
<1>6. count' = count /\ sensitive' = sensitive
  OBVIOUS
<1>7. Shows' = {} => sensitive' = (count' = 0)
  BY <1>4, <1>6 DEF ShownIsTrue
<1>8. ASSUME NEW i \in Shows', \A j \in Shows' : j <= i
      PROVE  idle'[i].show = (count' > 0)
  BY <1>4, <1>5, <1>6, <1>8 DEF ShownIsTrue
<1> QED BY <1>7, <1>8 DEF ShownIsTrue

LEMMA TrueAfterTail ==
  ASSUME idle \in Seq(Event), idle # <<>>, idle' = Tail(idle), count \in Nat,
         count' = count, ShownIsTrue,
         sensitive' = IF IsShow(Head(idle)) THEN ~Head(idle).show ELSE sensitive
  PROVE  ShownIsTrue'
<1>1. /\ DOMAIN idle = 1 .. Len(idle) /\ Len(idle) \in Nat \ {0}
      /\ DOMAIN idle' = 1 .. (Len(idle) - 1)
      /\ \A i \in DOMAIN idle' : idle'[i] = idle[i + 1] /\ i + 1 \in DOMAIN idle
      /\ Head(idle) = idle[1]
  BY Shortened
<1>2. Shows' = {i \in DOMAIN idle' : IsShow(idle'[i])}
  BY DEF Shows, IsShow
<1>3. \A i \in DOMAIN idle : i = 1 \/ (i - 1 \in DOMAIN idle' /\ i - 1 + 1 = i)
  BY <1>1
<1>4. /\ \A i \in Shows' : i + 1 \in Shows /\ idle'[i] = idle[i + 1]
      /\ \A i \in Shows : i = 1 \/ i - 1 \in Shows'
      /\ Shows \subseteq Nat /\ Shows' \subseteq Nat
  BY <1>1, <1>2, <1>3 DEF Shows
<1>5. ASSUME Shows' = {} PROVE sensitive' = (count' = 0)
  <2>1. CASE IsShow(Head(idle))
    <3>1. 1 \in Shows /\ \A j \in Shows : j <= 1
      BY <1>1, <1>4, <1>5, <2>1 DEF Shows
    <3>2. Head(idle).show = (count > 0) /\ sensitive' = ~Head(idle).show
      BY <1>1, <2>1, <3>1 DEF ShownIsTrue
    <3>3. CASE count = 0
      <4>1. (count > 0) = FALSE /\ (count' = 0) = TRUE
        BY <3>3
      <4> QED BY <3>2, <4>1
    <3>4. CASE count # 0
      <4>1. (count > 0) = TRUE /\ (count' = 0) = FALSE
        BY <3>4
      <4> QED BY <3>2, <4>1
    <3> QED BY <3>3, <3>4
  <2>2. CASE ~IsShow(Head(idle))
    <3>1. Shows = {}
      BY <1>1, <1>4, <1>5, <2>2 DEF Shows
    <3> QED BY <2>2, <3>1 DEF ShownIsTrue
  <2> QED BY <2>1, <2>2
<1>6. ASSUME NEW i \in Shows', \A j \in Shows' : j <= i
      PROVE  idle'[i].show = (count' > 0)
  <2>1. i + 1 \in Shows /\ idle'[i] = idle[i + 1]
    BY <1>4
  <2>2. ASSUME NEW j \in Shows PROVE j <= i + 1
    BY <1>4, <1>6
  <2> QED BY <2>1, <2>2 DEF ShownIsTrue
<1> QED BY <1>5, <1>6 DEF ShownIsTrue

LEMMA TrueAsBefore ==
  ASSUME ShownIsTrue, UNCHANGED <<idle, sensitive>>, count \in Nat,
         count' \in Nat, count' = 0 <=> count = 0
  PROVE  ShownIsTrue'
<1>1. Shows' = Shows
  BY DEF Shows, IsShow
<1>2. count' > 0 <=> count > 0
  <2>1. count' = 0 <=> count = 0
    OBVIOUS
  <2> QED BY <2>1
<1>3. \A i \in Shows' : idle'[i] = idle[i]
  OBVIOUS
<1>4. sensitive' = sensitive /\ (count' = 0 <=> count = 0)
  OBVIOUS
<1>5. Shows' = {} => sensitive' = (count' = 0)
  BY <1>1, <1>4 DEF ShownIsTrue
<1>6. ASSUME NEW i \in Shows', \A j \in Shows' : j <= i
      PROVE  idle'[i].show = (count' > 0)
  BY <1>1, <1>2, <1>3, <1>6 DEF ShownIsTrue
<1> QED BY <1>5, <1>6 DEF ShownIsTrue

-----------------------------------------------------------------------------
\* Stages at which a task counts.
Counts(t, s) ==
  s \in {"shown", "pending", "running", "ended"} \/ (t \in Ai /\ s = "called")

LEMMA CountedTasks ==
  /\ Counted = {u \in Task : Counts(u, task[u])}
  /\ Counted' = {u \in Task : Counts(u, task'[u])}
  /\ IsFiniteSet(Counted) /\ IsFiniteSet(Counted')
<1>1. Counted = {u \in Task : Counts(u, task[u])}
  BY DEF Counted, Counts
<1>2. Counted' = {u \in Task : Counts(u, task'[u])}
  BY DEF Counted, Counts
<1>3. ASSUME NEW S, S \subseteq Task PROVE IsFiniteSet(S)
  BY <1>3, FS_Subset, TaskAssumption
<1>4. Counted \subseteq Task /\ Counted' \subseteq Task
  BY <1>1, <1>2
<1> QED BY <1>1, <1>2, <1>3, <1>4

\* A task reaches another stage: the others stay where they are ...
LEMMA Stands ==
  ASSUME task \in [Task -> Stage], NEW t \in Task, NEW s \in Stage, Stand(t, s)
  PROVE  /\ task' \in [Task -> Stage]
         /\ task'[t] = s
         /\ \A u \in Task : u # t => task'[u] = task[u]
BY DEF Stand

\* ... and it begins to count, stops to count, or neither.
LEMMA CountAfterStand ==
  ASSUME task \in [Task -> Stage], NEW t \in Task, NEW s \in Stage, Stand(t, s),
         count \in Nat, count = Cardinality(Counted)
  PROVE  /\ ~Counts(t, task[t]) /\ Counts(t, s) =>
              Cardinality(Counted') = count + 1
         /\ Counts(t, task[t]) /\ ~Counts(t, s) =>
              count # 0 /\ Cardinality(Counted') = count - 1
         /\ (Counts(t, task[t]) <=> Counts(t, s)) =>
              Cardinality(Counted') = count
<1>1. \A u \in Task : task'[u] = IF u = t THEN s ELSE task[u]
  BY Stands
<1>2. t \in Counted <=> Counts(t, task[t])
  BY CountedTasks
<1>3. CASE Counts(t, s)
  <2>1. Counted' = Counted \cup {t}
    <3>1. ASSUME NEW u PROVE u \in Counted' <=> u \in Counted \cup {t}
      BY <1>1, <1>3, CountedTasks
    <3> QED BY <3>1
  <2>2. Cardinality(Counted \cup {t}) =
          IF t \in Counted THEN Cardinality(Counted)
                           ELSE Cardinality(Counted) + 1
    BY CountedTasks, FS_AddElement
  <2> QED BY <1>2, <1>3, <2>1, <2>2
<1>4. CASE ~Counts(t, s)
  <2>1. Counted' = Counted \ {t}
    <3>1. ASSUME NEW u PROVE u \in Counted' <=> u \in Counted \ {t}
      BY <1>1, <1>4, CountedTasks
    <3> QED BY <3>1
  <2>2. /\ Cardinality(Counted \ {t}) =
             IF t \in Counted THEN Cardinality(Counted) - 1
                              ELSE Cardinality(Counted)
        /\ Cardinality(Counted \ {t}) \in Nat
    BY CountedTasks, FS_RemoveElement, FS_CardinalityType
  <2> QED BY <1>2, <1>4, <2>1, <2>2
<1> QED BY <1>3, <1>4

\* Tasks cancelled together stop to count together.
LEMMA CountAfterCancel ==
  ASSUME task \in [Task -> Stage], CancelPending,
         count \in Nat, count = Cardinality(Counted)
  PROVE  /\ task' \in [Task -> Stage]
         /\ \A t \in Task :
              task'[t] = IF t \in Cancelled THEN "done" ELSE task[t]
         /\ count' \in Nat /\ count' = Cardinality(Counted')
         /\ Cancelled = {} => count' = count
<1>1. /\ task' \in [Task -> Stage]
      /\ \A t \in Task :
           task'[t] = IF t \in Cancelled THEN "done" ELSE task[t]
  BY DEF CancelPending, Stage
<1>2. Cancelled \subseteq Counted
  BY CountedTasks DEF Cancelled, Counts
<1>3. Counted' = Counted \ Cancelled
  <2>1. ASSUME NEW u PROVE u \in Counted' <=> u \in Counted \ Cancelled
    BY <1>1, CountedTasks DEF Cancelled, Counts
  <2> QED BY <2>1
<1>4. /\ IsFiniteSet(Cancelled) /\ IsFiniteSet(Counted \ Cancelled)
      /\ Cardinality(Counted \ Cancelled)
           = Cardinality(Counted) - Cardinality(Counted \cap Cancelled)
      /\ Cardinality(Counted \ Cancelled) \in Nat
      /\ Cardinality(Cancelled) \in Nat
  BY <1>2, CountedTasks, FS_Subset, FS_Difference, FS_CardinalityType
<1>5. Counted \cap Cancelled = Cancelled
  BY <1>2
<1>6. count' = Cardinality(Counted')
  BY <1>3, <1>4, <1>5 DEF CancelPending
<1>7. Cancelled = {} => count' = count
  BY <1>3, <1>6
<1> QED BY <1>1, <1>3, <1>4, <1>6, <1>7

-----------------------------------------------------------------------------
\* What every change of the count does to the queue.
BacksKept ==
  /\ idle' \in Seq(Event)
  /\ \A t \in Task : BackQueued(t)' <=> BackQueued(t)
  /\ \A t \in Task : Once(t) => Once(t)'

LEMMA BacksAsBefore ==
  ASSUME idle \in Seq(Event), UNCHANGED idle PROVE BacksKept
BY DEF BacksKept, BackQueued, Once, Back

LEMMA BacksAfterShow ==
  ASSUME idle \in Seq(Event), NEW b \in BOOLEAN, idle' = Append(idle, Show(b))
  PROVE  BacksKept
<1>1. idle' \in Seq(Event)
  <2>1. Show(b) \in Event
    BY Kinds
  <2> QED BY <2>1, Appended
<1>2. ASSUME NEW t \in Task
      PROVE  (BackQueued(t)' <=> BackQueued(t)) /\ (Once(t) => Once(t)')
  BY BackAfterShow
<1> QED BY <1>1, <1>2 DEF BacksKept

LEMMA AfterCountUp ==
  ASSUME idle \in Seq(Event), count \in Nat, ShownIsTrue, UNCHANGED sensitive,
         CountUp
  PROVE  count' = count + 1 /\ BacksKept /\ ShownIsTrue'
<1>1. count' = count + 1 /\ count' \in Nat
  BY DEF CountUp
<1>2. CASE count = 0
  <2>1. idle' = Append(idle, Show(TRUE)) /\ count' > 0
    BY <1>1, <1>2 DEF CountUp
  <2>2. BacksKept
    BY <2>1, BacksAfterShow
  <2>3. ShownIsTrue'
    BY <1>1, <2>1, TrueAfterShow
  <2> QED BY <1>1, <2>2, <2>3
<1>3. CASE count # 0
  <2>1. UNCHANGED idle /\ (count' = 0 <=> count = 0)
    BY <1>1, <1>3 DEF CountUp
  <2>2. BacksKept
    BY <2>1, BacksAsBefore
  <2>3. ShownIsTrue'
    BY <1>1, <2>1, TrueAsBefore
  <2> QED BY <1>1, <2>2, <2>3
<1> QED BY <1>2, <1>3

LEMMA AfterCountDown ==
  ASSUME idle \in Seq(Event), count \in Nat, ShownIsTrue, UNCHANGED sensitive,
         CountDown
  PROVE  /\ count' \in Nat /\ count' = (IF count = 0 THEN 0 ELSE count - 1)
         /\ BacksKept /\ ShownIsTrue'
<1>1. count' = (IF count = 0 THEN 0 ELSE count - 1) /\ count' \in Nat
  BY DEF CountDown
<1>2. CASE count <= 1
  <2>1. idle' = Append(idle, Show(FALSE))
    BY <1>2 DEF CountDown
  <2>2. count' = 0
    BY <1>1, <1>2
  <2>3. BacksKept
    BY <2>1, BacksAfterShow
  <2>4. ShownIsTrue'
    <3>1. ~(count' > 0)
      BY <2>2
    <3> QED BY <1>1, <2>1, <3>1, TrueAfterShow
  <2> QED BY <1>1, <2>3, <2>4
<1>3. CASE ~(count <= 1)
  <2>1. UNCHANGED idle /\ (count' = 0 <=> count = 0)
    BY <1>1, <1>3 DEF CountDown
  <2>2. BacksKept
    BY <2>1, BacksAsBefore
  <2>3. ShownIsTrue'
    BY <1>1, <2>1, TrueAsBefore
  <2> QED BY <1>1, <2>2, <2>3
<1> QED BY <1>2, <1>3

LEMMA AfterCancel ==
  ASSUME idle \in Seq(Event), count \in Nat, ShownIsTrue, UNCHANGED sensitive,
         task \in [Task -> Stage], count = Cardinality(Counted), CancelPending
  PROVE  BacksKept /\ ShownIsTrue'
<1>1. count' \in Nat /\ (Cancelled = {} => count' = count)
  BY CountAfterCancel
<1>2. CASE Cancelled # {} /\ count' = 0
  <2>1. idle' = Append(idle, Show(FALSE))
    BY <1>2 DEF CancelPending
  <2>2. BacksKept
    BY <2>1, BacksAfterShow
  <2>3. ShownIsTrue'
    <3>1. ~(count' > 0)
      BY <1>2
    <3> QED BY <1>1, <2>1, <3>1, TrueAfterShow
  <2> QED BY <2>2, <2>3
<1>3. CASE ~(Cancelled # {} /\ count' = 0)
  <2>1. UNCHANGED idle
    BY <1>3 DEF CancelPending
  <2>2. CASE Cancelled = {}
    <3>1. count' = 0 <=> count = 0
      BY <1>1, <2>2
    <3> QED BY <1>1, <2>1, <3>1, BacksAsBefore, TrueAsBefore
  <2>3. CASE count' # 0
    \* Whoever is left counted before.
    <3>1. count # 0
      <4>1. IsFiniteSet(Counted) /\ Counted' \subseteq Counted
        BY CountAfterCancel, CountedTasks DEF Counts
      <4>2. Cardinality(Counted') <= Cardinality(Counted)
        BY <4>1, FS_Subset
      <4>3. count' = Cardinality(Counted')
        BY CountAfterCancel
      <4> QED BY <1>1, <2>3, <4>2, <4>3
    <3>2. count' = 0 <=> count = 0
      BY <2>3, <3>1
    <3> QED BY <1>1, <2>1, <3>2, BacksAsBefore, TrueAsBefore
  <2> QED BY <1>3, <2>2, <2>3
<1> QED BY <1>2, <1>3

-----------------------------------------------------------------------------
LEMMA GtkMoves ==
  ASSUME gtk \in [at : Point, task : Task \cup {NoTask}]
  PROVE  /\ \A p \in Point : Reach(p) =>
              /\ gtk' \in [at : Point, task : Task \cup {NoTask}]
              /\ gtk'.at = p /\ gtk'.task = gtk.task
         /\ \A p \in Point, t \in Task \cup {NoTask} :
              gtk' = [at |-> p, task |-> t] =>
                /\ gtk' \in [at : Point, task : Task \cup {NoTask}]
                /\ gtk'.at = p /\ gtk'.task = t
BY DEF Reach

LEMMA SetBusyStep == ASSUME WindowInv, SetBusy PROVE WindowInv'
<1> DEFINE t == gtk.task
<1>1. /\ gtk.at = "on" /\ t \in Task /\ task[t] = "none"
      /\ Stand(t, "shown") /\ CountUp
      /\ UNCHANGED <<sensitive, executing, signalled>> /\ lock' = TRUE
  BY DEF WindowInv, GtkInv, SetBusy, At
<1>2. /\ idle \in Seq(Event) /\ count \in Nat /\ ShownIsTrue
      /\ task \in [Task -> Stage] /\ count = Cardinality(Counted)
  BY <1>1 DEF WindowInv, WindowTypeOK, CountIsWork, At
<1>3. /\ gtk' \in [at : Point, task : Task \cup {NoTask}]
      /\ gtk'.at = "onLocked" /\ gtk'.task = t
  <2>1. "onLocked" \in Point /\ Reach("onLocked")
    BY DEF SetBusy, Point
  <2> QED BY <2>1, GtkMoves DEF WindowInv, WindowTypeOK
<1>4. count' = count + 1 /\ BacksKept /\ ShownIsTrue'
  BY <1>1, <1>2, AfterCountUp
<1>5. "shown" \in Stage
  BY DEF Stage
<1>6. /\ task' \in [Task -> Stage] /\ task'[t] = "shown"
      /\ \A u \in Task : u # t => task'[u] = task[u]
  BY <1>1, <1>2, <1>5, Stands
<1>7. Cardinality(Counted') = count + 1
  <2>1. ~Counts(t, task[t]) /\ Counts(t, "shown")
    BY <1>1 DEF Counts
  <2> QED BY <1>1, <1>2, <1>5, <2>1, CountAfterStand
<1> HIDE DEF t
<1>8. WindowTypeOK'
  BY <1>1, <1>2, <1>3, <1>4, <1>6 DEF WindowInv, WindowTypeOK, BacksKept
<1>9. GtkInv'
  BY <1>1, <1>3, <1>6 DEF GtkInv, At
<1>10. BackInv'
  BY <1>1, <1>3, <1>4, <1>6 DEF WindowInv, BackInv, At, BacksKept
<1>11. FollowInv'
  <2> SUFFICES ASSUME NEW u \in Task, follow[u] # NoTask,
                      task'[u] # "done" \/ BackQueued(u)'
               PROVE  task'[follow[u]] = "none" /\ gtk'.at # "on"
    BY DEF FollowInv, At
  <2>1. task[u] # "done" \/ BackQueued(u)
    BY <1>1, <1>4, <1>6 DEF BacksKept
  <2>2. task[follow[u]] = "none" /\ follow[u] # t
    BY <1>1, <2>1 DEF WindowInv, FollowInv, At, t
  <2>3. follow[u] \in Task
    BY TaskAssumption
  <2> QED BY <1>3, <1>6, <2>2, <2>3
<1>12. CountIsWork'
  BY <1>4, <1>7 DEF CountIsWork
<1> QED BY <1>4, <1>8, <1>9, <1>10, <1>11, <1>12 DEF WindowInv

LEMMA SetIdleStep == ASSUME WindowInv, SetIdle PROVE WindowInv'
<1> DEFINE t == gtk.task
<1>1. /\ gtk.at = "off" /\ t \in Ai /\ t \in Task /\ task[t] = "called"
      /\ Stand(t, "done") /\ CountDown
      /\ UNCHANGED <<sensitive, executing, signalled>> /\ lock' = TRUE
  BY TaskAssumption DEF WindowInv, GtkInv, SetIdle, At
<1>2. /\ idle \in Seq(Event) /\ count \in Nat /\ ShownIsTrue
      /\ task \in [Task -> Stage] /\ count = Cardinality(Counted)
  BY <1>1 DEF WindowInv, WindowTypeOK, CountIsWork, At
<1>3. /\ gtk' \in [at : Point, task : Task \cup {NoTask}]
      /\ gtk'.at = "offLocked" /\ gtk'.task = t
  <2>1. "offLocked" \in Point /\ Reach("offLocked")
    BY DEF SetIdle, Point
  <2> QED BY <2>1, GtkMoves DEF WindowInv, WindowTypeOK
<1>4. /\ count' \in Nat /\ count' = (IF count = 0 THEN 0 ELSE count - 1)
      /\ BacksKept /\ ShownIsTrue'
  BY <1>1, <1>2, AfterCountDown
<1>5. "done" \in Stage
  BY DEF Stage
<1>6. /\ task' \in [Task -> Stage] /\ task'[t] = "done"
      /\ \A u \in Task : u # t => task'[u] = task[u]
  BY <1>1, <1>2, <1>5, Stands
<1>7. count # 0 /\ Cardinality(Counted') = count - 1
  <2>1. Counts(t, task[t]) /\ ~Counts(t, "done")
    BY <1>1 DEF Counts
  <2> QED BY <1>1, <1>2, <1>5, <2>1, CountAfterStand
<1>8. follow[t] = NoTask /\ ~BackQueued(t)
  BY <1>1, TaskAssumption DEF WindowInv, BackInv, At
<1> HIDE DEF t
<1>9. WindowTypeOK'
  BY <1>1, <1>2, <1>3, <1>4, <1>6 DEF WindowInv, WindowTypeOK, BacksKept
<1>10. GtkInv'
  BY <1>1, <1>3, <1>6 DEF GtkInv, At
<1>11. BackInv'
  BY <1>1, <1>3, <1>4, <1>6, <1>8 DEF WindowInv, BackInv, At, BacksKept
<1>12. FollowInv'
  <2> SUFFICES ASSUME NEW u \in Task, follow[u] # NoTask,
                      task'[u] # "done" \/ BackQueued(u)'
               PROVE  task'[follow[u]] = "none" /\ gtk'.at # "on"
    BY DEF FollowInv, At
  <2>1. task[u] # "done" \/ BackQueued(u)
    BY <1>4, <1>6, <1>8 DEF BacksKept
  <2>2. task[follow[u]] = "none"
    BY <2>1 DEF WindowInv, FollowInv
  <2>3. follow[u] \in Task /\ follow[u] # t
    BY <1>1, TaskAssumption
  <2> QED BY <1>3, <1>6, <2>2, <2>3
<1>13. CountIsWork'
  BY <1>4, <1>7 DEF CountIsWork
<1> QED BY <1>4, <1>9, <1>10, <1>11, <1>12, <1>13 DEF WindowInv

\* Steps that change neither the count nor the queue.
LEMMA QuietQueue ==
  ASSUME WindowInv, UNCHANGED <<count, idle, sensitive>>
  PROVE  BacksKept /\ ShownIsTrue'
<1>1. idle \in Seq(Event) /\ count \in Nat /\ count' \in Nat /\ ShownIsTrue
  BY DEF WindowInv, WindowTypeOK
<1>2. count' = 0 <=> count = 0
  OBVIOUS
<1> QED BY <1>1, <1>2, BacksAsBefore, TrueAsBefore

LEMMA QuietTasks ==
  ASSUME WindowInv, UNCHANGED <<task, count>>, At("stuck") => At("stuck")'
  PROVE  CountIsWork'
<1>1. Counted' = Counted
  BY CountedTasks
<1>2. ~At("stuck")' => count = Cardinality(Counted)
  BY DEF WindowInv, CountIsWork
<1> QED BY <1>1, <1>2 DEF CountIsWork

LEMMA ClickStep ==
  ASSUME WindowInv, NEW t \in Task, Click(t) PROVE WindowInv'
<1>1. /\ gtk.at = "loop" /\ t \in Clickable /\ task[t] = "none"
      /\ gtk' = [at |-> "on", task |-> t]
      /\ executing' = (executing \/ t \in Ai)
      /\ UNCHANGED <<lock, count, idle, sensitive, task, signalled>>
  BY DEF Click, At
<1>2. /\ gtk' \in [at : Point, task : Task \cup {NoTask}]
      /\ gtk'.at = "on" /\ gtk'.task = t
  <2>1. "on" \in Point
    BY DEF Point
  <2> QED BY <1>1, <2>1, GtkMoves DEF WindowInv, WindowTypeOK
<1>3. BacksKept /\ ShownIsTrue'
  BY <1>1, QuietQueue
<1>4. CountIsWork'
  BY <1>1, QuietTasks DEF At
<1>5. executing' \in BOOLEAN
  BY <1>1, Zenon
<1>6. WindowTypeOK'
  BY <1>1, <1>2, <1>3, <1>5 DEF WindowInv, WindowTypeOK, BacksKept
<1>7. GtkInv'
  BY <1>1, <1>2 DEF GtkInv, At
<1>8. BackInv'
  BY <1>1, <1>2, <1>3 DEF WindowInv, BackInv, At, BacksKept
<1>9. FollowInv'
  <2>1. \A u \in Task : follow[u] # t
    BY <1>1, TaskAssumption DEF Clickable, Started
  <2> QED BY <1>1, <1>2, <1>3, <2>1 DEF WindowInv, FollowInv, At, BacksKept
<1> QED BY <1>3, <1>4, <1>6, <1>7, <1>8, <1>9 DEF WindowInv

LEMMA ReleaseLockStep == ASSUME WindowInv, ReleaseLock PROVE WindowInv'
<1>1. /\ lock' = FALSE
      /\ UNCHANGED <<count, idle, sensitive, task, executing, signalled>>
      /\ gtk \in [at : Point, task : Task \cup {NoTask}]
  BY DEF WindowInv, WindowTypeOK, ReleaseLock
<1>2. /\ gtk' \in [at : Point, task : Task \cup {NoTask}]
      /\ \/ gtk.at = "onLocked" /\ gtk'.at = "submit" /\ gtk'.task = gtk.task
         \/ gtk.at = "offLocked" /\ gtk'.at = "loop"
  <2>1. "submit" \in Point /\ "loop" \in Point
    BY DEF Point
  <2> QED BY <1>1, <2>1, GtkMoves DEF ReleaseLock, At, Loop
<1>3. BacksKept /\ ShownIsTrue'
  BY <1>1, QuietQueue
<1>4. CountIsWork'
  BY <1>1, <1>2, QuietTasks DEF At
<1>5. WindowTypeOK'
  BY <1>1, <1>2, <1>3 DEF WindowInv, WindowTypeOK, BacksKept
<1>6. GtkInv'
  BY <1>1, <1>2 DEF WindowInv, GtkInv, At
<1>7. BackInv'
  BY <1>1, <1>2, <1>3 DEF WindowInv, BackInv, At, BacksKept
<1>8. FollowInv'
  BY <1>1, <1>2, <1>3 DEF WindowInv, FollowInv, At, BacksKept
<1> QED BY <1>3, <1>4, <1>5, <1>6, <1>7, <1>8 DEF WindowInv

LEMMA EnterSubmitStep == ASSUME WindowInv, EnterSubmit PROVE WindowInv'
<1>1. /\ UNCHANGED <<lock, count, idle, sensitive, task, executing, signalled>>
      /\ gtk \in [at : Point, task : Task \cup {NoTask}]
      /\ gtk.at = "submit"
  BY DEF WindowInv, WindowTypeOK, EnterSubmit, At
<1>2. /\ gtk' \in [at : Point, task : Task \cup {NoTask}]
      /\ gtk'.at = "submitting" /\ gtk'.task = gtk.task
  <2>1. "submitting" \in Point
    BY DEF Point
  <2> QED BY <1>1, <2>1, GtkMoves DEF EnterSubmit
<1>3. BacksKept /\ ShownIsTrue'
  BY <1>1, QuietQueue
<1>4. CountIsWork'
  BY <1>1, QuietTasks DEF At
<1>5. WindowTypeOK'
  BY <1>1, <1>2, <1>3 DEF WindowInv, WindowTypeOK, BacksKept
<1>6. GtkInv'
  BY <1>1, <1>2 DEF WindowInv, GtkInv, At
<1>7. BackInv'
  BY <1>1, <1>2, <1>3 DEF WindowInv, BackInv, At, BacksKept
<1>8. FollowInv'
  BY <1>1, <1>2, <1>3 DEF WindowInv, FollowInv, At, BacksKept
<1> QED BY <1>3, <1>4, <1>5, <1>6, <1>7, <1>8 DEF WindowInv

LEMMA SubmitStep == ASSUME WindowInv, Submit PROVE WindowInv'
<1> DEFINE t == gtk.task
<1>1. /\ gtk.at \in {"submit", "submitting"} /\ t \in Task
      /\ task[t] = "shown" /\ Stand(t, "pending")
      /\ gtk' = [at |-> "loop", task |-> NoTask]
      /\ UNCHANGED <<lock, count, idle, sensitive, executing, signalled>>
  BY DEF WindowInv, GtkInv, Submit, At, Loop
<1>2. /\ count \in Nat /\ task \in [Task -> Stage]
      /\ count = Cardinality(Counted)
  BY <1>1 DEF WindowInv, WindowTypeOK, CountIsWork, At
<1>3. /\ gtk' \in [at : Point, task : Task \cup {NoTask}]
      /\ gtk'.at = "loop"
  <2>1. "loop" \in Point
    BY DEF Point
  <2> QED BY <1>1, <2>1, GtkMoves DEF WindowInv, WindowTypeOK
<1>4. BacksKept /\ ShownIsTrue'
  BY <1>1, QuietQueue
<1>5. "pending" \in Stage
  BY DEF Stage
<1>6. /\ task' \in [Task -> Stage] /\ task'[t] = "pending"
      /\ \A u \in Task : u # t => task'[u] = task[u]
  BY <1>1, <1>2, <1>5, Stands
<1>7. Cardinality(Counted') = count
  <2>1. Counts(t, task[t]) /\ Counts(t, "pending")
    BY <1>1 DEF Counts
  <2> QED BY <1>1, <1>2, <1>5, <2>1, CountAfterStand
<1> HIDE DEF t
<1>8. WindowTypeOK'
  BY <1>1, <1>2, <1>3, <1>4, <1>6 DEF WindowInv, WindowTypeOK, BacksKept
<1>9. GtkInv'
  BY <1>3 DEF GtkInv, At
<1>10. BackInv'
  BY <1>1, <1>3, <1>4, <1>6 DEF WindowInv, BackInv, At, BacksKept
<1>11. FollowInv'
  <2> SUFFICES ASSUME NEW u \in Task, follow[u] # NoTask,
                      task'[u] # "done" \/ BackQueued(u)'
               PROVE  task'[follow[u]] = "none"
    BY <1>3 DEF FollowInv, At
  <2>1. task[u] # "done" \/ BackQueued(u)
    BY <1>1, <1>4, <1>6 DEF BacksKept
  <2>2. task[follow[u]] = "none" /\ follow[u] \in Task
    BY <2>1, TaskAssumption DEF WindowInv, FollowInv
  <2> QED BY <1>1, <1>6, <2>2
<1>12. CountIsWork'
  BY <1>1, <1>7 DEF CountIsWork
<1> QED BY <1>4, <1>8, <1>9, <1>10, <1>11, <1>12 DEF WindowInv

LEMMA RunEndStep ==
  ASSUME WindowInv, NEW t \in Task, Run(t) \/ End(t)
  PROVE  WindowInv'
<1>1. PICK s \in {"running", "ended"} :
        /\ Stand(t, s) /\ s \in Stage
        /\ task[t] \in {"pending", "running"}
        /\ UNCHANGED <<gtk, lock, count, idle, sensitive, executing, signalled>>
  BY DEF Run, End, Stage
<1>2. count \in Nat /\ task \in [Task -> Stage]
  BY DEF WindowInv, WindowTypeOK
<1>3. BacksKept /\ ShownIsTrue'
  BY <1>1, QuietQueue
<1>4. /\ task' \in [Task -> Stage] /\ task'[t] = s
      /\ \A u \in Task : u # t => task'[u] = task[u]
  BY <1>1, <1>2, Stands
<1>5. CountIsWork'
  <2> SUFFICES ASSUME ~At("stuck")' PROVE count' = Cardinality(Counted')
    BY DEF CountIsWork
  <2>1. count = Cardinality(Counted)
    BY <1>1 DEF WindowInv, CountIsWork, At
  <2>2. Counts(t, task[t]) /\ Counts(t, s)
    BY <1>1 DEF Counts
  <2> QED BY <1>1, <1>2, <2>1, <2>2, CountAfterStand
<1>6. WindowTypeOK'
  BY <1>1, <1>3, <1>4 DEF WindowInv, WindowTypeOK, BacksKept
<1>7. GtkInv'
  BY <1>1, <1>4, TaskAssumption DEF WindowInv, GtkInv, At
<1>8. BackInv'
  BY <1>1, <1>3, <1>4 DEF WindowInv, BackInv, At, BacksKept
<1>9. FollowInv'
  <2> SUFFICES ASSUME NEW u \in Task, follow[u] # NoTask,
                      task'[u] # "done" \/ BackQueued(u)'
               PROVE  /\ task'[follow[u]] = "none"
                      /\ ~(At("on") /\ gtk.task = follow[u])
    BY <1>1 DEF FollowInv, At
  <2>1. task[u] # "done" \/ BackQueued(u)
    BY <1>1, <1>3, <1>4 DEF BacksKept
  <2>2. /\ task[follow[u]] = "none" /\ follow[u] \in Task
        /\ ~(At("on") /\ gtk.task = follow[u])
    BY <2>1, TaskAssumption DEF WindowInv, FollowInv
  <2> QED BY <1>1, <1>4, <2>2
<1> QED BY <1>3, <1>5, <1>6, <1>7, <1>8, <1>9 DEF WindowInv

LEMMA TaskDoneStep ==
  ASSUME WindowInv, NEW t \in Task, TaskDone(t) PROVE WindowInv'
<1>1. PICK s \in {"done", "called"} :
        /\ Stand(t, s) /\ s \in Stage
        /\ s = "called" => follow[t] # NoTask
        /\ task[t] = "ended" /\ t \notin Ai
        /\ CountDown
        /\ UNCHANGED <<gtk, lock, sensitive, executing, signalled>>
  BY DEF TaskDone, Stage
<1>2. /\ idle \in Seq(Event) /\ count \in Nat /\ ShownIsTrue
      /\ task \in [Task -> Stage]
  BY DEF WindowInv, WindowTypeOK
<1>3. /\ count' \in Nat /\ count' = (IF count = 0 THEN 0 ELSE count - 1)
      /\ BacksKept /\ ShownIsTrue'
  BY <1>1, <1>2, AfterCountDown
<1>4. /\ task' \in [Task -> Stage] /\ task'[t] = s
      /\ \A u \in Task : u # t => task'[u] = task[u]
  BY <1>1, <1>2, Stands
<1>5. CountIsWork'
  <2> SUFFICES ASSUME ~At("stuck")' PROVE count' = Cardinality(Counted')
    BY DEF CountIsWork
  <2>1. count = Cardinality(Counted)
    BY <1>1 DEF WindowInv, CountIsWork, At
  <2>2. Counts(t, task[t]) /\ ~Counts(t, s)
    BY <1>1 DEF Counts
  <2>3. count # 0 /\ Cardinality(Counted') = count - 1
    BY <1>1, <1>2, <2>1, <2>2, CountAfterStand
  <2> QED BY <1>3, <2>3
<1>6. WindowTypeOK'
  BY <1>1, <1>3, <1>4 DEF WindowInv, WindowTypeOK, BacksKept
<1>7. GtkInv'
  BY <1>1, <1>4, TaskAssumption DEF WindowInv, GtkInv, At
<1>8. BackInv'
  BY <1>1, <1>3, <1>4 DEF WindowInv, BackInv, At, BacksKept
<1>9. FollowInv'
  <2> SUFFICES ASSUME NEW u \in Task, follow[u] # NoTask,
                      task'[u] # "done" \/ BackQueued(u)'
               PROVE  /\ task'[follow[u]] = "none"
                      /\ ~(At("on") /\ gtk.task = follow[u])
    BY <1>1 DEF FollowInv, At
  <2>1. task[u] # "done" \/ BackQueued(u)
    BY <1>1, <1>3, <1>4 DEF BacksKept
  <2>2. /\ task[follow[u]] = "none" /\ follow[u] \in Task
        /\ ~(At("on") /\ gtk.task = follow[u])
    BY <2>1, TaskAssumption DEF WindowInv, FollowInv
  <2> QED BY <1>1, <1>4, <2>2
<1> QED BY <1>3, <1>5, <1>6, <1>7, <1>8, <1>9 DEF WindowInv

LEMMA QueueCallbackStep ==
  ASSUME WindowInv, NEW t \in Task, QueueCallback(t) PROVE WindowInv'
<1>1. PICK s \in {"called", "done"} :
        /\ Stand(t, s) /\ s \in Stage
        /\ IF t \in Ai THEN task[t] = "ended" /\ s = "called"
                       ELSE task[t] = "called" /\ s = "done"
        /\ idle' = Append(idle, Back(t))
        /\ UNCHANGED <<gtk, lock, count, sensitive, executing, signalled>>
  BY DEF QueueCallback, Stage
<1>2. /\ idle \in Seq(Event) /\ count \in Nat /\ ShownIsTrue
      /\ task \in [Task -> Stage]
  BY DEF WindowInv, WindowTypeOK
<1>3. ShownIsTrue'
  BY <1>1, <1>2, TrueAfterBack
<1>4. /\ task' \in [Task -> Stage] /\ task'[t] = s
      /\ \A u \in Task : u # t => task'[u] = task[u]
  BY <1>1, <1>2, Stands
<1>5. ~BackQueued(t)
  BY <1>1 DEF WindowInv, BackInv
<1>6. /\ idle' \in Seq(Event)
      /\ \A u \in Task : BackQueued(u)' <=> BackQueued(u) \/ u = t
      /\ \A u \in Task : Once(u)'
  <2>1. idle' \in Seq(Event)
    BY <1>1, <1>2, BackAfterBack
  <2>2. ASSUME NEW u \in Task
        PROVE  (BackQueued(u)' <=> BackQueued(u) \/ u = t) /\ Once(u)'
    <3>1. Once(u)
      BY DEF WindowInv, BackInv
    <3> QED BY <1>1, <1>2, <1>5, <3>1, BackAfterBack
  <2> QED BY <2>1, <2>2
<1>7. CountIsWork'
  <2> SUFFICES ASSUME ~At("stuck")' PROVE count' = Cardinality(Counted')
    BY DEF CountIsWork
  <2>1. count = Cardinality(Counted)
    BY <1>1 DEF WindowInv, CountIsWork, At
  <2>2. Counts(t, task[t]) <=> Counts(t, s)
    BY <1>1 DEF Counts
  <2> QED BY <1>1, <1>2, <2>1, <2>2, CountAfterStand
<1>8. WindowTypeOK'
  BY <1>1, <1>4, <1>6 DEF WindowInv, WindowTypeOK
<1>9. GtkInv'
  <2>1. ASSUME At("off") PROVE gtk.task # t
    BY <1>1, <2>1 DEF WindowInv, GtkInv
  <2> QED BY <1>1, <1>4, <2>1, TaskAssumption DEF WindowInv, GtkInv, At
<1>10. BackInv'
  <2>1. ASSUME At("off") PROVE gtk.task # t
    BY <1>1, <2>1 DEF WindowInv, GtkInv
  <2>2. t \notin Ai => follow[t] # NoTask
    BY <1>1 DEF WindowInv, BackInv
  <2> QED BY <1>1, <1>4, <1>6, <2>1, <2>2 DEF WindowInv, BackInv, At
<1>11. FollowInv'
  <2> SUFFICES ASSUME NEW u \in Task, follow[u] # NoTask,
                      task'[u] # "done" \/ BackQueued(u)'
               PROVE  /\ task'[follow[u]] = "none"
                      /\ ~(At("on") /\ gtk.task = follow[u])
    BY <1>1 DEF FollowInv, At
  <2>1. task[u] # "done" \/ BackQueued(u)
    BY <1>1, <1>4, <1>6
  <2>2. /\ task[follow[u]] = "none" /\ follow[u] \in Task
        /\ ~(At("on") /\ gtk.task = follow[u])
    BY <2>1, TaskAssumption DEF WindowInv, FollowInv
  <2> QED BY <1>1, <1>4, <2>2
<1> QED BY <1>3, <1>7, <1>8, <1>9, <1>10, <1>11 DEF WindowInv

LEMMA ShowStateStep == ASSUME WindowInv, ShowState PROVE WindowInv'
<1>1. /\ idle # <<>> /\ IsShow(Head(idle)) /\ idle' = Tail(idle)
      /\ sensitive' = ~Head(idle).show
      /\ UNCHANGED <<gtk, lock, count, task, executing, signalled>>
  BY DEF ShowState
<1>2. idle \in Seq(Event) /\ count \in Nat /\ ShownIsTrue
  BY DEF WindowInv, WindowTypeOK
<1>3. ShownIsTrue'
  <2>1. sensitive' = IF IsShow(Head(idle)) THEN ~Head(idle).show ELSE sensitive
    BY <1>1
  <2> QED BY <1>1, <1>2, <2>1, TrueAfterTail
<1>4. /\ idle' \in Seq(Event)
      /\ \A u \in Task : BackQueued(u)' => BackQueued(u)
      /\ \A u \in Task : Once(u) => Once(u)'
  <2>1. idle' \in Seq(Event)
    BY <1>1, <1>2, Shortened
  <2>2. ASSUME NEW u \in Task
        PROVE  (BackQueued(u)' => BackQueued(u)) /\ (Once(u) => Once(u)')
    BY <1>1, <1>2, BackAfterTail
  <2> QED BY <2>1, <2>2
<1>5. CountIsWork'
  BY <1>1, QuietTasks DEF At
<1>6. sensitive' \in BOOLEAN
  BY <1>1, Zenon
<1>7. WindowTypeOK'
  BY <1>1, <1>4, <1>6 DEF WindowInv, WindowTypeOK
<1>8. GtkInv'
  BY <1>1 DEF WindowInv, GtkInv, At
<1>9. BackInv'
  BY <1>1, <1>4 DEF WindowInv, BackInv, At
<1>10. FollowInv'
  BY <1>1, <1>4 DEF WindowInv, FollowInv, At
<1> QED BY <1>3, <1>5, <1>7, <1>8, <1>9, <1>10 DEF WindowInv

LEMMA CallbackStep == ASSUME WindowInv, Callback PROVE WindowInv'
<1>1. /\ gtk.at = "loop"
      /\ idle # <<>> /\ ~IsShow(Head(idle)) /\ idle' = Tail(idle)
      /\ UNCHANGED <<lock, count, sensitive, task, signalled>>
  BY DEF Callback, At
<1>2. /\ idle \in Seq(Event) /\ count \in Nat /\ ShownIsTrue
      /\ gtk \in [at : Point, task : Task \cup {NoTask}]
  BY DEF WindowInv, WindowTypeOK
<1>3. PICK t \in Task : Head(idle) = Back(t) /\ Head(idle).back = t
  <2>1. Head(idle) \in Event
    BY <1>1, <1>2, Shortened
  <2> QED BY <1>1, <2>1, Kinds
<1>4. ShownIsTrue'
  <2>1. sensitive' = IF IsShow(Head(idle)) THEN ~Head(idle).show ELSE sensitive
    BY <1>1
  <2> QED BY <1>1, <1>2, <2>1, TrueAfterTail
<1>5. /\ idle' \in Seq(Event)
      /\ \A u \in Task : BackQueued(u)' => BackQueued(u)
      /\ \A u \in Task : Once(u)'
      /\ ~BackQueued(t)'
  <2>1. idle' \in Seq(Event)
    BY <1>1, <1>2, Shortened
  <2>2. ASSUME NEW u \in Task
        PROVE  /\ BackQueued(u)' => BackQueued(u)
               /\ Once(u)'
               /\ u = t => ~BackQueued(u)'
    <3>1. Once(u)
      BY DEF WindowInv, BackInv
    <3> QED BY <1>1, <1>2, <1>3, <3>1, BackAfterTail
  <2> QED BY <2>1, <2>2
<1>6. /\ BackQueued(t)
      /\ task[t] = (IF t \in Ai THEN "called" ELSE "done")
      /\ t \notin Ai => follow[t] # NoTask
  <2>1. BackQueued(t)
    BY <1>1, <1>2, <1>3, Shortened DEF BackQueued
  <2> QED BY <2>1 DEF WindowInv, BackInv
<1>7. /\ gtk' \in [at : Point, task : Task \cup {NoTask}]
      /\ \/ gtk'.at = "off" /\ gtk'.task = t /\ t \in Ai
         \/ gtk'.at = "on" /\ gtk'.task = follow[t] /\ t \notin Ai
         \/ gtk'.at = "loop"
  <2>1. "on" \in Point /\ "off" \in Point /\ follow[t] \in Task \cup {NoTask}
    BY TaskAssumption DEF Point
  <2> QED BY <1>1, <1>2, <1>3, <2>1, GtkMoves DEF Callback
<1>8. executing' \in BOOLEAN
  BY DEF Callback, WindowInv, WindowTypeOK
<1>9. CountIsWork'
  BY <1>1, QuietTasks DEF At
<1>10. WindowTypeOK'
  BY <1>1, <1>5, <1>7, <1>8 DEF WindowInv, WindowTypeOK
<1>11. t \notin Ai => follow[t] \in Task /\ task[follow[t]] = "none"
  BY <1>6, TaskAssumption DEF WindowInv, FollowInv
<1>12. GtkInv'
  BY <1>1, <1>6, <1>7, <1>11 DEF GtkInv, At
<1>13. BackInv'
  BY <1>1, <1>5, <1>7 DEF WindowInv, BackInv, At
<1>14. FollowInv'
  <2> SUFFICES ASSUME NEW u \in Task, follow[u] # NoTask,
                      task[u] # "done" \/ BackQueued(u)'
               PROVE  /\ task[follow[u]] = "none"
                      /\ ~(gtk'.at = "on" /\ gtk'.task = follow[u])
    BY <1>1 DEF FollowInv, At
  <2>1. task[follow[u]] = "none"
    BY <1>5 DEF WindowInv, FollowInv
  <2>2. ASSUME gtk'.at = "on", gtk'.task = follow[u] PROVE FALSE
    <3>1. t \notin Ai /\ follow[t] = follow[u]
      BY <1>7, <2>2
    <3>2. u = t
      BY <3>1, TaskAssumption
    <3> QED BY <1>5, <1>6, <3>1, <3>2
  <2> QED BY <2>1, <2>2
<1> QED BY <1>4, <1>9, <1>10, <1>12, <1>13, <1>14 DEF WindowInv

\* Close, and Signal when it gets through.
LEMMA EndStep ==
  ASSUME WindowInv, gtk.at # "stuck", CancelPending, Reach("quit"),
         lock' = FALSE, UNCHANGED <<sensitive, executing>>,
         signalled' \in BOOLEAN
  PROVE  WindowInv'
<1>1. /\ idle \in Seq(Event) /\ count \in Nat /\ ShownIsTrue
      /\ task \in [Task -> Stage] /\ count = Cardinality(Counted)
  BY DEF WindowInv, WindowTypeOK, CountIsWork, At
<1>2. /\ task' \in [Task -> Stage]
      /\ \A t \in Task :
           task'[t] = IF t \in Cancelled THEN "done" ELSE task[t]
      /\ count' \in Nat /\ count' = Cardinality(Counted')
  BY <1>1, CountAfterCancel
<1>3. BacksKept /\ ShownIsTrue'
  BY <1>1, AfterCancel
<1>4. /\ gtk' \in [at : Point, task : Task \cup {NoTask}]
      /\ gtk'.at = "quit"
  <2>1. "quit" \in Point
    BY DEF Point
  <2> QED BY <2>1, GtkMoves DEF WindowInv, WindowTypeOK
<1>5. \A t \in Task : \/ task'[t] = task[t]
                      \/ task[t] = "pending" /\ task'[t] = "done"
  BY <1>2 DEF Cancelled
<1>6. WindowTypeOK'
  BY <1>2, <1>3, <1>4 DEF WindowInv, WindowTypeOK, BacksKept
<1>7. GtkInv'
  BY <1>4 DEF GtkInv, At
<1>8. BackInv'
  BY <1>3, <1>4, <1>5 DEF WindowInv, BackInv, At, BacksKept
<1>9. FollowInv'
  <2> SUFFICES ASSUME NEW u \in Task, follow[u] # NoTask,
                      task'[u] # "done" \/ BackQueued(u)'
               PROVE  task'[follow[u]] = "none"
    BY <1>4 DEF FollowInv, At
  <2>1. task[u] # "done" \/ BackQueued(u)
    BY <1>3, <1>5 DEF BacksKept
  <2>2. task[follow[u]] = "none" /\ follow[u] \in Task
    BY <2>1, TaskAssumption DEF WindowInv, FollowInv
  <2> QED BY <1>5, <2>2
<1>10. CountIsWork'
  BY <1>2 DEF CountIsWork
<1> QED BY <1>3, <1>6, <1>7, <1>8, <1>9, <1>10 DEF WindowInv

LEMMA CloseStep == ASSUME WindowInv, Close PROVE WindowInv'
<1>1. gtk.at = "loop" /\ lock \in BOOLEAN /\ signalled \in BOOLEAN
  BY DEF WindowInv, WindowTypeOK, Close, At
<1>2. lock' = FALSE /\ signalled' \in BOOLEAN
  BY <1>1 DEF WindowInv, WindowTypeOK, Close
<1> QED BY <1>1, <1>2, EndStep DEF Close

LEMMA SignalStep == ASSUME WindowInv, Signal PROVE WindowInv'
<1>1. /\ signalled' = TRUE /\ gtk.at # "stuck"
      /\ UNCHANGED <<sensitive, executing>>
  BY DEF WindowInv, GtkInv, Signal, At
<1>2. CASE SelfDeadlock
  <2>1. Reach("stuck") /\ UNCHANGED <<lock, count, idle, task>>
    BY <1>2 DEF Signal
  <2>2. /\ gtk' \in [at : Point, task : Task \cup {NoTask}]
        /\ gtk'.at = "stuck"
    <3>1. "stuck" \in Point
      BY DEF Point
    <3> QED BY <2>1, <3>1, GtkMoves DEF WindowInv, WindowTypeOK
  <2>3. BacksKept /\ ShownIsTrue'
    BY <1>1, <2>1, QuietQueue
  <2>4. WindowTypeOK'
    BY <1>1, <2>1, <2>2, <2>3 DEF WindowInv, WindowTypeOK, BacksKept
  <2>5. GtkInv'
    BY <1>1, <2>2 DEF GtkInv, At
  <2>6. BackInv'
    BY <2>1, <2>2, <2>3 DEF WindowInv, BackInv, At, BacksKept
  <2>7. FollowInv'
    BY <2>1, <2>2, <2>3 DEF WindowInv, FollowInv, At, BacksKept
  <2>8. CountIsWork'
    BY <2>2 DEF CountIsWork, At
  <2> QED BY <2>3, <2>4, <2>5, <2>6, <2>7, <2>8 DEF WindowInv
<1>3. CASE ~SelfDeadlock
  BY <1>1, <1>3, EndStep DEF Signal
<1> QED BY <1>2, <1>3

LEMMA WindowInvInit == WindowInit => WindowInv
<1> SUFFICES ASSUME WindowInit PROVE WindowInv
  OBVIOUS
<1>1. /\ gtk.at = "loop" /\ idle = <<>> /\ count = 0 /\ sensitive = TRUE
      /\ \A t \in Task : task[t] = "none"
  BY DEF WindowInit
<1>2. WindowTypeOK
  <2>1. <<>> \in Seq(Event) /\ [t \in Task |-> "none"] \in [Task -> Stage]
    BY DEF Stage
  <2>2. /\ gtk \in [at : Point, task : Task \cup {NoTask}]
        /\ gtk.at # "stuck" => (lock <=> gtk.at \in {"onLocked", "offLocked"})
    BY DEF WindowInit, Point
  <2> QED BY <2>1, <2>2 DEF WindowInit, WindowTypeOK
<1>3. \A t \in Task : Once(t) /\ ~BackQueued(t)
  BY <1>1 DEF Once, BackQueued
<1>4. GtkInv /\ BackInv
  BY <1>1, <1>3 DEF GtkInv, BackInv, At
<1>5. FollowInv
  BY <1>1, TaskAssumption DEF FollowInv, At
<1>6. CountIsWork
  <2>1. Counted = {}
    BY <1>1 DEF Counted
  <2> QED BY <1>1, <2>1, FS_EmptySet DEF CountIsWork
<1>7. ShownIsTrue
  <2>1. Shows = {}
    BY <1>1 DEF Shows
  <2> QED BY <1>1, <2>1 DEF ShownIsTrue
<1> QED BY <1>2, <1>4, <1>5, <1>6, <1>7 DEF WindowInv

LEMMA WindowInvStep == WindowInv /\ [WindowNext]_windowVars => WindowInv'
<1> SUFFICES ASSUME WindowInv, [WindowNext]_windowVars PROVE WindowInv'
  OBVIOUS
<1>1. CASE GtkStep
  BY <1>1, SetBusyStep, SetIdleStep, ReleaseLockStep, EnterSubmitStep,
     SubmitStep, ShowStateStep, CallbackStep DEF GtkStep
<1>2. CASE Close
  BY <1>2, CloseStep
<1>3. CASE Signal
  BY <1>3, SignalStep
<1>4. ASSUME NEW t \in Task, Click(t) \/ Worker(t) PROVE WindowInv'
  BY <1>4, ClickStep, RunEndStep, TaskDoneStep, QueueCallbackStep DEF Worker
<1>5. CASE UNCHANGED windowVars
  <2>1. UNCHANGED <<gtk, lock, count, idle, sensitive, task, executing,
                    signalled>>
    BY <1>5 DEF windowVars
  <2>2. BacksKept /\ ShownIsTrue' /\ CountIsWork'
    BY <2>1, QuietQueue, QuietTasks DEF At
  <2>3. WindowTypeOK' /\ GtkInv'
    BY <2>1 DEF WindowInv, WindowTypeOK, GtkInv, At
  <2>4. BackInv' /\ FollowInv'
    BY <2>1, <2>2 DEF WindowInv, BackInv, FollowInv, At, BacksKept
  <2> QED BY <2>2, <2>3, <2>4 DEF WindowInv
<1> QED BY <1>1, <1>2, <1>3, <1>4, <1>5 DEF WindowNext

LEMMA WindowInvariance == WindowSpec => []WindowInv
BY WindowInvInit, WindowInvStep, PTL DEF WindowSpec

(***************************************************************************)
(* Every variable of the window keeps its type, and the lock of the busy   *)
(* count is held exactly while the GTK thread is inside set_busy, unless a *)
(* signal has left the thread there.                                       *)
(***************************************************************************)
THEOREM WindowTypeCorrect == WindowSpec => []WindowTypeOK
<1>1. WindowInv => WindowTypeOK
  BY DEF WindowInv
<1> QED BY <1>1, WindowInvariance, PTL

(***************************************************************************)
(* set_busy(True) and set_busy(False) are in balance: for any tasks, any   *)
(* callbacks that start others and any number of workers, the window       *)
(* counts as busy for exactly the tasks that are announced and have not    *)
(* ended, also after the executor has cancelled those nobody had begun.    *)
(***************************************************************************)
THEOREM CountsAreWork == WindowSpec => []CountIsWork
<1>1. WindowInv => CountIsWork
  BY DEF WindowInv
<1> QED BY <1>1, WindowInvariance, PTL

(***************************************************************************)
(* The last of the queued _update_busy_ui callbacks shows the state the    *)
(* count is in, and once none is queued the controls show it: threads that *)
(* mark the window busy and idle at the same time leave no stale state.    *)
(***************************************************************************)
THEOREM ControlsAreTrue == WindowSpec => []ShownIsTrue
<1>1. WindowInv => ShownIsTrue
  BY DEF WindowInv
<1> QED BY <1>1, WindowInvariance, PTL
=============================================================================
