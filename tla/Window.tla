------------------------------- MODULE Window -------------------------------
(***************************************************************************)
(* The main window and the threads that work for it: MainWindow            *)
(* (netmedic/ui.py), the VPN panel (ui_vpn.py), the AI palette             *)
(* (ai_console.py) and the end of the program by a signal (runtime.py).    *)
(*                                                                         *)
(* The GTK thread handles one event after the other: a click, a callback   *)
(* that idle_add put into its queue, the closing of the window.  A click   *)
(* marks the window busy, hands a task to the executor, and the thread     *)
(* that carried it out marks it idle again; how often it is marked busy is *)
(* counted under a lock.  A signal handler runs in the GTK thread, between *)
(* any two of its steps.  What a task does, and its log lines and dialogs, *)
(* are left out.                                                           *)
(***************************************************************************)
EXTENDS Naturals, Sequences, SequencesExt, FiniteSets

CONSTANTS Task,      \* what the user may ask for, each once
          NoTask,
          Ai,        \* those executed from the palette, by PilotClient
          follow,    \* [Task -> task its callback starts, or NoTask]
          Workers    \* max_workers of the executor

ASSUME TaskAssumption ==
  /\ IsFiniteSet(Task) /\ NoTask \notin Task
  /\ Ai \subseteq Task
  /\ follow \in [Task -> (Task \ Ai) \cup {NoTask}]
  /\ \A t \in Ai : follow[t] = NoTask
  /\ \A t, u \in Task : follow[t] = follow[u] => t = u \/ follow[t] = NoTask
ASSUME WorkersAssumption == Workers \in Nat \ {0}

VARIABLES gtk,        \* what the GTK thread is in the middle of
          lock,       \* _busy_lock is held (by the GTK thread)
          count,      \* _busy_count
          idle,       \* callbacks idle_add has queued
          sensitive,  \* the controls react to the user
          task,       \* [Task -> how far it has come]
          executing,  \* _execute_in_flight of the palette
          signalled   \* a signal has arrived

windowVars == <<gtk, lock, count, idle, sensitive, task, executing, signalled>>

Started == {follow[t] : t \in Task} \ {NoTask}
Clickable == Task \ Started

Stage == {"none", "shown", "pending", "running", "ended", "called", "done"}

(***************************************************************************)
(* The GTK thread: in its loop; before set_busy(True) or (False); in       *)
(* set_busy with the lock; before submit, in submit; or past the loop.     *)
(***************************************************************************)
Point == {"loop", "on", "onLocked", "submit", "submitting",
          "off", "offLocked", "quit", "stuck"}

Show(b) == [show |-> b]
Back(t) == [back |-> t]
IsShow(e) == "show" \in DOMAIN e
Event == [show : BOOLEAN] \cup [back : Task]

WindowTypeOK ==
  /\ gtk \in [at : Point, task : Task \cup {NoTask}]
  /\ lock \in BOOLEAN
  /\ count \in Nat
  /\ idle \in Seq(Event)
  /\ sensitive \in BOOLEAN
  /\ task \in [Task -> Stage]
  /\ executing \in BOOLEAN
  /\ signalled \in BOOLEAN
  /\ gtk.at # "stuck" => (lock <=> gtk.at \in {"onLocked", "offLocked"})

WindowInit ==
  /\ gtk = [at |-> "loop", task |-> NoTask]
  /\ lock = FALSE
  /\ count = 0
  /\ idle = <<>>
  /\ sensitive = TRUE
  /\ task = [t \in Task |-> "none"]
  /\ executing = FALSE
  /\ signalled = FALSE

-----------------------------------------------------------------------------
At(point) == gtk.at = point
Reach(point) == gtk' = [gtk EXCEPT !.at = point]
Loop == gtk' = [at |-> "loop", task |-> NoTask]
Stand(t, stage) == task' = [task EXCEPT ![t] = stage]

CountUp ==
  /\ count' = count + 1
  /\ idle' = IF count = 0 THEN Append(idle, Show(TRUE)) ELSE idle

\* Mutant: every task that ends unlocks the controls.
CountDownAndShow ==
  /\ count' = IF count = 0 THEN 0 ELSE count - 1
  /\ idle' = Append(idle, Show(FALSE))

CountDown ==
  /\ count' = IF count = 0 THEN 0 ELSE count - 1
  /\ idle' = IF count <= 1 THEN Append(idle, Show(FALSE)) ELSE idle

\* The user starts a task: by a button, or by authorising a proposal.
Click(t) ==
  /\ At("loop") /\ sensitive
  /\ t \in Clickable /\ task[t] = "none"
  /\ t \in Ai => ~executing
  /\ gtk' = [at |-> "on", task |-> t]
  /\ executing' = (executing \/ t \in Ai)
  /\ UNCHANGED <<lock, count, idle, sensitive, task, signalled>>

SetBusy ==
  /\ At("on") /\ ~lock
  /\ lock' = TRUE
  /\ CountUp
  /\ Stand(gtk.task, "shown")
  /\ Reach("onLocked")
  /\ UNCHANGED <<sensitive, executing, signalled>>

\* on_result of the palette, in the GTK thread.
SetIdle ==
  /\ At("off") /\ ~lock
  /\ lock' = TRUE
  /\ CountDown
  /\ Stand(gtk.task, "done")
  /\ Reach("offLocked")
  /\ UNCHANGED <<sensitive, executing, signalled>>

ReleaseLock ==
  /\ lock' = FALSE
  /\ \/ At("onLocked") /\ Reach("submit")
     \/ At("offLocked") /\ Loop
  /\ UNCHANGED <<count, idle, sensitive, task, executing, signalled>>

\* executor.submit takes a lock of its own; PilotClient.ask a queue.
EnterSubmit ==
  /\ At("submit") /\ gtk.task \notin Ai
  /\ Reach("submitting")
  /\ UNCHANGED <<lock, count, idle, sensitive, task, executing, signalled>>

Submit ==
  /\ At("submitting") \/ (At("submit") /\ gtk.task \in Ai)
  /\ Stand(gtk.task, "pending")
  /\ Loop
  /\ UNCHANGED <<lock, count, idle, sensitive, executing, signalled>>

-----------------------------------------------------------------------------
Busy == {t \in Task \ Ai : task[t] \in {"running", "ended", "called"}}

\* A worker, or the one thread of PilotClient, takes the task.
Run(t) ==
  /\ task[t] = "pending"
  /\ IF t \in Ai THEN \A a \in Ai : task[a] # "running"
                 ELSE Cardinality(Busy) < Workers
  /\ Stand(t, "running")
  /\ UNCHANGED <<gtk, lock, count, idle, sensitive, executing, signalled>>

\* It returns, or raises: both are a result.
End(t) ==
  /\ task[t] = "running"
  /\ Stand(t, "ended")
  /\ UNCHANGED <<gtk, lock, count, idle, sensitive, executing, signalled>>

\* Mutant: a task with a callback leaves it to the callback.
TaskDoneUnlessFollowed(t) ==
  /\ task[t] = "ended" /\ t \notin Ai
  /\ ~lock
  /\ IF follow[t] = NoTask THEN CountDown ELSE UNCHANGED <<count, idle>>
  /\ Stand(t, IF follow[t] = NoTask THEN "done" ELSE "called")
  /\ UNCHANGED <<gtk, lock, sensitive, executing, signalled>>

\* on_task_done and on_done: set_busy(False) comes first ...
TaskDone(t) ==
  /\ task[t] = "ended" /\ t \notin Ai
  /\ ~lock
  /\ CountDown
  /\ Stand(t, IF follow[t] = NoTask THEN "done" ELSE "called")
  /\ UNCHANGED <<gtk, lock, sensitive, executing, signalled>>

\* ... and the callback is queued after it.
QueueCallback(t) ==
  /\ IF t \in Ai THEN task[t] = "ended" ELSE task[t] = "called"
  /\ idle' = Append(idle, Back(t))
  /\ Stand(t, IF t \in Ai THEN "called" ELSE "done")
  /\ UNCHANGED <<gtk, lock, count, sensitive, executing, signalled>>

-----------------------------------------------------------------------------
\* Mutant: the callbacks that show the state overtake each other.
ShowLatest ==
  /\ At("loop") /\ idle # <<>>
  /\ IsShow(Last(idle))
  /\ sensitive' = ~Last(idle).show
  /\ idle' = Front(idle)
  /\ UNCHANGED <<gtk, lock, count, task, executing, signalled>>

\* _update_busy_ui.
ShowState ==
  /\ At("loop") /\ idle # <<>>
  /\ IsShow(Head(idle))
  /\ sensitive' = ~Head(idle).show
  /\ idle' = Tail(idle)
  /\ UNCHANGED <<gtk, lock, count, task, executing, signalled>>

\* Mutant: the palette stays closed when the window has become busy again.
CallbackIfIdle ==
  /\ At("loop") /\ idle # <<>>
  /\ ~IsShow(Head(idle))
  /\ idle' = Tail(idle)
  /\ LET t == Head(idle).back IN
     IF t \in Ai
     THEN /\ gtk' = [at |-> "off", task |-> t]
          /\ executing' = (count > 1)
     ELSE /\ gtk' = [at |-> "on", task |-> follow[t]] \/ UNCHANGED gtk
          /\ UNCHANGED executing
  /\ UNCHANGED <<lock, count, sensitive, task, signalled>>

(***************************************************************************)
(* The callback of a VPN task may start the next one (the list of clients  *)
(* after a change of it, unless the service is not there), that of the     *)
(* palette ends the execution.                                             *)
(***************************************************************************)
Callback ==
  /\ At("loop") /\ idle # <<>>
  /\ ~IsShow(Head(idle))
  /\ idle' = Tail(idle)
  /\ LET t == Head(idle).back IN
     IF t \in Ai
     THEN /\ gtk' = [at |-> "off", task |-> t]
          /\ executing' = FALSE
     ELSE /\ gtk' = [at |-> "on", task |-> follow[t]] \/ UNCHANGED gtk
          /\ UNCHANGED executing
  /\ UNCHANGED <<lock, count, sensitive, task, signalled>>

\* The tasks nobody has begun, which shutdown(cancel_futures=True) cancels.
Cancelled == {t \in Task \ Ai : task[t] = "pending"}

\* Their done callbacks run at once, in the thread that cancels them.
CancelPending ==
  /\ task' = [t \in Task |-> IF t \in Cancelled THEN "done" ELSE task[t]]
  /\ count' = count - Cardinality(Cancelled)
  /\ idle' = IF Cancelled # {} /\ count' = 0
             THEN Append(idle, Show(FALSE)) ELSE idle

\* The window is closed: emergency_shutdown, main_quit.
Close ==
  /\ At("loop")
  /\ CancelPending
  /\ Reach("quit")
  /\ UNCHANGED <<lock, sensitive, executing, signalled>>

(***************************************************************************)
(* handle_signals, on top of whatever the GTK thread is doing.  The locks  *)
(* are not reentrant: shutdown() of the executor waits for the one submit  *)
(* holds, set_busy of a cancelled task for the one set_busy holds, and the *)
(* thread that would release them is the one that waits.                   *)
(***************************************************************************)
SelfDeadlock == At("submitting") \/ (lock /\ Cancelled # {})

Signal ==
  /\ ~At("quit") /\ ~signalled
  /\ signalled' = TRUE
  /\ IF SelfDeadlock
     THEN Reach("stuck") /\ UNCHANGED <<lock, count, idle, task>>
     ELSE /\ CancelPending /\ Reach("quit")
          /\ lock' = FALSE
  /\ UNCHANGED <<sensitive, executing>>

GtkStep ==
  \/ SetBusy \/ SetIdle \/ ReleaseLock \/ EnterSubmit \/ Submit
  \/ ShowState \/ Callback

Worker(t) == Run(t) \/ End(t) \/ TaskDone(t) \/ QueueCallback(t)

WindowNext ==
  \/ GtkStep \/ Close \/ Signal
  \/ \E t \in Task : Click(t) \/ Worker(t)

WindowSpec == WindowInit /\ [][WindowNext]_windowVars

(***************************************************************************)
(* The GTK loop runs, tasks are taken and end (an IPC request returns      *)
(* within its timeout), and done callbacks are called.                     *)
(***************************************************************************)
FairWindowSpec ==
  /\ WindowSpec
  /\ WF_windowVars(GtkStep)
  /\ \A t \in Task : WF_windowVars(Worker(t))

-----------------------------------------------------------------------------
(***************************************************************************)
(* The window counts as busy for exactly the tasks that were announced and *)
(* have not ended: no exit of a task, cancelled ones included, is missed   *)
(* or counted twice.                                                       *)
(***************************************************************************)
Counted ==
  {t \in Task : task[t] \in {"shown", "pending", "running", "ended"}
                   \cup (IF t \in Ai THEN {"called"} ELSE {})}
CountIsWork == ~At("stuck") => count = Cardinality(Counted)

(***************************************************************************)
(* Once the queued callbacks have run, the controls are locked if and only *)
(* if something is under way: two threads that mark the window busy and    *)
(* idle at the same time leave their callbacks in the order of the count.  *)
(***************************************************************************)
Shows == {i \in DOMAIN idle : IsShow(idle[i])}
ShownIsTrue ==
  /\ Shows = {} => sensitive = (count = 0)
  /\ \A i \in Shows : (\A j \in Shows : j <= i) => idle[i].show = (count > 0)

Over == At("quit") \/ At("stuck")

\* The controls that a task has locked are unlocked again.
ControlsComeBack == ~sensitive ~> sensitive \/ Over

\* The palette, which executes one proposal at a time, executes the next one.
PaletteComesBack == executing ~> ~executing \/ Over

(***************************************************************************)
(* docs/ARCHITECTURE.md 111: on a signal the server is stopped, the state  *)
(* files are removed and the operators released; so the handler gets past  *)
(* the teardown of the window.                                             *)
(***************************************************************************)
SignalEndsLoop == ~At("stuck")
=============================================================================
