----------------------------- MODULE Elevation ------------------------------
(***************************************************************************)
(* One elevated verb, from the daemon's CommandRunner.run_elevated         *)
(* (netmedic/system.py) through pkexec to the commands netmedic-helper     *)
(* runs as root (netmedic/helper_main.py), with the clocks of both sides.  *)
(*                                                                         *)
(* The daemon carries out one verb at a time (module Dispatch), so calls   *)
(* follow each other; the root processes they leave behind may not.  Time  *)
(* advances in seconds.                                                    *)
(***************************************************************************)
EXTENDS Naturals, Sequences, FiniteSets

CONSTANTS Call,        \* elevated calls, a retry being a call of its own
          NoCall,      \* the daemon is not inside run_elevated
          Plans,       \* numbers of commands the verbs expand to (plan_verb)
          Timeout,     \* --timeout of the helper, in seconds
          Margin,      \* CommandRunner._IPC_MARGIN
          StopTime     \* a group that is killed has ended within this

ASSUME CallAssumption == IsFiniteSet(Call) /\ NoCall \notin Call
ASSUME PlansAssumption == Plans \subseteq Nat \ {0}
ASSUME TimeAssumption ==
  /\ Timeout \in Nat \ {0}
  /\ Margin \in Nat
  /\ StopTime \in Nat

VARIABLES stage,    \* [Call -> stage of the helper process]
          clock,    \* [Call -> seconds since the helper entered it]
          spent,    \* [Call -> seconds spent outside the command now running]
          cmd,      \* [Call -> number of commands completed]
          plan,     \* [Call -> number of commands of the verb]
          begun,    \* calls whose helper ran as root (history)
          exit,     \* [Call -> what the helper's exit and payload say]
          journal,  \* [Call -> outcomes the helper wrote to the journal]
          answer,   \* [Call -> what run_elevated returned]
          current,  \* the call the daemon waits for
          waited    \* seconds it has waited

helperVars == <<stage, clock, spent, cmd, plan, begun, exit, journal>>
daemonVars == <<answer, current, waited>>
vars == <<helperVars, daemonVars>>

Stage == {"none", "prompt", "command", "stopping", "ended"}
Exit == {"none", "ok", "failed", "timeout", "cancelled", "killed"}
\* Mutant: the daemon waits no longer than the helper's own timeout.
LimitWithoutMargin == Timeout

Limit == Timeout + Margin

\* Commands of this call are running, or being killed, as root.
RootWork(c) == stage[c] \in {"command", "stopping"}

TypeOK ==
  /\ stage \in [Call -> Stage]
  /\ clock \in [Call -> Nat]
  /\ spent \in [Call -> Nat]
  /\ cmd \in [Call -> Nat]
  /\ plan \in [Call -> Plans \cup {0}]
  /\ begun \subseteq Call
  /\ exit \in [Call -> Exit]
  /\ journal \in [Call -> Seq(Exit)]
  /\ answer \in [Call -> Exit]
  /\ current \in Call \cup {NoCall}
  /\ waited \in 0..Limit
  /\ \A c \in Call : cmd[c] <= plan[c]

Init ==
  /\ stage = [c \in Call |-> "none"]
  /\ clock = [c \in Call |-> 0]
  /\ spent = [c \in Call |-> 0]
  /\ cmd = [c \in Call |-> 0]
  /\ plan = [c \in Call |-> 0]
  /\ begun = {}
  /\ exit = [c \in Call |-> "none"]
  /\ journal = [c \in Call |-> <<>>]
  /\ answer = [c \in Call |-> "none"]
  /\ current = NoCall
  /\ waited = 0

-----------------------------------------------------------------------------
\* Mutant: a second verb is started while the first is awaited.
LaunchUnserialised(c, n) ==
  /\ stage[c] = "none"
  /\ current' = c
  /\ waited' = 0
  /\ stage' = [stage EXCEPT ![c] = "prompt"]
  /\ plan' = [plan EXCEPT ![c] = n]
  /\ UNCHANGED <<clock, spent, cmd, begun, exit, journal, answer>>

\* The daemon spawns pkexec netmedic-helper for a verb of n commands.
Launch(c, n) ==
  /\ current = NoCall
  /\ stage[c] = "none"
  /\ current' = c
  /\ waited' = 0
  /\ stage' = [stage EXCEPT ![c] = "prompt"]
  /\ plan' = [plan EXCEPT ![c] = n]
  /\ UNCHANGED <<clock, spent, cmd, begun, exit, journal, answer>>

EnterStage(c, s) ==
  /\ stage' = [stage EXCEPT ![c] = s]
  /\ clock' = [clock EXCEPT ![c] = 0]

\* The dialog, a command before this one or a kill took as long as clock says.
AddToSpent(c) == spent' = [spent EXCEPT ![c] = @ + clock[c]]

\* pkexec becomes root and executes the helper, which starts a command.
Authorize(c) ==
  /\ stage[c] = "prompt"
  /\ EnterStage(c, "command")
  /\ AddToSpent(c)
  /\ begun' = begun \cup {c}
  /\ UNCHANGED <<cmd, plan, exit, journal, daemonVars>>

\* pkexec exits with 126 or, not authorised, with 127: no helper runs.
Dismiss(c) ==
  /\ stage[c] = "prompt"
  /\ EnterStage(c, "ended")
  /\ exit' \in {[exit EXCEPT ![c] = how] : how \in {"cancelled", "failed"}}
  /\ UNCHANGED <<spent, cmd, plan, begun, journal, daemonVars>>

\* execute_plan returned: its journal record, then what main makes of it.
Report(c, record, outcome) ==
  /\ EnterStage(c, "ended")
  /\ journal' = [journal EXCEPT ![c] = Append(@, record)]
  /\ exit' = [exit EXCEPT ![c] = outcome]

\* Mutant: the first command decides.
CommandSucceedsForAll(c) ==
  /\ stage[c] = "command"
  /\ cmd' = [cmd EXCEPT ![c] = @ + 1]
  /\ Report(c, "ok", "ok")
  /\ UNCHANGED <<spent, plan, begun, daemonVars>>

\* A command exits with 0: the next one starts, with the whole timeout.
CommandSucceeds(c) ==
  /\ stage[c] = "command"
  /\ cmd' = [cmd EXCEPT ![c] = @ + 1]
  /\ IF cmd[c] + 1 < plan[c]
     THEN EnterStage(c, "command") /\ AddToSpent(c) /\ UNCHANGED <<exit, journal>>
     ELSE Report(c, "ok", "ok") /\ UNCHANGED spent
  /\ UNCHANGED <<plan, begun, daemonVars>>

(***************************************************************************)
(* A command exits with another code: the rest of the plan is not run.     *)
(* With "dismissed" in its output the payload says cancelled; with         *)
(* "cancel" in it the record is of a failure and the exit status is that   *)
(* of a dismissed dialog.                                                  *)
(***************************************************************************)
CommandFails(c) ==
  /\ stage[c] = "command"
  /\ \/ Report(c, "failed", "failed")
     \/ Report(c, "cancelled", "cancelled")
     \/ Report(c, "failed", "cancelled")
  /\ UNCHANGED <<spent, cmd, plan, begun, daemonVars>>

(***************************************************************************)
(* An exception nobody catches leaves execute_plan: a command that cannot  *)
(* be executed, or a script not staged, before a command; output that is   *)
(* not text after one.  The helper exits with 1 and a traceback.           *)
(***************************************************************************)
HelperRaises(c) ==
  /\ stage[c] = "command"
  /\ EnterStage(c, "ended")
  /\ cmd' \in {cmd, [cmd EXCEPT ![c] = @ + 1]}
  /\ exit' = [exit EXCEPT ![c] = "failed"]
  /\ UNCHANGED <<spent, plan, begun, journal, daemonVars>>

\* communicate(timeout) of the command expires: its group is signalled.
CommandTimesOut(c) ==
  /\ stage[c] = "command"
  /\ clock[c] = Timeout
  /\ EnterStage(c, "stopping")
  /\ UNCHANGED <<spent, cmd, plan, begun, exit, journal, daemonVars>>

Stopped(c) ==
  /\ stage[c] = "stopping"
  /\ Report(c, "timeout", "timeout")
  /\ AddToSpent(c)
  /\ UNCHANGED <<cmd, plan, begun, daemonVars>>

-----------------------------------------------------------------------------
Return(c, what) ==
  /\ answer' = [answer EXCEPT ![c] = what]
  /\ current' = NoCall
  /\ waited' = 0

\* Mutant: only the exit status of the helper is looked at.
CollectStatus(c) ==
  /\ current = c
  /\ stage[c] = "ended"
  /\ Return(c, IF exit[c] = "ok" THEN "ok" ELSE "failed")
  /\ UNCHANGED helperVars

\* The helper has exited and its payload is returned.
Collect(c) ==
  /\ current = c
  /\ stage[c] = "ended"
  /\ Return(c, exit[c])
  /\ UNCHANGED helperVars

\* Mutant: no limit while the dialog is open.
DaemonTimesOutAtWork(c) ==
  /\ current = c
  /\ RootWork(c)
  /\ waited = Limit
  /\ Return(c, "timeout")
  /\ UNCHANGED helperVars

(***************************************************************************)
(* The daemon's own limit expires.  killpg ends pkexec while it waits for  *)
(* the dialog; once it is root the signal fails with EPERM and the helper  *)
(* goes on.                                                                *)
(***************************************************************************)
DaemonTimesOut(c) ==
  /\ current = c
  /\ stage[c] # "ended"
  /\ waited = Limit
  /\ Return(c, "timeout")
  /\ IF stage[c] = "prompt"
     THEN EnterStage(c, "ended") /\ exit' = [exit EXCEPT ![c] = "killed"]
     ELSE UNCHANGED <<stage, clock, exit>>
  /\ UNCHANGED <<spent, cmd, plan, begun, journal>>

\* How long a helper may stay in a stage before it has to leave it.
StageLimit(c) ==
  CASE stage[c] = "prompt"   -> Limit
    [] stage[c] = "command"  -> Timeout
    [] stage[c] = "stopping" -> StopTime
    [] OTHER                 -> 0

Live(c) == stage[c] \in {"prompt", "command", "stopping"}

(***************************************************************************)
(* A second passes.  It cannot pass beyond a limit that has been reached,  *)
(* nor while an answer is there to be collected.                           *)
(***************************************************************************)
Tick ==
  /\ \E c \in Call : Live(c)
  /\ \A c \in Call : Live(c) => clock[c] < StageLimit(c)
  /\ current # NoCall => waited < Limit /\ Live(current)
  /\ clock' = [c \in Call |-> IF Live(c) THEN clock[c] + 1 ELSE clock[c]]
  /\ waited' = IF current = NoCall THEN 0 ELSE waited + 1
  /\ UNCHANGED <<stage, spent, cmd, plan, begun, exit, journal, answer, current>>

Helper(c) ==
  \/ Authorize(c) \/ Dismiss(c)
  \/ CommandSucceeds(c) \/ CommandFails(c) \/ HelperRaises(c)
  \/ CommandTimesOut(c) \/ Stopped(c)

Daemon(c) == Collect(c) \/ DaemonTimesOut(c)

Next ==
  \/ \E c \in Call : (\E n \in Plans : Launch(c, n)) \/ Helper(c) \/ Daemon(c)
  \/ Tick

Spec == Init /\ [][Next]_vars

(***************************************************************************)
(* Time passes, a root helper leaves a stage when it has reached its       *)
(* limit, and the daemon thread runs when it is woken.  Nobody has to      *)
(* answer a dialog.                                                        *)
(***************************************************************************)
FairSpec ==
  /\ Spec
  /\ WF_vars(Tick)
  /\ \A c \in Call :
       /\ WF_vars(Helper(c) /\ RootWork(c) /\ clock[c] = StageLimit(c))
       /\ WF_vars(Daemon(c))

-----------------------------------------------------------------------------
\* The seconds a call has spent on anything but the command now running: the
\* dialog, the commands before it, the killing of its group.
Spent(c) == spent[c] + (IF stage[c] = "stopping" THEN clock[c] ELSE 0)

\* The margin of the daemon pays for them.
Fits(c) == Spent(c) < Margin

(***************************************************************************)
(* Two verbs work as root at the same time only if one of them outran the  *)
(* margin, as a slow dialog, a long first command or a group that takes    *)
(* its six seconds to die can make it: the slot of the dispatcher is free  *)
(* when run_elevated has returned, and by then the helper of a call within *)
(* the margin has ended.                                                   *)
(***************************************************************************)
NoOverlap ==
  \A c, d \in Call :
    RootWork(c) /\ RootWork(d) /\ c # d => ~Fits(c) \/ ~Fits(d)

(***************************************************************************)
(* A verb that was answered for still works as root only if its dialog,    *)
(* its earlier commands and the killing of the last one took the whole     *)
(* margin of the daemon: one command can use up the helper's timeout, and  *)
(* the daemon still sees the helper end first.                             *)
(***************************************************************************)
FittingVerbsEndFirst ==
  \A c \in Call : Fits(c) /\ answer[c] # "none" => ~RootWork(c)

(***************************************************************************)
(* The caller is told "ok" only when every command of the verb completed:  *)
(* an adapter that was taken down was also brought up again.               *)
(***************************************************************************)
OkMeansAllCommands ==
  \A c \in Call : answer[c] = "ok" => cmd[c] = plan[c]

\* An exception ended the helper before its record was written.
Unrecorded(c) == journal[c] = <<>> /\ answer[c] = "failed"

\* "cancel" in what a failing command printed was taken for a dialog's end.
Misread(c) == journal[c] = <<"failed">> /\ answer[c] = "cancelled"

(***************************************************************************)
(* The journal of the system and the answer of run_elevated, which the     *)
(* audit log of the user records, tell the same about a call: a helper     *)
(* that never ran as root left no record, one that ran left at most one,   *)
(* and for a call within the margin it says what the caller was told,      *)
(* except where an exception ended the helper unrecorded or the words of   *)
(* a failing command were misread as a cancellation.                       *)
(***************************************************************************)
AnswerMatchesJournal ==
  \A c \in Call :
    /\ Len(journal[c]) <= 1 /\ (c \notin begun => journal[c] = <<>>)
    /\ c \in begun /\ Fits(c) /\ answer[c] # "none" =>
         journal[c] = <<answer[c]>> \/ Unrecorded(c) \/ Misread(c)

(***************************************************************************)
(* Every elevated call returns to the dispatcher, which frees the slot.    *)
(***************************************************************************)
EveryCallReturns == \A c \in Call : current = c ~> answer[c] # "none"
=============================================================================
