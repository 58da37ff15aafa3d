----------------------------- MODULE NetworkOps -----------------------------
(***************************************************************************)
(* The repairs of NetworkMedic (netmedic/network.py): flush_dns,           *)
(* change_dns, renew_ip, reset_tcp_ip_stack, restart_adapter and           *)
(* toggle_firewall, with the commands their helper verbs stand for         *)
(* (helper_verbs.py).                                                      *)
(*                                                                         *)
(* All have one shape: look at the host, have root carry out a verb of one *)
(* or two commands, look at the host again, answer.  The host goes its own *)
(* way meanwhile.  A verb may be dismissed, may fail with its effect there *)
(* or not, and may outlast the daemon's patience: then the daemon reports  *)
(* a timeout and root carries out the rest later, or never.                *)
(*                                                                         *)
(* A host with one physical interface is modelled; addresses are           *)
(* abstracted to having one, DNS servers to the one that is asked for.     *)
(* Operations come one at a time, as the privileged slot of the dispatcher *)
(* lets them through (module Dispatch).                                    *)
(***************************************************************************)
EXTENDS Naturals, Sequences

CONSTANTS MaxOps,      \* bound: operations asked for
          MaxChanges,  \* bound: changes of the host by others
          Polls        \* looks at the host before an operation gives up

ASSUME NetAssumption == MaxOps \in Nat /\ MaxChanges \in Nat /\ Polls \in Nat \ {0}

VARIABLES host,    \* the part of the machine the operations work on
          op,      \* the operation under way
          late,    \* what root may still carry out of verbs given up
          said,    \* the state of the firewall last reported, while it counts
          ops,     \* operations so far
          changes  \* changes by others so far

vars == <<host, op, late, said, ops, changes>>

Name == {"flush_dns", "change_dns", "renew_ip", "reset_tcp_ip_stack",
         "restart_adapter", "toggle_firewall"}
Cancellable == {"mod", "up", "reapply", "restart"}
Command == Cancellable \cup {"flush", "release", "lease", "linkdown", "linkup",
                             "enable", "disable"}
Success == {"ok", "executed"}

(***************************************************************************)
(* profile is the DNS server of the connection's profile; link is "idle"   *)
(* when the interface is up and has no carrier; readable says whether ufw  *)
(* shows its status to a user; a stale helper is of another version.       *)
(***************************************************************************)
Host == [firewall : {"ON", "OFF"}, readable : BOOLEAN, manager : BOOLEAN,
         resolver : BOOLEAN, profile : {"auto", "asked"},
         link : {"up", "idle", "down"}, ip : BOOLEAN, nmcli : BOOLEAN,
         dhclient : BOOLEAN, helper : {"installed", "stale", "missing"}]

(***************************************************************************)
(* An operation: its stage, the commands root has still to carry out, what *)
(* it read before, looks left, its answer.  History: the host it began on, *)
(* whether anything else has changed it since, the commands begun, and     *)
(* whether words of a command were taken for a dismissal.                  *)
(***************************************************************************)
OpType ==
  [name : Name \cup {"none"}, at : {"idle", "look", "root", "verify", "done"},
   todo : Seq(Command), fallback : BOOLEAN, hadIp : BOOLEAN,
   wanted : {"ON", "OFF"}, polls : 0..Polls,
   code : Success \cup {"none", "failed", "error", "cancelled"},
   start : Host, disturbed : BOOLEAN, begun : SUBSET Command, misread : BOOLEAN]

TypeOK ==
  /\ host \in Host
  /\ op \in OpType
  /\ late \subseteq Seq(Command)
  /\ said \in {"ON", "OFF", "none"}
  /\ ops \in 0..MaxOps
  /\ changes \in 0..MaxChanges

NoOp(h) ==
  [name |-> "none", at |-> "idle", todo |-> <<>>, fallback |-> FALSE,
   hadIp |-> FALSE, wanted |-> "ON", polls |-> Polls, code |-> "none",
   start |-> h, disturbed |-> FALSE, begun |-> {}, misread |-> FALSE]

Init ==
  /\ host \in {h \in Host : /\ h.manager /\ h.profile = "auto"
                            /\ h.link # "down"
                            /\ h.ip => h.link = "up"}
  /\ op = NoOp(host)
  /\ late = {}
  /\ said = "none"
  /\ ops = 0
  /\ changes = 0

-----------------------------------------------------------------------------
\* The commands a verb plans (plan_verb); renew-ip has two modes.
Plan(name, fallback, wanted) ==
  CASE name = "flush_dns" -> <<"flush">>
    [] name = "change_dns" -> <<"mod", "up">>
    [] name = "renew_ip" -> IF fallback THEN <<"release", "lease">>
                                        ELSE <<"reapply">>
    [] name = "reset_tcp_ip_stack" -> <<"restart">>
    [] name = "restart_adapter" -> <<"linkdown", "linkup">>
    [] name = "toggle_firewall" -> IF wanted = "ON" THEN <<"enable">>
                                                    ELSE <<"disable">>

\* The hosts that a command which reports success may leave.
Effects(h, c) ==
  CASE c = "flush"    -> {[h EXCEPT !.resolver = b] : b \in {h.resolver, FALSE}}
    [] c = "mod"      -> {[h EXCEPT !.profile = "asked"]}
    [] c = "up"       -> {[h EXCEPT !.ip = (h.link = "up")]}
    [] c = "reapply"  -> {[h EXCEPT !.ip = b] : b \in {h.link = "up", FALSE}}
    [] c = "release"  -> {[h EXCEPT !.ip = FALSE]}
    [] c = "lease"    -> {[h EXCEPT !.ip = b] : b \in {h.link = "up", FALSE}}
    [] c = "restart"  -> {[h EXCEPT !.manager = b] : b \in BOOLEAN}
    [] c = "linkdown" -> {[h EXCEPT !.link = "down", !.ip = FALSE]}
    [] c = "linkup"   -> {[h EXCEPT !.link = l] : l \in {"up", "idle", h.link}}
    [] c = "enable"   -> {h, [h EXCEPT !.firewall = "ON"]}
    [] c = "disable"  -> {h, [h EXCEPT !.firewall = "OFF"]}

\* get_default_interface: the default route, or an interface that is up.
DefaultInterface == host.link # "down"

\* _get_active_nm_connection.
ActiveConnection == host.nmcli /\ host.manager /\ host.link # "down"

\* read_firewall_status: "Unknown" is what ufw has to say to a user.
FirewallStatus == IF host.readable THEN host.firewall ELSE "Unknown"

Opposite(s) == IF s = "ON" THEN "OFF" ELSE "ON"

Answer(o, code) == op' = [o EXCEPT !.at = "done", !.todo = <<>>, !.code = code]

Elevate(o) ==
  op' = [o EXCEPT !.at = "root", !.todo = Plan(o.name, o.fallback, o.wanted)]

\* The dispatcher hands an operation to NetworkMedic.
Ask(name) ==
  /\ op.at = "idle" /\ ops < MaxOps
  /\ ops' = ops + 1
  /\ op' = [NoOp(host) EXCEPT !.name = name, !.at = "look"]
  /\ UNCHANGED <<host, late, said, changes>>

\* What an operation needs before it asks for root.
Fits ==
  CASE op.name = "flush_dns" -> host.resolver
    [] op.name = "change_dns" -> ActiveConnection
    [] op.name = "renew_ip" -> DefaultInterface /\ (host.nmcli \/ host.dhclient)
    [] op.name = "reset_tcp_ip_stack" -> TRUE
    [] op.name = "restart_adapter" -> DefaultInterface
    [] op.name = "toggle_firewall" -> FirewallStatus # "Unknown"

Look ==
  /\ op.at = "look"
  /\ IF Fits
     THEN /\ Elevate([op EXCEPT !.fallback = ~host.nmcli, !.hadIp = host.ip,
                                !.wanted = Opposite(host.firewall)])
          /\ said' = IF op.name = "toggle_firewall" THEN "none" ELSE said
     ELSE /\ Answer(op, IF op.name = "toggle_firewall" THEN "failed" ELSE "error")
          /\ UNCHANGED said
  /\ UNCHANGED <<host, late, ops, changes>>

-----------------------------------------------------------------------------
\* Mutant: any failure of an elevated verb counts as dismissed.
AllDismissed(o, cancelled) == Answer(o, "cancelled")

(***************************************************************************)
(* What becomes of an operation whose verb has failed: renew_ip goes on    *)
(* with dhclient, toggle_firewall knows failures only, the others look for *)
(* a dismissal first.                                                      *)
(***************************************************************************)
Failed(o, cancelled) ==
  CASE o.name = "toggle_firewall" -> Answer(o, "failed")
    [] o.name # "toggle_firewall" /\ cancelled -> Answer(o, "cancelled")
    [] o.name = "renew_ip" /\ ~cancelled /\ ~o.fallback /\ host.dhclient ->
         Elevate([o EXCEPT !.fallback = TRUE])
    [] OTHER ->
         Answer(o, IF \/ /\ o.name \in {"flush_dns", "renew_ip"}
                         /\ host.helper = "missing"
                      \/ o.name = "renew_ip" /\ ~o.fallback
                   THEN "error" ELSE "failed")

AtRoot == op.at = "root" /\ host.helper = "installed"
Begun(o) == [o EXCEPT !.begun = @ \cup {Head(op.todo)}]

\* run_elevated without a helper, or with one of another version.
Unelevated ==
  /\ op.at = "root" /\ host.helper # "installed"
  /\ Failed(op, FALSE)
  /\ UNCHANGED <<host, late, said, ops, changes>>

\* The user dismisses the dialog of pkexec, before anything is done.
Dismiss ==
  /\ AtRoot /\ op.todo = Plan(op.name, op.fallback, op.wanted)
  /\ Failed(op, TRUE)
  /\ UNCHANGED <<host, late, said, ops, changes>>

CommandSucceeds ==
  /\ AtRoot
  /\ host' \in Effects(host, Head(op.todo))
  /\ op' = [Begun(op) EXCEPT !.todo = Tail(@),
                             !.at = IF Len(op.todo) = 1 THEN "verify" ELSE @]
  /\ UNCHANGED <<late, said, ops, changes>>

(***************************************************************************)
(* A command fails, or is killed at the helper's deadline.  "cancel" in    *)
(* what nmcli or systemctl says (an activation, a job that was cancelled)  *)
(* is read as a dismissal by the helper (helper_main.py 548).              *)
(***************************************************************************)
CommandFails ==
  /\ AtRoot
  /\ host' \in Effects(host, Head(op.todo)) \cup {host}
  /\ \E misread \in {FALSE, Head(op.todo) \in Cancellable} :
       Failed([Begun(op) EXCEPT !.misread = misread], misread)
  /\ UNCHANGED <<late, said, ops, changes>>

\* The daemon gives up waiting: for the dialog, or for root.
TimesOut ==
  /\ AtRoot
  /\ late' = late \cup {op.todo}
  /\ Failed(op, FALSE)
  /\ UNCHANGED <<host, said, ops, changes>>

(***************************************************************************)
(* What the second look asks for.  That of change_dns is skipped when      *)
(* nmcli does not answer; that of restart_adapter is content with the flag *)
(* UP, which an interface without carrier has, too (network.py 608).       *)
(***************************************************************************)
PostCondition ==
  CASE op.name = "flush_dns" -> host.resolver
    [] op.name = "change_dns" -> host.manager => host.profile = "asked"
    [] op.name = "renew_ip" -> op.hadIp => host.ip
    [] op.name = "reset_tcp_ip_stack" -> host.manager
    [] op.name = "restart_adapter" -> host.link # "down"
    [] op.name = "toggle_firewall" -> FirewallStatus = op.wanted

\* Mutant: an operation that has looked often enough succeeds.
LastLookCounts == op.polls = 1 \/ PostCondition

\* Mutant: the exit code of ufw is believed.
TrustUfw == op.name = "toggle_firewall" \/ PostCondition

Verified == PostCondition

Verify ==
  /\ op.at = "verify"
  /\ IF Verified
     THEN Answer(op, IF op.name \in {"flush_dns", "renew_ip"}
                     THEN "executed" ELSE "ok")
     ELSE IF op.name \in {"reset_tcp_ip_stack", "restart_adapter"} /\ op.polls > 1
          THEN op' = [op EXCEPT !.polls = @ - 1]
          ELSE Answer(op, "failed")
  /\ said' = IF op.name = "toggle_firewall" /\ Verified THEN op.wanted ELSE said
  /\ UNCHANGED <<host, late, ops, changes>>

\* The answer has been delivered; its record is over.
Return ==
  /\ op.at = "done"
  /\ op' = NoOp(host)
  /\ UNCHANGED <<host, late, said, ops, changes>>

-----------------------------------------------------------------------------
Asks(s) == CASE s = "ON" -> "enable" [] s = "OFF" -> "disable"

\* Root carries out a command of a verb the daemon has given up.
LateCommand(todo) ==
  /\ \/ /\ host' \in Effects(host, Head(todo))
        /\ late' = (late \ {todo}) \cup ({Tail(todo)} \ {<<>>})
     \/ host' \in Effects(host, Head(todo)) \cup {host} /\ late' = late \ {todo}
  /\ said' = IF said # "none" /\ Head(todo) = Asks(Opposite(said))
             THEN "none" ELSE said
  /\ op' = [op EXCEPT !.disturbed = TRUE]
  /\ UNCHANGED <<ops, changes>>

\* Others change the host: its user, NetworkManager, the network.
Changes ==
  {[host EXCEPT !.firewall = Opposite(@)], [host EXCEPT !.manager = ~@],
   [host EXCEPT !.resolver = ~@], [host EXCEPT !.link = "up"],
   [host EXCEPT !.link = "idle", !.ip = FALSE],
   [host EXCEPT !.ip = ~@ /\ host.link = "up"]}

HostChanges ==
  /\ changes < MaxChanges
  /\ changes' = changes + 1
  /\ host' \in Changes \ {host}
  /\ op' = [op EXCEPT !.disturbed = TRUE]
  /\ said' = IF host'.firewall # host.firewall THEN "none" ELSE said
  /\ UNCHANGED <<late, ops>>

Next ==
  \/ \E name \in Name : Ask(name)
  \/ Look \/ Unelevated \/ Dismiss \/ CommandSucceeds \/ CommandFails
  \/ TimesOut \/ Verify \/ Return
  \/ \E todo \in late : LateCommand(todo)
  \/ HostChanges

Spec == Init /\ [][Next]_vars

-----------------------------------------------------------------------------
(***************************************************************************)
(* A success is one: what the operation is for holds when it is answered,  *)
(* measured against the host it began on, if nobody else had a hand in it. *)
(* An adapter that was taken down is up, an address that was there is      *)
(* there, the firewall is the other way round than it was.                 *)
(***************************************************************************)
Achieved ==
  CASE op.name = "flush_dns" -> host.resolver
    [] op.name = "change_dns" -> host.profile = "asked"
    [] op.name = "renew_ip" -> op.start.ip => host.ip
    [] op.name = "reset_tcp_ip_stack" -> host.manager
    [] op.name = "restart_adapter" -> host.link # "down"
    [] op.name = "toggle_firewall" -> host.firewall # op.start.firewall

SuccessIsReal == op.at = "done" /\ op.code \in Success /\ ~op.disturbed => Achieved

(***************************************************************************)
(* "Authentication cancelled by user" is said only if the host is as it    *)
(* was, words of a command that pass for a dismissal aside: the one thing  *)
(* that may have been tried is nmcli's way to a new address, before the    *)
(* dialog of dhclient's was dismissed.                                     *)
(***************************************************************************)
DismissedIsUntouched ==
  op.at = "done" /\ op.code = "cancelled" /\ ~op.misread =>
    /\ op.begun \subseteq {"reapply"}
    /\ op.begun = {} /\ ~op.disturbed => host = op.start

(***************************************************************************)
(* The state of the firewall that toggle_firewall reports stays true until *)
(* others change it or the next toggle acts: a first try that the daemon   *)
(* gave up may still be carried out after its retry, and does no harm,     *)
(* since it asks for a state and not for a change of it.  It does if it    *)
(* asked for the other state, two toggles ago.                             *)
(***************************************************************************)
FirewallAnswerHolds == said # "none" => host.firewall = said
=============================================================================
