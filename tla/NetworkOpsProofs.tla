-------------------------- MODULE NetworkOpsProofs --------------------------
(***************************************************************************)
(* Proofs about module NetworkOps, for any number of operations, of        *)
(* changes by others and of looks: its verdicts are true.                  *)
(***************************************************************************)
EXTENDS NetworkOps, TLAPS

\* What root may have to carry out: a plan, or what is left of one.
Todo == {<<"flush">>, <<"mod", "up">>, <<"up">>, <<"reapply">>,
         <<"release", "lease">>, <<"lease">>, <<"restart">>,
         <<"linkdown", "linkup">>, <<"linkup">>, <<"enable">>, <<"disable">>}

\* TypeOK with the plans spelled out.
IsOp(o) ==
  o \in [name : Name \cup {"none"}, at : {"idle", "look", "root", "verify", "done"},
         todo : Todo \cup {<<>>}, fallback : BOOLEAN, hadIp : BOOLEAN,
         wanted : {"ON", "OFF"}, polls : 0..Polls,
         code : Success \cup {"none", "failed", "error", "cancelled"},
         start : Host, disturbed : BOOLEAN, begun : SUBSET Command,
         misread : BOOLEAN]
Shape ==
  /\ host \in Host
  /\ IsOp(op)
  /\ late \subseteq Todo
  /\ said \in {"ON", "OFF", "none"}
  /\ ops \in 0..MaxOps
  /\ changes \in 0..MaxChanges

-----------------------------------------------------------------------------
LEMMA TodoFacts ==
  ASSUME NEW t \in Todo
  PROVE  /\ Head(t) \in Command
         /\ Tail(t) \in Todo \cup {<<>>}
         /\ Len(t) \in {1, 2}
         /\ Len(t) = 1 <=> Tail(t) = <<>>
         /\ t # <<>> /\ Tail(t) # t
         /\ Tail(t) # <<>> => Len(Tail(t)) = 1
         /\ t \in Seq(Command)
<1> USE DEF Command, Cancellable
<1>1. ASSUME NEW c \in Command, t = <<c>>
      PROVE  /\ Head(t) = c /\ Tail(t) = <<>> /\ Len(t) = 1 /\ t # <<>>
             /\ t \in Seq(Command) /\ Tail(t) # t
  BY <1>1
<1>2. ASSUME NEW c \in Command, NEW d \in Command, t = <<c, d>>
      PROVE  /\ Head(t) = c /\ Tail(t) = <<d>> /\ Len(t) = 2 /\ t # <<>>
             /\ Tail(t) # <<>> /\ t \in Seq(Command)
             /\ Tail(t) # t /\ Len(Tail(t)) = 1
  BY <1>2
<1>3. CASE \E c \in Command : t = <<c>>
  BY <1>1, <1>3
<1>4. CASE t \in {<<"mod", "up">>, <<"release", "lease">>, <<"linkdown", "linkup">>}
  <2>1. PICK c \in Command, d \in {"up", "lease", "linkup"} : t = <<c, d>>
    BY <1>4
  <2>2. /\ Head(t) = c /\ Tail(t) = <<d>> /\ Len(t) = 2 /\ t # <<>>
        /\ Tail(t) # <<>> /\ t \in Seq(Command)
        /\ Tail(t) # t /\ Len(Tail(t)) = 1
    BY <1>2, <2>1
  <2>3. <<d>> \in Todo
    BY <2>1 DEF Todo
  <2>4. Len(t) # 1
    BY <2>2
  <2> QED BY <2>2, <2>3, <2>4, Zenon
<1>5. t \in {<<"mod", "up">>, <<"release", "lease">>, <<"linkdown", "linkup">>}
      \/ \E c \in Command : t = <<c>>
  BY DEF Todo
<1> QED BY <1>3, <1>4, <1>5

LEMMA PlanFacts ==
  ASSUME NEW n \in Name, NEW f \in BOOLEAN, NEW w \in {"ON", "OFF"}
  PROVE  Plan(n, f, w) \in Todo
<1>1. CASE n = "renew_ip"
  BY <1>1 DEF Plan, Todo
<1>2. CASE n = "toggle_firewall"
  BY <1>2 DEF Plan, Todo
<1>3. CASE n \in {"flush_dns", "change_dns", "reset_tcp_ip_stack", "restart_adapter"}
  BY <1>3 DEF Plan, Todo
<1> QED BY <1>1, <1>2, <1>3 DEF Name

LEMMA ShapeTypes == Shape => TypeOK
<1> SUFFICES ASSUME Shape PROVE TypeOK
  OBVIOUS
<1>1. \A t \in Todo \cup {<<>>} : t \in Seq(Command)
  <2>1. <<>> \in Seq(Command)
    OBVIOUS
  <2> QED BY <2>1, TodoFacts
<1>2. op \in OpType
  BY <1>1 DEF Shape, IsOp, OpType
<1>3. late \subseteq Seq(Command)
  BY <1>1 DEF Shape
<1> QED BY <1>2, <1>3 DEF Shape, TypeOK

LEMMA EffectsHost ==
  ASSUME NEW h \in Host, NEW c \in Command, NEW g \in Effects(h, c)
  PROVE  g \in Host
<1> USE DEF Host
<1>1. CASE c = "flush"
  <2>1. PICK b \in {h.resolver, FALSE} : g = [h EXCEPT !.resolver = b]
    BY <1>1 DEF Effects
  <2>2. b \in BOOLEAN
    BY Zenon
  <2> QED BY <2>1, <2>2
<1>2. CASE c = "mod"
  BY <1>2 DEF Effects
<1>3. CASE c = "up"
  BY <1>3 DEF Effects
<1>4. CASE c = "reapply"
  <2>1. PICK b \in {h.link = "up", FALSE} : g = [h EXCEPT !.ip = b]
    BY <1>4 DEF Effects
  <2>2. b \in BOOLEAN
    BY Zenon
  <2> QED BY <2>1, <2>2
<1>5. CASE c = "release"
  BY <1>5 DEF Effects
<1>6. CASE c = "lease"
  <2>1. PICK b \in {h.link = "up", FALSE} : g = [h EXCEPT !.ip = b]
    BY <1>6 DEF Effects
  <2>2. b \in BOOLEAN
    BY Zenon
  <2> QED BY <2>1, <2>2
<1>7. CASE c = "restart"
  BY <1>7 DEF Effects
<1>8. CASE c = "linkdown"
  BY <1>8 DEF Effects
<1>9. CASE c = "linkup"
  BY <1>9 DEF Effects
<1>10. CASE c = "enable"
  BY <1>10 DEF Effects
<1>11. CASE c = "disable"
  BY <1>11 DEF Effects
<1> QED BY <1>1, <1>2, <1>3, <1>4, <1>5, <1>6,
           <1>7, <1>8, <1>9, <1>10, <1>11 DEF Command, Cancellable

\* Only ufw turns the firewall, each command to its own side.
LEMMA EffectsFirewall ==
  ASSUME NEW h \in Host, NEW c \in Command, NEW g \in Effects(h, c)
  PROVE  \/ g.firewall = h.firewall
         \/ c = "enable" /\ g.firewall = "ON"
         \/ c = "disable" /\ g.firewall = "OFF"
<1> USE DEF Host
<1>1. CASE c \in {"flush", "mod", "up", "reapply"}
  BY <1>1 DEF Effects
<1>2. CASE c \in {"release", "lease", "restart"}
  BY <1>2 DEF Effects
<1>3. CASE c \in {"linkdown", "linkup"}
  BY <1>3 DEF Effects
<1>4. CASE c \in {"enable", "disable"}
  BY <1>4 DEF Effects
<1> QED BY <1>1, <1>2, <1>3, <1>4 DEF Command, Cancellable

\* A profile that has the server that was asked for keeps it.
LEMMA EffectsProfile ==
  ASSUME NEW h \in Host, NEW c \in Command, NEW g \in Effects(h, c)
  PROVE  /\ h.profile = "asked" => g.profile = "asked"
         /\ c = "mod" => g.profile = "asked"
<1> USE DEF Host
<1>1. CASE c \in {"flush", "mod", "up", "reapply"}
  BY <1>1 DEF Effects
<1>2. CASE c \in {"release", "lease", "restart"}
  BY <1>2 DEF Effects
<1>3. CASE c \in {"linkdown", "linkup"}
  BY <1>3 DEF Effects
<1>4. CASE c \in {"enable", "disable"}
  BY <1>4 DEF Effects
<1> QED BY <1>1, <1>2, <1>3, <1>4 DEF Command, Cancellable

\* What becomes of an operation whose verb has failed.
Fallback(o) == [o EXCEPT !.fallback = TRUE, !.at = "root", !.todo = <<"release", "lease">>]
Ended(o, code) == [o EXCEPT !.at = "done", !.todo = <<>>, !.code = code]

LEMMA FailedCases ==
  ASSUME NEW o, IsOp(o), o.name \in Name, NEW c \in BOOLEAN, Failed(o, c)
  PROVE  \/ c /\ op' = Ended(o, "cancelled")
         \/ \E code \in {"failed", "error"} : op' = Ended(o, code)
         \/ o.name = "renew_ip" /\ ~o.fallback /\ op' = Fallback(o)
<1>1. CASE o.name = "toggle_firewall"
  BY <1>1 DEF Failed, Answer, Ended
<1>2. CASE o.name # "toggle_firewall" /\ c
  BY <1>2 DEF Failed, Answer, Ended
<1>3. CASE o.name = "renew_ip" /\ ~c /\ ~o.fallback /\ host.dhclient
  <2>1. Elevate([o EXCEPT !.fallback = TRUE])
    BY <1>3 DEF Failed
  <2>2. Plan("renew_ip", TRUE, o.wanted) = <<"release", "lease">>
    BY DEF Plan
  <2>3. op' = Fallback(o)
    BY <1>3, <2>1, <2>2 DEF Elevate, Fallback, IsOp
  <2> QED BY <1>3, <2>3
<1>4. CASE /\ ~(o.name = "toggle_firewall")
           /\ ~(o.name # "toggle_firewall" /\ c)
           /\ ~(o.name = "renew_ip" /\ ~c /\ ~o.fallback /\ host.dhclient)
  BY <1>4 DEF Failed, Answer, Ended
<1> QED BY <1>1, <1>2, <1>3, <1>4
-----------------------------------------------------------------------------
(***************************************************************************)
(* The inductive invariant.  Between its first look and its answer an      *)
(* operation remembers the host it began on; what it has begun says        *)
(* whether the host is still that one.                                     *)
(***************************************************************************)
Underway == op.at # "idle" => op.name \in Name
ThePlan == Plan(op.name, op.fallback, op.wanted)
Planned == op.at = "root" => op.todo \in {ThePlan, Tail(ThePlan)} \ {<<>>}
NotBegun ==
  /\ op.at = "look" => op.begun = {}
  /\ op.at = "root" /\ op.todo = ThePlan => op.begun \subseteq {"reapply"}
  /\ op.at # "idle" /\ op.begun = {} /\ ~op.disturbed => host = op.start
Remembered ==
  op.at \in {"root", "verify"} /\ ~op.disturbed =>
    /\ op.hadIp = op.start.ip
    /\ op.name = "toggle_firewall" => op.wanted = Opposite(op.start.firewall)
ProfileSet ==
  op.name = "change_dns" /\ (op.at = "verify" \/ (op.at = "root" /\ op.todo = <<"up">>))
    => host.profile = "asked"
NothingSaid ==
  op.name = "toggle_firewall" /\ op.at \in {"root", "verify"} => said = "none"

IInv == /\ Shape /\ Underway /\ Planned /\ NotBegun /\ Remembered /\ ProfileSet
        /\ NothingSaid /\ FirewallAnswerHolds
        /\ SuccessIsReal /\ DismissedIsUntouched

\* The commands of an operation are its own.
LEMMA OwnCommands ==
  ASSUME Shape, Underway, Planned, op.at = "root"
  PROVE  /\ op.todo \in Todo
         /\ Head(op.todo) \in {"enable", "disable"} => op.name = "toggle_firewall"
         /\ op.name = "change_dns" =>
              op.todo = <<"mod", "up">> \/ op.todo = <<"up">>
         /\ op.name = "renew_ip" /\ ~op.fallback =>
              op.todo = <<"reapply">> /\ op.todo = ThePlan
<1> USE DEF Shape, Underway, Planned
<1>1. ThePlan \in Todo
  BY PlanFacts DEF ThePlan, IsOp
<1>2. op.todo \in Todo
  BY <1>1, TodoFacts
<1>3. CASE op.name = "renew_ip" /\ ~op.fallback
  <2>1. ThePlan = <<"reapply">>
    BY <1>3 DEF ThePlan, Plan
  <2> QED BY <1>2, <1>3, <2>1
<1>4. CASE op.name = "renew_ip" /\ op.fallback
  <2>1. ThePlan = <<"release", "lease">>
    BY <1>4 DEF ThePlan, Plan
  <2> QED BY <1>2, <1>4, <2>1
<1>5. CASE op.name = "flush_dns"
  <2>1. ThePlan = <<"flush">>
    BY <1>5 DEF ThePlan, Plan
  <2> QED BY <1>2, <1>5, <2>1
<1>6. CASE op.name = "change_dns"
  <2>1. ThePlan = <<"mod", "up">>
    BY <1>6 DEF ThePlan, Plan
  <2> QED BY <1>2, <1>6, <2>1
<1>7. CASE op.name = "reset_tcp_ip_stack"
  <2>1. ThePlan = <<"restart">>
    BY <1>7 DEF ThePlan, Plan
  <2> QED BY <1>2, <1>7, <2>1
<1>8. CASE op.name = "restart_adapter"
  <2>1. ThePlan = <<"linkdown", "linkup">>
    BY <1>8 DEF ThePlan, Plan
  <2> QED BY <1>2, <1>8, <2>1
<1>9. CASE op.name = "toggle_firewall"
  BY <1>2, <1>9
<1> QED BY <1>3, <1>4, <1>5, <1>6, <1>7, <1>8, <1>9 DEF Name

LEMMA NoOpIsOp ==
  ASSUME NEW h \in Host PROVE IsOp(NoOp(h)) /\ NoOp(h).at = "idle"
BY NetAssumption DEF IsOp, NoOp, Success

LEMMA InvInit == Init => IInv
<1> SUFFICES ASSUME Init PROVE IInv
  OBVIOUS
<1>1. host \in Host
  BY DEF Init
<1>2. IsOp(op) /\ op.at = "idle"
  BY <1>1, NoOpIsOp DEF Init
<1>3. Shape
  BY <1>1, <1>2, NetAssumption DEF Init, Shape
<1> QED BY <1>2, <1>3 DEF Init, IInv, Underway, Planned, NotBegun, Remembered,
     ProfileSet, NothingSaid, FirewallAnswerHolds, SuccessIsReal, DismissedIsUntouched
-----------------------------------------------------------------------------
\* An operation is asked for, and looks at the host.
LEMMA AskInv ==
  ASSUME IInv, NEW name \in Name, Ask(name) PROVE IInv'
<1> USE DEF IInv
<1>1. host \in Host
  BY DEF Shape
<1>2. /\ IsOp(op') /\ op'.name = name /\ op'.at = "look" /\ op'.begun = {}
      /\ op'.start = host
  <2>1. op' = [NoOp(host) EXCEPT !.name = name, !.at = "look"]
    BY DEF Ask
  <2>2. IsOp(op')
    BY <1>1, <2>1, NoOpIsOp DEF IsOp
  <2>3. NoOp(host).begun = {} /\ NoOp(host).start = host
    BY DEF NoOp
  <2> QED BY <1>1, <2>1, <2>2, <2>3, NoOpIsOp DEF IsOp
<1>3. UNCHANGED <<host, late, said, changes>> /\ ops' \in 0..MaxOps
  BY NetAssumption DEF Ask, Shape
<1>4. Shape'
  BY <1>2, <1>3 DEF Shape
<1> QED BY <1>2, <1>3, <1>4 DEF Underway, Planned, NotBegun, Remembered, ProfileSet,
     NothingSaid, FirewallAnswerHolds, SuccessIsReal, DismissedIsUntouched

LEMMA LookInv ==
  ASSUME IInv, Look PROVE IInv'
<1> USE DEF IInv
<1>1. op.at = "look" /\ op.name \in Name /\ op.begun = {} /\ IsOp(op) /\ host \in Host
  BY DEF Look, Underway, NotBegun, Shape
<1>2. UNCHANGED <<host, late, ops, changes>>
  BY DEF Look
<1>3. CASE Fits
  <2> DEFINE o == [op EXCEPT !.fallback = ~host.nmcli, !.hadIp = host.ip,
                             !.wanted = Opposite(host.firewall)]
  <2>1. Elevate(o) /\ said' = IF op.name = "toggle_firewall" THEN "none" ELSE said
    BY <1>3 DEF Look
  <2>2. IsOp(o)
    <3>1. (~host.nmcli) \in BOOLEAN
      BY Zenon
    <3>2. host.ip \in BOOLEAN /\ Opposite(host.firewall) \in {"ON", "OFF"}
      BY <1>1 DEF Host, Opposite
    <3> QED BY <1>1, <3>1, <3>2 DEF IsOp
  <2>3. Plan(o.name, o.fallback, o.wanted) \in Todo
    <3>1. o.name = op.name /\ o.fallback \in BOOLEAN /\ o.wanted \in {"ON", "OFF"}
      BY <1>1, <2>2 DEF IsOp
    <3> QED BY <1>1, <3>1, PlanFacts
  <2> HIDE DEF o
  <2>4. /\ o.name = op.name /\ o.begun = {} /\ o.start = op.start
        /\ o.disturbed = op.disturbed /\ o.hadIp = host.ip
        /\ o.wanted = Opposite(host.firewall)
    BY <1>1 DEF o, IsOp
  <2>5. op' = [o EXCEPT !.at = "root", !.todo = Plan(o.name, o.fallback, o.wanted)]
    BY <2>1 DEF Elevate
  <2>6. IsOp(op')
    BY <2>2, <2>3, <2>5 DEF IsOp
  <2>7. /\ op'.at = "root" /\ op'.todo = ThePlan' /\ op'.todo \in Todo
        /\ op'.name = op.name /\ op'.begun = {} /\ op'.start = op.start
        /\ op'.disturbed = op.disturbed /\ op'.hadIp = host.ip
        /\ op'.wanted = Opposite(host.firewall)
    BY <2>2, <2>3, <2>4, <2>5 DEF IsOp, ThePlan
  <2>8. op.disturbed \/ host = op.start
    BY <1>1 DEF NotBegun
  <2>9. Shape'
    BY <1>2, <2>1, <2>6 DEF Shape
  <2>10. Planned'
    BY <2>7, TodoFacts DEF Planned
  <2>11. NotBegun' /\ Remembered' /\ Underway'
    BY <1>1, <1>2, <2>7, <2>8 DEF NotBegun, Remembered, Underway
  <2>12. ProfileSet'
    <3>1. ASSUME op'.name = "change_dns" PROVE op'.todo = <<"mod", "up">>
      BY <2>7, <3>1 DEF ThePlan, Plan
    <3>2. <<"mod", "up">> # <<"up">>
      OBVIOUS
    <3> QED BY <2>7, <3>1, <3>2 DEF ProfileSet
  <2>13. NothingSaid' /\ FirewallAnswerHolds'
    BY <1>2, <2>1, <2>7 DEF NothingSaid, FirewallAnswerHolds
  <2> QED BY <2>7, <2>9, <2>10, <2>11, <2>12, <2>13 DEF SuccessIsReal, DismissedIsUntouched
<1>4. CASE ~Fits
  <2>1. PICK code \in {"failed", "error"} : Answer(op, code) /\ said' = said
    BY <1>4 DEF Look
  <2>2. op' = [op EXCEPT !.at = "done", !.todo = <<>>, !.code = code]
    BY <2>1 DEF Answer
  <2>3. IsOp(op')
    BY <1>1, <2>2 DEF IsOp
  <2>4. /\ op'.at = "done" /\ op'.code = code /\ op'.name = op.name
        /\ op'.begun = op.begun /\ op'.start = op.start
        /\ op'.disturbed = op.disturbed
    BY <1>1, <2>2 DEF IsOp
  <2>5. Shape'
    BY <1>2, <2>1, <2>3 DEF Shape
  <2> QED BY <1>1, <1>2, <2>1, <2>4, <2>5 DEF Underway, Planned, NotBegun, Remembered,
       ProfileSet, NothingSaid, FirewallAnswerHolds, SuccessIsReal,
       DismissedIsUntouched, Success
<1> QED BY <1>3, <1>4
-----------------------------------------------------------------------------
(***************************************************************************)
(* A verb that was not carried out: refused, dismissed or given up.        *)
(***************************************************************************)
LEMMA FailedInv ==
  ASSUME IInv, op.at = "root", NEW c \in BOOLEAN, c => op.todo = ThePlan,
         Failed(op, c), UNCHANGED <<host, said, ops, changes>>, late' \subseteq Todo
  PROVE  IInv'
<1> USE DEF IInv
<1>1. IsOp(op) /\ op.name \in Name /\ op.at = "root" /\ op.todo \in Todo
  BY OwnCommands DEF Shape, Underway
<1>2. CASE \E code \in {"failed", "error", "cancelled"} :
             op' = Ended(op, code) /\ (code = "cancelled" => c)
  <2>1. PICK code \in {"failed", "error", "cancelled"} :
          op' = Ended(op, code) /\ (code = "cancelled" => c)
    BY <1>2
  <2>2. IsOp(op')
    BY <1>1, <2>1 DEF IsOp, Ended
  <2>3. /\ op'.at = "done" /\ op'.code = code /\ op'.name = op.name
        /\ op'.begun = op.begun /\ op'.start = op.start
        /\ op'.disturbed = op.disturbed /\ op'.misread = op.misread
    BY <1>1, <2>1 DEF IsOp, Ended
  <2>4. Shape'
    BY <2>2 DEF Shape
  <2>5. op'.code = "cancelled" => op.begun \subseteq {"reapply"}
    BY <2>1, <2>3 DEF NotBegun
  <2>6. NotBegun'
    BY <1>1, <2>3 DEF NotBegun
  <2>7. DismissedIsUntouched'
    BY <2>3, <2>5, <2>6 DEF DismissedIsUntouched, NotBegun
  <2> QED BY <1>1, <2>3, <2>4, <2>6, <2>7 DEF Underway, Planned, Remembered,
       ProfileSet, NothingSaid, FirewallAnswerHolds, SuccessIsReal, Success
<1>3. CASE op.name = "renew_ip" /\ ~op.fallback /\ op' = Fallback(op)
  <2>1. IsOp(op')
    BY <1>1, <1>3 DEF IsOp, Fallback, Todo
  <2>2. /\ op'.at = "root" /\ op'.name = "renew_ip" /\ op'.fallback = TRUE
        /\ op'.todo = <<"release", "lease">>
        /\ op'.begun = op.begun /\ op'.start = op.start /\ op'.hadIp = op.hadIp
        /\ op'.disturbed = op.disturbed
    BY <1>1, <1>3 DEF IsOp, Fallback
  <2>3. ThePlan' = <<"release", "lease">>
    BY <2>2 DEF ThePlan, Plan
  <2>4. op.begun \subseteq {"reapply"}
    BY <1>1, <1>3, OwnCommands DEF NotBegun
  <2>5. Shape'
    BY <2>1 DEF Shape
  <2>6. <<"release", "lease">> # <<>>
    OBVIOUS
  <2>7. Planned' /\ Underway'
    BY <2>2, <2>3, <2>6 DEF Planned, Underway, Name
  <2>8. NotBegun' /\ Remembered'
    BY <1>1, <2>2, <2>4 DEF NotBegun, Remembered
  <2> QED BY <2>2, <2>5, <2>7, <2>8 DEF ProfileSet, NothingSaid, FirewallAnswerHolds,
       SuccessIsReal, DismissedIsUntouched
<1> QED BY <1>1, <1>2, <1>3, FailedCases

LEMMA NotCarriedOut ==
  ASSUME IInv, Unelevated \/ Dismiss \/ TimesOut PROVE IInv'
<1> USE DEF IInv
<1>1. CASE Unelevated
  BY <1>1, FailedInv DEF Unelevated, Shape
<1>2. CASE Dismiss
  BY <1>2, FailedInv DEF Dismiss, AtRoot, ThePlan, Shape
<1>3. CASE TimesOut
  <2>1. op.at = "root"
    BY <1>3 DEF TimesOut, AtRoot
  <2>2. late' \subseteq Todo
    BY <1>3, <2>1, OwnCommands DEF TimesOut, Shape
  <2> QED BY <1>3, <2>1, <2>2, FailedInv DEF TimesOut
<1> QED BY <1>1, <1>2, <1>3

-----------------------------------------------------------------------------
\* What any command leaves of the host, or a failing one.
LEMMA CommandHost ==
  ASSUME NEW h \in Host, NEW c \in Command, NEW g \in Effects(h, c) \cup {h}
  PROVE  /\ g \in Host
         /\ h.profile = "asked" => g.profile = "asked"
         /\ \/ g.firewall = h.firewall
            \/ c = "enable" /\ g.firewall = "ON"
            \/ c = "disable" /\ g.firewall = "OFF"
<1>1. CASE g = h
  BY <1>1
<1>2. CASE g \in Effects(h, c)
  BY <1>2, EffectsHost, EffectsFirewall, EffectsProfile
<1> QED BY <1>1, <1>2

LEMMA SucceedsInv ==
  ASSUME IInv, CommandSucceeds PROVE IInv'
<1> USE DEF IInv
<1>1. IsOp(op) /\ op.name \in Name /\ op.at = "root" /\ op.todo \in Todo /\ host \in Host
  BY OwnCommands DEF CommandSucceeds, AtRoot, Shape, Underway
<1>2. host' \in Effects(host, Head(op.todo)) /\ UNCHANGED <<late, said, ops, changes>>
  BY DEF CommandSucceeds
<1>3. Head(op.todo) \in Command /\ Tail(op.todo) \in Todo \cup {<<>>}
  BY <1>1, TodoFacts
<1>4. op' = [Begun(op) EXCEPT !.todo = Tail(@),
                              !.at = IF Len(op.todo) = 1 THEN "verify" ELSE @]
  BY DEF CommandSucceeds
<1>5. IsOp(Begun(op)) /\ Begun(op).todo = op.todo /\ Begun(op).at = "root"
  BY <1>1, <1>3 DEF Begun, IsOp
<1>6. IsOp(op')
  BY <1>3, <1>4, <1>5 DEF IsOp
<1>7. /\ op'.name = op.name /\ op'.fallback = op.fallback /\ op'.wanted = op.wanted
      /\ op'.begun # {} /\ op'.start = op.start /\ op'.hadIp = op.hadIp
      /\ op'.disturbed = op.disturbed /\ op'.todo = Tail(op.todo)
      /\ op'.at = IF Len(op.todo) = 1 THEN "verify" ELSE "root"
  <2>1. Begun(op) = [op EXCEPT !.begun = @ \cup {Head(op.todo)}]
    BY DEF Begun
  <2>2. op'.begun = op.begun \cup {Head(op.todo)}
    BY <1>1, <1>4, <2>1 DEF IsOp
  <2> QED BY <1>1, <1>4, <1>5, <2>1, <2>2 DEF IsOp
<1>8. /\ host' \in Host
      /\ host.profile = "asked" => host'.profile = "asked"
      /\ Head(op.todo) = "mod" => host'.profile = "asked"
      /\ \/ host'.firewall = host.firewall
         \/ Head(op.todo) \in {"enable", "disable"}
  BY <1>1, <1>2, <1>3, EffectsHost, EffectsFirewall, EffectsProfile
<1>9. Shape'
  BY <1>2, <1>6, <1>8 DEF Shape
<1>10. Underway'
  BY <1>1, <1>7 DEF Underway
<1>11. ThePlan' = ThePlan /\ ThePlan \in Todo
  BY <1>1, <1>7, PlanFacts DEF ThePlan, IsOp
<1>12. Len(op.todo) # 1 => op.todo = ThePlan
  BY <1>1, <1>11, TodoFacts DEF Planned
<1>13. Planned' /\ (op'.at = "root" => op'.todo # ThePlan')
  BY <1>1, <1>7, <1>11, <1>12, TodoFacts DEF Planned
<1>14. NotBegun' /\ Remembered'
  BY <1>1, <1>7, <1>13 DEF NotBegun, Remembered
<1>15. ProfileSet'
  <2>1. ASSUME op.name = "change_dns" PROVE host'.profile = "asked"
    <3>1. CASE op.todo = <<"up">>
      BY <1>1, <1>8, <2>1, <3>1 DEF ProfileSet
    <3>2. CASE op.todo = <<"mod", "up">>
      BY <1>8, <3>2
    <3> QED BY <1>1, <2>1, <3>1, <3>2, OwnCommands
  <2> QED BY <1>7, <2>1 DEF ProfileSet
<1>16. NothingSaid' /\ FirewallAnswerHolds'
  BY <1>1, <1>2, <1>7, <1>8, OwnCommands DEF NothingSaid, FirewallAnswerHolds
<1> QED BY <1>7, <1>9, <1>10, <1>13, <1>14, <1>15, <1>16
     DEF SuccessIsReal, DismissedIsUntouched

LEMMA FailsInv ==
  ASSUME IInv, CommandFails PROVE IInv'
<1> USE DEF IInv
<1>1. IsOp(op) /\ op.name \in Name /\ op.at = "root" /\ op.todo \in Todo /\ host \in Host
  BY OwnCommands DEF CommandFails, AtRoot, Shape, Underway
<1>2. Head(op.todo) \in Command
  BY <1>1, TodoFacts
<1>3. PICK m \in BOOLEAN : Failed([Begun(op) EXCEPT !.misread = m], m)
  <2> DEFINE b == Head(op.todo) \in Cancellable
  <2>1. \E m \in {FALSE, b} : Failed([Begun(op) EXCEPT !.misread = m], m)
    BY DEF CommandFails
  <2>2. b \in BOOLEAN
    OBVIOUS
  <2> HIDE DEF b
  <2>3. {FALSE, b} \subseteq BOOLEAN
    BY <2>2
  <2> QED BY <2>1, <2>3
<1> DEFINE o == [Begun(op) EXCEPT !.misread = m]
<1>4. IsOp(o)
  BY <1>1, <1>2 DEF Begun, IsOp
<1>5. /\ o.name = op.name /\ o.fallback = op.fallback /\ o.wanted = op.wanted
      /\ o.hadIp = op.hadIp /\ o.start = op.start /\ o.disturbed = op.disturbed
      /\ o.begun = op.begun \cup {Head(op.todo)} /\ o.misread = m
  <2>1. Begun(op) = [op EXCEPT !.begun = @ \cup {Head(op.todo)}]
    BY DEF Begun
  <2> QED BY <1>1, <2>1 DEF IsOp
<1>6. Failed(o, m)
  BY <1>3
<1> HIDE DEF o
<1>7. \/ m /\ op' = Ended(o, "cancelled")
      \/ \E code \in {"failed", "error"} : op' = Ended(o, code)
      \/ o.name = "renew_ip" /\ ~o.fallback /\ op' = Fallback(o)
  BY <1>1, <1>4, <1>5, <1>6, FailedCases
<1>8. /\ host' \in Host /\ UNCHANGED <<late, said, ops, changes>>
      /\ \/ host'.firewall = host.firewall
         \/ Head(op.todo) \in {"enable", "disable"}
  BY <1>1, <1>2, CommandHost DEF CommandFails
<1>9. FirewallAnswerHolds'
  BY <1>1, <1>8, OwnCommands DEF NothingSaid, FirewallAnswerHolds
<1>10. CASE \E code \in {"failed", "error", "cancelled"} :
              op' = Ended(o, code) /\ (code = "cancelled" => m)
  <2>1. PICK code \in {"failed", "error", "cancelled"} :
          op' = Ended(o, code) /\ (code = "cancelled" => m)
    BY <1>10
  <2>2. IsOp(op')
    BY <1>4, <2>1 DEF IsOp, Ended
  <2>3. /\ op'.at = "done" /\ op'.code = code /\ op'.name = op.name
        /\ op'.begun # {} /\ op'.misread = m
    BY <1>4, <1>5, <2>1 DEF IsOp, Ended
  <2>4. Shape'
    BY <1>8, <2>2 DEF Shape
  <2> QED BY <1>1, <1>9, <2>1, <2>3, <2>4 DEF Underway, Planned, NotBegun, Remembered,
       ProfileSet, NothingSaid, SuccessIsReal, DismissedIsUntouched, Success
<1>11. CASE o.name = "renew_ip" /\ ~o.fallback /\ op' = Fallback(o)
  <2>1. IsOp(op')
    BY <1>4, <1>11 DEF IsOp, Fallback, Todo
  <2>2. /\ op'.at = "root" /\ op'.name = "renew_ip" /\ op'.fallback = TRUE
        /\ op'.todo = <<"release", "lease">>
        /\ op'.begun = op.begun \cup {Head(op.todo)} /\ op'.start = op.start
        /\ op'.hadIp = op.hadIp /\ op'.disturbed = op.disturbed
    BY <1>4, <1>5, <1>11 DEF IsOp, Fallback
  <2>3. ThePlan' = <<"release", "lease">>
    BY <2>2 DEF ThePlan, Plan
  <2>4. op.todo = <<"reapply">> /\ op.todo = ThePlan
    BY <1>1, <1>5, <1>11, OwnCommands
  <2>5. op'.begun \subseteq {"reapply"} /\ op'.begun # {}
    BY <1>1, <2>2, <2>4 DEF NotBegun
  <2>6. Shape'
    BY <1>8, <2>1 DEF Shape
  <2>7. <<"release", "lease">> # <<>>
    OBVIOUS
  <2>8. Planned' /\ Underway'
    BY <2>2, <2>3, <2>7 DEF Planned, Underway, Name
  <2>9. NotBegun' /\ Remembered'
    BY <1>1, <2>2, <2>5 DEF NotBegun, Remembered
  <2> QED BY <1>9, <2>2, <2>6, <2>8, <2>9 DEF ProfileSet, NothingSaid,
       SuccessIsReal, DismissedIsUntouched
<1> QED BY <1>7, <1>10, <1>11

-----------------------------------------------------------------------------
\* The second look at the host.
LEMMA PostConditionAchieves ==
  ASSUME IInv, op.at = "verify", PostCondition, ~op.disturbed
  PROVE  Achieved
<1> USE DEF IInv, PostCondition, Achieved
<1>1. /\ IsOp(op) /\ op.name \in Name /\ host \in Host
      /\ op.hadIp = op.start.ip
      /\ op.name = "toggle_firewall" => op.wanted = Opposite(op.start.firewall)
  BY DEF Shape, Underway, Remembered
<1>2. CASE op.name = "change_dns"
  BY <1>2 DEF ProfileSet
<1>3. CASE op.name = "renew_ip"
  BY <1>1, <1>3
<1>4. CASE op.name = "toggle_firewall"
  <2>1. op.start.firewall \in {"ON", "OFF"}
    BY <1>1 DEF IsOp, Host
  <2>2. FirewallStatus = Opposite(op.start.firewall)
    BY <1>1, <1>4
  <2>3. host.firewall # op.start.firewall
    BY <2>1, <2>2 DEF FirewallStatus, Opposite
  <2> QED BY <1>4, <2>3
<1>5. CASE op.name \in {"flush_dns", "reset_tcp_ip_stack", "restart_adapter"}
  BY <1>5
<1> QED BY <1>1, <1>2, <1>3, <1>4, <1>5 DEF Name

LEMMA VerifyInv ==
  ASSUME IInv, Verify PROVE IInv'
<1> USE DEF IInv
<1>1. IsOp(op) /\ op.name \in Name /\ op.at = "verify" /\ host \in Host
  BY DEF Verify, Shape, Underway
<1>2. UNCHANGED <<host, late, ops, changes>>
  BY DEF Verify
<1>3. said' = IF op.name = "toggle_firewall" /\ PostCondition THEN op.wanted ELSE said
  BY DEF Verify, Verified
<1>4. said' \in {"ON", "OFF", "none"} /\ FirewallAnswerHolds'
  <2>1. CASE op.name = "toggle_firewall" /\ PostCondition
    <3>1. FirewallStatus = op.wanted /\ op.wanted \in {"ON", "OFF"}
      BY <1>1, <2>1 DEF PostCondition, IsOp
    <3>2. host.firewall = op.wanted
      BY <3>1 DEF FirewallStatus
    <3> QED BY <1>2, <1>3, <2>1, <3>1, <3>2 DEF FirewallAnswerHolds
  <2>2. CASE ~(op.name = "toggle_firewall" /\ PostCondition)
    BY <1>2, <1>3, <2>2 DEF FirewallAnswerHolds, Shape
  <2> QED BY <2>1, <2>2
<1>5. CASE \E code \in {"executed", "ok", "failed"} :
             Answer(op, code) /\ (code # "failed" => PostCondition)
  <2>1. PICK code \in {"executed", "ok", "failed"} :
          Answer(op, code) /\ (code # "failed" => PostCondition)
    BY <1>5
  <2>2. op' = [op EXCEPT !.at = "done", !.todo = <<>>, !.code = code]
    BY <2>1 DEF Answer
  <2>3. IsOp(op')
    BY <1>1, <2>2 DEF IsOp, Success
  <2>4. /\ op'.at = "done" /\ op'.code = code /\ op'.name = op.name
        /\ op'.begun = op.begun /\ op'.start = op.start
        /\ op'.disturbed = op.disturbed
    BY <1>1, <2>2 DEF IsOp
  <2>5. Shape'
    BY <1>2, <1>4, <2>3 DEF Shape
  <2>6. SuccessIsReal'
    <3>1. ASSUME code # "failed", ~op.disturbed PROVE Achieved
      BY <1>1, <2>1, <3>1, PostConditionAchieves
    <3>2. Achieved' = Achieved
      BY <1>2, <2>4 DEF Achieved
    <3>3. "failed" \notin Success
      BY DEF Success
    <3> QED BY <2>4, <3>1, <3>2, <3>3 DEF SuccessIsReal
  <2>7. NotBegun' /\ DismissedIsUntouched'
    BY <1>1, <1>2, <2>4 DEF NotBegun, DismissedIsUntouched
  <2> QED BY <1>1, <1>4, <2>4, <2>5, <2>6, <2>7 DEF Underway, Planned, Remembered,
       ProfileSet, NothingSaid
<1>6. CASE /\ op.name \in {"reset_tcp_ip_stack", "restart_adapter"} /\ op.polls > 1
           /\ op' = [op EXCEPT !.polls = @ - 1]
  <2>1. op.polls - 1 \in 0..Polls
    BY <1>1, <1>6, NetAssumption DEF IsOp
  <2>2. IsOp(op')
    BY <1>1, <1>6, <2>1 DEF IsOp
  <2>3. /\ op'.at = "verify" /\ op'.name = op.name
        /\ op'.begun = op.begun /\ op'.start = op.start /\ op'.hadIp = op.hadIp
        /\ op'.disturbed = op.disturbed
    BY <1>1, <1>6 DEF IsOp
  <2>4. Shape'
    BY <1>2, <1>4, <2>2 DEF Shape
  <2> QED BY <1>1, <1>2, <1>4, <1>6, <2>3, <2>4 DEF Underway, Planned, NotBegun, Remembered,
       ProfileSet, NothingSaid, SuccessIsReal, DismissedIsUntouched
<1>7. \/ \E code \in {"executed", "ok", "failed"} :
           Answer(op, code) /\ (code # "failed" => PostCondition)
      \/ /\ op.name \in {"reset_tcp_ip_stack", "restart_adapter"} /\ op.polls > 1
         /\ op' = [op EXCEPT !.polls = @ - 1]
  BY DEF Verify, Verified
<1> QED BY <1>5, <1>6, <1>7

LEMMA ReturnInv ==
  ASSUME IInv, Return PROVE IInv'
<1> USE DEF IInv
<1>1. host \in Host /\ UNCHANGED <<host, late, said, ops, changes>> /\ op' = NoOp(host)
  BY DEF Return, Shape
<1>2. IsOp(op') /\ op'.at = "idle"
  BY <1>1, NoOpIsOp
<1>3. Shape'
  BY <1>1, <1>2 DEF Shape
<1> QED BY <1>1, <1>2, <1>3 DEF Underway, Planned, NotBegun, Remembered,
     ProfileSet, NothingSaid, FirewallAnswerHolds, SuccessIsReal, DismissedIsUntouched

-----------------------------------------------------------------------------
(***************************************************************************)
(* The host changes behind an operation's back: it counts as disturbed,    *)
(* the profile stays and what was said of the firewall is taken back.      *)
(***************************************************************************)
LEMMA DisturbedInv ==
  ASSUME IInv, op' = [op EXCEPT !.disturbed = TRUE], host' \in Host,
         host.profile = "asked" => host'.profile = "asked",
         said' \in {said, "none"}, FirewallAnswerHolds',
         late' \subseteq Todo, ops' \in 0..MaxOps, changes' \in 0..MaxChanges
  PROVE  IInv'
<1> USE DEF IInv
<1>1. IsOp(op)
  BY DEF Shape
<1>2. IsOp(op')
  BY <1>1 DEF IsOp
<1>3. /\ op'.disturbed /\ op'.at = op.at /\ op'.name = op.name /\ op'.todo = op.todo
      /\ op'.begun = op.begun /\ op'.code = op.code /\ op'.misread = op.misread
      /\ op'.fallback = op.fallback /\ op'.wanted = op.wanted
  BY <1>1 DEF IsOp
<1>4. Shape'
  BY <1>2 DEF Shape
<1>5. ThePlan' = ThePlan
  BY <1>3 DEF ThePlan
<1>6. Underway' /\ Planned'
  BY <1>3, <1>5 DEF Underway, Planned
<1>7. NotBegun' /\ Remembered'
  BY <1>3, <1>5 DEF NotBegun, Remembered
<1>8. ProfileSet' /\ NothingSaid'
  BY <1>3 DEF ProfileSet, NothingSaid
<1>9. SuccessIsReal' /\ DismissedIsUntouched'
  BY <1>3 DEF SuccessIsReal, DismissedIsUntouched
<1> QED BY <1>4, <1>6, <1>7, <1>8, <1>9

LEMMA LateInv ==
  ASSUME IInv, NEW todo \in late, LateCommand(todo) PROVE IInv'
<1> USE DEF IInv
<1>1. todo \in Todo /\ host \in Host /\ late \subseteq Todo
      /\ said \in {"ON", "OFF", "none"} /\ host.firewall \in {"ON", "OFF"}
  BY DEF Shape, Host
<1>2. Head(todo) \in Command /\ Tail(todo) \in Todo \cup {<<>>}
  BY <1>1, TodoFacts
<1>3. /\ host' \in Effects(host, Head(todo)) \cup {host}
      /\ op' = [op EXCEPT !.disturbed = TRUE]
      /\ said' = IF said # "none" /\ Head(todo) = Asks(Opposite(said))
                 THEN "none" ELSE said
      /\ UNCHANGED <<ops, changes>>
  BY DEF LateCommand
<1>4. late' \subseteq Todo
  BY <1>1, <1>2 DEF LateCommand
<1>5. /\ host' \in Host
      /\ host.profile = "asked" => host'.profile = "asked"
      /\ \/ host'.firewall = host.firewall
         \/ Head(todo) = "enable" /\ host'.firewall = "ON"
         \/ Head(todo) = "disable" /\ host'.firewall = "OFF"
  BY <1>1, <1>2, <1>3, CommandHost
<1>6. FirewallAnswerHolds'
  BY <1>1, <1>3, <1>5 DEF FirewallAnswerHolds, Asks, Opposite
<1>7. ops' \in 0..MaxOps /\ changes' \in 0..MaxChanges
  BY <1>3 DEF Shape
<1> QED BY <1>3, <1>4, <1>5, <1>6, <1>7, DisturbedInv

LEMMA ChangesInv ==
  ASSUME IInv, HostChanges PROVE IInv'
<1> USE DEF IInv
<1>1. host \in Host
  BY DEF Shape
<1>2. host' \in Host /\ host'.profile = host.profile
  <2>1. host' \in Changes
    BY DEF HostChanges
  <2>2. (~host.manager) \in BOOLEAN /\ (~host.resolver) \in BOOLEAN
        /\ ((~host.ip) /\ host.link = "up") \in BOOLEAN
    BY Zenon
  <2>3. Opposite(host.firewall) \in {"ON", "OFF"}
    BY DEF Opposite
  <2> QED BY <1>1, <2>1, <2>2, <2>3 DEF Changes, Host
<1>3. FirewallAnswerHolds' /\ said' \in {said, "none"}
  BY DEF HostChanges, FirewallAnswerHolds
<1>4. changes' \in 0..MaxChanges
  BY NetAssumption DEF HostChanges, Shape
<1>5. op' = [op EXCEPT !.disturbed = TRUE] /\ late' \subseteq Todo /\ ops' \in 0..MaxOps
  BY DEF HostChanges, Shape
<1> QED BY <1>2, <1>3, <1>4, <1>5, DisturbedInv

LEMMA InvNext == IInv /\ [Next]_vars => IInv'
<1> SUFFICES ASSUME IInv, [Next]_vars PROVE IInv'
  OBVIOUS
<1>1. CASE \E name \in Name : Ask(name)
  BY <1>1, AskInv
<1>2. CASE Look
  BY <1>2, LookInv
<1>3. CASE Unelevated \/ Dismiss \/ TimesOut
  BY <1>3, NotCarriedOut
<1>4. CASE CommandSucceeds
  BY <1>4, SucceedsInv
<1>5. CASE CommandFails
  BY <1>5, FailsInv
<1>6. CASE Verify
  BY <1>6, VerifyInv
<1>7. CASE Return
  BY <1>7, ReturnInv
<1>8. CASE \E todo \in late : LateCommand(todo)
  BY <1>8, LateInv
<1>9. CASE HostChanges
  BY <1>9, ChangesInv
<1>10. CASE UNCHANGED vars
  <2> USE <1>10 DEF vars, IInv
  <2>1. (Shape /\ Underway /\ Planned)'
    BY DEF Shape, Underway, Planned, ThePlan
  <2>2. (NotBegun /\ Remembered)'
    BY DEF NotBegun, ThePlan, Remembered
  <2>3. (ProfileSet /\ NothingSaid /\ FirewallAnswerHolds)'
    BY DEF ProfileSet, NothingSaid, FirewallAnswerHolds
  <2>4. Achieved' = Achieved
    BY DEF Achieved
  <2>5. (SuccessIsReal /\ DismissedIsUntouched)'
    BY <2>4 DEF SuccessIsReal, DismissedIsUntouched
  <2> QED BY <2>1, <2>2, <2>3, <2>5
<1> QED BY <1>1, <1>2, <1>3, <1>4, <1>5, <1>6, <1>7, <1>8, <1>9, <1>10 DEF Next

-----------------------------------------------------------------------------
(***************************************************************************)
(* Every variable has its type, whatever the bounds.                       *)
(***************************************************************************)
THEOREM TypeCorrect == Spec => []TypeOK
<1>1. IInv => TypeOK
  BY ShapeTypes DEF IInv
<1> QED BY <1>1, InvInit, InvNext, PTL DEF Spec

(***************************************************************************)
(* NetworkMedic never answers a success whose effect is not there, unless  *)
(* somebody else changed the host in between: the look after the command   *)
(* decides, not the exit code.                                             *)
(***************************************************************************)
THEOREM SuccessesAreReal == Spec => []SuccessIsReal
<1>1. IInv => SuccessIsReal
  BY DEF IInv
<1> QED BY <1>1, InvInit, InvNext, PTL DEF Spec

(***************************************************************************)
(* A dismissed dialog leaves the host as the operation found it.           *)
(***************************************************************************)
THEOREM DismissalsAreHarmless == Spec => []DismissedIsUntouched
<1>1. IInv => DismissedIsUntouched
  BY DEF IInv
<1> QED BY <1>1, InvInit, InvNext, PTL DEF Spec

(***************************************************************************)
(* What toggle_firewall last said of the firewall holds until others, or a *)
(* command of a toggle that was given up for the other state, change it.   *)
(***************************************************************************)
THEOREM FirewallAnswersHold == Spec => []FirewallAnswerHolds
<1>1. IInv => FirewallAnswerHolds
  BY DEF IInv
<1> QED BY <1>1, InvInit, InvNext, PTL DEF Spec
=============================================================================
