---------------------------- MODULE SmartRepair -----------------------------
(***************************************************************************)
(* Smart Repair: run_smart_repair of netmedic/repair.py, with the          *)
(* diagnosis it asks for twice (NetworkMedic.run_diagnostics of            *)
(* netmedic/network.py and the probes of netmedic/probes.py).              *)
(*                                                                         *)
(* A diagnosis takes seconds and probes one thing after the other, while   *)
(* the network changes: each probe is a step and sees the network of its   *)
(* own moment.  Messages, hints and the status bar are left out.           *)
(***************************************************************************)
EXTENDS Naturals, Sequences

CONSTANT MaxChanges    \* bound on the changes of the network explored

ASSUME ChangesAssumption == MaxChanges \in Nat

VARIABLES verify,   \* deps.verify: NETMEDIC_POST_REPAIR_VERIFY
          net,      \* the network as it is now
          changes,  \* number of changes so far
          phase,    \* point run_smart_repair has reached
          probe,    \* next probe of the diagnosis under way
          snap,     \* what its probes have found
          diag,     \* result of the diagnosis before
          post,     \* result of the diagnosis after
          acts,     \* privileged actions asked for, in order
          repairs,  \* and their result codes
          verdict,  \* result code of Smart Repair
          settled   \* history: the network has not changed since the
                    \*   diagnosis under way, or the last one, began

vars == <<verify, net, changes, phase, probe, snap, diag, post, acts,
          repairs, verdict, settled>>
flowVars == <<verify, diag, post, acts, repairs, verdict>>

(***************************************************************************)
(* A captive portal answers for every host: with a redirect or with a page *)
(* of its own (HTTP 200).                                                  *)
(***************************************************************************)
Network == [gw : {"none", "down", "up"}, dns : BOOLEAN, tcp : BOOLEAN,
            icmp : BOOLEAN, portal : {"none", "redirect", "page"}]

\* A network on which every probe succeeds.
Reachable(n) == n.gw = "up" /\ n.dns /\ n.tcp

Code == {"ok", "executed", "partial", "failed", "skipped", "error",
         "cancelled"}
ActCode == {"executed", "failed", "error", "cancelled"}

(***************************************************************************)
(* A diagnosis that did not come back (IPC error) is a NetResult without   *)
(* data: known = FALSE.  portal is the answer of the 204 endpoint.         *)
(***************************************************************************)
PortalAnswer == {"unasked", "failed", "none", "redirect", "page"}
Diagnosis == [known : BOOLEAN, gw : {"none", "down", "up"}, dns : BOOLEAN,
              wan : BOOLEAN, icmp : BOOLEAN, portal : PortalAnswer,
              code : Code]
NoDiagnosis == [known |-> FALSE, gw |-> "none", dns |-> FALSE, wan |-> FALSE,
                icmp |-> FALSE, portal |-> "unasked", code |-> "failed"]

Diagnosing == {"pre", "recheck", "post"}

TypeOK ==
  /\ verify \in BOOLEAN
  /\ net \in Network
  /\ changes \in 0..MaxChanges
  /\ phase \in Diagnosing \cup {"decide", "flush", "renew", "verdict", "done"}
  /\ probe \in {"gateway", "dns", "internet", "portal"}
  /\ {snap, diag, post} \subseteq Diagnosis
  /\ acts \in {<<>>, <<"flush_dns">>, <<"flush_dns", "renew_ip">>}
  /\ repairs \in Seq(ActCode) /\ Len(repairs) = Len(acts)
  /\ verdict \in Code \cup {"none"}
  /\ settled \in BOOLEAN

Init ==
  /\ verify \in BOOLEAN
  /\ net \in Network
  /\ changes = 0
  /\ phase = "pre"
  /\ probe = "gateway"
  /\ snap = NoDiagnosis
  /\ diag = NoDiagnosis
  /\ post = NoDiagnosis
  /\ acts = <<>>
  /\ repairs = <<>>
  /\ verdict = "none"
  /\ settled = TRUE

-----------------------------------------------------------------------------
\* The probes of run_diagnostics, in the order of the code.
ProbeStep(this, next) ==
  /\ phase \in Diagnosing
  /\ probe = this
  /\ probe' = next
  /\ UNCHANGED <<net, changes, phase, flowVars>>

ProbeGateway ==
  /\ ProbeStep("gateway", "dns")
  /\ snap' = [NoDiagnosis EXCEPT !.known = TRUE, !.gw = net.gw]
  /\ settled' = TRUE

ProbeDns ==
  /\ ProbeStep("dns", "internet")
  /\ snap' = [snap EXCEPT !.dns = net.dns]
  /\ UNCHANGED settled

\* ICMP is tried only when every TCP probe failed.
ProbeInternet ==
  /\ ProbeStep("internet", "portal")
  /\ snap' = [snap EXCEPT !.wan = net.tcp, !.icmp = ~net.tcp /\ net.icmp]
  /\ UNCHANGED settled

AllGreen(d) == d.gw = "up" /\ d.dns /\ d.wan

\* check_portal_at_url: only a redirect counts as a portal.
PortalSeen(answer) == answer = "redirect"

\* Mutant: the answer of the 204 endpoint is not looked at.
CodeByProbes(d) ==
  CASE AllGreen(d) -> "ok"
    [] d.gw = "up" /\ d.dns /\ ~d.wan /\ d.icmp -> "partial"
    [] OTHER -> "failed"

\* The result code of run_diagnostics.
CodeOf(d) ==
  CASE AllGreen(d) /\ ~PortalSeen(d.portal) -> "ok"
    [] AllGreen(d) /\ PortalSeen(d.portal)  -> "partial"
    [] d.gw = "up" /\ d.dns /\ ~d.wan /\ d.icmp -> "partial"
    [] OTHER -> "failed"

\* The diagnosis under way ends with result d.
Deliver(d) ==
  /\ IF phase = "pre"
     THEN diag' = d /\ phase' = "decide" /\ UNCHANGED post
     ELSE post' = d /\ phase' = "verdict" /\ UNCHANGED diag
  /\ probe' = "gateway"
  /\ snap' = NoDiagnosis
  /\ UNCHANGED <<verify, net, changes, acts, repairs, verdict, settled>>

(***************************************************************************)
(* The 204 endpoint is asked when all is green, to verify it, and when     *)
(* only the Internet is missing, for a hint.  curl may fail.               *)
(***************************************************************************)
ProbePortal ==
  /\ phase \in Diagnosing
  /\ probe = "portal"
  /\ \E answer \in IF snap.gw = "up" /\ (snap.dns \/ ~snap.wan)
                   THEN {"failed", net.portal} ELSE {"unasked"} :
       LET d == [snap EXCEPT !.portal = answer] IN
       Deliver([d EXCEPT !.code = CodeOf(d)])

\* The IPC request for the diagnosis fails or times out.
DiagnosisLost ==
  /\ phase \in Diagnosing
  /\ Deliver(NoDiagnosis)

-----------------------------------------------------------------------------
\* _is_healthy: the booleans of the diagnosis when it has data.
LooksHealthy(d) == d.known /\ AllGreen(d)

\* Mutant: a healthy network is diagnosed until it is not.
DecideToWait ==
  /\ phase = "decide"
  /\ phase' = IF LooksHealthy(diag) THEN "pre" ELSE "flush"
  /\ UNCHANGED <<net, changes, probe, snap, flowVars, settled>>

(***************************************************************************)
(* A healthy network is checked again and skipped, any other is repaired.  *)
(***************************************************************************)
Decide ==
  /\ phase = "decide"
  /\ phase' = IF LooksHealthy(diag)
              THEN IF verify THEN "recheck" ELSE "verdict"
              ELSE "flush"
  /\ UNCHANGED <<net, changes, probe, snap, flowVars, settled>>

\* Mutant: a gateway that is configured is taken for one that answers.
SkipRenewIfNone == diag.known /\ diag.gw = "none"

\* _pre_diagnose: no gateway, or one that does not answer.
SkipRenew == diag.known /\ diag.gw # "up"

\* _run_one_action: the result is kept, whatever it is.
Asked(action, code) ==
  /\ acts' = Append(acts, action)
  /\ repairs' = Append(repairs, code)

AfterRepairs == IF verify THEN "post" ELSE "verdict"

\* flush_dns may clear a resolver problem.
FlushDns ==
  /\ phase = "flush"
  /\ \E code \in ActCode :
       /\ Asked("flush_dns", code)
       /\ \/ net' = net
          \/ code = "executed" /\ net' = [net EXCEPT !.dns = TRUE]
  /\ settled' = (settled /\ net' = net)
  /\ phase' = IF SkipRenew THEN AfterRepairs ELSE "renew"
  /\ UNCHANGED <<verify, changes, probe, snap, diag, post, verdict>>

\* renew_ip may bring the whole connection back.
RenewIp ==
  /\ phase = "renew"
  /\ \E code \in ActCode :
       /\ Asked("renew_ip", code)
       /\ \/ net' = net
          \/ code = "executed"
             /\ net' = [net EXCEPT !.gw = "up", !.dns = TRUE, !.tcp = TRUE]
  /\ settled' = (settled /\ net' = net)
  /\ phase' = AfterRepairs
  /\ UNCHANGED <<verify, changes, probe, snap, diag, post, verdict>>

-----------------------------------------------------------------------------
RepairsOk == \A i \in DOMAIN repairs : repairs[i] \in {"ok", "executed"}

\* _verdict_not_recovered: the repairs worked, the network did not.
NotRecovered == IF post.known /\ post.dns /\ ~post.wan
                THEN "partial" ELSE "failed"

\* Mutant: what was executed counts as recovered.
VerdictByRepairs ==
  CASE LooksHealthy(diag) -> "skipped"
    [] ~LooksHealthy(diag) /\ RepairsOk  -> "ok"
    [] ~LooksHealthy(diag) /\ ~RepairsOk -> "failed"

\* _compute_verdict, after the short cut for healthy networks.
VerdictCode ==
  IF LooksHealthy(diag) THEN "skipped"
  ELSE CASE ~RepairsOk -> "failed"
         [] RepairsOk /\ ~verify -> "executed"
         [] RepairsOk /\ verify /\ post.code = "ok" -> "ok"
         [] OTHER -> NotRecovered

Conclude ==
  /\ phase = "verdict"
  /\ verdict' = VerdictCode
  /\ phase' = "done"
  /\ UNCHANGED <<verify, net, changes, probe, snap, diag, post, acts, repairs,
                 settled>>

\* The network changes under the running repair.
NetChange ==
  /\ phase # "done"
  /\ changes < MaxChanges
  /\ changes' = changes + 1
  /\ net' \in Network \ {net}
  /\ settled' = FALSE
  /\ UNCHANGED <<phase, probe, snap, flowVars>>

Flow == \/ ProbeGateway \/ ProbeDns \/ ProbeInternet \/ ProbePortal
        \/ DiagnosisLost \/ Decide \/ FlushDns \/ RenewIp \/ Conclude

Next == Flow \/ NetChange

Spec == Init /\ [][Next]_vars

\* Probes and privileged actions run under timeouts.
FairSpec == Spec /\ WF_vars(Flow)

-----------------------------------------------------------------------------
(***************************************************************************)
(* A verified verdict is true, if the network did not change while it was  *)
(* being verified: on "success" gateway, names and the Internet can be     *)
(* reached and no redirecting portal was met, on "partial" names resolve   *)
(* and the Internet is out of reach.                                       *)
(***************************************************************************)
VerdictIsHonest ==
  settled =>
    /\ verdict = "ok" => Reachable(net) /\ post.portal # "redirect"
    /\ verdict = "partial" => net.dns /\ ~net.tcp

(***************************************************************************)
(* While the network does not change, a diagnosis that came back sends     *)
(* privileged repairs only where they belong: none to a network on which   *)
(* all is reachable (R4 in repair.py), no renewal without a gateway.       *)
(***************************************************************************)
RepairsFitTheNetwork ==
  [][acts' # acts /\ changes = 0 /\ diag.known =>
       IF acts = <<>> THEN ~Reachable(net) ELSE net.gw = "up"]_vars

(***************************************************************************)
(* Repairs that were not verified are never reported as recovery           *)
(* (docs/OPS.md: without verification repairs report EXECUTED, never OK),  *)
(* and as executed only if every one of them was; a network is skipped     *)
(* without any, on a diagnosis that found it well or behind a portal.      *)
(***************************************************************************)
NeverOkUnverified ==
  /\ ~verify => verdict # "ok"
  /\ verdict = "executed" => \A i \in DOMAIN acts : repairs[i] = "executed"
  /\ verdict = "skipped" =>
       acts = <<>> /\ (diag.code = "ok" \/ diag.portal = "redirect")

(***************************************************************************)
(* Smart Repair ends with a verdict however often the network changes.     *)
(***************************************************************************)
Concludes == <>(verdict # "none")
=============================================================================
