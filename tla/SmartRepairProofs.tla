------------------------- MODULE SmartRepairProofs --------------------------
(***************************************************************************)
(* Proofs about module SmartRepair, for any number of changes of the       *)
(* network: its verdicts are true and its repairs fit what was diagnosed.  *)
(***************************************************************************)
EXTENDS SmartRepair, SequenceTheorems, TLAPS

(***************************************************************************)
(* The inductive invariant.  What a probe has found is still so as long as *)
(* the network has not changed since the diagnosis began (Probing), and so *)
(* is what the last diagnosis delivered (Checked).  Before any change the  *)
(* same holds of the first one, until a repair may have cured the names    *)
(* (Diagnosed).  A diagnosis that came back has the code of what it found  *)
(* (Coded); the path tells what was asked for so far (Path).               *)
(***************************************************************************)
Matches(d, n) == d.gw = n.gw /\ d.dns = n.dns /\ d.wan = n.tcp
Coded(d) == d = NoDiagnosis \/ (d.known /\ d.code = CodeOf(d))

Typed ==
  /\ verify \in BOOLEAN
  /\ net \in Network
  /\ changes \in 0..MaxChanges
  /\ phase \in Diagnosing \cup {"decide", "flush", "renew", "verdict", "done"}
  /\ probe \in {"gateway", "dns", "internet", "portal"}
  /\ snap \in Diagnosis /\ diag \in Diagnosis /\ post \in Diagnosis
  /\ verdict \in Code \cup {"none"}
  /\ settled \in BOOLEAN

Asks ==
  \/ acts = <<>> /\ repairs = <<>>
  \/ acts = <<"flush_dns">> /\ \E c \in ActCode : repairs = <<c>>
  \/ acts = <<"flush_dns", "renew_ip">>
     /\ \E c \in ActCode, d \in ActCode : repairs = <<c, d>>

Path ==
  /\ phase \in {"pre", "decide", "flush", "recheck"} => acts = <<>>
  /\ phase = "renew" => acts = <<"flush_dns">> /\ ~SkipRenew
  /\ phase \in {"flush", "renew", "post"} => ~LooksHealthy(diag)
  /\ phase \in {"verdict", "done"} /\ LooksHealthy(diag) => acts = <<>>
  /\ phase # "done" => verdict = "none"

Probing ==
  probe # "gateway" =>
    /\ phase \in Diagnosing
    /\ snap.known
    /\ settled => /\ snap.gw = net.gw
                  /\ probe # "dns" => snap.dns = net.dns
                  /\ probe = "portal" => snap.wan = net.tcp

Diagnosed ==
  /\ phase \in {"pre", "decide", "flush"} /\ changes = 0 => settled
  /\ phase \in {"decide", "flush"} /\ settled /\ diag.known => Matches(diag, net)
  /\ phase = "renew" /\ changes = 0 /\ diag.known => diag.gw = net.gw

Checked ==
  phase \in {"verdict", "done"} /\ verify /\ settled /\ post.known
    => Matches(post, net)

Ends ==
  /\ verdict \in {"ok", "partial"} => verify /\ post.known
  /\ verdict = "ok" => post.code = "ok"
  /\ verdict = "partial" => post.dns /\ ~post.wan

IInv == /\ Typed /\ Asks /\ Path /\ Probing /\ Diagnosed /\ Checked
        /\ Coded(diag) /\ Coded(post) /\ Ends /\ NeverOkUnverified

-----------------------------------------------------------------------------
LEMMA NoDiagnosisType == NoDiagnosis \in Diagnosis /\ ~NoDiagnosis.known
BY DEF NoDiagnosis, Diagnosis, PortalAnswer, Code

LEMMA CodeType == ASSUME NEW d PROVE CodeOf(d) \in {"ok", "partial", "failed"}
BY DEF CodeOf

\* A diagnosis that finds all well, and one with code "ok".
LEMMA GreenCode ==
  ASSUME NEW d \in Diagnosis, Coded(d)
  PROVE  /\ LooksHealthy(d) => d.code = "ok" \/ d.portal = "redirect"
         /\ d.code = "ok" => d.known /\ AllGreen(d) /\ d.portal # "redirect"
<1>1. CASE d = NoDiagnosis
  BY <1>1 DEF NoDiagnosis, LooksHealthy
<1>2. CASE d.known /\ d.code = CodeOf(d)
  BY <1>2 DEF CodeOf, LooksHealthy, PortalSeen, AllGreen
<1> QED BY <1>1, <1>2 DEF Coded

LEMMA InvInit == Init => IInv
<1> SUFFICES ASSUME Init PROVE IInv
  OBVIOUS
<1>1. Typed
  BY NoDiagnosisType, ChangesAssumption DEF Init, Typed, Diagnosing, Code
<1>2. ~LooksHealthy(diag)
  BY NoDiagnosisType DEF Init, LooksHealthy
<1>3. Path /\ Asks /\ Probing /\ Diagnosed /\ Checked
  BY <1>2 DEF Init, Path, Asks, Probing, Diagnosed, Checked
<1>4. Ends /\ NeverOkUnverified
  BY DEF Init, Ends, NeverOkUnverified
<1> QED BY <1>1, <1>3, <1>4 DEF IInv, Coded, Init

-----------------------------------------------------------------------------
(***************************************************************************)
(* A probe finds what is there.                                            *)
(***************************************************************************)
LEMMA ProbeInv ==
  ASSUME IInv, ProbeGateway \/ ProbeDns \/ ProbeInternet PROVE IInv'
<1> USE DEF IInv
<1>1. /\ UNCHANGED <<net, changes, phase, flowVars>> /\ phase \in Diagnosing
      /\ net \in Network /\ snap \in Diagnosis
  BY DEF ProbeGateway, ProbeDns, ProbeInternet, ProbeStep, Typed
<1>2. /\ Typed' /\ Probing'
      /\ phase = "pre" /\ changes = 0 => settled'
  <2>1. CASE ProbeGateway
    <3>1. snap' = [NoDiagnosis EXCEPT !.known = TRUE, !.gw = net.gw]
          /\ probe' = "dns" /\ settled' = TRUE
      BY <2>1 DEF ProbeGateway, ProbeStep
    <3>2. snap' \in Diagnosis /\ snap'.known /\ snap'.gw = net.gw
      BY <1>1, <3>1, NoDiagnosisType DEF Diagnosis, Network
    <3> QED BY <1>1, <3>1, <3>2 DEF Typed, flowVars, Probing
  <2>2. CASE ProbeDns
    <3>1. snap' = [snap EXCEPT !.dns = net.dns] /\ probe = "dns"
          /\ probe' = "internet" /\ settled' = settled
      BY <2>2 DEF ProbeDns, ProbeStep
    <3>2. snap' \in Diagnosis /\ snap'.known = snap.known /\ snap'.gw = snap.gw
          /\ snap'.dns = net.dns
      BY <1>1, <3>1 DEF Diagnosis, Network
    <3> QED BY <1>1, <3>1, <3>2 DEF Typed, flowVars, Probing, Diagnosed
  <2>3. CASE ProbeInternet
    <3>1. snap' = [snap EXCEPT !.wan = net.tcp, !.icmp = ~net.tcp /\ net.icmp]
          /\ probe = "internet" /\ probe' = "portal" /\ settled' = settled
      BY <2>3 DEF ProbeInternet, ProbeStep
    <3>2. (~net.tcp /\ net.icmp) \in BOOLEAN
      OBVIOUS
    <3>3. snap' \in Diagnosis /\ snap'.known = snap.known /\ snap'.gw = snap.gw
          /\ snap'.dns = snap.dns /\ snap'.wan = net.tcp
      BY <1>1, <3>1, <3>2 DEF Diagnosis, Network
    <3> QED BY <1>1, <3>1, <3>3 DEF Typed, flowVars, Probing, Diagnosed
  <2> QED BY <2>1, <2>2, <2>3
<1>3. Path' /\ Asks'
  BY <1>1 DEF flowVars, Path, Asks, SkipRenew, LooksHealthy, AllGreen
<1>4. Diagnosed' /\ Checked'
  BY <1>1, <1>2 DEF flowVars, Diagnosed, Checked, Diagnosing
<1>5. Coded(diag)' /\ Coded(post)'
  BY <1>1 DEF flowVars, Coded, CodeOf, AllGreen, PortalSeen
<1>6. Ends' /\ NeverOkUnverified'
  BY <1>1 DEF flowVars, Ends, NeverOkUnverified
<1> QED BY <1>2, <1>3, <1>4, <1>5, <1>6

(***************************************************************************)
(* A diagnosis ends, with what its probes have found or without a result.  *)
(***************************************************************************)
LEMMA DeliverInv ==
  ASSUME IInv, phase \in Diagnosing, NEW d \in Diagnosis, Coded(d),
         settled /\ d.known => Matches(d, net), Deliver(d)
  PROVE  IInv'
<1> USE DEF IInv
<1>1. UNCHANGED <<verify, net, changes, acts, repairs, verdict, settled>>
      /\ probe' = "gateway" /\ snap' = NoDiagnosis
  BY DEF Deliver
<1>2. Typed'
  BY <1>1, NoDiagnosisType DEF Deliver, Typed
<1>3. Coded(d)' <=> Coded(d)
  BY DEF Coded, CodeOf, AllGreen, PortalSeen
<1>4. CASE phase = "pre"
  <2>1. diag' = d /\ phase' = "decide" /\ post' = post
    BY <1>4 DEF Deliver
  <2>2. Path' /\ Asks' /\ Probing'
    BY <1>1, <1>4, <2>1 DEF Path, Asks, Probing, Diagnosing
  <2>3. Diagnosed' /\ Checked'
    BY <1>1, <1>4, <2>1 DEF Diagnosed, Checked, Matches
  <2>4. verdict' = "none"
    BY <1>1, <1>4 DEF Path
  <2>5. Ends' /\ NeverOkUnverified'
    BY <2>4 DEF Ends, NeverOkUnverified
  <2>6. Coded(diag)' /\ Coded(post)'
    BY <2>1 DEF Coded, CodeOf, AllGreen, PortalSeen
  <2> QED BY <1>2, <2>2, <2>3, <2>5, <2>6
<1>5. CASE phase # "pre"
  <2>1. post' = d /\ phase' = "verdict" /\ diag' = diag
    BY <1>5 DEF Deliver
  <2>2. LooksHealthy(diag) => acts = <<>>
    BY <1>5 DEF Path, Diagnosing
  <2>3. Path' /\ Asks' /\ Probing'
    BY <1>1, <1>5, <2>1, <2>2 DEF Path, Asks, Probing, Diagnosing, LooksHealthy,
       AllGreen
  <2>4. Diagnosed' /\ Checked'
    BY <1>1, <2>1 DEF Diagnosed, Checked, Matches
  <2>5. verdict' = "none"
    BY <1>1 DEF Path, Diagnosing
  <2>6. Ends' /\ NeverOkUnverified'
    BY <2>5 DEF Ends, NeverOkUnverified
  <2>7. Coded(diag)' /\ Coded(post)'
    BY <2>1 DEF Coded, CodeOf, AllGreen, PortalSeen
  <2> QED BY <1>2, <2>3, <2>4, <2>6, <2>7
<1> QED BY <1>4, <1>5

LEMMA DiagnosisInv ==
  ASSUME IInv, ProbePortal \/ DiagnosisLost PROVE IInv'
<1> USE DEF IInv
<1>1. CASE ProbePortal
  <2>1. PICK answer \in PortalAnswer :
          LET d == [snap EXCEPT !.portal = answer] IN
          Deliver([d EXCEPT !.code = CodeOf(d)])
    BY <1>1 DEF ProbePortal, PortalAnswer, Typed, Network
  <2> DEFINE d == [snap EXCEPT !.portal = answer]
             e == [d EXCEPT !.code = CodeOf(d)]
  <2>2. /\ phase \in Diagnosing /\ probe = "portal" /\ snap \in Diagnosis
        /\ snap.known /\ settled => Matches(snap, net)
    BY <1>1 DEF ProbePortal, Typed, Probing, Matches
  <2>3. /\ d \in Diagnosis
        /\ d.gw = snap.gw /\ d.dns = snap.dns /\ d.wan = snap.wan /\ d.known = snap.known
    BY <2>2 DEF Diagnosis
  <2>4. CodeOf(d) \in Code
    BY CodeType DEF Code
  <2> HIDE DEF d
  <2>5. /\ e \in Diagnosis /\ e.code = CodeOf(d)
        /\ e.gw = d.gw /\ e.dns = d.dns /\ e.wan = d.wan /\ e.icmp = d.icmp
        /\ e.portal = d.portal /\ e.known = d.known
    BY <2>3, <2>4 DEF Diagnosis
  <2>6. Deliver(e)
    BY <2>1 DEF d
  <2> HIDE DEF e
  <2>7. CodeOf(e) = CodeOf(d)
    BY <2>5 DEF CodeOf, AllGreen
  <2>8. probe = "portal" /\ snap.known
    BY <1>1 DEF ProbePortal, Probing
  <2>9. Coded(e) /\ (settled /\ e.known => Matches(e, net))
    BY <2>2, <2>3, <2>5, <2>7, <2>8 DEF Coded, Matches
  <2> QED BY <2>2, <2>5, <2>6, <2>9, DeliverInv
<1>2. CASE DiagnosisLost
  BY <1>2, NoDiagnosisType, DeliverInv DEF DiagnosisLost, Coded
<1> QED BY <1>1, <1>2

-----------------------------------------------------------------------------
LEMMA DecideInv == ASSUME IInv, Decide PROVE IInv'
<1> USE DEF IInv
<1>1. /\ UNCHANGED <<net, changes, probe, snap, flowVars, settled>>
      /\ phase = "decide"
      /\ phase' = IF LooksHealthy(diag)
                  THEN IF verify THEN "recheck" ELSE "verdict" ELSE "flush"
  BY DEF Decide
<1>2. LooksHealthy(diag)' <=> LooksHealthy(diag)
  BY <1>1 DEF flowVars, LooksHealthy, AllGreen
<1>3. Typed' /\ Asks'
  BY <1>1 DEF flowVars, Typed, Asks, Diagnosing
<1>4. Path'
  BY <1>1, <1>2 DEF flowVars, Path
<1>5. Diagnosed' /\ Checked'
  BY <1>1 DEF flowVars, Diagnosed, Checked, Matches, Typed
<1>6. Probing'
  <2>1. probe = "gateway"
    BY <1>1 DEF Probing, Diagnosing
  <2> QED BY <1>1, <2>1 DEF Probing
<1>7. Coded(diag)' /\ Coded(post)'
  BY <1>1 DEF flowVars, Coded, CodeOf, AllGreen, PortalSeen
<1>8. Ends' /\ NeverOkUnverified'
  BY <1>1 DEF flowVars, Ends, NeverOkUnverified
<1> QED BY <1>3, <1>4, <1>5, <1>6, <1>7, <1>8

\* A repair is asked for; it may cure the network.
LEMMA FlushInv == ASSUME IInv, FlushDns PROVE IInv'
<1> USE DEF IInv
<1>1. /\ UNCHANGED <<verify, changes, probe, snap, diag, post, verdict>>
      /\ phase = "flush" /\ acts = <<>> /\ repairs = <<>> /\ probe = "gateway"
      /\ ~LooksHealthy(diag) /\ verdict = "none" /\ net \in Network
  BY DEF FlushDns, Path, Asks, Probing, Diagnosing, Typed
<1>2. /\ phase' = IF SkipRenew THEN AfterRepairs ELSE "renew"
      /\ settled' = (settled /\ net' = net)
  BY DEF FlushDns
<1>3. PICK code \in ActCode : acts' = <<"flush_dns">> /\ repairs' = <<code>>
  BY <1>1 DEF FlushDns, Asked
<1>4. net' \in Network /\ net'.gw = net.gw
  <2>1. net' = net \/ net' = [net EXCEPT !.dns = TRUE]
    BY DEF FlushDns
  <2> QED BY <1>1, <2>1 DEF Network
<1>5. /\ LooksHealthy(diag)' <=> LooksHealthy(diag)
      /\ SkipRenew' <=> SkipRenew
  BY <1>1 DEF LooksHealthy, AllGreen, SkipRenew
<1>6. phase' \in {"post", "verdict", "renew"}
  BY <1>2 DEF AfterRepairs
<1>7. settled' \in BOOLEAN
  BY <1>2
<1>8. Typed' /\ Asks' /\ Path' /\ Probing'
  <2>1. Typed'
    BY <1>1, <1>4, <1>6, <1>7 DEF Typed, Diagnosing
  <2>2. Path'
    BY <1>1, <1>2, <1>3, <1>5, <1>6 DEF Path, AfterRepairs
  <2> QED BY <1>1, <1>3, <2>1, <2>2 DEF Asks, Probing
<1>9. Diagnosed' /\ Checked'
  <2>1. changes = 0 /\ diag.known => diag.gw = net.gw
    BY <1>1 DEF Diagnosed, Matches
  <2>2. phase' = "verdict" => ~verify
    BY <1>2 DEF AfterRepairs
  <2> QED BY <1>1, <1>4, <1>6, <2>1, <2>2 DEF Diagnosed, Checked
<1>10. Coded(diag)' /\ Coded(post)'
  BY <1>1 DEF Coded, CodeOf, AllGreen, PortalSeen
<1>11. Ends' /\ NeverOkUnverified'
  BY <1>1 DEF Ends, NeverOkUnverified
<1> QED BY <1>8, <1>9, <1>10, <1>11

\* A second element follows the first.
LEMMA AppendToOne ==
  ASSUME NEW a, NEW b PROVE Append(<<a>>, b) = <<a, b>>
<1> DEFINE S == {a, b}
<1>1. <<a>> \in Seq(S) /\ Len(<<a>>) = 1 /\ <<a>>[1] = a
  OBVIOUS
<1>2. <<a, b>> \in Seq(S) /\ Len(<<a, b>>) = 2
      /\ <<a, b>>[1] = a /\ <<a, b>>[2] = b
  OBVIOUS
<1>3. /\ Append(<<a>>, b) \in Seq(S) /\ Len(Append(<<a>>, b)) = 2
      /\ Append(<<a>>, b)[1] = a /\ Append(<<a>>, b)[2] = b
  BY <1>1, AppendProperties
<1>4. \A i \in 1 .. 2 : Append(<<a>>, b)[i] = <<a, b>>[i]
  BY <1>2, <1>3
<1> HIDE DEF S
<1>5. \A s \in Seq(S), t \in Seq(S) :
        Len(s) = Len(t) /\ (\A i \in 1 .. Len(s) : s[i] = t[i]) => s = t
  BY SeqEqual
<1> QED BY <1>2, <1>3, <1>4, <1>5

LEMMA RenewInv == ASSUME IInv, RenewIp PROVE IInv'
<1> USE DEF IInv
<1>1. /\ UNCHANGED <<verify, changes, probe, snap, diag, post, verdict>>
      /\ phase = "renew" /\ acts = <<"flush_dns">> /\ probe = "gateway"
      /\ ~LooksHealthy(diag) /\ verdict = "none" /\ net \in Network
  BY DEF RenewIp, Path, Probing, Diagnosing, Typed
<1>2. PICK first \in ActCode : repairs = <<first>>
  BY <1>1 DEF Asks
<1>3. PICK code \in ActCode :
        acts' = <<"flush_dns", "renew_ip">> /\ repairs' = <<first, code>>
  <2>1. PICK c \in ActCode : Asked("renew_ip", c)
    BY DEF RenewIp
  <2>2. acts' = Append(<<"flush_dns">>, "renew_ip")
    BY <1>1, <2>1 DEF Asked
  <2>3. repairs' = Append(<<first>>, c)
    BY <1>2, <2>1 DEF Asked
  <2>4. acts' = <<"flush_dns", "renew_ip">>
    BY <2>2, AppendToOne
  <2>5. repairs' = <<first, c>>
    BY <2>3, AppendToOne
  <2> QED BY <2>4, <2>5
<1>4. net' \in Network
  <2>1. net' = net \/ net' = [net EXCEPT !.gw = "up", !.dns = TRUE, !.tcp = TRUE]
    BY DEF RenewIp
  <2> QED BY <1>1, <2>1 DEF Network
<1>5. /\ settled' \in BOOLEAN
      /\ phase' = AfterRepairs /\ phase' \in {"post", "verdict"}
      /\ phase' = "verdict" => ~verify
  BY DEF RenewIp, AfterRepairs
<1>6. LooksHealthy(diag)' <=> LooksHealthy(diag)
  BY <1>1 DEF LooksHealthy, AllGreen
<1>7. Typed' /\ Asks' /\ Path' /\ Probing'
  BY <1>1, <1>2, <1>3, <1>4, <1>5, <1>6 DEF Typed, Diagnosing, Asks, Path, Probing
<1>8. Diagnosed' /\ Checked'
  BY <1>1, <1>5 DEF Diagnosed, Checked
<1>9. Coded(diag)' /\ Coded(post)'
  BY <1>1 DEF Coded, CodeOf, AllGreen, PortalSeen
<1>10. Ends' /\ NeverOkUnverified'
  BY <1>1 DEF Ends, NeverOkUnverified
<1> QED BY <1>7, <1>8, <1>9, <1>10

-----------------------------------------------------------------------------
\* The verdict.
LEMMA ConcludeInv == ASSUME IInv, Conclude PROVE IInv'
<1> USE DEF IInv
<1>1. /\ UNCHANGED <<verify, net, changes, probe, snap, diag, post, acts, repairs,
                     settled>>
      /\ phase = "verdict" /\ phase' = "done" /\ verdict' = VerdictCode
  BY DEF Conclude
<1>2. VerdictCode \in {"skipped", "failed", "executed", "ok", "partial"}
  BY DEF VerdictCode, NotRecovered
<1>3. LooksHealthy(diag)' <=> LooksHealthy(diag)
  BY <1>1 DEF LooksHealthy, AllGreen
<1>4. Typed' /\ Asks' /\ Path' /\ Probing'
  BY <1>1, <1>2, <1>3 DEF Typed, Code, Asks, Path, Probing, Diagnosing
<1>5. Diagnosed' /\ Checked'
  BY <1>1 DEF Diagnosed, Checked, Matches
<1>6. Coded(diag)' /\ Coded(post)'
  BY <1>1 DEF Coded, CodeOf, AllGreen, PortalSeen
<1>7. Ends'
  <2>1. post \in Diagnosis /\ Coded(post) /\ verify \in BOOLEAN
    BY DEF Typed
  <2>2. VerdictCode = "ok" => verify /\ post.code = "ok"
    BY DEF VerdictCode, NotRecovered
  <2>3. VerdictCode = "partial" => verify /\ post.known /\ post.dns /\ ~post.wan
    BY DEF VerdictCode, NotRecovered
  <2>4. post.code = "ok" => post.known
    BY <2>1, GreenCode
  <2> QED BY <1>1, <2>2, <2>3, <2>4 DEF Ends
<1>8. NeverOkUnverified'
  <2>1. VerdictCode = "ok" => verify
    BY DEF VerdictCode, NotRecovered
  <2>2. VerdictCode = "executed" => RepairsOk
    BY DEF VerdictCode, NotRecovered
  <2>3. RepairsOk => \A i \in DOMAIN acts : repairs[i] = "executed"
    <3>1. CASE acts = <<>>
      BY <3>1
    <3>2. CASE acts = <<"flush_dns">> /\ \E c \in ActCode : repairs = <<c>>
      BY <3>2 DEF RepairsOk, ActCode
    <3>3. CASE /\ acts = <<"flush_dns", "renew_ip">>
               /\ \E c \in ActCode, d \in ActCode : repairs = <<c, d>>
      BY <3>3 DEF RepairsOk, ActCode
    <3> QED BY <3>1, <3>2, <3>3 DEF Asks
  <2>4. VerdictCode = "skipped" =>
          acts = <<>> /\ (diag.code = "ok" \/ diag.portal = "redirect")
    <3>1. VerdictCode = "skipped" => LooksHealthy(diag)
      BY DEF VerdictCode, NotRecovered
    <3>2. LooksHealthy(diag) => acts = <<>>
      BY <1>1 DEF Path
    <3>3. LooksHealthy(diag) => diag.code = "ok" \/ diag.portal = "redirect"
      BY GreenCode DEF Typed
    <3> QED BY <3>1, <3>2, <3>3
  <2> QED BY <1>1, <2>1, <2>2, <2>3, <2>4 DEF NeverOkUnverified
<1> QED BY <1>4, <1>5, <1>6, <1>7, <1>8

LEMMA ChangeInv == ASSUME IInv, NetChange PROVE IInv'
<1> USE DEF IInv
<1>1. /\ UNCHANGED <<phase, probe, snap, flowVars>> /\ phase # "done"
      /\ net' \in Network /\ settled' = FALSE
      /\ changes' \in 0..MaxChanges /\ changes' # 0
  BY ChangesAssumption DEF NetChange, Typed
<1>2. /\ LooksHealthy(diag)' <=> LooksHealthy(diag)
      /\ SkipRenew' <=> SkipRenew
  BY <1>1 DEF flowVars, LooksHealthy, AllGreen, SkipRenew
<1>3. Typed' /\ Asks' /\ Path' /\ Probing'
  BY <1>1, <1>2 DEF flowVars, Typed, Asks, Path, Probing
<1>4. Diagnosed' /\ Checked'
  BY <1>1 DEF Diagnosed, Checked
<1>5. Coded(diag)' /\ Coded(post)'
  BY <1>1 DEF flowVars, Coded, CodeOf, AllGreen, PortalSeen
<1>6. Ends' /\ NeverOkUnverified'
  BY <1>1 DEF flowVars, Ends, NeverOkUnverified
<1> QED BY <1>3, <1>4, <1>5, <1>6

LEMMA InvNext == IInv /\ [Next]_vars => IInv'
<1> SUFFICES ASSUME IInv, [Next]_vars PROVE IInv'
  OBVIOUS
<1>1. CASE ProbeGateway \/ ProbeDns \/ ProbeInternet
  BY <1>1, ProbeInv
<1>2. CASE ProbePortal \/ DiagnosisLost
  BY <1>2, DiagnosisInv
<1>3. CASE Decide
  BY <1>3, DecideInv
<1>4. CASE FlushDns
  BY <1>4, FlushInv
<1>5. CASE RenewIp
  BY <1>5, RenewInv
<1>6. CASE Conclude
  BY <1>6, ConcludeInv
<1>7. CASE NetChange
  BY <1>7, ChangeInv
<1>8. CASE UNCHANGED vars
  <2> USE <1>8 DEF vars, IInv
  <2>1. Typed' /\ Asks' /\ Probing' /\ Ends' /\ NeverOkUnverified'
    BY DEF Typed, Asks, Probing, Ends, NeverOkUnverified
  <2>2. Path' /\ Diagnosed' /\ Checked'
    BY DEF Path, Diagnosed, Checked, Matches, LooksHealthy, AllGreen, SkipRenew
  <2>3. Coded(diag)' /\ Coded(post)'
    BY DEF Coded, CodeOf, AllGreen, PortalSeen
  <2> QED BY <2>1, <2>2, <2>3
<1> QED BY <1>1, <1>2, <1>3, <1>4, <1>5, <1>6, <1>7, <1>8 DEF Next, Flow

-----------------------------------------------------------------------------
(***************************************************************************)
(* Every variable has its type, however often the network changes.         *)
(***************************************************************************)
THEOREM TypeCorrect == Spec => []TypeOK
<1>1. IInv => TypeOK
  <2> SUFFICES ASSUME IInv PROVE TypeOK
    OBVIOUS
  <2>1. /\ acts \in {<<>>, <<"flush_dns">>, <<"flush_dns", "renew_ip">>}
        /\ repairs \in Seq(ActCode) /\ Len(repairs) = Len(acts)
    <3>1. CASE acts = <<>> /\ repairs = <<>>
      BY <3>1
    <3>2. CASE acts = <<"flush_dns">> /\ \E c \in ActCode : repairs = <<c>>
      BY <3>2
    <3>3. CASE /\ acts = <<"flush_dns", "renew_ip">>
               /\ \E c \in ActCode, d \in ActCode : repairs = <<c, d>>
      BY <3>3
    <3> QED BY <3>1, <3>2, <3>3 DEF IInv, Asks
  <2> QED BY <2>1 DEF IInv, Typed, TypeOK
<1> QED BY <1>1, InvInit, InvNext, PTL DEF Spec

(***************************************************************************)
(* A success that Smart Repair verified is one, and a partial recovery     *)
(* too: if the network did not change while it was verified, it is as the  *)
(* verdict says.                                                           *)
(***************************************************************************)
THEOREM VerdictsAreHonest == Spec => []VerdictIsHonest
<1>1. IInv => VerdictIsHonest
  <2> SUFFICES ASSUME IInv, settled, verdict \in {"ok", "partial"}
               PROVE  /\ verdict = "ok" => Reachable(net) /\ post.portal # "redirect"
                      /\ verdict = "partial" => net.dns /\ ~net.tcp
    BY DEF VerdictIsHonest
  <2>1. verify /\ post.known /\ phase = "done"
    BY DEF IInv, Ends, Path
  <2>2. Matches(post, net)
    BY <2>1 DEF IInv, Checked
  <2>3. CASE verdict = "ok"
    <3>1. AllGreen(post) /\ post.portal # "redirect"
      BY <2>3, GreenCode DEF IInv, Ends, Typed
    <3> QED BY <2>2, <2>3, <3>1 DEF AllGreen, Matches, Reachable
  <2>4. CASE verdict = "partial"
    BY <2>2, <2>4 DEF IInv, Ends, Matches
  <2> QED BY <2>3, <2>4
<1> QED BY <1>1, InvInit, InvNext, PTL DEF Spec

(***************************************************************************)
(* Unverified repairs are not reported as recovery, failed ones not as     *)
(* executed, and nothing is skipped that was asked for.                    *)
(***************************************************************************)
THEOREM UnverifiedIsNotOk == Spec => []NeverOkUnverified
<1>1. IInv => NeverOkUnverified
  BY DEF IInv
<1> QED BY <1>1, InvInit, InvNext, PTL DEF Spec

(***************************************************************************)
(* On a network that does not change, what is asked for as root is asked   *)
(* for where it belongs: nothing where all is reachable, no new address    *)
(* without a gateway.                                                      *)
(***************************************************************************)
THEOREM RepairsAreFitting == Spec => RepairsFitTheNetwork
<1> DEFINE Fitting ==
      acts' # acts /\ changes = 0 /\ diag.known =>
        IF acts = <<>> THEN ~Reachable(net) ELSE net.gw = "up"
<1>1. IInv /\ [Next]_vars => [Fitting]_vars
  <2> SUFFICES ASSUME IInv, Next, acts' # acts, changes = 0, diag.known
               PROVE  IF acts = <<>> THEN ~Reachable(net) ELSE net.gw = "up"
    OBVIOUS
  <2>1. CASE FlushDns
    <3>1. phase = "flush" /\ acts = <<>> /\ ~AllGreen(diag) /\ Matches(diag, net)
      BY <2>1 DEF FlushDns, IInv, Path, Diagnosed, LooksHealthy
    <3> QED BY <3>1 DEF AllGreen, Matches, Reachable
  <2>2. CASE RenewIp
    <3>1. phase = "renew" /\ acts = <<"flush_dns">> /\ ~SkipRenew /\ diag.gw = net.gw
      BY <2>2 DEF RenewIp, IInv, Path, Diagnosed
    <3> QED BY <3>1 DEF SkipRenew
  <2>3. CASE ~(FlushDns \/ RenewIp)
    BY <2>3 DEF Next, Flow, ProbeGateway, ProbeDns, ProbeInternet, ProbeStep, ProbePortal,
       DiagnosisLost, Deliver, Decide, Conclude, NetChange, flowVars
  <2> QED BY <2>1, <2>2, <2>3
<1> QED BY <1>1, InvInit, InvNext, PTL DEF Spec, RepairsFitTheNetwork
=============================================================================
