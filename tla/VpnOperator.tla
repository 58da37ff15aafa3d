----------------------------- MODULE VpnOperator -----------------------------
(***************************************************************************)
(* The VPN operator (netmedic/operators/vpn/angristan.py) and the helper's *)
(* side of its verbs (helper_main.py): installing OpenVPN with a pinned    *)
(* script, adding and revoking clients with the same script, listing them  *)
(* from the PKI index, starting and restarting the service.                *)
(*                                                                         *)
(* The script lies where the user's programs may write.  To run it, the    *)
(* daemon hashes it, copies it, hashes the copy and hands its path to the  *)
(* helper, which waits for the user's password, copies what it finds to a  *)
(* directory of root's, hashes that and runs it.  The daemon may give up   *)
(* waiting, or be killed, while the helper goes on.                        *)
(*                                                                         *)
(* File contents are abstracted to "pinned", which has the pinned SHA256,  *)
(* and "other"; what the script does is external.  Operations come one at  *)
(* a time, as the privileged slot of the dispatcher lets them through.     *)
(***************************************************************************)
EXTENDS Naturals, Sequences

CONSTANTS Client,     \* names of VPN clients
          NoClient,
          Beginnings, \* [Client -> the clients whose name it begins with]
          Cap,        \* lines of the index that every list shows
          MaxOps,     \* bound: operations asked for
          MaxChanges  \* bound: changes by others, kills included

ASSUME VpnAssumption ==
  /\ NoClient \notin Client
  /\ Cap \in Nat /\ MaxOps \in Nat /\ MaxChanges \in Nat
  /\ Beginnings \in [Client -> SUBSET Client]

VARIABLES script,    \* openvpn-install.sh in the directory of the operators
          service,   \* the OpenVPN service is active
          index,     \* index.txt of the PKI, if there is one
          op,        \* the operation under way
          copy,      \* [operation -> the daemon's copy of the script]
          job,       \* [operation -> the helper that runs it as root]
          executed,  \* contents that were run as root
          killed,    \* operations whose daemon was killed
          ops,       \* operations so far
          changes    \* changes by others so far

vars == <<script, service, index, op, copy, job, executed, killed,
          ops, changes>>
files == <<script, copy>>
bounds == <<killed, ops, changes>>

Name == {"install", "add_client", "revoke_client", "list_clients",
         "start_service", "restart_service"}
ByScript == {"install", "add_client", "revoke_client"}
ByUnit == {"start_service", "restart_service"}
Content == {"pinned", "other", "none"}
Entry == [name : Client, active : BOOLEAN]
NoIndex == [missing |-> TRUE]
Index(entries) == [missing |-> FALSE, entries |-> entries]
Job == 1..MaxOps

Stage == {"idle", "download", "validate", "list", "hash", "copy", "rehash",
          "root", "verify", "unit", "done"}

(***************************************************************************)
(* listed: the list that add_client begins with showed the whole index.    *)
(* History: the index an operation began on, and whether anybody else has  *)
(* changed it since; of a helper, whether the daemon was waiting for it    *)
(* when it staged its copy.                                                *)
(***************************************************************************)
OpType == [name : Name \cup {"none"}, at : Stage, client : Client \cup {NoClient},
           code : {"none", "ok", "failed"}, listed : BOOLEAN, start : Seq(Entry),
           disturbed : BOOLEAN]
JobType == [at : {"none", "dialog", "staged", "ready", "over"}, staged : Content,
            name : Name \cup {"none"}, client : Client \cup {NoClient},
            intime : BOOLEAN]

\* A sealed script has mode 0500.
TypeOK ==
  /\ script \in [content : Content, sealed : BOOLEAN]
  /\ service \in BOOLEAN
  /\ index = NoIndex \/ index \in [missing : {FALSE}, entries : Seq(Entry)]
  /\ op \in OpType
  /\ copy \in [Job -> Content]
  /\ job \in [Job -> JobType]
  /\ executed \subseteq Content
  /\ killed \subseteq Job
  /\ ops \in 0..MaxOps
  /\ changes \in 0..MaxChanges

Entries == IF index.missing THEN <<>> ELSE index.entries
HasEntry(entries, c, active) ==
  \E i \in DOMAIN entries : entries[i] = [name |-> c, active |-> active]

NoOp == [name |-> "none", at |-> "idle", client |-> NoClient, code |-> "none",
         listed |-> FALSE, start |-> <<>>, disturbed |-> FALSE]
NoJob == [at |-> "none", staged |-> "none", name |-> "none",
          client |-> NoClient, intime |-> FALSE]

(***************************************************************************)
(* What earlier sessions have left: nothing, or an installation with some  *)
(* clients, each with one valid certificate at most.                       *)
(***************************************************************************)
Init ==
  /\ \/ /\ script = [content |-> "none", sealed |-> FALSE]
        /\ service = FALSE /\ index = NoIndex
     \/ /\ script = [content |-> "pinned", sealed |-> TRUE]
        /\ service \in BOOLEAN
        /\ \E n \in 0..2 : \E entries \in [1..n -> Entry] :
             /\ \A i, j \in 1..n : entries[i] = entries[j] /\ entries[i].active
                                     => i = j
             /\ index = Index(entries)
  /\ op = NoOp
  /\ copy = [n \in Job |-> "none"]
  /\ job = [n \in Job |-> NoJob]
  /\ executed = {}
  /\ killed = {}
  /\ ops = 0
  /\ changes = 0

-----------------------------------------------------------------------------
At(stage) == op.at = stage
Goto(stage) == op' = [op EXCEPT !.at = stage]
Answer(code) == op' = [op EXCEPT !.at = "done", !.code = code]

\* _verify_integrity
Intact == script.content = "pinned"

Ask(name, c) ==
  /\ At("idle") /\ ops < MaxOps
  /\ (c = NoClient) = (name \notin {"add_client", "revoke_client"})
  /\ ops' = ops + 1
  /\ op' = [NoOp EXCEPT
              !.name = name, !.client = c, !.start = Entries,
              !.at = CASE name = "install" -> "download"
                       [] name \in {"add_client", "list_clients"} -> "list"
                       [] name = "revoke_client" -> "hash"
                       [] name \in ByUnit -> "unit"]
  /\ UNCHANGED <<files, service, index, job, executed, killed, changes>>

(***************************************************************************)
(* curl writes straight to the script's path: it is refused by a script    *)
(* that was sealed, and it may leave an incomplete one.                    *)
(***************************************************************************)
Download ==
  /\ At("download")
  /\ \/ Answer("failed") /\ UNCHANGED script
     \/ /\ ~script.sealed
        /\ script' = [content |-> "other", sealed |-> FALSE]
        /\ Answer("failed")
     \/ /\ ~script.sealed
        /\ \E got \in {"pinned", "other"} :
             script' = [content |-> got, sealed |-> FALSE]
        /\ Goto("validate")
  /\ UNCHANGED <<service, index, copy, job, executed, bounds>>

Validate ==
  /\ At("validate")
  /\ IF Intact
     THEN script' = [script EXCEPT !.sealed = TRUE] /\ Goto("hash")
     ELSE Answer("failed") /\ UNCHANGED script
  /\ UNCHANGED <<service, index, copy, job, executed, bounds>>

(***************************************************************************)
(* What vpn-list may return: the index, or, if it is long, the first       *)
(* 20000 characters of it, which may end in a line whose name is another   *)
(* client's.  Cap lines are shown whole, however long they are.            *)
(***************************************************************************)
CutLine(i) ==
  {<<>>} \cup {<<[name |-> c, active |-> Entries[i].active]>> :
                 c \in Beginnings[Entries[i].name]}
Listings ==
  {Entries} \cup
  UNION {{SubSeq(Entries, 1, k) \o last : last \in CutLine(k + 1)} :
           k \in Cap..(Len(Entries) - 1)}
Listable == script.content # "none" /\ ~index.missing

(***************************************************************************)
(* list_clients, by itself or to look for a client of that name first.     *)
(* Without a list, add_client goes on.                                     *)
(***************************************************************************)
List ==
  /\ At("list")
  /\ \E listed \in {FALSE, Listable}, shown \in Listings :
       IF op.name = "list_clients"
       THEN Answer(IF listed THEN "ok" ELSE "failed")
       ELSE IF listed /\ HasEntry(shown, op.client, TRUE)
       THEN Answer("failed")
       ELSE op' = [op EXCEPT !.at = "hash",
                             !.listed = listed /\ shown = Entries]
  /\ UNCHANGED <<files, service, index, job, executed, bounds>>

\* _execute_verified_script hashes the open script ...
HashScript ==
  /\ At("hash")
  /\ IF Intact THEN Goto("copy") ELSE Answer("failed")
  /\ UNCHANGED <<files, service, index, job, executed, bounds>>

(***************************************************************************)
(* ... copies what is read from it now, which a change or a short write    *)
(* makes another script, hashes the copy, and calls the helper.            *)
(***************************************************************************)
CopyScript ==
  /\ At("copy")
  /\ \/ Answer("failed") /\ UNCHANGED copy
     \/ /\ \E got \in {"pinned", "other"} : copy' = [copy EXCEPT ![ops] = got]
        /\ Goto("rehash")
  /\ UNCHANGED <<script, service, index, job, executed, bounds>>

Unlink == copy' = [copy EXCEPT ![ops] = "none"]

HashCopy ==
  /\ At("rehash")
  /\ IF copy[ops] = "pinned"
     THEN /\ job' = [job EXCEPT ![ops] = [NoJob EXCEPT !.at = "dialog",
                       !.name = op.name, !.client = op.client]]
          /\ Goto("root")
          /\ UNCHANGED copy
     ELSE Answer("failed") /\ Unlink /\ UNCHANGED job
  /\ UNCHANGED <<script, service, index, executed, bounds>>

-----------------------------------------------------------------------------
\* The daemon is in run_elevated for the helper of operation n.
Waiting(n) == At("root") /\ n = ops

(***************************************************************************)
(* run_elevated comes back with the helper's result, if it still waits for *)
(* it; the copy is removed, whatever came out.                             *)
(***************************************************************************)
Return(n, done) ==
  IF Waiting(n)
  THEN /\ IF done THEN Goto("verify") ELSE Answer("failed")
       /\ Unlink
  ELSE UNCHANGED copy /\ op' = [op EXCEPT !.disturbed = TRUE]

End(n) == job' = [job EXCEPT ![n].at = "over"]

(***************************************************************************)
(* The dialog is dismissed, there is no helper, the copy cannot be staged: *)
(* nothing is run.                                                         *)
(***************************************************************************)
JobRefused(n) ==
  /\ job[n].at = "dialog"
  /\ End(n)
  /\ Return(n, FALSE)
  /\ UNCHANGED <<script, service, index, executed, bounds>>

(***************************************************************************)
(* _stage_verified_copy: what lies under the path is read and hashed, then *)
(* written where only root may write (a write may be short) ...            *)
(***************************************************************************)
StageCopy(n) ==
  /\ job[n].at = "dialog"
  /\ copy[n] = "pinned"
  /\ \E got \in {"pinned", "other"} :
       job' = [job EXCEPT ![n].at = "staged", ![n].staged = got,
                          ![n].intime = Waiting(n)]
  /\ UNCHANGED <<files, service, index, op, executed, bounds>>

\* ... and hashed again.
HashStaged(n) ==
  /\ job[n].at = "staged"
  /\ IF job[n].staged = "pinned"
     THEN /\ job' = [job EXCEPT ![n].at = "ready"]
          /\ UNCHANGED <<copy, op>>
     ELSE End(n) /\ Return(n, FALSE)
  /\ UNCHANGED <<script, service, index, executed, bounds>>

\* Mutant: the helper runs the file it has been given.
Given(n) == copy[n]

\* The file that is run.
Runs(n) == job[n].staged

\* What the script may do before it exits (external).
Scripted(name, c) ==
  CASE name = "install" -> {Index(Entries)}
    [] name = "add_client" ->
         IF index.missing \/ HasEntry(Entries, c, TRUE) THEN {}
         ELSE {Index(Append(Entries, [name |-> c, active |-> TRUE]))}
    [] name = "revoke_client" ->
         {Index([Entries EXCEPT ![i].active = FALSE]) :
            i \in {i \in DOMAIN Entries :
                     Entries[i] = [name |-> c, active |-> TRUE]}}

(***************************************************************************)
(* Root runs it, to its end or until it is killed at the helper's          *)
(* deadline; a script that exits with 0 may have done nothing.             *)
(***************************************************************************)
RunScript(n) ==
  /\ job[n].at = "ready"
  /\ executed' = executed \cup {Runs(n)}
  /\ index' \in Scripted(job[n].name, job[n].client) \cup {index}
  /\ service' \in {service, service \/ job[n].name = "install"}
  /\ End(n)
  /\ \E done \in BOOLEAN : Return(n, done)
  /\ UNCHANGED <<script, bounds>>

\* Mutant: the copy stays when the daemon has given up.
GiveUpLeavingCopy ==
  /\ At("root")
  /\ Answer("failed")
  /\ UNCHANGED <<files, service, index, job, executed, bounds>>

\* The daemon's patience ends before the helper does.
TimesOut ==
  /\ At("root")
  /\ Answer("failed")
  /\ Unlink
  /\ UNCHANGED <<script, service, index, job, executed, bounds>>

-----------------------------------------------------------------------------
\* Mutant: a certificate of that name will do, valid or not.
AnyCertificate(shown) ==
  op.name = "install" \/ \E i \in DOMAIN shown : shown[i].name = op.client

(***************************************************************************)
(* The last look of an operation: install asks for the service, the others *)
(* for an entry of the client, whichever it is.                            *)
(***************************************************************************)
Confirmed(shown) ==
  CASE op.name = "install" -> Intact /\ service
    [] op.name = "add_client" -> HasEntry(shown, op.client, TRUE)
    [] op.name = "revoke_client" -> HasEntry(shown, op.client, FALSE)

Verify ==
  /\ At("verify")
  /\ \E looked \in {FALSE, op.name = "install" \/ Listable}, shown \in Listings :
       Answer(IF looked /\ Confirmed(shown) THEN "ok" ELSE "failed")
  /\ UNCHANGED <<files, service, index, job, executed, bounds>>

(***************************************************************************)
(* start_service and restart_service: the unit is started, or not, and the *)
(* answer is whether it is active, not what the helper reported.           *)
(***************************************************************************)
Unit ==
  /\ At("unit")
  /\ IF Intact
     THEN /\ service' \in BOOLEAN
          /\ Answer(IF service' THEN "ok" ELSE "failed")
     ELSE Answer("failed") /\ UNCHANGED service
  /\ UNCHANGED <<files, index, job, executed, bounds>>

Delivered ==
  /\ At("done")
  /\ op' = NoOp
  /\ UNCHANGED <<files, service, index, job, executed, bounds>>

-----------------------------------------------------------------------------
\* Others write to the script, remove it, or write to a copy of it.
FilesChange ==
  /\ changes < MaxChanges
  /\ changes' = changes + 1
  /\ \/ /\ \E c \in {"other", "none"} :
             script' = [content |-> c, sealed |-> FALSE]
        /\ UNCHANGED copy
     \/ /\ \E n \in Job : copy[n] = "pinned" /\ copy' = [copy EXCEPT ![n] = "other"]
        /\ UNCHANGED script
  /\ UNCHANGED <<service, index, op, job, executed, killed, ops>>

ServiceChanges ==
  /\ changes < MaxChanges
  /\ changes' = changes + 1
  /\ service' = ~service
  /\ UNCHANGED <<files, index, op, job, executed, killed, ops>>

\* The daemon is killed, and its helper is not; another one is started.
Kill ==
  /\ changes < MaxChanges /\ ~At("idle")
  /\ changes' = changes + 1
  /\ op' = NoOp
  /\ killed' = killed \cup {ops}
  /\ UNCHANGED <<files, service, index, job, executed, ops>>

Next ==
  \/ \E name \in Name, c \in Client \cup {NoClient} : Ask(name, c)
  \/ Download \/ Validate \/ List \/ HashScript \/ CopyScript
  \/ HashCopy \/ TimesOut \/ Verify \/ Unit \/ Delivered
  \/ \E n \in Job : JobRefused(n) \/ StageCopy(n) \/ HashStaged(n) \/ RunScript(n)
  \/ FilesChange \/ ServiceChanges \/ Kill

Spec == Init /\ [][Next]_vars

-----------------------------------------------------------------------------
(***************************************************************************)
(* Root runs the pinned script and nothing else, although the script and   *)
(* its copy may change between any two steps (helper_main.py 164).         *)
(***************************************************************************)
OnlyPinnedRuns == executed \subseteq {"pinned"}

\* A line beyond those every list shows may be cut to the name of c.
MayBeCutTo(c) ==
  \E i \in DOMAIN Entries : i > Cap /\ c \in Beginnings[Entries[i].name]

(***************************************************************************)
(* "created and verified" means that the client has a valid certificate    *)
(* now and, if the list before was complete, had none before; "revoked and *)
(* verified" that it has none any more, if its name was not used before.   *)
(* A client whose name is the beginning of another's in a list that is too *)
(* long is left out: the cut line of "bobby" passes for one of "bob"       *)
(* (helper_main.py 411, angristan.py 280).                                 *)
(***************************************************************************)
ClientVerdictsAreTrue ==
  At("done") /\ op.code = "ok" /\ ~op.disturbed =>
    /\ op.name = "add_client" =>
         /\ HasEntry(Entries, op.client, TRUE) \/ MayBeCutTo(op.client)
         /\ op.listed => ~HasEntry(op.start, op.client, TRUE)
    /\ op.name = "revoke_client" =>
         \/ HasEntry(op.start, op.client, FALSE)
         \/ ~HasEntry(Entries, op.client, TRUE)
         \/ MayBeCutTo(op.client)

(***************************************************************************)
(* A dialog that is confirmed after the daemon gave up, and perhaps after  *)
(* a retry, runs nothing: the helper finds no copy, and only a daemon that *)
(* was killed leaves one.  A script that was staged while the daemon still *)
(* waited may yet run after the answer; this is not excluded.              *)
(***************************************************************************)
LateDialogRunsNothing ==
  [][\A n \in Job : job[n].at = "ready" /\ job'[n].at = "over" =>
       job[n].intime \/ n \in killed]_vars
=============================================================================
