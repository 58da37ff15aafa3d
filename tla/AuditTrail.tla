----------------------------- MODULE AuditTrail -----------------------------
(***************************************************************************)
(* The audit log of privileged operations (netmedic/audit_log.py) as its   *)
(* callers see it: a file that only grows, appended to under one lock, and *)
(* the in-memory limiter that keeps repeated denials out of it.            *)
(*                                                                         *)
(* One entry is one JSON line.  Its text is abstracted to what the         *)
(* properties tell apart: which request it is about, whether it announces  *)
(* the operation or reports its end, and the outcome it reports.  Rotation *)
(* by size and the clock are abstracted: a denial window may expire at any *)
(* time.                                                                   *)
(***************************************************************************)
EXTENDS Naturals, Sequences

CONSTANTS Request,      \* requests the entries are about
          Action        \* names of the IPC actions

VARIABLES trail,        \* the lines of audit.log, oldest first
          torn,         \* audit.log ends in the middle of a line
          windowOpen,   \* [Action -> BOOLEAN]: inside the 5 s denial window
          suppressed    \* [Action -> Nat]: denials left out in that window

auditVars == <<trail, torn, windowOpen, suppressed>>

Outcome == {"none", "ok", "error", "denied"}

(***************************************************************************)
(* intact is FALSE for a line that was written behind the torn end of an   *)
(* earlier one: the two share a line of the file, which is not JSON.       *)
(***************************************************************************)
Entry == [event : {"intent", "completion"}, req : Request,
          outcome : Outcome, folded : Nat, intact : BOOLEAN]

IntentOf(r) ==
  [event |-> "intent", req |-> r, outcome |-> "none", folded |-> 0,
   intact |-> ~torn]

CompletionOf(r, outcome, folded) ==
  [event |-> "completion", req |-> r, outcome |-> outcome, folded |-> folded,
   intact |-> ~torn]

AuditTypeOK ==
  /\ trail \in Seq(Entry)
  /\ torn \in BOOLEAN
  /\ windowOpen \in [Action -> BOOLEAN]
  /\ suppressed \in [Action -> Nat]

(***************************************************************************)
(* The limiter starts from (0.0, 0) and a monotonic clock: within the      *)
(* first 5 s of the machine's uptime every window counts as open.          *)
(***************************************************************************)
AuditInit ==
  /\ trail = <<>>
  /\ torn = FALSE
  /\ \E justBooted \in BOOLEAN : windowOpen = [a \in Action |-> justBooted]
  /\ suppressed = [a \in Action |-> 0]

-----------------------------------------------------------------------------
\* The whole line reached the disk.
WriteEntry(e) ==
  /\ trail' = Append(trail, e)
  /\ torn' = FALSE

(***************************************************************************)
(* An append that raises OSError: the file could not be opened, the device *)
(* filled up in the middle of the line, or the line was written and fsync  *)
(* failed.                                                                 *)
(***************************************************************************)
AppendFails(e) ==
  \/ UNCHANGED <<trail, torn>>
  \/ trail' = trail /\ torn' = TRUE
  \/ WriteEntry(e)

\* A denial inside the window of its action is counted, not written.
SuppressDenial(a) ==
  /\ windowOpen[a]
  /\ suppressed' = [suppressed EXCEPT ![a] = @ + 1]
  /\ UNCHANGED windowOpen

\* Mutant: the count is reported and stays.
AllowDenialKeepsCount(a) ==
  /\ ~windowOpen[a]
  /\ windowOpen' = [windowOpen EXCEPT ![a] = TRUE]
  /\ UNCHANGED suppressed

\* A denial outside it opens a new window and takes the count with it.
AllowDenial(a) ==
  /\ ~windowOpen[a]
  /\ windowOpen' = [windowOpen EXCEPT ![a] = TRUE]
  /\ suppressed' = [suppressed EXCEPT ![a] = 0]

\* Five seconds have passed since the window of a was opened.
WindowExpires(a) ==
  /\ windowOpen[a]
  /\ windowOpen' = [windowOpen EXCEPT ![a] = FALSE]
  /\ UNCHANGED <<trail, torn, suppressed>>

\* A new process has an empty limiter and the same file.
AuditRestart ==
  /\ windowOpen' = [a \in Action |-> FALSE]
  /\ suppressed' = [a \in Action |-> 0]
  /\ UNCHANGED <<trail, torn>>

-----------------------------------------------------------------------------
\* Positions of the entries of one kind about one request.
Intents(r) ==
  {i \in DOMAIN trail : trail[i].event = "intent" /\ trail[i].req = r}
Completions(r) ==
  {i \in DOMAIN trail : trail[i].event = "completion" /\ trail[i].req = r}
=============================================================================
