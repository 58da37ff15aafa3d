--------------------------- MODULE PrivilegedGate ---------------------------
(***************************************************************************)
(* What the daemon promises about privileged operations, whatever clients  *)
(* ask and however it fails: an operation is announced in the audit log    *)
(* before it starts, a bounded number is active at a time, and none is     *)
(* started twice.                                                          *)
(***************************************************************************)
EXTENDS Naturals, FiniteSets

CONSTANTS Request,    \* requests for a privileged operation
          Slots       \* how many may be active

VARIABLES announced,  \* requests with an intent in the audit log
          active,     \* requests whose operation is being carried out
          entered     \* requests whose operation has ever been started

vars == <<announced, active, entered>>

Init ==
  /\ announced = {}
  /\ active = {}
  /\ entered = {}

\* An intent is recorded for a request whose operation then does not start.
Announce(r) ==
  /\ r \notin entered
  /\ announced' = announced \cup {r}
  /\ UNCHANGED <<active, entered>>

\* An operation starts, announced no later than that.
Enter(r) ==
  /\ r \notin entered
  /\ Cardinality(active) < Slots
  /\ announced' = announced \cup {r}
  /\ active' = active \cup {r}
  /\ entered' = entered \cup {r}

\* It ends.
Exit(r) ==
  /\ r \in active
  /\ active' = active \ {r}
  /\ UNCHANGED <<announced, entered>>

\* The daemon is killed and started again.
Reset ==
  /\ active' = {}
  /\ UNCHANGED <<announced, entered>>

Next == (\E r \in Request : Announce(r) \/ Enter(r) \/ Exit(r)) \/ Reset

Spec == Init /\ [][Next]_vars
=============================================================================
