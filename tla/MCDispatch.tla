----------------------------- MODULE MCDispatch -----------------------------
(***************************************************************************)
(* Small instances of Dispatch.  The inputs are one request per way        *)
(* through the code: good requests for two privileged actions and a safe   *)
(* one, and requests that fail one check each.                             *)
(***************************************************************************)
EXTENDS DispatchInvariant, TLC

CONSTANTS r1, r2, r3

Good(a) == [action |-> a, peer |-> TRUE, confirmed |-> TRUE, token |-> TRUE,
            params |-> TRUE, plain |-> TRUE]
Renew == Good("renew_ip")

MCAction == {"renew_ip", "toggle_firewall", "network_status", "nonsense"}
MCPrivileged == {"renew_ip", "toggle_firewall"}
MCSafe == {"network_status"}

\* One request per refusal, and a good one of each class.
AllInputs ==
  {Renew, Good("toggle_firewall"), Good("network_status"),
   [Renew EXCEPT !.peer = FALSE], Good("nonsense"),
   [Renew EXCEPT !.confirmed = FALSE, !.plain = FALSE],
   [Renew EXCEPT !.token = FALSE],
   [Renew EXCEPT !.params = FALSE],
   [Good("network_status") EXCEPT !.params = FALSE],
   [Renew EXCEPT !.plain = FALSE]}

\* A request that reaches the slot, unless polkit denies it.
SlottedInputs == {Renew}

Symmetry == Permutations(Request)
=============================================================================
