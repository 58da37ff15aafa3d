--------------------------- MODULE MCVpnOperator ---------------------------
(***************************************************************************)
(* Two clients, the name of one the beginning of the other's, and lists    *)
(* that show one line for sure.  A name may be used again once its         *)
(* certificate is revoked.                                                 *)
(***************************************************************************)
EXTENDS VpnOperator

CONSTANTS bob, bobby

MCClient == {bob, bobby}
MCBeginnings == [c \in MCClient |-> IF c = bobby THEN {bob} ELSE {}]
=============================================================================
