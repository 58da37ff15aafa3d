------------------------------ MODULE MCWindow ------------------------------
(***************************************************************************)
(* A task of the window, a VPN operation whose callback lists the clients, *)
(* and a proposal of the palette, with one worker so that tasks have to    *)
(* wait for it.                                                            *)
(***************************************************************************)
EXTENDS Window

CONSTANTS repair, diagnose, create, list, proposal

MCTask == {repair, diagnose, create, list, proposal}
MCAi == {proposal}
MCFollow == [t \in MCTask |-> IF t = create THEN list ELSE NoTask]
=============================================================================
