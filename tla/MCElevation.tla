---------------------------- MODULE MCElevation -----------------------------
(***************************************************************************)
(* Two calls, the second of which may be the retry of the first.  The      *)
(* limits keep their order in the code: 30 s for a command, at most 6 s to *)
(* end a process group (two waits and a communicate of 2 s), 5 s of margin.*)
(***************************************************************************)
EXTENDS Elevation

CONSTANTS c1, c2
=============================================================================
