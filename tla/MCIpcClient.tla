---------------------------- MODULE MCIpcClient -----------------------------
(***************************************************************************)
(* A request of a SyncIPCClient and one of a PilotClient, which may hold   *)
(* the token of an earlier request; each further daemon makes the tokens   *)
(* of those before it stale.                                               *)
(***************************************************************************)
EXTENDS IpcClient

CONSTANTS r1, r2, sync, pilot

MCRequest == {r1, r2}
MCClient == {sync, pilot}
MCPilot == {pilot}
MCOf == [r \in MCRequest |-> IF r = r1 THEN sync ELSE pilot]
=============================================================================
