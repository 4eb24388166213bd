---------------------------- MODULE MCIpcClient ----------------------------
(* Small instances of IpcClient for TLC. *)
EXTENDS IpcClient

CONSTANTS k1, k2
=============================================================================
