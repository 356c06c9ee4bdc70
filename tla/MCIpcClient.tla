---------------------------- MODULE MCIpcClient ----------------------------
(***************************************************************************)
(* Small instances of IpcClient.                                           *)
(***************************************************************************)
EXTENDS IpcClient, TLC
=============================================================================
