------------------------- MODULE MCIpcSubscription -------------------------
(***************************************************************************)
(* Small instances of IpcSubscription.                                     *)
(***************************************************************************)
EXTENDS IpcSubscription, TLC
=============================================================================
