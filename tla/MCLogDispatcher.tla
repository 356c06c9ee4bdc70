-------------------------- MODULE MCLogDispatcher --------------------------
(***************************************************************************)
(* Small instances of LogDispatcher: one thread per level and route.       *)
(***************************************************************************)
EXTENDS LogDispatcher, TLC

CONSTANTS l1, l2, b1

Levels == (l1 :> "warn") @@ (l2 :> "error") @@ (b1 :> "info")
=============================================================================
