------------------------------ MODULE MCStore ------------------------------
(***************************************************************************)
(* Small instances of Store: how threads are spread over processes.        *)
(***************************************************************************)
EXTENDS Store, TLC

CONSTANTS t1, t2, p1, p2

TwoProcesses == {(t1 :> p1) @@ (t2 :> p2)}
OneOrTwo == TwoProcesses \cup {(t1 :> p1) @@ (t2 :> p1)}
=============================================================================
