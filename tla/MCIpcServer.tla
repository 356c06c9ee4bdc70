---------------------------- MODULE MCIpcServer ----------------------------
(***************************************************************************)
(* Small instances of IpcServer.                                           *)
(***************************************************************************)
EXTENDS IpcServer, TLC

\* Values of MaxRequests: every connection sends the same number of requests, or
\* one connection sends the only one.
OneEach == [c \in Conns |-> 1]
OneInAll ==
  LET first == CHOOSE c \in Conns : TRUE
  IN [c \in Conns |-> IF c = first THEN 1 ELSE 0]

\* For runs in which no connection is special (Stalling = {}).
Symmetry == Permutations(Fds) \cup Permutations(Conns)
=============================================================================
