------------------------- MODULE MCRollingFileSink -------------------------
(***************************************************************************)
(* Small instances of RollingFileSink.                                     *)
(***************************************************************************)
EXTENDS RollingFileSink, TLC
=============================================================================
