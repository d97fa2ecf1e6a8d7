--------------------------- MODULE MCResetControl ---------------------------
(***************************************************************************)
(* A counter of eight bits.  The arguments are every number of clocks in   *)
(* range, one beyond it and 0; those without the highest bit come to       *)
(* nothing.                                                                *)
(***************************************************************************)
EXTENDS ResetControl

MCCounts == 0 .. CountRange + 1
=============================================================================
