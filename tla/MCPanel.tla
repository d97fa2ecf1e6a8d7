------------------------------ MODULE MCPanel ------------------------------
(***************************************************************************)
(* Bars of three columns and two rows, three digits, a divider tick every  *)
(* other clock.  The conversions are those of test; the passes are one that*)
(* counts and one that draws dashes.                                       *)
(***************************************************************************)
EXTENDS Panel

MCConversions == << 1234, -1234 >>
=============================================================================
