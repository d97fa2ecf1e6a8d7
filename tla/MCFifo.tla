------------------------------- MODULE MCFifo -------------------------------
(***************************************************************************)
(* A FIFO of four slots and two words: every position of the two pointers, *)
(* every level and every wrap occur.                                       *)
(***************************************************************************)
EXTENDS Fifo

CONSTANTS a, b    \* Model values.

MCData == {a, b}
=============================================================================
