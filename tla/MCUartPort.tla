----------------------------- MODULE MCUartPort -----------------------------
(***************************************************************************)
(* Three slots per FIFO, so that both pointers wrap within the bytes of one*)
(* session, and two different bytes, so that a repeated, lost or swapped   *)
(* byte shows.                                                             *)
(***************************************************************************)
EXTENDS UartPort

CONSTANTS a, b    \* Model values.

MCData == {a, b}
=============================================================================
