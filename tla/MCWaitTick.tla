----------------------------- MODULE MCWaitTick -----------------------------
(***************************************************************************)
(* Counters of five ticks, three clocks to a tick and five to a frame: the *)
(* two wrap at different times and every wait meets every position of both.*)
(***************************************************************************)
EXTENDS WaitTick
=============================================================================
