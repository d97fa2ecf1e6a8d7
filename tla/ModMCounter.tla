---------------------------- MODULE ModMCounter ----------------------------
(***************************************************************************)
(* The free-running divider of mod_m_counter.v: the baud rate generator of *)
(* the UART, the prescaler of the timer counters and the delay of the reset*)
(* controller.  The counter takes the values 0, 1, ..., m, so that its tick*)
(* comes every m + 1 clocks.                                               *)
(***************************************************************************)
EXTENDS Naturals

CONSTANT Range   \* 2^M_BITS.

VARIABLES
  r_reg,          \* The counter.
  max_tick_reg    \* The tick, one clock long and registered.

Init == r_reg = 0 /\ max_tick_reg = FALSE

Clock(m) == /\ r_reg' = IF r_reg = m THEN 0 ELSE (r_reg + 1) % Range
            /\ max_tick_reg' = (r_reg = m)

Reset == r_reg' = 0 /\ max_tick_reg' = FALSE

TypeOK == r_reg \in 0 .. Range - 1 /\ max_tick_reg \in BOOLEAN
=============================================================================
