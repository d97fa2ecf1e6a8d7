---------------------------- MODULE TimerCounter ----------------------------
(***************************************************************************)
(* A timer counter (timer_counter.v): the divider of mod_m_counter.v and   *)
(* behind it the tick counter with overflow of tick_counter.v, and what    *)
(* the firmware reads of it through its status register.                   *)
(***************************************************************************)
EXTENDS Integers

CONSTANTS
  MRange,   \* 2^M_BITS: the divider counts below it.
  Range     \* 2^N_BITS: the tick counter counts below it.

ASSUME TimerAssumption == /\ MRange \in Nat \ {0}
                          /\ Range \in Nat \ {0, 1}

VARIABLES
  r_reg, max_tick_reg,   \* The divider.
  counter,               \* The ticks since the reset, modulo Range.
  of                     \* Whether the counter has wrapped since the reset.

tc == << r_reg, max_tick_reg, counter, of >>

Divider == INSTANCE ModMCounter WITH Range <- MRange

Init == /\ Divider!Init
        /\ counter = 0
        /\ of = FALSE

(* Mutant: an overflow flag that is not kept.                              *)
ClockOverflowLost(m) ==
  /\ Divider!Clock(m)
  /\ counter' = IF max_tick_reg THEN (counter + 1) % Range ELSE counter
  /\ of' = (counter' < counter)

(* A clock edge outside the reset, with the divider set to m.              *)
Clock(m) ==
  /\ Divider!Clock(m)
  /\ counter' = IF max_tick_reg THEN (counter + 1) % Range ELSE counter
  /\ of' = (of \/ counter' < counter)

(* Mutant: the reset does not reach the divider.                           *)
ResetCounterOnly == /\ counter' = 0
                    /\ of' = FALSE
                    /\ UNCHANGED << r_reg, max_tick_reg >>

(* The reset of the timer counter holds both counters at zero.             *)
Reset == /\ Divider!Reset
         /\ counter' = 0
         /\ of' = FALSE

TypeOK == /\ Divider!TypeOK
          /\ counter \in 0 .. Range - 1
          /\ of \in BOOLEAN

(***************************************************************************)
(* The status register {of, counter} and what the firmware makes of it:    *)
(* tc_get_ticks masks the counter, tc_get_of tests the bit above the one   *)
(* that holds of (TC_STATUS_OF is 1 << 25, the counter has 24 bits).       *)
(***************************************************************************)
status       == (IF of THEN Range ELSE 0) + counter
tc_get_ticks == status % Range
tc_get_of    == (status \div (2 * Range)) % 2 = 1
=============================================================================
