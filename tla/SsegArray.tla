----------------------------- MODULE SsegArray -----------------------------
(***************************************************************************)
(* The seven segment digits (sseg_array.v): a register file of encoded     *)
(* digits, and a scan that shows them one at a time.                       *)
(***************************************************************************)
EXTENDS Sseg

CONSTANTS
  SSEG_N,        \* Digits.
  PeriodRange    \* 2^LED_PERIOD_BITS.

VARIABLES
  r_reg, max_tick_reg,   \* The divider; max_tick_reg is led_tick.
  sseg_arr_reg,          \* The encoded digits.
  oe_i_reg               \* The digit the scan is at.

Divider == INSTANCE ModMCounter WITH Range <- PeriodRange

Digits == 0 .. SSEG_N - 1

(* The register file is written while wr is set, in reset too.             *)
Write(wr, sel, glyph) ==
  sseg_arr_reg' = IF wr THEN [sseg_arr_reg EXCEPT ![sel] = glyph]
                        ELSE sseg_arr_reg

(* A clock edge outside the reset.                                         *)
Clock(led_period) ==
  /\ Divider!Clock(led_period)
  /\ oe_i_reg' = IF max_tick_reg THEN (oe_i_reg + 1) % SSEG_N ELSE oe_i_reg

Reset == Divider!Reset /\ oe_i_reg' = 0

(* Nothing initialises the digits: they are as they were.                  *)
Init == /\ Divider!Init
        /\ oe_i_reg = 0
        /\ \E glyph \in {Blank, Encode(TRUE, TRUE, FALSE, 0)} :
             sseg_arr_reg = [k \in Digits |-> glyph]

(* The registers keep their ranges.                                        *)
TypeOK == /\ Divider!TypeOK
          /\ sseg_arr_reg \in [Digits -> Glyphs]
          /\ oe_i_reg \in Digits

(* The digit whose output is enabled, if it shows anything.                *)
oe == IF sseg_arr_reg[oe_i_reg] = Blank THEN {} ELSE {oe_i_reg}
=============================================================================
