----------------------------- MODULE LedMatrix -----------------------------
(***************************************************************************)
(* One bar of LEDs (led_matrix.v): LEDS_N columns by LEDS_M rows, scanned  *)
(* one LED at a time, a divider tick apart.  The three scan registers move *)
(* together; a register of one bit per LED says which are lit.             *)
(***************************************************************************)
EXTENDS Naturals

CONSTANTS
  LEDS_N, LEDS_M,   \* Columns and rows.
  PeriodRange       \* 2^LED_PERIOD_BITS.

VARIABLES
  r_reg, max_tick_reg,           \* The divider; max_tick_reg is led_tick.
  en_reg,                        \* Whether the LED at an address is lit.
  n_i_reg, m_i_reg, addr_i_reg   \* Column, row and address of the scan.

Divider == INSTANCE ModMCounter WITH Range <- PeriodRange

Addresses == 0 .. LEDS_N * LEDS_M - 1

(* The last LED of a row and of the bar.                                   *)
RowEnds == n_i_reg + 1 = LEDS_N
BarEnds == RowEnds /\ m_i_reg + 1 = LEDS_M

done_tick == max_tick_reg /\ BarEnds

(* The register file is written while sel is set, in reset too.            *)
Write(sel, en, sel_addr) ==
  en_reg' = IF sel THEN [en_reg EXCEPT ![sel_addr] = en] ELSE en_reg

(* Mutant: the address restarts with every row.                            *)
AdvanceOn ==
  /\ n_i_reg'    = IF RowEnds THEN 0 ELSE n_i_reg + 1
  /\ m_i_reg'    = IF BarEnds THEN 0
                   ELSE IF RowEnds THEN m_i_reg + 1 ELSE m_i_reg
  /\ addr_i_reg' = IF RowEnds THEN 0 ELSE addr_i_reg + 1

(* The scan goes on to the next LED.                                       *)
Advance ==
  /\ n_i_reg'    = IF RowEnds THEN 0 ELSE n_i_reg + 1
  /\ m_i_reg'    = IF BarEnds THEN 0
                   ELSE IF RowEnds THEN m_i_reg + 1 ELSE m_i_reg
  /\ addr_i_reg' = IF BarEnds THEN 0 ELSE addr_i_reg + 1

(* A clock edge outside the reset.                                         *)
Clock(led_period) ==
  /\ Divider!Clock(led_period)
  /\ IF max_tick_reg THEN Advance
                     ELSE UNCHANGED << n_i_reg, m_i_reg, addr_i_reg >>

(* The reset restarts the scan and keeps what is lit.                      *)
Reset == /\ Divider!Reset
         /\ n_i_reg' = 0 /\ m_i_reg' = 0 /\ addr_i_reg' = 0

(* Nothing initialises en_reg: the LEDs are as they were.                  *)
Init == /\ Divider!Init
        /\ n_i_reg = 0 /\ m_i_reg = 0 /\ addr_i_reg = 0
        /\ \E on \in BOOLEAN : en_reg = [a \in Addresses |-> on]

(* The registers keep their ranges, and the address is that of the place.  *)
TypeOK == /\ Divider!TypeOK
          /\ en_reg \in [Addresses -> BOOLEAN]
          /\ n_i_reg \in 0 .. LEDS_N - 1 /\ m_i_reg \in 0 .. LEDS_M - 1
          /\ addr_i_reg = m_i_reg * LEDS_N + n_i_reg

(* The columns and rows that are driven: those of one LED or none.         *)
n_en == IF en_reg[addr_i_reg] THEN {n_i_reg} ELSE {}
m_en == IF en_reg[addr_i_reg] THEN {m_i_reg} ELSE {}
=============================================================================
