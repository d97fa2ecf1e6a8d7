----------------------------- MODULE TimerTicks -----------------------------
(***************************************************************************)
(* A timer counter that runs with a fixed setting m, as TC1 to TC3 do after*)
(* tc_set_max, and the number of clocks since its last reset, as long as   *)
(* the counter has not wrapped.                                            *)
(***************************************************************************)
EXTENDS TimerCounter

CONSTANT M    \* The setting, the argument of tc_set_max.

ASSUME SettingAssumption == M \in Nat /\ M < MRange

VARIABLE clocks   \* History: clock edges since the reset, until the overflow.

vars == << tc, clocks >>

TicksInit == Init /\ clocks = 0

Run == Clock(M) /\ clocks' = IF of THEN clocks ELSE clocks + 1

(* tc_reset (controller_system.c:221-228), seen from the timer counter.    *)
Restart == Reset /\ clocks' = 0

TicksNext == Run \/ Restart

TicksSpec == TicksInit /\ [][TicksNext]_vars

(***************************************************************************)
(* Properties.                                                             *)
(***************************************************************************)

(* Every register keeps its range.                                         *)
TicksTypeOK == TypeOK /\ clocks \in Nat

(* Until it wraps, the counter and the divider tell exactly how many clocks*)
(* have passed since the reset: a tick is M + 1 clocks, and one that the   *)
(* divider has made and the counter not yet counted is not lost            *)
(* (mod_m_counter.v:30-47, tick_counter.v:27-33, timer_counter.v:14-15).   *)
ClocksAccounted ==
  ~of => clocks = (counter + (IF max_tick_reg THEN 1 ELSE 0)) * (M + 1) + r_reg

(* The overflow flag tells whether the counter can still be trusted: it is *)
(* raised exactly when Range ticks have been counted since the reset.      *)
OverflowHonest == of <=> clocks > Range * (M + 1)
=============================================================================
