----------------------------- MODULE WaitProofs -----------------------------
(***************************************************************************)
(* Proofs about a timer counter for every setting and every width, and     *)
(* about WaitTick for every width and setting of its two counters, every   *)
(* wait and every time the processor takes between two accesses, as long as*)
(* it polls once in a tick.                                                *)
(***************************************************************************)
EXTENDS WaitTick, TLAPS

USE TimerAssumption, SettingAssumption

(* The clocks of one tick.                                                 *)
Period == M + 1

(* One if the divider has made a tick that the counter has yet to count.   *)
Made == IF max_tick_reg THEN 1 ELSE 0

(* The divider never passes its setting, and its registered tick comes with*)
(* the restart of its count.                                               *)
DividerInv == r_reg <= M /\ (max_tick_reg => r_reg = 0)

(* The inductive invariant.  ClocksAccounted alone is not inductive: it    *)
(* does not say that the divider starts again at a tick, without which the *)
(* clocks of the next tick could be counted twice.                         *)
Inv == TicksTypeOK /\ DividerInv /\ ClocksAccounted /\ OverflowHonest

LEMMA NextPeriod ==
  ASSUME NEW n \in Nat
  PROVE  /\ n * Period \in Nat
         /\ (n + 1) * Period = n * Period + Period
         /\ Period \in Nat \ {0}
BY DEF Period

(* n complete ticks of m + 1 clocks take no longer than m complete ones.   *)
LEMMA PeriodsMonotone ==
  ASSUME NEW n \in Nat, NEW k \in Nat, n <= k
  PROVE  n * Period <= k * Period
BY DEF Period

LEMMA InitInv == TicksInit => Inv
<1> SUFFICES ASSUME TicksInit PROVE Inv
  OBVIOUS
<1>1. TicksTypeOK
  <2>1. 0 \in 0 .. MRange - 1 /\ 0 \in 0 .. Range - 1 /\ 0 \in Nat
    OBVIOUS
  <2> QED
    BY <2>1, Zenon
       DEF TicksInit, Init, Divider!Init, TicksTypeOK, TypeOK, Divider!TypeOK
<1>2. DividerInv
  BY DEF TicksInit, Init, Divider!Init, DividerInv
<1>3. ClocksAccounted
  BY DEF TicksInit, Init, Divider!Init, ClocksAccounted
<1>4. OverflowHonest
  <2>1. Range * Period \in Nat
    BY NextPeriod
  <2> QED
    BY <2>1 DEF TicksInit, Init, OverflowHonest, Period
<1> QED
  BY <1>1, <1>2, <1>3, <1>4 DEF Inv

(***************************************************************************)
(* A clock edge.                                                           *)
(***************************************************************************)

(* The values before the edge.                                             *)
LEMMA Before ==
  ASSUME Inv
  PROVE  /\ counter \in 0 .. Range - 1 /\ r_reg \in 0 .. M
         /\ clocks \in Nat /\ Made \in {0, 1}
         /\ max_tick_reg \in BOOLEAN /\ of \in BOOLEAN
         /\ Made = 1 => r_reg = 0
         /\ of <=> clocks > Range * Period
         /\ ~of => clocks = (counter + Made) * Period + r_reg
<1>1. /\ TypeOK /\ clocks \in Nat /\ DividerInv
      /\ ClocksAccounted /\ OverflowHonest
  BY DEF Inv, TicksTypeOK
<1>2. /\ counter \in 0 .. Range - 1 /\ r_reg \in 0 .. M
  BY <1>1 DEF TypeOK, Divider!TypeOK, DividerInv
<1>3. max_tick_reg \in BOOLEAN /\ of \in BOOLEAN
  BY <1>1 DEF TypeOK, Divider!TypeOK
<1>4. Made \in {0, 1} /\ (Made = 1 => r_reg = 0)
  <2>1. 0 # 1
    OBVIOUS
  <2> QED
    BY <1>1, <1>3, <2>1, Zenon DEF Made, DividerInv
<1>5. /\ of <=> clocks > Range * Period
      /\ ~of => clocks = (counter + Made) * Period + r_reg
  BY <1>1, Zenon DEF ClocksAccounted, OverflowHonest, Made, Period
<1> QED
  BY <1>1, <1>2, <1>3, <1>4, <1>5, Zenon

(* What the divider does, without the modulus of its width: below M + 1    *)
(* nothing wraps but the restart.                                          *)
LEMMA DividerStep ==
  ASSUME Inv, Run
  PROVE  /\ \/ r_reg = M /\ r_reg' = 0 /\ Made' = 1
            \/ r_reg < M /\ r_reg' = r_reg + 1 /\ Made' = 0
         /\ max_tick_reg' \in BOOLEAN
         /\ max_tick_reg' => r_reg' = 0
<1>1. r_reg \in 0 .. M
  BY Before
<1>2. CASE r_reg = M
  <2>1. r_reg' = 0 /\ max_tick_reg' = TRUE
    BY <1>2 DEF Run, Clock, Divider!Clock
  <2> QED
    BY <1>2, <2>1, Zenon DEF Made
<1>3. CASE r_reg # M
  <2>1. r_reg < M /\ (r_reg + 1) % MRange = r_reg + 1
    BY <1>1, <1>3
  <2>2. r_reg' = r_reg + 1 /\ max_tick_reg' = FALSE
    BY <1>3, <2>1 DEF Run, Clock, Divider!Clock
  <2> QED
    BY <2>1, <2>2, Zenon DEF Made
<1> QED
  BY <1>2, <1>3, Zenon

(* What the counter and the overflow flag do.                              *)
LEMMA CounterStep ==
  ASSUME Inv, Run
  PROVE  \/ Made = 0 /\ counter' = counter /\ (of' = of)
         \/ Made = 1 /\ counter < Range - 1 /\ counter' = counter + 1
            /\ of' = of
         \/ Made = 1 /\ counter = Range - 1 /\ counter' = 0 /\ of' = TRUE
<1>1. /\ counter \in 0 .. Range - 1
      /\ max_tick_reg \in BOOLEAN /\ of \in BOOLEAN
  BY Before
<1>2. /\ counter' = IF max_tick_reg THEN (counter + 1) % Range ELSE counter
      /\ of' = (of \/ counter' < counter)
  BY DEF Run, Clock
<1>3. CASE max_tick_reg = FALSE
  <2>1. counter' = counter
    BY <1>2, <1>3, Zenon
  <2>2. ~(counter' < counter)
    BY <1>1, <2>1
  <2> QED
    BY <1>1, <1>2, <1>3, <2>1, <2>2, Zenon DEF Made
<1>4. CASE max_tick_reg = TRUE /\ counter < Range - 1
  <2>1. (counter + 1) % Range = counter + 1 /\ ~(counter + 1 < counter)
    BY <1>1, <1>4
  <2>2. counter' = counter + 1
    BY <1>2, <1>4, <2>1, Zenon
  <2> QED
    BY <1>1, <1>2, <1>4, <2>1, <2>2, Zenon DEF Made
<1>5. CASE max_tick_reg = TRUE /\ counter = Range - 1
  <2>1. (counter + 1) % Range = 0 /\ 0 < counter
    BY <1>1, <1>5
  <2>2. counter' = 0
    BY <1>2, <1>5, <2>1, Zenon
  <2> QED
    BY <1>2, <1>5, <2>1, <2>2, Zenon DEF Made
<1>6. counter < Range - 1 \/ counter = Range - 1
  BY <1>1
<1> QED
  BY <1>1, <1>3, <1>4, <1>5, <1>6, Zenon

(* The clocks that pass in one edge, by what the divider and the counter do*)
(* at it; while the counter has not wrapped.                               *)
LEMMA RunAccounted ==
  ASSUME Inv, Run, ~of
  PROVE  \/ ~of' /\ clocks' = (counter' + Made') * Period + r_reg'
                 /\ clocks' <= Range * Period
         \/ of' /\ clocks' > Range * Period
<1>1. /\ counter \in 0 .. Range - 1 /\ r_reg \in 0 .. M /\ clocks \in Nat
      /\ Made \in {0, 1} /\ (Made = 1 => r_reg = 0)
      /\ clocks = (counter + Made) * Period + r_reg
  BY Before
<1>2. clocks' = clocks + 1
  BY Zenon DEF Run
<1>3. \/ r_reg = M /\ r_reg' = 0 /\ Made' = 1
      \/ r_reg < M /\ r_reg' = r_reg + 1 /\ Made' = 0
  BY DividerStep, Zenon
<1>4. ASSUME Made = 0, counter' = counter
      PROVE  /\ clocks' = (counter' + Made') * Period + r_reg'
             /\ clocks' <= Range * Period
  <2>1. /\ counter + 1 \in Nat /\ counter \in Nat /\ Range \in Nat
        /\ counter + 1 <= Range
    BY <1>1
  <2>2. /\ counter * Period \in Nat /\ Range * Period \in Nat
        /\ (counter + 1) * Period = counter * Period + Period
        /\ (counter + 1) * Period <= Range * Period
    BY <2>1, NextPeriod, PeriodsMonotone
  <2>3. CASE r_reg = M
    BY <1>1, <1>2, <1>3, <1>4, <2>1, <2>2, <2>3 DEF Period
  <2>4. CASE r_reg < M
    BY <1>1, <1>2, <1>3, <1>4, <2>1, <2>2, <2>4 DEF Period
  <2> QED
    BY <1>1, <2>3, <2>4
<1>5. ASSUME Made = 1, counter < Range - 1, counter' = counter + 1
      PROVE  /\ clocks' = (counter' + Made') * Period + r_reg'
             /\ clocks' <= Range * Period
  <2>1. /\ counter + 1 \in Nat /\ counter + 2 \in Nat /\ Range \in Nat
        /\ counter + 2 <= Range /\ (counter + 1) + 1 = counter + 2
    BY <1>1, <1>5
  <2>2. /\ (counter + 1) * Period \in Nat /\ Range * Period \in Nat
        /\ (counter + 2) * Period = (counter + 1) * Period + Period
        /\ (counter + 2) * Period <= Range * Period
    BY <2>1, NextPeriod, PeriodsMonotone
  <2>3. clocks = (counter + 1) * Period /\ r_reg = 0
    <3>1. r_reg = 0 /\ clocks = (counter + 1) * Period + 0
      BY <1>1, <1>5, Zenon
    <3> QED
      BY <2>2, <3>1
  <2>4. CASE M = 0
    BY <1>1, <1>2, <1>3, <1>5, <2>1, <2>2, <2>3, <2>4 DEF Period
  <2>5. CASE M > 0
    BY <1>1, <1>2, <1>3, <1>5, <2>1, <2>2, <2>3, <2>5 DEF Period
  <2> QED
    BY <2>4, <2>5
<1>6. ASSUME Made = 1, counter = Range - 1
      PROVE  clocks' > Range * Period
  <2>1. clocks = Range * Period
    <3>1. clocks = (counter + 1) * Period + 0
      BY <1>1, <1>6, Zenon
    <3>2. counter + 1 = Range /\ Range \in Nat
      BY <1>1, <1>6
    <3>3. clocks = Range * Period + 0
      BY <3>1, <3>2, Zenon
    <3> QED
      BY <3>2, <3>3, NextPeriod
  <2> QED
    BY <1>1, <1>2, <2>1
<1> QED
  BY <1>4, <1>5, <1>6, CounterStep, Zenon

(* Once it has wrapped it stays so.                                        *)
LEMMA RunOverflowed ==
  ASSUME Inv, Run, of
  PROVE  of' /\ clocks' > Range * Period
<1>1. clocks > Range * Period /\ clocks \in Nat
  BY Before, Zenon
<1>2. Range * Period \in Nat
  BY NextPeriod
<1>3. of'
  BY Before, CounterStep, Zenon
<1>4. clocks' = clocks
  BY Zenon DEF Run
<1> QED
  BY <1>1, <1>3, <1>4, Zenon

LEMMA RunInv == ASSUME Inv, Run PROVE Inv'
<1>1. counter \in 0 .. Range - 1 /\ r_reg \in 0 .. M /\ clocks \in Nat
  BY Before
<1>2. r_reg' \in 0 .. MRange - 1 /\ r_reg' <= M
  <2>1. \/ r_reg = M /\ r_reg' = 0
        \/ r_reg < M /\ r_reg' = r_reg + 1
    BY DividerStep, Zenon
  <2> QED
    BY <1>1, <2>1
<1>3. counter' \in 0 .. Range - 1
  <2>1. \/ counter' = counter
        \/ counter < Range - 1 /\ counter' = counter + 1
        \/ counter' = 0
    BY CounterStep, Zenon
  <2> QED
    BY <1>1, <2>1
<1>4. of' \in BOOLEAN
  BY RunAccounted, RunOverflowed, Before, CounterStep, Zenon
<1>5. clocks' \in Nat
  <2>1. clocks + 1 \in Nat
    BY <1>1
  <2> QED
    BY <1>1, <2>1, Zenon DEF Run
<1>6. TicksTypeOK' /\ DividerInv'
  BY <1>2, <1>3, <1>4, <1>5, DividerStep, Zenon
     DEF TicksTypeOK, TypeOK, Divider!TypeOK, DividerInv
<1>7. /\ of' <=> clocks' > Range * Period
      /\ ~of' => clocks' = (counter' + Made') * Period + r_reg'
  <2>1. Range * Period \in Nat
    BY NextPeriod
  <2>2. clocks' <= Range * Period => ~(clocks' > Range * Period)
    BY <1>5, <2>1
  <2> QED
    BY <2>2, RunAccounted, RunOverflowed, Zenon
<1>8. ClocksAccounted' /\ OverflowHonest'
  BY <1>7, Zenon DEF ClocksAccounted, OverflowHonest, Made, Period
<1> QED
  BY <1>6, <1>8 DEF Inv

(***************************************************************************)
(* The theorem.                                                            *)
(***************************************************************************)
LEMMA RestartInv == ASSUME Restart PROVE Inv'
<1>1. 0 \in 0 .. MRange - 1 /\ 0 \in 0 .. Range - 1 /\ 0 \in Nat /\ 0 <= M
  OBVIOUS
<1>2. /\ r_reg' = 0 /\ max_tick_reg' = FALSE /\ counter' = 0
      /\ of' = FALSE /\ clocks' = 0
  BY DEF Restart, Reset, Divider!Reset
<1>3. TicksTypeOK' /\ DividerInv'
  BY <1>1, <1>2, Zenon
     DEF TicksTypeOK, TypeOK, Divider!TypeOK, DividerInv
<1>4. ~(0 > Range * (M + 1)) /\ 0 = (0 + 0) * (M + 1) + 0
  BY NextPeriod DEF Period
<1>5. ClocksAccounted' /\ OverflowHonest'
  BY <1>2, <1>4, Zenon DEF ClocksAccounted, OverflowHonest
<1> QED
  BY <1>3, <1>5 DEF Inv

LEMMA InvHolds == TicksSpec => []Inv
<1>1. Inv /\ [TicksNext]_vars => Inv'
  <2> SUFFICES ASSUME Inv, [TicksNext]_vars PROVE Inv'
    OBVIOUS
  <2>1. CASE Run
    BY <2>1, RunInv
  <2>2. CASE Restart
    BY <2>2, RestartInv
  <2>3. CASE UNCHANGED vars
    BY <2>3, Zenon DEF vars, tc, Inv, TicksTypeOK, TypeOK, Divider!TypeOK,
                DividerInv, ClocksAccounted, OverflowHonest
  <2> QED
    BY <2>1, <2>2, <2>3 DEF TicksNext
<1> QED
  BY InitInv, <1>1, PTL DEF TicksSpec

(* A tick is M + 1 clocks for every setting M, and no tick is lost between *)
(* the divider and the counter: until the wrap the two registers tell the  *)
(* exact time since the reset (mod_m_counter.v, tick_counter.v).           *)
THEOREM TicksAreExact == TicksSpec => []ClocksAccounted
BY InvHolds, PTL DEF Inv

(* The overflow flag of tick_counter.v is raised when the counter has      *)
(* wrapped and never before.                                               *)
THEOREM OverflowIsHonest == TicksSpec => []OverflowHonest
BY InvHolds, PTL DEF Inv

(* The registers of a timer counter keep to their widths.                  *)
THEOREM TimerTyped == TicksSpec => []TicksTypeOK
BY InvHolds, PTL DEF Inv

(***************************************************************************)
(* Waiting.                                                                *)
(***************************************************************************)

(* The constants without the product of WaitAssumption.                    *)
LEMMA Constants ==
  /\ TickM \in 0 .. MRange - 1 /\ MaxPoll <= TickM
  /\ MaxTicks \in Nat \ {0} /\ MaxPoll \in Nat \ {0}
  /\ MaxWaited \in Nat \ {0}
BY WaitAssumption, Zenon

USE Constants

(***************************************************************************)
(* The frame counter.                                                      *)
(***************************************************************************)

(* Whatever the firmware does, TC2 runs or is reset at every clock.        *)
LEMMA StepOfTicks == [Next]_waitVars => [TicksNext]_vars
<1>1. Next => TicksNext
  BY Zenon DEF Next, Edge, Timers, TicksNext
<1>2. UNCHANGED waitVars => UNCHANGED vars
  BY Zenon DEF waitVars
<1> QED
  BY <1>1, <1>2, Zenon

LEMMA SpecOfTicks == Spec => TicksSpec
<1>1. WaitInit => TicksInit
  BY Zenon DEF WaitInit
<1> QED
  BY <1>1, StepOfTicks, PTL DEF Spec, TicksSpec

(* What is_frame reads is exact: the theorems about a timer counter hold   *)
(* of TC2 while the firmware reads it and resets it.                       *)
THEOREM FrameClocksAccounted == Spec => []ClocksAccounted
BY SpecOfTicks, TicksAreExact, PTL

THEOREM FrameOverflowHonest == Spec => []OverflowHonest
BY SpecOfTicks, OverflowIsHonest, PTL

(* The register holds the counter in its lower bits.                       *)
LEMMA TicksRead == ASSUME Inv PROVE tc_get_ticks = counter
<1>1. counter \in 0 .. Range - 1
  BY Before
<1>2. counter % Range = counter /\ (Range + counter) % Range = counter
  BY <1>1
<1>3. CASE of
  BY <1>1, <1>2, <1>3 DEF tc_get_ticks, status
<1>4. CASE ~of
  BY <1>1, <1>2, <1>4 DEF tc_get_ticks, status
<1> QED
  BY <1>3, <1>4

(* is_frame says true only after a whole frame interval, also when the     *)
(* counter has wrapped because nobody asked (controller.c:63-76).          *)
THEOREM FramesFarApart == Spec => FrameNotEarly
<1>1. ASSUME Inv, FrameSeen PROVE clocks > M
  <2>1. /\ counter \in 0 .. Range - 1 /\ r_reg \in 0 .. M
        /\ clocks \in Nat /\ Made \in {0, 1}
    BY <1>1, Before
  <2>2. counter > 0
    BY <1>1, TicksRead DEF FrameSeen
  <2>3. 1 * Period <= Range * Period /\ Range * Period \in Nat
    <3>1. 1 \in Nat /\ Range \in Nat /\ 1 <= Range
      OBVIOUS
    <3>2. Range * Period \in Nat
      BY <3>1, NextPeriod, Zenon
    <3> QED
      BY <3>1, <3>2, PeriodsMonotone, Zenon
  <2>4. CASE of
    BY <1>1, <2>1, <2>3, <2>4, Before DEF Period
  <2>5. CASE ~of
    <3>1. counter + Made \in Nat /\ 1 <= counter + Made
      BY <2>1, <2>2
    <3>2. /\ 1 * Period <= (counter + Made) * Period
          /\ (counter + Made) * Period \in Nat
      BY <3>1, NextPeriod, PeriodsMonotone
    <3>3. clocks = (counter + Made) * Period + r_reg
      BY <1>1, <2>5, Before
    <3> QED
      BY <2>1, <3>2, <3>3 DEF Period
  <2> QED
    BY <2>4, <2>5
<1> QED
  BY <1>1, SpecOfTicks, InvHolds, PTL DEF FrameNotEarly
(***************************************************************************)
(* The tick counter.                                                       *)
(***************************************************************************)

(* The clocks of a tick of TC1, and how many of the present one are over.  *)
Tick  == TickM + 1
Phase == IF tick_max THEN Tick ELSE tick_r

(* The state of TC1.  No phase is zero but that after the reset.           *)
TickInv == /\ tick_counter \in 0 .. Range - 1
           /\ tick_r \in 0 .. TickM
           /\ tick_max \in BOOLEAN /\ tick_of \in BOOLEAN
           /\ tick_max => tick_r = 0
           /\ Phase = 0 => tick_counter = 0

(* Products with the length of a tick.                                     *)
LEMMA Ticks ==
  ASSUME NEW n \in Int
  PROVE  /\ n * Tick \in Int
         /\ (n + 1) * Tick = n * Tick + Tick
         /\ (n - 1) * Tick = n * Tick - Tick
         /\ 0 * Tick = 0
         /\ Tick \in Nat \ {0}
BY DEF Tick

LEMMA TicksMonotone ==
  ASSUME NEW n \in Int, NEW k \in Int, n <= k
  PROVE  n * Tick <= k * Tick
BY DEF Tick

LEMMA PhaseRange == ASSUME TickInv PROVE Phase \in 0 .. Tick
BY DEF TickInv, Phase, Tick

(* One clock: the phase advances, and the last of a tick counts it.        *)
LEMMA PhaseStep ==
  ASSUME TickInv, Timers
  PROVE  /\ \/ /\ Phase < Tick
               /\ Phase' = Phase + 1 /\ tick_counter' = tick_counter
            \/ /\ Phase = Tick
               /\ Phase' = 1
               /\ tick_counter' = IF tick_counter = Range - 1 THEN 0
                                  ELSE tick_counter + 1
         /\ TickInv'
<1>0. /\ tick_counter \in 0 .. Range - 1 /\ tick_r \in 0 .. TickM
      /\ tick_max \in BOOLEAN /\ tick_of \in BOOLEAN
      /\ tick_max => tick_r = 0
  BY Zenon DEF TickInv
<1>1. /\ tick_r' = IF tick_r = TickM THEN 0 ELSE (tick_r + 1) % MRange
      /\ tick_max' = (tick_r = TickM)
      /\ tick_counter' = IF tick_max THEN (tick_counter + 1) % Range
                                     ELSE tick_counter
      /\ tick_of' = (tick_of \/ tick_counter' < tick_counter)
  BY Zenon DEF Timers, TC1!Clock, TC1!Divider!Clock
<1>2. \/ tick_r = TickM /\ tick_r' = 0 /\ tick_max' = TRUE
      \/ tick_r < TickM /\ tick_r' = tick_r + 1 /\ tick_max' = FALSE
  <2>1. CASE tick_r = TickM
    BY <1>1, <2>1, Zenon
  <2>2. CASE tick_r # TickM
    <3>1. tick_r < TickM /\ (tick_r + 1) % MRange = tick_r + 1
      BY <1>0, <2>2
    <3> QED
      BY <1>1, <2>2, <3>1, Zenon
  <2> QED
    BY <2>1, <2>2, Zenon
<1>3. Phase' = tick_r + 1
  <2>1. CASE tick_r = TickM /\ tick_r' = 0 /\ tick_max' = TRUE
    BY <2>1, Zenon DEF Phase, Tick
  <2>2. CASE tick_r < TickM /\ tick_r' = tick_r + 1 /\ tick_max' = FALSE
    BY <2>2, Zenon DEF Phase
  <2> QED
    BY <1>2, <2>1, <2>2, Zenon
<1>4. CASE tick_max = TRUE
  <2>1. Phase = Tick /\ tick_r = 0
    BY <1>0, <1>4, Zenon DEF Phase
  <2>2. (tick_counter + 1) % Range = IF tick_counter = Range - 1 THEN 0
                                     ELSE tick_counter + 1
    <3>1. CASE tick_counter = Range - 1
      BY <1>0, <3>1
    <3>2. CASE tick_counter # Range - 1
      <4>1. (tick_counter + 1) % Range = tick_counter + 1
        BY <1>0, <3>2
      <4> QED
        BY <3>2, <4>1, Zenon
    <3> QED
      BY <3>1, <3>2, Zenon
  <2>3. tick_counter' = IF tick_counter = Range - 1 THEN 0
                        ELSE tick_counter + 1
    BY <1>1, <1>4, <2>2, Zenon
  <2>4. Phase' = 1
    BY <1>3, <2>1
  <2> QED
    BY <1>0, <1>1, <1>2, <2>1, <2>3, <2>4 DEF TickInv
<1>5. CASE tick_max = FALSE
  <2>1. Phase = tick_r
    BY <1>5, Zenon DEF Phase
  <2>2. Phase < Tick /\ Phase' = Phase + 1 /\ Phase' # 0
    BY <1>0, <1>3, <2>1 DEF Tick
  <2>3. tick_counter' = tick_counter
    BY <1>1, <1>5, Zenon
  <2>4. tick_r' \in 0 .. TickM
    BY <1>0, <1>2
  <2>5. tick_of' \in BOOLEAN
    BY <1>1, Zenon
  <2>6. TickInv'
    BY <1>0, <1>2, <2>2, <2>3, <2>4, <2>5, Zenon DEF TickInv
  <2> QED
    BY <2>2, <2>3, <2>6, Zenon
<1> QED
  BY <1>0, <1>4, <1>5, Zenon
(***************************************************************************)
(* The firmware.                                                           *)
(***************************************************************************)

(* The counter when the wait read it.                                      *)
Start == end - ticks

FirmwareInv == /\ frame_reset \in BOOLEAN
               /\ pc \in {"idle", "wait_start", "wait_poll", "frame_read",
                          "reset_high", "reset_low"}
               /\ ticks \in 0 .. MaxTicks
               /\ end \in 0 .. Range - 1 + MaxTicks
               /\ idle \in 0 .. MaxPoll - 1
               /\ waited \in 0 .. MaxWaited
               /\ pc = "wait_start" => ticks >= 1
               /\ pc = "wait_poll" => ticks >= 1 /\ Start \in 0 .. Range - 1

(* A wait has taken at least the full ticks that it has counted.  After a  *)
(* wrap it has counted none until the counter is back at its start.        *)
AtLeast ==
  pc = "wait_poll" /\ tick_counter >= Start =>
     \/ waited = MaxWaited
     \/ waited + Tick + 1 >= (tick_counter - Start) * Tick + Phase

(* A wait whose end is in range has taken no more than the ticks that it   *)
(* has counted and the present one; when the end is reached, it is noticed *)
(* before the tick is over.                                                *)
AtMost ==
  pc = "wait_poll" /\ end < Range =>
     /\ Start <= tick_counter
     /\ tick_counter < end =>
           waited <= (tick_counter - Start) * Tick + Phase
     /\ tick_counter >= end =>
           /\ tick_counter = end
           /\ Phase <= idle + 1
           /\ waited <= ticks * Tick + idle + 1

WaitInv == TickInv /\ FirmwareInv /\ AtLeast /\ AtMost

LEMMA InitWaitInv == WaitInit => WaitInv
<1> SUFFICES ASSUME WaitInit PROVE WaitInv
  OBVIOUS
<1>1. /\ tick_r = 0 /\ tick_max = FALSE /\ tick_counter = 0 /\ tick_of = FALSE
      /\ frame_reset = FALSE
      /\ pc = "idle" /\ ticks = 0 /\ end = 0 /\ idle = 0 /\ waited = 0
  BY Zenon DEF WaitInit, TC1!Init, TC1!Divider!Init
<1>2. TickInv
  <2>1. 0 \in 0 .. Range - 1 /\ 0 \in 0 .. TickM
    OBVIOUS
  <2> QED
    BY <1>1, <2>1, Zenon DEF TickInv
<1>3. FirmwareInv
  <2>1. /\ 0 \in 0 .. MaxTicks /\ 0 \in 0 .. Range - 1 + MaxTicks
        /\ 0 \in 0 .. MaxPoll - 1 /\ 0 \in 0 .. MaxWaited
    BY Constants
  <2>2. "idle" # "wait_start" /\ "idle" # "wait_poll"
    OBVIOUS
  <2> QED
    BY <1>1, <2>1, <2>2, Zenon DEF FirmwareInv
<1>4. AtLeast /\ AtMost
  BY <1>1 DEF AtLeast, AtMost
<1> QED
  BY <1>2, <1>3, <1>4 DEF WaitInv

(* What an edge does to the firmware, as far as the waits are concerned.   *)
Polls == /\ pc = "wait_poll" /\ pc' = "wait_poll"
         /\ ticks' = ticks /\ end' = end
         /\ \/ tick_counter < end /\ idle' = 0
            \/ idle < MaxPoll - 1 /\ idle' = idle + 1

Starts == /\ pc = "wait_start" /\ pc' = "wait_poll"
          /\ ticks' = ticks /\ end' = tick_counter + ticks
          /\ idle' = 0 /\ waited' = 0

LEMMA FirmwareStep ==
  ASSUME WaitInv, Next
  PROVE  /\ Polls \/ Starts \/ pc' # "wait_poll"
         /\ pc = "wait_poll" => waited' \in {waited + 1, MaxWaited}
         /\ pc = "wait_poll" => waited' <= waited + 1
         /\ FirmwareInv'
         /\ TickInv'
<1>0. TickInv /\ FirmwareInv
  BY DEF WaitInv
<1>1. Timers /\ History /\ ((Access /\ idle' = 0) \/ Stall)
  BY Zenon DEF Next, Edge
<1>2. TickInv'
  BY <1>0, <1>1, PhaseStep
<1>3. TC1!tc_get_ticks = tick_counter
  <2>1. tick_counter \in 0 .. Range - 1
    BY <1>0 DEF TickInv
  <2>2. /\ (0 + tick_counter) % Range = tick_counter
        /\ (Range + tick_counter) % Range = tick_counter
    BY <2>1
  <2> QED
    BY <2>2, Zenon DEF TC1!tc_get_ticks, TC1!status
<1>4. /\ waited' \in 0 .. MaxWaited
      /\ pc = "wait_poll" => waited' \in {waited + 1, MaxWaited}
      /\ pc = "wait_poll" => waited' <= waited + 1
      /\ pc = "wait_start" /\ pc' = "wait_poll" => waited' = 0
  <2>1. waited \in 0 .. MaxWaited /\ MaxWaited \in Nat
    BY <1>0, Constants DEF FirmwareInv
  <2>2. waited' = IF pc = "wait_start" /\ pc' = "wait_poll" THEN 0
                  ELSE IF waited < MaxWaited THEN waited + 1 ELSE MaxWaited
    BY <1>1, Zenon DEF History
  <2> QED
    BY <2>1, <2>2
<1>5. tick_counter \in 0 .. Range - 1
  BY <1>0 DEF TickInv
<1>6. CASE Stall
  <2>1. /\ pc' = pc /\ ticks' = ticks /\ end' = end
        /\ idle < MaxPoll - 1 /\ idle' = idle + 1
        /\ frame_reset' = frame_reset
    BY <1>6, Zenon DEF Stall, firmware
  <2>2. FirmwareInv'
    BY <1>0, <1>4, <2>1 DEF FirmwareInv, Start
  <2> QED
    BY <1>2, <1>4, <2>1, <2>2, Zenon DEF Polls
<1>7. CASE WaitPolls /\ idle' = 0
  <2>1. /\ pc = "wait_poll" /\ pc' = pc /\ ticks' = ticks /\ end' = end
        /\ frame_reset' = frame_reset
        /\ ~(tick_counter >= end)
    BY <1>3, <1>7, Zenon DEF WaitPolls, EndReached, firmware
  <2>2. FirmwareInv'
    BY <1>0, <1>4, <1>7, <2>1 DEF FirmwareInv, Start
  <2>3. tick_counter < end
    BY <1>0, <1>5, <2>1 DEF FirmwareInv
  <2> QED
    BY <1>2, <1>4, <1>7, <2>1, <2>2, <2>3, Zenon DEF Polls
<1>8. CASE WaitStart /\ idle' = 0
  <2>1. /\ pc = "wait_start" /\ pc' = "wait_poll" /\ ticks' = ticks
        /\ end' = tick_counter + ticks
        /\ frame_reset' = frame_reset
    BY <1>3, <1>8, Zenon DEF WaitStart
  <2>2. FirmwareInv'
    BY <1>0, <1>4, <1>5, <1>8, <2>1 DEF FirmwareInv, Start
  <2> QED
    BY <1>2, <1>4, <1>8, <2>1, <2>2 DEF Starts
<1>9. CASE /\ idle' = 0
           /\ \/ CallWait \/ WaitDone \/ CallIsFrame \/ FrameNone \/ FrameSeen
              \/ FrameResetHigh \/ FrameResetLow
  <2>1. /\ pc' \in {"idle", "wait_start", "frame_read",
                    "reset_high", "reset_low"}
        /\ ticks' = ticks \/ ticks' \in 1 .. MaxTicks
        /\ pc' = "wait_start" => ticks' \in 1 .. MaxTicks
        /\ end' = end
    BY <1>9 DEF CallWait, WaitDone, CallIsFrame, FrameNone, FrameSeen,
                FrameResetHigh, FrameResetLow
  <2>2. frame_reset' \in BOOLEAN
    BY <1>0, <1>9, Zenon
       DEF CallWait, WaitDone, CallIsFrame, FrameNone, FrameSeen,
           FrameResetHigh, FrameResetLow, FirmwareInv
  <2>3. FirmwareInv'
    BY <1>0, <1>4, <1>9, <2>1, <2>2 DEF FirmwareInv
  <2>4. pc' # "wait_poll"
    BY <2>1
  <2> QED
    BY <1>2, <1>4, <2>3, <2>4, Zenon
<1> QED
  BY <1>1, <1>6, <1>7, <1>8, <1>9, Zenon DEF Access

LEMMA AtLeastStep ==
  ASSUME WaitInv, Next
  PROVE  AtLeast'
<1>0. TickInv /\ FirmwareInv /\ AtLeast
  BY DEF WaitInv
<1>1. Timers
  BY Zenon DEF Next, Edge
<1>2. tick_counter \in 0 .. Range - 1 /\ Phase \in 0 .. Tick
  BY <1>0, PhaseRange DEF TickInv
<1>3. Tick \in Nat \ {0}
  BY Ticks
<1>4. \/ /\ Phase < Tick
         /\ Phase' = Phase + 1 /\ tick_counter' = tick_counter
      \/ /\ Phase = Tick /\ Phase' = 1
         /\ tick_counter < Range - 1 /\ tick_counter' = tick_counter + 1
      \/ Phase' = 1 /\ tick_counter' = 0
  BY <1>0, <1>1, <1>2, PhaseStep
<1>5. CASE pc' # "wait_poll"
  BY <1>5 DEF AtLeast
<1>6. CASE Starts
  <2>1. /\ Start' = tick_counter /\ waited' = 0
    BY <1>0, <1>2, <1>6 DEF Starts, Start, FirmwareInv
  <2>2. 0 * Tick = 0 /\ 1 * Tick = Tick
    BY <1>3
  <2>3. CASE tick_counter' = tick_counter
    <3>1. tick_counter' - Start' = 0
      BY <1>2, <2>1, <2>3
    <3> QED
      BY <1>2, <1>3, <1>4, <2>1, <2>2, <3>1 DEF AtLeast
  <2>4. CASE Phase' = 1 /\ tick_counter' = tick_counter + 1
    <3>1. tick_counter' - Start' = 1
      BY <1>2, <2>1, <2>4
    <3> QED
      BY <1>2, <1>3, <2>1, <2>2, <2>4, <3>1 DEF AtLeast
  <2>5. CASE Phase' = 1 /\ tick_counter' = 0
    <3>1. tick_counter' >= Start' => tick_counter' - Start' = 0
      BY <1>2, <2>1, <2>5
    <3> QED
      BY <1>2, <1>3, <2>1, <2>2, <2>5, <3>1 DEF AtLeast
  <2> QED
    BY <1>4, <2>3, <2>4, <2>5
<1>7. CASE Polls
  <2>1. /\ Start' = Start /\ Start \in 0 .. Range - 1
        /\ waited \in 0 .. MaxWaited
        /\ waited' \in {waited + 1, MaxWaited} /\ waited' <= waited + 1
        /\ waited' \in 0 .. MaxWaited
    BY <1>0, <1>7, FirmwareStep DEF Polls, Start, FirmwareInv
  <2>2. CASE waited' = MaxWaited
    BY <2>2 DEF AtLeast
  <2>3. CASE waited' # MaxWaited /\ tick_counter' < Start'
    BY <1>2, <1>4, <2>1, <2>3 DEF AtLeast
  <2>4. CASE waited' # MaxWaited /\ tick_counter' = tick_counter
             /\ tick_counter >= Start /\ Phase' = Phase + 1
    <3>1. waited + Tick + 1 >= (tick_counter - Start) * Tick + Phase
      BY <1>0, <1>7, <2>1, <2>4 DEF AtLeast, Polls
    <3>2. tick_counter - Start \in Int
      BY <1>2, <2>1
    <3> DEFINE counted == (tick_counter - Start) * Tick
    <3>4. counted \in Int /\ waited + Tick + 1 >= counted + Phase
      BY <3>1, <3>2, Ticks
    <3> HIDE DEF counted
    <3>5. waited' = waited + 1
      BY <2>1, <2>4
    <3>6. waited' + Tick + 1 >= counted + Phase'
      BY <1>2, <1>3, <2>1, <2>4, <3>4, <3>5
    <3>3. waited' + Tick + 1 >= (tick_counter - Start) * Tick + Phase'
      BY <3>6, Zenon DEF counted
    <3> QED
      BY <2>1, <2>4, <3>3 DEF AtLeast
  <2>5. CASE waited' # MaxWaited /\ tick_counter' = tick_counter + 1
             /\ tick_counter >= Start /\ Phase = Tick /\ Phase' = 1
    <3>1. waited + Tick + 1 >= (tick_counter - Start) * Tick + Phase
      BY <1>0, <1>7, <2>1, <2>5 DEF AtLeast, Polls
    <3> DEFINE counted == (tick_counter - Start) * Tick
               more    == (tick_counter - Start + 1) * Tick
    <3>2. /\ counted \in Int /\ more = counted + Tick
          /\ waited + Tick + 1 >= counted + Phase
      <4>1. tick_counter - Start \in Int
        BY <1>2, <2>1
      <4> QED
        BY <3>1, <4>1, Ticks, Zenon
    <3> HIDE DEF counted, more
    <3>3. tick_counter' - Start = tick_counter - Start + 1
      BY <1>2, <2>1, <2>5
    <3>5. waited' = waited + 1
      BY <2>1, <2>5
    <3>6. waited' + Tick + 1 >= more + Phase'
      BY <1>2, <1>3, <2>1, <2>5, <3>2, <3>5
    <3>4. waited' + Tick + 1 >= (tick_counter - Start + 1) * Tick + Phase'
      BY <3>6, Zenon DEF more
    <3> QED
      BY <2>1, <3>3, <3>4 DEF AtLeast
  <2>6. CASE tick_counter' = Start' /\ Phase' <= Tick
    <3>1. tick_counter' - Start' = 0 /\ 0 * Tick = 0
      BY <1>3, <2>1, <2>6
    <3>2. Phase' \in Nat
      BY <1>2, <1>4
    <3>3. (tick_counter' - Start') * Tick = 0
      BY <3>1, Zenon
    <3>4. waited' + Tick + 1 >= 0 + Phase'
      <4>1. waited' \in Nat
        BY <2>1, Constants
      <4>2. ASSUME NEW p \in Nat, NEW w \in Nat, p <= Tick
            PROVE  w + Tick + 1 >= 0 + p
        BY <1>3, <4>2
      <4>3. Phase' <= Tick
        BY <2>6
      <4> QED
        BY <3>2, <4>1, <4>2, <4>3, Zenon
    <3>5. waited' + Tick + 1 >= (tick_counter' - Start') * Tick + Phase'
      BY <3>3, <3>4, Zenon
    <3> QED
      BY <3>5, Zenon DEF AtLeast
  <2>7. Phase' <= Tick
    BY <1>2, <1>3, <1>4
  <2> QED
    BY <1>2, <1>4, <2>1, <2>2, <2>3, <2>4, <2>5, <2>6, <2>7
<1> QED
  BY <1>5, <1>6, <1>7, FirmwareStep
LEMMA AtMostStep ==
  ASSUME WaitInv, Next
  PROVE  AtMost'
<1>0. TickInv /\ FirmwareInv /\ AtMost
  BY DEF WaitInv
<1>1. Timers
  BY Zenon DEF Next, Edge
<1>2. tick_counter \in 0 .. Range - 1 /\ Phase \in 0 .. Tick
  BY <1>0, PhaseRange DEF TickInv
<1>3. Tick \in Nat \ {0} /\ MaxPoll <= TickM /\ Tick = TickM + 1
      /\ MaxPoll \in Nat
  BY Ticks, Constants DEF Tick
<1>4. \/ /\ Phase < Tick
         /\ Phase' = Phase + 1 /\ tick_counter' = tick_counter
      \/ /\ Phase = Tick /\ Phase' = 1
         /\ tick_counter < Range - 1 /\ tick_counter' = tick_counter + 1
      \/ Phase = Tick /\ Phase' = 1 /\ tick_counter = Range - 1
  BY <1>0, <1>1, <1>2, PhaseStep
<1>5. CASE pc' # "wait_poll" \/ ~(end' < Range)
  BY <1>5 DEF AtMost
<1>6. CASE Starts /\ end' < Range
  <2>1. /\ Start' = tick_counter /\ waited' = 0 /\ idle' = 0
        /\ ticks \in Nat /\ ticks >= 1 /\ ticks' = ticks
        /\ end' = tick_counter + ticks /\ tick_counter < Range - 1
    BY <1>0, <1>2, <1>6 DEF Starts, Start, FirmwareInv
  <2>2. 0 <= ticks' * Tick
    <3>1. 0 * Tick <= ticks * Tick /\ 0 * Tick = 0
      BY <2>1, Ticks, TicksMonotone
    <3> QED
      BY <2>1, <3>1
  <2>3. ticks' * Tick \in Int
    BY <2>1, Ticks
  <2>4. CASE Phase' = Phase + 1 /\ tick_counter' = tick_counter
    <3>1. tick_counter' - Start' = 0 /\ 0 * Tick = 0 /\ Phase' \in Nat
      BY <1>2, <1>3, <2>1, <2>4
    <3>2. (tick_counter' - Start') * Tick = 0
      BY <3>1, Zenon
    <3>3. waited' <= (tick_counter' - Start') * Tick + Phase'
      BY <2>1, <3>1, <3>2
    <3> QED
      BY <1>2, <2>1, <2>4, <3>3 DEF AtMost
  <2>5. CASE Phase' = 1 /\ tick_counter' = tick_counter + 1
    <3>1. tick_counter' - Start' = 1 /\ 1 * Tick = Tick
      BY <1>2, <1>3, <2>1, <2>5
    <3>2. (tick_counter' - Start') * Tick = Tick
      BY <3>1, Zenon
    <3>3. waited' <= (tick_counter' - Start') * Tick + Phase'
      BY <1>3, <2>1, <2>5, <3>2
    <3>4. waited' <= ticks' * Tick + idle' + 1
      BY <2>1, <2>2, <2>3
    <3>5. tick_counter' >= end' => tick_counter' = end'
      BY <1>2, <2>1, <2>5
    <3> QED
      BY <1>2, <2>1, <2>5, <3>3, <3>4, <3>5 DEF AtMost
  <2> QED
    BY <1>2, <1>4, <2>1, <2>4, <2>5
<1>7. CASE Polls /\ end' < Range
  <2>1. /\ Start' = Start /\ Start \in 0 .. Range - 1 /\ Start = end - ticks
        /\ end' = end /\ end \in Nat /\ end < Range
        /\ ticks' = ticks /\ ticks \in Nat
        /\ waited \in Nat /\ waited' \in Nat /\ waited' <= waited + 1
        /\ idle \in 0 .. MaxPoll - 1 /\ idle' \in 0 .. MaxPoll - 1
    BY <1>0, <1>7, FirmwareStep DEF Polls, Start, FirmwareInv
  <2>2. Start <= tick_counter
    BY <1>0, <1>7, <2>1 DEF AtMost, Polls
  <2> DEFINE counted == (tick_counter - Start) * Tick
             more    == (tick_counter - Start + 1) * Tick
             all     == ticks * Tick
  <2>3. counted \in Int /\ more = counted + Tick /\ all \in Int
    <3>1. tick_counter - Start \in Int /\ ticks \in Int
      BY <1>2, <2>1
    <3> QED
      BY <3>1, Ticks, Zenon
  <2>4. /\ tick_counter < end => waited <= counted + Phase
        /\ tick_counter >= end => /\ tick_counter = end
                                  /\ Phase <= idle + 1
                                  /\ waited <= all + idle + 1
    BY <1>0, <1>7, <2>1 DEF AtMost, Polls
  <2>5. tick_counter + 1 = end => more = all
    <3>1. tick_counter + 1 = end => tick_counter - Start + 1 = ticks
      BY <1>2, <2>1
    <3> QED
      BY <3>1, Zenon
  <2>6. AtMost' <=> /\ Start <= tick_counter'
                    /\ tick_counter' < end =>
                         waited' <= (tick_counter' - Start) * Tick + Phase'
                    /\ tick_counter' >= end =>
                         /\ tick_counter' = end
                         /\ Phase' <= idle' + 1
                         /\ waited' <= all + idle' + 1
    BY <1>7, <2>1, Zenon DEF AtMost, Polls
  <2>7. CASE tick_counter < end /\ tick_counter' = tick_counter
             /\ Phase' = Phase + 1
    <3>1. (tick_counter' - Start) * Tick = counted
      BY <2>7, Zenon
    <3> HIDE DEF counted, more, all
    <3>2. waited' <= counted + Phase'
      BY <1>2, <2>1, <2>3, <2>4, <2>7
    <3>3. ~(tick_counter' >= end) /\ Start <= tick_counter'
      BY <1>2, <2>1, <2>2, <2>7
    <3> QED
      BY <2>6, <3>1, <3>2, <3>3, Zenon
  <2>8. CASE tick_counter < end /\ tick_counter' = tick_counter + 1
             /\ Phase = Tick /\ Phase' = 1
    <3>1. (tick_counter' - Start) * Tick = more
      <4>1. tick_counter' - Start = tick_counter - Start + 1
        BY <1>2, <2>1, <2>8
      <4> QED
        BY <4>1, Zenon
    <3> HIDE DEF counted, more, all
    <3>2. waited' <= more + Phase'
      BY <1>2, <1>3, <2>1, <2>3, <2>4, <2>8
    <3>3. Start <= tick_counter'
      BY <1>2, <2>1, <2>2, <2>8
    <3>4. tick_counter' >= end =>
             /\ tick_counter' = end /\ Phase' <= idle' + 1
             /\ waited' <= all + idle' + 1
      <4>1. tick_counter' >= end => tick_counter + 1 = end
        BY <1>2, <2>1, <2>8
      <4>2. ASSUME NEW i \in Nat, NEW w \in Nat, w <= more + 1, more = all
            PROVE  w <= all + i + 1
        BY <2>3, <4>2
      <4>3. \A i \in Nat : 1 <= i + 1
        OBVIOUS
      <4>4. idle' \in Nat
        BY <2>1
      <4>5. Phase' <= idle' + 1
        BY <2>8, <4>3, <4>4, Zenon
      <4>6. ASSUME more = all PROVE waited' <= all + idle' + 1
        BY <2>1, <2>8, <3>2, <4>6, <4>2, <4>4, Zenon
      <4> QED
        BY <2>5, <2>8, <4>1, <4>5, <4>6
    <3> QED
      BY <2>6, <3>1, <3>2, <3>3, <3>4, Zenon
  <2>9. CASE tick_counter >= end
    <3> HIDE DEF counted, more, all
    <3>1. idle < MaxPoll - 1 /\ idle' = idle + 1
      BY <1>2, <1>7, <2>1, <2>9 DEF Polls
    <3>2. Phase < Tick
      BY <1>2, <1>3, <2>1, <2>4, <2>9, <3>1
    <3>3. tick_counter' = tick_counter /\ Phase' = Phase + 1
      BY <1>2, <1>4, <3>2
    <3>4. /\ tick_counter' = end /\ Phase' <= idle' + 1
          /\ waited' <= all + idle' + 1
      BY <1>2, <2>1, <2>3, <2>4, <2>9, <3>1, <3>3
    <3>5. ~(tick_counter' < end) /\ Start <= tick_counter'
      BY <1>2, <2>1, <2>2, <2>9, <3>3
    <3> QED
      BY <2>6, <3>4, <3>5, Zenon
  <2> QED
    BY <1>2, <1>4, <2>1, <2>7, <2>8, <2>9
<1> QED
  BY <1>5, <1>6, <1>7, FirmwareStep

(***************************************************************************)
(* The theorems about the tick counter.                                    *)
(***************************************************************************)
LEMMA WaitInvHolds == Spec => []WaitInv
<1>1. WaitInv /\ [Next]_waitVars => WaitInv'
  <2> SUFFICES ASSUME WaitInv, [Next]_waitVars PROVE WaitInv'
    OBVIOUS
  <2>1. CASE Next
    BY <2>1, FirmwareStep, AtLeastStep, AtMostStep, Zenon DEF WaitInv
  <2>2. CASE UNCHANGED waitVars
    BY <2>2, Zenon
       DEF waitVars, tc1, firmware, WaitInv, TickInv, Phase, FirmwareInv,
           AtLeast, AtMost, Start
  <2> QED
    BY <2>1, <2>2
<1> QED
  BY InitWaitInv, <1>1, PTL DEF Spec

(* wait_tick(n) never returns before n - 1 whole ticks, wherever in a tick *)
(* and however close to the wrap it was called (controller.c:41-61).       *)
THEOREM WaitsAreLongEnough == Spec => WaitsLongEnough
<1>1. ASSUME WaitInv, WaitDone PROVE waited >= (ticks - 1) * Tick
  <2>1. /\ TickInv /\ FirmwareInv /\ AtLeast /\ pc = "wait_poll"
    BY <1>1 DEF WaitInv, WaitDone
  <2>2. /\ tick_counter \in 0 .. Range - 1 /\ Phase \in 0 .. Tick
        /\ Start \in 0 .. Range - 1 /\ Start = end - ticks
        /\ end \in Nat /\ ticks \in 1 .. MaxTicks
        /\ waited \in 0 .. MaxWaited
    BY <2>1, PhaseRange DEF TickInv, FirmwareInv, Start
  <2>3. tick_counter >= end
    <3>1. /\ (0 + tick_counter) % Range = tick_counter
          /\ (Range + tick_counter) % Range = tick_counter
      BY <2>2
    <3> QED
      BY <1>1, <3>1, Zenon
         DEF WaitDone, EndReached, TC1!tc_get_ticks, TC1!status
  <2>4. Phase >= 1
    BY <2>1, <2>2, <2>3 DEF TickInv
  <2>5. Tick \in Nat \ {0}
    BY Ticks
  <2> DEFINE counted == (tick_counter - Start) * Tick
             all     == ticks * Tick
             less    == (ticks - 1) * Tick
  <2>6. all \in Int /\ less = all - Tick /\ counted \in Int /\ all <= counted
    <3>1. /\ ticks \in Int /\ tick_counter - Start \in Int
          /\ ticks <= tick_counter - Start
      BY <2>2, <2>3
    <3> QED
      BY <3>1, Ticks, TicksMonotone, Zenon
  <2>7. waited = MaxWaited \/ waited + Tick + 1 >= counted + Phase
    BY <2>1, <2>2, <2>3 DEF AtLeast
  <2>8. MaxWaited >= all
    <3>1. ticks \in Int /\ MaxTicks \in Int /\ ticks <= MaxTicks
      BY <2>2, Constants
    <3>2. all <= MaxTicks * Tick /\ MaxTicks * Tick \in Int
      BY <3>1, Ticks, TicksMonotone, Zenon
    <3>3. MaxWaited > MaxTicks * Tick + MaxPoll
      BY WaitAssumption, Zenon DEF Tick
    <3> HIDE DEF all
    <3> QED
      BY <2>6, <3>2, <3>3, Constants
  <2> HIDE DEF counted, all, less
  <2>9. waited >= less
    BY <2>2, <2>4, <2>5, <2>6, <2>7, <2>8
  <2> QED
    BY <2>9, Zenon DEF less
<1>2. ASSUME WaitInv, WaitDone PROVE waited >= (ticks - 1) * (TickM + 1)
  BY <1>1, <1>2, Zenon DEF Tick
<1> QED
  BY <1>2, WaitInvHolds, PTL DEF WaitsLongEnough

(* A wait whose end is in the range of the counter is over n ticks and one *)
(* poll after it read the counter (controller.c:56-60).                    *)
THEOREM WaitsAreNotTooLong == Spec => []WaitNotTooLong
<1>1. ASSUME WaitInv, pc = "wait_poll", end < Range
      PROVE  waited <= ticks * Tick + MaxPoll
  <2>1. TickInv /\ FirmwareInv /\ AtMost
    BY <1>1 DEF WaitInv
  <2>2. /\ tick_counter \in 0 .. Range - 1 /\ Phase \in 0 .. Tick
        /\ Start = end - ticks /\ end \in Nat /\ ticks \in Nat
        /\ waited \in Nat /\ idle \in 0 .. MaxPoll - 1
    BY <1>1, <2>1, PhaseRange DEF TickInv, FirmwareInv, Start
  <2>3. Tick \in Nat \ {0} /\ MaxPoll \in Nat
    BY Ticks, Constants
  <2> DEFINE counted == (tick_counter - Start) * Tick
             all     == ticks * Tick
             less    == (ticks - 1) * Tick
  <2>4. /\ tick_counter < end => waited <= counted + Phase
        /\ tick_counter >= end => waited <= all + idle + 1
    BY <1>1, <2>1 DEF AtMost
  <2>5. all \in Int /\ less = all - Tick /\ counted \in Int
    <3>1. ticks \in Int /\ tick_counter - Start \in Int
      BY <2>2
    <3> QED
      BY <3>1, Ticks, Zenon
  <2>6. tick_counter < end => counted <= less
    <3>1. /\ tick_counter - Start \in Int /\ ticks - 1 \in Int
          /\ tick_counter < end => tick_counter - Start <= ticks - 1
      BY <2>2
    <3> QED
      BY <3>1, TicksMonotone, Zenon
  <2> HIDE DEF counted, all, less
  <2>7. waited <= all + MaxPoll
    BY <2>2, <2>3, <2>4, <2>5, <2>6
  <2> QED
    BY <2>7, Zenon DEF all
<1>2. WaitInv => WaitNotTooLong
  BY <1>1, Zenon DEF WaitNotTooLong, Tick
<1> QED
  BY <1>2, WaitInvHolds, PTL
=============================================================================
