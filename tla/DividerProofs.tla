--------------------------- MODULE DividerProofs ---------------------------
(***************************************************************************)
(* Proofs about the two systems that time themselves with a divider of     *)
(* their own (mod_m_counter.v): the serial line, for every byte, format    *)
(* and pair of rates in the tolerance, and the reset controller, for every *)
(* width of its counter, every argument of rc_reset and every delay of the *)
(* reset below the length of the count.                                    *)
(***************************************************************************)
EXTENDS SerialLink, ResetControl, FiniteSetTheorems, TLAPS

(***************************************************************************)
(* The serial line: its inductive invariant.                               *)
(*                                                                         *)
(* Each end is placed on the frame by the clock edges it has yet to make up*)
(* to the stop bit.  Both count down by one at every edge, so that their   *)
(* difference, the lag of the receiver, stays what it was when the start bit*)
(* was seen; ToleranceAssumption then puts every sample inside its bit.    *)
(***************************************************************************)

(* The lengths of a tick and of a bit at each end, in clocks.              *)
TxPeriod == rate.m + 1
RxPeriod == RxM + 1
TxBit    == BitOf(rate)
TxStopBit == StopOf(rate)
Bits     == BitsOf(format)

(* The edges to the next tick of a divider, and to the end of the bit.     *)
TxWait == IF tx_tick THEN 0 ELSE TxPeriod - tx_r
RxWait == IF rx_tick THEN 0 ELSE RxPeriod - rx_r

(* The ticks of the state an end is in, and the edges it has left of them. *)
TxTicks == IF tx.state = "stop" THEN rate.sb ELSE rate.os
RxTicks == IF rx.state = "start" THEN (RxOS - 1) \div 2 + 1
           ELSE IF rx.state = "stop" THEN RxSB ELSE RxOS

TxLeft == (TxTicks - 1 - tx.s) * TxPeriod + TxWait
RxLeft == (RxTicks - 1 - rx.s) * RxPeriod + RxWait

(* The bit each end is at: 0 is the start bit, Bits + 1 the stop bit.      *)
At(state, n) == IF state = "start" THEN 0
                ELSE IF state = "data" THEN n + 1
                ELSE IF state = "parity" THEN Bits ELSE Bits + 1
TxAt == At(tx.state, tx.n)
RxAt == At(rx.state, rx.n)

(* What the line shows for bit k of a byte.                                *)
Level(k, byte) == IF k = 0 THEN 0
                  ELSE IF k = Bits + 1 THEN 1
                  ELSE IF k <= dbit THEN byte[k - 1] ELSE Parity(byte)

(* The edges to the end of the last bit before the stop bit, counted on    *)
(* below 0 in the stop bit.                                                *)
TxToStop == IF tx.state = "stop" THEN TxLeft - TxStopBit
                                 ELSE TxLeft + (Bits - TxAt) * TxBit
RxToStop == IF rx.state = "stop" THEN RxLeft - RxStopBit
                                 ELSE RxLeft + (Bits - RxAt) * RxBit

(* The registers, each in its range.                                       *)
Fields == [0 .. DBIT - 1 -> {0, 1}]

Types ==
  /\ format \in Formats /\ rate \in Rates
  /\ din \in Bytes \cup {None}
  /\ tx_r \in 0 .. rate.m /\ tx_tick \in BOOLEAN
  /\ rx_r \in 0 .. RxM /\ rx_tick \in BOOLEAN
  /\ tx \in [state : TxStates, s : Nat, n : Nat, b : Fields]
  /\ rx \in [state : RxStates, s : Nat, n : Nat, b : Fields,
             e_parity : BOOLEAN]
  /\ line \in {0, 1} /\ e_frame \in BOOLEAN

(* The counters of an end at work are inside their state; the byte sent stays*)
(* at the head of the FIFO, where the parity is taken from.                *)
TxInv ==
  /\ tx_tick => tx_r = 0
  /\ tx.state # "idle" => /\ tx_r = 0 => tx_tick
                          /\ tx.s < TxTicks
                          /\ din = tx.b /\ din # None
  /\ tx.state = "data" => tx.n < dbit
  /\ tx.state = "parity" => pbit > 0

RxInv ==
  /\ rx_tick => rx_r = 0
  /\ rx.state # "idle" => /\ rx_r = 0 => rx_tick
                          /\ rx.s < RxTicks
  /\ rx.state = "data" => rx.n < dbit
  /\ rx.state = "parity" => pbit > 0

(* The bits of the byte the receiver has, the first of them lowest.        *)
Got == IF rx.state = "start" THEN 0
       ELSE IF rx.state = "data" THEN rx.n ELSE dbit

Taken(byte) == \A i \in 0 .. Got - 1 : rx.b[DBIT - Got + i] = byte[i]

(* Once checked, the parity is right.                                      *)
Checked == rx.state = "stop" /\ (pbit > 0 => dbit = DBIT) => ~rx.e_parity

(* The line follows the transmitter by one edge.                           *)
Shows == line = Level(IF TxAt > 0 /\ TxLeft = TxTicks * TxPeriod - 1
                      THEN TxAt - 1 ELSE TxAt, tx.b)

(* Between frames; before the receiver has seen the start bit; inside one. *)
Quiet == /\ rx.state = "idle" /\ tx.state \in {"idle", "stop"}
         /\ line = 1 /\ pending = << >>

Falling == /\ rx.state = "idle" /\ tx.state = "start"
           /\ pending = << tx.b >>
           /\ \/ line = 1 /\ TxLeft >= TxBit - TxPeriod
              \/ line = 0 /\ TxLeft + 1 >= TxBit - TxPeriod
                          /\ TxLeft + 1 < TxBit

(* How far the receiver is behind the transmitter.                         *)
Lag == RxToStop - TxToStop

(* In a frame the receiver has what was sent so far, and its lag is one at *)
(* which the last sample falls inside its bit.                             *)
Framed ==
  /\ rx.state # "idle" /\ pending = << tx.b >>
  /\ Taken(tx.b) /\ Checked
  /\ IF tx.state = "idle"
     THEN rx.state = "stop" /\ RxLeft = 0 /\ line = 1
     ELSE /\ Shows
          /\ Lag \in Earliest(Bits, rate) + 2 - TxBit
                     .. Latest(Bits, rate) + 1 - TxBit

(* The strengthening: a frame is in one of the three phases.               *)
LinkInv == Types /\ TxInv /\ RxInv /\ (Quiet \/ Falling \/ Framed)

(***************************************************************************)
(* Counting down.                                                          *)
(***************************************************************************)

(* The edges to the end of a bit: w to the next tick, of p each, s of the  *)
(* ticks have been.                                                        *)
LEMMA Countdown ==
  ASSUME NEW p \in Nat \ {0}, NEW ticks \in Nat \ {0},
         NEW s \in 0 .. ticks - 1, NEW w \in 0 .. p - 1
  PROVE  LET left == (ticks - 1 - s) * p + w
         IN /\ left \in 0 .. ticks * p - 1
            /\ left = 0 <=> s = ticks - 1 /\ w = 0
            /\ s = 0 => left = (ticks - 1) * p + w
            /\ s < ticks - 1 => (ticks - 1 - (s + 1)) * p + p = left - w
<1>1. PICK k \in Nat : k = ticks - 1 - s
  OBVIOUS
<1>2. PICK kp \in Int : kp = k * p
  BY <1>1
<1>3. (k - 1) * p = kp - p /\ (k + 1) * p = kp + p
  BY <1>2
<1>4. k = 0 => kp = 0
  BY <1>2
<1>5. k >= 1 => kp >= p
  <2>1. CASE k = 0
    BY <2>1
  <2>2. CASE k >= 1
    <3>1. PICK j \in Nat : k = j + 1
      <4>1. k - 1 \in Nat /\ k = (k - 1) + 1
        BY <2>2
      <4> QED
        BY <4>1
    <3>2. j * p \in Nat /\ kp = j * p + p
      BY <1>2, <3>1
    <3> QED
      BY <3>2
  <2> QED
    BY <2>1, <2>2
<1>6. ticks * p = kp + p + s * p /\ s * p \in Nat
  <2>1. ticks = k + 1 + s
    BY <1>1
  <2> QED
    BY <1>2, <2>1
<1>7. (ticks - 1 - s) * p + w = kp + w
  BY <1>1, <1>2
<1>8. (ticks - 1 - (s + 1)) * p = kp - p
  <2>1. ticks - 1 - (s + 1) = k - 1
    BY <1>1
  <2> QED
    BY <1>3, <2>1
<1>9. kp >= 0
  BY <1>4, <1>5
<1>10. kp + w \in 0 .. ticks * p - 1
  BY <1>6, <1>9
<1>11. kp + w = 0 <=> s = ticks - 1 /\ w = 0
  BY <1>1, <1>4, <1>5
<1>12. s = 0 => kp = (ticks - 1) * p
  BY <1>1, <1>2
<1> QED
  BY <1>7, <1>8, <1>10, <1>11, <1>12

(* A product with one factor more.                                         *)
LEMMA OneMore ==
  ASSUME NEW t \in Int, NEW p \in Int
  PROVE  (t - 1) * p = t * p - p /\ t * p \in Int
OBVIOUS

(***************************************************************************)
(* The lengths of the bits.                                                *)
(***************************************************************************)

LEMMA Lengths ==
  ASSUME format \in Formats, rate \in Rates
  PROVE  /\ dbit \in Nat \ {0} /\ dbit \in {DBIT - 1, DBIT} /\ pbit \in 0 .. 2
         /\ DBIT \in Nat
         /\ Bits \in Nat \ {0} /\ Bits = IF pbit > 0 THEN dbit + 1 ELSE dbit
         /\ rate.m \in Nat /\ rate.m < DvsrRange /\ DvsrRange \in Nat
         /\ rate.os \in Nat \ {0} /\ rate.sb \in Nat \ {0}
         /\ RxM \in Nat /\ RxM < DvsrRange
         /\ RxOS \in Nat \ {0} /\ RxSB \in Nat \ {0}
         /\ TxPeriod \in Nat \ {0} /\ RxPeriod \in Nat \ {0}
         /\ TxBit \in Nat /\ TxStopBit \in Nat \ {0}
         /\ RxBit \in Nat \ {0} /\ RxStopBit \in Nat \ {0}
         /\ Middle \in Nat
         /\ TxBit = rate.os * TxPeriod /\ TxStopBit = rate.sb * TxPeriod
         /\ RxBit = RxOS * RxPeriod /\ RxStopBit = RxSB * RxPeriod
         /\ Middle = ((RxOS - 1) \div 2) * RxPeriod
         /\ (RxOS - 1) \div 2 \in Nat
<1>1. /\ format \in {DBIT - 1, DBIT} \X (0 .. 2)
      /\ rate \in [m : 0 .. DvsrRange - 1, os : Nat \ {0}, sb : Nat \ {0}]
  BY LinkAssumption
<1>2. DBIT \in Nat /\ DBIT >= 2
  BY LinkAssumption
<1>3. /\ dbit \in Nat \ {0} /\ dbit \in {DBIT - 1, DBIT}
      /\ pbit \in 0 .. 2
  BY <1>1, <1>2 DEF dbit, pbit
<1>4. Bits \in Nat \ {0} /\ Bits = IF pbit > 0 THEN dbit + 1 ELSE dbit
  BY <1>3 DEF Bits, BitsOf, dbit, pbit
<1>5. /\ rate.m \in Nat /\ rate.m < DvsrRange /\ DvsrRange \in Nat
      /\ rate.os \in Nat \ {0} /\ rate.sb \in Nat \ {0}
  BY <1>1, LinkAssumption
<1>6. /\ RxM \in Nat /\ RxM < DvsrRange
      /\ RxOS \in Nat \ {0} /\ RxSB \in Nat \ {0}
  BY LinkAssumption
<1>7. TxPeriod \in Nat \ {0} /\ RxPeriod \in Nat \ {0}
  BY <1>5, <1>6 DEF TxPeriod, RxPeriod
<1>8. ASSUME NEW a \in Nat, NEW b \in Nat
      PROVE  a * b \in Nat /\ (a > 0 /\ b > 0 => a * b > 0)
  BY <1>8
<1>9. (RxOS - 1) \div 2 \in Nat
  BY <1>6
<1>10. /\ TxBit = rate.os * TxPeriod /\ TxStopBit = rate.sb * TxPeriod
       /\ RxBit = RxOS * RxPeriod /\ RxStopBit = RxSB * RxPeriod
       /\ Middle = ((RxOS - 1) \div 2) * RxPeriod
  BY Zenon DEF TxBit, TxStopBit, RxBit, RxStopBit, Middle, BitOf, StopOf,
               TxPeriod, RxPeriod
<1>11. /\ rate.os * TxPeriod \in Nat
       /\ rate.sb * TxPeriod \in Nat /\ rate.sb * TxPeriod > 0
  BY <1>5, <1>7, <1>8
<1>12. /\ RxOS * RxPeriod \in Nat /\ RxOS * RxPeriod > 0
       /\ RxSB * RxPeriod \in Nat /\ RxSB * RxPeriod > 0
       /\ ((RxOS - 1) \div 2) * RxPeriod \in Nat
  BY <1>6, <1>7, <1>8, <1>9
<1>13. /\ TxBit \in Nat /\ TxStopBit \in Nat \ {0}
       /\ RxBit \in Nat \ {0} /\ RxStopBit \in Nat \ {0} /\ Middle \in Nat
  BY <1>10, <1>11, <1>12
<1> QED
  BY <1>2, <1>3, <1>4, <1>5, <1>6, <1>7, <1>9, <1>10, <1>13

(***************************************************************************)
(* The transmitter counts down.                                            *)
(***************************************************************************)

(* The transmitter's divider (mod_m_counter.v).                            *)
LEMMA TxDivides ==
  ASSUME Types, TxInv, TxBaud!Clock(rate.m), rate' = rate
  PROVE  /\ tx_r' \in 0 .. rate.m /\ tx_tick' \in BOOLEAN
         /\ tx_tick' => tx_r' = 0
         /\ tx_r' = 0 => tx_tick'
         /\ TxWait' \in 0 .. TxPeriod - 1
         /\ TxPeriod' = TxPeriod
         /\ tx.state # "idle" =>
              /\ TxWait \in 0 .. TxPeriod - 1
              /\ tx_tick <=> TxWait = 0
              /\ TxWait' = IF tx_tick THEN TxPeriod - 1 ELSE TxWait - 1
<1>1. /\ rate.m \in Nat /\ rate.m < DvsrRange /\ DvsrRange \in Nat
      /\ tx_r \in 0 .. rate.m /\ tx_tick \in BOOLEAN
      /\ tx_tick => tx_r = 0
      /\ tx.state # "idle" /\ tx_r = 0 => tx_tick
  BY Lengths DEF Types, TxInv
<1>2. TxPeriod' = TxPeriod /\ TxPeriod = rate.m + 1
  BY DEF TxPeriod
<1>3. /\ tx_r' \in 0 .. rate.m /\ tx_tick' \in BOOLEAN
      /\ tx_tick' => tx_r' = 0
      /\ tx_r' = 0 => tx_tick'
      /\ TxWait' = IF tx_r = rate.m THEN 0 ELSE TxPeriod - tx_r - 1
  <2>1. tx_tick' = (tx_r = rate.m)
    BY DEF TxBaud!Clock
  <2>2. tx_tick' \in BOOLEAN /\ (tx_tick' <=> tx_r = rate.m)
    BY <2>1, Zenon
  <2>3. tx_r' = IF tx_r = rate.m THEN 0 ELSE tx_r + 1
    BY <1>1 DEF TxBaud!Clock
  <2>4. tx_r' \in 0 .. rate.m
    BY <1>1, <2>3
  <2>5. tx_r' = 0 <=> tx_r = rate.m
    BY <1>1, <2>3
  <2>6. TxWait' = IF tx_r = rate.m THEN 0 ELSE TxPeriod - tx_r - 1
    <3>1. TxWait' = IF tx_r = rate.m THEN 0 ELSE TxPeriod' - tx_r'
      BY <2>2, Zenon DEF TxWait
    <3> QED
      BY <1>1, <1>2, <2>3, <3>1
  <2> QED
    BY <2>2, <2>4, <2>5, <2>6, Zenon
<1>4. TxWait' \in 0 .. TxPeriod - 1
  BY <1>1, <1>2, <1>3
<1>5. ASSUME tx.state # "idle"
      PROVE  /\ TxWait \in 0 .. TxPeriod - 1
             /\ tx_tick <=> TxWait = 0
             /\ TxWait' = IF tx_tick THEN TxPeriod - 1 ELSE TxWait - 1
  <2>1. CASE tx_tick
    <3>1. TxWait = 0 /\ tx_r = 0
      BY <1>1, <2>1 DEF TxWait
    <3> QED
      BY <1>1, <1>2, <1>3, <2>1, <3>1
  <2>2. CASE ~tx_tick
    <3>1. TxWait = TxPeriod - tx_r /\ tx_r # 0
      BY <1>1, <1>5, <2>2 DEF TxWait
    <3>2. TxWait \in 1 .. TxPeriod - 1
      BY <1>1, <1>2, <3>1
    <3>3. TxWait' = TxWait - 1
      BY <1>1, <1>2, <1>3, <3>1
    <3> QED
      BY <2>2, <3>2, <3>3
  <2> QED
    BY <2>1, <2>2
<1> QED
  BY <1>2, <1>3, <1>4, <1>5

(* Where it is in the current bit.                                         *)
LEMMA TxNow ==
  ASSUME Types, TxInv, tx.state # "idle"
  PROVE  /\ TxTicks \in Nat \ {0} /\ TxPeriod \in Nat \ {0}
         /\ tx.s \in 0 .. TxTicks - 1
         /\ TxWait \in 0 .. TxPeriod - 1
         /\ tx_tick <=> TxWait = 0
         /\ TxLeft \in 0 .. TxTicks * TxPeriod - 1
         /\ TxTicks * TxPeriod \in Nat
         /\ TxLeft = 0 <=> tx_tick /\ tx.s = TxTicks - 1
         /\ tx.s < TxTicks - 1 =>
              (TxTicks - 1 - (tx.s + 1)) * TxPeriod + TxPeriod
                = TxLeft - TxWait
<1>1. /\ TxTicks \in Nat \ {0} /\ TxPeriod \in Nat \ {0}
      /\ tx.s \in 0 .. TxTicks - 1
  BY Lengths DEF Types, TxInv, TxTicks
<1>2. TxWait \in 0 .. TxPeriod - 1 /\ (tx_tick <=> TxWait = 0)
  <2>1. /\ rate.m \in Nat /\ tx_r \in 0 .. rate.m /\ tx_tick \in BOOLEAN
        /\ tx_tick => tx_r = 0
        /\ tx_r = 0 => tx_tick
        /\ TxPeriod = rate.m + 1
    BY Lengths DEF Types, TxInv, TxPeriod
  <2>2. CASE tx_tick
    <3>1. TxWait = 0
      BY <2>2 DEF TxWait
    <3> QED
      BY <1>1, <2>2, <3>1
  <2>3. CASE ~tx_tick
    <3>1. TxWait = TxPeriod - tx_r /\ tx_r # 0
      BY <2>1, <2>3 DEF TxWait
    <3>2. TxWait \in 1 .. TxPeriod - 1
      BY <2>1, <3>1
    <3> QED
      BY <1>1, <2>3, <3>2
  <2> QED
    BY <2>2, <2>3
<1>3. /\ TxLeft \in 0 .. TxTicks * TxPeriod - 1
      /\ TxLeft = 0 <=> tx.s = TxTicks - 1 /\ TxWait = 0
      /\ tx.s < TxTicks - 1 =>
           (TxTicks - 1 - (tx.s + 1)) * TxPeriod + TxPeriod = TxLeft - TxWait
  <2>1. PICK p \in Nat \ {0}, t \in Nat \ {0}, s \in Nat, w \in Nat :
           /\ p = TxPeriod /\ t = TxTicks /\ s = tx.s /\ w = TxWait
           /\ s \in 0 .. t - 1 /\ w \in 0 .. p - 1
    BY <1>1, <1>2
  <2>2. PICK left \in Int : left = (t - 1 - s) * p + w
    OBVIOUS
  <2>3. /\ left \in 0 .. t * p - 1
        /\ left = 0 <=> s = t - 1 /\ w = 0
        /\ s < t - 1 => (t - 1 - (s + 1)) * p + p = left - w
    <3>1. s \in 0 .. t - 1 /\ w \in 0 .. p - 1
      BY <2>1
    <3> QED
      BY <2>2, <3>1, Countdown
  <2>4. TxLeft = left
    BY <2>1, <2>2, Zenon DEF TxLeft
  <2> QED
    BY <2>1, <2>3, <2>4, Zenon
<1>4. TxTicks * TxPeriod \in Nat
  BY <1>1
<1>5. TxLeft = 0 <=> tx_tick /\ tx.s = TxTicks - 1
  BY <1>2, <1>3, Zenon
<1> QED
  BY <1>1, <1>2, <1>3, <1>4, <1>5, Zenon

(* An edge of the transmitter inside a bit, and one that ends it.          *)
LEMMA TxEdge ==
  ASSUME Types, TxInv, tx.state # "idle", TxBaud!Clock(rate.m), rate' = rate
  PROVE  /\ TxTicks \in Nat \ {0}
         /\ TxLeft \in 0 .. TxTicks * TxPeriod - 1
         /\ TxTicks * TxPeriod \in Nat
         /\ TxLeft = 0 <=> tx_tick /\ tx.s = TxTicks - 1
         /\ TxLeft # 0 =>
              /\ TxCount \in Nat /\ TxCount < TxTicks
              /\ (TxTicks - 1 - TxCount) * TxPeriod + TxWait' = TxLeft - 1
         /\ TxLeft = 0 =>
              \A t \in Nat :
                (t - 1 - 0) * TxPeriod + TxWait' = t * TxPeriod - 1
<1>1. /\ TxTicks \in Nat \ {0} /\ TxPeriod \in Nat \ {0}
      /\ tx.s \in 0 .. TxTicks - 1
  BY TxNow
<1>2. /\ TxWait \in 0 .. TxPeriod - 1
      /\ tx_tick <=> TxWait = 0
      /\ TxWait' = IF tx_tick THEN TxPeriod - 1 ELSE TxWait - 1
  BY TxDivides
<1>3. /\ TxLeft \in 0 .. TxTicks * TxPeriod - 1
      /\ TxLeft = 0 <=> tx.s = TxTicks - 1 /\ TxWait = 0
      /\ tx.s < TxTicks - 1 =>
           (TxTicks - 1 - (tx.s + 1)) * TxPeriod + TxPeriod
             = TxLeft - TxWait
  <2>1. /\ TxLeft = 0 <=> tx_tick /\ tx.s = TxTicks - 1
        /\ tx_tick <=> TxWait = 0
    BY TxNow
  <2> QED
    BY <2>1, TxNow, Zenon
<1>4. TxTicks * TxPeriod \in Nat
  BY TxNow
<1>5. ASSUME TxLeft # 0
      PROVE  /\ TxCount \in Nat /\ TxCount < TxTicks
             /\ (TxTicks - 1 - TxCount) * TxPeriod + TxWait' = TxLeft - 1
  <2>1. CASE tx_tick
    <3>1. TxCount = tx.s + 1 /\ tx.s < TxTicks - 1 /\ TxWait = 0
      BY <1>1, <1>2, <1>3, <1>5, <2>1 DEF TxCount
    <3>2. PICK k \in Int : k = (TxTicks - 1 - (tx.s + 1)) * TxPeriod
      BY <1>1
    <3>3. k + TxPeriod = TxLeft /\ TxWait' = TxPeriod - 1
      BY <1>2, <1>3, <1>4, <2>1, <3>1, <3>2
    <3> QED
      BY <1>1, <1>3, <1>4, <3>1, <3>2, <3>3
  <2>2. CASE ~tx_tick
    <3>1. TxCount = tx.s
      BY <2>2 DEF TxCount
    <3>2. PICK k \in Int : k = (TxTicks - 1 - tx.s) * TxPeriod
      BY <1>1
    <3>3. TxLeft = k + TxWait /\ TxWait' = TxWait - 1
      BY <1>2, <2>2, <3>2 DEF TxLeft
    <3> QED
      BY <1>1, <1>2, <3>1, <3>2, <3>3
  <2> QED
    BY <2>1, <2>2
<1>6. ASSUME TxLeft = 0, NEW t \in Nat
      PROVE  (t - 1 - 0) * TxPeriod + TxWait' = t * TxPeriod - 1
  <2>1. TxWait' = TxPeriod - 1
    BY <1>2, <1>3, <1>6
  <2>2. (t - 1) * TxPeriod = t * TxPeriod - TxPeriod /\ t * TxPeriod \in Int
    BY <1>1, OneMore
  <2>3. t - 1 - 0 = t - 1
    OBVIOUS
  <2> QED
    BY <1>1, <2>1, <2>2, <2>3
<1> QED
  BY <1>1, <1>2, <1>3, <1>4, <1>5, <1>6

(***************************************************************************)
(* The receiver counts down.                                               *)
(***************************************************************************)

(* The receiver's divider (mod_m_counter.v).                               *)
LEMMA RxDivides ==
  ASSUME Types, RxInv, RxBaud!Clock(RxM)
  PROVE  /\ rx_r' \in 0 .. RxM /\ rx_tick' \in BOOLEAN
         /\ rx_tick' => rx_r' = 0
         /\ rx_r' = 0 => rx_tick'
         /\ RxWait' \in 0 .. RxPeriod - 1
         /\ rx.state # "idle" =>
              /\ RxWait \in 0 .. RxPeriod - 1
              /\ rx_tick <=> RxWait = 0
              /\ RxWait' = IF rx_tick THEN RxPeriod - 1 ELSE RxWait - 1
<1>1. /\ RxM \in Nat /\ RxM < DvsrRange /\ DvsrRange \in Nat
      /\ rx_r \in 0 .. RxM /\ rx_tick \in BOOLEAN
      /\ rx_tick => rx_r = 0
      /\ rx.state # "idle" /\ rx_r = 0 => rx_tick
  BY Lengths DEF Types, RxInv
<1>2. RxPeriod = RxM + 1
  BY DEF RxPeriod
<1>3. /\ rx_r' \in 0 .. RxM /\ rx_tick' \in BOOLEAN
      /\ rx_tick' => rx_r' = 0
      /\ rx_r' = 0 => rx_tick'
      /\ RxWait' = IF rx_r = RxM THEN 0 ELSE RxPeriod - rx_r - 1
  <2>1. rx_tick' = (rx_r = RxM)
    BY DEF RxBaud!Clock
  <2>2. rx_tick' \in BOOLEAN /\ (rx_tick' <=> rx_r = RxM)
    BY <2>1, Zenon
  <2>3. rx_r' = IF rx_r = RxM THEN 0 ELSE rx_r + 1
    BY <1>1 DEF RxBaud!Clock
  <2>4. rx_r' \in 0 .. RxM
    BY <1>1, <2>3
  <2>5. rx_r' = 0 <=> rx_r = RxM
    BY <1>1, <2>3
  <2>6. RxWait' = IF rx_r = RxM THEN 0 ELSE RxPeriod - rx_r - 1
    <3>1. RxWait' = IF rx_r = RxM THEN 0 ELSE RxPeriod - rx_r'
      BY <2>2, Zenon DEF RxWait
    <3> QED
      BY <1>1, <1>2, <2>3, <3>1
  <2> QED
    BY <2>2, <2>4, <2>5, <2>6, Zenon
<1>4. RxWait' \in 0 .. RxPeriod - 1
  BY <1>1, <1>2, <1>3
<1>5. ASSUME rx.state # "idle"
      PROVE  /\ RxWait \in 0 .. RxPeriod - 1
             /\ rx_tick <=> RxWait = 0
             /\ RxWait' = IF rx_tick THEN RxPeriod - 1 ELSE RxWait - 1
  <2>1. CASE rx_tick
    <3>1. RxWait = 0 /\ rx_r = 0
      BY <1>1, <2>1 DEF RxWait
    <3> QED
      BY <1>1, <1>2, <1>3, <2>1, <3>1
  <2>2. CASE ~rx_tick
    <3>1. RxWait = RxPeriod - rx_r /\ rx_r # 0
      BY <1>1, <1>5, <2>2 DEF RxWait
    <3>2. RxWait \in 1 .. RxPeriod - 1
      BY <1>1, <1>2, <3>1
    <3>3. RxWait' = RxWait - 1
      BY <1>1, <1>2, <1>3, <3>1
    <3> QED
      BY <2>2, <3>2, <3>3
  <2> QED
    BY <2>1, <2>2
<1> QED
  BY <1>2, <1>3, <1>4, <1>5

(* Where it is in the current bit.                                         *)
LEMMA RxNow ==
  ASSUME Types, RxInv, rx.state # "idle"
  PROVE  /\ RxTicks \in Nat \ {0} /\ RxPeriod \in Nat \ {0}
         /\ rx.s \in 0 .. RxTicks - 1
         /\ RxWait \in 0 .. RxPeriod - 1
         /\ rx_tick <=> RxWait = 0
         /\ RxLeft \in 0 .. RxTicks * RxPeriod - 1
         /\ RxTicks * RxPeriod \in Nat
         /\ RxLeft = 0 <=> rx_tick /\ rx.s = RxTicks - 1
         /\ rx.s < RxTicks - 1 =>
              (RxTicks - 1 - (rx.s + 1)) * RxPeriod + RxPeriod
                = RxLeft - RxWait
<1>1. /\ RxTicks \in Nat \ {0} /\ RxPeriod \in Nat \ {0}
      /\ rx.s \in 0 .. RxTicks - 1
  <2>1. RxTicks \in Nat \ {0} /\ RxPeriod \in Nat \ {0}
    BY Lengths DEF Types, RxTicks
  <2> QED
    BY <2>1 DEF Types, RxInv
<1>2. RxWait \in 0 .. RxPeriod - 1 /\ (rx_tick <=> RxWait = 0)
  <2>1. /\ RxM \in Nat /\ rx_r \in 0 .. RxM /\ rx_tick \in BOOLEAN
        /\ rx_tick => rx_r = 0
        /\ rx_r = 0 => rx_tick
        /\ RxPeriod = RxM + 1
    BY Lengths DEF Types, RxInv, RxPeriod
  <2>2. CASE rx_tick
    <3>1. RxWait = 0
      BY <2>2 DEF RxWait
    <3> QED
      BY <1>1, <2>2, <3>1
  <2>3. CASE ~rx_tick
    <3>1. RxWait = RxPeriod - rx_r /\ rx_r # 0
      BY <2>1, <2>3 DEF RxWait
    <3>2. RxWait \in 1 .. RxPeriod - 1
      BY <2>1, <3>1
    <3> QED
      BY <1>1, <2>3, <3>2
  <2> QED
    BY <2>2, <2>3
<1>3. /\ RxLeft \in 0 .. RxTicks * RxPeriod - 1
      /\ RxLeft = 0 <=> rx.s = RxTicks - 1 /\ RxWait = 0
      /\ rx.s < RxTicks - 1 =>
           (RxTicks - 1 - (rx.s + 1)) * RxPeriod + RxPeriod = RxLeft - RxWait
  <2>1. PICK p \in Nat \ {0}, t \in Nat \ {0}, s \in Nat, w \in Nat :
           /\ p = RxPeriod /\ t = RxTicks /\ s = rx.s /\ w = RxWait
           /\ s \in 0 .. t - 1 /\ w \in 0 .. p - 1
    BY <1>1, <1>2
  <2>2. PICK left \in Int : left = (t - 1 - s) * p + w
    OBVIOUS
  <2>3. /\ left \in 0 .. t * p - 1
        /\ left = 0 <=> s = t - 1 /\ w = 0
        /\ s < t - 1 => (t - 1 - (s + 1)) * p + p = left - w
    <3>1. s \in 0 .. t - 1 /\ w \in 0 .. p - 1
      BY <2>1
    <3> QED
      BY <2>2, <3>1, Countdown
  <2>4. RxLeft = left
    BY <2>1, <2>2, Zenon DEF RxLeft
  <2> QED
    BY <2>1, <2>3, <2>4, Zenon
<1>4. RxTicks * RxPeriod \in Nat
  BY <1>1
<1>5. RxLeft = 0 <=> rx_tick /\ rx.s = RxTicks - 1
  BY <1>2, <1>3, Zenon
<1> QED
  BY <1>1, <1>2, <1>3, <1>4, <1>5, Zenon

(* An edge of the receiver inside a bit, and one that ends it.             *)
LEMMA RxEdge ==
  ASSUME Types, RxInv, rx.state # "idle", RxBaud!Clock(RxM)
  PROVE  /\ RxTicks \in Nat \ {0}
         /\ RxLeft \in 0 .. RxTicks * RxPeriod - 1
         /\ RxTicks * RxPeriod \in Nat
         /\ RxLeft = 0 <=> rx_tick /\ rx.s = RxTicks - 1
         /\ RxLeft # 0 =>
              /\ RxCount \in Nat /\ RxCount < RxTicks
              /\ (RxTicks - 1 - RxCount) * RxPeriod + RxWait' = RxLeft - 1
         /\ RxLeft = 0 =>
              \A t \in Nat :
                (t - 1 - 0) * RxPeriod + RxWait' = t * RxPeriod - 1
<1>1. /\ RxTicks \in Nat \ {0} /\ RxPeriod \in Nat \ {0}
      /\ rx.s \in 0 .. RxTicks - 1
  BY RxNow
<1>2. /\ RxWait \in 0 .. RxPeriod - 1
      /\ rx_tick <=> RxWait = 0
      /\ RxWait' = IF rx_tick THEN RxPeriod - 1 ELSE RxWait - 1
  BY RxDivides
<1>3. /\ RxLeft \in 0 .. RxTicks * RxPeriod - 1
      /\ RxLeft = 0 <=> rx.s = RxTicks - 1 /\ RxWait = 0
      /\ rx.s < RxTicks - 1 =>
           (RxTicks - 1 - (rx.s + 1)) * RxPeriod + RxPeriod
             = RxLeft - RxWait
  <2>1. /\ RxLeft = 0 <=> rx_tick /\ rx.s = RxTicks - 1
        /\ rx_tick <=> RxWait = 0
    BY RxNow
  <2> QED
    BY <2>1, RxNow, Zenon
<1>4. RxTicks * RxPeriod \in Nat
  BY RxNow
<1>5. ASSUME RxLeft # 0
      PROVE  /\ RxCount \in Nat /\ RxCount < RxTicks
             /\ (RxTicks - 1 - RxCount) * RxPeriod + RxWait' = RxLeft - 1
  <2>1. CASE rx_tick
    <3>1. RxCount = rx.s + 1 /\ rx.s < RxTicks - 1 /\ RxWait = 0
      BY <1>1, <1>2, <1>3, <1>5, <2>1 DEF RxCount
    <3>2. PICK k \in Int : k = (RxTicks - 1 - (rx.s + 1)) * RxPeriod
      BY <1>1
    <3>3. k + RxPeriod = RxLeft /\ RxWait' = RxPeriod - 1
      BY <1>2, <1>3, <1>4, <2>1, <3>1, <3>2
    <3> QED
      BY <1>1, <1>3, <1>4, <3>1, <3>2, <3>3
  <2>2. CASE ~rx_tick
    <3>1. RxCount = rx.s
      BY <2>2 DEF RxCount
    <3>2. PICK k \in Int : k = (RxTicks - 1 - rx.s) * RxPeriod
      BY <1>1
    <3>3. RxLeft = k + RxWait /\ RxWait' = RxWait - 1
      BY <1>2, <2>2, <3>2 DEF RxLeft
    <3> QED
      BY <1>1, <1>2, <3>1, <3>2, <3>3
  <2> QED
    BY <2>1, <2>2
<1>6. ASSUME RxLeft = 0, NEW t \in Nat
      PROVE  (t - 1 - 0) * RxPeriod + RxWait' = t * RxPeriod - 1
  <2>1. RxWait' = RxPeriod - 1
    BY <1>2, <1>3, <1>6
  <2>2. (t - 1) * RxPeriod = t * RxPeriod - RxPeriod /\ t * RxPeriod \in Int
    BY <1>1, OneMore
  <2>3. t - 1 - 0 = t - 1
    OBVIOUS
  <2> QED
    BY <1>1, <2>1, <2>2, <2>3
<1> QED
  BY <1>1, <1>2, <1>3, <1>4, <1>5, <1>6

(***************************************************************************)
(* Parity and levels.                                                      *)
(***************************************************************************)

(* A parity is a bit, and it stays that of a byte while the format does.   *)
LEMMA ParityBit ==
  ASSUME format \in Formats, rate \in Rates, NEW data
  PROVE  Parity(data) \in {0, 1}
<1> DEFINE ones == Cardinality({i \in 0 .. dbit - 1 : data[i] = 1})
<1>1. IsFiniteSet(0 .. dbit - 1)
  BY Lengths, FS_Interval
<1>2. IsFiniteSet({i \in 0 .. dbit - 1 : data[i] = 1})
  BY <1>1, FS_Subset
<1>3. ones \in Nat
  BY <1>2, FS_CardinalityType
<1>4. PICK k \in Nat : k = ones
  BY <1>3
<1>5. k % 2 \in {0, 1} /\ (k + 1) % 2 \in {0, 1}
  OBVIOUS
<1>6. Parity(data) = 0 \/ Parity(data) = ones % 2
                       \/ Parity(data) = (ones + 1) % 2
  <2>1. CASE pbit = 0
    <3>1. pbit # 1 /\ pbit = 0
      BY <2>1
    <3> QED
      BY <3>1, Zenon DEF Parity
  <2>2. CASE pbit # 0 /\ pbit = 1
    BY <2>2, Zenon DEF Parity
  <2>3. CASE pbit # 0 /\ pbit # 1
    BY <2>3, Zenon DEF Parity
  <2> QED
    BY <2>1, <2>2, <2>3
<1> QED
  BY <1>4, <1>5, <1>6, Zenon

(* The parity of a byte while the format stays.                            *)
LEMMA ParityKept ==
  ASSUME format' = format, tx'.b = tx.b
  PROVE  /\ Parity(tx.b)' = Parity(tx.b)
         /\ Bits' = Bits /\ dbit' = dbit /\ pbit' = pbit
         /\ \A k : Level(k, tx.b)' = Level(k, tx.b)
<1>1. dbit' = dbit /\ pbit' = pbit /\ Bits' = Bits
  BY DEF dbit, pbit, Bits, BitsOf
<1>2. Parity(tx.b)' = Parity(tx.b)
  BY <1>1, Zenon DEF Parity
<1>3. \A k : Level(k, tx.b)' = Level(k, tx.b)
  BY <1>1, <1>2, Zenon DEF Level
<1> QED
  BY <1>1, <1>2, <1>3

(* The line shows, one edge late, the bit the transmitter is at.           *)
LEMMA Levels ==
  ASSUME Types, TxInv, tx.state # "idle", Transmit, Feed
  PROVE  line' = Level(TxAt, tx.b) /\ line' \in {0, 1}
<1>1. CASE tx.state = "start"
  <2>1. line' = 0 /\ TxAt = 0
    BY <1>1 DEF Transmit, TxIdle, TxStart, TxData, TxParity, TxStop, TxAt, At
  <2> QED
    BY <2>1 DEF Level
<1>2. CASE tx.state = "data"
  <2>1. line' = tx.b[tx.n] /\ TxAt = tx.n + 1
    BY <1>2 DEF Transmit, TxIdle, TxStart, TxData, TxParity, TxStop, TxAt, At
  <2>2. /\ tx.n \in 0 .. dbit - 1 /\ tx.b \in [0 .. DBIT - 1 -> {0, 1}]
        /\ tx.n \in 0 .. DBIT - 1
    <3>1. tx.n \in Nat /\ tx.b \in Fields /\ tx.n < dbit
      BY <1>2 DEF Types, TxInv
    <3>2. /\ dbit \in Nat /\ DBIT \in Nat
          /\ dbit = DBIT - 1 \/ dbit = DBIT
      BY Lengths DEF Types
    <3> QED
      BY <3>1, <3>2 DEF Fields
  <2>3. Level(TxAt, tx.b) = tx.b[tx.n]
    <3>1. PICK k \in Nat : k = TxAt /\ k - 1 = tx.n
      BY <2>1, <2>2
    <3>2. k # 0 /\ k # Bits + 1 /\ k <= dbit
      <4>1. /\ dbit \in Nat /\ Bits \in Nat
            /\ Bits = dbit \/ Bits = dbit + 1
        BY Lengths DEF Types
      <4> QED
        BY <2>2, <3>1, <4>1
    <3>3. Level(k, tx.b) = tx.b[k - 1]
      BY <3>2, Zenon DEF Level
    <3> QED
      BY <3>1, <3>3, Zenon
  <2> QED
    BY <2>1, <2>2, <2>3
<1>3. CASE tx.state = "parity"
  <2>1. line' = Parity(din) /\ TxAt = Bits
    BY <1>3 DEF Transmit, TxIdle, TxStart, TxData, TxParity, TxStop, TxAt, At
  <2>2. din = tx.b /\ pbit > 0
    BY <1>3 DEF TxInv
  <2>3. Level(Bits, tx.b) = Parity(tx.b)
    BY <2>2, Lengths DEF Level, Types
  <2> QED
    BY <2>1, <2>2, <2>3, ParityBit DEF Types
<1>4. CASE tx.state = "stop"
  <2>1. line' = 1 /\ TxAt = Bits + 1
    BY <1>4 DEF Transmit, TxIdle, TxStart, TxData, TxParity, TxStop, TxAt, At
  <2> QED
    BY <2>1, Lengths DEF Level, Types
<1> QED
  BY <1>1, <1>2, <1>3, <1>4 DEF Types, TxStates

(***************************************************************************)
(* The transmitter's steps.                                                *)
(***************************************************************************)

(* The edges to the stop bit tell which bit the transmitter is at.         *)
LEMMA TxPlace ==
  ASSUME Types, TxInv, tx.state # "idle"
  PROVE  /\ tx.state # "stop" =>
              /\ TxTicks * TxPeriod = TxBit
              /\ TxLeft \in 0 .. TxBit - 1
              /\ TxAt \in 0 .. Bits
              /\ TxToStop = TxLeft + (Bits - TxAt) * TxBit
              /\ TxToStop \in Nat
         /\ tx.state = "stop" =>
              /\ TxTicks * TxPeriod = TxStopBit
              /\ TxLeft \in 0 .. TxStopBit - 1
              /\ TxAt = Bits + 1
              /\ TxToStop = TxLeft - TxStopBit
              /\ TxToStop \in Int /\ TxToStop < 0 /\ TxToStop >= -TxStopBit
         /\ tx_done_tick <=> TxToStop = -TxStopBit
<1>1. /\ TxLeft \in 0 .. TxTicks * TxPeriod - 1
      /\ TxTicks * TxPeriod \in Nat
      /\ TxLeft = 0 <=> tx_tick /\ tx.s = TxTicks - 1
  BY TxNow
<1>2. /\ TxBit \in Nat /\ TxStopBit \in Nat \ {0} /\ Bits \in Nat \ {0}
      /\ TxBit = rate.os * TxPeriod /\ TxStopBit = rate.sb * TxPeriod
  BY Lengths DEF Types
<1>3. ASSUME tx.state # "stop"
      PROVE  /\ TxTicks * TxPeriod = TxBit
             /\ TxLeft \in 0 .. TxBit - 1
             /\ TxAt \in 0 .. Bits
             /\ TxToStop = TxLeft + (Bits - TxAt) * TxBit
             /\ TxToStop \in Nat
  <2>1. TxTicks = rate.os
    BY <1>3 DEF TxTicks
  <2>2. TxTicks * TxPeriod = TxBit
    BY <1>2, <2>1
  <2>3. TxAt \in 0 .. Bits
    BY <1>3, Lengths DEF TxAt, At, Types, TxInv, TxStates
  <2>4. TxToStop = TxLeft + (Bits - TxAt) * TxBit
    BY <1>3 DEF TxToStop
  <2>5. (Bits - TxAt) * TxBit \in Nat
    <3>1. Bits - TxAt \in Nat
      BY <1>2, <2>3
    <3> QED
      BY <1>2, <3>1
  <2> QED
    BY <1>1, <2>2, <2>3, <2>4, <2>5
<1>4. ASSUME tx.state = "stop"
      PROVE  /\ TxTicks * TxPeriod = TxStopBit
             /\ TxLeft \in 0 .. TxStopBit - 1
             /\ TxAt = Bits + 1
             /\ TxToStop = TxLeft - TxStopBit
             /\ TxToStop \in Int /\ TxToStop < 0 /\ TxToStop >= -TxStopBit
  <2>1. TxTicks = rate.sb
    BY <1>4 DEF TxTicks
  <2>2. TxTicks * TxPeriod = TxStopBit
    BY <1>2, <2>1
  <2>3. TxAt = Bits + 1
    BY <1>4 DEF TxAt, At
  <2>4. TxToStop = TxLeft - TxStopBit
    BY <1>4 DEF TxToStop
  <2> QED
    BY <1>1, <1>2, <2>2, <2>3, <2>4
<1>5. tx_done_tick <=> tx.state = "stop" /\ TxLeft = 0
  BY <1>1 DEF tx_done_tick, TxTicks
<1>6. tx_done_tick <=> TxToStop = -TxStopBit
  <2>1. CASE tx.state = "stop"
    <3>1. TxToStop = -TxStopBit <=> TxLeft = 0
      BY <1>2, <1>4, <2>1
    <3> QED
      BY <1>5, <2>1, <3>1, Zenon
  <2>2. CASE tx.state # "stop"
    <3>1. TxToStop # -TxStopBit
      BY <1>2, <1>3, <2>2
    <3> QED
      BY <1>5, <2>2, <3>1, Zenon
  <2> QED
    BY <2>1, <2>2
<1> QED
  BY <1>3, <1>4, <1>6

(* An edge inside a bit.                                                   *)
LEMMA TxInside ==
  ASSUME Types, TxInv, tx.state # "idle", TxBaud!Clock(rate.m), Transmit,
         rate' = rate, format' = format, TxLeft # 0
  PROVE  /\ tx' = [tx EXCEPT !.s = TxCount]
         /\ TxCount \in Nat /\ TxCount < TxTicks
         /\ TxTicks' = TxTicks /\ TxAt' = TxAt
         /\ TxLeft' = TxLeft - 1 /\ TxToStop' = TxToStop - 1
<1>1. /\ ~(tx_tick /\ tx.s = TxTicks - 1)
      /\ TxCount \in Nat /\ TxCount < TxTicks
      /\ (TxTicks - 1 - TxCount) * TxPeriod + TxWait' = TxLeft - 1
      /\ TxLeft \in Int
  BY TxEdge
<1>2. tx.state \in {"start", "data", "parity", "stop"}
  BY DEF Types, TxStates
<1>3. /\ tx.state # "stop" => ~TxBitEnds
      /\ tx.state = "stop" => ~tx_done_tick
  BY <1>1, <1>2, Zenon DEF TxTicks, TxBitEnds, tx_done_tick
<1>4. tx' = [tx EXCEPT !.s = TxCount]
  BY <1>2, <1>3, Zenon
     DEF Transmit, TxIdle, TxStart, TxData, TxParity, TxStop
<1>5. /\ tx'.state = tx.state /\ tx'.s = TxCount /\ tx'.n = tx.n
      /\ tx'.b = tx.b
  BY <1>4 DEF Types
<1>6. TxTicks' = TxTicks /\ TxPeriod' = TxPeriod
  BY <1>5, Zenon DEF TxTicks, TxPeriod
<1>7. /\ TxAt' = TxAt /\ Bits' = Bits
      /\ TxBit' = TxBit /\ TxStopBit' = TxStopBit
  BY <1>5, Zenon DEF TxAt, At, Bits, TxBit, TxStopBit
<1>8. TxLeft' = (TxTicks - 1 - TxCount) * TxPeriod + TxWait'
  BY <1>5, <1>6, Zenon DEF TxLeft
<1>9. TxLeft' = TxLeft - 1
  BY <1>1, <1>8, Zenon
<1>10. TxToStop' = TxToStop - 1
  <2>1. CASE tx.state = "stop"
    <3>1. TxToStop = TxLeft - TxStopBit /\ TxStopBit \in Int
      BY <2>1, TxPlace, Lengths DEF Types
    <3>2. TxToStop' = TxLeft' - TxStopBit
      BY <1>5, <1>7, <2>1, Zenon DEF TxToStop
    <3> QED
      BY <1>1, <1>9, <3>1, <3>2
  <2>2. CASE tx.state # "stop"
    <3>1. PICK k \in Int : k = (Bits - TxAt) * TxBit
      BY <2>2, TxPlace, Lengths DEF Types
    <3>2. TxToStop = TxLeft + k
      BY <2>2, <3>1, Zenon DEF TxToStop
    <3>3. TxToStop' = TxLeft' + k
      BY <1>5, <1>7, <2>2, <3>1, Zenon DEF TxToStop
    <3> QED
      BY <1>1, <1>9, <3>1, <3>2, <3>3
  <2> QED
    BY <2>1, <2>2
<1> QED
  BY <1>1, <1>4, <1>6, <1>7, <1>9, <1>10

(* The edge that ends a bit before the stop bit.                           *)
LEMMA TxEnds ==
  ASSUME Types, TxInv, tx.state # "idle", TxBaud!Clock(rate.m), Transmit,
         rate' = rate, format' = format, TxLeft = 0, tx.state # "stop"
  PROVE  /\ tx'.state \in {"data", "parity", "stop"}
         /\ tx' \in [state : TxStates, s : Nat, n : Nat, b : Fields]
         /\ tx'.s = 0 /\ tx'.b = tx.b
         /\ tx'.state = "data" => tx'.n < dbit
         /\ tx'.state = "parity" => pbit > 0
         /\ TxAt' = TxAt + 1
         /\ TxLeft' = TxTicks' * TxPeriod - 1 /\ TxToStop' = TxToStop - 1
<1>1. /\ tx_tick /\ tx.s = TxTicks - 1
      /\ \A t \in Nat : (t - 1 - 0) * TxPeriod + TxWait' = t * TxPeriod - 1
  BY TxEdge
<1>2. tx.state \in {"start", "data", "parity"}
  BY DEF Types, TxStates
<1>3. TxBitEnds
  BY <1>1, <1>2, Zenon DEF TxTicks, TxBitEnds
<1>4. /\ dbit \in Nat \ {0} /\ pbit \in Nat /\ Bits \in Nat
      /\ Bits = IF pbit > 0 THEN dbit + 1 ELSE dbit
      /\ TxBit \in Nat /\ TxStopBit \in Nat
      /\ rate.os \in Nat /\ rate.sb \in Nat
      /\ TxBit = rate.os * TxPeriod /\ TxStopBit = rate.sb * TxPeriod
  BY Lengths DEF Types
<1>5. tx \in [state : TxStates, s : Nat, n : Nat, b : Fields]
  BY DEF Types
<1>6. /\ tx'.state \in {"data", "parity", "stop"}
      /\ tx' \in [state : TxStates, s : Nat, n : Nat, b : Fields]
      /\ tx'.s = 0 /\ tx'.b = tx.b
      /\ tx'.state = "data" => tx'.n < dbit
      /\ tx'.state = "parity" => pbit > 0
      /\ At(tx'.state, tx'.n) = At(tx.state, tx.n) + 1
  <2>1. CASE tx.state = "start"
    <3>1. tx' = [tx EXCEPT !.state = "data", !.s = 0, !.n = 0]
      BY <1>3, <2>1, Zenon
         DEF Transmit, TxIdle, TxStart, TxData, TxParity, TxStop
    <3>2. tx'.state = "data" /\ tx'.s = 0 /\ tx'.n = 0 /\ tx'.b = tx.b
      BY <1>5, <3>1
    <3>3. tx' \in [state : TxStates, s : Nat, n : Nat, b : Fields]
      BY <1>5, <3>1 DEF TxStates
    <3>4. At(tx'.state, tx'.n) = 0 + 1 /\ At(tx.state, tx.n) = 0
      BY <2>1, <3>2, Zenon DEF At
    <3> QED
      BY <1>4, <3>2, <3>3, <3>4
  <2>2. CASE tx.state = "data" /\ tx.n = dbit - 1
    <3>1. tx' = [tx EXCEPT !.s = 0, !.n = 0,
                           !.state = IF pbit > 0 THEN "parity" ELSE "stop"]
      BY <1>3, <2>2, Zenon
         DEF Transmit, TxIdle, TxStart, TxData, TxParity, TxStop
    <3>2. /\ tx'.state = IF pbit > 0 THEN "parity" ELSE "stop"
          /\ tx'.s = 0 /\ tx'.n = 0 /\ tx'.b = tx.b
      BY <1>5, <3>1
    <3>3. tx' \in [state : TxStates, s : Nat, n : Nat, b : Fields]
      BY <1>5, <3>1 DEF TxStates
    <3>4. /\ At(tx.state, tx.n) = tx.n + 1
          /\ At(tx'.state, tx'.n) = IF pbit > 0 THEN Bits ELSE Bits + 1
      BY <2>2, <3>2 DEF At
    <3> QED
      BY <1>4, <2>2, <3>2, <3>3, <3>4
  <2>3. CASE tx.state = "data" /\ tx.n # dbit - 1
    <3>1. tx' = [tx EXCEPT !.s = 0, !.n = tx.n + 1]
      BY <1>3, <2>3, Zenon
         DEF Transmit, TxIdle, TxStart, TxData, TxParity, TxStop
    <3>2. tx.n \in Nat /\ tx.n + 1 \in Nat /\ tx.n + 1 < dbit
      BY <1>4, <1>5, <2>3 DEF TxInv
    <3>3. /\ tx'.state = "data" /\ tx'.s = 0 /\ tx'.n = tx.n + 1
          /\ tx'.b = tx.b
      BY <1>5, <2>3, <3>1
    <3>4. tx' \in [state : TxStates, s : Nat, n : Nat, b : Fields]
      BY <1>5, <3>1, <3>2 DEF TxStates
    <3>5. /\ At(tx.state, tx.n) = tx.n + 1
          /\ At(tx'.state, tx'.n) = tx'.n + 1
      BY <2>3, <3>3, Zenon DEF At
    <3> QED
      BY <1>4, <3>2, <3>3, <3>4, <3>5
  <2>4. CASE tx.state = "parity"
    <3>1. tx' = [tx EXCEPT !.state = "stop", !.s = 0, !.n = 0]
      BY <1>3, <2>4, Zenon
         DEF Transmit, TxIdle, TxStart, TxData, TxParity, TxStop
    <3> QED
      BY <1>4, <1>5, <2>4, <3>1 DEF TxStates, At
  <2> QED
    BY <1>2, <2>1, <2>2, <2>3, <2>4
<1>7. Bits' = Bits /\ TxPeriod' = TxPeriod
  BY DEF Bits, TxPeriod
<1>8. TxAt' = TxAt + 1
  <2>1. At(tx.state, tx.n)' = At(tx'.state, tx'.n)
    BY <1>7, Zenon DEF At
  <2> QED
    BY <1>6, <2>1, Zenon DEF TxAt
<1>9. TxTicks' = IF tx'.state = "stop" THEN rate.sb ELSE rate.os
  BY DEF TxTicks
<1>10. TxLeft' = TxTicks' * TxPeriod - 1
  <2>1. TxLeft' = (TxTicks' - 1 - 0) * TxPeriod + TxWait'
    BY <1>6, <1>7, Zenon DEF TxLeft
  <2>2. TxTicks' \in Nat
    BY <1>4, <1>9
  <2> QED
    BY <1>1, <2>1, <2>2, Zenon
<1>11. TxBit' = TxBit /\ TxStopBit' = TxStopBit
  BY DEF TxBit, TxStopBit, BitOf, StopOf
<1>12. PICK a \in 0 .. Bits, k \in Int, j \in Int :
         a = TxAt /\ k = (Bits - a) * TxBit /\ j = (Bits - (a + 1)) * TxBit
  <2>1. TxAt \in 0 .. Bits
    BY TxPlace
  <2> QED
    BY <1>4, <2>1
<1>13. TxToStop = k
  <2>1. TxToStop = 0 + k
    BY <1>12, TxPlace
  <2> QED
    BY <1>12, <2>1
<1>14. TxToStop' = k - 1
  <2>1. CASE tx'.state = "stop"
    <3>1. TxToStop' = TxLeft' - TxStopBit
      BY <1>11, <2>1, Zenon DEF TxToStop
    <3>2. TxLeft' = TxStopBit - 1
      BY <1>4, <1>9, <1>10, <2>1, Zenon
    <3>3. TxAt' = Bits + 1
      BY <1>7, <2>1, Zenon DEF TxAt, At
    <3>4. a = Bits
      BY <1>4, <1>8, <1>12, <3>3
    <3>5. k = 0
      BY <1>4, <1>12, <3>4
    <3> QED
      BY <1>4, <3>1, <3>2, <3>5
  <2>2. CASE tx'.state # "stop"
    <3>1. TxToStop' = TxLeft' + j
      BY <1>7, <1>8, <1>11, <1>12, <2>2, Zenon DEF TxToStop
    <3>2. TxLeft' = TxBit - 1
      BY <1>4, <1>9, <1>10, <2>2, Zenon
    <3>3. j = k - TxBit
      BY <1>4, <1>12
    <3> QED
      BY <1>4, <1>12, <3>1, <3>2, <3>3
  <2> QED
    BY <2>1, <2>2
<1> QED
  BY <1>6, <1>8, <1>10, <1>13, <1>14, Zenon

(* What a step of the transmitter keeps.                                   *)
TxKept ==
  /\ tx_r' \in 0 .. rate.m /\ tx_tick' \in BOOLEAN
  /\ tx' \in [state : TxStates, s : Nat, n : Nat, b : Fields]
  /\ din' \in Bytes \cup {None} /\ line' \in {0, 1}
  /\ TxInv'

(* A step of an active transmitter: the line takes the level of the bit it *)
(* is at, one edge later than it gets there, until it is done.             *)
LEMMA TxActive ==
  ASSUME Types, TxInv, tx.state # "idle", TxBaud!Clock(rate.m), Transmit,
         Feed, rate' = rate, format' = format
  PROVE  /\ TxKept
         /\ ~tx_done_tick => /\ tx'.state # "idle" /\ tx'.b = tx.b
                             /\ TxToStop' = TxToStop - 1 /\ Shows'
         /\ tx_done_tick => tx'.state = "idle" /\ line' = 1
<1>1. /\ tx_r' \in 0 .. rate.m /\ tx_tick' \in BOOLEAN
      /\ tx_tick' => tx_r' = 0
      /\ tx_r' = 0 => tx_tick'
      /\ TxPeriod' = TxPeriod
  BY TxDivides
<1>2. line' = Level(TxAt, tx.b) /\ line' \in {0, 1}
  BY Levels
<1>3. din = tx.b /\ din # None /\ din \in Bytes \cup {None}
  BY DEF TxInv, Types
<1>4. dbit' = dbit /\ pbit' = pbit
  BY DEF dbit, pbit
<1>5. tx \in [state : TxStates, s : Nat, n : Nat, b : Fields]
  BY DEF Types
<1>6. CASE ~tx_done_tick
  <2>1. din' = din
    BY <1>3, <1>6 DEF Feed
  <2>2. tx.state = "stop" => TxLeft # 0
    BY <1>6, TxPlace, Lengths DEF Types
  <2>3. CASE TxLeft # 0
    <3>1. /\ tx' = [tx EXCEPT !.s = TxCount]
          /\ TxCount \in Nat /\ TxCount < TxTicks
          /\ TxTicks' = TxTicks /\ TxAt' = TxAt
          /\ TxLeft' = TxLeft - 1 /\ TxToStop' = TxToStop - 1
      BY <2>3, TxInside
    <3>2. /\ tx'.state = tx.state /\ tx'.s = TxCount /\ tx'.n = tx.n
          /\ tx'.b = tx.b
      BY <1>5, <3>1
    <3>3. tx' \in [state : TxStates, s : Nat, n : Nat, b : Fields]
      BY <1>5, <3>1
    <3>4. TxInv'
      <4>1. tx'.s < TxTicks'
        BY <3>1, <3>2, Zenon
      <4>2. /\ tx.state = "data" => tx.n < dbit
            /\ tx.state = "parity" => pbit > 0
        BY DEF TxInv
      <4> QED
        BY <1>1, <1>3, <1>4, <2>1, <3>2, <4>1, <4>2, Zenon DEF TxInv
    <3>5. Shows'
      <4>1. /\ Parity(tx.b)' = Parity(tx.b)
            /\ Bits' = Bits /\ dbit' = dbit
        BY <3>2, ParityKept
      <4>2. TxLeft' # TxTicks' * TxPeriod' - 1
        BY <1>1, <3>1, TxEdge
      <4>3. line' = Level(TxAt, tx.b)'
        BY <1>2, <3>1, <3>2, <4>1, Zenon DEF Level
      <4> QED
        BY <4>2, <4>3, Zenon DEF Shows, Level
    <3> QED
      BY <1>1, <1>2, <1>3, <1>6, <2>1, <3>1, <3>2, <3>3, <3>4, <3>5, Zenon
         DEF TxKept
  <2>4. CASE TxLeft = 0
    <3>1. /\ tx'.state \in {"data", "parity", "stop"}
          /\ tx' \in [state : TxStates, s : Nat, n : Nat, b : Fields]
          /\ tx'.s = 0 /\ tx'.b = tx.b
          /\ tx'.state = "data" => tx'.n < dbit
          /\ tx'.state = "parity" => pbit > 0
          /\ TxAt' = TxAt + 1
          /\ TxLeft' = TxTicks' * TxPeriod - 1
          /\ TxToStop' = TxToStop - 1
      BY <2>2, <2>4, TxEnds
    <3>2. TxInv'
      <4>1. tx'.s < TxTicks'
        BY <3>1, Lengths DEF TxTicks, Types
      <4> QED
        BY <1>1, <1>3, <1>4, <2>1, <3>1, <4>1, Zenon DEF TxInv
    <3>3. Shows'
      <4>1. /\ Parity(tx.b)' = Parity(tx.b)
            /\ Bits' = Bits /\ dbit' = dbit
        BY <3>1, ParityKept
      <4>2. TxAt \in Nat
        BY <2>2, <2>4, TxPlace
      <4>3. TxAt' > 0 /\ TxAt' - 1 = TxAt
        BY <3>1, <4>2
      <4>4. TxLeft' = TxTicks' * TxPeriod' - 1
        BY <1>1, <3>1, Zenon
      <4>5. line' = Level(TxAt - 1, tx.b)'
        BY <1>2, <3>1, <4>1, <4>3, Zenon DEF Level
      <4> QED
        BY <4>3, <4>4, <4>5, Zenon DEF Shows, Level
    <3>4. tx'.state # "idle"
      BY <3>1
    <3> QED
      BY <1>1, <1>2, <1>3, <1>6, <2>1, <3>1, <3>2, <3>3, <3>4, Zenon
         DEF TxKept
  <2> QED
    BY <2>3, <2>4
<1>7. CASE tx_done_tick
  <2>1. tx.state = "stop"
    BY <1>7 DEF tx_done_tick
  <2>2. tx' = [tx EXCEPT !.state = "idle"] /\ line' = 1
    BY <1>7, <2>1 DEF Transmit, TxIdle, TxStart, TxData, TxParity, TxStop
  <2>3. /\ tx'.state = "idle"
        /\ tx' \in [state : TxStates, s : Nat, n : Nat, b : Fields]
    BY <1>5, <2>2 DEF TxStates
  <2>4. din' \in Bytes \cup {None}
    BY <1>7 DEF Feed
  <2>5. TxInv'
    BY <1>1, <2>3 DEF TxInv
  <2> QED
    BY <1>1, <1>2, <1>7, <2>2, <2>3, <2>4, <2>5, Zenon DEF TxKept
<1> QED
  BY <1>6, <1>7

(* A step of an idle one: it waits, or begins with the byte it is given.   *)
LEMMA TxIdles ==
  ASSUME Types, TxInv, tx.state = "idle", TxBaud!Clock(rate.m), Transmit,
         Feed, rate' = rate, format' = format
  PROVE  /\ TxKept /\ line' = 1
         /\ din = None => tx'.state = "idle"
         /\ din # None => /\ tx'.state = "start" /\ tx'.b = din
                          /\ TxLeft' \in TxBit - TxPeriod .. TxBit - 1
<1>1. /\ tx_r' \in 0 .. rate.m /\ tx_tick' \in BOOLEAN
      /\ tx_tick' => tx_r' = 0
      /\ tx_r' = 0 => tx_tick'
      /\ TxPeriod' = TxPeriod /\ TxWait' \in 0 .. TxPeriod - 1
  BY TxDivides
<1>2. /\ line' = 1
      /\ tx' = IF din # None
               THEN [tx EXCEPT !.state = "start", !.s = 0, !.b = din]
               ELSE tx
  BY Zenon DEF Transmit, TxIdle, TxStart, TxData, TxParity, TxStop
<1>3. /\ tx \in [state : TxStates, s : Nat, n : Nat, b : Fields]
      /\ din \in Bytes \cup {None} /\ din \in Fields \cup {None}
  BY LinkAssumption DEF Types, Fields
<1>4. din' \in Bytes \cup {None} /\ (din # None => din' = din)
  <2>1. ~tx_done_tick
    BY DEF tx_done_tick
  <2> QED
    BY <1>3, <2>1 DEF Feed
<1>5. CASE din = None
  <2>1. tx' = tx
    BY <1>2, <1>5
  <2>2. TxInv'
    BY <1>1, <2>1 DEF TxInv
  <2> QED
    BY <1>1, <1>2, <1>3, <1>4, <1>5, <2>1, <2>2 DEF TxKept
<1>6. CASE din # None
  <2>1. /\ tx'.state = "start" /\ tx'.s = 0 /\ tx'.b = din
        /\ tx' \in [state : TxStates, s : Nat, n : Nat, b : Fields]
    BY <1>2, <1>3, <1>6 DEF TxStates
  <2>2. TxTicks' = rate.os
    BY <2>1 DEF TxTicks
  <2>3. /\ rate.os \in Nat \ {0} /\ TxPeriod \in Nat \ {0}
        /\ TxBit = rate.os * TxPeriod /\ TxBit \in Nat
    BY Lengths DEF Types
  <2>4. TxInv'
    <3>1. tx'.s < TxTicks'
      BY <2>1, <2>2, <2>3
    <3> QED
      BY <1>1, <1>4, <1>6, <2>1, <3>1 DEF TxInv
  <2>5. TxLeft' \in TxBit - TxPeriod .. TxBit - 1
    <3>1. TxLeft' = (rate.os - 1 - 0) * TxPeriod + TxWait'
      BY <1>1, <2>1, <2>2, Zenon DEF TxLeft
    <3>2. rate.os - 1 - 0 = rate.os - 1
      BY <2>3
    <3>3. (rate.os - 1) * TxPeriod = rate.os * TxPeriod - TxPeriod
      BY <2>3, OneMore
    <3>4. TxLeft' = TxBit - TxPeriod + TxWait'
      BY <2>3, <3>1, <3>2, <3>3, Zenon
    <3> QED
      BY <1>1, <2>3, <3>4
  <2> QED
    BY <1>1, <1>2, <1>4, <1>6, <2>1, <2>4, <2>5 DEF TxKept
<1> QED
  BY <1>5, <1>6

(***************************************************************************)
(* The receiver's steps.                                                   *)
(***************************************************************************)

(* The edges to the stop bit tell which bit the receiver is at.            *)
LEMMA RxPlace ==
  ASSUME Types, RxInv, rx.state # "idle"
  PROVE  /\ rx.state # "stop" =>
              /\ RxLeft \in Nat
              /\ RxAt \in 0 .. Bits
              /\ RxToStop = RxLeft + (Bits - RxAt) * RxBit
              /\ RxToStop \in Nat
         /\ rx.state = "stop" =>
              /\ RxTicks * RxPeriod = RxStopBit
              /\ RxLeft \in 0 .. RxStopBit - 1
              /\ RxAt = Bits + 1
              /\ RxToStop = RxLeft - RxStopBit
              /\ RxToStop \in Int /\ RxToStop < 0 /\ RxToStop >= -RxStopBit
         /\ rx_done_tick <=> RxToStop = -RxStopBit
<1>1. /\ RxLeft \in 0 .. RxTicks * RxPeriod - 1
      /\ RxTicks * RxPeriod \in Nat
      /\ RxLeft = 0 <=> rx_tick /\ rx.s = RxTicks - 1
  BY RxNow
<1>2. /\ RxBit \in Nat /\ RxStopBit \in Nat \ {0} /\ Bits \in Nat \ {0}
      /\ RxBit = RxOS * RxPeriod /\ RxStopBit = RxSB * RxPeriod
  BY Lengths DEF Types
<1>3. ASSUME rx.state # "stop"
      PROVE  /\ RxLeft \in Nat
             /\ RxAt \in 0 .. Bits
             /\ RxToStop = RxLeft + (Bits - RxAt) * RxBit
             /\ RxToStop \in Nat
  <2>1. RxLeft \in Nat
    BY <1>1
  <2>2. RxAt \in 0 .. Bits
    BY <1>3, Lengths DEF RxAt, At, Types, RxInv, RxStates
  <2>3. RxToStop = RxLeft + (Bits - RxAt) * RxBit
    BY <1>3 DEF RxToStop
  <2>4. (Bits - RxAt) * RxBit \in Nat
    <3>1. Bits - RxAt \in Nat
      BY <1>2, <2>2
    <3> QED
      BY <1>2, <3>1
  <2> QED
    BY <2>1, <2>2, <2>3, <2>4
<1>4. ASSUME rx.state = "stop"
      PROVE  /\ RxTicks * RxPeriod = RxStopBit
             /\ RxLeft \in 0 .. RxStopBit - 1
             /\ RxAt = Bits + 1
             /\ RxToStop = RxLeft - RxStopBit
             /\ RxToStop \in Int /\ RxToStop < 0 /\ RxToStop >= -RxStopBit
  <2>1. RxTicks = RxSB
    BY <1>4 DEF RxTicks
  <2>2. RxTicks * RxPeriod = RxStopBit
    BY <1>2, <2>1
  <2>3. RxAt = Bits + 1
    BY <1>4 DEF RxAt, At
  <2>4. RxToStop = RxLeft - RxStopBit
    BY <1>4 DEF RxToStop
  <2> QED
    BY <1>1, <1>2, <2>2, <2>3, <2>4
<1>5. rx_done_tick <=> rx.state = "stop" /\ RxLeft = 0
  BY <1>1 DEF rx_done_tick, RxTicks
<1>6. rx_done_tick <=> RxToStop = -RxStopBit
  <2>1. CASE rx.state = "stop"
    <3>1. RxToStop = -RxStopBit <=> RxLeft = 0
      BY <1>2, <1>4, <2>1
    <3> QED
      BY <1>5, <2>1, <3>1, Zenon
  <2>2. CASE rx.state # "stop"
    <3>1. RxToStop # -RxStopBit
      BY <1>2, <1>3, <2>2
    <3> QED
      BY <1>5, <2>2, <3>1, Zenon
  <2> QED
    BY <2>1, <2>2
<1> QED
  BY <1>3, <1>4, <1>6

(* An edge inside a bit.                                                   *)
LEMMA RxInside ==
  ASSUME Types, RxInv, rx.state # "idle", RxBaud!Clock(RxM), Receive,
         format' = format, RxLeft # 0
  PROVE  /\ rx' = [rx EXCEPT !.s = RxCount]
         /\ RxCount \in Nat /\ RxCount < RxTicks
         /\ RxTicks' = RxTicks /\ RxAt' = RxAt
         /\ RxLeft' = RxLeft - 1 /\ RxToStop' = RxToStop - 1
<1>1. /\ ~(rx_tick /\ rx.s = RxTicks - 1)
      /\ RxCount \in Nat /\ RxCount < RxTicks
      /\ (RxTicks - 1 - RxCount) * RxPeriod + RxWait' = RxLeft - 1
      /\ RxLeft \in Int
  BY RxEdge
<1>2. rx.state \in {"start", "data", "parity", "stop"}
  BY DEF Types, RxStates
<1>3. /\ rx.state = "start" => ~(rx_tick /\ rx.s = (RxOS - 1) \div 2)
      /\ rx.state \in {"data", "parity"} => ~RxBitEnds
      /\ rx.state = "stop" => ~rx_done_tick
  <2>1. PICK h \in Nat : h = (RxOS - 1) \div 2
    BY Lengths DEF Types
  <2>2. rx.state = "start" => RxTicks = h + 1
    BY <2>1, Zenon DEF RxTicks
  <2>3. rx.state \in {"data", "parity"} => RxTicks = RxOS
    BY DEF RxTicks
  <2>4. rx.state = "stop" => RxTicks = RxSB
    BY Zenon DEF RxTicks
  <2>5. rx.state = "start" => RxTicks - 1 = h
    BY <2>2
  <2>6. rx.state = "start" => ~(rx_tick /\ rx.s = (RxOS - 1) \div 2)
    BY <1>1, <2>1, <2>5, Zenon
  <2>7. rx.state \in {"data", "parity"} => ~RxBitEnds
    BY <1>1, <2>3, Zenon DEF RxBitEnds
  <2>8. rx.state = "stop" => ~rx_done_tick
    BY <1>1, <2>4, Zenon DEF rx_done_tick
  <2> QED
    BY <2>6, <2>7, <2>8, Zenon
<1>4. rx' = [rx EXCEPT !.s = RxCount]
  BY <1>2, <1>3, Zenon
     DEF Receive, RxIdle, RxStart, RxData, RxParity, RxStop
<1>5. /\ rx'.state = rx.state /\ rx'.s = RxCount /\ rx'.n = rx.n
      /\ rx'.b = rx.b /\ rx'.e_parity = rx.e_parity
  BY <1>4 DEF Types
<1>6. RxTicks' = RxTicks
  BY <1>5, Zenon DEF RxTicks
<1>7. /\ RxAt' = RxAt /\ Bits' = Bits
  BY <1>5, Zenon DEF RxAt, At, Bits
<1>8. RxLeft' = (RxTicks - 1 - RxCount) * RxPeriod + RxWait'
  BY <1>5, <1>6, Zenon DEF RxLeft
<1>9. RxLeft' = RxLeft - 1
  BY <1>1, <1>8, Zenon
<1>10. RxToStop' = RxToStop - 1
  <2>1. CASE rx.state = "stop"
    <3>1. RxToStop = RxLeft - RxStopBit /\ RxStopBit \in Int
      BY <2>1, RxPlace, Lengths DEF Types
    <3>2. RxToStop' = RxLeft' - RxStopBit
      BY <1>5, <1>7, <2>1, Zenon DEF RxToStop
    <3> QED
      BY <1>1, <1>9, <3>1, <3>2
  <2>2. CASE rx.state # "stop"
    <3>1. PICK k \in Int : k = (Bits - RxAt) * RxBit
      BY <2>2, RxPlace, Lengths DEF Types
    <3>2. RxToStop = RxLeft + k
      BY <2>2, <3>1, Zenon DEF RxToStop
    <3>3. RxToStop' = RxLeft' + k
      BY <1>5, <1>7, <2>2, <3>1, Zenon DEF RxToStop
    <3> QED
      BY <1>1, <1>9, <3>1, <3>2, <3>3
  <2> QED
    BY <2>1, <2>2
<1> QED
  BY <1>1, <1>4, <1>6, <1>7, <1>9, <1>10

(* The edge that ends a bit before the stop bit: a data bit is shifted in, *)
(* the parity bit compared.                                                *)
LEMMA RxEnds ==
  ASSUME Types, RxInv, rx.state # "idle", RxBaud!Clock(RxM), Receive,
         format' = format, RxLeft = 0, rx.state # "stop"
  PROVE  /\ rx' \in [state : RxStates, s : Nat, n : Nat, b : Fields,
                     e_parity : BOOLEAN]
         /\ e_frame' \in BOOLEAN
         /\ rx'.state \in {"data", "parity", "stop"} /\ rx'.s = 0
         /\ rx'.state = "data" => rx'.n < dbit
         /\ rx'.state = "parity" => pbit > 0
         /\ RxAt' = RxAt + 1 /\ RxToStop' = RxToStop - 1
         /\ rx.state = "start" => /\ rx'.b = rx.b /\ Got' = 0
                                  /\ rx'.state = "data"
         /\ rx.state = "data" => /\ rx'.b = ShiftIn(rx.b, line)
                                 /\ Got' = Got + 1
                                 /\ rx'.state = "stop" => ~rx'.e_parity
         /\ rx.state = "parity" => /\ rx'.b = rx.b /\ Got' = Got
                                   /\ rx'.state = "stop"
                                   /\ rx'.e_parity = (Parity(rx.b) # line)
<1>1. /\ rx_tick /\ rx.s = RxTicks - 1
      /\ \A t \in Nat : (t - 1 - 0) * RxPeriod + RxWait' = t * RxPeriod - 1
  BY RxEdge
<1>2. rx.state \in {"start", "data", "parity"}
  BY DEF Types, RxStates
<1>3. /\ rx.state = "start" => rx_tick /\ rx.s = (RxOS - 1) \div 2
      /\ rx.state \in {"data", "parity"} => RxBitEnds
  <2>1. PICK h \in Nat : h = (RxOS - 1) \div 2
    BY Lengths DEF Types
  <2>2. rx.state = "start" => RxTicks = h + 1
    BY <2>1, Zenon DEF RxTicks
  <2>3. rx.state \in {"data", "parity"} => RxTicks = RxOS
    BY DEF RxTicks
  <2>4. rx.state = "start" => RxTicks - 1 = h
    BY <2>2
  <2>5. rx.state = "start" => rx_tick /\ rx.s = (RxOS - 1) \div 2
    BY <1>1, <2>1, <2>4, Zenon
  <2>6. rx.state \in {"data", "parity"} => RxBitEnds
    BY <1>1, <2>3, Zenon DEF RxBitEnds
  <2> QED
    BY <2>5, <2>6, Zenon
<1>4. /\ dbit \in Nat \ {0} /\ pbit \in Nat /\ Bits \in Nat
      /\ Bits = IF pbit > 0 THEN dbit + 1 ELSE dbit
      /\ DBIT \in Nat /\ (dbit = DBIT \/ dbit = DBIT - 1)
      /\ RxBit \in Nat /\ RxStopBit \in Nat
      /\ RxOS \in Nat /\ RxSB \in Nat
      /\ RxBit = RxOS * RxPeriod /\ RxStopBit = RxSB * RxPeriod
  BY Lengths DEF Types
<1>5. /\ rx \in [state : RxStates, s : Nat, n : Nat, b : Fields,
                 e_parity : BOOLEAN]
      /\ e_frame \in BOOLEAN /\ line \in {0, 1}
  BY DEF Types
<1>6. ShiftIn(rx.b, line) \in Fields
  <2>1. rx.b \in [0 .. DBIT - 1 -> {0, 1}]
    BY <1>5 DEF Fields
  <2>2. ASSUME NEW i \in 0 .. DBIT - 1, i # DBIT - 1
        PROVE  rx.b[i + 1] \in {0, 1}
    <3>1. i + 1 \in 0 .. DBIT - 1
      BY <1>4, <2>2
    <3> QED
      BY <2>1, <3>1
  <2> QED
    BY <1>5, <2>2 DEF ShiftIn, Fields
<1>7. dbit' = dbit /\ pbit' = pbit /\ Bits' = Bits
  BY DEF dbit, pbit, Bits, BitsOf
<1>8. /\ At(rx.state, rx.n)' = At(rx'.state, rx'.n)
      /\ Got' = IF rx'.state = "start" THEN 0
                ELSE IF rx'.state = "data" THEN rx'.n ELSE dbit
  BY <1>7, Zenon DEF At, Got
<1>9. /\ rx' \in [state : RxStates, s : Nat, n : Nat, b : Fields,
                  e_parity : BOOLEAN]
      /\ e_frame' \in BOOLEAN
      /\ rx'.state \in {"data", "parity", "stop"} /\ rx'.s = 0
      /\ rx'.state = "data" => rx'.n < dbit
      /\ rx'.state = "parity" => pbit > 0
      /\ RxAt' = RxAt + 1
  <2>1. CASE rx.state = "start"
    <3>1. /\ rx' = [rx EXCEPT !.state = "data", !.s = 0, !.n = 0,
                              !.e_parity = FALSE]
          /\ e_frame' = FALSE
      BY <1>3, <2>1, Zenon
         DEF Receive, RxIdle, RxStart, RxData, RxParity, RxStop
    <3>2. rx'.state = "data" /\ rx'.s = 0 /\ rx'.n = 0
      BY <1>5, <3>1
    <3>3. rx' \in [state : RxStates, s : Nat, n : Nat, b : Fields,
                   e_parity : BOOLEAN]
      BY <1>5, <3>1 DEF RxStates
    <3>4. RxAt = 0 /\ RxAt' = 0 + 1
      BY <1>8, <2>1, <3>2, Zenon DEF At, RxAt
    <3>5. rx'.n < dbit
      BY <1>4, <1>5, <3>1
    <3>6. e_frame' \in BOOLEAN
      BY <3>1, Zenon
    <3> QED
      BY <3>2, <3>3, <3>4, <3>5, <3>6, Zenon
  <2>2. CASE rx.state = "data" /\ rx.n = dbit - 1
    <3>1. /\ rx' = [rx EXCEPT !.s = 0, !.n = 0, !.b = ShiftIn(rx.b, line),
                      !.state = IF pbit > 0 THEN "parity" ELSE "stop",
                      !.e_parity = IF pbit > 0 THEN rx.e_parity ELSE FALSE]
          /\ e_frame' = e_frame
      BY <1>3, <2>2, Zenon
         DEF Receive, RxIdle, RxStart, RxData, RxParity, RxStop
    <3>2. /\ rx'.state = IF pbit > 0 THEN "parity" ELSE "stop"
          /\ rx'.s = 0 /\ rx'.n = 0
      BY <1>5, <3>1
    <3>3. rx' \in [state : RxStates, s : Nat, n : Nat, b : Fields,
                   e_parity : BOOLEAN]
      BY <1>5, <1>6, <3>1 DEF RxStates
    <3>4. /\ RxAt = rx.n + 1
          /\ RxAt' = IF pbit > 0 THEN Bits ELSE Bits + 1
      BY <1>8, <2>2, <3>2 DEF At, RxAt
    <3> QED
      BY <1>4, <1>5, <2>2, <3>1, <3>2, <3>3, <3>4
  <2>3. CASE rx.state = "data" /\ rx.n # dbit - 1
    <3>1. /\ rx' = [rx EXCEPT !.s = 0, !.n = rx.n + 1,
                              !.b = ShiftIn(rx.b, line)]
          /\ e_frame' = e_frame
      BY <1>3, <2>3, Zenon
         DEF Receive, RxIdle, RxStart, RxData, RxParity, RxStop
    <3>2. rx.n \in Nat /\ rx.n + 1 \in Nat /\ rx.n + 1 < dbit
      BY <1>4, <1>5, <2>3 DEF RxInv
    <3>3. rx'.state = "data" /\ rx'.s = 0 /\ rx'.n = rx.n + 1
      BY <1>5, <2>3, <3>1
    <3>4. rx' \in [state : RxStates, s : Nat, n : Nat, b : Fields,
                   e_parity : BOOLEAN]
      BY <1>5, <1>6, <3>1, <3>2 DEF RxStates
    <3>5. RxAt = rx.n + 1 /\ RxAt' = rx'.n + 1
      BY <1>8, <2>3, <3>3, Zenon DEF At, RxAt
    <3> QED
      BY <1>4, <1>5, <3>1, <3>2, <3>3, <3>4, <3>5
  <2>4. CASE rx.state = "parity"
    <3>1. /\ rx' = [rx EXCEPT !.state = "stop", !.s = 0, !.n = 0,
                              !.e_parity = (Parity(rx.b) # line)]
          /\ e_frame' = e_frame
      BY <1>3, <2>4, Zenon
         DEF Receive, RxIdle, RxStart, RxData, RxParity, RxStop
    <3>2. rx'.state = "stop" /\ rx'.s = 0
      BY <1>5, <3>1
    <3>3. rx' \in [state : RxStates, s : Nat, n : Nat, b : Fields,
                   e_parity : BOOLEAN]
      BY <1>5, <3>1 DEF RxStates
    <3>4. RxAt = Bits /\ RxAt' = Bits + 1
      BY <1>8, <2>4, <3>2, Zenon DEF At, RxAt
    <3> QED
      BY <1>5, <3>1, <3>2, <3>3, <3>4
  <2> QED
    BY <1>2, <2>1, <2>2, <2>3, <2>4
<1>10. /\ rx.state = "start" => /\ rx'.b = rx.b /\ Got' = 0
                                /\ rx'.state = "data"
       /\ rx.state = "data" => /\ rx'.b = ShiftIn(rx.b, line)
                               /\ Got' = Got + 1
                               /\ rx'.state = "stop" => ~rx'.e_parity
       /\ rx.state = "parity" => /\ rx'.b = rx.b /\ Got' = Got
                                 /\ rx'.state = "stop"
                                 /\ rx'.e_parity = (Parity(rx.b) # line)
  <2>1. CASE rx.state = "start"
    <3>1. rx' = [rx EXCEPT !.state = "data", !.s = 0, !.n = 0,
                           !.e_parity = FALSE]
      BY <1>3, <2>1, Zenon
         DEF Receive, RxIdle, RxStart, RxData, RxParity, RxStop
    <3>2. rx'.state = "data" /\ rx'.n = 0 /\ rx'.b = rx.b
      BY <1>5, <3>1
    <3> QED
      BY <1>8, <2>1, <3>2
  <2>2. CASE rx.state = "data" /\ rx.n = dbit - 1
    <3>1. rx' = [rx EXCEPT !.s = 0, !.n = 0, !.b = ShiftIn(rx.b, line),
                   !.state = IF pbit > 0 THEN "parity" ELSE "stop",
                   !.e_parity = IF pbit > 0 THEN rx.e_parity ELSE FALSE]
      BY <1>3, <2>2, Zenon
         DEF Receive, RxIdle, RxStart, RxData, RxParity, RxStop
    <3>2. /\ rx'.state = IF pbit > 0 THEN "parity" ELSE "stop"
          /\ rx'.b = ShiftIn(rx.b, line)
          /\ pbit > 0 \/ rx'.e_parity = FALSE
      BY <1>5, <3>1
    <3>3. Got = rx.n
      BY <2>2 DEF Got
    <3>4. Got' = dbit
      BY <1>8, <3>2
    <3>5. Got' = Got + 1
      BY <1>4, <2>2, <3>3, <3>4
    <3>6. rx'.state = "stop" => ~rx'.e_parity
      BY <3>2
    <3> QED
      BY <2>2, <3>2, <3>5, <3>6
  <2>3. CASE rx.state = "data" /\ rx.n # dbit - 1
    <3>1. rx' = [rx EXCEPT !.s = 0, !.n = rx.n + 1,
                           !.b = ShiftIn(rx.b, line)]
      BY <1>3, <2>3, Zenon
         DEF Receive, RxIdle, RxStart, RxData, RxParity, RxStop
    <3>2. /\ rx'.state = "data" /\ rx'.n = rx.n + 1
          /\ rx'.b = ShiftIn(rx.b, line)
      BY <1>5, <2>3, <3>1
    <3>3. Got' = Got + 1
      BY <1>8, <2>3, <3>2, Zenon DEF Got
    <3> QED
      BY <2>3, <3>2, <3>3
  <2>4. CASE rx.state = "parity"
    <3>1. rx' = [rx EXCEPT !.state = "stop", !.s = 0, !.n = 0,
                           !.e_parity = (Parity(rx.b) # line)]
      BY <1>3, <2>4, Zenon
         DEF Receive, RxIdle, RxStart, RxData, RxParity, RxStop
    <3>2. /\ rx'.state = "stop" /\ rx'.b = rx.b
          /\ rx'.e_parity = (Parity(rx.b) # line)
      BY <1>5, <3>1
    <3>3. Got' = dbit /\ Got = dbit
      BY <1>8, <2>4, <3>2, Zenon DEF Got
    <3> QED
      BY <2>4, <3>2, <3>3, Zenon
  <2> QED
    BY <1>2, <2>1, <2>2, <2>3, <2>4
<1>11. RxTicks' = IF rx'.state = "stop" THEN RxSB ELSE RxOS
  <2>1. rx'.state # "start"
    BY <1>9
  <2> QED
    BY <2>1, Zenon DEF RxTicks
<1>12. RxLeft' = RxTicks' * RxPeriod - 1
  <2>1. RxLeft' = (RxTicks' - 1 - 0) * RxPeriod + RxWait'
    BY <1>9, Zenon DEF RxLeft
  <2>2. RxTicks' \in Nat
    BY <1>4, <1>11
  <2> QED
    BY <1>1, <2>1, <2>2, Zenon
<1>13. PICK a \in 0 .. Bits, k \in Int, j \in Int :
         a = RxAt /\ k = (Bits - a) * RxBit /\ j = (Bits - (a + 1)) * RxBit
  <2>1. RxAt \in 0 .. Bits
    BY RxPlace
  <2> QED
    BY <1>4, <2>1
<1>14. RxToStop = k
  <2>1. RxToStop = 0 + k
    BY <1>13, RxPlace
  <2> QED
    BY <1>13, <2>1
<1>15. RxToStop' = k - 1
  <2>1. CASE rx'.state = "stop"
    <3>1. RxToStop' = RxLeft' - RxStopBit
      BY <2>1, Zenon DEF RxToStop
    <3>2. RxLeft' = RxStopBit - 1
      BY <1>4, <1>11, <1>12, <2>1, Zenon
    <3>3. RxAt' = Bits + 1
      BY <1>7, <2>1, Zenon DEF RxAt, At
    <3>4. a = Bits
      BY <1>4, <1>9, <1>13, <3>3
    <3>5. k = 0
      BY <1>4, <1>13, <3>4
    <3> QED
      BY <1>4, <3>1, <3>2, <3>5
  <2>2. CASE rx'.state # "stop"
    <3>1. RxToStop' = RxLeft' + j
      BY <1>7, <1>9, <1>13, <2>2, Zenon DEF RxToStop
    <3>2. RxLeft' = RxBit - 1
      BY <1>4, <1>11, <1>12, <2>2, Zenon
    <3>3. j = k - RxBit
      BY <1>4, <1>13
    <3> QED
      BY <1>4, <1>13, <3>1, <3>2, <3>3
  <2> QED
    BY <2>1, <2>2
<1> QED
  BY <1>9, <1>10, <1>14, <1>15, Zenon

(***************************************************************************)
(* What the receiver has of a byte.                                        *)
(***************************************************************************)

(* What a step of the receiver keeps.                                      *)
RxKept ==
  /\ rx_r' \in 0 .. RxM /\ rx_tick' \in BOOLEAN
  /\ rx' \in [state : RxStates, s : Nat, n : Nat, b : Fields,
              e_parity : BOOLEAN]
  /\ e_frame' \in BOOLEAN
  /\ RxInv'

(* A bit shifted in on top of the first bits of a byte.                    *)
LEMMA OneMoreBit ==
  ASSUME DBIT \in Nat, NEW g \in 0 .. DBIT - 1, NEW b \in Fields, NEW byte,
         \A i \in 0 .. g - 1 : b[DBIT - g + i] = byte[i]
  PROVE  \A i \in 0 .. (g + 1) - 1 :
           ShiftIn(b, byte[g])[DBIT - (g + 1) + i] = byte[i]
<1> SUFFICES ASSUME NEW i \in 0 .. (g + 1) - 1
             PROVE  ShiftIn(b, byte[g])[DBIT - (g + 1) + i] = byte[i]
  OBVIOUS
<1>1. PICK k \in 0 .. DBIT - 1 : k = DBIT - (g + 1) + i
  OBVIOUS
<1>2. ShiftIn(b, byte[g])[k] = IF k = DBIT - 1 THEN byte[g] ELSE b[k + 1]
  BY DEF ShiftIn
<1>3. CASE i = g
  <2>1. k = DBIT - 1
    BY <1>1, <1>3
  <2> QED
    BY <1>1, <1>2, <1>3, <2>1, Zenon
<1>4. CASE i # g
  <2>1. i \in 0 .. g - 1 /\ k # DBIT - 1 /\ k + 1 = DBIT - g + i
    BY <1>1, <1>4
  <2>2. b[k + 1] = byte[i]
    BY <2>1, Zenon
  <2> QED
    BY <1>1, <1>2, <2>1, <2>2, Zenon
<1> QED
  BY <1>3, <1>4

(* All the bits of a byte make the byte.                                   *)
LEMMA WholeByte ==
  ASSUME DBIT \in Nat, NEW b \in Fields, NEW byte \in Fields,
         \A i \in 0 .. DBIT - 1 : b[DBIT - DBIT + i] = byte[i]
  PROVE  b = byte
<1>1. ASSUME NEW i \in 0 .. DBIT - 1
      PROVE  b[i] = byte[i]
  <2>1. DBIT - DBIT + i = i
    OBVIOUS
  <2> QED
    BY <2>1, Zenon
<1> QED
  BY <1>1 DEF Fields

(* A step of the receiver inside a frame, when what it samples is the bit  *)
(* of byte that it is at.                                                  *)
LEMMA RxActive ==
  ASSUME Types, RxInv, rx.state # "idle", RxBaud!Clock(RxM), Receive,
         format' = format, ~rx_done_tick,
         NEW byte \in Fields, Taken(byte), Checked,
         RxLeft = 0 /\ RxAt \in 1 .. Bits => line = Level(RxAt, byte)
  PROVE  /\ RxKept /\ rx'.state # "idle" /\ RxToStop' = RxToStop - 1
         /\ Taken(byte)' /\ Checked'
<1>1. /\ rx_r' \in 0 .. RxM /\ rx_tick' \in BOOLEAN
      /\ rx_tick' => rx_r' = 0
      /\ rx_r' = 0 => rx_tick'
  BY RxDivides
<1>2. dbit' = dbit /\ pbit' = pbit
  BY DEF dbit, pbit
<1>3. /\ rx \in [state : RxStates, s : Nat, n : Nat, b : Fields,
                 e_parity : BOOLEAN]
      /\ e_frame \in BOOLEAN
  BY DEF Types
<1>4. /\ dbit \in Nat \ {0} /\ DBIT \in Nat /\ Bits \in Nat \ {0}
      /\ dbit = DBIT \/ dbit = DBIT - 1
      /\ Bits = IF pbit > 0 THEN dbit + 1 ELSE dbit
  BY Lengths DEF Types
<1>5. rx.state = "stop" => RxLeft # 0
  BY RxPlace, Lengths DEF Types
<1>6. CASE RxLeft # 0
  <2>1. /\ rx' = [rx EXCEPT !.s = RxCount]
        /\ RxCount \in Nat /\ RxCount < RxTicks
        /\ RxTicks' = RxTicks /\ RxToStop' = RxToStop - 1
    BY <1>6, RxInside
  <2>2. /\ rx'.state = rx.state /\ rx'.s = RxCount /\ rx'.n = rx.n
        /\ rx'.b = rx.b /\ rx'.e_parity = rx.e_parity
    BY <1>3, <2>1
  <2>3. rx' \in [state : RxStates, s : Nat, n : Nat, b : Fields,
                 e_parity : BOOLEAN]
    BY <1>3, <2>1
  <2>4. e_frame' \in BOOLEAN
    <3>1. /\ rx.state = "start" => ~(rx_tick /\ rx.s = (RxOS - 1) \div 2)
          /\ rx.state = "stop" => ~rx_done_tick
      <4>1. rx_tick /\ rx.s = (RxOS - 1) \div 2 => rx.state # "start"
        <5>1. PICK h \in Nat : h = (RxOS - 1) \div 2
          BY Lengths DEF Types
        <5>2. rx.state = "start" => RxTicks = h + 1
          BY <5>1, Zenon DEF RxTicks
        <5>3. rx.state = "start" => RxTicks - 1 = h
          BY <5>2
        <5>4. ~(rx_tick /\ rx.s = RxTicks - 1)
          BY <1>6, RxEdge
        <5> QED
          BY <5>1, <5>3, <5>4, Zenon
      <4> QED
        BY <4>1
    <3> QED
      BY <1>3, <3>1, Zenon
         DEF Receive, RxIdle, RxStart, RxData, RxParity, RxStop
  <2>5. RxInv'
    <3>1. rx'.s < RxTicks'
      BY <2>1, <2>2, Zenon
    <3>2. /\ rx.state = "data" => rx.n < dbit
          /\ rx.state = "parity" => pbit > 0
      BY DEF RxInv
    <3> QED
      BY <1>1, <1>2, <2>2, <3>1, <3>2, Zenon DEF RxInv
  <2>6. Taken(byte)'
    BY <1>2, <2>2, Zenon DEF Taken, Got
  <2>7. Checked'
    BY <1>2, <2>2, Zenon DEF Checked
  <2> QED
    BY <1>1, <2>1, <2>2, <2>3, <2>4, <2>5, <2>6, <2>7, Zenon DEF RxKept
<1>7. CASE RxLeft = 0
  <2>1. /\ rx' \in [state : RxStates, s : Nat, n : Nat, b : Fields,
                    e_parity : BOOLEAN]
        /\ e_frame' \in BOOLEAN
        /\ rx'.state \in {"data", "parity", "stop"} /\ rx'.s = 0
        /\ rx'.state = "data" => rx'.n < dbit
        /\ rx'.state = "parity" => pbit > 0
        /\ RxToStop' = RxToStop - 1
        /\ rx.state = "start" => /\ rx'.b = rx.b /\ Got' = 0
                                 /\ rx'.state = "data"
        /\ rx.state = "data" => /\ rx'.b = ShiftIn(rx.b, line)
                                /\ Got' = Got + 1
                                /\ rx'.state = "stop" => ~rx'.e_parity
        /\ rx.state = "parity" => /\ rx'.b = rx.b /\ Got' = Got
                                  /\ rx'.state = "stop"
                                  /\ rx'.e_parity = (Parity(rx.b) # line)
    BY <1>5, <1>7, RxEnds
  <2>2. RxInv'
    <3>1. rx'.s < RxTicks'
      BY <2>1, Lengths DEF RxTicks, Types
    <3> QED
      BY <1>1, <1>2, <2>1, <3>1, Zenon DEF RxInv
  <2>3. rx'.state # "idle"
    BY <2>1
  <2>4. Taken(byte)' /\ Checked'
    <3>1. CASE rx.state = "start"
      <4>1. Got' = 0 /\ rx'.state = "data"
        BY <2>1, <3>1
      <4>2. 0 .. 0 - 1 = {}
        OBVIOUS
      <4>3. Taken(byte)'
        BY <4>1, <4>2 DEF Taken
      <4>4. Checked'
        BY <4>1 DEF Checked
      <4> QED
        BY <4>3, <4>4
    <3>2. CASE rx.state = "data"
      <4>1. PICK g \in 0 .. DBIT - 1 : g = Got /\ g < dbit /\ g = rx.n
        <5>1. Got = rx.n /\ rx.n \in Nat /\ rx.n < dbit
          BY <1>3, <3>2 DEF Got, RxInv
        <5> QED
          BY <1>4, <5>1
      <4>2. line = byte[g]
        <5>1. PICK k \in Nat : k = g + 1
          OBVIOUS
        <5>2. RxAt = k
          BY <3>2, <4>1, <5>1, Zenon DEF RxAt, At
        <5>3. /\ k \in 1 .. Bits /\ k # 0 /\ k # Bits + 1 /\ k <= dbit
              /\ k - 1 = g
          BY <1>4, <4>1, <5>1
        <5>4. line = Level(k, byte)
          BY <1>7, <5>2, <5>3, Zenon
        <5>5. Level(k, byte) = byte[k - 1]
          BY <5>3, Zenon DEF Level
        <5> QED
          BY <5>3, <5>4, <5>5, Zenon
      <4>3. \A i \in 0 .. g - 1 : rx.b[DBIT - g + i] = byte[i]
        BY <4>1, Zenon DEF Taken
      <4>4. rx.b \in Fields
        BY <1>3
      <4>5. \A i \in 0 .. (g + 1) - 1 :
              ShiftIn(rx.b, byte[g])[DBIT - (g + 1) + i] = byte[i]
        <5>1. PICK b \in Fields : b = rx.b
          BY <4>4
        <5>2. \A i \in 0 .. g - 1 : b[DBIT - g + i] = byte[i]
          BY <4>3, <5>1, Zenon
        <5>3. \A i \in 0 .. (g + 1) - 1 :
                ShiftIn(b, byte[g])[DBIT - (g + 1) + i] = byte[i]
          BY <1>4, <5>2, OneMoreBit, Zenon
        <5> QED
          BY <5>1, <5>3, Zenon
      <4>6. rx'.b = ShiftIn(rx.b, byte[g]) /\ Got' = g + 1
        BY <2>1, <3>2, <4>1, <4>2
      <4>7. Taken(byte)'
        BY <4>5, <4>6, Zenon DEF Taken
      <4>8. Checked'
        BY <2>1, <3>2, Zenon DEF Checked
      <4> QED
        BY <4>7, <4>8
    <3>3. CASE rx.state = "parity"
      <4>1. /\ rx'.b = rx.b /\ Got' = Got /\ rx'.state = "stop"
            /\ rx'.e_parity = (Parity(rx.b) # line)
        BY <2>1, <3>3
      <4>2. Taken(byte)'
        BY <4>1, Zenon DEF Taken
      <4>3. ASSUME dbit = DBIT
            PROVE  ~rx'.e_parity
        <5>1. Got = DBIT
          BY <3>3, <4>3 DEF Got
        <5>2. \A i \in 0 .. DBIT - 1 : rx.b[DBIT - DBIT + i] = byte[i]
          BY <5>1, Zenon DEF Taken
        <5>3. rx.b = byte
          <6>1. rx.b \in Fields
            BY <1>3
          <6> QED
            BY <1>4, <5>2, <6>1, WholeByte
        <5>4. pbit > 0 /\ RxAt = Bits
          BY <3>3 DEF RxInv, RxAt, At
        <5>5. Bits \in 1 .. Bits /\ Bits # 0 /\ Bits # Bits + 1
                                 /\ ~(Bits <= dbit)
          BY <1>4, <5>4
        <5>6. line = Level(Bits, byte)
          BY <1>7, <5>4, <5>5, Zenon
        <5>7. Level(Bits, byte) = Parity(byte)
          BY <5>5, Zenon DEF Level
        <5> QED
          BY <4>1, <5>3, <5>6, <5>7, Zenon
      <4>4. pbit > 0
        BY <3>3 DEF RxInv
      <4>5. Checked'
        BY <1>2, <4>3, <4>4, Zenon DEF Checked
      <4> QED
        BY <4>2, <4>5
    <3> QED
      BY <1>3, <1>5, <1>7, <3>1, <3>2, <3>3 DEF RxStates
  <2> QED
    BY <1>1, <2>1, <2>2, <2>3, <2>4, Zenon DEF RxKept
<1> QED
  BY <1>6, <1>7

(* An idle receiver begins a frame at a low line, and only there.          *)
LEMMA RxIdles ==
  ASSUME Types, RxInv, rx.state = "idle", RxBaud!Clock(RxM), Receive,
         format' = format
  PROVE  /\ RxKept
         /\ line = 1 => rx'.state = "idle"
         /\ line = 0 => /\ rx'.state = "start"
                        /\ RxToStop' \in Int
                        /\ RxToStop' - Bits * RxBit \in Middle .. Middle + RxM
                        /\ \A byte : Taken(byte)'
                        /\ Checked'
<1>1. /\ rx_r' \in 0 .. RxM /\ rx_tick' \in BOOLEAN
      /\ rx_tick' => rx_r' = 0
      /\ rx_r' = 0 => rx_tick'
      /\ RxWait' \in 0 .. RxPeriod - 1
  BY RxDivides
<1>2. /\ rx' = IF line = 0 THEN [rx EXCEPT !.state = "start", !.s = 0]
                           ELSE rx
      /\ e_frame' = e_frame
  BY Zenon DEF Receive, RxIdle, RxStart, RxData, RxParity, RxStop
<1>3. /\ rx \in [state : RxStates, s : Nat, n : Nat, b : Fields,
                 e_parity : BOOLEAN]
      /\ e_frame \in BOOLEAN /\ line \in {0, 1}
  BY DEF Types
<1>4. CASE line = 1
  <2>1. rx' = rx
    BY <1>2, <1>4
  <2>2. RxInv'
    BY <1>1, <2>1 DEF RxInv
  <2>3. line # 0
    BY <1>4
  <2>4. e_frame' \in BOOLEAN
    BY <1>2, <1>3, Zenon
  <2> QED
    BY <1>1, <1>3, <1>4, <2>1, <2>2, <2>3, <2>4, Zenon DEF RxKept
<1>5. CASE line = 0
  <2>1. /\ rx'.state = "start" /\ rx'.s = 0
        /\ rx' \in [state : RxStates, s : Nat, n : Nat, b : Fields,
                    e_parity : BOOLEAN]
    BY <1>2, <1>3, <1>5 DEF RxStates
  <2>2. PICK h \in Nat : h = (RxOS - 1) \div 2
    BY Lengths DEF Types
  <2>3. RxTicks' = h + 1
    BY <2>1, <2>2, Zenon DEF RxTicks
  <2>4. RxInv'
    <3>1. rx'.s < RxTicks'
      BY <2>1, <2>3
    <3> QED
      BY <1>1, <2>1, <3>1 DEF RxInv
  <2>5. /\ RxPeriod \in Nat \ {0} /\ Middle \in Nat /\ Bits \in Nat
        /\ RxBit \in Nat /\ RxPeriod = RxM + 1 /\ RxM \in Nat
    BY Lengths DEF Types, RxPeriod
  <2>6. Middle = h * RxPeriod
    BY <2>2, Lengths DEF Types
  <2>7. RxLeft' = Middle + RxWait'
    <3>1. RxLeft' = ((h + 1) - 1 - 0) * RxPeriod + RxWait'
      BY <2>1, <2>3, Zenon DEF RxLeft
    <3>2. (h + 1) - 1 - 0 = h
      OBVIOUS
    <3> QED
      BY <2>6, <3>1, <3>2, Zenon
  <2>8. RxToStop' = RxLeft' + (Bits - 0) * RxBit
    <3>1. Bits' = Bits
      BY DEF Bits
    <3>2. RxAt' = 0
      BY <2>1 DEF RxAt, At
    <3> QED
      BY <2>1, <3>1, <3>2, Zenon DEF RxToStop
  <2>9. /\ RxToStop' \in Int
        /\ RxToStop' - Bits * RxBit \in Middle .. Middle + RxM
    <3>1. PICK k \in Int : k = Bits * RxBit
      BY <2>5
    <3>2. Bits - 0 = Bits
      BY <2>5
    <3>3. RxToStop' = Middle + RxWait' + k
      BY <2>7, <2>8, <3>1, <3>2, Zenon
    <3>4. RxWait' \in 0 .. RxM
      <4>1. RxWait' \in 0 .. RxPeriod - 1
        BY <1>1, Zenon
      <4> QED
        BY <2>5, <4>1
    <3>5. PICK w \in 0 .. RxM : w = RxWait'
      BY <3>4
    <3>6. Middle \in Int /\ RxToStop' = Middle + w + k
      BY <2>5, <3>3, <3>5
    <3>7. RxToStop' - k = Middle + w /\ RxToStop' \in Int
      BY <3>6
    <3>8. Middle + w \in Middle .. Middle + RxM
      BY <2>5
    <3> QED
      BY <3>1, <3>7, <3>8, Zenon
  <2>10. \A byte : Taken(byte)'
    <3>1. Got' = 0 /\ 0 .. 0 - 1 = {}
      BY <2>1 DEF Got
    <3> QED
      BY <3>1 DEF Taken
  <2>11. Checked'
    BY <2>1 DEF Checked
  <2>12. line # 1
    BY <1>5
  <2>13. e_frame' \in BOOLEAN
    BY <1>2, <1>3, Zenon
  <2> QED
    BY <1>1, <2>1, <2>4, <2>9, <2>10, <2>11, <2>12, <2>13, Zenon DEF RxKept
<1> QED
  BY <1>3, <1>4, <1>5

(* Done, it waits for the next one.                                        *)
LEMMA RxDone ==
  ASSUME Types, RxInv, RxBaud!Clock(RxM), Receive, format' = format,
         rx_done_tick
  PROVE  RxKept /\ rx'.state = "idle"
<1>1. /\ rx_r' \in 0 .. RxM /\ rx_tick' \in BOOLEAN
      /\ rx_tick' => rx_r' = 0
      /\ rx_r' = 0 => rx_tick'
  BY RxDivides
<1>2. rx.state = "stop"
  BY DEF rx_done_tick
<1>3. /\ rx' = [rx EXCEPT !.state = "idle", !.s = 0, !.n = 0]
      /\ e_frame' = (line = 0)
  BY <1>2, Zenon DEF Receive, RxIdle, RxStart, RxData, RxParity, RxStop
<1>4. rx \in [state : RxStates, s : Nat, n : Nat, b : Fields,
              e_parity : BOOLEAN]
  BY DEF Types
<1>5. /\ rx'.state = "idle"
      /\ rx' \in [state : RxStates, s : Nat, n : Nat, b : Fields,
                  e_parity : BOOLEAN]
  BY <1>3, <1>4 DEF RxStates
<1>6. RxInv'
  BY <1>1, <1>5 DEF RxInv
<1>7. e_frame' \in BOOLEAN
  BY <1>3, Zenon
<1> QED
  BY <1>1, <1>5, <1>6, <1>7, Zenon DEF RxKept

(***************************************************************************)
(* When the receiver samples.                                              *)
(***************************************************************************)

(* The tolerance in the lengths of the bits.                               *)
LEMMA Tolerance ==
  ASSUME format \in Formats, rate \in Rates
  PROVE  /\ \A j \in 0 .. Bits :
              /\ Middle + 1 + j * (RxBit - TxBit) >= 0
              /\ Middle + 1 + j * (RxBit - TxBit) + RxM + 1 + rate.m <= TxBit
              /\ Earliest(j, rate) = Middle + 1 + j * (RxBit - TxBit)
              /\ Latest(j, rate)
                   = Middle + 1 + j * (RxBit - TxBit) + RxM + 1 + rate.m
         /\ Earliest(Bits, rate) + RxStopBit >= TxBit
         /\ Latest(Bits, rate) + RxStopBit <= TxBit + TxStopBit
         /\ TxBit > TxPeriod
<1>1. Tolerated(format, rate)
  BY ToleranceAssumption
<1>2. /\ Bits = BitsOf(format) /\ TxBit = BitOf(rate)
      /\ TxStopBit = StopOf(rate)
  BY DEF Bits, TxBit, TxStopBit
<1>3. /\ Earliest(Bits, rate) + RxStopBit >= TxBit
      /\ Latest(Bits, rate) + RxStopBit <= TxBit + TxStopBit
  BY <1>1, <1>2, Zenon DEF Tolerated
<1>4. ASSUME NEW j \in 0 .. Bits
      PROVE  /\ Middle + 1 + j * (RxBit - TxBit) >= 0
             /\ Middle + 1 + j * (RxBit - TxBit) + RxM + 1 + rate.m <= TxBit
             /\ Earliest(j, rate) = Middle + 1 + j * (RxBit - TxBit)
             /\ Latest(j, rate)
                  = Middle + 1 + j * (RxBit - TxBit) + RxM + 1 + rate.m
  <2>1. Earliest(j, rate) >= 0 /\ Latest(j, rate) <= TxBit
    BY <1>1, <1>2, <1>4, Zenon DEF Tolerated
  <2>2. /\ Earliest(j, rate) = Middle + 1 + j * (RxBit - TxBit)
        /\ Latest(j, rate)
             = Middle + 1 + j * (RxBit - TxBit) + RxM + 1 + rate.m
    BY <1>2, Zenon DEF Earliest, Latest
  <2> QED
    BY <2>1, <2>2, Zenon
<1>5. TxBit > TxPeriod
  <2>1. 0 \in 0 .. Bits
    BY Lengths
  <2>2. Middle + 1 + 0 * (RxBit - TxBit) + RxM + 1 + rate.m <= TxBit
    BY <1>4, <2>1, Zenon
  <2>3. 0 * (RxBit - TxBit) = 0
    BY Lengths
  <2> QED
    BY <2>2, <2>3, Lengths DEF TxPeriod
<1> QED
  BY <1>3, <1>4, <1>5

(* The drift over n bits is that over j bits and over the n - j others.    *)
LEMMA Drift ==
  ASSUME NEW B \in Int, NEW C \in Int, NEW n \in Int, NEW j \in Int
  PROVE  (n - j) * C - n * (C - B) = (n - j) * B - j * (C - B)
<1>1. PICK x \in Int, y \in Int, z \in Int, w \in Int :
        x = n * B /\ y = j * B /\ z = n * C /\ w = j * C
  OBVIOUS
<1>2. (n - j) * C = z - w /\ (n - j) * B = x - y
  BY <1>1
<1>3. n * (C - B) = z - x /\ j * (C - B) = w - y
  BY <1>1
<1> QED
  BY <1>2, <1>3

(* A place on the line in bits and in edges is one bit.                    *)
LEMMA OneBit ==
  ASSUME NEW B \in Nat \ {0}, NEW k \in Int, NEW i \in Int, NEW u \in 1 .. B,
         u + k * B >= i * B, u + k * B < i * B + B
  PROVE  (u < B /\ k = i) \/ (u = B /\ k + 1 = i)
<1>1. PICK x \in Int, y \in Int : x = k * B /\ y = i * B
  OBVIOUS
<1>2. CASE k = i
  BY <1>1, <1>2
<1>3. CASE k + 1 = i
  <2>1. y = x + B
    BY <1>1, <1>3
  <2> QED
    BY <1>1, <1>3, <2>1
<1>4. CASE k > i
  <2>1. PICK d \in Nat : k = i + 1 + d
    <3>1. k - i - 1 \in Nat /\ k = i + 1 + (k - i - 1)
      BY <1>4
    <3> QED
      BY <3>1
  <2>2. PICK z \in Nat : z = d * B
    OBVIOUS
  <2>3. x = y + B + z
    BY <1>1, <2>1, <2>2
  <2> QED
    BY <1>1, <2>2, <2>3
<1>5. CASE k + 1 < i
  <2>1. PICK d \in Nat : i = k + 2 + d
    <3>1. i - k - 2 \in Nat /\ i = k + 2 + (i - k - 2)
      BY <1>5
    <3> QED
      BY <3>1
  <2>2. PICK z \in Nat : z = d * B
    OBVIOUS
  <2>3. y = x + B + B + z
    BY <1>1, <2>1, <2>2
  <2> QED
    BY <1>1, <2>2, <2>3
<1> QED
  BY <1>2, <1>3, <1>4, <1>5

(* Where the transmitter is when the receiver samples bit j: inside that   *)
(* bit, as the line shows it.                                              *)
LEMMA Inside ==
  ASSUME format \in Formats, rate \in Rates, NEW j \in 1 .. Bits,
         NEW lag \in Earliest(Bits, rate) + 2 - TxBit
                     .. Latest(Bits, rate) + 1 - TxBit,
         NEW t \in Int, t = (Bits - j) * RxBit - lag
  PROVE  /\ t + 1 >= (Bits - j) * TxBit
         /\ t + 1 < (Bits - j) * TxBit + TxBit
<1>1. /\ Bits \in Nat \ {0} /\ TxBit \in Nat /\ RxBit \in Nat
      /\ Middle \in Nat /\ RxM \in Nat /\ rate.m \in Nat
  BY Lengths
<1>2. j \in 0 .. Bits /\ Bits \in 0 .. Bits
  BY <1>1
<1>3. PICK x \in Int, y \in Int, z \in Int, w \in Int :
        /\ x = (Bits - j) * RxBit /\ y = (Bits - j) * TxBit
        /\ z = Bits * (RxBit - TxBit) /\ w = j * (RxBit - TxBit)
  BY <1>1
<1>4. x - z = y - w
  <2>1. (Bits - j) * RxBit - Bits * (RxBit - TxBit)
          = (Bits - j) * TxBit - j * (RxBit - TxBit)
    BY <1>1, Drift
  <2> QED
    BY <1>3, <2>1, Zenon
<1>5. Middle + 1 + w >= 0 /\ Middle + 1 + w + RxM + 1 + rate.m <= TxBit
  BY <1>2, <1>3, Tolerance, Zenon
<1>6. /\ Earliest(Bits, rate) = Middle + 1 + z
      /\ Latest(Bits, rate) = Middle + 1 + z + RxM + 1 + rate.m
  BY <1>2, <1>3, Tolerance, Zenon
<1>7. /\ lag \in Int
      /\ lag >= Middle + 1 + z + 2 - TxBit
      /\ lag <= Middle + 1 + z + RxM + 1 + rate.m + 1 - TxBit
  BY <1>1, <1>6
<1>8. t = x - lag
  BY <1>3, Zenon
<1>9. t + 1 >= y /\ t + 1 < y + TxBit
  BY <1>1, <1>4, <1>5, <1>7, <1>8
<1> QED
  BY <1>3, <1>9, Zenon

(* Both ends inside a frame.                                               *)
Together == /\ Types /\ TxInv /\ RxInv
            /\ tx.state # "idle" /\ rx.state # "idle"
            /\ Shows
            /\ Lag \in Earliest(Bits, rate) + 2 - TxBit
                       .. Latest(Bits, rate) + 1 - TxBit

(* The receiver samples every bit while the line shows it.                 *)
LEMMA Sample ==
  ASSUME Together, RxLeft = 0, RxAt \in 1 .. Bits
  PROVE  line = Level(RxAt, tx.b)
<1>1. /\ Types /\ TxInv /\ RxInv /\ Shows
      /\ tx.state # "idle" /\ rx.state # "idle"
  BY DEF Together
<1>2. /\ format \in Formats /\ rate \in Rates
      /\ Bits \in Nat \ {0} /\ TxBit \in Nat /\ RxBit \in Nat
      /\ TxStopBit \in Nat
  BY <1>1, Lengths DEF Types
<1>3. TxBit \in Nat \ {0}
  <2>1. TxBit > TxPeriod /\ TxPeriod \in Nat
    BY <1>2, Tolerance, Lengths
  <2> QED
    BY <1>2, <2>1
<1>4. PICK j \in 1 .. Bits : j = RxAt
  OBVIOUS
<1>5. rx.state # "stop" /\ RxToStop = 0 + (Bits - j) * RxBit
  <2>1. rx.state # "stop"
    <3>1. ~(Bits + 1 \in 1 .. Bits)
      BY <1>2
    <3> QED
      BY <1>1, <3>1, RxPlace
  <2> QED
    BY <1>1, <1>4, <2>1, RxPlace
<1>6. PICK t \in Int, lag \in Int : t = TxToStop /\ lag = Lag
  <2>1. TxToStop \in Int /\ RxToStop \in Int
    BY <1>1, TxPlace, RxPlace
  <2> QED
    BY <2>1 DEF Lag
<1>7. PICK x \in Int, y \in Int :
        x = (Bits - j) * RxBit /\ y = (Bits - j) * TxBit
  BY <1>2
<1>8. t = (Bits - j) * RxBit - lag
  <2>1. x - t = lag
    <3>1. RxToStop = x
      BY <1>5, <1>7
    <3> QED
      BY <1>6, <3>1 DEF Lag
  <2>2. t = x - lag
    BY <2>1
  <2> QED
    BY <1>7, <2>2, Zenon
<1>9. lag \in Earliest(Bits, rate) + 2 - TxBit
              .. Latest(Bits, rate) + 1 - TxBit
  BY <1>6 DEF Together
<1>10. t + 1 >= y /\ t + 1 < y + TxBit
  <2>1. /\ t + 1 >= (Bits - j) * TxBit
        /\ t + 1 < (Bits - j) * TxBit + TxBit
    BY <1>2, <1>8, <1>9, Inside
  <2> QED
    BY <1>7, <2>1, Zenon
<1>11. CASE tx.state # "stop"
  <2>1. /\ TxTicks * TxPeriod = TxBit
        /\ TxLeft \in 0 .. TxBit - 1
        /\ TxAt \in 0 .. Bits
        /\ TxToStop = TxLeft + (Bits - TxAt) * TxBit
    BY <1>1, <1>11, TxPlace
  <2>2. PICK u \in 1 .. TxBit, k \in Int :
          u = TxLeft + 1 /\ k = Bits - TxAt
    BY <1>2, <1>3, <2>1
  <2>3. t + 1 = u + k * TxBit
    <3>1. PICK z \in Int : z = (Bits - TxAt) * TxBit
      BY <1>2, <2>1
    <3>2. t = TxLeft + z
      BY <1>6, <2>1, <3>1, Zenon
    <3>3. z = k * TxBit
      BY <2>2, <3>1, Zenon
    <3>4. t + 1 = u + z
      BY <2>1, <2>2, <3>2
    <3> QED
      BY <3>3, <3>4, Zenon
  <2>4. (u < TxBit /\ k = Bits - j) \/ (u = TxBit /\ k + 1 = Bits - j)
    <3>1. u + k * TxBit >= (Bits - j) * TxBit
      BY <1>7, <1>10, <2>3, Zenon
    <3>2. u + k * TxBit < (Bits - j) * TxBit + TxBit
      BY <1>7, <1>10, <2>3, Zenon
    <3>3. Bits - j \in Int
      BY <1>2
    <3> QED
      BY <1>3, <3>1, <3>2, <3>3, OneBit
  <2>5. CASE u < TxBit /\ k = Bits - j
    <3>1. TxAt = j /\ TxLeft # TxBit - 1
      BY <1>2, <2>1, <2>2, <2>5
    <3> QED
      BY <1>1, <1>4, <2>1, <3>1, Zenon DEF Shows
  <2>6. CASE u = TxBit /\ k + 1 = Bits - j
    <3>1. TxAt - 1 = j /\ TxAt > 0 /\ TxLeft = TxBit - 1
      BY <1>2, <2>1, <2>2, <2>6
    <3> QED
      BY <1>1, <1>4, <2>1, <3>1, Zenon DEF Shows
  <2> QED
    BY <2>4, <2>5, <2>6
<1>12. CASE tx.state = "stop"
  <2>1. /\ TxTicks * TxPeriod = TxStopBit
        /\ TxLeft \in 0 .. TxStopBit - 1
        /\ TxAt = Bits + 1
        /\ TxToStop = TxLeft - TxStopBit
    BY <1>1, <1>12, TxPlace
  <2>2. j = Bits /\ TxLeft = TxStopBit - 1
    <3>1. t + 1 >= y /\ t < 0 /\ t = TxLeft - TxStopBit
      BY <1>2, <1>6, <1>10, <2>1
    <3>2. y <= 0
      BY <1>2, <1>7, <3>1
    <3>3. j = Bits
      <4>1. SUFFICES ASSUME j # Bits
                     PROVE  FALSE
        OBVIOUS
      <4>2. PICK d \in Nat : Bits - j = 1 + d
        <5>1. Bits - j - 1 \in Nat /\ Bits - j = 1 + (Bits - j - 1)
          BY <1>2, <4>1
        <5> QED
          BY <5>1
      <4>3. PICK z \in Nat : z = d * TxBit
        BY <1>2
      <4>4. y = TxBit + z
        BY <1>2, <1>7, <4>2, <4>3
      <4> QED
        BY <1>3, <3>2, <4>3, <4>4
    <3>4. y = 0
      BY <1>2, <1>7, <3>3
    <3> QED
      BY <1>2, <2>1, <3>1, <3>3, <3>4
  <2>3. TxAt > 0 /\ TxAt - 1 = j
    BY <1>2, <2>1, <2>2
  <2> QED
    BY <1>1, <1>4, <2>1, <2>2, <2>3, Zenon DEF Shows
<1> QED
  BY <1>11, <1>12

(* The receiver looks for the stop bit when the line shows it.             *)
LEMMA StopSample ==
  ASSUME Together, rx_done_tick
  PROVE  line = 1 /\ tx.state = "stop"
<1>1. /\ Types /\ TxInv /\ RxInv /\ Shows
      /\ tx.state # "idle" /\ rx.state # "idle"
  BY DEF Together
<1>2. /\ format \in Formats /\ rate \in Rates
      /\ Bits \in Nat \ {0} /\ TxBit \in Nat
      /\ TxStopBit \in Nat /\ RxStopBit \in Nat /\ Bits \in 0 .. Bits
  BY <1>1, Lengths DEF Types
<1>3. RxToStop = -RxStopBit
  BY <1>1, RxPlace
<1>4. PICK e \in Int : e = Earliest(Bits, rate) /\ e + RxStopBit >= TxBit
  <2>1. Earliest(Bits, rate) \in Int
    BY <1>2, Lengths DEF Earliest, Bits, TxBit
  <2> QED
    BY <1>2, <2>1, Tolerance
<1>5. TxToStop \in Int /\ Lag \in Int /\ Lag >= e + 2 - TxBit
  <2>1. TxToStop \in Int
    BY <1>1, TxPlace
  <2>2. Lag \in Int
    BY <1>2, <1>3, <2>1 DEF Lag
  <2> QED
    BY <1>4, <2>1, <2>2 DEF Together
<1>6. TxToStop <= -2
  <2>1. Lag = -RxStopBit - TxToStop
    BY <1>3, Zenon DEF Lag
  <2> QED
    BY <1>2, <1>4, <1>5, <2>1
<1>7. tx.state = "stop"
  BY <1>1, <1>6, TxPlace
<1>8. /\ TxTicks * TxPeriod = TxStopBit
      /\ TxLeft \in Nat
      /\ TxAt = Bits + 1
      /\ TxToStop = TxLeft - TxStopBit
  <2>1. TxLeft \in 0 .. TxStopBit - 1
    BY <1>1, <1>7, TxPlace
  <2> QED
    BY <1>1, <1>2, <1>7, <2>1, TxPlace
<1>9. TxLeft # TxStopBit - 1
  BY <1>2, <1>6, <1>8
<1>10. line = Level(Bits + 1, tx.b)
  BY <1>1, <1>8, <1>9, Zenon DEF Shows
<1>11. Bits + 1 # 0
  BY <1>2
<1>12. line = 1
  BY <1>10, <1>11, Zenon DEF Level
<1> QED
  BY <1>7, <1>12

(* When the transmitter is done, so is the receiver, or at the next edge.  *)
LEMMA Finish ==
  ASSUME Together, tx_done_tick
  PROVE  RxToStop <= 1 - RxStopBit
<1>1. /\ Types /\ TxInv /\ RxInv
      /\ tx.state # "idle" /\ rx.state # "idle"
  BY DEF Together
<1>2. /\ format \in Formats /\ rate \in Rates
      /\ Bits \in Nat \ {0} /\ TxBit \in Nat
      /\ TxStopBit \in Nat /\ RxStopBit \in Nat
  BY <1>1, Lengths DEF Types
<1>3. TxToStop = -TxStopBit
  BY <1>1, TxPlace
<1>4. PICK l \in Int : /\ l = Latest(Bits, rate)
                       /\ l + RxStopBit <= TxBit + TxStopBit
  <2>1. Latest(Bits, rate) \in Int
    BY <1>2, Lengths DEF Latest, Earliest, Bits, TxBit
  <2> QED
    BY <1>2, <2>1, Tolerance
<1>5. RxToStop \in Int
  BY <1>1, RxPlace
<1>6. Lag = RxToStop + TxStopBit
  BY <1>2, <1>3, <1>5 DEF Lag
<1>7. Lag <= l + 1 - TxBit
  BY <1>2, <1>4, <1>5, <1>6 DEF Together
<1> QED
  BY <1>2, <1>4, <1>5, <1>6, <1>7

(***************************************************************************)
(* The invariant is inductive.                                             *)
(***************************************************************************)

(* Before the first byte the line is quiet.                                *)
LEMMA LinkInit ==
  ASSUME Init
  PROVE  LinkInv
<1>1. /\ tx.state = "idle" /\ rx.state = "idle" /\ line = 1
      /\ pending = << >> /\ tx_tick = FALSE /\ rx_tick = FALSE /\ rx_r = 0
  BY DEF Init, RxBaud!Init
<1>2. Types
  <2>1. format \in Formats /\ rate \in Rates
    BY DEF Init
  <2>2. /\ RxM \in Nat /\ DBIT \in Nat
    BY LinkAssumption
  <2>3. AllZero \in Fields
    BY <2>2 DEF AllZero, Fields
  <2>4. /\ tx \in [state : TxStates, s : Nat, n : Nat, b : Fields]
        /\ rx \in [state : RxStates, s : Nat, n : Nat, b : Fields,
                   e_parity : BOOLEAN]
    BY <2>3 DEF Init, TxStates, RxStates
  <2>5. rx_r \in 0 .. RxM /\ tx_r \in 0 .. rate.m
    BY <1>1, <2>2 DEF Init
  <2>6. tx_tick \in BOOLEAN /\ rx_tick \in BOOLEAN /\ e_frame \in BOOLEAN
    BY <1>1, Zenon DEF Init
  <2>7. din \in Bytes \cup {None} /\ line \in {0, 1}
    BY <1>1 DEF Init
  <2> QED
    BY <2>1, <2>4, <2>5, <2>6, <2>7, Zenon DEF Types
<1>3. TxInv /\ RxInv
  BY <1>1 DEF TxInv, RxInv
<1>4. Quiet
  BY <1>1 DEF Quiet
<1> QED
  BY <1>2, <1>3, <1>4 DEF LinkInv

(* The types and what each end keeps are those of the two steps.           *)
LEMMA Keeping ==
  ASSUME Types, TxKept, RxKept, format' = format, rate' = rate
  PROVE  Types' /\ TxInv' /\ RxInv'
BY Zenon DEF Types, TxKept, RxKept, Fields

(* The settings stay, and with them every length.                          *)
LEMMA LengthsKept ==
  ASSUME format' = format, rate' = rate
  PROVE  /\ Bits' = Bits /\ TxBit' = TxBit /\ TxStopBit' = TxStopBit
         /\ TxPeriod' = TxPeriod
         /\ Earliest(Bits, rate)' = Earliest(Bits, rate)
         /\ Latest(Bits, rate)' = Latest(Bits, rate)
BY Zenon DEF Bits, TxBit, TxStopBit, TxPeriod, BitsOf, BitOf, StopOf, Earliest,
             Latest

(* A transmitter in its stop bit keeps the line high.                      *)
LEMMA TxStopping ==
  ASSUME tx.state = "stop", Transmit, Types
  PROVE  line' = 1 /\ tx'.state \in {"stop", "idle"}
<1>1. /\ line' = 1
      /\ tx' = [tx EXCEPT !.state = "idle"] \/ tx' = [tx EXCEPT !.s = TxCount]
  BY DEF Transmit, TxIdle, TxStart, TxData, TxParity, TxStop
<1> QED
  BY <1>1 DEF Types

Clocks == /\ TxBaud!Clock(rate.m) /\ RxBaud!Clock(RxM)
          /\ rate' = rate /\ format' = format

Step == /\ Types /\ TxInv /\ RxInv
        /\ Clocks /\ Transmit /\ Feed /\ Receive /\ Record

(* After the step of an idle transmitter, with nothing left to deliver.    *)
LEMMA SenderBegins ==
  ASSUME Step, tx.state = "idle", rx'.state = "idle", RxKept,
         pending' = IF din # None THEN Append(<< >>, din) ELSE << >>
  PROVE  (Quiet \/ Falling)' /\ Types' /\ TxInv' /\ RxInv'
<1>1. /\ Types /\ TxInv /\ RxInv /\ rate' = rate /\ format' = format
      /\ TxBaud!Clock(rate.m) /\ Transmit /\ Feed
  BY DEF Step, Clocks
<1>2. /\ TxKept /\ line' = 1
      /\ din = None => tx'.state = "idle"
      /\ din # None => /\ tx'.state = "start" /\ tx'.b = din
                       /\ TxLeft' \in TxBit - TxPeriod .. TxBit - 1
  BY <1>1, TxIdles
<1>3. Types' /\ TxInv' /\ RxInv'
  BY <1>1, <1>2, Keeping
<1>4. CASE din = None
  <2>1. pending' = << >>
    BY <1>4
  <2> QED
    BY <1>2, <1>3, <1>4, <2>1 DEF Quiet
<1>5. CASE din # None
  <2>1. pending' = << tx'.b >>
    BY <1>2, <1>5
  <2>2. TxBit' = TxBit /\ TxPeriod' = TxPeriod
    BY <1>1, LengthsKept
  <2>3. TxLeft' >= TxBit' - TxPeriod'
    BY <1>1, <1>2, <1>5, <2>2, Lengths DEF Types
  <2>4. Falling'
    BY <1>2, <1>5, <2>1, <2>3, Zenon DEF Falling
  <2> QED
    BY <1>3, <2>4
<1> QED
  BY <1>4, <1>5

(* Between frames nothing happens, or a byte begins.                       *)
LEMMA QuietStep ==
  ASSUME Step, Quiet
  PROVE  (Quiet \/ Falling)' /\ Types' /\ TxInv' /\ RxInv'
<1>1. /\ Types /\ TxInv /\ RxInv /\ rate' = rate /\ format' = format
      /\ TxBaud!Clock(rate.m) /\ RxBaud!Clock(RxM)
      /\ Transmit /\ Feed /\ Receive /\ Record
  BY DEF Step, Clocks
<1>2. /\ rx.state = "idle" /\ line = 1 /\ pending = << >>
      /\ tx.state \in {"idle", "stop"}
  BY DEF Quiet
<1>3. RxKept /\ rx'.state = "idle"
  BY <1>1, <1>2, RxIdles
<1>4. ~rx_done_tick
  BY <1>2 DEF rx_done_tick
<1>5. CASE tx.state = "idle"
  <2>1. pending' = IF din # None THEN Append(<< >>, din) ELSE << >>
    BY <1>1, <1>2, <1>4, <1>5 DEF Record
  <2> QED
    BY <1>3, <1>5, <2>1, SenderBegins
<1>6. CASE tx.state = "stop"
  <2>1. line' = 1 /\ tx'.state \in {"stop", "idle"}
    BY <1>1, <1>6, TxStopping
  <2>2. TxKept
    BY <1>1, <1>6, TxActive
  <2>3. pending' = << >>
    BY <1>1, <1>2, <1>4, <1>6 DEF Record
  <2>4. Types' /\ TxInv' /\ RxInv'
    BY <1>1, <1>3, <2>2, Keeping
  <2> QED
    BY <1>3, <2>1, <2>3, <2>4 DEF Quiet
<1> QED
  BY <1>2, <1>5, <1>6

(* A start bit on its way is seen, or still has time to be.                *)
LEMMA FallingStep ==
  ASSUME Step, Falling
  PROVE  (Falling \/ Framed)' /\ Types' /\ TxInv' /\ RxInv'
<1>1. /\ Types /\ TxInv /\ RxInv /\ rate' = rate /\ format' = format
      /\ TxBaud!Clock(rate.m) /\ RxBaud!Clock(RxM)
      /\ Transmit /\ Feed /\ Receive /\ Record
  BY DEF Step, Clocks
<1>2. /\ rx.state = "idle" /\ tx.state = "start" /\ pending = << tx.b >>
      /\ line \in {0, 1}
  BY <1>1 DEF Falling, Types
<1>3. /\ TxKept /\ tx'.state # "idle" /\ tx'.b = tx.b
      /\ TxToStop' = TxToStop - 1 /\ Shows'
  <2>1. ~tx_done_tick
    BY <1>2 DEF tx_done_tick
  <2> QED
    BY <1>1, <1>2, <2>1, TxActive
<1>4. pending' = << tx'.b >>
  <2>1. ~rx_done_tick
    BY <1>2 DEF rx_done_tick
  <2> QED
    BY <1>1, <1>2, <1>3, <2>1 DEF Record
<1>5. /\ Bits' = Bits /\ TxBit' = TxBit /\ TxPeriod' = TxPeriod
      /\ Earliest(Bits, rate)' = Earliest(Bits, rate)
      /\ Latest(Bits, rate)' = Latest(Bits, rate)
  BY <1>1, LengthsKept
<1>6. /\ format \in Formats /\ rate \in Rates
      /\ Bits \in Nat \ {0} /\ TxBit \in Nat /\ TxPeriod \in Nat \ {0}
      /\ TxBit > TxPeriod /\ TxPeriod = rate.m + 1 /\ rate.m \in Nat
      /\ RxBit \in Nat /\ Middle \in Nat /\ RxM \in Nat
  BY <1>1, Lengths, Tolerance DEF Types, TxPeriod
<1>7. /\ TxLeft \in 0 .. TxBit - 1
      /\ TxAt = 0
      /\ TxToStop = TxLeft + (Bits - TxAt) * TxBit
  BY <1>1, <1>2, TxPlace DEF TxAt, At
<1>8. CASE line = 1
  <2>1. TxLeft >= TxBit - TxPeriod
    BY <1>8 DEF Falling
  <2>2. TxLeft # 0
    BY <1>6, <1>7, <2>1
  <2>3. tx' = [tx EXCEPT !.s = TxCount] /\ TxLeft' = TxLeft - 1
    BY <1>1, <1>2, <2>2, TxInside
  <2>4. tx'.state = "start"
    BY <1>1, <1>2, <2>3 DEF Types
  <2>5. line' = 0
    <3>1. line' = Level(0, tx.b)
      BY <1>1, <1>2, <1>7, Levels
    <3> QED
      BY <3>1 DEF Level
  <2>6. RxKept /\ rx'.state = "idle"
    BY <1>1, <1>2, <1>8, RxIdles
  <2>7. TxLeft' + 1 >= TxBit' - TxPeriod' /\ TxLeft' + 1 < TxBit'
    BY <1>5, <1>6, <1>7, <2>1, <2>3
  <2>8. Falling'
    BY <1>4, <2>4, <2>5, <2>6, <2>7, Zenon DEF Falling
  <2> QED
    BY <1>1, <1>3, <2>6, <2>8, Keeping
<1>9. CASE line = 0
  <2>1. TxLeft + 1 >= TxBit - TxPeriod /\ TxLeft + 1 < TxBit
    BY <1>9 DEF Falling
  <2>2. /\ RxKept /\ rx'.state = "start"
        /\ RxToStop' \in Int
        /\ RxToStop' - Bits * RxBit \in Middle .. Middle + RxM
        /\ \A byte : Taken(byte)'
        /\ Checked'
    BY <1>1, <1>2, <1>9, RxIdles
  <2>3. Lag' \in Earliest(Bits, rate) + 2 - TxBit
                 .. Latest(Bits, rate) + 1 - TxBit
    <3>1. PICK x \in Int, y \in Int, z \in Int :
            x = Bits * RxBit /\ y = Bits * TxBit /\ z = Bits * (RxBit - TxBit)
      BY <1>6
    <3>2. z = x - y
      BY <1>6, <3>1
    <3>3. Bits \in 0 .. Bits
      BY <1>6
    <3>4. /\ Earliest(Bits, rate) = Middle + 1 + z
          /\ Latest(Bits, rate) = Middle + 1 + z + RxM + 1 + rate.m
      BY <1>6, <3>1, <3>3, Tolerance, Zenon
    <3>5. TxToStop' = TxLeft + y - 1
      <4>1. Bits - TxAt = Bits
        BY <1>6, <1>7
      <4>2. TxToStop = TxLeft + y
        BY <1>7, <3>1, <4>1, Zenon
      <4> QED
        BY <1>3, <1>7, <4>2
    <3>6. PICK w \in 0 .. RxM : RxToStop' = x + Middle + w
      <4>1. RxToStop' \in Int
        BY <2>2
      <4>2. RxToStop' - x \in Middle .. Middle + RxM
        BY <2>2, <3>1, Zenon
      <4>3. /\ RxToStop' - x - Middle \in 0 .. RxM
            /\ RxToStop' = x + Middle + (RxToStop' - x - Middle)
        <5>1. PICK r \in Int : r = RxToStop'
          BY <4>1
        <5>2. r - x \in Middle .. Middle + RxM
          BY <4>2, <5>1, Zenon
        <5>3. r - x - Middle \in 0 .. RxM /\ r = x + Middle + (r - x - Middle)
          BY <1>6, <5>2
        <5> QED
          BY <5>1, <5>3, Zenon
      <4> QED
        BY <4>3
    <3>7. Lag' = (x + Middle + w) - (TxLeft + y - 1)
      BY <3>5, <3>6, Zenon DEF Lag
    <3>8. Lag' = Middle + z + w + 1 - TxLeft
      BY <1>6, <1>7, <3>2, <3>7
    <3> QED
      BY <1>6, <1>7, <2>1, <3>4, <3>8
  <2>4. rx'.state # "idle" /\ Taken(tx.b)'
    BY <2>2 DEF Taken
  <2>5. Framed'
    BY <1>3, <1>4, <1>5, <2>2, <2>3, <2>4, Zenon DEF Framed
  <2> QED
    BY <1>1, <1>3, <2>2, <2>5, Keeping
<1> QED
  BY <1>2, <1>8, <1>9

(* Inside a frame: both ends go on, or the receiver delivers the byte and  *)
(* the line is quiet, or the next start bit is already on its way.         *)
LEMMA FramedStep ==
  ASSUME Step, Framed
  PROVE  (Quiet \/ Falling \/ Framed)' /\ Types' /\ TxInv' /\ RxInv'
<1>1. /\ Types /\ TxInv /\ RxInv /\ rate' = rate /\ format' = format
      /\ TxBaud!Clock(rate.m) /\ RxBaud!Clock(RxM)
      /\ Transmit /\ Feed /\ Receive /\ Record
  BY DEF Step, Clocks
<1>2. rx.state # "idle" /\ pending = << tx.b >> /\ Taken(tx.b) /\ Checked
  BY DEF Framed
<1>3. /\ Bits' = Bits /\ TxBit' = TxBit /\ TxPeriod' = TxPeriod
      /\ Earliest(Bits, rate)' = Earliest(Bits, rate)
      /\ Latest(Bits, rate)' = Latest(Bits, rate)
  BY <1>1, LengthsKept
<1>4. Tail(pending) = << >> /\ pending # << >>
  BY <1>2
<1>5. RxStopBit \in Nat \ {0} /\ Bits \in Nat \ {0}
  BY <1>1, Lengths DEF Types
<1>6. CASE tx.state = "idle"
  <2>1. rx.state = "stop" /\ RxLeft = 0
    BY <1>6 DEF Framed
  <2>2. rx_done_tick
    BY <1>1, <1>2, <1>5, <2>1, RxPlace
  <2>3. RxKept /\ rx'.state = "idle"
    BY <1>1, <2>2, RxDone
  <2>4. pending' = IF din # None THEN Append(<< >>, din) ELSE << >>
    BY <1>1, <1>4, <1>6, <2>2 DEF Record
  <2> QED
    BY <1>6, <2>3, <2>4, SenderBegins
<1>7. CASE tx.state # "idle"
  <2>1. Together
    BY <1>1, <1>2, <1>7 DEF Together, Framed
  <2>2. TxKept
    BY <1>1, <1>7, TxActive
  <2>3. CASE rx_done_tick
    <3>1. line = 1 /\ tx.state = "stop"
      BY <2>1, <2>3, StopSample
    <3>2. RxKept /\ rx'.state = "idle"
      BY <1>1, <2>3, RxDone
    <3>3. line' = 1 /\ tx'.state \in {"stop", "idle"}
      BY <1>1, <3>1, TxStopping
    <3>4. pending' = << >>
      BY <1>1, <1>4, <1>7, <2>3 DEF Record
    <3>5. Quiet'
      BY <3>2, <3>3, <3>4 DEF Quiet
    <3> QED
      BY <1>1, <2>2, <3>2, <3>5, Keeping
  <2>4. CASE ~rx_done_tick
    <3>1. PICK byte \in Fields : byte = tx.b
      BY <1>1 DEF Types
    <3>2. RxLeft = 0 /\ RxAt \in 1 .. Bits => line = Level(RxAt, byte)
      BY <2>1, <3>1, Sample, Zenon
    <3>3. Taken(byte)
      BY <1>2, <3>1, Zenon
    <3>4. /\ RxKept /\ rx'.state # "idle" /\ RxToStop' = RxToStop - 1
          /\ Taken(byte)' /\ Checked'
      BY <1>1, <1>2, <2>4, <3>2, <3>3, RxActive
    <3>5. pending' = pending
      BY <1>1, <1>7, <2>4 DEF Record
    <3>6. Types' /\ TxInv' /\ RxInv'
      BY <1>1, <2>2, <3>4, Keeping
    <3>7. CASE ~tx_done_tick
      <4>1. /\ tx'.state # "idle" /\ tx'.b = tx.b
            /\ TxToStop' = TxToStop - 1 /\ Shows'
        BY <1>1, <1>7, <3>7, TxActive
      <4>2. Lag' = Lag
        <5>1. TxToStop \in Int /\ RxToStop \in Int
          BY <1>1, <1>2, <1>7, TxPlace, RxPlace
        <5> QED
          BY <3>4, <4>1, <5>1 DEF Lag
      <4>3. Lag' \in Earliest(Bits, rate) + 2 - TxBit
                     .. Latest(Bits, rate) + 1 - TxBit
        BY <2>1, <4>2, Zenon DEF Together
      <4>4. Taken(tx.b)'
        BY <3>1, <3>4, <4>1, Zenon DEF Taken
      <4>5. pending' = << tx'.b >>
        BY <1>2, <3>5, <4>1
      <4>6. Framed'
        BY <1>3, <3>4, <4>1, <4>3, <4>4, <4>5, Zenon DEF Framed
      <4> QED
        BY <3>6, <4>6
    <3>8. CASE tx_done_tick
      <4>1. tx.state = "stop"
        BY <3>8 DEF tx_done_tick
      <4>2. tx'.state = "idle" /\ line' = 1 /\ tx'.b = tx.b
        <5>1. tx' = [tx EXCEPT !.state = "idle"] /\ line' = 1
          BY <1>1, <3>8, <4>1
             DEF Transmit, TxIdle, TxStart, TxData, TxParity, TxStop
        <5> QED
          BY <1>1, <5>1 DEF Types
      <4>3. RxToStop = 1 - RxStopBit
        <5>1. RxToStop <= 1 - RxStopBit
          BY <2>1, <3>8, Finish
        <5>2. RxToStop \in Int /\ RxToStop >= -RxStopBit
          <6>1. rx.state # "stop" => RxToStop \in Nat
            BY <1>1, <1>2, RxPlace
          <6>2. rx.state = "stop" =>
                  RxToStop \in Int /\ RxToStop >= -RxStopBit
            BY <1>1, <1>2, RxPlace
          <6> QED
            BY <1>5, <6>1, <6>2
        <5>3. RxToStop # -RxStopBit
          BY <1>1, <1>2, <2>4, RxPlace
        <5> QED
          BY <1>5, <5>1, <5>2, <5>3
      <4>4. rx'.state = "stop" /\ RxLeft' = 0
        <5>1. CASE rx.state = "stop"
          <6>1. RxToStop = RxLeft - RxStopBit /\ RxLeft \in Int
            <7>1. RxLeft \in 0 .. RxStopBit - 1
              BY <1>1, <5>1, RxPlace
            <7> QED
              BY <1>1, <1>5, <5>1, <7>1, RxPlace
          <6>2. RxLeft = 1
            BY <1>5, <4>3, <6>1
          <6>3. RxLeft' = RxLeft - 1 /\ rx' = [rx EXCEPT !.s = RxCount]
            BY <1>1, <1>2, <6>2, RxInside
          <6> QED
            BY <1>1, <5>1, <6>2, <6>3 DEF Types
        <5>2. CASE rx.state # "stop"
          <6>1. /\ RxLeft \in Nat /\ RxAt \in 0 .. Bits
                /\ RxToStop = RxLeft + (Bits - RxAt) * RxBit
                /\ RxToStop \in Nat
            BY <1>1, <1>2, <5>2, RxPlace
          <6>2. RxToStop = 0 /\ RxStopBit = 1
            BY <1>5, <4>3, <6>1
          <6>3. RxBit \in Nat \ {0}
            BY <1>1, Lengths DEF Types
          <6>4. RxLeft = 0 /\ RxAt = Bits
            <7>1. PICK d \in Nat : d = Bits - RxAt
              BY <1>5, <6>1
            <7>2. PICK z \in Nat : z = d * RxBit
              BY <6>3
            <7>3. RxLeft + z = 0
              BY <6>1, <6>2, <7>1, <7>2, Zenon
            <7>4. z = 0 /\ RxLeft = 0
              BY <6>1, <7>3
            <7>5. d = 0
              BY <6>3, <7>2, <7>4
            <7> QED
              BY <1>5, <6>1, <7>1, <7>4, <7>5
          <6>5. /\ RxAt' = RxAt + 1 /\ RxToStop' = RxToStop - 1
                /\ rx'.state \in {"data", "parity", "stop"}
                /\ rx'.state = "data" => rx'.n < dbit
                /\ rx'.n \in Nat
            <7>1. rx' \in [state : RxStates, s : Nat, n : Nat, b : Fields,
                           e_parity : BOOLEAN]
              BY <1>1, <1>2, <5>2, <6>4, RxEnds
            <7> QED
              BY <1>1, <1>2, <5>2, <6>4, <7>1, RxEnds
          <6>6. rx'.state = "stop"
            <7>1. /\ dbit \in Nat /\ Bits \in Nat /\ dbit <= Bits
              BY <1>1, Lengths DEF Types
            <7>2. RxAt' = Bits + 1
              BY <6>4, <6>5
            <7>3. RxAt' = IF rx'.state = "data" THEN rx'.n + 1
                          ELSE IF rx'.state = "parity" THEN Bits
                          ELSE Bits + 1
              BY <1>3, <6>5 DEF RxAt, At
            <7> QED
              BY <6>5, <7>1, <7>2, <7>3
          <6>7. RxToStop' = RxLeft' - RxStopBit
            BY <6>6 DEF RxToStop
          <6>8. RxLeft' \in Int
            <7>1. rx_r' \in 0 .. RxM /\ rx'.s \in Nat
              BY <3>6 DEF Types
            <7>2. RxWait' \in Int /\ RxTicks' \in Int /\ RxPeriod \in Int
              BY <1>1, <7>1, Lengths DEF RxWait, RxTicks, Types
            <7> QED
              BY <7>1, <7>2 DEF RxLeft
          <6>9. RxLeft' - 1 = 0 - 1
            BY <6>2, <6>5, <6>7, Zenon
          <6> QED
            BY <6>6, <6>8, <6>9
        <5> QED
          BY <5>1, <5>2
      <4>5. Taken(tx.b)'
        BY <3>1, <3>4, <4>2, Zenon DEF Taken
      <4>6. pending' = << tx'.b >>
        BY <1>2, <3>5, <4>2
      <4>7. Framed'
        BY <3>4, <4>2, <4>4, <4>5, <4>6, Zenon DEF Framed
      <4> QED
        BY <3>6, <4>7
    <3> QED
      BY <3>7, <3>8
  <2> QED
    BY <2>3, <2>4
<1> QED
  BY <1>6, <1>7

(* Every step keeps the invariant.                                         *)
LEMMA LinkNext ==
  ASSUME LinkInv, [Next]_vars
  PROVE  LinkInv'
<1>1. CASE Next
  <2>1. Step
    BY <1>1 DEF LinkInv, Next, Step, Clocks
  <2> QED
    BY <2>1, QuietStep, FallingStep, FramedStep DEF LinkInv
<1>2. CASE UNCHANGED vars
  <2>1. /\ format' = format /\ rate' = rate /\ din' = din /\ tx_r' = tx_r
        /\ tx_tick' = tx_tick /\ tx' = tx /\ line' = line /\ rx_r' = rx_r
        /\ rx_tick' = rx_tick /\ rx' = rx /\ e_frame' = e_frame
        /\ pending' = pending
    BY <1>2, Zenon DEF vars, sender, receiver
  <2>2. /\ Bits' = Bits /\ dbit' = dbit /\ pbit' = pbit
        /\ Parity(tx.b)' = Parity(tx.b)
    BY <2>1, ParityKept
  <2>3. Types'
    BY <2>1, Zenon DEF LinkInv, Types
  <2>4. /\ TxTicks' = TxTicks /\ TxPeriod' = TxPeriod /\ TxWait' = TxWait
        /\ TxBit' = TxBit /\ TxStopBit' = TxStopBit /\ RxTicks' = RxTicks
        /\ RxWait' = RxWait
        /\ Earliest(Bits, rate)' = Earliest(Bits, rate)
        /\ Latest(Bits, rate)' = Latest(Bits, rate)
    BY <2>1, LengthsKept, Zenon DEF TxTicks, TxWait, RxTicks, RxWait, TxPeriod
  <2>5. /\ TxLeft' = TxLeft /\ RxLeft' = RxLeft /\ TxAt' = TxAt
        /\ RxAt' = RxAt /\ Got' = Got
    BY <2>1, <2>2, <2>4, Zenon DEF TxLeft, RxLeft, TxAt, RxAt, At, Got
  <2>6. /\ TxToStop' = TxToStop /\ RxToStop' = RxToStop /\ Lag' = Lag
    BY <2>1, <2>2, <2>4, <2>5, Zenon DEF TxToStop, RxToStop, Lag
  <2>7. TxInv' /\ RxInv'
    BY <2>1, <2>2, <2>4, Zenon DEF LinkInv, TxInv, RxInv
  <2>8. Quiet => Quiet'
    BY <2>1, Zenon DEF Quiet
  <2>9. Falling => Falling'
    BY <2>1, <2>4, <2>5, Zenon DEF Falling
  <2>10. Framed => Framed'
    <3>1. Taken(tx.b) => Taken(tx.b)'
      BY <2>1, <2>5, Zenon DEF Taken
    <3>2. Checked => Checked'
      BY <2>1, <2>2, Zenon DEF Checked
    <3>3. Shows => Shows'
      BY <2>1, <2>2, <2>4, <2>5, Zenon DEF Shows, Level
    <3> QED
      BY <2>1, <2>2, <2>4, <2>5, <2>6, <3>1, <3>2, <3>3, Zenon DEF Framed
  <2> QED
    BY <2>3, <2>7, <2>8, <2>9, <2>10 DEF LinkInv
<1> QED
  BY <1>1, <1>2

(* The invariant holds in every behaviour.                                 *)
LEMMA LinkInvariant == Spec => []LinkInv
<1>1. Init => LinkInv
  BY LinkInit
<1>2. LinkInv /\ [Next]_vars => LinkInv'
  BY LinkNext
<1> QED
  BY <1>1, <1>2, PTL DEF Spec

(***************************************************************************)
(* The theorems.                                                           *)
(***************************************************************************)

(* What the receiver hands to its FIFO is the byte that was sent           *)
(* (uart_tx.v:61-131, uart_rx.v:66-132, uart_rx.v:136-138).                *)
THEOREM DeliveredIntact == Spec => []DeliveredAsSent
<1>1. LinkInv => DeliveredAsSent
  <2> SUFFICES ASSUME LinkInv, rx_done_tick
               PROVE  pending # << >> /\ dout = Payload(Head(pending))
    BY DEF DeliveredAsSent
  <2>1. Types /\ Framed /\ rx.state = "stop"
    BY DEF LinkInv, Quiet, Falling, rx_done_tick
  <2>2. pending = << tx.b >> /\ Taken(tx.b)
    BY <2>1 DEF Framed
  <2>3. Head(pending) = tx.b /\ pending # << >>
    BY <2>2
  <2>4. /\ dbit \in Nat \ {0} /\ DBIT \in Nat
        /\ dbit = DBIT \/ dbit = DBIT - 1
    BY <2>1, Lengths DEF Types
  <2>5. rx.b \in Fields /\ tx.b \in Fields
    BY <2>1 DEF Types
  <2>6. \A i \in 0 .. dbit - 1 : rx.b[DBIT - dbit + i] = tx.b[i]
    <3>1. Got = dbit
      BY <2>1 DEF Got
    <3> QED
      BY <2>2, <3>1, Zenon DEF Taken
  <2>7. dout = Payload(tx.b)
    <3>1. CASE dbit = DBIT
      <4>1. \A i \in 0 .. DBIT - 1 : rx.b[DBIT - DBIT + i] = tx.b[i]
        BY <2>6, <3>1, Zenon
      <4>2. rx.b = tx.b
        BY <2>4, <2>5, <4>1, WholeByte
      <4>3. dout = tx.b
        BY <2>4, <3>1, <4>2 DEF dout
      <4>4. Payload(tx.b) = [i \in 0 .. DBIT - 1 |-> tx.b[i]]
        BY <2>4, <3>1 DEF Payload
      <4>5. tx.b = [i \in 0 .. DBIT - 1 |-> tx.b[i]]
        BY <2>5 DEF Fields
      <4> QED
        BY <4>3, <4>4, <4>5, Zenon
    <3>2. CASE dbit = DBIT - 1
      <4>1. dout = ShiftIn(rx.b, 0)
        BY <3>2, Zenon DEF dout
      <4>2. ASSUME NEW i \in 0 .. DBIT - 1
            PROVE  (IF i = DBIT - 1 THEN 0 ELSE rx.b[i + 1])
                     = IF i < dbit THEN tx.b[i] ELSE 0
        <5>1. CASE i = DBIT - 1
          BY <2>4, <3>2, <5>1
        <5>2. CASE i # DBIT - 1
          <6>1. i \in 0 .. dbit - 1 /\ i < dbit /\ DBIT - dbit + i = i + 1
            BY <2>4, <3>2, <5>2
          <6>2. rx.b[i + 1] = tx.b[i]
            BY <2>6, <6>1, Zenon
          <6> QED
            BY <5>2, <6>1, <6>2, Zenon
        <5> QED
          BY <5>1, <5>2
      <4> QED
        BY <4>1, <4>2, Zenon DEF ShiftIn, Payload
    <3> QED
      BY <2>4, <3>1, <3>2
  <2> QED
    BY <2>3, <2>7, Zenon
<1> QED
  BY <1>1, LinkInvariant, PTL

(* No frame error and no parity error without a fault (uart_rx.v:112,      *)
(* uart_rx.v:124).                                                         *)
THEOREM NoErrorReported == Spec => []NoSpuriousError
<1>1. LinkInv => NoSpuriousError
  <2> SUFFICES ASSUME LinkInv, rx_done_tick
               PROVE  line = 1 /\ ~rx.e_parity
    BY DEF NoSpuriousError
  <2>1. /\ Types /\ TxInv /\ RxInv /\ Framed /\ rx.state = "stop"
        /\ rx.state # "idle"
    BY DEF LinkInv, Quiet, Falling, rx_done_tick
  <2>2. ~rx.e_parity
    <3>1. pbit > 0 => dbit = DBIT
      BY <2>1, FormatAssumption DEF Types, pbit, dbit
    <3> QED
      BY <2>1, <3>1, Zenon DEF Framed, Checked
  <2>3. line = 1
    <3>1. CASE tx.state = "idle"
      BY <2>1, <3>1 DEF Framed
    <3>2. CASE tx.state # "idle"
      <4>1. Together
        BY <2>1, <3>2 DEF Together, Framed
      <4> QED
        BY <4>1, StopSample
    <3> QED
      BY <3>1, <3>2
  <2> QED
    BY <2>2, <2>3
<1> QED
  BY <1>1, LinkInvariant, PTL

(* The receiver is ready for every start bit.                              *)
THEOREM ReceiverReady == Spec => []ReceiverKeepsUp
<1>1. LinkInv => ReceiverKeepsUp
  <2> SUFFICES ASSUME LinkInv
               PROVE  Len(pending) <= 1
    BY DEF ReceiverKeepsUp
  <2>1. pending = << >> \/ pending = << tx.b >>
    BY DEF LinkInv, Quiet, Falling, Framed
  <2> QED
    BY <2>1
<1> QED
  BY <1>1, LinkInvariant, PTL

(* Whenever the receiver takes a bit, the line shows that bit of the byte  *)
(* being sent, the parity included: nothing it samples is an edge or a     *)
(* neighbour (uart_rx.v:84-113).                                           *)
SampledInPlace ==
  /\ rx.state = "data" /\ RxBitEnds => line = tx.b[rx.n]
  /\ rx.state = "parity" /\ RxBitEnds => line = Parity(tx.b)

THEOREM EveryBitInPlace == Spec => []SampledInPlace
<1>1. LinkInv => SampledInPlace
  <2> SUFFICES ASSUME LinkInv, rx.state \in {"data", "parity"}, RxBitEnds
               PROVE  /\ rx.state = "data" => line = tx.b[rx.n]
                      /\ rx.state = "parity" => line = Parity(tx.b)
    BY Zenon DEF SampledInPlace
  <2>1. Types /\ TxInv /\ RxInv /\ Framed /\ rx.state # "idle"
    BY DEF LinkInv, Quiet, Falling
  <2>2. Together
    <3>1. tx.state # "idle"
      BY <2>1 DEF Framed
    <3> QED
      BY <2>1, <3>1 DEF Together, Framed
  <2>3. RxLeft = 0
    <3>1. RxTicks = RxOS
      BY DEF RxTicks
    <3>2. RxLeft = 0 <=> rx_tick /\ rx.s = RxTicks - 1
      BY <2>1, RxNow
    <3> QED
      BY <3>1, <3>2, Zenon DEF RxBitEnds
  <2>4. /\ dbit \in Nat \ {0} /\ Bits \in Nat \ {0}
        /\ Bits = IF pbit > 0 THEN dbit + 1 ELSE dbit
    BY <2>1, Lengths DEF Types
  <2>5. CASE rx.state = "data"
    <3>1. rx.n \in Nat /\ rx.n < dbit
      BY <2>1, <2>5 DEF RxInv, Types
    <3>2. PICK k \in Nat : k = rx.n + 1
      BY <3>1
    <3>3. /\ k \in 1 .. Bits /\ k # 0 /\ k # Bits + 1 /\ k <= dbit
          /\ k - 1 = rx.n
      BY <2>4, <3>1, <3>2
    <3>4. RxAt = k
      BY <2>5, <3>2, Zenon DEF RxAt, At
    <3>5. line = Level(k, tx.b)
      BY <2>2, <2>3, <3>3, <3>4, Sample, Zenon
    <3>6. Level(k, tx.b) = tx.b[k - 1]
      BY <3>3, Zenon DEF Level
    <3>7. line = tx.b[rx.n]
      BY <3>3, <3>5, <3>6, Zenon
    <3> QED
      BY <2>5, <3>7
  <2>6. CASE rx.state = "parity"
    <3>1. pbit > 0 /\ RxAt = Bits
      BY <2>1, <2>6 DEF RxInv, RxAt, At
    <3>2. Bits \in 1 .. Bits /\ Bits # 0 /\ Bits # Bits + 1 /\ ~(Bits <= dbit)
      BY <2>4, <3>1
    <3>3. line = Level(Bits, tx.b)
      BY <2>2, <2>3, <3>1, <3>2, Sample, Zenon
    <3>4. Level(Bits, tx.b) = Parity(tx.b)
      BY <3>2, Zenon DEF Level
    <3> QED
      BY <2>6, <3>3, <3>4
  <2> QED
    BY <2>5, <2>6
<1> QED
  BY <1>1, LinkInvariant, PTL

(***************************************************************************)
(* Who is tolerated.                                                       *)
(***************************************************************************)

(* Two ends with the same settings, whatever the divisor: the loop of      *)
(* uart_testbench.v, with at least two ticks a bit and a stop bit of at    *)
(* least the length of a bit.                                              *)
THEOREM EqualSettings ==
  ASSUME RxOS >= 2, RxSB >= RxOS, NEW f \in Formats
  PROVE  Tolerated(f, [m |-> RxM, os |-> RxOS, sb |-> RxSB])
<1> DEFINE q == [m |-> RxM, os |-> RxOS, sb |-> RxSB]
<1>1. RxM \in Nat /\ RxOS \in Nat \ {0} /\ RxSB \in Nat \ {0}
  BY LinkAssumption
<1>2. BitOf(q) = RxBit /\ StopOf(q) = RxStopBit /\ q.m = RxM
  BY DEF BitOf, StopOf, RxBit, RxStopBit
<1>3. PICK p \in Nat \ {0}, h \in Nat : p = RxM + 1 /\ h = (RxOS - 1) \div 2
  BY <1>1
<1>4. h + 2 <= RxOS
  BY <1>1, <1>3
<1>5. PICK a \in Nat, b \in Nat : a = RxOS - (h + 2) /\ b = RxSB - RxOS
  BY <1>1, <1>4
<1>6. PICK x \in Nat, y \in Nat, z \in Nat :
         x = h * p /\ y = a * p /\ z = b * p
  BY <1>3, <1>5
<1>7. RxBit = x + y + 2 * p
  <2>1. RxOS = h + a + 2
    BY <1>1, <1>3, <1>5
  <2>2. RxBit = (h + a + 2) * p
    BY <1>3, <2>1, Zenon DEF RxBit
  <2> QED
    BY <1>3, <1>5, <1>6, <2>2
<1>8. RxStopBit = RxBit + z
  <2>1. RxSB = RxOS + b
    BY <1>1, <1>5
  <2>2. RxStopBit = (RxOS + b) * p /\ RxBit = RxOS * p
    BY <1>3, <2>1, Zenon DEF RxBit, RxStopBit
  <2> QED
    BY <1>1, <1>3, <1>5, <1>6, <2>2
<1>9. Middle = x
  BY <1>3, <1>6, Zenon DEF Middle
<1>10. BitsOf(f) \in Nat
  <2>1. f \in {DBIT - 1, DBIT} \X (0 .. 2)
    BY LinkAssumption
  <2> QED
    BY <2>1, LinkAssumption DEF BitsOf
<1>11. ASSUME NEW j \in Nat
       PROVE  Earliest(j, q) = x + 1 /\ Latest(j, q) = x + 2 * p
  <2>1. Earliest(j, q) = Middle + 1 + j * (RxBit - RxBit)
    BY <1>2, Zenon DEF Earliest
  <2>2. Earliest(j, q) = x + 1
    BY <1>3, <1>6, <1>7, <1>9, <2>1
  <2>3. Latest(j, q) = Earliest(j, q) + RxM + 1 + RxM
    BY <1>2, Zenon DEF Latest
  <2> QED
    BY <1>1, <1>3, <1>6, <2>2, <2>3
<1>12. RxBit = x + y + 2 * p /\ RxStopBit = x + y + 2 * p + z
  BY <1>7, <1>8, Zenon
<1>13. /\ x + 2 * p <= x + y + 2 * p
       /\ x + 1 + (x + y + 2 * p + z) >= x + y + 2 * p
       /\ x + 2 * p + (x + y + 2 * p + z)
            <= x + y + 2 * p + (x + y + 2 * p + z)
  BY <1>3, <1>6
<1>14. \A j \in 0 .. BitsOf(f) :
         Earliest(j, q) >= 0 /\ Latest(j, q) <= BitOf(q)
  <2> SUFFICES ASSUME NEW j \in 0 .. BitsOf(f)
               PROVE  Earliest(j, q) >= 0 /\ Latest(j, q) <= BitOf(q)
    OBVIOUS
  <2>1. Earliest(j, q) = x + 1 /\ Latest(j, q) = x + 2 * p
    BY <1>10, <1>11
  <2>2. x + 1 >= 0
    BY <1>6
  <2> QED
    BY <1>2, <1>12, <1>13, <2>1, <2>2, Zenon
<1>15. /\ Earliest(BitsOf(f), q) + RxStopBit >= BitOf(q)
       /\ Latest(BitsOf(f), q) + RxStopBit <= BitOf(q) + StopOf(q)
  <2>1. /\ Earliest(BitsOf(f), q) = x + 1
        /\ Latest(BitsOf(f), q) = x + 2 * p
    BY <1>10, <1>11
  <2> QED
    BY <1>2, <1>12, <1>13, <2>1, Zenon
<1> QED
  BY <1>14, <1>15, Zenon DEF Tolerated

(* The OBD2 adapter at 115200 baud, a bit of 434 clocks of 50 MHz, against *)
(* the receiver of the firmware, whose bit is of 16 ticks of 28 clocks     *)
(* (controller.c:95-96, uart.c:118, mod_m_counter.v:35): eight data bits,  *)
(* one stop bit.                                                           *)
THEOREM AdapterTolerated ==
  ASSUME RxM = 27, RxOS = 16, RxSB = 16
  PROVE  Tolerated(<< 8, 0 >>, [m |-> 0, os |-> 434, sb |-> 434])
<1> DEFINE q == [m |-> 0, os |-> 434, sb |-> 434]
           f == << 8, 0 >>
<1>1. BitOf(q) = 434 /\ StopOf(q) = 434 /\ q.m = 0 /\ BitsOf(f) = 8
  BY DEF BitOf, StopOf, BitsOf
<1>2. RxBit = 448 /\ RxStopBit = 448 /\ Middle = 196
  BY DEF RxBit, RxStopBit, Middle
<1>3. PICK n \in Nat : n = BitsOf(f)
  BY <1>1
<1>4. n = 8
  BY <1>1, <1>3
<1>5. ASSUME NEW j \in 0 .. n
      PROVE  Earliest(j, q) = 197 + j * 14 /\ Latest(j, q) = 225 + j * 14
  BY <1>1, <1>2 DEF Earliest, Latest
<1>6. \A j \in 0 .. n : Earliest(j, q) >= 0 /\ Latest(j, q) <= BitOf(q)
  BY <1>1, <1>4, <1>5
<1>7. Earliest(n, q) = 309 /\ Latest(n, q) = 337
  BY <1>4, <1>5
<1>8. /\ Earliest(n, q) + RxStopBit >= BitOf(q)
      /\ Latest(n, q) + RxStopBit <= BitOf(q) + StopOf(q)
  BY <1>1, <1>2, <1>7
<1>9. /\ \A j \in 0 .. BitsOf(f) :
           Earliest(j, q) >= 0 /\ Latest(j, q) <= BitOf(q)
      /\ Earliest(BitsOf(f), q) + RxStopBit >= BitOf(q)
      /\ Latest(BitsOf(f), q) + RxStopBit <= BitOf(q) + StopOf(q)
  BY <1>3, <1>6, <1>8
<1> QED
  BY <1>9 DEF Tolerated

(* The half stop bit (uart.c:105) is outside the tolerance: the receiver   *)
(* looks for it before the last bit is over, even with equal settings on   *)
(* both ends.                                                              *)
THEOREM HalfStopBitRefused ==
  ASSUME RxOS = 16, RxSB = 8, RxM >= 1, NEW f \in Formats
  PROVE  ~Tolerated(f, [m |-> RxM, os |-> RxOS, sb |-> RxSB])
<1> DEFINE q == [m |-> RxM, os |-> RxOS, sb |-> RxSB]
<1>1. RxM \in Nat /\ RxM >= 1
  BY LinkAssumption
<1>2. BitOf(q) = 16 * (RxM + 1) /\ RxBit = 16 * (RxM + 1)
  BY DEF BitOf, RxBit
<1>3. RxStopBit = 8 * (RxM + 1) /\ Middle = 7 * (RxM + 1)
  BY DEF RxStopBit, Middle
<1>4. BitsOf(f) \in Nat
  <2>1. f \in {DBIT - 1, DBIT} \X (0 .. 2)
    BY LinkAssumption
  <2> QED
    BY <2>1, LinkAssumption DEF BitsOf
<1>5. PICK n \in Nat : n = BitsOf(f)
  BY <1>4
<1>6. Earliest(n, q) = 7 * (RxM + 1) + 1
  <2>1. Earliest(n, q) = Middle + 1 + n * (RxBit - BitOf(q))
    BY Zenon DEF Earliest
  <2>2. RxBit - BitOf(q) = 0
    BY <1>1, <1>2
  <2>3. n * (RxBit - BitOf(q)) = 0
    BY <1>5, <2>2
  <2> QED
    BY <1>1, <1>3, <2>1, <2>3
<1>7. ~(Earliest(n, q) + RxStopBit >= BitOf(q))
  BY <1>1, <1>2, <1>3, <1>6
<1> QED
  BY <1>5, <1>7, Zenon DEF Tolerated

(***************************************************************************)
(* The reset controller.                                                   *)
(***************************************************************************)

USE ResetAssumption

(***************************************************************************)
(* The inductive invariant.                                                *)
(***************************************************************************)

(* What can be in the request register.                                    *)
Request(m) == [start |-> TRUE, m |-> m]
Requests   == {Cleared, Request(0), Request(Half)}

(* The request is in the register only while the processor waits for it.   *)
RequestInv == /\ control \in Requests
              /\ pc \in {"running", "halted", "reset"}
              /\ pc # "halted" => control = Cleared
              /\ pc = "halted" => owed

(* The counter is at zero outside a reset; in one it tells how long the    *)
(* reset has lasted, and once the delay is over it has reached the         *)
(* register, so that the request is gone before the count ends.            *)
CountInv == /\ ~en => r_reg = 0 /\ ~max_tick_reg
            /\ en => /\ m_reg = Half
                     /\ max_tick_reg => r_reg = 0 /\ held = Half + 1
                     /\ ~max_tick_reg => held = r_reg /\ held \in 0 .. Half
                     /\ pc # "running"
                     /\ pc = "reset" \/ held <= ResetDelay
                     /\ owed

Flags == en \in BOOLEAN /\ max_tick_reg \in BOOLEAN /\ owed \in BOOLEAN

ResetInv == RequestInv /\ CountInv /\ Flags

LEMMA Halves == Half \in Nat \ {0} /\ ResetDelay \in Nat /\ ResetDelay < Half
OBVIOUS

LEMMA RequestFields ==
  /\ Cleared.start = FALSE /\ Cleared.m = 0
  /\ \A m : Request(m).start = TRUE /\ Request(m).m = m
BY DEF Cleared, Request

(* Only one bit of the argument of rc_reset comes through.                 *)
LEMMA MaskIsHalfOrNothing == \A counts : Mask(counts) \in {0, Half}
BY DEF Mask

LEMMA InitInv == RcInit => ResetInv
<1> SUFFICES ASSUME RcInit PROVE ResetInv
  OBVIOUS
<1>1. /\ en = FALSE /\ max_tick_reg = FALSE /\ owed = FALSE
      /\ r_reg = 0 /\ control = Cleared /\ pc = "running"
  BY Zenon DEF RcInit, Divider!Init
<1>2. RequestInv
  BY <1>1 DEF RequestInv, Requests
<1>3. CountInv /\ Flags
  BY <1>1, Zenon DEF CountInv, Flags
<1> QED
  BY <1>2, <1>3 DEF ResetInv

(***************************************************************************)
(* One edge.                                                               *)
(***************************************************************************)

(* What the controller does: it rests, begins, counts, ticks or ends.      *)
Rests  == /\ ~en /\ ~Starts /\ en' = FALSE
          /\ r_reg' = 0 /\ max_tick_reg' = FALSE
Begins == /\ ~en /\ Starts /\ en' = TRUE
          /\ m_reg' = control.m /\ r_reg' = 0 /\ max_tick_reg' = FALSE
Advances == /\ en /\ ~max_tick_reg /\ r_reg # Half
            /\ en' = TRUE /\ m_reg' = Half
            /\ r_reg' = r_reg + 1 /\ max_tick_reg' = FALSE
Ticks  == /\ en /\ ~max_tick_reg /\ r_reg = Half
          /\ en' = TRUE /\ m_reg' = Half
          /\ r_reg' = 0 /\ max_tick_reg' = TRUE
Ends   == /\ en /\ max_tick_reg
          /\ en' = FALSE /\ r_reg' = 0 /\ max_tick_reg' = FALSE

LEMMA ControllerStep ==
  ASSUME ResetInv, Controller
  PROVE  Rests \/ Begins \/ Advances \/ Ticks \/ Ends
<1>0. RequestInv /\ CountInv /\ Flags
  BY DEF ResetInv
<1>1. /\ en' = (~max_tick_reg /\ (en \/ Starts))
      /\ m_reg' = IF max_tick_reg THEN 0
                  ELSE IF Starts THEN control.m ELSE m_reg
      /\ en /\ en' => /\ r_reg' = IF r_reg = m_reg THEN 0
                                  ELSE (r_reg + 1) % CountRange
                      /\ max_tick_reg' = (r_reg = m_reg)
      /\ ~(en /\ en') => r_reg' = 0 /\ max_tick_reg' = FALSE
  BY Zenon DEF Controller, Divider!Clock, Divider!Reset
<1>2. CASE en /\ max_tick_reg
  BY <1>1, <1>2, Zenon DEF Ends
<1>3. CASE ~en
  <2>1. ~max_tick_reg
    BY <1>0, <1>3, Zenon DEF CountInv
  <2> QED
    BY <1>1, <1>3, <2>1, Zenon DEF Rests, Begins
<1>4. CASE en /\ ~max_tick_reg
  <2>1. m_reg = Half /\ held = r_reg /\ held \in 0 .. Half
    BY <1>0, <1>4, Zenon DEF CountInv
  <2>2. m_reg' = Half
    <3>1. CASE Starts
      <4>1. control.m > 0 /\ control \in Requests
        BY <1>0, <3>1, Zenon DEF Starts, RequestInv
      <4>2. control.m = Half
        BY <4>1, RequestFields DEF Requests
      <4> QED
        BY <1>1, <1>4, <3>1, <4>2, Zenon
    <3>2. CASE ~Starts
      BY <1>1, <1>4, <2>1, <3>2, Zenon
    <3> QED
      BY <3>1, <3>2, Zenon
  <2>3. CASE r_reg = Half
    BY <1>1, <1>4, <2>1, <2>2, <2>3, Zenon DEF Ticks
  <2>4. CASE r_reg # Half
    <3>1. (r_reg + 1) % CountRange = r_reg + 1
      BY <2>1, <2>4, Halves DEF CountRange
    <3> QED
      BY <1>1, <1>4, <2>1, <2>2, <2>4, <3>1, Zenon DEF Advances
  <2> QED
    BY <2>3, <2>4, Zenon
<1> QED
  BY <1>2, <1>3, <1>4, Zenon
(* What the processor does.                                                *)
LEMMA ProcessorStep ==
  ASSUME ResetInv, Processor
  PROVE  \/ /\ ~en /\ pc = "running" /\ pc' = "halted"
            /\ control' \in {Request(0), Request(Half)}
         \/ en /\ pc' = "reset" /\ control' = Cleared
         \/ ~en /\ pc = "reset" /\ pc' = "running" /\ control' = control
         \/ /\ pc' = pc /\ control' = control
            /\ en /\ pc # "reset" => ~(held >= ResetDelay)
<1>1. ASSUME NEW counts \in Counts, rc_reset(counts)
      PROVE  /\ ~en /\ pc = "running" /\ pc' = "halted"
             /\ control' \in {Request(0), Request(Half)}
  BY <1>1, MaskIsHalfOrNothing, Zenon DEF rc_reset, Request
<1>2. CASE Stop
  BY <1>2, Zenon DEF Stop
<1>3. CASE Restart
  BY <1>3, Zenon DEF Restart
<1>4. CASE Wait
  BY <1>4, Zenon DEF Wait
<1> QED
  BY <1>1, <1>2, <1>3, <1>4, Zenon DEF Processor

LEMMA RequestStep == ASSUME ResetInv, RcNext PROVE RequestInv'
<1>0. RequestInv /\ CountInv /\ Controller /\ Processor
  BY Zenon DEF ResetInv, RcNext
<1>1. owed' = IF en /\ ~en' THEN FALSE ELSE owed \/ pc' = "halted"
  BY Zenon DEF RcNext
<1>2. control' \in Requests /\ pc' \in {"running", "halted", "reset"}
  BY <1>0, ProcessorStep DEF RequestInv, Requests
<1>3. pc' # "halted" => control' = Cleared
  BY <1>0, ProcessorStep DEF RequestInv
<1>4. ASSUME en, ~en' PROVE pc' # "halted"
  <2>1. Ends
    BY <1>0, <1>4, ControllerStep, Zenon DEF Rests, Begins, Advances, Ticks
  <2>2. held = Half + 1 /\ (pc = "reset" \/ held <= ResetDelay)
    BY <1>0, <2>1, Zenon DEF CountInv, Ends
  <2>3. pc = "reset"
    BY <2>2, Halves
  <2> QED
    BY <1>0, <1>4, <2>3, ProcessorStep
<1>5. pc' = "halted" => owed'
  BY <1>1, <1>4, Zenon
<1> QED
  BY <1>2, <1>3, <1>5, Zenon DEF RequestInv

LEMMA CountStep == ASSUME ResetInv, RcNext PROVE CountInv' /\ Flags'
<1>0. RequestInv /\ CountInv /\ Flags /\ Controller /\ Processor
  BY Zenon DEF ResetInv, RcNext
<1>1. /\ held' = IF ~en THEN 0 ELSE IF held < Half + 2 THEN held + 1 ELSE held
      /\ owed' = IF en /\ ~en' THEN FALSE ELSE owed \/ pc' = "halted"
  BY Zenon DEF RcNext
<1>2. owed' \in BOOLEAN
  BY <1>0, <1>1, Zenon DEF Flags
<1>3. CASE Rests \/ Ends
  BY <1>2, <1>3, Zenon DEF Rests, Ends, CountInv, Flags
<1>4. CASE Begins
  <2>1. ~en /\ control.start /\ control.m > 0 /\ control \in Requests
    BY <1>0, <1>4, Zenon DEF Begins, Starts, RequestInv
  <2>2. control.m = Half
    BY <2>1, RequestFields DEF Requests
  <2>3. pc = "halted"
    BY <1>0, <2>1, RequestFields, Zenon DEF RequestInv
  <2>4. pc' = "halted"
    BY <1>0, <2>1, <2>3, ProcessorStep
  <2>5. held' = 0 /\ 0 \in 0 .. Half /\ 0 <= ResetDelay
    BY <1>1, <2>1, Halves
  <2>6. owed' /\ en' = TRUE /\ max_tick_reg' = FALSE /\ r_reg' = 0
        /\ m_reg' = Half
    BY <1>1, <1>4, <2>2, <2>4, Zenon DEF Begins
  <2>7. pc' # "running"
    BY <2>4
  <2> QED
    BY <2>5, <2>6, <2>7, Zenon DEF CountInv, Flags
<1>5. CASE Advances \/ Ticks
  <2>1. /\ en /\ ~max_tick_reg /\ en' = TRUE /\ m_reg' = Half
        /\ max_tick_reg' \in BOOLEAN
        /\ IF max_tick_reg' THEN r_reg = Half /\ r_reg' = 0
           ELSE r_reg # Half /\ r_reg' = r_reg + 1
    BY <1>5, Zenon DEF Advances, Ticks
  <2>2. /\ m_reg = Half /\ held = r_reg /\ held \in 0 .. Half
        /\ pc # "running" /\ (pc = "reset" \/ held <= ResetDelay) /\ owed
    BY <1>0, <2>1, Zenon DEF CountInv
  <2>3. held' = held + 1
    <3>1. held < Half + 2
      BY <2>2, Halves
    <3> QED
      BY <1>1, <2>1, <3>1, Zenon
  <2>4. /\ max_tick_reg' => r_reg' = 0 /\ held' = Half + 1
        /\ ~max_tick_reg' => held' = r_reg'
    BY <2>1, <2>2, <2>3, Zenon
  <2>5. r_reg # Half => held' \in 0 .. Half
    BY <2>2, <2>3, Halves
  <2>6. pc' # "running" /\ (pc' = "reset" \/ held' <= ResetDelay)
    <3>1. \/ pc' = "reset"
          \/ pc' = pc /\ (pc = "reset" \/ ~(held >= ResetDelay))
      BY <1>0, <2>1, ProcessorStep
    <3>2. ~(held >= ResetDelay) => held' <= ResetDelay
      BY <2>2, <2>3, Halves
    <3>3. "reset" # "running"
      OBVIOUS
    <3> QED
      BY <2>2, <3>1, <3>2, <3>3, Zenon
  <2>7. owed'
    BY <1>1, <2>1, <2>2, Zenon
  <2> QED
    BY <1>2, <2>1, <2>4, <2>5, <2>6, <2>7, Zenon DEF CountInv, Flags
<1> QED
  BY <1>0, <1>3, <1>4, <1>5, ControllerStep, Zenon

(***************************************************************************)
(* The theorems.                                                           *)
(***************************************************************************)
LEMMA InvHolds == RcSpec => []ResetInv
<1>1. ResetInv /\ [RcNext]_rc_vars => ResetInv'
  <2> SUFFICES ASSUME ResetInv, [RcNext]_rc_vars PROVE ResetInv'
    OBVIOUS
  <2>1. CASE RcNext
    BY <2>1, RequestStep, CountStep, Zenon DEF ResetInv
  <2>2. CASE UNCHANGED rc_vars
    BY <2>2, Zenon DEF rc_vars, ResetInv, RequestInv, CountInv, Flags
  <2> QED
    BY <2>1, <2>2
<1> QED
  BY InitInv, <1>1, PTL DEF RcSpec

(* Each reset answers a call of rc_reset of its own: the request is out of *)
(* the register before the count can end and see it again                  *)
(* (reset_controller.v:38-47).                                             *)
THEOREM OneResetPerCall == RcSpec => []OneReset
<1>1. ResetInv => OneReset
  BY Zenon DEF ResetInv, CountInv, OneReset
<1> QED
  BY InvHolds, <1>1, PTL

(* No reset is over before the processor is in it and the request is gone  *)
(* (reset_controller.v:34-51).                                             *)
THEOREM ResetsTakeHold == RcSpec => ResetTakesHold
<1>1. ResetInv /\ [RcNext]_rc_vars =>
        (en /\ ~en' => pc = "reset" /\ control = Cleared)
  <2> SUFFICES ASSUME ResetInv, [RcNext]_rc_vars, en, ~en'
               PROVE  pc = "reset" /\ control = Cleared
    OBVIOUS
  <2>1. Controller
    BY Zenon DEF RcNext, rc_vars
  <2>2. Ends
    BY <2>1, ControllerStep, Zenon DEF Rests, Begins, Advances, Ticks
  <2>3. pc = "reset" \/ held <= ResetDelay
    BY <2>2, Zenon DEF ResetInv, CountInv, Ends
  <2>4. held = Half + 1
    BY <2>2, Zenon DEF ResetInv, CountInv, Ends
  <2>5. ~(held <= ResetDelay)
    BY <2>4, Halves
  <2>6. pc = "reset"
    BY <2>3, <2>5, Zenon
  <2> QED
    BY <2>6, Zenon DEF ResetInv, RequestInv
<1> QED
  BY InvHolds, <1>1, PTL DEF RcSpec, ResetTakesHold
=============================================================================
