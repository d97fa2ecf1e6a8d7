----------------------------- MODULE SerialLink -----------------------------
(***************************************************************************)
(* One direction of a serial line, bit by bit: the transmitter of uart_tx.v*)
(* on its baud rate generator, the wire, and the receiver of uart_rx.v on  *)
(* another.  A step is one edge of the system clock; every register changes*)
(* from the values before the edge.                                        *)
(*                                                                         *)
(* With equal parameters on both sides this is the loop of                 *)
(* uart_testbench.v; with different ones the transmitter stands for the    *)
(* OBD2 adapter, whose clock is its own.                                   *)
(***************************************************************************)
EXTENDS Integers, Sequences, FiniteSets

CONSTANTS
  DBIT,       \* Bits of storage, 8: a format has DBIT or DBIT - 1 data bits.
  Bytes,      \* The set of bytes sent, functions from 0 .. DBIT - 1 to bits.
  Formats,    \* The set of formats << dbit, pbit >> the two ends may agree on.
  DvsrRange,  \* 2^DVSR_BIT, the range of the baud rate generators.
  Rates,      \* The transmitter's settings: records of its dvsr m, os_tick os
              \* and sb_tick sb.
  RxM, RxOS, RxSB,   \* The settings of the receiver.
  None        \* Not a byte.

ASSUME LinkAssumption ==
  /\ DBIT \in Nat /\ DBIT >= 2
  /\ Bytes \subseteq [0 .. DBIT - 1 -> {0, 1}]
  /\ Formats \subseteq {DBIT - 1, DBIT} \X (0 .. 2)
  /\ DvsrRange \in Nat
  /\ Rates \subseteq [m : 0 .. DvsrRange - 1, os : Nat \ {0}, sb : Nat \ {0}]
  /\ RxM \in 0 .. DvsrRange - 1
  /\ {RxOS, RxSB} \subseteq Nat \ {0}
  /\ None \notin Bytes

(***************************************************************************)
(* The tolerance, in clocks.  A start bit is up to a tick of the sender    *)
(* short, the receiver sees it up to a tick late, and by bit j it has      *)
(* drifted by j times the difference of the bits' lengths.                 *)
(***************************************************************************)
RxBit     == RxOS * (RxM + 1)
RxStopBit == RxSB * (RxM + 1)
Middle    == ((RxOS - 1) \div 2) * (RxM + 1)

BitsOf(f) == f[1] + (IF f[2] > 0 THEN 1 ELSE 0)
BitOf(q)  == q.os * (q.m + 1)
StopOf(q) == q.sb * (q.m + 1)

Earliest(j, q) == Middle + 1 + j * (RxBit - BitOf(q))
Latest(j, q)   == Earliest(j, q) + RxM + 1 + q.m

(* Every bit is sampled within itself, the stop bit not before it begins   *)
(* and not after the next byte may begin.                                  *)
Tolerated(f, q) ==
  /\ \A j \in 0 .. BitsOf(f) : Earliest(j, q) >= 0 /\ Latest(j, q) <= BitOf(q)
  /\ Earliest(BitsOf(f), q) + RxStopBit >= BitOf(q)
  /\ Latest(BitsOf(f), q) + RxStopBit <= BitOf(q) + StopOf(q)

ASSUME ToleranceAssumption == \A f \in Formats, q \in Rates : Tolerated(f, q)

(* With DBIT - 1 data bits the receiver's parity takes in a leftover bit.  *)
ASSUME FormatAssumption == \A f \in Formats : f[2] > 0 => f[1] = DBIT

VARIABLES
  format,            \* << dbit, pbit >>, set by uart1_init on both ends.
  rate,              \* The settings of the transmitter, of Rates.
  din,               \* The byte at the head of the transmit FIFO, or None.
  tx_r, tx_tick,     \* The transmitter's baud rate generator.
  tx,                \* The registers of uart_tx: state, s, n, b.
  line,              \* tx_reg, the level of the wire.
  rx_r, rx_tick,     \* The receiver's baud rate generator.
  rx,                \* The registers of uart_rx: state, s, n, b, e_parity.
  e_frame,           \* The frame error register of uart_rx.
  pending            \* History: the bytes begun and not yet delivered.

sender   == << din, tx_r, tx_tick, tx, line >>
receiver == << rx_r, rx_tick, rx, e_frame >>
vars     == << format, rate, sender, receiver, pending >>

TxBaud == INSTANCE ModMCounter WITH Range <- DvsrRange, r_reg <- tx_r,
                                    max_tick_reg <- tx_tick
RxBaud == INSTANCE ModMCounter WITH Range <- DvsrRange, r_reg <- rx_r,
                                    max_tick_reg <- rx_tick

dbit == format[1]
pbit == format[2]

(* parity_calculator.v: over the low dbit bits of data; 1 is even, 2 odd.  *)
Parity(data) ==
  LET ones == Cardinality({i \in 0 .. dbit - 1 : data[i] = 1})
  IN  CASE pbit = 0 -> 0
        [] pbit = 1 -> ones % 2
        [] OTHER    -> (ones + 1) % 2

(***************************************************************************)
(* The transmitter (uart_tx.v).                                            *)
(***************************************************************************)
TxStates == {"idle", "start", "data", "parity", "stop"}

(* A tick ends the current bit, or only counts towards its end.            *)
TxBitEnds == tx_tick /\ tx.s = rate.os - 1
TxCount   == IF tx_tick THEN tx.s + 1 ELSE tx.s

tx_done_tick == tx.state = "stop" /\ tx_tick /\ tx.s = rate.sb - 1

TxIdle == /\ tx.state = "idle"
          /\ line' = 1
          /\ IF din # None
             THEN tx' = [tx EXCEPT !.state = "start", !.s = 0, !.b = din]
             ELSE UNCHANGED tx

(* Mutant: the line is not driven low.                                     *)
TxStartUndriven == /\ tx.state = "start"
                   /\ tx' = IF TxBitEnds
                            THEN [tx EXCEPT !.state = "data", !.s = 0, !.n = 0]
                            ELSE [tx EXCEPT !.s = TxCount]
                   /\ UNCHANGED line

TxStart == /\ tx.state = "start"
           /\ line' = 0
           /\ tx' = IF TxBitEnds
                    THEN [tx EXCEPT !.state = "data", !.s = 0, !.n = 0]
                    ELSE [tx EXCEPT !.s = TxCount]

TxData == /\ tx.state = "data"
          /\ line' = tx.b[tx.n]
          /\ tx' = IF ~TxBitEnds
                   THEN [tx EXCEPT !.s = TxCount]
                   ELSE IF tx.n = dbit - 1
                   THEN [tx EXCEPT !.s = 0, !.n = 0,
                           !.state = IF pbit > 0 THEN "parity" ELSE "stop"]
                   ELSE [tx EXCEPT !.s = 0, !.n = @ + 1]

(* The parity is that of din, the byte still at the head of the FIFO.      *)
TxParity == /\ tx.state = "parity"
            /\ line' = Parity(din)
            /\ tx' = IF TxBitEnds
                     THEN [tx EXCEPT !.state = "stop", !.s = 0, !.n = 0]
                     ELSE [tx EXCEPT !.s = TxCount]

TxStop == /\ tx.state = "stop"
          /\ line' = 1
          /\ tx' = IF tx_done_tick THEN [tx EXCEPT !.state = "idle"]
                                   ELSE [tx EXCEPT !.s = TxCount]

Transmit == TxIdle \/ TxStart \/ TxData \/ TxParity \/ TxStop

(* The FIFO in front of the transmitter: a byte comes to its head whenever *)
(* the firmware writes one and leaves at tx_done_tick.                     *)
Feed == IF din = None \/ tx_done_tick THEN din' \in Bytes \cup {None}
                                      ELSE UNCHANGED din

(***************************************************************************)
(* The receiver (uart_rx.v).                                               *)
(***************************************************************************)
RxStates == {"idle", "start", "data", "parity", "stop"}

RxBitEnds == rx_tick /\ rx.s = RxOS - 1
RxCount   == IF rx_tick THEN rx.s + 1 ELSE rx.s

(* Mutant: the receiver waits for two stop bits.                           *)
rx_done_tick_late == rx.state = "stop" /\ rx_tick /\ rx.s = 2 * RxSB - 1

rx_done_tick == rx.state = "stop" /\ rx_tick /\ rx.s = RxSB - 1

(* {rx, b_reg[7:1]}: the first bit ends up lowest.                         *)
ShiftIn(b, bit) == [i \in 0 .. DBIT - 1 |->
                      IF i = DBIT - 1 THEN bit ELSE b[i + 1]]

(* What the receive FIFO is given: with DBIT - 1 data bits the lowest place*)
(* of b_reg is a leftover and is shifted out.                              *)
dout == IF dbit = DBIT - 1 THEN ShiftIn(rx.b, 0) ELSE rx.b

RxIdle == /\ rx.state = "idle"
          /\ rx' = IF line = 0 THEN [rx EXCEPT !.state = "start", !.s = 0]
                               ELSE rx
          /\ UNCHANGED e_frame

(* Mutant: the start bit is timed to its end.                              *)
RxStartFull == /\ rx.state = "start"
               /\ IF rx_tick /\ rx.s = RxOS - 1
                  THEN /\ rx' = [rx EXCEPT !.state = "data", !.s = 0, !.n = 0,
                                           !.e_parity = FALSE]
                       /\ e_frame' = FALSE
                  ELSE /\ rx' = [rx EXCEPT !.s = RxCount]
                       /\ UNCHANGED e_frame

(* The start bit is timed to its middle and not looked at again.           *)
RxStart == /\ rx.state = "start"
           /\ IF rx_tick /\ rx.s = (RxOS - 1) \div 2
              THEN /\ rx' = [rx EXCEPT !.state = "data", !.s = 0, !.n = 0,
                                       !.e_parity = FALSE]
                   /\ e_frame' = FALSE
              ELSE /\ rx' = [rx EXCEPT !.s = RxCount]
                   /\ UNCHANGED e_frame

(* Mutant: one bit too few.                                                *)
RxDataShort == /\ rx.state = "data"
               /\ rx' = IF ~RxBitEnds
                        THEN [rx EXCEPT !.s = RxCount]
                        ELSE IF rx.n = dbit - 2
                        THEN [rx EXCEPT !.s = 0, !.n = 0,
                                !.b = ShiftIn(@, line),
                                !.state = IF pbit > 0 THEN "parity"
                                                      ELSE "stop"]
                        ELSE [rx EXCEPT !.s = 0, !.n = @ + 1,
                                        !.b = ShiftIn(@, line)]
               /\ UNCHANGED e_frame

RxData == /\ rx.state = "data"
          /\ rx' = IF ~RxBitEnds
                   THEN [rx EXCEPT !.s = RxCount]
                   ELSE IF rx.n = dbit - 1
                   THEN [rx EXCEPT !.s = 0, !.n = 0, !.b = ShiftIn(@, line),
                           !.state = IF pbit > 0 THEN "parity" ELSE "stop",
                           !.e_parity = IF pbit > 0 THEN @ ELSE FALSE]
                   ELSE [rx EXCEPT !.s = 0, !.n = @ + 1,
                                   !.b = ShiftIn(@, line)]
          /\ UNCHANGED e_frame

(* The parity is that of the low bits of b_reg, not of dout.               *)
RxParity == /\ rx.state = "parity"
            /\ rx' = IF RxBitEnds
                     THEN [rx EXCEPT !.state = "stop", !.s = 0, !.n = 0,
                                     !.e_parity = (Parity(rx.b) # line)]
                     ELSE [rx EXCEPT !.s = RxCount]
            /\ UNCHANGED e_frame

RxStop == /\ rx.state = "stop"
          /\ IF rx_done_tick
             THEN /\ rx' = [rx EXCEPT !.state = "idle", !.s = 0, !.n = 0]
                  /\ e_frame' = (line = 0)
             ELSE /\ rx' = [rx EXCEPT !.s = RxCount]
                  /\ UNCHANGED e_frame

Receive == RxIdle \/ RxStart \/ RxData \/ RxParity \/ RxStop

(***************************************************************************)
(* The specification.                                                      *)
(***************************************************************************)
AllZero == [i \in 0 .. DBIT - 1 |-> 0]

Init == /\ format \in Formats
        /\ rate \in Rates
        /\ din = None
        /\ tx_r \in 0 .. rate.m /\ tx_tick = FALSE
        /\ RxBaud!Init
        /\ tx = [state |-> "idle", s |-> 0, n |-> 0, b |-> AllZero]
        /\ rx = [state |-> "idle", s |-> 0, n |-> 0, b |-> AllZero,
                 e_parity |-> FALSE]
        /\ line = 1
        /\ e_frame = FALSE
        /\ pending = << >>

(* What has begun and what was delivered at this edge.                     *)
Record ==
  LET left == IF rx_done_tick /\ pending # << >> THEN Tail(pending)
                                                 ELSE pending
  IN  pending' = IF tx.state = "idle" /\ din # None THEN Append(left, din)
                                                    ELSE left

Next == /\ TxBaud!Clock(rate.m)
        /\ RxBaud!Clock(RxM)
        /\ Transmit
        /\ Feed
        /\ Receive
        /\ Record
        /\ UNCHANGED << format, rate >>

Spec == Init /\ [][Next]_vars

(* The system clock never stops.                                           *)
FairSpec == Spec /\ WF_vars(Next)

(***************************************************************************)
(* Properties.                                                             *)
(***************************************************************************)

(* The bits of a byte that are sent, as the receiver presents them.        *)
Payload(byte) == [i \in 0 .. DBIT - 1 |-> IF i < dbit THEN byte[i] ELSE 0]

(* Whenever the receiver hands a byte to its FIFO, a byte was sent for it, *)
(* and it is that byte: whatever the phase of the two baud rate generators *)
(* and the pause since the byte before (uart_tx.v:61-131, uart_rx.v:66-132,*)
(* uart_rx.v:136-138).                                                     *)
DeliveredAsSent ==
  rx_done_tick => pending # << >> /\ dout = Payload(Head(pending))

(* A byte nobody disturbed is reported neither as one without a stop bit   *)
(* nor as one with the wrong parity (uart_rx.v:112, uart_rx.v:124; "Data   *)
(* bits (7 or 8)" and "0=none, 1=even, 2 = odd", uart_rx.v:7-8).           *)
NoSpuriousError == rx_done_tick => line = 1 /\ ~rx.e_parity

(* The receiver is done with a byte before the next one begins, so that it *)
(* is ready for every start bit, back to back too.                         *)
ReceiverKeepsUp == Len(pending) <= 1

(* Every byte that is begun is delivered.                                  *)
EveryByteDelivered == pending # << >> ~> rx_done_tick
=============================================================================
