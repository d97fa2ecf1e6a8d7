------------------------------ MODULE UartPort ------------------------------
(***************************************************************************)
(* The UART between the firmware and the two lines, byte by byte: the      *)
(* wiring of uart.v (edge triggers, FIFOs, the byte level of uart_tx and   *)
(* uart_rx) driven through its registers by the driver of                  *)
(* controller_system.c and by uart_flush (uart.c).                         *)
(*                                                                         *)
(* A step is one clock edge.  All registers change together, each from the *)
(* values before the edge.  The processor completes at most one register   *)
(* access per edge and may take any number of edges for it; the nop()s of  *)
(* the driver are such edges.                                              *)
(***************************************************************************)
EXTENDS Integers, Sequences, SequencesExt

CONSTANTS
  Slots,        \* The number of slots of each FIFO, 256 in blastit_main.v.
  Data,         \* The set of bytes.
  None,         \* Not a byte.
  MaxWritten,   \* Bound: bytes written between two resets.
  MaxArrived    \* Bound: bytes received between two resets.

ASSUME UartAssumption == /\ Slots \in Nat /\ Slots >= 2
                         /\ None \notin Data

VARIABLES
  tx_array, tx_w, tx_r, tx_of, tx_uf,   \* fifo_tx_unit.
  rx_array, rx_w, rx_r, rx_of, rx_uf,   \* fifo_rx_unit.
  wr_trigger, rd_trigger,   \* uart_tx_trigger and uart_rx_trigger.
  tx_busy, b_reg,           \* uart_tx: sending, and the byte it sends.
  reset, control, w_data,   \* The output registers the firmware writes.
  pc, arg,                  \* Where the firmware is, and the byte it sends.
  written, sent,            \* History: bytes passed to uart1_tx; bytes sent.
  arrived, got              \* History: bytes received; bytes uart1_rx read.

txFifo   == << tx_array, tx_w, tx_r, tx_of, tx_uf >>
rxFifo   == << rx_array, rx_w, rx_r, rx_of, rx_uf >>
hardware == << txFifo, rxFifo, wr_trigger, rd_trigger, tx_busy, b_reg >>
firmware == << reset, control, w_data, pc, arg >>
history  == << written, sent, arrived, got >>
vars     == << hardware, firmware, history >>

Tx == INSTANCE Fifo WITH array_reg <- tx_array, w_ptr <- tx_w,
                         r_ptr <- tx_r, of <- tx_of, uf <- tx_uf
Rx == INSTANCE Fifo WITH array_reg <- rx_array, w_ptr <- rx_w,
                         r_ptr <- rx_r, of <- rx_of, uf <- rx_uf

(***************************************************************************)
(* The edge triggers (edge_trigger.v, en = 1).                             *)
(***************************************************************************)
Untriggered == [in_reg |-> FALSE, state |-> "wait_trigger"]

(* Mutant: without the trigger the level of WR or RD is the tick.          *)
TickAtLevel(in, t) == in

(* The tick is combinational: it is high in the first cycle of in.         *)
Tick(in, t) == t.state = "wait_trigger" /\ in /\ ~t.in_reg

Triggered(in, t) ==
  [in_reg |-> in,
   state  |-> CASE Tick(in, t)                    -> "triggered"
                [] t.state = "triggered" /\ ~in   -> "wait_trigger"
                [] OTHER                          -> t.state]

wr_uart_tick == Tick(control = "WR", wr_trigger)
rd_uart_tick == Tick(control = "RD", rd_trigger)

(***************************************************************************)
(* The hardware at a clock edge.                                           *)
(***************************************************************************)

(* Mutant: uart_tx takes the byte off the FIFO when it latches it.         *)
TxFifoReadAtStart(tx_done_tick) ==
  LET start == ~tx_busy /\ ~Tx!empty
  IN  \/ wr_uart_tick /\ start /\ Tx!ReadWrite(w_data)
      \/ wr_uart_tick /\ ~start /\ Tx!Write(w_data)
      \/ ~wr_uart_tick /\ start /\ Tx!Read
      \/ ~wr_uart_tick /\ ~start /\ UNCHANGED txFifo

(* fifo_tx_unit: written by the tick of WR, read by tx_done_tick.          *)
TxFifoEdge(tx_done_tick) ==
  \/ wr_uart_tick /\ tx_done_tick /\ Tx!ReadWrite(w_data)
  \/ wr_uart_tick /\ ~tx_done_tick /\ Tx!Write(w_data)
  \/ ~wr_uart_tick /\ tx_done_tick /\ Tx!Read
  \/ ~wr_uart_tick /\ ~tx_done_tick /\ UNCHANGED txFifo

(* Mutant: a read at the edge at which a byte arrives is lost.             *)
RxFifoWriteFirst(byte) ==
  \/ byte # None /\ Rx!Write(byte)
  \/ rd_uart_tick /\ byte = None /\ Rx!Read
  \/ ~rd_uart_tick /\ byte = None /\ UNCHANGED rxFifo

(* fifo_rx_unit: written by rx_done_tick, read by the tick of RD.          *)
RxFifoEdge(byte) ==
  \/ rd_uart_tick /\ byte # None /\ Rx!ReadWrite(byte)
  \/ rd_uart_tick /\ byte = None /\ Rx!Read
  \/ ~rd_uart_tick /\ byte # None /\ Rx!Write(byte)
  \/ ~rd_uart_tick /\ byte = None /\ UNCHANGED rxFifo

(* uart_tx: it latches the oldest byte when idle and takes it off the FIFO *)
(* when the stop bit ends, after any number of edges.                      *)
Transmitter(tx_done_tick) ==
  \/ /\ ~tx_busy /\ ~tx_done_tick
     /\ tx_busy' = ~Tx!empty
     /\ b_reg' = IF Tx!empty THEN b_reg ELSE Tx!r_data
     /\ UNCHANGED sent
  \/ /\ tx_busy /\ ~tx_done_tick
     /\ UNCHANGED << tx_busy, b_reg, sent >>
  \/ /\ tx_busy /\ tx_done_tick
     /\ tx_busy' = FALSE
     /\ sent' = Append(sent, b_reg)
     /\ UNCHANGED b_reg

(* uart_rx: the byte it completes at this edge, if any.  The peer sends no *)
(* more than the receive FIFO has room for.                                *)
Receiver(byte) ==
  \/ byte = None /\ UNCHANGED arrived
  \/ /\ byte # None
     /\ Len(arrived) < MaxArrived
     /\ Rx!Level < Slots - 1
     /\ arrived' = Append(arrived, byte)

(* While UART1_RESET is high every register of the UART is held.           *)
HeldInReset == /\ Tx!Reset
               /\ Rx!Reset
               /\ wr_trigger' = Untriggered
               /\ rd_trigger' = Untriggered
               /\ tx_busy' = FALSE
               /\ b_reg' = None
               /\ sent' = << >>
               /\ arrived' = << >>

Running(tx_done_tick, byte) ==
  /\ TxFifoEdge(tx_done_tick)
  /\ RxFifoEdge(byte)
  /\ Transmitter(tx_done_tick)
  /\ Receiver(byte)
  /\ wr_trigger' = Triggered(control = "WR", wr_trigger)
  /\ rd_trigger' = Triggered(control = "RD", rd_trigger)

Hardware(tx_done_tick, byte) ==
  \/ reset /\ ~tx_done_tick /\ byte = None /\ HeldInReset
  \/ ~reset /\ Running(tx_done_tick, byte)

(***************************************************************************)
(* The firmware.  Each operator is one register access of the driver, or   *)
(* the start of a call of it.                                              *)
(***************************************************************************)
Goto(from, to) == pc = from /\ pc' = to

(* TX_FULL stays low when the FIFO is full and its oldest byte in slot 0   *)
(* (fifo.v:78); the callers are taken not to meet that.                    *)
FullUnseen == Tx!Level = Slots - 1 /\ ~Tx!full

(* uart1_tx(d): wait until TX_FULL is low, write the byte, pulse WR.       *)
CallTx(d) == /\ Goto("idle", "tx_poll")
             /\ Len(written) < MaxWritten
             /\ ~FullUnseen
             /\ arg' = d
             /\ written' = Append(written, d)
             /\ UNCHANGED << reset, control, w_data, got >>

TxNotFull == /\ Goto("tx_poll", "tx_data")
             /\ ~Tx!full
             /\ UNCHANGED << reset, control, w_data, arg, written, got >>

TxData == /\ Goto("tx_data", "tx_high")
          /\ w_data' = arg
          /\ UNCHANGED << reset, control, arg, written, got >>

TxHigh == /\ Goto("tx_high", "tx_low")
          /\ control' = "WR"
          /\ UNCHANGED << reset, w_data, arg, written, got >>

TxLow == /\ Goto("tx_low", "idle")
         /\ control' = "none"
         /\ UNCHANGED << reset, w_data, arg, written, got >>

(* uart1_rx(): wait until RX_EMPTY is low, read the byte, pulse RD.        *)
CallRx == /\ Goto("idle", "rx_poll")
          /\ UNCHANGED << reset, control, w_data, arg, written, got >>

RxNotEmpty == /\ Goto("rx_poll", "rx_data")
              /\ ~Rx!empty
              /\ UNCHANGED << reset, control, w_data, arg, written, got >>

RxData == /\ Goto("rx_data", "rx_high")
          /\ got' = Append(got, Rx!r_data)
          /\ UNCHANGED << reset, control, w_data, arg, written >>

RxHigh == /\ Goto("rx_high", "rx_low")
          /\ control' = "RD"
          /\ UNCHANGED << reset, w_data, arg, written, got >>

RxLow == /\ Goto("rx_low", "idle")
         /\ control' = "none"
         /\ UNCHANGED << reset, w_data, arg, written, got >>

(* uart_flush(UART_FLAG_SYNC): wait until TX_EMPTY is high.                *)
CallFlush == /\ Goto("idle", "flush")
             /\ UNCHANGED << reset, control, w_data, arg, written, got >>

(* Mutant: uart_flush waits for RX_EMPTY.                                  *)
FlushedRxEmpty == /\ Goto("flush", "idle")
                  /\ Rx!empty
                  /\ UNCHANGED << reset, control, w_data, arg, written, got >>

Flushed == /\ Goto("flush", "idle")
           /\ Tx!empty
           /\ UNCHANGED << reset, control, w_data, arg, written, got >>

(* uart1_init and uart1_reset raise the reset, hold it and lower it;       *)
(* uart1_shutdown leaves it raised until the next uart1_init.              *)
ResetHigh == /\ pc \in {"idle", "down"}
             /\ pc' \in {"reset"} \cup (IF pc = "idle" THEN {"down"} ELSE {})
             /\ reset' = TRUE
             /\ written' = << >>
             /\ got' = << >>
             /\ UNCHANGED << control, w_data, arg >>

ResetLow == /\ Goto("reset", "idle")
            /\ reset' = FALSE
            /\ UNCHANGED << control, w_data, arg, written, got >>

FirmwareStep == \/ \E d \in Data : CallTx(d)
                \/ TxNotFull \/ TxData \/ TxHigh \/ TxLow
                \/ CallRx \/ RxNotEmpty \/ RxData \/ RxHigh \/ RxLow
                \/ CallFlush \/ Flushed
                \/ ResetHigh \/ ResetLow

Stall == UNCHANGED << firmware, written, got >>

(***************************************************************************)
(* The specification.                                                      *)
(***************************************************************************)
Init == /\ Tx!Init
        /\ Rx!Init
        /\ wr_trigger = Untriggered
        /\ rd_trigger = Untriggered
        /\ tx_busy = FALSE
        /\ b_reg = None
        /\ reset = FALSE
        /\ control = "none"
        /\ w_data = None
        /\ pc = "down"
        /\ arg = None
        /\ written = << >>
        /\ sent = << >>
        /\ arrived = << >>
        /\ got = << >>

(* One clock edge, with or without a register access.                      *)
Edge(tx_done_tick, byte) == /\ Hardware(tx_done_tick, byte)
                            /\ FirmwareStep \/ Stall

Next == \E tx_done_tick \in BOOLEAN, byte \in Data \cup {None} :
          Edge(tx_done_tick, byte)

Spec == Init /\ [][Next]_vars

(* The clock never stops, the stop bit of a byte that is being sent ends,  *)
(* and the processor completes the accesses of a call it has begun.  That  *)
(* it begins a call, or that the peer sends a byte, is not assumed.        *)
SendEnds  == \E byte \in Data \cup {None} : Edge(TRUE, byte)
CallGoesOn == pc # "idle" /\ pc # "down" /\ FirmwareStep /\ Next

Fairness == /\ WF_vars(Next)
            /\ WF_vars(SendEnds)
            /\ WF_vars(CallGoesOn)

FairSpec == Spec /\ Fairness

(***************************************************************************)
(* Properties.                                                             *)
(***************************************************************************)

(* Between two calls every byte given to uart1_tx is either on the line    *)
(* already or in the transmit FIFO, once and in order, however long the    *)
(* processor holds WR high (controller_system.c:297-309, uart.v:35-37).    *)
TxLossless == pc = "idle" => written = sent \o Tx!Content

(* Between two calls every byte the receiver completed was returned by     *)
(* uart1_rx or is in the receive FIFO, once and in order, also when a byte *)
(* arrives at the edge that takes another off (controller_system.c:282-295,*)
(* uart.v:32-34).                                                          *)
RxLossless == pc = "idle" => arrived = got \o Rx!Content

(* The byte on the line stays at the head of the FIFO until its stop bit   *)
(* ends: uart_tx computes the parity from din while it sends (uart_tx.v:31)*)
(* and TX_EMPTY stays low until the line is idle (uart.v:36-39).           *)
HeadStays == tx_busy /\ ~reset => ~Tx!empty /\ b_reg = Tx!r_data

(* When uart_flush(UART_FLAG_SYNC) returns, every byte is on the line up to*)
(* its stop bit: uart_close may raise the reset (uart.c:136-152).          *)
FlushMeansSent ==
  [][pc = "flush" /\ pc' = "idle" => sent = written /\ ~tx_busy]_vars

(* uart_flush(UART_FLAG_SYNC) returns: whatever was given to uart1_tx is   *)
(* sent, by FlushMeansSent, and the wait of uart.c:148 is no endless loop. *)
FlushReturns == pc = "flush" ~> pc = "idle"
=============================================================================
