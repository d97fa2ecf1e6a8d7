----------------------------- MODULE UartProofs -----------------------------
(***************************************************************************)
(* Proofs about UartPort for every number of slots and every set of bytes. *)
(*                                                                         *)
(* The two FIFOs are used through what FifoProofs proves of Fifo: an edge  *)
(* of a careful user is a step of a queue.  What is left is that the port  *)
(* is a careful user of both, and that every byte is accounted for.        *)
(***************************************************************************)
EXTENDS UartPort, SequenceTheorems, TLAPS

TxProved == INSTANCE FifoProofs WITH array_reg <- tx_array, w_ptr <- tx_w,
                                     r_ptr <- tx_r, of <- tx_of, uf <- tx_uf
RxProved == INSTANCE FifoProofs WITH array_reg <- rx_array, w_ptr <- rx_w,
                                     r_ptr <- rx_r, of <- rx_of, uf <- rx_uf

(* The bytes in each FIFO, the oldest first.                               *)
TxQueue == Tx!Content
RxQueue == Rx!Content

(* An edge at which a queue q loses its head, gains the words of t, both   *)
(* or neither.                                                             *)
Moved(q, deq, t) == (IF deq THEN Tail(q) ELSE q) \o t

(***************************************************************************)
(* Sequences.                                                              *)
(***************************************************************************)

(* Concatenation is associative.                                           *)
LEMMA ConcatAssoc ==
  ASSUME NEW S, NEW s \in Seq(S), NEW t \in Seq(S), NEW u \in Seq(S)
  PROVE  s \o (t \o u) = (s \o t) \o u
BY ConcatAssociative

(* Taking the head off one sequence and appending it to another keeps the  *)
(* two of them together.                                                   *)
LEMMA HeadMoves ==
  ASSUME NEW S, NEW s \in Seq(S), NEW q \in Seq(S), q # << >>
  PROVE  Append(s, Head(q)) \o Tail(q) = s \o q
<1>1. Head(q) \in S /\ Tail(q) \in Seq(S) /\ << Head(q) >> \in Seq(S)
  BY HeadTailProperties
<1>2. Append(s, Head(q)) = s \o << Head(q) >>
  BY <1>1, AppendIsConcat
<1>3. << Head(q) >> \o Tail(q) = q
  BY HeadTailProperties
<1> QED
  BY <1>1, <1>2, <1>3, ConcatAssociative

(* What is put behind a sequence does not change what is at its head.      *)
LEMMA TailOfConcat ==
  ASSUME NEW S, NEW s \in Seq(S), NEW t \in Seq(S), s # << >>
  PROVE  s \o t # << >> /\ Tail(s \o t) = Tail(s) \o t
<1>1. Head(s) \in S /\ Tail(s) \in Seq(S) /\ << Head(s) >> \in Seq(S)
  BY HeadTailProperties
<1>2. s = << Head(s) >> \o Tail(s)
  BY HeadTailProperties
<1>3. s \o t = << Head(s) >> \o (Tail(s) \o t)
  BY <1>1, <1>2, ConcatAssoc
<1>4. Tail(s) \o t \in Seq(S)
  BY <1>1, ConcatProperties
<1> QED
  BY <1>1, <1>3, <1>4, HeadTailAppend

(***************************************************************************)
(* The invariant.                                                          *)
(***************************************************************************)
Fired == [in_reg |-> TRUE, state |-> "triggered"]

TypeInv == /\ Tx!TypeOK /\ Rx!TypeOK
           /\ wr_trigger \in {Untriggered, Fired}
           /\ rd_trigger \in {Untriggered, Fired}
           /\ tx_busy \in BOOLEAN /\ reset \in BOOLEAN
           /\ control \in {"none", "WR", "RD"}
           /\ pc \in {"down", "reset", "idle", "flush",
                      "tx_poll", "tx_data", "tx_high", "tx_low",
                      "rx_poll", "rx_data", "rx_high", "rx_low"}
           /\ written \in Seq(Data) /\ sent \in Seq(Data)
           /\ arrived \in Seq(Data) /\ got \in Seq(Data)

(* Where the firmware is says what it holds the control register at, which *)
(* triggers may have fired and whether the UART is in reset.               *)
ControlInv == /\ control = "WR" <=> pc = "tx_low"
              /\ control = "RD" <=> pc = "rx_low"
              /\ wr_trigger = Fired => reset \/ pc \in {"idle", "tx_low"}
              /\ rd_trigger = Fired => reset \/ pc \in {"idle", "rx_low"}
              /\ reset => pc \in {"down", "reset"}
              /\ pc = "reset" => reset /\ written = << >> /\ got = << >>
              /\ pc = "down" /\ ~reset => Tx!empty /\ ~tx_busy

Up == pc \notin {"down", "reset"}

(* uart1_tx has been given a byte that is not yet in the FIFO.             *)
TxPending == \/ pc \in {"tx_poll", "tx_data", "tx_high"}
             \/ pc = "tx_low" /\ wr_trigger = Untriggered

Pending == IF TxPending THEN << arg >> ELSE << >>

(* Every byte written is sent, in the FIFO or about to enter it, and from  *)
(* the poll of TX_FULL on there is room for the one that is.               *)
TxInv == Up => /\ written = (sent \o TxQueue) \o Pending
               /\ TxPending => arg \in Data
               /\ pc \in {"tx_high", "tx_low"} => w_data = arg
               /\ pc = "tx_poll" => ~FullUnseen
               /\ TxPending /\ pc # "tx_poll" => Tx!Level < Slots - 1

(* uart1_rx has read a byte that is still at the head of the FIFO.         *)
RxPending == \/ pc = "rx_high"
             \/ pc = "rx_low" /\ rd_trigger = Untriggered

(* Every byte that arrived is in the FIFO or has been returned; the one    *)
(* that is read but not yet taken off counts as returned.                  *)
RxInv == Up => /\ arrived = got \o (IF RxPending THEN Tail(RxQueue)
                                                 ELSE RxQueue)
               /\ RxPending \/ pc = "rx_data" => ~Rx!empty

IInv == TypeInv /\ ControlInv /\ HeadStays /\ TxInv /\ RxInv

(***************************************************************************)
(* What Fifo promises, for the two FIFOs.                                  *)
(***************************************************************************)
TxOutputs == /\ TxQueue \in Seq(Data)
             /\ Len(TxQueue) = Tx!Level
             /\ Tx!Level \in 0 .. Slots - 1
             /\ Tx!empty <=> TxQueue = << >>
             /\ ~Tx!empty => Tx!r_data = Head(TxQueue)

(* The outputs of the transmit FIFO in terms of the bytes in it.           *)
LEMMA TxOutputsOfQueue == Tx!TypeOK => TxOutputs
<1> SUFFICES ASSUME Tx!TypeOK PROVE TxOutputs
  OBVIOUS
<1>1. TxProved!TypeOK
  BY DEF Tx!TypeOK, TxProved!TypeOK, Tx!Slot, TxProved!Slot
<1>2. TxProved!OutputsAgree
  BY <1>1, UartAssumption, TxProved!OutputsOfContent
<1> QED
  BY <1>2 DEF TxOutputs, TxQueue, TxProved!OutputsAgree,
     Tx!Content, TxProved!Content, Tx!Level, TxProved!Level,
     Tx!Nth, TxProved!Nth, Tx!empty, TxProved!empty,
     Tx!r_data, TxProved!r_data

(* The edges of the transmit FIFO in terms of the bytes in it.             *)
LEMMA TxEdgesOfQueue ==
  ASSUME Tx!TypeOK
  PROVE  /\ ~Tx!empty /\ Tx!Read => Tx!TypeOK' /\ TxQueue' = Tail(TxQueue)
         /\ \A d \in Data :
              Tx!Level < Slots - 1 /\ Tx!Write(d)
                => Tx!TypeOK' /\ TxQueue' = Append(TxQueue, d)
         /\ \A d \in Data :
              ~Tx!empty /\ Tx!ReadWrite(d)
                => Tx!TypeOK' /\ TxQueue' = Append(Tail(TxQueue), d)
         /\ Tx!Reset => Tx!TypeOK' /\ TxQueue' = << >>
         /\ UNCHANGED txFifo => Tx!TypeOK' /\ TxQueue' = TxQueue
<1>1. TxProved!TypeOK
  BY DEF Tx!TypeOK, TxProved!TypeOK, Tx!Slot, TxProved!Slot
<1>2. /\ TxProved!Content = TxQueue /\ TxProved!Content' = TxQueue'
      /\ TxProved!TypeOK' <=> Tx!TypeOK'
      /\ TxProved!empty <=> Tx!empty
      /\ TxProved!Level = Tx!Level
  BY DEF TxQueue, Tx!Content, TxProved!Content, Tx!Level, TxProved!Level,
     Tx!Nth, TxProved!Nth, Tx!empty, TxProved!empty,
     Tx!TypeOK, TxProved!TypeOK, Tx!Slot, TxProved!Slot
<1>3. /\ TxProved!Read <=> Tx!Read
      /\ TxProved!Reset <=> Tx!Reset
      /\ UNCHANGED TxProved!vars <=> UNCHANGED txFifo
  BY DEF TxProved!Read, Tx!Read, TxProved!Reset, Tx!Reset, TxProved!vars,
     txFifo, TxProved!Succ, Tx!Succ
<1>4. \A d \in Data : /\ TxProved!Write(d) <=> Tx!Write(d)
                      /\ TxProved!ReadWrite(d) <=> Tx!ReadWrite(d)
  BY DEF TxProved!Write, Tx!Write, TxProved!ReadWrite, Tx!ReadWrite,
     TxProved!Succ, Tx!Succ
<1> HIDE DEF TxQueue
<1> QED
  BY <1>1, <1>2, <1>3, <1>4, UartAssumption, TxProved!EdgesOfContent

RxOutputs == /\ RxQueue \in Seq(Data)
             /\ Len(RxQueue) = Rx!Level
             /\ Rx!Level \in 0 .. Slots - 1
             /\ Rx!empty <=> RxQueue = << >>
             /\ ~Rx!empty => Rx!r_data = Head(RxQueue)

(* The outputs of the receive FIFO in terms of the bytes in it.           *)
LEMMA RxOutputsOfQueue == Rx!TypeOK => RxOutputs
<1> SUFFICES ASSUME Rx!TypeOK PROVE RxOutputs
  OBVIOUS
<1>1. RxProved!TypeOK
  BY DEF Rx!TypeOK, RxProved!TypeOK, Rx!Slot, RxProved!Slot
<1>2. RxProved!OutputsAgree
  BY <1>1, UartAssumption, RxProved!OutputsOfContent
<1> QED
  BY <1>2 DEF RxOutputs, RxQueue, RxProved!OutputsAgree,
     Rx!Content, RxProved!Content, Rx!Level, RxProved!Level,
     Rx!Nth, RxProved!Nth, Rx!empty, RxProved!empty,
     Rx!r_data, RxProved!r_data

(* The edges of the receive FIFO in terms of the bytes in it.             *)
LEMMA RxEdgesOfQueue ==
  ASSUME Rx!TypeOK
  PROVE  /\ ~Rx!empty /\ Rx!Read => Rx!TypeOK' /\ RxQueue' = Tail(RxQueue)
         /\ \A d \in Data :
              Rx!Level < Slots - 1 /\ Rx!Write(d)
                => Rx!TypeOK' /\ RxQueue' = Append(RxQueue, d)
         /\ \A d \in Data :
              ~Rx!empty /\ Rx!ReadWrite(d)
                => Rx!TypeOK' /\ RxQueue' = Append(Tail(RxQueue), d)
         /\ Rx!Reset => Rx!TypeOK' /\ RxQueue' = << >>
         /\ UNCHANGED rxFifo => Rx!TypeOK' /\ RxQueue' = RxQueue
<1>1. RxProved!TypeOK
  BY DEF Rx!TypeOK, RxProved!TypeOK, Rx!Slot, RxProved!Slot
<1>2. /\ RxProved!Content = RxQueue /\ RxProved!Content' = RxQueue'
      /\ RxProved!TypeOK' <=> Rx!TypeOK'
      /\ RxProved!empty <=> Rx!empty
      /\ RxProved!Level = Rx!Level
  BY DEF RxQueue, Rx!Content, RxProved!Content, Rx!Level, RxProved!Level,
     Rx!Nth, RxProved!Nth, Rx!empty, RxProved!empty,
     Rx!TypeOK, RxProved!TypeOK, Rx!Slot, RxProved!Slot
<1>3. /\ RxProved!Read <=> Rx!Read
      /\ RxProved!Reset <=> Rx!Reset
      /\ UNCHANGED RxProved!vars <=> UNCHANGED rxFifo
  BY DEF RxProved!Read, Rx!Read, RxProved!Reset, Rx!Reset, RxProved!vars,
     rxFifo, RxProved!Succ, Rx!Succ
<1>4. \A d \in Data : /\ RxProved!Write(d) <=> Rx!Write(d)
                      /\ RxProved!ReadWrite(d) <=> Rx!ReadWrite(d)
  BY DEF RxProved!Write, Rx!Write, RxProved!ReadWrite, Rx!ReadWrite,
     RxProved!Succ, Rx!Succ
<1> HIDE DEF RxQueue
<1> QED
  BY <1>1, <1>2, <1>3, <1>4, UartAssumption, RxProved!EdgesOfContent

(***************************************************************************)
(* The edge triggers.                                                      *)
(***************************************************************************)

(* From the two states the firmware can leave a trigger in, it fires in    *)
(* the first cycle of its input and rearms in the first cycle without it.  *)
LEMMA TriggerFires ==
  ASSUME NEW in \in BOOLEAN, NEW t \in {Untriggered, Fired}
  PROVE  /\ Tick(in, t) <=> in /\ t = Untriggered
         /\ Triggered(in, t) = IF in THEN Fired ELSE Untriggered
         /\ Untriggered # Fired
<1>1. Untriggered # Fired
  BY DEF Untriggered, Fired
<1>2. Tick(in, t) <=> in /\ t = Untriggered
  BY DEF Untriggered, Fired, Tick
<1>3. CASE in /\ t = Untriggered
  <2>1. Triggered(in, t).state = "triggered"
    BY <1>2, <1>3, Zenon DEF Triggered
  <2> QED
    BY <1>1, <1>2, <1>3, <2>1 DEF Fired, Triggered
<1>4. CASE in /\ t = Fired
  BY <1>1, <1>2, <1>4, Zenon DEF Fired, Triggered
<1>5. CASE in = FALSE /\ t = Untriggered
  <2>1. ~Tick(in, t) /\ t.state = "wait_trigger"
    BY <1>2, <1>5 DEF Untriggered
  <2>2. "wait_trigger" # "triggered"
    OBVIOUS
  <2>3. Triggered(in, t).state = "wait_trigger"
    BY <2>1, <2>2, Zenon DEF Triggered
  <2> QED
    BY <1>1, <1>2, <1>5, <2>3 DEF Untriggered, Triggered
<1>6. CASE in = FALSE /\ t = Fired
  <2>1. ~Tick(in, t) /\ t.state = "triggered"
    BY <1>2, <1>6 DEF Fired
  <2>2. Triggered(in, t).state = "wait_trigger"
    BY <1>6, <2>1, Zenon DEF Triggered
  <2> QED
    BY <1>1, <1>2, <1>6, <2>2 DEF Untriggered, Triggered
<1> QED
  BY <1>3, <1>4, <1>5, <1>6

(* The word the tick of WR writes.                                         *)
WrWord == IF wr_uart_tick THEN << w_data >> ELSE << >>

(* The word the receiver completes.                                        *)
RdWord(byte) == IF byte # None THEN << byte >> ELSE << >>

(* WR ticks only in uart1_tx, with the byte in the register and room for it*)
LEMMA WrTicks ==
  ASSUME TypeInv, ControlInv, TxInv
  PROVE  /\ wr_uart_tick <=> pc = "tx_low" /\ wr_trigger = Untriggered
         /\ wr_uart_tick => /\ w_data = arg /\ w_data \in Data
                            /\ Tx!Level < Slots - 1
                            /\ TxPending
         /\ wr_trigger' = Triggered(control = "WR", wr_trigger)
              => wr_trigger' = IF pc = "tx_low" THEN Fired ELSE Untriggered
         /\ WrWord \in Seq(Data)
<1>1. (control = "WR") \in BOOLEAN /\ (control = "WR" <=> pc = "tx_low")
  BY DEF ControlInv
<1>2. wr_uart_tick <=> pc = "tx_low" /\ wr_trigger = Untriggered
  BY <1>1, TriggerFires DEF wr_uart_tick, TypeInv
<1>3. wr_uart_tick => /\ w_data = arg /\ w_data \in Data
                      /\ Tx!Level < Slots - 1
                      /\ TxPending
  BY <1>2 DEF TxInv, Up, TxPending
<1>4. wr_trigger' = Triggered(control = "WR", wr_trigger)
        => wr_trigger' = IF pc = "tx_low" THEN Fired ELSE Untriggered
  BY <1>1, TriggerFires DEF TypeInv
<1>5. WrWord \in Seq(Data)
  BY <1>3 DEF WrWord
<1> QED
  BY <1>2, <1>3, <1>4, <1>5

(* RD ticks only in uart1_rx, with the byte it read still in the FIFO.     *)
LEMMA RdTicks ==
  ASSUME TypeInv, ControlInv, RxInv
  PROVE  /\ rd_uart_tick <=> pc = "rx_low" /\ rd_trigger = Untriggered
         /\ rd_uart_tick => ~Rx!empty /\ RxPending
         /\ rd_trigger' = Triggered(control = "RD", rd_trigger)
              => rd_trigger' = IF pc = "rx_low" THEN Fired ELSE Untriggered
<1>1. (control = "RD") \in BOOLEAN /\ (control = "RD" <=> pc = "rx_low")
  BY DEF ControlInv
<1>2. rd_uart_tick <=> pc = "rx_low" /\ rd_trigger = Untriggered
  BY <1>1, TriggerFires DEF rd_uart_tick, TypeInv
<1>3. rd_uart_tick => ~Rx!empty /\ RxPending
  BY <1>2 DEF RxInv, Up, RxPending
<1>4. rd_trigger' = Triggered(control = "RD", rd_trigger)
        => rd_trigger' = IF pc = "rx_low" THEN Fired ELSE Untriggered
  BY <1>1, TriggerFires DEF TypeInv
<1> QED
  BY <1>2, <1>3, <1>4

(***************************************************************************)
(* The hardware at an edge out of reset.                                   *)
(***************************************************************************)

(* The transmit FIFO loses its head when a stop bit ends and gains the byte*)
(* of uart1_tx when WR ticks.                                              *)
LEMMA TxFifoMoves ==
  ASSUME TypeInv, ControlInv, TxInv, NEW done \in BOOLEAN,
         TxFifoEdge(done), done => ~Tx!empty
  PROVE  Tx!TypeOK' /\ TxQueue' = Moved(TxQueue, done, WrWord)
<1>1. TxOutputs
  BY TxOutputsOfQueue DEF TypeInv
<1>2. Tx!TypeOK /\ (wr_uart_tick => w_data \in Data /\ Tx!Level < Slots - 1)
  BY WrTicks DEF TypeInv
<1>3. done => Tail(TxQueue) \in Seq(Data)
  BY <1>1, HeadTailProperties DEF TxOutputs
<1>4. CASE wr_uart_tick /\ done /\ Tx!ReadWrite(w_data)
  BY <1>1, <1>2, <1>3, <1>4, TxEdgesOfQueue, AppendIsConcat
     DEF Moved, WrWord
<1>5. CASE wr_uart_tick /\ ~done /\ Tx!Write(w_data)
  BY <1>1, <1>2, <1>5, TxEdgesOfQueue, AppendIsConcat
     DEF Moved, WrWord, TxOutputs
<1>6. CASE ~wr_uart_tick /\ done /\ Tx!Read
  BY <1>1, <1>2, <1>3, <1>6, TxEdgesOfQueue, ConcatEmptySeq
     DEF Moved, WrWord
<1>7. CASE ~wr_uart_tick /\ ~done /\ UNCHANGED txFifo
  BY <1>1, <1>2, <1>7, TxEdgesOfQueue, ConcatEmptySeq
     DEF Moved, WrWord, TxOutputs
<1> QED
  BY <1>4, <1>5, <1>6, <1>7 DEF TxFifoEdge

(* The byte on the line is the head of the transmit FIFO, so an edge moves *)
(* it from the FIFO to the line or adds the byte of uart1_tx behind it.    *)
LEMMA TxAccounted ==
  ASSUME TypeInv, ControlInv, TxInv, HeadStays, ~reset,
         NEW done \in BOOLEAN, TxFifoEdge(done), Transmitter(done)
  PROVE  /\ Tx!TypeOK' /\ sent' \in Seq(Data) /\ tx_busy' \in BOOLEAN
         /\ sent' \o TxQueue' = (sent \o TxQueue) \o WrWord
         /\ ~wr_uart_tick /\ FullUnseen' => FullUnseen
         /\ ~wr_uart_tick => Tx!Level' <= Tx!Level
         /\ tx_busy' => ~Tx!empty' /\ b_reg' = Tx!r_data'
         /\ ~wr_uart_tick /\ Tx!empty /\ ~tx_busy => Tx!empty' /\ ~tx_busy'
<1>1. done => tx_busy
  BY DEF Transmitter
<1>2. Tx!TypeOK' /\ TxQueue' = Moved(TxQueue, done, WrWord)
  BY <1>1, TxFifoMoves DEF HeadStays
<1>3. TxOutputs /\ TxOutputs'
  BY <1>2, TxOutputsOfQueue, PTL DEF TypeInv
<1>4. WrWord \in Seq(Data) /\ (~wr_uart_tick => WrWord = << >>)
  BY WrTicks DEF WrWord
<1>5. sent \in Seq(Data) /\ tx_busy \in BOOLEAN
  BY DEF TypeInv
<1>6. CASE done
  <2>1. /\ tx_busy /\ tx_busy' = FALSE /\ sent' = Append(sent, b_reg)
        /\ TxQueue # << >> /\ b_reg = Head(TxQueue)
    BY <1>1, <1>3, <1>6 DEF Transmitter, HeadStays, TxOutputs
  <2>2. /\ Head(TxQueue) \in Data /\ Tail(TxQueue) \in Seq(Data)
        /\ Len(Tail(TxQueue)) = Len(TxQueue) - 1
    BY <1>3, <2>1, HeadTailProperties DEF TxOutputs
  <2>3. TxQueue' = Tail(TxQueue) \o WrWord
    BY <1>2, <1>6 DEF Moved
  <2>4. sent' \in Seq(Data)
    BY <1>5, <2>1, <2>2, AppendProperties
  <2>5. sent' \o TxQueue' = (sent' \o Tail(TxQueue)) \o WrWord
    BY <1>4, <2>2, <2>3, <2>4, ConcatAssoc
  <2>6. sent' \o Tail(TxQueue) = sent \o TxQueue
    BY <1>3, <1>5, <2>1, HeadMoves DEF TxOutputs
  <2>7. ~wr_uart_tick => Tx!Level' = Tx!Level - 1
    BY <1>3, <1>4, <2>2, <2>3, ConcatEmptySeq DEF TxOutputs
  <2>8. ~wr_uart_tick => ~FullUnseen' /\ Tx!Level' <= Tx!Level
    BY <1>3, <2>7, UartAssumption DEF FullUnseen, TxOutputs
  <2> QED
    BY <1>2, <2>1, <2>4, <2>5, <2>6, <2>8
<1>7. CASE ~done
  <2>1. TxQueue' = TxQueue \o WrWord /\ sent' = sent
    BY <1>2, <1>7 DEF Moved, Transmitter
  <2>2. sent' \o TxQueue' = (sent \o TxQueue) \o WrWord
    <3>1. TxQueue \in Seq(Data)
      BY <1>3 DEF TxOutputs
    <3> QED
      BY <1>4, <1>5, <2>1, <3>1, ConcatAssoc
  <2>3. ~wr_uart_tick => txFifo' = txFifo /\ TxQueue' = TxQueue
    BY <1>3, <1>4, <1>7, <2>1, ConcatEmptySeq DEF TxFifoEdge, TxOutputs
  <2>4. ~wr_uart_tick => /\ FullUnseen' = FullUnseen
                         /\ Tx!Level' = Tx!Level
                         /\ Tx!empty' = Tx!empty
    BY <2>3 DEF txFifo, FullUnseen, Tx!Level, Tx!full, Tx!empty
  <2>5. ~Tx!empty => ~Tx!empty' /\ Tx!r_data' = Tx!r_data
    <3> SUFFICES ASSUME ~Tx!empty
                 PROVE  ~Tx!empty' /\ Tx!r_data' = Tx!r_data
      OBVIOUS
    <3>1. /\ TxQueue # << >> /\ TxQueue \in Seq(Data)
          /\ Tx!r_data = Head(TxQueue)
      BY <1>3 DEF TxOutputs
    <3>2. TxQueue \o WrWord # << >> /\ Head(TxQueue \o WrWord) = Head(TxQueue)
      BY <1>4, <3>1, HeadTailProperties, ConcatProperties, EmptySeq
    <3> QED
      BY <1>3, <2>1, <3>1, <3>2 DEF TxOutputs
  <2>6. /\ tx_busy' = (tx_busy \/ ~Tx!empty)
        /\ tx_busy => b_reg' = b_reg
        /\ ~tx_busy /\ ~Tx!empty => b_reg' = Tx!r_data
    BY <1>5, <1>7 DEF Transmitter
  <2>7. tx_busy' => ~Tx!empty' /\ b_reg' = Tx!r_data'
    BY <2>5, <2>6 DEF HeadStays
  <2>8. ~wr_uart_tick => Tx!Level' <= Tx!Level
    BY <1>3, <2>4 DEF TxOutputs
  <2> QED
    BY <1>2, <1>5, <2>1, <2>2, <2>4, <2>6, <2>7, <2>8
<1> QED
  BY <1>6, <1>7

(* The receive FIFO loses its head when RD ticks and gains the byte that   *)
(* the receiver completes.                                                 *)
LEMMA RxFifoMoves ==
  ASSUME TypeInv, ControlInv, RxInv, NEW byte \in Data \cup {None},
         RxFifoEdge(byte), byte # None => Rx!Level < Slots - 1
  PROVE  /\ Rx!TypeOK'
         /\ RxQueue' = Moved(RxQueue, rd_uart_tick, RdWord(byte))
<1>1. RxOutputs
  BY RxOutputsOfQueue DEF TypeInv
<1>2. Rx!TypeOK /\ (rd_uart_tick => ~Rx!empty)
  BY RdTicks DEF TypeInv
<1>3. rd_uart_tick => Tail(RxQueue) \in Seq(Data)
  BY <1>1, <1>2, HeadTailProperties DEF RxOutputs
<1>4. CASE rd_uart_tick /\ byte # None /\ Rx!ReadWrite(byte)
  BY <1>1, <1>2, <1>3, <1>4, RxEdgesOfQueue, AppendIsConcat
     DEF Moved, RdWord
<1>5. CASE rd_uart_tick /\ byte = None /\ Rx!Read
  BY <1>1, <1>2, <1>3, <1>5, RxEdgesOfQueue, ConcatEmptySeq
     DEF Moved, RdWord
<1>6. CASE ~rd_uart_tick /\ byte # None /\ Rx!Write(byte)
  BY <1>1, <1>2, <1>6, RxEdgesOfQueue, AppendIsConcat
     DEF Moved, RdWord, RxOutputs
<1>7. CASE ~rd_uart_tick /\ byte = None /\ UNCHANGED rxFifo
  BY <1>1, <1>2, <1>7, RxEdgesOfQueue, ConcatEmptySeq
     DEF Moved, RdWord, RxOutputs
<1> QED
  BY <1>4, <1>5, <1>6, <1>7 DEF RxFifoEdge

(* A byte that arrives enters the queue behind the others, also at the edge*)
(* that takes the head off; without RD the head stays where it is.         *)
LEMMA RxAccounted ==
  ASSUME TypeInv, ControlInv, RxInv, NEW byte \in Data \cup {None},
         RxFifoEdge(byte), Receiver(byte)
  PROVE  /\ Rx!TypeOK' /\ arrived' \in Seq(Data)
         /\ RdWord(byte) \in Seq(Data)
         /\ arrived' = arrived \o RdWord(byte)
         /\ rd_uart_tick => RxQueue' = Tail(RxQueue) \o RdWord(byte)
         /\ ~rd_uart_tick => RxQueue' = RxQueue \o RdWord(byte)
         /\ ~rd_uart_tick /\ ~Rx!empty
              => /\ ~Rx!empty'
                 /\ Tail(RxQueue') = Tail(RxQueue) \o RdWord(byte)
<1>1. byte # None => Rx!Level < Slots - 1
  BY DEF Receiver
<1>2. Rx!TypeOK' /\ RxQueue' = Moved(RxQueue, rd_uart_tick, RdWord(byte))
  BY <1>1, RxFifoMoves
<1>3. RxOutputs /\ RxOutputs'
  BY <1>2, RxOutputsOfQueue, PTL DEF TypeInv
<1>4. RdWord(byte) \in Seq(Data)
  BY DEF RdWord
<1>5. arrived \in Seq(Data)
  BY DEF TypeInv
<1>6. arrived' = arrived \o RdWord(byte)
  BY <1>4, <1>5, AppendIsConcat, ConcatEmptySeq DEF Receiver, RdWord
<1>7. arrived' \in Seq(Data)
  BY <1>4, <1>5, <1>6, ConcatProperties
<1>8. ASSUME ~rd_uart_tick, ~Rx!empty
      PROVE  /\ ~Rx!empty'
             /\ Tail(RxQueue') = Tail(RxQueue) \o RdWord(byte)
  <2>1. RxQueue # << >> /\ RxQueue \in Seq(Data)
    BY <1>3, <1>8 DEF RxOutputs
  <2>2. RxQueue' = RxQueue \o RdWord(byte)
    BY <1>2, <1>8 DEF Moved
  <2>3. /\ RxQueue \o RdWord(byte) # << >>
        /\ Tail(RxQueue \o RdWord(byte)) = Tail(RxQueue) \o RdWord(byte)
    BY <1>4, <2>1, TailOfConcat
  <2> QED
    BY <1>3, <2>2, <2>3 DEF RxOutputs
<1> QED
  BY <1>2, <1>4, <1>6, <1>7, <1>8 DEF Moved

(***************************************************************************)
(* The firmware.                                                           *)
(***************************************************************************)

(* One access of the firmware out of reset, or a stall of it.              *)
Access == FirmwareStep \/ Stall

(* What an access does to the registers and the histories keeps them in    *)
(* their types, whatever the hardware does at the same edge.               *)
LEMMA AccessTyped ==
  ASSUME TypeInv, Access
  PROVE  /\ reset' \in BOOLEAN
         /\ control' \in {"none", "WR", "RD"}
         /\ pc' \in {"down", "reset", "idle", "flush",
                     "tx_poll", "tx_data", "tx_high", "tx_low",
                     "rx_poll", "rx_data", "rx_high", "rx_low"}
         /\ written' \in Seq(Data)
         /\ pc # "rx_data" => got' \in Seq(Data)
         /\ ~Rx!empty => got' \in Seq(Data)
<1>1. /\ reset \in BOOLEAN /\ control \in {"none", "WR", "RD"}
      /\ written \in Seq(Data) /\ got \in Seq(Data)
  BY DEF TypeInv
<1>2. ~Rx!empty => Rx!r_data \in Data
  <2>1. RxOutputs
    BY RxOutputsOfQueue DEF TypeInv
  <2> QED
    BY <2>1, HeadTailProperties DEF RxOutputs
<1>3. ASSUME NEW d \in Data, CallTx(d)
      PROVE  written' \in Seq(Data) /\ got' \in Seq(Data)
  BY <1>1, <1>3, AppendProperties DEF CallTx
<1>4. ASSUME RxData
      PROVE  ~Rx!empty => got' \in Seq(Data)
  BY <1>1, <1>2, <1>4, AppendProperties DEF RxData
<1>5. << >> \in Seq(Data)
  OBVIOUS
<1> QED
  BY <1>1, <1>3, <1>4, <1>5
     DEF TypeInv, Access, FirmwareStep, Stall, firmware, Goto, CallTx,
         TxNotFull, TxData, TxHigh, TxLow, CallRx, RxNotEmpty, RxData,
         RxHigh, RxLow, CallFlush, Flushed, ResetHigh, ResetLow

(* The control register, the reset and the program counter stay in step.   *)
LEMMA AccessControlled ==
  ASSUME TypeInv, ControlInv, Access
  PROVE  /\ (control = "WR" <=> pc = "tx_low")'
         /\ (control = "RD" <=> pc = "rx_low")'
         /\ (reset => pc \in {"down", "reset"})'
         /\ (pc = "reset" => reset /\ written = << >> /\ got = << >>)'
         /\ pc = "tx_low" => pc' \in {"idle", "tx_low"} /\ ~reset'
         /\ pc = "rx_low" => pc' \in {"idle", "rx_low"} /\ ~reset'
         /\ pc' = "down" /\ ~reset' => pc = "down" /\ ~reset
         /\ pc = "reset" /\ pc' # "reset" => pc' = "idle" /\ ~reset'
BY DEF TypeInv, ControlInv, Access, FirmwareStep, Stall, firmware, Goto,
       CallTx, TxNotFull, TxData, TxHigh, TxLow, CallRx, RxNotEmpty,
       RxData, RxHigh, RxLow, CallFlush, Flushed, ResetHigh, ResetLow

(***************************************************************************)
(* Inductiveness.                                                          *)
(***************************************************************************)

(* An edge in reset: everything is emptied, so that the histories agree    *)
(* when the firmware lowers the reset.                                     *)
LEMMA HeldStep ==
  ASSUME IInv, reset, HeldInReset, Access
  PROVE  IInv'
<1>1. /\ Tx!TypeOK' /\ TxQueue' = << >>
      /\ Rx!TypeOK' /\ RxQueue' = << >>
  BY TxEdgesOfQueue, RxEdgesOfQueue DEF IInv, TypeInv, HeldInReset
<1>2. Tx!empty' /\ Rx!empty'
  BY DEF HeldInReset, Tx!Reset, Rx!Reset, Tx!empty, Rx!empty
<1>3. /\ wr_trigger' = Untriggered /\ rd_trigger' = Untriggered
      /\ tx_busy' = FALSE /\ sent' = << >> /\ arrived' = << >>
  BY DEF HeldInReset
<1>4. pc \in {"down", "reset"}
  BY DEF IInv, ControlInv
<1>5. TypeInv'
  <2>1. /\ reset' \in BOOLEAN
        /\ control' \in {"none", "WR", "RD"}
        /\ pc' \in {"down", "reset", "idle", "flush",
                    "tx_poll", "tx_data", "tx_high", "tx_low",
                    "rx_poll", "rx_data", "rx_high", "rx_low"}
        /\ written' \in Seq(Data) /\ got' \in Seq(Data)
    BY <1>4, AccessTyped DEF IInv
  <2>2. sent' \in Seq(Data) /\ arrived' \in Seq(Data)
    BY <1>3
  <2> QED
    BY <1>1, <1>3, <2>1, <2>2, Zenon DEF TypeInv
<1>6. ControlInv'
  BY <1>2, <1>3, AccessControlled, TriggerFires DEF IInv, ControlInv
<1>7. /\ pc' \in {"down", "reset", "idle"}
      /\ pc' = "idle" => written' = << >> /\ got' = << >>
  BY <1>4
     DEF IInv, ControlInv, Access, FirmwareStep, Stall, firmware, Goto,
         CallTx, TxNotFull, TxData, TxHigh, TxLow, CallRx, RxNotEmpty,
         RxData, RxHigh, RxLow, CallFlush, Flushed, ResetHigh, ResetLow
<1>8. TxInv'
  BY <1>1, <1>3, <1>7 DEF TxInv, Up, Pending, TxPending
<1>9. RxInv'
  BY <1>1, <1>3, <1>7 DEF RxInv, Up, RxPending
<1>10. HeadStays'
  BY <1>3 DEF HeadStays
<1> QED
  BY <1>5, <1>6, <1>8, <1>9, <1>10 DEF IInv

(* An edge out of reset keeps the account of the bytes to be sent.         *)
LEMMA RunningTx ==
  ASSUME IInv, ~reset, NEW done \in BOOLEAN, TxFifoEdge(done),
         Transmitter(done), Access,
         wr_trigger' = Triggered(control = "WR", wr_trigger)
  PROVE  TxInv'
<1> SUFFICES ASSUME Up' PROVE TxInv'
  BY DEF TxInv
<1> DEFINE Out == sent \o TxQueue
<1>1. TypeInv /\ ControlInv /\ TxInv /\ HeadStays
  BY DEF IInv
<1>2. Up
  BY <1>1, AccessControlled DEF Up, ControlInv, Access, FirmwareStep, Stall,
     firmware, Goto, CallTx, TxNotFull, TxData, TxHigh, TxLow, CallRx,
     RxNotEmpty, RxData, RxHigh, RxLow, CallFlush, Flushed, ResetHigh,
     ResetLow
<1>3. /\ sent' \o TxQueue' = Out \o WrWord
      /\ ~wr_uart_tick /\ FullUnseen' => FullUnseen
      /\ ~wr_uart_tick => Tx!Level' <= Tx!Level
      /\ Tx!TypeOK'
  BY <1>1, TxAccounted
<1>4. TxOutputs /\ TxOutputs'
  BY <1>1, <1>3, TxOutputsOfQueue, PTL DEF TypeInv
<1>5. Out \in Seq(Data) /\ written = Out \o Pending
  BY <1>1, <1>2, <1>4, ConcatProperties DEF TypeInv, TxOutputs, TxInv
<1>6. /\ wr_uart_tick <=> pc = "tx_low" /\ wr_trigger = Untriggered
      /\ wr_trigger' = IF pc = "tx_low" THEN Fired ELSE Untriggered
      /\ wr_uart_tick => w_data = arg
  BY <1>1, WrTicks
<1>7. Untriggered # Fired
  BY TriggerFires
<1>8. /\ TxPending => arg \in Data
      /\ pc \in {"tx_high", "tx_low"} => w_data = arg
      /\ pc = "tx_poll" => ~FullUnseen
      /\ TxPending /\ pc # "tx_poll" => Tx!Level < Slots - 1
  BY <1>1, <1>2 DEF TxInv
<1> HIDE DEF Out
<1>9. CASE wr_uart_tick
  <2>1. /\ pc' \in {"idle", "tx_low"} /\ written' = written
        /\ w_data' = w_data /\ arg' = arg
    BY <1>6, <1>9 DEF Access, FirmwareStep, Stall, firmware, Goto, CallTx,
       TxNotFull, TxData, TxHigh, TxLow, CallRx, RxNotEmpty, RxData, RxHigh,
       RxLow, CallFlush, Flushed, ResetHigh, ResetLow
  <2>2. ~TxPending'
    BY <1>6, <1>7, <1>9, <2>1 DEF TxPending
  <2>3. TxPending
    BY <1>6, <1>9 DEF TxPending
  <2>4. written' = sent' \o TxQueue' /\ written' \in Seq(Data)
    BY <1>1, <1>3, <1>5, <1>6, <1>9, <2>1, <2>3
       DEF Pending, WrWord, TypeInv
  <2>5. written' = (sent' \o TxQueue') \o Pending'
    BY <2>2, <2>4, ConcatEmptySeq DEF Pending
  <2> QED
    BY <1>6, <1>8, <1>9, <2>1, <2>2, <2>5 DEF TxInv
<1>10. CASE ~wr_uart_tick
  <2>1. sent' \o TxQueue' = Out
    BY <1>3, <1>5, <1>10, ConcatEmptySeq DEF WrWord
  <2>2. ASSUME NEW d \in Data, CallTx(d) PROVE TxInv'
    <3>1. pc = "idle" /\ pc' = "tx_poll" /\ arg' = d
      BY <2>2 DEF CallTx, Goto
    <3>2. written = Out /\ written' = written \o << d >>
      BY <1>1, <1>5, <2>2, <3>1, ConcatEmptySeq, AppendIsConcat
         DEF Pending, TxPending, CallTx, TypeInv
    <3>3. ~FullUnseen'
      BY <1>3, <1>10, <2>2 DEF CallTx
    <3> QED
      BY <2>1, <3>1, <3>2, <3>3 DEF TxInv, Pending, TxPending
  <2>3. CASE TxNotFull
    <3>1. /\ pc = "tx_poll" /\ pc' = "tx_data"
          /\ arg' = arg /\ written' = written
      BY <2>3 DEF TxNotFull, Goto
    <3>2. Tx!Level < Slots - 1
      BY <1>4, <1>8, <2>3, <3>1, UartAssumption
         DEF FullUnseen, TxNotFull, TxOutputs
    <3>3. Tx!Level' < Slots - 1
      BY <1>3, <1>4, <1>10, <3>2, UartAssumption DEF TxOutputs
    <3> QED
      BY <1>5, <1>8, <2>1, <3>1, <3>3 DEF TxInv, Pending, TxPending
  <2>4. ASSUME TxPending, TxPending', pc' # "tx_poll", pc # "tx_poll",
               arg' = arg, written' = written,
               pc' \in {"tx_high", "tx_low"} => w_data' = arg'
        PROVE  TxInv'
    <3>1. Tx!Level' < Slots - 1
      BY <1>3, <1>4, <1>8, <1>10, <2>4, UartAssumption DEF TxOutputs
    <3> QED
      BY <1>5, <1>8, <2>1, <2>4, <3>1 DEF TxInv, Pending
  <2>5. CASE TxData
    BY <1>6, <2>4, <2>5 DEF TxData, Goto, TxPending
  <2>6. CASE TxHigh
    BY <1>6, <1>8, <2>4, <2>6 DEF TxHigh, Goto, TxPending
  <2>7. ASSUME ~TxPending, ~TxPending', written' = written,
               pc' \in {"tx_high", "tx_low"} => w_data' = arg',
               pc' # "tx_poll"
        PROVE  TxInv'
    BY <1>5, <2>1, <2>7 DEF TxInv, Pending
  <2>8. CASE TxLow \/ CallRx \/ RxNotEmpty \/ RxData \/ RxHigh \/ RxLow
             \/ CallFlush \/ Flushed
    BY <1>6, <1>10, <2>7, <2>8
       DEF TxLow, CallRx, RxNotEmpty, RxData, RxHigh, RxLow, CallFlush,
           Flushed, Goto, TxPending
  <2>9. CASE ResetHigh \/ ResetLow
    BY <1>1, <2>9, Up' DEF Up, ResetHigh, ResetLow, Goto, ControlInv
  <2>10. CASE Stall
    <3>1. /\ pc' = pc /\ arg' = arg /\ w_data' = w_data
          /\ written' = written
      BY <2>10 DEF Stall, firmware
    <3>2. TxPending' <=> TxPending
      BY <1>6, <1>7, <1>10, <3>1 DEF TxPending
    <3>3. CASE ~TxPending
      BY <1>8, <2>7, <3>1, <3>2, <3>3 DEF TxPending
    <3>4. CASE TxPending /\ pc # "tx_poll"
      BY <1>8, <2>4, <3>1, <3>2, <3>4
    <3>5. CASE pc = "tx_poll"
      BY <1>3, <1>5, <1>8, <1>10, <2>1, <3>1, <3>2, <3>5
         DEF TxInv, Pending, TxPending
    <3> QED
      BY <3>3, <3>4, <3>5
  <2> QED
    BY <2>2, <2>3, <2>5, <2>6, <2>8, <2>9, <2>10 DEF Access, FirmwareStep
<1> QED
  BY <1>9, <1>10

(* An edge out of reset keeps the account of the bytes received.           *)
LEMMA RunningRx ==
  ASSUME IInv, ~reset, NEW byte \in Data \cup {None}, RxFifoEdge(byte),
         Receiver(byte), Access,
         rd_trigger' = Triggered(control = "RD", rd_trigger)
  PROVE  RxInv'
<1> SUFFICES ASSUME Up' PROVE RxInv'
  BY DEF RxInv
<1> DEFINE word == RdWord(byte)
           Unread == IF RxPending THEN Tail(RxQueue) ELSE RxQueue
<1>1. TypeInv /\ ControlInv /\ RxInv
  BY DEF IInv
<1>2. Up
  BY <1>1, AccessControlled DEF Up, ControlInv, Access, FirmwareStep, Stall,
     firmware, Goto, CallTx, TxNotFull, TxData, TxHigh, TxLow, CallRx,
     RxNotEmpty, RxData, RxHigh, RxLow, CallFlush, Flushed, ResetHigh,
     ResetLow
<1>3. /\ Rx!TypeOK' /\ word \in Seq(Data)
      /\ arrived' = arrived \o word
      /\ rd_uart_tick => RxQueue' = Tail(RxQueue) \o word
      /\ ~rd_uart_tick => RxQueue' = RxQueue \o word
      /\ ~rd_uart_tick /\ ~Rx!empty
           => ~Rx!empty' /\ Tail(RxQueue') = Tail(RxQueue) \o word
  BY <1>1, RxAccounted
<1>4. /\ RxQueue \in Seq(Data)
      /\ ~Rx!empty => /\ RxQueue # << >> /\ Tail(RxQueue) \in Seq(Data)
                      /\ Rx!r_data = Head(RxQueue)
  <2>1. RxOutputs
    BY <1>1, RxOutputsOfQueue DEF TypeInv
  <2> QED
    BY <2>1, HeadTailProperties DEF RxOutputs
<1>5. /\ arrived = got \o Unread
      /\ RxPending \/ pc = "rx_data" => ~Rx!empty
  BY <1>1, <1>2 DEF RxInv
<1>6. /\ rd_uart_tick <=> pc = "rx_low" /\ rd_trigger = Untriggered
      /\ rd_trigger' = IF pc = "rx_low" THEN Fired ELSE Untriggered
      /\ rd_uart_tick => RxPending
  BY <1>1, RdTicks
<1>7. Untriggered # Fired
  BY TriggerFires
<1>8. Unread \in Seq(Data) /\ got \in Seq(Data)
  BY <1>1, <1>4, <1>5 DEF TypeInv
<1>9. arrived' = got \o (Unread \o word)
  <2> HIDE DEF word, Unread
  <2>1. word \in Seq(Data) /\ arrived' = arrived \o word
    BY <1>3
  <2> QED
    BY <1>5, <1>8, <2>1, ConcatAssoc
<1> HIDE DEF word
<1>10. CASE rd_uart_tick
  <2>1. pc' \in {"idle", "rx_low"} /\ got' = got
    BY <1>6, <1>10 DEF Access, FirmwareStep, Stall, firmware, Goto, CallTx,
       TxNotFull, TxData, TxHigh, TxLow, CallRx, RxNotEmpty, RxData, RxHigh,
       RxLow, CallFlush, Flushed, ResetHigh, ResetLow
  <2>2. ~RxPending'
    BY <1>6, <1>7, <1>10, <2>1 DEF RxPending
  <2> QED
    BY <1>3, <1>6, <1>9, <1>10, <2>1, <2>2 DEF RxInv
<1>11. CASE ~rd_uart_tick
  <2>1. ASSUME RxPending' <=> RxPending, got' = got,
               pc' = "rx_data" => pc = "rx_data" \/ ~Rx!empty
        PROVE  RxInv'
    BY <1>3, <1>5, <1>9, <1>11, <2>1 DEF RxInv
  <2>2. CASE RxData
    <3>1. /\ pc = "rx_data" /\ pc' = "rx_high"
          /\ got' = Append(got, Rx!r_data)
      BY <2>2 DEF RxData, Goto
    <3>2. ~RxPending /\ RxPending' /\ ~Rx!empty
      BY <1>5, <3>1 DEF RxPending
    <3>3. /\ Head(RxQueue) \in Data
          /\ Append(got, Head(RxQueue)) \in Seq(Data)
          /\ Append(got, Head(RxQueue)) \o Tail(RxQueue) = got \o RxQueue
      BY <1>4, <1>8, <3>2, HeadMoves, HeadTailProperties, AppendProperties
    <3>4. got' \o (Tail(RxQueue) \o word)
            = (got' \o Tail(RxQueue)) \o word
      <4>1. got' \in Seq(Data) /\ Tail(RxQueue) \in Seq(Data)
        BY <1>4, <3>1, <3>2, <3>3
      <4>2. word \in Seq(Data)
        BY <1>3
      <4> QED
        BY <4>1, <4>2, ConcatAssoc
    <3>5. arrived' = (got \o RxQueue) \o word
      BY <1>3, <1>5, <3>2
    <3> QED
      BY <1>3, <1>4, <1>11, <3>1, <3>2, <3>3, <3>4, <3>5 DEF RxInv
  <2>3. CASE RxNotEmpty
    BY <1>6, <2>1, <2>3 DEF RxNotEmpty, Goto, RxPending
  <2>4. CASE RxHigh
    BY <1>6, <2>1, <2>4 DEF RxHigh, Goto, RxPending
  <2>5. CASE RxLow
    BY <1>6, <1>11, <2>1, <2>5 DEF RxLow, Goto, RxPending
  <2>6. ASSUME NEW d \in Data, CallTx(d) PROVE RxInv'
    BY <2>1, <2>6 DEF CallTx, Goto, RxPending
  <2>7. CASE TxNotFull \/ TxData \/ TxHigh \/ TxLow \/ CallRx \/ CallFlush
             \/ Flushed
    BY <2>1, <2>7 DEF TxNotFull, TxData, TxHigh, TxLow, CallRx, CallFlush,
       Flushed, Goto, RxPending
  <2>8. CASE ResetHigh \/ ResetLow
    BY <1>1, <2>8, Up' DEF Up, ResetHigh, ResetLow, Goto, ControlInv
  <2>9. CASE Stall
    <3>1. pc' = pc /\ got' = got
      BY <2>9 DEF Stall, firmware
    <3>2. RxPending' <=> RxPending
      BY <1>6, <1>7, <1>11, <3>1 DEF RxPending
    <3> QED
      BY <2>1, <3>1, <3>2
  <2> QED
    BY <2>2, <2>3, <2>4, <2>5, <2>6, <2>7, <2>8, <2>9
       DEF Access, FirmwareStep
<1> QED
  BY <1>10, <1>11

(* An edge out of reset keeps the invariant.                               *)
LEMMA RunningStep ==
  ASSUME IInv, ~reset, NEW done \in BOOLEAN, NEW byte \in Data \cup {None},
         Running(done, byte), Access
  PROVE  IInv'
<1>1. TypeInv /\ ControlInv /\ TxInv /\ RxInv /\ HeadStays
  BY DEF IInv
<1>2. /\ TxFifoEdge(done) /\ Transmitter(done)
      /\ RxFifoEdge(byte) /\ Receiver(byte)
      /\ wr_trigger' = Triggered(control = "WR", wr_trigger)
      /\ rd_trigger' = Triggered(control = "RD", rd_trigger)
  BY DEF Running
<1>3. /\ Tx!TypeOK' /\ sent' \in Seq(Data) /\ tx_busy' \in BOOLEAN
      /\ tx_busy' => ~Tx!empty' /\ b_reg' = Tx!r_data'
      /\ ~wr_uart_tick /\ Tx!empty /\ ~tx_busy => Tx!empty' /\ ~tx_busy'
  BY <1>1, <1>2, TxAccounted
<1>4. Rx!TypeOK' /\ arrived' \in Seq(Data)
  BY <1>1, <1>2, RxAccounted
<1>5. /\ wr_trigger' = IF pc = "tx_low" THEN Fired ELSE Untriggered
      /\ rd_trigger' = IF pc = "rx_low" THEN Fired ELSE Untriggered
      /\ wr_uart_tick => pc = "tx_low"
      /\ Untriggered # Fired
  BY <1>1, <1>2, WrTicks, RdTicks, TriggerFires
<1>6. pc = "rx_data" => ~Rx!empty
  BY <1>1 DEF RxInv, Up
<1>7. TypeInv'
  <2>1. /\ reset' \in BOOLEAN
        /\ control' \in {"none", "WR", "RD"}
        /\ pc' \in {"down", "reset", "idle", "flush",
                    "tx_poll", "tx_data", "tx_high", "tx_low",
                    "rx_poll", "rx_data", "rx_high", "rx_low"}
        /\ written' \in Seq(Data) /\ got' \in Seq(Data)
    BY <1>1, <1>6, AccessTyped
  <2>2. wr_trigger' \in {Untriggered, Fired}
        /\ rd_trigger' \in {Untriggered, Fired}
    BY <1>5
  <2> QED
    BY <1>3, <1>4, <2>1, <2>2, Zenon DEF TypeInv
<1>8. ControlInv'
  BY <1>1, <1>3, <1>5, AccessControlled DEF ControlInv
<1>9. HeadStays'
  BY <1>3 DEF HeadStays
<1>10. TxInv' /\ RxInv'
  BY <1>2, RunningTx, RunningRx
<1> QED
  BY <1>7, <1>8, <1>9, <1>10 DEF IInv

(* The invariant holds when the board is powered on.                       *)
LEMMA InitInv == Init => IInv
<1> SUFFICES ASSUME Init PROVE IInv
  OBVIOUS
<1>1. /\ wr_trigger = Untriggered /\ rd_trigger = Untriggered
      /\ tx_busy = FALSE /\ reset = FALSE /\ control = "none"
      /\ pc = "down" /\ written = << >> /\ sent = << >>
      /\ arrived = << >> /\ got = << >>
  BY DEF Init
<1>2. Tx!TypeOK /\ Rx!TypeOK /\ Tx!empty
  <2>1. 0 \in Tx!Slot /\ 0 \in Rx!Slot
    BY UartAssumption DEF Tx!Slot, Rx!Slot
  <2> QED
    BY <2>1 DEF Init, Tx!Init, Rx!Init, Tx!TypeOK, Rx!TypeOK, Tx!empty
<1>3. << >> \in Seq(Data)
  OBVIOUS
<1>4. TypeInv
  BY <1>1, <1>2, <1>3 DEF TypeInv
<1>5. ControlInv
  BY <1>1, <1>2, TriggerFires DEF ControlInv
<1>6. HeadStays /\ TxInv /\ RxInv
  BY <1>1 DEF HeadStays, TxInv, RxInv, Up
<1> QED
  BY <1>4, <1>5, <1>6 DEF IInv

(* The same with the registers of the FIFOs unchanged.                     *)
LEMMA StutterStep == IInv /\ UNCHANGED vars => IInv'
<1> SUFFICES ASSUME IInv, UNCHANGED vars PROVE IInv'
  OBVIOUS
<1>1. /\ UNCHANGED txFifo /\ UNCHANGED rxFifo
      /\ UNCHANGED << wr_trigger, rd_trigger, tx_busy, b_reg, reset,
                      control, w_data, pc, arg, written, sent, arrived, got >>
  BY DEF vars, hardware, firmware, history
<1>2. /\ Tx!TypeOK' <=> Tx!TypeOK
      /\ Rx!TypeOK' <=> Rx!TypeOK
      /\ TxQueue' = TxQueue /\ RxQueue' = RxQueue
      /\ Tx!Level' = Tx!Level /\ FullUnseen' = FullUnseen
      /\ Tx!empty' = Tx!empty /\ Rx!empty' = Rx!empty
      /\ Tx!r_data' = Tx!r_data
  BY <1>1 DEF txFifo, rxFifo, Tx!TypeOK, Rx!TypeOK, TxQueue, RxQueue,
     Tx!Content, Rx!Content, Tx!Nth, Rx!Nth, Tx!Level, Rx!Level, FullUnseen,
     Tx!full, Tx!empty, Rx!empty, Tx!r_data
<1>3. TypeInv'
  BY <1>1, <1>2 DEF IInv, TypeInv
<1>4. ControlInv' /\ HeadStays'
  BY <1>1, <1>2 DEF IInv, ControlInv, HeadStays
<1>5. TxInv'
  BY <1>1, <1>2 DEF IInv, TxInv, Up, Pending, TxPending
<1>6. RxInv'
  BY <1>1, <1>2 DEF IInv, RxInv, Up, RxPending
<1> QED
  BY <1>3, <1>4, <1>5, <1>6 DEF IInv

(* Every edge keeps the invariant.                                         *)
LEMMA NextInv == IInv /\ [Next]_vars => IInv'
<1> SUFFICES ASSUME IInv, [Next]_vars PROVE IInv'
  OBVIOUS
<1>1. ASSUME NEW done \in BOOLEAN, NEW byte \in Data \cup {None},
             Edge(done, byte)
      PROVE  IInv'
  <2>1. Access
    BY <1>1 DEF Edge, Access
  <2>2. CASE reset /\ HeldInReset
    BY <2>1, <2>2, HeldStep
  <2>3. CASE ~reset /\ Running(done, byte)
    BY <2>1, <2>3, RunningStep
  <2> QED
    BY <1>1, <2>2, <2>3 DEF Edge, Hardware
<1>2. CASE UNCHANGED vars
  BY <1>2, StutterStep
<1> QED
  BY <1>1, <1>2 DEF Next

(* The invariant holds of the port at every edge.                          *)
THEOREM PortInvariant == Spec => []IInv
BY InitInv, NextInv, PTL DEF Spec

(***************************************************************************)
(* The properties.                                                         *)
(***************************************************************************)

(* Between two calls every byte given to uart1_tx is on the line or in the *)
(* transmit FIFO, once and in order (controller_system.c:297-309).         *)
THEOREM NothingWrittenIsLost == Spec => []TxLossless
<1>1. IInv => TxLossless
  <2> SUFFICES ASSUME IInv, pc = "idle"
               PROVE  written = sent \o TxQueue
    BY DEF TxLossless, TxQueue
  <2>1. written = (sent \o TxQueue) \o << >>
    BY DEF IInv, TxInv, Up, Pending, TxPending
  <2>2. TxOutputs
    BY TxOutputsOfQueue DEF IInv, TypeInv
  <2>3. sent \o TxQueue \in Seq(Data)
    BY <2>2, ConcatProperties DEF IInv, TypeInv, TxOutputs
  <2> QED
    BY <2>1, <2>3, ConcatEmptySeq
<1> QED
  BY <1>1, PortInvariant, PTL

(* Between two calls every byte the receiver completed was returned by     *)
(* uart1_rx or is in the receive FIFO, once and in order                   *)
(* (controller_system.c:282-295).                                          *)
THEOREM NothingArrivedIsLost == Spec => []RxLossless
<1>1. IInv => RxLossless
  BY DEF IInv, RxInv, RxLossless, RxQueue, Up, RxPending
<1> QED
  BY <1>1, PortInvariant, PTL

(* The byte on the line is the head of the FIFO until its stop bit ends    *)
(* (uart_tx.v:31, uart.v:36-39).                                           *)
THEOREM HeadIsOnTheLine == Spec => []HeadStays
<1>1. IInv => HeadStays
  BY DEF IInv
<1> QED
  BY <1>1, PortInvariant, PTL

(* When uart_flush returns, everything written is on the line up to its    *)
(* stop bit, and the line is idle (uart.c:136-152).                        *)
THEOREM FlushedIsSent == Spec => FlushMeansSent
<1>1. IInv /\ [Next]_vars
        => [pc = "flush" /\ pc' = "idle" => sent = written /\ ~tx_busy]_vars
  <2> SUFFICES ASSUME IInv, Next, pc = "flush", pc' = "idle"
               PROVE  sent = written /\ ~tx_busy
    OBVIOUS
  <2>1. Tx!empty
    BY DEF Next, Edge, FirmwareStep, Stall, firmware, Goto, CallTx,
       TxNotFull, TxData, TxHigh, TxLow, CallRx, RxNotEmpty, RxData, RxHigh,
       RxLow, CallFlush, Flushed, ResetHigh, ResetLow
  <2>2. /\ ~reset /\ TxOutputs /\ sent \in Seq(Data)
        /\ written = (sent \o TxQueue) \o << >>
    BY TxOutputsOfQueue
       DEF IInv, TypeInv, ControlInv, TxInv, Up, Pending, TxPending
  <2>3. TxQueue = << >>
    BY <2>1, <2>2 DEF TxOutputs
  <2>4. written = sent
    BY <2>2, <2>3, ConcatEmptySeq
  <2> QED
    BY <2>1, <2>2, <2>4 DEF IInv, HeadStays
<1> QED
  BY <1>1, PortInvariant, PTL DEF Spec, FlushMeansSent
=============================================================================
