----------------------------- MODULE FifoProofs -----------------------------
(***************************************************************************)
(* Proofs about Fifo for every number of slots and every set of words.     *)
(***************************************************************************)
EXTENDS Fifo, SequenceTheorems, TLAPS

USE FifoAssumption

(***************************************************************************)
(* Pointer arithmetic.                                                     *)
(***************************************************************************)

(* A pointer stays in the array when it advances.                          *)
LEMMA SuccInSlot == ASSUME NEW p \in Slot PROVE Succ(p) \in Slot
BY DEF Slot, Succ

(* The number of stored words is below the number of slots, and it is zero *)
(* exactly when the circuit says empty (fifo.v:79).                        *)
LEMMA LevelBounds ==
  ASSUME TypeOK
  PROVE  /\ Level \in 0 .. Slots - 1
         /\ empty <=> Level = 0
BY DEF TypeOK, Slot, Level, empty

(* The i-th stored word, and the slot after the last one, are in the array.*)
LEMMA NthInSlot ==
  ASSUME TypeOK, NEW i \in 1 .. Slots
  PROVE  Nth(i) \in Slot
BY DEF TypeOK, Slot, Nth

(* The write pointer is the slot after the last stored word.               *)
LEMMA WritePtrIsNth ==
  ASSUME TypeOK
  PROVE  Nth(Level + 1) = w_ptr
BY DEF TypeOK, Slot, Nth, Level

(* No stored word is in the slot that is written next.                     *)
LEMMA WritePtrIsFree ==
  ASSUME TypeOK, NEW i \in 1 .. Level
  PROVE  Nth(i) # w_ptr
BY DEF TypeOK, Slot, Nth, Level

(* What is stored is a sequence of words, as long as the level.            *)
ContentListed == /\ Content \in Seq(Data)
                 /\ Len(Content) = Level
                 /\ \A i \in 1 .. Level : Content[i] = array_reg[Nth(i)]

LEMMA ContentIsSeq == TypeOK => ContentListed
<1> SUFFICES ASSUME TypeOK PROVE ContentListed
  OBVIOUS
<1>1. Level \in Nat /\ Level < Slots
  BY LevelBounds
<1>2. \A i \in 1 .. Level : array_reg[Nth(i)] \in Data
  BY <1>1, NthInSlot DEF TypeOK
<1>3. Content \in Seq(Data)
  BY <1>1, <1>2 DEF Content
<1> QED
  BY <1>1, <1>3 DEF Content, ContentListed

(***************************************************************************)
(* Type correctness, for a user of any kind.                               *)
(***************************************************************************)

LEMMA ZeroInSlot == 0 \in Slot
BY DEF Slot

LEMMA InitTyped == Init => TypeOK
BY ZeroInSlot DEF Init, TypeOK

LEMMA NextTyped == TypeOK /\ [Next]_vars => TypeOK'
<1> SUFFICES ASSUME TypeOK, [Next]_vars PROVE TypeOK'
  OBVIOUS
<1>0. Succ(w_ptr) \in Slot /\ Succ(r_ptr) \in Slot
  BY SuccInSlot DEF TypeOK
<1>1. CASE Read
  BY <1>0, <1>1 DEF TypeOK, Read
<1>2. ASSUME NEW d \in Data, Write(d) PROVE TypeOK'
  BY <1>0, <1>2 DEF TypeOK, Write
<1>3. ASSUME NEW d \in Data, ReadWrite(d) PROVE TypeOK'
  BY <1>0, <1>3 DEF TypeOK, ReadWrite
<1>4. CASE Reset
  BY <1>4, ZeroInSlot DEF TypeOK, Reset
<1>5. CASE UNCHANGED vars
  BY <1>5 DEF TypeOK, vars
<1> QED
  BY <1>1, <1>2, <1>3, <1>4, <1>5 DEF Next

(* Every step of a careful user is one a user may take.                    *)
LEMMA CarefulNextIsNext == CarefulNext => Next
BY DEF CarefulNext, Next

(* Whatever its user does, the registers of the FIFO of fifo.v keep to     *)
(* their widths.                                                           *)
THEOREM TypeCorrect == Spec => []TypeOK
BY InitTyped, NextTyped, PTL DEF Spec

(* The same for a careful user.                                            *)
THEOREM CarefulTypeCorrect == CarefulSpec => []TypeOK
<1>1. TypeOK /\ [CarefulNext]_vars => TypeOK'
  BY NextTyped, CarefulNextIsNext
<1> QED
  BY InitTyped, <1>1, PTL DEF CarefulSpec

(***************************************************************************)
(* The flags.                                                              *)
(***************************************************************************)

(* Below Slots - 1 words the comparison of fifo.v:71 is false at every     *)
(* position of the pointers, and above zero words that of fifo.v:65 is.    *)
LEMMA NoAlarmStep ==
  TypeOK /\ NoFalseAlarm /\ [CarefulNext]_vars => NoFalseAlarm'
<1> SUFFICES ASSUME TypeOK, NoFalseAlarm, [CarefulNext]_vars
             PROVE  NoFalseAlarm'
  OBVIOUS
<1>1. CASE ~empty /\ Read
  BY <1>1 DEF NoFalseAlarm, Read, empty
<1>2. ASSUME NEW d \in Data, Level < Slots - 1, Write(d)
      PROVE  NoFalseAlarm'
  <2>1. w_ptr # r_ptr - 1
    BY <1>2 DEF TypeOK, Slot, Level
  <2> QED
    BY <1>2, <2>1 DEF NoFalseAlarm, Write
<1>3. ASSUME NEW d \in Data, ReadWrite(d) PROVE NoFalseAlarm'
  BY <1>3 DEF NoFalseAlarm, ReadWrite
<1>4. CASE UNCHANGED vars
  BY <1>4 DEF NoFalseAlarm, vars
<1> QED
  BY <1>1, <1>2, <1>3, <1>4 DEF CarefulNext

(* A user that reads only what is there and writes only below Slots - 1    *)
(* words is never told of an underflow or an overflow (fifo.v:65, :71).    *)
THEOREM FlagsHonest == CarefulSpec => []NoFalseAlarm
<1>1. Init => NoFalseAlarm
  BY DEF Init, NoFalseAlarm
<1> QED
  BY <1>1, NoAlarmStep, CarefulTypeCorrect, PTL DEF CarefulSpec

(***************************************************************************)
(* The queue.                                                              *)
(***************************************************************************)

(* Reading moves every stored word one place towards the head.             *)
LEMMA NthAfterRead ==
  ASSUME TypeOK, r_ptr' = Succ(r_ptr), NEW i \in 1 .. Slots - 1
  PROVE  Nth(i)' = Nth(i + 1)
BY DEF TypeOK, Slot, Nth, Succ

(* A read edge above zero words takes the head off the queue.              *)
LEMMA ReadIsDeq ==
  ASSUME TypeOK, ~empty, Read
  PROVE  Queue!Deq
<1>1. TypeOK'
  BY NextTyped DEF Next
<1>2. Level \in 1 .. Slots - 1
  BY LevelBounds
<1>3. Level' = Level - 1
  BY <1>2 DEF Read, TypeOK, Slot, Level, Succ, empty
<1>4. ContentListed /\ ContentListed'
  BY <1>1, ContentIsSeq, PTL
<1>5. Content # << >>
  BY <1>2, <1>4 DEF ContentListed
<1>6. /\ Tail(Content) \in Seq(Data) /\ Len(Tail(Content)) = Level - 1
      /\ \A i \in 1 .. Level - 1 : Tail(Content)[i] = Content[i + 1]
  BY <1>4, <1>5, HeadTailProperties DEF ContentListed
<1>7. ASSUME NEW i \in 1 .. Level - 1 PROVE Content'[i] = Tail(Content)[i]
  <2>1. Nth(i)' = Nth(i + 1) /\ array_reg' = array_reg
    BY <1>2, NthAfterRead DEF Read
  <2>2. i \in 1 .. Level' /\ i + 1 \in 1 .. Level
    BY <1>2, <1>3
  <2> QED
    BY <1>4, <1>6, <2>1, <2>2 DEF ContentListed
<1>8. Content' = Tail(Content)
  BY <1>2, <1>3, <1>4, <1>6, <1>7, SeqEqual DEF ContentListed
<1> QED
  BY <1>5, <1>8 DEF Queue!Deq

(* A write edge below Slots - 1 words appends to the queue.                *)
LEMMA WriteIsEnq ==
  ASSUME TypeOK, Level < Slots - 1, NEW d \in Data, Write(d)
  PROVE  Queue!Enq(d)
<1>1. TypeOK'
  BY NextTyped DEF Next
<1>2. Level \in 0 .. Slots - 1
  BY LevelBounds
<1>3. Level' = Level + 1
  BY <1>2 DEF Write, TypeOK, Slot, Level, Succ
<1>4. ContentListed /\ ContentListed'
  BY <1>1, ContentIsSeq, PTL
<1>5. /\ Append(Content, d) \in Seq(Data)
      /\ Len(Append(Content, d)) = Level + 1
      /\ \A i \in 1 .. Level : Append(Content, d)[i] = Content[i]
      /\ Append(Content, d)[Level + 1] = d
  BY <1>4, AppendProperties DEF ContentListed
<1>6. ASSUME NEW i \in 1 .. Level + 1
      PROVE  Content'[i] = Append(Content, d)[i]
  <2>1. Content'[i] = array_reg'[Nth(i)]
    BY <1>3, <1>4 DEF ContentListed, Write, Nth
  <2>2. CASE i = Level + 1
    BY <1>2, <1>5, <2>1, <2>2, WritePtrIsNth DEF Write, TypeOK
  <2>3. CASE i \in 1 .. Level
    <3>1. Nth(i) # w_ptr /\ Nth(i) \in Slot
      BY <1>2, <2>3, WritePtrIsFree, NthInSlot
    <3> QED
      BY <1>4, <1>5, <2>1, <2>3, <3>1 DEF Write, TypeOK, ContentListed
  <2>4. i = Level + 1 \/ i \in 1 .. Level
    BY <1>2
  <2> QED
    BY <2>2, <2>3, <2>4
<1>7. Content' = Append(Content, d)
  BY <1>2, <1>3, <1>4, <1>5, <1>6, SeqEqual DEF ContentListed
<1> QED
  BY <1>4, <1>7 DEF Queue!Enq, ContentListed

(* An edge that reads and writes above zero words moves the queue on by    *)
(* one word, also when all Slots - 1 places are taken.                     *)
LEMMA ReadWriteIsDeqEnq ==
  ASSUME TypeOK, ~empty, NEW d \in Data, ReadWrite(d)
  PROVE  Queue!DeqEnq(d)
<1>1. TypeOK'
  BY NextTyped DEF Next
<1>2. Level \in 1 .. Slots - 1
  BY LevelBounds
<1>3. Level' = Level
  BY <1>2 DEF ReadWrite, TypeOK, Slot, Level, Succ
<1>4. ContentListed /\ ContentListed'
  BY <1>1, ContentIsSeq, PTL
<1>5. Content # << >>
  BY <1>2, <1>4 DEF ContentListed
<1>6. /\ Tail(Content) \in Seq(Data) /\ Len(Tail(Content)) = Level - 1
      /\ \A i \in 1 .. Level - 1 : Tail(Content)[i] = Content[i + 1]
  BY <1>4, <1>5, HeadTailProperties DEF ContentListed
<1>7. /\ Append(Tail(Content), d) \in Seq(Data)
      /\ Len(Append(Tail(Content), d)) = Level
      /\ \A i \in 1 .. Level - 1 : Append(Tail(Content), d)[i] = Content[i + 1]
      /\ Append(Tail(Content), d)[Level] = d
  BY <1>2, <1>6, AppendProperties
<1>8. ASSUME NEW i \in 1 .. Level
      PROVE  Content'[i] = Append(Tail(Content), d)[i]
  <2>1. Nth(i)' = Nth(i + 1)
    BY <1>2, NthAfterRead DEF ReadWrite
  <2>2. Content'[i] = array_reg'[Nth(i + 1)]
    BY <1>3, <1>4, <2>1 DEF ContentListed
  <2>3. CASE i = Level
    BY <1>7, <2>2, <2>3, WritePtrIsNth DEF ReadWrite, TypeOK
  <2>4. CASE i \in 1 .. Level - 1
    <3>1. i + 1 \in 1 .. Level
      BY <1>2, <2>4
    <3>2. Nth(i + 1) # w_ptr /\ Nth(i + 1) \in Slot
      BY <1>2, <3>1, WritePtrIsFree, NthInSlot
    <3>3. array_reg'[Nth(i + 1)] = Content[i + 1]
      BY <1>4, <3>1, <3>2 DEF ReadWrite, TypeOK, ContentListed
    <3> QED
      BY <1>7, <2>2, <2>4, <3>3
  <2>5. i = Level \/ i \in 1 .. Level - 1
    BY <1>2
  <2> QED
    BY <2>3, <2>4, <2>5
<1>9. Content' = Append(Tail(Content), d)
  BY <1>2, <1>3, <1>4, <1>7, <1>8, SeqEqual DEF ContentListed
<1> QED
  BY <1>5, <1>9 DEF Queue!DeqEnq

(* Each edge of a careful user is the operation of the queue that it asked *)
(* for, not just some step of a queue: what is written enters, and a read  *)
(* takes one word (fifo.v:55-75).                                          *)
THEOREM EdgesAreQueueSteps ==
  ASSUME TypeOK
  PROVE  /\ ~empty /\ Read => Queue!Deq
         /\ \A d \in Data : Level < Slots - 1 /\ Write(d) => Queue!Enq(d)
         /\ \A d \in Data : ~empty /\ ReadWrite(d) => Queue!DeqEnq(d)
BY ReadIsDeq, WriteIsEnq, ReadWriteIsDeqEnq

(* After a reset everything holds anew that holds from Init.               *)
THEOREM ResetRestarts == TypeOK /\ Reset => Init'
BY DEF TypeOK, Reset, Init

(* To a careful user the circuit of fifo.v is a queue of Slots - 1 words:  *)
(* nothing is lost, repeated or reordered through any wrap of the pointers.*)
THEOREM FifoIsQueue == CarefulSpec => ImplementsQueue
<1>1. Init => Queue!Init
  <2> SUFFICES ASSUME Init PROVE Content = << >>
    BY DEF Queue!Init
  <2>1. TypeOK /\ Level = 0
    BY InitTyped DEF Init, Level
  <2>2. ContentListed
    BY <2>1, ContentIsSeq
  <2> QED
    BY <2>1, <2>2 DEF ContentListed
<1>2. TypeOK /\ [CarefulNext]_vars => [Queue!Next]_Content
  <2> SUFFICES ASSUME TypeOK, [CarefulNext]_vars
               PROVE  [Queue!Next]_Content
    OBVIOUS
  <2>1. CASE ~empty /\ Read
    BY <2>1, ReadIsDeq DEF Queue!Next
  <2>2. ASSUME NEW d \in Data, Level < Slots - 1, Write(d)
        PROVE  Queue!Next
    BY <2>2, WriteIsEnq DEF Queue!Next
  <2>3. ASSUME NEW d \in Data, ~empty, ReadWrite(d)
        PROVE  Queue!Next
    BY <2>3, ReadWriteIsDeqEnq DEF Queue!Next
  <2>4. CASE UNCHANGED vars
    BY <2>4 DEF vars, Content, Level, Nth
  <2> QED
    BY <2>1, <2>2, <2>3, <2>4 DEF CarefulNext
<1> QED
  BY <1>1, <1>2, CarefulTypeCorrect, PTL
     DEF CarefulSpec, ImplementsQueue, Queue!Spec

(***************************************************************************)
(* The same for a circuit around the FIFO: its outputs and its edges in    *)
(* terms of the stored words, in the order they were written.              *)
(***************************************************************************)

(* What the outputs say of the stored words (fifo.v:49, fifo.v:78-79).     *)
OutputsAgree == /\ Content \in Seq(Data)
                /\ Len(Content) = Level
                /\ Level \in 0 .. Slots - 1
                /\ empty <=> Content = << >>
                /\ ~empty => r_data = Head(Content)

LEMMA OutputsOfContent == TypeOK => OutputsAgree
<1> SUFFICES ASSUME TypeOK PROVE OutputsAgree
  OBVIOUS
<1>1. ContentListed /\ Level \in 0 .. Slots - 1 /\ (empty <=> Level = 0)
  BY ContentIsSeq, LevelBounds
<1>2. empty <=> Content = << >>
  BY <1>1, EmptySeq DEF ContentListed
<1>3. ASSUME ~empty PROVE r_data = Head(Content)
  <2>1. Content[1] = array_reg[Nth(1)]
    BY <1>1, <1>3 DEF ContentListed
  <2>2. Nth(1) = r_ptr
    BY DEF TypeOK, Slot, Nth
  <2> QED
    BY <1>1, <1>2, <1>3, <2>1, <2>2, HeadTailProperties
       DEF r_data, ContentListed
<1> QED
  BY <1>1, <1>2, <1>3 DEF ContentListed, OutputsAgree

(* What each edge does to the stored words.                                *)
LEMMA EdgesOfContent ==
  ASSUME TypeOK
  PROVE  /\ ~empty /\ Read => TypeOK' /\ Content' = Tail(Content)
         /\ \A d \in Data :
              Level < Slots - 1 /\ Write(d)
                => TypeOK' /\ Content' = Append(Content, d)
         /\ \A d \in Data :
              ~empty /\ ReadWrite(d)
                => TypeOK' /\ Content' = Append(Tail(Content), d)
         /\ Reset => TypeOK' /\ Content' = << >>
         /\ UNCHANGED vars => TypeOK' /\ Content' = Content
<1>1. ASSUME ~empty, Read PROVE TypeOK' /\ Content' = Tail(Content)
  BY <1>1, NextTyped, ReadIsDeq DEF Next, Queue!Deq
<1>2. ASSUME NEW d \in Data, Level < Slots - 1, Write(d)
      PROVE  TypeOK' /\ Content' = Append(Content, d)
  BY <1>2, NextTyped, WriteIsEnq DEF Next, Queue!Enq
<1>3. ASSUME NEW d \in Data, ~empty, ReadWrite(d)
      PROVE  TypeOK' /\ Content' = Append(Tail(Content), d)
  BY <1>3, NextTyped, ReadWriteIsDeqEnq DEF Next, Queue!DeqEnq
<1>4. ASSUME Reset PROVE TypeOK' /\ Content' = << >>
  <2>1. TypeOK'
    BY <1>4, NextTyped DEF Next
  <2>2. empty'
    BY <1>4 DEF Reset, empty
  <2>3. OutputsAgree'
    BY <2>1, OutputsOfContent, PTL
  <2> QED
    BY <2>1, <2>2, <2>3 DEF OutputsAgree
<1>5. ASSUME UNCHANGED vars PROVE TypeOK' /\ Content' = Content
  BY <1>5, NextTyped DEF vars, Content, Level, Nth
<1> QED
  BY <1>1, <1>2, <1>3, <1>4, <1>5
=============================================================================
