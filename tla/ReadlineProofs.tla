--------------------------- MODULE ReadlineProofs ---------------------------
(***************************************************************************)
(* Proofs about Readline for every set of characters and every size of the *)
(* receive FIFO, of the line buffer and of the caller's buffer.            *)
(***************************************************************************)
EXTENDS Readline, SequenceTheorems, WellFoundedInduction, TLAPS

USE ReadlineAssumption

(***************************************************************************)
(* The inductive invariant.                                                *)
(***************************************************************************)

(* No end of line among the first n bytes of the buffer.                   *)
NoEol(n) == \A i \in 1 .. n : uart_rx_buf[i] # Eol

(* Until the flag is set the buffer is a line that has not ended; the flag *)
(* is set only within a call, for a whole line or a full buffer.           *)
LineInv == IF eol
           THEN /\ pc = "loop"
                /\ uart_rx_buf # << >>
                /\ NoEol(Len(uart_rx_buf) - 1)
                /\ \/ uart_rx_buf[Len(uart_rx_buf)] = Eol
                   \/ Len(uart_rx_buf) = BufSize
           ELSE NoEol(Len(uart_rx_buf))

(* Until it is about to return, a call has taken no byte or is busy.       *)
ResultInv == pc \in {"loop", "empty"} =>
               /\ rc \in {0, UartErrorRxBusy}
               /\ rc = UartErrorRxBusy => uart_rx_buf # << >>

Inv == TypeOK /\ NothingLost /\ LineInv /\ ResultInv /\ OneLine /\ ResultHonest

(* TypeOK, one variable at a time.                                         *)
Types == /\ fifo \in Seq(Chars) /\ uart_rx_buf \in Seq(Chars)
         /\ str \in Seq(Chars) /\ answer \in Seq(Chars)
         /\ arrived \in Seq(Chars) /\ returned \in Seq(Chars)
         /\ Len(fifo) <= FifoRoom /\ Len(uart_rx_buf) <= BufSize
         /\ pc \in {"idle", "loop", "empty", "return"}
         /\ rc \in {UartErrorRxBusy, UartErrorTimeout} \cup 0 .. BufSize

Flags == late \in BOOLEAN /\ eol \in BOOLEAN /\ sync \in BOOLEAN

LEMMA TypesSplit == TypeOK <=> Types /\ Flags
<1>1. {late, eol, sync} \subseteq BOOLEAN <=> Flags
  BY Zenon DEF Flags
<1>2. {fifo, uart_rx_buf, str, answer, arrived, returned} \subseteq Seq(Chars)
        <=> /\ fifo \in Seq(Chars) /\ uart_rx_buf \in Seq(Chars)
            /\ str \in Seq(Chars) /\ answer \in Seq(Chars)
            /\ arrived \in Seq(Chars) /\ returned \in Seq(Chars)
  BY Zenon
<1> QED
  BY <1>1, <1>2, Zenon DEF TypeOK, Types

(***************************************************************************)
(* The string that is copied out.                                          *)
(***************************************************************************)

(* A set of numbers that is not empty has a least one.                     *)
LEMMA LeastExists ==
  ASSUME NEW S, S \subseteq Nat, S # {}
  PROVE  \E i \in S : \A j \in S : i <= j
<1> DEFINE R == {ss \in Nat \X Nat : ss[1] < ss[2]}
<1>1. IsWellFoundedOn(R, Nat)
  BY NatLessThanWellFounded, Zenon DEF OpToRel
<1>2. \E i \in S : \A j \in S : << j, i >> \notin R
  BY <1>1, WFMin, Zenon
<1>3. PICK i \in S : \A j \in S : << j, i >> \notin R
  BY <1>2
<1>4. ASSUME NEW j \in S PROVE i <= j
  <2>1. i \in Nat /\ j \in Nat /\ << j, i >> \in Nat \X Nat
    OBVIOUS
  <2>2. ~(j < i)
    BY <1>3, <2>1
  <2> QED
    BY <2>1, <2>2
<1> QED
  BY <1>4

(* What strncpy copies is a prefix of the line, with room for the          *)
(* terminator, whatever NUL characters the line has in it.                 *)
LEMMA CopiedIsPrefix ==
  ASSUME NEW buf \in Seq(Chars)
  PROVE  /\ Copied(buf) \in Seq(Chars)
         /\ Len(Copied(buf)) < StrSize
         /\ Copied(buf) = SubSeq(buf, 1, Len(Copied(buf)))
<1> DEFINE size == Smaller(Len(buf), StrSize - 1)
           nuls == {i \in 1 .. size : buf[i] = Nul}
           end  == IF nuls = {} THEN size
                   ELSE (CHOOSE i \in nuls : \A j \in nuls : i <= j) - 1
<1>1. Len(buf) \in Nat /\ \A i \in 1 .. Len(buf) : buf[i] \in Chars
  BY LenProperties, ElementOfSeq
<1>2. size \in Nat /\ size <= Len(buf) /\ size < StrSize
  BY <1>1 DEF Smaller
<1>3. nuls \subseteq 1 .. size /\ nuls \subseteq Nat
  BY <1>2
<1>4. Copied(buf) = SubSeq(buf, 1, end)
  BY DEF Copied
<1> HIDE DEF nuls, size
<1>6. end \in 0 .. size
  <2>1. CASE nuls = {}
    BY <1>2, <2>1
  <2>2. CASE nuls # {}
    <3> DEFINE first == CHOOSE i \in nuls : \A j \in nuls : i <= j
    <3>1. first \in nuls
      BY <1>3, <2>2, LeastExists, Zenon
    <3> HIDE DEF first
    <3>2. first - 1 \in 0 .. size
      BY <1>2, <1>3, <3>1
    <3>3. end = first - 1
      BY <2>2 DEF first
    <3> QED
      BY <3>2, <3>3, Zenon
  <2> QED
    BY <2>1, <2>2
<1> HIDE DEF end
<1>5. /\ SubSeq(buf, 1, end) \in Seq(Chars)
      /\ Len(SubSeq(buf, 1, end)) = end
  <2>1. \A i \in 1 .. end : buf[i] \in Chars
    BY <1>1, <1>2, <1>6
  <2>2. end \in Int /\ 1 \in Int /\ (1 <= end => end - 1 + 1 = end)
        /\ (~(1 <= end) => end = 0)
    BY <1>2, <1>6
  <2> QED
    BY <2>1, <2>2, SubSeqProperties
<1> QED
  BY <1>2, <1>4, <1>5, <1>6

(***************************************************************************)
(* The initial states.                                                     *)
(***************************************************************************)
LEMMA InitInv == Init => Inv
<1> SUFFICES ASSUME Init PROVE Inv
  OBVIOUS
<1>1. << >> \in Seq(Chars) /\ Len(<< >>) = 0
  BY EmptySeq
<1>2. Types
  BY <1>1 DEF Init, Types
<1>3. Flags
  BY Zenon DEF Init, Flags
<1>4. NothingLost
  BY <1>1, ConcatEmptySeq DEF Init, NothingLost
<1>5. LineInv
  BY <1>1 DEF Init, LineInv, NoEol
<1>6. ResultInv /\ OneLine /\ ResultHonest
  BY DEF Init, ResultInv, OneLine, ResultHonest
<1> QED
  BY <1>2, <1>3, <1>4, <1>5, <1>6, TypesSplit DEF Inv

(***************************************************************************)
(* The steps that leave the line alone.                                    *)
(***************************************************************************)

(* A step that moves no byte and changes neither the flag of the line nor  *)
(* what the call has got disturbs only what is said of pc.                 *)
LEMMA QuietStep ==
  ASSUME Inv, UNCHANGED << fifo, uart_rx_buf, eol, str, history >>,
         ~eol \/ pc' = pc,
         pc' \in {"idle", "loop", "empty", "return"},
         rc' \in {UartErrorRxBusy, UartErrorTimeout} \cup 0 .. BufSize,
         late' \in BOOLEAN, sync' \in BOOLEAN,
         ResultInv', OneLine', ResultHonest'
  PROVE  Inv'
<1>0. Types /\ Flags /\ NothingLost /\ LineInv
  BY TypesSplit DEF Inv
<1>1. Types'
  BY <1>0 DEF Types, history
<1>2. Flags'
  BY <1>0, Zenon DEF Flags
<1>3. NothingLost'
  BY <1>0 DEF NothingLost, history
<1>4. LineInv'
  BY <1>0, Zenon DEF LineInv, NoEol
<1>5. TypeOK'
  BY <1>1, <1>2, TypesSplit, PTL
<1> QED
  BY <1>3, <1>4, <1>5 DEF Inv

LEMMA ExpireInv == ASSUME Inv, Expire PROVE Inv'
<1>0. Types /\ Flags /\ ResultInv /\ OneLine /\ ResultHonest
  BY TypesSplit DEF Inv
<1>1. /\ UNCHANGED << fifo, uart_rx_buf, eol, str, history >>
      /\ UNCHANGED << pc, rc, sync >> /\ late' \in BOOLEAN
  BY Zenon DEF Expire, line
<1>2. ResultInv' /\ OneLine' /\ ResultHonest'
  BY <1>0, <1>1, Zenon DEF ResultInv, OneLine, ResultHonest, history
<1>3. /\ pc' \in {"idle", "loop", "empty", "return"} /\ sync' \in BOOLEAN
      /\ rc' \in {UartErrorRxBusy, UartErrorTimeout} \cup 0 .. BufSize
  BY <1>0, <1>1, Zenon DEF Types, Flags
<1> QED
  BY <1>1, <1>2, <1>3, QuietStep, Zenon

LEMMA SendLineInv == ASSUME Inv, SendLine PROVE Inv'
<1>0. Types /\ Flags /\ ResultInv /\ OneLine /\ ResultHonest
  BY TypesSplit DEF Inv
<1>1. /\ UNCHANGED << fifo, uart_rx_buf, eol, str, history >>
      /\ UNCHANGED << pc, rc, sync >> /\ late' \in BOOLEAN
  BY Zenon DEF SendLine, line
<1>2. ResultInv' /\ OneLine' /\ ResultHonest'
  BY <1>0, <1>1, Zenon DEF ResultInv, OneLine, ResultHonest, history
<1>3. /\ pc' \in {"idle", "loop", "empty", "return"} /\ sync' \in BOOLEAN
      /\ rc' \in {UartErrorRxBusy, UartErrorTimeout} \cup 0 .. BufSize
  BY <1>0, <1>1, Zenon DEF Types, Flags
<1> QED
  BY <1>1, <1>2, <1>3, QuietStep, Zenon

LEMMA CallInv == ASSUME Inv, NEW s \in BOOLEAN, Call(s) PROVE Inv'
<1>0. Types /\ Flags /\ LineInv
  BY TypesSplit DEF Inv
<1>1. /\ UNCHANGED << fifo, uart_rx_buf, eol, str, history >>
      /\ pc = "idle" /\ pc' = "loop" /\ rc' = 0
      /\ late' \in BOOLEAN /\ sync' \in BOOLEAN
  BY <1>0, Zenon DEF Call, Goto, Flags
<1>2. ResultInv' /\ OneLine' /\ ResultHonest'
  BY <1>1 DEF ResultInv, OneLine, ResultHonest, UartErrorRxBusy
<1>3. ~eol
  <2>1. "idle" # "loop"
    OBVIOUS
  <2> QED
    BY <1>0, <1>1, <2>1, Zenon DEF LineInv
<1>4. /\ pc' \in {"idle", "loop", "empty", "return"}
      /\ rc' \in {UartErrorRxBusy, UartErrorTimeout} \cup 0 .. BufSize
  BY <1>1
<1> QED
  BY <1>1, <1>2, <1>3, <1>4, QuietStep, Zenon

(* The steps within a call that only decide where it goes.                 *)
LEMMA DecideInv ==
  ASSUME Inv, Return \/ Empty \/ TimeOut \/ Leave \/ Wait
  PROVE  Inv'
<1>0. Types /\ Flags /\ LineInv /\ ResultInv
  BY TypesSplit DEF Inv
<1>1. /\ UNCHANGED << fifo, uart_rx_buf, eol, str, history >>
      /\ late' = late /\ sync' = sync
  BY Zenon DEF Return, Empty, TimeOut, Leave, Wait
<1>2. /\ pc \in {"return", "loop", "empty"}
      /\ \/ pc' = "idle" /\ rc' = rc
         \/ pc \in {"loop", "empty"} /\ pc' \in {"loop", "empty"} /\ rc' = rc
         \/ pc' = "return" /\ rc' = UartErrorTimeout
         \/ pc = "empty" /\ pc' = "return" /\ rc' = rc /\ ~sync
      /\ pc = "loop" => ~eol
  <2>1. CASE Return
    BY <2>1 DEF Return, Goto
  <2>2. CASE Empty
    BY <2>2 DEF Empty, Goto
  <2>3. CASE TimeOut
    BY <2>3 DEF TimeOut, Goto
  <2>4. CASE Leave
    BY <2>4 DEF Leave, Goto
  <2>5. CASE Wait
    BY <2>5 DEF Wait, Goto
  <2> QED
    BY <2>1, <2>2, <2>3, <2>4, <2>5
<1>3. ~eol
  BY <1>0, <1>2 DEF LineInv
<1>4. ResultInv' /\ OneLine'
  BY <1>0, <1>1, <1>2
     DEF ResultInv, OneLine, UartErrorRxBusy, UartErrorTimeout, history
<1>5. ResultHonest'
  BY <1>0, <1>1, <1>2
     DEF ResultInv, ResultHonest, UartErrorRxBusy, UartErrorTimeout
<1>6. /\ pc' \in {"idle", "loop", "empty", "return"}
      /\ rc' \in {UartErrorRxBusy, UartErrorTimeout} \cup 0 .. BufSize
  BY <1>0, <1>2 DEF Types
<1>7. late' \in BOOLEAN /\ sync' \in BOOLEAN
  BY <1>0, <1>1, Zenon DEF Flags
<1> QED
  BY <1>1, <1>3, <1>4, <1>5, <1>6, <1>7, QuietStep, Zenon
(***************************************************************************)
(* The steps that move bytes.                                              *)
(***************************************************************************)
LEMMA OpenInv == ASSUME Inv, Open PROVE Inv'
<1>0. Types /\ Flags
  BY TypesSplit DEF Inv
<1>1. << >> \in Seq(Chars) /\ Len(<< >>) = 0
  BY EmptySeq
<1>2. /\ fifo' = << >> /\ uart_rx_buf' = << >>
      /\ arrived' = << >> /\ returned' = << >>
      /\ pc = "idle" /\ pc' = pc /\ rc' = rc /\ str' = str /\ answer' = answer
  BY DEF Open
<1>3. eol' = FALSE /\ late' = late /\ sync' = sync
  BY Zenon DEF Open
<1>4. Types'
  BY <1>0, <1>1, <1>2 DEF Types
<1>5. Flags'
  BY <1>0, <1>3, Zenon DEF Flags
<1>6. TypeOK'
  BY <1>4, <1>5, TypesSplit, PTL
<1>7. NothingLost'
  BY <1>1, <1>2, ConcatEmptySeq DEF NothingLost
<1>8. LineInv'
  BY <1>1, <1>2, <1>3 DEF LineInv, NoEol
<1>9. ResultInv' /\ OneLine' /\ ResultHonest'
  BY <1>2 DEF ResultInv, OneLine, ResultHonest
<1> QED
  BY <1>6, <1>7, <1>8, <1>9 DEF Inv

LEMMA ArriveInv == ASSUME Inv, Arrive PROVE Inv'
<1>0. /\ Types /\ Flags
      /\ NothingLost /\ LineInv /\ ResultInv /\ OneLine /\ ResultHonest
  BY TypesSplit DEF Inv
<1>1. PICK c \in Chars : /\ fifo' = Append(fifo, c)
                         /\ arrived' = Append(arrived, c)
  BY DEF Arrive
<1>2. /\ UNCHANGED << uart_rx_buf, eol, pc, sync, rc, str, answer, returned >>
      /\ late' = late
  BY Zenon DEF Arrive, line
<1>3. fifo \in Seq(Chars) /\ arrived \in Seq(Chars) /\ Len(fifo) < FifoRoom
  BY <1>0 DEF Types, Arrive
<1>4. /\ fifo' \in Seq(Chars) /\ arrived' \in Seq(Chars)
      /\ Len(fifo') <= FifoRoom
  <2>1. Len(fifo') = Len(fifo) + 1 /\ Len(fifo) \in Nat
    BY <1>1, <1>3, AppendProperties, LenProperties
  <2> QED
    BY <1>1, <1>3, <2>1, AppendProperties
<1>5. Types'
  BY <1>0, <1>2, <1>4 DEF Types
<1>6. Flags'
  BY <1>0, <1>2, Zenon DEF Flags
<1>7. TypeOK'
  BY <1>5, <1>6, TypesSplit, PTL
<1>8. NothingLost'
  <2> DEFINE head == returned \o uart_rx_buf
  <2>1. head \in Seq(Chars) /\ head \o fifo \in Seq(Chars)
    BY <1>0, ConcatProperties DEF Types
  <2>2. << c >> \in Seq(Chars)
    OBVIOUS
  <2>3. arrived' = (head \o fifo) \o << c >>
    BY <1>0, <1>1, <1>3, AppendIsConcat DEF NothingLost
  <2>4. fifo' = fifo \o << c >>
    BY <1>1, <1>3, AppendIsConcat
  <2>5. arrived' = head \o fifo'
    BY <1>3, <2>1, <2>2, <2>3, <2>4, ConcatAssociative
  <2> QED
    BY <1>2, <2>5 DEF NothingLost
<1>9. LineInv'
  BY <1>0, <1>2, Zenon DEF LineInv, NoEol
<1>10. ResultInv' /\ OneLine' /\ ResultHonest'
  BY <1>0, <1>2, Zenon DEF ResultInv, OneLine, ResultHonest
<1> QED
  BY <1>7, <1>8, <1>9, <1>10 DEF Inv

(* Moving the head of one sequence to the end of the one before it leaves  *)
(* the two, one after the other, as they were.                             *)
LEMMA MoveHead ==
  ASSUME NEW r \in Seq(Chars), NEW b \in Seq(Chars),
         NEW f \in Seq(Chars), f # << >>
  PROVE  (r \o Append(b, Head(f))) \o Tail(f) = (r \o b) \o f
<1>1. /\ Head(f) \in Chars /\ Tail(f) \in Seq(Chars)
      /\ << Head(f) >> \in Seq(Chars)
  BY HeadTailProperties
<1>2. f = << Head(f) >> \o Tail(f)
  <2>1. Len(f) \in Nat \ {0} /\ SubSeq(f, 1, Len(f)) = f
    BY EmptySeq, SubSeqFull
  <2>2. f = << f[1] >> \o SubSeq(f, 2, Len(f))
    BY <2>1, SubSeqRecursiveFirst
  <2> QED
    BY <2>2, TailIsSubSeq
<1>3. Append(b, Head(f)) = b \o << Head(f) >>
  BY <1>1, AppendIsConcat
<1>4. r \o Append(b, Head(f)) = (r \o b) \o << Head(f) >>
  BY <1>1, <1>3, ConcatAssociative
<1>5. r \o b \in Seq(Chars)
  BY ConcatProperties
<1>6. ((r \o b) \o << Head(f) >>) \o Tail(f) = (r \o b) \o f
  BY <1>1, <1>2, <1>5, ConcatAssociative
<1> QED
  BY <1>4, <1>6

(* Taking a byte moves it from the FIFO to the end of the line.            *)
LEMMA TakeInv == ASSUME Inv, Take PROVE Inv'
<1>0. Types /\ Flags /\ NothingLost /\ LineInv /\ ResultInv
  BY TypesSplit DEF Inv
<1>1. /\ fifo # << >> /\ fifo' = Tail(fifo)
      /\ uart_rx_buf' = Append(uart_rx_buf, Head(fifo))
      /\ Len(uart_rx_buf) # BufSize
      /\ rc' = IF Head(fifo) = Eol THEN rc ELSE UartErrorRxBusy
      /\ pc = "loop" /\ pc' = pc /\ str' = str /\ answer' = answer
      /\ arrived' = arrived /\ returned' = returned
  BY DEF Take, NotEmpty, history
<1>2. ~eol /\ (eol' <=> Head(fifo) = Eol) /\ eol' \in BOOLEAN
      /\ late' = late /\ sync' = sync
  BY Zenon DEF Take, NotEmpty
<1>3. /\ fifo \in Seq(Chars) /\ Head(fifo) \in Chars
      /\ Tail(fifo) \in Seq(Chars)
      /\ Len(Tail(fifo)) = Len(fifo) - 1 /\ Len(fifo) \in Nat
  BY <1>0, <1>1, HeadTailProperties, LenProperties DEF Types
<1>4. /\ uart_rx_buf' \in Seq(Chars) /\ uart_rx_buf' # << >>
      /\ Len(uart_rx_buf') = Len(uart_rx_buf) + 1
      /\ \A i \in 1 .. Len(uart_rx_buf) : uart_rx_buf'[i] = uart_rx_buf[i]
      /\ uart_rx_buf'[Len(uart_rx_buf) + 1] = Head(fifo)
      /\ Len(uart_rx_buf) \in Nat
  BY <1>0, <1>1, <1>3, AppendProperties, LenProperties DEF Types
<1>5. rc \in {0, UartErrorRxBusy}
  BY <1>0, <1>1 DEF ResultInv
<1>6. Types'
  BY <1>0, <1>1, <1>3, <1>4, <1>5 DEF Types
<1>7. Flags'
  BY <1>0, <1>2, Zenon DEF Flags
<1>8. TypeOK'
  BY <1>6, <1>7, TypesSplit, PTL
<1>9. NothingLost'
  <2>1. (returned \o Append(uart_rx_buf, Head(fifo))) \o Tail(fifo)
           = (returned \o uart_rx_buf) \o fifo
    BY <1>0, <1>1, MoveHead DEF Types
  <2> QED
    BY <1>0, <1>1, <2>1 DEF NothingLost
<1>10. LineInv'
  <2>1. \A i \in 1 .. Len(uart_rx_buf) : uart_rx_buf'[i] # Eol
    BY <1>0, <1>2, <1>4 DEF LineInv, NoEol
  <2>2. CASE eol'
    <3>1. Len(uart_rx_buf') - 1 = Len(uart_rx_buf)
      BY <1>4
    <3>2. uart_rx_buf'[Len(uart_rx_buf')] = Eol
      BY <1>2, <1>4, <2>2
    <3>3. NoEol(Len(uart_rx_buf) - 1)'
      BY <2>1, <3>1 DEF NoEol
    <3> QED
      BY <1>1, <1>4, <2>2, <3>2, <3>3 DEF LineInv
  <2>3. CASE ~eol'
    <3>1. \A i \in 1 .. Len(uart_rx_buf') :
             i \in 1 .. Len(uart_rx_buf) \/ i = Len(uart_rx_buf) + 1
      BY <1>4
    <3>2. Head(fifo) # Eol
      BY <1>2, <2>3, Zenon
    <3>3. NoEol(Len(uart_rx_buf))'
      BY <1>4, <2>1, <3>1, <3>2 DEF NoEol
    <3> QED
      BY <2>3, <3>3 DEF LineInv
  <2> QED
    BY <1>2, <2>2, <2>3, Zenon
<1>11. ResultInv'
  BY <1>1, <1>4, <1>5 DEF ResultInv
<1>12. OneLine' /\ ResultHonest'
  BY <1>1 DEF OneLine, ResultHonest
<1> QED
  BY <1>8, <1>9, <1>10, <1>11, <1>12 DEF Inv

(* A full buffer becomes a line.                                           *)
LEMMA OverflowInv == ASSUME Inv, Overflow PROVE Inv'
<1>0. Types /\ Flags /\ NothingLost /\ LineInv /\ ResultInv
  BY TypesSplit DEF Inv
<1>1. /\ UNCHANGED << fifo, uart_rx_buf, pc, rc, str >>
      /\ UNCHANGED << answer, arrived, returned >>
      /\ Len(uart_rx_buf) = BufSize /\ pc = "loop"
  BY DEF Overflow, NotEmpty, history
<1>2. ~eol /\ eol' = TRUE /\ late' = late /\ sync' = sync
  BY Zenon DEF Overflow, NotEmpty
<1>3. Types'
  BY <1>0, <1>1 DEF Types
<1>4. Flags'
  BY <1>0, <1>2, Zenon DEF Flags
<1>5. TypeOK'
  BY <1>3, <1>4, TypesSplit, PTL
<1>6. NothingLost'
  BY <1>0, <1>1 DEF NothingLost
<1>7. LineInv'
  <2>1. uart_rx_buf # << >>
    BY <1>1, EmptySeq
  <2>2. \A i \in 1 .. Len(uart_rx_buf) - 1 : uart_rx_buf[i] # Eol
    BY <1>0, <1>1, <1>2 DEF LineInv, NoEol
  <2> QED
    BY <1>1, <1>2, <2>1, <2>2 DEF LineInv, NoEol
<1>8. ResultInv' /\ OneLine' /\ ResultHonest'
  BY <1>0, <1>1 DEF ResultInv, OneLine, ResultHonest
<1> QED
  BY <1>5, <1>6, <1>7, <1>8 DEF Inv

(* What is returned is the line that has just ended.                       *)
LEMMA AnswerInv == ASSUME Inv, Answer PROVE Inv'
<1>0. Types /\ Flags /\ NothingLost /\ LineInv
  BY TypesSplit DEF Inv
<1>1. /\ pc = "loop" /\ pc' = "return"
      /\ str' = IF uart_rx_buf = << >> THEN str ELSE Copied(uart_rx_buf)
      /\ rc' = Len(uart_rx_buf) /\ uart_rx_buf' = << >>
      /\ answer' = uart_rx_buf /\ returned' = returned \o uart_rx_buf
      /\ fifo' = fifo /\ arrived' = arrived
  BY DEF Answer, Goto
<1>2. eol /\ eol' = FALSE /\ late' = late /\ sync' = sync
  BY Zenon DEF Answer
<1>3. /\ uart_rx_buf \in Seq(Chars) /\ uart_rx_buf # << >>
      /\ Len(uart_rx_buf) \in Nat \ {0} /\ Len(uart_rx_buf) <= BufSize
  BY <1>0, <1>2, EmptySeq DEF Types, LineInv
<1>4. str' = Copied(uart_rx_buf)
  BY <1>1, <1>3
<1>5. /\ str' \in Seq(Chars) /\ Len(str') < StrSize
      /\ str' = SubSeq(uart_rx_buf, 1, Len(str'))
  BY <1>3, <1>4, CopiedIsPrefix
<1>6. returned' \in Seq(Chars) /\ uart_rx_buf' \in Seq(Chars)
      /\ Len(uart_rx_buf') = 0
  BY <1>0, <1>1, ConcatProperties, EmptySeq DEF Types
<1>7. Types'
  BY <1>0, <1>1, <1>3, <1>5, <1>6 DEF Types
<1>8. Flags'
  BY <1>0, <1>2, Zenon DEF Flags
<1>9. TypeOK'
  BY <1>7, <1>8, TypesSplit, PTL
<1>10. NothingLost'
  <2>1. returned' \o << >> = returned'
    BY <1>6, ConcatEmptySeq
  <2> QED
    BY <1>0, <1>1, <2>1 DEF NothingLost
<1>11. LineInv'
  BY <1>1, <1>2, <1>6 DEF LineInv, NoEol
<1>12. OneLine'
  <2>1. \A i \in 1 .. Len(uart_rx_buf) - 1 : uart_rx_buf[i] # Eol
    BY <1>0, <1>2 DEF LineInv, NoEol
  <2>2. uart_rx_buf[Len(uart_rx_buf)] = Eol \/ Len(uart_rx_buf) = BufSize
    BY <1>0, <1>2 DEF LineInv
  <2> QED
    BY <1>1, <1>5, <2>1, <2>2 DEF OneLine
<1>13. ResultInv' /\ ResultHonest'
  BY <1>1, <1>3 DEF ResultInv, ResultHonest, UartErrorRxBusy
<1> QED
  BY <1>9, <1>10, <1>11, <1>12, <1>13 DEF Inv

(***************************************************************************)
(* The theorems.                                                           *)
(***************************************************************************)
LEMMA InvHolds == Spec => []Inv
<1>1. Inv /\ [Next]_vars => Inv'
  <2> SUFFICES ASSUME Inv, [Next]_vars PROVE Inv'
    OBVIOUS
  <2>1. CASE Arrive
    BY <2>1, ArriveInv
  <2>2. CASE Expire
    BY <2>2, ExpireInv
  <2>3. CASE Open
    BY <2>3, OpenInv
  <2>4. CASE SendLine
    BY <2>4, SendLineInv
  <2>5. CASE Call(TRUE) \/ Call(FALSE)
    BY <2>5, CallInv
  <2>6. CASE Answer
    BY <2>6, AnswerInv
  <2>7. CASE Overflow
    BY <2>7, OverflowInv
  <2>8. CASE Take
    BY <2>8, TakeInv
  <2>9. CASE Return \/ Empty \/ TimeOut \/ Leave \/ Wait
    BY <2>9, DecideInv
  <2>10. CASE UNCHANGED vars
    BY <2>10, Zenon
       DEF vars, line, history, Inv, TypeOK, NothingLost, LineInv, NoEol,
           ResultInv, OneLine, ResultHonest
  <2> QED
    BY <2>1, <2>2, <2>3, <2>4, <2>5, <2>6, <2>7, <2>8, <2>9, <2>10
       DEF Next, Loop
<1> QED
  BY InitInv, <1>1, PTL DEF Spec

(* The variables of uart.c keep to their types, and the line to its buffer.*)
THEOREM LineTyped == Spec => []TypeOK
BY InvHolds, PTL DEF Inv

(* Each byte received comes out of uart_readline once and in its turn, or  *)
(* is still in the line or the FIFO, whatever calls time out in between    *)
(* (uart.c:193-258).                                                       *)
THEOREM LinesLoseNothing == Spec => []NothingLost
BY InvHolds, PTL DEF Inv

(* A length that uart_readline returns is that of one line, and the string *)
(* is a prefix of it that fits (uart.c:195-239).                           *)
THEOREM LinesAreWhole == Spec => []OneLine
BY InvHolds, PTL DEF Inv

(* The result tells what happened (uart.c:239-257).                        *)
THEOREM ResultsAreHonest == Spec => []ResultHonest
BY InvHolds, PTL DEF Inv

(* No complete line waits for the next call (uart.c:242-253).              *)
THEOREM LinesAreNotKept == Spec => []NoLineKept
<1>1. Inv => NoLineKept
  <2>1. "idle" # "loop"
    OBVIOUS
  <2> QED
    BY <2>1, Zenon DEF Inv, LineInv, NoEol, NoLineKept
<1> QED
  BY InvHolds, <1>1, PTL
=============================================================================
