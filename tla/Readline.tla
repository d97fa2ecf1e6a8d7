------------------------------ MODULE Readline ------------------------------
(***************************************************************************)
(* The line layer of the firmware (uart.c): uart_readline assembles lines  *)
(* from the bytes of the receive FIFO, across calls when it is called      *)
(* without UART_FLAG_SYNC and with a timeout counted from the last send.   *)
(*                                                                         *)
(* A step is one test of the loop of uart_readline with what follows from  *)
(* it.  Bytes arrive and the timeout passes between any two steps.         *)
(***************************************************************************)
EXTENDS Integers, Sequences

CONSTANTS
  Chars,        \* The set of characters.
  Eol,          \* uart_eol.
  Nul,          \* The character that ends a string in C.
  FifoRoom,     \* The most bytes in the receive FIFO, 255 in blastit_main.v.
  BufSize,      \* UART_RX_BUFSZ, 1024.
  StrSize,      \* bufsz, the room the caller provides.
  MaxArrived    \* Bound: bytes received while the UART is open.

ASSUME ReadlineAssumption == /\ {Eol, Nul} \subseteq Chars
                             /\ FifoRoom \in Nat
                             /\ BufSize \in Nat \ {0}
                             /\ StrSize \in Nat \ {0}
                             /\ MaxArrived \in Nat

VARIABLES
  fifo,          \* The bytes in the receive FIFO.
  late,          \* tc_get_ticks(TC_URX_COUNTER) > uart_rx_timeout.
  uart_rx_buf,   \* The bytes of the line so far; its length is uart_rx_bufsz.
  eol,           \* The end of the line has been seen.
  pc, sync,      \* Where uart_readline is; whether flags has UART_FLAG_SYNC.
  rc, str,       \* What it returns and what it has put in the caller's buffer.
  answer,        \* History: the buffer it took the last line from.
  arrived,       \* History: bytes received since uart_open.
  returned       \* History: bytes of the lines returned since uart_open.

line    == << uart_rx_buf, eol, pc, sync, rc, str >>
history == << answer, arrived, returned >>
vars    == << fifo, late, line, history >>

UartErrorRxBusy  == -2
UartErrorTimeout == -3

Smaller(m, n) == IF m < n THEN m ELSE n

(* strncpy of at most StrSize - 1 characters into the cleared buffer.      *)
Copied(buf) ==
  LET size == Smaller(Len(buf), StrSize - 1)
      nuls == {i \in 1 .. size : buf[i] = Nul}
      end  == IF nuls = {} THEN size
              ELSE (CHOOSE i \in nuls : \A j \in nuls : i <= j) - 1
  IN  SubSeq(buf, 1, end)

(***************************************************************************)
(* The other side.                                                         *)
(***************************************************************************)
Arrive == /\ Len(arrived) < MaxArrived
          /\ Len(fifo) < FifoRoom
          /\ \E c \in Chars : /\ fifo' = Append(fifo, c)
                              /\ arrived' = Append(arrived, c)
          /\ UNCHANGED << late, line, answer, returned >>

Expire == /\ ~late /\ late' = TRUE
          /\ UNCHANGED << fifo, line, history >>

(***************************************************************************)
(* The callers.                                                            *)
(***************************************************************************)
Goto(from, to) == pc = from /\ pc' = to

(* uart_open resets the UART and forgets the line.                         *)
Open == /\ pc = "idle"
        /\ fifo' = << >> /\ uart_rx_buf' = << >> /\ eol' = FALSE
        /\ arrived' = << >> /\ returned' = << >>
        /\ UNCHANGED << late, pc, sync, rc, str, answer >>

(* uart_sendline ends with a reset of the timeout counter, but leaves what *)
(* has been received alone.                                                *)
SendLine == /\ pc = "idle"
            /\ late' = FALSE
            /\ UNCHANGED << fifo, line, history >>

(* uart_readline is called; a synchronous call gets the whole timeout.     *)
Call(s) == /\ Goto("idle", "loop")
           /\ sync' = s
           /\ rc' = 0
           /\ late' = (late /\ ~s)
           /\ UNCHANGED << fifo, uart_rx_buf, eol, str, history >>

Return == /\ Goto("return", "idle")
          /\ UNCHANGED << fifo, late, uart_rx_buf, eol, sync, rc, str, history >>

(***************************************************************************)
(* The loop.                                                               *)
(***************************************************************************)

(* Mutants: uart_rx_bufsz is not reset; eol is not.                        *)
AnswerKeepsBuf == /\ Goto("loop", "return")
                  /\ eol /\ eol' = FALSE
                  /\ str' = Copied(uart_rx_buf)
                  /\ rc' = Len(uart_rx_buf)
                  /\ answer' = uart_rx_buf
                  /\ returned' = returned \o uart_rx_buf
                  /\ UNCHANGED << fifo, late, uart_rx_buf, sync, arrived >>

AnswerKeepsEol == /\ Goto("loop", "return")
                  /\ eol
                  /\ str' = IF uart_rx_buf = << >> THEN str
                                                   ELSE Copied(uart_rx_buf)
                  /\ rc' = Len(uart_rx_buf)
                  /\ uart_rx_buf' = << >>
                  /\ answer' = uart_rx_buf
                  /\ returned' = returned \o uart_rx_buf
                  /\ UNCHANGED << fifo, late, eol, sync, arrived >>

(* The line is complete: it is copied out, and its length is returned.     *)
Answer == /\ Goto("loop", "return")
          /\ eol /\ eol' = FALSE
          /\ str' = IF uart_rx_buf = << >> THEN str ELSE Copied(uart_rx_buf)
          /\ rc' = Len(uart_rx_buf)
          /\ uart_rx_buf' = << >>
          /\ answer' = uart_rx_buf
          /\ returned' = returned \o uart_rx_buf
          /\ UNCHANGED << fifo, late, sync, arrived >>

NotEmpty == pc = "loop" /\ ~eol /\ fifo # << >>

(* Mutants: the byte that finds no room is thrown away; the loop goes on.  *)
OverflowDrops == /\ NotEmpty
                 /\ Len(uart_rx_buf) = BufSize
                 /\ eol' = TRUE
                 /\ fifo' = Tail(fifo)
                 /\ UNCHANGED << late, uart_rx_buf, pc, sync, rc, str, history >>

OverflowIgnored == /\ NotEmpty
                   /\ Len(uart_rx_buf) = BufSize
                   /\ UNCHANGED vars

(* The buffer is full: what it holds counts as a line.                     *)
Overflow == /\ NotEmpty
            /\ Len(uart_rx_buf) = BufSize
            /\ eol' = TRUE
            /\ UNCHANGED << fifo, late, uart_rx_buf, pc, sync, rc, str, history >>

(* A byte is taken off the FIFO; the call is busy unless it ends the line. *)
Take == /\ NotEmpty
        /\ Len(uart_rx_buf) # BufSize
        /\ fifo' = Tail(fifo)
        /\ uart_rx_buf' = Append(uart_rx_buf, Head(fifo))
        /\ eol' = (Head(fifo) = Eol)
        /\ rc' = IF Head(fifo) = Eol THEN rc ELSE UartErrorRxBusy
        /\ UNCHANGED << late, pc, sync, str, history >>

(* RX_EMPTY was high when it was read.  What follows does not look again.  *)
Empty == /\ Goto("loop", "empty")
         /\ ~eol /\ fifo = << >>
         /\ UNCHANGED << fifo, late, uart_rx_buf, eol, sync, rc, str, history >>

TimeOut == /\ Goto("empty", "return")
           /\ late
           /\ rc' = UartErrorTimeout
           /\ UNCHANGED << fifo, late, uart_rx_buf, eol, sync, str, history >>

(* Mutant: a synchronous call does not wait.                               *)
LeaveAlways == /\ Goto("empty", "return")
               /\ ~late
               /\ UNCHANGED << fifo, late, uart_rx_buf, eol, sync, rc, str, history >>

(* A call that is not synchronous returns what rc has become.              *)
Leave == /\ Goto("empty", "return")
         /\ ~late /\ ~sync
         /\ UNCHANGED << fifo, late, uart_rx_buf, eol, sync, rc, str, history >>

Wait == /\ Goto("empty", "loop")
        /\ ~late /\ sync
        /\ UNCHANGED << fifo, late, uart_rx_buf, eol, sync, rc, str, history >>

(***************************************************************************)
(* The specification.                                                      *)
(***************************************************************************)
Init == /\ fifo = << >>
        /\ late = FALSE
        /\ uart_rx_buf = << >>
        /\ eol = FALSE
        /\ pc = "idle"
        /\ sync = FALSE
        /\ rc = 0
        /\ str = << >>
        /\ answer = << >>
        /\ arrived = << >>
        /\ returned = << >>

Loop == Answer \/ Overflow \/ Take \/ Empty \/ TimeOut \/ Leave \/ Wait

Next == \/ Arrive \/ Expire
        \/ Open \/ SendLine \/ Call(TRUE) \/ Call(FALSE)
        \/ Loop \/ Return

Spec == Init /\ [][Next]_vars

(* The processor goes on with a call, and time passes.                     *)
FairSpec == Spec /\ WF_vars(Loop \/ Return) /\ WF_vars(Expire)

(***************************************************************************)
(* Properties.                                                             *)
(***************************************************************************)

(* Every variable keeps its type, and the buffer its size.                 *)
TypeOK == /\ {fifo, uart_rx_buf, str, answer, arrived, returned}
               \subseteq Seq(Chars)
          /\ Len(fifo) <= FifoRoom /\ Len(uart_rx_buf) <= BufSize
          /\ {late, eol, sync} \subseteq BOOLEAN
          /\ pc \in {"idle", "loop", "empty", "return"}
          /\ rc \in {UartErrorRxBusy, UartErrorTimeout} \cup 0 .. BufSize

(* Every byte received is returned in a line, is in the line under way or  *)
(* in the FIFO: in the order it came, once, whatever calls time out in     *)
(* between and wherever the buffer is full (uart.c:193-258).               *)
NothingLost == arrived = returned \o uart_rx_buf \o fifo

(* A call that returns a length returns one line of that length: nothing   *)
(* but its last character is an eol, and that one is, unless the buffer is *)
(* full; and the string it copies is a prefix of that line that leaves the *)
(* caller room for the terminator (uart.c:195-239).                        *)
OneLine ==
  pc = "return" /\ rc > 0 =>
    /\ rc = Len(answer)
    /\ \A i \in 1 .. rc - 1 : answer[i] # Eol
    /\ answer[rc] = Eol \/ rc = BufSize
    /\ Len(str) < StrSize
    /\ str = SubSeq(answer, 1, Len(str))

(* A complete line is never kept back for the next call, not even one whose*)
(* end arrives while the call is about to give up (uart.c:242-253).        *)
NoLineKept ==
  pc = "idle" => ~eol /\ \A i \in 1 .. Len(uart_rx_buf) : uart_rx_buf[i] # Eol

(* The result tells what happened: UartErrorRxBusy that the beginning of a*)
(* line is in the buffer, and a synchronous call, as those of              *)
(* obd2_at_command, returns a line or UartErrorTimeout and nothing else    *)
(* (uart.c:239-257, obd2.c:289-304).                                       *)
ResultHonest ==
  pc = "return" => /\ rc = UartErrorRxBusy => uart_rx_buf # << >>
                   /\ sync => rc > 0 \/ rc = UartErrorTimeout

(* Every call returns.                                                     *)
CallReturns == pc = "loop" ~> pc = "idle"
=============================================================================
