-------------------------------- MODULE Fifo --------------------------------
(***************************************************************************)
(* The synchronous FIFO of the UART (fifo.v).  A step is one clock edge    *)
(* with rd, wr or both raised, or the asynchronous reset; an edge with     *)
(* neither raised changes nothing.                                         *)
(*                                                                         *)
(* The pointers are registers of W bits, so that incrementing one wraps at *)
(* Slots = 2^W.  The comparisons of fifo.v:71 and fifo.v:78 are different: *)
(* the literal 1 is 32 bits wide there, so r_ptr - 1 does not wrap and, at *)
(* r_ptr = 0, equals no value of w_ptr.                                    *)
(***************************************************************************)
EXTENDS Integers, Sequences

CONSTANTS
  Slots,   \* The number of registers in the array, 2^W.
  Data     \* The set of words, those of B bits.

ASSUME FifoAssumption == Slots \in Nat /\ Slots >= 2

VARIABLES
  array_reg,   \* The register array; neither reset nor cleared.
  w_ptr,       \* The slot the next word is written to.
  r_ptr,       \* The slot of the oldest word.
  of,          \* The sticky overflow flag.
  uf           \* The sticky underflow flag.

vars == << array_reg, w_ptr, r_ptr, of, uf >>

Slot == 0 .. Slots - 1

(* Mutant: a pointer one bit too wide does not wrap.                       *)
SuccNoWrap(p) == p + 1

(* The successor of a pointer of W bits.                                   *)
Succ(p) == IF p = Slots - 1 THEN 0 ELSE p + 1

(***************************************************************************)
(* The outputs.                                                            *)
(***************************************************************************)
full   == w_ptr = r_ptr - 1
empty  == w_ptr = r_ptr
r_data == array_reg[r_ptr]

(***************************************************************************)
(* How many words are stored, the slot of the i-th of them and all of them *)
(* in order.  Nothing in the circuit computes these; they are how its user *)
(* reads the pointers.                                                     *)
(***************************************************************************)
Level == IF w_ptr >= r_ptr THEN w_ptr - r_ptr ELSE w_ptr - r_ptr + Slots

Nth(i) == IF r_ptr + i - 1 < Slots THEN r_ptr + i - 1
                                   ELSE r_ptr + i - 1 - Slots

Content == [i \in 1 .. Level |-> array_reg[Nth(i)]]

(***************************************************************************)
(* The clock edges.                                                        *)
(***************************************************************************)
Init == /\ array_reg \in [Slot -> Data]
        /\ w_ptr = 0
        /\ r_ptr = 0
        /\ of = FALSE
        /\ uf = FALSE

(* rd alone: the pointer advances even if there is nothing to read.        *)
Read == /\ uf' = (uf \/ w_ptr = r_ptr)
        /\ r_ptr' = Succ(r_ptr)
        /\ UNCHANGED << array_reg, w_ptr, of >>

(* Mutant: the overflow is reported one word too early.                    *)
WriteAlarmEarly(d) == /\ array_reg' = [array_reg EXCEPT ![w_ptr] = d]
                      /\ of' = (of \/ w_ptr = r_ptr - 2)
                      /\ w_ptr' = Succ(w_ptr)
                      /\ UNCHANGED << r_ptr, uf >>

(* wr alone: the word is stored even if there is no room for it.           *)
Write(d) == /\ array_reg' = [array_reg EXCEPT ![w_ptr] = d]
            /\ of' = (of \/ w_ptr = r_ptr - 1)
            /\ w_ptr' = Succ(w_ptr)
            /\ UNCHANGED << r_ptr, uf >>

(* Mutant: without the case of rd and wr, wr has priority.                 *)
WriteFirst(d) == /\ array_reg' = [array_reg EXCEPT ![w_ptr] = d]
                 /\ w_ptr' = Succ(w_ptr)
                 /\ UNCHANGED << r_ptr, of, uf >>

(* rd and wr at one edge: both pointers advance and no flag is considered. *)
ReadWrite(d) == /\ array_reg' = [array_reg EXCEPT ![w_ptr] = d]
                /\ r_ptr' = Succ(r_ptr)
                /\ w_ptr' = Succ(w_ptr)
                /\ UNCHANGED << of, uf >>

Reset == /\ w_ptr' = 0
         /\ r_ptr' = 0
         /\ of' = FALSE
         /\ uf' = FALSE
         /\ UNCHANGED array_reg

(* A user that raises rd and wr at will.                                   *)
Next == \/ Read
        \/ \E d \in Data : Write(d)
        \/ \E d \in Data : ReadWrite(d)
        \/ Reset

Spec == Init /\ [][Next]_vars

(* A user that keeps to the contract of a queue: it reads only what is     *)
(* there and writes alone only when a slot other than the last is free.    *)
(* Between two resets, each of which brings the FIFO back to Init.         *)
CarefulNext == \/ ~empty /\ Read
               \/ Level < Slots - 1 /\ \E d \in Data : Write(d)
               \/ ~empty /\ \E d \in Data : ReadWrite(d)

CarefulSpec == Init /\ [][CarefulNext]_vars

(***************************************************************************)
(* Properties.                                                             *)
(***************************************************************************)

(* Every register holds a value of its width.                              *)
TypeOK == /\ array_reg \in [Slot -> Data]
          /\ w_ptr \in Slot
          /\ r_ptr \in Slot
          /\ of \in BOOLEAN
          /\ uf \in BOOLEAN

(* A careful user is never told of an overflow or an underflow: the flags  *)
(* at fifo.v:65 and fifo.v:71 raise no false alarm, whatever wraps.        *)
NoFalseAlarm == ~of /\ ~uf

(* A careful user sees a queue of Slots - 1 words: through every wrap of   *)
(* the two pointers the words leave in the order they were written, each   *)
(* once (fifo.v:24-28 and fifo.v:49-82).                                   *)
Queue == INSTANCE FifoQueue WITH Capacity <- Slots - 1, q <- Content

ImplementsQueue == Queue!Spec
=============================================================================
