------------------------------ MODULE FifoQueue ------------------------------
(***************************************************************************)
(* What a FIFO promises its user: a bounded queue.  Words leave in the     *)
(* order they entered, none is lost, none is invented and none is repeated *)
(* as long as the user enqueues only below Capacity and dequeues only what *)
(* is there.  Fifo (fifo.v) is shown to implement this specification.      *)
(***************************************************************************)
EXTENDS Naturals, Sequences

CONSTANTS
  Capacity,   \* The number of words the queue can hold.
  Data        \* The set of words.

VARIABLE q    \* The words in the queue, the oldest first.

Init == q = << >>

(* One word enters.                                                        *)
Enq(d) == /\ Len(q) < Capacity
          /\ q' = Append(q, d)

(* The oldest word leaves.                                                 *)
Deq == /\ q # << >>
       /\ q' = Tail(q)

(* The oldest word leaves and another enters, at any level above zero.     *)
DeqEnq(d) == /\ q # << >>
             /\ q' = Append(Tail(q), d)

Next == \/ \E d \in Data : Enq(d)
        \/ Deq
        \/ \E d \in Data : DeqEnq(d)

Spec == Init /\ [][Next]_q
=============================================================================
