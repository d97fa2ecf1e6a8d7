---------------------------- MODULE MCSerialLink ----------------------------
(***************************************************************************)
(* Bytes of eight bits in every format that works, from a transmitter at   *)
(* the rate of the receiver and from one faster by the ratio of the 28     *)
(* clocks that mod_m_counter makes of dvsr = 27 to the 27.13 clocks of     *)
(* 115200 baud: 31 clocks a bit to the receiver's 32.                      *)
(***************************************************************************)
EXTENDS SerialLink

Same == [m |-> 1, os |-> 16, sb |-> 16]
Fast == [m |-> 0, os |-> 31, sb |-> 31]

MCRates == {Same, Fast}

(* All ones, all zeros, alternating and the lowest and highest bit alone.  *)
Corners == { [i \in 0 .. DBIT - 1 |-> 1],
             [i \in 0 .. DBIT - 1 |-> 0],
             [i \in 0 .. DBIT - 1 |-> i % 2],
             [i \in 0 .. DBIT - 1 |-> IF i = 0 THEN 1 ELSE 0],
             [i \in 0 .. DBIT - 1 |-> IF i = DBIT - 1 THEN 1 ELSE 0] }

(* Seven data bits only without parity: see uart_rx.v:32.                  *)
MCFormats == ({DBIT} \X (0 .. 2)) \cup {<< DBIT - 1, 0 >>}
=============================================================================
