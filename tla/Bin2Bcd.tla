------------------------------ MODULE Bin2Bcd ------------------------------
(***************************************************************************)
(* The binary to decimal converter (bin2bcd.v) as blastit_main.v           *)
(* instantiates it: four digits, 14 bits of value and a sign.  A bit of the*)
(* value enters the digits at every clock; a digit above four is adjusted  *)
(* by three before it is doubled.                                          *)
(***************************************************************************)
EXTENDS Integers

BCD_N == 4
Bits  == 13       \* BCD_N * 3 + 1, the width of p2s_reg and the clocks of op.
Width == 8192     \* 2^Bits.

VARIABLES
  state_reg,    \* idle, op or done.
  n_reg,        \* The bits still to come.
  p2s_reg,      \* Those bits, from the top.
  bcd_reg,      \* The digits, the lowest first.
  taken         \* History: the value taken at the last start.

bcd1 == << state_reg, n_reg, p2s_reg, bcd_reg, taken >>

Places == 0 .. BCD_N - 1

(* The value the digits stand for.                                         *)
Value == bcd_reg[0] + 10 * bcd_reg[1] + 100 * bcd_reg[2] + 1000 * bcd_reg[3]

ready == state_reg = "idle"

(* Mutant: five is not adjusted.                                           *)
AdjustedAboveFive(d) == IF d > 5 THEN (d + 3) % 16 ELSE d

(* bcd_tmp, four bits of it.                                               *)
Adjusted(d) == IF d > 4 THEN (d + 3) % 16 ELSE d

(* The bit that enters a digit: the top of p2s_reg or of the digit below.  *)
Carry(i) == IF i = 0 THEN p2s_reg \div (Width \div 2)
                     ELSE Adjusted(bcd_reg[i - 1]) \div 8

(* A negative value is negated; only the low 13 of its 14 bits are taken.  *)
Magnitude(sign, bin) == (IF sign THEN -bin ELSE bin) % Width

Start(sign, bin) ==
  /\ state_reg = "idle" /\ state_reg' = "op"
  /\ bcd_reg' = [i \in Places |-> 0]
  /\ n_reg' = Bits
  /\ p2s_reg' = Magnitude(sign, bin)
  /\ taken' = Magnitude(sign, bin)

Op == /\ state_reg = "op"
      /\ p2s_reg' = (2 * p2s_reg) % Width
      /\ bcd_reg' = [i \in Places |->
                       2 * (Adjusted(bcd_reg[i]) % 8) + Carry(i)]
      /\ n_reg' = n_reg - 1
      /\ state_reg' = IF n_reg = 1 THEN "done" ELSE "op"
      /\ UNCHANGED taken

Done == /\ state_reg = "done" /\ state_reg' = "idle"
        /\ UNCHANGED << n_reg, p2s_reg, bcd_reg, taken >>

Stay == state_reg = "idle" /\ UNCHANGED bcd1

(* A clock edge outside the reset, with the inputs start, sign and bin.    *)
Clock(start, sign, bin) == IF start /\ ready THEN Start(sign, bin)
                                             ELSE Stay \/ Op \/ Done

Reset == /\ state_reg' = "idle"
         /\ n_reg' = 0
         /\ p2s_reg' = 0
         /\ bcd_reg' = [i \in Places |-> 0]
         /\ taken' = 0

Init == /\ state_reg = "idle"
        /\ n_reg = 0
        /\ p2s_reg = 0
        /\ bcd_reg = [i \in Places |-> 0]
        /\ taken = 0

(* The converter with any input at any time.                               *)
Next == \/ Reset
        \/ \E start, sign \in BOOLEAN : \E bin \in 0 .. 2 * Width - 1 :
             Clock(start, sign, bin)

Spec == Init /\ [][Next]_bcd1

(* Every register keeps its range.                                         *)
TypeOK == /\ state_reg \in {"idle", "op", "done"}
          /\ n_reg \in 0 .. Bits
          /\ {p2s_reg, taken} \subseteq 0 .. Width - 1
          /\ bcd_reg \in [Places -> 0 .. 15]

(* Outside a conversion the digits are decimal and stand for the value that*)
(* was taken (bin2bcd.v:75-95, bin2bcd.v:111).                             *)
DigitsExact == state_reg # "op" => /\ Value = taken
                                   /\ \A i \in Places : bcd_reg[i] \in 0 .. 9
=============================================================================
