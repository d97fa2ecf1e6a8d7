---------------------------- MODULE PanelProofs ----------------------------
(***************************************************************************)
(* Proofs about Panel, for bars and digits of any size, any conversions    *)
(* the converter has bits for, any number of passes and any time between   *)
(* two accesses; and about the converter of its own, for any inputs.       *)
(***************************************************************************)
EXTENDS Panel, SequenceTheorems, TLAPS

(***************************************************************************)
(* The converter: its inductive invariant.                                 *)
(***************************************************************************)

Decimal == \A k \in Bcd!Places : bcd_reg[k] \in 0 .. 9

Two(k) == << 1, 2, 4, 8, 16, 32, 64, 128, 256, 512, 1024, 2048, 4096,
             8192 >>[k + 1]

(* n bits are still to come, p is 2^n and q is 2^(13 - n): the digits stand*)
(* for the bits that have come, p2s_reg holds the others at its top.       *)
At(n, p, q) == /\ n_reg = n
               /\ \E low \in 0 .. p - 1 : /\ taken = Bcd!Value * p + low
                                          /\ p2s_reg = low * q

Shifting == \E n \in 1 .. 13 : At(n, Two(n), Two(13 - n))

BcdInv == /\ Bcd!TypeOK
          /\ Decimal
          /\ IF state_reg = "op" THEN Shifting ELSE Bcd!Value = taken

(***************************************************************************)
(* One shift.                                                              *)
(***************************************************************************)

(* Adjusted and doubled, a digit and its carry are twice the digit.        *)
LEMMA Doubled ==
  ASSUME NEW d \in 0 .. 9
  PROVE  /\ Bcd!Adjusted(d) \in 0 .. 12
         /\ 2 * (Bcd!Adjusted(d) % 8) + 10 * (Bcd!Adjusted(d) \div 8) = 2 * d
         /\ Bcd!Adjusted(d) % 8 \in 0 .. 4
         /\ Bcd!Adjusted(d) \div 8 \in {0, 1}
         /\ d <= 4 => Bcd!Adjusted(d) \div 8 = 0
<1>1. CASE d <= 4
  BY <1>1 DEF Bcd!Adjusted
<1>2. CASE d > 4
  <2>1. Bcd!Adjusted(d) = d + 3
    BY <1>2 DEF Bcd!Adjusted
  <2> QED
    BY <2>1, <1>2
<1> QED
  BY <1>1, <1>2

(* As long as the digits leave room, a shift doubles their value and adds  *)
(* the bit that comes.                                                     *)
LEMMA ShiftDoubles ==
  ASSUME Bcd!TypeOK, Decimal, Bcd!Op, Bcd!Value <= 4095
  PROVE  /\ Decimal'
         /\ Bcd!Value' = 2 * Bcd!Value + p2s_reg \div 4096
         /\ p2s_reg \div 4096 \in {0, 1}
<1> DEFINE e(k) == Bcd!Adjusted(bcd_reg[k]) % 8
           c(k) == Bcd!Adjusted(bcd_reg[k]) \div 8
           bit  == p2s_reg \div 4096
<1>0. /\ 0 \in Bcd!Places /\ 1 \in Bcd!Places
      /\ 2 \in Bcd!Places /\ 3 \in Bcd!Places
      /\ \A k \in Bcd!Places : bcd_reg[k] \in 0 .. 9
  BY DEF Decimal, Bcd!Places, Bcd!BCD_N
<1>1. /\ bcd_reg[0] \in 0 .. 9 /\ bcd_reg[1] \in 0 .. 9
      /\ bcd_reg[2] \in 0 .. 9 /\ bcd_reg[3] \in 0 .. 9
  BY <1>0
<1>2. bit \in {0, 1}
  <2>1. p2s_reg \in 0 .. 8191
    BY DEF Bcd!TypeOK, Bcd!Width
  <2> QED
    BY <2>1
<1>3. /\ bcd_reg'[0] = 2 * e(0) + bit  /\ bcd_reg'[1] = 2 * e(1) + c(0)
      /\ bcd_reg'[2] = 2 * e(2) + c(1) /\ bcd_reg'[3] = 2 * e(3) + c(2)
  BY DEF Bcd!Op, Bcd!Carry, Bcd!Places, Bcd!BCD_N, Bcd!Width
<1>4. \A k \in Bcd!Places : /\ 2 * e(k) + 10 * c(k) = 2 * bcd_reg[k]
                         /\ e(k) \in 0 .. 4
                         /\ c(k) \in {0, 1}
  BY <1>0, Doubled
<1>5. bcd_reg[3] <= 4
  <2> DEFINE d(k) == bcd_reg[k]
  <2>1. d(0) \in Nat /\ d(1) \in Nat /\ d(2) \in Nat /\ d(3) \in Nat
    BY <1>1
  <2>2. d(0) + 10 * d(1) + 100 * d(2) + 1000 * d(3) <= 4095
    BY DEF Bcd!Value
  <2>3. d(3) <= 4
    <3> HIDE DEF d
    <3> QED
      BY <2>1, <2>2
  <2> QED
    BY <2>3
<1>6. c(3) = 0
  BY <1>1, <1>5, Doubled
<1> HIDE DEF e, c, bit
<1>7. Decimal'
  <2>1. /\ bcd_reg'[0] \in 0 .. 9 /\ bcd_reg'[1] \in 0 .. 9
        /\ bcd_reg'[2] \in 0 .. 9 /\ bcd_reg'[3] \in 0 .. 9
    BY <1>2, <1>3, <1>4 DEF Bcd!Places, Bcd!BCD_N
  <2> QED
    BY <2>1 DEF Decimal, Bcd!Places, Bcd!BCD_N
<1>8. Bcd!Value' = 2 * Bcd!Value + bit
  <2> DEFINE d(k) == bcd_reg[k]
             n(k) == bcd_reg'[k]
  <2>1. /\ e(0) \in Int /\ e(1) \in Int /\ e(2) \in Int /\ e(3) \in Int
        /\ c(0) \in Int /\ c(1) \in Int /\ c(2) \in Int /\ bit \in Int
        /\ d(0) \in Int /\ d(1) \in Int /\ d(2) \in Int /\ d(3) \in Int
    BY <1>0, <1>1, <1>2, <1>4
  <2>2. /\ 2 * e(0) + 10 * c(0) = 2 * d(0)
        /\ 2 * e(1) + 10 * c(1) = 2 * d(1)
        /\ 2 * e(2) + 10 * c(2) = 2 * d(2)
        /\ 2 * e(3) = 2 * d(3)
    BY <1>0, <1>1, <1>4, <1>6, <2>1
  <2>3. /\ n(0) = 2 * e(0) + bit  /\ n(1) = 2 * e(1) + c(0)
        /\ n(2) = 2 * e(2) + c(1) /\ n(3) = 2 * e(3) + c(2)
    BY <1>3
  <2>4. Bcd!Value' = n(0) + 10 * n(1) + 100 * n(2) + 1000 * n(3)
    BY DEF Bcd!Value
  <2>5. Bcd!Value = d(0) + 10 * d(1) + 100 * d(2) + 1000 * d(3)
    BY DEF Bcd!Value
  <2> HIDE DEF d, n
  <2> QED
    BY <2>1, <2>2, <2>3, <2>4, <2>5
<1> QED
  BY <1>2, <1>7, <1>8 DEF bit

(* What is left of the bits when the highest of them has gone.             *)
Split(r, q) ==
  \A low \in 0 .. 2 * r - 1 :
    LET bit == (low * q) \div 4096
    IN /\ low - bit * r \in 0 .. r - 1
       /\ (2 * (low * q)) % 8192 = (low - bit * r) * (2 * q)

(* The powers of a shift, and the bit that leaves the register.            *)
LEMMA Splits ==
  ASSUME NEW n \in 1 .. 13
  PROVE  /\ Two(n - 1) \in Nat \ {0} /\ Two(13 - n) \in Nat
         /\ Two(n) = 2 * Two(n - 1)
         /\ Two(13 - (n - 1)) = 2 * Two(13 - n)
         /\ Split(Two(n - 1), Two(13 - n))
<1>1. CASE n = 1
  BY <1>1 DEF Split, Two
<1>2. CASE n = 2
  BY <1>2 DEF Split, Two
<1>3. CASE n = 3
  BY <1>3 DEF Split, Two
<1>4. CASE n = 4
  BY <1>4 DEF Split, Two
<1>5. CASE n = 5
  BY <1>5 DEF Split, Two
<1>6. CASE n = 6
  BY <1>6 DEF Split, Two
<1>7. CASE n = 7
  BY <1>7 DEF Split, Two
<1>8. CASE n = 8
  BY <1>8 DEF Split, Two
<1>9. CASE n = 9
  BY <1>9 DEF Split, Two
<1>10. CASE n = 10
  BY <1>10 DEF Split, Two
<1>11. CASE n = 11
  BY <1>11 DEF Split, Two
<1>12. CASE n = 12
  BY <1>12 DEF Split, Two
<1>13. CASE n = 13
  BY <1>13 DEF Split, Two
<1> QED
  BY <1>1, <1>2, <1>3, <1>4, <1>5, <1>6, <1>7, <1>8,
     <1>9, <1>10, <1>11, <1>12, <1>13

(* A clock of the conversion.                                              *)
LEMMA ShiftStep ==
  ASSUME Bcd!TypeOK, Decimal, Bcd!Op,
         NEW n, NEW r \in Nat \ {0}, NEW q \in Nat,
         Split(r, q), At(n, 2 * r, q)
  PROVE  /\ Decimal'
         /\ At(n - 1, r, 2 * q)'
<1>1. PICK low \in 0 .. 2 * r - 1 : /\ taken = Bcd!Value * (2 * r) + low
                                    /\ p2s_reg = low * q
  BY DEF At
<1> DEFINE bit == (low * q) \div 4096
           v == Bcd!Value
           w == Bcd!Value'
<1>2. /\ v \in Nat /\ taken \in 0 .. 8191 /\ low \in Nat
  <2>1. /\ bcd_reg[0] \in Nat /\ bcd_reg[1] \in Nat
        /\ bcd_reg[2] \in Nat /\ bcd_reg[3] \in Nat
    BY DEF Decimal, Bcd!Places, Bcd!BCD_N
  <2> QED
    BY <2>1 DEF Bcd!Value, Bcd!TypeOK, Bcd!Width
<1>3. v <= 4095
  <2>1. PICK u \in Nat : u = v
    BY <1>2
  <2>2. PICK x \in Nat : x = u * r
    OBVIOUS
  <2>3. u <= x
    BY <2>2
  <2>4. taken = 2 * x + low
    BY <1>1, <1>2, <2>1, <2>2
  <2>5. PICK t \in 0 .. 8191 : t = taken
    BY <1>2
  <2>6. 2 * x <= 8191
    BY <1>2, <2>4, <2>5
  <2>7. u <= 4095
    BY <2>3, <2>6
  <2> QED
    BY <2>1, <2>7
<1>4. /\ Decimal'
      /\ w = 2 * v + bit
      /\ bit \in {0, 1}
  BY <1>1, <1>3, ShiftDoubles
<1>5. /\ low - bit * r \in 0 .. r - 1
      /\ p2s_reg' = (low - bit * r) * (2 * q)
  BY <1>1 DEF Split, Bcd!Op, Bcd!Width
<1>6. n_reg' = n - 1
  BY DEF At, Bcd!Op
<1>7. taken' = w * r + (low - bit * r)
  <2>1. taken' = v * (2 * r) + low
    BY <1>1 DEF Bcd!Op
  <2>2. w = 2 * v + bit /\ v \in Nat /\ bit \in {0, 1} /\ low \in Nat
    BY <1>2, <1>4
  <2> HIDE DEF v, w, bit
  <2> QED
    BY <2>1, <2>2
<1> QED
  BY <1>4, <1>5, <1>6, <1>7 DEF At

(***************************************************************************)
(* The invariant.                                                          *)
(***************************************************************************)
LEMMA BcdInitInv == Bcd!Init => BcdInv
<1> SUFFICES ASSUME Bcd!Init PROVE BcdInv
  OBVIOUS
<1>1. \A k \in Bcd!Places : bcd_reg[k] = 0
  BY DEF Bcd!Init
<1>2. Bcd!Value = 0
  BY <1>1 DEF Bcd!Value, Bcd!Places, Bcd!BCD_N
<1> QED
  BY <1>1, <1>2 DEF Bcd!Init, BcdInv, Bcd!TypeOK, Decimal, Bcd!Bits, Bcd!Width

(* While the bits come.                                                    *)
LEMMA ShiftingNext ==
  ASSUME BcdInv, Bcd!Op
  PROVE  BcdInv'
<1>1. Bcd!TypeOK /\ Decimal /\ Shifting
  BY DEF BcdInv, Bcd!Op
<1>2. PICK n \in 1 .. 13 : At(n, Two(n), Two(13 - n))
  BY <1>1 DEF Shifting
<1>3. Decimal' /\ At(n - 1, Two(n - 1), Two(13 - (n - 1)))'
  BY <1>1, <1>2, Splits, ShiftStep
<1>4. n_reg = n
  BY <1>2 DEF At
<1>5. Bcd!TypeOK'
  <2>1. bcd_reg' \in [Bcd!Places -> 0 .. 15]
    BY <1>3 DEF Decimal, Bcd!Op
  <2>2. p2s_reg' \in 0 .. 8191
    <3>1. p2s_reg \in 0 .. Bcd!Width - 1
      BY <1>1 DEF Bcd!TypeOK
    <3> QED
      BY <3>1 DEF Bcd!Op, Bcd!Width
  <2> QED
    <3>1. taken' \in 0 .. 8191 /\ n_reg' \in 0 .. 13
      BY <1>1, <1>4 DEF Bcd!TypeOK, Bcd!Op, Bcd!Width
    <3>2. state_reg' \in {"idle", "op", "done"}
      BY DEF Bcd!Op
    <3> QED
      BY <2>1, <2>2, <3>1, <3>2 DEF Bcd!TypeOK, Bcd!Bits, Bcd!Width
<1>6. CASE n = 1
  <2>1. PICK low \in 0 .. Two(0) - 1 : taken' = Bcd!Value' * Two(0) + low
    BY <1>3, <1>6 DEF At
  <2>2. Bcd!Value' \in Int
    <3>1. /\ bcd_reg'[0] \in Int /\ bcd_reg'[1] \in Int
          /\ bcd_reg'[2] \in Int /\ bcd_reg'[3] \in Int
      BY <1>3 DEF Decimal, Bcd!Places, Bcd!BCD_N
    <3> QED
      BY <3>1 DEF Bcd!Value
  <2>3. Two(0) = 1
    BY DEF Two
  <2>4. Bcd!Value' = taken'
    BY <2>1, <2>2, <2>3
  <2>5. state_reg' = "done"
    BY <1>4, <1>6 DEF Bcd!Op
  <2> QED
    BY <1>3, <1>5, <2>4, <2>5 DEF BcdInv
<1>7. CASE n # 1
  <2>1. state_reg' = "op"
    BY <1>4, <1>7 DEF Bcd!Op
  <2>2. Shifting'
    BY <1>3, <1>7 DEF Shifting
  <2> QED
    BY <1>3, <1>5, <2>1, <2>2 DEF BcdInv
<1> QED
  BY <1>6, <1>7

(* A start.                                                                *)
LEMMA BcdStartInv ==
  ASSUME BcdInv, NEW sign \in BOOLEAN, NEW bin \in 0 .. 2 * Bcd!Width - 1,
         Bcd!Start(sign, bin)
  PROVE  BcdInv'
<1>1. taken' \in 0 .. 8191 /\ p2s_reg' = taken'
  BY DEF Bcd!Start, Bcd!Magnitude, Bcd!Width
<1>2. /\ bcd_reg'[0] = 0 /\ bcd_reg'[1] = 0
      /\ bcd_reg'[2] = 0 /\ bcd_reg'[3] = 0
  BY DEF Bcd!Start, Bcd!Places, Bcd!BCD_N
<1>3. Bcd!Value' = 0
  BY <1>2 DEF Bcd!Value
<1>4. At(13, Two(13), Two(0))'
  <2>1. n_reg' = 13
    BY DEF Bcd!Start, Bcd!Bits
  <2>2. \E low \in 0 .. 8192 - 1 : /\ taken' = 0 * 8192 + low
                                  /\ p2s_reg' = low * 1
    BY <1>1
  <2> QED
    BY <1>3, <2>1, <2>2 DEF At, Two
<1>5. Shifting'
  BY <1>4 DEF Shifting
<1>6. bcd_reg' \in [Bcd!Places -> 0 .. 15] /\ Decimal'
  BY DEF Bcd!Start, Decimal
<1>7. Bcd!TypeOK'
  <2>1. state_reg' = "op" /\ n_reg' = 13
    BY DEF Bcd!Start, Bcd!Bits
  <2>2. {p2s_reg', taken'} \subseteq 0 .. 8191
    BY <1>1
  <2> QED
    BY <1>6, <2>1, <2>2 DEF Bcd!TypeOK, Bcd!Bits, Bcd!Width
<1> QED
  BY <1>5, <1>6, <1>7 DEF BcdInv, Bcd!Start

(* Every clock of the converter keeps its invariant.                       *)
LEMMA BcdNextInv == BcdInv /\ [Bcd!Next]_(Bcd!bcd1) => BcdInv'
<1> SUFFICES ASSUME BcdInv, [Bcd!Next]_(Bcd!bcd1) PROVE BcdInv'
  OBVIOUS
<1>1. CASE Bcd!Reset
  <2>1. Bcd!Value' = 0
    BY <1>1 DEF Bcd!Reset, Bcd!Value, Bcd!Places, Bcd!BCD_N
  <2> QED
    BY <1>1, <2>1 DEF Bcd!Reset, BcdInv, Bcd!TypeOK, Decimal, Bcd!Bits,
                      Bcd!Width
<1>2. ASSUME NEW sign \in BOOLEAN, NEW bin \in 0 .. 2 * Bcd!Width - 1,
             Bcd!Start(sign, bin)
      PROVE  BcdInv'
  BY <1>2, BcdStartInv
<1>3. CASE Bcd!Op
  BY <1>3, ShiftingNext
<1>4. CASE Bcd!Done
  BY <1>4 DEF Bcd!Done, BcdInv, Bcd!TypeOK, Decimal, Bcd!Value
<1>5. CASE UNCHANGED Bcd!bcd1
  BY <1>5 DEF Bcd!bcd1, BcdInv, Bcd!TypeOK, Decimal, Shifting, At, Bcd!Value
<1> QED
  BY <1>1, <1>2, <1>3, <1>4, <1>5 DEF Bcd!Next, Bcd!Clock, Bcd!Stay

(* Outside a conversion the digits stand for what was taken.               *)
LEMMA BcdInvExact == BcdInv => Bcd!DigitsExact
BY DEF BcdInv, Bcd!DigitsExact, Decimal

(* The converter of its own.                                               *)
LEMMA BcdSpecInv == Bcd!Spec => []BcdInv
  BY BcdInitInv, BcdNextInv, PTL DEF Bcd!Spec

(***************************************************************************)
(* The theorems about the converter of its own.                            *)
(***************************************************************************)

(* The registers keep their ranges (bin2bcd.v:30-46).                      *)
THEOREM BcdTypeCorrect == Bcd!Spec => []Bcd!TypeOK
<1>1. BcdInv => Bcd!TypeOK
  BY DEF BcdInv
<1> QED
  BY <1>1, BcdSpecInv, PTL

(* Between conversions the digits are decimal and stand for the value that *)
(* was taken, for every value and sign at every start (bin2bcd.v:59-111).  *)
THEOREM Exact == Bcd!Spec => []Bcd!DigitsExact
BY BcdInvExact, BcdSpecInv, PTL

(***************************************************************************)
(* Sequences, by their places.                                             *)
(***************************************************************************)
LEMMA TailAt ==
  ASSUME NEW S, NEW s \in Seq(S), s # << >>
  PROVE  /\ Len(s) \in Nat \ {0} /\ Head(s) = s[1] /\ s[1] \in S
         /\ Tail(s) \in Seq(S) /\ Len(Tail(s)) = Len(s) - 1
         /\ \A m \in 1 .. Len(s) - 1 : Tail(s)[m] = s[m + 1]
<1>1. Len(s) \in Nat \ {0}
  BY EmptySeq
<1> QED
  BY <1>1, HeadTailProperties

(* The places of a concatenation.                                          *)
LEMMA ConcatAt ==
  ASSUME NEW S, NEW s \in Seq(S), NEW t \in Seq(S)
  PROVE  /\ Len(s) \in Nat /\ Len(t) \in Nat
         /\ s \o t \in Seq(S) /\ Len(s \o t) = Len(s) + Len(t)
         /\ \A m \in 1 .. Len(s) : (s \o t)[m] = s[m]
         /\ \A m \in 1 .. Len(t) : (s \o t)[Len(s) + m] = t[m]
BY ConcatProperties

(* A place in a concatenation is a place in one of the two.                *)
LEMMA PlaceInConcat ==
  ASSUME NEW S, NEW s \in Seq(S), NEW t \in Seq(S),
         NEW m \in 1 .. Len(s \o t)
  PROVE  \/ m \in 1 .. Len(s) /\ (s \o t)[m] = s[m]
         \/ \E k \in 1 .. Len(t) : /\ m = Len(s) + k
                                   /\ (s \o t)[m] = t[k]
<1>1. CASE m <= Len(s)
  BY <1>1, ConcatAt
<1>2. CASE ~(m <= Len(s))
  <2>1. PICK k \in 1 .. Len(t) : m = Len(s) + k
    <3>1. m - Len(s) \in 1 .. Len(t) /\ m = Len(s) + (m - Len(s))
      BY <1>2, ConcatAt
    <3> QED
      BY <3>1
  <2>2. (s \o t)[Len(s) + k] = t[k]
    BY ConcatAt
  <2> QED
    BY <2>1, <2>2
<1> QED
  BY <1>1, <1>2

(* The places of n blocks of len accesses each.                            *)
Sizes == {2, 4, 6}

(* Place r of block b, and back.                                           *)
LEMMA BlockPlace ==
  ASSUME NEW n \in Nat, NEW len \in Sizes,
         NEW b \in 0 .. n - 1, NEW r \in 1 .. len,
         NEW x, x = b * len + r
  PROVE  x \in 1 .. n * len /\ (x - 1) \div len = b /\ ((x - 1) % len) + 1 = r
<1>1. CASE len = 2
  BY <1>1
<1>2. CASE len = 4
  BY <1>2
<1>3. CASE len = 6
  BY <1>3
<1> QED
  BY <1>1, <1>2, <1>3 DEF Sizes

(* Every place is in a block.                                              *)
LEMMA BlockOf ==
  ASSUME NEW n \in Nat, NEW len \in Sizes, NEW j \in 1 .. n * len
  PROVE  \E b \in 0 .. n - 1, r \in 1 .. len : j = b * len + r
<1> DEFINE b == (j - 1) \div len
           r == ((j - 1) % len) + 1
<1>1. b \in 0 .. n - 1 /\ r \in 1 .. len /\ j = b * len + r
  <2>1. CASE len = 2
    BY <2>1
  <2>2. CASE len = 4
    BY <2>2
  <2>3. CASE len = 6
    BY <2>3
  <2> QED
    BY <2>1, <2>2, <2>3 DEF Sizes
<1> QED
  BY <1>1

OfSize(s, n, len, S) ==
  \A b \in 0 .. n - 1 : s[b] \in Seq(S) /\ Len(s[b]) = len

(* The place r of the block b of t is that of s[b], and t has no others.   *)
Laid(t, s, n, len) ==
  /\ \A b \in 0 .. n - 1, r \in 1 .. len :
       b * len + r \in 1 .. Len(t) /\ t[b * len + r] = s[b][r]
  /\ \A j \in 1 .. Len(t) :
       \E b \in 0 .. n - 1, r \in 1 .. len :
         j = b * len + r /\ t[j] = s[b][r]

(* Blocks lays its sequences one after the other.                          *)
LEMMA BlocksAt ==
  ASSUME NEW S, NEW n \in Nat, NEW len \in Sizes, NEW s,
         OfSize(s, n, len, S),
         NEW t, t = Blocks(s, n, len)
  PROVE  t \in Seq(S) /\ Laid(t, s, n, len)
<1>1. t = [j \in 1 .. n * len |->
             s[(j - 1) \div len][((j - 1) % len) + 1]]
  BY DEF Blocks
<1>2. ASSUME NEW b \in 0 .. n - 1, NEW r \in 1 .. len
      PROVE  /\ b * len + r \in 1 .. n * len
             /\ t[b * len + r] = s[b][r]
  <2>1. PICK x : x = b * len + r
    OBVIOUS
  <2>2. /\ x \in 1 .. n * len
        /\ (x - 1) \div len = b /\ ((x - 1) % len) + 1 = r
    BY <2>1, BlockPlace
  <2>3. t[x] = s[(x - 1) \div len][((x - 1) % len) + 1]
    BY <1>1, <2>2, Zenon
  <2>4. t[x] = s[b][r]
    BY <2>2, <2>3, Zenon
  <2> QED
    BY <2>1, <2>2, <2>4, Zenon
<1>3. ASSUME NEW j \in 1 .. n * len
      PROVE  \E b \in 0 .. n - 1, r \in 1 .. len :
               j = b * len + r /\ t[j] = s[b][r]
  <2>1. PICK b \in 0 .. n - 1, r \in 1 .. len : j = b * len + r
    BY BlockOf, Zenon
  <2>2. t[b * len + r] = s[b][r]
    BY <1>2
  <2>3. t[j] = s[b][r]
    BY <2>1, <2>2
  <2> QED
    BY <2>1, <2>3
<1>4. \A b \in 0 .. n - 1, r \in 1 .. len : s[b][r] \in S
  BY DEF OfSize
<1>5. \A j \in 1 .. n * len : t[j] \in S
  BY <1>3, <1>4
<1>6. n * len \in Nat
  BY DEF Sizes
<1>7. t \in Seq(S) /\ Len(t) = n * len
  <2>1. t \in [1 .. n * len -> S]
    BY <1>1, <1>5
  <2> QED
    BY <1>6, <2>1
<1>8. /\ \A b \in 0 .. n - 1, r \in 1 .. len :
           b * len + r \in 1 .. Len(t) /\ t[b * len + r] = s[b][r]
      /\ \A j \in 1 .. Len(t) :
           \E b \in 0 .. n - 1, r \in 1 .. len :
             j = b * len + r /\ t[j] = s[b][r]
  BY <1>2, <1>3, <1>7, Zenon
<1> QED
  BY <1>7, <1>8, Zenon DEF Laid

(***************************************************************************)
(* What every program of the firmware keeps to.                            *)
(***************************************************************************)

(* The registers of which an access is followed by the one that takes it   *)
(* back, and what that writes.                                             *)
Off == [bcd_start |-> FALSE, bcd_reset |-> FALSE,
        leds1_wr_val |-> LedsOff, leds2_wr_val |-> LedsOff,
        sseg_wr_val |-> SsegOff]

Pulsed(s) == \A n \in DOMAIN Off : \A m \in 1 .. Len(s) :
               s[m][1] = n /\ s[m][2] # Off[n] =>
                 m + 1 \in 1 .. Len(s) /\ s[m + 1] = << n, Off[n] >>

(* The accesses before the converter is read for v, from the last to the   *)
(* first.                                                                  *)
Before(d, v) == << << "await", 0 >>, << "bcd_start", FALSE >>,
                   << "bcd_start", TRUE >>, << "bcd_bin", v >>,
                   << "await", 0 >> >>[d]

(* As far as they are still to come.                                       *)
Converts(s) == \A j \in 1 .. Len(s) : s[j][1] = "bcd" =>
                 \A d \in 1 .. 5 : d < j => s[j - d] = Before(d, s[j][2])

Whole(s) == \A j \in 1 .. Len(s) : s[j][1] = "bcd" =>
              j > 5 /\ \A d \in 1 .. 5 : s[j - d] = Before(d, s[j][2])

(* What is left of a program, and a whole one.                             *)
Left(s)    == s \in Seq(Accesses) /\ Pulsed(s) /\ Converts(s)
Program(s) == s \in Seq(Accesses) /\ Pulsed(s) /\ Whole(s)

(* A whole program may be what is left of one.                             *)
LEMMA ProgramIsLeft == ASSUME NEW s, Program(s) PROVE Left(s)
BY DEF Program, Left, Whole, Converts

(* What is left after an access.                                           *)
LEMMA LeftTail ==
  ASSUME NEW s, Left(s), s # << >>
  PROVE  Left(Tail(s))
<1> DEFINE t == Tail(s)
<1>1. /\ s \in Seq(Accesses) /\ t \in Seq(Accesses)
      /\ Len(s) \in Nat \ {0} /\ Len(t) = Len(s) - 1
      /\ \A m \in 1 .. Len(s) - 1 : t[m] = s[m + 1]
  BY TailAt DEF Left
<1> HIDE DEF t
<1>2. ASSUME NEW n \in DOMAIN Off, NEW m \in 1 .. Len(t),
             t[m][1] = n /\ t[m][2] # Off[n]
      PROVE  m + 1 \in 1 .. Len(t) /\ t[m + 1] = << n, Off[n] >>
  <2>1. m + 1 \in 1 .. Len(s) /\ t[m] = s[m + 1] /\ m \in Nat
    BY <1>1
  <2>2. m + 2 \in 1 .. Len(s) /\ s[m + 2] = << n, Off[n] >>
    BY <1>2, <2>1 DEF Left, Pulsed
  <2>3. m + 1 \in 1 .. Len(s) - 1
    BY <1>1, <2>1, <2>2
  <2>4. t[m + 1] = s[m + 2]
    BY <1>1, <2>3
  <2> QED
    BY <1>1, <2>2, <2>3, <2>4
<1>3. ASSUME NEW j \in 1 .. Len(t), t[j][1] = "bcd",
             NEW d \in 1 .. 5, d < j
      PROVE  t[j - d] = Before(d, t[j][2])
  <2>1. j + 1 \in 1 .. Len(s) /\ t[j] = s[j + 1] /\ j \in Nat
    BY <1>1
  <2>2. s[(j + 1) - d] = Before(d, s[j + 1][2])
    BY <1>3, <2>1 DEF Left, Converts
  <2>3. j - d \in 1 .. Len(s) - 1 /\ (j - d) + 1 = (j + 1) - d
    BY <1>1, <1>3
  <2>4. t[j - d] = s[(j + 1) - d]
    BY <1>1, <2>3
  <2> QED
    BY <2>1, <2>2, <2>4
<1>4. Pulsed(t)
  BY <1>2 DEF Pulsed
<1>5. Converts(t)
  BY <1>3 DEF Converts
<1> QED
  BY <1>1, <1>4, <1>5 DEF Left, t

(* Two programs in a row are one.                                          *)
LEMMA ProgramConcat ==
  ASSUME NEW s, NEW t, Program(s), Program(t)
  PROVE  Program(s \o t)
<1> DEFINE u == s \o t
<1>0. s \in Seq(Accesses) /\ t \in Seq(Accesses)
  BY DEF Program
<1>1. /\ Len(s) \in Nat /\ Len(t) \in Nat
      /\ u \in Seq(Accesses) /\ Len(u) = Len(s) + Len(t)
      /\ \A m \in 1 .. Len(s) : u[m] = s[m]
      /\ \A m \in 1 .. Len(t) : u[Len(s) + m] = t[m]
  BY <1>0, ConcatAt
<1>2. \A m \in 1 .. Len(u) :
        \/ m \in 1 .. Len(s) /\ u[m] = s[m]
        \/ \E k \in 1 .. Len(t) : m = Len(s) + k /\ u[m] = t[k]
  BY <1>0, PlaceInConcat
<1> HIDE DEF u
<1>3. ASSUME NEW n \in DOMAIN Off, NEW m \in 1 .. Len(u),
             u[m][1] = n /\ u[m][2] # Off[n]
      PROVE  m + 1 \in 1 .. Len(u) /\ u[m + 1] = << n, Off[n] >>
  <2>1. CASE m \in 1 .. Len(s) /\ u[m] = s[m]
    <3>1. m + 1 \in 1 .. Len(s) /\ s[m + 1] = << n, Off[n] >>
      BY <1>3, <2>1 DEF Program, Pulsed
    <3> QED
      BY <1>1, <3>1
  <2>2. ASSUME NEW k \in 1 .. Len(t), m = Len(s) + k, u[m] = t[k]
        PROVE  m + 1 \in 1 .. Len(u) /\ u[m + 1] = << n, Off[n] >>
    <3>1. k + 1 \in 1 .. Len(t) /\ t[k + 1] = << n, Off[n] >>
      BY <1>3, <2>2 DEF Program, Pulsed
    <3>2. m + 1 = Len(s) + (k + 1) /\ m + 1 \in 1 .. Len(u)
      BY <1>1, <2>2, <3>1
    <3> QED
      BY <1>1, <3>1, <3>2
  <2> QED
    BY <1>2, <2>1, <2>2
<1>4. ASSUME NEW j \in 1 .. Len(u), u[j][1] = "bcd"
      PROVE  j > 5 /\ \A d \in 1 .. 5 : u[j - d] = Before(d, u[j][2])
  <2>1. CASE j \in 1 .. Len(s) /\ u[j] = s[j]
    <3>1. j > 5 /\ \A d \in 1 .. 5 : s[j - d] = Before(d, s[j][2])
      BY <1>4, <2>1 DEF Program, Whole
    <3>2. ASSUME NEW d \in 1 .. 5 PROVE u[j - d] = Before(d, u[j][2])
      <4>1. j > 5
        BY <3>1
      <4>2. j - d \in 1 .. Len(s)
        BY <1>1, <2>1, <4>1
      <4> QED
        BY <1>1, <2>1, <3>1, <4>2
    <3> QED
      BY <3>1, <3>2
  <2>2. ASSUME NEW k \in 1 .. Len(t), j = Len(s) + k, u[j] = t[k]
        PROVE  j > 5 /\ \A d \in 1 .. 5 : u[j - d] = Before(d, u[j][2])
    <3>1. k > 5 /\ \A d \in 1 .. 5 : t[k - d] = Before(d, t[k][2])
      BY <1>4, <2>2 DEF Program, Whole
    <3>2. ASSUME NEW d \in 1 .. 5 PROVE u[j - d] = Before(d, u[j][2])
      <4>1. k > 5
        BY <3>1
      <4>2. k - d \in 1 .. Len(t) /\ j - d = Len(s) + (k - d)
        BY <1>1, <2>2, <4>1
      <4>3. u[j - d] = t[k - d]
        BY <1>1, <4>2
      <4> QED
        BY <2>2, <3>1, <4>3
    <3>3. j > 5
      <4>1. k > 5
        BY <3>1
      <4> QED
        BY <1>1, <2>2, <4>1
    <3> QED
      BY <3>2, <3>3
  <2> QED
    BY <1>2, <2>1, <2>2
<1>5. Pulsed(u)
  BY <1>3 DEF Pulsed
<1>6. Whole(u)
  BY <1>4 DEF Whole
<1> QED
  BY <1>1, <1>5, <1>6 DEF Program, u

(* So are any number of them.                                              *)
LEMMA ProgramBlocks ==
  ASSUME NEW n \in Nat, NEW len \in Sizes, NEW s,
         \A b \in 0 .. n - 1 : Program(s[b]) /\ Len(s[b]) = len
  PROVE  Program(Blocks(s, n, len))
<1> DEFINE u == Blocks(s, n, len)
<1>u. u = Blocks(s, n, len)
  OBVIOUS
<1> HIDE DEF u
<1>0. OfSize(s, n, len, Accesses)
  BY DEF OfSize, Program
<1>1. u \in Seq(Accesses) /\ Laid(u, s, n, len)
  BY <1>0, <1>u, BlocksAt
<1>2. ASSUME NEW k \in DOMAIN Off, NEW m \in 1 .. Len(u),
             u[m][1] = k /\ u[m][2] # Off[k]
      PROVE  m + 1 \in 1 .. Len(u) /\ u[m + 1] = << k, Off[k] >>
  <2>1. PICK b \in 0 .. n - 1, r \in 1 .. len :
          m = b * len + r /\ u[m] = s[b][r]
    BY <1>1 DEF Laid
  <2>2. r + 1 \in 1 .. len /\ s[b][r + 1] = << k, Off[k] >>
    <3>1. Pulsed(s[b]) /\ Len(s[b]) = len
      BY DEF Program
    <3> QED
      BY <1>2, <2>1, <3>1 DEF Pulsed
  <2>3. /\ b * len + (r + 1) \in 1 .. Len(u)
        /\ u[b * len + (r + 1)] = s[b][r + 1]
    BY <1>1, <2>2 DEF Laid
  <2>4. m + 1 = b * len + (r + 1)
    BY <2>1 DEF Sizes
  <2> QED
    BY <2>2, <2>3, <2>4
<1>3. ASSUME NEW j \in 1 .. Len(u), u[j][1] = "bcd"
      PROVE  j > 5 /\ \A d \in 1 .. 5 : u[j - d] = Before(d, u[j][2])
  <2>1. PICK b \in 0 .. n - 1, r \in 1 .. len :
          j = b * len + r /\ u[j] = s[b][r]
    BY <1>1 DEF Laid
  <2>2. r > 5 /\ \A d \in 1 .. 5 : s[b][r - d] = Before(d, s[b][r][2])
    <3>1. Whole(s[b]) /\ Len(s[b]) = len
      BY DEF Program
    <3> QED
      BY <1>3, <2>1, <3>1 DEF Whole
  <2>3. ASSUME NEW d \in 1 .. 5
        PROVE  u[j - d] = Before(d, u[j][2])
    <3>1. r - d \in 1 .. len
      BY <2>2
    <3>2. u[b * len + (r - d)] = s[b][r - d]
      BY <1>1, <3>1 DEF Laid
    <3>3. j - d = b * len + (r - d)
      BY <2>1
    <3> QED
      BY <2>1, <2>2, <3>2, <3>3
  <2>4. j > 5
    BY <2>1, <2>2
  <2> QED
    BY <2>3, <2>4
<1>4. Pulsed(u)
  BY <1>2 DEF Pulsed
<1>5. Whole(u)
  BY <1>3 DEF Whole
<1> QED
  BY <1>1, <1>4, <1>5 DEF Program, u

(***************************************************************************)
(* What a program leaves in a cell of the panel.  W is the set of accesses *)
(* that write the cell and e the one that writes what pass p wants there.  *)
(***************************************************************************)
Silent(s, W) == \A m \in 1 .. Len(s) : s[m] \notin W

(* The last write of s is e.                                               *)
Leaves(s, W, e) == \E k \in 1 .. Len(s) :
                     s[k] = e /\ \A m \in k + 1 .. Len(s) : s[m] \notin W

(* Whatever the cell holds, it holds what is wanted at each wait of p.     *)
Settles(s, p, W, e) ==
  \A j \in 1 .. Len(s) : s[j] = << "wait", p >> =>
    \E k \in 1 .. j - 1 : s[k] = e /\ \A m \in k + 1 .. j - 1 : s[m] \notin W

(* The same, where right says that the cell holds what is wanted now.      *)
Sound(s, p, W, e, right) ==
  \A j \in 1 .. Len(s) : s[j] = << "wait", p >> =>
    \/ \E k \in 1 .. j - 1 :
         s[k] = e /\ \A m \in k + 1 .. j - 1 : s[m] \notin W
    \/ right /\ \A m \in 1 .. j - 1 : s[m] \notin W

Waits == {<< "wait", p >> : p \in 0 .. Passes}

(* What s leaves stays when t writes nothing.                              *)
LEMMA LeavesFirst ==
  ASSUME NEW S, NEW s \in Seq(S), NEW t \in Seq(S), NEW W, NEW e,
         Leaves(s, W, e), Silent(t, W)
  PROVE  Leaves(s \o t, W, e)
<1> DEFINE u == s \o t
<1>1. /\ Len(s) \in Nat /\ Len(t) \in Nat /\ Len(u) = Len(s) + Len(t)
      /\ \A m \in 1 .. Len(s) : u[m] = s[m]
      /\ \A m \in 1 .. Len(t) : u[Len(s) + m] = t[m]
  BY ConcatAt
<1> HIDE DEF u
<1>2. PICK k \in 1 .. Len(s) :
        s[k] = e /\ \A m \in k + 1 .. Len(s) : s[m] \notin W
  BY DEF Leaves
<1>3. k \in 1 .. Len(u) /\ u[k] = e
  BY <1>1, <1>2
<1>4. ASSUME NEW m \in k + 1 .. Len(u)
      PROVE  u[m] \notin W
  <2>1. CASE m <= Len(s)
    BY <1>1, <1>2, <2>1
  <2>2. CASE ~(m <= Len(s))
    <3>1. m - Len(s) \in 1 .. Len(t) /\ m = Len(s) + (m - Len(s))
      BY <1>1, <2>2
    <3>2. u[m] = t[m - Len(s)]
      BY <1>1, <3>1
    <3> QED
      BY <3>1, <3>2 DEF Silent
  <2> QED
    BY <2>1, <2>2
<1>5. Leaves(u, W, e)
  BY <1>3, <1>4 DEF Leaves
<1> QED
  BY <1>5 DEF u

(* What t leaves is left, whatever comes before it.                        *)
LEMMA LeavesLast ==
  ASSUME NEW S, NEW s \in Seq(S), NEW t \in Seq(S), NEW W, NEW e,
         Leaves(t, W, e)
  PROVE  Leaves(s \o t, W, e)
<1> DEFINE u == s \o t
<1>1. /\ Len(s) \in Nat /\ Len(t) \in Nat /\ Len(u) = Len(s) + Len(t)
      /\ \A m \in 1 .. Len(t) : u[Len(s) + m] = t[m]
  BY ConcatAt
<1> HIDE DEF u
<1>2. PICK k \in 1 .. Len(t) :
        t[k] = e /\ \A m \in k + 1 .. Len(t) : t[m] \notin W
  BY DEF Leaves
<1>3. Len(s) + k \in 1 .. Len(u) /\ u[Len(s) + k] = e
  BY <1>1, <1>2
<1>4. ASSUME NEW m \in (Len(s) + k) + 1 .. Len(u)
      PROVE  u[m] \notin W
  <2>1. /\ m - Len(s) \in k + 1 .. Len(t) /\ m = Len(s) + (m - Len(s))
        /\ m - Len(s) \in 1 .. Len(t)
    BY <1>1
  <2>2. u[m] = t[m - Len(s)]
    BY <1>1, <2>1
  <2> QED
    BY <1>2, <2>1, <2>2
<1>5. Leaves(u, W, e)
  BY <1>3, <1>4 DEF Leaves
<1> QED
  BY <1>5 DEF u

(* One access of one block is e and no other writes the cell.              *)
LEMMA LeavesBlocks ==
  ASSUME NEW t \in Seq(Accesses), NEW s, NEW n \in Nat, NEW len \in Sizes,
         NEW W, NEW e, Laid(t, s, n, len),
         NEW b \in 0 .. n - 1, NEW r \in 1 .. len, s[b][r] = e,
         \A c \in 0 .. n - 1, q \in 1 .. len :
           c # b \/ q # r => s[c][q] \notin W
  PROVE  Leaves(t, W, e)
<1> DEFINE k == b * len + r
<1>1. k \in 1 .. Len(t) /\ t[k] = e
  BY DEF Laid
<1>2. Len(t) \in Nat
  OBVIOUS
<1>3. ASSUME NEW m \in k + 1 .. Len(t)
      PROVE  t[m] \notin W
  <2>1. m \in 1 .. Len(t) /\ m # k
    BY <1>1, <1>2
  <2>2. PICK c \in 0 .. n - 1, q \in 1 .. len :
          m = c * len + q /\ t[m] = s[c][q]
    BY <2>1 DEF Laid
  <2>3. c # b \/ q # r
    BY <2>1, <2>2
  <2> QED
    BY <2>2, <2>3
<1> HIDE DEF k
<1> QED
  BY <1>1, <1>3 DEF Leaves

(* A wait after what is wanted has been left, and none before.             *)
LEMMA SettlesAtEnd ==
  ASSUME NEW S, NEW s \in Seq(S), NEW W, NEW e, NEW p, NEW q,
         << "wait", q >> \in S, Silent(s, Waits), p \in 0 .. Passes,
         p = q => Leaves(s, W, e)
  PROVE  Settles(s \o << << "wait", q >> >>, p, W, e)
<1> DEFINE t == << << "wait", q >> >>
           u == s \o t
<1>1. t \in Seq(S) /\ Len(t) = 1 /\ t[1] = << "wait", q >>
  OBVIOUS
<1>2. /\ Len(s) \in Nat /\ Len(u) = Len(s) + 1
      /\ \A m \in 1 .. Len(s) : u[m] = s[m]
      /\ u[Len(s) + 1] = << "wait", q >>
  BY <1>1, ConcatAt
<1> HIDE DEF t, u
<1>3. ASSUME NEW j \in 1 .. Len(u), u[j] = << "wait", p >>
      PROVE  \E k \in 1 .. j - 1 :
               u[k] = e /\ \A m \in k + 1 .. j - 1 : u[m] \notin W
  <2>1. j = Len(s) + 1
    <3> SUFFICES ASSUME j \in 1 .. Len(s) PROVE FALSE
      BY <1>2
    <3>1. s[j] = << "wait", p >>
      BY <1>2, <1>3
    <3> QED
      BY <3>1 DEF Silent, Waits
  <2>2. p = q
    BY <1>2, <1>3, <2>1
  <2>3. PICK k \in 1 .. Len(s) :
          s[k] = e /\ \A m \in k + 1 .. Len(s) : s[m] \notin W
    BY <2>2 DEF Leaves
  <2>4. j - 1 = Len(s)
    BY <1>2, <2>1
  <2>5. k \in 1 .. j - 1 /\ u[k] = e
    BY <1>2, <2>3, <2>4
  <2>6. \A m \in k + 1 .. j - 1 : u[m] \notin W
    BY <1>2, <2>3, <2>4
  <2> QED
    BY <2>5, <2>6
<1>4. Settles(u, p, W, e)
  BY <1>3 DEF Settles
<1> QED
  BY <1>4 DEF u, t

(* What waits for nothing may come before or after.                        *)
LEMMA SettlesAfter ==
  ASSUME NEW S, NEW s \in Seq(S), NEW t \in Seq(S), NEW W, NEW e,
         NEW p \in 0 .. Passes, Silent(s, Waits), Settles(t, p, W, e)
  PROVE  Settles(s \o t, p, W, e)
<1> DEFINE u == s \o t
<1>1. /\ Len(s) \in Nat /\ Len(t) \in Nat /\ Len(u) = Len(s) + Len(t)
      /\ \A m \in 1 .. Len(s) : u[m] = s[m]
      /\ \A m \in 1 .. Len(t) : u[Len(s) + m] = t[m]
  BY ConcatAt
<1> HIDE DEF u
<1>2. ASSUME NEW j \in 1 .. Len(u), u[j] = << "wait", p >>
      PROVE  \E k \in 1 .. j - 1 :
               u[k] = e /\ \A m \in k + 1 .. j - 1 : u[m] \notin W
  <2>1. ~(j <= Len(s))
    <3> SUFFICES ASSUME j \in 1 .. Len(s) PROVE FALSE
      BY <1>1
    <3>1. s[j] = << "wait", p >>
      BY <1>1, <1>2
    <3> QED
      BY <3>1 DEF Silent, Waits
  <2>2. PICK l \in 1 .. Len(t) : j = Len(s) + l
    <3>1. j - Len(s) \in 1 .. Len(t) /\ j = Len(s) + (j - Len(s))
      BY <1>1, <2>1
    <3> QED
      BY <3>1
  <2>3. t[l] = << "wait", p >>
    BY <1>1, <1>2, <2>2
  <2>4. PICK k \in 1 .. l - 1 :
          t[k] = e /\ \A m \in k + 1 .. l - 1 : t[m] \notin W
    BY <2>3 DEF Settles
  <2>5. Len(s) + k \in 1 .. j - 1 /\ u[Len(s) + k] = e
    BY <1>1, <2>2, <2>4
  <2>6. ASSUME NEW m \in (Len(s) + k) + 1 .. j - 1
        PROVE  u[m] \notin W
    <3>1. /\ m - Len(s) \in k + 1 .. l - 1 /\ m - Len(s) \in 1 .. Len(t)
          /\ m = Len(s) + (m - Len(s))
      BY <1>1, <2>2
    <3>2. u[m] = t[m - Len(s)]
      BY <1>1, <3>1
    <3> QED
      BY <2>4, <3>1, <3>2
  <2> QED
    BY <2>5, <2>6
<1>3. Settles(u, p, W, e)
  BY <1>2 DEF Settles
<1> QED
  BY <1>3 DEF u

(* A write settles past what does not wait.                                *)
LEMMA SettlesBefore ==
  ASSUME NEW S, NEW s \in Seq(S), NEW t \in Seq(S), NEW W, NEW e,
         NEW p \in 0 .. Passes, Settles(s, p, W, e), Silent(t, Waits)
  PROVE  Settles(s \o t, p, W, e)
<1> DEFINE u == s \o t
<1>1. /\ Len(s) \in Nat /\ Len(t) \in Nat /\ Len(u) = Len(s) + Len(t)
      /\ \A m \in 1 .. Len(s) : u[m] = s[m]
      /\ \A m \in 1 .. Len(t) : u[Len(s) + m] = t[m]
  BY ConcatAt
<1> HIDE DEF u
<1>2. ASSUME NEW j \in 1 .. Len(u), u[j] = << "wait", p >>
      PROVE  \E k \in 1 .. j - 1 :
               u[k] = e /\ \A m \in k + 1 .. j - 1 : u[m] \notin W
  <2>1. j \in 1 .. Len(s)
    <3> SUFFICES ASSUME ~(j <= Len(s)) PROVE FALSE
      BY <1>1
    <3>1. j - Len(s) \in 1 .. Len(t) /\ j = Len(s) + (j - Len(s))
      BY <1>1
    <3>2. t[j - Len(s)] = << "wait", p >>
      BY <1>1, <1>2, <3>1
    <3> QED
      BY <3>1, <3>2 DEF Silent, Waits
  <2>2. PICK k \in 1 .. j - 1 :
          s[k] = e /\ \A m \in k + 1 .. j - 1 : s[m] \notin W
    BY <1>1, <1>2, <2>1 DEF Settles
  <2>3. \A m \in 1 .. j - 1 : u[m] = s[m]
    BY <1>1, <2>1
  <2>4. \A m \in k + 1 .. j - 1 : u[m] = s[m]
    BY <2>1, <2>3
  <2> QED
    BY <2>2, <2>3, <2>4
<1>3. Settles(u, p, W, e)
  BY <1>2 DEF Settles
<1> QED
  BY <1>3 DEF u

(* Until its write the cell is not asked for.                              *)
LEMMA SettledIsSound ==
  ASSUME NEW s, NEW p, NEW W, NEW e, Settles(s, p, W, e), NEW right
  PROVE  Sound(s, p, W, e, right)
BY DEF Settles, Sound

(* An access is made: it writes what is wanted, or leaves the cell alone.  *)
LEMMA SoundTail ==
  ASSUME NEW s \in Seq(Accesses), s # << >>, NEW p, NEW W, NEW e, e \in W,
         NEW right, NEW now, Sound(s, p, W, e, right),
         Head(s) = e => now, Head(s) \notin W /\ right => now
  PROVE  Sound(Tail(s), p, W, e, now)
<1> DEFINE t == Tail(s)
<1>1. /\ Len(s) \in Nat \ {0} /\ Len(t) = Len(s) - 1
      /\ Head(s) = s[1]
      /\ \A m \in 1 .. Len(s) - 1 : t[m] = s[m + 1]
  BY TailAt
<1> HIDE DEF t
<1>2. ASSUME NEW j \in 1 .. Len(t), t[j] = << "wait", p >>
      PROVE  \/ \E k \in 1 .. j - 1 :
                  t[k] = e /\ \A m \in k + 1 .. j - 1 : t[m] \notin W
             \/ now /\ \A m \in 1 .. j - 1 : t[m] \notin W
  <2>1. j + 1 \in 1 .. Len(s) /\ s[j + 1] = << "wait", p >>
    BY <1>1, <1>2
  <2>2. \A m \in 1 .. j - 1 : t[m] = s[m + 1]
    BY <1>1
  <2>3. ASSUME NEW k \in 1 .. (j + 1) - 1, s[k] = e,
               \A m \in k + 1 .. (j + 1) - 1 : s[m] \notin W
        PROVE  \/ \E l \in 1 .. j - 1 :
                    t[l] = e /\ \A m \in l + 1 .. j - 1 : t[m] \notin W
               \/ now /\ \A m \in 1 .. j - 1 : t[m] \notin W
    <3>1. ASSUME NEW m \in 1 .. j - 1, k <= m PROVE t[m] \notin W
      <4>1. m + 1 \in k + 1 .. (j + 1) - 1
        BY <3>1
      <4> QED
        BY <2>2, <2>3, <4>1
    <3>2. CASE k = 1
      <4>1. now
        BY <1>1, <2>3, <3>2
      <4>2. \A m \in 1 .. j - 1 : t[m] \notin W
        BY <3>1, <3>2
      <4> QED
        BY <4>1, <4>2
    <3>3. CASE k # 1
      <4>1. k - 1 \in 1 .. j - 1 /\ (k - 1) + 1 = k
        BY <3>3
      <4>2. t[k - 1] = e
        BY <2>2, <2>3, <4>1
      <4>3. \A m \in (k - 1) + 1 .. j - 1 : t[m] \notin W
        BY <3>1, <4>1
      <4> QED
        BY <4>1, <4>2, <4>3
    <3> QED
      BY <3>2, <3>3
  <2>4. ASSUME right, \A m \in 1 .. (j + 1) - 1 : s[m] \notin W
        PROVE  now /\ \A m \in 1 .. j - 1 : t[m] \notin W
    <3>1. 1 \in 1 .. (j + 1) - 1
      OBVIOUS
    <3>2. s[1] \notin W
      BY <2>4, <3>1
    <3>3. now
      BY <1>1, <2>4, <3>2
    <3>4. ASSUME NEW m \in 1 .. j - 1 PROVE t[m] \notin W
      <4>1. m + 1 \in 1 .. (j + 1) - 1
        OBVIOUS
      <4> QED
        BY <2>2, <2>4, <4>1
    <3> QED
      BY <3>3, <3>4
  <2> QED
    BY <2>1, <2>3, <2>4 DEF Sound
<1>3. Sound(t, p, W, e, now)
  BY <1>2 DEF Sound
<1> QED
  BY <1>3 DEF t

(***************************************************************************)
(* The firmware is made of programs.                                       *)
(***************************************************************************)
LEMMA Registers ==
  /\ Values["led_period"] = 0 .. PeriodRange - 1
  /\ Values["status_led_en"] = SUBSET (0 .. 3)
  /\ Values["bcd_bin"] = Numbers
  /\ \A n \in {"bcd_reset", "bcd_start", "sseg_reset", "leds1_reset",
               "leds2_reset", "warn_en"} :
       n \in DOMAIN Values /\ Values[n] = BOOLEAN
  /\ \A n \in {"sseg_brightness", "leds1_brightness", "leds2_brightness",
               "warn_brightness"} :
       n \in DOMAIN Values /\ Values[n] = Brightness
  /\ \A n \in {"leds1_wr_val", "leds2_wr_val"} :
       n \in DOMAIN Values /\ Values[n] = Pixels
  /\ Values["sseg_wr_val"] = [wr : BOOLEAN, sel : Sseg!Digits,
                              glyph : Sseg!Glyphs]
  /\ {"led_period", "status_led_en", "bcd_bin", "sseg_wr_val"}
       \subseteq DOMAIN Values
<1>1. ASSUME NEW n \in {"bcd_reset", "bcd_start", "sseg_reset",
                        "leds1_reset", "leds2_reset", "warn_en"}
      PROVE  n \in DOMAIN Values /\ Values[n] = BOOLEAN
  BY DEF Values
<1>2. ASSUME NEW n \in {"sseg_brightness", "leds1_brightness",
                        "leds2_brightness", "warn_brightness"}
      PROVE  n \in DOMAIN Values /\ Values[n] = Brightness
  BY DEF Values
<1>3. ASSUME NEW n \in {"leds1_wr_val", "leds2_wr_val"}
      PROVE  n \in DOMAIN Values /\ Values[n] = Pixels
  BY DEF Values
<1>4. /\ Values["led_period"] = 0 .. PeriodRange - 1
      /\ Values["status_led_en"] = SUBSET (0 .. 3)
      /\ Values["bcd_bin"] = Numbers
      /\ Values["sseg_wr_val"] = [wr : BOOLEAN, sel : Sseg!Digits,
                                  glyph : Sseg!Glyphs]
  BY DEF Values
<1>5. {"led_period", "status_led_en", "bcd_bin", "sseg_wr_val"}
        \subseteq DOMAIN Values
  BY DEF Values
<1> QED
  BY <1>1, <1>2, <1>3, <1>4, <1>5

(* Writing a value of its range to a register is an access.                *)
LEMMA AccessTyped ==
  ASSUME NEW n \in DOMAIN Values, NEW v \in Values[n]
  PROVE  << n, v >> \in Accesses
BY DEF Accesses

(* The accesses that write nothing.                                        *)
LEMMA OtherAccesses ==
  /\ << "await", 0 >> \in Accesses
  /\ \A p \in 0 .. Passes : << "wait", p >> \in Accesses
  /\ \A v \in Numbers : << "bcd", v >> \in Accesses
BY DEF Accesses

(* The sizes of the panel.                                                 *)
LEMMA Sized ==
  /\ LEDS_N \in Nat \ {0} /\ LEDS_M \in Nat \ {0} /\ SSEG_N \in Nat \ {0}
  /\ LEDS_N * LEDS_M \in Nat \ {0}
  /\ Addresses = 0 .. LEDS_N * LEDS_M - 1 /\ 0 \in Addresses
  /\ Sseg!Digits = 0 .. SSEG_N - 1 /\ 0 \in Sseg!Digits
<1>1. LEDS_N \in Nat \ {0} /\ LEDS_M \in Nat \ {0} /\ SSEG_N \in Nat \ {0}
  BY PanelAssumption
<1>2. LEDS_N * LEDS_M \in Nat \ {0}
  BY <1>1
<1> QED
  BY <1>1, <1>2 DEF Addresses, Bar1!Addresses, Sseg!Digits

(* An encoded digit is a glyph.                                            *)
LEMMA EncodeTyped ==
  ASSUME NEW en \in BOOLEAN, NEW sign \in BOOLEAN, NEW dp \in BOOLEAN,
         NEW val \in 0 .. 15
  PROVE  Sseg!Encode(en, sign, dp, val) \in Sseg!Glyphs
<1> DEFINE num == CASE ~en       -> Sseg!Nothing
                    [] en /\ sign -> Sseg!Dash
                    [] OTHER      -> val
<1>1. num \in {17, 16, val}
  <2>1. CASE ~en
    BY <2>1 DEF Sseg!Nothing
  <2>2. CASE en /\ sign
    BY <2>2 DEF Sseg!Dash
  <2>3. CASE en /\ ~sign
    BY <2>3
  <2> QED
    BY <2>1, <2>2, <2>3
<1>2. num \in 0 .. 17
  BY <1>1
<1>3. Sseg!Encode(en, sign, dp, val) = [num |-> num, dp |-> dp /\ en]
  BY DEF Sseg!Encode
<1>4. (dp /\ en) \in BOOLEAN
  OBVIOUS
<1> HIDE DEF num
<1> QED
  BY <1>2, <1>3, <1>4 DEF Sseg!Glyphs

(* So is what a pass shows.                                                *)
LEMMA GlyphTyped ==
  ASSUME NEW p \in 0 .. Passes, NEW k \in Sseg!Digits
  PROVE  Glyph(p, k) \in Sseg!Glyphs /\ Sseg!Blank \in Sseg!Glyphs
<1> DEFINE g == Glyph(p, k)
<1>2. Sseg!Blank \in Sseg!Glyphs
  <2>1. 0 \in 0 .. 15
    OBVIOUS
  <2> QED
    BY <2>1, EncodeTyped, Zenon DEF Sseg!Blank
<1>3. p \in Nat /\ k \in Nat /\ p % 16 \in 0 .. 15 /\ k % 16 \in 0 .. 15
  BY Sized, PanelAssumption
<1>4. CASE p = 0
  <2>1. g = Sseg!Encode(TRUE, FALSE, TRUE, k % 16)
    BY <1>4 DEF Glyph
  <2> QED
    BY EncodeTyped, <1>2, <1>3, <2>1
<1>5. CASE p # 0 /\ p % 2 = 1
  <2>1. g = Sseg!Encode(TRUE, FALSE, TRUE, p % 16)
    BY <1>5, Zenon DEF Glyph
  <2> QED
    BY EncodeTyped, <1>2, <1>3, <2>1
<1>6. CASE p # 0 /\ p % 2 # 1
  <2>1. g = Sseg!Encode(k % 2 = 0, k % 2 = 0, FALSE, 0)
    BY <1>6, Zenon DEF Glyph
  <2>2. (k % 2 = 0) \in BOOLEAN /\ 0 \in 0 .. 15
    OBVIOUS
  <2> QED
    BY EncodeTyped, <1>2, <2>1, <2>2
<1> QED
  BY <1>4, <1>5, <1>6

(* Accesses that are none of those, and one of them.                       *)
LEMMA PlainProgram ==
  ASSUME NEW s \in Seq(Accesses),
         \A m \in 1 .. Len(s) :
           s[m][1] \notin {"bcd_start", "bcd_reset", "leds1_wr_val",
                          "leds2_wr_val", "sseg_wr_val", "bcd"}
  PROVE  Program(s)
<1>1. \A m \in 1 .. Len(s) : s[m][1] \notin DOMAIN Off /\ s[m][1] # "bcd"
  BY DEF Off
<1>2. Pulsed(s)
  BY <1>1 DEF Pulsed
<1>3. Whole(s)
  BY <1>1 DEF Whole
<1> QED
  BY <1>2, <1>3 DEF Program

(* Two of the same register, of which the second takes the first back.     *)
LEMMA PairProgram ==
  ASSUME NEW n \in DOMAIN Off, NEW v \in Values[n], n \in DOMAIN Values,
         Off[n] \in Values[n]
  PROVE  Program(<< << n, v >>, << n, Off[n] >> >>)
<1> DEFINE s == << << n, v >>, << n, Off[n] >> >>
<1>1. << n, v >> \in Accesses /\ << n, Off[n] >> \in Accesses
  BY AccessTyped
<1>2. /\ s \in Seq(Accesses) /\ Len(s) = 2
      /\ s[1] = << n, v >> /\ s[2] = << n, Off[n] >>
  BY <1>1
<1> HIDE DEF s
<1>3. \A m \in 1 .. Len(s) : s[m][1] = n
  BY <1>2
<1>4. n # "bcd"
  BY DEF Off
<1>5. ASSUME NEW k \in DOMAIN Off, NEW m \in 1 .. Len(s),
             s[m][1] = k, s[m][2] # Off[k]
      PROVE  m + 1 \in 1 .. Len(s) /\ s[m + 1] = << k, Off[k] >>
  <2>1. k = n
    BY <1>3, <1>5
  <2>2. m = 1
    <3> SUFFICES ASSUME m = 2 PROVE FALSE
      BY <1>2
    <3> QED
      BY <1>2, <1>5, <2>1
  <2> QED
    BY <1>2, <2>1, <2>2
<1>6. Pulsed(s)
  BY <1>5 DEF Pulsed
<1>7. Whole(s)
  BY <1>3, <1>4 DEF Whole
<1> QED
  BY <1>2, <1>6, <1>7 DEF Program, s

(* The resting values are in range.                                        *)
LEMMA OffTyped ==
  /\ DOMAIN Off \subseteq DOMAIN Values
  /\ \A n \in DOMAIN Off : Off[n] \in Values[n]
<1>1. LedsOff \in Pixels
  BY Sized DEF LedsOff, Pixels
<1>2. SsegOff \in [wr : BOOLEAN, sel : Sseg!Digits, glyph : Sseg!Glyphs]
  <2>1. 0 \in 0 .. Passes
    BY PanelAssumption
  <2>2. Sseg!Blank \in Sseg!Glyphs
    BY <2>1, GlyphTyped, Sized
  <2> QED
    BY <2>2, Sized DEF SsegOff
<1>3. DOMAIN Off = {"bcd_start", "bcd_reset", "leds1_wr_val",
                    "leds2_wr_val", "sseg_wr_val"}
  BY DEF Off
<1>4. /\ Off["bcd_start"] \in BOOLEAN /\ Off["bcd_reset"] \in BOOLEAN
      /\ Off["leds1_wr_val"] = LedsOff /\ Off["leds2_wr_val"] = LedsOff
      /\ Off["sseg_wr_val"] = SsegOff
  BY DEF Off
<1>5. ASSUME NEW n \in DOMAIN Off
      PROVE  n \in DOMAIN Values /\ Off[n] \in Values[n]
  <2>1. CASE n \in {"bcd_start", "bcd_reset"}
    BY <1>4, <2>1, Registers
  <2>2. CASE n \in {"leds1_wr_val", "leds2_wr_val"}
    BY <1>1, <1>4, <2>2, Registers
  <2>3. CASE n = "sseg_wr_val"
    BY <1>2, <1>4, <2>3, Registers
  <2> QED
    BY <1>3, <2>1, <2>2, <2>3
<1> QED
  BY <1>5

(* The pulse of a reset.                                                   *)
LEMMA PulseProgram ==
  ASSUME NEW n \in {"bcd_reset", "sseg_reset", "leds1_reset", "leds2_reset"}
  PROVE  Program(Pulse(n)) /\ Pulse(n) \in Seq(Accesses)
<1>1. n \in DOMAIN Values /\ TRUE \in Values[n] /\ FALSE \in Values[n]
  <2>1. n \in DOMAIN Values /\ Values[n] = BOOLEAN
    BY Registers
  <2> QED
    BY <2>1
<1>2. CASE n = "bcd_reset"
  <2>1. n \in DOMAIN Off /\ Off[n] = FALSE
    BY <1>2 DEF Off
  <2>2. Program(<< << n, TRUE >>, << n, Off[n] >> >>)
    BY <1>1, <2>1, PairProgram
  <2> QED
    BY <2>1, <2>2 DEF Pulse, Program
<1>3. CASE n # "bcd_reset"
  <2>1. << n, TRUE >> \in Accesses /\ << n, FALSE >> \in Accesses
    BY <1>1, AccessTyped
  <2> DEFINE s == << << n, TRUE >>, << n, FALSE >> >>
  <2>2. s \in Seq(Accesses) /\ Len(s) = 2 /\ s[1][1] = n /\ s[2][1] = n
    BY <2>1
  <2> HIDE DEF s
  <2>3. Program(s)
    BY <1>3, <2>2, PlainProgram
  <2> QED
    BY <2>3 DEF Pulse, Program, s
<1> QED
  BY <1>2, <1>3

(***************************************************************************)
(* The blocks of the firmware, and what is left in a cell.                 *)
(***************************************************************************)
BarBlocks(p) == [a \in Addresses |->
                   leds_enable_led("leds1_wr_val", a, LedOn(p, a))
                   \o leds_enable_led("leds2_wr_val", a, LedOn(p, a))]

RowBlocks(p) == [k \in Sseg!Digits |-> sseg_set_bcd(k, Glyph(p, k))]

BlankBlocks == [k \in Sseg!Digits |-> sseg_set_bcd(k, Sseg!Blank)]

ConvertBlocks == [k \in 0 .. Len(Conversions) - 1 |->
                    bcd_convert(Conversions[k + 1])]

(* The accesses that write an LED, a digit or the status LEDs, and the one *)
(* that writes what pass p wants there.                                    *)
LedWrites(n, a) == {e \in Accesses : e[1] = n /\ e[2].sel /\ e[2].addr = a}
LedRight(n, a, p) ==
  << n, [sel |-> TRUE, en |-> LedOn(p, a), addr |-> a] >>

DigitWrites(k) ==
  {e \in Accesses : e[1] = "sseg_wr_val" /\ e[2].wr /\ e[2].sel = k}
DigitRight(k, p) ==
  << "sseg_wr_val", [wr |-> TRUE, sel |-> k, glyph |-> Glyph(p, k)] >>

StatusWrites   == {e \in Accesses : e[1] = "status_led_en"}
StatusRight(p) == << "status_led_en", StatusOn(p) >>

(* A pair, place by place.                                                 *)
LEMMA Two1 ==
  ASSUME NEW a, NEW b, NEW s, s = << a, b >>
  PROVE  Len(s) = 2 /\ s[1] = a /\ s[2] = b
OBVIOUS

(* Six accesses, place by place.                                           *)
LEMMA Six1 ==
  ASSUME NEW a, NEW b, NEW c, NEW d, NEW e, NEW f, NEW s,
         s = << a, b, c, d, e, f >>
  PROVE  /\ Len(s) = 6 /\ s[1] = a /\ s[2] = b /\ s[3] = c
         /\ s[4] = d /\ s[5] = e /\ s[6] = f
OBVIOUS

(* leds_enable_led writes the LED and takes the write back.                *)
LEMMA LedPair ==
  ASSUME NEW n \in {"leds1_wr_val", "leds2_wr_val"}, NEW a \in Addresses,
         NEW p, NEW s, s = leds_enable_led(n, a, LedOn(p, a))
  PROVE  /\ s \in Seq(Accesses) /\ Len(s) = 2 /\ Program(s)
         /\ s[1] = LedRight(n, a, p) /\ s[2] = << n, LedsOff >>
<1> DEFINE v == [sel |-> TRUE, en |-> LedOn(p, a), addr |-> a]
<1>1. LedOn(p, a) \in BOOLEAN
  BY DEF LedOn
<1>2. v \in Pixels
  BY <1>1 DEF Pixels
<1>3. n \in DOMAIN Off /\ Off[n] = LedsOff
  BY DEF Off
<1>4. n \in DOMAIN Values /\ v \in Values[n] /\ LedsOff \in Values[n]
  BY <1>2, <1>3, Registers, OffTyped
<1>5. s = << << n, v >>, << n, LedsOff >> >>
  BY DEF leds_enable_led
<1>6. v = [sel |-> TRUE, en |-> LedOn(p, a), addr |-> a]
  OBVIOUS
<1> HIDE DEF v
<1>7. Program(s)
  BY <1>3, <1>4, <1>5, PairProgram
<1>8. Len(s) = 2 /\ s[1] = << n, v >> /\ s[2] = << n, LedsOff >>
  BY <1>5, Two1
<1> QED
  BY <1>6, <1>7, <1>8 DEF LedRight, Program

(* The accesses for an address: those of the first bar first.              *)
LEMMA BarBlockAt ==
  ASSUME NEW p, NEW a \in Addresses, NEW s, s = BarBlocks(p)[a]
  PROVE  /\ s \in Seq(Accesses) /\ Len(s) = 4 /\ Program(s)
         /\ s[1] = LedRight("leds1_wr_val", a, p)
         /\ s[2] = << "leds1_wr_val", LedsOff >>
         /\ s[3] = LedRight("leds2_wr_val", a, p)
         /\ s[4] = << "leds2_wr_val", LedsOff >>
<1>1. PICK s1 : s1 = leds_enable_led("leds1_wr_val", a, LedOn(p, a))
  OBVIOUS
<1>2. PICK s2 : s2 = leds_enable_led("leds2_wr_val", a, LedOn(p, a))
  OBVIOUS
<1>3. /\ s1 \in Seq(Accesses) /\ Len(s1) = 2 /\ Program(s1)
      /\ s1[1] = LedRight("leds1_wr_val", a, p)
      /\ s1[2] = << "leds1_wr_val", LedsOff >>
  BY <1>1, LedPair
<1>4. /\ s2 \in Seq(Accesses) /\ Len(s2) = 2 /\ Program(s2)
      /\ s2[1] = LedRight("leds2_wr_val", a, p)
      /\ s2[2] = << "leds2_wr_val", LedsOff >>
  BY <1>2, LedPair
<1>5. s = s1 \o s2
  BY <1>1, <1>2 DEF BarBlocks
<1>6. Program(s)
  BY <1>3, <1>4, <1>5, ProgramConcat
<1>7. /\ Len(s) = Len(s1) + Len(s2)
      /\ \A m \in 1 .. Len(s1) : s[m] = s1[m]
      /\ \A m \in 1 .. Len(s2) : s[Len(s1) + m] = s2[m]
  <2>1. s1 \in Seq(Accesses) /\ s2 \in Seq(Accesses)
    BY <1>3, <1>4
  <2> QED
    BY <1>5, <2>1, ConcatAt
<1>8. s[1] = s1[1] /\ s[2] = s1[2] /\ s[3] = s2[1] /\ s[4] = s2[2]
  BY <1>3, <1>4, <1>7
<1> QED
  BY <1>3, <1>4, <1>6, <1>7, <1>8 DEF Program

(* sseg_set_bcd writes the digit and takes the write back.                 *)
LEMMA DigitPair ==
  ASSUME NEW k \in Sseg!Digits, NEW g \in Sseg!Glyphs,
         NEW s, s = sseg_set_bcd(k, g)
  PROVE  /\ s \in Seq(Accesses) /\ Len(s) = 2 /\ Program(s)
         /\ s[1] = << "sseg_wr_val", [wr |-> TRUE, sel |-> k, glyph |-> g] >>
         /\ s[2] = << "sseg_wr_val", SsegOff >>
<1> DEFINE v == [wr |-> TRUE, sel |-> k, glyph |-> g]
<1>1. v \in [wr : BOOLEAN, sel : Sseg!Digits, glyph : Sseg!Glyphs]
  OBVIOUS
<1>2. "sseg_wr_val" \in DOMAIN Off /\ Off["sseg_wr_val"] = SsegOff
  BY DEF Off
<1>3. /\ "sseg_wr_val" \in DOMAIN Values /\ v \in Values["sseg_wr_val"]
      /\ SsegOff \in Values["sseg_wr_val"]
  BY <1>1, <1>2, Registers, OffTyped
<1>4. s = << << "sseg_wr_val", v >>, << "sseg_wr_val", SsegOff >> >>
  BY DEF sseg_set_bcd
<1>5. v = [wr |-> TRUE, sel |-> k, glyph |-> g]
  OBVIOUS
<1> HIDE DEF v
<1>6. Program(s)
  BY <1>2, <1>3, <1>4, PairProgram
<1>7. /\ Len(s) = 2 /\ s[1] = << "sseg_wr_val", v >>
      /\ s[2] = << "sseg_wr_val", SsegOff >>
  BY <1>4, Two1
<1> QED
  BY <1>5, <1>6, <1>7 DEF Program

(* The accesses for a digit.                                               *)
LEMMA RowBlockAt ==
  ASSUME NEW p \in 0 .. Passes, NEW k \in Sseg!Digits,
         NEW s, s = RowBlocks(p)[k]
  PROVE  /\ s \in Seq(Accesses) /\ Len(s) = 2 /\ Program(s)
         /\ s[1] = DigitRight(k, p) /\ s[2] = << "sseg_wr_val", SsegOff >>
<1>1. Glyph(p, k) \in Sseg!Glyphs
  BY GlyphTyped
<1>2. s = sseg_set_bcd(k, Glyph(p, k))
  BY DEF RowBlocks
<1> QED
  BY <1>1, <1>2, DigitPair DEF DigitRight

(* bcd_convert waits before it starts and before it reads.                 *)
LEMMA ConvertBlockAt ==
  ASSUME NEW v \in Numbers, NEW s, s = bcd_convert(v)
  PROVE  /\ s \in Seq(Accesses) /\ Len(s) = 6 /\ Program(s)
         /\ \A m \in 1 .. 6 :
              s[m][1] \in {"await", "bcd_bin", "bcd_start", "bcd"}
<1>1. s = << << "await", 0 >>, << "bcd_bin", v >>, << "bcd_start", TRUE >>,
             << "bcd_start", FALSE >>, << "await", 0 >>, << "bcd", v >> >>
  BY DEF bcd_convert
<1>2. << "await", 0 >> \in Accesses /\ << "bcd", v >> \in Accesses
  BY OtherAccesses
<1>3. << "bcd_bin", v >> \in Accesses
  BY Registers, AccessTyped
<1>4. /\ << "bcd_start", TRUE >> \in Accesses
      /\ << "bcd_start", FALSE >> \in Accesses
  <2>1. /\ "bcd_start" \in DOMAIN Values
        /\ TRUE \in Values["bcd_start"] /\ FALSE \in Values["bcd_start"]
    BY Registers
  <2> QED
    BY <2>1, AccessTyped
<1>5. s \in Seq(Accesses)
  BY <1>1, <1>2, <1>3, <1>4
<1>6. /\ Len(s) = 6
      /\ s[1] = << "await", 0 >> /\ s[2] = << "bcd_bin", v >>
      /\ s[3] = << "bcd_start", TRUE >> /\ s[4] = << "bcd_start", FALSE >>
      /\ s[5] = << "await", 0 >> /\ s[6] = << "bcd", v >>
  <2>1. PICK a : a = << "await", 0 >>
    OBVIOUS
  <2>2. PICK b : b = << "bcd_bin", v >>
    OBVIOUS
  <2>3. PICK c : c = << "bcd_start", TRUE >>
    OBVIOUS
  <2>4. PICK d : d = << "bcd_start", FALSE >>
    OBVIOUS
  <2>5. PICK f : f = << "bcd", v >>
    OBVIOUS
  <2>6. s = << a, b, c, d, a, f >>
    BY <1>1, <2>1, <2>2, <2>3, <2>4, <2>5, Zenon
  <2>7. /\ Len(s) = 6 /\ s[1] = a /\ s[2] = b /\ s[3] = c
        /\ s[4] = d /\ s[5] = a /\ s[6] = f
    BY <2>6, Six1
  <2> QED
    BY <2>1, <2>2, <2>3, <2>4, <2>5, <2>7, Zenon
<1>7. \A m \in 1 .. 6 : m = 1 \/ m = 2 \/ m = 3 \/ m = 4 \/ m = 5 \/ m = 6
  OBVIOUS
<1>8. Pulsed(s)
  <2>1. /\ DOMAIN Off = {"bcd_start", "bcd_reset", "leds1_wr_val",
                         "leds2_wr_val", "sseg_wr_val"}
        /\ Off["bcd_start"] = FALSE
    BY DEF Off
  <2>2. ASSUME NEW n \in DOMAIN Off, NEW m \in 1 .. Len(s),
               s[m][1] = n, s[m][2] # Off[n]
        PROVE  m + 1 \in 1 .. Len(s) /\ s[m + 1] = << n, Off[n] >>
    <3>1. n = "bcd_start"
      <4>1. s[m][1] \in {"await", "bcd_bin", "bcd_start", "bcd"}
        <5>1. /\ s[1][1] = "await" /\ s[2][1] = "bcd_bin"
              /\ s[3][1] = "bcd_start" /\ s[4][1] = "bcd_start"
              /\ s[5][1] = "await" /\ s[6][1] = "bcd"
          BY <1>6
        <5> QED
          BY <1>6, <1>7, <5>1
      <4> QED
        BY <2>1, <2>2, <4>1
    <3>2. m = 3
      <4>1. s[m][2] # FALSE /\ s[m][1] = "bcd_start"
        BY <2>1, <2>2, <3>1
      <4>2. s[4][2] = FALSE /\ s[1][1] # "bcd_start" /\ s[2][1] # "bcd_start"
            /\ s[5][1] # "bcd_start" /\ s[6][1] # "bcd_start"
        BY <1>6
      <4> QED
        BY <1>6, <1>7, <4>1, <4>2
    <3>3. m + 1 = 4 /\ 4 \in 1 .. 6
      BY <3>2
    <3>4. s[4] = << n, Off[n] >>
      BY <1>6, <2>1, <3>1
    <3>5. m + 1 \in 1 .. Len(s)
      BY <1>6, <3>3
    <3> QED
      BY <3>3, <3>4, <3>5
  <2> QED
    BY <2>2 DEF Pulsed
<1>9. Whole(s)
  <2>1. ASSUME NEW j \in 1 .. Len(s), s[j][1] = "bcd"
        PROVE  j = 6
    <3>1. /\ s[1][1] # "bcd" /\ s[2][1] # "bcd" /\ s[3][1] # "bcd"
          /\ s[4][1] # "bcd" /\ s[5][1] # "bcd"
      BY <1>6
    <3> QED
      BY <1>6, <1>7, <2>1, <3>1
  <2>2. ASSUME NEW d \in 1 .. 5 PROVE s[6 - d] = Before(d, v)
    <3>1. /\ Before(1, v) = s[5] /\ Before(2, v) = s[4]
          /\ Before(3, v) = s[3] /\ Before(4, v) = s[2]
          /\ Before(5, v) = s[1]
      BY <1>6 DEF Before
    <3>2. d = 1 \/ d = 2 \/ d = 3 \/ d = 4 \/ d = 5
      OBVIOUS
    <3>3. 6 - 1 = 5 /\ 6 - 2 = 4 /\ 6 - 3 = 3 /\ 6 - 4 = 2 /\ 6 - 5 = 1
      OBVIOUS
    <3> QED
      BY <3>1, <3>2, <3>3
  <2> QED
    BY <1>6, <2>1, <2>2 DEF Whole
<1>10. \A m \in 1 .. 6 : s[m][1] \in {"await", "bcd_bin", "bcd_start", "bcd"}
  BY <1>6, <1>7
<1> QED
  BY <1>5, <1>6, <1>8, <1>9, <1>10 DEF Program

(***************************************************************************)
(* The parts of the firmware, by the names of their accesses.              *)
(***************************************************************************)
Names(s, X) == \A m \in 1 .. Len(s) : s[m][1] \in X

BarNames     == {"leds1_wr_val", "leds2_wr_val"}
DigitNames   == {"sseg_wr_val"}
ConvertNames == {"await", "bcd_bin", "bcd_start", "bcd"}

(* The registers of two sequences.                                         *)
LEMMA NamesConcat ==
  ASSUME NEW s \in Seq(Accesses), NEW t \in Seq(Accesses), NEW X, NEW Y,
         NEW Z, X \subseteq Z, Y \subseteq Z, Names(s, X), Names(t, Y)
  PROVE  s \o t \in Seq(Accesses) /\ Names(s \o t, Z)
<1>1. s \o t \in Seq(Accesses)
  BY ConcatAt
<1>2. ASSUME NEW m \in 1 .. Len(s \o t) PROVE (s \o t)[m][1] \in Z
  BY PlaceInConcat DEF Names
<1> QED
  BY <1>1, <1>2 DEF Names

(* A sequence without the register does not write the cell.                *)
LEMMA NamesSilent ==
  ASSUME NEW s, NEW X, NEW W, Names(s, X), \A e \in W : e[1] \notin X
  PROVE  Silent(s, W)
BY DEF Names, Silent

(* The registers of blocks.                                                *)
LEMMA NamesBlocks ==
  ASSUME NEW t, NEW s, NEW n, NEW len, NEW X, Laid(t, s, n, len),
         \A b \in 0 .. n - 1, r \in 1 .. len : s[b][r][1] \in X
  PROVE  Names(t, X)
<1> SUFFICES ASSUME NEW m \in 1 .. Len(t) PROVE t[m][1] \in X
  BY DEF Names
<1>1. PICK b \in 0 .. n - 1, r \in 1 .. len :
        m = b * len + r /\ t[m] = s[b][r]
  BY DEF Laid
<1> QED
  BY <1>1

(* The writes of a pass to the bars.                                       *)
LEMMA BarsAt ==
  ASSUME NEW p, NEW t, t = Bars(p)
  PROVE  /\ t \in Seq(Accesses) /\ Program(t) /\ Names(t, BarNames)
         /\ Laid(t, BarBlocks(p), LEDS_N * LEDS_M, 4)
<1> DEFINE n == LEDS_N * LEDS_M
           s == BarBlocks(p)
<1>1. n \in Nat /\ 4 \in Sizes /\ 0 .. n - 1 = Addresses
  BY Sized DEF Sizes
<1>2. t = Blocks(s, n, 4)
  BY DEF Bars, BarBlocks
<1> HIDE DEF n, s
<1>3. \A b \in 0 .. n - 1 :
        /\ s[b] \in Seq(Accesses) /\ Len(s[b]) = 4 /\ Program(s[b])
        /\ \A r \in 1 .. 4 : s[b][r][1] \in BarNames
  <2> SUFFICES ASSUME NEW b \in Addresses
               PROVE  /\ s[b] \in Seq(Accesses) /\ Len(s[b]) = 4
                      /\ Program(s[b])
                      /\ \A r \in 1 .. 4 : s[b][r][1] \in BarNames
    BY <1>1
  <2>1. PICK x : x = BarBlocks(p)[b]
    OBVIOUS
  <2>2. /\ x \in Seq(Accesses) /\ Len(x) = 4 /\ Program(x)
        /\ x[1] = LedRight("leds1_wr_val", b, p)
        /\ x[2] = << "leds1_wr_val", LedsOff >>
        /\ x[3] = LedRight("leds2_wr_val", b, p)
        /\ x[4] = << "leds2_wr_val", LedsOff >>
    BY <2>1, BarBlockAt
  <2>3. /\ x[1][1] \in BarNames /\ x[2][1] \in BarNames
        /\ x[3][1] \in BarNames /\ x[4][1] \in BarNames
    BY <2>2 DEF LedRight, BarNames
  <2>4. \A r \in 1 .. 4 : x[r][1] \in BarNames
    BY <2>3
  <2> QED
    BY <2>1, <2>2, <2>4 DEF s
<1>4. Program(t)
  BY <1>1, <1>2, <1>3, ProgramBlocks
<1>5. OfSize(s, n, 4, Accesses)
  BY <1>3 DEF OfSize
<1>6. t \in Seq(Accesses) /\ Laid(t, s, n, 4)
  BY <1>1, <1>2, <1>5, BlocksAt
<1>7. Names(t, BarNames)
  BY <1>3, <1>6, NamesBlocks
<1> QED
  BY <1>4, <1>6, <1>7 DEF n, s

(* The writes of a pass to the digits.                                     *)
LEMMA RowAt ==
  ASSUME NEW p \in 0 .. Passes, NEW t, t = Row(p)
  PROVE  /\ t \in Seq(Accesses) /\ Program(t) /\ Names(t, DigitNames)
         /\ Laid(t, RowBlocks(p), SSEG_N, 2)
<1> DEFINE s == RowBlocks(p)
<1>1. SSEG_N \in Nat /\ 2 \in Sizes /\ 0 .. SSEG_N - 1 = Sseg!Digits
  BY Sized DEF Sizes
<1>2. t = Blocks(s, SSEG_N, 2)
  BY DEF Row, RowBlocks
<1> HIDE DEF s
<1>3. \A b \in 0 .. SSEG_N - 1 :
        /\ s[b] \in Seq(Accesses) /\ Len(s[b]) = 2 /\ Program(s[b])
        /\ \A r \in 1 .. 2 : s[b][r][1] \in DigitNames
  <2> SUFFICES ASSUME NEW b \in Sseg!Digits
               PROVE  /\ s[b] \in Seq(Accesses) /\ Len(s[b]) = 2
                      /\ Program(s[b])
                      /\ \A r \in 1 .. 2 : s[b][r][1] \in DigitNames
    BY <1>1
  <2>1. PICK x : x = RowBlocks(p)[b]
    OBVIOUS
  <2>2. /\ x \in Seq(Accesses) /\ Len(x) = 2 /\ Program(x)
        /\ x[1] = DigitRight(b, p) /\ x[2] = << "sseg_wr_val", SsegOff >>
    BY <2>1, RowBlockAt
  <2>3. x[1][1] \in DigitNames /\ x[2][1] \in DigitNames
    BY <2>2 DEF DigitRight, DigitNames
  <2>4. \A r \in 1 .. 2 : x[r][1] \in DigitNames
    BY <2>3
  <2> QED
    BY <2>1, <2>2, <2>4 DEF s
<1>4. Program(t)
  BY <1>1, <1>2, <1>3, ProgramBlocks
<1>5. OfSize(s, SSEG_N, 2, Accesses)
  BY <1>3 DEF OfSize
<1>6. t \in Seq(Accesses) /\ Laid(t, s, SSEG_N, 2)
  BY <1>1, <1>2, <1>5, BlocksAt
<1>7. Names(t, DigitNames)
  BY <1>3, <1>6, NamesBlocks
<1> QED
  BY <1>4, <1>6, <1>7 DEF s

(* The blanking of the digits in sseg_init.                                *)
LEMMA BlankAt ==
  ASSUME NEW t, t = Blocks(BlankBlocks, SSEG_N, 2)
  PROVE  t \in Seq(Accesses) /\ Program(t) /\ Names(t, DigitNames)
<1> DEFINE s == BlankBlocks
<1>1. SSEG_N \in Nat /\ 2 \in Sizes /\ 0 .. SSEG_N - 1 = Sseg!Digits
  BY Sized DEF Sizes
<1>2. 0 \in 0 .. Passes /\ 0 \in Sseg!Digits
  BY Sized, PanelAssumption
<1> HIDE DEF s
<1>3. \A b \in 0 .. SSEG_N - 1 :
        /\ s[b] \in Seq(Accesses) /\ Len(s[b]) = 2 /\ Program(s[b])
        /\ \A r \in 1 .. 2 : s[b][r][1] \in DigitNames
  <2> SUFFICES ASSUME NEW b \in Sseg!Digits
               PROVE  /\ s[b] \in Seq(Accesses) /\ Len(s[b]) = 2
                      /\ Program(s[b])
                      /\ \A r \in 1 .. 2 : s[b][r][1] \in DigitNames
    BY <1>1
  <2>1. PICK x : x = sseg_set_bcd(b, Sseg!Blank)
    OBVIOUS
  <2>2. Sseg!Blank \in Sseg!Glyphs
    BY <1>2, GlyphTyped
  <2>3. /\ x \in Seq(Accesses) /\ Len(x) = 2 /\ Program(x)
        /\ x[1] = << "sseg_wr_val",
                     [wr |-> TRUE, sel |-> b, glyph |-> Sseg!Blank] >>
        /\ x[2] = << "sseg_wr_val", SsegOff >>
    BY <2>1, <2>2, DigitPair
  <2>4. x[1][1] \in DigitNames /\ x[2][1] \in DigitNames
    BY <2>3 DEF DigitNames
  <2>5. \A r \in 1 .. 2 : x[r][1] \in DigitNames
    BY <2>4
  <2> QED
    BY <2>1, <2>3, <2>5 DEF s, BlankBlocks
<1>4. Program(t)
  BY <1>1, <1>3, ProgramBlocks DEF s
<1>5. OfSize(s, SSEG_N, 2, Accesses)
  BY <1>3 DEF OfSize
<1>6. t \in Seq(Accesses) /\ Laid(t, s, SSEG_N, 2)
  BY <1>1, <1>5, BlocksAt DEF s
<1>7. Names(t, DigitNames)
  BY <1>3, <1>6, NamesBlocks
<1> QED
  BY <1>4, <1>6, <1>7

(* The conversions, none of which waits for a tick.                        *)
LEMMA ConvertsAt ==
  ASSUME NEW t,
         t = Blocks(ConvertBlocks, Len(Conversions), Len(bcd_convert(0)))
  PROVE  t \in Seq(Accesses) /\ Program(t) /\ Names(t, ConvertNames)
<1> DEFINE s == ConvertBlocks
           n == Len(Conversions)
<1>1. /\ Conversions \in Seq(Numbers) /\ n \in Nat /\ 6 \in Sizes
      /\ \A b \in 0 .. n - 1 : Conversions[b + 1] \in Numbers
  BY PanelAssumption DEF Sizes
<1>2. Len(bcd_convert(0)) = 6
  <2>1. 0 \in Numbers
    BY DEF Numbers, Bcd!Width
  <2> QED
    BY <2>1, ConvertBlockAt
<1>3. t = Blocks(s, n, 6)
  BY <1>2
<1> HIDE DEF s, n
<1>4. \A b \in 0 .. n - 1 :
        /\ s[b] \in Seq(Accesses) /\ Len(s[b]) = 6 /\ Program(s[b])
        /\ \A r \in 1 .. 6 : s[b][r][1] \in ConvertNames
  <2> SUFFICES ASSUME NEW b \in 0 .. n - 1
               PROVE  /\ s[b] \in Seq(Accesses) /\ Len(s[b]) = 6
                      /\ Program(s[b])
                      /\ \A r \in 1 .. 6 : s[b][r][1] \in ConvertNames
    OBVIOUS
  <2>1. PICK x : x = bcd_convert(Conversions[b + 1])
    OBVIOUS
  <2>2. /\ x \in Seq(Accesses) /\ Len(x) = 6 /\ Program(x)
        /\ \A r \in 1 .. 6 :
             x[r][1] \in {"await", "bcd_bin", "bcd_start", "bcd"}
    BY <1>1, <2>1, ConvertBlockAt
  <2>3. s[b] = x
    BY <2>1 DEF s, n, ConvertBlocks
  <2> QED
    BY <2>2, <2>3 DEF ConvertNames
<1>5. Program(t)
  BY <1>1, <1>3, <1>4, ProgramBlocks
<1>6. OfSize(s, n, 6, Accesses)
  BY <1>4 DEF OfSize
<1>7. t \in Seq(Accesses) /\ Laid(t, s, n, 6)
  BY <1>1, <1>3, <1>6, BlocksAt
<1>8. Names(t, ConvertNames)
  BY <1>4, <1>7, NamesBlocks
<1> QED
  BY <1>5, <1>7, <1>8

(***************************************************************************)
(* The whole programs: what test does before its loop, and a pass of it.   *)
(***************************************************************************)
Intro == << << "warn_brightness", 15 >>, << "warn_en", TRUE >>,
            << "status_led_en", StatusOn(0) >>,
            << "leds1_brightness", 255 >>, << "leds2_brightness", 255 >> >>

Lead(p) == << << "status_led_en", StatusOn(0) >>,
              << "status_led_en", StatusOn(p) >> >>

Full == << << "sseg_brightness", 255 >> >>

(* Everything a pass writes before its wait, and what comes before it.     *)
ShownFirst == Intro \o Bars(0) \o Full \o Row(0)
Shown(p)   == Lead(p) \o Bars(p) \o Row(p)

IntroNames  == {"warn_brightness", "warn_en", "status_led_en",
                "leds1_brightness", "leds2_brightness"}
InitNames   == {"led_period", "status_led_en", "bcd_reset", "await",
                "sseg_reset", "sseg_wr_val", "leds1_reset", "leds2_reset",
                "warn_en"}

(* The status LEDs of a pass.                                              *)
LEMMA Status ==
  ASSUME NEW p
  PROVE  /\ << "status_led_en", StatusOn(p) >> \in Accesses
         /\ StatusOn(p) \in SUBSET (0 .. 3)
<1>1. StatusOn(p) \in SUBSET (0 .. 3)
  BY DEF StatusOn
<1> QED
  BY <1>1, Registers, AccessTyped

(* Full brightness.                                                        *)
LEMMA Lights ==
  \A n \in {"sseg_brightness", "leds1_brightness", "leds2_brightness"} :
    << n, 255 >> \in Accesses
<1> SUFFICES ASSUME NEW n \in {"sseg_brightness", "leds1_brightness",
                               "leds2_brightness"}
             PROVE  << n, 255 >> \in Accesses
  OBVIOUS
<1>1. 255 \in Brightness
  BY DEF Brightness
<1> QED
  BY <1>1, Registers, AccessTyped

(* The status LEDs are set twice, the last time for the pass.              *)
LEMMA LeadAt ==
  ASSUME NEW p, NEW s, s = Lead(p)
  PROVE  /\ s \in Seq(Accesses) /\ Len(s) = 2 /\ Program(s)
         /\ s[1] = StatusRight(0) /\ s[2] = StatusRight(p)
         /\ Names(s, {"status_led_en"})
<1>1. StatusRight(0) \in Accesses /\ StatusRight(p) \in Accesses
  BY Status DEF StatusRight
<1>2. s = << StatusRight(0), StatusRight(p) >>
  BY DEF Lead, StatusRight
<1>3. s \in Seq(Accesses) /\ Len(s) = 2
      /\ s[1] = StatusRight(0) /\ s[2] = StatusRight(p)
  BY <1>1, <1>2, Two1
<1>4. \A m \in 1 .. Len(s) : s[m][1] = "status_led_en"
  BY <1>3 DEF StatusRight
<1>5. Program(s)
  BY <1>3, <1>4, PlainProgram
<1> QED
  BY <1>3, <1>4, <1>5 DEF Names

(* Five accesses, place by place.                                          *)
LEMMA Five1 ==
  ASSUME NEW a \in Accesses, NEW b \in Accesses, NEW c \in Accesses,
         NEW d \in Accesses, NEW e \in Accesses, NEW s,
         s = << a, b, c, d, e >>
  PROVE  /\ s \in Seq(Accesses) /\ Len(s) = 5
         /\ s[1] = a /\ s[2] = b /\ s[3] = c /\ s[4] = d /\ s[5] = e
OBVIOUS

(* What test does before it draws for the first time.                      *)
LEMMA IntroAt ==
  ASSUME NEW s, s = Intro
  PROVE  /\ s \in Seq(Accesses) /\ Len(s) = 5 /\ Program(s)
         /\ Names(s, IntroNames)
         /\ s[1][1] = "warn_brightness" /\ s[2][1] = "warn_en"
         /\ s[3] = StatusRight(0)
         /\ s[4] = << "leds1_brightness", 255 >>
         /\ s[5] = << "leds2_brightness", 255 >>
<1>1. PICK a : a = << "warn_brightness", 15 >>
  OBVIOUS
<1>2. PICK b : b = << "warn_en", TRUE >>
  OBVIOUS
<1>3. PICK c : c = StatusRight(0)
  OBVIOUS
<1>4. PICK d : d = << "leds1_brightness", 255 >>
  OBVIOUS
<1>5. PICK e : e = << "leds2_brightness", 255 >>
  OBVIOUS
<1>6. a \in Accesses
  <2>1. 15 \in Brightness
    BY DEF Brightness
  <2> QED
    BY <1>1, <2>1, Registers, AccessTyped
<1>7. b \in Accesses
  <2>1. "warn_en" \in DOMAIN Values /\ TRUE \in Values["warn_en"]
    BY Registers
  <2> QED
    BY <1>2, <2>1, AccessTyped
<1>8. c \in Accesses /\ d \in Accesses /\ e \in Accesses
  BY <1>3, <1>4, <1>5, Status, Lights DEF StatusRight
<1>9. s = << a, b, c, d, e >>
  BY <1>1, <1>2, <1>3, <1>4, <1>5, Zenon DEF Intro, StatusRight
<1>10. /\ s \in Seq(Accesses) /\ Len(s) = 5
       /\ s[1] = a /\ s[2] = b /\ s[3] = c /\ s[4] = d /\ s[5] = e
  BY <1>6, <1>7, <1>8, <1>9, Five1
<1>11. \A m \in 1 .. Len(s) : s[m][1] \in IntroNames
  <2>1. /\ a[1] \in IntroNames /\ b[1] \in IntroNames /\ c[1] \in IntroNames
        /\ d[1] \in IntroNames /\ e[1] \in IntroNames
    BY <1>1, <1>2, <1>3, <1>4, <1>5 DEF IntroNames, StatusRight
  <2> QED
    BY <1>10, <2>1
<1>12. Program(s)
  BY <1>10, <1>11, PlainProgram DEF IntroNames
<1> QED
  BY <1>1, <1>2, <1>3, <1>4, <1>5, <1>10, <1>11, <1>12 DEF Names

(* The brightness of the digits.                                           *)
LEMMA FullAt ==
  ASSUME NEW s, s = Full
  PROVE  s \in Seq(Accesses) /\ Program(s) /\ Names(s, {"sseg_brightness"})
<1>1. << "sseg_brightness", 255 >> \in Accesses
  BY Lights
<1>2. s \in Seq(Accesses) /\ Len(s) = 1 /\ s[1] = << "sseg_brightness", 255 >>
  BY <1>1 DEF Full
<1>3. \A m \in 1 .. Len(s) : s[m][1] = "sseg_brightness"
  BY <1>2
<1> QED
  BY <1>2, <1>3, PlainProgram DEF Names

(* The wait of a pass.                                                     *)
LEMMA WaitAt ==
  ASSUME NEW p \in 0 .. Passes, NEW s, s = << << "wait", p >> >>
  PROVE  s \in Seq(Accesses) /\ Program(s) /\ Names(s, {"wait"})
<1>1. << "wait", p >> \in Accesses
  BY OtherAccesses
<1>2. s \in Seq(Accesses) /\ Len(s) = 1 /\ s[1] = << "wait", p >>
  BY <1>1
<1>3. \A m \in 1 .. Len(s) : s[m][1] = "wait"
  BY <1>2
<1> QED
  BY <1>2, <1>3, PlainProgram DEF Names

(* Two programs in a row and their registers.                              *)
LEMMA Join ==
  ASSUME NEW s, NEW t, NEW X, NEW Y, NEW Z, Program(s), Program(t),
         Names(s, X), Names(t, Y), X \subseteq Z, Y \subseteq Z
  PROVE  /\ Program(s \o t) /\ Names(s \o t, Z)
         /\ s \in Seq(Accesses) /\ t \in Seq(Accesses)
         /\ s \o t \in Seq(Accesses)
<1>1. s \in Seq(Accesses) /\ t \in Seq(Accesses)
  BY DEF Program
<1> QED
  BY <1>1, ProgramConcat, NamesConcat

(* What init does for the panel.                                           *)
LEMMA InitAt ==
  Program(init) /\ init \in Seq(Accesses) /\ Names(init, InitNames)
<1>1. PICK a : a = << << "led_period", LedPeriod >>,
                      << "status_led_en", {} >> >>
  OBVIOUS
<1>2. Program(a) /\ Names(a, InitNames)
  <2>1. << "led_period", LedPeriod >> \in Accesses
    <3>1. LedPeriod \in 0 .. PeriodRange - 1
      BY PanelAssumption
    <3> QED
      BY <3>1, Registers, AccessTyped
  <2>2. << "status_led_en", {} >> \in Accesses
    BY Registers, AccessTyped
  <2>3. /\ a \in Seq(Accesses) /\ Len(a) = 2
        /\ a[1][1] = "led_period" /\ a[2][1] = "status_led_en"
    BY <1>1, <2>1, <2>2
  <2>4. \A m \in 1 .. Len(a) : a[m][1] \in {"led_period", "status_led_en"}
    BY <2>3
  <2> QED
    BY <2>3, <2>4, PlainProgram DEF Names, InitNames
<1>3. ASSUME NEW n \in {"bcd_reset", "sseg_reset", "leds1_reset",
                        "leds2_reset"}
      PROVE  Program(Pulse(n)) /\ Names(Pulse(n), InitNames)
  <2>1. Program(Pulse(n))
    BY PulseProgram
  <2>2. Len(Pulse(n)) = 2 /\ Pulse(n)[1][1] = n /\ Pulse(n)[2][1] = n
    BY DEF Pulse
  <2>3. n \in InitNames
    BY DEF InitNames
  <2> QED
    BY <2>1, <2>2, <2>3 DEF Names
<1>4. PICK b : b = << << "await", 0 >> >>
  OBVIOUS
<1>5. Program(b) /\ Names(b, InitNames)
  <2>1. b \in Seq(Accesses) /\ Len(b) = 1 /\ b[1][1] = "await"
    BY <1>4, OtherAccesses
  <2> QED
    BY <2>1, PlainProgram DEF Names, InitNames
<1>6. Program(sseg_init) /\ Names(sseg_init, InitNames)
  <2>1. PICK c : c = Blocks(BlankBlocks, SSEG_N, 2)
    OBVIOUS
  <2>2. Program(c) /\ Names(c, DigitNames)
    BY <2>1, BlankAt
  <2>3. sseg_init = Pulse("sseg_reset") \o c
    BY <2>1 DEF sseg_init, BlankBlocks
  <2>4. DigitNames \subseteq InitNames
    BY DEF DigitNames, InitNames
  <2> QED
    BY <1>3, <2>2, <2>3, <2>4, Join
<1>7. Program(leds_init) /\ Names(leds_init, InitNames)
  BY <1>3, Join DEF leds_init
<1>8. PICK d : d = << << "warn_en", FALSE >> >>
  OBVIOUS
<1>9. Program(d) /\ Names(d, InitNames)
  <2>1. "warn_en" \in DOMAIN Values /\ FALSE \in Values["warn_en"]
    BY Registers
  <2>2. << "warn_en", FALSE >> \in Accesses
    BY <2>1, AccessTyped
  <2>3. d \in Seq(Accesses) /\ Len(d) = 1 /\ d[1][1] = "warn_en"
    BY <1>8, <2>2
  <2> QED
    BY <2>3, PlainProgram DEF Names, InitNames
<1>10. init = ((((a \o Pulse("bcd_reset")) \o b) \o sseg_init) \o leds_init)
              \o d
  BY <1>1, <1>4, <1>8 DEF init
<1>11. /\ Program(a \o Pulse("bcd_reset"))
       /\ Names(a \o Pulse("bcd_reset"), InitNames)
  BY <1>2, <1>3, Join
<1>12. PICK e : e = (a \o Pulse("bcd_reset")) \o b
  OBVIOUS
<1>13. Program(e) /\ Names(e, InitNames)
  BY <1>5, <1>11, <1>12, Join
<1>14. PICK f : f = e \o sseg_init
  OBVIOUS
<1>15. Program(f) /\ Names(f, InitNames)
  BY <1>6, <1>13, <1>14, Join
<1>16. PICK g : g = f \o leds_init
  OBVIOUS
<1>17. Program(g) /\ Names(g, InitNames)
  BY <1>7, <1>15, <1>16, Join
<1>18. init = g \o d
  BY <1>10, <1>12, <1>14, <1>16
<1> QED
  BY <1>9, <1>17, <1>18, Join

(* The cells of the panel, and what pass p wants there.                    *)
Wanted(W, e, p) ==
  \/ \E n \in BarNames, a \in Addresses :
       W = LedWrites(n, a) /\ e = LedRight(n, a, p)
  \/ \E k \in Sseg!Digits : W = DigitWrites(k) /\ e = DigitRight(k, p)
  \/ W = StatusWrites /\ e = StatusRight(p)

(* The last write to an LED in a pass is the one it wants.                 *)
LEMMA BarsLeave ==
  ASSUME NEW n \in BarNames, NEW a \in Addresses, NEW p
  PROVE  Leaves(Bars(p), LedWrites(n, a), LedRight(n, a, p))
<1> DEFINE N == LEDS_N * LEDS_M
           s == BarBlocks(p)
           t == Bars(p)
           r == IF n = "leds1_wr_val" THEN 1 ELSE 3
           W == LedWrites(n, a)
           e == LedRight(n, a, p)
<1>1. /\ N \in Nat /\ 4 \in Sizes /\ 0 .. N - 1 = Addresses
      /\ r \in 1 .. 4
  BY Sized DEF Sizes
<1>2. t \in Seq(Accesses) /\ Laid(t, s, N, 4)
  BY BarsAt
<1>3. ASSUME NEW c \in Addresses, NEW x, x = s[c]
      PROVE  /\ x[1] = LedRight("leds1_wr_val", c, p)
             /\ x[2] = << "leds1_wr_val", LedsOff >>
             /\ x[3] = LedRight("leds2_wr_val", c, p)
             /\ x[4] = << "leds2_wr_val", LedsOff >>
  BY <1>3, BarBlockAt
<1>4. s[a][r] = e
  BY <1>3 DEF BarNames
<1>5. ASSUME NEW c \in Addresses, NEW q \in 1 .. 4, c # a \/ q # r
      PROVE  s[c][q] \notin W
  <2>1. PICK x : x = s[c]
    OBVIOUS
  <2>2. /\ x[1] = LedRight("leds1_wr_val", c, p)
        /\ x[2] = << "leds1_wr_val", LedsOff >>
        /\ x[3] = LedRight("leds2_wr_val", c, p)
        /\ x[4] = << "leds2_wr_val", LedsOff >>
    BY <1>3, <2>1
  <2>3. q = 1 \/ q = 2 \/ q = 3 \/ q = 4
    OBVIOUS
  <2>4. \A y \in W : y[1] = n /\ y[2].sel /\ y[2].addr = a
    BY DEF LedWrites
  <2> HIDE DEF W
  <2>5. CASE q = 2
    BY <2>1, <2>2, <2>4, <2>5 DEF LedsOff
  <2>6. CASE q = 4
    BY <2>1, <2>2, <2>4, <2>6 DEF LedsOff
  <2>7. CASE q = 1
    <3>1. x[1][1] = "leds1_wr_val" /\ x[1][2].addr = c
      BY <2>2 DEF LedRight
    <3>2. n = "leds1_wr_val" => c # a
      BY <1>5, <2>7
    <3> QED
      BY <2>1, <2>4, <2>7, <3>1, <3>2
  <2>8. CASE q = 3
    <3>1. x[3][1] = "leds2_wr_val" /\ x[3][2].addr = c
      BY <2>2 DEF LedRight
    <3>2. n = "leds2_wr_val" => c # a
      BY <1>5, <2>8
    <3> QED
      BY <2>1, <2>4, <2>8, <3>1, <3>2
  <2> QED
    BY <2>3, <2>5, <2>6, <2>7, <2>8
<1> HIDE DEF N, s, t, r, W, e
<1>6. Leaves(t, W, e)
  BY <1>1, <1>2, <1>4, <1>5, LeavesBlocks
<1> QED
  BY <1>6 DEF t, W, e

(* And so for a digit.                                                     *)
LEMMA RowLeaves ==
  ASSUME NEW k \in Sseg!Digits, NEW p \in 0 .. Passes
  PROVE  Leaves(Row(p), DigitWrites(k), DigitRight(k, p))
<1> DEFINE s == RowBlocks(p)
           t == Row(p)
           W == DigitWrites(k)
           e == DigitRight(k, p)
<1>1. /\ SSEG_N \in Nat /\ 2 \in Sizes /\ 0 .. SSEG_N - 1 = Sseg!Digits
      /\ 1 \in 1 .. 2
  BY Sized DEF Sizes
<1>2. t \in Seq(Accesses) /\ Laid(t, s, SSEG_N, 2)
  BY RowAt
<1>3. ASSUME NEW c \in Sseg!Digits, NEW x, x = s[c]
      PROVE  x[1] = DigitRight(c, p) /\ x[2] = << "sseg_wr_val", SsegOff >>
  BY <1>3, RowBlockAt
<1>4. s[k][1] = e
  BY <1>3
<1>5. ASSUME NEW c \in Sseg!Digits, NEW q \in 1 .. 2, c # k \/ q # 1
      PROVE  s[c][q] \notin W
  <2>1. PICK x : x = s[c]
    OBVIOUS
  <2>2. x[1] = DigitRight(c, p) /\ x[2] = << "sseg_wr_val", SsegOff >>
    BY <1>3, <2>1
  <2>3. q = 1 \/ q = 2
    OBVIOUS
  <2>4. \A y \in W : y[2].wr /\ y[2].sel = k
    BY DEF DigitWrites
  <2> HIDE DEF W
  <2>5. CASE q = 2
    BY <2>1, <2>2, <2>4, <2>5 DEF SsegOff
  <2>6. CASE q = 1
    <3>1. x[1][2].sel = c
      BY <2>2 DEF DigitRight
    <3>2. c # k
      BY <1>5, <2>6
    <3> QED
      BY <2>1, <2>4, <2>6, <3>1, <3>2
  <2> QED
    BY <2>3, <2>5, <2>6
<1> HIDE DEF s, t, W, e
<1>6. Leaves(t, W, e)
  BY <1>1, <1>2, <1>4, <1>5, LeavesBlocks
<1> QED
  BY <1>6 DEF t, W, e

(* The names of what writes a cell.                                        *)
LEMMA WantedNames ==
  ASSUME NEW W, NEW e, NEW p, Wanted(W, e, p)
  PROVE  \/ \A y \in W : y[1] \in BarNames
         \/ \A y \in W : y[1] \in DigitNames
         \/ \A y \in W : y[1] = "status_led_en"
BY DEF Wanted, LedWrites, DigitWrites, StatusWrites, DigitNames

(* A pass of the loop writes all its cells and does not wait.              *)
LEMMA ShownAt ==
  ASSUME NEW p \in 0 .. Passes, NEW s, s = Shown(p)
  PROVE  /\ s \in Seq(Accesses) /\ Program(s) /\ Silent(s, Waits)
         /\ \A n \in {"leds1_brightness", "leds2_brightness"} :
              \A m \in 1 .. Len(s) : s[m][1] # n
         /\ \A W, e : Wanted(W, e, p) => Leaves(s, W, e)
<1>1. PICK a : a = Lead(p)
  OBVIOUS
<1>2. PICK b : b = Bars(p)
  OBVIOUS
<1>3. PICK c : c = Row(p)
  OBVIOUS
<1>4. PICK d : d = a \o b
  OBVIOUS
<1>5. s = d \o c
  BY <1>1, <1>2, <1>3, <1>4 DEF Shown
<1>6. /\ Program(a) /\ Names(a, {"status_led_en"}) /\ Len(a) = 2
      /\ a[2] = StatusRight(p) /\ a \in Seq(Accesses)
  BY <1>1, LeadAt
<1>7. Program(b) /\ Names(b, BarNames) /\ b \in Seq(Accesses)
  BY <1>2, BarsAt
<1>8. Program(c) /\ Names(c, DigitNames) /\ c \in Seq(Accesses)
  BY <1>3, RowAt
<1> DEFINE X == {"status_led_en"} \cup BarNames
           Z == {"status_led_en"} \cup BarNames \cup DigitNames
<1>9. Program(d) /\ Names(d, X) /\ d \in Seq(Accesses)
  BY <1>4, <1>6, <1>7, Join
<1>10. Program(s) /\ Names(s, Z) /\ s \in Seq(Accesses)
  BY <1>5, <1>8, <1>9, Join
<1>11. Silent(s, Waits)
  BY <1>10, NamesSilent DEF Waits, BarNames, DigitNames
<1>12. \A n \in {"leds1_brightness", "leds2_brightness"} :
         \A m \in 1 .. Len(s) : s[m][1] # n
  BY <1>10 DEF Names, BarNames, DigitNames
<1> HIDE DEF X, Z
<1>13. ASSUME NEW W, NEW e, Wanted(W, e, p)
       PROVE  Leaves(s, W, e)
  <2>1. CASE \E n \in BarNames, v \in Addresses :
               W = LedWrites(n, v) /\ e = LedRight(n, v, p)
    <3>1. Leaves(b, W, e)
      BY <1>2, <2>1, BarsLeave
    <3>2. Leaves(d, W, e)
      BY <1>4, <1>6, <1>7, <3>1, LeavesLast
    <3>3. \A y \in W : y[1] \notin DigitNames
      BY <2>1 DEF LedWrites, BarNames, DigitNames
    <3>4. Silent(c, W)
      BY <1>8, <3>3, NamesSilent
    <3> QED
      BY <1>5, <1>8, <1>9, <3>2, <3>4, LeavesFirst
  <2>2. CASE \E k \in Sseg!Digits : W = DigitWrites(k) /\ e = DigitRight(k, p)
    <3>1. Leaves(c, W, e)
      BY <1>3, <2>2, RowLeaves
    <3> QED
      BY <1>5, <1>8, <1>9, <3>1, LeavesLast
  <2>3. CASE W = StatusWrites /\ e = StatusRight(p)
    <3>1. Leaves(a, W, e)
      <4>1. 2 \in 1 .. Len(a) /\ a[2] = e /\ \A m \in 2 + 1 .. Len(a) : FALSE
        BY <1>6, <2>3
      <4> QED
        BY <4>1 DEF Leaves
    <3>2. \A y \in W : y[1] \notin BarNames /\ y[1] \notin DigitNames
      BY <2>3 DEF StatusWrites, BarNames, DigitNames
    <3>3. Silent(b, W) /\ Silent(c, W)
      BY <1>7, <1>8, <3>2, NamesSilent
    <3>4. Leaves(d, W, e)
      BY <1>4, <1>6, <1>7, <3>1, <3>3, LeavesFirst
    <3> QED
      BY <1>5, <1>8, <1>9, <3>3, <3>4, LeavesFirst
  <2> QED
    BY <1>13, <2>1, <2>2, <2>3 DEF Wanted
<1> QED
  BY <1>10, <1>11, <1>12, <1>13

(***************************************************************************)
(* The brightness of a bar is set before anything is shown, and kept.      *)
(***************************************************************************)
Bright(s, n, set) ==
  /\ \A m \in 1 .. Len(s) : s[m][1] = n => s[m] = << n, 255 >>
  /\ \/ set
     \/ \E k \in 1 .. Len(s) :
          s[k] = << n, 255 >> /\ \A m \in 1 .. k - 1 : s[m] \notin Waits

Unnamed(s, n) == \A m \in 1 .. Len(s) : s[m][1] # n

(* A brightness set before a wait stays so with more behind,               *)
LEMMA BrightFirst ==
  ASSUME NEW s \in Seq(Accesses), NEW t \in Seq(Accesses), NEW n,
         Bright(s, n, FALSE), Unnamed(t, n)
  PROVE  Bright(s \o t, n, FALSE)
<1> DEFINE u == s \o t
<1>1. /\ Len(s) \in Nat /\ Len(t) \in Nat /\ Len(u) = Len(s) + Len(t)
      /\ \A m \in 1 .. Len(s) : u[m] = s[m]
  BY ConcatAt
<1>2. \A m \in 1 .. Len(u) :
        \/ m \in 1 .. Len(s) /\ u[m] = s[m]
        \/ \E k \in 1 .. Len(t) : m = Len(s) + k /\ u[m] = t[k]
  BY PlaceInConcat
<1> HIDE DEF u
<1>3. \A m \in 1 .. Len(u) : u[m][1] = n => u[m] = << n, 255 >>
  BY <1>2 DEF Bright, Unnamed
<1>4. PICK k \in 1 .. Len(s) :
        s[k] = << n, 255 >> /\ \A m \in 1 .. k - 1 : s[m] \notin Waits
  BY DEF Bright
<1>5. k \in 1 .. Len(u) /\ u[k] = << n, 255 >>
  BY <1>1, <1>4
<1>6. \A m \in 1 .. k - 1 : m \in 1 .. Len(s)
  BY <1>1
<1>7. \A m \in 1 .. k - 1 : u[m] \notin Waits
  BY <1>1, <1>4, <1>6
<1>8. Bright(u, n, FALSE)
  BY <1>3, <1>5, <1>7 DEF Bright
<1> QED
  BY <1>8 DEF u

(* and with more before that does not wait,                                *)
LEMMA BrightAfter ==
  ASSUME NEW s \in Seq(Accesses), NEW t \in Seq(Accesses), NEW n,
         Bright(t, n, FALSE), Unnamed(s, n), Silent(s, Waits)
  PROVE  Bright(s \o t, n, FALSE)
<1> DEFINE u == s \o t
<1>1. /\ Len(s) \in Nat /\ Len(t) \in Nat /\ Len(u) = Len(s) + Len(t)
      /\ \A m \in 1 .. Len(s) : u[m] = s[m]
      /\ \A m \in 1 .. Len(t) : u[Len(s) + m] = t[m]
  BY ConcatAt
<1>2. \A m \in 1 .. Len(u) :
        \/ m \in 1 .. Len(s) /\ u[m] = s[m]
        \/ \E k \in 1 .. Len(t) : m = Len(s) + k /\ u[m] = t[k]
  BY PlaceInConcat
<1> HIDE DEF u
<1>3. \A m \in 1 .. Len(u) : u[m][1] = n => u[m] = << n, 255 >>
  BY <1>2 DEF Bright, Unnamed
<1>4. PICK k \in 1 .. Len(t) :
        t[k] = << n, 255 >> /\ \A m \in 1 .. k - 1 : t[m] \notin Waits
  BY DEF Bright
<1>5. Len(s) + k \in 1 .. Len(u) /\ u[Len(s) + k] = << n, 255 >>
  BY <1>1, <1>4
<1>6. ASSUME NEW m \in 1 .. (Len(s) + k) - 1
      PROVE  u[m] \notin Waits
  <2>1. m \in 1 .. Len(u)
    BY <1>1
  <2>2. CASE m \in 1 .. Len(s) /\ u[m] = s[m]
    BY <2>2 DEF Silent
  <2>3. CASE \E l \in 1 .. Len(t) : m = Len(s) + l /\ u[m] = t[l]
    <3>1. PICK l \in 1 .. Len(t) : m = Len(s) + l /\ u[m] = t[l]
      BY <2>3
    <3>2. l \in 1 .. k - 1
      BY <1>1, <3>1
    <3> QED
      BY <1>4, <3>1, <3>2
  <2> QED
    BY <1>2, <2>1, <2>2, <2>3
<1>7. Bright(u, n, FALSE)
  BY <1>3, <1>5, <1>6 DEF Bright
<1> QED
  BY <1>7 DEF u

(* and after an access.                                                    *)
LEMMA BrightTail ==
  ASSUME NEW s \in Seq(Accesses), s # << >>, NEW n, NEW set, NEW now,
         Bright(s, n, set), Head(s) = << n, 255 >> => now, set => now
  PROVE  Bright(Tail(s), n, now)
<1> DEFINE t == Tail(s)
<1>1. /\ Len(s) \in Nat \ {0} /\ Len(t) = Len(s) - 1
      /\ Head(s) = s[1]
      /\ \A m \in 1 .. Len(s) - 1 : t[m] = s[m + 1]
  BY TailAt
<1> HIDE DEF t
<1>2. ASSUME NEW m \in 1 .. Len(t), t[m][1] = n
      PROVE  t[m] = << n, 255 >>
  <2>1. m + 1 \in 1 .. Len(s) /\ t[m] = s[m + 1]
    BY <1>1
  <2> QED
    BY <1>2, <2>1 DEF Bright
<1>3. ASSUME ~now
      PROVE  \E k \in 1 .. Len(t) :
               t[k] = << n, 255 >> /\ \A m \in 1 .. k - 1 : t[m] \notin Waits
  <2>1. PICK k \in 1 .. Len(s) :
          s[k] = << n, 255 >> /\ \A m \in 1 .. k - 1 : s[m] \notin Waits
    BY <1>3 DEF Bright
  <2>2. k # 1
    BY <1>1, <1>3, <2>1
  <2>3. k - 1 \in 1 .. Len(t) /\ (k - 1) + 1 = k
    BY <1>1, <2>1, <2>2
  <2>4. t[k - 1] = << n, 255 >>
    BY <1>1, <2>1, <2>3
  <2>5. ASSUME NEW m \in 1 .. (k - 1) - 1
        PROVE  t[m] \notin Waits
    <3>1. m + 1 \in 1 .. k - 1 /\ m \in 1 .. Len(s) - 1
      BY <1>1, <2>3
    <3> QED
      BY <1>1, <2>1, <3>1
  <2> QED
    BY <2>3, <2>4, <2>5
<1>4. Bright(t, n, now)
  BY <1>2, <1>3 DEF Bright
<1> QED
  BY <1>4 DEF t

(* A sequence without the register does not write it.                      *)
LEMMA NamesUnnamed ==
  ASSUME NEW s, NEW X, NEW n, Names(s, X), n \notin X
  PROVE  Unnamed(s, n)
BY DEF Names, Unnamed

(* So does the part of test before its loop.                               *)
LEMMA ShownFirstAt ==
  ASSUME NEW s, s = ShownFirst
  PROVE  /\ s \in Seq(Accesses) /\ Program(s) /\ Silent(s, Waits)
         /\ \A W, e : Wanted(W, e, 0) => Leaves(s, W, e)
         /\ \A n \in {"leds1_brightness", "leds2_brightness"} :
              Bright(s, n, FALSE)
<1>0. 0 \in 0 .. Passes
  BY PanelAssumption
<1>1. PICK a : a = Intro
  OBVIOUS
<1>2. PICK b : b = Bars(0)
  OBVIOUS
<1>3. PICK c : c = Row(0)
  OBVIOUS
<1>4. PICK d : d = a \o b
  OBVIOUS
<1>5. PICK f : f = Full
  OBVIOUS
<1>6. PICK g : g = d \o f
  OBVIOUS
<1>7. s = g \o c
  BY <1>1, <1>2, <1>3, <1>4, <1>5, <1>6 DEF ShownFirst
<1>8. /\ Program(a) /\ Names(a, IntroNames) /\ Len(a) = 5
      /\ a[3] = StatusRight(0) /\ a \in Seq(Accesses)
      /\ a[4] = << "leds1_brightness", 255 >>
      /\ a[5] = << "leds2_brightness", 255 >>
  BY <1>1, IntroAt
<1>9. Program(b) /\ Names(b, BarNames) /\ b \in Seq(Accesses)
  BY <1>2, BarsAt
<1>10. Program(c) /\ Names(c, DigitNames) /\ c \in Seq(Accesses)
  BY <1>0, <1>3, RowAt
<1>11. Program(f) /\ Names(f, {"sseg_brightness"}) /\ f \in Seq(Accesses)
  BY <1>5, FullAt
<1> DEFINE X == IntroNames \cup BarNames
           Y == X \cup {"sseg_brightness"}
           Z == Y \cup DigitNames
<1>20. /\ IntroNames \subseteq X /\ BarNames \subseteq X /\ X \subseteq Y
      /\ {"sseg_brightness"} \subseteq Y /\ Y \subseteq Z
      /\ DigitNames \subseteq Z
  OBVIOUS
<1>21. "wait" \notin Z
  BY DEF IntroNames, BarNames, DigitNames
<1> HIDE DEF X, Y, Z
<1>12. Program(d) /\ Names(d, X) /\ d \in Seq(Accesses)
  BY <1>4, <1>8, <1>9, <1>20, Join
<1>13. Program(g) /\ Names(g, Y) /\ g \in Seq(Accesses)
  BY <1>6, <1>11, <1>12, <1>20, Join
<1>14. Program(s) /\ Names(s, Z) /\ s \in Seq(Accesses)
  BY <1>7, <1>10, <1>13, <1>20, Join
<1>15. Silent(s, Waits)
  BY <1>14, <1>21, NamesSilent DEF Waits
<1>16. ASSUME NEW W, NEW e, Wanted(W, e, 0)
       PROVE  Leaves(s, W, e)
  <2>1. CASE \E n \in BarNames, v \in Addresses :
               W = LedWrites(n, v) /\ e = LedRight(n, v, 0)
    <3>1. Leaves(b, W, e)
      BY <1>2, <2>1, BarsLeave
    <3>2. Leaves(d, W, e)
      BY <1>4, <1>8, <1>9, <3>1, LeavesLast
    <3>3. \A y \in W : /\ y[1] \notin DigitNames
                       /\ y[1] \notin {"sseg_brightness"}
      BY <2>1 DEF LedWrites, BarNames, DigitNames
    <3>4. Silent(c, W) /\ Silent(f, W)
      BY <1>10, <1>11, <3>3, NamesSilent
    <3>5. Leaves(g, W, e)
      BY <1>6, <1>11, <1>12, <3>2, <3>4, LeavesFirst
    <3> QED
      BY <1>7, <1>10, <1>13, <3>4, <3>5, LeavesFirst
  <2>2. CASE \E k \in Sseg!Digits : W = DigitWrites(k) /\ e = DigitRight(k, 0)
    <3>1. Leaves(c, W, e)
      BY <1>0, <1>3, <2>2, RowLeaves
    <3> QED
      BY <1>7, <1>10, <1>13, <3>1, LeavesLast
  <2>3. CASE W = StatusWrites /\ e = StatusRight(0)
    <3>1. \A y \in W : y[1] = "status_led_en"
      BY <2>3 DEF StatusWrites
    <3>2. Leaves(a, W, e)
      <4>1. a[4] \notin W /\ a[5] \notin W
        BY <1>8, <3>1
      <4>2. 3 \in 1 .. Len(a) /\ a[3] = e
        BY <1>8, <2>3
      <4>3. \A m \in 3 + 1 .. Len(a) : m = 4 \/ m = 5
        BY <1>8
      <4>4. \A m \in 3 + 1 .. Len(a) : a[m] \notin W
        BY <4>1, <4>3
      <4> QED
        BY <4>2, <4>4 DEF Leaves
    <3>3. \A y \in W : /\ y[1] \notin BarNames /\ y[1] \notin DigitNames
                       /\ y[1] \notin {"sseg_brightness"}
      BY <3>1 DEF BarNames, DigitNames
    <3>4. Silent(b, W) /\ Silent(c, W) /\ Silent(f, W)
      BY <1>9, <1>10, <1>11, <3>3, NamesSilent
    <3>5. Leaves(d, W, e)
      BY <1>4, <1>8, <1>9, <3>2, <3>4, LeavesFirst
    <3>6. Leaves(g, W, e)
      BY <1>6, <1>11, <1>12, <3>4, <3>5, LeavesFirst
    <3> QED
      BY <1>7, <1>10, <1>13, <3>4, <3>6, LeavesFirst
  <2> QED
    BY <1>16, <2>1, <2>2, <2>3 DEF Wanted
<1>17. ASSUME NEW n \in {"leds1_brightness", "leds2_brightness"}
       PROVE  Bright(s, n, FALSE)
  <2>1. Unnamed(b, n) /\ Unnamed(c, n) /\ Unnamed(f, n)
    BY <1>9, <1>10, <1>11, NamesUnnamed DEF BarNames, DigitNames
  <2>2. Bright(a, n, FALSE)
    <3>1. \A m \in 1 .. Len(a) : m = 1 \/ m = 2 \/ m = 3 \/ m = 4 \/ m = 5
      BY <1>8
    <3>2. a[1][1] # n /\ a[2][1] # n /\ a[3][1] # n
      BY <1>1, IntroAt DEF StatusRight
    <3>3. \A m \in 1 .. Len(a) : a[m][1] = n => a[m] = << n, 255 >>
      BY <1>8, <3>1, <3>2
    <3>4. Silent(a, Waits)
      BY <1>8, NamesSilent DEF Waits, IntroNames
    <3>5. \E k \in 1 .. Len(a) : a[k] = << n, 255 >>
      <4>1. 4 \in 1 .. Len(a) /\ 5 \in 1 .. Len(a)
        BY <1>8
      <4> QED
        BY <1>8, <4>1
    <3> QED
      BY <1>8, <3>3, <3>4, <3>5 DEF Bright, Silent
  <2>3. Bright(d, n, FALSE)
    BY <1>4, <1>8, <1>9, <2>1, <2>2, BrightFirst
  <2>4. Bright(g, n, FALSE)
    BY <1>6, <1>11, <1>12, <2>1, <2>3, BrightFirst
  <2> QED
    BY <1>7, <1>10, <1>13, <2>1, <2>4, BrightFirst
<1> QED
  BY <1>14, <1>15, <1>16, <1>17

(* A pass shows what it wants at its wait.                                 *)
LEMMA PassAt ==
  ASSUME NEW q \in 0 .. Passes, NEW s, s = Pass(q)
  PROVE  /\ Program(s)
         /\ \A n \in {"leds1_brightness", "leds2_brightness"} :
              \A m \in 1 .. Len(s) : s[m][1] # n
         /\ \A p \in 0 .. Passes : \A W, e :
              Wanted(W, e, p) => Settles(s, p, W, e)
<1>1. PICK a : a = Shown(q)
  OBVIOUS
<1>2. PICK b : b = << << "wait", q >> >>
  OBVIOUS
<1>3. s = a \o b
  BY <1>1, <1>2 DEF Pass, Shown, Lead
<1>4. /\ a \in Seq(Accesses) /\ Program(a) /\ Silent(a, Waits)
      /\ \A n \in {"leds1_brightness", "leds2_brightness"} :
           \A m \in 1 .. Len(a) : a[m][1] # n
      /\ \A W, e : Wanted(W, e, q) => Leaves(a, W, e)
  BY <1>1, ShownAt
<1>5. b \in Seq(Accesses) /\ Program(b) /\ Names(b, {"wait"})
  BY <1>2, WaitAt
<1>6. Program(s)
  BY <1>3, <1>4, <1>5, ProgramConcat
<1>7. ASSUME NEW n \in {"leds1_brightness", "leds2_brightness"},
             NEW m \in 1 .. Len(s)
      PROVE  s[m][1] # n
  <2>1. \/ m \in 1 .. Len(a) /\ s[m] = a[m]
        \/ \E k \in 1 .. Len(b) : m = Len(a) + k /\ s[m] = b[k]
    BY <1>3, <1>4, <1>5, PlaceInConcat
  <2> QED
    BY <1>4, <1>5, <2>1 DEF Names
<1>8. ASSUME NEW p \in 0 .. Passes, NEW W, NEW e, Wanted(W, e, p)
      PROVE  Settles(s, p, W, e)
  <2>1. << "wait", q >> \in Accesses
    BY OtherAccesses
  <2>2. p = q => Leaves(a, W, e)
    BY <1>4, <1>8
  <2>3. Settles(a \o << << "wait", q >> >>, p, W, e)
    BY <1>4, <2>1, <2>2, SettlesAtEnd
  <2> QED
    BY <1>2, <1>3, <2>3
<1> QED
  BY <1>6, <1>7, <1>8

(* The accesses before the first pass of the loop.                         *)
LEMMA FirstAt ==
  ASSUME NEW s, s = init \o Prologue
  PROVE  /\ Program(s)
         /\ \A n \in {"leds1_brightness", "leds2_brightness"} :
              Bright(s, n, FALSE)
         /\ \A p \in 0 .. Passes : \A W, e :
              Wanted(W, e, p) => Settles(s, p, W, e)
<1>0. 0 \in 0 .. Passes
  BY PanelAssumption
<1>1. PICK a : a = ShownFirst
  OBVIOUS
<1>2. PICK b : b = << << "wait", 0 >> >>
  OBVIOUS
<1>3. PICK c : c = Blocks(ConvertBlocks, Len(Conversions),
                          Len(bcd_convert(0)))
  OBVIOUS
<1>4. PICK d : d = a \o b
  OBVIOUS
<1>5. PICK f : f = d \o c
  OBVIOUS
<1>6. f = Prologue
  BY <1>1, <1>2, <1>3, <1>4, <1>5
     DEF Prologue, ShownFirst, Intro, Full, ConvertBlocks
<1>7. s = init \o f
  BY <1>6
<1>8. /\ a \in Seq(Accesses) /\ Program(a) /\ Silent(a, Waits)
      /\ \A W, e : Wanted(W, e, 0) => Leaves(a, W, e)
      /\ \A n \in {"leds1_brightness", "leds2_brightness"} :
           Bright(a, n, FALSE)
  BY <1>1, ShownFirstAt
<1>9. b \in Seq(Accesses) /\ Program(b) /\ Names(b, {"wait"})
  BY <1>0, <1>2, WaitAt
<1>10. c \in Seq(Accesses) /\ Program(c) /\ Names(c, ConvertNames)
  BY <1>3, ConvertsAt
<1>11. Program(init) /\ init \in Seq(Accesses) /\ Names(init, InitNames)
  BY InitAt
<1>12. Program(d) /\ d \in Seq(Accesses)
  BY <1>4, <1>8, <1>9, ProgramConcat DEF Program
<1>13. Program(f) /\ f \in Seq(Accesses)
  BY <1>5, <1>10, <1>12, ProgramConcat DEF Program
<1>14. Program(s)
  BY <1>7, <1>11, <1>13, ProgramConcat
<1>15. Silent(init, Waits) /\ Silent(c, Waits)
  <2>1. \A y \in Waits : y[1] \notin InitNames /\ y[1] \notin ConvertNames
    BY DEF Waits, InitNames, ConvertNames
  <2> QED
    BY <1>10, <1>11, <2>1, NamesSilent
<1>16. ASSUME NEW n \in {"leds1_brightness", "leds2_brightness"}
       PROVE  Bright(s, n, FALSE)
  <2>1. Unnamed(init, n) /\ Unnamed(b, n) /\ Unnamed(c, n)
    BY <1>9, <1>10, <1>11, NamesUnnamed DEF InitNames, ConvertNames
  <2>2. Bright(d, n, FALSE)
    BY <1>4, <1>8, <1>9, <2>1, BrightFirst
  <2>3. Bright(f, n, FALSE)
    BY <1>5, <1>10, <1>12, <2>1, <2>2, BrightFirst
  <2> QED
    BY <1>7, <1>11, <1>13, <1>15, <2>1, <2>3, BrightAfter
<1>17. ASSUME NEW p \in 0 .. Passes, NEW W, NEW e, Wanted(W, e, p)
       PROVE  Settles(s, p, W, e)
  <2>1. << "wait", 0 >> \in Accesses
    BY <1>0, OtherAccesses
  <2>2. p = 0 => Leaves(a, W, e)
    BY <1>8, <1>17
  <2>3. Settles(a \o << << "wait", 0 >> >>, p, W, e)
    BY <1>8, <2>1, <2>2, SettlesAtEnd
  <2>4. Settles(d, p, W, e)
    BY <1>2, <1>4, <2>3
  <2>5. Settles(f, p, W, e)
    BY <1>5, <1>10, <1>12, <1>15, <2>4, SettlesBefore
  <2> QED
    BY <1>7, <1>11, <1>13, <1>15, <2>5, SettlesAfter
<1> QED
  BY <1>14, <1>16, <1>17

(***************************************************************************)
(* The step of the processor, and the types.                               *)
(***************************************************************************)
LEMMA AccessOf ==
  ASSUME NEW e \in Accesses
  PROVE  \/ e = << "await", 0 >>
         \/ \E p \in 0 .. Passes : e = << "wait", p >>
         \/ \E v \in Numbers : e = << "bcd", v >>
         \/ \E n \in DOMAIN Values : \E v \in Values[n] : e = << n, v >>
BY DEF Accesses

(* The registers are none of the other accesses.                           *)
LEMMA RegisterNames ==
  /\ {"await", "wait", "bcd"} \cap DOMAIN Values = {}
  /\ DOMAIN Values = {"led_period", "status_led_en", "bcd_reset", "bcd_start",
                      "bcd_bin", "sseg_reset", "sseg_brightness",
                      "sseg_wr_val", "leds1_reset", "leds2_reset",
                      "leds1_brightness", "leds2_brightness",
                      "leds1_wr_val", "leds2_wr_val",
                      "warn_brightness", "warn_en"}
BY DEF Values

RegTyped == /\ reg = [n \in DOMAIN Values |-> reg[n]]
            /\ \A n \in DOMAIN Values : reg[n] \in Values[n]

StoreStep == /\ todo # << >> /\ Head(todo)[1] \in DOMAIN Values
             /\ Head(todo)[2] \in Values[Head(todo)[1]]
             /\ Head(todo) = << Head(todo)[1], Head(todo)[2] >>
             /\ reg' = [reg EXCEPT ![Head(todo)[1]] = Head(todo)[2]]
             /\ todo' = Tail(todo) /\ i' = i

SkipStep == /\ todo # << >>
            /\ \/ Head(todo) = << "await", 0 >> /\ Bcd!ready
               \/ Head(todo)[1] \in {"bcd", "wait"}
            /\ reg' = reg /\ todo' = Tail(todo) /\ i' = i

KeepStep == reg' = reg /\ todo' = todo /\ i' = i

PassStep == /\ todo = << >> /\ i' = (i % Passes) + 1
            /\ todo' = Pass(i') /\ reg' = reg

(* A step of the panel is one of the four.                                 *)
LEMMA StepOf ==
  ASSUME todo \in Seq(Accesses), Next
  PROVE  /\ Hardware
         /\ StoreStep \/ SkipStep \/ KeepStep \/ PassStep
         /\ idle' = 0 \/ (idle' = idle + 1 /\ idle + 1 < MaxIdle)
<1>1. Hardware
  BY DEF Next
<1>2. idle' = 0 \/ (idle' = idle + 1 /\ idle + 1 < MaxIdle)
  BY DEF Next, Stall
<1>3. CASE Store
  <2>1. todo # << >> /\ Head(todo) \in Accesses
    BY <1>3, TailAt DEF Store
  <2>2. Head(todo)[1] \notin {"await", "wait", "bcd"}
    BY <1>3 DEF Store, Polling, Waiting, Reading, Current
  <2>3. PICK n \in DOMAIN Values :
          \E v \in Values[n] : Head(todo) = << n, v >>
    BY <2>1, <2>2, AccessOf
  <2>4. StoreStep
    BY <1>3, <2>1, <2>3 DEF Store, StoreStep, Current
  <2> QED
    BY <1>1, <1>2, <2>4
<1>4. CASE Poll
  <2>1. Head(todo) \in Accesses /\ Head(todo)[1] = "await" /\ todo # << >>
    BY <1>4, TailAt DEF Poll, Polling, Current
  <2>2. Head(todo) = << "await", 0 >>
    BY <2>1, AccessOf, RegisterNames
  <2>3. SkipStep \/ KeepStep
    BY <1>4, <2>1, <2>2 DEF Poll, SkipStep, KeepStep
  <2> QED
    BY <1>1, <1>2, <2>3
<1>5. CASE Read
  BY <1>1, <1>2, <1>5 DEF Read, Reading, Current, SkipStep
<1>6. CASE WaitEnds
  BY <1>1, <1>2, <1>6 DEF WaitEnds, Waiting, Current, SkipStep
<1>7. CASE NextPass
  BY <1>1, <1>2, <1>7 DEF NextPass, PassStep
<1>8. CASE UNCHANGED firmware
  BY <1>1, <1>2, <1>8 DEF firmware, KeepStep
<1> QED
  BY <1>3, <1>4, <1>5, <1>6, <1>7, <1>8 DEF Next, Access

(* A store changes its register, within its range.                         *)
LEMMA StoreTyped ==
  ASSUME RegTyped, StoreStep
  PROVE  /\ RegTyped'
         /\ \A n \in DOMAIN Values :
              reg'[n] = IF n = Head(todo)[1] THEN Head(todo)[2] ELSE reg[n]
<1>1. \A n \in DOMAIN Values :
        reg'[n] = IF n = Head(todo)[1] THEN Head(todo)[2] ELSE reg[n]
  BY DEF StoreStep, RegTyped
<1>2. reg' = [n \in DOMAIN Values |-> reg'[n]]
  BY DEF StoreStep, RegTyped
<1>3. \A n \in DOMAIN Values : reg'[n] \in Values[n]
  BY <1>1 DEF StoreStep, RegTyped
<1> QED
  BY <1>1, <1>2, <1>3 DEF RegTyped

(* The ranges, register by register.                                       *)
LEMMA RegOf ==
  ASSUME RegTyped
  PROVE  /\ reg.led_period \in 0 .. PeriodRange - 1
         /\ reg.status_led_en \in SUBSET (0 .. 3)
         /\ reg.bcd_reset \in BOOLEAN /\ reg.bcd_start \in BOOLEAN
         /\ reg.bcd_bin \in Numbers
         /\ reg.sseg_reset \in BOOLEAN
         /\ reg.leds1_reset \in BOOLEAN /\ reg.leds2_reset \in BOOLEAN
         /\ reg.leds1_wr_val \in Pixels /\ reg.leds2_wr_val \in Pixels
         /\ reg.sseg_wr_val \in [wr : BOOLEAN, sel : Sseg!Digits,
                                 glyph : Sseg!Glyphs]
BY Registers DEF RegTyped

(* The dividers.                                                           *)
LEMMA Divided ==
  ASSUME NEW r \in 0 .. PeriodRange - 1, NEW m \in 0 .. PeriodRange - 1
  PROVE  /\ (IF r = m THEN 0 ELSE (r + 1) % PeriodRange)
              \in 0 .. PeriodRange - 1
         /\ (r = m) \in BOOLEAN
<1>1. PeriodRange \in Nat \ {0}
  BY PanelAssumption
<1>2. (r + 1) % PeriodRange \in 0 .. PeriodRange - 1
  BY <1>1
<1> QED
  BY <1>1, <1>2

(* The scan of a bar.                                                      *)
LEMMA Scanned ==
  ASSUME NEW m \in 0 .. LEDS_M - 1, NEW n \in 0 .. LEDS_N - 1
  PROVE  /\ m * LEDS_N + n \in Addresses
         /\ n + 1 # LEDS_N => n + 1 \in 0 .. LEDS_N - 1
         /\ m + 1 # LEDS_M => m + 1 \in 0 .. LEDS_M - 1
         /\ m * LEDS_N + (n + 1) = (m * LEDS_N + n) + 1
         /\ n + 1 = LEDS_N => (m + 1) * LEDS_N + 0 = (m * LEDS_N + n) + 1
         /\ 0 * LEDS_N + 0 = 0
<1>1. LEDS_N \in Nat \ {0} /\ LEDS_M \in Nat \ {0} /\ LEDS_N * LEDS_M \in Nat
      /\ Addresses = 0 .. LEDS_N * LEDS_M - 1
  BY Sized
<1>2. PICK d \in Nat : LEDS_M = m + 1 + d
  <2>1. LEDS_M - (m + 1) \in Nat /\ LEDS_M = m + 1 + (LEDS_M - (m + 1))
    BY <1>1
  <2> QED
    BY <2>1
<1>3. LEDS_N * LEDS_M = m * LEDS_N + LEDS_N + d * LEDS_N
  BY <1>1, <1>2
<1>4. m * LEDS_N \in Nat /\ d * LEDS_N \in Nat
  BY <1>1
<1>5. m * LEDS_N + n \in 0 .. LEDS_N * LEDS_M - 1
  BY <1>1, <1>3, <1>4
<1>6. (m + 1) * LEDS_N = m * LEDS_N + LEDS_N
  BY <1>1
<1> QED
  BY <1>1, <1>4, <1>5, <1>6

(* What a bit or a digit is after the pending write, which the next clock  *)
(* makes.                                                                  *)
LedNow(n, a) ==
  IF reg[n].sel /\ reg[n].addr = a THEN reg[n].en
  ELSE IF n = "leds1_wr_val" THEN leds1_en[a] ELSE leds2_en[a]

DigitNow(k) == IF reg.sseg_wr_val.wr /\ reg.sseg_wr_val.sel = k
               THEN reg.sseg_wr_val.glyph ELSE sseg_arr[k]

(* A clock of the first bar makes the pending write.                       *)
LEMMA Bar1Next ==
  ASSUME RegTyped, Bar1!TypeOK, BarsClock
  PROVE  /\ Bar1!TypeOK'
         /\ \A a \in Addresses : leds1_en'[a] = LedNow("leds1_wr_val", a)
<1>1. /\ reg.led_period \in 0 .. PeriodRange - 1
      /\ reg.leds1_reset \in BOOLEAN /\ reg.leds1_wr_val \in Pixels
  BY RegOf
<1>2. /\ leds1_r \in 0 .. PeriodRange - 1 /\ leds1_tick \in BOOLEAN
      /\ leds1_en \in [Addresses -> BOOLEAN]
      /\ leds1_n \in 0 .. LEDS_N - 1 /\ leds1_m \in 0 .. LEDS_M - 1
      /\ leds1_addr = leds1_m * LEDS_N + leds1_n
  BY DEF Bar1!TypeOK, Bar1!Divider!TypeOK, Addresses
<1>3. leds1_en' = IF reg.leds1_wr_val.sel
                  THEN [leds1_en EXCEPT
                          ![reg.leds1_wr_val.addr] = reg.leds1_wr_val.en]
                  ELSE leds1_en
  BY DEF BarsClock, Bar1!Write
<1>4. leds1_en' \in [Addresses -> BOOLEAN]
  BY <1>1, <1>2, <1>3 DEF Pixels
<1>5. \A a \in Addresses : leds1_en'[a] = LedNow("leds1_wr_val", a)
  BY <1>1, <1>2, <1>3 DEF Pixels, LedNow
<1>6. LEDS_N \in Nat \ {0} /\ LEDS_M \in Nat \ {0} /\ PeriodRange \in Nat \ {0}
  BY PanelAssumption
<1>7. CASE Bar1!Reset
  <2>1. leds1_r' = 0 /\ leds1_tick' = FALSE
    BY <1>7 DEF Bar1!Reset, Bar1!Divider!Reset
  <2>2. leds1_n' = 0 /\ leds1_m' = 0 /\ leds1_addr' = 0
    BY <1>7 DEF Bar1!Reset
  <2>3. 0 * LEDS_N + 0 = 0
    BY <1>2, Scanned
  <2>4. /\ 0 \in 0 .. LEDS_N - 1 /\ 0 \in 0 .. LEDS_M - 1
        /\ 0 \in 0 .. PeriodRange - 1
    BY <1>6
  <2> QED
    BY <1>4, <1>5, <2>1, <2>2, <2>3, <2>4
       DEF Bar1!TypeOK, Bar1!Divider!TypeOK, Addresses
<1>8. CASE Bar1!Clock(reg.led_period)
  <2>1. leds1_r' \in 0 .. PeriodRange - 1 /\ leds1_tick' \in BOOLEAN
    BY <1>1, <1>2, <1>8, Divided DEF Bar1!Clock, Bar1!Divider!Clock
  <2>2. \/ leds1_n' = leds1_n /\ leds1_m' = leds1_m /\ leds1_addr' = leds1_addr
        \/ Bar1!Advance
    BY <1>8 DEF Bar1!Clock
  <2>3. PICK x : x = leds1_m * LEDS_N
    OBVIOUS
  <2>4. /\ leds1_n + 1 # LEDS_N => leds1_n + 1 \in 0 .. LEDS_N - 1
        /\ leds1_m + 1 # LEDS_M => leds1_m + 1 \in 0 .. LEDS_M - 1
        /\ x + (leds1_n + 1) = (x + leds1_n) + 1
        /\ leds1_n + 1 = LEDS_N =>
             (leds1_m + 1) * LEDS_N + 0 = (x + leds1_n) + 1
        /\ 0 * LEDS_N + 0 = 0
    BY <1>2, <2>3, Scanned
  <2>5. /\ leds1_n' \in 0 .. LEDS_N - 1 /\ leds1_m' \in 0 .. LEDS_M - 1
        /\ leds1_addr' = leds1_m' * LEDS_N + leds1_n'
    <3>1. CASE ~Bar1!Advance
      BY <1>2, <2>2, <3>1
    <3>2. CASE Bar1!Advance /\ leds1_n + 1 # LEDS_N
      <4>1. /\ leds1_n' = leds1_n + 1 /\ leds1_m' = leds1_m
            /\ leds1_addr' = leds1_addr + 1
        BY <3>2 DEF Bar1!Advance, Bar1!RowEnds, Bar1!BarEnds
      <4> QED
        BY <1>2, <2>3, <2>4, <3>2, <4>1
    <3>3. CASE Bar1!Advance /\ leds1_n + 1 = LEDS_N /\ leds1_m + 1 # LEDS_M
      <4>1. /\ leds1_n' = 0 /\ leds1_m' = leds1_m + 1
            /\ leds1_addr' = leds1_addr + 1
        BY <3>3 DEF Bar1!Advance, Bar1!RowEnds, Bar1!BarEnds
      <4> QED
        BY <1>2, <1>6, <2>3, <2>4, <3>3, <4>1
    <3>4. CASE Bar1!Advance /\ leds1_n + 1 = LEDS_N /\ leds1_m + 1 = LEDS_M
      <4>1. leds1_n' = 0 /\ leds1_m' = 0 /\ leds1_addr' = 0
        BY <3>4 DEF Bar1!Advance, Bar1!RowEnds, Bar1!BarEnds
      <4> QED
        BY <1>6, <2>4, <4>1
    <3> QED
      BY <3>1, <3>2, <3>3, <3>4
  <2> QED
    BY <1>4, <1>5, <2>1, <2>5
       DEF Bar1!TypeOK, Bar1!Divider!TypeOK, Addresses
<1> QED
  BY <1>7, <1>8 DEF BarsClock

(* A clock of the second bar makes the pending write.                      *)
LEMMA Bar2Next ==
  ASSUME RegTyped, Bar2!TypeOK, BarsClock
  PROVE  /\ Bar2!TypeOK'
         /\ \A a \in Addresses : leds2_en'[a] = LedNow("leds2_wr_val", a)
<1>1. /\ reg.led_period \in 0 .. PeriodRange - 1
      /\ reg.leds2_reset \in BOOLEAN /\ reg.leds2_wr_val \in Pixels
  BY RegOf
<1>2. /\ leds2_r \in 0 .. PeriodRange - 1 /\ leds2_tick \in BOOLEAN
      /\ leds2_en \in [Addresses -> BOOLEAN]
      /\ leds2_n \in 0 .. LEDS_N - 1 /\ leds2_m \in 0 .. LEDS_M - 1
      /\ leds2_addr = leds2_m * LEDS_N + leds2_n
  BY DEF Bar2!TypeOK, Bar2!Divider!TypeOK, Addresses,
         Bar1!Addresses, Bar2!Addresses
<1>3. leds2_en' = IF reg.leds2_wr_val.sel
                  THEN [leds2_en EXCEPT
                          ![reg.leds2_wr_val.addr] = reg.leds2_wr_val.en]
                  ELSE leds2_en
  BY DEF BarsClock, Bar2!Write
<1>4. leds2_en' \in [Addresses -> BOOLEAN]
  BY <1>1, <1>2, <1>3 DEF Pixels
<1>5. \A a \in Addresses : leds2_en'[a] = LedNow("leds2_wr_val", a)
  BY <1>1, <1>2, <1>3 DEF Pixels, LedNow
<1>6. LEDS_N \in Nat \ {0} /\ LEDS_M \in Nat \ {0} /\ PeriodRange \in Nat \ {0}
  BY PanelAssumption
<1>7. CASE Bar2!Reset
  <2>1. leds2_r' = 0 /\ leds2_tick' = FALSE
    BY <1>7 DEF Bar2!Reset, Bar2!Divider!Reset
  <2>2. leds2_n' = 0 /\ leds2_m' = 0 /\ leds2_addr' = 0
    BY <1>7 DEF Bar2!Reset
  <2>3. 0 * LEDS_N + 0 = 0
    BY <1>2, Scanned
  <2>4. /\ 0 \in 0 .. LEDS_N - 1 /\ 0 \in 0 .. LEDS_M - 1
        /\ 0 \in 0 .. PeriodRange - 1
    BY <1>6
  <2> QED
    BY <1>4, <1>5, <2>1, <2>2, <2>3, <2>4
       DEF Bar2!TypeOK, Bar2!Divider!TypeOK, Addresses,
         Bar1!Addresses, Bar2!Addresses
<1>8. CASE Bar2!Clock(reg.led_period)
  <2>1. leds2_r' \in 0 .. PeriodRange - 1 /\ leds2_tick' \in BOOLEAN
    BY <1>1, <1>2, <1>8, Divided DEF Bar2!Clock, Bar2!Divider!Clock
  <2>2. \/ leds2_n' = leds2_n /\ leds2_m' = leds2_m /\ leds2_addr' = leds2_addr
        \/ Bar2!Advance
    BY <1>8 DEF Bar2!Clock
  <2>3. PICK x : x = leds2_m * LEDS_N
    OBVIOUS
  <2>4. /\ leds2_n + 1 # LEDS_N => leds2_n + 1 \in 0 .. LEDS_N - 1
        /\ leds2_m + 1 # LEDS_M => leds2_m + 1 \in 0 .. LEDS_M - 1
        /\ x + (leds2_n + 1) = (x + leds2_n) + 1
        /\ leds2_n + 1 = LEDS_N =>
             (leds2_m + 1) * LEDS_N + 0 = (x + leds2_n) + 1
        /\ 0 * LEDS_N + 0 = 0
    BY <1>2, <2>3, Scanned
  <2>5. /\ leds2_n' \in 0 .. LEDS_N - 1 /\ leds2_m' \in 0 .. LEDS_M - 1
        /\ leds2_addr' = leds2_m' * LEDS_N + leds2_n'
    <3>1. CASE ~Bar2!Advance
      BY <1>2, <2>2, <3>1
    <3>2. CASE Bar2!Advance /\ leds2_n + 1 # LEDS_N
      <4>1. /\ leds2_n' = leds2_n + 1 /\ leds2_m' = leds2_m
            /\ leds2_addr' = leds2_addr + 1
        BY <3>2 DEF Bar2!Advance, Bar2!RowEnds, Bar2!BarEnds
      <4> QED
        BY <1>2, <2>3, <2>4, <3>2, <4>1
    <3>3. CASE Bar2!Advance /\ leds2_n + 1 = LEDS_N /\ leds2_m + 1 # LEDS_M
      <4>1. /\ leds2_n' = 0 /\ leds2_m' = leds2_m + 1
            /\ leds2_addr' = leds2_addr + 1
        BY <3>3 DEF Bar2!Advance, Bar2!RowEnds, Bar2!BarEnds
      <4> QED
        BY <1>2, <1>6, <2>3, <2>4, <3>3, <4>1
    <3>4. CASE Bar2!Advance /\ leds2_n + 1 = LEDS_N /\ leds2_m + 1 = LEDS_M
      <4>1. leds2_n' = 0 /\ leds2_m' = 0 /\ leds2_addr' = 0
        BY <3>4 DEF Bar2!Advance, Bar2!RowEnds, Bar2!BarEnds
      <4> QED
        BY <1>6, <2>4, <4>1
    <3> QED
      BY <3>1, <3>2, <3>3, <3>4
  <2> QED
    BY <1>4, <1>5, <2>1, <2>5
       DEF Bar2!TypeOK, Bar2!Divider!TypeOK, Addresses,
         Bar1!Addresses, Bar2!Addresses
<1> QED
  BY <1>7, <1>8 DEF BarsClock

(* A clock of the digits makes the pending write.                          *)
LEMMA SsegNext ==
  ASSUME RegTyped, Sseg!TypeOK, SsegClock
  PROVE  /\ Sseg!TypeOK'
         /\ \A k \in Sseg!Digits : sseg_arr'[k] = DigitNow(k)
<1>1. /\ reg.led_period \in 0 .. PeriodRange - 1
      /\ reg.sseg_reset \in BOOLEAN
      /\ reg.sseg_wr_val \in [wr : BOOLEAN, sel : Sseg!Digits,
                              glyph : Sseg!Glyphs]
  BY RegOf
<1>2. /\ sseg_r \in 0 .. PeriodRange - 1 /\ sseg_tick \in BOOLEAN
      /\ sseg_arr \in [Sseg!Digits -> Sseg!Glyphs]
      /\ oe_i \in Sseg!Digits
  BY DEF Sseg!TypeOK, Sseg!Divider!TypeOK
<1>3. sseg_arr' = IF reg.sseg_wr_val.wr
                  THEN [sseg_arr EXCEPT
                          ![reg.sseg_wr_val.sel] = reg.sseg_wr_val.glyph]
                  ELSE sseg_arr
  BY DEF SsegClock, Sseg!Write
<1>4. sseg_arr' \in [Sseg!Digits -> Sseg!Glyphs]
  BY <1>1, <1>2, <1>3
<1>5. \A k \in Sseg!Digits : sseg_arr'[k] = DigitNow(k)
  BY <1>1, <1>2, <1>3 DEF DigitNow
<1>6. SSEG_N \in Nat \ {0} /\ PeriodRange \in Nat \ {0}
      /\ Sseg!Digits = 0 .. SSEG_N - 1
  BY Sized, PanelAssumption
<1>7. CASE Sseg!Reset
  <2>1. sseg_r' = 0 /\ sseg_tick' = FALSE /\ oe_i' = 0
    BY <1>7 DEF Sseg!Reset, Sseg!Divider!Reset
  <2>2. 0 \in Sseg!Digits /\ 0 \in 0 .. PeriodRange - 1
    BY <1>6
  <2> QED
    BY <1>4, <1>5, <2>1, <2>2 DEF Sseg!TypeOK, Sseg!Divider!TypeOK
<1>8. CASE Sseg!Clock(reg.led_period)
  <2>1. sseg_r' \in 0 .. PeriodRange - 1 /\ sseg_tick' \in BOOLEAN
    BY <1>1, <1>2, <1>8, Divided DEF Sseg!Clock, Sseg!Divider!Clock
  <2>2. oe_i' = (oe_i + 1) % SSEG_N \/ oe_i' = oe_i
    BY <1>8 DEF Sseg!Clock
  <2>3. oe_i \in Nat /\ (oe_i + 1) % SSEG_N \in 0 .. SSEG_N - 1
    BY <1>2, <1>6
  <2>4. oe_i' \in Sseg!Digits
    BY <1>2, <1>6, <2>2, <2>3
  <2> QED
    BY <1>4, <1>5, <2>1, <2>4 DEF Sseg!TypeOK, Sseg!Divider!TypeOK
<1> QED
  BY <1>7, <1>8 DEF SsegClock

(* A clock of the converter, whatever its registers hold.                  *)
LEMMA BcdNext ==
  ASSUME RegTyped, BcdClock
  PROVE  Bcd!Next
<1>1. /\ reg.bcd_reset \in BOOLEAN /\ reg.bcd_start \in BOOLEAN
      /\ reg.bcd_bin \in Numbers
  BY RegOf
<1>2. PICK bin : bin = reg.bcd_bin % (4 * Bcd!Width)
  OBVIOUS
<1>3. bin % (2 * Bcd!Width) \in 0 .. 2 * Bcd!Width - 1
  <2>1. reg.bcd_bin \in Int /\ 4 * Bcd!Width = 32768
    <3>1. reg.bcd_bin \in Int
      BY <1>1 DEF Numbers
    <3>2. 4 * Bcd!Width = 32768
      BY DEF Bcd!Width
    <3> QED
      BY <3>1, <3>2
  <2>2. bin \in Nat
    BY <1>2, <2>1
  <2>3. PICK w \in Nat \ {0} : w = 2 * Bcd!Width
    BY DEF Bcd!Width
  <2>4. bin % w \in 0 .. w - 1
    BY <2>2, <2>3
  <2> QED
    BY <2>3, <2>4
<1>4. (bin >= 2 * Bcd!Width) \in BOOLEAN
  OBVIOUS
<1>5. CASE Bcd!Reset
  BY <1>5 DEF Bcd!Next
<1>6. CASE Bcd!Clock(reg.bcd_start, bin >= 2 * Bcd!Width,
                     bin % (2 * Bcd!Width))
  BY <1>1, <1>3, <1>4, <1>6, Zenon DEF Bcd!Next
<1> QED
  BY <1>2, <1>5, <1>6 DEF BcdClock

(***************************************************************************)
(* The types, and what is left of a program.                               *)
(***************************************************************************)
TypeInv == TypeOK /\ Left(todo) /\ BcdInv

(* The registers keep their ranges.                                        *)
LEMMA TypedReg == ASSUME TypeInv PROVE RegTyped
BY DEF TypeInv, TypeOK, RegTyped

(* The first state is typed.                                               *)
LEMMA InitType == ASSUME Init PROVE TypeInv
<1>1. LEDS_N \in Nat \ {0} /\ LEDS_M \in Nat \ {0} /\ SSEG_N \in Nat \ {0}
      /\ PeriodRange \in Nat \ {0} /\ MaxIdle \in Nat \ {0}
      /\ Passes \in Nat \ {0}
  BY PanelAssumption
<1>2. /\ 0 \in 0 .. LEDS_N - 1 /\ 0 \in 0 .. LEDS_M - 1
      /\ 0 \in 0 .. PeriodRange - 1 /\ 0 \in Sseg!Digits
      /\ 0 \in 0 .. MaxIdle - 1 /\ 0 \in 0 .. Passes
      /\ 0 * LEDS_N + 0 = 0
  BY <1>1, Sized
<1>3. Bar1!TypeOK /\ Bar2!TypeOK
  <2>1. /\ leds1_r = 0 /\ leds1_tick = FALSE /\ leds1_n = 0 /\ leds1_m = 0
        /\ leds1_addr = 0
        /\ leds2_r = 0 /\ leds2_tick = FALSE /\ leds2_n = 0 /\ leds2_m = 0
        /\ leds2_addr = 0
    BY DEF Init, Bar1!Init, Bar2!Init, Bar1!Divider!Init, Bar2!Divider!Init
  <2>2. leds1_en \in [Bar1!Addresses -> BOOLEAN]
    BY DEF Init, Bar1!Init
  <2>3. leds2_en \in [Bar2!Addresses -> BOOLEAN]
    BY DEF Init, Bar2!Init
  <2> QED
    BY <1>2, <2>1, <2>2, <2>3
       DEF Bar1!TypeOK, Bar2!TypeOK, Bar1!Divider!TypeOK, Bar2!Divider!TypeOK
<1>4. Sseg!TypeOK
  <2>1. sseg_r = 0 /\ sseg_tick = FALSE /\ oe_i = 0
    BY DEF Init, Sseg!Init, Sseg!Divider!Init
  <2>2. Sseg!Blank \in Sseg!Glyphs
    BY <1>2, GlyphTyped
  <2>3. Sseg!Encode(TRUE, TRUE, FALSE, 0) \in Sseg!Glyphs
    <3>1. 0 \in 0 .. 15
      OBVIOUS
    <3> QED
      BY <3>1, EncodeTyped
  <2>4. \E g \in {Sseg!Blank, Sseg!Encode(TRUE, TRUE, FALSE, 0)} :
          sseg_arr = [k \in Sseg!Digits |-> g]
    BY DEF Init, Sseg!Init
  <2>5. sseg_arr \in [Sseg!Digits -> Sseg!Glyphs]
    BY <2>2, <2>3, <2>4
  <2> QED
    BY <1>2, <2>1, <2>5 DEF Sseg!TypeOK, Sseg!Divider!TypeOK
<1>5. BcdInv /\ Bcd!TypeOK
  BY BcdInitInv DEF Init, BcdInv
<1>6. Left(todo)
  <2>1. Program(todo)
    BY FirstAt DEF Init
  <2> QED
    BY <2>1, ProgramIsLeft
<1>7. RegTyped
  <2>1. LedsOff \in Pixels
        /\ SsegOff \in [wr : BOOLEAN, sel : Sseg!Digits,
                        glyph : Sseg!Glyphs]
    BY OffTyped, Registers DEF Off
  <2>2. 0 \in Brightness /\ 0 \in Numbers
    BY DEF Brightness, Numbers, Bcd!Width
  <2>3. reg = [led_period |-> 0, status_led_en |-> {},
               bcd_reset |-> FALSE, bcd_start |-> FALSE, bcd_bin |-> 0,
               sseg_reset |-> FALSE, sseg_brightness |-> 0,
               sseg_wr_val |-> SsegOff,
               leds1_reset |-> FALSE, leds2_reset |-> FALSE,
               leds1_brightness |-> 0, leds2_brightness |-> 0,
               leds1_wr_val |-> LedsOff, leds2_wr_val |-> LedsOff,
               warn_brightness |-> 0, warn_en |-> FALSE]
    BY DEF Init
  <2>4. DOMAIN reg = DOMAIN Values
    BY <2>3, RegisterNames
  <2>5. reg = [n \in DOMAIN Values |-> reg[n]]
    BY <2>3, <2>4
  <2>6. /\ reg["led_period"] \in Values["led_period"]
        /\ reg["status_led_en"] \in Values["status_led_en"]
        /\ reg["bcd_bin"] \in Values["bcd_bin"]
        /\ reg["sseg_wr_val"] \in Values["sseg_wr_val"]
    BY <1>2, <2>1, <2>2, <2>3, Registers
  <2>7. ASSUME NEW n \in {"bcd_reset", "bcd_start", "sseg_reset",
                          "leds1_reset", "leds2_reset", "warn_en"}
        PROVE  reg[n] \in Values[n]
    <3>1. reg[n] = FALSE
      BY <2>3
    <3> QED
      BY <3>1, Registers
  <2>8. ASSUME NEW n \in {"sseg_brightness", "leds1_brightness",
                          "leds2_brightness", "warn_brightness"}
        PROVE  reg[n] \in Values[n]
    <3>1. reg[n] = 0
      BY <2>3
    <3> QED
      BY <2>2, <3>1, Registers
  <2>9. ASSUME NEW n \in {"leds1_wr_val", "leds2_wr_val"}
        PROVE  reg[n] \in Values[n]
    <3>1. reg[n] = LedsOff
      BY <2>3
    <3> QED
      BY <2>1, <3>1, Registers
  <2>10. \A n \in DOMAIN Values : reg[n] \in Values[n]
    BY <2>6, <2>7, <2>8, <2>9, RegisterNames
  <2> QED
    BY <2>5, <2>10 DEF RegTyped
<1>8. todo \in Seq(Accesses) /\ i = 0 /\ idle = 0 /\ led_idx = 0
  BY <1>6 DEF Left, Init
<1> QED
  BY <1>2, <1>3, <1>4, <1>5, <1>6, <1>7, <1>8 DEF TypeInv, TypeOK, RegTyped

(* Every step keeps the types.                                             *)
LEMMA NextType == ASSUME TypeInv, [Next]_vars PROVE TypeInv'
<1>0. RegTyped /\ TypeOK /\ Left(todo) /\ BcdInv
  BY TypedReg DEF TypeInv
<1>1. CASE Next
  <2>1. /\ Hardware
        /\ StoreStep \/ SkipStep \/ KeepStep \/ PassStep
        /\ idle' = 0 \/ (idle' = idle + 1 /\ idle + 1 < MaxIdle)
    BY <1>0, <1>1, StepOf DEF Left
  <2>2. Bar1!TypeOK' /\ Bar2!TypeOK' /\ Sseg!TypeOK'
    BY <1>0, <2>1, Bar1Next, Bar2Next, SsegNext DEF Hardware, TypeOK
  <2>3. BcdInv' /\ Bcd!TypeOK'
    <3>1. Bcd!Next
      BY <1>0, <2>1, BcdNext DEF Hardware
    <3>2. BcdInv'
      BY <1>0, <3>1, BcdNextInv
    <3> QED
      BY <3>2 DEF BcdInv
  <2>4. led_idx' \in {0, 1}
    <3>1. led_idx' = led_idx_next /\ led_idx \in {0, 1}
      BY <1>0, <2>1 DEF Hardware, TypeOK
    <3> QED
      BY <3>1 DEF led_idx_next
  <2>5. idle' \in 0 .. MaxIdle - 1
    <3>1. idle \in 0 .. MaxIdle - 1 /\ MaxIdle \in Nat \ {0}
      BY <1>0, PanelAssumption DEF TypeOK
    <3> QED
      BY <2>1, <3>1
  <2>6. RegTyped'
    BY <1>0, <2>1, StoreTyped DEF SkipStep, KeepStep, PassStep, RegTyped
  <2>7. i' \in 0 .. Passes
    <3>1. i \in 0 .. Passes /\ Passes \in Nat \ {0}
      BY <1>0, PanelAssumption DEF TypeOK
    <3>2. (i % Passes) + 1 \in 0 .. Passes
      BY <3>1
    <3> QED
      BY <2>1, <3>1, <3>2 DEF StoreStep, SkipStep, KeepStep, PassStep
  <2>8. Left(todo')
    <3>1. CASE StoreStep \/ SkipStep
      BY <1>0, <3>1, LeftTail DEF StoreStep, SkipStep
    <3>2. CASE KeepStep
      BY <1>0, <3>2 DEF KeepStep
    <3>3. CASE PassStep
      <4>1. Program(Pass(i'))
        BY <2>7, PassAt
      <4> QED
        BY <3>3, <4>1, ProgramIsLeft DEF PassStep
    <3> QED
      BY <2>1, <3>1, <3>2, <3>3
  <2>9. todo' \in Seq(Accesses)
    BY <2>8 DEF Left
  <2>10. TypeOK'
    BY <2>2, <2>3, <2>4, <2>5, <2>6, <2>7, <2>9 DEF TypeOK, RegTyped
  <2> QED
    BY <2>3, <2>8, <2>10 DEF TypeInv
<1>2. CASE UNCHANGED vars
  <2>1. UNCHANGED << leds1, leds2, led_idx, digits, bcd1, reg, todo, i, idle >>
    BY <1>2 DEF vars, hardware, firmware
  <2>2. BcdInv'
    BY <1>0, <2>1, BcdNextInv DEF bcd1, Bcd!bcd1
  <2>3. Bar1!TypeOK' /\ Bar2!TypeOK' /\ Sseg!TypeOK' /\ Bcd!TypeOK'
    <3>1. Bar1!TypeOK'
      BY <1>0, <2>1 DEF TypeOK, leds1, Bar1!TypeOK, Bar1!Divider!TypeOK
    <3>2. Bar2!TypeOK'
      BY <1>0, <2>1 DEF TypeOK, leds2, Bar2!TypeOK, Bar2!Divider!TypeOK
    <3>3. Sseg!TypeOK'
      BY <1>0, <2>1 DEF TypeOK, digits, Sseg!TypeOK, Sseg!Divider!TypeOK
    <3> QED
      BY <2>2, <3>1, <3>2, <3>3 DEF BcdInv
  <2>4. TypeOK'
    BY <1>0, <2>1, <2>3 DEF TypeOK
  <2>5. Left(todo')
    BY <1>0, <2>1
  <2> QED
    BY <2>2, <2>4, <2>5 DEF TypeInv
<1> QED
  BY <1>1, <1>2

(***************************************************************************)
(* What the firmware pulses is taken back by its next access.              *)
(***************************************************************************)
PulseInv == \A n \in DOMAIN Off :
              reg[n] # Off[n] => todo # << >> /\ Head(todo) = << n, Off[n] >>

(* The registers that are only pulsed.                                     *)
LEMMA OffNames == DOMAIN Off = {"bcd_start", "bcd_reset", "leds1_wr_val",
                                "leds2_wr_val", "sseg_wr_val"}
BY DEF Off

(* Nothing is pulsed at first.                                             *)
LEMMA InitPulse == ASSUME Init PROVE PulseInv
<1>1. /\ reg["bcd_start"] = FALSE /\ reg["bcd_reset"] = FALSE
      /\ reg["leds1_wr_val"] = LedsOff /\ reg["leds2_wr_val"] = LedsOff
      /\ reg["sseg_wr_val"] = SsegOff
  BY DEF Init
<1>2. /\ Off["bcd_start"] = FALSE /\ Off["bcd_reset"] = FALSE
      /\ Off["leds1_wr_val"] = LedsOff /\ Off["leds2_wr_val"] = LedsOff
      /\ Off["sseg_wr_val"] = SsegOff
  BY DEF Off
<1> QED
  BY <1>1, <1>2, OffNames DEF PulseInv

(* A pulse is taken back by the very next access.                          *)
LEMMA NextPulse ==
  ASSUME TypeInv, PulseInv,
         StoreStep \/ SkipStep \/ KeepStep \/ PassStep
  PROVE  PulseInv'
<1>0. RegTyped /\ Left(todo)
  BY TypedReg DEF TypeInv
<1> SUFFICES ASSUME NEW n \in DOMAIN Off, reg'[n] # Off[n]
             PROVE  todo' # << >> /\ Head(todo') = << n, Off[n] >>
  BY DEF PulseInv
<1>1. n \in DOMAIN Values /\ n \notin {"await", "bcd", "wait"}
  BY OffTyped, OffNames
<1>2. CASE StoreStep
  <2>1. n = Head(todo)[1]
    <3>1. ASSUME n # Head(todo)[1] PROVE FALSE
      <4>1. reg[n] # Off[n]
        BY <1>0, <1>1, <1>2, <3>1, StoreTyped
      <4>2. Head(todo) = << n, Off[n] >>
        BY <4>1 DEF PulseInv
      <4> QED
        BY <3>1, <4>2
    <3> QED
      BY <3>1
  <2>2. Head(todo)[2] # Off[n]
    BY <1>0, <1>1, <1>2, <2>1, StoreTyped
  <2>3. /\ todo \in Seq(Accesses) /\ todo # << >> /\ todo' = Tail(todo)
    BY <1>0, <1>2 DEF StoreStep, Left
  <2>4. /\ Len(todo) \in Nat \ {0} /\ Head(todo) = todo[1]
        /\ Tail(todo) \in Seq(Accesses) /\ Len(Tail(todo)) = Len(todo) - 1
        /\ \A m \in 1 .. Len(todo) - 1 : Tail(todo)[m] = todo[m + 1]
    BY <2>3, TailAt
  <2>5. 1 + 1 \in 1 .. Len(todo) /\ todo[1 + 1] = << n, Off[n] >>
    <3>1. 1 \in 1 .. Len(todo)
      BY <2>4
    <3> QED
      BY <1>0, <2>1, <2>2, <2>4, <3>1 DEF Left, Pulsed
  <2>6. 1 \in 1 .. Len(todo) - 1 /\ Len(Tail(todo)) # 0
    BY <2>4, <2>5
  <2>7. Tail(todo) # << >>
    <3>1. Len(<< >>) = 0
      OBVIOUS
    <3> QED
      BY <2>6, <3>1
  <2>8. Head(Tail(todo)) = Tail(todo)[1]
    BY <2>4, <2>7, TailAt
  <2> QED
    BY <2>3, <2>4, <2>5, <2>6, <2>7, <2>8
<1>3. CASE SkipStep
  BY <1>1, <1>3 DEF SkipStep, PulseInv
<1>4. CASE KeepStep
  BY <1>4 DEF KeepStep, PulseInv
<1>5. CASE PassStep
  BY <1>5 DEF PassStep, PulseInv
<1> QED
  BY <1>2, <1>3, <1>4, <1>5

(***************************************************************************)
(* What is wanted at the next wait of a pass is there or still to come.    *)
(***************************************************************************)
SoundInv == \A p \in 0 .. Passes :
  /\ \A n \in BarNames, a \in Addresses :
       Sound(todo, p, LedWrites(n, a), LedRight(n, a, p),
             LedNow(n, a) = LedOn(p, a))
  /\ \A k \in Sseg!Digits :
       Sound(todo, p, DigitWrites(k), DigitRight(k, p),
             DigitNow(k) = Glyph(p, k))
  /\ Sound(todo, p, StatusWrites, StatusRight(p),
           reg.status_led_en = StatusOn(p))

(* At first every cell is still to be written.                             *)
LEMMA InitSound == ASSUME Init PROVE SoundInv
<1>1. todo = init \o Prologue
  BY DEF Init
<1>2. \A p \in 0 .. Passes : \A W, e :
        Wanted(W, e, p) => Settles(todo, p, W, e)
  BY <1>1, FirstAt
<1> SUFFICES ASSUME NEW p \in 0 .. Passes
             PROVE  /\ \A n \in BarNames, a \in Addresses :
                         Sound(todo, p, LedWrites(n, a), LedRight(n, a, p),
                               LedNow(n, a) = LedOn(p, a))
                    /\ \A k \in Sseg!Digits :
                         Sound(todo, p, DigitWrites(k), DigitRight(k, p),
                               DigitNow(k) = Glyph(p, k))
                    /\ Sound(todo, p, StatusWrites, StatusRight(p),
                             reg.status_led_en = StatusOn(p))
  BY DEF SoundInv
<1>3. \A W, e : Wanted(W, e, p) => \A right : Sound(todo, p, W, e, right)
  BY <1>2, SettledIsSound
<1>4. \A n \in BarNames, a \in Addresses :
        Wanted(LedWrites(n, a), LedRight(n, a, p), p)
  BY DEF Wanted
<1>5. \A k \in Sseg!Digits : Wanted(DigitWrites(k), DigitRight(k, p), p)
  BY DEF Wanted
<1>6. Wanted(StatusWrites, StatusRight(p), p)
  BY DEF Wanted
<1> QED
  BY <1>3, <1>4, <1>5, <1>6

(* The step seen from a cell: now says that it holds what is wanted after  *)
(* the step.                                                               *)
LEMMA CellStep ==
  ASSUME TypeInv, StoreStep \/ SkipStep \/ KeepStep \/ PassStep,
         i' \in 0 .. Passes,
         NEW p \in 0 .. Passes, NEW W, NEW e, Wanted(W, e, p), e \in W,
         NEW right, NEW now, Sound(todo, p, W, e, right),
         StoreStep /\ Head(todo) = e => now,
         right /\ (StoreStep => Head(todo) \notin W) => now
  PROVE  Sound(todo', p, W, e, now)
<1>0. todo \in Seq(Accesses)
  BY DEF TypeInv, Left
<1>1. CASE StoreStep
  BY <1>0, <1>1, SoundTail DEF StoreStep
<1>2. CASE SkipStep
  <2>1. Head(todo) \notin W
    <3>1. Head(todo)[1] \in {"await", "bcd", "wait"}
      BY <1>2 DEF SkipStep
    <3>2. \A y \in W : y[1] \notin {"await", "bcd", "wait"}
      BY WantedNames DEF BarNames, DigitNames
    <3> QED
      BY <3>1, <3>2
  <2>2. right => now
    <3>1. StoreStep => Head(todo) \notin W
      BY <2>1
    <3> QED
      BY <3>1
  <2> QED
    BY <1>0, <1>2, <2>1, <2>2, SoundTail DEF SkipStep
<1>3. CASE KeepStep /\ ~StoreStep
  <2>1. right => now
    BY <1>3
  <2> QED
    BY <1>3, <2>1 DEF KeepStep, Sound
<1>4. CASE PassStep
  <2>1. Settles(todo', p, W, e)
    BY <1>4, PassAt DEF PassStep
  <2> QED
    BY <2>1, SettledIsSound
<1> QED
  BY <1>1, <1>2, <1>3, <1>4

(* A register that is not stored to keeps its value.                       *)
LEMMA RegAfter ==
  ASSUME TypeInv, StoreStep \/ SkipStep \/ KeepStep \/ PassStep,
         NEW n \in DOMAIN Values
  PROVE  /\ StoreStep /\ Head(todo)[1] = n => reg'[n] = Head(todo)[2]
         /\ ~(StoreStep /\ Head(todo)[1] = n) => reg'[n] = reg[n]
<1>1. RegTyped
  BY TypedReg
<1>2. CASE StoreStep
  BY <1>1, <1>2, StoreTyped
<1>3. CASE ~StoreStep
  BY <1>3 DEF SkipStep, KeepStep, PassStep
<1> QED
  BY <1>2, <1>3

(* A step changes an LED only by what it writes to the register.           *)
LEMMA LedAfter ==
  ASSUME TypeInv, BarsClock, NEW n \in BarNames, NEW a \in Addresses
  PROVE  LedNow(n, a)' = IF reg'[n].sel /\ reg'[n].addr = a
                         THEN reg'[n].en ELSE LedNow(n, a)
<1>1. RegTyped /\ Bar1!TypeOK /\ Bar2!TypeOK
  BY TypedReg DEF TypeInv, TypeOK
<1>2. CASE n = "leds1_wr_val"
  <2>1. leds1_en'[a] = LedNow(n, a)
    BY <1>1, <1>2, Bar1Next
  <2>2. LedNow(n, a)' = IF reg'[n].sel /\ reg'[n].addr = a
                        THEN reg'[n].en ELSE leds1_en'[a]
    BY <1>2 DEF LedNow
  <2> QED
    BY <2>1, <2>2, Zenon
<1>3. CASE n = "leds2_wr_val"
  <2>1. leds2_en'[a] = LedNow(n, a)
    BY <1>1, <1>3, Bar2Next
  <2>2. LedNow(n, a)' = IF reg'[n].sel /\ reg'[n].addr = a
                        THEN reg'[n].en ELSE leds2_en'[a]
    BY <1>3 DEF LedNow
  <2> QED
    BY <2>1, <2>2, Zenon
<1> QED
  BY <1>2, <1>3 DEF BarNames

(* An item of a sequence of accesses.                                      *)
LEMMA ItemIn ==
  ASSUME NEW s \in Seq(Accesses), NEW m \in 1 .. Len(s)
  PROVE  s[m] \in Accesses
OBVIOUS

(* A step keeps an LED sound,                                              *)
LEMMA LedStep ==
  ASSUME TypeInv, BarsClock,
         StoreStep \/ SkipStep \/ KeepStep \/ PassStep, i' \in 0 .. Passes,
         NEW p \in 0 .. Passes, NEW n \in BarNames, NEW a \in Addresses,
         Sound(todo, p, LedWrites(n, a), LedRight(n, a, p),
               LedNow(n, a) = LedOn(p, a))
  PROVE  Sound(todo', p, LedWrites(n, a), LedRight(n, a, p),
               LedNow(n, a)' = LedOn(p, a))
<1> DEFINE W == LedWrites(n, a)
           e == LedRight(n, a, p)
           now == LedNow(n, a)' = LedOn(p, a)
           right == LedNow(n, a) = LedOn(p, a)
<1>1. Wanted(W, e, p)
  BY DEF Wanted
<1>2. e \in W /\ e[1] = n /\ e[2].sel = TRUE /\ e[2].addr = a
      /\ e[2].en = LedOn(p, a)
  <2>1. e \in Accesses
    <3>1. PICK s : s = leds_enable_led(n, a, LedOn(p, a))
      OBVIOUS
    <3>2. s \in Seq(Accesses) /\ Len(s) = 2 /\ s[1] = e
      BY <3>1, LedPair DEF BarNames
    <3> QED
      BY <3>2
  <2>2. e[1] = n /\ e[2].sel = TRUE /\ e[2].addr = a
        /\ e[2].en = LedOn(p, a)
    BY DEF LedRight
  <2> QED
    BY <2>1, <2>2 DEF LedWrites
<1>3. n \in DOMAIN Values
  BY Registers DEF BarNames
<1>4. LedNow(n, a)' = IF reg'[n].sel /\ reg'[n].addr = a
                      THEN reg'[n].en ELSE LedNow(n, a)
  BY LedAfter
<1>5. StoreStep /\ Head(todo) = e => now
  <2> SUFFICES ASSUME StoreStep, Head(todo) = e PROVE now
    OBVIOUS
  <2>1. reg'[n] = e[2]
    BY <1>2, <1>3, RegAfter
  <2> QED
    BY <1>2, <1>4, <2>1, Zenon
<1>6. right /\ (StoreStep => Head(todo) \notin W) => now
  <2> SUFFICES ASSUME right, StoreStep => Head(todo) \notin W PROVE now
    OBVIOUS
  <2>1. LedNow(n, a)' = LedNow(n, a)
    <3>1. CASE StoreStep /\ Head(todo)[1] = n
      <4>1. reg'[n] = Head(todo)[2]
        BY <1>3, <3>1, RegAfter
      <4>2. Head(todo) \in Accesses
        BY <3>1, TailAt DEF TypeInv, Left, StoreStep
      <4>3. ~(reg'[n].sel /\ reg'[n].addr = a)
        BY <3>1, <4>1, <4>2 DEF LedWrites
      <4> QED
        BY <1>4, <4>3, Zenon
    <3>2. CASE ~(StoreStep /\ Head(todo)[1] = n)
      <4>1. reg'[n] = reg[n]
        BY <1>3, <3>2, RegAfter
      <4>2. CASE reg[n].sel /\ reg[n].addr = a
        <5>1. LedNow(n, a) = reg[n].en
          BY <4>2, Zenon DEF LedNow
        <5> QED
          BY <1>4, <4>1, <4>2, <5>1, Zenon
      <4>3. CASE ~(reg[n].sel /\ reg[n].addr = a)
        BY <1>4, <4>1, <4>3, Zenon
      <4> QED
        BY <4>2, <4>3
    <3> QED
      BY <3>1, <3>2
  <2> QED
    BY <2>1, Zenon
<1> HIDE DEF W, e, now, right
<1>7. Sound(todo, p, W, e, right)
  BY DEF W, e, right
<1>8. Sound(todo', p, W, e, now)
  BY <1>1, <1>2, <1>5, <1>6, <1>7, CellStep
<1> QED
  BY <1>8 DEF W, e, now

(* a digit,                                                                *)
LEMMA DigitStep ==
  ASSUME TypeInv, SsegClock,
         StoreStep \/ SkipStep \/ KeepStep \/ PassStep, i' \in 0 .. Passes,
         NEW p \in 0 .. Passes, NEW k \in Sseg!Digits,
         Sound(todo, p, DigitWrites(k), DigitRight(k, p),
               DigitNow(k) = Glyph(p, k))
  PROVE  Sound(todo', p, DigitWrites(k), DigitRight(k, p),
               DigitNow(k)' = Glyph(p, k))
<1> DEFINE W == DigitWrites(k)
           e == DigitRight(k, p)
           n == "sseg_wr_val"
           now == DigitNow(k)' = Glyph(p, k)
           right == DigitNow(k) = Glyph(p, k)
<1>1. Wanted(W, e, p)
  BY DEF Wanted
<1>2. e \in W /\ e[1] = n /\ e[2].wr = TRUE /\ e[2].sel = k
      /\ e[2].glyph = Glyph(p, k)
  <2>1. e \in Accesses
    <3>1. PICK s : s = RowBlocks(p)[k]
      OBVIOUS
    <3>2. s \in Seq(Accesses) /\ Len(s) = 2 /\ s[1] = e
      BY <3>1, RowBlockAt
    <3>3. 1 \in 1 .. Len(s)
      BY <3>2
    <3>4. s[1] \in Accesses
      BY <3>2, <3>3, ItemIn
    <3> QED
      BY <3>2, <3>4, Zenon
  <2>2. e[1] = n /\ e[2].wr = TRUE /\ e[2].sel = k
        /\ e[2].glyph = Glyph(p, k)
    BY DEF DigitRight
  <2> QED
    BY <2>1, <2>2 DEF DigitWrites
<1>3. n \in DOMAIN Values
  BY Registers
<1>4. DigitNow(k)' = IF reg'[n].wr /\ reg'[n].sel = k
                     THEN reg'[n].glyph ELSE DigitNow(k)
  <2>1. sseg_arr'[k] = DigitNow(k)
    BY TypedReg, SsegNext DEF TypeInv, TypeOK
  <2>2. DigitNow(k)' = IF reg'[n].wr /\ reg'[n].sel = k
                       THEN reg'[n].glyph ELSE sseg_arr'[k]
    BY DEF DigitNow
  <2> QED
    BY <2>1, <2>2
<1>5. StoreStep /\ Head(todo) = e => now
  <2> SUFFICES ASSUME StoreStep, Head(todo) = e PROVE now
    OBVIOUS
  <2>1. reg'[n] = e[2]
    BY <1>2, <1>3, RegAfter
  <2> QED
    BY <1>2, <1>4, <2>1
<1>6. right /\ (StoreStep => Head(todo) \notin W) => now
  <2> SUFFICES ASSUME right, StoreStep => Head(todo) \notin W PROVE now
    OBVIOUS
  <2>1. DigitNow(k)' = DigitNow(k)
    <3>1. CASE StoreStep /\ Head(todo)[1] = n
      <4>1. reg'[n] = Head(todo)[2]
        BY <1>3, <3>1, RegAfter
      <4>2. Head(todo) \in Accesses
        BY <3>1, TailAt DEF TypeInv, Left, StoreStep
      <4>3. ~(reg'[n].wr /\ reg'[n].sel = k)
        BY <3>1, <4>1, <4>2 DEF DigitWrites
      <4> QED
        BY <1>4, <4>3
    <3>2. CASE ~(StoreStep /\ Head(todo)[1] = n)
      <4>1. reg'[n] = reg[n]
        BY <1>3, <3>2, RegAfter
      <4> QED
        BY <1>4, <4>1 DEF DigitNow
    <3> QED
      BY <3>1, <3>2
  <2> QED
    BY <2>1
<1> HIDE DEF W, e, now, right
<1>7. Sound(todo, p, W, e, right)
  BY DEF W, e, right
<1>8. Sound(todo', p, W, e, now)
  BY <1>1, <1>2, <1>5, <1>6, <1>7, CellStep
<1> QED
  BY <1>8 DEF W, e, now

(* and the status LEDs.                                                    *)
LEMMA StatusStep ==
  ASSUME TypeInv,
         StoreStep \/ SkipStep \/ KeepStep \/ PassStep, i' \in 0 .. Passes,
         NEW p \in 0 .. Passes,
         Sound(todo, p, StatusWrites, StatusRight(p),
               reg.status_led_en = StatusOn(p))
  PROVE  Sound(todo', p, StatusWrites, StatusRight(p),
               reg'.status_led_en = StatusOn(p))
<1> DEFINE W == StatusWrites
           e == StatusRight(p)
           n == "status_led_en"
           now == reg'[n] = StatusOn(p)
           right == reg[n] = StatusOn(p)
<1>1. Wanted(W, e, p)
  BY DEF Wanted
<1>2. e \in W /\ e[1] = n /\ e[2] = StatusOn(p)
  BY Status DEF StatusWrites, StatusRight
<1>3. n \in DOMAIN Values
  BY Registers
<1>4. StoreStep /\ Head(todo) = e => now
  BY <1>2, <1>3, RegAfter
<1>5. right /\ (StoreStep => Head(todo) \notin W) => now
  <2> SUFFICES ASSUME right, StoreStep => Head(todo) \notin W PROVE now
    OBVIOUS
  <2>1. ~(StoreStep /\ Head(todo)[1] = n)
    <3> SUFFICES ASSUME StoreStep, Head(todo)[1] = n PROVE FALSE
      OBVIOUS
    <3>1. Head(todo) \in Accesses
      BY TailAt DEF TypeInv, Left, StoreStep
    <3> QED
      BY <3>1 DEF StatusWrites
  <2> QED
    BY <1>3, <2>1, RegAfter
<1> HIDE DEF W, e, now, right
<1>6. Sound(todo, p, W, e, right)
  BY DEF W, e, right
<1>7. Sound(todo', p, W, e, now)
  BY <1>1, <1>2, <1>4, <1>5, <1>6, CellStep
<1> QED
  BY <1>7 DEF W, e, now

(* Every step keeps every cell sound.                                      *)
LEMMA NextSound ==
  ASSUME TypeInv, SoundInv, Hardware,
         StoreStep \/ SkipStep \/ KeepStep \/ PassStep, i' \in 0 .. Passes
  PROVE  SoundInv'
<1> SUFFICES ASSUME NEW p \in 0 .. Passes
             PROVE  /\ \A n \in BarNames, a \in Addresses :
                         Sound(todo', p, LedWrites(n, a), LedRight(n, a, p),
                               LedNow(n, a)' = LedOn(p, a))
                    /\ \A k \in Sseg!Digits :
                         Sound(todo', p, DigitWrites(k), DigitRight(k, p),
                               DigitNow(k)' = Glyph(p, k))
                    /\ Sound(todo', p, StatusWrites, StatusRight(p),
                             reg'.status_led_en = StatusOn(p))
  BY DEF SoundInv
<1>1. BarsClock /\ SsegClock
  BY DEF Hardware
<1>2. \A n \in BarNames, a \in Addresses :
        Sound(todo', p, LedWrites(n, a), LedRight(n, a, p),
              LedNow(n, a)' = LedOn(p, a))
  BY <1>1, LedStep DEF SoundInv
<1>3. \A k \in Sseg!Digits :
        Sound(todo', p, DigitWrites(k), DigitRight(k, p),
              DigitNow(k)' = Glyph(p, k))
  BY <1>1, DigitStep DEF SoundInv
<1>4. Sound(todo', p, StatusWrites, StatusRight(p),
            reg'.status_led_en = StatusOn(p))
  BY StatusStep DEF SoundInv
<1> QED
  BY <1>2, <1>3, <1>4

(***************************************************************************)
(* The brightness of both bars.                                            *)
(***************************************************************************)
BrightInv == \A n \in {"leds1_brightness", "leds2_brightness"} :
               Bright(todo, n, reg[n] = 255)

(* The brightness is set before the first wait.                            *)
LEMMA InitBright == ASSUME Init PROVE BrightInv
<1>1. \A n \in {"leds1_brightness", "leds2_brightness"} :
        Bright(todo, n, FALSE)
  BY FirstAt DEF Init
<1> QED
  BY <1>1 DEF BrightInv, Bright

(* And stays.                                                              *)
LEMMA NextBright ==
  ASSUME TypeInv, BrightInv,
         StoreStep \/ SkipStep \/ KeepStep \/ PassStep, i' \in 0 .. Passes
  PROVE  BrightInv'
<1> SUFFICES ASSUME NEW n \in {"leds1_brightness", "leds2_brightness"}
             PROVE  Bright(todo', n, reg'[n] = 255)
  BY DEF BrightInv
<1> DEFINE set == reg[n] = 255
           now == reg'[n] = 255
<1>1. n \in DOMAIN Values
  BY Registers
<1>2. todo \in Seq(Accesses) /\ Bright(todo, n, set)
  BY DEF TypeInv, Left, BrightInv
<1>3. ~(StoreStep /\ Head(todo)[1] = n) => (set => now)
  BY <1>1, RegAfter
<1>4. CASE StoreStep
  <2>1. /\ todo # << >> /\ Len(todo) \in Nat \ {0} /\ Head(todo) = todo[1]
        /\ todo' = Tail(todo)
    BY <1>2, <1>4, TailAt DEF StoreStep
  <2>2. Head(todo)[1] = n => Head(todo) = << n, 255 >>
    <3>1. 1 \in 1 .. Len(todo)
      BY <2>1
    <3> QED
      BY <1>2, <2>1, <3>1 DEF Bright
  <2>3. Head(todo) = << n, 255 >> => now
    BY <1>1, <1>4, RegAfter
  <2>4. set => now
    BY <1>3, <2>2, <2>3
  <2> HIDE DEF set, now
  <2>5. Bright(Tail(todo), n, now)
    BY <1>2, <2>1, <2>3, <2>4, BrightTail
  <2> QED
    BY <2>1, <2>5 DEF now
<1>5. CASE SkipStep
  <2>1. todo # << >> /\ Head(todo)[1] # n /\ todo' = Tail(todo)
        /\ reg' = reg
    BY <1>5 DEF SkipStep
  <2>2. Head(todo) # << n, 255 >>
    BY <2>1
  <2>3. set => now
    BY <2>1
  <2> HIDE DEF set, now
  <2>4. Bright(Tail(todo), n, now)
    BY <1>2, <2>1, <2>2, <2>3, BrightTail
  <2> QED
    BY <2>1, <2>4 DEF now
<1>6. CASE KeepStep
  BY <1>2, <1>6 DEF KeepStep
<1>7. CASE PassStep
  <2>1. set /\ now
    <3>1. Len(todo) = 0
      BY <1>7 DEF PassStep
    <3>2. set
      BY <1>2, <3>1 DEF Bright
    <3> QED
      BY <1>7, <3>2 DEF PassStep
  <2>2. \A m \in 1 .. Len(todo') : todo'[m][1] # n
    BY <1>7, PassAt DEF PassStep
  <2> QED
    BY <2>1, <2>2 DEF Bright
<1> QED
  BY <1>4, <1>5, <1>6, <1>7

(***************************************************************************)
(* The converter between the accesses of bcd_convert.                      *)
(***************************************************************************)
Abs(v) == IF v < 0 THEN -v ELSE v

(* The converter takes the magnitude of the number it is given.            *)
LEMMA MagnitudeOf ==
  ASSUME NEW v \in Numbers, NEW bin, bin = v % (4 * Bcd!Width)
  PROVE  Bcd!Magnitude(bin >= 2 * Bcd!Width, bin % (2 * Bcd!Width)) = Abs(v)
<1>1. /\ 4 * Bcd!Width = 32768 /\ 2 * Bcd!Width = 16384 /\ Bcd!Width = 8192
  BY DEF Bcd!Width
<1>2. v \in Int /\ -8192 < v /\ v < 8192
  BY <1>1 DEF Numbers
<1>3. CASE v >= 0
  <2>1. bin = v
    BY <1>1, <1>2, <1>3
  <2>2. ~(bin >= 2 * Bcd!Width) /\ bin % (2 * Bcd!Width) = v
    BY <1>1, <1>2, <1>3, <2>1
  <2>3. v % Bcd!Width = v
    BY <1>1, <1>2, <1>3
  <2> QED
    BY <1>2, <1>3, <2>2, <2>3 DEF Bcd!Magnitude, Abs
<1>4. CASE v < 0
  <2>1. bin = v + 32768
    BY <1>1, <1>2, <1>4
  <2>2. bin >= 2 * Bcd!Width /\ bin % (2 * Bcd!Width) = v + 16384
    BY <1>1, <1>2, <1>4, <2>1
  <2>3. (-(v + 16384)) % Bcd!Width = -v
    BY <1>1, <1>2, <1>4
  <2> QED
    BY <1>2, <1>4, <2>2, <2>3 DEF Bcd!Magnitude, Abs
<1> QED
  BY <1>2, <1>3, <1>4

(* A clock of the converter: it starts from idle if it is told to.         *)
LEMMA ConvertClock ==
  ASSUME RegTyped, BcdClock, reg.bcd_reset = FALSE
  PROVE  /\ reg.bcd_start = FALSE =>
              /\ taken' = taken
              /\ state_reg = "idle" => state_reg' = "idle"
         /\ reg.bcd_start = TRUE =>
              IF state_reg = "idle" THEN taken' = Abs(reg.bcd_bin)
                                    ELSE taken' = taken
<1>1. PICK bin : bin = reg.bcd_bin % (4 * Bcd!Width)
  OBVIOUS
<1>2. reg.bcd_bin \in Numbers
  BY RegOf
<1>3. PICK sign : sign = (bin >= 2 * Bcd!Width)
  OBVIOUS
<1>4. PICK low : low = bin % (2 * Bcd!Width)
  OBVIOUS
<1>5. Bcd!Magnitude(sign, low) = Abs(reg.bcd_bin)
  BY <1>1, <1>2, <1>3, <1>4, MagnitudeOf
<1>6. Bcd!Clock(reg.bcd_start, sign, low)
  BY <1>1, <1>3, <1>4 DEF BcdClock
<1>7. ASSUME Bcd!Stay \/ Bcd!Op \/ Bcd!Done
      PROVE  taken' = taken /\ (state_reg = "idle" => state_reg' = "idle")
  BY <1>7 DEF Bcd!Stay, Bcd!Op, Bcd!Done, Bcd!bcd1
<1>8. CASE reg.bcd_start = FALSE
  BY <1>6, <1>7, <1>8 DEF Bcd!Clock
<1>9. CASE reg.bcd_start = TRUE
  <2>1. CASE state_reg = "idle"
    <3>1. Bcd!Start(sign, low)
      BY <1>6, <1>9, <2>1 DEF Bcd!Clock, Bcd!ready
    <3>2. taken' = Abs(reg.bcd_bin)
      BY <1>5, <3>1 DEF Bcd!Start
    <3> QED
      BY <1>9, <2>1, <3>2
  <2>2. CASE state_reg # "idle"
    BY <1>6, <1>7, <1>9, <2>2 DEF Bcd!Clock, Bcd!ready
  <2> QED
    BY <2>1, <2>2
<1>10. reg.bcd_start \in BOOLEAN
  BY RegOf
<1> QED
  BY <1>8, <1>9, <1>10

(* What is known of the converter when its digits are read for v by the    *)
(* j-th access from now.                                                   *)
Stage(j, v, r, state, value) ==
  /\ j \in {3, 4} => r.bcd_bin = v
  /\ j \in {4, 5} => state = "idle"
  /\ j = 3 => r.bcd_start = TRUE /\ (state = "idle" \/ value = Abs(v))
  /\ j \in {1, 2} => value = Abs(v)
  /\ j = 1 => state = "idle"

ConvInv == \A j \in 1 .. Len(todo) :
             todo[j][1] = "bcd" /\ j <= 5 =>
               Stage(j, todo[j][2], reg, state_reg, taken)

(* No conversion is under way at first.                                    *)
LEMMA InitConv == ASSUME Init PROVE ConvInv
<1>1. Whole(todo)
  BY FirstAt DEF Init, Program
<1>2. ASSUME NEW j \in 1 .. Len(todo), todo[j][1] = "bcd", j <= 5
      PROVE  FALSE
  <2>1. j > 5
    BY <1>1, <1>2 DEF Whole
  <2> QED
    BY <1>2, <2>1
<1> QED
  BY <1>2 DEF ConvInv

(* The parts of equal pairs are equal.                                     *)
LEMMA PairOf ==
  ASSUME NEW n, NEW v, NEW m, NEW w, << n, v >> = << m, w >>
  PROVE  n = m /\ v = w
OBVIOUS

(* The parts of a pair.                                                    *)
LEMMA PartsOf ==
  ASSUME NEW e, NEW n, NEW v, e = << n, v >>
  PROVE  e[1] = n /\ e[2] = v
OBVIOUS

(* The inputs of the converter before an access.                           *)
LEMMA Inputs ==
  ASSUME PulseInv, todo # << >>, NEW n, NEW v, Head(todo) = << n, v >>
  PROVE  /\ n # "bcd_reset" => reg.bcd_reset = FALSE
         /\ n # "bcd_start" => reg.bcd_start = FALSE
         /\ v = TRUE => reg.bcd_start = FALSE
<1>1. /\ "bcd_reset" \in DOMAIN Off /\ Off["bcd_reset"] = FALSE
      /\ "bcd_start" \in DOMAIN Off /\ Off["bcd_start"] = FALSE
  BY DEF Off
<1>2. reg["bcd_reset"] # FALSE => << n, v >> = << "bcd_reset", FALSE >>
  BY <1>1 DEF PulseInv
<1>3. reg["bcd_start"] # FALSE => << n, v >> = << "bcd_start", FALSE >>
  BY <1>1 DEF PulseInv
<1>4. reg["bcd_reset"] # FALSE => n = "bcd_reset"
  BY <1>2, PairOf, Zenon
<1>5. reg["bcd_start"] # FALSE => n = "bcd_start" /\ v = FALSE
  BY <1>3, PairOf, Zenon
<1> QED
  BY <1>4, <1>5, Zenon

(* During bcd_convert the converter is not in reset, and not started but by*)
(* the access before the last but two.                                     *)
LEMMA Quiet ==
  ASSUME PulseInv, todo # << >>, NEW v
  PROVE  /\ \/ Head(todo) = << "await", 0 >>
            \/ Head(todo) = << "bcd", v >>
            \/ Head(todo) = << "bcd_bin", v >>
            \/ Head(todo) = << "bcd_start", TRUE >>
            => reg.bcd_reset = FALSE /\ reg.bcd_start = FALSE
         /\ Head(todo) = << "bcd_start", FALSE >> => reg.bcd_reset = FALSE
<1>1. /\ "await" # "bcd_reset" /\ "await" # "bcd_start"
      /\ "bcd" # "bcd_reset" /\ "bcd" # "bcd_start"
      /\ "bcd_bin" # "bcd_reset" /\ "bcd_bin" # "bcd_start"
      /\ "bcd_start" # "bcd_reset"
  OBVIOUS
<1>2. Head(todo) = << "await", 0 >> =>
        reg.bcd_reset = FALSE /\ reg.bcd_start = FALSE
  BY <1>1, Inputs, Zenon
<1>3. Head(todo) = << "bcd", v >> =>
        reg.bcd_reset = FALSE /\ reg.bcd_start = FALSE
  BY <1>1, Inputs, Zenon
<1>4. Head(todo) = << "bcd_bin", v >> =>
        reg.bcd_reset = FALSE /\ reg.bcd_start = FALSE
  BY <1>1, Inputs, Zenon
<1>5. Head(todo) = << "bcd_start", TRUE >> =>
        reg.bcd_reset = FALSE /\ reg.bcd_start = FALSE
  BY <1>1, Inputs, Zenon
<1>6. Head(todo) = << "bcd_start", FALSE >> => reg.bcd_reset = FALSE
  BY <1>1, Inputs, Zenon
<1> QED
  BY <1>2, <1>3, <1>4, <1>5, <1>6, Zenon

(* The converter that is not started, and the one that is.                 *)
LEMMA Unstarted ==
  ASSUME TypeInv, BcdClock, reg.bcd_reset = FALSE, reg.bcd_start = FALSE
  PROVE  taken' = taken /\ (state_reg = "idle" => state_reg' = "idle")
BY TypedReg, ConvertClock, Zenon

(* The clock after the start has taken the number.                         *)
LEMMA Started ==
  ASSUME TypeInv, BcdClock, reg.bcd_reset = FALSE, reg.bcd_start = TRUE,
         state_reg = "idle" \/ taken = Abs(reg.bcd_bin)
  PROVE  taken' = Abs(reg.bcd_bin)
BY TypedReg, ConvertClock, Zenon

(* No access is made.                                                      *)
LEMMA StageStays ==
  ASSUME TypeInv, PulseInv, BcdClock, reg' = reg, todo # << >>,
         NEW j \in 1 .. 5, NEW v, Stage(j, v, reg, state_reg, taken),
         j > 1 => Head(todo) = Before(j - 1, v),
         j = 1 => Head(todo) = << "bcd", v >>
  PROVE  Stage(j, v, reg', state_reg', taken')
<1>1. /\ Before(1, v) = << "await", 0 >>
      /\ Before(2, v) = << "bcd_start", FALSE >>
      /\ Before(3, v) = << "bcd_start", TRUE >>
      /\ Before(4, v) = << "bcd_bin", v >>
  BY DEF Before
<1>2. j = 1 \/ j = 2 \/ j = 3 \/ j = 4 \/ j = 5
  OBVIOUS
<1>3. /\ j = 2 => Head(todo) = Before(1, v)
      /\ j = 3 => Head(todo) = Before(2, v)
      /\ j = 4 => Head(todo) = Before(3, v)
      /\ j = 5 => Head(todo) = Before(4, v)
  OBVIOUS
<1>4. CASE j = 3
  <2>1. reg.bcd_start = TRUE /\ reg.bcd_bin = v
        /\ (state_reg = "idle" \/ taken = Abs(v))
    BY <1>4 DEF Stage
  <2>2. reg.bcd_reset = FALSE
    BY <1>1, <1>3, <1>4, Quiet, Zenon
  <2>3. taken' = Abs(v)
    BY <2>1, <2>2, Started, Zenon
  <2> QED
    BY <1>4, <2>1, <2>3 DEF Stage
<1>5. CASE j # 3
  <2>1. reg.bcd_reset = FALSE /\ reg.bcd_start = FALSE
    BY <1>1, <1>2, <1>3, <1>5, Quiet, Zenon
  <2>2. taken' = taken /\ (state_reg = "idle" => state_reg' = "idle")
    BY <2>1, Unstarted, Zenon
  <2> QED
    BY <1>2, <1>5, <2>2 DEF Stage
<1> QED
  BY <1>4, <1>5

(* The access before the j-th is made.                                     *)
LEMMA StageNext ==
  ASSUME TypeInv, PulseInv, BcdClock, StoreStep \/ SkipStep,
         NEW j \in 1 .. 5, NEW v,
         j + 1 <= 5 => Stage(j + 1, v, reg, state_reg, taken),
         Head(todo) = Before(j, v)
  PROVE  Stage(j, v, reg', state_reg', taken')
<1>1. /\ Before(1, v) = << "await", 0 >>
      /\ Before(2, v) = << "bcd_start", FALSE >>
      /\ Before(3, v) = << "bcd_start", TRUE >>
      /\ Before(4, v) = << "bcd_bin", v >>
      /\ Before(5, v) = << "await", 0 >>
  BY DEF Before
<1>2. j = 1 \/ j = 2 \/ j = 3 \/ j = 4 \/ j = 5
  OBVIOUS
<1>3. todo # << >>
  BY DEF StoreStep, SkipStep
<1>4. /\ "bcd_bin" \in DOMAIN Values /\ "bcd_start" \in DOMAIN Values
      /\ "await" \notin DOMAIN Values
  BY RegisterNames
<1>5. reg.bcd_reset = FALSE /\ (j # 2 => reg.bcd_start = FALSE)
  BY <1>1, <1>2, <1>3, Quiet, Zenon
<1>6. j # 2 => taken' = taken /\ (state_reg = "idle" => state_reg' = "idle")
  BY <1>5, Unstarted, Zenon
<1>7. CASE j = 1 \/ j = 5
  <2>1. Head(todo) = << "await", 0 >>
    BY <1>1, <1>7
  <2>2. state_reg = "idle"
    BY <1>4, <2>1 DEF StoreStep, SkipStep, Bcd!ready
  <2>3. j = 1 => taken = Abs(v)
    BY DEF Stage
  <2> QED
    BY <1>6, <1>7, <2>2, <2>3 DEF Stage
<1>8. CASE j = 2
  <2>1. /\ reg.bcd_start = TRUE /\ reg.bcd_bin = v
        /\ (state_reg = "idle" \/ taken = Abs(v))
    BY <1>8 DEF Stage
  <2>2. taken' = Abs(v)
    BY <1>5, <2>1, Started, Zenon
  <2> QED
    BY <1>8, <2>2 DEF Stage
<1>9. CASE j = 3
  <2>1. reg.bcd_bin = v /\ state_reg = "idle"
    BY <1>9 DEF Stage
  <2>2. state_reg' = "idle"
    BY <1>6, <1>9, <2>1
  <2>3. Head(todo)[1] = "bcd_start" /\ Head(todo)[2] = TRUE
    <3>1. Head(todo) = << "bcd_start", TRUE >>
      BY <1>1, <1>9
    <3> QED
      BY <3>1, PartsOf, Zenon
  <2>4. StoreStep
    BY <1>1, <1>9, <2>3 DEF SkipStep
  <2>5. reg'["bcd_start"] = TRUE /\ reg'["bcd_bin"] = reg["bcd_bin"]
    BY <1>4, <2>3, <2>4, RegAfter
  <2> QED
    BY <1>9, <2>1, <2>2, <2>5 DEF Stage
<1>10. CASE j = 4
  <2>1. state_reg = "idle"
    BY <1>10 DEF Stage
  <2>2. state_reg' = "idle"
    BY <1>6, <1>10, <2>1
  <2>3. Head(todo)[1] = "bcd_bin" /\ Head(todo)[2] = v
    BY <1>1, <1>10
  <2>4. StoreStep
    BY <1>1, <1>10, <2>3 DEF SkipStep
  <2>5. reg'["bcd_bin"] = v
    BY <1>4, <2>3, <2>4, RegAfter
  <2> QED
    BY <1>10, <2>2, <2>5 DEF Stage
<1> QED
  BY <1>2, <1>7, <1>8, <1>9, <1>10

(* Every step moves every conversion on by a stage or keeps it.            *)
LEMMA NextConv ==
  ASSUME TypeInv, PulseInv, ConvInv, BcdClock,
         StoreStep \/ SkipStep \/ KeepStep \/ PassStep, i' \in 0 .. Passes
  PROVE  ConvInv'
<1> SUFFICES ASSUME NEW j \in 1 .. Len(todo'), todo'[j][1] = "bcd", j <= 5
             PROVE  Stage(j, todo'[j][2], reg', state_reg', taken')
  BY DEF ConvInv
<1>0. Left(todo) /\ todo \in Seq(Accesses)
  BY DEF TypeInv, Left
<1>1. CASE StoreStep \/ SkipStep
  <2>1. todo # << >> /\ todo' = Tail(todo)
    BY <1>1 DEF StoreStep, SkipStep
  <2>2. /\ Len(todo) \in Nat \ {0} /\ Head(todo) = todo[1]
        /\ Len(todo') = Len(todo) - 1
        /\ \A m \in 1 .. Len(todo) - 1 : todo'[m] = todo[m + 1]
    BY <1>0, <2>1, TailAt
  <2>3. j \in 1 .. 5 /\ j + 1 \in 1 .. Len(todo) /\ todo'[j] = todo[j + 1]
    BY <2>2
  <2>4. PICK v : v = todo[j + 1][2]
    OBVIOUS
  <2>5. Head(todo) = Before(j, v)
    <3>1. todo[(j + 1) - j] = Before(j, v)
      BY <1>0, <2>3, <2>4 DEF Left, Converts
    <3>2. (j + 1) - j = 1
      BY <2>3
    <3> QED
      BY <2>2, <3>1, <3>2
  <2>6. j + 1 <= 5 => Stage(j + 1, v, reg, state_reg, taken)
    BY <2>3, <2>4 DEF ConvInv
  <2>7. Stage(j, v, reg', state_reg', taken')
    BY <1>1, <2>3, <2>5, <2>6, StageNext
  <2> QED
    BY <2>3, <2>4, <2>7
<1>2. CASE KeepStep
  <2>1. /\ reg' = reg /\ todo' = todo /\ todo # << >>
        /\ j \in 1 .. 5 /\ j \in 1 .. Len(todo) /\ todo[j][1] = "bcd"
    BY <1>2 DEF KeepStep
  <2>2. PICK v : v = todo[j][2]
    OBVIOUS
  <2>3. Stage(j, v, reg, state_reg, taken)
    BY <2>1, <2>2 DEF ConvInv
  <2>4. Head(todo) = todo[1]
    BY <1>0, <2>1, TailAt
  <2>5. j > 1 => Head(todo) = Before(j - 1, v)
    <3> SUFFICES ASSUME j > 1 PROVE Head(todo) = Before(j - 1, v)
      OBVIOUS
    <3>1. j - 1 \in 1 .. 5 /\ j - 1 < j /\ j - (j - 1) = 1
      BY <2>1
    <3>2. todo[j - (j - 1)] = Before(j - 1, v)
      BY <1>0, <2>1, <2>2, <3>1 DEF Left, Converts
    <3> QED
      BY <2>4, <3>1, <3>2
  <2>6. j = 1 => Head(todo) = << "bcd", v >>
    <3> SUFFICES ASSUME j = 1 PROVE Head(todo) = << "bcd", v >>
      OBVIOUS
    <3>1. todo[1] \in Accesses /\ todo[1][1] = "bcd" /\ v = todo[1][2]
      BY <1>0, <2>1, <2>2
    <3>2. "bcd" \notin DOMAIN Values
      BY RegisterNames
    <3> QED
      BY <2>4, <3>1, <3>2, AccessOf
  <2>7. Stage(j, v, reg', state_reg', taken')
    BY <2>1, <2>3, <2>5, <2>6, StageStays
  <2> QED
    BY <2>1, <2>2, <2>7
<1>3. CASE PassStep
  <2>1. Whole(todo')
    BY <1>3, PassAt DEF PassStep, Program
  <2>2. j > 5
    BY <2>1 DEF Whole
  <2> QED
    BY <2>2
<1> QED
  BY <1>1, <1>2, <1>3

(***************************************************************************)
(* The invariant, and what follows from it.                                *)
(***************************************************************************)
Inv == TypeInv /\ PulseInv /\ SoundInv /\ BrightInv /\ ConvInv

(* The first state.                                                        *)
LEMMA InitInv == Init => Inv
BY InitType, InitPulse, InitSound, InitBright, InitConv DEF Inv

(* Every step.                                                             *)
LEMMA NextInv == Inv /\ [Next]_vars => Inv'
<1> SUFFICES ASSUME Inv, [Next]_vars PROVE Inv'
  OBVIOUS
<1>1. TypeInv /\ PulseInv /\ SoundInv /\ BrightInv /\ ConvInv
  BY DEF Inv
<1>2. TypeInv'
  BY <1>1, NextType
<1>3. CASE Next
  <2>1. Hardware /\ (StoreStep \/ SkipStep \/ KeepStep \/ PassStep)
    BY <1>1, <1>3, StepOf DEF TypeInv, Left
  <2>2. i' \in 0 .. Passes
    BY <1>2 DEF TypeInv, TypeOK
  <2>3. PulseInv'
    BY <1>1, <2>1, NextPulse
  <2>4. SoundInv'
    BY <1>1, <2>1, <2>2, NextSound
  <2>5. BrightInv'
    BY <1>1, <2>1, <2>2, NextBright
  <2>6. ConvInv'
    BY <1>1, <2>1, <2>2, NextConv DEF Hardware
  <2> QED
    BY <1>2, <2>3, <2>4, <2>5, <2>6 DEF Inv
<1>4. CASE UNCHANGED vars
  <2>1. /\ reg' = reg /\ todo' = todo /\ state_reg' = state_reg
        /\ taken' = taken /\ leds1_en' = leds1_en /\ leds2_en' = leds2_en
        /\ sseg_arr' = sseg_arr
    BY <1>4 DEF vars, hardware, firmware, leds1, leds2, digits, bcd1
  <2>2. PulseInv'
    BY <1>1, <2>1 DEF PulseInv
  <2>3. SoundInv'
    BY <1>1, <2>1 DEF SoundInv, LedNow, DigitNow
  <2>4. BrightInv'
    BY <1>1, <2>1 DEF BrightInv
  <2>5. ConvInv'
    BY <1>1, <2>1 DEF ConvInv
  <2> QED
    BY <1>2, <2>2, <2>3, <2>4, <2>5 DEF Inv
<1> QED
  BY <1>3, <1>4

(* The invariant holds throughout.                                         *)
LEMMA SpecInv == Spec => []Inv
  BY InitInv, NextInv, PTL DEF Spec

(* When it is read, the conversion is through its stages.                  *)
LEMMA InvConverted == Inv => Converted
<1> SUFFICES ASSUME Inv, Reading
             PROVE  /\ Bcd!ready
                    /\ \A k \in Bcd!Places :
                         bcd_reg[k] = (Abs(Current[2]) \div PowerOf10[k]) % 10
  BY DEF Converted, Abs
<1>1. todo \in Seq(Accesses) /\ todo # << >> /\ Head(todo)[1] = "bcd"
  BY DEF Inv, TypeInv, Left, Reading, Current
<1>2. 1 \in 1 .. Len(todo) /\ Head(todo) = todo[1]
  BY <1>1, TailAt
<1>3. PICK v : v = Current[2]
  OBVIOUS
<1>4. Stage(1, v, reg, state_reg, taken)
  <2>1. 1 <= 5 /\ todo[1][1] = "bcd" /\ v = todo[1][2]
    BY <1>1, <1>2, <1>3 DEF Current
  <2> QED
    BY <1>2, <2>1 DEF Inv, ConvInv
<1>5. taken = Abs(v) /\ state_reg = "idle"
  BY <1>4 DEF Stage
<1>6. /\ Bcd!Value = Abs(v)
      /\ \A k \in Bcd!Places : bcd_reg[k] \in 0 .. 9
  <2>1. Bcd!DigitsExact
    BY BcdInvExact DEF Inv, TypeInv
  <2> QED
    BY <1>5, <2>1 DEF Bcd!DigitsExact
<1>7. Bcd!Places = {0, 1, 2, 3}
  BY DEF Bcd!Places, Bcd!BCD_N
<1>8. Abs(v) = bcd_reg[0] + 10 * bcd_reg[1] + 100 * bcd_reg[2]
               + 1000 * bcd_reg[3]
  BY <1>6 DEF Bcd!Value
<1>9. /\ bcd_reg[0] \in 0 .. 9 /\ bcd_reg[1] \in 0 .. 9
      /\ bcd_reg[2] \in 0 .. 9 /\ bcd_reg[3] \in 0 .. 9
  BY <1>6, <1>7
<1>10. /\ bcd_reg[0] = (Abs(v) \div 1) % 10
       /\ bcd_reg[1] = (Abs(v) \div 10) % 10
       /\ bcd_reg[2] = (Abs(v) \div 100) % 10
       /\ bcd_reg[3] = (Abs(v) \div 1000) % 10
  <2>1. PICK a \in 0 .. 9, b \in 0 .. 9, c \in 0 .. 9, d \in 0 .. 9 :
             /\ bcd_reg[0] = a /\ bcd_reg[1] = b
             /\ bcd_reg[2] = c /\ bcd_reg[3] = d
    BY <1>9
  <2>2. PICK m : m = Abs(v)
    OBVIOUS
  <2>3. m = a + 10 * b + 100 * c + 1000 * d
    BY <1>8, <2>1, <2>2
  <2>4. /\ m \in Nat /\ m \div 1 = m /\ m \div 10 = b + 10 * c + 100 * d
        /\ m \div 100 = c + 10 * d /\ m \div 1000 = d
    BY <2>3
  <2>5. /\ m % 10 = a /\ (b + 10 * c + 100 * d) % 10 = b
        /\ (c + 10 * d) % 10 = c /\ d % 10 = d
    BY <2>3
  <2> QED
    BY <2>1, <2>2, <2>4, <2>5
<1>11. /\ PowerOf10[0] = 1 /\ PowerOf10[1] = 10
       /\ PowerOf10[2] = 100 /\ PowerOf10[3] = 1000
  BY <1>7 DEF PowerOf10
<1>12. \A k \in Bcd!Places : bcd_reg[k] = (Abs(v) \div PowerOf10[k]) % 10
  BY <1>7, <1>10, <1>11
<1>13. Bcd!ready
  BY <1>5 DEF Bcd!ready
<1> QED
  BY <1>3, <1>12, <1>13

(* While a pass waits, its cells hold what it wants.                       *)
LEMMA WaitingHolds ==
  ASSUME Inv, Waiting
  PROVE  /\ Current[2] \in 0 .. Passes
         /\ \A a \in Addresses :
              /\ leds1_en[a] = LedOn(Current[2], a)
              /\ leds2_en[a] = LedOn(Current[2], a)
         /\ \A k \in Sseg!Digits : sseg_arr[k] = Glyph(Current[2], k)
         /\ reg.status_led_en = StatusOn(Current[2])
         /\ reg.leds1_brightness = 255 /\ reg.leds2_brightness = 255
<1>1. todo \in Seq(Accesses) /\ todo # << >> /\ Head(todo)[1] = "wait"
  BY DEF Inv, TypeInv, Left, Waiting, Current
<1>2. /\ 1 \in 1 .. Len(todo) /\ Head(todo) = todo[1]
      /\ Head(todo) \in Accesses
  BY <1>1, TailAt
<1>3. PICK p \in 0 .. Passes : Head(todo) = << "wait", p >>
  <2>1. "wait" \notin DOMAIN Values
    BY RegisterNames
  <2> QED
    BY <1>1, <1>2, <2>1, AccessOf
<1>4. Current[2] = p
  BY <1>3 DEF Current
<1>5. \A W, e, right : Sound(todo, p, W, e, right) => right
  <2> SUFFICES ASSUME NEW W, NEW e, NEW right, Sound(todo, p, W, e, right)
               PROVE  right
    OBVIOUS
  <2>1. todo[1] = << "wait", p >>
    BY <1>2, <1>3
  <2>2. \/ \E k \in 1 .. 1 - 1 :
             todo[k] = e /\ \A m \in k + 1 .. 1 - 1 : todo[m] \notin W
        \/ right /\ \A m \in 1 .. 1 - 1 : todo[m] \notin W
    BY <1>2, <2>1 DEF Sound
  <2> QED
    BY <2>2
<1>6. /\ reg["leds1_wr_val"] = LedsOff /\ reg["leds2_wr_val"] = LedsOff
      /\ reg["sseg_wr_val"] = SsegOff
  <2>1. ASSUME NEW n \in DOMAIN Off PROVE reg[n] = Off[n]
    <3>1. n # "wait"
      BY OffNames
    <3> QED
      BY <1>3, <3>1 DEF Inv, PulseInv
  <2>2. /\ Off["leds1_wr_val"] = LedsOff /\ Off["leds2_wr_val"] = LedsOff
        /\ Off["sseg_wr_val"] = SsegOff
    BY DEF Off
  <2> QED
    BY <2>1, <2>2, OffNames
<1>7. ASSUME NEW a \in Addresses
      PROVE  leds1_en[a] = LedOn(p, a) /\ leds2_en[a] = LedOn(p, a)
  <2>1. /\ LedNow("leds1_wr_val", a) = leds1_en[a]
        /\ LedNow("leds2_wr_val", a) = leds2_en[a]
    <3>1. LedsOff.sel = FALSE
      BY DEF LedsOff
    <3> QED
      BY <1>6, <3>1, Zenon DEF LedNow
  <2>2. \A n \in BarNames : LedNow(n, a) = LedOn(p, a)
    BY <1>5 DEF Inv, SoundInv
  <2> QED
    BY <2>1, <2>2 DEF BarNames
<1>8. ASSUME NEW k \in Sseg!Digits PROVE sseg_arr[k] = Glyph(p, k)
  <2>1. DigitNow(k) = sseg_arr[k]
    BY <1>6 DEF DigitNow, SsegOff
  <2>2. DigitNow(k) = Glyph(p, k)
    BY <1>5 DEF Inv, SoundInv
  <2> QED
    BY <2>1, <2>2
<1>9. reg.status_led_en = StatusOn(p)
  BY <1>5 DEF Inv, SoundInv
<1>10. ASSUME NEW n \in {"leds1_brightness", "leds2_brightness"}
       PROVE  reg[n] = 255
  <2>1. todo[1] \in Waits /\ todo[1] # << n, 255 >>
    <3>1. todo[1] = << "wait", p >>
      BY <1>2, <1>3
    <3>2. << "wait", p >> # << n, 255 >>
      <4>1. n # "wait"
        OBVIOUS
      <4> QED
        BY <4>1, PairOf, Zenon
    <3> QED
      BY <3>1, <3>2, Zenon DEF Waits
  <2>2. ASSUME NEW k \in 1 .. Len(todo), todo[k] = << n, 255 >>,
               \A m \in 1 .. k - 1 : todo[m] \notin Waits
        PROVE  FALSE
    <3>1. k # 1
      BY <2>1, <2>2
    <3>2. 1 \in 1 .. k - 1
      BY <2>2, <3>1
    <3> QED
      BY <2>1, <2>2, <3>2
  <2>3. Bright(todo, n, reg[n] = 255)
    BY DEF Inv, BrightInv
  <2> QED
    BY <2>2, <2>3 DEF Bright
<1>11. reg["leds1_brightness"] = 255 /\ reg["leds2_brightness"] = 255
  BY <1>10
<1> QED
  BY <1>4, <1>7, <1>8, <1>9, <1>11

(* What the scan of a bar drives: the LED at its address, if it is on.     *)
LEMMA DrivenOnes ==
  /\ \A d \in Bar1!m_en : leds1_en[leds1_addr] /\ d = leds1_m
  /\ \A c \in Bar1!n_en : leds1_en[leds1_addr] /\ c = leds1_n
  /\ leds1_en[leds1_addr] => leds1_m \in Bar1!m_en /\ leds1_n \in Bar1!n_en
  /\ \A d \in Bar2!m_en : leds2_en[leds2_addr] /\ d = leds2_m
  /\ \A c \in Bar2!n_en : leds2_en[leds2_addr] /\ c = leds2_n
  /\ leds2_en[leds2_addr] => leds2_m \in Bar2!m_en /\ leds2_n \in Bar2!n_en
BY DEF Bar1!m_en, Bar1!n_en, Bar2!m_en, Bar2!n_en

LEMMA TurnIs == led_idx \in {0, 1} => led_idx_next \in {0, 1}
BY DEF led_idx_next

(* A LED that is lit is at a column of the bar in turn, in a row of either.*)
LEMMA LitIs ==
  ASSUME reg.leds1_brightness > 0, reg.leds2_brightness > 0
  PROVE  /\ G = IF led_idx_next = 0 THEN Bar1!n_en ELSE Bar2!n_en
         /\ \A lit \in Lit :
              /\ lit[2] \in G
              /\ \/ lit[1][1] = 0 /\ lit[1][2] \in Bar1!m_en
                 \/ lit[1][1] = 1 /\ lit[1][2] \in Bar2!m_en
         /\ \A c \in G :
              /\ \A d \in Bar1!m_en : << << 0, d >>, c >> \in Lit
              /\ \A d \in Bar2!m_en : << << 1, d >>, c >> \in Lit
<1> DEFINE d1 == {0} \X Bar1!m_en
           d2 == {1} \X Bar2!m_en
<1>1. /\ G = IF led_idx_next = 0 THEN Bar1!n_en ELSE Bar2!n_en
      /\ D = d1 \cup d2
  BY DEF G, D, Driven
<1>2. /\ \A e \in d1 : e[1] = 0 /\ e[2] \in Bar1!m_en
      /\ \A e \in d2 : e[1] = 1 /\ e[2] \in Bar2!m_en
  OBVIOUS
<1>3. /\ \A d \in Bar1!m_en : << 0, d >> \in d1
      /\ \A d \in Bar2!m_en : << 1, d >> \in d2
  OBVIOUS
<1> HIDE DEF d1, d2
<1>4. \A lit \in D \X G : lit[1] \in D /\ lit[2] \in G
  OBVIOUS
<1>5. \A c \in G : \A e \in D : << e, c >> \in D \X G
  OBVIOUS
<1>6. \A e \in D : \/ e[1] = 0 /\ e[2] \in Bar1!m_en
                   \/ e[1] = 1 /\ e[2] \in Bar2!m_en
  BY <1>1, <1>2
<1>7. /\ \A d \in Bar1!m_en : << 0, d >> \in D
      /\ \A d \in Bar2!m_en : << 1, d >> \in D
  BY <1>1, <1>3
<1>8. Lit = D \X G
  BY DEF Lit
<1> QED
  BY <1>1, <1>4, <1>5, <1>6, <1>7, <1>8, Zenon

(* The LEDs that are lit: the one in turn, if the pass wants it, and with  *)
(* it one of the other bar, if the pass wants the one its scan is at.      *)
LEMMA LitOf ==
  ASSUME Inv, Waiting
  PROVE  LET p   == Current[2]
             own == {lit \in Lit : lit[1][1] = led_idx_next}
         IN /\ \A lit \in own : LedOn(p, lit[1][2] * LEDS_N + lit[2])
            /\ own = {} => ~LedOn(p, Scan(led_idx_next))
            /\ \A lit \in Lit : LedOn(p, Scan(lit[1][1]))
<1> DEFINE p == Current[2]
           own == {lit \in Lit : lit[1][1] = led_idx_next}
<1>1. /\ reg.leds1_brightness > 0 /\ reg.leds2_brightness > 0
      /\ \A a \in Addresses : /\ leds1_en[a] = LedOn(p, a)
                              /\ leds2_en[a] = LedOn(p, a)
  BY WaitingHolds
<1>2. Bar1!TypeOK /\ Bar2!TypeOK /\ led_idx_next \in {0, 1}
  BY TurnIs DEF Inv, TypeInv, TypeOK
<1>3. /\ leds1_m \in 0 .. LEDS_M - 1 /\ leds1_n \in 0 .. LEDS_N - 1
      /\ leds1_addr = leds1_m * LEDS_N + leds1_n
  BY <1>2 DEF Bar1!TypeOK
<1>4. /\ leds2_m \in 0 .. LEDS_M - 1 /\ leds2_n \in 0 .. LEDS_N - 1
      /\ leds2_addr = leds2_m * LEDS_N + leds2_n
  BY <1>2 DEF Bar2!TypeOK
<1>5. leds1_addr \in Addresses /\ leds2_addr \in Addresses
  BY <1>3, <1>4, Scanned
<1>6. /\ leds1_en[leds1_addr] = LedOn(p, Scan(0))
      /\ leds2_en[leds2_addr] = LedOn(p, Scan(1))
      /\ Scan(0) = leds1_addr /\ Scan(1) = leds2_addr
  <2>1. Scan(0) = leds1_addr /\ Scan(1) = leds2_addr
    BY DEF Scan
  <2> QED
    BY <1>1, <1>5, <2>1, Zenon
<1>7. ASSUME NEW lit \in Lit
      PROVE  /\ LedOn(p, Scan(lit[1][1]))
             /\ lit[1][1] = led_idx_next =>
                  lit[1][2] * LEDS_N + lit[2] = Scan(led_idx_next)
  <2>1. CASE lit[1][1] = 0 /\ lit[1][2] \in Bar1!m_en
    <3>1. LedOn(p, Scan(lit[1][1])) /\ lit[1][2] = leds1_m
      BY <1>6, <2>1, DrivenOnes, Zenon
    <3>2. led_idx_next = 0 => lit[2] = leds1_n
      BY <1>1, LitIs, DrivenOnes, Zenon
    <3> QED
      BY <1>3, <1>6, <2>1, <3>1, <3>2, Zenon
  <2>2. CASE lit[1][1] = 1 /\ lit[1][2] \in Bar2!m_en
    <3>1. LedOn(p, Scan(lit[1][1])) /\ lit[1][2] = leds2_m
      BY <1>6, <2>2, DrivenOnes, Zenon
    <3>2. led_idx_next = 1 => lit[2] = leds2_n
      <4>1. led_idx_next = 1 => G = Bar2!n_en
        BY <1>1, LitIs
      <4> QED
        BY <1>1, <4>1, LitIs, DrivenOnes, Zenon
    <3> QED
      BY <1>4, <1>6, <2>2, <3>1, <3>2, Zenon
  <2> QED
    BY <1>1, <2>1, <2>2, LitIs, Zenon
<1>8. ASSUME own = {}
      PROVE  ~LedOn(p, Scan(led_idx_next))
  <2>1. \A lit \in Lit : lit[1][1] # led_idx_next
    BY <1>8
  <2>2. CASE led_idx_next = 0
    <3>1. G = Bar1!n_en
      BY <1>1, <2>2, LitIs, Zenon
    <3>2. << << 0, leds1_m >>, leds1_n >>[1][1] = 0
      OBVIOUS
    <3>3. ~(leds1_m \in Bar1!m_en /\ leds1_n \in G)
      BY <1>1, <2>1, <2>2, <3>2, LitIs
    <3> QED
      BY <1>6, <2>2, <3>1, <3>3, DrivenOnes, Zenon
  <2>3. CASE led_idx_next = 1
    <3>1. G = Bar2!n_en
      BY <1>1, <2>3, LitIs
    <3>2. << << 1, leds2_m >>, leds2_n >>[1][1] = 1
      OBVIOUS
    <3>3. ~(leds2_m \in Bar2!m_en /\ leds2_n \in G)
      BY <1>1, <2>1, <2>3, <3>2, LitIs
    <3> QED
      BY <1>6, <2>3, <3>1, <3>3, DrivenOnes, Zenon
  <2> QED
    BY <1>2, <2>2, <2>3
<1>9. \A lit \in own : LedOn(p, lit[1][2] * LEDS_N + lit[2])
  <2>1. ASSUME NEW lit \in own
        PROVE  LedOn(p, lit[1][2] * LEDS_N + lit[2])
    <3>1. lit \in Lit /\ lit[1][1] = led_idx_next
      BY <2>1
    <3> HIDE DEF own
    <3> QED
      BY <1>7, <3>1, Zenon
  <2> QED
    BY <2>1
<1> QED
  BY <1>7, <1>8, <1>9

(* What is lit and shown, from what the cells hold.                        *)
LEMMA InvShows == Inv => TurnShowsPass
<1> SUFFICES ASSUME Inv, Waiting PROVE TurnShowsPass
  BY DEF TurnShowsPass
<1> DEFINE p == Current[2]
<1>1. /\ \A k \in Sseg!Digits : sseg_arr[k] = Glyph(p, k)
      /\ reg.status_led_en = StatusOn(p)
  BY WaitingHolds
<1>2. oe_i \in Sseg!Digits
  BY DEF Inv, TypeInv, TypeOK, Sseg!TypeOK
<1>3. sseg_arr[oe_i] = Glyph(p, oe_i)
  BY <1>1, <1>2
<1>4. oe_i \in Sseg!oe <=> Glyph(p, oe_i) # Sseg!Blank
  BY <1>3, Zenon DEF Sseg!oe
<1> QED
  BY <1>1, <1>3, <1>4, LitOf, Zenon DEF TurnShowsPass

-----------------------------------------------------------------------------
(***************************************************************************)
(* The theorems about the panel.                                           *)
(***************************************************************************)

(* Every register the firmware writes keeps its range, and so do the scans,*)
(* the register files and the converter behind them: no access that init   *)
(* or test makes is outside the panel (controller.c:25-55, test.c:113-207).*)
THEOREM TypeCorrect == Spec => []TypeOK
<1>1. Inv => TypeOK
  BY DEF Inv, TypeInv
<1> QED
  BY <1>1, SpecInv, PTL

(* Between conversions the converter of the panel holds the decimal digits *)
(* of what it took, whenever the firmware starts it (bin2bcd.v:50-125).    *)
THEOREM PanelDigits == Spec => []DigitsExact
<1>1. Inv => DigitsExact
  BY BcdInvExact DEF Inv, TypeInv, DigitsExact
<1> QED
  BY <1>1, SpecInv, PTL

(* When bcd_convert reads the converter it holds the digits of the         *)
(* magnitude of its own argument, for every sequence of arguments and every*)
(* time between the accesses (controller_system.c:65-81, test.c:143-146).  *)
THEOREM ReadsConverted == Spec => []Converted
  BY SpecInv, InvConverted, PTL

(* While a pass waits, the bar in turn, the digit in turn and the status   *)
(* LEDs show that pass, and the other bar has no row driven but for a LED  *)
(* of that pass: for bars and rows of every size, every divider and every  *)
(* time between the accesses (test.c:113-207, blastit_main.v:403-417,      *)
(* led_matrix.v:44-83, sseg_array.v:35-68).                                *)
THEOREM TurnsShowPasses == Spec => []TurnShowsPass
  BY SpecInv, InvShows, PTL
=============================================================================
