---------------------------- MODULE DisplayProofs ----------------------------
(***************************************************************************)
(* Proofs about Display: the warnings, for every set of readouts and every *)
(* value the session can report.                                           *)
(***************************************************************************)
EXTENDS Display, TLAPS

(***************************************************************************)
(* What the tasks compute.                                                 *)
(***************************************************************************)
Whole == display_params \in [Fields -> Int]

InRange(v) == v \in Int /\ -81920 < v /\ v < 81920

(* The end of the AFR bar is on the bar, and at one end of it for a value  *)
(* out of range.                                                           *)
LEMMA AfrEnd ==
  ASSUME Whole
  PROVE  /\ afr_end \in 0 .. 30
         /\ display_params.Afr < 1100 => afr_end = 0
         /\ display_params.Afr > 1800 => afr_end = 30
<1>1. display_params.Afr \in Int
  BY DEF Whole, Fields
<1> DEFINE afr == Clamped(display_params.Afr, 1100, 1800)
           end == -((-(30 * (afr - 1120))) \div 700)
<1>2. /\ afr \in 1100 .. 1800
      /\ display_params.Afr < 1100 => afr = 1100
      /\ display_params.Afr > 1800 => afr = 1800
  BY <1>1 DEF Clamped
<1>3. afr_end = Clamped(end, 0, 30)
  BY DEF afr_end, warn_l, warn_u, LEDS_MAX
<1>4. /\ end \in Int
      /\ afr = 1100 => end <= 0
      /\ afr = 1800 => end >= 30
  <2> HIDE DEF afr
  <2> QED
    BY <1>2
<1> HIDE DEF afr, end
<1> QED
  BY <1>2, <1>3, <1>4 DEF Clamped

(* The boost bar is always full.                                           *)
LEMMA BoostFull ==
  ASSUME Whole
  PROVE  boost_idx = 30
<1>1. display_params.Boost \in Int
  BY DEF Whole, Fields
<1> DEFINE boost == Clamped(display_params.Boost, -1000, 1000)
           idx   == (((boost + 1000) \div 100) * 30) \div 20
<1>2. boost \in Int /\ -1000 <= boost /\ boost <= 1000
  BY <1>1 DEF Clamped
<1>3. boost_idx = IF idx < 30 THEN 30 ELSE idx
  BY <1>2 DEF boost_idx, warn_l, warn_u, LEDS_MAX
<1>4. idx \in 0 .. 30
  <2> HIDE DEF boost
  <2> QED
    BY <1>2
<1> HIDE DEF idx
<1> QED
  BY <1>3, <1>4

(* The decimal places of a number of four digits.                          *)
LEMMA DecimalPlaces ==
  ASSUME NEW d \in Nat, d <= 8191
  PROVE  /\ (d \div 1000) % 10 \in 0 .. 9 /\ (d \div 100) % 10 \in 0 .. 9
         /\ (d \div 10) % 10 \in 0 .. 9   /\ (d \div 1) % 10 \in 0 .. 9
         /\ d = 1000 * ((d \div 1000) % 10) + 100 * ((d \div 100) % 10)
                + 10 * ((d \div 10) % 10) + ((d \div 1) % 10)
         /\ d \div 10 = 100 * ((d \div 1000) % 10)
                        + 10 * ((d \div 100) % 10) + ((d \div 10) % 10)
<1>1. /\ (d \div 1000) % 10 \in 0 .. 9 /\ (d \div 100) % 10 \in 0 .. 9
      /\ (d \div 10) % 10 \in 0 .. 9   /\ (d \div 1) % 10 \in 0 .. 9
  OBVIOUS
<1>2. d = 1000 * ((d \div 1000) % 10) + 100 * ((d \div 100) % 10)
          + 10 * ((d \div 10) % 10) + ((d \div 1) % 10)
  OBVIOUS
<1>3. d \div 10 = 100 * ((d \div 1000) % 10) + 10 * ((d \div 100) % 10)
                  + ((d \div 10) % 10)
  OBVIOUS
<1> QED
  BY <1>1, <1>2, <1>3

Absolute(v) == IF v < 0 THEN -v ELSE v

(* The digits that a value is converted to.                                *)
LEMMA Decimals ==
  ASSUME NEW v, InRange(v)
  PROVE  /\ bcd(v)[0] \in 0 .. 9 /\ bcd(v)[1] \in 0 .. 9
         /\ bcd(v)[2] \in 0 .. 9 /\ bcd(v)[3] \in 0 .. 9
         /\ Absolute(v) \div 10 = 1000 * bcd(v)[0] + 100 * bcd(v)[1]
                                  + 10 * bcd(v)[2] + bcd(v)[3]
         /\ Absolute(v) \div 100 = 100 * bcd(v)[0] + 10 * bcd(v)[1]
                                   + bcd(v)[2]
<1>1. PICK m \in Nat : m = Absolute(v) /\ m <= 81919
  BY DEF InRange, Absolute
<1>2. PICK d \in Nat : d = m \div 10 /\ d <= 8191
  BY <1>1
<1>3. m \div 100 = d \div 10
  BY <1>2
<1>4. /\ bcd(v)[0] = (d \div 1000) % 10
      /\ bcd(v)[1] = (d \div 100) % 10
      /\ bcd(v)[2] = (d \div 10) % 10
      /\ bcd(v)[3] = (d \div 1) % 10
  BY <1>1, <1>2 DEF bcd, Absolute
<1>5. /\ Absolute(v) \div 10 = d
      /\ Absolute(v) \div 100 = d \div 10
  BY <1>1, <1>2, <1>3
<1> QED
  BY <1>2, <1>4, <1>5, DecimalPlaces

(* What a value makes of a position; its digits begin at the first.        *)
First(v) == IF v < 0 THEN 2 ELSE 1

Shown(v, k) ==
  CASE k < First(v) -> Encode(TRUE, TRUE, FALSE, 0)
    [] k >= First(v) /\ k - First(v) < Leading(bcd(v)) -> Blank
    [] OTHER -> Encode(TRUE, FALSE, k = First(v) + 2, bcd(v)[k - First(v)])

LEMMA Encoded ==
  /\ Encode(TRUE, TRUE, FALSE, 0) = [num |-> 16, dp |-> FALSE]
  /\ Blank = [num |-> 17, dp |-> FALSE]
  /\ \A g : /\ Encode(TRUE, FALSE, FALSE, g) = [num |-> g, dp |-> FALSE]
            /\ Encode(TRUE, FALSE, TRUE, g) = [num |-> g, dp |-> TRUE]
BY DEF Encode, Blank, Dash, Nothing

LEMMA ShownDigit ==
  ASSUME NEW v, First(v) \in {1, 2}, NEW k \in First(v) .. 4,
         Leading(bcd(v)) \in 0 .. 2
  PROVE  LET j == k - First(v)
         IN /\ j < Leading(bcd(v)) => Shown(v, k) = Blank
            /\ ~(j < Leading(bcd(v))) /\ j # 2 =>
                 Shown(v, k) = [num |-> bcd(v)[j], dp |-> FALSE]
            /\ j = 2 => Shown(v, k) = [num |-> bcd(v)[2], dp |-> TRUE]
<1> DEFINE j == k - First(v)
<1>1. ~(k < First(v)) /\ k >= First(v)
  OBVIOUS
<1>2. ASSUME j < Leading(bcd(v))
      PROVE  Shown(v, k) = Blank
  BY <1>1, <1>2, Zenon DEF Shown
<1>3. ASSUME ~(j < Leading(bcd(v)))
      PROVE  Shown(v, k) = Encode(TRUE, FALSE, k = First(v) + 2, bcd(v)[j])
  BY <1>1, <1>3, Zenon DEF Shown
<1>4. j # 2 => (k = First(v) + 2) = FALSE
  OBVIOUS
<1>5. j = 2 => (k = First(v) + 2) = TRUE
  OBVIOUS
<1>6. j = 2 => ~(j < Leading(bcd(v)))
  OBVIOUS
<1> QED
  BY <1>2, <1>3, <1>4, <1>5, <1>6, Encoded, Zenon

LEMMA GlyphsIn ==
  \A n \in 0 .. 17 : /\ [num |-> n, dp |-> FALSE] \in Glyphs
                      /\ [num |-> n, dp |-> TRUE] \in Glyphs
BY DEF Glyphs

LEMMA ReadoutShows ==
  ASSUME NEW r
  PROVE  Readout(r) = [k \in 1 .. 4 |-> Shown(display_params[r], k)]
BY DEF Readout, Shown, First

(* A readout reads the value cut to its four positions.                    *)
LEMMA ReadsShortened ==
  ASSUME NEW v, InRange(v), NEW d, d = [k \in 1 .. 4 |-> Shown(v, k)]
  PROVE  /\ d \in [1 .. 4 -> Glyphs]
         /\ Reads(d) = Shortened(v)
         /\ {k \in 1 .. 4 : d[k].dp} = IF d[1].num = Dash THEN {4} ELSE {3}
<1> DEFINE b == bcd(v)
<1>1. /\ b[0] \in 0 .. 9 /\ b[1] \in 0 .. 9
      /\ b[2] \in 0 .. 9 /\ b[3] \in 0 .. 9
      /\ Absolute(v) \div 10 = 1000 * b[0] + 100 * b[1] + 10 * b[2] + b[3]
      /\ Absolute(v) \div 100 = 100 * b[0] + 10 * b[1] + b[2]
  BY Decimals
<1>2. /\ d[1] = Shown(v, 1) /\ d[2] = Shown(v, 2)
      /\ d[3] = Shown(v, 3) /\ d[4] = Shown(v, 4)
  OBVIOUS
<1>3. /\ Leading(b) = IF b[0] # 0 THEN 0 ELSE IF b[1] # 0 THEN 1 ELSE 2
  BY DEF Leading
<1> HIDE DEF b
<1>4. Leading(b) \in 0 .. 2
  BY <1>3
<1>5. CASE v < 0
  <2>1. /\ d[1] = [num |-> 16, dp |-> FALSE]
        /\ b[0] = 0 => d[2] = [num |-> 17, dp |-> FALSE]
        /\ b[0] # 0 => d[2] = [num |-> b[0], dp |-> FALSE]
        /\ b[0] = 0 /\ b[1] = 0 => d[3] = [num |-> 17, dp |-> FALSE]
        /\ b[0] # 0 \/ b[1] # 0 => d[3] = [num |-> b[1], dp |-> FALSE]
        /\ d[4] = [num |-> b[2], dp |-> TRUE]
    <3>1. d[1] = Encode(TRUE, TRUE, FALSE, 0)
      BY <1>2, <1>5 DEF Shown, First
    <3>2. /\ b[0] = 0 => d[2] = Blank
          /\ b[0] # 0 => d[2] = [num |-> b[0], dp |-> FALSE]
      BY <1>1, <1>2, <1>3, <1>4, <1>5, ShownDigit DEF b, First
    <3>3. /\ b[0] = 0 /\ b[1] = 0 => d[3] = Blank
          /\ b[0] # 0 \/ b[1] # 0 => d[3] = [num |-> b[1], dp |-> FALSE]
      BY <1>1, <1>2, <1>3, <1>4, <1>5, ShownDigit DEF b, First
    <3>4. d[4] = [num |-> b[2], dp |-> TRUE]
      BY <1>1, <1>2, <1>3, <1>4, <1>5, ShownDigit DEF b, First
    <3> QED
      BY <3>1, <3>2, <3>3, <3>4, Encoded, Zenon
  <2>2. /\ d[1].num = 16 /\ ~d[1].dp /\ ~d[2].dp /\ ~d[3].dp /\ d[4].dp
        /\ Figure(d[2]) = b[0] /\ Figure(d[3]) = b[1]
        /\ Figure(d[4]) = b[2]
    BY <1>1, <2>1 DEF Figure, Nothing
  <2>3. d \in [1 .. 4 -> Glyphs]
    <3>1. /\ d[1] \in Glyphs /\ d[2] \in Glyphs
          /\ d[3] \in Glyphs /\ d[4] \in Glyphs
      <4>1. /\ b[0] \in 0 .. 17 /\ b[1] \in 0 .. 17 /\ b[2] \in 0 .. 17
            /\ b[3] \in 0 .. 17 /\ 16 \in 0 .. 17 /\ 17 \in 0 .. 17
        BY <1>1
      <4> QED
        BY <2>1, <4>1, GlyphsIn, Zenon
    <3> QED
      BY <3>1
  <2>4. Reads(d) = -10 * (Absolute(v) \div 100)
    BY <1>1, <2>2 DEF Reads, Dash
  <2>5. Shortened(v) = -10 * (Absolute(v) \div 100)
    BY <1>5 DEF Shortened, Absolute
  <2>6. {k \in 1 .. 4 : d[k].dp} = {4}
    BY <2>2
  <2> QED
    BY <2>2, <2>3, <2>4, <2>5, <2>6 DEF Dash
<1>6. CASE ~(v < 0)
  <2>1. /\ b[0] = 0 => d[1] = [num |-> 17, dp |-> FALSE]
        /\ b[0] # 0 => d[1] = [num |-> b[0], dp |-> FALSE]
        /\ b[0] = 0 /\ b[1] = 0 => d[2] = [num |-> 17, dp |-> FALSE]
        /\ b[0] # 0 \/ b[1] # 0 => d[2] = [num |-> b[1], dp |-> FALSE]
        /\ d[3] = [num |-> b[2], dp |-> TRUE]
        /\ d[4] = [num |-> b[3], dp |-> FALSE]
    <3>1. /\ b[0] = 0 => d[1] = Blank
          /\ b[0] # 0 => d[1] = [num |-> b[0], dp |-> FALSE]
      BY <1>1, <1>2, <1>3, <1>4, <1>6, ShownDigit DEF b, First
    <3>2. /\ b[0] = 0 /\ b[1] = 0 => d[2] = Blank
          /\ b[0] # 0 \/ b[1] # 0 => d[2] = [num |-> b[1], dp |-> FALSE]
      BY <1>1, <1>2, <1>3, <1>4, <1>6, ShownDigit DEF b, First
    <3>3. /\ d[3] = [num |-> b[2], dp |-> TRUE]
          /\ d[4] = [num |-> b[3], dp |-> FALSE]
      BY <1>1, <1>2, <1>3, <1>4, <1>6, ShownDigit DEF b, First
    <3> QED
      BY <3>1, <3>2, <3>3, Encoded, Zenon
  <2>2. /\ d[1].num # 16 /\ ~d[1].dp /\ ~d[2].dp /\ d[3].dp /\ ~d[4].dp
        /\ Figure(d[1]) = b[0] /\ Figure(d[2]) = b[1]
        /\ Figure(d[3]) = b[2] /\ Figure(d[4]) = b[3]
    BY <1>1, <2>1 DEF Figure, Nothing
  <2>3. d \in [1 .. 4 -> Glyphs]
    <3>1. /\ d[1] \in Glyphs /\ d[2] \in Glyphs
          /\ d[3] \in Glyphs /\ d[4] \in Glyphs
      <4>1. /\ b[0] \in 0 .. 17 /\ b[1] \in 0 .. 17 /\ b[2] \in 0 .. 17
            /\ b[3] \in 0 .. 17 /\ 16 \in 0 .. 17 /\ 17 \in 0 .. 17
        BY <1>1
      <4> QED
        BY <2>1, <4>1, GlyphsIn, Zenon
    <3> QED
      BY <3>1
  <2>4. Reads(d) = Absolute(v) \div 10
    BY <1>1, <2>2 DEF Reads, Dash
  <2>5. Shortened(v) = Absolute(v) \div 10
    BY <1>6 DEF Shortened, Absolute
  <2>6. {k \in 1 .. 4 : d[k].dp} = {3}
    BY <2>2
  <2> QED
    BY <2>2, <2>3, <2>4, <2>5, <2>6 DEF Dash
<1> QED
  BY <1>5, <1>6

(***************************************************************************)
(* The inductive invariants: the values stay in their ranges; what the lamp*)
(* and the blinker have done they did for a warning, and a warning, once   *)
(* set, stays.                                                             *)
(***************************************************************************)
Types == /\ TypeOK
         /\ \A f \in Fields : InRange(display_params[f])

Inv == /\ found \subseteq flags
       /\ flags \subseteq ever
       /\ flags \subseteq Warned
       /\ warn_en \/ sdata # "empty" \/ hung => flags # {}

(* warning_clear leaves the flags alone: it clears one only if not set.    *)
LEMMA NeverCleared ==
  ASSUME NEW f, warning_clear(f)
  PROVE  flags' = flags
BY DEF warning_clear

(* What the look at a parameter does to the flags.                         *)
LEMMA LookInv ==
  ASSUME Inv, NEW f \in Warned, Look(f), UNCHANGED lamp,
         \/ Out(f) /\ f \notin flags /\ warning_set(f)
         \/ Out(f) /\ warning_set(f)
         \/ ~Out(f) /\ UNCHANGED flags
         \/ f \in flags /\ UNCHANGED flags
  PROVE  Inv'
BY DEF Inv, Look, warning_set, lamp

LEMMA InitInv == Init => Inv
BY DEF Init, Inv

LEMMA NextInv == Inv /\ [Next]_vars => Inv'
<1> SUFFICES ASSUME Inv, [Next]_vars PROVE Inv'
  OBVIOUS
<1> USE DEF Inv
<1>1. CASE Receive
  BY <1>1 DEF Receive, warnings, lamp
<1>2. CASE LightChanges
  BY <1>2 DEF LightChanges, warnings, lamp
<1>3. CASE daylight_update
  BY <1>3 DEF daylight_update, warnings, lamp
<1>4. CASE blinker_update
  BY <1>4 DEF blinker_update, warnings
<1>5. CASE warning_update
  BY <1>5 DEF warning_update, blinker_start, warnings
<1>6. CASE boost_update
  <2>1. "Boost" \in Warned
    BY DEF Warned
  <2>2. Look("Boost") /\ UNCHANGED lamp
    BY <1>6 DEF boost_update
  <2>3. CASE Out("Boost") /\ "Boost" \notin flags
    <3>1. warning_set("Boost")
      BY <1>6, <2>3 DEF boost_update
    <3> QED
      BY <2>1, <2>2, <2>3, <3>1, LookInv
  <2>4. CASE "Boost" \in flags
    <3>1. UNCHANGED flags
      BY <1>6, <2>4, NeverCleared DEF boost_update
    <3> QED
      BY <2>1, <2>2, <2>4, <3>1, LookInv
  <2>5. CASE ~Out("Boost") /\ "Boost" \notin flags
    <3>1. UNCHANGED flags
      BY <1>6, <2>5 DEF boost_update
    <3> QED
      BY <2>1, <2>2, <2>5, <3>1, LookInv
  <2> QED
    BY <2>3, <2>4, <2>5
<1>7. CASE afr_update
  BY <1>7 DEF afr_update, warnings, lamp
<1>8. ASSUME NEW r \in Readouts, readout_update(r)
      PROVE  Inv'
  <2>1. r \in Warned
    BY DisplayAssumption
  <2>2. Look(r) /\ UNCHANGED lamp
    BY <1>8 DEF readout_update
  <2>3. CASE Out(r)
    <3>1. warning_set(r)
      BY <1>8, <2>3 DEF readout_update
    <3> QED
      BY <2>1, <2>2, <2>3, <3>1, LookInv
  <2>4. CASE ~Out(r)
    <3>1. UNCHANGED flags
      BY <1>8, <2>4, NeverCleared DEF readout_update
    <3> QED
      BY <2>1, <2>2, <2>4, <3>1, LookInv
  <2> QED
    BY <2>3, <2>4
<1>9. CASE UNCHANGED vars
  BY <1>9 DEF vars, warnings, lamp
<1> QED
  BY <1>1, <1>2, <1>3, <1>4, <1>5, <1>6, <1>7, <1>8, <1>9 DEF Next, Tasks

LEMMA SpecInv == Spec => []Inv
  BY InitInv, NextInv, PTL DEF Spec

(* The types of the flags, the lamp, the digits and the bars.              *)
LEMMA InitTypes == Init => Types
<1> SUFFICES ASSUME Init PROVE Types
  OBVIOUS
<1>1. {sensor, is_daylight, mil_done, hung, warn_en} \subseteq BOOLEAN
  BY Zenon DEF Init
<1>2. digits \in [Readouts -> [1 .. 4 -> Glyphs]]
  <2>1. Blank \in Glyphs
    BY Encoded, GlyphsIn
  <2> QED
    BY <2>1 DEF Init
<1>3. /\ display_params \in [Fields -> Int]
      /\ \A f \in Fields : InRange(display_params[f])
  BY DEF Init, InRange
<1> QED
  BY <1>1, <1>2, <1>3 DEF Init, Types, TypeOK, MAX, LEDS_MAX

LEMMA NextTypes == Types /\ Inv /\ [Next]_vars => Types'
<1> SUFFICES ASSUME Types, Inv, [Next]_vars PROVE Types'
  OBVIOUS
<1> DEFINE
  Booleans == {sensor, is_daylight, mil_done, hung, warn_en} \subseteq BOOLEAN
  Values == /\ display_params \in [Fields -> Int]
            /\ \A f \in Fields : InRange(display_params[f])
  Sets == /\ flags \subseteq Warned
          /\ found \subseteq Warned /\ ever \subseteq Warned
          /\ sdata \in {"empty", "stack"}
  Digits == digits \in [Readouts -> [1 .. 4 -> Glyphs]]
  Bars == /\ boost_lit \subseteq 0 .. LEDS_MAX - 1
          /\ afr_lit \subseteq 0 .. LEDS_MAX - 1
          /\ {sseg_brightness, boost_brightness, afr_brightness}
               \subseteq 0 .. MAX
<1>1. Booleans /\ Values /\ Sets /\ Digits /\ Bars
  BY DEF Types, TypeOK
<1>2. Booleans'
  BY <1>1, Zenon DEF Next, Tasks, Receive, LightChanges, daylight_update,
       blinker_update, warning_update, boost_update, afr_update,
       readout_update, inputs, lamp, vars
<1>3. Values'
  <2>1. CASE Receive
    BY <2>1, DisplayAssumption DEF Receive, InRange
  <2>2. CASE UNCHANGED display_params
    BY <1>1, <2>2
  <2> QED
    BY <2>1, <2>2, Zenon DEF Next, Tasks, LightChanges, daylight_update,
         blinker_update, warning_update, boost_update, afr_update,
         readout_update, inputs, vars
<1>4. Sets'
  <2>1. flags' \subseteq Warned
    BY NextInv DEF Inv
  <2>2. found' \subseteq Warned /\ ever' \subseteq Warned
    <3>1. ASSUME NEW f \in Warned, Look(f)
          PROVE  found' \subseteq Warned /\ ever' \subseteq Warned
      BY <1>1, <3>1 DEF Look
    <3>2. "Boost" \in Warned /\ \A r \in Readouts : r \in Warned
      BY DisplayAssumption DEF Warned
    <3>3. CASE UNCHANGED << found, ever >>
      BY <1>1, <3>3
    <3> QED
      BY <3>1, <3>2, <3>3, Zenon DEF Next, Tasks, Receive, LightChanges,
           daylight_update, blinker_update, warning_update, boost_update,
           afr_update, readout_update, warnings, vars
  <2>3. sdata' \in {"empty", "stack"}
    BY <1>1, Zenon DEF Next, Tasks, Receive, LightChanges, daylight_update,
         blinker_update, blinker_start, warning_update, boost_update,
         afr_update, readout_update, lamp, vars
  <2> QED
    BY <2>1, <2>2, <2>3
<1>5. Digits'
  <2>1. ASSUME NEW r \in Readouts, readout_update(r)
        PROVE  Digits'
    <3>1. InRange(display_params[r])
      BY <1>1, DisplayAssumption DEF Types, Warned, Fields
    <3>2. Readout(r) \in [1 .. 4 -> Glyphs]
      BY <3>1, ReadoutShows, ReadsShortened
    <3> QED
      BY <1>1, <2>1, <3>2 DEF readout_update
  <2>2. CASE UNCHANGED digits
    BY <1>1, <2>2
  <2> QED
    BY <2>1, <2>2, Zenon DEF Next, Tasks, Receive, LightChanges,
         daylight_update, blinker_update, warning_update, boost_update,
         afr_update, vars
<1>6. Bars'
  <2>1. /\ sseg_brightness \in 0 .. 255 /\ boost_brightness \in 0 .. 255
        /\ afr_brightness \in 0 .. 255
        /\ boost_lit \subseteq 0 .. 29 /\ afr_lit \subseteq 0 .. 29
    BY <1>1 DEF MAX, LEDS_MAX
  <2>2. ASSUME NEW m PROVE Brightness(m) \in 0 .. 255
    BY DEF Brightness, MAX
  <2>3. /\ sseg_brightness' \in 0 .. 255 /\ boost_brightness' \in 0 .. 255
        /\ afr_brightness' \in 0 .. 255
        /\ boost_lit' \subseteq 0 .. 29 /\ afr_lit' \subseteq 0 .. 29
    <3>1. CASE boost_update
      <4>1. boost_lit' \subseteq 0 .. 29
        <5>1. boost_idx = 30
          BY <1>1, BoostFull DEF Whole
        <5>2. boost_lit' = 0 .. 30 - 1
          BY <3>1, <5>1, Zenon DEF boost_update
        <5> QED
          BY <5>2
      <4> QED
        BY <2>1, <2>2, <3>1, <4>1 DEF boost_update
    <3>2. CASE afr_update
      <4>1. afr_lit' \subseteq 0 .. 29
        BY <3>2 DEF afr_update, AfrLit, LEDS_MAX
      <4> QED
        BY <2>1, <2>2, <3>2, <4>1 DEF afr_update
    <3>3. CASE daylight_update
      <4>1. sseg_brightness' \in {sseg_brightness, MAX, MAX * NIGHTTIME_DVSR}
        BY <3>3 DEF daylight_update
      <4>2. MAX * NIGHTTIME_DVSR = 0 /\ MAX = 255
        BY DEF MAX, NIGHTTIME_DVSR
      <4>3. sseg_brightness' \in 0 .. 255
        BY <2>1, <4>1, <4>2
      <4> QED
        BY <2>1, <3>3, <4>3 DEF daylight_update, bars
    <3>4. CASE UNCHANGED << bars, sseg_brightness >>
      BY <2>1, <3>4 DEF bars
    <3> QED
      BY <3>1, <3>2, <3>3, <3>4, Zenon DEF Next, Tasks, Receive,
           LightChanges, blinker_update, warning_update, readout_update, vars
  <2> QED
    BY <2>3 DEF MAX, LEDS_MAX
<1> QED
  BY <1>2, <1>3, <1>4, <1>5, <1>6 DEF Types, TypeOK


LEMMA SpecTypes == Spec => []Types
  BY InitTypes, NextTypes, SpecInv, PTL DEF Spec

(***************************************************************************)
(* The theorems.                                                           *)
(***************************************************************************)

(* Every variable keeps its range.                                         *)
THEOREM TypeCorrect == Spec => []TypeOK
<1>1. Types => TypeOK
  BY DEF Types
<1> QED
  BY <1>1, SpecTypes, PTL

(* A value found out of range has its warning set from then on             *)
(* (display.c:416-424, display.c:502-510).                                 *)
THEOREM WarningsKept == Spec => []NoWarningMissed
<1>1. Inv => NoWarningMissed
  BY DEF Inv, NoWarningMissed
<1> QED
  BY <1>1, SpecInv, PTL

(* There is no warning, no lamp and no blinker without a value out of range*)
(* before (display.c:436-461, display.c:340-345).                          *)
THEOREM WarningsReal == Spec => []NoFalseWarning
<1>1. Inv => NoFalseWarning
  BY DEF Inv, NoFalseWarning
<1> QED
  BY <1>1, SpecInv, PTL

(* A readout shows its value, cut, whatever it showed before               *)
(* (display.c:364-414).                                                    *)
THEOREM ReadoutsHonest == Spec => ReadoutHonest
<1>1. Types /\ [Next]_vars =>
        [\A r \in Readouts :
           readout_update(r) =>
             LET d == digits'[r]
             IN /\ Reads(d) = Shortened(display_params[r])
                /\ {k \in 1 .. 4 : d[k].dp} =
                     IF d[1].num = Dash THEN {4} ELSE {3}]_vars
  <2> SUFFICES ASSUME Types, NEW r \in Readouts, readout_update(r)
               PROVE  LET d == digits'[r]
                      IN /\ Reads(d) = Shortened(display_params[r])
                         /\ {k \in 1 .. 4 : d[k].dp} =
                              IF d[1].num = Dash THEN {4} ELSE {3}
    OBVIOUS
  <2>1. InRange(display_params[r])
    BY DisplayAssumption DEF Types, Warned, Fields
  <2>2. digits'[r] = [k \in 1 .. 4 |-> Shown(display_params[r], k)]
    BY ReadoutShows DEF Types, TypeOK, readout_update
  <2> QED
    BY <2>1, <2>2, ReadsShortened
<1> QED
  BY <1>1, SpecTypes, PTL DEF Spec, ReadoutHonest

(* Under load the AFR bar is one piece from its middle to one side, and a  *)
(* value out of range has the whole of its half (display.c:581-632).       *)
THEOREM AfrBar == Spec => AfrBarOneSided
<1>1. Types /\ [Next]_vars =>
        [afr_update /\ Loaded =>
           /\ LEDS_MAX \div 2 \in afr_lit'
           /\ \A k, l \in afr_lit' : k .. l \subseteq afr_lit'
           /\ afr_lit' \subseteq 0 .. 15 \/ afr_lit' \subseteq 15 .. 29
           /\ display_params.Afr < warn_l.Afr => afr_lit' = 0 .. 15
           /\ display_params.Afr > warn_u.Afr => afr_lit' = 15 .. 29]_vars
  <2> SUFFICES ASSUME Types, afr_update, Loaded
               PROVE  /\ 15 \in afr_lit'
                      /\ \A k, l \in afr_lit' : k .. l \subseteq afr_lit'
                      /\ \/ afr_lit' \subseteq 0 .. 15
                         \/ afr_lit' \subseteq 15 .. 29
                      /\ display_params.Afr < 1100 => afr_lit' = 0 .. 15
                      /\ display_params.Afr > 1800 => afr_lit' = 15 .. 29
    BY DEF LEDS_MAX, warn_l, warn_u
  <2>1. PICK e \in 0 .. 30 : /\ e = afr_end
                             /\ display_params.Afr < 1100 => e = 0
                             /\ display_params.Afr > 1800 => e = 30
    BY AfrEnd DEF Types, TypeOK, Whole
  <2>2. afr_lit' = {k \in 0 .. 29 : \/ 15 <= k /\ k <= e
                                    \/ e <= k /\ k <= 15}
    BY <2>1 DEF afr_update, AfrLit, LEDS_MAX
  <2>3. /\ 15 \in afr_lit'
        /\ \A k, l \in afr_lit' : k .. l \subseteq afr_lit'
        /\ afr_lit' \subseteq 0 .. 15 \/ afr_lit' \subseteq 15 .. 29
    BY <2>2
  <2>4. display_params.Afr < 1100 => afr_lit' = 0 .. 15
    BY <2>1, <2>2
  <2>5. display_params.Afr > 1800 => afr_lit' = 15 .. 29
    BY <2>1, <2>2
  <2> QED
    BY <2>3, <2>4, <2>5
<1> QED
  BY <1>1, SpecTypes, PTL DEF Spec, AfrBarOneSided
=============================================================================
