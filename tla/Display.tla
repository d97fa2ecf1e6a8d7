------------------------------ MODULE Display ------------------------------
(***************************************************************************)
(* The display tasks (display.c): the daylight sensor, four readouts of    *)
(* four digits behind a code, the warning lamp with its blinker, the boost *)
(* bar and the AFR bar.  Each is one action, which shows what              *)
(* display_params holds when it is called; the calls come in any order.    *)
(*                                                                         *)
(* Values are in hundredths.  A warning has the name of its parameter.     *)
(***************************************************************************)
EXTENDS Integers, Sseg

CONSTANTS
  Readouts,   \* The readouts of display_init, or some of them.
  Params      \* What display_params can be set to.

Fields == {"Boost", "Afr", "OilTemp", "CoolantTemp", "IntakeTemp", "Load"}
Warned == {"Boost", "Afr", "OilTemp", "CoolantTemp", "IntakeTemp"}

(* A readout hands its tenths to the converter, which has 13 bits.         *)
ASSUME DisplayAssumption ==
  /\ Readouts \subseteq Warned \ {"Boost"}
  /\ Params \subseteq [Fields -> Int]
  /\ \A p \in Params : \A f \in Fields : -81920 < p[f] /\ p[f] < 81920

VARIABLES
  display_params,
  sensor, is_daylight,     \* The pin, and what daylight_task keeps of it.
  flags,                   \* mil_task.flags: the warnings that are set.
  mil_done,                \* mil_task.bdata.slink.done.
  sdata,                   \* The blinker's list: empty, or into the stack.
  hung,                    \* Whether display_slink_compact loops for ever.
  digits,                  \* Per readout, what the positions 1 to 4 show.
  boost_lit, afr_lit,      \* The LEDs that are lit.
  sseg_brightness, boost_brightness, afr_brightness,
  warn_en,                 \* The enable bit of the warning lamp.
  found,    \* History: the values the last look found out of range.
  ever      \* History: the values any look found out of range.

inputs   == << display_params, sensor >>
warnings == << flags, found, ever >>
lamp     == << mil_done, sdata, hung, warn_en >>
bars     == << boost_lit, boost_brightness, afr_lit, afr_brightness >>
vars     == << inputs, is_daylight, warnings, lamp, digits, bars,
               sseg_brightness >>

LEDS_MAX       == 30
MAX            == 255          \* ..._BRIGHTNESS_MAX
NIGHTTIME_DVSR == 2 \div 3     \* An integer.

warn_l == [Boost |-> -1000, Afr |-> 1100, OilTemp |-> 16000,
           CoolantTemp |-> 16000, IntakeTemp |-> 0]
warn_u == [Boost |-> 1000, Afr |-> 1800, OilTemp |-> 26500,
           CoolantTemp |-> 24000, IntakeTemp |-> 17000]

Out(f) == ~(warn_l[f] <= display_params[f] /\ display_params[f] <= warn_u[f])

Clamped(v, l, u) == IF v < l THEN l ELSE IF v > u THEN u ELSE v

(***************************************************************************)
(* Warnings.                                                               *)
(***************************************************************************)
warning_set(f) == flags' = flags \cup {f}

(* Mutant: a warning that is set is cleared.                               *)
warning_clear_set(f) == flags' = flags \ {f}

(* It clears a flag only if that is not set.                               *)
warning_clear(f) == flags' = IF f \notin flags THEN flags \ {f} ELSE flags

Look(f) == /\ found' = IF Out(f) THEN found \cup {f} ELSE found \ {f}
           /\ ever' = IF Out(f) THEN ever \cup {f} ELSE ever

(* display_slink_add links a slot of its own stack; with a list that points*)
(* there already, what it does depends on what the slot holds by then.     *)
blinker_start == \/ sdata' = "stack"
                 \/ sdata = "stack" /\ sdata' = "empty"

(* Mutant: the blinker is started whether there is a warning or not.       *)
warning_update_always ==
  /\ mil_done' = TRUE
  /\ blinker_start /\ warn_en' = TRUE
  /\ UNCHANGED << inputs, is_daylight, warnings, hung, digits, bars,
                  sseg_brightness >>

(* done is set in the first call and stays; warn_set_en never clears the   *)
(* enable bit, and the brightness, set while it is not done, never is.     *)
warning_update ==
  /\ mil_done' = TRUE
  /\ IF flags # {} /\ mil_done THEN blinker_start /\ warn_en' = TRUE
                               ELSE UNCHANGED << sdata, warn_en >>
  /\ UNCHANGED << inputs, is_daylight, warnings, hung, digits, bars,
                  sseg_brightness >>

(* With an empty list there is nothing to do.  What the stack holds by now *)
(* ends the list, or display_slink_compact finds no way out of it.         *)
blinker_update ==
  /\ sdata = "stack"
  /\ \/ sdata' = "empty" /\ UNCHANGED hung
     \/ hung' = TRUE /\ UNCHANGED sdata
  /\ UNCHANGED << inputs, is_daylight, warnings, mil_done, warn_en, digits,
                  bars, sseg_brightness >>

(***************************************************************************)
(* Readouts.                                                               *)
(***************************************************************************)

(* bcd_convert of the magnitude in tenths; bcd[0] is the highest digit.    *)
bcd(v) == LET dec == (IF v < 0 THEN -v ELSE v) \div 10
          IN [j \in 0 .. 3 |-> (dec \div << 1000, 100, 10, 1 >>[j + 1]) % 10]

(* The leading zeros that are chopped off, two at most.                    *)
Leading(b) == CASE b[0] # 0              -> 0
                [] b[0] = 0 /\ b[1] # 0  -> 1
                [] OTHER                 -> 2

(* Mutant: a leading zero leaves the position as it is.                    *)
ReadoutStale(r) ==
  LET v     == display_params[r]
      b     == bcd(v)
      first == IF v < 0 THEN 2 ELSE 1
      point == IF v < 0 THEN 4 ELSE 3
  IN [k \in 1 .. 4 |->
        CASE k < first              -> Encode(TRUE, TRUE, FALSE, 0)
          [] k >= first /\ k - first < Leading(b)  -> digits[r][k]
          [] OTHER          -> Encode(TRUE, FALSE, k = point, b[k - first])]

(* What the four positions are set to: a negative value has a dash in the  *)
(* first and so no room for its tenths.                                    *)
Readout(r) ==
  LET v     == display_params[r]
      b     == bcd(v)
      first == IF v < 0 THEN 2 ELSE 1
      point == IF v < 0 THEN 4 ELSE 3
  IN [k \in 1 .. 4 |->
        CASE k < first              -> Encode(TRUE, TRUE, FALSE, 0)
          [] k >= first /\ k - first < Leading(b)  -> Blank
          [] OTHER          -> Encode(TRUE, FALSE, k = point, b[k - first])]

readout_update(r) ==
  /\ digits' = [digits EXCEPT ![r] = Readout(r)]
  /\ IF Out(r) THEN warning_set(r) ELSE warning_clear(r)
  /\ Look(r)
  /\ UNCHANGED << inputs, is_daylight, lamp, bars, sseg_brightness >>

(***************************************************************************)
(* Bars.                                                                   *)
(***************************************************************************)

(* Only the lamp's blinker is ever started: the bars' duty cycles stay 0.  *)
Brightness(modulate) == IF modulate \/ ~is_daylight THEN 0 ELSE MAX

(* Raised to the maximum where it is below.                                *)
boost_idx ==
  LET boost == Clamped(display_params.Boost, warn_l.Boost, warn_u.Boost)
      idx   == (((boost - warn_l.Boost) \div 100) * LEDS_MAX)
               \div ((warn_u.Boost - warn_l.Boost) \div 100)
  IN IF idx < LEDS_MAX THEN LEDS_MAX ELSE idx

boost_update ==
  /\ IF Out("Boost") /\ "Boost" \notin flags THEN warning_set("Boost")
     ELSE IF "Boost" \in flags THEN warning_clear("Boost")
     ELSE UNCHANGED flags
  /\ Look("Boost")
  /\ boost_lit' = 0 .. boost_idx - 1
  /\ boost_brightness' = Brightness("Boost" \in flags')
  /\ UNCHANGED << inputs, is_daylight, lamp, digits, afr_lit, afr_brightness,
                  sseg_brightness >>

(* The end of the AFR bar: the fraction of the bar, rounded up.            *)
afr_end ==
  LET afr == Clamped(display_params.Afr, warn_l.Afr, warn_u.Afr)
  IN Clamped(-((-(LEDS_MAX * (afr - 1120))) \div 700), 0, LEDS_MAX)

Loaded == display_params.Load >= 2500    \* AFR_MIN_LOAD

(* Mutant: the ends are not swapped.                                       *)
AfrLitUnswapped == IF Loaded THEN {k \in 0 .. 29 : 15 <= k /\ k <= afr_end}
                             ELSE 0 .. LEDS_MAX - 1

(* From the middle to the end, whichever is first; all when idling.        *)
AfrLit ==
  LET middle == LEDS_MAX \div 2
  IN {k \in 0 .. LEDS_MAX - 1 :
        Loaded => \/ middle <= k /\ k <= afr_end
                  \/ afr_end <= k /\ k <= middle}

afr_update ==
  /\ afr_lit' = AfrLit
  /\ afr_brightness' = Brightness("Afr" \in flags /\ Loaded)
  /\ UNCHANGED << inputs, is_daylight, warnings, lamp, digits, boost_lit,
                  boost_brightness, sseg_brightness >>

(***************************************************************************)
(* Daylight.                                                               *)
(***************************************************************************)

(* The digits' brightness is set when the light changes, and only then.    *)
daylight_update ==
  /\ is_daylight' = sensor
  /\ sseg_brightness' = CASE sensor = is_daylight -> sseg_brightness
                          [] sensor /\ ~is_daylight -> MAX
                          [] OTHER               -> MAX * NIGHTTIME_DVSR
  /\ UNCHANGED << inputs, warnings, lamp, digits, bars >>

(***************************************************************************)
(* The specification.                                                      *)
(***************************************************************************)

(* The session sets the parameters; the light changes.                     *)
Receive == /\ display_params' \in Params
           /\ UNCHANGED << sensor, is_daylight, warnings, lamp, digits, bars,
                           sseg_brightness >>

LightChanges == /\ sensor' = ~sensor
                /\ UNCHANGED << display_params, is_daylight, warnings, lamp,
                                digits, bars, sseg_brightness >>

(* display_init and the init functions of the tasks; no brightness is set  *)
(* before (controller.c:78-106).                                           *)
Init == /\ display_params = [f \in Fields |-> 0]
        /\ sensor \in BOOLEAN /\ is_daylight = sensor
        /\ flags = {} /\ found = {} /\ ever = {}
        /\ mil_done = FALSE /\ sdata = "empty" /\ hung = FALSE
        /\ warn_en = FALSE
        /\ digits = [r \in Readouts |-> [k \in 1 .. 4 |-> Blank]]
        /\ boost_lit = {} /\ boost_brightness = 0
        /\ afr_lit = {} /\ afr_brightness = 0
        /\ sseg_brightness = 0

Tasks == \/ daylight_update \/ blinker_update \/ warning_update
         \/ boost_update \/ afr_update
         \/ \E r \in Readouts : readout_update(r)

Next == ~hung /\ (Receive \/ LightChanges \/ Tasks)

Spec == Init /\ [][Next]_vars

(***************************************************************************)
(* Properties.                                                             *)
(***************************************************************************)

(* Every variable keeps its range.                                         *)
TypeOK == /\ display_params \in [Fields -> Int]
          /\ {sensor, is_daylight, mil_done, hung, warn_en} \subseteq BOOLEAN
          /\ flags \subseteq Warned
          /\ found \subseteq Warned /\ ever \subseteq Warned
          /\ sdata \in {"empty", "stack"}
          /\ digits \in [Readouts -> [1 .. 4 -> Glyphs]]
          /\ boost_lit \subseteq 0 .. LEDS_MAX - 1
          /\ afr_lit \subseteq 0 .. LEDS_MAX - 1
          /\ {sseg_brightness, boost_brightness, afr_brightness}
               \subseteq 0 .. MAX

(* What the digits of a readout read: a blank is a zero, a dash makes the  *)
(* other three the units of a negative value.  In tenths.                  *)
Figure(g) == IF g.num = Nothing THEN 0 ELSE g.num

Reads(d) ==
  IF d[1].num = Dash
  THEN -10 * (100 * Figure(d[2]) + 10 * Figure(d[3]) + Figure(d[4]))
  ELSE 1000 * Figure(d[1]) + 100 * Figure(d[2]) + 10 * Figure(d[3])
       + Figure(d[4])

Shortened(v) == IF v < 0 THEN -10 * ((-v) \div 100) ELSE v \div 10

(* A readout shows its value cut to what there is room for, and one point, *)
(* behind the units, whatever an earlier value left in the positions       *)
(* (display.c:364-414).                                                    *)
ReadoutHonest ==
  [][\A r \in Readouts :
       readout_update(r) =>
         LET d == digits'[r]
         IN /\ Reads(d) = Shortened(display_params[r])
            /\ {k \in 1 .. 4 : d[k].dp} =
                 IF d[1].num = Dash THEN {4} ELSE {3}]_vars

(* A value that was out of range when it was last looked at has its        *)
(* warning set, also at the second look and at every later one             *)
(* (display.c:416-424, display.c:502-510).                                 *)
NoWarningMissed == found \subseteq flags

(* Only a value that has been out of range gives a warning, and only a     *)
(* warning switches the lamp on, gives the blinker work or stops the       *)
(* display (display.c:436-461, display.c:340-345).                         *)
NoFalseWarning == /\ flags \subseteq ever
                  /\ warn_en \/ sdata = "stack" \/ hung => flags # {}

(* Under load the AFR bar is one piece from the middle LED to one side, so *)
(* that it can be read as rich or lean, and a value out of range, which has*)
(* a warning, has the whole of its half: the lower one below the range, the*)
(* upper one above it (display.c:581-632).                                 *)
AfrBarOneSided ==
  [][afr_update /\ Loaded =>
       /\ LEDS_MAX \div 2 \in afr_lit'
       /\ \A k, l \in afr_lit' : k .. l \subseteq afr_lit'
       /\ afr_lit' \subseteq 0 .. 15 \/ afr_lit' \subseteq 15 .. 29
       /\ display_params.Afr < warn_l.Afr => afr_lit' = 0 .. 15
       /\ display_params.Afr > warn_u.Afr => afr_lit' = 15 .. 29]_vars
=============================================================================
