------------------------------- MODULE Panel -------------------------------
(***************************************************************************)
(* The panel: both bars with the selector that gives them the columns by   *)
(* turns (blastit_main.v:323-344), the digits, the BCD converter and the   *)
(* lamps, and the firmware that drives them in a build with TEST, which is *)
(* the build as committed (controller.h:13): init of controller.c, then    *)
(* test of test.c.                                                         *)
(*                                                                         *)
(* The firmware is the sequence of its register accesses.  A step is one   *)
(* clock edge, at which the hardware moves on by the registers' values     *)
(* before it and the processor may make its next access.                   *)
(***************************************************************************)
EXTENDS Integers, Sequences

CONSTANTS
  LEDS_N, LEDS_M, SSEG_N,   \* The sizes of a bar and of the digits.
  PeriodRange, LedPeriod,   \* 2^LED_PERIOD_BITS; the setting of init.
  Conversions,              \* What test converts, in that order.
  Passes,                   \* Bound: the passes of test that differ.
  MaxIdle                   \* The most clocks between two accesses.

VARIABLES
  leds1_r, leds1_tick, leds1_en, leds1_n, leds1_m, leds1_addr,
  leds2_r, leds2_tick, leds2_en, leds2_n, leds2_m, leds2_addr,
  led_idx,                              \* The bar whose turn it is, 0 or 1.
  sseg_r, sseg_tick, sseg_arr, oe_i,
  state_reg, n_reg, p2s_reg, bcd_reg, taken,
  reg,      \* The registers the processor writes.
  todo,     \* The accesses still to make in this pass.
  i,        \* The pass, as test counts them; 0 before its loop.
  idle      \* Clocks since the last access.

leds1    == << leds1_r, leds1_tick, leds1_en, leds1_n, leds1_m, leds1_addr >>
leds2    == << leds2_r, leds2_tick, leds2_en, leds2_n, leds2_m, leds2_addr >>
digits   == << sseg_r, sseg_tick, sseg_arr, oe_i >>
bcd1     == << state_reg, n_reg, p2s_reg, bcd_reg, taken >>
hardware == << leds1, leds2, led_idx, digits, bcd1 >>
firmware == << reg, todo, i >>
vars     == << hardware, firmware, idle >>

Bar1 == INSTANCE LedMatrix WITH
  r_reg <- leds1_r, max_tick_reg <- leds1_tick, en_reg <- leds1_en,
  n_i_reg <- leds1_n, m_i_reg <- leds1_m, addr_i_reg <- leds1_addr

Bar2 == INSTANCE LedMatrix WITH
  r_reg <- leds2_r, max_tick_reg <- leds2_tick, en_reg <- leds2_en,
  n_i_reg <- leds2_n, m_i_reg <- leds2_m, addr_i_reg <- leds2_addr

Sseg == INSTANCE SsegArray WITH
  r_reg <- sseg_r, max_tick_reg <- sseg_tick, sseg_arr_reg <- sseg_arr,
  oe_i_reg <- oe_i

Bcd == INSTANCE Bin2Bcd

Addresses == Bar1!Addresses

(* The numbers the converter has bits for.                                 *)
Numbers == (1 - Bcd!Width) .. (Bcd!Width - 1)

ASSUME PanelAssumption ==
  /\ {LEDS_N, LEDS_M, SSEG_N, MaxIdle, Passes} \subseteq Nat \ {0}
  /\ LedPeriod \in Nat /\ LedPeriod < PeriodRange /\ PeriodRange \in Nat
  /\ Conversions \in Seq(Numbers)

(* For what the runs show: passes come in pairs, and the second bar is out *)
(* of its reset before the first has been scanned once.                    *)
ASSUME PaceAssumption ==
  /\ Passes % 2 = 0
  /\ 2 * MaxIdle < LEDS_N * LEDS_M * (LedPeriod + 1)

(***************************************************************************)
(* The accesses: the name of a register and what is written to it.  "await"*)
(* polls until the converter is ready, "bcd" reads its digits for a value, *)
(* "wait" is wait_tick in a pass.                                          *)
(***************************************************************************)

(* leds_enable_led and sseg_set_bcd: the value, and then 0 again.          *)
LedsOff == [sel |-> FALSE, en |-> FALSE, addr |-> 0]
SsegOff == [wr |-> FALSE, sel |-> 0, glyph |-> Sseg!Blank]

leds_enable_led(arr, addr, en) ==
  << << arr, [sel |-> TRUE, en |-> en, addr |-> addr] >>, << arr, LedsOff >> >>

sseg_set_bcd(addr, glyph) ==
  << << "sseg_wr_val", [wr |-> TRUE, sel |-> addr, glyph |-> glyph] >>,
     << "sseg_wr_val", SsegOff >> >>

Pulse(register) == << << register, TRUE >>, << register, FALSE >> >>

(* s[0], ..., s[n - 1], each of len accesses, one after the other.         *)
Blocks(s, n, len) ==
  [j \in 1 .. n * len |-> s[(j - 1) \div len][((j - 1) % len) + 1]]

(* Mutant: the converter is read without waiting for it.                   *)
bcd_convert_unready(v) ==
  << << "await", 0 >>, << "bcd_bin", v >>, << "bcd_start", TRUE >>,
     << "bcd_start", FALSE >>, << "bcd", v >> >>

bcd_convert(v) ==
  << << "await", 0 >>, << "bcd_bin", v >>, << "bcd_start", TRUE >>,
     << "bcd_start", FALSE >>, << "await", 0 >>, << "bcd", v >> >>

sseg_init == Pulse("sseg_reset")
             \o Blocks([k \in Sseg!Digits |-> sseg_set_bcd(k, Sseg!Blank)],
                       SSEG_N, 2)

(* What leds_init writes after the reset goes to an address outside the    *)
(* panel (the address of a register for the number of a bar).              *)
leds_init == Pulse("leds1_reset") \o Pulse("leds2_reset")

(* The part of init that concerns the panel.                               *)
init == << << "led_period", LedPeriod >>, << "status_led_en", {} >> >>
        \o Pulse("bcd_reset") \o << << "await", 0 >> >>
        \o sseg_init \o leds_init \o << << "warn_en", FALSE >> >>

(***************************************************************************)
(* What test wants to be seen: in pass p the LEDs and status LEDs of its   *)
(* parity, and the count or a dash at every other digit; all before.       *)
(***************************************************************************)
LedOn(p, a) == p = 0 \/ (p % 2 = 1) = (a % 2 = 0)

StatusOn(p) == {l \in 0 .. 3 : LedOn(p, l)}

Glyph(p, k) == CASE p = 0     -> Sseg!Encode(TRUE, FALSE, TRUE, k % 16)
                 [] p % 2 = 1 -> Sseg!Encode(TRUE, FALSE, TRUE, p % 16)
                 [] OTHER     -> Sseg!Encode(k % 2 = 0, k % 2 = 0, FALSE, 0)

Bars(p) == Blocks([a \in Addresses |->
                     leds_enable_led("leds1_wr_val", a, LedOn(p, a))
                     \o leds_enable_led("leds2_wr_val", a, LedOn(p, a))],
                  LEDS_N * LEDS_M, 4)

Row(p) == Blocks([k \in Sseg!Digits |-> sseg_set_bcd(k, Glyph(p, k))],
                 SSEG_N, 2)

(* The part of test before its loop, and a pass of the loop.               *)
Prologue ==
  << << "warn_brightness", 15 >>, << "warn_en", TRUE >>,
     << "status_led_en", StatusOn(0) >>,
     << "leds1_brightness", 255 >>, << "leds2_brightness", 255 >> >>
  \o Bars(0) \o << << "sseg_brightness", 255 >> >> \o Row(0)
  \o << << "wait", 0 >> >>
  \o Blocks([k \in 0 .. Len(Conversions) - 1 |->
               bcd_convert(Conversions[k + 1])],
            Len(Conversions), Len(bcd_convert(0)))

Pass(p) == << << "status_led_en", StatusOn(0) >>,
              << "status_led_en", StatusOn(p) >> >>
           \o Bars(p) \o Row(p) \o << << "wait", p >> >>

(***************************************************************************)
(* The processor.                                                          *)
(***************************************************************************)
Current == Head(todo)

Polling == todo # << >> /\ Current[1] = "await"
Waiting == todo # << >> /\ Current[1] = "wait"
Reading == todo # << >> /\ Current[1] = "bcd"

Store == /\ todo # << >> /\ ~(Polling \/ Waiting \/ Reading)
         /\ reg' = [reg EXCEPT ![Current[1]] = Current[2]]
         /\ todo' = Tail(todo)
         /\ UNCHANGED i

Poll == /\ Polling
        /\ todo' = IF Bcd!ready THEN Tail(todo) ELSE todo
        /\ UNCHANGED << reg, i >>

Read == /\ Reading
        /\ todo' = Tail(todo)
        /\ UNCHANGED << reg, i >>

(* wait_tick ends at some clock.                                           *)
WaitEnds == /\ Waiting
            /\ todo' = Tail(todo)
            /\ UNCHANGED << reg, i >>

(* The loop of test; its count is kept within Passes.                      *)
NextPass == /\ todo = << >>
            /\ i' = (i % Passes) + 1
            /\ todo' = Pass(i')
            /\ UNCHANGED reg

Access == Store \/ Poll \/ Read \/ WaitEnds \/ NextPass

Stall == Waiting \/ idle + 1 < MaxIdle

(***************************************************************************)
(* The hardware, by the values of the registers before the edge.           *)
(***************************************************************************)
BarsClock ==
  /\ Bar1!Write(reg.leds1_wr_val.sel, reg.leds1_wr_val.en,
                reg.leds1_wr_val.addr)
  /\ Bar2!Write(reg.leds2_wr_val.sel, reg.leds2_wr_val.en,
                reg.leds2_wr_val.addr)
  /\ IF reg.leds1_reset THEN Bar1!Reset ELSE Bar1!Clock(reg.led_period)
  /\ IF reg.leds2_reset THEN Bar2!Reset ELSE Bar2!Clock(reg.led_period)

SsegClock ==
  /\ Sseg!Write(reg.sseg_wr_val.wr, reg.sseg_wr_val.sel, reg.sseg_wr_val.glyph)
  /\ IF reg.sseg_reset THEN Sseg!Reset ELSE Sseg!Clock(reg.led_period)

(* The 15 bits of the register: the sign is the top one.                   *)
BcdClock ==
  LET bin == reg.bcd_bin % (4 * Bcd!Width)
  IN IF reg.bcd_reset THEN Bcd!Reset
     ELSE Bcd!Clock(reg.bcd_start, bin >= 2 * Bcd!Width, bin % (2 * Bcd!Width))

(* Mutant: the second bar gives its turn back by the tick of the first.    *)
led_idx_next_stays == IF Bar1!done_tick /\ led_idx = 0 THEN 1 ELSE led_idx

(* The turn, seen already before the edge: a bar loses it with its scan,   *)
(* and at once again if both scans end together.                           *)
led_idx_next ==
  LET given == IF Bar1!done_tick /\ led_idx = 0 THEN 1 ELSE led_idx
  IN IF Bar2!done_tick /\ given = 1 THEN 0 ELSE given

Hardware == /\ BarsClock /\ SsegClock /\ BcdClock
            /\ led_idx' = led_idx_next

(***************************************************************************)
(* The specification.                                                      *)
(***************************************************************************)
Init ==
  /\ Bar1!Init /\ Bar2!Init /\ Sseg!Init /\ Bcd!Init
  /\ led_idx = 0
  /\ reg = [led_period |-> 0, status_led_en |-> {},
            bcd_reset |-> FALSE, bcd_start |-> FALSE, bcd_bin |-> 0,
            sseg_reset |-> FALSE, sseg_brightness |-> 0,
            sseg_wr_val |-> SsegOff,
            leds1_reset |-> FALSE, leds2_reset |-> FALSE,
            leds1_brightness |-> 0, leds2_brightness |-> 0,
            leds1_wr_val |-> LedsOff, leds2_wr_val |-> LedsOff,
            warn_brightness |-> 0, warn_en |-> FALSE]
  /\ todo = init \o Prologue
  /\ i = 0
  /\ idle = 0

Next == Hardware /\ \/ Access /\ idle' = 0
                    \/ /\ Stall /\ UNCHANGED firmware
                       /\ idle' = IF Waiting THEN 0 ELSE idle + 1

Spec == Init /\ [][Next]_vars

(* The clock does not stop; how long a wait takes is left open.            *)
FairSpec == Spec /\ WF_vars(Next)

(***************************************************************************)
(* Outputs and properties.                                                 *)
(***************************************************************************)

(* What can be written to each register, and the accesses.                 *)
Brightness == 0 .. 255
Pixels == [sel : BOOLEAN, en : BOOLEAN, addr : Addresses]

Values ==
  [led_period |-> 0 .. PeriodRange - 1,
   status_led_en |-> SUBSET (0 .. 3),
   bcd_reset |-> BOOLEAN, bcd_start |-> BOOLEAN, bcd_bin |-> Numbers,
   sseg_reset |-> BOOLEAN, sseg_brightness |-> Brightness,
   sseg_wr_val |-> [wr : BOOLEAN, sel : Sseg!Digits, glyph : Sseg!Glyphs],
   leds1_reset |-> BOOLEAN, leds2_reset |-> BOOLEAN,
   leds1_brightness |-> Brightness, leds2_brightness |-> Brightness,
   leds1_wr_val |-> Pixels, leds2_wr_val |-> Pixels,
   warn_brightness |-> Brightness, warn_en |-> BOOLEAN]

Accesses == {<< "await", 0 >>} \cup ({"wait"} \X (0 .. Passes))
            \cup ({"bcd"} \X Numbers)
            \cup (UNION {{n} \X Values[n] : n \in DOMAIN Values})

(* Every register keeps its range, and the scan of each bar its place.     *)
TypeOK ==
  /\ reg = [n \in DOMAIN Values |-> reg[n]]
  /\ \A n \in DOMAIN Values : reg[n] \in Values[n]
  /\ todo \in Seq(Accesses) /\ i \in 0 .. Passes /\ idle \in 0 .. MaxIdle - 1
  /\ Bar1!TypeOK /\ Bar2!TypeOK /\ Sseg!TypeOK /\ Bcd!TypeOK
  /\ led_idx \in {0, 1}

(* What is driven through the PWM of a bar: nothing at brightness 0.       *)
Driven(brightness, en) == IF brightness > 0 THEN en ELSE {}

(* The columns of the panel are those of the bar in turn; the rows, by bar *)
(* and row, are those of both bars all the time.                           *)
G == IF led_idx_next = 0 THEN Driven(reg.leds1_brightness, Bar1!n_en)
                         ELSE Driven(reg.leds2_brightness, Bar2!n_en)
D == ({0} \X Driven(reg.leds1_brightness, Bar1!m_en))
     \cup ({1} \X Driven(reg.leds2_brightness, Bar2!m_en))

(* The LEDs that are lit, << << bar, row >>, column >>.                     *)
Lit == D \X G

(* The address a bar's scan is at.                                         *)
Scan(bar) == IF bar = 0 THEN leds1_addr ELSE leds2_addr

(* While a pass waits, the bar in turn shows that pass: of its LEDs at most*)
(* ones the pass lights are lit, and none only if the pass lights not the  *)
(* one its scan is at.  The other bar is not dark, but as the columns are  *)
(* not its own no more is promised of it than that a row of it is driven   *)
(* only for a LED the pass lights.  The digit in turn shows the pass's, a  *)
(* blank one is not enabled, and the status LEDs are those of the pass     *)
(* (test.c:166-206, blastit_main.v:403-417, sseg_array.v:67-68).           *)
TurnShowsPass ==
  Waiting =>
    LET p   == Current[2]
        own == {lit \in Lit : lit[1][1] = led_idx_next}
    IN /\ \A lit \in own : LedOn(p, lit[1][2] * LEDS_N + lit[2])
       /\ own = {} => ~LedOn(p, Scan(led_idx_next))
       /\ \A lit \in Lit : LedOn(p, Scan(lit[1][1]))
       /\ sseg_arr[oe_i] = Glyph(p, oe_i)
       /\ oe_i \in Sseg!oe <=> Glyph(p, oe_i) # Sseg!Blank
       /\ reg.status_led_en = StatusOn(p)

PowerOf10 == [k \in Bcd!Places |-> << 1, 10, 100, 1000 >>[k + 1]]

(* When bcd_convert reads the converter it holds the decimal digits of the *)
(* magnitude of its own argument, whatever the time its accesses take      *)
(* (controller_system.c:65-81, test.c:143-146).                            *)
Converted ==
  LET v == Current[2]
      magnitude == IF v < 0 THEN -v ELSE v
  IN Reading => /\ Bcd!ready
                /\ \A k \in Bcd!Places :
                     bcd_reg[k] = (magnitude \div PowerOf10[k]) % 10

(* Outside a conversion the converter holds the value it was given.        *)
DigitsExact == Bcd!DigitsExact

(* Neither bar keeps the columns: the turn goes over for ever              *)
(* (blastit_main.v:340-343, blastit_main.v:416-417).                       *)
TurnsTaken == \A b \in {0, 1} : []<>(led_idx = b)
=============================================================================
