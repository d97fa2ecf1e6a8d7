------------------------------ MODULE WaitTick ------------------------------
(***************************************************************************)
(* The clocks of the event loop: wait_tick on the tick counter TC1 and     *)
(* is_frame on the frame counter TC2 (controller.c:41-76), called in any   *)
(* order.  A step is one clock edge, at which the processor may complete   *)
(* one access to a timer counter.                                          *)
(***************************************************************************)
EXTENDS TimerTicks

CONSTANTS
  TickM,       \* The setting of TC1; that of TC2 is M.
  MaxTicks,    \* The longest wait asked for.
  MaxPoll,     \* The most clocks between two accesses of a polling loop.
  MaxWaited    \* Bound: where the history of the wait stops counting.

(* The loop polls at least once in a tick, and the history counts further  *)
(* than the properties look.                                               *)
ASSUME WaitAssumption ==
  /\ TickM \in 0 .. MRange - 1
  /\ {MaxTicks, MaxPoll, MaxWaited} \subseteq Nat \ {0}
  /\ MaxPoll <= TickM
  /\ MaxWaited > MaxTicks * (TickM + 1) + MaxPoll

VARIABLES
  tick_r, tick_max, tick_counter, tick_of,   \* TC1; tc is TC2.
  frame_reset,      \* The bit TC_RESET_TC2 of the reset register.
  pc,               \* Where the firmware is.
  ticks, end,       \* The argument and the local of wait_tick.
  idle,             \* Clocks since the last access of the firmware.
  waited            \* History: clocks since wait_tick read the counter.

tc1      == << tick_r, tick_max, tick_counter, tick_of >>
firmware == << frame_reset, pc, ticks, end >>
waitVars == << tc1, vars, firmware, idle, waited >>

TC1 == INSTANCE TimerCounter WITH r_reg <- tick_r, max_tick_reg <- tick_max,
                                  counter <- tick_counter, of <- tick_of

(***************************************************************************)
(* The firmware, one access to a timer counter at a time.                  *)
(***************************************************************************)

(* wait_tick(n), n > 0, and is_frame() are called.                         *)
CallWait == /\ pc = "idle" /\ pc' = "wait_start"
            /\ ticks' \in 1 .. MaxTicks
            /\ UNCHANGED << frame_reset, end >>

CallIsFrame == /\ pc = "idle" /\ pc' = "frame_read"
               /\ UNCHANGED << frame_reset, ticks, end >>

(* Mutant: wait_tick counts the tick under way.                            *)
WaitStartEarly == /\ pc = "wait_start" /\ pc' = "wait_poll"
                  /\ end' = TC1!tc_get_ticks + ticks - 1
                  /\ UNCHANGED << frame_reset, ticks >>

(* end = start + ticks is computed with 32 bits from a counter of 24: it   *)
(* does not wrap, and the loop of controller.c:47-54 is never entered.     *)
WaitStart == /\ pc = "wait_start" /\ pc' = "wait_poll"
             /\ end' = TC1!tc_get_ticks + ticks
             /\ UNCHANGED << frame_reset, ticks >>

(* Mutant: the loop also goes round when the end is reached.               *)
EndPassed == TC1!tc_get_ticks > end

EndReached == TC1!tc_get_ticks >= end

WaitPolls == /\ pc = "wait_poll"
             /\ ~EndReached
             /\ UNCHANGED firmware

WaitDone == /\ pc = "wait_poll" /\ pc' = "idle"
            /\ EndReached
            /\ UNCHANGED << frame_reset, ticks, end >>

FrameNone == /\ pc = "frame_read" /\ pc' = "idle"
             /\ tc_get_ticks = 0
             /\ UNCHANGED << frame_reset, ticks, end >>

FrameSeen == /\ pc = "frame_read" /\ pc' = "reset_high"
             /\ tc_get_ticks > 0
             /\ UNCHANGED << frame_reset, ticks, end >>

(* tc_reset raises the reset of TC2 and lowers it again; then is_frame     *)
(* returns true.                                                           *)
FrameResetHigh == /\ pc = "reset_high" /\ pc' = "reset_low"
                  /\ frame_reset' = TRUE
                  /\ UNCHANGED << ticks, end >>

FrameResetLow == /\ pc = "reset_low" /\ pc' = "idle"
                 /\ frame_reset' = FALSE
                 /\ UNCHANGED << ticks, end >>

Access == \/ CallWait \/ WaitStart \/ WaitPolls \/ WaitDone
          \/ CallIsFrame \/ FrameNone \/ FrameSeen
          \/ FrameResetHigh \/ FrameResetLow

(***************************************************************************)
(* The clock edge.                                                         *)
(***************************************************************************)
Timers == /\ TC1!Clock(TickM)
          /\ IF frame_reset THEN Restart ELSE Run

History == waited' = IF pc = "wait_start" /\ pc' = "wait_poll" THEN 0
                     ELSE IF waited < MaxWaited THEN waited + 1 ELSE MaxWaited

Edge(access) == Timers /\ access /\ History

(* The processor may take its time, but not more than MaxPoll clocks.      *)
Stall == idle < MaxPoll - 1 /\ idle' = idle + 1 /\ UNCHANGED firmware

Next == \/ Edge(Access /\ idle' = 0)
        \/ Edge(Stall)

(* tc_init and tc_set_max have reset and set the timer counters.           *)
WaitInit == /\ TC1!Init
            /\ TicksInit
            /\ frame_reset = FALSE
            /\ pc = "idle"
            /\ ticks = 0 /\ end = 0
            /\ idle = 0
            /\ waited = 0

Spec == WaitInit /\ [][Next]_waitVars

(* The clock never stops.                                                  *)
FairSpec == Spec /\ WF_waitVars(Next)

(***************************************************************************)
(* Properties.                                                             *)
(***************************************************************************)

(* Every register keeps its range.                                         *)
WaitTypeOK == /\ TC1!TypeOK /\ TicksTypeOK
              /\ frame_reset \in BOOLEAN
              /\ pc \in {"idle", "wait_start", "wait_poll", "frame_read",
                         "reset_high", "reset_low"}
              /\ ticks \in 0 .. MaxTicks
              /\ end \in 0 .. Range - 1 + MaxTicks
              /\ idle \in 0 .. MaxPoll - 1
              /\ waited \in 0 .. MaxWaited

(* wait_tick(n) returns no earlier than n - 1 full ticks after it read the *)
(* counter: the first tick it counts may have nearly passed, the others    *)
(* have not (controller.c:41-61).                                          *)
WaitsLongEnough ==
  [][WaitDone => waited >= (ticks - 1) * (TickM + 1)]_waitVars

(* Unless its end lies beyond the counter, wait_tick(n) is over n ticks and*)
(* one poll after it read the counter: no wrap and no poll at a bad moment *)
(* makes it miss the value it waits for.                                   *)
WaitNotTooLong ==
  pc = "wait_poll" /\ end < Range => waited <= ticks * (TickM + 1) + MaxPoll

(* Two frames are never closer than a frame interval: is_frame answers true*)
(* only after a whole period since it last reset the counter               *)
(* (controller.c:63-76).                                                   *)
FrameNotEarly == [][FrameSeen => clocks > M]_waitVars

(* "Overflow wrap" (controller.c:49): a wait that begins before the counter*)
(* wraps and ends after it comes to an end too.                            *)
WaitReturns == pc = "wait_poll" ~> pc # "wait_poll"
=============================================================================
