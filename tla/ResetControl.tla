---------------------------- MODULE ResetControl ----------------------------
(***************************************************************************)
(* The way back after a session: rc_reset (controller_system.c) asks the   *)
(* timed reset controller (reset_controller.v, rc1 in blastit_main.v) to   *)
(* hold the processor in reset, from which it starts again at main.        *)
(*                                                                         *)
(* A step is one clock edge.  The reset reaches the register that made the *)
(* request, and clears it, within ResetDelay clocks.                       *)
(***************************************************************************)
EXTENDS Naturals

CONSTANTS
  Half,         \* 2^(M_BITS - 1), 2^23 in blastit_main.v.
  Counts,       \* The arguments of rc_reset.
  ResetDelay    \* The most clocks the reset takes to clear the register.

ASSUME ResetAssumption == /\ Half \in Nat /\ ResetDelay \in Nat
                          /\ ResetDelay < Half
                          /\ Counts \subseteq Nat

VARIABLES
  en,                    \* state_reg = RESET: the processor is in reset.
  m_reg,                 \* The setting of the counter.
  r_reg, max_tick_reg,   \* The counter, a mod_m_counter.
  control,               \* RC1_CONTROL, [start, m].
  pc,                    \* The processor: running, halted or reset.
  held,                  \* History: clocks en has been high, to Half + 2.
  owed                   \* History: rc_reset was called, no reset has ended.

rc_vars == << en, m_reg, r_reg, max_tick_reg, control, pc, held, owed >>

CountRange == 2 * Half

Divider == INSTANCE ModMCounter WITH Range <- CountRange

Cleared == [start |-> FALSE, m |-> 0]

(***************************************************************************)
(* The reset controller.                                                   *)
(***************************************************************************)

(* Mutant: a request of no clocks counts.                                  *)
StartsAlways == control.start

Starts == control.start /\ control.m > 0

(* Mutant: the end of the count does not end the reset.                    *)
ControllerStays == /\ en' = (en \/ Starts)
                   /\ m_reg' = IF Starts THEN control.m ELSE m_reg
                   /\ IF en THEN Divider!Clock(m_reg) ELSE Divider!Reset

(* The end of the count comes before a request.  While the controller is   *)
(* ready its counter is held in reset.                                     *)
Controller == /\ en' = (~max_tick_reg /\ (en \/ Starts))
              /\ m_reg' = IF max_tick_reg THEN 0
                          ELSE IF Starts THEN control.m ELSE m_reg
              /\ IF en /\ en' THEN Divider!Clock(m_reg) ELSE Divider!Reset

(***************************************************************************)
(* The processor.                                                          *)
(***************************************************************************)

(* counts & (1 << (RC_M_BITS - 1)).                                        *)
Mask(counts) == IF (counts \div Half) % 2 = 1 THEN Half ELSE 0

(* rc_reset: for counts > 0 it does not return.                            *)
rc_reset(counts) == /\ ~en /\ pc = "running"
                    /\ counts > 0
                    /\ pc' = "halted"
                    /\ control' = [start |-> TRUE, m |-> Mask(counts)]

(* Mutant: the reset does not reach the register.                          *)
ResetProcessor == /\ en /\ pc # "reset"
                  /\ pc' = "reset"
                  /\ UNCHANGED control

(* The reset stops the processor and clears its output registers.          *)
Stop == /\ en /\ pc # "reset"
        /\ pc' = "reset"
        /\ control' = Cleared

Restart == /\ ~en /\ pc = "reset"
           /\ pc' = "running"
           /\ UNCHANGED control

Wait == /\ ~(en /\ pc # "reset" /\ held >= ResetDelay)
        /\ UNCHANGED << pc, control >>

Processor == \/ \E counts \in Counts : rc_reset(counts)
             \/ Stop \/ Restart \/ Wait

(***************************************************************************)
(* The specification.                                                      *)
(***************************************************************************)
RcInit == /\ en = FALSE /\ m_reg = 0
          /\ Divider!Init
          /\ control = Cleared
          /\ pc = "running"
          /\ held = 0
          /\ owed = FALSE

RcNext == /\ Controller
          /\ Processor
          /\ held' = IF ~en THEN 0
                     ELSE IF held < Half + 2 THEN held + 1 ELSE held
          /\ owed' = IF en /\ ~en' THEN FALSE ELSE owed \/ pc' = "halted"

RcSpec == RcInit /\ [][RcNext]_rc_vars

(* The clock never stops, and a processor out of reset starts.             *)
RcFairSpec ==
  RcSpec /\ WF_rc_vars(RcNext) /\ WF_rc_vars(Restart /\ RcNext)

(***************************************************************************)
(* Properties.                                                             *)
(***************************************************************************)

(* Every register keeps its range.                                         *)
TypeOK == /\ {en, owed} \subseteq BOOLEAN
          /\ m_reg \in 0 .. CountRange - 1
          /\ Divider!TypeOK
          /\ control \in [start : BOOLEAN, m : 0 .. CountRange - 1]
          /\ pc \in {"running", "halted", "reset"}
          /\ held \in 0 .. Half + 2

(* No reset is over before it has reached the processor and cleared the    *)
(* request: the count outlasts the way of the reset, wherever in it the    *)
(* register is cleared, and nothing shorter starts                         *)
(* (reset_controller.v:34-51, controller_system.c:400).                    *)
ResetTakesHold ==
  [][en /\ ~en' => pc = "reset" /\ control = Cleared]_rc_vars

(* There is one reset for one call: the request that is still in the       *)
(* register does not start another when the first is over                  *)
(* (reset_controller.v:38-47).                                             *)
OneReset == en => owed

(* A reset ends, and the firmware runs again.                              *)
ResetEnds == en ~> pc = "running"
=============================================================================
