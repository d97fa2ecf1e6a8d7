----------------------------- MODULE Obd2Proofs -----------------------------
(***************************************************************************)
(* Proofs about Obd2, for any AT commands, any length of a burst and any   *)
(* bound on what the adapter owes.                                         *)
(***************************************************************************)
EXTENDS Obd2, PidDecoder, FiniteSetTheorems, TLAPS

(***************************************************************************)
(* The inductive invariant.                                                *)
(***************************************************************************)
Running == pc \in {"update", "display"}

(* The count of the state machine follows the requests that were sent.     *)
BurstInv == /\ burst \in 0 .. BA_MODULO_N + 1
            /\ pc \in {"at send", "at read"} => burst = 0 /\ ba_count = 0
            /\ Running /\ obd2_state = "BA" => burst = ba_count + 1
            /\ Running /\ obd2_state # "BA" => burst = 0 /\ ba_count = 0

(* Until a command is given up one request is out at most, the last one,   *)
(* and its response is the only line that can be read.                     *)
Outstanding == \/ owed = << last >> /\ inbox = << >>
               \/ owed = << >> /\ Len(inbox) = 1 /\ inbox[1].to = last

StepInv == ~missed =>
             /\ pc = "at send" => owed = << >> /\ inbox = << >>
             /\ pc = "at read" \/ Running => Outstanding

Lines == [to : Commands \cup {"none"}, text : Texts]

(* TypeOK, without the flags.                                              *)
Types == /\ owed \in Seq(Commands) /\ inbox \in Seq(Lines)
         /\ part \in {"none", "unread", "read"}
         /\ obd2_state \in States /\ load \in {"off", "on"}
         /\ ba_count \in 0 .. BA_MODULO_N
         /\ pc \in {"at send", "at read", "update", "display", "shutdown",
                    "halted"}
         /\ i \in 1 .. Len(AtCommands) + 1
         /\ pc = "at read" => i <= Len(AtCommands)
         /\ last \in Commands \cup {"none"}

Flags == {late, display_initialized, missed} \subseteq BOOLEAN

Inv == Types /\ RequestOfState /\ BurstInv /\ StepInv

LEMMA CommandsIn ==
  /\ Len(AtCommands) \in Nat
  /\ \A k \in 1 .. Len(AtCommands) : /\ AtCommands[k] \in Commands
                                     /\ AtCommands[k] \notin States
  /\ {"CILBr", "Oil", "BA"} \subseteq Commands
  /\ "Reset" \notin Commands \cup {"none"}
BY Obd2Assumption DEF Commands, States

LEMMA Constants == /\ BA_MODULO_N \in Nat
                   /\ Loads \subseteq {"off", "on"}
BY Obd2Assumption

LEMMA AppendIn ==
  ASSUME NEW S, NEW s \in Seq(S), NEW e \in S
  PROVE  Append(s, e) \in Seq(S)
OBVIOUS

LEMMA AppendEmpty ==
  ASSUME NEW e
  PROVE  Append(<< >>, e) = << e >>
OBVIOUS

LEMMA Singleton ==
  ASSUME NEW S, NEW e \in S
  PROVE  << e >> \in Seq(S)
OBVIOUS

(***************************************************************************)
(* The steps.                                                              *)
(***************************************************************************)

(* A state is left: the successor, the count and the request go together.  *)
LEMMA Exit ==
  ASSUME Types, RequestOfState, BurstInv, pc = "update",
         NEW text, NEW l \in {"off", "on"}, StateExit(text, l)
  PROVE  /\ obd2_state' \in States /\ load' \in {"off", "on"}
         /\ ba_count' \in 0 .. BA_MODULO_N
         /\ RequestOfState' /\ BurstInv'
         /\ \/ pc' = "shutdown" /\ UNCHANGED << owed, last, late >>
            \/ /\ pc' = "display" /\ last' \in Commands /\ late' = FALSE
               /\ owed' = Append(owed, last')
<1> USE Constants
<1>1. CASE obd2_state' = "Reset"
  <2>1. pc' = "shutdown" /\ UNCHANGED << owed, last, late, burst >>
    BY <1>1 DEF StateExit, StateEntry, SendNothing
  <2>2. ba_count' \in 0 .. BA_MODULO_N
    BY DEF StateExit, BaCount, Types
  <2> QED
    BY <1>1, <2>1, <2>2 DEF StateExit, States, BurstInv, Running,
       RequestOfState
<1>2. CASE obd2_state' # "Reset"
  <2>1. /\ pc' = "display" /\ last' = obd2_state' /\ late' = FALSE
        /\ owed' = Append(owed, obd2_state')
        /\ burst' = CASE obd2_state' = "CILBr" -> 0
                      [] obd2_state' = "BA"    -> burst + 1
                      [] OTHER                 -> burst
    BY <1>2 DEF StateExit, StateEntry, Send
  <2>2. /\ obd2_state' = Successor(text, l) /\ load' = l
        /\ ba_count' = BaCount(text)
        /\ text # "refused"
    BY <1>2 DEF StateExit, Successor
  <2>3. obd2_state \in States \ {"Reset"}
    BY CommandsIn DEF Types, RequestOfState, Running
  <2>4. CASE obd2_state = "BA"
    <3>1. burst = ba_count + 1 /\ ba_count \in 0 .. BA_MODULO_N
      BY <2>4 DEF BurstInv, Running, Types
    <3>2. CASE ba_count < BA_MODULO_N
      <4>1. obd2_state' = "BA" /\ ba_count' = ba_count + 1
        BY <2>2, <2>4, <3>2 DEF Successor, BaCount
      <4>2. burst' = burst + 1
        BY <2>1, <4>1
      <4>3. ba_count' \in 0 .. BA_MODULO_N /\ burst' \in 0 .. BA_MODULO_N + 1
        BY <3>1, <3>2, <4>1, <4>2
      <4>4. burst' = ba_count' + 1
        BY <3>1, <4>1, <4>2
      <4> QED
        BY <2>1, <2>2, <2>4, <4>1, <4>3, <4>4, CommandsIn
           DEF States, RequestOfState, BurstInv, Running
    <3>3. CASE ~(ba_count < BA_MODULO_N)
      <4>1. obd2_state' = "CILBr" /\ ba_count' = 0
        BY <2>2, <2>4, <3>3 DEF Successor, BaCount
      <4>2. burst' = 0
        BY <2>1, <4>1
      <4> QED
        BY <2>1, <2>2, <2>4, <4>1, <4>2, CommandsIn
           DEF States, RequestOfState, BurstInv, Running
    <3> QED
      BY <3>2, <3>3
  <2>5. CASE obd2_state # "BA"
    <3>1. burst = 0 /\ ba_count = 0 /\ ba_count' = ba_count
      BY <2>2, <2>5 DEF BurstInv, Running, BaCount
    <3>2. CASE obd2_state = "CILBr"
      <4>1. obd2_state' = "Oil" /\ l # "off"
        BY <1>2, <2>2, <3>2 DEF Successor
      <4>2. burst' = 0
        BY <2>1, <3>1, <4>1
      <4> QED
        BY <2>1, <2>2, <3>1, <4>1, <4>2, CommandsIn
           DEF States, RequestOfState, BurstInv, Running
    <3>3. CASE obd2_state # "CILBr"
      <4>1. obd2_state' = "BA"
        BY <1>2, <2>2, <2>3, <2>5, <3>1, <3>3 DEF Successor, States
      <4>2. burst' = 1
        BY <2>1, <3>1, <4>1
      <4> QED
        BY <2>1, <2>2, <3>1, <3>3, <4>1, <4>2, CommandsIn
           DEF States, RequestOfState, BurstInv, Running
    <3> QED
      BY <3>2, <3>3
  <2> QED
    BY <2>4, <2>5
<1> QED
  BY <1>1, <1>2

LEMMA InitInv == Init => Inv
<1> SUFFICES ASSUME Init PROVE Inv
  OBVIOUS
<1>1. /\ owed = << >> /\ part = "none" /\ obd2_state = "Reset"
      /\ ba_count = 0 /\ load = "off" /\ pc = "at send" /\ i = 1
      /\ last = "none" /\ burst = 0
      /\ \/ inbox = << >>
         \/ inbox = << [to |-> "none", text |-> "data"] >>
  BY Zenon DEF Init
<1>2. ~missed => inbox = << >>
  BY Zenon DEF Init
<1>3. inbox \in Seq(Lines)
  <2>1. [to |-> "none", text |-> "data"] \in Lines
    BY DEF Lines, Texts
  <2>2. inbox = << >> => inbox \in Seq(Lines)
    OBVIOUS
  <2>3. << [to |-> "none", text |-> "data"] >> \in Seq(Lines)
    BY <2>1, Singleton
  <2> QED
    BY <1>1, <2>2, <2>3, Zenon
<1>4. i \in 1 .. Len(AtCommands) + 1
  <2>1. i = 1 /\ Len(AtCommands) \in Nat
    BY <1>1, CommandsIn
  <2> QED
    BY <2>1
<1>5. ba_count \in 0 .. BA_MODULO_N /\ burst \in 0 .. BA_MODULO_N + 1
  <2>1. ba_count = 0 /\ burst = 0
    BY <1>1
  <2> QED
    BY <2>1, Constants
<1>6. Types
  <2>1. owed \in Seq(Commands)
    <3>1. owed = << >>
      BY <1>1
    <3> QED
      BY <3>1
  <2> QED
    BY <1>1, <1>3, <1>4, <1>5, <2>1, Zenon DEF Types, States
<1>7. RequestOfState /\ BurstInv
  BY <1>1, <1>5 DEF RequestOfState, BurstInv, Running
<1>8. StepInv
  BY <1>1, <1>2 DEF StepInv, Running
<1> QED
  BY <1>6, <1>7, <1>8 DEF Inv

(* The adapter and the clock leave the firmware alone.                     *)
LEMMA AdapterInv ==
  ASSUME Inv, Begin \/ Finish \/ Expire
  PROVE  Inv'
<1>0. UNCHANGED << firmware, history >>
  BY DEF Begin, Finish, Expire
<1>1. RequestOfState' /\ BurstInv'
  BY <1>0 DEF Inv, RequestOfState, BurstInv, Running, firmware, history
<1>2. CASE Begin \/ Expire
  <2>1. UNCHANGED << owed, inbox >> /\ part' \in {"none", "unread", "read"}
    BY <1>2 DEF Begin, Expire, adapter, Inv, Types
  <2>2. Types'
    BY <1>0, <2>1 DEF Inv, Types, firmware, history
  <2>3. StepInv'
    BY <1>0, <2>1
       DEF Inv, StepInv, Outstanding, Running, firmware, history
  <2> QED
    BY <1>1, <2>2, <2>3 DEF Inv
<1>3. CASE Finish
  <2>1. PICK text \in Texts :
          inbox' = Append(inbox, [to |-> Head(owed), text |-> text])
    BY <1>3 DEF Finish
  <2>2. /\ owed \in Seq(Commands) /\ owed # << >> /\ inbox \in Seq(Lines)
        /\ owed' = Tail(owed) /\ part' = "none"
    BY <1>3 DEF Finish, Inv, Types
  <2>3. [to |-> Head(owed), text |-> text] \in Lines
    BY <2>2 DEF Lines
  <2>4. owed' \in Seq(Commands) /\ inbox' \in Seq(Lines)
    BY <2>1, <2>2, <2>3
  <2>5. Types'
    BY <1>0, <2>2, <2>4 DEF Inv, Types, firmware, history
  <2>6. ASSUME Outstanding PROVE Outstanding'
    <3>1. owed = << last >> /\ inbox = << >>
      BY <2>2, <2>6 DEF Outstanding
    <3>2. owed' = << >> /\ Head(owed) = last
      BY <2>2, <3>1
    <3>3. inbox' = << [to |-> last, text |-> text] >>
      BY <2>1, <3>1, <3>2
    <3>4. Len(inbox') = 1 /\ inbox'[1].to = last
      BY <3>3
    <3> QED
      BY <1>0, <3>2, <3>4 DEF Outstanding, history
  <2>7. StepInv'
    BY <1>0, <2>2, <2>6 DEF Inv, StepInv, Running, firmware, history
  <2> QED
    BY <1>1, <2>5, <2>7 DEF Inv
<1> QED
  BY <1>2, <1>3

(* A line that is read is the only one.                                    *)
LEMMA ReadInv ==
  ASSUME Inv, LineRead
  PROVE  /\ inbox' \in Seq(Lines) /\ inbox[1] \in Lines
         /\ Head(inbox) = inbox[1]
         /\ Outstanding => owed = << >> /\ inbox' = << >>
                           /\ Head(inbox).to = last
<1>1. /\ inbox \in Seq(Lines) /\ inbox # << >> /\ inbox' = Tail(inbox)
  BY DEF Inv, Types, LineRead
<1>2. /\ inbox' \in Seq(Lines) /\ inbox[1] \in Lines
      /\ Head(inbox) = inbox[1]
  BY <1>1
<1>3. ASSUME Outstanding
      PROVE  owed = << >> /\ inbox' = << >> /\ Head(inbox).to = last
  <2>1. owed = << >> /\ Len(inbox) = 1 /\ inbox[1].to = last
    BY <1>1, <1>3 DEF Outstanding
  <2>2. inbox' = << >>
    BY <1>1, <2>1
  <2> QED
    BY <1>2, <2>1, <2>2
<1> QED
  BY <1>2, <1>3

(* The AT commands.                                                        *)
LEMMA AtInv ==
  ASSUME Inv, AtSend \/ AtLine \/ AtTimeout \/ Start
  PROVE  Inv'
<1>1. CASE AtSend
  <2>1. /\ pc = "at send" /\ pc' = "at read"
        /\ i <= Len(AtCommands) /\ i' = i
        /\ owed' = Append(owed, AtCommands[i]) /\ last' = AtCommands[i]
        /\ UNCHANGED << inbox, part, obd2_state, ba_count, load, missed >>
    BY <1>1 DEF AtSend, Send, obd2
  <2>2. AtCommands[i] \in Commands /\ AtCommands[i] \notin States
    <3>1. i \in 1 .. Len(AtCommands)
      <4>1. i \in 1 .. Len(AtCommands) + 1 /\ i <= Len(AtCommands)
        BY <2>1 DEF Inv, Types
      <4>2. Len(AtCommands) \in Nat
        BY CommandsIn
      <4> QED
        BY <4>1, <4>2
    <3> QED
      BY <3>1, CommandsIn, Zenon
  <2>3. burst' = burst
    BY <1>1, <2>2 DEF AtSend, Send, States
  <2>4. owed' \in Seq(Commands)
    <3>1. owed \in Seq(Commands)
      BY DEF Inv, Types
    <3> QED
      BY <2>1, <2>2, <3>1, AppendIn, Zenon
  <2>5. Types'
    BY <2>1, <2>2, <2>4 DEF Inv, Types
  <2>6. RequestOfState' /\ BurstInv'
    BY <2>1, <2>3 DEF Inv, RequestOfState, BurstInv, Running
  <2>7. StepInv'
    <3>1. ~missed => owed = << >> /\ inbox = << >>
      BY <2>1 DEF Inv, StepInv
    <3>2. owed = << >> => owed' = << last' >>
      BY <2>1, AppendEmpty, Zenon
    <3> QED
      BY <2>1, <3>1, <3>2, Zenon DEF StepInv, Outstanding, Running
  <2> QED
    BY <2>5, <2>6, <2>7 DEF Inv
<1>2. CASE AtLine
  <2>1. /\ pc = "at read" /\ pc' = "at send" /\ i' = i + 1 /\ LineRead
        /\ UNCHANGED << owed, part, obd2_state, ba_count, load, last, burst,
                        missed >>
    BY <1>2 DEF AtLine, LineRead, SendNothing, obd2
  <2>2. /\ inbox' \in Seq(Lines)
        /\ Outstanding => owed = << >> /\ inbox' = << >>
    BY <2>1, ReadInv
  <2>3. i' \in 1 .. Len(AtCommands) + 1
    <3>1. i \in 1 .. Len(AtCommands) + 1 /\ i <= Len(AtCommands)
      BY <2>1 DEF Inv, Types
    <3>2. i' = i + 1 /\ Len(AtCommands) \in Nat
      BY <2>1, CommandsIn
    <3> QED
      BY <3>1, <3>2
  <2>5. Types'
    BY <2>1, <2>2, <2>3 DEF Inv, Types
  <2>6. RequestOfState' /\ BurstInv'
    BY <2>1 DEF Inv, RequestOfState, BurstInv, Running
  <2>7. StepInv'
    BY <2>1, <2>2 DEF Inv, StepInv, Running
  <2> QED
    BY <2>5, <2>6, <2>7 DEF Inv
<1>3. CASE AtTimeout
  <2>1. /\ pc = "at read" /\ pc' = "at send" /\ i' = i + 1
        /\ missed' = TRUE
        /\ part' \in {"none", "unread", "read"}
        /\ UNCHANGED << owed, inbox, obd2_state, ba_count, load, last,
                        burst >>
    BY <1>3 DEF AtTimeout, NothingRead, PartRead, SendNothing, obd2, Inv,
       Types
  <2>3. i' \in 1 .. Len(AtCommands) + 1
    <3>1. i \in 1 .. Len(AtCommands) + 1 /\ i <= Len(AtCommands)
      BY <2>1 DEF Inv, Types
    <3>2. i' = i + 1 /\ Len(AtCommands) \in Nat
      BY <2>1, CommandsIn
    <3> QED
      BY <3>1, <3>2
  <2>5. Types'
    BY <2>1, <2>3 DEF Inv, Types
  <2>6. RequestOfState' /\ BurstInv'
    BY <2>1 DEF Inv, RequestOfState, BurstInv, Running
  <2>7. StepInv'
    BY <2>1 DEF StepInv
  <2> QED
    BY <2>5, <2>6, <2>7 DEF Inv
<1>4. CASE Start
  <2>1. /\ pc = "at send" /\ pc' = "update" /\ obd2_state' = "CILBr"
        /\ owed' = Append(owed, "CILBr") /\ last' = "CILBr" /\ burst' = 0
        /\ UNCHANGED << inbox, part, ba_count, load, i, missed >>
    BY <1>4 DEF Start, Send
  <2>2. owed' \in Seq(Commands) /\ last' \in Commands
    <3>1. owed \in Seq(Commands) /\ "CILBr" \in Commands
      BY CommandsIn DEF Inv, Types
    <3> QED
      BY <2>1, <3>1, AppendIn, Zenon
  <2>5. Types'
    BY <2>1, <2>2 DEF Inv, Types, States
  <2>6. RequestOfState' /\ BurstInv'
    BY <2>1, Constants
       DEF Inv, RequestOfState, BurstInv, Running
  <2>7. StepInv'
    <3>1. ~missed => owed = << >> /\ inbox = << >>
      BY <2>1 DEF Inv, StepInv
    <3>2. owed = << >> => owed' = << last' >>
      BY <2>1, AppendEmpty, Zenon
    <3> QED
      BY <2>1, <3>1, <3>2, Zenon DEF StepInv, Outstanding, Running
  <2> QED
    BY <2>5, <2>6, <2>7 DEF Inv
<1> QED
  BY <1>1, <1>2, <1>3, <1>4

(* The state machine and the rest of the loop.                             *)
LEMMA UpdateInv ==
  ASSUME Inv, UpdateLine \/ UpdateNothing \/ UpdateFails \/ Display \/ Shutdown
  PROVE  Inv'
<1>1. CASE UpdateLine
  <2>1. pc = "update" /\ LineRead /\ UNCHANGED << missed, part >>
    BY <1>1 DEF UpdateLine, LineRead
  <2>2. PICK l \in LoadsAfter(Head(inbox)) : StateExit(Head(inbox).text, l)
    BY <1>1 DEF UpdateLine
  <2>3. l \in {"off", "on"} /\ i' = i
    BY <2>2, Constants DEF LoadsAfter, Inv, Types, StateExit
  <2>4. /\ obd2_state' \in States /\ load' \in {"off", "on"}
        /\ ba_count' \in 0 .. BA_MODULO_N
        /\ RequestOfState' /\ BurstInv'
        /\ \/ pc' = "shutdown" /\ UNCHANGED << owed, last, late >>
           \/ /\ pc' = "display" /\ last' \in Commands /\ late' = FALSE
              /\ owed' = Append(owed, last')
    BY <2>1, <2>2, <2>3, Exit DEF Inv
  <2>5. /\ inbox' \in Seq(Lines)
        /\ Outstanding => owed = << >> /\ inbox' = << >>
    BY <2>1, ReadInv
  <2>6. owed' \in Seq(Commands)
    <3>1. owed \in Seq(Commands)
      BY DEF Inv, Types
    <3> QED
      BY <2>4, <3>1, AppendIn, Zenon
  <2>7. Types'
    BY <2>1, <2>3, <2>4, <2>5, <2>6 DEF Inv, Types
  <2>8. StepInv'
    <3>1. ~missed => owed = << >> /\ inbox' = << >>
      BY <2>1, <2>5 DEF Inv, StepInv, Running
    <3>2. pc' = "display" /\ owed = << >> => owed' = << last' >>
      BY <2>4
    <3> QED
      BY <2>1, <2>4, <3>1, <3>2, Zenon DEF StepInv, Running, Outstanding
  <2> QED
    BY <2>4, <2>7, <2>8 DEF Inv
<1>2. CASE UpdateNothing
  <2>1. pc = "update" /\ missed' = TRUE /\ UNCHANGED << inbox, part >>
    BY <1>2 DEF UpdateNothing, NothingRead
  <2>2. PICK text \in Texts :
          \E l \in {load} \cup (IF text = "data" THEN Loads ELSE {}) :
            StateExit(text, l)
    BY <1>2 DEF UpdateNothing
  <2>9. PICK l \in {load} \cup (IF text = "data" THEN Loads ELSE {}) :
          StateExit(text, l)
    BY <2>2
  <2>3. l \in {"off", "on"} /\ i' = i
    BY <2>9, Constants DEF Inv, Types, StateExit
  <2>4. /\ obd2_state' \in States /\ load' \in {"off", "on"}
        /\ ba_count' \in 0 .. BA_MODULO_N
        /\ RequestOfState' /\ BurstInv'
        /\ \/ pc' = "shutdown" /\ UNCHANGED << owed, last, late >>
           \/ /\ pc' = "display" /\ last' \in Commands /\ late' = FALSE
              /\ owed' = Append(owed, last')
    BY <2>1, <2>9, <2>3, Exit DEF Inv
  <2>6. owed' \in Seq(Commands)
    <3>1. owed \in Seq(Commands)
      BY DEF Inv, Types
    <3> QED
      BY <2>4, <3>1, AppendIn, Zenon
  <2>7. Types'
    BY <2>1, <2>3, <2>4, <2>6 DEF Inv, Types
  <2>8. StepInv'
    BY <2>1 DEF StepInv
  <2> QED
    BY <2>4, <2>7, <2>8 DEF Inv
<1>3. CASE UpdateFails
  <2>1. /\ pc' = "shutdown" /\ part' \in {"none", "unread", "read"}
        /\ UNCHANGED << owed, inbox, obd2_state, ba_count, load, i, last,
                        burst, missed >>
    BY <1>3 DEF UpdateFails, PartRead, NothingRead, SendNothing, obd2, Inv,
       Types
  <2> QED
    BY <2>1 DEF Inv, Types, RequestOfState, BurstInv, StepInv, Running
<1>4. CASE Display
  <2>1. /\ pc = "display" /\ pc' = "update" /\ load' \in {"off", "on"}
        /\ UNCHANGED << owed, inbox, part, obd2_state, ba_count, i, last,
                        missed, burst >>
    BY <1>4 DEF Display, adapter, history, Inv, Types
  <2> QED
    BY <2>1
       DEF Inv, Types, RequestOfState, BurstInv, StepInv, Running, Outstanding
<1>5. CASE Shutdown
  <2>1. /\ pc' = "halted"
        /\ UNCHANGED << owed, inbox, part, obd2_state, ba_count, load, i,
                        last, missed, burst >>
    BY <1>5 DEF Shutdown, adapter, obd2, history
  <2> QED
    BY <2>1 DEF Inv, Types, RequestOfState, BurstInv, StepInv, Running
<1> QED
  BY <1>1, <1>2, <1>3, <1>4, <1>5

LEMMA NextInv == Inv /\ [Next]_vars => Inv'
<1> SUFFICES ASSUME Inv, [Next]_vars PROVE Inv'
  OBVIOUS
<1>1. CASE Next
  BY <1>1, AdapterInv, AtInv, UpdateInv, Zenon DEF Next, Firmware
<1>2. CASE UNCHANGED vars
  <2>1. UNCHANGED << owed, inbox, part, obd2_state, ba_count, load, pc, i,
                     last, missed, burst >>
    BY <1>2 DEF vars, adapter, firmware, history
  <2> QED
    BY <2>1
       DEF Inv, Types, RequestOfState, BurstInv, StepInv, Running, Outstanding
<1> QED
  BY <1>1, <1>2

LEMMA SpecInv == Spec => []Inv
  BY InitInv, NextInv, PTL DEF Spec

LEMMA SpecFlags == Spec => []Flags
<1>1. Init => Flags
  BY Zenon DEF Init, Flags
<1>2. Flags /\ [Next]_vars => Flags'
  BY Zenon DEF Flags, vars, Next, Firmware, Begin, Finish, Expire, AtSend,
     AtLine, AtTimeout, Start, UpdateLine, UpdateNothing, UpdateFails,
     Display, Shutdown, StateExit, StateEntry, Send, SendNothing, LineRead,
     NothingRead, PartRead, adapter, firmware, history, obd2
<1> QED
  BY <1>1, <1>2, PTL DEF Spec

(***************************************************************************)
(* The theorems.                                                           *)
(***************************************************************************)

(* Every variable keeps its range.                                         *)
THEOREM TypeCorrect == Spec => []TypeOK
<1>1. Inv /\ Flags => TypeOK
  BY Zenon DEF Inv, Types, Flags, TypeOK, Lines
<1> QED
  BY <1>1, SpecInv, SpecFlags, PTL

(* The request that is out is the one of the state (obd2.c:177-205).       *)
THEOREM RequestsOfStates == Spec => []RequestOfState
<1>1. Inv => RequestOfState
  BY DEF Inv
<1> QED
  BY <1>1, SpecInv, PTL

(* No burst is longer than BA_MODULO_N + 1 (obd2.c:247-259).               *)
THEOREM BurstsBounded == Spec => []BurstBounded
<1>1. Inv => BurstBounded
  <2> SUFFICES ASSUME burst \in 0 .. BA_MODULO_N + 1 PROVE BurstBounded
    BY DEF Inv, BurstInv
  <2> QED
    BY Constants DEF BurstBounded
<1> QED
  BY <1>1, SpecInv, PTL

(* With no command given up and no line unasked for, a line is read as the *)
(* answer to the command it answers (obd2.c:139-150).                      *)
THEOREM StaysInStep == Spec => InStep
<1>1. Inv /\ [Next]_vars =>
        [AtLine \/ UpdateLine => missed \/ Head(inbox).to = last]_vars
  <2> SUFFICES ASSUME Inv, AtLine \/ UpdateLine, ~missed
               PROVE  Head(inbox).to = last
    BY Zenon
  <2>1. LineRead /\ pc \in {"at read", "update"}
    BY DEF AtLine, UpdateLine
  <2>2. Outstanding
    BY <2>1 DEF Inv, StepInv, Running
  <2> QED
    BY <2>1, <2>2, ReadInv
<1> QED
  BY <1>1, SpecInv, PTL DEF Spec, InStep

(* The firmware shuts down exactly if the response is refused or the state *)
(* that reads the load finds it off (obd2.c:207-273).                      *)
LEMMA ExitCause ==
  ASSUME Types, RequestOfState, pc = "update",
         NEW text, NEW l, StateExit(text, l)
  PROVE  pc' = "shutdown" <=> \/ text = "refused"
                              \/ obd2_state = "CILBr" /\ load' = "off"
<1>1. obd2_state \in States \ {"Reset"}
  BY CommandsIn DEF Types, RequestOfState
<1>2. /\ obd2_state' = Successor(text, l) /\ load' = l
      /\ pc' = "shutdown" <=> obd2_state' = "Reset"
  BY DEF StateExit, StateEntry
<1> QED
  BY <1>1, <1>2 DEF Successor, States

(* As long as no command is given up, a session ends on a line exactly for *)
(* one of its causes, a refusal or, on the answer to the request of CILBr, *)
(* a load that is off, as answers come in step (obd2.c:207-273).           *)
THEOREM EndsForCauses == Spec => EndsForACause
<1>1. Inv /\ [Next]_vars =>
        [UpdateLine /\ ~missed =>
           (pc' = "shutdown" <=> \/ Head(inbox).text = "refused"
                                 \/ /\ Head(inbox).to = "CILBr"
                                    /\ load' = "off")]_vars
  <2> SUFFICES ASSUME Inv, UpdateLine, ~missed
               PROVE  pc' = "shutdown" <=>
                        \/ Head(inbox).text = "refused"
                        \/ Head(inbox).to = "CILBr" /\ load' = "off"
    BY Zenon
  <2>1. LineRead /\ pc = "update"
    BY DEF UpdateLine
  <2>2. Outstanding
    BY <2>1 DEF Inv, StepInv, Running
  <2>3. Head(inbox).to = obd2_state
    BY <2>1, <2>2, ReadInv DEF Inv, RequestOfState
  <2>4. PICK l \in LoadsAfter(Head(inbox)) : StateExit(Head(inbox).text, l)
    BY DEF UpdateLine
  <2> QED
    BY <2>1, <2>3, <2>4, ExitCause DEF Inv
<1> QED
  BY <1>1, SpecInv, PTL DEF Spec, EndsForACause

(***************************************************************************)
(* The decoder, for responses of any bytes.  The codes it makes have their *)
(* two top bits set, which none of the codes it knows has, and end in a    *)
(* byte of 0 while the second byte of a PID is expected.                   *)
(***************************************************************************)
Slots == 0 .. PID_STORAGE_SIZE - 1

Unknown == {c \in Nat : 49152 <= c /\ c < 65536}

Place == /\ ptr \in Nat \ {0}
         /\ str \in Seq(0 .. Colon)
         /\ stage \in {"idle", "parse", "update", "overrun"}

PidFlags == {start_line, skip_digit, digit_skipped} \subseteq BOOLEAN

PidInv == /\ Place /\ PidFlags
          /\ pids \in [Slots -> [Code : Unknown \cup {0}, N : {<< >>}]]
          /\ values = [name \in Names |-> 0]
          /\ iPid \in Int /\ -1 <= iPid /\ iPid <= PID_STORAGE_SIZE
          /\ pidSize \in {0, 1}
          /\ stage # "overrun" => iPid < PID_STORAGE_SIZE
          /\ stage # "overrun" /\ pidSize = 1 =>
               /\ iPid \in Slots
               /\ pids[iPid].Code \in Unknown
               /\ pids[iPid].Code % 256 = 0

(* The two digits of a byte of the parser are digits.                      *)
LEMMA ToHex == ASSUME NEW n \in 0 .. 16 PROVE tohex(n) \in 0 .. 9
BY DEF tohex

LEMMA NumberIs ==
  ASSUME NEW b \in 0 .. Colon
  PROVE  \E d, e \in 0 .. 9 : Number(b) = 256 * d + e
<1>1. b \div 16 \in 0 .. 16 /\ b % 16 \in 0 .. 16
  BY DEF Colon
<1> QED
  BY <1>1, ToHex DEF Number

(* The first byte of a PID leaves the top bits of its code set: 64 less    *)
(* than a digit has them.                                                  *)
LEMMA ModeCode ==
  ASSUME NEW b \in 0 .. Colon
  PROVE  /\ Word((Number(b) - 64) * 256) \in Unknown
         /\ Word((Number(b) - 64) * 256) % 256 = 0
<1>1. PICK d \in 0 .. 9, e \in 0 .. 9 : Number(b) = 256 * d + e
  BY NumberIs
<1>2. (Number(b) - 64) * 256 = 65536 * (d - 1) + (192 + e) * 256
  BY <1>1
<1>3. Word((Number(b) - 64) * 256) = (192 + e) * 256
  BY <1>2 DEF Word
<1>4. ((192 + e) * 256) % 256 = 0
  OBVIOUS
<1> QED
  BY <1>3, <1>4 DEF Unknown

LEMMA OrKeepsTop ==
  ASSUME NEW a \in Unknown, NEW n \in Nat
  PROVE  Or(a, n) \in Unknown
<1> DEFINE bit(p) == IF 1 \in {(a \div p) % 2, (n \div p) % 2} THEN p ELSE 0
<1>1. (a \div 32768) % 2 = 1 /\ (a \div 16384) % 2 = 1
  BY DEF Unknown
<1>2. bit(32768) = 32768 /\ bit(16384) = 16384
  BY <1>1
<1>3. /\ bit(8192) \in Nat /\ bit(8192) <= 8192
      /\ bit(4096) \in Nat /\ bit(4096) <= 4096
      /\ bit(2048) \in Nat /\ bit(2048) <= 2048
      /\ bit(1024) \in Nat /\ bit(1024) <= 1024
      /\ bit(512) \in Nat /\ bit(512) <= 512
      /\ bit(256) \in Nat /\ bit(256) <= 256
      /\ bit(128) \in Nat /\ bit(128) <= 128
      /\ bit(64) \in Nat /\ bit(64) <= 64
      /\ bit(32) \in Nat /\ bit(32) <= 32
      /\ bit(16) \in Nat /\ bit(16) <= 16
      /\ bit(8) \in Nat /\ bit(8) <= 8
      /\ bit(4) \in Nat /\ bit(4) <= 4
      /\ bit(2) \in Nat /\ bit(2) <= 2
      /\ bit(1) \in Nat /\ bit(1) <= 1
  OBVIOUS
<1>4. Or(a, n) = bit(32768) + bit(16384) + bit(8192) + bit(4096) + bit(2048)
                 + bit(1024) + bit(512) + bit(256) + bit(128) + bit(64)
                 + bit(32) + bit(16) + bit(8) + bit(4) + bit(2) + bit(1)
  BY DEF Or
<1> HIDE DEF bit
<1> QED
  BY <1>2, <1>3, <1>4 DEF Unknown

(* None of these codes is known.                                           *)
LEMMA KnownCodes ==
  /\ \A c \in DOMAIN Known : c \in 1 .. 8449
  /\ \A c \in Unknown \cup {0} : c \notin DOMAIN Known /\ ResultSize(c) = 0
<1>1. DOMAIN Known = {308, 267, 260, 348, 8449, 261, 271, 307}
  BY DEF Known, KnownPids
<1> QED
  BY <1>1 DEF Unknown, ResultSize

LEMMA StorageIs == PID_STORAGE_SIZE \in Nat
BY PidAssumption

(* A nonempty set of natural numbers has a least one.                      *)
LEMMA Least ==
  ASSUME NEW T, T \subseteq Nat, T # {}
  PROVE  \E k \in T : \A j \in T : k <= j
<1> DEFINE R == {p \in Nat \X Nat : p[1] < p[2]}
<1>1. IsWellFoundedOn(R, Nat)
  BY NatLessThanWellFounded DEF OpToRel
<1>2. \E k \in T : \A j \in T : ~ (<< j, k >> \in R)
  <2> HIDE DEF R
  <2> QED
    BY <1>1, WFMin
<1>3. PICK k \in T : \A j \in T : ~ (<< j, k >> \in R)
  BY <1>2
<1>4. ASSUME NEW j \in T PROVE k <= j
  <2>1. << j, k >> \in Nat \X Nat /\ << j, k >>[1] = j /\ << j, k >>[2] = k
    OBVIOUS
  <2> QED
    BY <1>3, <2>1
<1> QED
  BY <1>4

(* strstr gives a place in the response, not before ptr, or NULL.          *)
LEMMA FindIs ==
  ASSUME Place, NEW item
  PROVE  /\ Find(item) \in Nat
         /\ Find(item) = 0 \/ Find(item) \in ptr .. Len(str)
<1> DEFINE found == {k \in ptr .. Len(str) : str[k] = item}
<1>1. found \subseteq Nat
  BY DEF Place
<1>2. CASE found = {}
  BY <1>2 DEF Find
<1>3. CASE found # {}
  <2>1. \E k \in found : \A j \in found : k <= j
    <3> HIDE DEF found
    <3> QED
      BY <1>1, <1>3, Least
  <2>2. (CHOOSE k \in found : \A j \in found : k <= j) \in found
    <3> HIDE DEF found
    <3> QED
      BY <2>1
  <2> QED
    BY <1>1, <1>3, <2>2 DEF Find
<1> QED
  BY <1>2, <1>3

LEMMA ItemIn ==
  ASSUME NEW S, NEW s \in Seq(S), NEW k \in 1 .. Len(s)
  PROVE  s[k] \in S
OBVIOUS

(* The item the parser is at.                                              *)
LEMMA AtByte ==
  ASSUME Place, More
  PROVE  str[ptr] \in 0 .. Colon
<1>1. Len(str) \in Nat /\ ptr \in 1 .. Len(str)
  BY DEF Place, More
<1>2. str \in Seq(0 .. Colon)
  BY DEF Place
<1> QED
  BY <1>1, <1>2, ItemIn

LEMMA PidInitInv == PidInit => PidInv
<1> SUFFICES ASSUME PidInit PROVE PidInv
  OBVIOUS
<1>1. Place
  BY DEF PidInit, Place
<1>f. PidFlags
  BY Zenon DEF PidInit, PidFlags
<1>2. pids \in [Slots -> [Code : Unknown \cup {0}, N : {<< >>}]]
  BY DEF PidInit, NoPids, NoPid, Slots
<1>3. /\ iPid \in Int /\ -1 <= iPid /\ iPid <= PID_STORAGE_SIZE
      /\ iPid < PID_STORAGE_SIZE
  BY StorageIs DEF PidInit
<1> QED
  BY <1>1, <1>f, <1>2, <1>3 DEF PidInit, PidInv

(* The steps that leave the array alone.                                   *)
LEMMA LineInv ==
  ASSUME PidInv, StartLine \/ EndLine \/ Skip \/ Parsed
  PROVE  PidInv'
<1>1. Place'
  <2>1. CASE StartLine
    <3>1. Find(Colon) \in Nat /\ Find(CR) \in Nat /\ Len(str) \in Nat
      BY FindIs DEF PidInv, Place
    <3>2. ptr' \in Nat \ {0}
      BY <2>1, <3>1 DEF StartLine, PidInv, Place
    <3> QED
      BY <2>1, <3>2 DEF StartLine, PidInv, Place
  <2>2. CASE EndLine
    BY <2>2 DEF EndLine, PidInv, Place
  <2>3. CASE Skip
    BY <2>3 DEF Skip, Byte, PidInv, Place
  <2>4. CASE Parsed
    BY <2>4 DEF Parsed, parser, PidInv, Place
  <2> QED
    BY <2>1, <2>2, <2>3, <2>4
<1>2. /\ UNCHANGED << iPid, pidSize, pids, values >>
      /\ stage' # "overrun" /\ stage # "overrun"
  BY DEF StartLine, EndLine, Skip, Byte, Parsed, parser, More
<1>3. PidFlags'
  BY Zenon DEF StartLine, EndLine, Skip, Byte, Parsed, parser, PidInv,
               PidFlags
<1> QED
  BY <1>1, <1>2, <1>3 DEF PidInv

(* The first byte of a PID.                                                *)
LEMMA ModeInv ==
  ASSUME PidInv, Mode
  PROVE  PidInv'
<1> DEFINE code == Word((Number(str[ptr]) - 64) * 256)
<1>1. str[ptr] \in 0 .. Colon
  BY AtByte DEF PidInv, Mode, Storing, Byte
<1>2. code \in Unknown /\ code % 256 = 0
  BY <1>1, ModeCode
<1>3. Place' /\ PidFlags'
  <2>1. Place'
    BY DEF Mode, Storing, Byte, PidInv, Place
  <2>2. PidFlags'
    BY Zenon DEF Mode, Storing, Byte, PidInv, PidFlags
  <2> QED
    BY <2>1, <2>2
<1>4. /\ UNCHANGED values /\ pidSize' = 1 /\ iPid' = iPid + 1
      /\ stage = "parse"
  BY DEF Mode, Storing, Byte, More
<1>5. iPid \in Int /\ -1 <= iPid /\ iPid < PID_STORAGE_SIZE
  BY <1>4 DEF PidInv
<1> HIDE DEF code
<1>6. CASE iPid' < PID_STORAGE_SIZE
  <2>1. iPid' \in Slots
    BY <1>4, <1>5, <1>6, StorageIs DEF Slots
  <2>2. pids' = [pids EXCEPT ![iPid'].Code = code] /\ stage' = stage
    BY <1>6 DEF Mode, code
  <2>3. /\ pids' \in [Slots -> [Code : Unknown \cup {0}, N : {<< >>}]]
        /\ pids'[iPid'].Code = code
    BY <1>2, <2>1, <2>2 DEF PidInv
  <2>4. iPid' \in Int /\ -1 <= iPid' /\ iPid' <= PID_STORAGE_SIZE
    BY <1>4, <1>5, <1>6, StorageIs
  <2> QED
    BY <1>2, <1>3, <1>4, <1>6, <2>1, <2>3, <2>4 DEF PidInv
<1>7. CASE ~(iPid' < PID_STORAGE_SIZE)
  <2>1. stage' = "overrun" /\ pids' = pids
    BY <1>7 DEF Mode
  <2>2. iPid' \in Int /\ -1 <= iPid' /\ iPid' <= PID_STORAGE_SIZE
    BY <1>4, <1>5, StorageIs
  <2> QED
    BY <1>3, <1>4, <2>1, <2>2 DEF PidInv
<1> QED
  BY <1>6, <1>7

(* The second byte: the code is not known, and no data is expected.        *)
LEMMA RestInv ==
  ASSUME PidInv, Rest
  PROVE  PidInv'
<1> DEFINE code == Or(pids[iPid].Code, Number(str[ptr]))
<1>1. /\ UNCHANGED << values, iPid, stage >> /\ stage = "parse"
      /\ pidSize # 0
  BY DEF Rest, Storing, Byte, More
<1>2. /\ iPid \in Slots
      /\ pids[iPid].Code \in Unknown /\ pids[iPid].Code % 256 = 0
  BY <1>1 DEF PidInv
<1>3. Number(str[ptr]) \in Nat
  <2>1. str[ptr] \in 0 .. Colon
    BY AtByte DEF PidInv, Rest, Storing, Byte
  <2> QED
    BY <2>1, NumberIs
<1>4. code \in Unknown
  BY <1>2, <1>3, OrKeepsTop
<1>5. /\ pids' = [pids EXCEPT ![iPid].Code = code]
      /\ pidSize' = ResultSize(pids'[iPid].Code)
  BY <1>2 DEF Rest
<1>6. Place' /\ PidFlags'
  <2>1. Place'
    BY DEF Rest, Storing, Byte, PidInv, Place
  <2>2. PidFlags'
    BY Zenon DEF Rest, Storing, Byte, PidInv, PidFlags
  <2> QED
    BY <2>1, <2>2
<1> HIDE DEF code
<1>7. /\ pids' \in [Slots -> [Code : Unknown \cup {0}, N : {<< >>}]]
      /\ pids'[iPid].Code = code
  BY <1>2, <1>4, <1>5 DEF PidInv
<1>8. pidSize' = 0
  BY <1>4, <1>5, <1>7, KnownCodes
<1> QED
  BY <1>1, <1>6, <1>7, <1>8 DEF PidInv

(* What the parser made sets no value.                                     *)
LEMMA ValuesInv ==
  ASSUME PidInv, Update
  PROVE  PidInv'
<1>1. \A n \in DOMAIN pids : pids[n].Code \notin DOMAIN Known
  BY KnownCodes DEF PidInv
<1>2. values' = [name \in Names |-> values[name]]
  BY <1>1 DEF Update
<1>3. values' = [name \in Names |-> 0]
  BY <1>2 DEF PidInv
<1>4. Place' /\ PidFlags'
  <2>1. str' = << >> /\ ptr' = 1 /\ stage' = "idle"
    BY Zenon DEF Update
  <2>2. Place'
    BY <2>1 DEF Place
  <2>3. PidFlags'
    BY Zenon DEF Update, PidFlags
  <2> QED
    BY <2>2, <2>3
<1>5. pids' \in [Slots -> [Code : Unknown \cup {0}, N : {<< >>}]]
  BY DEF Update, NoPids, NoPid, Slots
<1>6. iPid' = -1 /\ pidSize' = 0 /\ stage' = "idle"
  BY DEF Update
<1>7. /\ iPid' \in Int /\ -1 <= iPid' /\ iPid' <= PID_STORAGE_SIZE
      /\ iPid' < PID_STORAGE_SIZE
  BY <1>6, StorageIs
<1> QED
  BY <1>3, <1>4, <1>5, <1>6, <1>7 DEF PidInv

LEMMA PidNextInv == PidInv /\ [PidNext]_decoder => PidInv'
<1> SUFFICES ASSUME PidInv, [PidNext]_decoder PROVE PidInv'
  OBVIOUS
<1>1. CASE Parse
  <2>1. str' \in Seq(0 .. Colon)
    BY <1>1, PidAssumption DEF Parse
  <2>2. Place'
    BY <1>1, <2>1 DEF Parse, PidInv, Place
  <2>3. PidFlags'
    BY <1>1, Zenon DEF Parse, parser, PidInv, PidFlags
  <2> QED
    BY <1>1, <2>2, <2>3 DEF Parse, parser, PidInv
<1>2. CASE StartLine \/ EndLine \/ Skip \/ Parsed
  BY <1>2, LineInv
<1>3. CASE Mode
  BY <1>3, ModeInv
<1>4. CASE Rest
  BY <1>4, RestInv
<1>5. CASE Update
  BY <1>5, ValuesInv
<1>6. CASE UNCHANGED decoder
  <2>1. PidFlags'
    BY <1>6, Zenon DEF decoder, parser, PidInv, PidFlags
  <2> QED
    BY <1>6, <2>1 DEF decoder, parser, PidInv, Place
<1> QED
  BY <1>1, <1>2, <1>3, <1>4, <1>5, <1>6 DEF PidNext, Loop

LEMMA PidSpecInv == PidSpec => []PidInv
  BY PidInitInv, PidNextInv, PTL DEF PidSpec

(* Every variable of the decoder keeps its range (obd2.c:56-60).           *)
THEOREM PidTypeCorrect == PidSpec => []PidTypeOK
<1>1. PidInv => PidTypeOK
  <2> SUFFICES ASSUME PidInv PROVE PidTypeOK
    OBVIOUS
  <2>1. pids \in [Slots -> [Code : Words, N : Seq(0 .. 255)]]
    <3>1. Unknown \cup {0} \subseteq Words
      BY DEF Unknown, Words
    <3>2. << >> \in Seq(0 .. 255)
      OBVIOUS
    <3>3. [Code : Unknown \cup {0}, N : {<< >>}]
            \subseteq [Code : Words, N : Seq(0 .. 255)]
      BY <3>1, <3>2
    <3>4. pids \in [Slots -> [Code : Unknown \cup {0}, N : {<< >>}]]
      BY DEF PidInv
    <3> QED
      BY <3>3, <3>4
  <2>2. values \in [Names -> 0 .. 255] /\ pidSize \in 0 .. 29
    BY DEF PidInv
  <2>3. iPid \in -1 .. PID_STORAGE_SIZE
    BY StorageIs DEF PidInv
  <2>4. PidFlags /\ Place
    BY DEF PidInv
  <2>5. /\ str \in Seq(0 .. Colon) /\ ptr \in Nat \ {0}
        /\ stage \in {"idle", "parse", "update", "overrun"}
    BY <2>4 DEF Place
  <2>6. pids \in [0 .. PID_STORAGE_SIZE - 1 ->
                  [Code : Words, N : Seq(0 .. 255)]]
    BY <2>1, Zenon DEF Slots
  <2>7. {start_line, skip_digit, digit_skipped} \subseteq BOOLEAN
    BY <2>4, Zenon DEF PidFlags
  <2> QED
    BY <2>2, <2>3, <2>5, <2>6, <2>7, Zenon DEF PidTypeOK
<1> QED
  BY <1>1, PidSpecInv, PTL

(* What README says of obd2.c:386: no response of any bytes sets a value.  *)
THEOREM NoCodeIsKnown ==
  PidSpec => [](values = [name \in Names |-> 0])
<1>1. PidInv => values = [name \in Names |-> 0]
  BY Zenon DEF PidInv
<1> QED
  BY <1>1, PidSpecInv, PTL

(***************************************************************************)
(* The room in the array: each PID that is begun has taken a byte that is  *)
(* behind ptr, and each that is complete two.                              *)
(***************************************************************************)
Passed == {k \in 1 .. ptr - 1 : str[k] # CR}

Taken == 2 * iPid + (IF pidSize = 0 THEN 2 ELSE 1)

RoomInv == /\ ptr <= Len(str) + 1
           /\ Taken <= Cardinality(Passed)
           /\ stage = "idle" => ptr = 1 /\ iPid = -1 /\ pidSize = 0
           /\ stage = "overrun" => iPid = PID_STORAGE_SIZE /\ pidSize = 1

LEMMA PassedFinite ==
  ASSUME Place
  PROVE  IsFiniteSet(Passed) /\ Cardinality(Passed) \in Nat
<1>1. IsFiniteSet(1 .. ptr - 1)
  BY FS_Interval DEF Place
<1>2. Passed \in SUBSET (1 .. ptr - 1)
  BY DEF Passed
<1>3. IsFiniteSet(Passed)
  BY <1>1, <1>2, FS_Subset
<1> QED
  BY <1>3, FS_CardinalityType

(* What has been passed stays so.                                          *)
LEMMA PassedGrows ==
  ASSUME Place, Place', str' = str, ptr <= ptr'
  PROVE  /\ Cardinality(Passed) <= Cardinality(Passed')
         /\ Cardinality(Passed') \in Nat
<1>1. Passed \in SUBSET Passed'
  BY DEF Passed, Place
<1>2. IsFiniteSet(Passed')
  <2>1. IsFiniteSet(1 .. ptr' - 1)
    BY FS_Interval DEF Place
  <2>2. Passed' \in SUBSET (1 .. ptr' - 1)
    BY DEF Passed
  <2> QED
    BY <2>1, <2>2, FS_Subset
<1> QED
  BY <1>1, <1>2, FS_Subset, FS_CardinalityType

(* A byte that is taken is one more.                                       *)
LEMMA PassedByte ==
  ASSUME Place, Byte
  PROVE  Cardinality(Passed') = Cardinality(Passed) + 1
<1>1. ptr' = ptr + 1 /\ str' = str /\ str[ptr] # CR /\ ptr \in Nat \ {0}
  BY DEF Byte, Place
<1>2. Passed' = Passed \cup {ptr} /\ ptr \notin Passed
  BY <1>1 DEF Passed
<1>3. IsFiniteSet(Passed)
  BY PassedFinite
<1> QED
  BY <1>2, <1>3, FS_AddElement

(* The steps that take no byte for a PID.                                  *)
LEMMA RoomLine ==
  ASSUME PidInv, PidInv', RoomInv, StartLine \/ EndLine \/ Skip \/ Parsed
  PROVE  RoomInv'
<1>1. /\ UNCHANGED << str, iPid, pidSize >>
      /\ stage' \notin {"idle", "overrun"}
  BY DEF StartLine, EndLine, Skip, Byte, Parsed, parser, More
<1>2. /\ Place /\ Place' /\ Len(str) \in Nat /\ ptr \in Nat
      /\ ptr <= Len(str) + 1
  BY DEF PidInv, Place, RoomInv
<1>3. ptr <= ptr' /\ ptr' <= Len(str) + 1
  <2>1. CASE StartLine
    <3>1. /\ Find(Colon) \in Nat
          /\ Find(Colon) = 0 \/ Find(Colon) \in ptr .. Len(str)
      BY <1>2, FindIs
    <3> QED
      BY <1>2, <2>1, <3>1 DEF StartLine
  <2>2. CASE EndLine \/ Skip
    <3>1. ptr' = ptr + 1 /\ ptr <= Len(str)
      BY <2>2 DEF EndLine, Skip, Byte, More
    <3> QED
      BY <1>2, <3>1
  <2>3. CASE Parsed
    BY <1>2, <2>3 DEF Parsed
  <2> QED
    BY <2>1, <2>2, <2>3
<1>4. Cardinality(Passed) <= Cardinality(Passed')
  BY <1>1, <1>2, <1>3, PassedGrows
<1>5. Taken' = Taken /\ Taken \in Int /\ Taken <= Cardinality(Passed)
  BY <1>1 DEF Taken, RoomInv, PidInv
<1>6. Cardinality(Passed) \in Nat /\ Cardinality(Passed') \in Nat
  BY <1>1, <1>2, <1>3, PassedFinite, PassedGrows
<1>7. Taken' <= Cardinality(Passed')
  BY <1>4, <1>5, <1>6
<1> QED
  BY <1>1, <1>3, <1>7 DEF RoomInv

(* The first byte of a PID begins it, the second completes it.             *)
LEMMA RoomByte ==
  ASSUME PidInv, PidInv', RoomInv, Mode \/ Rest
  PROVE  RoomInv'
<1>1. /\ Byte /\ str' = str /\ ptr' = ptr + 1 /\ ptr <= Len(str)
      /\ stage = "parse" /\ stage' # "idle"
  BY DEF Mode, Rest, Storing, Byte, More
<1>2. /\ Place /\ Len(str) \in Nat /\ ptr \in Nat
      /\ iPid \in Int /\ pidSize \in {0, 1} /\ pidSize' \in {0, 1}
      /\ PID_STORAGE_SIZE \in Nat /\ iPid < PID_STORAGE_SIZE
  BY <1>1, StorageIs DEF PidInv, Place
<1>3. Cardinality(Passed') = Cardinality(Passed) + 1
  BY <1>1, <1>2, PassedByte
<1>4. Cardinality(Passed) \in Nat
  BY <1>2, PassedFinite
<1>5. Taken' <= Taken + 1
  <2>1. CASE Mode
    <3>1. pidSize = 0 /\ iPid' = iPid + 1 /\ pidSize' = 1
      BY <2>1 DEF Mode
    <3> QED
      BY <1>2, <3>1 DEF Taken
  <2>2. CASE Rest
    <3>1. pidSize = 1 /\ iPid' = iPid
      BY <1>2, <2>2 DEF Rest
    <3> QED
      BY <1>2, <3>1 DEF Taken
  <2> QED
    BY <2>1, <2>2
<1>6. Taken \in Int /\ Taken' \in Int /\ Taken <= Cardinality(Passed)
  BY <1>2 DEF Taken, RoomInv, PidInv
<1>7. Taken' <= Cardinality(Passed')
  BY <1>3, <1>4, <1>5, <1>6
<1>8. ptr' <= Len(str') + 1
  BY <1>1, <1>2
<1>9. stage' = "overrun" => iPid' = PID_STORAGE_SIZE /\ pidSize' = 1
  <2> SUFFICES ASSUME stage' = "overrun"
               PROVE  iPid' = PID_STORAGE_SIZE /\ pidSize' = 1
    OBVIOUS
  <2>1. Mode
    BY <1>1 DEF Rest
  <2>2. iPid' = iPid + 1 /\ pidSize' = 1 /\ ~(iPid' < PID_STORAGE_SIZE)
    BY <1>1, <2>1 DEF Mode
  <2> QED
    BY <1>2, <2>2
<1> QED
  BY <1>1, <1>7, <1>8, <1>9 DEF RoomInv

LEMMA RoomHolds == PidSpec => [](PidInv /\ RoomInv)
<1>1. PidInit => RoomInv
  <2> SUFFICES ASSUME PidInit PROVE RoomInv
    OBVIOUS
  <2>1. /\ str = << >> /\ ptr = 1 /\ iPid = -1 /\ pidSize = 0
        /\ stage = "idle"
    BY DEF PidInit
  <2>2. Taken <= Cardinality(Passed)
    <3>1. Passed = {} /\ Cardinality({}) = 0
      BY <2>1, FS_EmptySet DEF Passed
    <3> QED
      BY <2>1, <3>1 DEF Taken
  <2> QED
    BY <2>1, <2>2 DEF RoomInv
<1>2. PidInv /\ PidInv' /\ RoomInv /\ [PidNext]_decoder => RoomInv'
  <2> SUFFICES ASSUME PidInv, PidInv', RoomInv, [PidNext]_decoder
               PROVE  RoomInv'
    OBVIOUS
  <2>1. ASSUME ptr' = 1, iPid' = -1, pidSize' = 0, str' \in Seq(0 .. Colon),
               stage' # "overrun"
        PROVE  RoomInv'
    <3>1. Taken' <= Cardinality(Passed')
      <4>1. Passed' = {} /\ Cardinality({}) = 0
        BY <2>1, FS_EmptySet DEF Passed
      <4> QED
        BY <2>1, <4>1 DEF Taken
    <3>2. Len(str') \in Nat
      BY <2>1
    <3> QED
      BY <2>1, <3>1, <3>2 DEF RoomInv
  <2>2. CASE Parse
    <3>1. ptr' = 1 /\ iPid' = -1 /\ pidSize' = 0 /\ stage' = "parse"
      BY <2>2 DEF Parse, parser, RoomInv
    <3> QED
      BY <2>1, <3>1 DEF PidInv, Place
  <2>3. CASE Update
    <3>1. /\ ptr' = 1 /\ iPid' = -1 /\ pidSize' = 0 /\ stage' = "idle"
      BY <2>3 DEF Update
    <3> QED
      BY <2>1, <3>1 DEF PidInv, Place
  <2>4. CASE StartLine \/ EndLine \/ Skip \/ Parsed
    BY <2>4, RoomLine
  <2>5. CASE Mode \/ Rest
    BY <2>5, RoomByte
  <2>6. CASE UNCHANGED decoder
    BY <2>6 DEF decoder, parser, RoomInv, Taken, Passed
  <2> QED
    BY <2>2, <2>3, <2>4, <2>5, <2>6 DEF PidNext, Loop
<1> QED
  BY <1>1, <1>2, PidSpecInv, PTL DEF PidSpec

(* A response overruns the array of PIDs only if it has more than two bytes*)
(* for each, for every size of the array (obd2.c:387-406).                 *)
THEOREM EnoughRoom == PidSpec => []RoomForPids
<1>1. PidInv /\ RoomInv => RoomForPids
  <2> SUFFICES ASSUME PidInv, RoomInv, stage = "overrun"
               PROVE  Cardinality({k \in DOMAIN str : str[k] # CR})
                        > 2 * PID_STORAGE_SIZE
    BY DEF RoomForPids
  <2> DEFINE All == {k \in DOMAIN str : str[k] # CR}
  <2>1. /\ Place /\ Len(str) \in Nat /\ DOMAIN str = 1 .. Len(str)
        /\ ptr \in Nat /\ ptr <= Len(str) + 1 /\ PID_STORAGE_SIZE \in Nat
    BY StorageIs DEF PidInv, Place, RoomInv
  <2>2. Taken = 2 * PID_STORAGE_SIZE + 1 /\ Taken <= Cardinality(Passed)
    BY <2>1 DEF RoomInv, Taken
  <2>3. Passed \in SUBSET All
    BY <2>1 DEF Passed
  <2>4. IsFiniteSet(All)
    <3>1. IsFiniteSet(1 .. Len(str))
      BY <2>1, FS_Interval
    <3>2. All \in SUBSET (1 .. Len(str))
      BY <2>1
    <3> HIDE DEF All
    <3> QED
      BY <3>1, <3>2, FS_Subset
  <2>5. Cardinality(Passed) <= Cardinality(All)
    <3> HIDE DEF All
    <3> QED
      BY <2>3, <2>4, FS_Subset
  <2>6. Cardinality(Passed) \in Nat /\ Cardinality(All) \in Nat
    <3> HIDE DEF All
    <3> QED
      BY <2>1, <2>4, PassedFinite, FS_CardinalityType
  <2> HIDE DEF All
  <2>7. Cardinality(All) > 2 * PID_STORAGE_SIZE
    BY <2>1, <2>2, <2>5, <2>6
  <2> QED
    BY <2>7 DEF All
<1> QED
  BY <1>1, RoomHolds, PTL
=============================================================================
