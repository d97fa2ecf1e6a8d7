-------------------------------- MODULE Obd2 --------------------------------
(***************************************************************************)
(* The session with the OBD2 adapter (obd2.c) and the event loop around it *)
(* (controller.c:78-162): the AT commands of obd2_init, then one request   *)
(* at a time, each response parsed in the state obd2_state is in when it is*)
(* read.                                                                   *)
(*                                                                         *)
(* uart_readline is here what Readline shows of it: a call returns a line, *)
(* 0 when nothing has arrived, UartErrorRxBusy when the beginning of a line*)
(* has, or UartErrorTimeout.  What a line says is abstracted to what the   *)
(* parser makes of it; whether it reports an engine load is a parameter.   *)
(***************************************************************************)
EXTENDS Naturals, Sequences

CONSTANTS
  AtCommands,    \* The sequence of commands of obd2_init.
  BA_MODULO_N,   \* As in obd2.c:27.
  Loads,         \* What a load response can set display_params.Load to.
  MaxOwed        \* Bound: commands that are not answered or not read yet.

States == {"Reset", "CILBr", "Oil", "BA"}

ASSUME Obd2Assumption ==
  /\ AtCommands \in Seq(STRING)
  /\ \A k \in DOMAIN AtCommands : AtCommands[k] \notin States
  /\ BA_MODULO_N \in Nat
  /\ Loads \subseteq {"off", "on"} /\ Loads # {}
  /\ MaxOwed \in Nat

VARIABLES
  owed,          \* The commands the adapter has not answered, oldest first.
  inbox,         \* The responses that have arrived and are not read.
  part,          \* The beginning of the next response: none, unread, read.
  late,          \* The receive timeout has passed since the last command.
  obd2_state, ba_count,
  load,          \* Whether display_params.Load is above 0.1.
  display_initialized,
  pc, i,         \* Where the firmware is; the next AT command.
  last,          \* History: the last command sent.
  missed,        \* History: a command was given up, or a line not asked for.
  burst          \* History: BA commands since the last CILBr command.

adapter  == << owed, inbox, part >>
firmware == << obd2_state, ba_count, load, display_initialized, pc, i >>
history  == << last, missed, burst >>
vars     == << adapter, late, firmware, history >>

(* obd2_parse_pid_response: "refused" stands for "?" and UNABLE TO CONNECT,*)
(* "no data" for NO DATA, and "data" for anything else.                    *)
Texts == {"refused", "no data", "data"}

Commands == {AtCommands[k] : k \in DOMAIN AtCommands} \cup (States \ {"Reset"})

(***************************************************************************)
(* The adapter answers each command once, in order, at any time or never.  *)
(***************************************************************************)
Begin == /\ owed # << >> /\ part = "none"
         /\ part' = "unread"
         /\ UNCHANGED << owed, inbox, late, firmware, history >>

Finish == /\ owed # << >>
          /\ \E text \in Texts :
               inbox' = Append(inbox, [to |-> Head(owed), text |-> text])
          /\ owed' = Tail(owed)
          /\ part' = "none"
          /\ UNCHANGED << late, firmware, history >>

Expire == /\ ~late /\ late' = TRUE
          /\ UNCHANGED << adapter, firmware, history >>

(***************************************************************************)
(* Commands and lines.                                                     *)
(***************************************************************************)

(* uart_sendline restarts the timeout.                                     *)
Send(command) == /\ owed' = Append(owed, command)
                 /\ late' = FALSE
                 /\ last' = command
                 /\ burst' = CASE command = "CILBr" -> 0
                               [] command = "BA"    -> burst + 1
                               [] OTHER             -> burst

SendNothing == UNCHANGED << owed, late, last, burst >>

(* Mutant: a line that has been read stays in the buffer.                  *)
LineReadKept == inbox # << >> /\ UNCHANGED << inbox, part >>

LineRead    == inbox # << >> /\ inbox' = Tail(inbox) /\ UNCHANGED part
NothingRead == inbox = << >> /\ part # "unread" /\ UNCHANGED << inbox, part >>
PartRead    == inbox = << >> /\ part = "unread" /\ part' = "read"
                             /\ UNCHANGED inbox

(***************************************************************************)
(* obd2_init.                                                              *)
(***************************************************************************)
obd2 == << obd2_state, ba_count, load, display_initialized >>

(* obd2_at_command sends and reads synchronously; its result is not used.  *)
AtSend == /\ pc = "at send" /\ i <= Len(AtCommands)
          /\ pc' = "at read"
          /\ Send(AtCommands[i])
          /\ UNCHANGED << inbox, part, obd2, i, missed >>

AtLine == /\ pc = "at read" /\ pc' = "at send"
          /\ LineRead
          /\ i' = i + 1
          /\ SendNothing
          /\ UNCHANGED << obd2, missed >>

(* Mutant: a synchronous read waits for the end of a line it has seen the  *)
(* beginning of.                                                           *)
AtTimeoutNothing == /\ pc = "at read" /\ pc' = "at send"
                    /\ late /\ NothingRead /\ part = "none"
                    /\ i' = i + 1
                    /\ missed' = TRUE
                    /\ SendNothing
                    /\ UNCHANGED obd2

AtTimeout == /\ pc = "at read" /\ pc' = "at send"
             /\ late /\ (NothingRead \/ PartRead)
             /\ i' = i + 1
             /\ missed' = TRUE
             /\ SendNothing
             /\ UNCHANGED obd2

(* The state machine starts with its first request.                        *)
Start == /\ pc = "at send" /\ i > Len(AtCommands)
         /\ pc' = "update"
         /\ obd2_state' = "CILBr"
         /\ Send("CILBr")
         /\ UNCHANGED << inbox, part, ba_count, load, display_initialized, i,
                         missed >>

(***************************************************************************)
(* obd2_update.                                                            *)
(***************************************************************************)

(* Mutant: a burst without an end, as its count is not compared.           *)
SuccessorLong(text, l) ==
  IF text = "refused" THEN "Reset"
  ELSE CASE obd2_state = "CILBr" -> IF l = "off" THEN "Reset" ELSE "Oil"
         [] OTHER                -> "BA"

(* The state after a response, with the engine load l: obd2_state_exit.    *)
Successor(text, l) ==
  IF text = "refused" THEN "Reset"
  ELSE CASE obd2_state = "CILBr" -> IF l = "off" THEN "Reset" ELSE "Oil"
         [] obd2_state = "Oil"   -> "BA"
         [] OTHER -> IF ba_count < BA_MODULO_N THEN "BA" ELSE "CILBr"

BaCount(text) == IF obd2_state # "BA" \/ text = "refused" THEN ba_count
                 ELSE IF ba_count < BA_MODULO_N THEN ba_count + 1 ELSE 0

(* Mutant: the request is made for the state that is left.                 *)
StateEntryEarly == IF obd2_state' = "Reset"
                   THEN pc' = "shutdown" /\ SendNothing
                   ELSE pc' = "display" /\ Send(obd2_state)

(* obd2_state_entry, and what the event loop makes of the state.           *)
StateEntry == IF obd2_state' = "Reset"
              THEN pc' = "shutdown" /\ SendNothing
              ELSE pc' = "display" /\ Send(obd2_state')

(* obd2_state_exit, with an engine load that is then l.                    *)
StateExit(text, l) == /\ load' = l
                      /\ obd2_state' = Successor(text, l)
                      /\ ba_count' = BaCount(text)
                      /\ StateEntry
                      /\ UNCHANGED << display_initialized, i >>

(* The load is reported by the response to the request of CILBr only.      *)
LoadsAfter(r) ==
  IF r.to = "CILBr" /\ r.text = "data" THEN Loads ELSE {load}

UpdateLine == /\ pc = "update"
              /\ LineRead
              /\ \E l \in LoadsAfter(Head(inbox)) :
                   StateExit(Head(inbox).text, l)
              /\ UNCHANGED missed

(* uart_readline returns 0, and what is parsed is the response array as the*)
(* stack left it.                                                          *)
UpdateNothing == /\ pc = "update"
                 /\ ~late /\ NothingRead
                 /\ Len(owed) < MaxOwed
                 /\ \E text \in Texts :
                      \E l \in {load} \cup (IF text = "data" THEN Loads ELSE {}) :
                        StateExit(text, l)
                 /\ missed' = TRUE

(* UartErrorRxBusy and UartErrorTimeout: obd2_update returns false.        *)
UpdateFails == /\ pc = "update"
               /\ PartRead \/ (late /\ NothingRead)
               /\ pc' = "shutdown"
               /\ SendNothing
               /\ UNCHANGED << obd2, i, missed >>

(***************************************************************************)
(* The rest of the event loop.                                             *)
(***************************************************************************)

(* display_init clears display_params; the display itself is not modelled  *)
(* here.  Then wait_tick(1).                                               *)
Display == /\ pc = "display" /\ pc' = "update"
           /\ display_initialized' = TRUE
           /\ load' = IF display_initialized THEN load ELSE "off"
           /\ UNCHANGED << adapter, late, obd2_state, ba_count, i, history >>

(* shutdown ends in the endless loop of rc_reset.                          *)
Shutdown == /\ pc = "shutdown" /\ pc' = "halted"
            /\ UNCHANGED << adapter, late, obd2, i, history >>

(***************************************************************************)
(* The specification.                                                      *)
(***************************************************************************)

(* The adapter may have announced itself before the first command.         *)
Init == /\ inbox \in {<< >>, << [to |-> "none", text |-> "data"] >>}
        /\ owed = << >>
        /\ part = "none"
        /\ late = FALSE
        /\ obd2_state = "Reset"
        /\ ba_count = 0
        /\ load = "off"
        /\ display_initialized = FALSE
        /\ pc = "at send" /\ i = 1
        /\ last = "none"
        /\ missed = (inbox # << >>)
        /\ burst = 0

Firmware == \/ AtSend \/ AtLine \/ AtTimeout \/ Start
            \/ UpdateLine \/ UpdateNothing \/ UpdateFails
            \/ Display \/ Shutdown

Next == Begin \/ Finish \/ Expire \/ Firmware

Spec == Init /\ [][Next]_vars

(* The processor does not stop, and time passes; the adapter may be silent.*)
FairSpec == Spec /\ WF_vars(Firmware) /\ WF_vars(Expire)

(***************************************************************************)
(* Properties.                                                             *)
(***************************************************************************)

(* Every variable keeps its range.                                         *)
TypeOK == /\ owed \in Seq(Commands)
          /\ inbox \in Seq([to : Commands \cup {"none"}, text : Texts])
          /\ part \in {"none", "unread", "read"}
          /\ {late, display_initialized, missed} \subseteq BOOLEAN
          /\ obd2_state \in States /\ load \in {"off", "on"}
          /\ ba_count \in 0 .. BA_MODULO_N
          /\ pc \in {"at send", "at read", "update", "display", "shutdown",
                     "halted"}
          /\ i \in 1 .. Len(AtCommands) + 1
          /\ last \in Commands \cup {"none"}

(* As long as no command has been given up and no line has come unasked,   *)
(* every line is read as the answer to the command it answers: by          *)
(* obd2_at_command or in the state that made the request (obd2.c:139-150). *)
InStep ==
  [][AtLine \/ UpdateLine => missed \/ Head(inbox).to = last]_vars

(* The request that is out is the one of the state, also when an old       *)
(* response moved the state (obd2.c:148-149, obd2.c:177-205).              *)
RequestOfState == pc \in {"update", "display"} => last = obd2_state

(* Coolant, intake and load are asked for again after BA_MODULO_N + 1      *)
(* requests for boost and AFR at the latest (obd2.c:247-259).              *)
BurstBounded == burst <= BA_MODULO_N + 1

(* As long as requests and answers are in step, an answer ends the session *)
(* exactly if it is refused or it is the one to the request of CILBr and   *)
(* leaves the load off: no answer to another request does, and the load of *)
(* an engine that is off is not passed over (obd2.c:207-273,               *)
(* controller.c:142-151).  The load may be an older one when the answer to *)
(* CILBr reports none.                                                     *)
EndsForACause ==
  [][UpdateLine /\ ~missed =>
       (pc' = "shutdown" <=> \/ Head(inbox).text = "refused"
                             \/ Head(inbox).to = "CILBr" /\ load' = "off")]_vars

(* obd2_init ends, with an adapter that stops in the middle of an answer   *)
(* too (obd2.c:110-118).                                                   *)
InitEnds == <>(pc \notin {"at send", "at read"})

(* "We got a complete response to...something" (obd2.c:145): the state is  *)
(* left for a line that has been read.                                     *)
CompleteResponse ==
  [][pc = "update" /\ obd2_state' # obd2_state => inbox' # inbox]_vars
=============================================================================
