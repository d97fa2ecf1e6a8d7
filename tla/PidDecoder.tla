----------------------------- MODULE PidDecoder -----------------------------
(***************************************************************************)
(* What the firmware makes of a response of the OBD2 adapter:              *)
(* obd2_parse_pid_response and obd2_update_pid_values (obd2.c:315-540).    *)
(*                                                                         *)
(* A response is the sequence of what the parser tells apart: a byte, that *)
(* is two hexadecimal digits and the blank behind them, an end of line, and*)
(* a colon with the line number before it.  A step is one turn of the loop.*)
(***************************************************************************)
EXTENDS Integers, Sequences, FiniteSets

CONSTANTS
  Responses,          \* The set of responses, sequences of the above.
  PID_STORAGE_SIZE    \* As in obd2.c:26.

(* Not bytes.                                                              *)
CR    == 256
Colon == 257

ASSUME PidAssumption == /\ Responses \subseteq Seq(0 .. Colon)
                        /\ PID_STORAGE_SIZE \in Nat

VARIABLES
  str, ptr,                  \* The response, and the place in it.
  start_line, skip_digit, digit_skipped,
  iPid, pidSize,
  pids,                      \* [Code, N]: N is the sequence of data bytes.
  values,                    \* The raw byte display_params was last set from.
  stage                      \* idle, parse, update or overrun.

parser  == << start_line, skip_digit, digit_skipped, iPid, pidSize >>
decoder == << str, ptr, parser, pids, values, stage >>

NoPid  == [Code |-> 0, N |-> << >>]
NoPids == [i \in 0 .. PID_STORAGE_SIZE - 1 |-> NoPid]

(* Where N[0], or for 0x2101 N[28], goes, and obd2_get_pid_result_size.    *)
KnownPids ==
  {[Code |-> 308,  name |-> "Afr",         size |-> 4,  byte |-> 1],
   [Code |-> 267,  name |-> "Boost",       size |-> 1,  byte |-> 1],
   [Code |-> 260,  name |-> "Load",        size |-> 1,  byte |-> 1],
   [Code |-> 348,  name |-> "OilTemp",     size |-> 1,  byte |-> 1],
   [Code |-> 8449, name |-> "OilTemp",     size |-> 29, byte |-> 29],
   [Code |-> 261,  name |-> "CoolantTemp", size |-> 1,  byte |-> 1],
   [Code |-> 271,  name |-> "IntakeTemp",  size |-> 1,  byte |-> 1],
   [Code |-> 307,  name |-> "boost_ref",   size |-> 1,  byte |-> 1]}

Known == [c \in {p.Code : p \in KnownPids} |->
            CHOOSE p \in KnownPids : p.Code = c]

Names == {p.name : p \in KnownPids}

ResultSize(code) == IF code \in DOMAIN Known THEN Known[code].size ELSE 0

(* tohex of the digit n: a letter counts from 0, as 'A' does.              *)
tohex(n) == IF n < 10 THEN n ELSE n - 10

(* What the parser makes of them: the first digit is moved by 8 bits.      *)
Number(byte) == tohex(byte \div 16) * 256 + tohex(byte % 16)

(* A word_t has 16 bits.                                                   *)
Words == {n \in Nat : n < 65536}

Word(n) == n % 65536

(* The bitwise or of two words.                                            *)
Or(a, b) ==
  LET bit(p) == IF 1 \in {(a \div p) % 2, (b \div p) % 2} THEN p ELSE 0
  IN bit(32768) + bit(16384) + bit(8192) + bit(4096) + bit(2048) + bit(1024)
     + bit(512) + bit(256) + bit(128) + bit(64) + bit(32) + bit(16) + bit(8)
     + bit(4) + bit(2) + bit(1)

(***************************************************************************)
(* The parser.                                                             *)
(***************************************************************************)

(* obd2_parse_pid_response is called with text that is not refused and not *)
(* NO DATA.  Those return at once and leave values alone.                  *)
Parse == /\ stage = "idle" /\ stage' = "parse"
         /\ str' \in Responses
         /\ UNCHANGED << ptr, parser, pids, values >>

(* strstr from ptr on; 0 is NULL.                                          *)
Find(item) == LET found == {k \in ptr .. Len(str) : str[k] = item}
              IN  IF found = {} THEN 0
                  ELSE CHOOSE k \in found : \A j \in found : k <= j

More == stage = "parse" /\ ptr <= Len(str)

(* Without a colon NULL is before the end of the line, and the parser goes *)
(* on at address 1, in the first instruction of the program, whose byte    *)
(* there is 0 (mem_init/hdl_sim/controller_onchip_ram.dat:1): the end.     *)
StartLine == /\ More /\ start_line
             /\ start_line' = FALSE
             /\ IF Find(Colon) < Find(CR)
                THEN /\ skip_digit' = (skip_digit \/ ~digit_skipped)
                     /\ ptr' = IF Find(Colon) = 0 THEN Len(str) + 1
                                                  ELSE Find(Colon) + 1
                ELSE UNCHANGED << skip_digit, ptr >>
             /\ UNCHANGED << str, digit_skipped, iPid, pidSize, pids, values,
                             stage >>

(* Mutant: the parser stays at the end of a line.                          *)
EndLineStays == /\ More /\ ~start_line /\ str[ptr] = CR
                /\ start_line' = TRUE
                /\ UNCHANGED << str, ptr, skip_digit, digit_skipped, iPid,
                                pidSize, pids, values, stage >>

EndLine == /\ More /\ ~start_line /\ str[ptr] = CR
           /\ start_line' = TRUE
           /\ ptr' = ptr + 1
           /\ UNCHANGED << str, skip_digit, digit_skipped, iPid, pidSize, pids,
                           values, stage >>

Byte == /\ More /\ ~start_line /\ str[ptr] # CR
        /\ ptr' = ptr + 1
        /\ UNCHANGED << str, start_line, values >>

Skip == /\ Byte
        /\ skip_digit
        /\ skip_digit' = FALSE
        /\ digit_skipped' = TRUE
        /\ UNCHANGED << iPid, pidSize, pids, stage >>

Storing == Byte /\ ~skip_digit /\ UNCHANGED << skip_digit, digit_skipped >>

(* Mutant: the code of a PID ends with its first byte.                     *)
ModeAlone == /\ Storing
             /\ pidSize = 0
             /\ iPid' = iPid + 1
             /\ IF iPid' < PID_STORAGE_SIZE
                THEN /\ pids' = [pids EXCEPT ![iPid'].Code =
                                   Word((Number(str[ptr]) - 64) * 256)]
                     /\ UNCHANGED stage
                ELSE /\ stage' = "overrun"
                     /\ UNCHANGED pids
             /\ UNCHANGED pidSize

(* The first byte of a PID.  The array is not checked for room; what lies  *)
(* behind it is not modelled.                                              *)
Mode == /\ Storing
        /\ pidSize = 0
        /\ iPid' = iPid + 1
        /\ pidSize' = 1
        /\ IF iPid' < PID_STORAGE_SIZE
           THEN /\ pids' = [pids EXCEPT ![iPid'].Code =
                              Word((Number(str[ptr]) - 64) * 256)]
                /\ UNCHANGED stage
           ELSE /\ stage' = "overrun"
                /\ UNCHANGED pids

(* The second byte, or a byte of its data.                                 *)
Rest == /\ Storing
        /\ pidSize # 0
        /\ IF pids[iPid].Code % 256 = 0
           THEN /\ pids' = [pids EXCEPT ![iPid].Code =
                              Or(@, Number(str[ptr]))]
                /\ pidSize' = ResultSize(pids'[iPid].Code)
           ELSE /\ pids' = [pids EXCEPT ![iPid].N =
                              Append(@, Number(str[ptr]) % 256)]
                /\ pidSize' = pidSize - 1
        /\ UNCHANGED << iPid, stage >>

Parsed == /\ stage = "parse" /\ stage' = "update"
          /\ ptr > Len(str)
          /\ UNCHANGED << str, ptr, parser, pids, values >>

(* obd2_update_pid_values; of two PIDs with one code the last counts.  What*)
(* the next call clears is cleared here: nothing reads it in between.      *)
Update == /\ stage = "update" /\ stage' = "idle"
          /\ values' =
               [name \in Names |->
                  LET of == {i \in DOMAIN pids :
                               /\ pids[i].Code \in DOMAIN Known
                               /\ Known[pids[i].Code].name = name}
                      last == CHOOSE i \in of : \A j \in of : j <= i
                  IN  IF of = {} THEN values[name]
                      ELSE LET k == Known[pids[last].Code].byte
                           IN  IF k <= Len(pids[last].N) THEN pids[last].N[k]
                                                         ELSE 0]
          /\ str' = << >> /\ ptr' = 1
          /\ start_line' = TRUE
          /\ skip_digit' = FALSE /\ digit_skipped' = FALSE
          /\ iPid' = -1 /\ pidSize' = 0
          /\ pids' = NoPids

(***************************************************************************)
(* The specification.                                                      *)
(***************************************************************************)
PidInit == /\ str = << >> /\ ptr = 1
        /\ start_line = TRUE /\ skip_digit = FALSE /\ digit_skipped = FALSE
        /\ iPid = -1 /\ pidSize = 0
        /\ pids = NoPids
        /\ values = [name \in Names |-> 0]
        /\ stage = "idle"

Loop == StartLine \/ EndLine \/ Skip \/ Mode \/ Rest

PidNext == Parse \/ Loop \/ Parsed \/ Update

PidSpec == PidInit /\ [][PidNext]_decoder

(* The processor goes on with a response it has begun to parse.            *)
PidFairSpec == PidSpec /\ WF_decoder(Loop \/ Parsed \/ Update)

(***************************************************************************)
(* Properties.                                                             *)
(***************************************************************************)

(* Every variable keeps its range; a word_t has 16 bits, a data byte 8.    *)
PidTypeOK ==
  /\ str \in Seq(0 .. Colon) /\ ptr \in Nat \ {0}
  /\ {start_line, skip_digit, digit_skipped} \subseteq BOOLEAN
  /\ iPid \in -1 .. PID_STORAGE_SIZE /\ pidSize \in 0 .. 29
  /\ pids \in [0 .. PID_STORAGE_SIZE - 1 ->
                [Code : Words, N : Seq(0 .. 255)]]
  /\ values \in [Names -> 0 .. 255]
  /\ stage \in {"idle", "parse", "update", "overrun"}

(* Whatever the adapter answers, parsing it ends (obd2.c:350-422).         *)
ParseEnds == stage = "parse" ~> stage # "parse"

(* The array of PIDs has room for every response of at most two bytes a    *)
(* PID, whatever they are and in whatever lines: the response can drive the*)
(* index no faster, as each PID takes the two bytes of its code            *)
(* (obd2.c:387-406).                                                       *)
RoomForPids ==
  stage = "overrun" =>
    Cardinality({k \in DOMAIN str : str[k] # CR}) > 2 * PID_STORAGE_SIZE
=============================================================================
