---------------------------- MODULE MCPidDecoder ----------------------------
(***************************************************************************)
(* Responses the adapter sends: one line, or a length and lines with       *)
(* numbers.  The bytes are those of a positive answer, of two PID codes and*)
(* two more, one with letters for digits.                                  *)
(***************************************************************************)
EXTENDS PidDecoder

CONSTANT MaxBytes   \* The most bytes of a response, its length not counted.

(* 41, 04, 05, 80 and C3.                                                  *)
MCBytes == {65, 4, 5, 128, 195}

Payloads == UNION {[1 .. n -> MCBytes] : n \in 0 .. MaxBytes}

(* The length in front of the first line is one byte to the parser.        *)
MultiLine(bytes, n) == << 0, CR, Colon >> \o SubSeq(bytes, 1, n)
                       \o << CR, Colon >> \o SubSeq(bytes, n + 1, Len(bytes))
                       \o << CR, CR >>

AnyResponses == {p \o << CR, CR >> : p \in Payloads}
                \cup {p \o << CR >> : p \in Payloads}
                \cup {p : p \in Payloads}
                \cup {MultiLine(p, 2) : p \in {q \in Payloads : Len(q) >= 2}}
=============================================================================
