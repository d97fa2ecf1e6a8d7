----------------------------- MODULE MCReadline -----------------------------
(***************************************************************************)
(* An ordinary character, the end of line and NUL; a buffer of three bytes,*)
(* a caller with room for two characters and enough bytes to overflow the  *)
(* buffer and still complete another line.                                 *)
(***************************************************************************)
EXTENDS Readline

CONSTANT x    \* An ordinary character, a model value.

MCChars == {x, Eol, Nul}
=============================================================================
