-------------------------------- MODULE Sseg --------------------------------
(***************************************************************************)
(* What a seven segment digit shows (sseg.v): a number, a dash or nothing, *)
(* with or without the point.                                              *)
(***************************************************************************)
EXTENDS Naturals

Dash    == 16
Nothing == 17

(* The point goes out with the digit.                                      *)
Encode(en, sign, dp, val) ==
  [num |-> CASE ~en -> Nothing [] en /\ sign -> Dash [] OTHER -> val,
   dp  |-> dp /\ en]

Blank == Encode(FALSE, FALSE, FALSE, 0)

Glyphs == [num : 0 .. 17, dp : BOOLEAN]
=============================================================================
