------------------------------- MODULE MCObd2 -------------------------------
(***************************************************************************)
(* Two AT commands stand for the three of obd2_init, and bursts of three   *)
(* requests for the eleven of BA_MODULO_N = 10.                            *)
(***************************************************************************)
EXTENDS Obd2

MCAtCommands == << "ate0", "atsp0" >>
=============================================================================
