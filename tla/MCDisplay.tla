----------------------------- MODULE MCDisplay -----------------------------
(***************************************************************************)
(* Values below, in and above each range, at both ends of the AFR bar and  *)
(* within it, of one digit to four and of either sign, under load and  *)
(* idling.  Two of the four readouts, which differ only in their limits.   *)
(***************************************************************************)
EXTENDS Display

Values(boost, afr, intake, load) ==
  [Boost |-> boost, Afr |-> afr, OilTemp |-> 20000, CoolantTemp |-> 20000,
   IntakeTemp |-> intake, Load |-> load]

MCReadouts == {"Afr", "IntakeTemp"}

MCParams == { Values(0, 1290, 8050, 5000),
              Values(1250, 1095, -4210, 5000),
              Values(-1001, 1805, 10000, 5000),
              Values(500, 1300, 0, 1000) }
=============================================================================
