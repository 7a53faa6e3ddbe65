-------------------------- MODULE MCCommandControl --------------------------
(***************************************************************************)
(* Two runs of the control station with the same message ids.              *)
(***************************************************************************)
EXTENDS CommandControl, TLC

CONSTANTS a, b

TwoCommands == <<"START_SYSTEM", "ACTIVATE_SYSTEM">>
SecondIsAhead == [s \in Station |-> IF s = b THEN 1 ELSE 0]
=============================================================================
