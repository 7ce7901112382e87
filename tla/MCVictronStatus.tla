---------------------------- MODULE MCVictronStatus ---------------------------
(* Instances of VictronStatus for TLC: an inverter that says whether its AC  *)
(* input is connected and measures its voltage; the system's state of charge.*)
EXTENDS VictronStatus

Vebus(path) == [service |-> "vebus", instance |-> 1, path |-> path]

AcInput == {Vebus("Ac/ActiveIn/Connected"), Vebus("Ac/ActiveIn/L1/V")}
Inputs == [t \in AcInput |-> IF t.path = "Ac/ActiveIn/L1/V" THEN {230, Null} ELSE {0, 1}]
===============================================================================
