-------------------------- MODULE MCCommandPipeline --------------------------
(* Instances of CommandPipeline for TLC.                                     *)
EXTENDS CommandPipeline

CONSTANTS c1, c2, t1, t2, q1

(* One sequence of one command.                                              *)
OneSequence == [r \in {q1} |-> {c1}]
(* Two tasks of one command each, for one actuator.                          *)
TwoTasks == [r \in {t1, t2} |-> IF r = t1 THEN {c1} ELSE {c2}]
SameActuator == [c \in Commands |-> 1]
==============================================================================
