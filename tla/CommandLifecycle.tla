--------------------------- MODULE CommandLifecycle ---------------------------
(***************************************************************************)
(* What the command pipeline promises of every command row, without saying *)
(* which worker does it: a command goes through the phases below in order, *)
(* one at a time and never back, and it does not become eligible for       *)
(* dispatch before its DispatchAfter.  CommandPipeline implements it.      *)
(***************************************************************************)
EXTENDS Integers

CONSTANT Commands   \* the commands that requests may ask for

VARIABLES phase,    \* how far each command has come
          due,      \* its DispatchAfter
          now       \* the clock

lifecycleVars == <<phase, due, now>>

Phases == {"absent", "pending", "ready", "handed", "sent"}

LifecycleTypeOK == /\ phase \in [Commands -> Phases]
                   /\ due \in [Commands -> Nat]
                   /\ now \in Nat

LifecycleInit == /\ phase = [c \in Commands |-> "absent"]
                 /\ due \in [Commands -> Nat]
                 /\ now \in Nat

(* A command can move from one phase to the next.                          *)
Follows(p, q) == \/ p = "absent"  /\ q = "pending"
                 \/ p = "pending" /\ q = "ready"
                 \/ p = "ready"   /\ q = "handed"
                 \/ p = "handed"  /\ q = "sent"

(* A request stores its commands together, so several may move at once;    *)
(* those that become ready are due, and only a command that is not stored  *)
(* yet can still be given another DispatchAfter.                           *)
Advance ==
  /\ phase' \in [Commands -> Phases]
  /\ due' \in [Commands -> Nat]
  /\ \A c \in Commands :
        /\ phase'[c] # phase[c] => Follows(phase[c], phase'[c])
        /\ phase'[c] = "ready" /\ phase[c] # "ready" => due[c] <= now
        /\ due'[c] # due[c] => phase[c] = "absent"
  /\ now' = now

TimePasses == /\ now' \in Nat
              /\ now' > now
              /\ UNCHANGED <<phase, due>>

LifecycleNext == Advance \/ TimePasses

LifecycleSpec == LifecycleInit /\ [][LifecycleNext]_lifecycleVars
===============================================================================
