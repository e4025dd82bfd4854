--------------------------- MODULE GatewaySession ---------------------------
(***************************************************************************)
(* What the gateway connection is for: a session goes through its stages   *)
(* one at a time and in order, and can be lost from any of them for good.  *)
(***************************************************************************)
EXTENDS Naturals, Sequences

\* The stages of a session that works.
Stages == <<"off", "connected", "greeted", "identified", "ready">>

VARIABLE stage

TypeOK == stage \in {Stages[i] : i \in 1..Len(Stages)} \cup {"gone"}

Init == stage = "off"

Advance == \E i \in 1..(Len(Stages) - 1) : stage = Stages[i] /\ stage' = Stages[i + 1]
Lose    == stage # "gone" /\ stage' = "gone"

Next == Advance \/ Lose

Spec == Init /\ [][Next]_stage
=============================================================================
