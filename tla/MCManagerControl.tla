-------------------------- MODULE MCManagerControl --------------------------
(* Instances of ManagerControl for TLC. *)
EXTENDS ManagerControl, TLC

CONSTANTS i1, i2

AllOpenClaw == [i \in Instance |-> "openclaw"]
AllEvo      == [i \in Instance |-> "evoscientist"]
AllHermes   == [i \in Instance |-> "hermes"]
EvoAndClaw  == [i \in Instance |-> IF i = i1 THEN "evoscientist" ELSE "openclaw"]

RequestSymmetry == Permutations(Request)
FullSymmetry    == Permutations(Request) \cup Permutations(Instance)
=============================================================================
