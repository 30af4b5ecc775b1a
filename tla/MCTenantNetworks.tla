-------------------------- MODULE MCTenantNetworks --------------------------
(* Instances of TenantNetworks for TLC. *)
EXTENDS TenantNetworks, TLC

CONSTANTS f1

\* The foreign network lies on the third subnet.
OneForeign == [f \in {f1} |-> {3}]

Symmetry == Permutations(Network) \cup Permutations(Process)
=============================================================================
