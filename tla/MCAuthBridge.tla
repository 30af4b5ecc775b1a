---------------------------- MODULE MCAuthBridge ----------------------------
EXTENDS AuthBridge, TLC
CONSTANTS a, b
OwnedByA == [i \in Instances |-> a]
=============================================================================
