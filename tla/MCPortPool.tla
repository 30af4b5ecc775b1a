----------------------------- MODULE MCPortPool -----------------------------
(* An instance of PortPool for TLC. *)
EXTENDS PortPool, TLC

CONSTANTS i1, i2, i3

OneEach == (i1 :> "openclaw") @@ (i2 :> "hermes") @@ (i3 :> "evoscientist")
=============================================================================
