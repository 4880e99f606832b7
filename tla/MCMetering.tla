---------------------------- MODULE MCMetering ----------------------------
(* Small instances of Metering: one user with a Hetzner VPS, which the monitor *)
(* stops, and a VPS of another provider, which the proxy gates.                *)
EXTENDS Metering

CONSTANTS u1, h1, s1, c1, c2

MCOwner == [v \in Vpses |-> u1]

MCHetzner == {h1}

=============================================================================
