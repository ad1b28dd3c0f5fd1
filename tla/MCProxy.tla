------------------------------ MODULE MCProxy ------------------------------
(* Instances of Proxy for TLC. *)
EXTENDS Proxy, TLC

CONSTANTS addrA, addrB, s1, s2

\* Two addresses, two limits, UDP on and off.
AppA == [addr |-> addrA, max |-> 1, udp |-> TRUE]
AppA2 == [addr |-> addrA, max |-> 2, udp |-> FALSE]
AppB == [addr |-> addrB, max |-> 1, udp |-> TRUE]

MCApps == {AppA, AppA2, AppB}
=============================================================================
