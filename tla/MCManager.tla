----------------------------- MODULE MCManager -----------------------------
(* Instances of Manager for TLC. *)
EXTENDS Manager, TLC

CONSTANTS main, watch, c1, c2, c3, c4, stackA, stackB, addrA, addrB

\* c1 and c2 differ only in the peer, c4 in what the stack is built from as well, and
\* c3 in the address too.
MCStackOf == [c \in Configs |-> IF c \in {c3, c4} THEN stackB ELSE stackA]
MCAddrOf == [c \in Configs |-> IF c = c3 THEN addrB ELSE addrA]

Symmetry == Permutations(Requests) \cup Permutations(Retries) \cup Permutations(Devices)
=============================================================================
