---------------------------- MODULE Association ----------------------------
(***************************************************************************)
(* What a SOCKS5 UDP association promises (internal/socks5/udp.go), as its *)
(* client and the tunnel see it: it belongs to one local client, the       *)
(* client is told of it only while the tunnel can carry it, and when its   *)
(* handler has returned nothing of it is left.  Module UdpRelay implements *)
(* it.                                                                     *)
(***************************************************************************)
CONSTANTS Senders, Sockets, None

VARIABLES
    phase,    \* "opening", "told", "closing" or "released"
    client,   \* the sender the association belongs to, or None
    held,     \* the in-tunnel sockets that are open on its behalf
    working,  \* some goroutine of it runs
    dealt     \* the senders it took a datagram from or sent a reply to

vars == <<phase, client, held, working, dealt>>

Init ==
    /\ phase = "opening"
    /\ client \in Senders \cup {None}   \* the address the client declared
    /\ held = {} /\ working = FALSE /\ dealt = {}

\* The client learns the address of the relay.
Tell ==
    /\ phase = "opening" /\ held # {}
    /\ phase' = "told"
    /\ UNCHANGED <<client, held, working, dealt>>

Close ==
    /\ phase \in {"opening", "told"}
    /\ phase' = "closing"
    /\ UNCHANGED <<client, held, working, dealt>>

Release ==
    /\ phase \in {"opening", "closing"}
    /\ held = {} /\ ~working
    /\ phase' = "released"
    /\ UNCHANGED <<client, held, working, dealt>>

\* A datagram from or for its client.  The first sender claims an association
\* whose client declared no address.
Exchange ==
    /\ phase # "released"
    /\ client' \in Senders
    /\ client # None => client' = client
    /\ dealt' = dealt \cup {client'}
    /\ UNCHANGED <<phase, held, working>>

\* Sockets are opened and closed, goroutines begin and end.
Work ==
    /\ phase # "released"
    /\ held' \subseteq Sockets /\ working' \in BOOLEAN
    /\ UNCHANGED <<phase, client, dealt>>

Next == Tell \/ Close \/ Release \/ Exchange \/ Work

Spec == Init /\ [][Next]_vars
=============================================================================
