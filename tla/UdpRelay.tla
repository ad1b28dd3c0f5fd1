------------------------------ MODULE UdpRelay ------------------------------
(***************************************************************************)
(* One SOCKS5 UDP association (internal/socks5/udp.go): the handler that   *)
(* owns the control connection, the pump from the client, one pump per     *)
(* in-tunnel socket, the idle watcher, and Close, which the handler and    *)
(* the watcher's goroutine may both call.                                  *)
(*                                                                         *)
(* An address is a local sender, or one of the values a client may declare *)
(* instead: none (no address, or port zero), the unspecified address with  *)
(* a port, an address that is not loopback.  A datagram is the lengths and *)
(* fields parseUDPHeader looks at.                                         *)
(***************************************************************************)
EXTENDS Naturals

CONSTANTS
    Senders,    \* local sockets that may send to the relay
    Sockets,    \* the in-tunnel sockets ListenUDP returns
    Lengths,    \* bound: the lengths of datagrams
    Names,      \* bound: the values of a domain's length byte
    None

ASSUME RelayAssumption ==
    /\ Lengths \subseteq Nat /\ Names \subseteq Nat
    /\ \A j, k \in Sockets : Sockets \ {j, k} # {}   \* the most that are in use when one is opened
    /\ Sockets # {}
    /\ None \notin Senders \cup Sockets
    /\ Senders \cap {"none", "unspecified", "foreign"} = {}

Declared == Senders \cup {"none", "unspecified", "foreign"}
Families == {"v4", "v6"}
Callers == {"handler", "pump"}   \* the goroutines that call tunnelConn

VARIABLES
    hpc,      \* handleUDPAssociate
    ctl,      \* the control connection: "open" or "ended"
    tc,       \* Callers -> where tunnelConn is
    fam,      \* Callers -> the family it was called for
    hand,     \* Callers -> the socket ListenUDP has just returned
    got,      \* Callers -> the socket tunnelConn returns, or None for an error
    ppc,      \* pumpFromClient
    wpc,      \* watchIdle
    kpc,      \* the goroutine watchIdle starts
    tpc,      \* Sockets -> pumpFromTunnel
    expect,   \* r.expect
    tunnel,   \* r.tunnel: Families -> a socket or None
    isNil,    \* r.tunnel is nil
    open,     \* the in-tunnel sockets that are open
    closed,   \* r.closed, r.ctx cancelled and the client socket closed
    once,     \* r.closeOnce
    dealt     \* history: the senders it took a datagram from or sent a reply to

callVars == <<tc, fam, hand, got>>
pumpVars == <<ppc, wpc, kpc, tpc>>
relayVars == <<expect, tunnel, isNil, open, closed, once>>
history == <<dealt>>
vars == <<hpc, ctl, callVars, pumpVars, relayVars, history>>

\* The state of the goroutines and of the relay.
TypeOK ==
    /\ hpc \in {"create", "warm", "refuse", "reply", "hold", "close", "done"}
    /\ ctl \in {"open", "ended"}
    /\ tc \in [Callers -> {"no", "check", "listen", "store", "spawn", "ret"}]
    /\ fam \in [Callers -> Families]
    /\ hand \in [Callers -> Sockets \cup {None}]
    /\ got \in [Callers -> Sockets \cup {None}]
    /\ ppc \in {"off", "read", "resolve", "conn", "done"}
    /\ wpc \in {"off", "run", "done"}
    /\ kpc \in {"off", "call", "done"}
    /\ tpc \in [Sockets -> {"off", "read"}]
    /\ expect \in Declared
    /\ tunnel \in [Families -> Sockets \cup {None}]
    /\ isNil \in BOOLEAN
    /\ open \subseteq Sockets
    /\ closed \in BOOLEAN
    /\ once \in {"no", "tunnel", "wait", "done"}
    /\ dealt \subseteq Senders

Init ==
    /\ hpc = "create"
    /\ ctl = "open"
    /\ tc = [t \in Callers |-> "no"]
    /\ fam = [t \in Callers |-> "v4"]
    /\ hand = [t \in Callers |-> None]
    /\ got = [t \in Callers |-> None]
    /\ ppc = "off" /\ wpc = "off" /\ kpc = "off"
    /\ tpc = [k \in Sockets |-> "off"]
    /\ expect \in Declared
    /\ tunnel = [f \in Families |-> None]
    /\ isNil = FALSE
    /\ open = {}
    /\ closed = FALSE
    /\ once = "no"
    /\ dealt = {}

-----------------------------------------------------------------------------
(* The SOCKS5 UDP header *)

AddressTypes == {"ipv4", "ipv6", "domain", "other"}

\* The parts of a datagram: its length, whether the reserved bytes are zero, the
\* fragment number, the address type, a domain's length byte and the port.
Datagrams ==
    [len : Lengths, rsv : BOOLEAN, frag : BOOLEAN, atyp : AddressTypes,
     dl : Names, port : BOOLEAN]

Rejected == [ok |-> FALSE, payload |-> 0]

\* Mutant: the two bytes of the port are forgotten in the bound of a domain.
ParseUDPHeaderShort(d) ==
    LET rest == d.len - 4
        used == CASE d.atyp = "ipv4" -> 4 [] d.atyp = "ipv6" -> 16 [] OTHER -> 1 + d.dl
    IN  IF d.len < 4 \/ ~d.rsv \/ d.frag \/ d.atyp = "other" THEN Rejected
        ELSE IF d.atyp = "domain" /\ (rest < 1 \/ d.dl = 0) THEN Rejected
        ELSE IF rest < used + (IF d.atyp = "domain" THEN 0 ELSE 2) \/ ~d.port THEN Rejected
        ELSE [ok |-> TRUE, payload |-> rest - used - 2]

\* parseUDPHeader: the tests in the code's order, then the length of the payload.
ParseUDPHeader(d) ==
    LET rest == d.len - 4
        used == CASE d.atyp = "ipv4" -> 4 [] d.atyp = "ipv6" -> 16 [] OTHER -> 1 + d.dl
    IN  IF d.len < 4 \/ ~d.rsv \/ d.frag \/ d.atyp = "other" THEN Rejected
        ELSE IF d.atyp = "domain" /\ (rest < 1 \/ d.dl = 0) THEN Rejected
        ELSE IF rest < used + 2 \/ ~d.port THEN Rejected
        ELSE [ok |-> TRUE, payload |-> rest - used - 2]

\* buildUDPHeader for a source with that address and a payload of n bytes.
BuildUDPHeader(v4, port, n) ==
    [len |-> 3 + 1 + (IF v4 THEN 4 ELSE 16) + 2 + n, rsv |-> TRUE, frag |-> FALSE,
     atyp |-> IF v4 THEN "ipv4" ELSE "ipv6", dl |-> 0, port |-> port]

-----------------------------------------------------------------------------
(* tunnelConn *)

Ret(t, k) == got' = [got EXCEPT ![t] = k] /\ tc' = [tc EXCEPT ![t] = "ret"]

\* The first critical section.
ConnCheck(t) ==
    /\ tc[t] = "check"
    /\ \/ isNil /\ Ret(t, None)
       \/ ~isNil /\ tunnel[fam[t]] # None /\ Ret(t, tunnel[fam[t]])
       \/ ~isNil /\ tunnel[fam[t]] = None /\ tc' = [tc EXCEPT ![t] = "listen"] /\ got' = got
    /\ UNCHANGED <<hpc, ctl, fam, hand, pumpVars, relayVars, history>>

Unused == {k \in Sockets : k \notin open /\ tpc[k] = "off" /\ \A f \in Families : tunnel[f] # k}

\* dialer.ListenUDP, with no lock held: the tunnel is down or lacks the family,
\* the relay's context ends, or there is a socket.
ConnListen(t) ==
    /\ tc[t] = "listen"
    /\ \/ Ret(t, None) /\ UNCHANGED <<hand, open>>
       \/ LET k == CHOOSE k \in Unused : TRUE
          IN  /\ open' = open \cup {k}
              /\ hand' = [hand EXCEPT ![t] = k]
              /\ tc' = [tc EXCEPT ![t] = "store"]
              /\ got' = got
    /\ UNCHANGED <<hpc, ctl, fam, pumpVars, expect, tunnel, isNil, closed, once, history>>

\* Mutant: what happened since the first critical section is not looked at.
ConnStoreUnchecked(t) ==
    /\ tc[t] = "store"
    /\ hand' = [hand EXCEPT ![t] = None]
    /\ tunnel' = [tunnel EXCEPT ![fam[t]] = hand[t]]
    /\ got' = [got EXCEPT ![t] = hand[t]]
    /\ tc' = [tc EXCEPT ![t] = "spawn"]
    /\ UNCHANGED <<hpc, ctl, fam, pumpVars, expect, isNil, open, closed, once, history>>

\* The second critical section: the relay may have closed, and another datagram
\* may have opened the same family in the meantime.
ConnStore(t) ==
    LET k == hand[t]
        f == fam[t]
    IN  /\ tc[t] = "store"
        /\ hand' = [hand EXCEPT ![t] = None]
        /\ \/ isNil /\ open' = open \ {k} /\ Ret(t, None) /\ tunnel' = tunnel
           \/ /\ ~isNil /\ tunnel[f] # None
              /\ open' = open \ {k} /\ Ret(t, tunnel[f]) /\ tunnel' = tunnel
           \/ /\ ~isNil /\ tunnel[f] = None
              /\ tunnel' = [tunnel EXCEPT ![f] = k]
              /\ got' = [got EXCEPT ![t] = k]
              /\ tc' = [tc EXCEPT ![t] = "spawn"]
              /\ open' = open
        /\ UNCHANGED <<hpc, ctl, fam, pumpVars, expect, isNil, closed, once, history>>

\* wg.Add and the reply pump, outside the lock.
ConnSpawn(t) ==
    /\ tc[t] = "spawn"
    /\ tpc' = [tpc EXCEPT ![got[t]] = "read"]
    /\ tc' = [tc EXCEPT ![t] = "ret"]
    /\ UNCHANGED <<hpc, ctl, fam, hand, got, ppc, wpc, kpc, relayVars, history>>

ConnStep(t) == ConnCheck(t) \/ ConnListen(t) \/ ConnStore(t) \/ ConnSpawn(t)

CallConn(t, f) == tc' = [tc EXCEPT ![t] = "check"] /\ fam' = [fam EXCEPT ![t] = f]

-----------------------------------------------------------------------------
(* handleUDPAssociate *)

\* newUDPRelay: no loopback socket, or the relay with its two goroutines, after
\* which warmUp tries IPv4.
Create ==
    /\ hpc = "create"
    /\ \/ hpc' = "done" /\ UNCHANGED <<callVars, pumpVars>>
       \/ /\ hpc' = "warm"
          /\ CallConn("handler", "v4")
          /\ ppc' = "read" /\ wpc' = "run"
          /\ UNCHANGED <<hand, got, kpc, tpc>>
    /\ UNCHANGED <<ctl, relayVars, history>>

\* warmUp: one family is enough, IPv6 is tried when IPv4 fails.
Warmed ==
    /\ hpc = "warm"
    /\ tc["handler"] = "ret"
    /\ \/ /\ got["handler"] = None /\ fam["handler"] = "v4"
          /\ CallConn("handler", "v6")
          /\ hpc' = hpc
       \/ /\ got["handler"] # None \/ fam["handler"] = "v6"
          /\ tc' = [tc EXCEPT !["handler"] = "no"]
          /\ fam' = fam
          /\ hpc' = IF got["handler"] # None THEN "reply" ELSE "refuse"
    /\ got' = [got EXCEPT !["handler"] = None]
    /\ UNCHANGED <<ctl, hand, pumpVars, relayVars, history>>

\* The reply, the wait for the end of the control connection, and the ways to
\* the deferred Close.
Answer ==
    /\ \/ hpc = "refuse" /\ hpc' = "close"
       \/ hpc = "reply" /\ hpc' \in {"hold", "close"}
       \/ hpc = "hold" /\ ctl = "ended" /\ hpc' = "close"
    /\ UNCHANGED <<ctl, callVars, pumpVars, relayVars, history>>

\* The client closes the control connection, or Server.Stop does.
ControlEnds ==
    /\ ctl = "open"
    /\ ctl' = "ended"
    /\ UNCHANGED <<hpc, callVars, pumpVars, relayVars, history>>

-----------------------------------------------------------------------------
(* Close *)

Closing == hpc = "close" \/ kpc = "call"

CloseBegin ==
    /\ Closing /\ once = "no"
    /\ closed' = TRUE
    /\ once' = "tunnel"
    /\ UNCHANGED <<hpc, ctl, callVars, pumpVars, expect, tunnel, isNil, open, history>>

CloseTunnel ==
    /\ once = "tunnel"
    /\ open' = open \ {tunnel[f] : f \in Families}
    /\ tunnel' = [f \in Families |-> None]
    /\ isNil' = TRUE
    /\ once' = "wait"
    /\ UNCHANGED <<hpc, ctl, callVars, pumpVars, expect, closed, history>>

\* wg.Wait
CloseWait ==
    /\ once = "wait"
    /\ ppc = "done" /\ wpc = "done"
    /\ \A k \in Sockets : tpc[k] = "off"
    /\ once' = "done"
    /\ UNCHANGED <<hpc, ctl, callVars, pumpVars, expect, tunnel, isNil, open, closed, history>>

\* Both callers of Close return when the once is over.
CloseReturns ==
    /\ once = "done"
    /\ \/ hpc = "close" /\ hpc' = "done" /\ kpc' = kpc
       \/ kpc = "call" /\ kpc' = "done" /\ hpc' = hpc
    /\ UNCHANGED <<ctl, callVars, ppc, wpc, tpc, relayVars, history>>

\* Mutant: the watcher calls Close itself, which waits for it.
WatchIdleInline ==
    /\ wpc = "run"
    /\ \/ kpc = "off" /\ closed /\ wpc' = "done" /\ kpc' = kpc
       \/ kpc = "off" /\ hpc \in {"hold", "close"} /\ kpc' = "call" /\ wpc' = wpc
       \/ kpc = "done" /\ wpc' = "done" /\ kpc' = kpc
    /\ UNCHANGED <<hpc, ctl, callVars, ppc, tpc, relayVars, history>>

\* watchIdle.  The idle time is longer than warmUp and the reply can take.
WatchIdle ==
    /\ wpc = "run"
    /\ \/ closed /\ kpc' = kpc
       \/ hpc \in {"hold", "close"} /\ kpc' = "call"
    /\ wpc' = "done"
    /\ UNCHANGED <<hpc, ctl, callVars, ppc, tpc, relayVars, history>>

-----------------------------------------------------------------------------
(* The pumps *)

Unclaimed == expect \in {"none", "unspecified"}

\* Mutant: any local sender is accepted.
AcceptFromAny(s) == TRUE

\* acceptFrom, for a local sender: the first one claims an open association.
AcceptFrom(s) == Unclaimed \/ expect = s

\* What the header of a datagram may turn out to be.
HeaderOutcomes == {ParseUDPHeader(d).ok : d \in Datagrams}

\* One datagram from the client socket.  It claims the association before its
\* header is looked at; the unspecified address is not a destination.
PumpRead(s) ==
    /\ ppc = "read" /\ ~closed
    /\ AcceptFrom(s)
    /\ expect' = IF Unclaimed THEN s ELSE expect
    /\ dealt' = dealt \cup {s}
    /\ \/ FALSE \in HeaderOutcomes /\ ppc' = "read" /\ UNCHANGED callVars
       \/ TRUE \in HeaderOutcomes /\ ppc' \in {"read", "resolve"} /\ UNCHANGED callVars
       \/ /\ TRUE \in HeaderOutcomes
          /\ \E f \in Families : CallConn("pump", f)
          /\ ppc' = "conn"
          /\ UNCHANGED <<hand, got>>
    /\ UNCHANGED <<hpc, ctl, wpc, kpc, tpc, tunnel, isNil, open, closed, once>>

\* resolve, for a hostname: no DNS, a failed lookup, or an address.
PumpResolve ==
    /\ ppc = "resolve"
    /\ \/ ppc' = "read" /\ UNCHANGED callVars
       \/ \E f \in Families : CallConn("pump", f) /\ ppc' = "conn" /\ UNCHANGED <<hand, got>>
    /\ UNCHANGED <<hpc, ctl, wpc, kpc, tpc, relayVars, history>>

\* forward, the rest: the datagram is sent or dropped.
PumpSend ==
    /\ ppc = "conn" /\ tc["pump"] = "ret"
    /\ ppc' = "read"
    /\ tc' = [tc EXCEPT !["pump"] = "no"]
    /\ got' = [got EXCEPT !["pump"] = None]
    /\ UNCHANGED <<hpc, ctl, fam, hand, wpc, kpc, tpc, relayVars, history>>

\* A read from the client socket fails: always once it is closed.
PumpEnds ==
    /\ ppc = "read"
    /\ ppc' = "done"
    /\ UNCHANGED <<hpc, ctl, callVars, wpc, kpc, tpc, relayVars, history>>

\* Mutant: the reply goes wherever the client said, loopback or not.
TunnelReadAnywhere(k) ==
    /\ tpc[k] = "read" /\ k \in open
    /\ expect # "none"
    /\ ~closed
    /\ dealt' = dealt \cup {expect}
    /\ UNCHANGED <<hpc, ctl, callVars, pumpVars, relayVars>>

\* pumpFromTunnel: a reply for whoever holds the association, if anyone does and
\* loopbackPacketConn lets it through.
TunnelRead(k) ==
    /\ tpc[k] = "read" /\ k \in open
    /\ expect \in Senders
    /\ ~closed
    /\ dealt' = dealt \cup {expect}
    /\ UNCHANGED <<hpc, ctl, callVars, pumpVars, relayVars>>

\* A read from the tunnel fails: always once the socket is closed, and when the
\* stack below it is gone, after which the socket stays in the map.
TunnelEnds(k) ==
    /\ tpc[k] = "read"
    /\ tpc' = [tpc EXCEPT ![k] = "off"]
    /\ UNCHANGED <<hpc, ctl, callVars, ppc, wpc, kpc, relayVars, history>>

-----------------------------------------------------------------------------
HandlerStep == Create \/ Warmed \/ Answer \/ ConnStep("handler")
CloseStep == CloseBegin \/ CloseTunnel \/ CloseWait \/ CloseReturns
PumpStep == PumpResolve \/ PumpSend \/ (closed /\ PumpEnds) \/ ConnStep("pump")

Next ==
    \/ HandlerStep \/ CloseStep \/ PumpStep
    \/ ControlEnds \/ WatchIdle \/ PumpEnds
    \/ \E s \in Senders : PumpRead(s)
    \/ \E k \in Sockets : TunnelRead(k) \/ TunnelEnds(k)

Spec == Init /\ [][Next]_vars

\* Goroutines are scheduled, and ListenUDP and LookupHost end with their
\* timeouts.  Datagrams, the end of the control connection and idleness may
\* never come.
FairSpec ==
    /\ Spec
    /\ WF_vars(HandlerStep) /\ WF_vars(CloseStep) /\ WF_vars(PumpStep)
    /\ WF_vars(closed /\ WatchIdle)
    /\ \A k \in Sockets : WF_vars(k \notin open /\ TunnelEnds(k))

-----------------------------------------------------------------------------
(* Properties *)

\* Close "releases every socket it owns", and the loser of two openings of one
\* family closes its own: an open socket is in the map or in someone's hand.
NoLeakedSocket ==
    \A k \in open :
        \/ ~isNil /\ \E f \in Families : tunnel[f] = k
        \/ \E t \in Callers : hand[t] = k

\* parseUDPHeader never reads past the datagram, splits it where RFC 1928 says,
\* and accepts what buildUDPHeader builds.  It depends on no variable, so it is
\* looked at while the relay is created.
HeaderSplit ==
    hpc = "create" =>
        /\ \A d \in Datagrams :
             LET addr == CASE d.atyp = "ipv4" -> 4 [] d.atyp = "ipv6" -> 16
                           [] d.atyp = "domain" -> 1 + d.dl [] OTHER -> 0
                 wellFormed == /\ d.rsv /\ ~d.frag /\ d.port /\ d.atyp # "other"
                               /\ d.atyp = "domain" => d.dl > 0
                               /\ 2 + 1 + 1 + addr + 2 <= d.len
             IN  ParseUDPHeader(d) = IF wellFormed
                                     THEN [ok |-> TRUE, payload |-> d.len - (6 + addr)]
                                     ELSE Rejected
        /\ \A v4 \in BOOLEAN, n \in Lengths :
             ParseUDPHeader(BuildUDPHeader(v4, TRUE, n)) = [ok |-> TRUE, payload |-> n]

\* The end of the control connection ends the association; and an idle one does
\* not "pin a tunnel socket", even if the control connection is never closed.
AssociationEnds ==
    /\ ctl = "ended" ~> hpc = "done"
    /\ kpc = "call" ~> (once = "done" /\ open = {})

Working == ppc \notin {"off", "done"} \/ wpc = "run" \/ \E k \in Sockets : tpc[k] # "off"

Promise == INSTANCE Association WITH
    phase <- CASE hpc = "hold" -> "told" [] hpc = "close" -> "closing"
               [] hpc = "done" -> "released" [] OTHER -> "opening",
    client <- IF expect \in Senders THEN expect ELSE None,
    held <- open,
    working <- Working,
    dealt <- dealt

\* The relay keeps the promise of an association: "only the associated client
\* may use this relay", "a client is never told an association exists when the
\* tunnel cannot carry it", and handleUDPAssociate returns when no socket and no
\* goroutine of it is left, even if the idle watcher closed it at that moment.
KeepsPromise == Promise!Spec
=============================================================================
