---------------------------- MODULE SocksServer ----------------------------
(***************************************************************************)
(* socks5.Server (internal/socks5/server.go): the loopback listener, its   *)
(* accept loop with the session limit, the sessions, and Stop, which       *)
(* closes the listener and the tracked connections and waits.  There are   *)
(* several servers because a reload builds a new one (module Proxy).       *)
(*                                                                         *)
(* A byte stream is what ends a read or a write of it: whether its peer    *)
(* has finished sending, and whether this side has closed it.  Reply codes *)
(* and the counters that nothing reads are left out; statActive is kept.   *)
(***************************************************************************)
EXTENDS Naturals, FiniteSets

CONSTANTS
    Servers,     \* the values NewWithOptions returns, one after another
    Conns,       \* the clients' connections
    Apps,        \* the settings a server is built from: [addr, max, udp]
    MaxErrors,   \* maxConsecutiveErrors
    Candidates,  \* bound: how many addresses a name resolves to
    None

ASSUME SocksAssumption ==
    /\ MaxErrors \in Nat \ {0}
    /\ Candidates \in Nat \ {0}
    /\ \A a \in Apps : a.max \in Nat \ {0} /\ a.udp \in BOOLEAN
    /\ \A a, b \in Apps : a.addr = b.addr /\ a.max = b.max /\ a.udp = b.udp => a = b
    /\ None \notin Servers \cup Conns \cup Apps

VARIABLES
    built,      \* Servers -> the settings it was made with, or None
    listening,  \* the servers whose listening socket is open
    started,    \* s.started
    closing,    \* s.closing
    stop,       \* Servers -> how far the Stop that set closing has come
    accept,     \* Servers -> where the accept loop is
    errs,       \* Servers -> consecutiveErrors
    held,       \* Servers -> the connection the accept loop has in hand, or None
    sem,        \* Servers -> tokens in the accept loop's semaphore
    active,     \* Servers -> s.active
    snap,       \* Servers -> the connections Stop copied
    statActive, \* Servers -> s.statActive
    srv,        \* Conns -> the server a client connected to, or None
    pc,         \* Conns -> where its session is
    peer,       \* Conns -> the client: "eof" when it has finished sending
    shut,       \* the connections this side has closed
    tries,      \* Conns -> addresses still to dial
    remote,     \* Conns -> the connection inside the tunnel, if one is open
    copying     \* Conns -> the directions relay still copies

serverVars == <<built, listening, started, closing, stop, accept, errs, held, sem,
                active, snap, statActive>>
connVars == <<srv, pc, peer, shut, tries, remote, copying>>
socksVars == <<serverVars, connVars>>

\* The counted goroutines of a session, from Admit to its last deferred call.
Phases == {"handshake", "request", "resolve", "dial", "refuse", "reply", "relay",
           "associate", "hold", "release", "leave"}
Directions == {"up", "down"}

SocksTypeOK ==
    /\ built \in [Servers -> Apps \cup {None}]
    /\ listening \subseteq Servers
    /\ started \subseteq Servers
    /\ closing \subseteq Servers
    /\ stop \in [Servers -> {"none", "snapshot", "listener", "conns", "wait", "stopped"}]
    /\ accept \in [Servers -> {"none", "accept", "admit", "done"}]
    /\ errs \in [Servers -> 0 .. MaxErrors]
    /\ held \in [Servers -> Conns \cup {None}]
    /\ sem \in [Servers -> Nat]
    /\ active \in [Servers -> SUBSET Conns]
    /\ snap \in [Servers -> SUBSET Conns]
    /\ statActive \in [Servers -> Nat]
    /\ srv \in [Conns -> Servers \cup {None}]
    /\ pc \in [Conns -> {"away", "backlog", "held", "gone"} \cup Phases]
    /\ peer \in [Conns -> {"up", "eof"}]
    /\ shut \subseteq Conns
    /\ tries \in [Conns -> 0 .. Candidates]
    /\ remote \in [Conns -> {"none", "up", "eof"}]
    /\ copying \in [Conns -> SUBSET Directions]

SocksInit(first, app) ==
    /\ built = [s \in Servers |-> IF s = first THEN app ELSE None]
    /\ listening = {first}
    /\ started = {first}
    /\ closing = {}
    /\ stop = [s \in Servers |-> "none"]
    /\ accept = [s \in Servers |-> IF s = first THEN "accept" ELSE "none"]
    /\ errs = [s \in Servers |-> 0]
    /\ held = [s \in Servers |-> None]
    /\ sem = [s \in Servers |-> 0]
    /\ active = [s \in Servers |-> {}]
    /\ snap = [s \in Servers |-> {}]
    /\ statActive = [s \in Servers |-> 0]
    /\ srv = [c \in Conns |-> None]
    /\ pc = [c \in Conns |-> "away"]
    /\ peer = [c \in Conns |-> "up"]
    /\ shut = {}
    /\ tries = [c \in Conns |-> 0]
    /\ remote = [c \in Conns |-> "none"]
    /\ copying = [c \in Conns |-> {}]

Goto(c, label) == pc' = [pc EXCEPT ![c] = label]
Sessions(s) == {c \in Conns : srv[c] = s /\ pc[c] \in Phases}

\* A read from the client, or a write to it, no longer waits.
ClientOver(c) == peer[c] = "eof" \/ c \in shut

-----------------------------------------------------------------------------
(* Start and the accept loop *)

\* Whether net.Listen succeeds: two sockets never listen on one address.
CanBind(app) == \A t \in listening : built[t].addr # app.addr

\* NewWithOptions and a successful Start of an unused value s.
Open(s, app) ==
    /\ CanBind(app)
    /\ built' = [built EXCEPT ![s] = app]
    /\ listening' = listening \cup {s}
    /\ started' = started \cup {s}
    /\ accept' = [accept EXCEPT ![s] = "accept"]
    /\ UNCHANGED <<closing, stop, errs, held, sem, active, snap, statActive, connVars>>

\* A Start that fails: the server exists and listens to nothing.
OpenFails(s, app) ==
    /\ built' = [built EXCEPT ![s] = app]
    /\ UNCHANGED <<listening, started, closing, stop, accept, errs, held, sem, active,
                   snap, statActive, connVars>>

\* A client reaches the listening socket; the system queues it.
Connect(c, s) ==
    /\ pc[c] = "away"
    /\ s \in listening
    /\ srv' = [srv EXCEPT ![c] = s]
    /\ Goto(c, "backlog")
    /\ UNCHANGED <<serverVars, peer, shut, tries, remote, copying>>

Accept(s, c) ==
    /\ accept[s] = "accept"
    /\ s \in listening
    /\ pc[c] = "backlog" /\ srv[c] = s
    /\ errs' = [errs EXCEPT ![s] = 0]
    /\ held' = [held EXCEPT ![s] = c]
    /\ accept' = [accept EXCEPT ![s] = "admit"]
    /\ Goto(c, "held")
    /\ UNCHANGED <<built, listening, started, closing, stop, sem, active, snap, statActive,
                   srv, peer, shut, tries, remote, copying>>

\* Mutant: the loop never gives up.
AcceptErrorForever(s) ==
    /\ accept[s] = "accept"
    /\ IF s \in closing
       THEN accept' = [accept EXCEPT ![s] = "done"] /\ errs' = errs
       ELSE errs' = [errs EXCEPT ![s] = @ + 1] /\ accept' = accept
    /\ UNCHANGED <<built, listening, started, closing, stop, held, sem, active, snap,
                   statActive, connVars>>

\* Accept returns an error: always once the listener is closed, and now and then
\* before.  The loop ends when Stop has begun or when the errors keep coming; it
\* then leaves the listening socket open.
AcceptError(s) ==
    /\ accept[s] = "accept"
    /\ LET n == errs[s] + 1
       IN  IF s \in closing \/ n >= MaxErrors
           THEN accept' = [accept EXCEPT ![s] = "done"] /\ errs' = [errs EXCEPT ![s] = 0]
           ELSE errs' = [errs EXCEPT ![s] = n] /\ accept' = accept
    /\ UNCHANGED <<built, listening, started, closing, stop, held, sem, active, snap,
                   statActive, connVars>>

\* Mutant: the limit is not looked at.
AdmitAlways(s) ==
    /\ accept[s] = "admit"
    /\ accept' = [accept EXCEPT ![s] = "accept"]
    /\ held' = [held EXCEPT ![s] = None]
    /\ sem' = [sem EXCEPT ![s] = @ + 1]
    /\ active' = [active EXCEPT ![s] = @ \cup {held[s]}]
    /\ statActive' = [statActive EXCEPT ![s] = @ + 1]
    /\ Goto(held[s], "handshake")
    /\ UNCHANGED <<built, listening, started, closing, stop, errs, snap, srv, peer, tries,
                   remote, copying, shut>>

\* A token, trackConn and the session's goroutine; or a rejection, without a token
\* left or because the peer's address is not a loopback address.
Admit(s) ==
    LET c == held[s]
    IN  /\ accept[s] = "admit"
        /\ accept' = [accept EXCEPT ![s] = "accept"]
        /\ held' = [held EXCEPT ![s] = None]
        /\ \/ /\ sem[s] < built[s].max
              /\ sem' = [sem EXCEPT ![s] = @ + 1]
              /\ active' = [active EXCEPT ![s] = @ \cup {c}]
              /\ statActive' = [statActive EXCEPT ![s] = @ + 1]
              /\ Goto(c, "handshake")
              /\ shut' = shut
           \/ /\ shut' = shut \cup {c}
              /\ Goto(c, "gone")
              /\ UNCHANGED <<sem, active, statActive>>
        /\ UNCHANGED <<built, listening, started, closing, stop, errs, snap, srv, peer,
                       tries, remote, copying>>

-----------------------------------------------------------------------------
(* Stop *)

\* Only the first caller goes on; s.closing makes every other return at once.
StopBegin(s) ==
    /\ s \notin closing
    /\ closing' = closing \cup {s}
    /\ stop' = [stop EXCEPT ![s] = "snapshot"]
    /\ UNCHANGED <<built, listening, started, accept, errs, held, sem, active, snap,
                   statActive, connVars>>

StopSnapshot(s) ==
    /\ stop[s] = "snapshot"
    /\ snap' = [snap EXCEPT ![s] = active[s]]
    /\ stop' = [stop EXCEPT ![s] = "listener"]
    /\ UNCHANGED <<built, listening, started, closing, accept, errs, held, sem, active,
                   statActive, connVars>>

\* ln.Close: the system resets what is still queued.
StopListener(s) ==
    LET queued == {c \in Conns : srv[c] = s /\ pc[c] = "backlog"}
    IN  /\ stop[s] = "listener"
        /\ listening' = listening \ {s}
        /\ stop' = [stop EXCEPT ![s] = "conns"]
        /\ shut' = shut \cup queued
        /\ pc' = [c \in Conns |-> IF c \in queued THEN "gone" ELSE pc[c]]
        /\ UNCHANGED <<built, started, closing, accept, errs, held, sem, active, snap,
                       statActive, srv, peer, tries, remote, copying>>

StopConns(s) ==
    /\ stop[s] = "conns"
    /\ shut' = shut \cup snap[s]
    /\ snap' = [snap EXCEPT ![s] = {}]
    /\ stop' = [stop EXCEPT ![s] = "wait"]
    /\ UNCHANGED <<built, listening, started, closing, accept, errs, held, sem, active,
                   statActive, srv, pc, peer, tries, remote, copying>>

\* Mutant: the wait covers the sessions and not the accept loop.
StopWaitSessions(s) ==
    /\ stop[s] = "wait"
    /\ Sessions(s) = {}
    /\ started' = started \ {s}
    /\ stop' = [stop EXCEPT ![s] = "stopped"]
    /\ UNCHANGED <<built, listening, closing, accept, errs, held, sem, active, snap,
                   statActive, connVars>>

\* wg.Wait: the accept loop and every session.
StopWait(s) ==
    /\ stop[s] = "wait"
    /\ accept[s] \in {"none", "done"}
    /\ Sessions(s) = {}
    /\ started' = started \ {s}
    /\ stop' = [stop EXCEPT ![s] = "stopped"]
    /\ UNCHANGED <<built, listening, closing, accept, errs, held, sem, active, snap,
                   statActive, connVars>>

-----------------------------------------------------------------------------
(* handle *)

SessionUnchanged == UNCHANGED <<serverVars, srv, peer, shut>>

\* negotiate, under the deadline of the handshake: a client that says something
\* else, or nothing, is let go.
Negotiate(c) ==
    /\ pc[c] = "handshake"
    /\ Goto(c, "release") \/ (c \notin shut /\ Goto(c, "request"))
    /\ UNCHANGED <<tries, remote, copying>>
    /\ SessionUnchanged

\* readRequest, under the same deadline, and the switch on the command.  An unknown
\* address type, port zero, the unspecified address, BIND and UDP when it is off
\* are refused with a reply.
Request(c) ==
    /\ pc[c] = "request"
    /\ \/ Goto(c, "release") /\ tries' = tries
       \/ c \notin shut /\ Goto(c, "refuse") /\ tries' = tries
       \/ c \notin shut /\ Goto(c, "resolve") /\ tries' = tries
       \/ c \notin shut /\ Goto(c, "dial") /\ tries' = [tries EXCEPT ![c] = 1]
       \/ c \notin shut /\ built[srv[c]].udp /\ Goto(c, "associate") /\ tries' = tries
    /\ UNCHANGED <<remote, copying>>
    /\ SessionUnchanged

\* connect, a hostname: no DNS, a failed lookup and nothing routable are refused.
Resolve(c) ==
    /\ pc[c] = "resolve"
    /\ \/ Goto(c, "refuse") /\ tries' = tries
       \/ \E n \in 1 .. Candidates : tries' = [tries EXCEPT ![c] = n] /\ Goto(c, "dial")
    /\ UNCHANGED <<remote, copying>>
    /\ SessionUnchanged

\* connect, one address after another.  No deadline of the client applies here.
Dial(c) ==
    /\ pc[c] = "dial"
    /\ \/ /\ remote' = [remote EXCEPT ![c] = "up"]
          /\ tries' = [tries EXCEPT ![c] = 0]
          /\ Goto(c, "reply")
       \/ /\ remote' = remote
          /\ tries' = [tries EXCEPT ![c] = @ - 1]
          /\ Goto(c, IF tries[c] = 1 THEN "refuse" ELSE "dial")
    /\ copying' = copying
    /\ SessionUnchanged

\* A failure reply, under its own write deadline.
Refuse(c) ==
    /\ pc[c] = "refuse"
    /\ Goto(c, "release")
    /\ UNCHANGED <<tries, remote, copying>>
    /\ SessionUnchanged

\* Mutant: a reply that cannot be written returns before the deferred Close.
ReplyLeaking(c) ==
    /\ pc[c] = "reply"
    /\ \/ Goto(c, "release") /\ UNCHANGED copying
       \/ c \notin shut /\ Goto(c, "relay") /\ copying' = [copying EXCEPT ![c] = Directions]
    /\ UNCHANGED <<tries, remote>>
    /\ SessionUnchanged

\* The success reply.  When it cannot be written the remote side is closed.
Reply(c) ==
    /\ pc[c] = "reply"
    /\ \/ /\ Goto(c, "release")
          /\ remote' = [remote EXCEPT ![c] = "none"]
          /\ copying' = copying
       \/ /\ c \notin shut
          /\ Goto(c, "relay")
          /\ copying' = [copying EXCEPT ![c] = Directions]
          /\ remote' = remote
    /\ tries' = tries
    /\ SessionUnchanged

\* relay, client to remote: it ends with the client and half-closes the remote side.
CopyUp(c) ==
    /\ pc[c] = "relay" /\ "up" \in copying[c]
    /\ ClientOver(c)
    /\ copying' = [copying EXCEPT ![c] = @ \ {"up"}]
    /\ UNCHANGED <<pc, tries, remote>>
    /\ SessionUnchanged

\* Mutant: the direction ends without its wg.Done.
CopyDownUndone(c) ==
    /\ pc[c] = "relay" /\ "down" \in copying[c]
    /\ remote[c] = "eof"
    /\ UNCHANGED <<pc, tries, remote, copying>>
    /\ SessionUnchanged

\* relay, remote to client: it ends with the remote side.
CopyDown(c) ==
    /\ pc[c] = "relay" /\ "down" \in copying[c]
    /\ remote[c] = "eof"
    /\ copying' = [copying EXCEPT ![c] = @ \ {"down"}]
    /\ UNCHANGED <<pc, tries, remote>>
    /\ SessionUnchanged

\* Either direction also ends when something arrives and the side it is for has
\* closed altogether; nothing says that anything arrives.
CopyFails(c) ==
    /\ pc[c] = "relay"
    /\ \/ /\ "up" \in copying[c] /\ remote[c] = "eof"
          /\ copying' = [copying EXCEPT ![c] = @ \ {"up"}]
       \/ /\ "down" \in copying[c] /\ ClientOver(c)
          /\ copying' = [copying EXCEPT ![c] = @ \ {"down"}]
    /\ UNCHANGED <<pc, tries, remote>>
    /\ SessionUnchanged

\* relay returns when both directions have ended.
RelayEnds(c) ==
    /\ pc[c] = "relay" /\ copying[c] = {}
    /\ remote' = [remote EXCEPT ![c] = "none"]
    /\ Goto(c, "release")
    /\ UNCHANGED <<tries, copying>>
    /\ SessionUnchanged

\* handleUDPAssociate, seen from the session (module UdpRelay has the rest): it is
\* refused, its reply cannot be written, or it exists ...
Associate(c) ==
    /\ pc[c] = "associate"
    /\ Goto(c, "refuse") \/ Goto(c, "release") \/ (c \notin shut /\ Goto(c, "hold"))
    /\ UNCHANGED <<tries, remote, copying>>
    /\ SessionUnchanged

\* ... until the control connection ends, without a deadline.
Hold(c) ==
    /\ pc[c] = "hold"
    /\ ClientOver(c)
    /\ Goto(c, "release")
    /\ UNCHANGED <<tries, remote, copying>>
    /\ SessionUnchanged

\* The deferred calls, in their order: the token goes first ...
Release(c) ==
    /\ pc[c] = "release"
    /\ sem' = [sem EXCEPT ![srv[c]] = @ - 1]
    /\ Goto(c, "leave")
    /\ UNCHANGED <<built, listening, started, closing, stop, accept, errs, held, active,
                   snap, statActive, srv, peer, shut, tries, remote, copying>>

\* ... then the count, untrackConn, Close and Done.
Leave(c) ==
    /\ pc[c] = "leave"
    /\ statActive' = [statActive EXCEPT ![srv[c]] = @ - 1]
    /\ active' = [active EXCEPT ![srv[c]] = @ \ {c}]
    /\ shut' = shut \cup {c}
    /\ peer' = [peer EXCEPT ![c] = "up"]
    /\ Goto(c, "gone")
    /\ UNCHANGED <<built, listening, started, closing, stop, accept, errs, held, sem, snap,
                   srv, tries, remote, copying>>

-----------------------------------------------------------------------------
(* The peers *)

\* Before the relay a client that has gone is one of the failing reads.
ClientEnds(c) ==
    /\ pc[c] \in {"relay", "hold"} /\ peer[c] = "up"
    /\ peer' = [peer EXCEPT ![c] = "eof"]
    /\ UNCHANGED <<serverVars, srv, pc, shut, tries, remote, copying>>

RemoteEnds(c) ==
    /\ pc[c] = "relay" /\ remote[c] = "up"
    /\ remote' = [remote EXCEPT ![c] = "eof"]
    /\ UNCHANGED <<serverVars, srv, pc, peer, shut, tries, copying>>

-----------------------------------------------------------------------------
SessionStep(c) ==
    \/ Negotiate(c) \/ Request(c) \/ Resolve(c) \/ Dial(c) \/ Refuse(c) \/ Reply(c)
    \/ CopyUp(c) \/ CopyDown(c) \/ RelayEnds(c) \/ Associate(c) \/ Hold(c)
    \/ Release(c) \/ Leave(c)

StopStep(s) == StopSnapshot(s) \/ StopListener(s) \/ StopConns(s) \/ StopWait(s)

SocksNext ==
    \/ \E c \in Conns : SessionStep(c) \/ CopyFails(c) \/ ClientEnds(c) \/ RemoteEnds(c)
    \/ \E s \in Servers :
         \/ AcceptError(s) \/ Admit(s) \/ StopStep(s)
         \/ \E c \in Conns : Connect(c, s) \/ Accept(s, c)
=============================================================================
