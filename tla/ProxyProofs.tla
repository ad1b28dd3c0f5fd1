---------------------------- MODULE ProxyProofs ----------------------------
(***************************************************************************)
(* Theorems about modules SocksServer and Proxy, for any number of         *)
(* servers, connections, limits and concurrent reloads: the session limit, *)
(* what Stop leaves behind, the release of connections into the tunnel,    *)
(* and that a reload leaves something listening.  What a reload leaves in  *)
(* force is proved for reloads that follow one another.                    *)
(***************************************************************************)
EXTENDS Proxy, FiniteSetTheorems, TLAPS

\* The sessions that hold a token of the semaphore.
Holders(s) == {c \in Sessions(s) : pc[c] # "leave"}

\* How the listening socket, the accept loop and Stop go together.
ListenInv ==
    \A s \in Servers :
        /\ stop[s] = "none" <=> s \notin closing
        /\ built[s] = None => accept[s] = "none" /\ s \notin closing
        /\ s \in listening <=>
             accept[s] # "none" /\ stop[s] \in {"none", "snapshot", "listener"}
        /\ stop[s] = "stopped" => accept[s] \in {"none", "done"} /\ Sessions(s) = {}

\* The connection in the accept loop's hand.
HeldInv ==
    \A s \in Servers :
        /\ accept[s] = "admit" <=> held[s] # None
        /\ held[s] # None => pc[held[s]] = "held" /\ srv[held[s]] = s

\* A connection belongs to a server that exists, and only one that is queued needs
\* the listening socket.
ConnInv ==
    \A c \in Conns :
        /\ pc[c] = "away" <=> srv[c] = None
        /\ pc[c] = "backlog" => srv[c] \in listening
        /\ pc[c] = "held" => held[srv[c]] = c
        /\ pc[c] \in Phases => built[srv[c]] # None
        /\ pc[c] = "gone" => c \in shut
        /\ pc[c] = "dial" => tries[c] > 0

\* relay is entered with the connection into the tunnel and left without it.
CopyInv ==
    \A c \in Conns :
        /\ remote[c] \in {"up", "eof"} <=> pc[c] \in {"reply", "relay"}
        /\ copying[c] # {} => pc[c] = "relay"

\* Every token belongs to a session that has not released it, and no token is
\* given beyond the limit.
TokenInv ==
    \A s \in Servers :
        /\ IsFiniteSet(Holders(s))
        /\ sem[s] = Cardinality(Holders(s))
        /\ built[s] # None => sem[s] <= built[s].max

\* statActive and s.active are the sessions.
CountInv ==
    \A s \in Servers :
        /\ IsFiniteSet(Sessions(s))
        /\ statActive[s] = Cardinality(Sessions(s))
        /\ active[s] = Sessions(s)

ServerInv == ListenInv /\ HeldInv /\ ConnInv /\ CopyInv /\ TokenInv /\ CountInv

\* Whether the reload has found another listen address.
Another(r) == napp[r].addr # rapp[r].addr

\* The new server is made, and not bound ...
Unbound(r) == rpc[r] = "bind" \/ (rpc[r] \in {"stop", "stopping"} /\ ~Another(r))

\* ... or serves already.
Bound(r) == rpc[r] = "set" \/ (rpc[r] \in {"stop", "stopping"} /\ Another(r))

\* A reload keeps its new server to itself until it sets m.socks.
ReloadInv ==
    /\ built[socks] # None
    /\ mstop # "no" => built[msocks] # None
    /\ \A r \in Reloaders :
         /\ rpc[r] \in {"idle", "build"} => nsocks[r] = None
         /\ rpc[r] = "idle" => rsocks[r] = None
         /\ rpc[r] # "idle" => /\ Serving
                               /\ rapp[r] \in Apps /\ napp[r] \in Apps
                               /\ rsocks[r] \in Servers /\ built[rsocks[r]] # None
         /\ (Unbound(r) \/ Bound(r)) => /\ nsocks[r] \in Servers /\ nsocks[r] # socks
                                        /\ \A q \in Reloaders : rsocks[q] # nsocks[r]
         /\ nsocks[r] # None => \A q \in Reloaders : q # r => nsocks[q] # nsocks[r]
         /\ Unbound(r) => built[nsocks[r]] = None
         /\ Bound(r) => /\ built[nsocks[r]] = napp[r]
                        /\ nsocks[r] \in listening \ closing

\* The server in force serves, or some reload has one that does, or is about to
\* bind the address again.
CoverInv ==
    Serving =>
        \/ down
        \/ socks \in listening \ closing
        \/ \E r \in Reloaders : Bound(r) \/ (rpc[r] \in {"stopping", "bind"} /\ ~Another(r))

\* A server that is closing has stopped, or whoever began to stop it still waits.
WaitInv ==
    /\ \A s \in closing :
         \/ stop[s] = "stopped"
         \/ \E r \in Reloaders : rpc[r] = "stopping" /\ rsocks[r] = s
         \/ mstop = "stopping" /\ msocks = s
    /\ mstop = "done" => stop[msocks] = "stopped"

ProxyInv == TypeOK /\ ServerInv /\ ReloadInv /\ CoverInv /\ WaitInv

\* Reloads that follow one another.
OneReload == \A r, q \in Reloaders : r = q

\* The servers that may listen at each stage of a reload.
MayListen(r) ==
    CASE rpc[r] = "bind" /\ ~Another(r) -> {}
      [] rpc[r] = "set" -> {nsocks[r]}
      [] rpc[r] \in {"stop", "stopping"} /\ Another(r) -> {socks, nsocks[r]}
      [] OTHER -> {socks}

\* The settings and the server in force, while nothing has failed.
InForce == built[socks] = app /\ (Serving => socks \in listening)

HonestInv ==
    /\ \A r \in Reloaders :
         /\ listening \subseteq MayListen(r)
         /\ rpc[r] # "idle" => rapp[r] = app
         /\ rpc[r] \in {"build", "stop", "stopping", "bind"} => rsocks[r] = socks
         /\ rpc[r] \in {"idle", "build", "stop", "adopt"} /\ Serving => socks \notin closing
         /\ rpc[r] \in {"idle", "build"} /\ ~down => InForce
         /\ rpc[r] = "bind" /\ Another(r) => socks \notin closing /\ (~down => InForce)
         /\ rpc[r] = "adopt" /\ ~down => built[socks] = napp[r] /\ socks \in listening
    /\ Reloaders = {} => listening \subseteq {socks} /\ (~down => InForce)
                           /\ (Serving => socks \notin closing)

-----------------------------------------------------------------------------
(* What the manager does to a server: it makes one, and stops one it has made. *)

Opens(s, a) == built[s] = None /\ Open(s, a)
Refused(s, a) == built[s] = None /\ OpenFails(s, a)
Stops(s) == built[s] # None /\ StopBegin(s)

ServerNext ==
    \/ SocksNext
    \/ \E s \in Servers, a \in Apps : Opens(s, a) \/ Refused(s, a)
    \/ \E s \in Servers : Stops(s)
    \/ UNCHANGED socksVars

USE DEF serverVars, connVars, socksVars, SessionUnchanged, Goto, Directions

\* Every step of the manager is one of them, or none.
LEMMA StepIsServerStep ==
    ASSUME ProxyInv, [Next]_vars
    PROVE  ServerNext
<1> USE DEF ProxyInv, TypeOK, ReloadInv, Unbound, Bound, Another
<1>1. ASSUME NEW r \in Reloaders, ReloadRead(r) PROVE ServerNext
  BY <1>1 DEF ReloadRead, ServerNext
<1>2. ASSUME NEW r \in Reloaders, ReloadBuild(r) PROVE ServerNext
  BY <1>2 DEF ReloadBuild, ServerNext
<1>3. ASSUME NEW r \in Reloaders, ReloadBind(r) PROVE ServerNext
  <2>1. nsocks[r] \in Servers /\ napp[r] \in Apps /\ built[nsocks[r]] = None
    BY <1>3 DEF ReloadBind
  <2>2. Open(nsocks[r], napp[r]) \/ OpenFails(nsocks[r], napp[r])
    BY <1>3 DEF ReloadBind
  <2> QED  BY <2>1, <2>2 DEF ServerNext, Opens, Refused
<1>4. ASSUME NEW r \in Reloaders, ReloadStop(r) PROVE ServerNext
  <2>1. rsocks[r] \in Servers /\ built[rsocks[r]] # None  BY <1>4 DEF ReloadStop
  <2>2. StopBegin(rsocks[r]) \/ UNCHANGED socksVars
    BY <1>4 DEF ReloadStop
  <2> QED  BY <2>1, <2>2 DEF ServerNext, Stops
<1>5. ASSUME NEW r \in Reloaders, ReloadStopped(r) PROVE ServerNext
  BY <1>5 DEF ReloadStopped, ServerNext
<1>6. ASSUME NEW r \in Reloaders, ReloadSet(r) PROVE ServerNext
  BY <1>6 DEF ReloadSet, ServerNext
<1>7. ASSUME NEW r \in Reloaders, ReloadAdopt(r) PROVE ServerNext
  BY <1>7 DEF ReloadAdopt, ServerNext
<1>8. CASE StopSocks
  <2>1. StopBegin(msocks) \/ UNCHANGED socksVars  BY <1>8 DEF StopSocks
  <2>2. msocks \in Servers /\ built[msocks] # None  BY <1>8 DEF StopSocks
  <2> QED  BY <2>1, <2>2 DEF ServerNext, Stops
<1>9. CASE StopRead \/ StopPipe \/ StopReturn
  BY <1>9 DEF StopRead, StopPipe, StopReturn, ServerNext
<1>10. CASE SocksNext \/ UNCHANGED vars  BY <1>10 DEF ServerNext, vars
<1> QED
  BY <1>1, <1>2, <1>3, <1>4, <1>5, <1>6, <1>7, <1>8, <1>9, <1>10 DEF Next, ReloadStep

-----------------------------------------------------------------------------
(* Counting sessions and tokens *)

Tokens == Phases \ {"leave"}

\* A step that moves nobody into or out of a session leaves the tokens alone; a
\* server that is made has no session yet.
LEMMA TokenKept ==
    ASSUME SocksTypeOK, ConnInv, TokenInv, sem' = sem,
           \A c \in Conns : srv'[c] = srv[c] \/ (pc[c] = "away" /\ pc'[c] \notin Phases),
           \A c \in Conns : pc'[c] \in Tokens <=> pc[c] \in Tokens,
           \A s \in Servers : built'[s] = built[s] \/ (built[s] = None /\ built'[s] \in Apps)
    PROVE  TokenInv'
<1> SUFFICES ASSUME NEW s \in Servers
             PROVE  /\ IsFiniteSet(Holders(s)') /\ sem'[s] = Cardinality(Holders(s)')
                    /\ built'[s] # None => sem'[s] <= built'[s].max
  BY DEF TokenInv
<1>1. Holders(s)' = Holders(s)
  BY DEF Holders, Sessions, Tokens, Phases, SocksTypeOK
<1>2. CASE built'[s] = built[s]  BY <1>1, <1>2 DEF TokenInv
<1>3. CASE built[s] = None /\ built'[s] \in Apps
  <2>1. Holders(s) = {}  BY <1>3 DEF Holders, Sessions, ConnInv
  <2>2. sem[s] = 0  BY <2>1, FS_EmptySet DEF TokenInv
  <2>3. built'[s].max \in Nat  BY <1>3, SocksAssumption
  <2> QED  BY <1>1, <2>2, <2>3 DEF TokenInv
<1> QED  BY <1>2, <1>3

\* Admit gives a token below the limit.
LEMMA TokenTaken ==
    ASSUME NEW s \in Servers, NEW c \in Conns, SocksTypeOK, TokenInv, built' = built,
           built[s] \in Apps, sem[s] < built[s].max, sem' = [sem EXCEPT ![s] = @ + 1],
           srv' = srv, srv[c] = s, pc[c] = "held", pc' = [pc EXCEPT ![c] = "handshake"]
    PROVE  TokenInv'
<1> SUFFICES ASSUME NEW t \in Servers
             PROVE  /\ IsFiniteSet(Holders(t)') /\ sem'[t] = Cardinality(Holders(t)')
                    /\ built'[t] # None => sem'[t] <= built'[t].max
  BY DEF TokenInv
<1>1. CASE t = s
  <2>1. c \notin Holders(s) /\ Holders(s)' = Holders(s) \cup {c}
    BY DEF Holders, Sessions, Phases, SocksTypeOK
  <2>2. IsFiniteSet(Holders(s)') /\ Cardinality(Holders(s)') = Cardinality(Holders(s)) + 1
    BY <2>1, FS_AddElement DEF TokenInv
  <2>3. built[s].max \in Nat /\ sem[s] \in Nat  BY SocksAssumption DEF SocksTypeOK
  <2> QED  BY <1>1, <2>2, <2>3 DEF TokenInv, SocksTypeOK
<1>2. CASE t # s
  <2>1. Holders(t)' = Holders(t)  BY <1>2 DEF Holders, Sessions, SocksTypeOK
  <2> QED  BY <1>2, <2>1 DEF TokenInv, SocksTypeOK
<1> QED  BY <1>1, <1>2

\* The deferred receive gives it back.
LEMMA TokenReleased ==
    ASSUME NEW c \in Conns, SocksTypeOK, ConnInv, TokenInv, Release(c)
    PROVE  TokenInv' /\ sem' \in [Servers -> Nat]
<1>0. srv[c] \in Servers /\ srv' = srv /\ built' = built /\ pc' = [pc EXCEPT ![c] = "leave"]
  BY DEF Release, ConnInv, SocksTypeOK
<1>1. ASSUME NEW t \in Servers
      PROVE  /\ IsFiniteSet(Holders(t)') /\ sem'[t] = Cardinality(Holders(t)')
             /\ built'[t] # None => sem'[t] <= built'[t].max
             /\ sem'[t] \in Nat
  <2>1. CASE t = srv[c]
    <3>1. c \in Holders(t) /\ Holders(t)' = Holders(t) \ {c}
      BY <1>0, <2>1 DEF Holders, Sessions, Phases, SocksTypeOK, Release
    <3>2. IsFiniteSet(Holders(t)') /\ Cardinality(Holders(t)') = Cardinality(Holders(t)) - 1
      BY <3>1, FS_RemoveElement DEF TokenInv
    <3>3. Cardinality(Holders(t)) \in Nat /\ Cardinality(Holders(t)') \in Nat
      BY <3>2, FS_CardinalityType DEF TokenInv
    <3>4. sem'[t] = sem[t] - 1  BY <1>0, <2>1 DEF Release, SocksTypeOK
    <3>5. built[t] # None => built[t].max \in Nat  BY SocksAssumption DEF SocksTypeOK
    <3> QED  BY <1>0, <3>2, <3>3, <3>4, <3>5 DEF TokenInv
  <2>2. CASE t # srv[c]
    <3>1. Holders(t)' = Holders(t)  BY <1>0, <2>2 DEF Holders, Sessions, SocksTypeOK
    <3> QED  BY <1>0, <2>2, <3>1 DEF TokenInv, SocksTypeOK, Release
  <2> QED  BY <2>1, <2>2
<1>2. TokenInv'  BY <1>1 DEF TokenInv
<1>3. sem' = [t \in Servers |-> sem'[t]]  BY <1>0 DEF Release, SocksTypeOK
<1> QED  BY <1>1, <1>2, <1>3

\* The same for statActive and s.active.
LEMMA CountKept ==
    ASSUME SocksTypeOK, CountInv, UNCHANGED <<statActive, active>>,
           \A c \in Conns : srv'[c] = srv[c] \/ (pc[c] = "away" /\ pc'[c] \notin Phases),
           \A c \in Conns : pc'[c] \in Phases <=> pc[c] \in Phases
    PROVE  CountInv'
<1>1. \A s \in Servers : Sessions(s)' = Sessions(s)
  BY DEF Sessions, Phases, SocksTypeOK
<1> QED  BY <1>1 DEF CountInv

LEMMA CountTaken ==
    ASSUME NEW s \in Servers, NEW c \in Conns, SocksTypeOK, CountInv,
           statActive' = [statActive EXCEPT ![s] = @ + 1],
           active' = [active EXCEPT ![s] = @ \cup {c}],
           srv' = srv, srv[c] = s, pc[c] = "held", pc' = [pc EXCEPT ![c] = "handshake"]
    PROVE  CountInv'
<1> SUFFICES ASSUME NEW t \in Servers
             PROVE  /\ IsFiniteSet(Sessions(t)') /\ statActive'[t] = Cardinality(Sessions(t)')
                    /\ active'[t] = Sessions(t)'
  BY DEF CountInv
<1>1. CASE t = s
  <2>1. c \notin Sessions(s) /\ Sessions(s)' = Sessions(s) \cup {c}
    BY DEF Sessions, Phases, SocksTypeOK
  <2>2. IsFiniteSet(Sessions(s)') /\ Cardinality(Sessions(s)') = Cardinality(Sessions(s)) + 1
    BY <2>1, FS_AddElement DEF CountInv
  <2> QED  BY <1>1, <2>1, <2>2 DEF CountInv, SocksTypeOK
<1>2. CASE t # s
  <2>1. Sessions(t)' = Sessions(t)  BY <1>2 DEF Sessions, SocksTypeOK
  <2> QED  BY <1>2, <2>1 DEF CountInv, SocksTypeOK
<1> QED  BY <1>1, <1>2

LEMMA CountReleased ==
    ASSUME NEW c \in Conns, SocksTypeOK, ConnInv, CountInv, Leave(c)
    PROVE  CountInv' /\ statActive' \in [Servers -> Nat]
<1>0. srv[c] \in Servers /\ srv' = srv /\ pc' = [pc EXCEPT ![c] = "gone"]
  BY DEF Leave, ConnInv, SocksTypeOK
<1>1. ASSUME NEW t \in Servers
      PROVE  /\ IsFiniteSet(Sessions(t)') /\ statActive'[t] = Cardinality(Sessions(t)')
             /\ active'[t] = Sessions(t)'
             /\ statActive'[t] \in Nat
  <2>1. CASE t = srv[c]
    <3>1. c \in Sessions(t) /\ Sessions(t)' = Sessions(t) \ {c}
      BY <1>0, <2>1 DEF Sessions, Phases, SocksTypeOK, Leave
    <3>2. IsFiniteSet(Sessions(t)') /\ Cardinality(Sessions(t)') = Cardinality(Sessions(t)) - 1
      BY <3>1, FS_RemoveElement DEF CountInv
    <3>3. Cardinality(Sessions(t)) \in Nat /\ Cardinality(Sessions(t)') \in Nat
      BY <3>2, FS_CardinalityType DEF CountInv
    <3>4. statActive'[t] = statActive[t] - 1 /\ active'[t] = active[t] \ {c}
      BY <1>0, <2>1 DEF Leave, SocksTypeOK
    <3> QED  BY <3>1, <3>2, <3>3, <3>4 DEF CountInv
  <2>2. CASE t # srv[c]
    <3>1. Sessions(t)' = Sessions(t)  BY <1>0, <2>2 DEF Sessions, SocksTypeOK
    <3> QED  BY <1>0, <2>2, <3>1 DEF CountInv, SocksTypeOK, Leave
  <2> QED  BY <2>1, <2>2
<1>2. CountInv'  BY <1>1 DEF CountInv
<1>3. statActive' = [t \in Servers |-> statActive'[t]]  BY <1>0 DEF Leave, SocksTypeOK
<1> QED  BY <1>1, <1>2, <1>3

-----------------------------------------------------------------------------
(* The steps of a server *)

\* What the types need to know of the bounds.
LEMMA Bounds ==
    /\ MaxErrors \in Nat \ {0} /\ Candidates \in Nat \ {0}
    /\ None \notin Servers /\ None \notin Conns /\ None \notin Apps
  BY SocksAssumption

\* The connection Admit deals with.
LEMMA AdmitHeld ==
    ASSUME SocksTypeOK, ServerInv, NEW s \in Servers, Admit(s)
    PROVE  /\ held[s] \in Conns /\ pc[held[s]] = "held" /\ srv[held[s]] = s
           /\ built[s] \in Apps /\ stop[s] # "stopped"
  BY DEF SocksTypeOK, ServerInv, HeldInv, ListenInv, Admit

\* Tokens are taken by Admit and given back by every session.
LEMMA TokenStep ==
    ASSUME SocksTypeOK, ServerInv, ServerNext
    PROVE  TokenInv'
<1> USE DEF ServerInv
<1>1. ASSUME NEW c \in Conns, Negotiate(c) PROVE TokenInv'
  BY <1>1, TokenKept DEF Negotiate, Tokens, Phases, SocksTypeOK
<1>2. ASSUME NEW c \in Conns, Request(c) PROVE TokenInv'
  BY <1>2, TokenKept DEF Request, Tokens, Phases, SocksTypeOK
<1>3. ASSUME NEW c \in Conns, Resolve(c) PROVE TokenInv'
  BY <1>3, TokenKept DEF Resolve, Tokens, Phases, SocksTypeOK
<1>4. ASSUME NEW c \in Conns, Dial(c) PROVE TokenInv'
  BY <1>4, TokenKept DEF Dial, Tokens, Phases, SocksTypeOK
<1>5. ASSUME NEW c \in Conns, Refuse(c) PROVE TokenInv'
  BY <1>5, TokenKept DEF Refuse, Tokens, Phases, SocksTypeOK
<1>6. ASSUME NEW c \in Conns, Reply(c) PROVE TokenInv'
  BY <1>6, TokenKept DEF Reply, Tokens, Phases, SocksTypeOK
<1>7. ASSUME NEW c \in Conns, CopyUp(c) PROVE TokenInv'
  BY <1>7, TokenKept DEF CopyUp, Tokens, Phases, SocksTypeOK
<1>8. ASSUME NEW c \in Conns, CopyDown(c) PROVE TokenInv'
  BY <1>8, TokenKept DEF CopyDown, Tokens, Phases, SocksTypeOK
<1>9. ASSUME NEW c \in Conns, RelayEnds(c) PROVE TokenInv'
  BY <1>9, TokenKept DEF RelayEnds, Tokens, Phases, SocksTypeOK
<1>10. ASSUME NEW c \in Conns, Associate(c) PROVE TokenInv'
  BY <1>10, TokenKept DEF Associate, Tokens, Phases, SocksTypeOK
<1>11. ASSUME NEW c \in Conns, Release(c) PROVE TokenInv'
  BY <1>11, TokenReleased
<1>12. ASSUME NEW c \in Conns, Leave(c) PROVE TokenInv'
  BY <1>12, TokenKept DEF Leave, Tokens, Phases, SocksTypeOK
<1>13. ASSUME NEW c \in Conns, CopyFails(c) PROVE TokenInv'
  BY <1>13, TokenKept DEF CopyFails, Tokens, Phases, SocksTypeOK
<1>14. ASSUME NEW c \in Conns, ClientEnds(c) PROVE TokenInv'
  BY <1>14, TokenKept DEF ClientEnds, Tokens, Phases, SocksTypeOK
<1>15. ASSUME NEW c \in Conns, RemoteEnds(c) PROVE TokenInv'
  BY <1>15, TokenKept DEF RemoteEnds, Tokens, Phases, SocksTypeOK
<1>16. ASSUME NEW s \in Servers, AcceptError(s) PROVE TokenInv'
  BY <1>16, TokenKept DEF AcceptError, Tokens, Phases, SocksTypeOK
<1>17. ASSUME NEW s \in Servers, Admit(s) PROVE TokenInv'
  <2> DEFINE c == held[s]
  <2>1. /\ c \in Conns /\ pc[c] = "held" /\ srv[c] = s /\ built[s] \in Apps
    BY <1>17, AdmitHeld DEF ServerInv
  <2>2. CASE sem[s] < built[s].max /\ sem' = [sem EXCEPT ![s] = @ + 1]
             /\ pc' = [pc EXCEPT ![c] = "handshake"]
    <3>1. built' = built /\ srv' = srv  BY <1>17 DEF Admit
    <3> HIDE DEF c
    <3> QED  BY <2>1, <2>2, <3>1, TokenTaken
  <2>3. CASE sem' = sem /\ pc' = [pc EXCEPT ![c] = "gone"]
    <3>1. built' = built /\ srv' = srv  BY <1>17 DEF Admit
    <3> HIDE DEF c
    <3> QED  BY <2>1, <2>3, <3>1, TokenKept DEF Tokens, Phases, SocksTypeOK
  <2> QED  BY <1>17, <2>2, <2>3 DEF Admit
<1>18. ASSUME NEW s \in Servers, StopSnapshot(s) PROVE TokenInv'
  BY <1>18, TokenKept DEF StopSnapshot, Tokens, Phases, SocksTypeOK
<1>19. ASSUME NEW s \in Servers, StopListener(s) PROVE TokenInv'
  BY <1>19, TokenKept DEF StopListener, Tokens, Phases, SocksTypeOK
<1>20. ASSUME NEW s \in Servers, StopConns(s) PROVE TokenInv'
  BY <1>20, TokenKept DEF StopConns, Tokens, Phases, SocksTypeOK
<1>21. ASSUME NEW s \in Servers, StopWait(s) PROVE TokenInv'
  BY <1>21, TokenKept DEF StopWait, Tokens, Phases, SocksTypeOK
<1>22. ASSUME NEW s \in Servers, NEW c \in Conns, Connect(c, s) PROVE TokenInv'
  BY <1>22, TokenKept DEF Connect, Tokens, Phases, SocksTypeOK
<1>23. ASSUME NEW s \in Servers, NEW c \in Conns, Accept(s, c) PROVE TokenInv'
  BY <1>23, TokenKept DEF Accept, Tokens, Phases, SocksTypeOK
<1>24. ASSUME NEW s \in Servers, NEW a \in Apps, Opens(s, a) PROVE TokenInv'
  BY <1>24, TokenKept DEF Opens, Open, Tokens, Phases, SocksTypeOK
<1>25. ASSUME NEW s \in Servers, NEW a \in Apps, Refused(s, a) PROVE TokenInv'
  BY <1>25, TokenKept DEF Refused, OpenFails, Tokens, Phases, SocksTypeOK
<1>26. ASSUME NEW s \in Servers, Stops(s) PROVE TokenInv'
  BY <1>26, TokenKept DEF Stops, StopBegin, Tokens, Phases, SocksTypeOK
<1>27. CASE UNCHANGED socksVars
  BY <1>27, TokenKept DEF socksVars, Tokens
<1>28. ASSUME NEW c \in Conns, Hold(c) PROVE TokenInv'
  BY <1>28, TokenKept DEF Hold, Tokens, Phases, SocksTypeOK
<1> QED
  BY <1>1, <1>2, <1>3, <1>4, <1>5, <1>6, <1>7, <1>8, <1>9, <1>10, <1>11, <1>12, <1>13,
     <1>14, <1>15, <1>16, <1>17, <1>18, <1>19, <1>20, <1>21, <1>22, <1>23, <1>24, <1>25,
     <1>26, <1>27, <1>28 DEF ServerNext, SocksNext, SessionStep, StopStep

\* s.active and statActive follow the sessions.
LEMMA CountStep ==
    ASSUME SocksTypeOK, ServerInv, ServerNext
    PROVE  CountInv'
<1> USE DEF ServerInv
<1>1. ASSUME NEW c \in Conns, Negotiate(c) PROVE CountInv'
  BY <1>1, CountKept DEF Negotiate, Phases, SocksTypeOK
<1>2. ASSUME NEW c \in Conns, Request(c) PROVE CountInv'
  BY <1>2, CountKept DEF Request, Phases, SocksTypeOK
<1>3. ASSUME NEW c \in Conns, Resolve(c) PROVE CountInv'
  BY <1>3, CountKept DEF Resolve, Phases, SocksTypeOK
<1>4. ASSUME NEW c \in Conns, Dial(c) PROVE CountInv'
  BY <1>4, CountKept DEF Dial, Phases, SocksTypeOK
<1>5. ASSUME NEW c \in Conns, Refuse(c) PROVE CountInv'
  BY <1>5, CountKept DEF Refuse, Phases, SocksTypeOK
<1>6. ASSUME NEW c \in Conns, Reply(c) PROVE CountInv'
  BY <1>6, CountKept DEF Reply, Phases, SocksTypeOK
<1>7. ASSUME NEW c \in Conns, CopyUp(c) PROVE CountInv'
  BY <1>7, CountKept DEF CopyUp, Phases, SocksTypeOK
<1>8. ASSUME NEW c \in Conns, CopyDown(c) PROVE CountInv'
  BY <1>8, CountKept DEF CopyDown, Phases, SocksTypeOK
<1>9. ASSUME NEW c \in Conns, RelayEnds(c) PROVE CountInv'
  BY <1>9, CountKept DEF RelayEnds, Phases, SocksTypeOK
<1>10. ASSUME NEW c \in Conns, Associate(c) PROVE CountInv'
  BY <1>10, CountKept DEF Associate, Phases, SocksTypeOK
<1>11. ASSUME NEW c \in Conns, Release(c) PROVE CountInv'
  BY <1>11, CountKept DEF Release, Phases, SocksTypeOK
<1>12. ASSUME NEW c \in Conns, Leave(c) PROVE CountInv'
  BY <1>12, CountReleased
<1>13. ASSUME NEW c \in Conns, CopyFails(c) PROVE CountInv'
  BY <1>13, CountKept DEF CopyFails, Phases, SocksTypeOK
<1>14. ASSUME NEW c \in Conns, ClientEnds(c) PROVE CountInv'
  BY <1>14, CountKept DEF ClientEnds, Phases, SocksTypeOK
<1>15. ASSUME NEW c \in Conns, RemoteEnds(c) PROVE CountInv'
  BY <1>15, CountKept DEF RemoteEnds, Phases, SocksTypeOK
<1>16. ASSUME NEW s \in Servers, AcceptError(s) PROVE CountInv'
  BY <1>16, CountKept DEF AcceptError, Phases, SocksTypeOK
<1>17. ASSUME NEW s \in Servers, Admit(s) PROVE CountInv'
  <2> DEFINE c == held[s]
  <2>1. /\ c \in Conns /\ pc[c] = "held" /\ srv[c] = s
    BY <1>17, AdmitHeld DEF ServerInv
  <2>2. CASE /\ pc' = [pc EXCEPT ![c] = "handshake"]
             /\ statActive' = [statActive EXCEPT ![s] = @ + 1]
             /\ active' = [active EXCEPT ![s] = @ \cup {c}]
    <3>1. srv' = srv  BY <1>17 DEF Admit
    <3> HIDE DEF c
    <3> QED  BY <2>1, <2>2, <3>1, CountTaken
  <2>3. CASE UNCHANGED <<statActive, active>> /\ pc' = [pc EXCEPT ![c] = "gone"]
    <3>1. srv' = srv  BY <1>17 DEF Admit
    <3> HIDE DEF c
    <3> QED  BY <2>1, <2>3, <3>1, CountKept DEF Phases, SocksTypeOK
  <2> QED  BY <1>17, <2>2, <2>3 DEF Admit
<1>18. ASSUME NEW s \in Servers, StopSnapshot(s) PROVE CountInv'
  BY <1>18, CountKept DEF StopSnapshot, Phases, SocksTypeOK
<1>19. ASSUME NEW s \in Servers, StopListener(s) PROVE CountInv'
  BY <1>19, CountKept DEF StopListener, Phases, SocksTypeOK
<1>20. ASSUME NEW s \in Servers, StopConns(s) PROVE CountInv'
  BY <1>20, CountKept DEF StopConns, Phases, SocksTypeOK
<1>21. ASSUME NEW s \in Servers, StopWait(s) PROVE CountInv'
  BY <1>21, CountKept DEF StopWait, Phases, SocksTypeOK
<1>22. ASSUME NEW s \in Servers, NEW c \in Conns, Connect(c, s) PROVE CountInv'
  BY <1>22, CountKept DEF Connect, Phases, SocksTypeOK
<1>23. ASSUME NEW s \in Servers, NEW c \in Conns, Accept(s, c) PROVE CountInv'
  BY <1>23, CountKept DEF Accept, Phases, SocksTypeOK
<1>24. ASSUME NEW s \in Servers, NEW a \in Apps, Opens(s, a) PROVE CountInv'
  BY <1>24, CountKept DEF Opens, Open, Phases, SocksTypeOK
<1>25. ASSUME NEW s \in Servers, NEW a \in Apps, Refused(s, a) PROVE CountInv'
  BY <1>25, CountKept DEF Refused, OpenFails, Phases, SocksTypeOK
<1>26. ASSUME NEW s \in Servers, Stops(s) PROVE CountInv'
  BY <1>26, CountKept DEF Stops, StopBegin, Phases, SocksTypeOK
<1>27. CASE UNCHANGED socksVars
  BY <1>27, CountKept DEF socksVars
<1>28. ASSUME NEW c \in Conns, Hold(c) PROVE CountInv'
  BY <1>28, CountKept DEF Hold, Phases, SocksTypeOK
<1> QED
  BY <1>1, <1>2, <1>3, <1>4, <1>5, <1>6, <1>7, <1>8, <1>9, <1>10, <1>11, <1>12, <1>13,
     <1>14, <1>15, <1>16, <1>17, <1>18, <1>19, <1>20, <1>21, <1>22, <1>23, <1>24, <1>25,
     <1>26, <1>27, <1>28 DEF ServerNext, SocksNext, SessionStep, StopStep

\* Every step of a server keeps the types; the accept loop's errors stay below
\* the limit.
LEMMA SocksTypeStep ==
    ASSUME SocksTypeOK, ServerInv, ServerNext
    PROVE  SocksTypeOK'
<1> USE DEF SocksTypeOK, ServerInv
<1>1. ASSUME NEW c \in Conns, Negotiate(c) PROVE SocksTypeOK'
  BY <1>1, Bounds DEF Negotiate, Phases
<1>2. ASSUME NEW c \in Conns, Request(c) PROVE SocksTypeOK'
  BY <1>2, Bounds DEF Request, Phases
<1>3. ASSUME NEW c \in Conns, Resolve(c) PROVE SocksTypeOK'
  BY <1>3, Bounds DEF Resolve, Phases
<1>4. ASSUME NEW c \in Conns, Dial(c) PROVE SocksTypeOK'
  <2>1. {"reply", "refuse", "dial"} \subseteq Phases  BY DEF Phases
  <2>2. tries[c] - 1 \in 0 .. Candidates /\ 0 \in 0 .. Candidates
    BY <1>4, Bounds DEF Dial, ConnInv
  <2> QED  BY <1>4, <2>1, <2>2, SMTT(30) DEF Dial
<1>5. ASSUME NEW c \in Conns, Refuse(c) PROVE SocksTypeOK'
  BY <1>5, Bounds DEF Refuse, Phases
<1>6. ASSUME NEW c \in Conns, Reply(c) PROVE SocksTypeOK'
  <2>1. {"release", "relay"} \subseteq Phases  BY DEF Phases
  <2> QED  BY <1>6, <2>1 DEF Reply
<1>7. ASSUME NEW c \in Conns, CopyUp(c) PROVE SocksTypeOK'
  BY <1>7, Bounds DEF CopyUp, Phases
<1>8. ASSUME NEW c \in Conns, CopyDown(c) PROVE SocksTypeOK'
  BY <1>8, Bounds DEF CopyDown, Phases
<1>9. ASSUME NEW c \in Conns, RelayEnds(c) PROVE SocksTypeOK'
  BY <1>9, Bounds DEF RelayEnds, Phases
<1>10. ASSUME NEW c \in Conns, Associate(c) PROVE SocksTypeOK'
  BY <1>10, Bounds DEF Associate, Phases
<1>11. ASSUME NEW c \in Conns, Release(c) PROVE SocksTypeOK'
  BY <1>11, TokenReleased DEF Release, Phases, ConnInv
<1>12. ASSUME NEW c \in Conns, Leave(c) PROVE SocksTypeOK'
  BY <1>12, CountReleased DEF Leave, ConnInv
<1>13. ASSUME NEW c \in Conns, CopyFails(c) PROVE SocksTypeOK'
  BY <1>13, Bounds DEF CopyFails, Phases
<1>14. ASSUME NEW c \in Conns, ClientEnds(c) PROVE SocksTypeOK'
  BY <1>14, Bounds DEF ClientEnds, Phases
<1>15. ASSUME NEW c \in Conns, RemoteEnds(c) PROVE SocksTypeOK'
  BY <1>15, Bounds DEF RemoteEnds, Phases
<1>16. ASSUME NEW s \in Servers, AcceptError(s) PROVE SocksTypeOK'
  <2>1. errs' \in [Servers -> 0 .. MaxErrors]
    <3>1. errs[s] + 1 >= MaxErrors \/ errs[s] + 1 \in 0 .. MaxErrors  BY Bounds
    <3>2. 0 \in 0 .. MaxErrors  BY Bounds
    <3> QED  BY <1>16, <3>1, <3>2 DEF AcceptError
  <2>2. accept' \in [Servers -> {"none", "accept", "admit", "done"}]
    BY <1>16 DEF AcceptError
  <2>3. UNCHANGED <<built, listening, started, closing, stop, held, sem, active, snap,
                    statActive, connVars>>
    BY <1>16 DEF AcceptError
  <2> QED  BY <2>1, <2>2, <2>3 DEF connVars
<1>17. ASSUME NEW s \in Servers, Admit(s) PROVE SocksTypeOK'
  <2>1. held[s] \in Conns  BY <1>17, AdmitHeld DEF SocksTypeOK, ServerInv
  <2>2. sem[s] + 1 \in Nat /\ statActive[s] + 1 \in Nat  OBVIOUS
  <2>3. sem' \in [Servers -> Nat] /\ statActive' \in [Servers -> Nat]
    BY <1>17, <2>2, SMTT(30) DEF Admit
  <2>4. active' \in [Servers -> SUBSET Conns]  BY <1>17, <2>1 DEF Admit
  <2>5. pc' \in [Conns -> {"away", "backlog", "held", "gone"} \cup Phases]
    <3>1. PICK p \in Phases \cup {"gone"} : pc' = [pc EXCEPT ![held[s]] = p]
      BY <1>17 DEF Admit, Phases
    <3> QED  BY <2>1, <3>1
  <2>6. shut' \subseteq Conns  BY <1>17, <2>1 DEF Admit
  <2> QED  BY <1>17, <2>3, <2>4, <2>5, <2>6 DEF Admit
<1>18. ASSUME NEW s \in Servers, StopSnapshot(s) PROVE SocksTypeOK'
  BY <1>18, Bounds DEF StopSnapshot, Phases
<1>19. ASSUME NEW s \in Servers, StopListener(s) PROVE SocksTypeOK'
  BY <1>19, Bounds DEF StopListener, Phases
<1>20. ASSUME NEW s \in Servers, StopConns(s) PROVE SocksTypeOK'
  BY <1>20, Bounds DEF StopConns, Phases
<1>21. ASSUME NEW s \in Servers, StopWait(s) PROVE SocksTypeOK'
  BY <1>21, Bounds DEF StopWait, Phases
<1>22. ASSUME NEW s \in Servers, NEW c \in Conns, Connect(c, s) PROVE SocksTypeOK'
  BY <1>22, Bounds DEF Connect, Phases
<1>23. ASSUME NEW s \in Servers, NEW c \in Conns, Accept(s, c) PROVE SocksTypeOK'
  BY <1>23, Bounds DEF Accept, Phases
<1>24. ASSUME NEW s \in Servers, NEW a \in Apps, Opens(s, a) PROVE SocksTypeOK'
  BY <1>24, Bounds DEF Opens, Open, Phases
<1>25. ASSUME NEW s \in Servers, NEW a \in Apps, Refused(s, a) PROVE SocksTypeOK'
  BY <1>25, Bounds DEF Refused, OpenFails, Phases
<1>26. ASSUME NEW s \in Servers, Stops(s) PROVE SocksTypeOK'
  BY <1>26, Bounds DEF Stops, StopBegin, Phases
<1>27. CASE UNCHANGED socksVars
  BY <1>27, Bounds DEF socksVars
<1>28. ASSUME NEW c \in Conns, Hold(c) PROVE SocksTypeOK'
  BY <1>28, Bounds DEF Hold, Phases
<1> QED
  BY <1>1, <1>2, <1>3, <1>4, <1>5, <1>6, <1>7, <1>8, <1>9, <1>10, <1>11, <1>12, <1>13,
     <1>14, <1>15, <1>16, <1>17, <1>18, <1>19, <1>20, <1>21, <1>22, <1>23, <1>24, <1>25,
     <1>26, <1>27, <1>28 DEF ServerNext, SocksNext, SessionStep, StopStep

\* The listening socket, the accept loop and Stop keep in step.
LEMMA ListenStep ==
    ASSUME SocksTypeOK, ServerInv, ServerNext
    PROVE  ListenInv'
<1> USE DEF SocksTypeOK, ServerInv, ListenInv, Sessions
<1>1. ASSUME NEW c \in Conns, Negotiate(c) PROVE ListenInv'
  BY <1>1, Bounds DEF Negotiate, Phases
<1>2. ASSUME NEW c \in Conns, Request(c) PROVE ListenInv'
  BY <1>2, Bounds DEF Request, Phases
<1>3. ASSUME NEW c \in Conns, Resolve(c) PROVE ListenInv'
  BY <1>3, Bounds DEF Resolve, Phases
<1>4. ASSUME NEW c \in Conns, Dial(c) PROVE ListenInv'  BY <1>4, Bounds DEF Dial, Phases
<1>5. ASSUME NEW c \in Conns, Refuse(c) PROVE ListenInv'
  BY <1>5, Bounds DEF Refuse, Phases
<1>6. ASSUME NEW c \in Conns, Reply(c) PROVE ListenInv'
  BY <1>6, Bounds DEF Reply, Phases
<1>7. ASSUME NEW c \in Conns, CopyUp(c) PROVE ListenInv'
  BY <1>7, Bounds DEF CopyUp, Phases
<1>8. ASSUME NEW c \in Conns, CopyDown(c) PROVE ListenInv'
  BY <1>8, Bounds DEF CopyDown, Phases
<1>9. ASSUME NEW c \in Conns, RelayEnds(c) PROVE ListenInv'
  BY <1>9, Bounds DEF RelayEnds, Phases
<1>10. ASSUME NEW c \in Conns, Associate(c) PROVE ListenInv'
  BY <1>10, Bounds DEF Associate, Phases
<1>11. ASSUME NEW c \in Conns, Release(c) PROVE ListenInv'
  BY <1>11, Bounds DEF Release, Phases
<1>12. ASSUME NEW c \in Conns, Leave(c) PROVE ListenInv'
  BY <1>12, Bounds DEF Leave, Phases
<1>13. ASSUME NEW c \in Conns, CopyFails(c) PROVE ListenInv'
  BY <1>13, Bounds DEF CopyFails, Phases
<1>14. ASSUME NEW c \in Conns, ClientEnds(c) PROVE ListenInv'
  BY <1>14, Bounds DEF ClientEnds, Phases
<1>15. ASSUME NEW c \in Conns, RemoteEnds(c) PROVE ListenInv'
  BY <1>15, Bounds DEF RemoteEnds, Phases
<1>16. ASSUME NEW s \in Servers, AcceptError(s) PROVE ListenInv'
  BY <1>16, Bounds DEF AcceptError, Phases
<1>17. ASSUME NEW s \in Servers, Admit(s) PROVE ListenInv'
  BY <1>17, Bounds DEF Admit, HeldInv, Phases
<1>18. ASSUME NEW s \in Servers, StopSnapshot(s) PROVE ListenInv'
  BY <1>18, Bounds DEF StopSnapshot, Phases
<1>19. ASSUME NEW s \in Servers, StopListener(s) PROVE ListenInv'
  BY <1>19, Bounds DEF StopListener, Phases
<1>20. ASSUME NEW s \in Servers, StopConns(s) PROVE ListenInv'
  BY <1>20, Bounds DEF StopConns, Phases
<1>21. ASSUME NEW s \in Servers, StopWait(s) PROVE ListenInv'
  BY <1>21, Bounds DEF StopWait, Phases
<1>22. ASSUME NEW s \in Servers, NEW c \in Conns, Connect(c, s) PROVE ListenInv'
  BY <1>22, Bounds DEF Connect, Phases
<1>23. ASSUME NEW s \in Servers, NEW c \in Conns, Accept(s, c) PROVE ListenInv'
  BY <1>23, Bounds DEF Accept, Phases
<1>24. ASSUME NEW s \in Servers, NEW a \in Apps, Opens(s, a) PROVE ListenInv'
  BY <1>24, Bounds DEF Opens, Open, Phases
<1>25. ASSUME NEW s \in Servers, NEW a \in Apps, Refused(s, a) PROVE ListenInv'
  BY <1>25, Bounds DEF Refused, OpenFails, Phases
<1>26. ASSUME NEW s \in Servers, Stops(s) PROVE ListenInv'
  BY <1>26, Bounds DEF Stops, StopBegin, Phases
<1>27. CASE UNCHANGED socksVars
  BY <1>27, Bounds DEF socksVars
<1>28. ASSUME NEW c \in Conns, Hold(c) PROVE ListenInv'
  BY <1>28, Bounds DEF Hold, Phases
<1> QED
  BY <1>1, <1>2, <1>3, <1>4, <1>5, <1>6, <1>7, <1>8, <1>9, <1>10, <1>11, <1>12, <1>13,
     <1>14, <1>15, <1>16, <1>17, <1>18, <1>19, <1>20, <1>21, <1>22, <1>23, <1>24, <1>25,
     <1>26, <1>27, <1>28 DEF ServerNext, SocksNext, SessionStep, StopStep

\* The accept loop holds one connection at a time.
LEMMA HeldStep ==
    ASSUME SocksTypeOK, ServerInv, ServerNext
    PROVE  HeldInv'
<1> USE DEF SocksTypeOK, ServerInv, HeldInv, ListenInv
<1>1. ASSUME NEW c \in Conns, Negotiate(c) PROVE HeldInv'  BY <1>1, Bounds DEF Negotiate
<1>2. ASSUME NEW c \in Conns, Request(c) PROVE HeldInv'  BY <1>2, Bounds DEF Request
<1>3. ASSUME NEW c \in Conns, Resolve(c) PROVE HeldInv'  BY <1>3, Bounds DEF Resolve
<1>4. ASSUME NEW c \in Conns, Dial(c) PROVE HeldInv'  BY <1>4, Bounds DEF Dial
<1>5. ASSUME NEW c \in Conns, Refuse(c) PROVE HeldInv'  BY <1>5, Bounds DEF Refuse
<1>6. ASSUME NEW c \in Conns, Reply(c) PROVE HeldInv'  BY <1>6, Bounds DEF Reply
<1>7. ASSUME NEW c \in Conns, CopyUp(c) PROVE HeldInv'  BY <1>7, Bounds DEF CopyUp
<1>8. ASSUME NEW c \in Conns, CopyDown(c) PROVE HeldInv'  BY <1>8, Bounds DEF CopyDown
<1>9. ASSUME NEW c \in Conns, RelayEnds(c) PROVE HeldInv'  BY <1>9, Bounds DEF RelayEnds
<1>10. ASSUME NEW c \in Conns, Associate(c) PROVE HeldInv'
  BY <1>10, Bounds DEF Associate
<1>11. ASSUME NEW c \in Conns, Release(c) PROVE HeldInv'  BY <1>11, Bounds DEF Release
<1>12. ASSUME NEW c \in Conns, Leave(c) PROVE HeldInv'  BY <1>12, Bounds DEF Leave
<1>13. ASSUME NEW c \in Conns, CopyFails(c) PROVE HeldInv'
  BY <1>13, Bounds DEF CopyFails
<1>14. ASSUME NEW c \in Conns, ClientEnds(c) PROVE HeldInv'
  BY <1>14, Bounds DEF ClientEnds
<1>15. ASSUME NEW c \in Conns, RemoteEnds(c) PROVE HeldInv'
  BY <1>15, Bounds DEF RemoteEnds
<1>16. ASSUME NEW s \in Servers, AcceptError(s) PROVE HeldInv'
  BY <1>16, Bounds DEF AcceptError
<1>17. ASSUME NEW s \in Servers, Admit(s) PROVE HeldInv'  BY <1>17, Bounds DEF Admit
<1>18. ASSUME NEW s \in Servers, StopSnapshot(s) PROVE HeldInv'
  BY <1>18, Bounds DEF StopSnapshot
<1>19. ASSUME NEW s \in Servers, StopListener(s) PROVE HeldInv'
  BY <1>19, Bounds DEF StopListener
<1>20. ASSUME NEW s \in Servers, StopConns(s) PROVE HeldInv'
  BY <1>20, Bounds DEF StopConns
<1>21. ASSUME NEW s \in Servers, StopWait(s) PROVE HeldInv'
  BY <1>21, Bounds DEF StopWait
<1>22. ASSUME NEW s \in Servers, NEW c \in Conns, Connect(c, s) PROVE HeldInv'
  BY <1>22, Bounds DEF Connect, ConnInv
<1>23. ASSUME NEW s \in Servers, NEW c \in Conns, Accept(s, c) PROVE HeldInv'
  BY <1>23, Bounds DEF Accept, ConnInv
<1>24. ASSUME NEW s \in Servers, NEW a \in Apps, Opens(s, a) PROVE HeldInv'
  BY <1>24, Bounds DEF Opens, Open
<1>25. ASSUME NEW s \in Servers, NEW a \in Apps, Refused(s, a) PROVE HeldInv'
  BY <1>25, Bounds DEF Refused, OpenFails
<1>26. ASSUME NEW s \in Servers, Stops(s) PROVE HeldInv'
  BY <1>26, Bounds DEF Stops, StopBegin
<1>27. CASE UNCHANGED socksVars
  BY <1>27, Bounds DEF socksVars
<1>28. ASSUME NEW c \in Conns, Hold(c) PROVE HeldInv'
  BY <1>28, Bounds DEF Hold
<1> QED
  BY <1>1, <1>2, <1>3, <1>4, <1>5, <1>6, <1>7, <1>8, <1>9, <1>10, <1>11, <1>12, <1>13,
     <1>14, <1>15, <1>16, <1>17, <1>18, <1>19, <1>20, <1>21, <1>22, <1>23, <1>24, <1>25,
     <1>26, <1>27, <1>28 DEF ServerNext, SocksNext, SessionStep, StopStep

\* Connections keep their server, and what is closed is closed.
LEMMA ConnStepInv ==
    ASSUME SocksTypeOK, ServerInv, ServerNext
    PROVE  ConnInv'
<1> USE DEF SocksTypeOK, ServerInv, ListenInv, HeldInv, ConnInv
<1>1. ASSUME NEW c \in Conns, Negotiate(c) PROVE ConnInv'
  BY <1>1, Bounds DEF Negotiate, Phases
<1>2. ASSUME NEW c \in Conns, Request(c) PROVE ConnInv'
  BY <1>2, Bounds DEF Request, Phases
<1>3. ASSUME NEW c \in Conns, Resolve(c) PROVE ConnInv'
  BY <1>3, Bounds DEF Resolve, Phases
<1>4. ASSUME NEW c \in Conns, Dial(c) PROVE ConnInv'  BY <1>4, Bounds DEF Dial, Phases
<1>5. ASSUME NEW c \in Conns, Refuse(c) PROVE ConnInv'
  BY <1>5, Bounds DEF Refuse, Phases
<1>6. ASSUME NEW c \in Conns, Reply(c) PROVE ConnInv'  BY <1>6, Bounds DEF Reply, Phases
<1>7. ASSUME NEW c \in Conns, CopyUp(c) PROVE ConnInv'
  BY <1>7, Bounds DEF CopyUp, Phases
<1>8. ASSUME NEW c \in Conns, CopyDown(c) PROVE ConnInv'
  BY <1>8, Bounds DEF CopyDown, Phases
<1>9. ASSUME NEW c \in Conns, RelayEnds(c) PROVE ConnInv'
  BY <1>9, Bounds DEF RelayEnds, Phases
<1>10. ASSUME NEW c \in Conns, Associate(c) PROVE ConnInv'
  BY <1>10, Bounds DEF Associate, Phases
<1>11. ASSUME NEW c \in Conns, Release(c) PROVE ConnInv'
  BY <1>11, Bounds DEF Release, Phases
<1>12. ASSUME NEW c \in Conns, Leave(c) PROVE ConnInv'
  BY <1>12, Bounds DEF Leave, Phases
<1>13. ASSUME NEW c \in Conns, CopyFails(c) PROVE ConnInv'
  BY <1>13, Bounds DEF CopyFails, Phases
<1>14. ASSUME NEW c \in Conns, ClientEnds(c) PROVE ConnInv'
  BY <1>14, Bounds DEF ClientEnds, Phases
<1>15. ASSUME NEW c \in Conns, RemoteEnds(c) PROVE ConnInv'
  BY <1>15, Bounds DEF RemoteEnds, Phases
<1>16. ASSUME NEW s \in Servers, AcceptError(s) PROVE ConnInv'
  BY <1>16, Bounds DEF AcceptError, Phases
<1>17. ASSUME NEW s \in Servers, Admit(s) PROVE ConnInv'
  BY <1>17, Bounds DEF Admit, Phases
<1>18. ASSUME NEW s \in Servers, StopSnapshot(s) PROVE ConnInv'
  BY <1>18, Bounds DEF StopSnapshot, Phases
<1>19. ASSUME NEW s \in Servers, StopListener(s) PROVE ConnInv'
  BY <1>19, Bounds DEF StopListener, Phases
<1>20. ASSUME NEW s \in Servers, StopConns(s) PROVE ConnInv'
  BY <1>20, Bounds DEF StopConns, Phases
<1>21. ASSUME NEW s \in Servers, StopWait(s) PROVE ConnInv'
  BY <1>21, Bounds DEF StopWait, Phases
<1>22. ASSUME NEW s \in Servers, NEW c \in Conns, Connect(c, s) PROVE ConnInv'
  BY <1>22, Bounds DEF Connect, Phases
<1>23. ASSUME NEW s \in Servers, NEW c \in Conns, Accept(s, c) PROVE ConnInv'
  BY <1>23, Bounds DEF Accept, Phases
<1>24. ASSUME NEW s \in Servers, NEW a \in Apps, Opens(s, a) PROVE ConnInv'
  BY <1>24, Bounds DEF Opens, Open, Phases
<1>25. ASSUME NEW s \in Servers, NEW a \in Apps, Refused(s, a) PROVE ConnInv'
  BY <1>25, Bounds DEF Refused, OpenFails, Phases
<1>26. ASSUME NEW s \in Servers, Stops(s) PROVE ConnInv'
  BY <1>26, Bounds DEF Stops, StopBegin, Phases
<1>27. CASE UNCHANGED socksVars
  BY <1>27, Bounds DEF socksVars
<1>28. ASSUME NEW c \in Conns, Hold(c) PROVE ConnInv'
  BY <1>28, Bounds DEF Hold, Phases
<1> QED
  BY <1>1, <1>2, <1>3, <1>4, <1>5, <1>6, <1>7, <1>8, <1>9, <1>10, <1>11, <1>12, <1>13,
     <1>14, <1>15, <1>16, <1>17, <1>18, <1>19, <1>20, <1>21, <1>22, <1>23, <1>24, <1>25,
     <1>26, <1>27, <1>28 DEF ServerNext, SocksNext, SessionStep, StopStep

\* A session holds a connection into the tunnel from Dial to the end of relay.
LEMMA CopyStep ==
    ASSUME SocksTypeOK, ServerInv, ServerNext
    PROVE  CopyInv'
<1> USE DEF SocksTypeOK, ServerInv, HeldInv, CopyInv
<1>1. ASSUME NEW c \in Conns, Negotiate(c) PROVE CopyInv'  BY <1>1 DEF Negotiate
<1>2. ASSUME NEW c \in Conns, Request(c) PROVE CopyInv'  BY <1>2 DEF Request
<1>3. ASSUME NEW c \in Conns, Resolve(c) PROVE CopyInv'  BY <1>3 DEF Resolve
<1>4. ASSUME NEW c \in Conns, Dial(c) PROVE CopyInv'  BY <1>4 DEF Dial
<1>5. ASSUME NEW c \in Conns, Refuse(c) PROVE CopyInv'  BY <1>5 DEF Refuse
<1>6. ASSUME NEW c \in Conns, Reply(c) PROVE CopyInv'  BY <1>6 DEF Reply
<1>7. ASSUME NEW c \in Conns, CopyUp(c) PROVE CopyInv'  BY <1>7 DEF CopyUp
<1>8. ASSUME NEW c \in Conns, CopyDown(c) PROVE CopyInv'  BY <1>8 DEF CopyDown
<1>9. ASSUME NEW c \in Conns, RelayEnds(c) PROVE CopyInv'  BY <1>9 DEF RelayEnds
<1>10. ASSUME NEW c \in Conns, Associate(c) PROVE CopyInv'  BY <1>10 DEF Associate
<1>11. ASSUME NEW c \in Conns, Release(c) PROVE CopyInv'  BY <1>11 DEF Release
<1>12. ASSUME NEW c \in Conns, Leave(c) PROVE CopyInv'  BY <1>12 DEF Leave
<1>13. ASSUME NEW c \in Conns, CopyFails(c) PROVE CopyInv'  BY <1>13 DEF CopyFails
<1>14. ASSUME NEW c \in Conns, ClientEnds(c) PROVE CopyInv'  BY <1>14 DEF ClientEnds
<1>15. ASSUME NEW c \in Conns, RemoteEnds(c) PROVE CopyInv'  BY <1>15 DEF RemoteEnds
<1>16. ASSUME NEW s \in Servers, AcceptError(s) PROVE CopyInv'  BY <1>16 DEF AcceptError
<1>17. ASSUME NEW s \in Servers, Admit(s) PROVE CopyInv'  BY <1>17 DEF Admit
<1>18. ASSUME NEW s \in Servers, StopSnapshot(s) PROVE CopyInv'
  BY <1>18 DEF StopSnapshot
<1>19. ASSUME NEW s \in Servers, StopListener(s) PROVE CopyInv'
  BY <1>19 DEF StopListener
<1>20. ASSUME NEW s \in Servers, StopConns(s) PROVE CopyInv'  BY <1>20 DEF StopConns
<1>21. ASSUME NEW s \in Servers, StopWait(s) PROVE CopyInv'  BY <1>21 DEF StopWait
<1>22. ASSUME NEW s \in Servers, NEW c \in Conns, Connect(c, s) PROVE CopyInv'
  BY <1>22 DEF Connect
<1>23. ASSUME NEW s \in Servers, NEW c \in Conns, Accept(s, c) PROVE CopyInv'
  BY <1>23 DEF Accept
<1>24. ASSUME NEW s \in Servers, NEW a \in Apps, Opens(s, a) PROVE CopyInv'
  BY <1>24 DEF Opens, Open
<1>25. ASSUME NEW s \in Servers, NEW a \in Apps, Refused(s, a) PROVE CopyInv'
  BY <1>25 DEF Refused, OpenFails
<1>26. ASSUME NEW s \in Servers, Stops(s) PROVE CopyInv'  BY <1>26 DEF Stops, StopBegin
<1>27. CASE UNCHANGED socksVars
  BY <1>27 DEF socksVars
<1>28. ASSUME NEW c \in Conns, Hold(c) PROVE CopyInv'
  BY <1>28 DEF Hold
<1> QED
  BY <1>1, <1>2, <1>3, <1>4, <1>5, <1>6, <1>7, <1>8, <1>9, <1>10, <1>11, <1>12, <1>13,
     <1>14, <1>15, <1>16, <1>17, <1>18, <1>19, <1>20, <1>21, <1>22, <1>23, <1>24, <1>25,
     <1>26, <1>27, <1>28 DEF ServerNext, SocksNext, SessionStep, StopStep

-----------------------------------------------------------------------------
(* The steps of the manager *)

ServerOnly == SocksNext /\ UNCHANGED <<reloadVars, managerVars>>

\* On its own a server closes its listening socket, when it is stopped, and nothing
\* else that the manager looks at.
LEMMA SocksKeeps ==
    ASSUME SocksTypeOK, ListenInv, SocksNext
    PROVE  /\ UNCHANGED <<built, closing>>
           /\ listening' \subseteq listening /\ listening \ closing \subseteq listening'
           /\ \A s \in Servers : stop[s] = "stopped" => stop'[s] = "stopped"
<1> USE DEF SocksTypeOK, ListenInv
<1>1. ASSUME NEW c \in Conns, SessionStep(c) \/ CopyFails(c) \/ ClientEnds(c) \/ RemoteEnds(c)
      PROVE  UNCHANGED <<built, closing, listening, stop>>
  BY <1>1 DEF SessionStep, Negotiate, Request, Resolve, Dial, Refuse, Reply, CopyUp, CopyDown,
     RelayEnds, Associate, Hold, Release, Leave, CopyFails, ClientEnds, RemoteEnds
<1>2. ASSUME NEW s \in Servers, AcceptError(s) \/ Admit(s)
      PROVE  UNCHANGED <<built, closing, listening, stop>>
  BY <1>2 DEF AcceptError, Admit
<1>3. ASSUME NEW s \in Servers, NEW c \in Conns, Connect(c, s) \/ Accept(s, c)
      PROVE  UNCHANGED <<built, closing, listening, stop>>
  BY <1>3 DEF Connect, Accept
<1>4. ASSUME NEW s \in Servers, StopStep(s)
      PROVE  /\ UNCHANGED <<built, closing>>
             /\ listening' \subseteq listening /\ listening \ closing \subseteq listening'
             /\ \A t \in Servers : stop[t] = "stopped" => stop'[t] = "stopped"
  BY <1>4 DEF StopStep, StopSnapshot, StopListener, StopConns, StopWait
<1> QED  BY <1>1, <1>2, <1>3, <1>4 DEF SocksNext

\* Every step keeps the types.
LEMMA TypeStep ==
    ASSUME ProxyInv, [Next]_vars
    PROVE  TypeOK'
<1> USE DEF ProxyInv, TypeOK
<1>1. CASE ServerOnly
  BY <1>1, StepIsServerStep, SocksTypeStep DEF ServerOnly, reloadVars, managerVars
<1>2. ASSUME NEW r \in Reloaders, ReloadRead(r) PROVE TypeOK'
  BY <1>2, StepIsServerStep, SocksTypeStep DEF ReloadRead, RGoto, reloadVars,
     managerVars
<1>3. ASSUME NEW r \in Reloaders, ReloadBuild(r) PROVE TypeOK'
  BY <1>3, StepIsServerStep, SocksTypeStep DEF ReloadBuild, RGoto, reloadVars,
     managerVars, Unused
<1>4. ASSUME NEW r \in Reloaders, ReloadBind(r) PROVE TypeOK'
  <2>1. SocksTypeOK'  BY StepIsServerStep, SocksTypeStep
  <2>2. CASE RGoto(r, IF napp[r].addr # rapp[r].addr THEN "stop" ELSE "set")
             /\ UNCHANGED <<managerVars, rapp, rsocks, napp, nsocks>>
    BY <2>1, <2>2 DEF RGoto, managerVars
  <2>3. CASE /\ ReloadEnds(r) /\ UNCHANGED <<app, mstop, msocks>>
             /\ socks' \in {socks, nsocks[r]} /\ down' \in {down, TRUE}
    <3>1. nsocks[r] \in Servers  BY <1>4 DEF ReloadBind, ReloadInv, Unbound
    <3> QED  BY <2>1, <2>3, <3>1 DEF ReloadEnds, RGoto
  <2> QED  BY <1>4, <2>2, <2>3 DEF ReloadBind
<1>5. ASSUME NEW r \in Reloaders, ReloadStop(r) PROVE TypeOK'
  BY <1>5, StepIsServerStep, SocksTypeStep DEF ReloadStop, RGoto, reloadVars,
     managerVars, ReloadEnds, ReloadInv, Unbound, Bound, AfterStop
<1>6. ASSUME NEW r \in Reloaders, ReloadStopped(r) PROVE TypeOK'
  BY <1>6, StepIsServerStep, SocksTypeStep DEF ReloadStopped, RGoto, reloadVars,
     managerVars, ReloadEnds, ReloadInv, Unbound, Bound, AfterStop
<1>7. ASSUME NEW r \in Reloaders, ReloadSet(r) PROVE TypeOK'
  BY <1>7, StepIsServerStep, SocksTypeStep DEF ReloadSet, RGoto, reloadVars,
     managerVars, ReloadEnds, ReloadInv, Unbound, Bound, AfterStop
<1>8. ASSUME NEW r \in Reloaders, ReloadAdopt(r) PROVE TypeOK'
  BY <1>8, StepIsServerStep, SocksTypeStep DEF ReloadAdopt, RGoto, reloadVars,
     managerVars, ReloadEnds, ReloadInv, Unbound, Bound, AfterStop
<1>9. CASE StopRead  BY <1>9, StepIsServerStep, SocksTypeStep DEF StopRead, reloadVars
<1>10. CASE StopPipe  BY <1>10, StepIsServerStep, SocksTypeStep DEF StopPipe, reloadVars
<1>11. CASE StopSocks  BY <1>11, StepIsServerStep, SocksTypeStep DEF StopSocks, reloadVars
<1>12. CASE StopReturn  BY <1>12, StepIsServerStep, SocksTypeStep DEF StopReturn, reloadVars
<1>13. CASE UNCHANGED vars
  BY <1>13, StepIsServerStep, SocksTypeStep DEF vars, reloadVars, managerVars
<1> QED
  BY <1>1, <1>2, <1>3, <1>4, <1>5, <1>6, <1>7, <1>8, <1>9, <1>10, <1>11, <1>12, <1>13
  DEF Next, ReloadStep, ServerOnly

\* A reload keeps its new server to itself.
LEMMA ReloadStepInv ==
    ASSUME ProxyInv, [Next]_vars
    PROVE  ReloadInv'
<1> USE DEF ProxyInv, TypeOK, ReloadInv, Unbound, Bound, Another, ServerInv,
        SocksTypeOK, Serving
<1>1. CASE ServerOnly
  BY <1>1, SocksKeeps DEF ServerOnly, reloadVars, managerVars
<1>2. ASSUME NEW r \in Reloaders, ReloadRead(r) PROVE ReloadInv'
  BY <1>2, SocksAssumption DEF ReloadRead, RGoto, reloadVars, managerVars
<1>3. ASSUME NEW r \in Reloaders, ReloadBuild(r) PROVE ReloadInv'
  BY <1>3, SocksAssumption DEF ReloadBuild, RGoto, reloadVars, managerVars, Rebuild,
     Unused
<1>4. ASSUME NEW r \in Reloaders, ReloadBind(r) PROVE ReloadInv'
  <2>1. /\ nsocks[r] \in Servers /\ nsocks[r] # socks /\ built[nsocks[r]] = None
        /\ napp[r] \in Apps /\ napp[r] # None
    BY <1>4, SocksAssumption DEF ReloadBind
  <2>2. nsocks[r] \notin closing /\ \A q \in Reloaders : rsocks[q] # nsocks[r]
    BY <1>4, <2>1 DEF ReloadBind, ListenInv
  <2>3. CASE /\ Open(nsocks[r], napp[r])
             /\ RGoto(r, IF napp[r].addr # rapp[r].addr THEN "stop" ELSE "set")
             /\ UNCHANGED <<managerVars, rapp, rsocks, napp, nsocks>>
    <3>1. \A t \in Servers : t # nsocks[r] => built'[t] = built[t]  BY <2>3 DEF Open
    <3>2. built'[nsocks[r]] = napp[r] /\ nsocks[r] \in listening'  BY <2>1, <2>3 DEF Open
    <3>3. closing' = closing /\ listening \subseteq listening'  BY <2>3 DEF Open
    <3>4. \A q \in Reloaders : q # r => rpc'[q] = rpc[q]  BY <2>3 DEF RGoto
    <3>5. rpc[r] = "bind" /\ rpc'[r] = IF Another(r) THEN "stop" ELSE "set"
      BY <1>4, <2>3 DEF ReloadBind, RGoto
    <3>6. UNCHANGED <<app, socks, mstop, msocks, down, rapp, rsocks, napp, nsocks>>
      BY <2>3 DEF managerVars
    <3>7. \A q \in Reloaders : q # r => nsocks[q] # nsocks[r]  BY <2>1, SocksAssumption
    <3>8. \A q \in Reloaders : rpc[q] # "idle" => rsocks[q] # nsocks[r]  BY <2>2
    <3> QED  BY <2>1, <2>2, <3>1, <3>2, <3>3, <3>4, <3>5, <3>6, <3>7, <3>8
  <2>4. CASE /\ OpenFails(nsocks[r], napp[r]) /\ ReloadEnds(r) /\ UNCHANGED <<app, mstop, msocks>>
             /\ socks' \in {socks, nsocks[r]}
    <3>1. \A t \in Servers : t # nsocks[r] => built'[t] = built[t]  BY <2>4 DEF OpenFails
    <3>2. built'[nsocks[r]] = napp[r]  BY <2>1, <2>4 DEF OpenFails
    <3>3. UNCHANGED <<closing, listening>>  BY <2>4 DEF OpenFails
    <3>4. \A q \in Reloaders : q # r => /\ rpc'[q] = rpc[q] /\ rapp'[q] = rapp[q]
                                        /\ napp'[q] = napp[q] /\ rsocks'[q] = rsocks[q]
                                        /\ nsocks'[q] = nsocks[q]
      BY <2>4 DEF RGoto, ReloadEnds
    <3>5. rpc'[r] = "idle" /\ rsocks'[r] = None /\ nsocks'[r] = None
      BY <2>4 DEF RGoto, ReloadEnds
    <3>6. None \notin Servers  BY SocksAssumption
    <3>7. UNCHANGED <<mstop, msocks>>  BY <2>4
    <3>8. \A q \in Reloaders : q # r => nsocks[q] # nsocks[r]  BY <2>1, <3>6
    <3> QED  BY <2>1, <2>2, <2>4, <3>1, <3>2, <3>3, <3>4, <3>5, <3>6, <3>7, <3>8, SMTT(30)
  <2> QED  BY <1>4, <2>3, <2>4 DEF ReloadBind
<1>5. ASSUME NEW r \in Reloaders, ReloadStop(r) PROVE ReloadInv'
  <2>1. \A q \in Reloaders : Bound(q) => rsocks[r] # nsocks[q]  OBVIOUS
  <2> QED  BY <1>5, <2>1, SocksAssumption DEF ReloadStop, StopBegin, RGoto, managerVars, AfterStop
<1>6. ASSUME NEW r \in Reloaders, ReloadStopped(r) PROVE ReloadInv'
  BY <1>6, SocksAssumption DEF ReloadStopped, RGoto, reloadVars, managerVars,
     ReloadEnds, AfterStop
<1>7. ASSUME NEW r \in Reloaders, ReloadSet(r) PROVE ReloadInv'
  BY <1>7, SocksAssumption DEF ReloadSet, RGoto, reloadVars, managerVars, ReloadEnds,
     AfterStop
<1>8. ASSUME NEW r \in Reloaders, ReloadAdopt(r) PROVE ReloadInv'
  BY <1>8, SocksAssumption DEF ReloadAdopt, RGoto, reloadVars, managerVars, ReloadEnds,
     AfterStop
<1>9. CASE StopRead  BY <1>9, SocksAssumption DEF StopRead, reloadVars
<1>10. CASE StopPipe  BY <1>10, SocksAssumption DEF StopPipe, reloadVars
<1>11. CASE StopSocks  BY <1>11, SocksAssumption DEF StopSocks, reloadVars, StopBegin
<1>12. CASE StopReturn  BY <1>12, SocksAssumption DEF StopReturn, reloadVars
<1>13. CASE UNCHANGED vars
  BY <1>13, SocksAssumption DEF vars, reloadVars, managerVars
<1> QED
  BY <1>1, <1>2, <1>3, <1>4, <1>5, <1>6, <1>7, <1>8, <1>9, <1>10, <1>11, <1>12, <1>13
  DEF Next, ReloadStep, ServerOnly

\* Something serves, or is about to.
LEMMA CoverStep ==
    ASSUME ProxyInv, [Next]_vars
    PROVE  CoverInv'
<1> USE DEF ProxyInv, TypeOK, ReloadInv, Unbound, Bound, Another, CoverInv, SocksTypeOK, Serving
<1>1. CASE ServerOnly
  BY <1>1, SocksKeeps DEF ServerOnly, reloadVars, managerVars, ServerInv
<1>2. ASSUME NEW r \in Reloaders, ReloadRead(r) PROVE CoverInv'
  BY <1>2 DEF ReloadRead, RGoto, reloadVars, managerVars
<1>3. ASSUME NEW r \in Reloaders, ReloadBuild(r) PROVE CoverInv'
  BY <1>3 DEF ReloadBuild, RGoto, reloadVars, managerVars
<1>4. ASSUME NEW r \in Reloaders, ReloadBind(r) PROVE CoverInv'
  <2>1. CASE down'  BY <2>1
  <2>2. CASE /\ OpenFails(nsocks[r], napp[r]) /\ ReloadEnds(r) /\ Another(r)
             /\ UNCHANGED <<app, mstop, msocks, socks, down>>
    <3>1. UNCHANGED <<listening, closing>>  BY <2>2 DEF OpenFails
    <3>2. \A q \in Reloaders : q # r => /\ rpc'[q] = rpc[q] /\ rapp'[q] = rapp[q]
                                        /\ napp'[q] = napp[q]
      BY <2>2 DEF ReloadEnds, RGoto
    <3>3. rpc[r] = "bind"  BY <1>4 DEF ReloadBind
    <3> QED  BY <2>2, <3>1, <3>2, <3>3, SMTT(30)
  <2>3. CASE /\ RGoto(r, IF napp[r].addr # rapp[r].addr THEN "stop" ELSE "set")
             /\ UNCHANGED <<managerVars, rapp, rsocks, napp, nsocks>>
    BY <2>3 DEF RGoto, managerVars
  <2> QED  BY <1>4, <2>1, <2>2, <2>3 DEF ReloadBind
<1>5. ASSUME NEW r \in Reloaders, ReloadStop(r) PROVE CoverInv'
  BY <1>5 DEF ReloadStop, RGoto, reloadVars, managerVars, ReloadEnds, AfterStop
<1>6. ASSUME NEW r \in Reloaders, ReloadStopped(r) PROVE CoverInv'
  BY <1>6 DEF ReloadStopped, RGoto, reloadVars, managerVars, ReloadEnds, AfterStop
<1>7. ASSUME NEW r \in Reloaders, ReloadSet(r) PROVE CoverInv'
  BY <1>7 DEF ReloadSet, RGoto, reloadVars, managerVars, ReloadEnds, AfterStop
<1>8. ASSUME NEW r \in Reloaders, ReloadAdopt(r) PROVE CoverInv'
  BY <1>8 DEF ReloadAdopt, RGoto, reloadVars, managerVars, ReloadEnds, AfterStop
<1>9. CASE StopRead  BY <1>9 DEF StopRead, reloadVars
<1>10. CASE StopPipe  BY <1>10 DEF StopPipe, reloadVars
<1>11. CASE StopSocks  BY <1>11 DEF StopSocks, reloadVars
<1>12. CASE StopReturn  BY <1>12 DEF StopReturn, reloadVars
<1>13. CASE UNCHANGED vars
  BY <1>13 DEF vars, reloadVars, managerVars
<1> QED
  BY <1>1, <1>2, <1>3, <1>4, <1>5, <1>6, <1>7, <1>8, <1>9, <1>10, <1>11, <1>12, <1>13
  DEF Next, ReloadStep, ServerOnly

\* Whoever stops a server waits until it has stopped, and everyone else finds it
\* stopping.
LEMMA WaitStep ==
    ASSUME ProxyInv, [Next]_vars
    PROVE  WaitInv'
<1> USE DEF ProxyInv, TypeOK, SocksTypeOK, WaitInv, RGoto
<1>1. CASE ServerOnly
  BY <1>1, SocksKeeps DEF ServerOnly, reloadVars, managerVars, ServerInv
<1>2. ASSUME NEW r \in Reloaders, ReloadRead(r) PROVE WaitInv'
  BY <1>2 DEF ReloadRead, managerVars
<1>3. ASSUME NEW r \in Reloaders, ReloadBuild(r) PROVE WaitInv'
  BY <1>3 DEF ReloadBuild, managerVars
<1>4. ASSUME NEW r \in Reloaders, ReloadBind(r) PROVE WaitInv'
  <2>1. Serving /\ rpc[r] = "bind"  BY <1>4 DEF ReloadBind, ReloadInv
  <2>2. UNCHANGED <<closing, mstop, msocks>>
    BY <1>4 DEF ReloadBind, Open, OpenFails, managerVars
  <2>3. \A s \in Servers : stop[s] = "stopped" => stop'[s] = "stopped"
    BY <1>4 DEF ReloadBind, Open, OpenFails
  <2>4. \A q \in Reloaders : q # r => rpc'[q] = rpc[q] /\ rsocks'[q] = rsocks[q]
    BY <1>4 DEF ReloadBind, ReloadEnds
  <2> QED  BY <2>1, <2>2, <2>3, <2>4 DEF Serving
<1>5. ASSUME NEW r \in Reloaders, ReloadStop(r) PROVE WaitInv'
  <2>1. Serving /\ rsocks[r] \in Servers /\ rpc[r] = "stop"  BY <1>5 DEF ReloadStop, ReloadInv
  <2>2. CASE StopBegin(rsocks[r]) /\ RGoto(r, "stopping")
             /\ UNCHANGED <<managerVars, rapp, rsocks, napp, nsocks>>
    BY <2>1, <2>2 DEF StopBegin, managerVars, Serving
  <2>3. CASE /\ RGoto(r, AfterStop(r)) /\ UNCHANGED socksVars
             /\ UNCHANGED <<managerVars, rapp, rsocks, napp, nsocks>>
    BY <2>1, <2>3 DEF managerVars
  <2> QED  BY <1>5, <2>2, <2>3 DEF ReloadStop
<1>6. ASSUME NEW r \in Reloaders, ReloadStopped(r) PROVE WaitInv'
  BY <1>6 DEF ReloadStopped, managerVars
<1>7. ASSUME NEW r \in Reloaders, ReloadSet(r) PROVE WaitInv'
  BY <1>7 DEF ReloadSet
<1>8. ASSUME NEW r \in Reloaders, ReloadAdopt(r) PROVE WaitInv'
  BY <1>8 DEF ReloadAdopt, ReloadEnds
<1>9. CASE StopRead  BY <1>9 DEF StopRead, reloadVars
<1>10. CASE StopPipe  BY <1>10 DEF StopPipe, reloadVars
<1>11. CASE StopSocks
  <2>1. \A s \in closing : stop[s] = "stopped"  BY <1>11 DEF StopSocks
  <2>2. msocks \in Servers  BY <1>11 DEF StopSocks
  <2> QED  BY <1>11, <2>1, <2>2 DEF StopSocks, StopBegin, reloadVars
<1>12. CASE StopReturn  BY <1>12 DEF StopReturn, reloadVars
<1>13. CASE UNCHANGED vars  BY <1>13 DEF vars, reloadVars, managerVars
<1> QED
  BY <1>1, <1>2, <1>3, <1>4, <1>5, <1>6, <1>7, <1>8, <1>9, <1>10, <1>11, <1>12, <1>13
  DEF Next, ReloadStep, ServerOnly

\* While reloads follow one another, at each stage only the servers of that
\* stage listen, and m.app describes the one in force.
LEMMA HonestStep ==
    ASSUME ProxyInv, HonestInv, OneReload, [Next]_vars
    PROVE  HonestInv'
<1> USE DEF ProxyInv, TypeOK, ReloadInv, Unbound, Bound, Another, HonestInv, OneReload,
        MayListen, InForce, ServerInv, ListenInv, SocksTypeOK, Serving
<1>1. CASE ServerOnly
  BY <1>1, SocksKeeps DEF ServerOnly, reloadVars, managerVars, ServerInv, ListenInv
<1>2. ASSUME NEW r \in Reloaders, ReloadRead(r) PROVE HonestInv'
  BY <1>2, SocksAssumption DEF ReloadRead, RGoto, reloadVars, managerVars
<1>3. ASSUME NEW r \in Reloaders, ReloadBuild(r) PROVE HonestInv'
  BY <1>3, SocksAssumption DEF ReloadBuild, RGoto, reloadVars, managerVars, Rebuild
<1>4. ASSUME NEW r \in Reloaders, ReloadBind(r) PROVE HonestInv'
  <2>0. \A q \in Reloaders : q = r  OBVIOUS
  <2>1. /\ nsocks[r] \in Servers /\ nsocks[r] # socks /\ built[nsocks[r]] = None
        /\ nsocks[r] \notin closing /\ rpc[r] = "bind" /\ rapp[r] = app /\ rsocks[r] = socks
        /\ Serving
    BY <1>4 DEF ReloadBind
  <2>2. CASE /\ Open(nsocks[r], napp[r])
             /\ RGoto(r, IF napp[r].addr # rapp[r].addr THEN "stop" ELSE "set")
             /\ UNCHANGED <<managerVars, rapp, rsocks, napp, nsocks>>
    BY <2>0, <2>1, <2>2 DEF Open, RGoto, managerVars
  <2>3. CASE /\ OpenFails(nsocks[r], napp[r]) /\ ReloadEnds(r) /\ Another(r)
             /\ UNCHANGED <<app, mstop, msocks, socks, down>>
    BY <2>0, <2>1, <2>3 DEF OpenFails, ReloadEnds, RGoto
  <2>4. CASE /\ OpenFails(nsocks[r], napp[r]) /\ ReloadEnds(r) /\ ~Another(r)
             /\ UNCHANGED <<app, mstop, msocks>> /\ socks' = nsocks[r] /\ down'
    BY <2>0, <2>1, <2>4 DEF OpenFails, ReloadEnds, RGoto
  <2> QED  BY <1>4, <2>2, <2>3, <2>4 DEF ReloadBind
<1>5. ASSUME NEW r \in Reloaders, ReloadStop(r) PROVE HonestInv'
  BY <1>5, SocksAssumption DEF ReloadStop, RGoto, reloadVars, managerVars, ReloadEnds,
     AfterStop, StopBegin, Open, OpenFails
<1>6. ASSUME NEW r \in Reloaders, ReloadStopped(r) PROVE HonestInv'
  BY <1>6, SocksAssumption, SMTT(30) DEF ReloadStopped, RGoto, reloadVars, managerVars,
     ReloadEnds, AfterStop, StopBegin, Open, OpenFails
<1>7. ASSUME NEW r \in Reloaders, ReloadSet(r) PROVE HonestInv'
  BY <1>7, SocksAssumption DEF ReloadSet, RGoto, reloadVars, managerVars, ReloadEnds,
     AfterStop, StopBegin, Open, OpenFails
<1>8. ASSUME NEW r \in Reloaders, ReloadAdopt(r) PROVE HonestInv'
  BY <1>8, SocksAssumption DEF ReloadAdopt, RGoto, reloadVars, managerVars, ReloadEnds,
     AfterStop, StopBegin, Open, OpenFails
<1>9. CASE StopRead  BY <1>9, SocksAssumption DEF StopRead, reloadVars
<1>10. CASE StopPipe  BY <1>10, SocksAssumption DEF StopPipe, reloadVars
<1>11. CASE StopSocks  BY <1>11, SocksAssumption DEF StopSocks, reloadVars, StopBegin
<1>12. CASE StopReturn  BY <1>12, SocksAssumption DEF StopReturn, reloadVars
<1>13. CASE UNCHANGED vars
  BY <1>13, SocksAssumption DEF vars, reloadVars, managerVars
<1> QED
  BY <1>1, <1>2, <1>3, <1>4, <1>5, <1>6, <1>7, <1>8, <1>9, <1>10, <1>11, <1>12, <1>13
  DEF Next, ReloadStep, ServerOnly

-----------------------------------------------------------------------------
(* Theorems *)

\* The facts about the servers, their sessions and the reloads hold in every state.
THEOREM ProxyInvariant == Spec => []ProxyInv
<1>1. ASSUME Init PROVE ProxyInv
  <2> USE <1>1, ProxyAssumption, Bounds DEF Init, SocksInit
  <2>1. TypeOK
    <3>1. 0 \in 0 .. MaxErrors /\ 0 \in 0 .. Candidates  OBVIOUS
    <3>2. /\ built \in [Servers -> Apps \cup {None}]
          /\ listening \subseteq Servers /\ started \subseteq Servers /\ closing \subseteq Servers
          /\ stop \in [Servers -> {"none", "snapshot", "listener", "conns", "wait", "stopped"}]
          /\ accept \in [Servers -> {"none", "accept", "admit", "done"}]
          /\ held \in [Servers -> Conns \cup {None}]
      OBVIOUS
    <3>3. SocksTypeOK  BY <3>1, <3>2 DEF SocksTypeOK
    <3> QED  BY <3>3 DEF TypeOK
  <2>2. \A s \in Servers : Sessions(s) = {} /\ Holders(s) = {}
    BY DEF Sessions, Holders, Phases
  <2>3. ListenInv  BY <2>2 DEF ListenInv
  <2>4. HeldInv /\ ConnInv /\ CopyInv  BY DEF HeldInv, ConnInv, CopyInv, Phases
  <2>5. TokenInv
    <3>1. FirstApp.max \in Nat  BY SocksAssumption
    <3>2. \A s \in Servers : IsFiniteSet(Holders(s)) /\ Cardinality(Holders(s)) = 0
      BY <2>2, FS_EmptySet
    <3>3. \A s \in Servers : sem[s] = 0 /\ (built[s] # None => built[s] = FirstApp)  OBVIOUS
    <3> QED  BY <3>1, <3>2, <3>3 DEF TokenInv
  <2>6. CountInv
    <3>1. IsFiniteSet({}) /\ Cardinality({}) = 0  BY FS_EmptySet
    <3> QED  BY <2>2, <3>1 DEF CountInv
  <2>7. ReloadInv /\ CoverInv /\ WaitInv
    BY DEF ReloadInv, CoverInv, WaitInv, Unbound, Bound, Serving
  <2> QED  BY <2>1, <2>3, <2>4, <2>5, <2>6, <2>7 DEF ProxyInv, ServerInv
<1>2. ASSUME ProxyInv, [Next]_vars PROVE ProxyInv'
  <2>1. ServerNext  BY <1>2, StepIsServerStep
  <2>2. ServerInv'
    BY <1>2, <2>1, TokenStep, CountStep, ListenStep, HeldStep, ConnStepInv, CopyStep
    DEF ProxyInv, TypeOK, ServerInv
  <2> QED  BY <1>2, <2>2, TypeStep, ReloadStepInv, CoverStep, WaitStep DEF ProxyInv
<1> QED  BY <1>1, <1>2, PTL DEF Spec

\* The state of the proxy stays well typed; in particular no token or count is given
\* back that was not taken, and the accept loop gives up at maxConsecutiveErrors.
THEOREM ProxyTypes == Spec => []TypeOK
<1>1. ProxyInv => TypeOK  BY DEF ProxyInv
<1> QED  BY <1>1, ProxyInvariant, PTL

\* However many clients connect, sessions end and reloads overlap, the tokens of a
\* server are its sessions that have not released theirs, and at most MaxConns.
THEOREM SessionsAreLimited == Spec => []SessionLimit
<1>1. ProxyInv => SessionLimit
  BY DEF ProxyInv, ServerInv, TokenInv, Holders, SessionLimit
<1> QED  BY <1>1, ProxyInvariant, PTL

\* Once Stop has returned nothing of the server is left: no listening socket, no
\* session, token or count, and every connection it took is closed.
THEOREM StopDrains == Spec => []StoppedMeansDrained
<1>1. ASSUME ProxyInv PROVE StoppedMeansDrained
  <2> SUFFICES ASSUME NEW s \in Servers, stop[s] = "stopped"
               PROVE  /\ s \notin listening
                      /\ statActive[s] = 0 /\ sem[s] = 0 /\ active[s] = {}
                      /\ \A c \in Conns : srv[c] = s => pc[c] = "gone" /\ c \in shut
    BY DEF StoppedMeansDrained
  <2> USE <1>1 DEF ProxyInv, TypeOK, SocksTypeOK, ServerInv
  <2>1. s \notin listening /\ Sessions(s) = {} /\ accept[s] \in {"none", "done"}
    BY DEF ListenInv
  <2>2. Holders(s) = {}  BY <2>1 DEF Holders
  <2>3. statActive[s] = 0 /\ sem[s] = 0 /\ active[s] = {}
    BY <2>1, <2>2, FS_EmptySet DEF TokenInv, CountInv
  <2>4. ASSUME NEW c \in Conns, srv[c] = s PROVE pc[c] = "gone" /\ c \in shut
    <3>1. pc[c] \notin Phases  BY <2>1, <2>4 DEF Sessions
    <3>2. pc[c] # "away" /\ pc[c] # "backlog" /\ pc[c] # "held"
      BY <2>1, <2>4, Bounds DEF ConnInv, HeldInv
    <3> QED  BY <3>1, <3>2 DEF ConnInv
  <2> QED  BY <2>1, <2>3, <2>4
<1> QED  BY <1>1, ProxyInvariant, PTL

\* A connection into the tunnel is open from the dial to the end of relay and in no
\* other state of its session.
THEOREM RemotesAreReleased == Spec => []RemoteReleased
<1>1. ProxyInv => RemoteReleased
  BY DEF ProxyInv, ServerInv, CopyInv, RemoteReleased
<1> QED  BY <1>1, ProxyInvariant, PTL

\* However many reloads overlap, until Manager.Stop comes to the listener something
\* listens, or a reload has said that nothing does, or one is about to bind the
\* address it released.
THEOREM ReloadKeepsListening == Spec => []AlwaysListening
<1>1. ProxyInv => AlwaysListening
  BY DEF ProxyInv, CoverInv, ReloadInv, Bound, Another, AlwaysListening
<1> QED  BY <1>1, ProxyInvariant, PTL

\* The stages of a reload, when reloads follow one another.
LEMMA HonestInvariant ==
    ASSUME OneReload
    PROVE  Spec => [](ProxyInv /\ HonestInv)
<1>1. ASSUME Init PROVE HonestInv
  BY <1>1, ProxyAssumption DEF Init, SocksInit, HonestInv, MayListen, InForce, Serving
<1>2. ASSUME ProxyInv, HonestInv, [Next]_vars PROVE HonestInv'
  BY <1>2, HonestStep
<1> QED  BY <1>1, <1>2, ProxyInvariant, PTL DEF Spec

\* When reloads follow one another, m.app describes m.socks, which alone listens,
\* whenever no reload runs and none has failed to bind, until Manager.Stop comes to
\* the listener.
THEOREM ReloadIsHonest ==
    ASSUME OneReload
    PROVE  Spec => []ReloadHonest
<1>1. ASSUME ProxyInv, HonestInv PROVE ReloadHonest
  <2> USE <1>1 DEF ProxyInv, TypeOK, HonestInv
  <2>1. (\A r \in Reloaders : rpc[r] = "idle") => listening \subseteq {socks}
    BY DEF MayListen
  <2>2. ASSUME Serving, ~down, \A r \in Reloaders : rpc[r] = "idle"
        PROVE  built[socks] = app /\ listening = {socks}
    BY <2>1, <2>2 DEF InForce
  <2> QED  BY <2>2 DEF ReloadHonest
<1> QED  BY <1>1, HonestInvariant, PTL

\* When reloads follow one another, Manager.Stop returns with the server it had read
\* stopped and drained, also when a reload in flight was the one to stop it, and at
\* most the server that this reload put in its place is listening then.
THEOREM ManagerStopsItsServer ==
    ASSUME OneReload
    PROVE  Spec => []StopClosesItsServer
<1>1. ASSUME ProxyInv, HonestInv PROVE StopClosesItsServer
  <2> SUFFICES ASSUME mstop = "done"
               PROVE  stop[msocks] = "stopped" /\ listening \subseteq {socks} \ {msocks}
    BY DEF StopClosesItsServer
  <2> USE <1>1 DEF ProxyInv, TypeOK
  <2>1. msocks \in Servers /\ stop[msocks] = "stopped"  BY DEF WaitInv
  <2>2. msocks \notin listening  BY <2>1 DEF ServerInv, ListenInv
  <2>3. \A r \in Reloaders : rpc[r] = "idle"  BY DEF ReloadInv, Serving
  <2>4. listening \subseteq {socks}  BY <2>3 DEF HonestInv, MayListen
  <2> QED  BY <2>1, <2>2, <2>4
<1> QED  BY <1>1, HonestInvariant, PTL
=============================================================================
