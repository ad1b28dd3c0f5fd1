------------------------------- MODULE Proxy -------------------------------
(***************************************************************************)
(* The manager's side of the SOCKS5 listener (internal/service/manager.go):*)
(* Reload, which replaces the server when the listen address, the session  *)
(* limit or UDP changes, and Stop, which reads m.socks, drains the         *)
(* management pipe and then stops the server it has read.  The tunnel part *)
(* of Reload is in module Manager.                                         *)
(***************************************************************************)
EXTENDS SocksServer

CONSTANTS
    Reloaders,   \* the goroutines of reload requests (ParamChange is like one of
                 \* them, except that the thread that handles it also stops)
    First,       \* the server Manager.Start made
    FirstApp     \* its settings

ASSUME ProxyAssumption == First \in Servers /\ FirstApp \in Apps

VARIABLES
    app,      \* m.app
    socks,    \* m.socks
    rpc,      \* Reloaders -> where Reload is
    rapp,     \* Reloaders -> the app it read
    rsocks,   \* Reloaders -> the server it read
    napp,     \* Reloaders -> the settings on disk
    nsocks,   \* Reloaders -> the server it made
    mstop,    \* Manager.Stop
    msocks,   \* the server Manager.Stop read
    down      \* a reload has reported that the proxy is down

reloadVars == <<rpc, rapp, rsocks, napp, nsocks>>
managerVars == <<app, socks, mstop, msocks, down>>
vars == <<socksVars, reloadVars, managerVars>>

\* The state of every server, connection, reload and the manager.
TypeOK ==
    /\ SocksTypeOK
    /\ app \in Apps
    /\ socks \in Servers
    /\ rpc \in [Reloaders -> {"idle", "build", "stop", "stopping", "bind", "set", "adopt"}]
    /\ rapp \in [Reloaders -> Apps \cup {None}]
    /\ rsocks \in [Reloaders -> Servers \cup {None}]
    /\ napp \in [Reloaders -> Apps \cup {None}]
    /\ nsocks \in [Reloaders -> Servers \cup {None}]
    /\ mstop \in {"no", "read", "pipe", "stopping", "done"}
    /\ msocks \in Servers \cup {None}
    /\ mstop # "no" => msocks \in Servers
    /\ down \in BOOLEAN

Init ==
    /\ SocksInit(First, FirstApp)
    /\ app = FirstApp
    /\ socks = First
    /\ rpc = [r \in Reloaders |-> "idle"]
    /\ rapp = [r \in Reloaders |-> None]
    /\ rsocks = [r \in Reloaders |-> None]
    /\ napp = [r \in Reloaders |-> None]
    /\ nsocks = [r \in Reloaders |-> None]
    /\ mstop = "no" /\ msocks = None
    /\ down = FALSE

RGoto(r, label) == rpc' = [rpc EXCEPT ![r] = label]

-----------------------------------------------------------------------------
(* Reload *)

Unused == {s \in Servers : built[s] = None /\ \A r \in Reloaders : nsocks[r] # s}

\* m.app and m.socks are read in one critical section, the file afterwards; a
\* file that does not load, and a tunnel that refuses, leave everything alone.
\* Nothing but the closed pipe keeps a reload from beginning.
ReloadRead(r) ==
    /\ rpc[r] = "idle"
    /\ mstop \in {"no", "read"}
    /\ Unused # {}
    /\ \E a \in Apps :
         /\ rapp' = [rapp EXCEPT ![r] = app]
         /\ rsocks' = [rsocks EXCEPT ![r] = socks]
         /\ napp' = [napp EXCEPT ![r] = a]
    /\ RGoto(r, "build")
    /\ UNCHANGED <<socksVars, managerVars, nsocks>>

Rebuild(r) ==
    \/ napp[r].addr # rapp[r].addr
    \/ napp[r].max # built[rsocks[r]].max
    \/ napp[r].udp # built[rsocks[r]].udp

\* Mutant: the old listener is closed first whatever the address.
ReloadBuildClosing(r) ==
    /\ rpc[r] = "build"
    /\ \/ ~Rebuild(r) /\ RGoto(r, "adopt") /\ nsocks' = nsocks
       \/ /\ Rebuild(r)
          /\ \E s \in Unused : nsocks' = [nsocks EXCEPT ![r] = s]
          /\ RGoto(r, "stop")
    /\ UNCHANGED <<socksVars, managerVars, rapp, rsocks, napp>>

\* The order depends on the address: another one is bound before the old
\* listener closes, the same one afterwards.
ReloadBuild(r) ==
    /\ rpc[r] = "build"
    /\ \/ /\ ~Rebuild(r)
          /\ RGoto(r, "adopt")
          /\ nsocks' = nsocks
       \/ /\ Rebuild(r)
          /\ \E s \in Unused : nsocks' = [nsocks EXCEPT ![r] = s]
          /\ RGoto(r, IF napp[r].addr # rapp[r].addr THEN "bind" ELSE "stop")
    /\ UNCHANGED <<socksVars, managerVars, rapp, rsocks, napp>>

ReloadEnds(r) ==
    /\ RGoto(r, "idle")
    /\ rapp' = [rapp EXCEPT ![r] = None]
    /\ rsocks' = [rsocks EXCEPT ![r] = None]
    /\ napp' = [napp EXCEPT ![r] = None]
    /\ nsocks' = [nsocks EXCEPT ![r] = None]

\* newSocks.Start.  Its failure costs nothing when the old listener still
\* serves; otherwise the new server is recorded and the proxy is down.
ReloadBind(r) ==
    LET another == napp[r].addr # rapp[r].addr
    IN  /\ rpc[r] = "bind"
        /\ \/ /\ Open(nsocks[r], napp[r])
              /\ RGoto(r, IF another THEN "stop" ELSE "set")
              /\ UNCHANGED <<managerVars, rapp, rsocks, napp, nsocks>>
           \/ /\ OpenFails(nsocks[r], napp[r])
              /\ ReloadEnds(r)
              /\ socks' = IF another THEN socks ELSE nsocks[r]
              /\ down' = (down \/ ~another)
              /\ UNCHANGED <<app, mstop, msocks>>

AfterStop(r) == IF napp[r].addr # rapp[r].addr THEN "set" ELSE "bind"

\* Mutant: the server that was replaced is left running.
ReloadStopSkipped(r) ==
    /\ rpc[r] = "stop"
    /\ RGoto(r, AfterStop(r))
    /\ UNCHANGED <<socksVars, managerVars, rapp, rsocks, napp, nsocks>>

\* socksSrv.Stop: it begins here, or returns at once when someone else began it.
ReloadStop(r) ==
    /\ rpc[r] = "stop"
    /\ \/ StopBegin(rsocks[r]) /\ RGoto(r, "stopping")
       \/ rsocks[r] \in closing /\ RGoto(r, AfterStop(r)) /\ UNCHANGED socksVars
    /\ UNCHANGED <<managerVars, rapp, rsocks, napp, nsocks>>

ReloadStopped(r) ==
    /\ rpc[r] = "stopping"
    /\ stop[rsocks[r]] = "stopped"
    /\ RGoto(r, AfterStop(r))
    /\ UNCHANGED <<socksVars, managerVars, rapp, rsocks, napp, nsocks>>

\* m.socks, in a critical section of its own ...
ReloadSet(r) ==
    /\ rpc[r] = "set"
    /\ socks' = nsocks[r]
    /\ RGoto(r, "adopt")
    /\ UNCHANGED <<socksVars, app, mstop, msocks, down, rapp, rsocks, napp, nsocks>>

\* ... and m.app in a later one.
ReloadAdopt(r) ==
    /\ rpc[r] = "adopt"
    /\ app' = napp[r]
    /\ ReloadEnds(r)
    /\ UNCHANGED <<socksVars, socks, mstop, msocks, down>>

-----------------------------------------------------------------------------
(* Stop *)

\* m.socks is read with everything else that Stop needs, ...
StopRead ==
    /\ mstop = "no"
    /\ mstop' = "read"
    /\ msocks' = socks
    /\ UNCHANGED <<socksVars, app, socks, down, reloadVars>>

\* ... pipe.Stop takes no request any more ...
StopPipe ==
    /\ mstop = "read"
    /\ mstop' = "pipe"
    /\ UNCHANGED <<socksVars, app, socks, msocks, down, reloadVars>>

\* Mutant: the server is told to stop and not waited for.
StopSocksOnly ==
    /\ mstop = "pipe"
    /\ \A r \in Reloaders : rpc[r] = "idle"
    /\ StopBegin(msocks) \/ (msocks \in closing /\ UNCHANGED socksVars)
    /\ mstop' = "done"
    /\ UNCHANGED <<app, socks, msocks, down, reloadVars>>

\* ... and has waited for those in flight.  The server that was read is stopped,
\* whatever m.socks is by now.
StopSocks ==
    /\ mstop = "pipe"
    /\ \A r \in Reloaders : rpc[r] = "idle"
    /\ \/ StopBegin(msocks) /\ mstop' = "stopping"
       \/ msocks \in closing /\ mstop' = "done" /\ UNCHANGED socksVars
    /\ UNCHANGED <<app, socks, msocks, down, reloadVars>>

StopReturn ==
    /\ mstop = "stopping"
    /\ stop[msocks] = "stopped"
    /\ mstop' = "done"
    /\ UNCHANGED <<socksVars, app, socks, msocks, down, reloadVars>>

-----------------------------------------------------------------------------
ReloadStep(r) ==
    ReloadBuild(r) \/ ReloadBind(r) \/ ReloadStop(r) \/ ReloadStopped(r)
        \/ ReloadSet(r) \/ ReloadAdopt(r)

Next ==
    \/ SocksNext /\ UNCHANGED <<reloadVars, managerVars>>
    \/ \E r \in Reloaders : ReloadRead(r) \/ ReloadStep(r)
    \/ StopRead \/ StopPipe \/ StopSocks \/ StopReturn

Spec == Init /\ [][Next]_vars

ConnStep(c) == SessionStep(c) /\ UNCHANGED <<reloadVars, managerVars>>
ServerStep(s) ==
    /\ \/ Admit(s) \/ StopStep(s) \/ \E c \in Conns : Accept(s, c)
       \/ s \notin listening /\ AcceptError(s)
    /\ UNCHANGED <<reloadVars, managerVars>>

\* Goroutines are scheduled: sessions, accept loops, Stop and whatever has begun.
\* Clients and remote ends owe nothing, since relaying has no deadline.
Fairness ==
    /\ \A c \in Conns : WF_vars(ConnStep(c))
    /\ \A s \in Servers : WF_vars(ServerStep(s))
    /\ \A r \in Reloaders : WF_vars(ReloadStep(r))
    /\ WF_vars(StopPipe \/ StopSocks \/ StopReturn)

FairSpec == Spec /\ Fairness

-----------------------------------------------------------------------------
(* Properties *)

\* MaxConns, "the concurrent session cap": tokens and sessions agree on every
\* way out of a session, so none is lost and the cap holds.
SessionLimit ==
    \A s \in Servers :
        /\ sem[s] = Cardinality({c \in Sessions(s) : pc[c] # "leave"})
        /\ built[s] # None => sem[s] <= built[s].max

\* Stop "waits for every session goroutine to finish": once it has returned
\* nothing of the server is left, neither a socket nor a count nor a relay.
StoppedMeansDrained ==
    \A s \in Servers : stop[s] = "stopped" =>
        /\ s \notin listening
        /\ statActive[s] = 0 /\ sem[s] = 0 /\ active[s] = {}
        /\ \A c \in Conns : srv[c] = s => pc[c] = "gone" /\ c \in shut

\* A connection into the tunnel is closed on every way out of its session, and
\* never while a direction is still copied.
RemoteReleased ==
    \A c \in Conns :
        /\ remote[c] \in {"up", "eof"} <=> pc[c] \in {"reply", "relay"}
        /\ copying[c] # {} => remote[c] \in {"up", "eof"}

\* Manager.Stop has not come to the listener yet.
Serving == mstop \in {"no", "read", "pipe"}

\* Apart from a failure it reports, a reload never leaves the machine without a
\* listener, also while Stop waits for it: "a failure costs nothing".
AlwaysListening ==
    Serving =>
        \/ listening # {}
        \/ down
        \/ \E r \in Reloaders : rpc[r] \in {"stopping", "bind"} /\ napp[r].addr = rapp[r].addr

\* Outside a reload the server in force is the one the recorded settings
\* describe, and no other is left listening.
ReloadHonest ==
    (Serving /\ ~down /\ \A r \in Reloaders : rpc[r] = "idle") =>
        built[socks] = app /\ listening = {socks}

\* Manager.Stop returns with the server it has read stopped and drained, whoever
\* stopped it; what may be listening then is only the server that a reload put
\* in its place after the read.
StopClosesItsServer ==
    mstop = "done" => stop[msocks] = "stopped" /\ listening \subseteq {socks} \ {msocks}

\* Manager.Stop ends with "AWGSocks stopped, no resources left behind".
NoListenerLeft == mstop = "done" => listening = {}

\* The peer that a session is waiting for: a remote end that says nothing, or a
\* client whose connection Stop did not see.
WaitsForPeer(s) ==
    \E c \in Sessions(s) :
        \/ pc[c] = "relay" /\ "down" \in copying[c] /\ remote[c] = "up"
        \/ pc[c] \in {"relay", "hold"} /\ ~ClientOver(c)

\* Whatever holds a Stop up for ever is a peer: neither the accept loop with a
\* connection in its hand nor a session that nobody is silent in.
StopWaitsOnlyForPeers ==
    \A s \in Servers : []<>(s \in closing => stop[s] = "stopped" \/ WaitsForPeer(s))
=============================================================================
