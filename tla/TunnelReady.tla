---------------------------- MODULE TunnelReady ----------------------------
(***************************************************************************)
(* Readiness of awg.Tunnel (internal/awg/tunnel.go): the supervisor that   *)
(* watches the newest handshake, the readiness channel it closes and       *)
(* replaces, the reported state, and the calls that wait on the channel    *)
(* before they use the network stack: DialTCP, ListenUDP and the lookups.  *)
(*                                                                         *)
(* Start and Stop are called by one goroutine at a time, which startMu     *)
(* guarantees; a rebuild by Reload is its Stop and its Start (module       *)
(* Manager has what happens when it overlaps with another caller).  Reload *)
(* in place runs beside them.  A device and its stack are one identity,    *)
(* a channel is an identity that is fresh when it is made.                 *)
(***************************************************************************)
EXTENDS Naturals, FiniteSets

CONSTANTS
    Dialers,    \* goroutines inside DialTCP, ListenUDP or lookupUncached
    Devices,    \* bound: one for each successful Start
    Chans,      \* identities of readiness channels, reused once forgotten
    Attempts,   \* len(dnsAttemptTimeouts)
    MaxReloads, \* bound: reloads in place
    MaxKicks,   \* bound: requests to reconnect
    None

ASSUME ReadyAssumption ==
    /\ Attempts \in Nat \ {0}
    /\ MaxReloads \in Nat /\ MaxKicks \in Nat
    /\ None \notin Devices \cup Chans
    /\ Chans # {}
    \* make returns a channel that is neither the current one nor waited on
    /\ \A r \in Chans, f \in [Dialers -> Chans \cup {None}] :
         \E c \in Chans : c # r /\ \A x \in Dialers : f[x] # c

VARIABLES
    running,   \* t.running
    dev,       \* t.dev and t.tnet
    ready,     \* t.ready
    shut,      \* the channels that are closed
    state,     \* t.state
    kick,      \* the token in t.kick
    alive,     \* the devices that are open
    hs,        \* the devices whose newest handshake is not stale
    spc,       \* Devices -> the supervise goroutine started with the device
    was,       \* Devices -> its wasConnected
    saw,       \* Devices -> the device whose statistics it has read
    ended,     \* the devices whose supervise context is cancelled
    lpc,       \* the goroutine in Start or Stop
    ldev,      \* the device it works on
    rpc,       \* the goroutine in Reload
    reloads, kicks,
    dpc,       \* Dialers -> where the call is
    net,       \* Dialers -> the stack it read
    chan,      \* Dialers -> the channel it waits on
    ctxDone,   \* the dialers whose context has ended
    att,       \* Dialers -> attempts of lookupUncached
    nf,        \* Dialers -> notFound
    last,      \* Dialers -> lastErr
    answers,   \* Dialers -> how many of its attempts were answered "no such host"
    proved     \* history: Chans -> the device whose handshake closed it

tunnelVars == <<running, dev, ready, shut, state, kick, alive, hs, proved>>
superVars == <<spc, was, saw, ended>>
callerVars == <<lpc, ldev, rpc, reloads, kicks>>
dialVars == <<dpc, net, chan, ctxDone, att, nf, last, answers>>
vars == <<tunnelVars, superVars, callerVars, dialVars>>

\* The state of the tunnel, its supervisors, its callers and the dialers.
TypeOK ==
    /\ running \in BOOLEAN /\ kick \in BOOLEAN
    /\ dev \in Devices \cup {None}
    /\ ready \in Chans /\ shut \subseteq Chans
    /\ state \in {"stopped", "connecting", "connected", "reconnecting", "failed"}
    /\ alive \subseteq Devices /\ hs \subseteq alive
    /\ spc \in [Devices -> {"new", "off", "select", "healthy", "mark", "stale", "lapsed",
                            "reconnect"}]
    /\ was \in [Devices -> BOOLEAN]
    /\ saw \in [Devices -> Devices \cup {None}]
    /\ ended \subseteq Devices
    /\ lpc \in {"idle", "build", "launch", "drain"}
    /\ ldev \in Devices \cup {None}
    /\ rpc \in {"idle", "apply", "mark", "state"}
    /\ reloads \in 0 .. MaxReloads /\ kicks \in 0 .. MaxKicks
    /\ dpc \in [Dialers -> {"idle", "loop", "select", "use", "query", "notfound",
                              "failed"}]
    /\ net \in [Dialers -> Devices \cup {None}]
    /\ chan \in [Dialers -> Chans \cup {None}]
    /\ ctxDone \subseteq Dialers
    /\ att \in [Dialers -> 0 .. Attempts]
    /\ nf \in [Dialers -> BOOLEAN]
    /\ last \in [Dialers -> {"nil", "timeout", "notfound"}]
    /\ answers \in [Dialers -> 0 .. Attempts]
    /\ proved \in [Chans -> Devices \cup {None}]

Init ==
    /\ running = FALSE /\ kick = FALSE
    /\ dev = None
    /\ ready = (CHOOSE c \in Chans : TRUE) /\ shut = {}
    /\ state = "stopped"
    /\ alive = {} /\ hs = {}
    /\ spc = [d \in Devices |-> "new"]
    /\ was = [d \in Devices |-> FALSE]
    /\ saw = [d \in Devices |-> None]
    /\ ended = {}
    /\ lpc = "idle" /\ ldev = None /\ rpc = "idle"
    /\ reloads = 0 /\ kicks = 0
    /\ dpc = [x \in Dialers |-> "idle"]
    /\ net = [x \in Dialers |-> None]
    /\ chan = [x \in Dialers |-> None]
    /\ ctxDone = {}
    /\ att = [x \in Dialers |-> 0]
    /\ nf = [x \in Dialers |-> FALSE]
    /\ last = [x \in Dialers |-> "nil"]
    /\ answers = [x \in Dialers |-> 0]
    /\ proved = [c \in Chans |-> None]

-----------------------------------------------------------------------------
(* The readiness channel *)

FreshChan == CHOOSE c \in Chans : c # ready /\ \A x \in Dialers : chan[x] # c

\* t.ready = make(chan struct{}); channels that nobody waits on are forgotten.
MakeReady ==
    LET waited == {chan[x] : x \in Dialers} \ {None}
    IN  /\ ready' = FreshChan
        /\ shut' = shut \cap waited
        /\ proved' = [c \in Chans |-> IF c \in waited THEN proved[c] ELSE None]

MarkReady(d) ==
    /\ shut' = shut \cup {ready}
    /\ proved' = IF ready \in shut THEN proved ELSE [proved EXCEPT ![ready] = d]
    /\ ready' = ready

\* Mutant: the channel is replaced even if it is open.
MarkNotReadyAlways == IF running THEN MakeReady ELSE UNCHANGED <<ready, shut, proved>>

\* markNotReady: only a closed channel of a running tunnel is replaced.
MarkNotReady ==
    IF running /\ ready \in shut THEN MakeReady ELSE UNCHANGED <<ready, shut, proved>>

-----------------------------------------------------------------------------
(* Start and Stop *)

StartBegin ==
    /\ lpc = "idle" /\ ~running
    /\ \E d \in Devices : spc[d] = "new"
    /\ lpc' = "build"
    /\ state' = "connecting"
    /\ UNCHANGED <<running, dev, ready, shut, kick, alive, hs, proved, superVars, ldev, rpc,
                   reloads, kicks, dialVars>>

StartFails ==
    /\ lpc = "build"
    /\ lpc' = "idle"
    /\ state' = "failed"
    /\ UNCHANGED <<running, dev, ready, shut, kick, alive, hs, proved, superVars, ldev, rpc,
                   reloads, kicks, dialVars>>

\* The device is built and recorded with a new channel.
StartRecord ==
    LET d == CHOOSE d \in Devices : spc[d] = "new"
    IN  /\ lpc = "build"
        /\ running' = TRUE
        /\ dev' = d /\ ldev' = d
        /\ alive' = alive \cup {d}
        /\ MakeReady
        /\ lpc' = "launch"
        /\ UNCHANGED <<state, kick, hs, superVars, rpc, reloads, kicks, dialVars>>

StartLaunch ==
    /\ lpc = "launch"
    /\ spc' = [spc EXCEPT ![ldev] = "select"]
    /\ lpc' = "idle" /\ ldev' = None
    /\ UNCHANGED <<tunnelVars, was, saw, ended, rpc, reloads, kicks, dialVars>>

\* Stop, its critical section: waiting callers are woken by closing the channel.
StopBegin ==
    /\ lpc = "idle" /\ running
    /\ running' = FALSE
    /\ dev' = None /\ ldev' = dev
    /\ shut' = shut \cup {ready}
    /\ ended' = ended \cup {dev}
    /\ lpc' = "drain"
    /\ UNCHANGED <<ready, state, kick, alive, hs, proved, spc, was, saw, rpc, reloads, kicks,
                   dialVars>>

\* Mutant: the supervisor is not waited for.
StopDrainAtOnce ==
    /\ lpc = "drain"
    /\ alive' = alive \ {ldev} /\ hs' = hs \ {ldev}
    /\ state' = "stopped"
    /\ lpc' = "idle" /\ ldev' = None
    /\ UNCHANGED <<running, dev, ready, shut, kick, proved, superVars, rpc, reloads, kicks,
                   dialVars>>

\* Stop, the rest: the supervisor ends, the device closes, the state is set last.
StopDrain ==
    /\ lpc = "drain"
    /\ \A d \in Devices : spc[d] \in {"new", "off"}
    /\ alive' = alive \ {ldev} /\ hs' = hs \ {ldev}
    /\ state' = "stopped"
    /\ lpc' = "idle" /\ ldev' = None
    /\ UNCHANGED <<running, dev, ready, shut, kick, proved, superVars, rpc, reloads, kicks,
                   dialVars>>

-----------------------------------------------------------------------------
(* Reload in place, and Reconnect *)

\* The tunnel runs and its stack stays the same; rendering both configurations
\* may fail and takes long.
ReloadBegin ==
    /\ rpc = "idle" /\ running /\ reloads < MaxReloads
    /\ reloads' = reloads + 1
    /\ rpc' = "apply"
    /\ UNCHANGED <<tunnelVars, superVars, lpc, ldev, kicks, dialVars>>

\* IpcSet on the device that was read, which may be closed by now.  A peer that it
\* replaces has no handshake, which is a handshake grown stale.  When it fails the
\* previous configuration is put back, and when that fails too the state says so.
ReloadApply ==
    /\ rpc = "apply"
    /\ \/ rpc' = "mark" /\ state' = state
       \/ rpc' = "idle" /\ state' \in {state, "failed"}
    /\ UNCHANGED <<running, dev, ready, shut, kick, alive, hs, proved, superVars, lpc, ldev,
                   reloads, kicks, dialVars>>

ReloadMark ==
    /\ rpc = "mark"
    /\ MarkNotReady
    /\ rpc' = "state"
    /\ UNCHANGED <<running, dev, state, kick, alive, hs, superVars, lpc, ldev, reloads, kicks,
                   dialVars>>

\* The state is set whatever has become of the tunnel.
ReloadState ==
    /\ rpc = "state"
    /\ state' = "connecting"
    /\ rpc' = "idle"
    /\ UNCHANGED <<running, dev, ready, shut, kick, alive, hs, proved, superVars, lpc, ldev,
                   reloads, kicks, dialVars>>

Reconnect ==
    /\ kicks < MaxKicks
    /\ kicks' = kicks + 1
    /\ kick' = TRUE
    /\ UNCHANGED <<running, dev, ready, shut, state, alive, hs, proved, superVars, lpc, ldev,
                   rpc, reloads, dialVars>>

-----------------------------------------------------------------------------
(* supervise, the goroutine started with device d *)

SGoto(d, label) == spc' = [spc EXCEPT ![d] = label]

SuperviseEnd(d) ==
    /\ spc[d] = "select" /\ d \in ended
    /\ SGoto(d, "off")
    /\ was' = [was EXCEPT ![d] = FALSE]
    /\ UNCHANGED <<tunnelVars, saw, ended, callerVars, dialVars>>

\* performReconnect, up to its setState.
SuperviseKick(d) ==
    /\ spc[d] = "select" /\ kick
    /\ kick' = FALSE
    /\ MarkNotReady
    /\ was' = [was EXCEPT ![d] = FALSE]
    /\ SGoto(d, IF running THEN "reconnect" ELSE "select")
    /\ UNCHANGED <<running, dev, state, alive, hs, saw, ended, callerVars, dialVars>>

\* ... and the rest: the socket is bound again and a hostname endpoint resolved,
\* which takes long and changes nothing here.
SuperviseReconnect(d) ==
    /\ spc[d] = "reconnect"
    /\ state' = "reconnecting"
    /\ SGoto(d, "select")
    /\ UNCHANGED <<running, dev, ready, shut, kick, alive, hs, proved, was, saw, ended,
                   callerVars, dialVars>>

\* A tick: readStats of whatever device is recorded.
SuperviseTick(d) ==
    /\ spc[d] = "select" /\ running
    /\ saw' = [saw EXCEPT ![d] = dev]
    /\ SGoto(d, IF dev \in hs THEN "healthy" ELSE "stale")
    /\ UNCHANGED <<tunnelVars, was, ended, callerVars, dialVars>>

\* Mutant: the state follows the handshake, the channel does not.
SuperviseHealthyOnly(d) ==
    /\ spc[d] = "healthy"
    /\ state' = "connected"
    /\ was' = [was EXCEPT ![d] = TRUE]
    /\ SGoto(d, "select")
    /\ UNCHANGED <<running, dev, ready, shut, kick, alive, hs, proved, saw, ended, callerVars,
                   dialVars>>

SuperviseHealthy(d) ==
    /\ spc[d] = "healthy"
    /\ state' = "connected"
    /\ was' = [was EXCEPT ![d] = TRUE]
    /\ SGoto(d, "mark")
    /\ UNCHANGED <<running, dev, ready, shut, kick, alive, hs, proved, saw, ended, callerVars,
                   dialVars>>

SuperviseMark(d) ==
    /\ spc[d] = "mark"
    /\ MarkReady(saw[d])
    /\ saw' = [saw EXCEPT ![d] = None]
    /\ SGoto(d, "select")
    /\ UNCHANGED <<running, dev, state, kick, alive, hs, was, ended, callerVars, dialVars>>

SuperviseStale(d) ==
    /\ spc[d] = "stale"
    /\ MarkNotReady
    /\ saw' = [saw EXCEPT ![d] = None]
    /\ SGoto(d, "lapsed")
    /\ UNCHANGED <<running, dev, state, kick, alive, hs, was, ended, callerVars, dialVars>>

\* The state after a stale handshake.  The backoff only decides when the next
\* handshake is asked for.
SuperviseLapsed(d) ==
    /\ spc[d] = "lapsed"
    /\ state' = IF was[d] \/ state = "reconnecting" THEN "reconnecting" ELSE "connecting"
    /\ was' = [was EXCEPT ![d] = FALSE]
    /\ SGoto(d, "select")
    /\ UNCHANGED <<running, dev, ready, shut, kick, alive, hs, proved, saw, ended, callerVars,
                   dialVars>>

\* The peer: a handshake completes, or the newest one grows stale.
HandshakeDone(d) ==
    /\ d \in alive \ hs
    /\ hs' = hs \cup {d}
    /\ UNCHANGED <<running, dev, ready, shut, state, kick, alive, proved, superVars, callerVars,
                   dialVars>>

HandshakeStale(d) ==
    /\ d \in hs
    /\ hs' = hs \ {d}
    /\ UNCHANGED <<running, dev, ready, shut, state, kick, alive, proved, superVars, callerVars,
                   dialVars>>

-----------------------------------------------------------------------------
(* The calls that use the tunnel *)

DGoto(x, label) == dpc' = [dpc EXCEPT ![x] = label]

Returned(x) ==
    /\ DGoto(x, "idle")
    /\ net' = [net EXCEPT ![x] = None]
    /\ chan' = [chan EXCEPT ![x] = None]
    /\ ctxDone' = ctxDone \ {x}
    /\ att' = [att EXCEPT ![x] = 0]
    /\ nf' = [nf EXCEPT ![x] = FALSE]
    /\ last' = [last EXCEPT ![x] = "nil"]
    /\ answers' = [answers EXCEPT ![x] = 0]

\* t.tnet and t.running are read first; a tunnel that is down is an error here.
DialBegin(x) ==
    /\ dpc[x] = "idle" /\ running
    /\ net' = [net EXCEPT ![x] = dev]
    /\ DGoto(x, "loop")
    /\ UNCHANGED <<tunnelVars, superVars, callerVars, chan, ctxDone, att, nf, last, answers>>

\* WaitReady, the head of its loop.
WaitLoop(x) ==
    /\ dpc[x] = "loop"
    /\ \/ ~running /\ Returned(x)
       \/ /\ running
          /\ chan' = [chan EXCEPT ![x] = ready]
          /\ DGoto(x, "select")
          /\ UNCHANGED <<net, ctxDone, att, nf, last, answers>>
    /\ UNCHANGED <<tunnelVars, superVars, callerVars>>

\* Mutant: a closed channel is taken for a handshake.
WaitClosedTrusting(x) ==
    /\ dpc[x] = "select" /\ chan[x] \in shut
    /\ DGoto(x, "use")
    /\ chan' = [chan EXCEPT ![x] = None]
    /\ UNCHANGED <<tunnelVars, superVars, callerVars, net, ctxDone, att, nf, last, answers>>

\* The channel closed: a handshake, a stop, or a channel that was replaced.
WaitClosed(x) ==
    /\ dpc[x] = "select" /\ chan[x] \in shut
    /\ \/ ~running /\ Returned(x)
       \/ /\ running
          /\ DGoto(x, IF ready = chan[x] THEN "use" ELSE "loop")
          /\ chan' = [chan EXCEPT ![x] = None]
          /\ UNCHANGED <<net, ctxDone, att, nf, last, answers>>
    /\ UNCHANGED <<tunnelVars, superVars, callerVars>>

\* The context ended: the state decides.
WaitCtx(x) ==
    /\ dpc[x] = "select" /\ x \in ctxDone
    /\ \/ state # "connected" /\ Returned(x)
       \/ /\ state = "connected"
          /\ DGoto(x, "use")
          /\ chan' = [chan EXCEPT ![x] = None]
          /\ UNCHANGED <<net, ctxDone, att, nf, last, answers>>
    /\ UNCHANGED <<tunnelVars, superVars, callerVars>>

CtxEnds(x) ==
    /\ dpc[x] # "idle"
    /\ ctxDone' = ctxDone \cup {x}
    /\ UNCHANGED <<tunnelVars, superVars, callerVars, dpc, net, chan, att, nf, last, answers>>

\* DialTCP and ListenUDP use the stack they read at the start; lookupUncached
\* goes on to its attempts.
Use(x) ==
    /\ dpc[x] = "use"
    /\ \/ Returned(x)
       \/ DGoto(x, "query") /\ UNCHANGED <<net, chan, ctxDone, att, nf, last, answers>>
    /\ UNCHANGED <<tunnelVars, superVars, callerVars>>

\* Mutant: the first "no such host" is believed.
RetryBelieving(err, notFoundSeen) ==
    [retry |-> err = "timeout", notFound |-> notFoundSeen \/ err = "notfound"]

\* retryDecision: a timeout is tried again, a not-found answer is confirmed once.
RetryDecision(err, notFoundSeen) ==
    [retry |-> err = "timeout" \/ (err = "notfound" /\ ~notFoundSeen),
     notFound |-> notFoundSeen \/ err = "notfound"]

\* Mutant: one attempt more than there are timeouts.
AnotherOff(n) == n <= Attempts

\* The loop condition after n attempts.
Another(n) == n < Attempts

\* One round of the loop of lookupUncached.  Addresses, none that is usable and
\* an error that is not retried all return; so does a context that has ended,
\* with the error of the attempt before it.
Query(x) ==
    /\ dpc[x] = "query"
    /\ \/ IF x \in ctxDone /\ last[x] = "notfound"
          THEN DGoto(x, "notfound") /\ UNCHANGED <<net, chan, ctxDone, att, nf, last, answers>>
          ELSE Returned(x)
       \/ /\ x \notin ctxDone
          /\ \E err \in {"timeout", "notfound"} :
               LET v == RetryDecision(err, nf[x])
                   n == att[x] + 1
               IN  /\ att' = [att EXCEPT ![x] = n]
                   /\ nf' = [nf EXCEPT ![x] = v.notFound]
                   /\ last' = [last EXCEPT ![x] = err]
                   /\ answers' = [answers EXCEPT ![x] = IF err = "notfound" THEN @ + 1 ELSE @]
                   /\ DGoto(x, IF v.retry /\ Another(n) THEN "query"
                               ELSE IF err = "notfound" THEN "notfound" ELSE "failed")
          /\ UNCHANGED <<net, chan, ctxDone>>
    /\ UNCHANGED <<tunnelVars, superVars, callerVars>>

\* The caller is told that the name does not exist, or could not be resolved.
LookupFails(x) ==
    /\ dpc[x] \in {"notfound", "failed"}
    /\ Returned(x)
    /\ UNCHANGED <<tunnelVars, superVars, callerVars>>

-----------------------------------------------------------------------------
SupervisorStep(d) ==
    \/ SuperviseEnd(d) \/ SuperviseKick(d) \/ SuperviseReconnect(d) \/ SuperviseTick(d)
    \/ SuperviseHealthy(d) \/ SuperviseMark(d) \/ SuperviseStale(d) \/ SuperviseLapsed(d)

CallerStep == StartLaunch \/ StopDrain \/ ReloadApply \/ ReloadMark \/ ReloadState

Next ==
    \/ StartBegin \/ StartFails \/ StartRecord \/ StopBegin \/ CallerStep
    \/ ReloadBegin \/ Reconnect
    \/ \E d \in Devices : SupervisorStep(d) \/ HandshakeDone(d) \/ HandshakeStale(d)
    \/ \E x \in Dialers :
         \/ DialBegin(x) \/ WaitLoop(x) \/ WaitClosed(x) \/ WaitCtx(x) \/ CtxEnds(x)
         \/ Use(x) \/ Query(x) \/ LookupFails(x)

Spec == Init /\ [][Next]_vars

\* The supervisor ticks every second, and a call that has begun is finished; the
\* handshake and the callers owe nothing.
FairSpec ==
    /\ Spec
    /\ \A d \in Devices : WF_vars(SupervisorStep(d))
    /\ WF_vars(CallerStep)

-----------------------------------------------------------------------------
(* Properties *)

\* Stop "Close the readiness channel so waiting callers fail immediately", and
\* markNotReady replaces only a closed one: nobody waits on a channel that is
\* neither the current one nor closed, which no step would ever close.
NoOrphanWaiter ==
    \A x \in Dialers : dpc[x] = "select" => chan[x] = ready \/ chan[x] \in shut

\* What makes WaitReady succeed is a handshake of the device in force: a
\* supervisor that is still ending never marks the tunnel that follows.
ReadyMeansHandshake == (running /\ ready \in shut) => proved[ready] = dev

\* "The channel closed: either a handshake completed or the tunnel stopped", or it
\* is an old one: a call whose context lives is let through only by a handshake of
\* the device in force, on a tunnel that runs.  (The end of a context lets a call
\* through on the reported state alone, which outlives the tunnel during a Stop.)
WokenByHandshake ==
    [][\A x \in Dialers : (dpc[x] = "select" /\ dpc'[x] = "use" /\ x \notin ctxDone) =>
          running /\ proved[chan[x]] = dev]_vars

\* "A not-found answer is worth one confirmation before it is believed": a caller
\* is told of one that was not confirmed only when the attempts or its time ran
\* out.
NotFoundConfirmed ==
    \A x \in Dialers : dpc[x] = "notfound" =>
        answers[x] >= 2 \/ att[x] = Attempts \/ x \in ctxDone

Settled == lpc = "idle" /\ rpc = "idle" /\ ~kick

\* However reloads, reconnects and ticks were interleaved, a tunnel that keeps
\* its handshake is reported as connected in the end, and is ready.
Converges ==
    <>[](running /\ dev \in hs /\ Settled) => <>[](state = "connected" /\ ready \in shut)
=============================================================================
