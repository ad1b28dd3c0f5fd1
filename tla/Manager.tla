------------------------------ MODULE Manager ------------------------------
(***************************************************************************)
(* service.Manager (internal/service/manager.go): the goroutines that      *)
(* bring the tunnel up and take it down.  They are                         *)
(*                                                                         *)
(*   Main      the service control loop: Start, Reload (ParamChange),      *)
(*             power events, Stop;                                         *)
(*   Watch     the network watcher goroutine;                              *)
(*   Requests  management pipe requests, each on its own goroutine;        *)
(*   Retries   the goroutines retryStart spawns.                           *)
(*                                                                         *)
(* A thread's position in its own routine is pc[t]; at[t] is its stage in  *)
(* startTunnelOnce and cc[t] its stage in checkConflict, called the way    *)
(* TunnelLifecycle describes.  A step is one critical section of m.mu;     *)
(* reads that only a held lock's owner could invalidate are joined to it.  *)
(***************************************************************************)
EXTENDS TunnelLifecycle

CONSTANTS
    Main, Watch, Requests, Retries,
    Commands,     \* the pipe commands and service controls that arrive
    Faults,       \* the steps of Start that may fail
    AddrOf,       \* Configs -> the tunnel address of the Address line
    AutoStart,    \* auto_start of config.json
    ReadFailures  \* how often reading the adapter addresses may fail

ASSUME ThreadAssumption ==
    /\ Threads = {Main, Watch} \cup Requests \cup Retries
    /\ Main # Watch
    /\ Main \notin Requests \cup Retries
    /\ Watch \notin Requests \cup Retries
    /\ Requests \cap Retries = {}

ASSUME ManagerAssumption ==
    /\ Commands \subseteq {"start", "stop", "reconnect", "reload", "paramchange", "power"}
    /\ Faults \subseteq {"config", "listen", "pipe", "watcher"}
    /\ DOMAIN AddrOf = Configs
    /\ \A a, b \in Configs : StackOf[a] = StackOf[b] => AddrOf[a] = AddrOf[b]
    /\ \A c \in Configs : AddrOf[c] # None
    /\ AutoStart \in BOOLEAN
    /\ ReadFailures \in Nat

Addresses == {AddrOf[c] : c \in Configs}

VARIABLES
    wanted,       \* m.tunnelWanted
    pausedBy,     \* m.pausedBy: the address found on an adapter, or None
    tunCfg,       \* m.tunCfg
    retryCancel,  \* m.retryCancel: the retry it cancels, or None
    retryGen,     \* m.retryGen: the newest retry
    cancelled,    \* the retries whose context is cancelled
    ctxDone,      \* m.ctx is cancelled
    accepting,    \* the management pipe accepts requests
    startMu,      \* owner of m.startMu, or None
    conflictMu,   \* owner of m.conflictMu, or None
    host,         \* the tunnel addresses Windows adapters hold
    readFails,    \* failures left to the adapter reads
    registered,   \* the watcher's notification registration is active
    event,        \* the token in the watcher's event channel
    timer,        \* the debounce timer is armed
    pc, at, cc,
    seen          \* the configuration a thread inside checkConflict read

managerVars == <<wanted, pausedBy, tunCfg, ctxDone, accepting>>
retryVars   == <<retryCancel, retryGen, cancelled>>
lockVars    == <<startMu, conflictMu>>
hostVars    == <<host, readFails>>
watchVars   == <<registered, event, timer>>
callVars    == <<at, cc, seen>>

vars == <<tunnelVars, managerVars, retryVars, lockVars, hostVars, watchVars, callVars, pc>>

\* Where a thread is in its own routine.
MainLabels ==
    {"boot", "checked", "attempted", "listen", "failing", "failed", "pipe", "watch", "serving",
     "reload", "reloaded", "pipestop", "draining", "closing", "stopped"}
WatchLabels == {"idle", "loop", "changed", "settled", "exited"}
RequestLabels ==
    {"idle", "start", "startcheck", "starting", "stop", "stopcancel", "stoplock", "stopping",
     "reconnect", "reload", "reloaded"}
RetryLabels == {"idle", "wait", "try", "tried", "clear"}

TypeOK ==
    /\ TunnelTypeOK
    /\ wanted \in BOOLEAN
    /\ pausedBy \in Addresses \cup {None}
    /\ tunCfg \in Configs \cup {None}
    /\ retryCancel \in Retries \cup {None}
    /\ retryGen \in Retries \cup {None}
    /\ cancelled \subseteq Retries
    /\ ctxDone \in BOOLEAN
    /\ accepting \in BOOLEAN
    /\ startMu \in Threads \cup {None}
    /\ conflictMu \in Threads \cup {None}
    /\ host \subseteq Addresses
    /\ readFails \in 0 .. ReadFailures
    /\ registered \in BOOLEAN
    /\ event \in BOOLEAN
    /\ timer \in BOOLEAN
    /\ pc \in [Threads -> MainLabels \cup WatchLabels \cup RequestLabels \cup RetryLabels]
    /\ pc[Main] \in MainLabels
    /\ pc[Watch] \in WatchLabels
    /\ \A r \in Requests : pc[r] \in RequestLabels
    /\ \A g \in Retries : pc[g] \in RetryLabels
    /\ at \in [Threads -> {"idle", "lock", "running", "starting"}]
    /\ cc \in [Threads -> {"idle", "check", "list", "cancelretry", "stoplock", "stopping", "retry"}]
    /\ seen \in [Threads -> Configs \cup {None}]

Init ==
    /\ TunnelInit
    /\ wanted = FALSE
    /\ pausedBy = None
    /\ tunCfg = None
    /\ retryCancel = None
    /\ retryGen = None
    /\ cancelled = {}
    /\ ctxDone = FALSE
    /\ accepting = FALSE
    /\ startMu = None
    /\ conflictMu = None
    /\ host \in SUBSET Addresses
    /\ readFails = ReadFailures
    /\ registered = FALSE
    /\ event = FALSE
    /\ timer = FALSE
    /\ pc = [t \in Threads |-> IF t = Main THEN "boot" ELSE "idle"]
    /\ at = [t \in Threads |-> "idle"]
    /\ cc = [t \in Threads |-> "idle"]
    /\ seen = [t \in Threads |-> None]

\* No call of t is in progress, so its own routine goes on.
Idle(t) == TunnelIdle(t) /\ at[t] = "idle" /\ cc[t] = "idle"

Goto(t, label) == pc' = [pc EXCEPT ![t] = label]

-----------------------------------------------------------------------------
(* startTunnelOnce *)

\* Mutant: the attempt does not look at pausedBy.
AttemptLockUnpaused(t) ==
    /\ at[t] = "lock"
    /\ startMu = None
    /\ at' = [at EXCEPT ![t] = "running"]
    /\ startMu' = t
    /\ UNCHANGED <<tunnelVars, managerVars, retryVars, conflictMu, hostVars, watchVars, cc, seen, pc>>

\* Mutant: the attempt does not take startMu.
AttemptLockUnserialised(t) ==
    /\ at[t] = "lock"
    /\ pausedBy = None
    /\ at' = [at EXCEPT ![t] = "running"]
    /\ UNCHANGED <<tunnelVars, managerVars, retryVars, lockVars, hostVars, watchVars, cc, seen, pc>>

\* startMu is taken and pausedBy read under it.
AttemptLock(t) ==
    /\ at[t] = "lock"
    /\ startMu = None
    /\ \/ /\ pausedBy # None
          /\ at' = [at EXCEPT ![t] = "idle"]
          /\ res' = [res EXCEPT ![t] = "paused"]
          /\ startMu' = startMu
       \/ /\ pausedBy = None
          /\ at' = [at EXCEPT ![t] = "running"]
          /\ startMu' = t
          /\ res' = res
    /\ UNCHANGED <<deviceVars, op, rs, hold, bcfg, rl, managerVars, retryVars, conflictMu,
                   hostVars, watchVars, cc, seen, pc>>

AttemptRunning(t) ==
    /\ at[t] = "running"
    /\ \/ /\ running
          /\ at' = [at EXCEPT ![t] = "idle"]
          /\ startMu' = None
          /\ res' = [res EXCEPT ![t] = "ok"]
          /\ op' = op
       \/ /\ ~running
          /\ at' = [at EXCEPT ![t] = "starting"]
          /\ op' = [op EXCEPT ![t] = "start"]
          /\ UNCHANGED <<startMu, res>>
    /\ UNCHANGED <<deviceVars, rs, hold, bcfg, rl, managerVars, retryVars, conflictMu,
                   hostVars, watchVars, cc, seen, pc>>

AttemptUnlock(t) ==
    /\ at[t] = "starting" /\ op[t] = "idle"
    /\ at' = [at EXCEPT ![t] = "idle"]
    /\ startMu' = None
    /\ UNCHANGED <<tunnelVars, managerVars, retryVars, conflictMu, hostVars, watchVars, cc, seen, pc>>

-----------------------------------------------------------------------------
(* The retry loop *)

\* Mutant: the cancel function is called without the nil check.
CancelRetryUnchecked ==
    /\ cancelled' = cancelled \cup {retryCancel}
    /\ retryCancel' = None
    /\ retryGen' = retryGen

\* cancelRetry takes the cancel function under m.mu and calls it.
CancelRetry ==
    /\ cancelled' = cancelled \cup ({retryCancel} \ {None})
    /\ retryCancel' = None
    /\ retryGen' = retryGen

\* retryStart replaces whatever retry is recorded and spawns its goroutine.  A
\* generation is only compared for equality, so an identity that no live
\* goroutine has stands for the next number.
RetryStart(g) ==
    /\ pc[g] = "idle"
    /\ Idle(g)
    /\ cancelled' = cancelled \cup ({retryCancel} \ {None})
    /\ retryCancel' = g
    /\ retryGen' = g

RetryDone(g) == ctxDone \/ g \in cancelled

\* The select: the context is done, or the delay is over.  How long the delay
\* is, and whether wakeRetry cuts it short, is left open.
RetrySelect(g) ==
    /\ pc[g] = "wait"
    /\ \/ RetryDone(g) /\ Goto(g, "clear")
       \/ Goto(g, "try")
    /\ UNCHANGED <<tunnelVars, managerVars, retryVars, lockVars, hostVars, watchVars, callVars>>

\* A tunnel brought up by a manual start meanwhile ends the loop.
RetryTry(g) ==
    /\ pc[g] = "try"
    /\ \/ running /\ Goto(g, "clear") /\ at' = at
       \/ ~running /\ Goto(g, "tried") /\ at' = [at EXCEPT ![g] = "lock"]
    /\ UNCHANGED <<tunnelVars, managerVars, retryVars, lockVars, hostVars, watchVars, cc, seen>>

\* Mutant: any failure ends the loop.
RetryTriedOnce(g) ==
    /\ pc[g] = "tried" /\ Idle(g)
    /\ Goto(g, "clear")
    /\ res' = [res EXCEPT ![g] = "none"]
    /\ UNCHANGED <<deviceVars, op, rs, hold, bcfg, rl, managerVars, retryVars, lockVars,
                   hostVars, watchVars, callVars>>


RetryTried(g) ==
    /\ pc[g] = "tried" /\ Idle(g)
    /\ Goto(g, IF RetryDone(g) \/ res[g] \in {"ok", "paused"} THEN "clear" ELSE "wait")
    /\ res' = [res EXCEPT ![g] = "none"]
    /\ UNCHANGED <<deviceVars, op, rs, hold, bcfg, rl, managerVars, retryVars, lockVars,
                   hostVars, watchVars, callVars>>

\* Mutant: clearRetry erases the record of whichever retry is there.
RetryClearAny(g) ==
    /\ pc[g] = "clear"
    /\ cancelled' = cancelled \ {g}
    /\ retryCancel' = None
    /\ Goto(g, "idle")
    /\ UNCHANGED <<tunnelVars, managerVars, retryGen, lockVars, hostVars, watchVars, callVars>>

\* clearRetry, deferred by the goroutine: its context goes with it, and the
\* record is erased only if it is still this generation's.
RetryClear(g) ==
    /\ pc[g] = "clear"
    /\ cancelled' = cancelled \ {g}
    /\ retryCancel' = IF retryGen = g THEN None ELSE retryCancel
    /\ Goto(g, "idle")
    /\ UNCHANGED <<tunnelVars, managerVars, retryGen, lockVars, hostVars,
                   watchVars, callVars>>

RetryStep(g) == RetrySelect(g) \/ RetryTry(g) \/ RetryTried(g) \/ RetryClear(g)

-----------------------------------------------------------------------------
(* checkConflict, pause and resume *)

configConflict(c, addrs) == AddrOf[c] \in addrs

CheckReturn(t, result) ==
    /\ cc' = [cc EXCEPT ![t] = "idle"]
    /\ res' = [res EXCEPT ![t] = result]
    /\ conflictMu' = None

\* conflictMu is taken and the configuration read.
CheckBegin(t) ==
    /\ cc[t] = "check" /\ conflictMu = None
    /\ conflictMu' = t
    /\ seen' = [seen EXCEPT ![t] = tunCfg]
    /\ cc' = [cc EXCEPT ![t] = "list"]
    /\ UNCHANGED <<tunnelVars, managerVars, retryVars, startMu, hostVars, watchVars, at, pc>>

\* Mutant: a failed read counts as "no conflict".
CheckUnreadClears(t) ==
    /\ cc[t] = "list"
    /\ readFails > 0
    /\ readFails' = readFails - 1
    /\ pausedBy' = None
    /\ seen' = [seen EXCEPT ![t] = None]
    /\ CheckReturn(t, "ok")
    /\ UNCHANGED <<deviceVars, op, rs, hold, bcfg, rl, wanted, tunCfg, ctxDone, accepting,
                   retryVars, startMu, host, watchVars, at, pc>>

\* A failed read neither pauses nor resumes.
CheckUnread(t) ==
    /\ cc[t] = "list"
    /\ readFails > 0
    /\ readFails' = readFails - 1
    /\ seen' = [seen EXCEPT ![t] = None]
    /\ CheckReturn(t, IF pausedBy # None THEN "paused" ELSE "ok")
    /\ UNCHANGED <<deviceVars, op, rs, hold, bcfg, rl, managerVars, retryVars, startMu,
                   host, watchVars, at, pc>>

\* The adapter addresses are read, and pausedBy, which only the owner of
\* conflictMu writes, is set or cleared.
CheckRead(t) ==
    /\ cc[t] = "list"
    /\ seen' = [seen EXCEPT ![t] = None]
    /\ \/ /\ configConflict(seen[t], host) /\ pausedBy = None
          /\ pausedBy' = AddrOf[seen[t]]
          /\ cc' = [cc EXCEPT ![t] = "cancelretry"]
          /\ UNCHANGED <<conflictMu, res>>
       \/ /\ configConflict(seen[t], host) /\ pausedBy # None
          /\ pausedBy' = AddrOf[seen[t]]
          /\ CheckReturn(t, "paused")
       \/ /\ ~configConflict(seen[t], host) /\ pausedBy # None /\ wanted
          /\ pausedBy' = None
          /\ cc' = [cc EXCEPT ![t] = "retry"]
          /\ UNCHANGED <<conflictMu, res>>
       \/ /\ ~configConflict(seen[t], host) /\ (pausedBy = None \/ ~wanted)
          /\ pausedBy' = None
          /\ CheckReturn(t, "ok")
    /\ UNCHANGED <<deviceVars, op, rs, hold, bcfg, rl, wanted, tunCfg, ctxDone, accepting,
                   retryVars, startMu, hostVars, watchVars, at, pc>>

PauseCancelRetry(t) ==
    /\ cc[t] = "cancelretry"
    /\ CancelRetry
    /\ cc' = [cc EXCEPT ![t] = "stoplock"]
    /\ UNCHANGED <<tunnelVars, managerVars, lockVars, hostVars, watchVars, at, seen, pc>>

PauseLock(t) ==
    /\ cc[t] = "stoplock" /\ startMu = None
    /\ startMu' = t
    /\ op' = [op EXCEPT ![t] = "stop"]
    /\ cc' = [cc EXCEPT ![t] = "stopping"]
    /\ UNCHANGED <<deviceVars, rs, res, hold, bcfg, rl, managerVars, retryVars, conflictMu,
                   hostVars, watchVars, at, seen, pc>>

PauseUnlock(t) ==
    /\ cc[t] = "stopping" /\ op[t] = "idle"
    /\ startMu' = None
    /\ CheckReturn(t, "paused")
    /\ UNCHANGED <<deviceVars, op, rs, hold, bcfg, rl, managerVars, retryVars, hostVars,
                   watchVars, at, seen, pc>>

\* Mutant: resume ends the pause and brings nothing back.
ResumeOnly(t) ==
    /\ cc[t] = "retry"
    /\ CheckReturn(t, "ok")
    /\ UNCHANGED <<deviceVars, op, rs, hold, bcfg, rl, managerVars, retryVars, startMu, hostVars,
                   watchVars, at, seen, pc>>

\* resume found the tunnel wanted, in an earlier critical section of m.mu.
ResumeRetry(t) ==
    /\ cc[t] = "retry"
    /\ \E g \in Retries : RetryStart(g) /\ Goto(g, "wait")
    /\ CheckReturn(t, "ok")
    /\ UNCHANGED <<deviceVars, op, rs, hold, bcfg, rl, managerVars, startMu, hostVars,
                   watchVars, at, seen>>

\* The frame of a step that only the tunnel's variables take part in.
Others == <<managerVars, retryVars, lockVars, hostVars, watchVars, callVars, pc>>

CallStep(t) ==
    \/ TunnelStep(t) /\ UNCHANGED Others
    \/ AttemptLock(t) \/ AttemptRunning(t) \/ AttemptUnlock(t)
    \/ CheckBegin(t) \/ CheckUnread(t) \/ CheckRead(t)
    \/ PauseCancelRetry(t) \/ PauseLock(t) \/ PauseUnlock(t) \/ ResumeRetry(t)

-----------------------------------------------------------------------------
(* The network watcher *)

\* The adapter addresses change, of which only the tunnel addresses matter;
\* Windows notifies the watcher once it is registered, and a notification that
\* is already queued covers this one.  There is no initial notification.
AddressChange ==
    /\ host' \in SUBSET Addresses
    /\ event' = (event \/ registered)
    /\ UNCHANGED <<tunnelVars, managerVars, retryVars, lockVars, readFails, registered, timer,
                   callVars, pc>>

\* networkChanged checks at once, before the debounce timer is armed.
WatchEvent ==
    /\ pc[Watch] = "loop"
    /\ event
    /\ event' = FALSE
    /\ cc' = [cc EXCEPT ![Watch] = "check"]
    /\ Goto(Watch, "changed")
    /\ UNCHANGED <<tunnelVars, managerVars, retryVars, lockVars, hostVars, registered, timer, at, seen>>

WatchChanged ==
    /\ pc[Watch] = "changed" /\ Idle(Watch)
    /\ timer' = TRUE
    /\ res' = [res EXCEPT ![Watch] = "none"]
    /\ Goto(Watch, "loop")
    /\ UNCHANGED <<deviceVars, op, rs, hold, bcfg, rl, managerVars, retryVars, lockVars,
                   hostVars, registered, event, callVars>>

WatchTimer ==
    /\ pc[Watch] = "loop"
    /\ timer
    /\ timer' = FALSE
    /\ cc' = [cc EXCEPT ![Watch] = "check"]
    /\ Goto(Watch, "settled")
    /\ UNCHANGED <<tunnelVars, managerVars, retryVars, lockVars, hostVars, registered, event, at, seen>>

\* networkSettled after its own check: rebind a running tunnel, do nothing for
\* a paused one.  The wake of a pending retry only cuts its delay short.
WatchSettled ==
    /\ pc[Watch] = "settled" /\ Idle(Watch)
    /\ IF res[Watch] = "ok" /\ running THEN Reconnect ELSE kick' = kick
    /\ res' = [res EXCEPT ![Watch] = "none"]
    /\ Goto(Watch, "loop")
    /\ UNCHANGED <<cfg, running, dev, open, devCfg, sup, supCancelled, sv, op, rs, hold, bcfg,
                   rl, managerVars, retryVars, lockVars, hostVars, watchVars, callVars>>

WatchExit ==
    /\ pc[Watch] = "loop"
    /\ ctxDone
    /\ timer' = FALSE
    /\ Goto(Watch, "exited")
    /\ UNCHANGED <<tunnelVars, managerVars, retryVars, lockVars, hostVars, registered, event,
                   callVars>>

WatchStep == WatchEvent \/ WatchChanged \/ WatchTimer \/ WatchSettled \/ WatchExit

-----------------------------------------------------------------------------
(* Management requests *)

\* A request arrives on the pipe and is dispatched.
Request(r) ==
    /\ pc[r] = "idle"
    /\ accepting
    /\ \E command \in Commands \cap {"start", "stop", "reconnect"} : Goto(r, command)
    /\ UNCHANGED <<tunnelVars, managerVars, retryVars, lockVars, hostVars, watchVars, callVars>>

ReconnectStep(r) ==
    /\ pc[r] = "reconnect"
    /\ \/ running /\ Reconnect /\ Goto(r, "idle")
       \/ ~running /\ kick' = kick /\ Goto(r, "start")
    /\ UNCHANGED <<cfg, running, dev, open, devCfg, sup, supCancelled, sv, stageVars, managerVars,
                   retryVars, lockVars, hostVars, watchVars, callVars>>

StartTunnel(r) ==
    /\ pc[r] = "start"
    /\ wanted' = TRUE
    /\ Goto(r, "startcheck")
    /\ UNCHANGED <<tunnelVars, pausedBy, tunCfg, ctxDone, accepting, retryVars, lockVars, hostVars,
                   watchVars, callVars>>

\* A pending retry is left alone.
StartTunnelCheck(r) ==
    /\ pc[r] = "startcheck"
    /\ \/ running /\ Goto(r, "idle") /\ at' = at
       \/ ~running /\ Goto(r, "starting") /\ at' = [at EXCEPT ![r] = "lock"]
    /\ UNCHANGED <<tunnelVars, managerVars, retryVars, lockVars, hostVars, watchVars, cc, seen>>

StartTunnelReturn(r) ==
    /\ pc[r] = "starting" /\ Idle(r)
    /\ res' = [res EXCEPT ![r] = "none"]
    /\ Goto(r, "idle")
    /\ UNCHANGED <<deviceVars, op, rs, hold, bcfg, rl, managerVars, retryVars, lockVars,
                   hostVars, watchVars, callVars>>

StopTunnel(r) ==
    /\ pc[r] = "stop"
    /\ wanted' = FALSE
    /\ Goto(r, "stopcancel")
    /\ UNCHANGED <<tunnelVars, pausedBy, tunCfg, ctxDone, accepting, retryVars, lockVars, hostVars,
                   watchVars, callVars>>

StopTunnelCancel(r) ==
    /\ pc[r] = "stopcancel"
    /\ CancelRetry
    /\ Goto(r, "stoplock")
    /\ UNCHANGED <<tunnelVars, managerVars, lockVars, hostVars, watchVars, callVars>>

StopTunnelLock(r) ==
    /\ pc[r] = "stoplock" /\ startMu = None
    /\ startMu' = r
    /\ op' = [op EXCEPT ![r] = "stop"]
    /\ Goto(r, "stopping")
    /\ UNCHANGED <<deviceVars, rs, res, hold, bcfg, rl, managerVars, retryVars, conflictMu,
                   hostVars, watchVars, callVars>>

StopTunnelReturn(r) ==
    /\ pc[r] = "stopping" /\ op[r] = "idle"
    /\ startMu' = None
    /\ Goto(r, "idle")
    /\ UNCHANGED <<tunnelVars, managerVars, retryVars, conflictMu, hostVars, watchVars, callVars>>

RequestStep(r) ==
    \/ ReconnectStep(r) \/ StartTunnel(r) \/ StartTunnelCheck(r) \/ StartTunnelReturn(r)
    \/ StopTunnel(r) \/ StopTunnelCancel(r) \/ StopTunnelLock(r) \/ StopTunnelReturn(r)

-----------------------------------------------------------------------------
(* Manager.Reload, by a request or by the control loop *)

Home(t) == IF t = Main THEN "serving" ELSE "idle"

\* The pipe takes the command, or svc.ParamChange makes the control loop itself
\* run the reload.
MayReload(t) ==
    IF t = Main THEN "paramchange" \in Commands ELSE "reload" \in Commands /\ accepting

\* Reload loads the files, then calls Tunnel.Reload.
Reload(t) ==
    /\ pc[t] = Home(t)
    /\ MayReload(t)
    /\ \E c \in Configs : rl' = [rl EXCEPT ![t].next = c]
    /\ rs' = [rs EXCEPT ![t] = "begin"]
    /\ Goto(t, "reload")
    /\ UNCHANGED <<deviceVars, op, res, hold, bcfg, managerVars, retryVars, lockVars, hostVars,
                   watchVars, callVars>>

\* Once the tunnel has adopted the configuration the manager records it and
\* checks it against the adapters; a tunnel that refused it ends the reload.
ReloadAdopted(t) ==
    /\ pc[t] = "reload" /\ Idle(t)
    /\ \/ /\ res[t] = "ok"
          /\ tunCfg' = rl[t].next
          /\ cc' = [cc EXCEPT ![t] = "check"]
          /\ Goto(t, "reloaded")
       \/ /\ res[t] = "fail"
          /\ Goto(t, Home(t))
          /\ UNCHANGED <<tunCfg, cc>>
    /\ res' = [res EXCEPT ![t] = "none"]
    /\ rl' = [rl EXCEPT ![t] = NoReload]
    /\ UNCHANGED <<deviceVars, op, rs, hold, bcfg, wanted, pausedBy, ctxDone, accepting,
                   retryVars, lockVars, hostVars, watchVars, at, seen>>

ReloadReturned(t) ==
    /\ pc[t] = "reloaded" /\ Idle(t)
    /\ res' = [res EXCEPT ![t] = "none"]
    /\ Goto(t, Home(t))
    /\ UNCHANGED <<deviceVars, op, rs, hold, bcfg, rl, managerVars, retryVars, lockVars,
                   hostVars, watchVars, callVars>>

ReloadStep(t) == ReloadAdopted(t) \/ ReloadReturned(t)

-----------------------------------------------------------------------------
(* Start, the control loop and Stop *)

\* Start loads the configuration and records the runtime.
Start ==
    /\ pc[Main] = "boot"
    /\ \E c \in Configs : cfg' = c /\ tunCfg' = c
    /\ wanted' = AutoStart
    /\ IF AutoStart
       THEN Goto(Main, "checked") /\ cc' = [cc EXCEPT ![Main] = "check"]
       ELSE Goto(Main, "listen") /\ cc' = cc
    /\ UNCHANGED <<running, dev, open, devCfg, sup, supCancelled, kick, sv, stageVars, pausedBy,
                   ctxDone, accepting, retryVars, lockVars, hostVars, watchVars, at, seen>>

\* A configuration that cannot be loaded ends the service before anything runs.
StartRefused ==
    /\ pc[Main] = "boot"
    /\ "config" \in Faults
    /\ Goto(Main, "failed")
    /\ UNCHANGED <<tunnelVars, managerVars, retryVars, lockVars, hostVars, watchVars, callVars>>

StartAttempt ==
    /\ pc[Main] = "checked" /\ Idle(Main)
    /\ at' = [at EXCEPT ![Main] = "lock"]
    /\ Goto(Main, "attempted")
    /\ UNCHANGED <<tunnelVars, managerVars, retryVars, lockVars, hostVars, watchVars, cc, seen>>

\* A tunnel that could not be started is retried; a paused one is not.
StartRetry ==
    /\ pc[Main] = "attempted" /\ Idle(Main)
    /\ \/ /\ res[Main] = "fail"
          /\ \E g \in Retries :
               /\ RetryStart(g)
               /\ pc' = [pc EXCEPT ![Main] = "listen", ![g] = "wait"]
       \/ /\ res[Main] # "fail"
          /\ Goto(Main, "listen")
          /\ UNCHANGED retryVars
    /\ res' = [res EXCEPT ![Main] = "none"]
    /\ UNCHANGED <<deviceVars, op, rs, hold, bcfg, rl, managerVars, lockVars, hostVars,
                   watchVars, callVars>>

\* The SOCKS5 listener: when it cannot be bound the context is cancelled, the
\* tunnel stopped and the service exits.
StartListen ==
    /\ pc[Main] = "listen"
    /\ \/ Goto(Main, "pipe") /\ UNCHANGED <<ctxDone, op>>
       \/ /\ "listen" \in Faults
          /\ ctxDone' = TRUE
          /\ op' = [op EXCEPT ![Main] = "stop"]
          /\ Goto(Main, "failing")
    /\ UNCHANGED <<deviceVars, rs, res, hold, bcfg, rl, wanted, pausedBy, tunCfg, accepting,
                   retryVars, lockVars, hostVars, watchVars, callVars>>

StartFailed ==
    /\ pc[Main] = "failing" /\ Idle(Main)
    /\ Goto(Main, "failed")
    /\ UNCHANGED <<tunnelVars, managerVars, retryVars, lockVars, hostVars, watchVars, callVars>>

\* The service goes on without a management pipe.
StartPipe ==
    /\ pc[Main] = "pipe"
    /\ accepting' \in {TRUE} \cup {"pipe" \notin Faults}
    /\ Goto(Main, "watch")
    /\ UNCHANGED <<tunnelVars, wanted, pausedBy, tunCfg, ctxDone, retryVars, lockVars, hostVars,
                   watchVars, callVars>>

\* startNetworkWatcher: without a registration there is no watcher goroutine.
StartWatcher ==
    /\ pc[Main] = "watch"
    /\ \/ /\ registered' = TRUE
          /\ pc' = [pc EXCEPT ![Main] = "serving", ![Watch] = "loop"]
       \/ /\ "watcher" \in Faults
          /\ registered' = registered
          /\ Goto(Main, "serving")
    /\ UNCHANGED <<tunnelVars, managerVars, retryVars, lockVars, hostVars, event, timer, callVars>>

OnPowerResume ==
    /\ pc[Main] = "serving"
    /\ "power" \in Commands
    /\ running
    /\ Reconnect
    /\ UNCHANGED <<cfg, running, dev, open, devCfg, sup, supCancelled, sv, stageVars, managerVars,
                   retryVars, lockVars, hostVars, watchVars, callVars, pc>>

\* Stop: the pipe closes first and waits for its requests ...
Stop ==
    /\ pc[Main] = "serving"
    /\ accepting' = FALSE
    /\ Goto(Main, "pipestop")
    /\ UNCHANGED <<tunnelVars, wanted, pausedBy, tunCfg, ctxDone, retryVars, lockVars, hostVars,
                   watchVars, callVars>>

\* Mutant: the context is left alive.
StopPipeUncancelled ==
    /\ pc[Main] = "pipestop"
    /\ \A r \in Requests : pc[r] = "idle"
    /\ registered' = FALSE
    /\ Goto(Main, "draining")
    /\ UNCHANGED <<tunnelVars, managerVars, retryVars, lockVars, hostVars, event, timer, callVars>>

\* ... then the SOCKS5 listener, the watcher's registration and the context ...
StopPipe ==
    /\ pc[Main] = "pipestop"
    /\ \A r \in Requests : pc[r] = "idle"
    /\ registered' = FALSE
    /\ ctxDone' = TRUE
    /\ Goto(Main, "draining")
    /\ UNCHANGED <<tunnelVars, wanted, pausedBy, tunCfg, accepting, retryVars, lockVars, hostVars,
                   event, timer, callVars>>

\* Mutant: the tunnel is stopped before m.wg is empty.
StopUndrained ==
    /\ pc[Main] = "draining"
    /\ op' = [op EXCEPT ![Main] = "stop"]
    /\ Goto(Main, "closing")
    /\ UNCHANGED <<deviceVars, rs, res, hold, bcfg, rl, managerVars, retryVars, lockVars, hostVars,
                   watchVars, callVars>>

\* ... and when m.wg is empty the tunnel is stopped, with no lock held.
StopDrained ==
    /\ pc[Main] = "draining"
    /\ \A t \in Retries \cup {Watch} : pc[t] \in {"idle", "exited"}
    /\ op' = [op EXCEPT ![Main] = "stop"]
    /\ Goto(Main, "closing")
    /\ UNCHANGED <<deviceVars, rs, res, hold, bcfg, rl, managerVars, retryVars, lockVars, hostVars,
                   watchVars, callVars>>

StopReturn ==
    /\ pc[Main] = "closing" /\ Idle(Main)
    /\ Goto(Main, "stopped")
    /\ UNCHANGED <<tunnelVars, managerVars, retryVars, lockVars, hostVars, watchVars, callVars>>

\* What the control loop does of its own accord, as opposed to on a control.
MainStep ==
    \/ Start \/ StartRefused \/ StartAttempt \/ StartRetry \/ StartListen \/ StartFailed \/ StartPipe
    \/ StartWatcher \/ StopPipe \/ StopDrained \/ StopReturn

-----------------------------------------------------------------------------
Next ==
    \/ MainStep \/ OnPowerResume \/ Stop
    \/ WatchStep \/ AddressChange
    \/ \E t \in Threads : CallStep(t)
    \/ \E t \in Requests \cup {Main} : Reload(t) \/ ReloadStep(t)
    \/ \E r \in Requests : Request(r) \/ RequestStep(r)
    \/ \E g \in Retries : RetryStep(g)
    \/ \E d \in Devices : Supervise(d) /\ UNCHANGED Others

Spec == Init /\ [][Next]_vars

-----------------------------------------------------------------------------
(* Safety *)

\* conflict.go, pause: "keeps it down until resume".  Once a pause has returned
\* no device is open and none is being recorded, whichever retries, manual
\* starts and notifications raced with it.
PausedMeansDown ==
    (pausedBy # None /\ conflictMu = None) => open = {} /\ ~running

\* startMu exists so that two callers of Tunnel.Start cannot both build: at
\* most one device is ever open, and at most one supervisor runs.
OneDevice == Cardinality(open) <= 1 /\ Cardinality(sup) <= 1

\* Every open device is recorded or held by the thread that is building or
\* closing it; one that is neither can never be closed again.
NoLeakedDevice ==
    \A d \in open : (running /\ dev = d) \/ \E t \in Threads : hold[t] = d

\* retryCancel records exactly the retry that is still meant to go on: no live
\* retry escapes cancelRetry, and RetryPending does not report a finished one.
RetryRecorded ==
    /\ \A g \in Retries : (pc[g] # "idle" /\ ~RetryDone(g)) => retryCancel = g
    /\ retryCancel # None => pc[retryCancel] # "idle"

\* Manager.Stop: "no resources left behind".
StoppedMeansClean ==
    pc[Main] = "stopped" =>
        /\ open = {} /\ sup = {} /\ ~running
        /\ \A t \in Threads \ {Main} : Idle(t) /\ pc[t] \in {"idle", "exited"}
        /\ startMu = None /\ conflictMu = None

\* manager.go, startTunnelOnce: "an attempt either sees the pause or finishes
\* before pause stops what it built", so the tunnel is down during a pause.
NotRunningWhilePaused ==
    (/\ pausedBy # None /\ conflictMu = None
     /\ \A t \in Threads : pc[t] \notin {"reload", "reloaded"}) => ~running

\* StopTunnel: "a retry that is still waiting to bring it up must not override
\* it a moment later, and neither may the end of a pause".  Once it has
\* returned, no retry is pending.
NoRetryAfterStop ==
    (~wanted /\ \A r \in Requests : pc[r] = "idle") => retryCancel = None

\* Outside a reload the manager reports the configuration the tunnel would be
\* built from, whether the reload was adopted, refused or rolled back.
ReportedConfig ==
    (\A t \in Threads : TunnelIdle(t) /\ pc[t] # "reload") => cfg = tunCfg

\* When networkSettled returns with no notification queued, the pause agrees
\* with the adapters, even if one of the two reads of the burst failed, unless
\* a reload has just recorded another address and is about to check it.
SettledAgrees ==
    [][(/\ pc[Watch] = "settled" /\ pc'[Watch] = "loop"
        /\ registered /\ ~event
        /\ \A t \in Threads : pc[t] # "reloaded")
         => ((pausedBy # None) <=> configConflict(tunCfg, host))]_vars

-----------------------------------------------------------------------------
(* Liveness.  A goroutine that can go on again and again does: the scheduler   *)
(* runs it and Go's mutexes are starvation free.  And an endpoint that is      *)
(* tried again and again resolves in the end.                                  *)

\* What a thread does without being asked.
ThreadStep(t) ==
    \/ CallStep(t)
    \/ t = Main /\ (MainStep \/ ReloadStep(t))
    \/ t = Watch /\ WatchStep
    \/ t \in Requests /\ (RequestStep(t) \/ ReloadStep(t))
    \/ t \in Retries /\ RetryStep(t)

Fairness ==
    /\ \A t \in Threads : SF_vars(ThreadStep(t))
    /\ \A g \in Retries : SF_vars(BuildOk(g) /\ UNCHANGED Others)
    /\ \A d \in Devices : WF_vars(Supervise(d) /\ UNCHANGED Others)

FairSpec == Spec /\ Fairness

\* Manager.Stop always gets to the end: no request, retry or
\* watcher that it waits for waits for it, or for a lock that is not given back.
StopCompletes == pc[Main] = "pipestop" ~> pc[Main] = "stopped"

\* retryStart: a retry that waits goes on "until it succeeds, the service stops,
\* or someone stops the tunnel on purpose", or until a pause begins.
RetryBringsUp ==
    (\E g \in Retries : retryCancel = g /\ pc[g] = "wait")
        ~> (running \/ ~wanted \/ pausedBy # None \/ ctxDone)

\* A notification that the other client has gone ends the pause and brings a
\* wanted tunnel back.
NotifiedResume ==
    (event /\ registered /\ pausedBy # None /\ wanted)
        ~> (running \/ ~wanted \/ configConflict(tunCfg, host) \/ ~registered)
=============================================================================
