-------------------------- MODULE TunnelLifecycle --------------------------
(***************************************************************************)
(* awg.Tunnel (internal/awg/tunnel.go) seen by the goroutines that call    *)
(* Start, Stop and Reload on it: which device is recorded, which devices   *)
(* are open, which configuration each of them runs, and which supervise    *)
(* goroutines are alive.  Readiness and dialing are not part of this view. *)
(*                                                                         *)
(* A thread t runs Start or Stop through op[t] and Reload through rs[t]; a *)
(* call is made by setting the stage to its first label and has returned   *)
(* once the stage is "idle" again, with the result in res[t].  Every       *)
(* action is one critical section of t.mu or one stretch between two.      *)
(***************************************************************************)
EXTENDS Naturals, FiniteSets

CONSTANTS
    Threads,     \* the goroutines that call into the tunnel
    Configs,     \* tunnel configurations a .conf file can hold
    StackOf,     \* Configs -> what stackEqual compares: addresses, DNS, MTU
    Hostnames,   \* the configurations whose endpoint is a hostname
    Devices,     \* identities of AmneziaWG devices, reused once released
    None         \* nil

ASSUME ConfigAssumption ==
    /\ DOMAIN StackOf = Configs
    /\ Hostnames \subseteq Configs
    /\ None \notin Configs
    /\ None \notin Devices
    /\ None \notin Threads

VARIABLES
    cfg,           \* t.cfg
    running,       \* t.running
    dev,           \* t.dev, the recorded device
    open,          \* the devices built and not yet closed
    devCfg,        \* the configuration a device runs; None when it is mixed
    sup,           \* the devices whose supervise goroutine is alive
    supCancelled,  \* the devices whose supervise context is cancelled
    kick,          \* the token in the t.kick channel
    sv,            \* what a supervisor in performReconnect is about to apply
    op,            \* stage of a thread inside Start or Stop
    rs,            \* stage of a thread inside Reload
    res,           \* what the last call of a thread returned
    hold,          \* the device a thread has built, or is closing
    bcfg,          \* the configuration a thread inside Start builds from
    rl             \* the locals of a thread inside Reload

deviceVars == <<cfg, running, dev, open, devCfg, sup, supCancelled, kick, sv>>
stageVars  == <<op, rs, res, hold, bcfg, rl>>
tunnelVars == <<deviceVars, stageVars>>

NoReload == [next |-> None, prev |-> None, dev |-> None]

TunnelTypeOK ==
    /\ cfg \in Configs \cup {None}
    /\ running \in BOOLEAN
    /\ dev \in Devices \cup {None}
    /\ open \subseteq Devices
    /\ devCfg \in [Devices -> Configs \cup {None}]
    /\ sup \subseteq Devices
    /\ supCancelled \subseteq Devices
    /\ kick \in BOOLEAN
    /\ sv \in [Devices -> [dev : Devices \cup {None}, cfg : Configs \cup {None}]]
    /\ op \in [Threads -> {"idle", "start", "build", "record", "launch", "stop", "drain"}]
    /\ rs \in [Threads -> {"idle", "begin", "adopt", "apply", "swap", "started", "restored"}]
    /\ res \in [Threads -> {"none", "ok", "fail", "paused"}]
    /\ hold \in [Threads -> Devices \cup {None}]
    /\ bcfg \in [Threads -> Configs \cup {None}]
    /\ rl \in [Threads -> [next : Configs \cup {None}, prev : Configs \cup {None},
                           dev : Devices \cup {None}]]

NoApply == [dev |-> None, cfg |-> None]

TunnelInit ==
    /\ cfg = None
    /\ running = FALSE
    /\ dev = None
    /\ open = {}
    /\ devCfg = [d \in Devices |-> None]
    /\ sup = {}
    /\ supCancelled = {}
    /\ kick = FALSE
    /\ sv = [d \in Devices |-> NoApply]
    /\ op = [t \in Threads |-> "idle"]
    /\ rs = [t \in Threads |-> "idle"]
    /\ res = [t \in Threads |-> "none"]
    /\ hold = [t \in Threads |-> None]
    /\ bcfg = [t \in Threads |-> None]
    /\ rl = [t \in Threads |-> NoReload]

TunnelIdle(t) == op[t] = "idle" /\ rs[t] = "idle"

\* A device identity nothing refers to any more, so that it can stand for a
\* device that does not exist yet.
FreeDevices ==
    {d \in Devices : /\ d \notin open \cup sup
                     /\ \A t \in Threads : hold[t] # d /\ rl[t].dev # d
                     /\ \A e \in Devices : sv[e].dev # d}

-----------------------------------------------------------------------------
(* Start *)

\* The check under t.mu.  It is repeated nowhere: running is only recorded
\* once the device has been built.
StartCheck(t) ==
    /\ op[t] = "start"
    /\ IF running
       THEN /\ op' = [op EXCEPT ![t] = "idle"]
            /\ res' = [res EXCEPT ![t] = "fail"]
            /\ bcfg' = bcfg
       ELSE /\ op' = [op EXCEPT ![t] = "build"]
            /\ bcfg' = [bcfg EXCEPT ![t] = cfg]
            /\ res' = res
    /\ UNCHANGED <<deviceVars, rs, hold, rl>>

\* Mutant: a failed build forgets the device it has already opened.
BuildFailLeaks(t) ==
    /\ op[t] = "build"
    /\ op' = [op EXCEPT ![t] = "idle"]
    /\ res' = [res EXCEPT ![t] = "fail"]
    /\ bcfg' = [bcfg EXCEPT ![t] = None]
    /\ \E d \in FreeDevices : open' = open \cup {d}
    /\ UNCHANGED <<cfg, running, dev, devCfg, sup, supCancelled, kick, sv, rs, hold, rl>>

\* buildDevice and toUAPI.  The endpoint may not resolve, the device may refuse
\* the configuration, the caller's context may end: whatever was built is closed.
BuildFail(t) ==
    /\ op[t] = "build"
    /\ op' = [op EXCEPT ![t] = "idle"]
    /\ res' = [res EXCEPT ![t] = "fail"]
    /\ bcfg' = [bcfg EXCEPT ![t] = None]
    /\ UNCHANGED <<deviceVars, rs, hold, rl>>

\* A cancelled context does not rule success out: toUAPI selects between the
\* rendered configuration and ctx.Done, and both can be ready.
BuildOk(t) ==
    /\ op[t] = "build"
    /\ \E d \in FreeDevices :
         /\ open' = open \cup {d}
         /\ devCfg' = [devCfg EXCEPT ![d] = bcfg[t]]
         /\ hold' = [hold EXCEPT ![t] = d]
    /\ bcfg' = [bcfg EXCEPT ![t] = None]
    /\ op' = [op EXCEPT ![t] = "record"]
    /\ UNCHANGED <<cfg, running, dev, sup, supCancelled, kick, sv, rs, res, rl>>

\* The device is recorded under t.mu ...
StartRecord(t) ==
    /\ op[t] = "record"
    /\ dev' = hold[t]
    /\ running' = TRUE
    /\ op' = [op EXCEPT ![t] = "launch"]
    /\ UNCHANGED <<cfg, open, devCfg, sup, supCancelled, kick, sv, rs, res, hold, bcfg, rl>>

\* ... and its supervisor started with no lock held: by then the tunnel may have
\* been stopped, which the supervisor finds out from its context.
StartLaunch(t) ==
    /\ op[t] = "launch"
    /\ sup' = sup \cup {hold[t]}
    /\ hold' = [hold EXCEPT ![t] = None]
    /\ op' = [op EXCEPT ![t] = "idle"]
    /\ res' = [res EXCEPT ![t] = "ok"]
    /\ UNCHANGED <<cfg, running, dev, open, devCfg, supCancelled, kick, sv, rs, bcfg, rl>>

-----------------------------------------------------------------------------
(* Stop *)

\* Stopping a tunnel that is not running returns at once; otherwise the record
\* is cleared under t.mu and the supervisor cancelled.
StopMark(t) ==
    /\ op[t] = "stop"
    /\ IF ~running
       THEN /\ op' = [op EXCEPT ![t] = "idle"]
            /\ UNCHANGED <<running, dev, supCancelled, hold>>
       ELSE /\ op' = [op EXCEPT ![t] = "drain"]
            /\ hold' = [hold EXCEPT ![t] = dev]
            /\ supCancelled' = supCancelled \cup {dev}
            /\ dev' = None
            /\ running' = FALSE
    /\ UNCHANGED <<cfg, open, devCfg, sup, kick, sv, rs, res, bcfg, rl>>

\* t.wg.Wait, which waits for every supervisor, then the device is closed.
StopClose(t) ==
    /\ op[t] = "drain"
    /\ sup = {}
    /\ open' = open \ {hold[t]}
    /\ devCfg' = [devCfg EXCEPT ![hold[t]] = None]
    /\ hold' = [hold EXCEPT ![t] = None]
    /\ op' = [op EXCEPT ![t] = "idle"]
    /\ UNCHANGED <<cfg, running, dev, sup, supCancelled, kick, sv, rs, res, bcfg, rl>>

-----------------------------------------------------------------------------
(* supervise *)

\* Reconnect: a token that is already queued covers this one.
Reconnect == kick' = TRUE

\* The supervisor takes the token and enters performReconnect, which reads the
\* tunnel's device and configuration.  Only a hostname endpoint is re-resolved.
SuperviseKick(d) ==
    /\ d \in sup
    /\ sv[d] = NoApply
    /\ kick
    /\ kick' = FALSE
    /\ sv' = IF running /\ cfg \in Hostnames
             THEN [sv EXCEPT ![d] = [dev |-> dev, cfg |-> cfg]]
             ELSE sv
    /\ UNCHANGED <<cfg, running, dev, open, devCfg, sup, supCancelled, stageVars>>

\* performReconnect applies what it rendered from the configuration it read,
\* unless the endpoint could not be resolved; IpcSet may fail half way.
SuperviseApply(d) ==
    /\ sv[d] # NoApply
    /\ sv' = [sv EXCEPT ![d] = NoApply]
    /\ devCfg' \in {devCfg, [devCfg EXCEPT ![sv[d].dev] = sv[d].cfg],
                           [devCfg EXCEPT ![sv[d].dev] = None]}
    /\ UNCHANGED <<cfg, running, dev, open, sup, supCancelled, kick, stageVars>>

SuperviseExit(d) ==
    /\ d \in sup \cap supCancelled
    /\ sv[d] = NoApply
    /\ sup' = sup \ {d}
    /\ supCancelled' = supCancelled \ {d}
    /\ UNCHANGED <<cfg, running, dev, open, devCfg, kick, sv, stageVars>>

Supervise(d) == SuperviseKick(d) \/ SuperviseApply(d) \/ SuperviseExit(d)

-----------------------------------------------------------------------------
(* Reload *)

stackEqual(a, b) == StackOf[a] = StackOf[b]

ReloadReturn(t, result) ==
    /\ rs' = [rs EXCEPT ![t] = "idle"]
    /\ res' = [res EXCEPT ![t] = result]
    /\ rl' = [rl EXCEPT ![t].prev = None, ![t].dev = None]

\* The dry run refuses the configuration before anything is touched.
ReloadRefuse(t) ==
    /\ rs[t] = "begin"
    /\ ReloadReturn(t, "fail")
    /\ UNCHANGED <<deviceVars, op, hold, bcfg>>

\* After the dry run prev, running and dev are read in one critical section and
\* decide between adopting, applying in place and rebuilding.
ReloadDecide(t) ==
    /\ rs[t] = "begin"
    /\ rl' = [rl EXCEPT ![t].prev = cfg, ![t].dev = dev]
    /\ \/ /\ ~running
          /\ rs' = [rs EXCEPT ![t] = "adopt"]
          /\ op' = op
       \/ /\ running /\ stackEqual(cfg, rl[t].next)
          /\ rs' = [rs EXCEPT ![t] = "apply"]
          /\ op' = op
       \/ /\ running /\ ~stackEqual(cfg, rl[t].next)
          /\ rs' = [rs EXCEPT ![t] = "swap"]
          /\ op' = [op EXCEPT ![t] = "stop"]
    /\ UNCHANGED <<deviceVars, res, hold, bcfg>>

ReloadAdopt(t) ==
    /\ rs[t] = "adopt"
    /\ cfg' = rl[t].next
    /\ ReloadReturn(t, "ok")
    /\ UNCHANGED <<running, dev, open, devCfg, sup, supCancelled, kick, sv, op, hold, bcfg>>

\* IpcSet on the device that was read: it takes the new configuration, nothing
\* was applied or the previous one was restored, or it is left mixed.
ReloadApply(t) ==
    /\ rs[t] = "apply"
    /\ \/ /\ devCfg' = [devCfg EXCEPT ![rl[t].dev] = rl[t].next]
          /\ rs' = [rs EXCEPT ![t] = "adopt"]
          /\ UNCHANGED <<res, rl>>
       \/ /\ \/ devCfg' = devCfg
             \/ devCfg' = [devCfg EXCEPT ![rl[t].dev] = rl[t].prev]
             \/ devCfg' = [devCfg EXCEPT ![rl[t].dev] = None]
          /\ ReloadReturn(t, "fail")
    /\ UNCHANGED <<cfg, running, dev, open, sup, supCancelled, kick, sv, op, hold, bcfg>>

\* The rebuild: the tunnel has been stopped, the new configuration is started,
\* and the previous one is started again if that fails.
ReloadSwap(t) ==
    /\ rs[t] = "swap" /\ op[t] = "idle"
    /\ cfg' = rl[t].next
    /\ op' = [op EXCEPT ![t] = "start"]
    /\ rs' = [rs EXCEPT ![t] = "started"]
    /\ UNCHANGED <<running, dev, open, devCfg, sup, supCancelled, kick, sv, res, hold, bcfg, rl>>

\* Mutant: the rollback starts the tunnel again without restoring t.cfg.
ReloadStartedUnrestored(t) ==
    /\ rs[t] = "started" /\ op[t] = "idle"
    /\ \/ /\ res[t] = "ok"
          /\ ReloadReturn(t, "ok")
          /\ op' = op
       \/ /\ res[t] = "fail"
          /\ op' = [op EXCEPT ![t] = "start"]
          /\ rs' = [rs EXCEPT ![t] = "restored"]
          /\ UNCHANGED <<res, rl>>
    /\ UNCHANGED <<deviceVars, hold, bcfg>>


ReloadStarted(t) ==
    /\ rs[t] = "started" /\ op[t] = "idle"
    /\ \/ /\ res[t] = "ok"
          /\ ReloadReturn(t, "ok")
          /\ UNCHANGED <<cfg, op>>
       \/ /\ res[t] = "fail"
          /\ cfg' = rl[t].prev
          /\ op' = [op EXCEPT ![t] = "start"]
          /\ rs' = [rs EXCEPT ![t] = "restored"]
          /\ UNCHANGED <<res, rl>>
    /\ UNCHANGED <<running, dev, open, devCfg, sup, supCancelled, kick, sv, hold, bcfg>>

ReloadRestored(t) ==
    /\ rs[t] = "restored" /\ op[t] = "idle"
    /\ ReloadReturn(t, "fail")
    /\ UNCHANGED <<deviceVars, op, hold, bcfg>>

TunnelStep(t) ==
    \/ StartCheck(t) \/ BuildFail(t) \/ BuildOk(t) \/ StartRecord(t) \/ StartLaunch(t)
    \/ StopMark(t) \/ StopClose(t)
    \/ ReloadRefuse(t) \/ ReloadDecide(t) \/ ReloadAdopt(t) \/ ReloadApply(t)
    \/ ReloadSwap(t) \/ ReloadStarted(t) \/ ReloadRestored(t)

=============================================================================
