--------------------------- MODULE ManagerProofs ---------------------------
(***************************************************************************)
(* That a pause keeps the tunnel down, for any number of requests, retries *)
(* and devices, as long as every configuration describes the same network  *)
(* stack, so that Tunnel.Reload never rebuilds the tunnel on its own.      *)
(***************************************************************************)
EXTENDS Manager, TLAPS

\* Every configuration has the same addresses, DNS servers and MTU.
SameStack == \A a, b \in Configs : StackOf[a] = StackOf[b]

-----------------------------------------------------------------------------
(* The inductive invariant *)

\* A running tunnel has a device, and so has a thread that records or closes one.
HeldInv ==
    /\ running => dev # None
    /\ \A t \in Threads : op[t] \in {"record", "launch", "drain"} => hold[t] # None

TypeInv == TypeOK /\ HeldInv

\* A thread is in at most one of startTunnelOnce, checkConflict and
\* Tunnel.Reload, called from the places that call it.
StageInv ==
    \A t \in Threads :
        /\ at[t] # "idle" => /\ cc[t] = "idle" /\ rs[t] = "idle"
                             /\ pc[t] \in {"attempted", "tried", "starting"}
        /\ cc[t] # "idle" => /\ rs[t] = "idle"
                             /\ pc[t] \in {"checked", "changed", "settled", "reloaded"}
        /\ rs[t] # "idle" => pc[t] = "reload"
        /\ rs[t] \notin {"swap", "started", "restored"}

\* Start runs only inside an attempt; Stop inside a pause, StopTunnel, or the
\* manager's own Start and Stop.
OpInv ==
    \A t \in Threads :
        /\ op[t] \in {"start", "build", "record", "launch"} => at[t] = "starting"
        /\ op[t] \in {"stop", "drain"} =>
             cc[t] = "stopping" \/ pc[t] \in {"stopping", "failing", "closing"}

HoldsStartMu(t) ==
    at[t] \in {"running", "starting"} \/ cc[t] = "stopping" \/ pc[t] = "stopping"

LockInv ==
    \A t \in Threads :
        /\ HoldsStartMu(t) => startMu = t
        /\ cc[t] \notin {"idle", "check"} => conflictMu = t

\* Who can be active while the control loop starts and stops the service.
PhaseInv ==
    /\ pc[Main] \in {"boot", "checked", "attempted", "listen", "failing", "failed", "pipe"} =>
         ~accepting /\ \A r \in Requests : pc[r] = "idle"
    /\ pc[Main] \in {"boot", "checked", "attempted", "listen", "failing", "failed", "pipe",
                     "watch"} => pc[Watch] = "idle"
    /\ pc[Main] \in {"pipestop", "draining", "closing", "stopped"} => ~accepting
    /\ pc[Main] \in {"draining", "closing", "stopped"} => \A r \in Requests : pc[r] = "idle"
    /\ pc[Main] \in {"closing", "stopped"} => pc[Watch] \in {"idle", "exited"}

\* Once the service has started there is a configuration to compare with.
ConfigInv ==
    /\ pc[Main] \notin {"boot", "failed"} => cfg # None
    /\ \A t \in Threads : rs[t] # "idle" => rl[t].next # None

ControlInv == StageInv /\ OpInv /\ LockInv /\ PhaseInv /\ ConfigInv

\* Nothing is running while a device is built, and every open device is
\* recorded or on its way in or out.
DeviceInv ==
    /\ \A t \in Threads : op[t] \in {"build", "record"} => ~running
    /\ \A d \in open : \/ running /\ dev = d
                       \/ \E t \in Threads : hold[t] = d /\ op[t] \in {"record", "drain"}

\* How far the Stop of a pause has come.
StopInv ==
    \A t \in Threads : cc[t] = "stopping" =>
        /\ op[t] = "drain" => ~running /\ open \subseteq {hold[t]}
        /\ op[t] = "idle" => ~running /\ open = {}

\* Nothing is up and no attempt that has already looked at pausedBy is left.
Down == ~running /\ open = {} /\ \A t \in Threads : at[t] \notin {"running", "starting"}

Pausing(t) == cc[t] \in {"cancelretry", "stoplock", "stopping"}

PauseInv == pausedBy # None => Down \/ \E t \in Threads : Pausing(t)

PauseSafe == TypeInv /\ ControlInv /\ DeviceInv /\ StopInv /\ PauseInv

\* A recorded retry is the newest one.
RetryInv == RetryRecorded /\ (retryCancel # None => retryGen = retryCancel)

USE DEF Goto, tunnelVars, deviceVars, stageVars, managerVars, retryVars, lockVars, hostVars,
        watchVars, callVars, Others, MainLabels, WatchLabels, RequestLabels, RetryLabels

-----------------------------------------------------------------------------
(* Types *)

\* Every action preserves the types.
LEMMA TypeStep == ASSUME TypeInv, Next PROVE TypeInv'
<1> USE ConfigAssumption, ThreadAssumption, ManagerAssumption
    DEF TypeInv, TypeOK, TunnelTypeOK, HeldInv
<1>1. ASSUME NEW t \in Threads, StartCheck(t), UNCHANGED Others PROVE TypeInv'
  BY <1>1 DEF StartCheck
<1>2. ASSUME NEW t \in Threads, BuildFail(t), UNCHANGED Others PROVE TypeInv'
  BY <1>2 DEF BuildFail
<1>3. ASSUME NEW t \in Threads, BuildOk(t), UNCHANGED Others PROVE TypeInv'
  BY <1>3 DEF BuildOk, FreeDevices
<1>4. ASSUME NEW t \in Threads, StartRecord(t), UNCHANGED Others PROVE TypeInv'
  BY <1>4 DEF StartRecord
<1>5. ASSUME NEW t \in Threads, StartLaunch(t), UNCHANGED Others PROVE TypeInv'
  BY <1>5 DEF StartLaunch
<1>6. ASSUME NEW t \in Threads, StopMark(t), UNCHANGED Others PROVE TypeInv'
  <2>1. running' \in BOOLEAN
    BY <1>6 DEF StopMark
  <2> QED
    BY <1>6, <2>1 DEF StopMark
<1>7. ASSUME NEW t \in Threads, StopClose(t), UNCHANGED Others PROVE TypeInv'
  BY <1>7 DEF StopClose
<1>8. ASSUME NEW t \in Threads, ReloadRefuse(t), UNCHANGED Others PROVE TypeInv'
  BY <1>8 DEF ReloadRefuse, ReloadReturn
<1>9. ASSUME NEW t \in Threads, ReloadDecide(t), UNCHANGED Others PROVE TypeInv'
  <2>1. rl' \in [Threads -> [next : Configs \cup {None}, prev : Configs \cup {None},
                               dev : Devices \cup {None}]]
    BY <1>9 DEF ReloadDecide
  <2>2. TunnelTypeOK'
    BY <1>9, <2>1, SMTT(60) DEF ReloadDecide, stackEqual
  <2>3. HeldInv'
    BY <1>9 DEF ReloadDecide, stackEqual
  <2>4. tunCfg' \in Configs \cup {None}
    BY <1>9 DEF ReloadDecide
  <2> HIDE DEF TunnelTypeOK
  <2> QED
    BY <1>9, <2>2, <2>3, <2>4 DEF ReloadDecide, stackEqual
<1>10. ASSUME NEW t \in Threads, ReloadAdopt(t), UNCHANGED Others PROVE TypeInv'
  BY <1>10 DEF ReloadAdopt, ReloadReturn
<1>11. ASSUME NEW t \in Threads, ReloadApply(t), UNCHANGED Others PROVE TypeInv'
  BY <1>11 DEF ReloadApply, ReloadReturn
<1>12. ASSUME NEW t \in Threads, ReloadSwap(t), UNCHANGED Others PROVE TypeInv'
  BY <1>12 DEF ReloadSwap
<1>13. ASSUME NEW t \in Threads, ReloadStarted(t), UNCHANGED Others PROVE TypeInv'
  BY <1>13 DEF ReloadStarted, ReloadReturn
<1>14. ASSUME NEW t \in Threads, ReloadRestored(t), UNCHANGED Others PROVE TypeInv'
  BY <1>14 DEF ReloadRestored, ReloadReturn
<1>15. ASSUME NEW t \in Threads, AttemptLock(t) PROVE TypeInv'
  BY <1>15 DEF AttemptLock
<1>16. ASSUME NEW t \in Threads, AttemptRunning(t) PROVE TypeInv'
  BY <1>16 DEF AttemptRunning
<1>17. ASSUME NEW t \in Threads, AttemptUnlock(t) PROVE TypeInv'
  BY <1>17 DEF AttemptUnlock
<1>18. ASSUME NEW t \in Threads, CheckBegin(t) PROVE TypeInv'
  BY <1>18 DEF CheckBegin
<1>19. ASSUME NEW t \in Threads, CheckUnread(t) PROVE TypeInv'
  BY <1>19 DEF CheckUnread, CheckReturn
<1>20. ASSUME NEW t \in Threads, CheckRead(t) PROVE TypeInv'
  BY <1>20 DEF CheckRead, CheckReturn, configConflict
<1>21. ASSUME NEW t \in Threads, PauseCancelRetry(t) PROVE TypeInv'
  BY <1>21 DEF PauseCancelRetry, CancelRetry
<1>22. ASSUME NEW t \in Threads, PauseLock(t) PROVE TypeInv'
  BY <1>22 DEF PauseLock
<1>23. ASSUME NEW t \in Threads, PauseUnlock(t) PROVE TypeInv'
  BY <1>23 DEF PauseUnlock, CheckReturn
<1>24. ASSUME NEW t \in Threads, ResumeRetry(t) PROVE TypeInv'
  BY <1>24 DEF ResumeRetry, CheckReturn, RetryStart, Idle, TunnelIdle
<1>25. ASSUME NEW d \in Devices, SuperviseKick(d), UNCHANGED Others PROVE TypeInv'
  <2>1. kick' \in BOOLEAN
    BY <1>25 DEF SuperviseKick, NoApply
  <2> QED
    BY <1>25, <2>1 DEF SuperviseKick, NoApply
<1>26. ASSUME NEW d \in Devices, SuperviseApply(d), UNCHANGED Others PROVE TypeInv'
  BY <1>26 DEF SuperviseApply, NoApply
<1>27. ASSUME NEW d \in Devices, SuperviseExit(d), UNCHANGED Others PROVE TypeInv'
  BY <1>27 DEF SuperviseExit, NoApply
<1>28. ASSUME WatchEvent PROVE TypeInv'
  <2>1. event' \in BOOLEAN
    BY <1>28 DEF WatchEvent
  <2> QED
    BY <1>28, <2>1 DEF WatchEvent
<1>29. ASSUME WatchChanged PROVE TypeInv'
  BY <1>29 DEF WatchChanged, Idle, TunnelIdle
<1>30. ASSUME WatchTimer PROVE TypeInv'
  <2>1. timer' \in BOOLEAN
    BY <1>30 DEF WatchTimer
  <2> QED
    BY <1>30, <2>1 DEF WatchTimer
<1>31. ASSUME WatchSettled PROVE TypeInv'
  <2>1. kick' \in BOOLEAN
    BY <1>31 DEF WatchSettled, Reconnect, Idle, TunnelIdle
  <2> QED
    BY <1>31, <2>1 DEF WatchSettled, Reconnect, Idle, TunnelIdle
<1>32. ASSUME WatchExit PROVE TypeInv'
  <2>1. timer' \in BOOLEAN
    BY <1>32 DEF WatchExit
  <2> QED
    BY <1>32, <2>1 DEF WatchExit
<1>33. ASSUME AddressChange PROVE TypeInv'
  BY <1>33 DEF AddressChange
<1>34. ASSUME NEW r \in Requests, Request(r) PROVE TypeInv'
  BY <1>34 DEF Request
<1>35. ASSUME NEW r \in Requests, Reload(r) PROVE TypeInv'
  BY <1>35 DEF Reload, MayReload, Home
<1>36. ASSUME NEW r \in Requests, ReconnectStep(r) PROVE TypeInv'
  <2>1. kick' \in BOOLEAN
    BY <1>36 DEF ReconnectStep, Reconnect
  <2> QED
    BY <1>36, <2>1 DEF ReconnectStep, Reconnect
<1>37. ASSUME NEW r \in Requests, StartTunnel(r) PROVE TypeInv'
  BY <1>37 DEF StartTunnel
<1>38. ASSUME NEW r \in Requests, StartTunnelCheck(r) PROVE TypeInv'
  BY <1>38, SMTT(30) DEF StartTunnelCheck
<1>39. ASSUME NEW r \in Requests, StartTunnelReturn(r) PROVE TypeInv'
  BY <1>39 DEF StartTunnelReturn, Idle, TunnelIdle
<1>40. ASSUME NEW r \in Requests, StopTunnel(r) PROVE TypeInv'
  <2>1. wanted' \in BOOLEAN
    BY <1>40 DEF StopTunnel
  <2> QED
    BY <1>40, <2>1 DEF StopTunnel
<1>41. ASSUME NEW r \in Requests, StopTunnelCancel(r) PROVE TypeInv'
  BY <1>41 DEF StopTunnelCancel, CancelRetry
<1>42. ASSUME NEW r \in Requests, StopTunnelLock(r) PROVE TypeInv'
  BY <1>42 DEF StopTunnelLock
<1>43. ASSUME NEW r \in Requests, StopTunnelReturn(r) PROVE TypeInv'
  BY <1>43 DEF StopTunnelReturn
<1>44. ASSUME NEW t \in Requests \cup {Main}, ReloadAdopted(t) PROVE TypeInv'
  <2>1. rl' \in [Threads -> [next : Configs \cup {None}, prev : Configs \cup {None},
                               dev : Devices \cup {None}]]
    BY <1>44 DEF ReloadAdopted, NoReload
  <2>2. TunnelTypeOK'
    BY <1>44, <2>1 DEF ReloadAdopted, Home, NoReload, Idle, TunnelIdle
  <2>3. HeldInv'
    BY <1>44 DEF ReloadAdopted, Home, NoReload, Idle, TunnelIdle
  <2>4. tunCfg' \in Configs \cup {None}
    BY <1>44 DEF ReloadAdopted
  <2> HIDE DEF TunnelTypeOK
  <2> QED
    BY <1>44, <2>2, <2>3, <2>4 DEF ReloadAdopted, Home, NoReload, Idle, TunnelIdle
<1>45. ASSUME NEW t \in Requests \cup {Main}, ReloadReturned(t) PROVE TypeInv'
  BY <1>45 DEF ReloadReturned, Home, Idle, TunnelIdle
<1>46. ASSUME NEW g \in Retries, RetrySelect(g) PROVE TypeInv'
  BY <1>46 DEF RetrySelect
<1>47. ASSUME NEW g \in Retries, RetryTry(g) PROVE TypeInv'
  BY <1>47, SMTT(30) DEF RetryTry
<1>48. ASSUME NEW g \in Retries, RetryTried(g) PROVE TypeInv'
  BY <1>48 DEF RetryTried, Idle, TunnelIdle
<1>49. ASSUME NEW g \in Retries, RetryClear(g) PROVE TypeInv'
  BY <1>49 DEF RetryClear
<1>50. ASSUME Start PROVE TypeInv'
  BY <1>50 DEF Start
<1>51. ASSUME StartRefused PROVE TypeInv'
  BY <1>51 DEF StartRefused
<1>52. ASSUME StartAttempt PROVE TypeInv'
  BY <1>52 DEF StartAttempt, Idle, TunnelIdle
<1>53. ASSUME StartRetry PROVE TypeInv'
  BY <1>53, SMTT(30) DEF StartRetry, RetryStart, Idle, TunnelIdle
<1>54. ASSUME StartListen PROVE TypeInv'
  <2>1. ctxDone' \in BOOLEAN
    BY <1>54 DEF StartListen
  <2> QED
    BY <1>54, <2>1 DEF StartListen
<1>55. ASSUME StartFailed PROVE TypeInv'
  BY <1>55 DEF StartFailed, Idle, TunnelIdle
<1>56. ASSUME StartPipe PROVE TypeInv'
  <2>1. accepting' \in BOOLEAN
    BY <1>56 DEF StartPipe
  <2> QED
    BY <1>56, <2>1 DEF StartPipe
<1>57. ASSUME StartWatcher PROVE TypeInv'
  <2>1. registered' \in BOOLEAN
    BY <1>57 DEF StartWatcher
  <2> QED
    BY <1>57, <2>1, SMTT(30) DEF StartWatcher
<1>58. ASSUME OnPowerResume PROVE TypeInv'
  BY <1>58 DEF OnPowerResume, Reconnect
<1>59. ASSUME Reload(Main) PROVE TypeInv'
  BY <1>59, SMTT(30) DEF Reload, MayReload, Home
<1>60. ASSUME Stop PROVE TypeInv'
  <2>1. accepting' \in BOOLEAN
    BY <1>60 DEF Stop
  <2> QED
    BY <1>60, <2>1 DEF Stop
<1>61. ASSUME StopPipe PROVE TypeInv'
  <2>1. registered' \in BOOLEAN /\ ctxDone' \in BOOLEAN
    BY <1>61 DEF StopPipe
  <2> QED
    BY <1>61, <2>1 DEF StopPipe
<1>62. ASSUME StopDrained PROVE TypeInv'
  BY <1>62 DEF StopDrained
<1>63. ASSUME StopReturn PROVE TypeInv'
  BY <1>63 DEF StopReturn, Idle, TunnelIdle
<1> HIDE DEF TypeInv
<1> QED
  BY <1>1, <1>2, <1>3, <1>4, <1>5, <1>6, <1>7, <1>8, <1>9, <1>10, <1>11, <1>12, <1>13,
     <1>14, <1>15, <1>16, <1>17, <1>18, <1>19, <1>20, <1>21, <1>22, <1>23, <1>24, <1>25,
     <1>26, <1>27, <1>28, <1>29, <1>30, <1>31, <1>32, <1>33, <1>34, <1>35, <1>36, <1>37,
     <1>38, <1>39, <1>40, <1>41, <1>42, <1>43, <1>44, <1>45, <1>46, <1>47, <1>48, <1>49,
     <1>50, <1>51, <1>52, <1>53, <1>54, <1>55, <1>56, <1>57, <1>58, <1>59, <1>60, <1>61,
     <1>62, <1>63
     DEF Next, MainStep, WatchStep, CallStep, TunnelStep, ReloadStep, RequestStep, RetryStep,
         Supervise

-----------------------------------------------------------------------------
(* Threads, locks and phases *)

\* Every action keeps threads, locks and phases in step; this is where SameStack
\* rules out a Tunnel.Reload that stops and starts the tunnel without startMu.
LEMMA ControlStep == ASSUME SameStack, TypeOK, ControlInv, Next PROVE ControlInv'
<1>0. /\ pc \in [Threads -> MainLabels \cup WatchLabels \cup RequestLabels \cup RetryLabels]
      /\ pc[Main] \in MainLabels
      /\ pc[Watch] \in WatchLabels
      /\ \A r \in Requests : pc[r] \in RequestLabels
      /\ \A g \in Retries : pc[g] \in RetryLabels
      /\ at \in [Threads -> {"idle", "lock", "running", "starting"}]
      /\ cc \in [Threads -> {"idle", "check", "list", "cancelretry", "stoplock", "stopping",
                             "retry"}]
      /\ op \in [Threads -> {"idle", "start", "build", "record", "launch", "stop", "drain"}]
      /\ rs \in [Threads -> {"idle", "begin", "adopt", "apply", "swap", "started", "restored"}]
      /\ rl \in [Threads -> [next : Configs \cup {None}, prev : Configs \cup {None},
                             dev : Devices \cup {None}]]
      /\ cfg \in Configs \cup {None}
      /\ None \notin Threads \cup Configs
  BY ConfigAssumption DEF TypeOK, TunnelTypeOK
<1> USE <1>0, ThreadAssumption
    DEF ControlInv, StageInv, OpInv, LockInv, HoldsStartMu, PhaseInv, ConfigInv
<1>1. ASSUME NEW t \in Threads, StartCheck(t), UNCHANGED Others PROVE ControlInv'
  BY <1>1 DEF StartCheck
<1>2. ASSUME NEW t \in Threads, BuildFail(t), UNCHANGED Others PROVE ControlInv'
  BY <1>2 DEF BuildFail
<1>3. ASSUME NEW t \in Threads, BuildOk(t), UNCHANGED Others PROVE ControlInv'
  BY <1>3 DEF BuildOk
<1>4. ASSUME NEW t \in Threads, StartRecord(t), UNCHANGED Others PROVE ControlInv'
  BY <1>4 DEF StartRecord
<1>5. ASSUME NEW t \in Threads, StartLaunch(t), UNCHANGED Others PROVE ControlInv'
  BY <1>5 DEF StartLaunch
<1>6. ASSUME NEW t \in Threads, StopMark(t), UNCHANGED Others PROVE ControlInv'
  BY <1>6 DEF StopMark
<1>7. ASSUME NEW t \in Threads, StopClose(t), UNCHANGED Others PROVE ControlInv'
  BY <1>7 DEF StopClose
<1>8. ASSUME NEW t \in Threads, ReloadRefuse(t), UNCHANGED Others PROVE ControlInv'
  BY <1>8 DEF ReloadRefuse, ReloadReturn
<1>9. ASSUME NEW t \in Threads, ReloadDecide(t), UNCHANGED Others PROVE ControlInv'
  <2>1. cfg \in Configs /\ rl[t].next \in Configs
    BY <1>9 DEF ReloadDecide
  <2>2. stackEqual(cfg, rl[t].next)
    BY <2>1 DEF SameStack, stackEqual
  <2> QED
    BY <1>9, <2>2 DEF ReloadDecide
<1>10. ASSUME NEW t \in Threads, ReloadAdopt(t), UNCHANGED Others PROVE ControlInv'
  BY <1>10 DEF ReloadAdopt, ReloadReturn
<1>11. ASSUME NEW t \in Threads, ReloadApply(t), UNCHANGED Others PROVE ControlInv'
  BY <1>11 DEF ReloadApply, ReloadReturn
<1>12. ASSUME NEW t \in Threads, ReloadSwap(t), UNCHANGED Others PROVE ControlInv'
  BY <1>12 DEF ReloadSwap
<1>13. ASSUME NEW t \in Threads, ReloadStarted(t), UNCHANGED Others PROVE ControlInv'
  BY <1>13 DEF ReloadStarted, ReloadReturn
<1>14. ASSUME NEW t \in Threads, ReloadRestored(t), UNCHANGED Others PROVE ControlInv'
  BY <1>14 DEF ReloadRestored, ReloadReturn
<1>15. ASSUME NEW t \in Threads, AttemptLock(t) PROVE ControlInv'
  BY <1>15 DEF AttemptLock
<1>16. ASSUME NEW t \in Threads, AttemptRunning(t) PROVE ControlInv'
  BY <1>16 DEF AttemptRunning
<1>17. ASSUME NEW t \in Threads, AttemptUnlock(t) PROVE ControlInv'
  BY <1>17 DEF AttemptUnlock
<1>18. ASSUME NEW t \in Threads, CheckBegin(t) PROVE ControlInv'
  BY <1>18 DEF CheckBegin
<1>19. ASSUME NEW t \in Threads, CheckUnread(t) PROVE ControlInv'
  BY <1>19 DEF CheckUnread, CheckReturn
<1>20. ASSUME NEW t \in Threads, CheckRead(t) PROVE ControlInv'
  BY <1>20 DEF CheckRead, CheckReturn
<1>21. ASSUME NEW t \in Threads, PauseCancelRetry(t) PROVE ControlInv'
  BY <1>21 DEF PauseCancelRetry, CancelRetry
<1>22. ASSUME NEW t \in Threads, PauseLock(t) PROVE ControlInv'
  BY <1>22 DEF PauseLock
<1>23. ASSUME NEW t \in Threads, PauseUnlock(t) PROVE ControlInv'
  BY <1>23 DEF PauseUnlock, CheckReturn
<1>24. ASSUME NEW t \in Threads, ResumeRetry(t) PROVE ControlInv'
  BY <1>24 DEF ResumeRetry, CheckReturn, RetryStart, Idle, TunnelIdle
<1>25. ASSUME NEW d \in Devices, SuperviseKick(d), UNCHANGED Others PROVE ControlInv'
  BY <1>25 DEF SuperviseKick
<1>26. ASSUME NEW d \in Devices, SuperviseApply(d), UNCHANGED Others PROVE ControlInv'
  BY <1>26 DEF SuperviseApply
<1>27. ASSUME NEW d \in Devices, SuperviseExit(d), UNCHANGED Others PROVE ControlInv'
  BY <1>27 DEF SuperviseExit
<1>28. ASSUME WatchEvent PROVE ControlInv'
  BY <1>28 DEF WatchEvent
<1>29. ASSUME WatchChanged PROVE ControlInv'
  BY <1>29 DEF WatchChanged, Idle, TunnelIdle
<1>30. ASSUME WatchTimer PROVE ControlInv'
  BY <1>30 DEF WatchTimer
<1>31. ASSUME WatchSettled PROVE ControlInv'
  BY <1>31 DEF WatchSettled, Idle, TunnelIdle
<1>32. ASSUME WatchExit PROVE ControlInv'
  BY <1>32 DEF WatchExit
<1>33. ASSUME AddressChange PROVE ControlInv'
  BY <1>33 DEF AddressChange
<1>34. ASSUME NEW r \in Requests, Request(r) PROVE ControlInv'
  BY <1>34 DEF Request
<1>35. ASSUME NEW r \in Requests, Reload(r) PROVE ControlInv'
  BY <1>35 DEF Reload, MayReload, Home
<1>36. ASSUME NEW r \in Requests, ReconnectStep(r) PROVE ControlInv'
  BY <1>36 DEF ReconnectStep
<1>37. ASSUME NEW r \in Requests, StartTunnel(r) PROVE ControlInv'
  BY <1>37 DEF StartTunnel
<1>38. ASSUME NEW r \in Requests, StartTunnelCheck(r) PROVE ControlInv'
  BY <1>38 DEF StartTunnelCheck
<1>39. ASSUME NEW r \in Requests, StartTunnelReturn(r) PROVE ControlInv'
  BY <1>39 DEF StartTunnelReturn, Idle, TunnelIdle
<1>40. ASSUME NEW r \in Requests, StopTunnel(r) PROVE ControlInv'
  BY <1>40 DEF StopTunnel
<1>41. ASSUME NEW r \in Requests, StopTunnelCancel(r) PROVE ControlInv'
  BY <1>41 DEF StopTunnelCancel, CancelRetry
<1>42. ASSUME NEW r \in Requests, StopTunnelLock(r) PROVE ControlInv'
  BY <1>42 DEF StopTunnelLock
<1>43. ASSUME NEW r \in Requests, StopTunnelReturn(r) PROVE ControlInv'
  BY <1>43 DEF StopTunnelReturn
<1>44. ASSUME NEW t \in Requests \cup {Main}, ReloadAdopted(t) PROVE ControlInv'
  BY <1>44 DEF ReloadAdopted, Home, Idle, TunnelIdle
<1>45. ASSUME NEW t \in Requests \cup {Main}, ReloadReturned(t) PROVE ControlInv'
  BY <1>45 DEF ReloadReturned, Home, Idle, TunnelIdle
<1>46. ASSUME NEW g \in Retries, RetrySelect(g) PROVE ControlInv'
  BY <1>46 DEF RetrySelect
<1>47. ASSUME NEW g \in Retries, RetryTry(g) PROVE ControlInv'
  BY <1>47 DEF RetryTry
<1>48. ASSUME NEW g \in Retries, RetryTried(g) PROVE ControlInv'
  BY <1>48 DEF RetryTried, Idle, TunnelIdle
<1>49. ASSUME NEW g \in Retries, RetryClear(g) PROVE ControlInv'
  BY <1>49 DEF RetryClear
<1>50. ASSUME Start PROVE ControlInv'
  BY <1>50 DEF Start
<1>51. ASSUME StartRefused PROVE ControlInv'
  BY <1>51 DEF StartRefused
<1>52. ASSUME StartAttempt PROVE ControlInv'
  BY <1>52 DEF StartAttempt, Idle, TunnelIdle
<1>53. ASSUME StartRetry PROVE ControlInv'
  BY <1>53 DEF StartRetry, RetryStart, Idle, TunnelIdle
<1>54. ASSUME StartListen PROVE ControlInv'
  BY <1>54 DEF StartListen
<1>55. ASSUME StartFailed PROVE ControlInv'
  BY <1>55 DEF StartFailed, Idle, TunnelIdle
<1>56. ASSUME StartPipe PROVE ControlInv'
  BY <1>56 DEF StartPipe
<1>57. ASSUME StartWatcher PROVE ControlInv'
  BY <1>57 DEF StartWatcher
<1>58. ASSUME OnPowerResume PROVE ControlInv'
  BY <1>58 DEF OnPowerResume
<1>59. ASSUME Reload(Main) PROVE ControlInv'
  BY <1>59 DEF Reload, MayReload, Home
<1>60. ASSUME Stop PROVE ControlInv'
  BY <1>60 DEF Stop
<1>61. ASSUME StopPipe PROVE ControlInv'
  BY <1>61 DEF StopPipe
<1>62. ASSUME StopDrained PROVE ControlInv'
  BY <1>62 DEF StopDrained
<1>63. ASSUME StopReturn PROVE ControlInv'
  BY <1>63 DEF StopReturn, Idle, TunnelIdle
<1> HIDE DEF ControlInv
<1> QED
  BY <1>1, <1>2, <1>3, <1>4, <1>5, <1>6, <1>7, <1>8, <1>9, <1>10, <1>11, <1>12, <1>13,
     <1>14, <1>15, <1>16, <1>17, <1>18, <1>19, <1>20, <1>21, <1>22, <1>23, <1>24, <1>25,
     <1>26, <1>27, <1>28, <1>29, <1>30, <1>31, <1>32, <1>33, <1>34, <1>35, <1>36, <1>37,
     <1>38, <1>39, <1>40, <1>41, <1>42, <1>43, <1>44, <1>45, <1>46, <1>47, <1>48, <1>49,
     <1>50, <1>51, <1>52, <1>53, <1>54, <1>55, <1>56, <1>57, <1>58, <1>59, <1>60, <1>61,
     <1>62, <1>63
     DEF Next, MainStep, WatchStep, CallStep, TunnelStep, ReloadStep, RequestStep, RetryStep,
         Supervise

-----------------------------------------------------------------------------
(* The tunnel during a pause *)

\* While a thread holds startMu nobody else is inside Tunnel.Start, and while a
\* pause holds it nobody else is inside Tunnel.Stop either.
LEMMA StartMuExcludes ==
    ASSUME TypeOK, ControlInv, NEW t \in Threads, NEW u \in Threads, t # u, HoldsStartMu(t)
    PROVE  /\ op[u] \in {"idle", "stop", "drain"}
           /\ at[u] \notin {"running", "starting"}
           /\ cc[t] = "stopping" => op[u] = "idle"
BY ThreadAssumption
   DEF TypeOK, TunnelTypeOK, ControlInv, StageInv, OpInv, LockInv, HoldsStartMu, PhaseInv

\* Every action keeps the tunnel down during a pause, or the pause under way.
LEMMA PauseStep ==
    ASSUME TypeOK, ControlInv, DeviceInv, StopInv, PauseInv, Next
    PROVE  DeviceInv' /\ StopInv' /\ PauseInv'
<1>0. /\ pc \in [Threads -> MainLabels \cup WatchLabels \cup RequestLabels \cup RetryLabels]
      /\ at \in [Threads -> {"idle", "lock", "running", "starting"}]
      /\ cc \in [Threads -> {"idle", "check", "list", "cancelretry", "stoplock", "stopping",
                             "retry"}]
      /\ op \in [Threads -> {"idle", "start", "build", "record", "launch", "stop", "drain"}]
      /\ hold \in [Threads -> Devices \cup {None}]
      /\ {Main, Watch} \cup Requests \cup Retries \subseteq Threads
  BY ThreadAssumption DEF TypeOK, TunnelTypeOK
<1> USE <1>0 DEF DeviceInv, StopInv, PauseInv, Pausing, Down
<1>1. ASSUME NEW t \in Threads, StartCheck(t), UNCHANGED Others
      PROVE  DeviceInv' /\ StopInv' /\ PauseInv'
  BY <1>1 DEF ControlInv, StageInv, OpInv, StartCheck
<1>2. ASSUME NEW t \in Threads, BuildFail(t), UNCHANGED Others
      PROVE  DeviceInv' /\ StopInv' /\ PauseInv'
  BY <1>2 DEF ControlInv, StageInv, OpInv, BuildFail
<1>3. ASSUME NEW t \in Threads, BuildOk(t), UNCHANGED Others
      PROVE  DeviceInv' /\ StopInv' /\ PauseInv'
  <2>1. at[t] = "starting" /\ cc[t] = "idle"
    BY <1>3 DEF BuildOk, ControlInv, StageInv, OpInv
  <2>2. \A u \in Threads : cc[u] # "stopping"
    BY <1>3, <2>1, StartMuExcludes DEF BuildOk, HoldsStartMu
  <2> QED
    BY <1>3, <2>1, <2>2 DEF BuildOk
<1>4. ASSUME NEW t \in Threads, StartRecord(t), UNCHANGED Others
      PROVE  DeviceInv' /\ StopInv' /\ PauseInv'
  <2>1. at[t] = "starting" /\ cc[t] = "idle" /\ ~running
    BY <1>4 DEF StartRecord, ControlInv, StageInv, OpInv
  <2>2. \A u \in Threads : cc[u] # "stopping" /\ (u # t => op[u] \in {"idle", "stop", "drain"})
    BY <1>4, <2>1, StartMuExcludes DEF StartRecord, HoldsStartMu
  <2> QED
    BY <1>4, <2>1, <2>2 DEF StartRecord
<1>5. ASSUME NEW t \in Threads, StartLaunch(t), UNCHANGED Others
      PROVE  DeviceInv' /\ StopInv' /\ PauseInv'
  BY <1>5 DEF ControlInv, StageInv, OpInv, StartLaunch
<1>6. ASSUME NEW t \in Threads, StopMark(t), UNCHANGED Others
      PROVE  DeviceInv' /\ StopInv' /\ PauseInv'
  <2>1. cc[t] = "stopping" => \A u \in Threads : u # t => op[u] = "idle"
    BY StartMuExcludes DEF HoldsStartMu
  <2>2. cc[t] = "stopping" => open \subseteq (IF running THEN {dev} ELSE {})
    BY <1>6, <2>1 DEF StopMark
  <2>3. \A u \in Threads : u # t => cc[u] # "stopping"
    BY <1>6, StartMuExcludes DEF HoldsStartMu, StopMark
  <2>4. DeviceInv'
    BY <1>6 DEF StopMark
  <2>5. StopInv'
    BY <1>6, <2>2, <2>3 DEF StopMark
  <2>6. PauseInv'
    BY <1>6 DEF StopMark
  <2> QED
    BY <2>4, <2>5, <2>6
<1>7. ASSUME NEW t \in Threads, StopClose(t), UNCHANGED Others
      PROVE  DeviceInv' /\ StopInv' /\ PauseInv'
  BY <1>7 DEF StopClose
<1>8. ASSUME NEW t \in Threads, ReloadRefuse(t) \/ ReloadApply(t) \/ ReloadSwap(t) \/
             ReloadStarted(t) \/ ReloadRestored(t), UNCHANGED Others
      PROVE  DeviceInv' /\ StopInv' /\ PauseInv'
  BY <1>8
     DEF ReloadRefuse, ReloadReturn, ReloadApply, ReloadSwap, ReloadStarted, ReloadRestored
<1>9. ASSUME NEW t \in Threads, ReloadDecide(t), UNCHANGED Others
      PROVE  DeviceInv' /\ StopInv' /\ PauseInv'
  BY <1>9 DEF ControlInv, StageInv, OpInv, ReloadDecide, stackEqual
<1>10. ASSUME NEW t \in Threads, ReloadAdopt(t), UNCHANGED Others
       PROVE  DeviceInv' /\ StopInv' /\ PauseInv'
  BY <1>10 DEF ReloadAdopt, ReloadReturn
<1>11. ASSUME NEW t \in Threads, AttemptLock(t) PROVE DeviceInv' /\ StopInv' /\ PauseInv'
  BY <1>11 DEF AttemptLock
<1>12. ASSUME NEW t \in Threads, AttemptRunning(t) PROVE DeviceInv' /\ StopInv' /\ PauseInv'
  BY <1>12 DEF ControlInv, StageInv, OpInv, AttemptRunning
<1>13. ASSUME NEW t \in Threads, AttemptUnlock(t) PROVE DeviceInv' /\ StopInv' /\ PauseInv'
  BY <1>13 DEF AttemptUnlock
<1>14. ASSUME NEW t \in Threads, CheckBegin(t) PROVE DeviceInv' /\ StopInv' /\ PauseInv'
  BY <1>14 DEF CheckBegin
<1>15. ASSUME NEW t \in Threads, CheckUnread(t) PROVE DeviceInv' /\ StopInv' /\ PauseInv'
  BY <1>15 DEF CheckUnread, CheckReturn
<1>16. ASSUME NEW t \in Threads, CheckRead(t) PROVE DeviceInv' /\ StopInv' /\ PauseInv'
  BY <1>16 DEF CheckRead, CheckReturn, configConflict
<1>17. ASSUME NEW t \in Threads, PauseCancelRetry(t)
       PROVE  DeviceInv' /\ StopInv' /\ PauseInv'
  BY <1>17 DEF PauseCancelRetry, CancelRetry
<1>18. ASSUME NEW t \in Threads, PauseLock(t) PROVE DeviceInv' /\ StopInv' /\ PauseInv'
  BY <1>18 DEF ControlInv, StageInv, OpInv, PauseLock
<1>19. ASSUME NEW t \in Threads, PauseUnlock(t) PROVE DeviceInv' /\ StopInv' /\ PauseInv'
  <2>1. ~running /\ open = {}
    BY <1>19 DEF PauseUnlock
  <2>2. \A u \in Threads : at[u] \notin {"running", "starting"}
    BY <1>19, StartMuExcludes DEF PauseUnlock, HoldsStartMu, ControlInv, StageInv
  <2> QED
    BY <1>19, <2>1, <2>2 DEF PauseUnlock, CheckReturn
<1>20. ASSUME NEW t \in Threads, ResumeRetry(t) PROVE DeviceInv' /\ StopInv' /\ PauseInv'
  BY <1>20 DEF ResumeRetry, CheckReturn, RetryStart
<1>21. ASSUME NEW d \in Devices, SuperviseKick(d) \/ SuperviseApply(d) \/ SuperviseExit(d),
              UNCHANGED Others
       PROVE  DeviceInv' /\ StopInv' /\ PauseInv'
  BY <1>21 DEF SuperviseKick, SuperviseApply, SuperviseExit
<1>22. ASSUME WatchEvent PROVE DeviceInv' /\ StopInv' /\ PauseInv'
  BY <1>22 DEF ControlInv, StageInv, OpInv, WatchEvent
<1>23. ASSUME WatchChanged \/ WatchSettled \/ WatchExit
       PROVE  DeviceInv' /\ StopInv' /\ PauseInv'
  BY <1>23 DEF WatchChanged, WatchSettled, WatchExit
<1>24. ASSUME WatchTimer PROVE DeviceInv' /\ StopInv' /\ PauseInv'
  BY <1>24 DEF ControlInv, StageInv, OpInv, WatchTimer
<1>25. ASSUME AddressChange PROVE DeviceInv' /\ StopInv' /\ PauseInv'
  BY <1>25 DEF AddressChange
<1>26. ASSUME NEW r \in Requests, Request(r) \/ Reload(r) \/ ReconnectStep(r) \/
              StartTunnel(r) \/ StartTunnelReturn(r) \/ StopTunnel(r) \/ StopTunnelCancel(r)
              \/ StopTunnelReturn(r)
       PROVE  DeviceInv' /\ StopInv' /\ PauseInv'
  BY <1>26
     DEF Request, Reload, MayReload, Home, ReconnectStep, StartTunnel, StartTunnelReturn,
         StopTunnel, StopTunnelCancel, CancelRetry, StopTunnelReturn
<1>27. ASSUME NEW r \in Requests, StartTunnelCheck(r)
       PROVE  DeviceInv' /\ StopInv' /\ PauseInv'
  BY <1>27 DEF StartTunnelCheck
<1>28. ASSUME NEW r \in Requests, StopTunnelLock(r)
       PROVE  DeviceInv' /\ StopInv' /\ PauseInv'
  BY <1>28 DEF ControlInv, StageInv, OpInv, StopTunnelLock
<1>29. ASSUME NEW t \in Requests \cup {Main}, ReloadAdopted(t)
       PROVE  DeviceInv' /\ StopInv' /\ PauseInv'
  BY <1>29 DEF ReloadAdopted, Home, Idle
<1>30. ASSUME NEW t \in Requests \cup {Main}, ReloadReturned(t)
       PROVE  DeviceInv' /\ StopInv' /\ PauseInv'
  BY <1>30 DEF ReloadReturned, Home
<1>31. ASSUME NEW g \in Retries, RetrySelect(g) \/ RetryTried(g) \/ RetryClear(g)
       PROVE  DeviceInv' /\ StopInv' /\ PauseInv'
  BY <1>31 DEF RetrySelect, RetryTried, RetryClear
<1>32. ASSUME NEW g \in Retries, RetryTry(g) PROVE DeviceInv' /\ StopInv' /\ PauseInv'
  BY <1>32 DEF RetryTry
<1>33. ASSUME Start PROVE DeviceInv' /\ StopInv' /\ PauseInv'
  BY <1>33 DEF ControlInv, StageInv, OpInv, Start
<1>34. ASSUME StartRefused \/ StartRetry \/ StartFailed \/ StartWatcher
       PROVE  DeviceInv' /\ StopInv' /\ PauseInv'
  BY <1>34 DEF StartRefused, StartRetry, RetryStart, StartFailed, StartWatcher
<1>35. ASSUME StartAttempt PROVE DeviceInv' /\ StopInv' /\ PauseInv'
  BY <1>35 DEF StartAttempt
<1>36. ASSUME StartListen PROVE DeviceInv' /\ StopInv' /\ PauseInv'
  BY <1>36 DEF ControlInv, StageInv, OpInv, StartListen
<1>37. ASSUME StartPipe PROVE DeviceInv' /\ StopInv' /\ PauseInv'
  BY <1>37 DEF StartPipe
<1>38. ASSUME OnPowerResume \/ Reload(Main) \/ Stop \/ StopPipe \/ StopReturn
       PROVE  DeviceInv' /\ StopInv' /\ PauseInv'
  BY <1>38 DEF OnPowerResume, Reload, MayReload, Home, Stop, StopPipe, StopReturn
<1>39. ASSUME StopDrained PROVE DeviceInv' /\ StopInv' /\ PauseInv'
  BY <1>39 DEF ControlInv, StageInv, OpInv, StopDrained
<1> HIDE DEF DeviceInv, StopInv, PauseInv
<1> QED
  BY <1>1, <1>2, <1>3, <1>4, <1>5, <1>6, <1>7, <1>8, <1>9, <1>10, <1>11, <1>12, <1>13,
     <1>14, <1>15, <1>16, <1>17, <1>18, <1>19, <1>20, <1>21, <1>22, <1>23, <1>24, <1>25,
     <1>26, <1>27, <1>28, <1>29, <1>30, <1>31, <1>32, <1>33, <1>34, <1>35, <1>36, <1>37,
     <1>38, <1>39
     DEF Next, MainStep, WatchStep, CallStep, TunnelStep, ReloadStep, RequestStep, RetryStep,
         Supervise

-----------------------------------------------------------------------------
(* The retry record *)

\* Every action keeps the record of the retry in step with the goroutines.
LEMMA RetryInvStep == ASSUME TypeOK, RetryInv, Next PROVE RetryInv'
<1>0. /\ pc \in [Threads -> MainLabels \cup WatchLabels \cup RequestLabels \cup RetryLabels]
      /\ Retries \subseteq Threads
      /\ retryCancel \in Retries \cup {None}
      /\ None \notin Threads
  BY ConfigAssumption, ThreadAssumption DEF TypeOK
<1> USE <1>0, ThreadAssumption DEF RetryInv, RetryRecorded, RetryDone
<1>1. ASSUME NEW t \in Threads, StartCheck(t) \/ BuildFail(t) \/ BuildOk(t) \/
             StartRecord(t) \/ StartLaunch(t) \/ StopMark(t) \/ StopClose(t) \/
             ReloadRefuse(t) \/ ReloadDecide(t) \/ ReloadAdopt(t) \/ ReloadApply(t) \/
             ReloadSwap(t) \/ ReloadStarted(t) \/ ReloadRestored(t), UNCHANGED Others
      PROVE  RetryInv'
  BY <1>1
     DEF StartCheck, BuildFail, BuildOk, StartRecord, StartLaunch, StopMark, StopClose,
         ReloadRefuse, ReloadDecide, ReloadAdopt, ReloadApply, ReloadSwap, ReloadStarted,
         ReloadRestored
<1>2. ASSUME NEW t \in Threads, AttemptLock(t) PROVE RetryInv'
  BY <1>2 DEF AttemptLock
<1>3. ASSUME NEW t \in Threads, AttemptRunning(t) \/ AttemptUnlock(t) \/ CheckBegin(t) \/
             CheckUnread(t) \/ CheckRead(t) \/ PauseLock(t) \/ PauseUnlock(t)
      PROVE  RetryInv'
  BY <1>3
     DEF AttemptRunning, AttemptUnlock, CheckBegin, CheckUnread, CheckReturn, CheckRead,
         PauseLock, PauseUnlock
<1>4. ASSUME NEW t \in Threads, PauseCancelRetry(t) PROVE RetryInv'
  BY <1>4 DEF PauseCancelRetry, CancelRetry
<1>5. ASSUME NEW t \in Threads, ResumeRetry(t) PROVE RetryInv'
  BY <1>5 DEF ResumeRetry, CheckReturn, RetryStart
<1>6. ASSUME NEW d \in Devices, SuperviseKick(d) \/ SuperviseApply(d) \/ SuperviseExit(d),
             UNCHANGED Others
      PROVE  RetryInv'
  BY <1>6 DEF SuperviseKick, SuperviseApply, SuperviseExit
<1>7. ASSUME WatchEvent \/ WatchChanged \/ WatchTimer \/ WatchSettled \/ WatchExit \/
             AddressChange
      PROVE  RetryInv'
  BY <1>7 DEF WatchEvent, WatchChanged, WatchTimer, WatchSettled, WatchExit, AddressChange
<1>8. ASSUME NEW r \in Requests, Request(r) \/ Reload(r) \/ ReconnectStep(r) \/
             StartTunnel(r) \/ StartTunnelCheck(r) \/ StartTunnelReturn(r) \/ StopTunnel(r)
             \/ StopTunnelLock(r) \/ StopTunnelReturn(r)
      PROVE  RetryInv'
  BY <1>8
     DEF Request, Reload, MayReload, Home, ReconnectStep, StartTunnel, StartTunnelCheck,
         StartTunnelReturn, StopTunnel, StopTunnelLock, StopTunnelReturn
<1>9. ASSUME NEW r \in Requests, StopTunnelCancel(r) PROVE RetryInv'
  BY <1>9 DEF StopTunnelCancel, CancelRetry
<1>10. ASSUME NEW t \in Requests \cup {Main}, ReloadAdopted(t) \/ ReloadReturned(t)
       PROVE  RetryInv'
  BY <1>10 DEF ReloadAdopted, Home, ReloadReturned
<1>11. ASSUME NEW g \in Retries, RetrySelect(g) PROVE RetryInv'
  BY <1>11 DEF RetrySelect
<1>12. ASSUME NEW g \in Retries, RetryTry(g) PROVE RetryInv'
  BY <1>12 DEF RetryTry
<1>13. ASSUME NEW g \in Retries, RetryTried(g) PROVE RetryInv'
  BY <1>13 DEF RetryTried
<1>14. ASSUME NEW g \in Retries, RetryClear(g) PROVE RetryInv'
  BY <1>14 DEF RetryClear
<1>15. ASSUME Start \/ StartRefused \/ StartAttempt \/ StartFailed PROVE RetryInv'
  BY <1>15 DEF Start, StartRefused, StartAttempt, StartFailed
<1>16. ASSUME StartRetry PROVE RetryInv'
  BY <1>16 DEF StartRetry, RetryStart
<1>17. ASSUME StartListen PROVE RetryInv'
  BY <1>17 DEF StartListen
<1>18. ASSUME StartPipe PROVE RetryInv'
  BY <1>18 DEF StartPipe
<1>19. ASSUME StartWatcher PROVE RetryInv'
  BY <1>19 DEF StartWatcher
<1>20. ASSUME OnPowerResume \/ Reload(Main) \/ Stop \/ StopDrained \/ StopReturn
       PROVE  RetryInv'
  BY <1>20 DEF OnPowerResume, Reload, MayReload, Home, Stop, StopDrained, StopReturn
<1>21. ASSUME StopPipe PROVE RetryInv'
  BY <1>21 DEF StopPipe
<1> HIDE DEF RetryInv
<1> QED
  BY <1>1, <1>2, <1>3, <1>4, <1>5, <1>6, <1>7, <1>8, <1>9, <1>10, <1>11, <1>12, <1>13,
     <1>14, <1>15, <1>16, <1>17, <1>18, <1>19, <1>20, <1>21
     DEF Next, MainStep, WatchStep, CallStep, TunnelStep, ReloadStep, RequestStep, RetryStep,
         Supervise

-----------------------------------------------------------------------------
(* The theorems *)

\* Stuttering preserves every part of the invariants.
LEMMA Stutter ==
    ASSUME UNCHANGED vars
    PROVE  /\ TypeInv => TypeInv'
           /\ ControlInv => ControlInv'
           /\ DeviceInv /\ StopInv /\ PauseInv => DeviceInv' /\ StopInv' /\ PauseInv'
           /\ RetryInv => RetryInv'
<1> USE DEF vars
<1>1. TypeInv => TypeInv'
  BY DEF TypeInv, TypeOK, TunnelTypeOK, HeldInv
<1>2. ControlInv => ControlInv'
  BY DEF ControlInv, StageInv, OpInv, LockInv, HoldsStartMu, PhaseInv, ConfigInv
<1>3. DeviceInv /\ StopInv /\ PauseInv => DeviceInv' /\ StopInv' /\ PauseInv'
  BY DEF DeviceInv, StopInv, PauseInv, Pausing, Down
<1>4. RetryInv => RetryInv'
  BY DEF RetryInv, RetryRecorded, RetryDone
<1> QED
  BY <1>1, <1>2, <1>3, <1>4

\* The first state satisfies every part.
LEMMA Initially == ASSUME Init PROVE PauseSafe /\ RetryInv
<1> USE ConfigAssumption, ThreadAssumption, ManagerAssumption DEF Init, TunnelInit
<1>1. TypeOK
  <2>1. TunnelTypeOK
    BY DEF TunnelTypeOK, NoReload, NoApply
  <2>2. /\ wanted \in BOOLEAN /\ ctxDone \in BOOLEAN /\ accepting \in BOOLEAN
        /\ registered \in BOOLEAN /\ event \in BOOLEAN /\ timer \in BOOLEAN
    OBVIOUS
  <2>3. /\ host \subseteq Addresses
        /\ readFails \in 0 .. ReadFailures
    OBVIOUS
  <2>4. /\ pc \in [Threads -> MainLabels \cup WatchLabels \cup RequestLabels \cup RetryLabels]
        /\ pc[Main] \in MainLabels
        /\ pc[Watch] \in WatchLabels
        /\ \A r \in Requests : pc[r] \in RequestLabels
        /\ \A g \in Retries : pc[g] \in RetryLabels
    OBVIOUS
  <2> QED
    BY <2>1, <2>2, <2>3, <2>4 DEF TypeOK
<1>2. HeldInv
  BY DEF HeldInv
<1>3. ControlInv
  BY DEF ControlInv, StageInv, OpInv, LockInv, HoldsStartMu, PhaseInv, ConfigInv
<1>4. DeviceInv /\ StopInv /\ PauseInv
  BY DEF DeviceInv, StopInv, PauseInv, Down
<1>5. RetryInv
  BY DEF RetryInv, RetryRecorded
<1> QED
  BY <1>1, <1>2, <1>3, <1>4, <1>5 DEF PauseSafe, TypeInv

\* Every variable of the manager and the tunnel keeps its type: in particular a
\* running tunnel always has a device to stop, and cancelRetry never calls nil.
THEOREM ManagerTypes == Spec => []TypeOK
<1>1. Init => TypeInv
  BY Initially DEF PauseSafe
<1>2. TypeInv /\ [Next]_vars => TypeInv'
  BY TypeStep, Stutter
<1>3. TypeInv => TypeOK
  BY DEF TypeInv
<1> QED
  BY <1>1, <1>2, <1>3, PTL DEF Spec

\* The record of the pending retry (manager.go, retryStart, cancelRetry and
\* clearRetry) is exact however many retries overlap: every live one can be
\* cancelled, and RetryPending never reports one that has finished.
THEOREM RetryAlwaysRecorded == Spec => []RetryRecorded
<1>1. Init => TypeOK /\ RetryInv
  BY Initially DEF PauseSafe, TypeInv
<1>2. TypeOK /\ RetryInv /\ [Next]_vars => RetryInv'
  BY RetryInvStep, Stutter
<1>3. RetryInv => RetryRecorded
  BY DEF RetryInv
<1> QED
  BY <1>1, <1>2, <1>3, ManagerTypes, PTL DEF Spec

\* The inductive invariant behind a pause.
THEOREM PauseInvariant == ASSUME SameStack PROVE Spec => []PauseSafe
<1>1. Init => PauseSafe
  BY Initially
<1>2. PauseSafe /\ [Next]_vars => PauseSafe'
  <2>1. ASSUME PauseSafe, Next PROVE PauseSafe'
    BY <2>1, TypeStep, ControlStep, PauseStep DEF PauseSafe, TypeInv
  <2>2. ASSUME PauseSafe, UNCHANGED vars PROVE PauseSafe'
    BY <2>2, Stutter DEF PauseSafe
  <2> QED
    BY <2>1, <2>2
<1> QED
  BY <1>1, <1>2, PTL DEF Spec

\* pause (manager.go) takes the tunnel down and nothing brings it up again
\* until resume, whatever retries, manual starts, reloads over UAPI and
\* notifications race with it, as long as no reload rebuilds the tunnel.
THEOREM PauseKeepsTunnelDown == ASSUME SameStack PROVE Spec => []PausedMeansDown
<1>1. PauseSafe => PausedMeansDown
  BY ConfigAssumption
     DEF PauseSafe, PauseInv, Pausing, Down, ControlInv, LockInv, PausedMeansDown
<1> QED
  BY <1>1, PauseInvariant, PTL

\* startTunnelOnce: "an attempt either sees the pause or finishes before pause
\* stops what it built" holds of every attempt that goes through startMu; only
\* the rebuild of Tunnel.Reload, which does not, can break it.
THEOREM AttemptsRespectPause == ASSUME SameStack PROVE Spec => []NotRunningWhilePaused
<1>1. PausedMeansDown => NotRunningWhilePaused
  BY DEF PausedMeansDown, NotRunningWhilePaused
<1> QED
  BY <1>1, PauseKeepsTunnelDown, PTL

=============================================================================
