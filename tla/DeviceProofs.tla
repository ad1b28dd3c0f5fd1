--------------------------- MODULE DeviceProofs ---------------------------
(***************************************************************************)
(* More about module Manager, for any number of requests, retries and      *)
(* devices.  While no reload rebuilds the tunnel: at most one device is    *)
(* open and none is lost, and Manager.Stop leaves nothing behind.  With    *)
(* rebuilds: the configuration the manager reports is the one of the       *)
(* tunnel while reloads follow one another, and the watcher's check ends   *)
(* in agreement with the adapters while these can be read.                 *)
(***************************************************************************)
EXTENDS ManagerProofs, FiniteSetTheorems

\* Locks are held by those who are inside their critical sections.
OwnerInv ==
    \A t \in Threads :
        /\ startMu = t => HoldsStartMu(t)
        /\ conflictMu = t => cc[t] \notin {"idle", "check"}

\* The control loop has not come to serve, or never will.
Booting == pc[Main] \in {"boot", "checked", "attempted", "listen", "failing", "failed"}
Failing == pc[Main] \in {"failing", "failed"}

\* A thread that has brought a device up, or makes no attempt, before the service
\* serves.
Spent(t) ==
    /\ at[t] = "idle" => /\ pc[t] \notin {"boot", "checked", "wait", "try"}
                         /\ pc[t] \in {"attempted", "tried"} => res[t] = "ok"
    /\ at[t] # "idle" => /\ at[t] = "starting" /\ op[t] \notin {"start", "build"}
                         /\ op[t] = "idle" => res[t] = "ok"

\* Something is left of a device: it is open, supervised, or about to be supervised.
Left(d) == d \in open \cup sup \/ \E t \in Threads : op[t] = "launch" /\ hold[t] = d

\* Until the service serves nobody pauses it twice, and one retry at most is
\* started, when the first attempt has failed.
BootInv ==
    /\ pc[Main] \in {"boot", "checked", "attempted"} => \A g \in Retries : pc[g] = "idle"
    /\ pc[Main] = "boot" => pausedBy = None
    /\ pc[Main] = "checked" => /\ cc[Main] \in {"check", "list"} => pausedBy = None
                               /\ cc[Main] # "retry"
    /\ Booting => \A g, h \in Retries : pc[g] # "idle" /\ pc[h] # "idle" => g = h

\* Until then at most one attempt succeeds, even when Start has to stop the tunnel
\* without holding startMu.
SpentInv ==
    Booting =>
        /\ (running \/ \E d \in Devices : Left(d)) => \A t \in Retries \cup {Main} : Spent(t)
        /\ \A d, e \in Devices : Left(d) /\ Left(e) => d = e

\* Devices are built and closed one at a time; while the service serves, a
\* supervisor runs beside the recorded device or the one that is being closed.
SoleInv ==
    /\ running => dev \in open
    /\ \A t \in Threads : op[t] \in {"record", "drain"} => hold[t] \in open /\ ~running
    /\ \A t, u \in Threads :
         op[t] \in {"record", "drain"} /\ op[u] \in {"record", "drain"} => t = u
    /\ ~Failing =>
         /\ \A t \in Threads : op[t] = "launch" => running /\ dev = hold[t]
         /\ \A d \in sup : \/ running /\ dev = d
                           \/ \E t \in Threads : op[t] = "drain" /\ hold[t] = d

\* How far Manager.Stop has come.
CloseInv ==
    /\ pc[Main] \in {"closing", "stopped"} => \A g \in Retries : pc[g] = "idle"
    /\ pc[Main] = "closing" /\ op[Main] = "drain" => ~running /\ open \subseteq {hold[Main]}
    /\ pc[Main] = "closing" /\ op[Main] = "idle" => ~running /\ open = {} /\ sup = {}
    /\ pc[Main] = "stopped" => ~running /\ open = {} /\ sup = {}

DeviceSafe == OwnerInv /\ BootInv /\ SpentInv /\ SoleInv /\ CloseInv

\* The threads that can be in Reload.
Reloading ==
    (IF "reload" \in Commands THEN Requests ELSE {})
      \cup (IF "paramchange" \in Commands THEN {Main} ELSE {})

OneReload == \A t, u \in Reloading : t = u

\* Which call a thread is in, rebuilds by Reload included.
CallInv ==
    /\ pc[Main] \in {"boot", "checked", "attempted", "listen", "failing", "failed", "pipe"} =>
         ~accepting /\ \A r \in Requests : pc[r] = "idle"
    /\ pc[Main] \in {"boot", "checked", "attempted", "listen", "failing", "failed", "pipe",
                     "watch"} => pc[Watch] = "idle"
    /\ \A t \in Threads :
         /\ at[t] # "idle" => cc[t] = "idle" /\ pc[t] \in {"attempted", "tried", "starting"}
         /\ cc[t] # "idle" => pc[t] \in {"checked", "changed", "settled", "reloaded"}
         /\ rs[t] # "idle" => pc[t] = "reload"
         /\ pc[t] = "reload" => t \in Reloading
         /\ op[t] # "idle" => \/ at[t] = "starting" \/ cc[t] = "stopping"
                              \/ pc[t] \in {"stopping", "failing", "closing"}
                              \/ rs[t] \in {"swap", "started", "restored"}

\* The tunnel's configuration at each stage of a reload.
CfgInv ==
    /\ (\A t \in Threads : pc[t] # "reload") => cfg = tunCfg
    /\ \A t \in Threads : pc[t] = "reload" =>
         /\ rs[t] \in {"begin", "adopt", "apply", "swap", "restored"} => cfg = tunCfg
         /\ rs[t] = "started" => cfg = rl[t].next
         /\ rs[t] \in {"swap", "started"} => rl[t].prev = tunCfg
         /\ rs[t] = "idle" => IF res[t] = "ok" THEN cfg = rl[t].next ELSE cfg = tunCfg

\* The pause and the adapters agree about the configuration that is loaded.
Agrees == (pausedBy # None) <=> configConflict(tunCfg, host)

\* A thread is in checkConflict and has not set pausedBy yet.
Unread(t) == cc[t] \in {"check", "list"}

\* What a check that is under way compares with, and who will look again.
SettleInv ==
    /\ \A t \in Threads : cc[t] \notin {"idle", "check"} => conflictMu = t
    /\ \A t \in Threads : cc[t] = "list" =>
         seen[t] = tunCfg \/ \E u \in Threads \ {t} : pc[u] = "reloaded" /\ cc[u] = "check"
    /\ pc[Watch] = "settled" =>
         \/ Agrees \/ event \/ ~registered
         \/ \E t \in Threads : pc[t] \in {"settled", "reloaded"} /\ Unread(t)

USE DEF Goto, tunnelVars, deviceVars, stageVars, managerVars, retryVars, lockVars, hostVars,
        watchVars, callVars, Others, MainLabels, WatchLabels, RequestLabels, RetryLabels,
        Idle, TunnelIdle

-----------------------------------------------------------------------------
(* Threads and locks *)

\* What the provers need of the types, with the definitions of the types hidden.
ControlTypes ==
    /\ pc \in [Threads -> MainLabels \cup WatchLabels \cup RequestLabels \cup RetryLabels]
    /\ pc[Main] \in MainLabels
    /\ pc[Watch] \in WatchLabels
    /\ \A r \in Requests : pc[r] \in RequestLabels
    /\ \A g \in Retries : pc[g] \in RetryLabels
    /\ at \in [Threads -> {"idle", "lock", "running", "starting"}]
    /\ cc \in [Threads -> {"idle", "check", "list", "cancelretry", "stoplock", "stopping", "retry"}]
    /\ op \in [Threads -> {"idle", "start", "build", "record", "launch", "stop", "drain"}]
    /\ rs \in [Threads -> {"idle", "begin", "adopt", "apply", "swap", "started", "restored"}]
    /\ res \in [Threads -> {"none", "ok", "fail", "paused"}]
    /\ hold \in [Threads -> Devices \cup {None}]
    /\ rl \in [Threads -> [next : Configs \cup {None}, prev : Configs \cup {None},
                           dev : Devices \cup {None}]]
    /\ open \subseteq Devices /\ sup \subseteq Devices
    /\ None \notin Threads /\ None \notin Devices

LEMMA TypesGiveControl == ASSUME TypeOK PROVE ControlTypes
  BY ConfigAssumption DEF TypeOK, TunnelTypeOK, ControlTypes

\* A lock that is taken is held by whoever took it, until it is given back.
LEMMA OwnerStep ==
    ASSUME ControlTypes, ControlInv, OwnerInv, [Next]_vars
    PROVE  OwnerInv'
<1> USE DEF ControlTypes, OwnerInv, HoldsStartMu
<1>1. ASSUME NEW t \in Threads, StartCheck(t), UNCHANGED Others PROVE OwnerInv'
  BY <1>1, ThreadAssumption DEF StartCheck, ControlInv, StageInv, LockInv
<1>2. ASSUME NEW t \in Threads, BuildFail(t), UNCHANGED Others PROVE OwnerInv'
  BY <1>2, ThreadAssumption DEF BuildFail, ControlInv, StageInv, LockInv
<1>3. ASSUME NEW t \in Threads, BuildOk(t), UNCHANGED Others PROVE OwnerInv'
  BY <1>3, ThreadAssumption DEF BuildOk, FreeDevices, ControlInv, StageInv, LockInv
<1>4. ASSUME NEW t \in Threads, StartRecord(t), UNCHANGED Others PROVE OwnerInv'
  BY <1>4, ThreadAssumption DEF StartRecord, ControlInv, StageInv, LockInv
<1>5. ASSUME NEW t \in Threads, StartLaunch(t), UNCHANGED Others PROVE OwnerInv'
  BY <1>5, ThreadAssumption DEF StartLaunch, ControlInv, StageInv, LockInv
<1>6. ASSUME NEW t \in Threads, StopMark(t), UNCHANGED Others PROVE OwnerInv'
  BY <1>6, ThreadAssumption DEF StopMark, ControlInv, StageInv, LockInv
<1>7. ASSUME NEW t \in Threads, StopClose(t), UNCHANGED Others PROVE OwnerInv'
  BY <1>7, ThreadAssumption DEF StopClose, ControlInv, StageInv, LockInv
<1>8. ASSUME NEW t \in Threads, ReloadRefuse(t), UNCHANGED Others PROVE OwnerInv'
  BY <1>8, ThreadAssumption DEF ReloadRefuse, ReloadReturn, ControlInv, StageInv,
     LockInv
<1>9. ASSUME NEW t \in Threads, ReloadDecide(t), UNCHANGED Others PROVE OwnerInv'
  BY <1>9, ThreadAssumption DEF ReloadDecide, stackEqual, ControlInv, StageInv, LockInv
<1>10. ASSUME NEW t \in Threads, ReloadAdopt(t), UNCHANGED Others PROVE OwnerInv'
  BY <1>10, ThreadAssumption DEF ReloadAdopt, ReloadReturn, ControlInv, StageInv,
     LockInv
<1>11. ASSUME NEW t \in Threads, ReloadApply(t), UNCHANGED Others PROVE OwnerInv'
  BY <1>11, ThreadAssumption DEF ReloadApply, ReloadReturn, ControlInv, StageInv,
     LockInv
<1>12. ASSUME NEW t \in Threads, ReloadSwap(t), UNCHANGED Others PROVE OwnerInv'
  BY <1>12, ThreadAssumption DEF ReloadSwap, ControlInv, StageInv, LockInv
<1>13. ASSUME NEW t \in Threads, ReloadStarted(t), UNCHANGED Others PROVE OwnerInv'
  BY <1>13, ThreadAssumption DEF ReloadStarted, ReloadReturn, ControlInv, StageInv,
     LockInv
<1>14. ASSUME NEW t \in Threads, ReloadRestored(t), UNCHANGED Others PROVE OwnerInv'
  BY <1>14, ThreadAssumption DEF ReloadRestored, ReloadReturn, ControlInv, StageInv,
     LockInv
<1>15. ASSUME NEW t \in Threads, AttemptLock(t) PROVE OwnerInv'
  BY <1>15, ThreadAssumption DEF AttemptLock, ControlInv, StageInv, LockInv
<1>16. ASSUME NEW t \in Threads, AttemptRunning(t) PROVE OwnerInv'
  BY <1>16, ThreadAssumption DEF AttemptRunning, ControlInv, StageInv, LockInv
<1>17. ASSUME NEW t \in Threads, AttemptUnlock(t) PROVE OwnerInv'
  BY <1>17, ThreadAssumption DEF AttemptUnlock, ControlInv, StageInv, LockInv
<1>18. ASSUME NEW t \in Threads, CheckBegin(t) PROVE OwnerInv'
  BY <1>18, ThreadAssumption DEF CheckBegin, ControlInv, StageInv, LockInv
<1>19. ASSUME NEW t \in Threads, CheckUnread(t) PROVE OwnerInv'
  BY <1>19, ThreadAssumption DEF CheckUnread, CheckReturn, ControlInv, StageInv, LockInv
<1>20. ASSUME NEW t \in Threads, CheckRead(t) PROVE OwnerInv'
  BY <1>20, ThreadAssumption DEF CheckRead, CheckReturn, configConflict, ControlInv,
     StageInv, LockInv
<1>21. ASSUME NEW t \in Threads, PauseCancelRetry(t) PROVE OwnerInv'
  BY <1>21, ThreadAssumption DEF PauseCancelRetry, CancelRetry, ControlInv, StageInv,
     LockInv
<1>22. ASSUME NEW t \in Threads, PauseLock(t) PROVE OwnerInv'
  BY <1>22, ThreadAssumption DEF PauseLock, ControlInv, StageInv, LockInv
<1>23. ASSUME NEW t \in Threads, PauseUnlock(t) PROVE OwnerInv'
  BY <1>23, ThreadAssumption DEF PauseUnlock, CheckReturn, ControlInv, StageInv, LockInv
<1>24. ASSUME NEW t \in Threads, ResumeRetry(t) PROVE OwnerInv'
  BY <1>24, ThreadAssumption DEF ResumeRetry, CheckReturn, RetryStart, ControlInv,
     StageInv, LockInv
<1>25. ASSUME NEW d \in Devices, SuperviseKick(d), UNCHANGED Others PROVE OwnerInv'
  BY <1>25, ThreadAssumption DEF SuperviseKick, ControlInv, StageInv, LockInv
<1>26. ASSUME NEW d \in Devices, SuperviseApply(d), UNCHANGED Others PROVE OwnerInv'
  BY <1>26, ThreadAssumption DEF SuperviseApply, ControlInv, StageInv, LockInv
<1>27. ASSUME NEW d \in Devices, SuperviseExit(d), UNCHANGED Others PROVE OwnerInv'
  BY <1>27, ThreadAssumption DEF SuperviseExit, ControlInv, StageInv, LockInv
<1>28. CASE WatchEvent
  BY <1>28, ThreadAssumption DEF WatchEvent, ControlInv, StageInv, LockInv
<1>29. CASE WatchChanged
  BY <1>29, ThreadAssumption DEF WatchChanged, ControlInv, StageInv, LockInv
<1>30. CASE WatchTimer
  BY <1>30, ThreadAssumption DEF WatchTimer, ControlInv, StageInv, LockInv
<1>31. CASE WatchSettled
  BY <1>31, ThreadAssumption DEF WatchSettled, Reconnect, ControlInv, StageInv, LockInv
<1>32. CASE WatchExit
  BY <1>32, ThreadAssumption DEF WatchExit, ControlInv, StageInv, LockInv
<1>33. CASE AddressChange
  BY <1>33, ThreadAssumption DEF AddressChange, ControlInv, StageInv, LockInv
<1>34. ASSUME NEW r \in Requests, Request(r) PROVE OwnerInv'
  BY <1>34, ThreadAssumption DEF Request, ControlInv, StageInv, LockInv
<1>35. ASSUME NEW r \in Requests, Reload(r) PROVE OwnerInv'
  BY <1>35, ThreadAssumption DEF Reload, MayReload, Home, ControlInv, StageInv, LockInv
<1>36. ASSUME NEW r \in Requests, ReconnectStep(r) PROVE OwnerInv'
  BY <1>36, ThreadAssumption DEF ReconnectStep, Reconnect, ControlInv, StageInv, LockInv
<1>37. ASSUME NEW r \in Requests, StartTunnel(r) PROVE OwnerInv'
  BY <1>37, ThreadAssumption DEF StartTunnel, ControlInv, StageInv, LockInv
<1>38. ASSUME NEW r \in Requests, StartTunnelCheck(r) PROVE OwnerInv'
  BY <1>38, ThreadAssumption DEF StartTunnelCheck, ControlInv, StageInv, LockInv
<1>39. ASSUME NEW r \in Requests, StartTunnelReturn(r) PROVE OwnerInv'
  BY <1>39, ThreadAssumption DEF StartTunnelReturn, ControlInv, StageInv, LockInv
<1>40. ASSUME NEW r \in Requests, StopTunnel(r) PROVE OwnerInv'
  BY <1>40, ThreadAssumption DEF StopTunnel, ControlInv, StageInv, LockInv
<1>41. ASSUME NEW r \in Requests, StopTunnelCancel(r) PROVE OwnerInv'
  BY <1>41, ThreadAssumption DEF StopTunnelCancel, CancelRetry, ControlInv, StageInv,
     LockInv
<1>42. ASSUME NEW r \in Requests, StopTunnelLock(r) PROVE OwnerInv'
  BY <1>42, ThreadAssumption DEF StopTunnelLock, ControlInv, StageInv, LockInv
<1>43. ASSUME NEW r \in Requests, StopTunnelReturn(r) PROVE OwnerInv'
  BY <1>43, ThreadAssumption DEF StopTunnelReturn, ControlInv, StageInv, LockInv
<1>44. ASSUME NEW t \in Requests \cup {Main}, ReloadAdopted(t) PROVE OwnerInv'
  BY <1>44, ThreadAssumption DEF ReloadAdopted, Home, NoReload, ControlInv, StageInv,
     LockInv
<1>45. ASSUME NEW t \in Requests \cup {Main}, ReloadReturned(t) PROVE OwnerInv'
  BY <1>45, ThreadAssumption DEF ReloadReturned, Home, ControlInv, StageInv, LockInv
<1>46. ASSUME NEW g \in Retries, RetrySelect(g) PROVE OwnerInv'
  BY <1>46, ThreadAssumption DEF RetrySelect, RetryDone, ControlInv, StageInv, LockInv
<1>47. ASSUME NEW g \in Retries, RetryTry(g) PROVE OwnerInv'
  BY <1>47, ThreadAssumption DEF RetryTry, ControlInv, StageInv, LockInv
<1>48. ASSUME NEW g \in Retries, RetryTried(g) PROVE OwnerInv'
  BY <1>48, ThreadAssumption DEF RetryTried, RetryDone, ControlInv, StageInv, LockInv
<1>49. ASSUME NEW g \in Retries, RetryClear(g) PROVE OwnerInv'
  BY <1>49, ThreadAssumption DEF RetryClear, ControlInv, StageInv, LockInv
<1>50. CASE Start  BY <1>50, ThreadAssumption DEF Start, ControlInv, StageInv, LockInv
<1>51. CASE StartRefused
  BY <1>51, ThreadAssumption DEF StartRefused, ControlInv, StageInv, LockInv
<1>52. CASE StartAttempt
  BY <1>52, ThreadAssumption DEF StartAttempt, ControlInv, StageInv, LockInv
<1>53. CASE StartRetry
  BY <1>53, ThreadAssumption DEF StartRetry, RetryStart, ControlInv, StageInv, LockInv
<1>54. CASE StartListen
  BY <1>54, ThreadAssumption DEF StartListen, ControlInv, StageInv, LockInv
<1>55. CASE StartFailed
  BY <1>55, ThreadAssumption DEF StartFailed, ControlInv, StageInv, LockInv
<1>56. CASE StartPipe
  BY <1>56, ThreadAssumption DEF StartPipe, ControlInv, StageInv, LockInv
<1>57. CASE StartWatcher
  BY <1>57, ThreadAssumption DEF StartWatcher, ControlInv, StageInv, LockInv
<1>58. CASE OnPowerResume
  BY <1>58, ThreadAssumption DEF OnPowerResume, Reconnect, ControlInv, StageInv, LockInv
<1>59. CASE Reload(Main)
  BY <1>59, ThreadAssumption DEF Reload, MayReload, Home, ControlInv, StageInv, LockInv
<1>60. CASE Stop  BY <1>60, ThreadAssumption DEF Stop, ControlInv, StageInv, LockInv
<1>61. CASE StopPipe
  BY <1>61, ThreadAssumption DEF StopPipe, ControlInv, StageInv, LockInv
<1>62. CASE StopDrained
  BY <1>62, ThreadAssumption DEF StopDrained, ControlInv, StageInv, LockInv
<1>63. CASE StopReturn
  BY <1>63, ThreadAssumption DEF StopReturn, ControlInv, StageInv, LockInv
<1>64. CASE UNCHANGED vars
  BY <1>64, SMTT(30) DEF vars
<1> HIDE DEF ControlTypes, OwnerInv, HoldsStartMu
<1> QED
  BY <1>1, <1>2, <1>3, <1>4, <1>5, <1>6, <1>7, <1>8, <1>9, <1>10, <1>11, <1>12, <1>13,
     <1>14, <1>15, <1>16, <1>17, <1>18, <1>19, <1>20, <1>21, <1>22, <1>23, <1>24, <1>25,
     <1>26, <1>27, <1>28, <1>29, <1>30, <1>31, <1>32, <1>33, <1>34, <1>35, <1>36, <1>37,
     <1>38, <1>39, <1>40, <1>41, <1>42, <1>43, <1>44, <1>45, <1>46, <1>47, <1>48, <1>49,
     <1>50, <1>51, <1>52, <1>53, <1>54, <1>55, <1>56, <1>57, <1>58, <1>59, <1>60, <1>61,
     <1>62, <1>63, <1>64 DEF Next, MainStep, WatchStep, CallStep, TunnelStep,
     ReloadStep, RequestStep, RetryStep, Supervise

\* A thread calls one thing at a time.
LEMMA CallStepInv ==
    ASSUME ControlTypes, CallInv, [Next]_vars
    PROVE  CallInv'
<1> USE DEF ControlTypes, CallInv, Reloading
<1>1. ASSUME NEW t \in Threads, StartCheck(t), UNCHANGED Others PROVE CallInv'
  BY <1>1, ThreadAssumption DEF StartCheck
<1>2. ASSUME NEW t \in Threads, BuildFail(t), UNCHANGED Others PROVE CallInv'
  BY <1>2, ThreadAssumption DEF BuildFail
<1>3. ASSUME NEW t \in Threads, BuildOk(t), UNCHANGED Others PROVE CallInv'
  BY <1>3, ThreadAssumption DEF BuildOk, FreeDevices
<1>4. ASSUME NEW t \in Threads, StartRecord(t), UNCHANGED Others PROVE CallInv'
  BY <1>4, ThreadAssumption DEF StartRecord
<1>5. ASSUME NEW t \in Threads, StartLaunch(t), UNCHANGED Others PROVE CallInv'
  BY <1>5, ThreadAssumption DEF StartLaunch
<1>6. ASSUME NEW t \in Threads, StopMark(t), UNCHANGED Others PROVE CallInv'
  BY <1>6, ThreadAssumption DEF StopMark
<1>7. ASSUME NEW t \in Threads, StopClose(t), UNCHANGED Others PROVE CallInv'
  BY <1>7, ThreadAssumption DEF StopClose
<1>8. ASSUME NEW t \in Threads, ReloadRefuse(t), UNCHANGED Others PROVE CallInv'
  BY <1>8, ThreadAssumption DEF ReloadRefuse, ReloadReturn
<1>9. ASSUME NEW t \in Threads, ReloadDecide(t), UNCHANGED Others PROVE CallInv'
  BY <1>9, ThreadAssumption DEF ReloadDecide, stackEqual
<1>10. ASSUME NEW t \in Threads, ReloadAdopt(t), UNCHANGED Others PROVE CallInv'
  BY <1>10, ThreadAssumption DEF ReloadAdopt, ReloadReturn
<1>11. ASSUME NEW t \in Threads, ReloadApply(t), UNCHANGED Others PROVE CallInv'
  BY <1>11, ThreadAssumption DEF ReloadApply, ReloadReturn
<1>12. ASSUME NEW t \in Threads, ReloadSwap(t), UNCHANGED Others PROVE CallInv'
  BY <1>12, ThreadAssumption DEF ReloadSwap
<1>13. ASSUME NEW t \in Threads, ReloadStarted(t), UNCHANGED Others PROVE CallInv'
  BY <1>13, ThreadAssumption DEF ReloadStarted, ReloadReturn
<1>14. ASSUME NEW t \in Threads, ReloadRestored(t), UNCHANGED Others PROVE CallInv'
  BY <1>14, ThreadAssumption DEF ReloadRestored, ReloadReturn
<1>15. ASSUME NEW t \in Threads, AttemptLock(t) PROVE CallInv'
  BY <1>15, ThreadAssumption DEF AttemptLock
<1>16. ASSUME NEW t \in Threads, AttemptRunning(t) PROVE CallInv'
  BY <1>16, ThreadAssumption DEF AttemptRunning
<1>17. ASSUME NEW t \in Threads, AttemptUnlock(t) PROVE CallInv'
  BY <1>17, ThreadAssumption DEF AttemptUnlock
<1>18. ASSUME NEW t \in Threads, CheckBegin(t) PROVE CallInv'
  BY <1>18, ThreadAssumption DEF CheckBegin
<1>19. ASSUME NEW t \in Threads, CheckUnread(t) PROVE CallInv'
  BY <1>19, ThreadAssumption DEF CheckUnread, CheckReturn
<1>20. ASSUME NEW t \in Threads, CheckRead(t) PROVE CallInv'
  BY <1>20, ThreadAssumption DEF CheckRead, CheckReturn, configConflict
<1>21. ASSUME NEW t \in Threads, PauseCancelRetry(t) PROVE CallInv'
  BY <1>21, ThreadAssumption DEF PauseCancelRetry, CancelRetry
<1>22. ASSUME NEW t \in Threads, PauseLock(t) PROVE CallInv'
  BY <1>22, ThreadAssumption DEF PauseLock
<1>23. ASSUME NEW t \in Threads, PauseUnlock(t) PROVE CallInv'
  BY <1>23, ThreadAssumption DEF PauseUnlock, CheckReturn
<1>24. ASSUME NEW t \in Threads, ResumeRetry(t) PROVE CallInv'
  BY <1>24, ThreadAssumption DEF ResumeRetry, CheckReturn, RetryStart
<1>25. ASSUME NEW d \in Devices, SuperviseKick(d), UNCHANGED Others PROVE CallInv'
  BY <1>25, ThreadAssumption DEF SuperviseKick
<1>26. ASSUME NEW d \in Devices, SuperviseApply(d), UNCHANGED Others PROVE CallInv'
  BY <1>26, ThreadAssumption DEF SuperviseApply
<1>27. ASSUME NEW d \in Devices, SuperviseExit(d), UNCHANGED Others PROVE CallInv'
  BY <1>27, ThreadAssumption DEF SuperviseExit
<1>28. CASE WatchEvent  BY <1>28, ThreadAssumption DEF WatchEvent
<1>29. CASE WatchChanged  BY <1>29, ThreadAssumption DEF WatchChanged
<1>30. CASE WatchTimer  BY <1>30, ThreadAssumption DEF WatchTimer
<1>31. CASE WatchSettled  BY <1>31, ThreadAssumption DEF WatchSettled, Reconnect
<1>32. CASE WatchExit  BY <1>32, ThreadAssumption DEF WatchExit
<1>33. CASE AddressChange  BY <1>33, ThreadAssumption DEF AddressChange
<1>34. ASSUME NEW r \in Requests, Request(r) PROVE CallInv'
  BY <1>34, ThreadAssumption DEF Request
<1>35. ASSUME NEW r \in Requests, Reload(r) PROVE CallInv'
  BY <1>35, ThreadAssumption DEF Reload, MayReload, Home
<1>36. ASSUME NEW r \in Requests, ReconnectStep(r) PROVE CallInv'
  BY <1>36, ThreadAssumption DEF ReconnectStep, Reconnect
<1>37. ASSUME NEW r \in Requests, StartTunnel(r) PROVE CallInv'
  BY <1>37, ThreadAssumption DEF StartTunnel
<1>38. ASSUME NEW r \in Requests, StartTunnelCheck(r) PROVE CallInv'
  BY <1>38, ThreadAssumption DEF StartTunnelCheck
<1>39. ASSUME NEW r \in Requests, StartTunnelReturn(r) PROVE CallInv'
  BY <1>39, ThreadAssumption DEF StartTunnelReturn
<1>40. ASSUME NEW r \in Requests, StopTunnel(r) PROVE CallInv'
  BY <1>40, ThreadAssumption DEF StopTunnel
<1>41. ASSUME NEW r \in Requests, StopTunnelCancel(r) PROVE CallInv'
  BY <1>41, ThreadAssumption DEF StopTunnelCancel, CancelRetry
<1>42. ASSUME NEW r \in Requests, StopTunnelLock(r) PROVE CallInv'
  BY <1>42, ThreadAssumption DEF StopTunnelLock
<1>43. ASSUME NEW r \in Requests, StopTunnelReturn(r) PROVE CallInv'
  BY <1>43, ThreadAssumption DEF StopTunnelReturn
<1>44. ASSUME NEW t \in Requests \cup {Main}, ReloadAdopted(t) PROVE CallInv'
  BY <1>44, ThreadAssumption DEF ReloadAdopted, Home, NoReload
<1>45. ASSUME NEW t \in Requests \cup {Main}, ReloadReturned(t) PROVE CallInv'
  BY <1>45, ThreadAssumption DEF ReloadReturned, Home
<1>46. ASSUME NEW g \in Retries, RetrySelect(g) PROVE CallInv'
  BY <1>46, ThreadAssumption DEF RetrySelect, RetryDone
<1>47. ASSUME NEW g \in Retries, RetryTry(g) PROVE CallInv'
  BY <1>47, ThreadAssumption DEF RetryTry
<1>48. ASSUME NEW g \in Retries, RetryTried(g) PROVE CallInv'
  BY <1>48, ThreadAssumption DEF RetryTried, RetryDone
<1>49. ASSUME NEW g \in Retries, RetryClear(g) PROVE CallInv'
  BY <1>49, ThreadAssumption DEF RetryClear
<1>50. CASE Start  BY <1>50, ThreadAssumption DEF Start
<1>51. CASE StartRefused  BY <1>51, ThreadAssumption DEF StartRefused
<1>52. CASE StartAttempt  BY <1>52, ThreadAssumption DEF StartAttempt
<1>53. CASE StartRetry  BY <1>53, ThreadAssumption DEF StartRetry, RetryStart
<1>54. CASE StartListen  BY <1>54, ThreadAssumption DEF StartListen
<1>55. CASE StartFailed  BY <1>55, ThreadAssumption DEF StartFailed
<1>56. CASE StartPipe  BY <1>56, ThreadAssumption DEF StartPipe
<1>57. CASE StartWatcher  BY <1>57, ThreadAssumption DEF StartWatcher
<1>58. CASE OnPowerResume  BY <1>58, ThreadAssumption DEF OnPowerResume, Reconnect
<1>59. CASE Reload(Main)  BY <1>59, ThreadAssumption DEF Reload, MayReload, Home
<1>60. CASE Stop  BY <1>60, ThreadAssumption DEF Stop
<1>61. CASE StopPipe  BY <1>61, ThreadAssumption DEF StopPipe
<1>62. CASE StopDrained  BY <1>62, ThreadAssumption DEF StopDrained
<1>63. CASE StopReturn  BY <1>63, ThreadAssumption DEF StopReturn
<1>64. CASE UNCHANGED vars
  BY <1>64, SMTT(30) DEF vars
<1> HIDE DEF ControlTypes, CallInv, Reloading
<1> QED
  BY <1>1, <1>2, <1>3, <1>4, <1>5, <1>6, <1>7, <1>8, <1>9, <1>10, <1>11, <1>12, <1>13,
     <1>14, <1>15, <1>16, <1>17, <1>18, <1>19, <1>20, <1>21, <1>22, <1>23, <1>24, <1>25,
     <1>26, <1>27, <1>28, <1>29, <1>30, <1>31, <1>32, <1>33, <1>34, <1>35, <1>36, <1>37,
     <1>38, <1>39, <1>40, <1>41, <1>42, <1>43, <1>44, <1>45, <1>46, <1>47, <1>48, <1>49,
     <1>50, <1>51, <1>52, <1>53, <1>54, <1>55, <1>56, <1>57, <1>58, <1>59, <1>60, <1>61,
     <1>62, <1>63, <1>64 DEF Next, MainStep, WatchStep, CallStep, TunnelStep,
     ReloadStep, RequestStep, RetryStep, Supervise

\* A reload sets t.cfg and m.tunCfg to the same configuration, or neither.
LEMMA CfgStep ==
    ASSUME OneReload, ControlTypes, CallInv, CfgInv, [Next]_vars
    PROVE  CfgInv'
<1> USE DEF ControlTypes, CallInv, CfgInv, OneReload
<1>1. ASSUME NEW t \in Threads, StartCheck(t), UNCHANGED Others PROVE CfgInv'
  BY <1>1, ThreadAssumption DEF StartCheck
<1>2. ASSUME NEW t \in Threads, BuildFail(t), UNCHANGED Others PROVE CfgInv'
  BY <1>2, ThreadAssumption DEF BuildFail
<1>3. ASSUME NEW t \in Threads, BuildOk(t), UNCHANGED Others PROVE CfgInv'
  BY <1>3, ThreadAssumption DEF BuildOk, FreeDevices
<1>4. ASSUME NEW t \in Threads, StartRecord(t), UNCHANGED Others PROVE CfgInv'
  BY <1>4, ThreadAssumption DEF StartRecord
<1>5. ASSUME NEW t \in Threads, StartLaunch(t), UNCHANGED Others PROVE CfgInv'
  BY <1>5, ThreadAssumption DEF StartLaunch
<1>6. ASSUME NEW t \in Threads, StopMark(t), UNCHANGED Others PROVE CfgInv'
  BY <1>6, ThreadAssumption DEF StopMark
<1>7. ASSUME NEW t \in Threads, StopClose(t), UNCHANGED Others PROVE CfgInv'
  BY <1>7, ThreadAssumption DEF StopClose
<1>8. ASSUME NEW t \in Threads, ReloadRefuse(t), UNCHANGED Others PROVE CfgInv'
  BY <1>8, ThreadAssumption DEF ReloadRefuse, ReloadReturn
<1>9. ASSUME NEW t \in Threads, ReloadDecide(t), UNCHANGED Others PROVE CfgInv'
  BY <1>9, ThreadAssumption DEF ReloadDecide, stackEqual
<1>10. ASSUME NEW t \in Threads, ReloadAdopt(t), UNCHANGED Others PROVE CfgInv'
  BY <1>10, ThreadAssumption DEF ReloadAdopt, ReloadReturn
<1>11. ASSUME NEW t \in Threads, ReloadApply(t), UNCHANGED Others PROVE CfgInv'
  BY <1>11, ThreadAssumption DEF ReloadApply, ReloadReturn
<1>12. ASSUME NEW t \in Threads, ReloadSwap(t), UNCHANGED Others PROVE CfgInv'
  BY <1>12, ThreadAssumption DEF ReloadSwap
<1>13. ASSUME NEW t \in Threads, ReloadStarted(t), UNCHANGED Others PROVE CfgInv'
  BY <1>13, ThreadAssumption DEF ReloadStarted, ReloadReturn
<1>14. ASSUME NEW t \in Threads, ReloadRestored(t), UNCHANGED Others PROVE CfgInv'
  BY <1>14, ThreadAssumption DEF ReloadRestored, ReloadReturn
<1>15. ASSUME NEW t \in Threads, AttemptLock(t) PROVE CfgInv'
  BY <1>15, ThreadAssumption DEF AttemptLock
<1>16. ASSUME NEW t \in Threads, AttemptRunning(t) PROVE CfgInv'
  BY <1>16, ThreadAssumption DEF AttemptRunning
<1>17. ASSUME NEW t \in Threads, AttemptUnlock(t) PROVE CfgInv'
  BY <1>17, ThreadAssumption DEF AttemptUnlock
<1>18. ASSUME NEW t \in Threads, CheckBegin(t) PROVE CfgInv'
  BY <1>18, ThreadAssumption DEF CheckBegin
<1>19. ASSUME NEW t \in Threads, CheckUnread(t) PROVE CfgInv'
  BY <1>19, ThreadAssumption DEF CheckUnread, CheckReturn
<1>20. ASSUME NEW t \in Threads, CheckRead(t) PROVE CfgInv'
  BY <1>20, ThreadAssumption DEF CheckRead, CheckReturn, configConflict
<1>21. ASSUME NEW t \in Threads, PauseCancelRetry(t) PROVE CfgInv'
  BY <1>21, ThreadAssumption DEF PauseCancelRetry, CancelRetry
<1>22. ASSUME NEW t \in Threads, PauseLock(t) PROVE CfgInv'
  BY <1>22, ThreadAssumption DEF PauseLock
<1>23. ASSUME NEW t \in Threads, PauseUnlock(t) PROVE CfgInv'
  BY <1>23, ThreadAssumption DEF PauseUnlock, CheckReturn
<1>24. ASSUME NEW t \in Threads, ResumeRetry(t) PROVE CfgInv'
  BY <1>24, ThreadAssumption DEF ResumeRetry, CheckReturn, RetryStart
<1>25. ASSUME NEW d \in Devices, SuperviseKick(d), UNCHANGED Others PROVE CfgInv'
  BY <1>25, ThreadAssumption DEF SuperviseKick
<1>26. ASSUME NEW d \in Devices, SuperviseApply(d), UNCHANGED Others PROVE CfgInv'
  BY <1>26, ThreadAssumption DEF SuperviseApply
<1>27. ASSUME NEW d \in Devices, SuperviseExit(d), UNCHANGED Others PROVE CfgInv'
  BY <1>27, ThreadAssumption DEF SuperviseExit
<1>28. CASE WatchEvent  BY <1>28, ThreadAssumption DEF WatchEvent
<1>29. CASE WatchChanged  BY <1>29, ThreadAssumption DEF WatchChanged
<1>30. CASE WatchTimer  BY <1>30, ThreadAssumption DEF WatchTimer
<1>31. CASE WatchSettled  BY <1>31, ThreadAssumption DEF WatchSettled, Reconnect
<1>32. CASE WatchExit  BY <1>32, ThreadAssumption DEF WatchExit
<1>33. CASE AddressChange  BY <1>33, ThreadAssumption DEF AddressChange
<1>34. ASSUME NEW r \in Requests, Request(r) PROVE CfgInv'
  BY <1>34, ThreadAssumption DEF Request
<1>35. ASSUME NEW r \in Requests, Reload(r) PROVE CfgInv'
  BY <1>35, ThreadAssumption DEF Reload, MayReload, Home, Reloading
<1>36. ASSUME NEW r \in Requests, ReconnectStep(r) PROVE CfgInv'
  BY <1>36, ThreadAssumption DEF ReconnectStep, Reconnect
<1>37. ASSUME NEW r \in Requests, StartTunnel(r) PROVE CfgInv'
  BY <1>37, ThreadAssumption DEF StartTunnel
<1>38. ASSUME NEW r \in Requests, StartTunnelCheck(r) PROVE CfgInv'
  BY <1>38, ThreadAssumption DEF StartTunnelCheck
<1>39. ASSUME NEW r \in Requests, StartTunnelReturn(r) PROVE CfgInv'
  BY <1>39, ThreadAssumption DEF StartTunnelReturn
<1>40. ASSUME NEW r \in Requests, StopTunnel(r) PROVE CfgInv'
  BY <1>40, ThreadAssumption DEF StopTunnel
<1>41. ASSUME NEW r \in Requests, StopTunnelCancel(r) PROVE CfgInv'
  BY <1>41, ThreadAssumption DEF StopTunnelCancel, CancelRetry
<1>42. ASSUME NEW r \in Requests, StopTunnelLock(r) PROVE CfgInv'
  BY <1>42, ThreadAssumption DEF StopTunnelLock
<1>43. ASSUME NEW r \in Requests, StopTunnelReturn(r) PROVE CfgInv'
  BY <1>43, ThreadAssumption DEF StopTunnelReturn
<1>44. ASSUME NEW t \in Requests \cup {Main}, ReloadAdopted(t) PROVE CfgInv'
  BY <1>44, ThreadAssumption DEF ReloadAdopted, Home, NoReload
<1>45. ASSUME NEW t \in Requests \cup {Main}, ReloadReturned(t) PROVE CfgInv'
  BY <1>45, ThreadAssumption DEF ReloadReturned, Home
<1>46. ASSUME NEW g \in Retries, RetrySelect(g) PROVE CfgInv'
  BY <1>46, ThreadAssumption DEF RetrySelect, RetryDone
<1>47. ASSUME NEW g \in Retries, RetryTry(g) PROVE CfgInv'
  BY <1>47, ThreadAssumption DEF RetryTry
<1>48. ASSUME NEW g \in Retries, RetryTried(g) PROVE CfgInv'
  BY <1>48, ThreadAssumption DEF RetryTried, RetryDone
<1>49. ASSUME NEW g \in Retries, RetryClear(g) PROVE CfgInv'
  BY <1>49, ThreadAssumption DEF RetryClear
<1>50. CASE Start  BY <1>50, ThreadAssumption DEF Start
<1>51. CASE StartRefused  BY <1>51, ThreadAssumption DEF StartRefused
<1>52. CASE StartAttempt  BY <1>52, ThreadAssumption DEF StartAttempt
<1>53. CASE StartRetry  BY <1>53, ThreadAssumption DEF StartRetry, RetryStart
<1>54. CASE StartListen  BY <1>54, ThreadAssumption DEF StartListen
<1>55. CASE StartFailed  BY <1>55, ThreadAssumption DEF StartFailed
<1>56. CASE StartPipe  BY <1>56, ThreadAssumption DEF StartPipe
<1>57. CASE StartWatcher  BY <1>57, ThreadAssumption DEF StartWatcher
<1>58. CASE OnPowerResume  BY <1>58, ThreadAssumption DEF OnPowerResume, Reconnect
<1>59. CASE Reload(Main)  BY <1>59, ThreadAssumption DEF Reload, MayReload, Home, Reloading
<1>60. CASE Stop  BY <1>60, ThreadAssumption DEF Stop
<1>61. CASE StopPipe  BY <1>61, ThreadAssumption DEF StopPipe
<1>62. CASE StopDrained  BY <1>62, ThreadAssumption DEF StopDrained
<1>63. CASE StopReturn  BY <1>63, ThreadAssumption DEF StopReturn
<1>64. CASE UNCHANGED vars
  BY <1>64, SMTT(30) DEF vars
<1> HIDE DEF ControlTypes, CallInv, CfgInv, OneReload
<1> QED
  BY <1>1, <1>2, <1>3, <1>4, <1>5, <1>6, <1>7, <1>8, <1>9, <1>10, <1>11, <1>12, <1>13,
     <1>14, <1>15, <1>16, <1>17, <1>18, <1>19, <1>20, <1>21, <1>22, <1>23, <1>24, <1>25,
     <1>26, <1>27, <1>28, <1>29, <1>30, <1>31, <1>32, <1>33, <1>34, <1>35, <1>36, <1>37,
     <1>38, <1>39, <1>40, <1>41, <1>42, <1>43, <1>44, <1>45, <1>46, <1>47, <1>48, <1>49,
     <1>50, <1>51, <1>52, <1>53, <1>54, <1>55, <1>56, <1>57, <1>58, <1>59, <1>60, <1>61,
     <1>62, <1>63, <1>64 DEF Next, MainStep, WatchStep, CallStep, TunnelStep,
     ReloadStep, RequestStep, RetryStep, Supervise

\* Two threads are inside Start and Stop of the tunnel only when Manager.Start
\* stops the tunnel because its listener failed.
LEMMA OneAtATime ==
    ASSUME ControlTypes, ControlInv, CloseInv, ~Failing,
           NEW t \in Threads, NEW u \in Threads, op[t] # "idle", op[u] # "idle"
    PROVE  t = u
<1>1. \A v \in Threads : op[v] # "idle" => HoldsStartMu(v) \/ pc[v] = "closing"
  BY ThreadAssumption
     DEF ControlTypes, ControlInv, StageInv, OpInv, HoldsStartMu, Failing
<1>2. \A v \in Threads : pc[v] = "closing" => v = Main
  BY ThreadAssumption DEF ControlTypes
<1>3. pc[Main] = "closing" => \A v \in Threads \ {Main} : ~HoldsStartMu(v) /\ pc[v] # "closing"
  BY <1>2, ThreadAssumption
     DEF ControlTypes, ControlInv, StageInv, PhaseInv, CloseInv, HoldsStartMu
<1>4. \A v \in Threads : HoldsStartMu(v) => startMu = v
  BY DEF ControlInv, LockInv
<1> QED
  BY <1>1, <1>2, <1>3, <1>4

\* Before the service serves only Manager.Start and the retry make attempts ...
LEMMA BootAttempts ==
    ASSUME ControlTypes, ControlInv, Booting, NEW t \in Threads, at[t] # "idle"
    PROVE  /\ t \in Retries \cup {Main}
           /\ t = Main => pc[Main] = "attempted"
           /\ t \in Retries => pc[t] = "tried"
BY ThreadAssumption DEF ControlTypes, ControlInv, StageInv, PhaseInv, Booting

\* ... and while one of them does, the others make none.
LEMMA AttemptAlone ==
    ASSUME ControlTypes, ControlInv, BootInv, Booting,
           NEW t \in Threads, at[t] # "idle", NEW u \in Retries \cup {Main}, u # t
    PROVE  Spent(u) /\ at[u] = "idle" /\ pc[u] \notin {"attempted", "tried"}
<1>1. t \in Retries \cup {Main} /\ (t = Main => pc[Main] = "attempted")
      /\ (t \in Retries => pc[t] = "tried")
  BY BootAttempts
<1>2. pc[u] \notin {"boot", "checked", "wait", "try", "attempted", "tried"}
  BY <1>1, ThreadAssumption DEF BootInv, Booting, ControlTypes
<1> QED
  BY <1>2, ThreadAssumption DEF Spent, ControlInv, StageInv, ControlTypes

\* Outside Manager.Start's own Stop, whoever is inside Start or Stop is the only
\* one; inside it, the tunnel was running and no attempt can succeed any more.
LEMMA Alone ==
    ASSUME ControlTypes, ControlInv, BootInv, SpentInv, SoleInv, CloseInv,
           NEW t \in Threads, op[t] \in {"build", "record"}
    PROVE  \A u \in Threads \ {t} : op[u] \notin {"record", "launch", "drain"}
<1>1. CASE ~Failing
  BY <1>1, OneAtATime, ThreadAssumption
<1>2. CASE Failing
  <2>1. at[t] = "starting" /\ Booting
    BY <1>2 DEF ControlInv, OpInv, Failing, Booting
  <2>2. ASSUME NEW u \in Threads \ {t}, op[u] \in {"record", "launch", "drain"} PROVE FALSE
    <3>1. op[u] = "drain" /\ u = Main
      BY <2>1, <2>2, <1>2, ThreadAssumption
         DEF ControlInv, OpInv, StageInv, LockInv, HoldsStartMu, PhaseInv, ControlTypes, Failing
    <3>2. op[t] = "record" => t = u
      BY <3>1, <2>2 DEF SoleInv
    <3>3. hold[u] \in open /\ hold[u] \in Devices
      BY <3>1 DEF SoleInv, ControlTypes
    <3>4. Spent(t)
      <4>1. Left(hold[u])
        BY <3>3 DEF Left
      <4>2. t \in Retries \cup {Main}
        BY <2>1, BootAttempts
      <4> QED
        BY <3>3, <4>1, <4>2, <2>1 DEF SpentInv
    <3> QED
      BY <3>2, <3>4, <2>1, <2>2 DEF Spent
  <2> QED
    BY <2>2
<1> QED
  BY <1>1, <1>2

\* Devices are built, recorded and closed one at a time.
LEMMA SoleStep ==
    ASSUME ControlTypes, ControlInv, DeviceInv, BootInv, SpentInv, SoleInv, CloseInv, [Next]_vars
    PROVE  SoleInv'
<1> USE DEF ControlTypes, SoleInv, Failing
<1>1. ASSUME NEW t \in Threads, StartCheck(t), UNCHANGED Others PROVE SoleInv'
  BY <1>1, ThreadAssumption DEF StartCheck
<1>2. ASSUME NEW t \in Threads, BuildFail(t), UNCHANGED Others PROVE SoleInv'
  BY <1>2, ThreadAssumption DEF BuildFail
<1>3. ASSUME NEW t \in Threads, BuildOk(t), UNCHANGED Others PROVE SoleInv'
  <2>1. \A u \in Threads \ {t} : op[u] \notin {"record", "launch", "drain"}
    BY <1>3, Alone DEF BuildOk
  <2>2. ~running
    BY <1>3 DEF BuildOk, DeviceInv
  <2>3. PICK d \in Devices : /\ d \notin open \cup sup /\ open' = open \cup {d}
                             /\ hold' = [hold EXCEPT ![t] = d]
    BY <1>3 DEF BuildOk, FreeDevices
  <2>4. op' = [op EXCEPT ![t] = "record"] /\ UNCHANGED <<running, dev, sup, pc>>
    BY <1>3 DEF BuildOk
  <2> QED
    BY <1>3, <2>1, <2>2, <2>3, <2>4 DEF BuildOk
<1>4. ASSUME NEW t \in Threads, StartRecord(t), UNCHANGED Others PROVE SoleInv'
  <2>1. \A u \in Threads \ {t} : op[u] \notin {"record", "launch", "drain"}
    BY <1>4, Alone DEF StartRecord
  <2>2. ~running
    BY <1>4 DEF StartRecord, DeviceInv
  <2> QED
    BY <1>4, <2>1, <2>2 DEF StartRecord
<1>5. ASSUME NEW t \in Threads, StartLaunch(t), UNCHANGED Others PROVE SoleInv'
  BY <1>5 DEF StartLaunch
<1>6. ASSUME NEW t \in Threads, StopMark(t), UNCHANGED Others PROVE SoleInv'
  <2>1. ~Failing => \A u \in Threads \ {t} : op[u] = "idle"
    BY <1>6, OneAtATime DEF StopMark
  <2>2. UNCHANGED <<open, sup, pc>>
    BY <1>6 DEF StopMark
  <2>3. CASE running
    BY <1>6, <2>1, <2>2, <2>3 DEF StopMark
  <2>4. CASE ~running
    BY <1>6, <2>1, <2>2, <2>4 DEF StopMark
  <2> QED
    BY <2>3, <2>4
<1>7. ASSUME NEW t \in Threads, StopClose(t), UNCHANGED Others PROVE SoleInv'
  BY <1>7 DEF StopClose
<1>8. ASSUME NEW t \in Threads, ReloadRefuse(t), UNCHANGED Others PROVE SoleInv'
  BY <1>8, ThreadAssumption DEF ReloadRefuse, ReloadReturn
<1>9. ASSUME NEW t \in Threads, ReloadDecide(t), UNCHANGED Others PROVE SoleInv'
  BY <1>9, ThreadAssumption DEF ReloadDecide, stackEqual
<1>10. ASSUME NEW t \in Threads, ReloadAdopt(t), UNCHANGED Others PROVE SoleInv'
  BY <1>10, ThreadAssumption DEF ReloadAdopt, ReloadReturn
<1>11. ASSUME NEW t \in Threads, ReloadApply(t), UNCHANGED Others PROVE SoleInv'
  BY <1>11, ThreadAssumption DEF ReloadApply, ReloadReturn
<1>12. ASSUME NEW t \in Threads, ReloadSwap(t), UNCHANGED Others PROVE SoleInv'
  BY <1>12, ThreadAssumption DEF ReloadSwap
<1>13. ASSUME NEW t \in Threads, ReloadStarted(t), UNCHANGED Others PROVE SoleInv'
  BY <1>13, ThreadAssumption DEF ReloadStarted, ReloadReturn
<1>14. ASSUME NEW t \in Threads, ReloadRestored(t), UNCHANGED Others PROVE SoleInv'
  BY <1>14, ThreadAssumption DEF ReloadRestored, ReloadReturn
<1>15. ASSUME NEW t \in Threads, AttemptLock(t) PROVE SoleInv'
  BY <1>15, ThreadAssumption DEF AttemptLock
<1>16. ASSUME NEW t \in Threads, AttemptRunning(t) PROVE SoleInv'
  BY <1>16, ThreadAssumption DEF AttemptRunning, ControlInv, StageInv, OpInv
<1>17. ASSUME NEW t \in Threads, AttemptUnlock(t) PROVE SoleInv'
  BY <1>17, ThreadAssumption DEF AttemptUnlock
<1>18. ASSUME NEW t \in Threads, CheckBegin(t) PROVE SoleInv'
  BY <1>18, ThreadAssumption DEF CheckBegin
<1>19. ASSUME NEW t \in Threads, CheckUnread(t) PROVE SoleInv'
  BY <1>19, ThreadAssumption DEF CheckUnread, CheckReturn
<1>20. ASSUME NEW t \in Threads, CheckRead(t) PROVE SoleInv'
  BY <1>20, ThreadAssumption DEF CheckRead, CheckReturn, configConflict
<1>21. ASSUME NEW t \in Threads, PauseCancelRetry(t) PROVE SoleInv'
  BY <1>21, ThreadAssumption DEF PauseCancelRetry, CancelRetry
<1>22. ASSUME NEW t \in Threads, PauseLock(t) PROVE SoleInv'
  BY <1>22, ThreadAssumption DEF PauseLock, ControlInv, StageInv, OpInv
<1>23. ASSUME NEW t \in Threads, PauseUnlock(t) PROVE SoleInv'
  BY <1>23, ThreadAssumption DEF PauseUnlock, CheckReturn
<1>24. ASSUME NEW t \in Threads, ResumeRetry(t) PROVE SoleInv'
  BY <1>24, ThreadAssumption DEF ResumeRetry, CheckReturn, RetryStart
<1>25. ASSUME NEW d \in Devices, SuperviseKick(d), UNCHANGED Others PROVE SoleInv'
  BY <1>25, ThreadAssumption DEF SuperviseKick
<1>26. ASSUME NEW d \in Devices, SuperviseApply(d), UNCHANGED Others PROVE SoleInv'
  BY <1>26, ThreadAssumption DEF SuperviseApply
<1>27. ASSUME NEW d \in Devices, SuperviseExit(d), UNCHANGED Others PROVE SoleInv'
  BY <1>27, ThreadAssumption DEF SuperviseExit
<1>28. CASE WatchEvent  BY <1>28, ThreadAssumption DEF WatchEvent
<1>29. CASE WatchChanged  BY <1>29, ThreadAssumption DEF WatchChanged
<1>30. CASE WatchTimer  BY <1>30, ThreadAssumption DEF WatchTimer
<1>31. CASE WatchSettled  BY <1>31, ThreadAssumption DEF WatchSettled, Reconnect
<1>32. CASE WatchExit  BY <1>32, ThreadAssumption DEF WatchExit
<1>33. CASE AddressChange  BY <1>33, ThreadAssumption DEF AddressChange
<1>34. ASSUME NEW r \in Requests, Request(r) PROVE SoleInv'
  BY <1>34, ThreadAssumption DEF Request
<1>35. ASSUME NEW r \in Requests, Reload(r) PROVE SoleInv'
  BY <1>35, ThreadAssumption DEF Reload, MayReload, Home
<1>36. ASSUME NEW r \in Requests, ReconnectStep(r) PROVE SoleInv'
  BY <1>36, ThreadAssumption DEF ReconnectStep, Reconnect
<1>37. ASSUME NEW r \in Requests, StartTunnel(r) PROVE SoleInv'
  BY <1>37, ThreadAssumption DEF StartTunnel
<1>38. ASSUME NEW r \in Requests, StartTunnelCheck(r) PROVE SoleInv'
  BY <1>38, ThreadAssumption DEF StartTunnelCheck
<1>39. ASSUME NEW r \in Requests, StartTunnelReturn(r) PROVE SoleInv'
  BY <1>39, ThreadAssumption DEF StartTunnelReturn
<1>40. ASSUME NEW r \in Requests, StopTunnel(r) PROVE SoleInv'
  BY <1>40, ThreadAssumption DEF StopTunnel
<1>41. ASSUME NEW r \in Requests, StopTunnelCancel(r) PROVE SoleInv'
  BY <1>41, ThreadAssumption DEF StopTunnelCancel, CancelRetry
<1>42. ASSUME NEW r \in Requests, StopTunnelLock(r) PROVE SoleInv'
  BY <1>42, ThreadAssumption DEF StopTunnelLock, ControlInv, StageInv, OpInv
<1>43. ASSUME NEW r \in Requests, StopTunnelReturn(r) PROVE SoleInv'
  BY <1>43, ThreadAssumption DEF StopTunnelReturn
<1>44. ASSUME NEW t \in Requests \cup {Main}, ReloadAdopted(t) PROVE SoleInv'
  BY <1>44, ThreadAssumption DEF ReloadAdopted, Home, NoReload
<1>45. ASSUME NEW t \in Requests \cup {Main}, ReloadReturned(t) PROVE SoleInv'
  BY <1>45, ThreadAssumption DEF ReloadReturned, Home
<1>46. ASSUME NEW g \in Retries, RetrySelect(g) PROVE SoleInv'
  BY <1>46, ThreadAssumption DEF RetrySelect, RetryDone
<1>47. ASSUME NEW g \in Retries, RetryTry(g) PROVE SoleInv'
  BY <1>47, ThreadAssumption DEF RetryTry
<1>48. ASSUME NEW g \in Retries, RetryTried(g) PROVE SoleInv'
  BY <1>48, ThreadAssumption DEF RetryTried, RetryDone
<1>49. ASSUME NEW g \in Retries, RetryClear(g) PROVE SoleInv'
  BY <1>49, ThreadAssumption DEF RetryClear
<1>50. CASE Start  BY <1>50, ThreadAssumption DEF Start
<1>51. CASE StartRefused  BY <1>51, ThreadAssumption DEF StartRefused
<1>52. CASE StartAttempt  BY <1>52, ThreadAssumption DEF StartAttempt
<1>53. CASE StartRetry  BY <1>53, ThreadAssumption DEF StartRetry, RetryStart
<1>54. CASE StartListen  BY <1>54, ThreadAssumption DEF StartListen
<1>55. CASE StartFailed  BY <1>55, ThreadAssumption DEF StartFailed
<1>56. CASE StartPipe  BY <1>56, ThreadAssumption DEF StartPipe
<1>57. CASE StartWatcher  BY <1>57, ThreadAssumption DEF StartWatcher
<1>58. CASE OnPowerResume  BY <1>58, ThreadAssumption DEF OnPowerResume, Reconnect
<1>59. CASE Reload(Main)  BY <1>59, ThreadAssumption DEF Reload, MayReload, Home
<1>60. CASE Stop  BY <1>60, ThreadAssumption DEF Stop
<1>61. CASE StopPipe  BY <1>61, ThreadAssumption DEF StopPipe
<1>62. CASE StopDrained
  BY <1>62, ThreadAssumption DEF StopDrained, ControlInv, StageInv, OpInv
<1>63. CASE StopReturn  BY <1>63, ThreadAssumption DEF StopReturn
<1>64. CASE UNCHANGED vars
  BY <1>64, SMTT(30) DEF vars
<1> HIDE DEF ControlTypes, SoleInv, Failing
<1> QED
  BY <1>1, <1>2, <1>3, <1>4, <1>5, <1>6, <1>7, <1>8, <1>9, <1>10, <1>11, <1>12, <1>13,
     <1>14, <1>15, <1>16, <1>17, <1>18, <1>19, <1>20, <1>21, <1>22, <1>23, <1>24, <1>25,
     <1>26, <1>27, <1>28, <1>29, <1>30, <1>31, <1>32, <1>33, <1>34, <1>35, <1>36, <1>37,
     <1>38, <1>39, <1>40, <1>41, <1>42, <1>43, <1>44, <1>45, <1>46, <1>47, <1>48, <1>49,
     <1>50, <1>51, <1>52, <1>53, <1>54, <1>55, <1>56, <1>57, <1>58, <1>59, <1>60, <1>61,
     <1>62, <1>63, <1>64 DEF Next, MainStep, WatchStep, CallStep, TunnelStep,
     ReloadStep, RequestStep, RetryStep, Supervise

\* A retry is started once, by Manager.Start, before the service serves.
LEMMA BootStep ==
    ASSUME ControlTypes, ControlInv, BootInv, [Next]_vars
    PROVE  BootInv'
<1> USE DEF ControlTypes, BootInv, Booting
<1>1. ASSUME NEW t \in Threads, StartCheck(t), UNCHANGED Others PROVE BootInv'
  BY <1>1, ThreadAssumption DEF StartCheck
<1>2. ASSUME NEW t \in Threads, BuildFail(t), UNCHANGED Others PROVE BootInv'
  BY <1>2, ThreadAssumption DEF BuildFail
<1>3. ASSUME NEW t \in Threads, BuildOk(t), UNCHANGED Others PROVE BootInv'
  BY <1>3, ThreadAssumption DEF BuildOk, FreeDevices
<1>4. ASSUME NEW t \in Threads, StartRecord(t), UNCHANGED Others PROVE BootInv'
  BY <1>4, ThreadAssumption DEF StartRecord
<1>5. ASSUME NEW t \in Threads, StartLaunch(t), UNCHANGED Others PROVE BootInv'
  BY <1>5, ThreadAssumption DEF StartLaunch
<1>6. ASSUME NEW t \in Threads, StopMark(t), UNCHANGED Others PROVE BootInv'
  BY <1>6, ThreadAssumption DEF StopMark
<1>7. ASSUME NEW t \in Threads, StopClose(t), UNCHANGED Others PROVE BootInv'
  BY <1>7, ThreadAssumption DEF StopClose
<1>8. ASSUME NEW t \in Threads, ReloadRefuse(t), UNCHANGED Others PROVE BootInv'
  BY <1>8, ThreadAssumption DEF ReloadRefuse, ReloadReturn
<1>9. ASSUME NEW t \in Threads, ReloadDecide(t), UNCHANGED Others PROVE BootInv'
  BY <1>9, ThreadAssumption DEF ReloadDecide, stackEqual
<1>10. ASSUME NEW t \in Threads, ReloadAdopt(t), UNCHANGED Others PROVE BootInv'
  BY <1>10, ThreadAssumption DEF ReloadAdopt, ReloadReturn
<1>11. ASSUME NEW t \in Threads, ReloadApply(t), UNCHANGED Others PROVE BootInv'
  BY <1>11, ThreadAssumption DEF ReloadApply, ReloadReturn
<1>12. ASSUME NEW t \in Threads, ReloadSwap(t), UNCHANGED Others PROVE BootInv'
  BY <1>12, ThreadAssumption DEF ReloadSwap
<1>13. ASSUME NEW t \in Threads, ReloadStarted(t), UNCHANGED Others PROVE BootInv'
  BY <1>13, ThreadAssumption DEF ReloadStarted, ReloadReturn
<1>14. ASSUME NEW t \in Threads, ReloadRestored(t), UNCHANGED Others PROVE BootInv'
  BY <1>14, ThreadAssumption DEF ReloadRestored, ReloadReturn
<1>15. ASSUME NEW t \in Threads, AttemptLock(t) PROVE BootInv'
  BY <1>15, ThreadAssumption DEF AttemptLock
<1>16. ASSUME NEW t \in Threads, AttemptRunning(t) PROVE BootInv'
  BY <1>16, ThreadAssumption DEF AttemptRunning
<1>17. ASSUME NEW t \in Threads, AttemptUnlock(t) PROVE BootInv'
  BY <1>17, ThreadAssumption DEF AttemptUnlock
<1>18. ASSUME NEW t \in Threads, CheckBegin(t) PROVE BootInv'
  BY <1>18, ThreadAssumption DEF CheckBegin, ControlInv, StageInv, PhaseInv
<1>19. ASSUME NEW t \in Threads, CheckUnread(t) PROVE BootInv'
  BY <1>19, ThreadAssumption DEF CheckUnread, CheckReturn, ControlInv, StageInv,
     PhaseInv
<1>20. ASSUME NEW t \in Threads, CheckRead(t) PROVE BootInv'
  BY <1>20, ThreadAssumption DEF CheckRead, CheckReturn, configConflict, ControlInv,
     StageInv, PhaseInv
<1>21. ASSUME NEW t \in Threads, PauseCancelRetry(t) PROVE BootInv'
  BY <1>21, ThreadAssumption DEF PauseCancelRetry, CancelRetry
<1>22. ASSUME NEW t \in Threads, PauseLock(t) PROVE BootInv'
  BY <1>22, ThreadAssumption DEF PauseLock
<1>23. ASSUME NEW t \in Threads, PauseUnlock(t) PROVE BootInv'
  BY <1>23, ThreadAssumption DEF PauseUnlock, CheckReturn, ControlInv, StageInv,
     PhaseInv
<1>24. ASSUME NEW t \in Threads, ResumeRetry(t) PROVE BootInv'
  BY <1>24, ThreadAssumption DEF ResumeRetry, CheckReturn, RetryStart, ControlInv,
     StageInv, PhaseInv
<1>25. ASSUME NEW d \in Devices, SuperviseKick(d), UNCHANGED Others PROVE BootInv'
  BY <1>25, ThreadAssumption DEF SuperviseKick
<1>26. ASSUME NEW d \in Devices, SuperviseApply(d), UNCHANGED Others PROVE BootInv'
  BY <1>26, ThreadAssumption DEF SuperviseApply
<1>27. ASSUME NEW d \in Devices, SuperviseExit(d), UNCHANGED Others PROVE BootInv'
  BY <1>27, ThreadAssumption DEF SuperviseExit
<1>28. CASE WatchEvent  BY <1>28, ThreadAssumption DEF WatchEvent
<1>29. CASE WatchChanged  BY <1>29, ThreadAssumption DEF WatchChanged
<1>30. CASE WatchTimer  BY <1>30, ThreadAssumption DEF WatchTimer
<1>31. CASE WatchSettled  BY <1>31, ThreadAssumption DEF WatchSettled, Reconnect
<1>32. CASE WatchExit  BY <1>32, ThreadAssumption DEF WatchExit
<1>33. CASE AddressChange  BY <1>33, ThreadAssumption DEF AddressChange
<1>34. ASSUME NEW r \in Requests, Request(r) PROVE BootInv'
  BY <1>34, ThreadAssumption DEF Request
<1>35. ASSUME NEW r \in Requests, Reload(r) PROVE BootInv'
  BY <1>35, ThreadAssumption DEF Reload, MayReload, Home
<1>36. ASSUME NEW r \in Requests, ReconnectStep(r) PROVE BootInv'
  BY <1>36, ThreadAssumption DEF ReconnectStep, Reconnect
<1>37. ASSUME NEW r \in Requests, StartTunnel(r) PROVE BootInv'
  BY <1>37, ThreadAssumption DEF StartTunnel
<1>38. ASSUME NEW r \in Requests, StartTunnelCheck(r) PROVE BootInv'
  BY <1>38, ThreadAssumption DEF StartTunnelCheck
<1>39. ASSUME NEW r \in Requests, StartTunnelReturn(r) PROVE BootInv'
  BY <1>39, ThreadAssumption DEF StartTunnelReturn
<1>40. ASSUME NEW r \in Requests, StopTunnel(r) PROVE BootInv'
  BY <1>40, ThreadAssumption DEF StopTunnel
<1>41. ASSUME NEW r \in Requests, StopTunnelCancel(r) PROVE BootInv'
  BY <1>41, ThreadAssumption DEF StopTunnelCancel, CancelRetry
<1>42. ASSUME NEW r \in Requests, StopTunnelLock(r) PROVE BootInv'
  BY <1>42, ThreadAssumption DEF StopTunnelLock
<1>43. ASSUME NEW r \in Requests, StopTunnelReturn(r) PROVE BootInv'
  BY <1>43, ThreadAssumption DEF StopTunnelReturn
<1>44. ASSUME NEW t \in Requests \cup {Main}, ReloadAdopted(t) PROVE BootInv'
  BY <1>44, ThreadAssumption DEF ReloadAdopted, Home, NoReload
<1>45. ASSUME NEW t \in Requests \cup {Main}, ReloadReturned(t) PROVE BootInv'
  BY <1>45, ThreadAssumption DEF ReloadReturned, Home
<1>46. ASSUME NEW g \in Retries, RetrySelect(g) PROVE BootInv'
  BY <1>46, ThreadAssumption DEF RetrySelect, RetryDone
<1>47. ASSUME NEW g \in Retries, RetryTry(g) PROVE BootInv'
  BY <1>47, ThreadAssumption DEF RetryTry
<1>48. ASSUME NEW g \in Retries, RetryTried(g) PROVE BootInv'
  BY <1>48, ThreadAssumption DEF RetryTried, RetryDone
<1>49. ASSUME NEW g \in Retries, RetryClear(g) PROVE BootInv'
  BY <1>49, ThreadAssumption DEF RetryClear
<1>50. CASE Start  BY <1>50, ThreadAssumption DEF Start, ControlInv, StageInv, PhaseInv
<1>51. CASE StartRefused  BY <1>51, ThreadAssumption DEF StartRefused
<1>52. CASE StartAttempt
  BY <1>52, ThreadAssumption DEF StartAttempt, ControlInv, StageInv, PhaseInv
<1>53. CASE StartRetry
  BY <1>53, ThreadAssumption DEF StartRetry, RetryStart, ControlInv, StageInv, PhaseInv
<1>54. CASE StartListen
  BY <1>54, ThreadAssumption DEF StartListen, ControlInv, StageInv, PhaseInv
<1>55. CASE StartFailed  BY <1>55, ThreadAssumption DEF StartFailed
<1>56. CASE StartPipe  BY <1>56, ThreadAssumption DEF StartPipe
<1>57. CASE StartWatcher  BY <1>57, ThreadAssumption DEF StartWatcher
<1>58. CASE OnPowerResume  BY <1>58, ThreadAssumption DEF OnPowerResume, Reconnect
<1>59. CASE Reload(Main)  BY <1>59, ThreadAssumption DEF Reload, MayReload, Home
<1>60. CASE Stop  BY <1>60, ThreadAssumption DEF Stop
<1>61. CASE StopPipe  BY <1>61, ThreadAssumption DEF StopPipe
<1>62. CASE StopDrained  BY <1>62, ThreadAssumption DEF StopDrained
<1>63. CASE StopReturn  BY <1>63, ThreadAssumption DEF StopReturn
<1>64. CASE UNCHANGED vars
  BY <1>64, SMTT(30) DEF vars
<1> HIDE DEF ControlTypes, BootInv, Booting
<1> QED
  BY <1>1, <1>2, <1>3, <1>4, <1>5, <1>6, <1>7, <1>8, <1>9, <1>10, <1>11, <1>12, <1>13,
     <1>14, <1>15, <1>16, <1>17, <1>18, <1>19, <1>20, <1>21, <1>22, <1>23, <1>24, <1>25,
     <1>26, <1>27, <1>28, <1>29, <1>30, <1>31, <1>32, <1>33, <1>34, <1>35, <1>36, <1>37,
     <1>38, <1>39, <1>40, <1>41, <1>42, <1>43, <1>44, <1>45, <1>46, <1>47, <1>48, <1>49,
     <1>50, <1>51, <1>52, <1>53, <1>54, <1>55, <1>56, <1>57, <1>58, <1>59, <1>60, <1>61,
     <1>62, <1>63, <1>64 DEF Next, MainStep, WatchStep, CallStep, TunnelStep,
     ReloadStep, RequestStep, RetryStep, Supervise

\* Before the service serves, nothing is built beside a device that is left.
LEMMA SpentStep ==
    ASSUME ControlTypes, ControlInv, BootInv, SpentInv, SoleInv, [Next]_vars
    PROVE  SpentInv'
<1>1. ASSUME NEW t \in Threads, StartCheck(t), UNCHANGED Others PROVE SpentInv'
  BY <1>1, ThreadAssumption DEF StartCheck, ControlTypes, SpentInv, Left, Spent,
     Booting, ControlInv, StageInv, OpInv, PhaseInv
<1>2. ASSUME NEW t \in Threads, BuildFail(t), UNCHANGED Others PROVE SpentInv'
  BY <1>2, ThreadAssumption DEF BuildFail, ControlTypes, SpentInv, Left, Spent, Booting,
     ControlInv, StageInv, OpInv, PhaseInv
<1>3. ASSUME NEW t \in Threads, BuildOk(t), UNCHANGED Others PROVE SpentInv'
  <2>0. at[t] = "starting" /\ cc[t] = "idle"
    BY <1>3 DEF BuildOk, ControlInv, OpInv, StageInv
  <2>1. PICK d \in Devices : open' = open \cup {d} /\ hold' = [hold EXCEPT ![t] = d]
    BY <1>3 DEF BuildOk, FreeDevices
  <2>2. op' = [op EXCEPT ![t] = "record"] /\ UNCHANGED <<running, sup, pc, at, res>>
    BY <1>3 DEF BuildOk
  <2> SUFFICES ASSUME Booting PROVE SpentInv'
    BY <2>2 DEF SpentInv, Booting
  <2>3. t \in Retries \cup {Main} /\ ~Spent(t)
    BY <2>0, <1>3, BootAttempts DEF Spent, BuildOk
  <2>4. \A e \in Devices : ~Left(e)
    BY <2>3 DEF SpentInv
  <2>5. \A e \in Devices : Left(e)' => e = d
    BY <2>1, <2>2, <2>4 DEF Left, ControlTypes
  <2>6. \A u \in Retries \cup {Main} : Spent(u)'
    <3>1. Spent(t)'
      BY <2>0, <2>2 DEF Spent, ControlTypes
    <3>2. ASSUME NEW u \in Retries \cup {Main}, u # t PROVE Spent(u)'
      <4>1. Spent(u) /\ at[u] = "idle"
        BY <2>0, <3>2, AttemptAlone
      <4> QED
        BY <4>1, <2>2, <3>2, ThreadAssumption DEF Spent, ControlTypes
    <3> QED
      BY <3>1, <3>2
  <2> QED
    BY <2>5, <2>6 DEF SpentInv
<1>4. ASSUME NEW t \in Threads, StartRecord(t), UNCHANGED Others PROVE SpentInv'
  <2>0. at[t] = "starting"
    BY <1>4 DEF StartRecord, ControlInv, OpInv
  <2>1. hold[t] \in Devices /\ Left(hold[t])
    BY <1>4 DEF StartRecord, SoleInv, Left, ControlTypes
  <2>2. \A d \in Devices : Left(d)' => Left(d)
    BY <1>4, <2>1 DEF StartRecord, Left, ControlTypes
  <2>3. op' = [op EXCEPT ![t] = "launch"] /\ UNCHANGED <<pc, at, res>>
    BY <1>4 DEF StartRecord
  <2>4. \A u \in Retries \cup {Main} : Spent(u) => Spent(u)'
    BY <2>3, <2>0, ThreadAssumption DEF Spent, ControlTypes
  <2> QED
    BY <2>1, <2>2, <2>3, <2>4 DEF SpentInv, Booting
<1>5. ASSUME NEW t \in Threads, StartLaunch(t), UNCHANGED Others PROVE SpentInv'
  <2>0. hold[t] \in Devices \cup {None} /\ op[t] = "launch"
    BY <1>5 DEF StartLaunch, ControlTypes
  <2>2. \A d \in Devices : Left(d)' => Left(d)
    BY <1>5, <2>0 DEF StartLaunch, Left, ControlTypes
  <2>3. op' = [op EXCEPT ![t] = "idle"] /\ res' = [res EXCEPT ![t] = "ok"]
        /\ UNCHANGED <<running, pc, at>>
    BY <1>5 DEF StartLaunch
  <2>4. \A u \in Retries \cup {Main} : Spent(u) => Spent(u)'
    BY <2>3, <2>0, ThreadAssumption DEF Spent, ControlTypes
  <2> QED
    BY <2>2, <2>3, <2>4 DEF SpentInv, Booting
<1>6. ASSUME NEW t \in Threads, StopMark(t), UNCHANGED Others PROVE SpentInv'
  <2>1. /\ op[t] = "stop" /\ UNCHANGED <<open, sup, pc, at, res>>
        /\ \A u \in Threads \ {t} : op'[u] = op[u] /\ hold'[u] = hold[u]
        /\ op'[t] \in {"idle", "drain"} /\ (running' => running)
    BY <1>6 DEF StopMark, ControlTypes
  <2>2. at[t] = "idle"
    BY <2>1, ThreadAssumption DEF ControlInv, OpInv, StageInv, ControlTypes
  <2>3. \A d \in Devices : Left(d)' => Left(d)
    BY <2>1 DEF Left
  <2>4. \A u \in Retries \cup {Main} : Spent(u) => Spent(u)'
    BY <2>1, <2>2, ThreadAssumption DEF Spent
  <2> QED
    BY <2>1, <2>3, <2>4 DEF SpentInv, Booting
<1>7. ASSUME NEW t \in Threads, StopClose(t), UNCHANGED Others PROVE SpentInv'
  <2>1. /\ op[t] = "drain" /\ UNCHANGED <<running, sup, pc, at, res>> /\ open' \subseteq open
        /\ \A u \in Threads \ {t} : op'[u] = op[u] /\ hold'[u] = hold[u]
        /\ op'[t] = "idle"
    BY <1>7 DEF StopClose, ControlTypes
  <2>2. at[t] = "idle"
    BY <2>1, ThreadAssumption DEF ControlInv, OpInv, StageInv, ControlTypes
  <2>3. \A d \in Devices : Left(d)' => Left(d)
    BY <2>1 DEF Left
  <2>4. \A u \in Retries \cup {Main} : Spent(u) => Spent(u)'
    BY <2>1, <2>2, ThreadAssumption DEF Spent
  <2> QED
    BY <2>1, <2>3, <2>4 DEF SpentInv, Booting
<1>8. ASSUME NEW t \in Threads, ReloadRefuse(t), UNCHANGED Others PROVE SpentInv'
  BY <1>8, ThreadAssumption DEF ReloadRefuse, ReloadReturn, ControlTypes, SpentInv,
     Left, Spent, Booting, ControlInv, StageInv, OpInv, PhaseInv
<1>9. ASSUME NEW t \in Threads, ReloadDecide(t), UNCHANGED Others PROVE SpentInv'
  BY <1>9, ThreadAssumption DEF ReloadDecide, stackEqual, ControlTypes, SpentInv, Left,
     Spent, Booting, ControlInv, StageInv, OpInv, PhaseInv
<1>10. ASSUME NEW t \in Threads, ReloadAdopt(t), UNCHANGED Others PROVE SpentInv'
  BY <1>10, ThreadAssumption DEF ReloadAdopt, ReloadReturn, ControlTypes, SpentInv,
     Left, Spent, Booting
<1>11. ASSUME NEW t \in Threads, ReloadApply(t), UNCHANGED Others PROVE SpentInv'
  BY <1>11, ThreadAssumption DEF ReloadApply, ReloadReturn, ControlTypes, SpentInv,
     Left, Spent, Booting, ControlInv, StageInv, OpInv, PhaseInv
<1>12. ASSUME NEW t \in Threads, ReloadSwap(t), UNCHANGED Others PROVE SpentInv'
  BY <1>12, ThreadAssumption DEF ReloadSwap, ControlTypes, SpentInv, Left, Spent,
     Booting, ControlInv, StageInv, OpInv, PhaseInv
<1>13. ASSUME NEW t \in Threads, ReloadStarted(t), UNCHANGED Others PROVE SpentInv'
  BY <1>13, ThreadAssumption DEF ReloadStarted, ReloadReturn, ControlTypes, SpentInv,
     Left, Spent, Booting, ControlInv, StageInv, OpInv, PhaseInv
<1>14. ASSUME NEW t \in Threads, ReloadRestored(t), UNCHANGED Others PROVE SpentInv'
  BY <1>14, ThreadAssumption DEF ReloadRestored, ReloadReturn, ControlTypes, SpentInv,
     Left, Spent, Booting, ControlInv, StageInv, OpInv, PhaseInv
<1>15. ASSUME NEW t \in Threads, AttemptLock(t) PROVE SpentInv'
  BY <1>15, ThreadAssumption DEF AttemptLock, ControlTypes, SpentInv, Left, Spent,
     Booting, ControlInv, StageInv, OpInv, PhaseInv
<1>16. ASSUME NEW t \in Threads, AttemptRunning(t) PROVE SpentInv'
  BY <1>16, ThreadAssumption DEF AttemptRunning, ControlTypes, SpentInv, Left, Spent,
     Booting, ControlInv, StageInv, OpInv, PhaseInv
<1>17. ASSUME NEW t \in Threads, AttemptUnlock(t) PROVE SpentInv'
  BY <1>17, ThreadAssumption DEF AttemptUnlock, ControlTypes, SpentInv, Left, Spent,
     Booting, ControlInv, StageInv, OpInv, PhaseInv
<1>18. ASSUME NEW t \in Threads, CheckBegin(t) PROVE SpentInv'
  BY <1>18, ThreadAssumption DEF CheckBegin, ControlTypes, SpentInv, Left, Spent,
     Booting
<1>19. ASSUME NEW t \in Threads, CheckUnread(t) PROVE SpentInv'
  BY <1>19, ThreadAssumption DEF CheckUnread, CheckReturn, ControlTypes, SpentInv, Left,
     Spent, Booting, ControlInv, StageInv, OpInv, PhaseInv
<1>20. ASSUME NEW t \in Threads, CheckRead(t) PROVE SpentInv'
  BY <1>20, ThreadAssumption DEF CheckRead, CheckReturn, configConflict, ControlTypes,
     SpentInv, Left, Spent, Booting, ControlInv, StageInv, OpInv, PhaseInv
<1>21. ASSUME NEW t \in Threads, PauseCancelRetry(t) PROVE SpentInv'
  BY <1>21, ThreadAssumption DEF PauseCancelRetry, CancelRetry, ControlTypes, SpentInv,
     Left, Spent, Booting
<1>22. ASSUME NEW t \in Threads, PauseLock(t) PROVE SpentInv'
  BY <1>22, ThreadAssumption DEF PauseLock, ControlTypes, SpentInv, Left, Spent,
     Booting, ControlInv, StageInv, OpInv, PhaseInv
<1>23. ASSUME NEW t \in Threads, PauseUnlock(t) PROVE SpentInv'
  BY <1>23, ThreadAssumption DEF PauseUnlock, CheckReturn, ControlTypes, SpentInv, Left,
     Spent, Booting, ControlInv, StageInv, OpInv, PhaseInv
<1>24. ASSUME NEW t \in Threads, ResumeRetry(t) PROVE SpentInv'
  BY <1>24, ThreadAssumption DEF ResumeRetry, CheckReturn, RetryStart, ControlTypes,
     SpentInv, Left, Spent, Booting, ControlInv, StageInv, OpInv, PhaseInv, BootInv
<1>25. ASSUME NEW d \in Devices, SuperviseKick(d), UNCHANGED Others PROVE SpentInv'
  BY <1>25, ThreadAssumption DEF SuperviseKick, ControlTypes, SpentInv, Left, Spent,
     Booting
<1>26. ASSUME NEW d \in Devices, SuperviseApply(d), UNCHANGED Others PROVE SpentInv'
  BY <1>26, ThreadAssumption DEF SuperviseApply, ControlTypes, SpentInv, Left, Spent,
     Booting
<1>27. ASSUME NEW d \in Devices, SuperviseExit(d), UNCHANGED Others PROVE SpentInv'
  BY <1>27, ThreadAssumption DEF SuperviseExit, ControlTypes, SpentInv, Left, Spent,
     Booting
<1>28. CASE WatchEvent
  BY <1>28, ThreadAssumption DEF WatchEvent, ControlTypes, SpentInv, Left, Spent,
     Booting
<1>29. CASE WatchChanged
  BY <1>29, ThreadAssumption DEF WatchChanged, ControlTypes, SpentInv, Left, Spent,
     Booting
<1>30. CASE WatchTimer
  BY <1>30, ThreadAssumption DEF WatchTimer, ControlTypes, SpentInv, Left, Spent,
     Booting
<1>31. CASE WatchSettled
  BY <1>31, ThreadAssumption DEF WatchSettled, Reconnect, ControlTypes, SpentInv, Left,
     Spent, Booting
<1>32. CASE WatchExit
  BY <1>32, ThreadAssumption DEF WatchExit, ControlTypes, SpentInv, Left, Spent, Booting
<1>33. CASE AddressChange
  BY <1>33, ThreadAssumption DEF AddressChange, ControlTypes, SpentInv, Left, Spent,
     Booting
<1>34. ASSUME NEW r \in Requests, Request(r) PROVE SpentInv'
  BY <1>34, ThreadAssumption DEF Request, ControlTypes, SpentInv, Left, Spent, Booting
<1>35. ASSUME NEW r \in Requests, Reload(r) PROVE SpentInv'
  BY <1>35, ThreadAssumption DEF Reload, MayReload, Home, ControlTypes, SpentInv, Left, Spent,
     Booting
<1>36. ASSUME NEW r \in Requests, ReconnectStep(r) PROVE SpentInv'
  BY <1>36, ThreadAssumption DEF ReconnectStep, Reconnect, ControlTypes, SpentInv, Left,
     Spent, Booting
<1>37. ASSUME NEW r \in Requests, StartTunnel(r) PROVE SpentInv'
  BY <1>37, ThreadAssumption DEF StartTunnel, ControlTypes, SpentInv, Left, Spent,
     Booting
<1>38. ASSUME NEW r \in Requests, StartTunnelCheck(r) PROVE SpentInv'
  BY <1>38, ThreadAssumption DEF StartTunnelCheck, ControlTypes, SpentInv, Left, Spent,
     Booting
<1>39. ASSUME NEW r \in Requests, StartTunnelReturn(r) PROVE SpentInv'
  BY <1>39, ThreadAssumption DEF StartTunnelReturn, ControlTypes, SpentInv, Left, Spent,
     Booting
<1>40. ASSUME NEW r \in Requests, StopTunnel(r) PROVE SpentInv'
  BY <1>40, ThreadAssumption DEF StopTunnel, ControlTypes, SpentInv, Left, Spent,
     Booting
<1>41. ASSUME NEW r \in Requests, StopTunnelCancel(r) PROVE SpentInv'
  BY <1>41, ThreadAssumption DEF StopTunnelCancel, CancelRetry, ControlTypes, SpentInv,
     Left, Spent, Booting
<1>42. ASSUME NEW r \in Requests, StopTunnelLock(r) PROVE SpentInv'
  BY <1>42, ThreadAssumption DEF StopTunnelLock, ControlTypes, SpentInv, Left, Spent,
     Booting, ControlInv, StageInv, OpInv, PhaseInv
<1>43. ASSUME NEW r \in Requests, StopTunnelReturn(r) PROVE SpentInv'
  BY <1>43, ThreadAssumption DEF StopTunnelReturn, ControlTypes, SpentInv, Left, Spent,
     Booting
<1>44. ASSUME NEW t \in Requests \cup {Main}, ReloadAdopted(t) PROVE SpentInv'
  BY <1>44, ThreadAssumption DEF ReloadAdopted, Home, NoReload, ControlTypes, SpentInv,
     Left, Spent, Booting
<1>45. ASSUME NEW t \in Requests \cup {Main}, ReloadReturned(t) PROVE SpentInv'
  BY <1>45, ThreadAssumption DEF ReloadReturned, Home, ControlTypes, SpentInv, Left,
     Spent, Booting
<1>46. ASSUME NEW g \in Retries, RetrySelect(g) PROVE SpentInv'
  BY <1>46, ThreadAssumption DEF RetrySelect, RetryDone, ControlTypes, SpentInv, Left,
     Spent, Booting, ControlInv, StageInv, OpInv, PhaseInv
<1>47. ASSUME NEW g \in Retries, RetryTry(g) PROVE SpentInv'
  BY <1>47, ThreadAssumption DEF RetryTry, ControlTypes, SpentInv, Left, Spent, Booting,
     ControlInv, StageInv, OpInv, PhaseInv
<1>48. ASSUME NEW g \in Retries, RetryTried(g) PROVE SpentInv'
  BY <1>48, ThreadAssumption DEF RetryTried, RetryDone, ControlTypes, SpentInv, Left,
     Spent, Booting, ControlInv, StageInv, OpInv, PhaseInv
<1>49. ASSUME NEW g \in Retries, RetryClear(g) PROVE SpentInv'
  BY <1>49, ThreadAssumption DEF RetryClear, ControlTypes, SpentInv, Left, Spent,
     Booting
<1>50. CASE Start
  BY <1>50, ThreadAssumption DEF Start, ControlTypes, SpentInv, Left, Spent, Booting,
     ControlInv, StageInv, OpInv, PhaseInv, BootInv
<1>51. CASE StartRefused
  BY <1>51, ThreadAssumption DEF StartRefused, ControlTypes, SpentInv, Left, Spent,
     Booting
<1>52. CASE StartAttempt
  BY <1>52, ThreadAssumption DEF StartAttempt, ControlTypes, SpentInv, Left, Spent,
     Booting, ControlInv, StageInv, OpInv, PhaseInv, BootInv
<1>53. CASE StartRetry
  BY <1>53, ThreadAssumption DEF StartRetry, RetryStart, ControlTypes, SpentInv, Left,
     Spent, Booting, ControlInv, StageInv, OpInv, PhaseInv, BootInv
<1>54. CASE StartListen
  BY <1>54, ThreadAssumption DEF StartListen, ControlTypes, SpentInv, Left, Spent,
     Booting, ControlInv, StageInv, OpInv, PhaseInv
<1>55. CASE StartFailed
  BY <1>55, ThreadAssumption DEF StartFailed, ControlTypes, SpentInv, Left, Spent,
     Booting
<1>56. CASE StartPipe
  BY <1>56, ThreadAssumption DEF StartPipe, ControlTypes, SpentInv, Left, Spent, Booting
<1>57. CASE StartWatcher
  BY <1>57, ThreadAssumption DEF StartWatcher, ControlTypes, SpentInv, Left, Spent,
     Booting
<1>58. CASE OnPowerResume
  BY <1>58, ThreadAssumption DEF OnPowerResume, Reconnect, ControlTypes, SpentInv, Left,
     Spent, Booting
<1>59. CASE Reload(Main)
  BY <1>59, ThreadAssumption DEF Reload, MayReload, Home, ControlTypes, SpentInv, Left, Spent,
     Booting
<1>60. CASE Stop
  BY <1>60, ThreadAssumption DEF Stop, ControlTypes, SpentInv, Left, Spent, Booting
<1>61. CASE StopPipe
  BY <1>61, ThreadAssumption DEF StopPipe, ControlTypes, SpentInv, Left, Spent, Booting
<1>62. CASE StopDrained
  BY <1>62, ThreadAssumption DEF StopDrained, ControlTypes, SpentInv, Left, Spent,
     Booting, ControlInv, StageInv, OpInv, PhaseInv
<1>63. CASE StopReturn
  BY <1>63, ThreadAssumption DEF StopReturn, ControlTypes, SpentInv, Left, Spent,
     Booting
<1>64. CASE UNCHANGED vars
  BY <1>64, SMTT(30) DEF vars, ControlTypes, SpentInv, Left, Spent, Booting
<1> QED
  BY <1>1, <1>2, <1>3, <1>4, <1>5, <1>6, <1>7, <1>8, <1>9, <1>10, <1>11, <1>12, <1>13,
     <1>14, <1>15, <1>16, <1>17, <1>18, <1>19, <1>20, <1>21, <1>22, <1>23, <1>24, <1>25,
     <1>26, <1>27, <1>28, <1>29, <1>30, <1>31, <1>32, <1>33, <1>34, <1>35, <1>36, <1>37,
     <1>38, <1>39, <1>40, <1>41, <1>42, <1>43, <1>44, <1>45, <1>46, <1>47, <1>48, <1>49,
     <1>50, <1>51, <1>52, <1>53, <1>54, <1>55, <1>56, <1>57, <1>58, <1>59, <1>60, <1>61,
     <1>62, <1>63, <1>64 DEF Next, MainStep, WatchStep, CallStep, TunnelStep,
     ReloadStep, RequestStep, RetryStep, Supervise

\* While Manager.Stop closes the tunnel nobody else touches it.
LEMMA CloseStep ==
    ASSUME ControlTypes, ControlInv, DeviceInv, SoleInv, CloseInv, [Next]_vars
    PROVE  CloseInv'
<1> USE DEF ControlTypes, CloseInv
<1>1. ASSUME NEW t \in Threads, StartCheck(t), UNCHANGED Others PROVE CloseInv'
  BY <1>1, ThreadAssumption DEF StartCheck, ControlInv, StageInv, OpInv, PhaseInv
<1>2. ASSUME NEW t \in Threads, BuildFail(t), UNCHANGED Others PROVE CloseInv'
  BY <1>2, ThreadAssumption DEF BuildFail, ControlInv, StageInv, OpInv, PhaseInv
<1>3. ASSUME NEW t \in Threads, BuildOk(t), UNCHANGED Others PROVE CloseInv'
  BY <1>3, ThreadAssumption DEF BuildOk, FreeDevices, ControlInv, StageInv, OpInv,
     PhaseInv
<1>4. ASSUME NEW t \in Threads, StartRecord(t), UNCHANGED Others PROVE CloseInv'
  BY <1>4, ThreadAssumption DEF StartRecord, ControlInv, StageInv, OpInv, PhaseInv
<1>5. ASSUME NEW t \in Threads, StartLaunch(t), UNCHANGED Others PROVE CloseInv'
  BY <1>5, ThreadAssumption DEF StartLaunch, ControlInv, StageInv, OpInv, PhaseInv
<1>6. ASSUME NEW t \in Threads, StopMark(t), UNCHANGED Others PROVE CloseInv'
  <2>1. CASE t = Main /\ pc[Main] = "closing"
    <3>1. \A u \in Threads \ {Main} : op[u] = "idle"
      BY <1>6, <2>1, OneAtATime DEF StopMark, Failing
    <3>2. running => open \subseteq {dev}
      BY <1>6, <2>1, <3>1 DEF DeviceInv, StopMark
    <3>3. ~running => open = {} /\ sup = {}
      BY <1>6, <2>1, <3>1, SMTT(30) DEF DeviceInv, StopMark, SoleInv, Failing
    <3>4. CASE running
      BY <1>6, <2>1, <3>2, <3>4 DEF StopMark
    <3>5. CASE ~running
      BY <1>6, <2>1, <3>3, <3>5 DEF StopMark
    <3> QED
      BY <3>4, <3>5
  <2>2. CASE ~(t = Main /\ pc[Main] = "closing")
    <3>1. pc[Main] \notin {"closing", "stopped"}
      BY <1>6, <2>2, ThreadAssumption DEF ControlInv, OpInv, StageInv, PhaseInv, StopMark
    <3> QED
      BY <1>6, <3>1 DEF StopMark
  <2> QED
    BY <2>1, <2>2
<1>7. ASSUME NEW t \in Threads, StopClose(t), UNCHANGED Others PROVE CloseInv'
  BY <1>7, ThreadAssumption DEF StopClose, ControlInv, StageInv, OpInv, PhaseInv
<1>8. ASSUME NEW t \in Threads, ReloadRefuse(t), UNCHANGED Others PROVE CloseInv'
  BY <1>8, ThreadAssumption DEF ReloadRefuse, ReloadReturn
<1>9. ASSUME NEW t \in Threads, ReloadDecide(t), UNCHANGED Others PROVE CloseInv'
  BY <1>9, ThreadAssumption DEF ReloadDecide, stackEqual, ControlInv, StageInv, OpInv,
     PhaseInv
<1>10. ASSUME NEW t \in Threads, ReloadAdopt(t), UNCHANGED Others PROVE CloseInv'
  BY <1>10, ThreadAssumption DEF ReloadAdopt, ReloadReturn, ControlInv, StageInv, OpInv,
     PhaseInv
<1>11. ASSUME NEW t \in Threads, ReloadApply(t), UNCHANGED Others PROVE CloseInv'
  BY <1>11, ThreadAssumption DEF ReloadApply, ReloadReturn
<1>12. ASSUME NEW t \in Threads, ReloadSwap(t), UNCHANGED Others PROVE CloseInv'
  BY <1>12, ThreadAssumption DEF ReloadSwap, ControlInv, StageInv, OpInv, PhaseInv
<1>13. ASSUME NEW t \in Threads, ReloadStarted(t), UNCHANGED Others PROVE CloseInv'
  BY <1>13, ThreadAssumption DEF ReloadStarted, ReloadReturn, ControlInv, StageInv,
     OpInv, PhaseInv
<1>14. ASSUME NEW t \in Threads, ReloadRestored(t), UNCHANGED Others PROVE CloseInv'
  BY <1>14, ThreadAssumption DEF ReloadRestored, ReloadReturn
<1>15. ASSUME NEW t \in Threads, AttemptLock(t) PROVE CloseInv'
  BY <1>15, ThreadAssumption DEF AttemptLock
<1>16. ASSUME NEW t \in Threads, AttemptRunning(t) PROVE CloseInv'
  BY <1>16, ThreadAssumption DEF AttemptRunning, ControlInv, StageInv, OpInv, PhaseInv
<1>17. ASSUME NEW t \in Threads, AttemptUnlock(t) PROVE CloseInv'
  BY <1>17, ThreadAssumption DEF AttemptUnlock
<1>18. ASSUME NEW t \in Threads, CheckBegin(t) PROVE CloseInv'
  BY <1>18, ThreadAssumption DEF CheckBegin
<1>19. ASSUME NEW t \in Threads, CheckUnread(t) PROVE CloseInv'
  BY <1>19, ThreadAssumption DEF CheckUnread, CheckReturn
<1>20. ASSUME NEW t \in Threads, CheckRead(t) PROVE CloseInv'
  BY <1>20, ThreadAssumption DEF CheckRead, CheckReturn, configConflict
<1>21. ASSUME NEW t \in Threads, PauseCancelRetry(t) PROVE CloseInv'
  BY <1>21, ThreadAssumption DEF PauseCancelRetry, CancelRetry
<1>22. ASSUME NEW t \in Threads, PauseLock(t) PROVE CloseInv'
  BY <1>22, ThreadAssumption DEF PauseLock, ControlInv, StageInv, OpInv, PhaseInv
<1>23. ASSUME NEW t \in Threads, PauseUnlock(t) PROVE CloseInv'
  BY <1>23, ThreadAssumption DEF PauseUnlock, CheckReturn
<1>24. ASSUME NEW t \in Threads, ResumeRetry(t) PROVE CloseInv'
  BY <1>24, ThreadAssumption DEF ResumeRetry, CheckReturn, RetryStart, ControlInv,
     StageInv, OpInv, PhaseInv
<1>25. ASSUME NEW d \in Devices, SuperviseKick(d), UNCHANGED Others PROVE CloseInv'
  BY <1>25, ThreadAssumption DEF SuperviseKick
<1>26. ASSUME NEW d \in Devices, SuperviseApply(d), UNCHANGED Others PROVE CloseInv'
  BY <1>26, ThreadAssumption DEF SuperviseApply
<1>27. ASSUME NEW d \in Devices, SuperviseExit(d), UNCHANGED Others PROVE CloseInv'
  BY <1>27, ThreadAssumption DEF SuperviseExit
<1>28. CASE WatchEvent  BY <1>28, ThreadAssumption DEF WatchEvent
<1>29. CASE WatchChanged  BY <1>29, ThreadAssumption DEF WatchChanged
<1>30. CASE WatchTimer  BY <1>30, ThreadAssumption DEF WatchTimer
<1>31. CASE WatchSettled  BY <1>31, ThreadAssumption DEF WatchSettled, Reconnect
<1>32. CASE WatchExit  BY <1>32, ThreadAssumption DEF WatchExit
<1>33. CASE AddressChange  BY <1>33, ThreadAssumption DEF AddressChange
<1>34. ASSUME NEW r \in Requests, Request(r) PROVE CloseInv'
  BY <1>34, ThreadAssumption DEF Request
<1>35. ASSUME NEW r \in Requests, Reload(r) PROVE CloseInv'
  BY <1>35, ThreadAssumption DEF Reload, MayReload, Home
<1>36. ASSUME NEW r \in Requests, ReconnectStep(r) PROVE CloseInv'
  BY <1>36, ThreadAssumption DEF ReconnectStep, Reconnect
<1>37. ASSUME NEW r \in Requests, StartTunnel(r) PROVE CloseInv'
  BY <1>37, ThreadAssumption DEF StartTunnel
<1>38. ASSUME NEW r \in Requests, StartTunnelCheck(r) PROVE CloseInv'
  BY <1>38, ThreadAssumption DEF StartTunnelCheck
<1>39. ASSUME NEW r \in Requests, StartTunnelReturn(r) PROVE CloseInv'
  BY <1>39, ThreadAssumption DEF StartTunnelReturn
<1>40. ASSUME NEW r \in Requests, StopTunnel(r) PROVE CloseInv'
  BY <1>40, ThreadAssumption DEF StopTunnel
<1>41. ASSUME NEW r \in Requests, StopTunnelCancel(r) PROVE CloseInv'
  BY <1>41, ThreadAssumption DEF StopTunnelCancel, CancelRetry
<1>42. ASSUME NEW r \in Requests, StopTunnelLock(r) PROVE CloseInv'
  BY <1>42, ThreadAssumption DEF StopTunnelLock, ControlInv, StageInv, OpInv, PhaseInv
<1>43. ASSUME NEW r \in Requests, StopTunnelReturn(r) PROVE CloseInv'
  BY <1>43, ThreadAssumption DEF StopTunnelReturn
<1>44. ASSUME NEW t \in Requests \cup {Main}, ReloadAdopted(t) PROVE CloseInv'
  BY <1>44, ThreadAssumption DEF ReloadAdopted, Home, NoReload, ControlInv, StageInv,
     OpInv, PhaseInv
<1>45. ASSUME NEW t \in Requests \cup {Main}, ReloadReturned(t) PROVE CloseInv'
  BY <1>45, ThreadAssumption DEF ReloadReturned, Home, ControlInv, StageInv, OpInv,
     PhaseInv
<1>46. ASSUME NEW g \in Retries, RetrySelect(g) PROVE CloseInv'
  BY <1>46, ThreadAssumption DEF RetrySelect, RetryDone, ControlInv, StageInv, OpInv,
     PhaseInv
<1>47. ASSUME NEW g \in Retries, RetryTry(g) PROVE CloseInv'
  BY <1>47, ThreadAssumption DEF RetryTry, ControlInv, StageInv, OpInv, PhaseInv
<1>48. ASSUME NEW g \in Retries, RetryTried(g) PROVE CloseInv'
  BY <1>48, ThreadAssumption DEF RetryTried, RetryDone, ControlInv, StageInv, OpInv,
     PhaseInv
<1>49. ASSUME NEW g \in Retries, RetryClear(g) PROVE CloseInv'
  BY <1>49, ThreadAssumption DEF RetryClear, ControlInv, StageInv, OpInv, PhaseInv
<1>50. CASE Start  BY <1>50, ThreadAssumption DEF Start
<1>51. CASE StartRefused  BY <1>51, ThreadAssumption DEF StartRefused
<1>52. CASE StartAttempt  BY <1>52, ThreadAssumption DEF StartAttempt
<1>53. CASE StartRetry
  BY <1>53, ThreadAssumption DEF StartRetry
<1>54. CASE StartListen
  BY <1>54, ThreadAssumption DEF StartListen, ControlInv, StageInv, OpInv, PhaseInv
<1>55. CASE StartFailed  BY <1>55, ThreadAssumption DEF StartFailed
<1>56. CASE StartPipe  BY <1>56, ThreadAssumption DEF StartPipe
<1>57. CASE StartWatcher  BY <1>57, ThreadAssumption DEF StartWatcher
<1>58. CASE OnPowerResume  BY <1>58, ThreadAssumption DEF OnPowerResume, Reconnect
<1>59. CASE Reload(Main)  BY <1>59, ThreadAssumption DEF Reload, MayReload, Home
<1>60. CASE Stop  BY <1>60, ThreadAssumption DEF Stop
<1>61. CASE StopPipe  BY <1>61, ThreadAssumption DEF StopPipe
<1>62. CASE StopDrained
  BY <1>62, ThreadAssumption DEF StopDrained, ControlInv, StageInv, OpInv, PhaseInv
<1>63. CASE StopReturn
  BY <1>63, ThreadAssumption DEF StopReturn, ControlInv, StageInv, OpInv, PhaseInv
<1>64. CASE UNCHANGED vars
  BY <1>64, SMTT(30) DEF vars
<1> HIDE DEF ControlTypes, CloseInv
<1> QED
  BY <1>1, <1>2, <1>3, <1>4, <1>5, <1>6, <1>7, <1>8, <1>9, <1>10, <1>11, <1>12, <1>13,
     <1>14, <1>15, <1>16, <1>17, <1>18, <1>19, <1>20, <1>21, <1>22, <1>23, <1>24, <1>25,
     <1>26, <1>27, <1>28, <1>29, <1>30, <1>31, <1>32, <1>33, <1>34, <1>35, <1>36, <1>37,
     <1>38, <1>39, <1>40, <1>41, <1>42, <1>43, <1>44, <1>45, <1>46, <1>47, <1>48, <1>49,
     <1>50, <1>51, <1>52, <1>53, <1>54, <1>55, <1>56, <1>57, <1>58, <1>59, <1>60, <1>61,
     <1>62, <1>63, <1>64 DEF Next, MainStep, WatchStep, CallStep, TunnelStep,
     ReloadStep, RequestStep, RetryStep, Supervise

\* What the watcher's lemmas need besides.
CheckTypes ==
    /\ seen \in [Threads -> Configs \cup {None}]
    /\ host \subseteq Addresses
    /\ readFails = 0

LEMMA AddressNotNone == None \notin Addresses
  BY ManagerAssumption DEF Addresses

\* An address change that no check has seen leaves an event behind, a new
\* configuration leaves a check of its own.
LEMMA SettleStep ==
    ASSUME ControlTypes, CheckTypes, CallInv, SettleInv, [Next]_vars
    PROVE  SettleInv'
<1>1. ASSUME NEW t \in Threads, StartCheck(t), UNCHANGED Others PROVE SettleInv'
  BY <1>1, ThreadAssumption DEF StartCheck, ControlTypes, CheckTypes, SettleInv, Agrees,
     Unread, configConflict
<1>2. ASSUME NEW t \in Threads, BuildFail(t), UNCHANGED Others PROVE SettleInv'
  BY <1>2, ThreadAssumption DEF BuildFail, ControlTypes, CheckTypes, SettleInv, Agrees,
     Unread, configConflict
<1>3. ASSUME NEW t \in Threads, BuildOk(t), UNCHANGED Others PROVE SettleInv'
  BY <1>3, ThreadAssumption DEF BuildOk, FreeDevices, ControlTypes, CheckTypes,
     SettleInv, Agrees, Unread, configConflict
<1>4. ASSUME NEW t \in Threads, StartRecord(t), UNCHANGED Others PROVE SettleInv'
  BY <1>4, ThreadAssumption DEF StartRecord, ControlTypes, CheckTypes, SettleInv,
     Agrees, Unread, configConflict
<1>5. ASSUME NEW t \in Threads, StartLaunch(t), UNCHANGED Others PROVE SettleInv'
  BY <1>5, ThreadAssumption DEF StartLaunch, ControlTypes, CheckTypes, SettleInv,
     Agrees, Unread, configConflict
<1>6. ASSUME NEW t \in Threads, StopMark(t), UNCHANGED Others PROVE SettleInv'
  BY <1>6, ThreadAssumption DEF StopMark, ControlTypes, CheckTypes, SettleInv, Agrees,
     Unread, configConflict
<1>7. ASSUME NEW t \in Threads, StopClose(t), UNCHANGED Others PROVE SettleInv'
  BY <1>7, ThreadAssumption DEF StopClose, ControlTypes, CheckTypes, SettleInv, Agrees,
     Unread, configConflict
<1>8. ASSUME NEW t \in Threads, ReloadRefuse(t), UNCHANGED Others PROVE SettleInv'
  BY <1>8, ThreadAssumption DEF ReloadRefuse, ReloadReturn, ControlTypes, CheckTypes,
     SettleInv, Agrees, Unread, configConflict
<1>9. ASSUME NEW t \in Threads, ReloadDecide(t), UNCHANGED Others PROVE SettleInv'
  BY <1>9, ThreadAssumption DEF ReloadDecide, stackEqual, ControlTypes, CheckTypes,
     SettleInv, Agrees, Unread, configConflict
<1>10. ASSUME NEW t \in Threads, ReloadAdopt(t), UNCHANGED Others PROVE SettleInv'
  BY <1>10, ThreadAssumption DEF ReloadAdopt, ReloadReturn, ControlTypes, CheckTypes,
     SettleInv, Agrees, Unread, configConflict
<1>11. ASSUME NEW t \in Threads, ReloadApply(t), UNCHANGED Others PROVE SettleInv'
  BY <1>11, ThreadAssumption DEF ReloadApply, ReloadReturn, ControlTypes, CheckTypes,
     SettleInv, Agrees, Unread, configConflict
<1>12. ASSUME NEW t \in Threads, ReloadSwap(t), UNCHANGED Others PROVE SettleInv'
  BY <1>12, ThreadAssumption DEF ReloadSwap, ControlTypes, CheckTypes, SettleInv,
     Agrees, Unread, configConflict
<1>13. ASSUME NEW t \in Threads, ReloadStarted(t), UNCHANGED Others PROVE SettleInv'
  BY <1>13, ThreadAssumption DEF ReloadStarted, ReloadReturn, ControlTypes, CheckTypes,
     SettleInv, Agrees, Unread, configConflict
<1>14. ASSUME NEW t \in Threads, ReloadRestored(t), UNCHANGED Others PROVE SettleInv'
  BY <1>14, ThreadAssumption DEF ReloadRestored, ReloadReturn, ControlTypes, CheckTypes,
     SettleInv, Agrees, Unread, configConflict
<1>15. ASSUME NEW t \in Threads, AttemptLock(t) PROVE SettleInv'
  BY <1>15, ThreadAssumption DEF AttemptLock, ControlTypes, CheckTypes, SettleInv,
     Agrees, Unread, configConflict
<1>16. ASSUME NEW t \in Threads, AttemptRunning(t) PROVE SettleInv'
  BY <1>16, ThreadAssumption DEF AttemptRunning, ControlTypes, CheckTypes, SettleInv,
     Agrees, Unread, configConflict
<1>17. ASSUME NEW t \in Threads, AttemptUnlock(t) PROVE SettleInv'
  BY <1>17, ThreadAssumption DEF AttemptUnlock, ControlTypes, CheckTypes, SettleInv,
     Agrees, Unread, configConflict
<1>18. ASSUME NEW t \in Threads, CheckBegin(t) PROVE SettleInv'
  BY <1>18, ThreadAssumption DEF CheckBegin, ControlTypes, CheckTypes, SettleInv,
     Agrees, Unread, configConflict, CallInv
<1>19. ASSUME NEW t \in Threads, CheckUnread(t) PROVE SettleInv'
  BY <1>19 DEF CheckUnread, CheckTypes
<1>20. ASSUME NEW t \in Threads, CheckRead(t) PROVE SettleInv'
  <2>1. /\ cc[t] = "list" /\ cc' = [cc EXCEPT ![t] = cc'[t]]
        /\ cc'[t] \in {"idle", "cancelretry", "retry"}
        /\ (conflictMu' = conflictMu \/ cc'[t] = "idle")
        /\ (pausedBy' # None <=> configConflict(seen[t], host))
        /\ seen' = [seen EXCEPT ![t] = None]
        /\ UNCHANGED <<tunCfg, host, event, registered, pc>>
    BY <1>20, AddressNotNone DEF CheckRead, CheckReturn, configConflict, ControlTypes, CheckTypes
  <2>2. \A u \in Threads \ {t} : cc[u] \in {"idle", "check"}
    BY <2>1 DEF SettleInv, ControlTypes
  <2>3. \A u \in Threads \ {t} : cc'[u] = cc[u]
    BY <2>1 DEF ControlTypes
  <2>4. \A u \in Threads : cc'[u] \notin {"idle", "check"} => conflictMu' = u
    BY <2>1, <2>2, <2>3 DEF SettleInv
  <2>5. \A u \in Threads : cc'[u] # "list"
    BY <2>1, <2>2, <2>3
  <2>6. ASSUME pc'[Watch] = "settled"
        PROVE  \/ Agrees' \/ event' \/ ~registered'
               \/ \E u \in Threads : pc'[u] \in {"settled", "reloaded"} /\ Unread(u)'
    <3>1. CASE seen[t] = tunCfg
      BY <3>1, <2>1 DEF Agrees, configConflict
    <3>2. CASE \E u \in Threads \ {t} : pc[u] = "reloaded" /\ cc[u] = "check"
      BY <3>2, <2>1, <2>3 DEF Unread
    <3> QED
      BY <3>1, <3>2, <2>1 DEF SettleInv
  <2> QED
    BY <2>4, <2>5, <2>6 DEF SettleInv
<1>21. ASSUME NEW t \in Threads, PauseCancelRetry(t) PROVE SettleInv'
  BY <1>21, ThreadAssumption DEF PauseCancelRetry, CancelRetry, ControlTypes,
     CheckTypes, SettleInv, Agrees, Unread, configConflict
<1>22. ASSUME NEW t \in Threads, PauseLock(t) PROVE SettleInv'
  BY <1>22, ThreadAssumption DEF PauseLock, ControlTypes, CheckTypes, SettleInv, Agrees,
     Unread, configConflict
<1>23. ASSUME NEW t \in Threads, PauseUnlock(t) PROVE SettleInv'
  BY <1>23, ThreadAssumption DEF PauseUnlock, CheckReturn, ControlTypes, CheckTypes,
     SettleInv, Agrees, Unread, configConflict
<1>24. ASSUME NEW t \in Threads, ResumeRetry(t) PROVE SettleInv'
  BY <1>24, ThreadAssumption DEF ResumeRetry, CheckReturn, RetryStart, ControlTypes,
     CheckTypes, SettleInv, Agrees, Unread, configConflict
<1>25. ASSUME NEW d \in Devices, SuperviseKick(d), UNCHANGED Others PROVE SettleInv'
  BY <1>25, ThreadAssumption DEF SuperviseKick, ControlTypes, CheckTypes, SettleInv,
     Agrees, Unread, configConflict
<1>26. ASSUME NEW d \in Devices, SuperviseApply(d), UNCHANGED Others PROVE SettleInv'
  BY <1>26, ThreadAssumption DEF SuperviseApply, ControlTypes, CheckTypes, SettleInv,
     Agrees, Unread, configConflict
<1>27. ASSUME NEW d \in Devices, SuperviseExit(d), UNCHANGED Others PROVE SettleInv'
  BY <1>27, ThreadAssumption DEF SuperviseExit, ControlTypes, CheckTypes, SettleInv,
     Agrees, Unread, configConflict
<1>28. CASE WatchEvent
  BY <1>28, ThreadAssumption DEF WatchEvent, ControlTypes, CheckTypes, SettleInv,
     Agrees, Unread, configConflict, CallInv
<1>29. CASE WatchChanged
  BY <1>29, ThreadAssumption DEF WatchChanged, ControlTypes, CheckTypes, SettleInv,
     Agrees, Unread, configConflict
<1>30. CASE WatchTimer
  BY <1>30, ThreadAssumption DEF WatchTimer, ControlTypes, CheckTypes, SettleInv,
     Agrees, Unread, configConflict, CallInv
<1>31. CASE WatchSettled
  BY <1>31, ThreadAssumption DEF WatchSettled, Reconnect, ControlTypes, CheckTypes,
     SettleInv, Agrees, Unread, configConflict
<1>32. CASE WatchExit
  BY <1>32, ThreadAssumption DEF WatchExit, ControlTypes, CheckTypes, SettleInv, Agrees,
     Unread, configConflict
<1>33. CASE AddressChange
  <2>1. UNCHANGED <<cc, conflictMu, seen, tunCfg, pc, registered>>
    BY <1>33 DEF AddressChange
  <2>2. registered => event'
    BY <1>33 DEF AddressChange
  <2> QED
    BY <2>1, <2>2, ThreadAssumption DEF SettleInv, Unread
<1>34. ASSUME NEW r \in Requests, Request(r) PROVE SettleInv'
  BY <1>34, ThreadAssumption DEF Request, ControlTypes, CheckTypes, SettleInv, Agrees,
     Unread, configConflict
<1>35. ASSUME NEW r \in Requests, Reload(r) PROVE SettleInv'
  BY <1>35, ThreadAssumption DEF Reload, MayReload, Home, ControlTypes, CheckTypes, SettleInv,
     Agrees, Unread, configConflict
<1>36. ASSUME NEW r \in Requests, ReconnectStep(r) PROVE SettleInv'
  BY <1>36, ThreadAssumption DEF ReconnectStep, Reconnect, ControlTypes, CheckTypes,
     SettleInv, Agrees, Unread, configConflict
<1>37. ASSUME NEW r \in Requests, StartTunnel(r) PROVE SettleInv'
  BY <1>37, ThreadAssumption DEF StartTunnel, ControlTypes, CheckTypes, SettleInv,
     Agrees, Unread, configConflict
<1>38. ASSUME NEW r \in Requests, StartTunnelCheck(r) PROVE SettleInv'
  BY <1>38, ThreadAssumption DEF StartTunnelCheck, ControlTypes, CheckTypes, SettleInv,
     Agrees, Unread, configConflict
<1>39. ASSUME NEW r \in Requests, StartTunnelReturn(r) PROVE SettleInv'
  BY <1>39, ThreadAssumption DEF StartTunnelReturn, ControlTypes, CheckTypes, SettleInv,
     Agrees, Unread, configConflict
<1>40. ASSUME NEW r \in Requests, StopTunnel(r) PROVE SettleInv'
  BY <1>40, ThreadAssumption DEF StopTunnel, ControlTypes, CheckTypes, SettleInv,
     Agrees, Unread, configConflict
<1>41. ASSUME NEW r \in Requests, StopTunnelCancel(r) PROVE SettleInv'
  BY <1>41, ThreadAssumption DEF StopTunnelCancel, CancelRetry, ControlTypes,
     CheckTypes, SettleInv, Agrees, Unread, configConflict
<1>42. ASSUME NEW r \in Requests, StopTunnelLock(r) PROVE SettleInv'
  BY <1>42, ThreadAssumption DEF StopTunnelLock, ControlTypes, CheckTypes, SettleInv,
     Agrees, Unread, configConflict
<1>43. ASSUME NEW r \in Requests, StopTunnelReturn(r) PROVE SettleInv'
  BY <1>43, ThreadAssumption DEF StopTunnelReturn, ControlTypes, CheckTypes, SettleInv,
     Agrees, Unread, configConflict
<1>44. ASSUME NEW t \in Requests \cup {Main}, ReloadAdopted(t) PROVE SettleInv'
  BY <1>44, ThreadAssumption DEF ReloadAdopted, Home, NoReload, ControlTypes,
     CheckTypes, SettleInv, Agrees, Unread, configConflict, CallInv
<1>45. ASSUME NEW t \in Requests \cup {Main}, ReloadReturned(t) PROVE SettleInv'
  BY <1>45, ThreadAssumption DEF ReloadReturned, Home, ControlTypes, CheckTypes,
     SettleInv, Agrees, Unread, configConflict
<1>46. ASSUME NEW g \in Retries, RetrySelect(g) PROVE SettleInv'
  BY <1>46, ThreadAssumption DEF RetrySelect, RetryDone, ControlTypes, CheckTypes,
     SettleInv, Agrees, Unread, configConflict
<1>47. ASSUME NEW g \in Retries, RetryTry(g) PROVE SettleInv'
  BY <1>47, ThreadAssumption DEF RetryTry, ControlTypes, CheckTypes, SettleInv, Agrees,
     Unread, configConflict
<1>48. ASSUME NEW g \in Retries, RetryTried(g) PROVE SettleInv'
  BY <1>48, ThreadAssumption DEF RetryTried, RetryDone, ControlTypes, CheckTypes,
     SettleInv, Agrees, Unread, configConflict
<1>49. ASSUME NEW g \in Retries, RetryClear(g) PROVE SettleInv'
  BY <1>49, ThreadAssumption DEF RetryClear, ControlTypes, CheckTypes, SettleInv,
     Agrees, Unread, configConflict
<1>50. CASE Start
  BY <1>50, ThreadAssumption DEF Start, ControlTypes, CheckTypes, SettleInv, Agrees,
     Unread, configConflict, CallInv
<1>51. CASE StartRefused
  BY <1>51, ThreadAssumption DEF StartRefused, ControlTypes, CheckTypes, SettleInv,
     Agrees, Unread, configConflict
<1>52. CASE StartAttempt
  BY <1>52, ThreadAssumption DEF StartAttempt, ControlTypes, CheckTypes, SettleInv,
     Agrees, Unread, configConflict, CallInv
<1>53. CASE StartRetry
  BY <1>53, ThreadAssumption DEF StartRetry, RetryStart, ControlTypes, CheckTypes,
     SettleInv, Agrees, Unread, configConflict, CallInv
<1>54. CASE StartListen
  BY <1>54, ThreadAssumption DEF StartListen, ControlTypes, CheckTypes, SettleInv,
     Agrees, Unread, configConflict
<1>55. CASE StartFailed
  BY <1>55, ThreadAssumption DEF StartFailed, ControlTypes, CheckTypes, SettleInv,
     Agrees, Unread, configConflict
<1>56. CASE StartPipe
  BY <1>56, ThreadAssumption DEF StartPipe, ControlTypes, CheckTypes, SettleInv, Agrees,
     Unread, configConflict, CallInv
<1>57. CASE StartWatcher
  BY <1>57, ThreadAssumption DEF StartWatcher, ControlTypes, CheckTypes, SettleInv,
     Agrees, Unread, configConflict, CallInv
<1>58. CASE OnPowerResume
  BY <1>58, ThreadAssumption DEF OnPowerResume, Reconnect, ControlTypes, CheckTypes,
     SettleInv, Agrees, Unread, configConflict
<1>59. CASE Reload(Main)
  BY <1>59, ThreadAssumption DEF Reload, MayReload, Home, ControlTypes, CheckTypes, SettleInv,
     Agrees, Unread, configConflict
<1>60. CASE Stop
  BY <1>60, ThreadAssumption DEF Stop, ControlTypes, CheckTypes, SettleInv, Agrees,
     Unread, configConflict
<1>61. CASE StopPipe
  BY <1>61, ThreadAssumption DEF StopPipe, ControlTypes, CheckTypes, SettleInv, Agrees,
     Unread, configConflict, CallInv
<1>62. CASE StopDrained
  BY <1>62, ThreadAssumption DEF StopDrained, ControlTypes, CheckTypes, SettleInv,
     Agrees, Unread, configConflict
<1>63. CASE StopReturn
  BY <1>63, ThreadAssumption DEF StopReturn, ControlTypes, CheckTypes, SettleInv,
     Agrees, Unread, configConflict
<1>64. CASE UNCHANGED vars
  BY <1>64, SMTT(30) DEF vars, ControlTypes, CheckTypes, SettleInv, Agrees,
     Unread, configConflict
<1> QED
  BY <1>1, <1>2, <1>3, <1>4, <1>5, <1>6, <1>7, <1>8, <1>9, <1>10, <1>11, <1>12, <1>13,
     <1>14, <1>15, <1>16, <1>17, <1>18, <1>19, <1>20, <1>21, <1>22, <1>23, <1>24, <1>25,
     <1>26, <1>27, <1>28, <1>29, <1>30, <1>31, <1>32, <1>33, <1>34, <1>35, <1>36, <1>37,
     <1>38, <1>39, <1>40, <1>41, <1>42, <1>43, <1>44, <1>45, <1>46, <1>47, <1>48, <1>49,
     <1>50, <1>51, <1>52, <1>53, <1>54, <1>55, <1>56, <1>57, <1>58, <1>59, <1>60, <1>61,
     <1>62, <1>63, <1>64 DEF Next, MainStep, WatchStep, CallStep, TunnelStep,
     ReloadStep, RequestStep, RetryStep, Supervise

\* Only one step goes back to the watcher's loop from the debounced check.
LEMMA SettledStep ==
    ASSUME ControlTypes, CallInv, [Next]_vars
    PROVE  WatchSettled \/ ~(pc[Watch] = "settled" /\ pc'[Watch] = "loop")
<1> USE DEF ControlTypes
<1>1. ASSUME NEW t \in Threads, StartCheck(t), UNCHANGED Others PROVE WatchSettled \/ ~(pc[Watch] = "settled" /\ pc'[Watch] = "loop")
  BY <1>1, ThreadAssumption DEF StartCheck
<1>2. ASSUME NEW t \in Threads, BuildFail(t), UNCHANGED Others PROVE WatchSettled \/ ~(pc[Watch] = "settled" /\ pc'[Watch] = "loop")
  BY <1>2, ThreadAssumption DEF BuildFail
<1>3. ASSUME NEW t \in Threads, BuildOk(t), UNCHANGED Others PROVE WatchSettled \/ ~(pc[Watch] = "settled" /\ pc'[Watch] = "loop")
  BY <1>3, ThreadAssumption DEF BuildOk, FreeDevices
<1>4. ASSUME NEW t \in Threads, StartRecord(t), UNCHANGED Others PROVE WatchSettled \/ ~(pc[Watch] = "settled" /\ pc'[Watch] = "loop")
  BY <1>4, ThreadAssumption DEF StartRecord
<1>5. ASSUME NEW t \in Threads, StartLaunch(t), UNCHANGED Others PROVE WatchSettled \/ ~(pc[Watch] = "settled" /\ pc'[Watch] = "loop")
  BY <1>5, ThreadAssumption DEF StartLaunch
<1>6. ASSUME NEW t \in Threads, StopMark(t), UNCHANGED Others PROVE WatchSettled \/ ~(pc[Watch] = "settled" /\ pc'[Watch] = "loop")
  BY <1>6, ThreadAssumption DEF StopMark
<1>7. ASSUME NEW t \in Threads, StopClose(t), UNCHANGED Others PROVE WatchSettled \/ ~(pc[Watch] = "settled" /\ pc'[Watch] = "loop")
  BY <1>7, ThreadAssumption DEF StopClose
<1>8. ASSUME NEW t \in Threads, ReloadRefuse(t), UNCHANGED Others PROVE WatchSettled \/ ~(pc[Watch] = "settled" /\ pc'[Watch] = "loop")
  BY <1>8, ThreadAssumption DEF ReloadRefuse, ReloadReturn
<1>9. ASSUME NEW t \in Threads, ReloadDecide(t), UNCHANGED Others PROVE WatchSettled \/ ~(pc[Watch] = "settled" /\ pc'[Watch] = "loop")
  BY <1>9, ThreadAssumption DEF ReloadDecide, stackEqual
<1>10. ASSUME NEW t \in Threads, ReloadAdopt(t), UNCHANGED Others PROVE WatchSettled \/ ~(pc[Watch] = "settled" /\ pc'[Watch] = "loop")
  BY <1>10, ThreadAssumption DEF ReloadAdopt, ReloadReturn
<1>11. ASSUME NEW t \in Threads, ReloadApply(t), UNCHANGED Others PROVE WatchSettled \/ ~(pc[Watch] = "settled" /\ pc'[Watch] = "loop")
  BY <1>11, ThreadAssumption DEF ReloadApply, ReloadReturn
<1>12. ASSUME NEW t \in Threads, ReloadSwap(t), UNCHANGED Others PROVE WatchSettled \/ ~(pc[Watch] = "settled" /\ pc'[Watch] = "loop")
  BY <1>12, ThreadAssumption DEF ReloadSwap
<1>13. ASSUME NEW t \in Threads, ReloadStarted(t), UNCHANGED Others PROVE WatchSettled \/ ~(pc[Watch] = "settled" /\ pc'[Watch] = "loop")
  BY <1>13, ThreadAssumption DEF ReloadStarted, ReloadReturn
<1>14. ASSUME NEW t \in Threads, ReloadRestored(t), UNCHANGED Others PROVE WatchSettled \/ ~(pc[Watch] = "settled" /\ pc'[Watch] = "loop")
  BY <1>14, ThreadAssumption DEF ReloadRestored, ReloadReturn
<1>15. ASSUME NEW t \in Threads, AttemptLock(t) PROVE WatchSettled \/ ~(pc[Watch] = "settled" /\ pc'[Watch] = "loop")
  BY <1>15, ThreadAssumption DEF AttemptLock
<1>16. ASSUME NEW t \in Threads, AttemptRunning(t) PROVE WatchSettled \/ ~(pc[Watch] = "settled" /\ pc'[Watch] = "loop")
  BY <1>16, ThreadAssumption DEF AttemptRunning
<1>17. ASSUME NEW t \in Threads, AttemptUnlock(t) PROVE WatchSettled \/ ~(pc[Watch] = "settled" /\ pc'[Watch] = "loop")
  BY <1>17, ThreadAssumption DEF AttemptUnlock
<1>18. ASSUME NEW t \in Threads, CheckBegin(t) PROVE WatchSettled \/ ~(pc[Watch] = "settled" /\ pc'[Watch] = "loop")
  BY <1>18, ThreadAssumption DEF CheckBegin
<1>19. ASSUME NEW t \in Threads, CheckUnread(t) PROVE WatchSettled \/ ~(pc[Watch] = "settled" /\ pc'[Watch] = "loop")
  BY <1>19, ThreadAssumption DEF CheckUnread, CheckReturn
<1>20. ASSUME NEW t \in Threads, CheckRead(t) PROVE WatchSettled \/ ~(pc[Watch] = "settled" /\ pc'[Watch] = "loop")
  BY <1>20, ThreadAssumption DEF CheckRead, CheckReturn, configConflict
<1>21. ASSUME NEW t \in Threads, PauseCancelRetry(t) PROVE WatchSettled \/ ~(pc[Watch] = "settled" /\ pc'[Watch] = "loop")
  BY <1>21, ThreadAssumption DEF PauseCancelRetry, CancelRetry
<1>22. ASSUME NEW t \in Threads, PauseLock(t) PROVE WatchSettled \/ ~(pc[Watch] = "settled" /\ pc'[Watch] = "loop")
  BY <1>22, ThreadAssumption DEF PauseLock
<1>23. ASSUME NEW t \in Threads, PauseUnlock(t) PROVE WatchSettled \/ ~(pc[Watch] = "settled" /\ pc'[Watch] = "loop")
  BY <1>23, ThreadAssumption DEF PauseUnlock, CheckReturn
<1>24. ASSUME NEW t \in Threads, ResumeRetry(t) PROVE WatchSettled \/ ~(pc[Watch] = "settled" /\ pc'[Watch] = "loop")
  BY <1>24, ThreadAssumption DEF ResumeRetry, CheckReturn, RetryStart
<1>25. ASSUME NEW d \in Devices, SuperviseKick(d), UNCHANGED Others PROVE WatchSettled \/ ~(pc[Watch] = "settled" /\ pc'[Watch] = "loop")
  BY <1>25, ThreadAssumption DEF SuperviseKick
<1>26. ASSUME NEW d \in Devices, SuperviseApply(d), UNCHANGED Others PROVE WatchSettled \/ ~(pc[Watch] = "settled" /\ pc'[Watch] = "loop")
  BY <1>26, ThreadAssumption DEF SuperviseApply
<1>27. ASSUME NEW d \in Devices, SuperviseExit(d), UNCHANGED Others PROVE WatchSettled \/ ~(pc[Watch] = "settled" /\ pc'[Watch] = "loop")
  BY <1>27, ThreadAssumption DEF SuperviseExit
<1>28. CASE WatchEvent  BY <1>28, ThreadAssumption DEF WatchEvent
<1>29. CASE WatchChanged  BY <1>29, ThreadAssumption DEF WatchChanged
<1>30. CASE WatchTimer  BY <1>30, ThreadAssumption DEF WatchTimer
<1>31. CASE WatchSettled  BY <1>31, ThreadAssumption DEF WatchSettled, Reconnect
<1>32. CASE WatchExit  BY <1>32, ThreadAssumption DEF WatchExit
<1>33. CASE AddressChange  BY <1>33, ThreadAssumption DEF AddressChange
<1>34. ASSUME NEW r \in Requests, Request(r) PROVE WatchSettled \/ ~(pc[Watch] = "settled" /\ pc'[Watch] = "loop")
  BY <1>34, ThreadAssumption DEF Request
<1>35. ASSUME NEW r \in Requests, Reload(r) PROVE WatchSettled \/ ~(pc[Watch] = "settled" /\ pc'[Watch] = "loop")
  BY <1>35, ThreadAssumption DEF Reload, MayReload, Home
<1>36. ASSUME NEW r \in Requests, ReconnectStep(r) PROVE WatchSettled \/ ~(pc[Watch] = "settled" /\ pc'[Watch] = "loop")
  BY <1>36, ThreadAssumption DEF ReconnectStep, Reconnect
<1>37. ASSUME NEW r \in Requests, StartTunnel(r) PROVE WatchSettled \/ ~(pc[Watch] = "settled" /\ pc'[Watch] = "loop")
  BY <1>37, ThreadAssumption DEF StartTunnel
<1>38. ASSUME NEW r \in Requests, StartTunnelCheck(r) PROVE WatchSettled \/ ~(pc[Watch] = "settled" /\ pc'[Watch] = "loop")
  BY <1>38, ThreadAssumption DEF StartTunnelCheck
<1>39. ASSUME NEW r \in Requests, StartTunnelReturn(r) PROVE WatchSettled \/ ~(pc[Watch] = "settled" /\ pc'[Watch] = "loop")
  BY <1>39, ThreadAssumption DEF StartTunnelReturn
<1>40. ASSUME NEW r \in Requests, StopTunnel(r) PROVE WatchSettled \/ ~(pc[Watch] = "settled" /\ pc'[Watch] = "loop")
  BY <1>40, ThreadAssumption DEF StopTunnel
<1>41. ASSUME NEW r \in Requests, StopTunnelCancel(r) PROVE WatchSettled \/ ~(pc[Watch] = "settled" /\ pc'[Watch] = "loop")
  BY <1>41, ThreadAssumption DEF StopTunnelCancel, CancelRetry
<1>42. ASSUME NEW r \in Requests, StopTunnelLock(r) PROVE WatchSettled \/ ~(pc[Watch] = "settled" /\ pc'[Watch] = "loop")
  BY <1>42, ThreadAssumption DEF StopTunnelLock
<1>43. ASSUME NEW r \in Requests, StopTunnelReturn(r) PROVE WatchSettled \/ ~(pc[Watch] = "settled" /\ pc'[Watch] = "loop")
  BY <1>43, ThreadAssumption DEF StopTunnelReturn
<1>44. ASSUME NEW t \in Requests \cup {Main}, ReloadAdopted(t) PROVE WatchSettled \/ ~(pc[Watch] = "settled" /\ pc'[Watch] = "loop")
  BY <1>44, ThreadAssumption DEF ReloadAdopted, Home, NoReload
<1>45. ASSUME NEW t \in Requests \cup {Main}, ReloadReturned(t) PROVE WatchSettled \/ ~(pc[Watch] = "settled" /\ pc'[Watch] = "loop")
  BY <1>45, ThreadAssumption DEF ReloadReturned, Home
<1>46. ASSUME NEW g \in Retries, RetrySelect(g) PROVE WatchSettled \/ ~(pc[Watch] = "settled" /\ pc'[Watch] = "loop")
  BY <1>46, ThreadAssumption DEF RetrySelect, RetryDone
<1>47. ASSUME NEW g \in Retries, RetryTry(g) PROVE WatchSettled \/ ~(pc[Watch] = "settled" /\ pc'[Watch] = "loop")
  BY <1>47, ThreadAssumption DEF RetryTry
<1>48. ASSUME NEW g \in Retries, RetryTried(g) PROVE WatchSettled \/ ~(pc[Watch] = "settled" /\ pc'[Watch] = "loop")
  BY <1>48, ThreadAssumption DEF RetryTried, RetryDone
<1>49. ASSUME NEW g \in Retries, RetryClear(g) PROVE WatchSettled \/ ~(pc[Watch] = "settled" /\ pc'[Watch] = "loop")
  BY <1>49, ThreadAssumption DEF RetryClear
<1>50. CASE Start  BY <1>50, ThreadAssumption DEF Start
<1>51. CASE StartRefused  BY <1>51, ThreadAssumption DEF StartRefused
<1>52. CASE StartAttempt  BY <1>52, ThreadAssumption DEF StartAttempt
<1>53. CASE StartRetry  BY <1>53, ThreadAssumption DEF StartRetry, RetryStart
<1>54. CASE StartListen  BY <1>54, ThreadAssumption DEF StartListen
<1>55. CASE StartFailed  BY <1>55, ThreadAssumption DEF StartFailed
<1>56. CASE StartPipe  BY <1>56, ThreadAssumption DEF StartPipe
<1>57. CASE StartWatcher  BY <1>57, ThreadAssumption DEF StartWatcher, CallInv
<1>58. CASE OnPowerResume  BY <1>58, ThreadAssumption DEF OnPowerResume, Reconnect
<1>59. CASE Reload(Main)  BY <1>59, ThreadAssumption DEF Reload, MayReload, Home
<1>60. CASE Stop  BY <1>60, ThreadAssumption DEF Stop
<1>61. CASE StopPipe  BY <1>61, ThreadAssumption DEF StopPipe
<1>62. CASE StopDrained  BY <1>62, ThreadAssumption DEF StopDrained
<1>63. CASE StopReturn  BY <1>63, ThreadAssumption DEF StopReturn
<1>64. CASE UNCHANGED vars
  BY <1>64, SMTT(30) DEF vars
<1> HIDE DEF ControlTypes
<1> QED
  BY <1>1, <1>2, <1>3, <1>4, <1>5, <1>6, <1>7, <1>8, <1>9, <1>10, <1>11, <1>12, <1>13,
     <1>14, <1>15, <1>16, <1>17, <1>18, <1>19, <1>20, <1>21, <1>22, <1>23, <1>24, <1>25,
     <1>26, <1>27, <1>28, <1>29, <1>30, <1>31, <1>32, <1>33, <1>34, <1>35, <1>36, <1>37,
     <1>38, <1>39, <1>40, <1>41, <1>42, <1>43, <1>44, <1>45, <1>46, <1>47, <1>48, <1>49,
     <1>50, <1>51, <1>52, <1>53, <1>54, <1>55, <1>56, <1>57, <1>58, <1>59, <1>60, <1>61,
     <1>62, <1>63, <1>64 DEF Next, MainStep, WatchStep, CallStep, TunnelStep,
     ReloadStep, RequestStep, RetryStep, Supervise

-----------------------------------------------------------------------------
(* The theorems *)

\* Before the service starts, nothing is open, held or under way.
LEMMA DeviceInitially == ASSUME Init PROVE DeviceSafe /\ CallInv /\ CfgInv
<1>1. /\ running = FALSE /\ open = {} /\ sup = {} /\ pausedBy = None /\ accepting = FALSE
      /\ cfg = None /\ tunCfg = None /\ startMu = None /\ conflictMu = None
      /\ pc = [t \in Threads |-> IF t = Main THEN "boot" ELSE "idle"]
      /\ at = [t \in Threads |-> "idle"] /\ cc = [t \in Threads |-> "idle"]
      /\ op = [t \in Threads |-> "idle"] /\ rs = [t \in Threads |-> "idle"]
  BY DEF Init, TunnelInit
<1>2. None \notin Threads
  BY ConfigAssumption
<1>3. OwnerInv
  BY <1>1, <1>2 DEF OwnerInv
<1>4. BootInv /\ CloseInv
  BY <1>1, ThreadAssumption DEF BootInv, CloseInv
<1>5. SpentInv /\ SoleInv
  BY <1>1 DEF SpentInv, SoleInv, Left
<1>6. CallInv /\ CfgInv
  BY <1>1, ThreadAssumption DEF CallInv, CfgInv
<1> QED
  BY <1>3, <1>4, <1>5, <1>6 DEF DeviceSafe

\* The inductive invariant of the device's life: who holds startMu, that before the
\* service serves at most one attempt succeeds, that devices are built and closed one
\* at a time, and how far Manager.Stop has come.
THEOREM DeviceInvariant == ASSUME SameStack PROVE Spec => []DeviceSafe
<1>1. Init => DeviceSafe
  BY DeviceInitially
<1>2. PauseSafe /\ DeviceSafe /\ [Next]_vars => DeviceSafe'
  <2> SUFFICES ASSUME PauseSafe, DeviceSafe, [Next]_vars PROVE DeviceSafe'
    OBVIOUS
  <2>1. ControlTypes /\ ControlInv /\ DeviceInv
    BY TypesGiveControl DEF PauseSafe, TypeInv
  <2>2. OwnerInv /\ BootInv /\ SpentInv /\ SoleInv /\ CloseInv
    BY DEF DeviceSafe
  <2> QED
    BY <2>1, <2>2, OwnerStep, BootStep, SpentStep, SoleStep, CloseStep DEF DeviceSafe
<1> QED
  BY <1>1, <1>2, PauseInvariant, PTL DEF Spec

\* However attempts, pauses, stops and the failing Start interleave, at most one
\* AmneziaWG device is open and at most one supervisor runs (Tunnel.Start, Stop).
THEOREM OneDeviceAtATime == ASSUME SameStack PROVE Spec => []OneDevice
<1>1. PauseSafe /\ DeviceSafe => OneDevice
  <2> SUFFICES ASSUME PauseSafe, DeviceSafe PROVE OneDevice
    OBVIOUS
  <2>0. ControlTypes /\ ControlInv /\ DeviceInv
    BY TypesGiveControl DEF PauseSafe, TypeInv
  <2>1. \A d, e \in open : d = e
    BY <2>0 DEF DeviceInv, DeviceSafe, SoleInv
  <2>2. \A d, e \in sup : d = e
    <3>1. CASE Failing
      BY <3>1, <2>0 DEF DeviceSafe, SpentInv, Left, Booting, Failing, ControlTypes
    <3>2. CASE ~Failing
      BY <3>2, <2>0 DEF DeviceSafe, SoleInv
    <3> QED
      BY <3>1, <3>2
  <2>3. ASSUME NEW S, \A d, e \in S : d = e PROVE Cardinality(S) <= 1
    <3>1. CASE S = {}
      BY <3>1, FS_EmptySet
    <3>2. CASE S # {}
      <4>1. PICK d \in S : TRUE
        BY <3>2
      <4>2. S = {d}
        BY <4>1, <2>3
      <4>3. Cardinality({d}) = 1
        BY FS_Singleton
      <4> QED
        BY <4>2, <4>3
    <3> QED
      BY <3>1, <3>2
  <2> QED
    BY <2>1, <2>2, <2>3 DEF OneDevice
<1> QED
  BY <1>1, PauseInvariant, DeviceInvariant, PTL

\* Every open device is the recorded one or in the hands of the thread that builds or
\* closes it, so no path of Tunnel.Start or Tunnel.Stop forgets one.
THEOREM NoDeviceIsLost == ASSUME SameStack PROVE Spec => []NoLeakedDevice
<1>1. PauseSafe => NoLeakedDevice
  BY DEF PauseSafe, DeviceInv, NoLeakedDevice
<1> QED
  BY <1>1, PauseInvariant, PTL

\* Once Manager.Stop has returned no device, supervisor, retry, watcher or request is
\* left, and no lock is held.
THEOREM StopLeavesNothing == ASSUME SameStack PROVE Spec => []StoppedMeansClean
<1>1. PauseSafe /\ DeviceSafe => StoppedMeansClean
  <2> SUFFICES ASSUME PauseSafe, DeviceSafe, pc[Main] = "stopped" PROVE StoppedMeansClean
    BY DEF StoppedMeansClean
  <2>0. ControlTypes /\ ControlInv /\ startMu \in Threads \cup {None}
        /\ conflictMu \in Threads \cup {None}
    BY TypesGiveControl DEF PauseSafe, TypeInv, TypeOK
  <2>1. open = {} /\ sup = {} /\ ~running
    BY DEF DeviceSafe, CloseInv
  <2>2. \A t \in Threads \ {Main} : pc[t] \in {"idle", "exited"}
    BY <2>0, ThreadAssumption DEF DeviceSafe, CloseInv, ControlInv, PhaseInv
  <2>3. \A t \in Threads : at[t] = "idle" /\ cc[t] = "idle" /\ rs[t] = "idle"
    BY <2>0, <2>2 DEF ControlInv, StageInv, ControlTypes
  <2>4. \A t \in Threads : op[t] = "idle"
    BY <2>0, <2>2, <2>3 DEF ControlInv, OpInv, ControlTypes
  <2>5. startMu = None /\ conflictMu = None
    BY <2>0, <2>2, <2>3 DEF DeviceSafe, OwnerInv, HoldsStartMu
  <2> QED
    BY <2>1, <2>2, <2>3, <2>4, <2>5 DEF StoppedMeansClean
<1> QED
  BY <1>1, PauseInvariant, DeviceInvariant, PTL

\* While reloads follow one another, rebuilds and rollbacks included, the
\* configuration Manager.Status reports is the one the tunnel has.
THEOREM ReportsItsConfig == ASSUME OneReload PROVE Spec => []ReportedConfig
<1>1. Init => CallInv /\ CfgInv
  BY DeviceInitially
<1>2. TypeOK /\ CallInv /\ CfgInv /\ [Next]_vars => CallInv' /\ CfgInv'
  BY TypesGiveControl, CallStepInv, CfgStep
<1>3. CfgInv => ReportedConfig
  BY DEF CfgInv, ReportedConfig
<1> QED
  BY <1>1, <1>2, <1>3, ManagerTypes, PTL DEF Spec

\* As long as the adapters can be read, the watcher's debounced check ends with the
\* tunnel paused exactly when the loaded configuration is connected elsewhere, with
\* any number of reloads, starts and stops around it (onSettled, checkConflict).
THEOREM SettledChecksAgree == ASSUME ReadFailures = 0 PROVE Spec => SettledAgrees
<1>1. Init => CallInv /\ SettleInv
  <2>1. ASSUME Init PROVE SettleInv
    BY <2>1, ThreadAssumption DEF Init, SettleInv
  <2> QED
    BY <2>1, DeviceInitially
<1>2. TypeOK => ControlTypes /\ CheckTypes
  BY TypesGiveControl DEF TypeOK, CheckTypes
<1>3. TypeOK /\ CallInv /\ SettleInv /\ [Next]_vars => CallInv' /\ SettleInv'
  BY <1>2, CallStepInv, SettleStep
<1>4. TypeOK /\ CallInv /\ SettleInv /\ [Next]_vars =>
        [(/\ pc[Watch] = "settled" /\ pc'[Watch] = "loop" /\ registered /\ ~event
          /\ \A t \in Threads : pc[t] # "reloaded")
           => ((pausedBy # None) <=> configConflict(tunCfg, host))]_vars
  <2> SUFFICES ASSUME TypeOK, CallInv, SettleInv, [Next]_vars,
                      pc[Watch] = "settled", pc'[Watch] = "loop", registered, ~event,
                      \A t \in Threads : pc[t] # "reloaded"
               PROVE  Agrees
    BY DEF Agrees
  <2>1. WatchSettled
    BY <1>2, SettledStep
  <2>2. \A t \in Threads : pc[t] = "settled" => t = Watch
    BY <1>2, ThreadAssumption DEF ControlTypes
  <2> QED
    BY <2>1, <2>2 DEF SettleInv, Unread, WatchSettled
<1> QED
  BY <1>1, <1>3, <1>4, ManagerTypes, PTL DEF Spec, SettledAgrees

=============================================================================
