---------------------------- MODULE ReadyProofs ----------------------------
(***************************************************************************)
(* Theorems about module TunnelReady, for any number of waiting calls,     *)
(* devices, reloads and attempts: no call waits on a channel nobody will   *)
(* close, readiness comes from a handshake of the device in force, and a   *)
(* tunnel that is down is not taken for one that is ready.                 *)
(***************************************************************************)
EXTENDS TunnelReady, TLAPS

\* What Start and Stop have done so far.
CallerInv ==
    /\ running => dev \in Devices /\ lpc \in {"idle", "launch"}
    /\ lpc = "build" => \E d \in Devices : spc[d] = "new"
    /\ lpc = "launch" => running /\ ldev = dev /\ spc[dev] = "new"
    /\ lpc = "drain" => ldev \in Devices

\* A supervisor runs beside its own device, or Stop waits for it; what it has read
\* are the statistics of that device.
SuperInv ==
    \A d \in Devices : spc[d] \notin {"new", "off"} =>
        /\ (running /\ dev = d) \/ (lpc = "drain" /\ ldev = d)
        /\ spc[d] \in {"healthy", "mark", "stale"} => saw[d] = d

\* A tunnel that is down left nobody waiting on an open channel.
DownInv ==
    /\ \A x \in Dialers : dpc[x] = "select" <=> chan[x] # None
    /\ ~running => ready \in shut \/ \A x \in Dialers : chan[x] # ready

\* The reported state outlives the tunnel until Stop has ended, and no longer.
StateInv == state = "connected" /\ ~running => lpc = "drain"

\* The attempts of a lookup: notFound stands for an answer that was counted.
AttemptInv ==
    \A x \in Dialers :
        /\ dpc[x] \in {"idle", "loop", "select", "use"} =>
             att[x] = 0 /\ answers[x] = 0 /\ ~nf[x]
        /\ dpc[x] = "query" => att[x] < Attempts
        /\ answers[x] <= att[x]
        /\ nf[x] => answers[x] >= 1

ReadyInv ==
    /\ TypeOK
    /\ CallerInv /\ SuperInv /\ DownInv /\ StateInv /\ AttemptInv
    /\ NoOrphanWaiter /\ ReadyMeansHandshake /\ NotFoundConfirmed

USE DEF tunnelVars, superVars, callerVars, dialVars

-----------------------------------------------------------------------------
\* make(chan struct{}) is neither the current channel nor one that is waited on.
LEMMA FreshIsFresh ==
    ASSUME TypeOK
    PROVE  FreshChan \in Chans /\ FreshChan # ready /\ \A x \in Dialers : chan[x] # FreshChan
<1>1. \E c \in Chans : c # ready /\ \A x \in Dialers : chan[x] # c
  BY ReadyAssumption DEF TypeOK
<1> QED  BY <1>1 DEF FreshChan

\* A channel that is made is open and new, and what is waited on is as it was.
LEMMA MakeReadyEffect ==
    ASSUME TypeOK, MakeReady
    PROVE  /\ ready' \in Chans /\ ready' # ready /\ ready' \notin shut'
           /\ \A x \in Dialers : chan[x] # ready'
           /\ shut' \subseteq shut
           /\ \A x \in Dialers : chan[x] \in shut => chan[x] \in shut'
           /\ proved' \in [Chans -> Devices \cup {None}]
<1>1. ready' = FreshChan /\ FreshChan \in Chans  BY FreshIsFresh DEF MakeReady
<1>2. None \notin Chans  BY ReadyAssumption
<1> QED  BY <1>1, <1>2, FreshIsFresh DEF MakeReady, TypeOK

\* markNotReady does that to a closed channel of a running tunnel, or nothing.
LEMMA MarkNotReadyEffect ==
    ASSUME TypeOK, MarkNotReady
    PROVE  \/ UNCHANGED <<ready, shut, proved>>
           \/ running /\ ready \in shut /\ MakeReady
  BY DEF MarkNotReady

\* Start finds a device to build.
LEMMA NextDevice ==
    ASSUME CallerInv, lpc = "build"
    PROVE  /\ (CHOOSE d \in Devices : spc[d] = "new") \in Devices
           /\ spc[CHOOSE d \in Devices : spc[d] = "new"] = "new"
  BY DEF CallerInv

\* A call that returns leaves its variables as they were before it.
LEMMA ReturnedTypes ==
    ASSUME TypeOK, NEW x \in Dialers, Returned(x),
           UNCHANGED <<tunnelVars, superVars, callerVars>>
    PROVE  TypeOK'
<1>1. nf' \in [Dialers -> BOOLEAN]  BY Zenon DEF TypeOK, Returned
<1>2. 0 \in 0 .. Attempts  BY ReadyAssumption
<1>3. /\ dpc' \in [Dialers -> {"idle", "loop", "select", "use", "query", "notfound", "failed"}]
      /\ net' \in [Dialers -> Devices \cup {None}]
      /\ chan' \in [Dialers -> Chans \cup {None}]
      /\ ctxDone' \subseteq Dialers
      /\ last' \in [Dialers -> {"nil", "timeout", "notfound"}]
  BY DEF TypeOK, Returned, DGoto
<1>4. att' \in [Dialers -> 0 .. Attempts] /\ answers' \in [Dialers -> 0 .. Attempts]
  BY <1>2 DEF TypeOK, Returned
<1> QED  BY <1>1, <1>3, <1>4 DEF TypeOK

\* ... and nobody else's are touched.
LEMMA ReturnedEffect ==
    ASSUME TypeOK, NEW x \in Dialers, Returned(x)
    PROVE  /\ dpc'[x] = "idle" /\ chan'[x] = None
           /\ \A y \in Dialers : y # x => dpc'[y] = dpc[y] /\ chan'[y] = chan[y]
  BY DEF TypeOK, Returned, DGoto

\* An attempt of a lookup that ended with err.
Round(x, err) ==
    /\ x \notin ctxDone /\ dpc[x] = "query"
    /\ att' = [att EXCEPT ![x] = att[x] + 1]
    /\ nf' = [nf EXCEPT ![x] = nf[x] \/ err = "notfound"]
    /\ last' = [last EXCEPT ![x] = err]
    /\ answers' = [answers EXCEPT ![x] = IF err = "notfound" THEN answers[x] + 1 ELSE answers[x]]
    /\ dpc' = [dpc EXCEPT ![x] =
                 IF (err = "timeout" \/ (err = "notfound" /\ ~nf[x])) /\ att[x] + 1 < Attempts
                 THEN "query"
                 ELSE IF err = "notfound" THEN "notfound" ELSE "failed"]
    /\ UNCHANGED <<net, chan, ctxDone>>

\* The loop of lookupUncached ends, reports what the last attempt said, or takes
\* another attempt.
LEMMA QueryRound ==
    ASSUME NEW x \in Dialers, Query(x)
    PROVE  \/ Returned(x)
           \/ /\ x \in ctxDone /\ DGoto(x, "notfound")
              /\ UNCHANGED <<net, chan, ctxDone, att, nf, last, answers>>
           \/ \E err \in {"timeout", "notfound"} : Round(x, err)
  BY DEF Query, Round, RetryDecision, Another, DGoto

\* Every step keeps the types.
LEMMA TypeStep ==
    ASSUME ReadyInv, [Next]_vars
    PROVE  TypeOK'
<1> USE DEF ReadyInv, TypeOK
<1>1. CASE StartBegin  BY <1>1 DEF StartBegin
<1>2. CASE StartFails  BY <1>2 DEF StartFails
<1>3. CASE StartRecord
  BY <1>3, MakeReadyEffect, NextDevice DEF StartRecord
<1>4. CASE StartLaunch  BY <1>4 DEF StartLaunch, CallerInv
<1>5. CASE StopBegin  BY <1>5 DEF StopBegin, CallerInv
<1>6. CASE StopDrain  BY <1>6 DEF StopDrain
<1>7. CASE ReloadBegin
  BY <1>7, ReadyAssumption DEF ReloadBegin
<1>8. CASE ReloadApply  BY <1>8 DEF ReloadApply
<1>9. CASE ReloadMark
  BY <1>9, MakeReadyEffect, MarkNotReadyEffect DEF ReloadMark, SGoto
<1>10. CASE ReloadState  BY <1>10 DEF ReloadState
<1>11. CASE Reconnect
  BY <1>11, ReadyAssumption DEF Reconnect
<1>12. ASSUME NEW d \in Devices, SuperviseEnd(d) PROVE TypeOK'
  BY <1>12 DEF SuperviseEnd, SGoto
<1>13. ASSUME NEW d \in Devices, SuperviseKick(d) PROVE TypeOK'
  <2>1. ready' \in Chans /\ shut' \subseteq Chans /\ proved' \in [Chans -> Devices \cup {None}]
    BY <1>13, MakeReadyEffect, MarkNotReadyEffect DEF SuperviseKick
  <2>2. /\ kick' \in BOOLEAN
        /\ was' = [was EXCEPT ![d] = FALSE]
        /\ spc' = [spc EXCEPT ![d] = IF running THEN "reconnect" ELSE "select"]
        /\ UNCHANGED <<running, dev, state, alive, hs, saw, ended, callerVars, dialVars>>
    BY <1>13 DEF SuperviseKick, SGoto
  <2> QED  BY <2>1, <2>2
<1>14. ASSUME NEW d \in Devices, SuperviseReconnect(d) PROVE TypeOK'
  BY <1>14 DEF SuperviseReconnect, SGoto
<1>15. ASSUME NEW d \in Devices, SuperviseTick(d) PROVE TypeOK'
  BY <1>15 DEF SuperviseTick, SGoto, CallerInv
<1>16. ASSUME NEW d \in Devices, SuperviseHealthy(d) PROVE TypeOK'
  BY <1>16 DEF SuperviseHealthy, SGoto
<1>17. ASSUME NEW d \in Devices, SuperviseMark(d) PROVE TypeOK'
  BY <1>17 DEF SuperviseMark, SGoto, MarkReady
<1>18. ASSUME NEW d \in Devices, SuperviseStale(d) PROVE TypeOK'
  BY <1>18, MakeReadyEffect, MarkNotReadyEffect DEF SuperviseStale, SGoto
<1>19. ASSUME NEW d \in Devices, SuperviseLapsed(d) PROVE TypeOK'
  BY <1>19 DEF SuperviseLapsed, SGoto
<1>20. ASSUME NEW d \in Devices, HandshakeDone(d) PROVE TypeOK'
  BY <1>20 DEF HandshakeDone
<1>21. ASSUME NEW d \in Devices, HandshakeStale(d) PROVE TypeOK'
  BY <1>21 DEF HandshakeStale
<1>22. ASSUME NEW x \in Dialers, DialBegin(x) PROVE TypeOK'
  BY <1>22 DEF DialBegin, DGoto
<1>23. ASSUME NEW x \in Dialers, WaitLoop(x) PROVE TypeOK'
  <2>1. CASE ~running /\ Returned(x)  BY <1>23, <2>1, ReturnedTypes DEF WaitLoop
  <2>2. CASE ~(~running /\ Returned(x))
    BY <1>23, <2>2 DEF WaitLoop, DGoto
  <2> QED  BY <2>1, <2>2
<1>24. ASSUME NEW x \in Dialers, WaitClosed(x) PROVE TypeOK'
  <2>1. CASE ~running /\ Returned(x)  BY <1>24, <2>1, ReturnedTypes DEF WaitClosed
  <2>2. CASE ~(~running /\ Returned(x))
    BY <1>24, <2>2 DEF WaitClosed, DGoto
  <2> QED  BY <2>1, <2>2
<1>25. ASSUME NEW x \in Dialers, WaitCtx(x) PROVE TypeOK'
  <2>1. CASE state # "connected" /\ Returned(x)  BY <1>25, <2>1, ReturnedTypes DEF WaitCtx
  <2>2. CASE ~(state # "connected" /\ Returned(x))
    BY <1>25, <2>2 DEF WaitCtx, DGoto
  <2> QED  BY <2>1, <2>2
<1>26. ASSUME NEW x \in Dialers, CtxEnds(x) PROVE TypeOK'  BY <1>26 DEF CtxEnds
<1>27. ASSUME NEW x \in Dialers, Use(x) PROVE TypeOK'
  <2>1. CASE Returned(x)  BY <1>27, <2>1, ReturnedTypes DEF Use
  <2>2. CASE ~Returned(x)  BY <1>27, <2>2 DEF Use, DGoto
  <2> QED  BY <2>1, <2>2
<1>28. ASSUME NEW x \in Dialers, Query(x) PROVE TypeOK'
  <2>1. CASE Returned(x)  BY <1>28, <2>1, ReturnedTypes DEF Query
  <2>2. CASE /\ x \in ctxDone /\ DGoto(x, "notfound")
             /\ UNCHANGED <<net, chan, ctxDone, att, nf, last, answers>>
    BY <1>28, <2>2 DEF Query, DGoto
  <2>3. ASSUME NEW err \in {"timeout", "notfound"}, Round(x, err) PROVE TypeOK'
    <3>1. nf' \in [Dialers -> BOOLEAN]  BY <2>3, Zenon DEF Round
    <3>2. att[x] + 1 \in 0 .. Attempts /\ answers[x] + 1 \in 0 .. Attempts
      BY <1>28, ReadyAssumption DEF Query, AttemptInv
    <3> QED  BY <1>28, <2>3, <3>1, <3>2 DEF Query, Round
  <2> QED  BY <1>28, <2>1, <2>2, <2>3, QueryRound
<1>29. ASSUME NEW x \in Dialers, LookupFails(x) PROVE TypeOK'
  BY <1>29, ReturnedTypes DEF LookupFails
<1>30. CASE UNCHANGED vars
  BY <1>30 DEF vars
<1> QED
  BY <1>1, <1>2, <1>3, <1>4, <1>5, <1>6, <1>7, <1>8, <1>9, <1>10, <1>11, <1>12, <1>13,
     <1>14, <1>15, <1>16, <1>17, <1>18, <1>19, <1>20, <1>21, <1>22, <1>23, <1>24, <1>25,
     <1>26, <1>27, <1>28, <1>29, <1>30 DEF Next, CallerStep, SupervisorStep

\* Start and Stop go from one stage to the next.
LEMMA CallerStepInv ==
    ASSUME ReadyInv, [Next]_vars
    PROVE  CallerInv'
<1> USE DEF ReadyInv, TypeOK, CallerInv
<1>1. CASE StartBegin  BY <1>1 DEF StartBegin
<1>2. CASE StartFails  BY <1>2 DEF StartFails
<1>3. CASE StartRecord
  BY <1>3, MakeReadyEffect, NextDevice DEF StartRecord
<1>4. CASE StartLaunch  BY <1>4 DEF StartLaunch
<1>5. CASE StopBegin  BY <1>5 DEF StopBegin
<1>6. CASE StopDrain  BY <1>6 DEF StopDrain
<1>7. CASE ReloadBegin  BY <1>7 DEF ReloadBegin
<1>8. CASE ReloadApply  BY <1>8 DEF ReloadApply
<1>9. CASE ReloadMark
  BY <1>9, MakeReadyEffect, MarkNotReadyEffect DEF ReloadMark, SGoto
<1>10. CASE ReloadState  BY <1>10 DEF ReloadState
<1>11. CASE Reconnect  BY <1>11 DEF Reconnect
<1>12. ASSUME NEW d \in Devices, SuperviseEnd(d) PROVE CallerInv'
  BY <1>12 DEF SuperviseEnd, SGoto, SuperInv
<1>13. ASSUME NEW d \in Devices, SuperviseKick(d) PROVE CallerInv'
  BY <1>13, MakeReadyEffect, MarkNotReadyEffect DEF SuperviseKick, SGoto
<1>14. ASSUME NEW d \in Devices, SuperviseReconnect(d) PROVE CallerInv'
  BY <1>14 DEF SuperviseReconnect, SGoto, SuperInv
<1>15. ASSUME NEW d \in Devices, SuperviseTick(d) PROVE CallerInv'
  BY <1>15 DEF SuperviseTick, SGoto, SuperInv
<1>16. ASSUME NEW d \in Devices, SuperviseHealthy(d) PROVE CallerInv'
  BY <1>16 DEF SuperviseHealthy, SGoto, SuperInv
<1>17. ASSUME NEW d \in Devices, SuperviseMark(d) PROVE CallerInv'
  BY <1>17 DEF SuperviseMark, SGoto, MarkReady, SuperInv
<1>18. ASSUME NEW d \in Devices, SuperviseStale(d) PROVE CallerInv'
  BY <1>18, MakeReadyEffect, MarkNotReadyEffect DEF SuperviseStale, SGoto
<1>19. ASSUME NEW d \in Devices, SuperviseLapsed(d) PROVE CallerInv'
  BY <1>19 DEF SuperviseLapsed, SGoto, SuperInv
<1>20. ASSUME NEW d \in Devices, HandshakeDone(d) PROVE CallerInv'
  BY <1>20 DEF HandshakeDone
<1>21. ASSUME NEW d \in Devices, HandshakeStale(d) PROVE CallerInv'
  BY <1>21 DEF HandshakeStale
<1>22. ASSUME NEW x \in Dialers, DialBegin(x) PROVE CallerInv'
  BY <1>22 DEF DialBegin, DGoto
<1>23. ASSUME NEW x \in Dialers, WaitLoop(x) PROVE CallerInv'
  BY <1>23 DEF WaitLoop, DGoto, Returned
<1>24. ASSUME NEW x \in Dialers, WaitClosed(x) PROVE CallerInv'
  BY <1>24 DEF WaitClosed, DGoto, Returned
<1>25. ASSUME NEW x \in Dialers, WaitCtx(x) PROVE CallerInv'
  BY <1>25 DEF WaitCtx, DGoto, Returned
<1>26. ASSUME NEW x \in Dialers, CtxEnds(x) PROVE CallerInv'  BY <1>26 DEF CtxEnds
<1>27. ASSUME NEW x \in Dialers, Use(x) PROVE CallerInv'
  BY <1>27 DEF Use, DGoto, Returned
<1>28. ASSUME NEW x \in Dialers, Query(x) PROVE CallerInv'
  BY <1>28 DEF Query, DGoto, Returned
<1>29. ASSUME NEW x \in Dialers, LookupFails(x) PROVE CallerInv'
  BY <1>29 DEF LookupFails, DGoto, Returned
<1>30. CASE UNCHANGED vars
  BY <1>30 DEF vars
<1> QED
  BY <1>1, <1>2, <1>3, <1>4, <1>5, <1>6, <1>7, <1>8, <1>9, <1>10, <1>11, <1>12, <1>13,
     <1>14, <1>15, <1>16, <1>17, <1>18, <1>19, <1>20, <1>21, <1>22, <1>23, <1>24, <1>25,
     <1>26, <1>27, <1>28, <1>29, <1>30 DEF Next, CallerStep, SupervisorStep

\* A supervisor has ended before the next device is recorded.
LEMMA SuperStep ==
    ASSUME ReadyInv, [Next]_vars
    PROVE  SuperInv'
<1> USE DEF ReadyInv, TypeOK, CallerInv, SuperInv
<1>1. CASE StartBegin  BY <1>1 DEF StartBegin
<1>2. CASE StartFails  BY <1>2 DEF StartFails
<1>3. CASE StartRecord
  BY <1>3, MakeReadyEffect, NextDevice DEF StartRecord
<1>4. CASE StartLaunch  BY <1>4 DEF StartLaunch
<1>5. CASE StopBegin  BY <1>5 DEF StopBegin
<1>6. CASE StopDrain  BY <1>6 DEF StopDrain
<1>7. CASE ReloadBegin  BY <1>7 DEF ReloadBegin
<1>8. CASE ReloadApply  BY <1>8 DEF ReloadApply
<1>9. CASE ReloadMark
  BY <1>9, MakeReadyEffect, MarkNotReadyEffect DEF ReloadMark, SGoto
<1>10. CASE ReloadState  BY <1>10 DEF ReloadState
<1>11. CASE Reconnect  BY <1>11 DEF Reconnect
<1>12. ASSUME NEW d \in Devices, SuperviseEnd(d) PROVE SuperInv'
  BY <1>12 DEF SuperviseEnd, SGoto
<1>13. ASSUME NEW d \in Devices, SuperviseKick(d) PROVE SuperInv'
  BY <1>13, MakeReadyEffect, MarkNotReadyEffect DEF SuperviseKick, SGoto
<1>14. ASSUME NEW d \in Devices, SuperviseReconnect(d) PROVE SuperInv'
  BY <1>14 DEF SuperviseReconnect, SGoto
<1>15. ASSUME NEW d \in Devices, SuperviseTick(d) PROVE SuperInv'
  BY <1>15 DEF SuperviseTick, SGoto
<1>16. ASSUME NEW d \in Devices, SuperviseHealthy(d) PROVE SuperInv'
  BY <1>16 DEF SuperviseHealthy, SGoto
<1>17. ASSUME NEW d \in Devices, SuperviseMark(d) PROVE SuperInv'
  BY <1>17 DEF SuperviseMark, SGoto, MarkReady
<1>18. ASSUME NEW d \in Devices, SuperviseStale(d) PROVE SuperInv'
  BY <1>18, MakeReadyEffect, MarkNotReadyEffect DEF SuperviseStale, SGoto
<1>19. ASSUME NEW d \in Devices, SuperviseLapsed(d) PROVE SuperInv'
  BY <1>19 DEF SuperviseLapsed, SGoto
<1>20. ASSUME NEW d \in Devices, HandshakeDone(d) PROVE SuperInv'
  BY <1>20 DEF HandshakeDone
<1>21. ASSUME NEW d \in Devices, HandshakeStale(d) PROVE SuperInv'
  BY <1>21 DEF HandshakeStale
<1>22. ASSUME NEW x \in Dialers, DialBegin(x) PROVE SuperInv'
  BY <1>22 DEF DialBegin, DGoto
<1>23. ASSUME NEW x \in Dialers, WaitLoop(x) PROVE SuperInv'
  BY <1>23 DEF WaitLoop, DGoto, Returned
<1>24. ASSUME NEW x \in Dialers, WaitClosed(x) PROVE SuperInv'
  BY <1>24 DEF WaitClosed, DGoto, Returned
<1>25. ASSUME NEW x \in Dialers, WaitCtx(x) PROVE SuperInv'
  BY <1>25 DEF WaitCtx, DGoto, Returned
<1>26. ASSUME NEW x \in Dialers, CtxEnds(x) PROVE SuperInv'  BY <1>26 DEF CtxEnds
<1>27. ASSUME NEW x \in Dialers, Use(x) PROVE SuperInv'
  BY <1>27 DEF Use, DGoto, Returned
<1>28. ASSUME NEW x \in Dialers, Query(x) PROVE SuperInv'
  BY <1>28 DEF Query, DGoto, Returned
<1>29. ASSUME NEW x \in Dialers, LookupFails(x) PROVE SuperInv'
  BY <1>29 DEF LookupFails, DGoto, Returned
<1>30. CASE UNCHANGED vars
  BY <1>30 DEF vars
<1> QED
  BY <1>1, <1>2, <1>3, <1>4, <1>5, <1>6, <1>7, <1>8, <1>9, <1>10, <1>11, <1>12, <1>13,
     <1>14, <1>15, <1>16, <1>17, <1>18, <1>19, <1>20, <1>21, <1>22, <1>23, <1>24, <1>25,
     <1>26, <1>27, <1>28, <1>29, <1>30 DEF Next, CallerStep, SupervisorStep

\* Stop closes the channel it leaves behind, and nobody waits on it afterwards.
LEMMA DownStep ==
    ASSUME ReadyInv, [Next]_vars
    PROVE  DownInv'
<1> USE DEF ReadyInv, TypeOK, CallerInv, DownInv
<1>1. CASE StartBegin  BY <1>1, ReadyAssumption DEF StartBegin
<1>2. CASE StartFails  BY <1>2, ReadyAssumption DEF StartFails
<1>3. CASE StartRecord
  BY <1>3, MakeReadyEffect, NextDevice DEF StartRecord
<1>4. CASE StartLaunch  BY <1>4, ReadyAssumption DEF StartLaunch
<1>5. CASE StopBegin  BY <1>5, ReadyAssumption DEF StopBegin
<1>6. CASE StopDrain  BY <1>6, ReadyAssumption DEF StopDrain
<1>7. CASE ReloadBegin  BY <1>7, ReadyAssumption DEF ReloadBegin
<1>8. CASE ReloadApply  BY <1>8, ReadyAssumption DEF ReloadApply
<1>9. CASE ReloadMark
  BY <1>9, MakeReadyEffect, MarkNotReadyEffect DEF ReloadMark, SGoto
<1>10. CASE ReloadState  BY <1>10, ReadyAssumption DEF ReloadState
<1>11. CASE Reconnect  BY <1>11, ReadyAssumption DEF Reconnect
<1>12. ASSUME NEW d \in Devices, SuperviseEnd(d) PROVE DownInv'
  BY <1>12, ReadyAssumption DEF SuperviseEnd, SGoto
<1>13. ASSUME NEW d \in Devices, SuperviseKick(d) PROVE DownInv'
  BY <1>13, MakeReadyEffect, MarkNotReadyEffect DEF SuperviseKick, SGoto
<1>14. ASSUME NEW d \in Devices, SuperviseReconnect(d) PROVE DownInv'
  BY <1>14, ReadyAssumption DEF SuperviseReconnect, SGoto
<1>15. ASSUME NEW d \in Devices, SuperviseTick(d) PROVE DownInv'
  BY <1>15, ReadyAssumption DEF SuperviseTick, SGoto
<1>16. ASSUME NEW d \in Devices, SuperviseHealthy(d) PROVE DownInv'
  BY <1>16, ReadyAssumption DEF SuperviseHealthy, SGoto
<1>17. ASSUME NEW d \in Devices, SuperviseMark(d) PROVE DownInv'
  BY <1>17, ReadyAssumption DEF SuperviseMark, SGoto, MarkReady
<1>18. ASSUME NEW d \in Devices, SuperviseStale(d) PROVE DownInv'
  BY <1>18, MakeReadyEffect, MarkNotReadyEffect DEF SuperviseStale, SGoto
<1>19. ASSUME NEW d \in Devices, SuperviseLapsed(d) PROVE DownInv'
  BY <1>19, ReadyAssumption DEF SuperviseLapsed, SGoto
<1>20. ASSUME NEW d \in Devices, HandshakeDone(d) PROVE DownInv'
  BY <1>20, ReadyAssumption DEF HandshakeDone
<1>21. ASSUME NEW d \in Devices, HandshakeStale(d) PROVE DownInv'
  BY <1>21, ReadyAssumption DEF HandshakeStale
<1>22. ASSUME NEW x \in Dialers, DialBegin(x) PROVE DownInv'
  BY <1>22, ReadyAssumption DEF DialBegin, DGoto
<1>23. ASSUME NEW x \in Dialers, WaitLoop(x) PROVE DownInv'
  BY <1>23, ReadyAssumption DEF WaitLoop, DGoto, Returned
<1>24. ASSUME NEW x \in Dialers, WaitClosed(x) PROVE DownInv'
  <2>1. CASE ~running /\ Returned(x)
    BY <1>24, <2>1, ReturnedEffect, ReadyAssumption DEF WaitClosed
  <2>2. CASE ~(~running /\ Returned(x))
    BY <1>24, <2>2, ReadyAssumption DEF WaitClosed, DGoto
  <2> QED  BY <2>1, <2>2
<1>25. ASSUME NEW x \in Dialers, WaitCtx(x) PROVE DownInv'
  <2>1. CASE state # "connected" /\ Returned(x)
    BY <1>25, <2>1, ReturnedEffect, ReadyAssumption DEF WaitCtx
  <2>2. CASE ~(state # "connected" /\ Returned(x))
    BY <1>25, <2>2, ReadyAssumption DEF WaitCtx, DGoto
  <2> QED  BY <2>1, <2>2
<1>26. ASSUME NEW x \in Dialers, CtxEnds(x) PROVE DownInv'
  BY <1>26, ReadyAssumption DEF CtxEnds
<1>27. ASSUME NEW x \in Dialers, Use(x) PROVE DownInv'
  BY <1>27, ReadyAssumption DEF Use, DGoto, Returned
<1>28. ASSUME NEW x \in Dialers, Query(x) PROVE DownInv'
  BY <1>28, ReadyAssumption DEF Query, DGoto, Returned
<1>29. ASSUME NEW x \in Dialers, LookupFails(x) PROVE DownInv'
  BY <1>29, ReadyAssumption DEF LookupFails, DGoto, Returned
<1>30. CASE UNCHANGED vars
  BY <1>30, ReadyAssumption DEF vars
<1> QED
  BY <1>1, <1>2, <1>3, <1>4, <1>5, <1>6, <1>7, <1>8, <1>9, <1>10, <1>11, <1>12, <1>13,
     <1>14, <1>15, <1>16, <1>17, <1>18, <1>19, <1>20, <1>21, <1>22, <1>23, <1>24, <1>25,
     <1>26, <1>27, <1>28, <1>29, <1>30 DEF Next, CallerStep, SupervisorStep

\* Only a supervisor reports a connection, and Stop waits for it.
LEMMA StateStep ==
    ASSUME ReadyInv, [Next]_vars
    PROVE  StateInv'
<1> USE DEF ReadyInv, TypeOK, CallerInv, SuperInv, StateInv
<1>1. CASE StartBegin  BY <1>1 DEF StartBegin
<1>2. CASE StartFails  BY <1>2 DEF StartFails
<1>3. CASE StartRecord
  BY <1>3, MakeReadyEffect, NextDevice DEF StartRecord
<1>4. CASE StartLaunch  BY <1>4 DEF StartLaunch
<1>5. CASE StopBegin  BY <1>5 DEF StopBegin
<1>6. CASE StopDrain  BY <1>6 DEF StopDrain
<1>7. CASE ReloadBegin  BY <1>7 DEF ReloadBegin
<1>8. CASE ReloadApply  BY <1>8 DEF ReloadApply
<1>9. CASE ReloadMark
  BY <1>9, MakeReadyEffect, MarkNotReadyEffect DEF ReloadMark, SGoto
<1>10. CASE ReloadState  BY <1>10 DEF ReloadState
<1>11. CASE Reconnect  BY <1>11 DEF Reconnect
<1>12. ASSUME NEW d \in Devices, SuperviseEnd(d) PROVE StateInv'
  BY <1>12 DEF SuperviseEnd, SGoto
<1>13. ASSUME NEW d \in Devices, SuperviseKick(d) PROVE StateInv'
  BY <1>13, MakeReadyEffect, MarkNotReadyEffect DEF SuperviseKick, SGoto
<1>14. ASSUME NEW d \in Devices, SuperviseReconnect(d) PROVE StateInv'
  BY <1>14 DEF SuperviseReconnect, SGoto
<1>15. ASSUME NEW d \in Devices, SuperviseTick(d) PROVE StateInv'
  BY <1>15 DEF SuperviseTick, SGoto
<1>16. ASSUME NEW d \in Devices, SuperviseHealthy(d) PROVE StateInv'
  BY <1>16 DEF SuperviseHealthy, SGoto
<1>17. ASSUME NEW d \in Devices, SuperviseMark(d) PROVE StateInv'
  BY <1>17 DEF SuperviseMark, SGoto, MarkReady
<1>18. ASSUME NEW d \in Devices, SuperviseStale(d) PROVE StateInv'
  BY <1>18, MakeReadyEffect, MarkNotReadyEffect DEF SuperviseStale, SGoto
<1>19. ASSUME NEW d \in Devices, SuperviseLapsed(d) PROVE StateInv'
  BY <1>19 DEF SuperviseLapsed, SGoto
<1>20. ASSUME NEW d \in Devices, HandshakeDone(d) PROVE StateInv'
  BY <1>20 DEF HandshakeDone
<1>21. ASSUME NEW d \in Devices, HandshakeStale(d) PROVE StateInv'
  BY <1>21 DEF HandshakeStale
<1>22. ASSUME NEW x \in Dialers, DialBegin(x) PROVE StateInv'
  BY <1>22 DEF DialBegin, DGoto
<1>23. ASSUME NEW x \in Dialers, WaitLoop(x) PROVE StateInv'
  BY <1>23 DEF WaitLoop, DGoto, Returned
<1>24. ASSUME NEW x \in Dialers, WaitClosed(x) PROVE StateInv'
  BY <1>24 DEF WaitClosed, DGoto, Returned
<1>25. ASSUME NEW x \in Dialers, WaitCtx(x) PROVE StateInv'
  BY <1>25 DEF WaitCtx, DGoto, Returned
<1>26. ASSUME NEW x \in Dialers, CtxEnds(x) PROVE StateInv'  BY <1>26 DEF CtxEnds
<1>27. ASSUME NEW x \in Dialers, Use(x) PROVE StateInv'
  BY <1>27 DEF Use, DGoto, Returned
<1>28. ASSUME NEW x \in Dialers, Query(x) PROVE StateInv'
  BY <1>28 DEF Query, DGoto, Returned
<1>29. ASSUME NEW x \in Dialers, LookupFails(x) PROVE StateInv'
  BY <1>29 DEF LookupFails, DGoto, Returned
<1>30. CASE UNCHANGED vars
  BY <1>30 DEF vars
<1> QED
  BY <1>1, <1>2, <1>3, <1>4, <1>5, <1>6, <1>7, <1>8, <1>9, <1>10, <1>11, <1>12, <1>13,
     <1>14, <1>15, <1>16, <1>17, <1>18, <1>19, <1>20, <1>21, <1>22, <1>23, <1>24, <1>25,
     <1>26, <1>27, <1>28, <1>29, <1>30 DEF Next, CallerStep, SupervisorStep

\* The loop of lookupUncached counts its attempts and answers.
LEMMA AttemptStep ==
    ASSUME ReadyInv, [Next]_vars
    PROVE  AttemptInv'
<1> USE DEF ReadyInv, TypeOK, AttemptInv
<1>1. CASE StartBegin  BY <1>1, ReadyAssumption DEF StartBegin
<1>2. CASE StartFails  BY <1>2, ReadyAssumption DEF StartFails
<1>3. CASE StartRecord
  BY <1>3, MakeReadyEffect, NextDevice DEF StartRecord
<1>4. CASE StartLaunch  BY <1>4, ReadyAssumption DEF StartLaunch
<1>5. CASE StopBegin  BY <1>5, ReadyAssumption DEF StopBegin
<1>6. CASE StopDrain  BY <1>6, ReadyAssumption DEF StopDrain
<1>7. CASE ReloadBegin  BY <1>7, ReadyAssumption DEF ReloadBegin
<1>8. CASE ReloadApply  BY <1>8, ReadyAssumption DEF ReloadApply
<1>9. CASE ReloadMark
  BY <1>9, MakeReadyEffect, MarkNotReadyEffect DEF ReloadMark, SGoto
<1>10. CASE ReloadState  BY <1>10, ReadyAssumption DEF ReloadState
<1>11. CASE Reconnect  BY <1>11, ReadyAssumption DEF Reconnect
<1>12. ASSUME NEW d \in Devices, SuperviseEnd(d) PROVE AttemptInv'
  BY <1>12, ReadyAssumption DEF SuperviseEnd, SGoto
<1>13. ASSUME NEW d \in Devices, SuperviseKick(d) PROVE AttemptInv'
  BY <1>13, MakeReadyEffect, MarkNotReadyEffect DEF SuperviseKick, SGoto
<1>14. ASSUME NEW d \in Devices, SuperviseReconnect(d) PROVE AttemptInv'
  BY <1>14, ReadyAssumption DEF SuperviseReconnect, SGoto
<1>15. ASSUME NEW d \in Devices, SuperviseTick(d) PROVE AttemptInv'
  BY <1>15, ReadyAssumption DEF SuperviseTick, SGoto
<1>16. ASSUME NEW d \in Devices, SuperviseHealthy(d) PROVE AttemptInv'
  BY <1>16, ReadyAssumption DEF SuperviseHealthy, SGoto
<1>17. ASSUME NEW d \in Devices, SuperviseMark(d) PROVE AttemptInv'
  BY <1>17, ReadyAssumption DEF SuperviseMark, SGoto, MarkReady
<1>18. ASSUME NEW d \in Devices, SuperviseStale(d) PROVE AttemptInv'
  BY <1>18, MakeReadyEffect, MarkNotReadyEffect DEF SuperviseStale, SGoto
<1>19. ASSUME NEW d \in Devices, SuperviseLapsed(d) PROVE AttemptInv'
  BY <1>19, ReadyAssumption DEF SuperviseLapsed, SGoto
<1>20. ASSUME NEW d \in Devices, HandshakeDone(d) PROVE AttemptInv'
  BY <1>20, ReadyAssumption DEF HandshakeDone
<1>21. ASSUME NEW d \in Devices, HandshakeStale(d) PROVE AttemptInv'
  BY <1>21, ReadyAssumption DEF HandshakeStale
<1>22. ASSUME NEW x \in Dialers, DialBegin(x) PROVE AttemptInv'
  BY <1>22, ReadyAssumption DEF DialBegin, DGoto
<1>23. ASSUME NEW x \in Dialers, WaitLoop(x) PROVE AttemptInv'
  BY <1>23, ReadyAssumption DEF WaitLoop, DGoto, Returned
<1>24. ASSUME NEW x \in Dialers, WaitClosed(x) PROVE AttemptInv'
  BY <1>24, ReadyAssumption DEF WaitClosed, DGoto, Returned
<1>25. ASSUME NEW x \in Dialers, WaitCtx(x) PROVE AttemptInv'
  BY <1>25, ReadyAssumption DEF WaitCtx, DGoto, Returned
<1>26. ASSUME NEW x \in Dialers, CtxEnds(x) PROVE AttemptInv'
  BY <1>26, ReadyAssumption DEF CtxEnds
<1>27. ASSUME NEW x \in Dialers, Use(x) PROVE AttemptInv'
  BY <1>27, ReadyAssumption DEF Use, DGoto, Returned
<1>28. ASSUME NEW x \in Dialers, Query(x) PROVE AttemptInv'
  BY <1>28, ReadyAssumption DEF Query, DGoto, Returned, RetryDecision, Another
<1>29. ASSUME NEW x \in Dialers, LookupFails(x) PROVE AttemptInv'
  BY <1>29, ReadyAssumption DEF LookupFails, DGoto, Returned
<1>30. CASE UNCHANGED vars
  BY <1>30, ReadyAssumption DEF vars
<1> QED
  BY <1>1, <1>2, <1>3, <1>4, <1>5, <1>6, <1>7, <1>8, <1>9, <1>10, <1>11, <1>12, <1>13,
     <1>14, <1>15, <1>16, <1>17, <1>18, <1>19, <1>20, <1>21, <1>22, <1>23, <1>24, <1>25,
     <1>26, <1>27, <1>28, <1>29, <1>30 DEF Next, CallerStep, SupervisorStep

\* A channel that is replaced is closed, or nobody waits on it.
LEMMA OrphanStep ==
    ASSUME ReadyInv, [Next]_vars
    PROVE  NoOrphanWaiter'
<1> USE DEF ReadyInv, TypeOK, CallerInv, DownInv, NoOrphanWaiter
<1>1. CASE StartBegin  BY <1>1 DEF StartBegin
<1>2. CASE StartFails  BY <1>2 DEF StartFails
<1>3. CASE StartRecord
  BY <1>3, MakeReadyEffect, NextDevice DEF StartRecord
<1>4. CASE StartLaunch  BY <1>4 DEF StartLaunch
<1>5. CASE StopBegin  BY <1>5 DEF StopBegin
<1>6. CASE StopDrain  BY <1>6 DEF StopDrain
<1>7. CASE ReloadBegin  BY <1>7 DEF ReloadBegin
<1>8. CASE ReloadApply  BY <1>8 DEF ReloadApply
<1>9. CASE ReloadMark
  BY <1>9, MakeReadyEffect, MarkNotReadyEffect DEF ReloadMark, SGoto
<1>10. CASE ReloadState  BY <1>10 DEF ReloadState
<1>11. CASE Reconnect  BY <1>11 DEF Reconnect
<1>12. ASSUME NEW d \in Devices, SuperviseEnd(d) PROVE NoOrphanWaiter'
  BY <1>12 DEF SuperviseEnd, SGoto
<1>13. ASSUME NEW d \in Devices, SuperviseKick(d) PROVE NoOrphanWaiter'
  BY <1>13, MakeReadyEffect, MarkNotReadyEffect DEF SuperviseKick, SGoto
<1>14. ASSUME NEW d \in Devices, SuperviseReconnect(d) PROVE NoOrphanWaiter'
  BY <1>14 DEF SuperviseReconnect, SGoto
<1>15. ASSUME NEW d \in Devices, SuperviseTick(d) PROVE NoOrphanWaiter'
  BY <1>15 DEF SuperviseTick, SGoto
<1>16. ASSUME NEW d \in Devices, SuperviseHealthy(d) PROVE NoOrphanWaiter'
  BY <1>16 DEF SuperviseHealthy, SGoto
<1>17. ASSUME NEW d \in Devices, SuperviseMark(d) PROVE NoOrphanWaiter'
  BY <1>17 DEF SuperviseMark, SGoto, MarkReady
<1>18. ASSUME NEW d \in Devices, SuperviseStale(d) PROVE NoOrphanWaiter'
  BY <1>18, MakeReadyEffect, MarkNotReadyEffect DEF SuperviseStale, SGoto
<1>19. ASSUME NEW d \in Devices, SuperviseLapsed(d) PROVE NoOrphanWaiter'
  BY <1>19 DEF SuperviseLapsed, SGoto
<1>20. ASSUME NEW d \in Devices, HandshakeDone(d) PROVE NoOrphanWaiter'
  BY <1>20 DEF HandshakeDone
<1>21. ASSUME NEW d \in Devices, HandshakeStale(d) PROVE NoOrphanWaiter'
  BY <1>21 DEF HandshakeStale
<1>22. ASSUME NEW x \in Dialers, DialBegin(x) PROVE NoOrphanWaiter'
  BY <1>22 DEF DialBegin, DGoto
<1>23. ASSUME NEW x \in Dialers, WaitLoop(x) PROVE NoOrphanWaiter'
  BY <1>23 DEF WaitLoop, DGoto, Returned
<1>24. ASSUME NEW x \in Dialers, WaitClosed(x) PROVE NoOrphanWaiter'
  BY <1>24 DEF WaitClosed, DGoto, Returned
<1>25. ASSUME NEW x \in Dialers, WaitCtx(x) PROVE NoOrphanWaiter'
  BY <1>25 DEF WaitCtx, DGoto, Returned
<1>26. ASSUME NEW x \in Dialers, CtxEnds(x) PROVE NoOrphanWaiter'  BY <1>26 DEF CtxEnds
<1>27. ASSUME NEW x \in Dialers, Use(x) PROVE NoOrphanWaiter'
  BY <1>27 DEF Use, DGoto, Returned
<1>28. ASSUME NEW x \in Dialers, Query(x) PROVE NoOrphanWaiter'
  BY <1>28 DEF Query, DGoto, Returned
<1>29. ASSUME NEW x \in Dialers, LookupFails(x) PROVE NoOrphanWaiter'
  BY <1>29 DEF LookupFails, DGoto, Returned
<1>30. CASE UNCHANGED vars
  BY <1>30 DEF vars
<1> QED
  BY <1>1, <1>2, <1>3, <1>4, <1>5, <1>6, <1>7, <1>8, <1>9, <1>10, <1>11, <1>12, <1>13,
     <1>14, <1>15, <1>16, <1>17, <1>18, <1>19, <1>20, <1>21, <1>22, <1>23, <1>24, <1>25,
     <1>26, <1>27, <1>28, <1>29, <1>30 DEF Next, CallerStep, SupervisorStep

\* A channel is closed by Stop or by the supervisor of the device in force.
LEMMA HandshakeStep ==
    ASSUME ReadyInv, [Next]_vars
    PROVE  ReadyMeansHandshake'
<1> USE DEF ReadyInv, TypeOK, CallerInv, SuperInv, ReadyMeansHandshake
<1>1. CASE StartBegin  BY <1>1 DEF StartBegin
<1>2. CASE StartFails  BY <1>2 DEF StartFails
<1>3. CASE StartRecord
  BY <1>3, MakeReadyEffect, NextDevice DEF StartRecord
<1>4. CASE StartLaunch  BY <1>4 DEF StartLaunch
<1>5. CASE StopBegin  BY <1>5 DEF StopBegin
<1>6. CASE StopDrain  BY <1>6 DEF StopDrain
<1>7. CASE ReloadBegin  BY <1>7 DEF ReloadBegin
<1>8. CASE ReloadApply  BY <1>8 DEF ReloadApply
<1>9. CASE ReloadMark
  BY <1>9, MakeReadyEffect, MarkNotReadyEffect DEF ReloadMark, SGoto
<1>10. CASE ReloadState  BY <1>10 DEF ReloadState
<1>11. CASE Reconnect  BY <1>11 DEF Reconnect
<1>12. ASSUME NEW d \in Devices, SuperviseEnd(d) PROVE ReadyMeansHandshake'
  BY <1>12 DEF SuperviseEnd, SGoto
<1>13. ASSUME NEW d \in Devices, SuperviseKick(d) PROVE ReadyMeansHandshake'
  BY <1>13, MakeReadyEffect, MarkNotReadyEffect DEF SuperviseKick, SGoto
<1>14. ASSUME NEW d \in Devices, SuperviseReconnect(d) PROVE ReadyMeansHandshake'
  BY <1>14 DEF SuperviseReconnect, SGoto
<1>15. ASSUME NEW d \in Devices, SuperviseTick(d) PROVE ReadyMeansHandshake'
  BY <1>15 DEF SuperviseTick, SGoto
<1>16. ASSUME NEW d \in Devices, SuperviseHealthy(d) PROVE ReadyMeansHandshake'
  BY <1>16 DEF SuperviseHealthy, SGoto
<1>17. ASSUME NEW d \in Devices, SuperviseMark(d) PROVE ReadyMeansHandshake'
  BY <1>17 DEF SuperviseMark, SGoto, MarkReady
<1>18. ASSUME NEW d \in Devices, SuperviseStale(d) PROVE ReadyMeansHandshake'
  BY <1>18, MakeReadyEffect, MarkNotReadyEffect DEF SuperviseStale, SGoto
<1>19. ASSUME NEW d \in Devices, SuperviseLapsed(d) PROVE ReadyMeansHandshake'
  BY <1>19 DEF SuperviseLapsed, SGoto
<1>20. ASSUME NEW d \in Devices, HandshakeDone(d) PROVE ReadyMeansHandshake'
  BY <1>20 DEF HandshakeDone
<1>21. ASSUME NEW d \in Devices, HandshakeStale(d) PROVE ReadyMeansHandshake'
  BY <1>21 DEF HandshakeStale
<1>22. ASSUME NEW x \in Dialers, DialBegin(x) PROVE ReadyMeansHandshake'
  BY <1>22 DEF DialBegin, DGoto
<1>23. ASSUME NEW x \in Dialers, WaitLoop(x) PROVE ReadyMeansHandshake'
  BY <1>23 DEF WaitLoop, DGoto, Returned
<1>24. ASSUME NEW x \in Dialers, WaitClosed(x) PROVE ReadyMeansHandshake'
  BY <1>24 DEF WaitClosed, DGoto, Returned
<1>25. ASSUME NEW x \in Dialers, WaitCtx(x) PROVE ReadyMeansHandshake'
  BY <1>25 DEF WaitCtx, DGoto, Returned
<1>26. ASSUME NEW x \in Dialers, CtxEnds(x) PROVE ReadyMeansHandshake'
  BY <1>26 DEF CtxEnds
<1>27. ASSUME NEW x \in Dialers, Use(x) PROVE ReadyMeansHandshake'
  BY <1>27 DEF Use, DGoto, Returned
<1>28. ASSUME NEW x \in Dialers, Query(x) PROVE ReadyMeansHandshake'
  BY <1>28 DEF Query, DGoto, Returned
<1>29. ASSUME NEW x \in Dialers, LookupFails(x) PROVE ReadyMeansHandshake'
  BY <1>29 DEF LookupFails, DGoto, Returned
<1>30. CASE UNCHANGED vars
  BY <1>30 DEF vars
<1> QED
  BY <1>1, <1>2, <1>3, <1>4, <1>5, <1>6, <1>7, <1>8, <1>9, <1>10, <1>11, <1>12, <1>13,
     <1>14, <1>15, <1>16, <1>17, <1>18, <1>19, <1>20, <1>21, <1>22, <1>23, <1>24, <1>25,
     <1>26, <1>27, <1>28, <1>29, <1>30 DEF Next, CallerStep, SupervisorStep

\* A second answer, the last attempt or the end of the context precede a report
\* that the name does not exist.
LEMMA ConfirmedStep ==
    ASSUME ReadyInv, [Next]_vars
    PROVE  NotFoundConfirmed'
<1> USE DEF ReadyInv, TypeOK, AttemptInv, NotFoundConfirmed
<1>1. CASE StartBegin  BY <1>1, ReadyAssumption DEF StartBegin
<1>2. CASE StartFails  BY <1>2, ReadyAssumption DEF StartFails
<1>3. CASE StartRecord
  BY <1>3, MakeReadyEffect, NextDevice DEF StartRecord
<1>4. CASE StartLaunch  BY <1>4, ReadyAssumption DEF StartLaunch
<1>5. CASE StopBegin  BY <1>5, ReadyAssumption DEF StopBegin
<1>6. CASE StopDrain  BY <1>6, ReadyAssumption DEF StopDrain
<1>7. CASE ReloadBegin  BY <1>7, ReadyAssumption DEF ReloadBegin
<1>8. CASE ReloadApply  BY <1>8, ReadyAssumption DEF ReloadApply
<1>9. CASE ReloadMark
  BY <1>9, MakeReadyEffect, MarkNotReadyEffect DEF ReloadMark, SGoto
<1>10. CASE ReloadState  BY <1>10, ReadyAssumption DEF ReloadState
<1>11. CASE Reconnect  BY <1>11, ReadyAssumption DEF Reconnect
<1>12. ASSUME NEW d \in Devices, SuperviseEnd(d) PROVE NotFoundConfirmed'
  BY <1>12, ReadyAssumption DEF SuperviseEnd, SGoto
<1>13. ASSUME NEW d \in Devices, SuperviseKick(d) PROVE NotFoundConfirmed'
  BY <1>13, MakeReadyEffect, MarkNotReadyEffect DEF SuperviseKick, SGoto
<1>14. ASSUME NEW d \in Devices, SuperviseReconnect(d) PROVE NotFoundConfirmed'
  BY <1>14, ReadyAssumption DEF SuperviseReconnect, SGoto
<1>15. ASSUME NEW d \in Devices, SuperviseTick(d) PROVE NotFoundConfirmed'
  BY <1>15, ReadyAssumption DEF SuperviseTick, SGoto
<1>16. ASSUME NEW d \in Devices, SuperviseHealthy(d) PROVE NotFoundConfirmed'
  BY <1>16, ReadyAssumption DEF SuperviseHealthy, SGoto
<1>17. ASSUME NEW d \in Devices, SuperviseMark(d) PROVE NotFoundConfirmed'
  BY <1>17, ReadyAssumption DEF SuperviseMark, SGoto, MarkReady
<1>18. ASSUME NEW d \in Devices, SuperviseStale(d) PROVE NotFoundConfirmed'
  BY <1>18, MakeReadyEffect, MarkNotReadyEffect DEF SuperviseStale, SGoto
<1>19. ASSUME NEW d \in Devices, SuperviseLapsed(d) PROVE NotFoundConfirmed'
  BY <1>19, ReadyAssumption DEF SuperviseLapsed, SGoto
<1>20. ASSUME NEW d \in Devices, HandshakeDone(d) PROVE NotFoundConfirmed'
  BY <1>20, ReadyAssumption DEF HandshakeDone
<1>21. ASSUME NEW d \in Devices, HandshakeStale(d) PROVE NotFoundConfirmed'
  BY <1>21, ReadyAssumption DEF HandshakeStale
<1>22. ASSUME NEW x \in Dialers, DialBegin(x) PROVE NotFoundConfirmed'
  BY <1>22, ReadyAssumption DEF DialBegin, DGoto
<1>23. ASSUME NEW x \in Dialers, WaitLoop(x) PROVE NotFoundConfirmed'
  BY <1>23, ReadyAssumption DEF WaitLoop, DGoto, Returned
<1>24. ASSUME NEW x \in Dialers, WaitClosed(x) PROVE NotFoundConfirmed'
  BY <1>24, ReadyAssumption DEF WaitClosed, DGoto, Returned
<1>25. ASSUME NEW x \in Dialers, WaitCtx(x) PROVE NotFoundConfirmed'
  BY <1>25, ReadyAssumption DEF WaitCtx, DGoto, Returned
<1>26. ASSUME NEW x \in Dialers, CtxEnds(x) PROVE NotFoundConfirmed'
  BY <1>26, ReadyAssumption DEF CtxEnds
<1>27. ASSUME NEW x \in Dialers, Use(x) PROVE NotFoundConfirmed'
  BY <1>27, ReadyAssumption DEF Use, DGoto, Returned
<1>28. ASSUME NEW x \in Dialers, Query(x) PROVE NotFoundConfirmed'
  <2>1. CASE Returned(x)  BY <1>28, <2>1, ReturnedEffect, ZenonT(60) DEF Query, Returned
  <2>2. CASE /\ x \in ctxDone /\ DGoto(x, "notfound")
             /\ UNCHANGED <<net, chan, ctxDone, att, nf, last, answers>>
    BY <2>2 DEF DGoto
  <2>3. ASSUME NEW err \in {"timeout", "notfound"}, Round(x, err) PROVE NotFoundConfirmed'
    <3>1. att[x] \in Nat /\ answers[x] \in Nat /\ att[x] < Attempts /\ Attempts \in Nat
      BY <1>28, ReadyAssumption DEF Query
    <3>2. dpc'[x] = "notfound" => answers'[x] >= 2 \/ att'[x] = Attempts
      BY <1>28, <2>3, <3>1 DEF Round
    <3>3. \A y \in Dialers : y # x => dpc'[y] = dpc[y] /\ answers'[y] = answers[y] /\ att'[y] = att[y]
      BY <2>3 DEF Round
    <3> QED  BY <2>3, <3>2, <3>3 DEF Round
  <2> QED  BY <1>28, <2>1, <2>2, <2>3, QueryRound
<1>29. ASSUME NEW x \in Dialers, LookupFails(x) PROVE NotFoundConfirmed'
  BY <1>29, ReadyAssumption DEF LookupFails, DGoto, Returned
<1>30. CASE UNCHANGED vars
  BY <1>30, ReadyAssumption DEF vars
<1> QED
  BY <1>1, <1>2, <1>3, <1>4, <1>5, <1>6, <1>7, <1>8, <1>9, <1>10, <1>11, <1>12, <1>13,
     <1>14, <1>15, <1>16, <1>17, <1>18, <1>19, <1>20, <1>21, <1>22, <1>23, <1>24, <1>25,
     <1>26, <1>27, <1>28, <1>29, <1>30 DEF Next, CallerStep, SupervisorStep

-----------------------------------------------------------------------------
(* Theorems *)

\* The facts about Start, Stop, the supervisors and the waiting calls hold in every
\* state of the tunnel.
THEOREM ReadyInvariant == Spec => []ReadyInv
<1>1. ASSUME Init PROVE ReadyInv
  <2> USE <1>1 DEF Init
  <2>1. TypeOK
    <3>1. nf \in [Dialers -> BOOLEAN] /\ was \in [Devices -> BOOLEAN]  BY Zenon
    <3>2. /\ 0 \in 0 .. Attempts /\ 0 \in 0 .. MaxReloads /\ 0 \in 0 .. MaxKicks
          /\ (CHOOSE c \in Chans : TRUE) \in Chans
      BY ReadyAssumption
    <3> QED  BY <3>1, <3>2 DEF TypeOK
  <2>2. CallerInv /\ SuperInv /\ StateInv  BY DEF CallerInv, SuperInv, StateInv
  <2>3. DownInv
    <3>1. (CHOOSE c \in Chans : TRUE) \in Chans /\ None \notin Chans  BY ReadyAssumption
    <3> QED  BY <3>1 DEF DownInv
  <2>4. AttemptInv  BY ReadyAssumption DEF AttemptInv
  <2>5. NoOrphanWaiter /\ ReadyMeansHandshake /\ NotFoundConfirmed
    BY DEF NoOrphanWaiter, ReadyMeansHandshake, NotFoundConfirmed
  <2> QED  BY <2>1, <2>2, <2>3, <2>4, <2>5 DEF ReadyInv
<1>2. ReadyInv /\ [Next]_vars => ReadyInv'
  BY TypeStep, CallerStepInv, SuperStep, DownStep, StateStep, AttemptStep, OrphanStep,
     HandshakeStep, ConfirmedStep DEF ReadyInv
<1> QED  BY <1>1, <1>2, PTL DEF Spec

\* The state of the tunnel stays well typed; in particular a supervisor never reads
\* the statistics of a tunnel without a device, and lookupUncached never takes more
\* attempts than dnsAttemptTimeouts has entries.
THEOREM ReadyTypes == Spec => []TypeOK
<1>1. ReadyInv => TypeOK  BY DEF ReadyInv
<1> QED  BY <1>1, ReadyInvariant, PTL

\* However Start, Stop, Reload and the supervisors interleave, a call inside
\* WaitReady waits on the current channel or on one that is closed already.
THEOREM WaitersAreWoken == Spec => []NoOrphanWaiter
<1>1. ReadyInv => NoOrphanWaiter  BY DEF ReadyInv
<1> QED  BY <1>1, ReadyInvariant, PTL

\* The channel that makes WaitReady succeed was closed by markReady for a handshake
\* of the device in force: Stop waits for the supervisor of the device before it.
THEOREM ReadyFromHandshake == Spec => []ReadyMeansHandshake
<1>1. ReadyInv => ReadyMeansHandshake  BY DEF ReadyInv
<1> QED  BY <1>1, ReadyInvariant, PTL

\* retryDecision and the loop around it report that a name does not exist after two
\* answers, after the last attempt, or when the context of the caller has ended.
THEOREM NotFoundIsConfirmed == Spec => []NotFoundConfirmed
<1>1. ReadyInv => NotFoundConfirmed  BY DEF ReadyInv
<1> QED  BY <1>1, ReadyInvariant, PTL

-----------------------------------------------------------------------------
\* What lets a waiting call through when the tunnel is down ...
DownStays ==
    \A x \in Dialers : (dpc[x] = "select" /\ dpc'[x] = "use" /\ ~running) =>
        lpc = "drain" /\ x \in ctxDone

\* ... and the body of WokenByHandshake, what does when its context lives.
Woken ==
    \A x \in Dialers : (dpc[x] = "select" /\ dpc'[x] = "use" /\ x \notin ctxDone) =>
        running /\ proved[chan[x]] = dev

\* A waiting call goes on by a channel that a handshake closed, or by the end of
\* its context.
LEMMA WaitStep ==
    ASSUME ReadyInv, [Next]_vars
    PROVE  DownStays /\ Woken
<1> USE DEF ReadyInv, TypeOK, DownStays, Woken
<1>1. CASE StartBegin  BY <1>1 DEF StartBegin
<1>2. CASE StartFails  BY <1>2 DEF StartFails
<1>3. CASE StartRecord  BY <1>3 DEF StartRecord
<1>4. CASE StartLaunch  BY <1>4 DEF StartLaunch
<1>5. CASE StopBegin  BY <1>5 DEF StopBegin
<1>6. CASE StopDrain  BY <1>6 DEF StopDrain
<1>7. CASE ReloadBegin  BY <1>7 DEF ReloadBegin
<1>8. CASE ReloadApply  BY <1>8 DEF ReloadApply
<1>9. CASE ReloadMark  BY <1>9 DEF ReloadMark
<1>10. CASE ReloadState  BY <1>10 DEF ReloadState
<1>11. CASE Reconnect  BY <1>11 DEF Reconnect
<1>12. ASSUME NEW d \in Devices, SuperviseEnd(d) PROVE DownStays /\ Woken
  BY <1>12 DEF SuperviseEnd, SGoto
<1>13. ASSUME NEW d \in Devices, SuperviseKick(d) PROVE DownStays /\ Woken
  BY <1>13 DEF SuperviseKick, SGoto
<1>14. ASSUME NEW d \in Devices, SuperviseReconnect(d) PROVE DownStays /\ Woken
  BY <1>14 DEF SuperviseReconnect, SGoto
<1>15. ASSUME NEW d \in Devices, SuperviseTick(d) PROVE DownStays /\ Woken
  BY <1>15 DEF SuperviseTick, SGoto
<1>16. ASSUME NEW d \in Devices, SuperviseHealthy(d) PROVE DownStays /\ Woken
  BY <1>16 DEF SuperviseHealthy, SGoto
<1>17. ASSUME NEW d \in Devices, SuperviseMark(d) PROVE DownStays /\ Woken
  BY <1>17 DEF SuperviseMark, SGoto, MarkReady
<1>18. ASSUME NEW d \in Devices, SuperviseStale(d) PROVE DownStays /\ Woken
  BY <1>18 DEF SuperviseStale, SGoto
<1>19. ASSUME NEW d \in Devices, SuperviseLapsed(d) PROVE DownStays /\ Woken
  BY <1>19 DEF SuperviseLapsed, SGoto
<1>20. ASSUME NEW d \in Devices, HandshakeDone(d) PROVE DownStays /\ Woken
  BY <1>20 DEF HandshakeDone
<1>21. ASSUME NEW d \in Devices, HandshakeStale(d) PROVE DownStays /\ Woken
  BY <1>21 DEF HandshakeStale
<1>22. ASSUME NEW x \in Dialers, DialBegin(x) PROVE DownStays /\ Woken
  BY <1>22 DEF DialBegin, DGoto
<1>23. ASSUME NEW x \in Dialers, WaitLoop(x) PROVE DownStays /\ Woken
  BY <1>23 DEF WaitLoop, DGoto, Returned
<1>24. ASSUME NEW x \in Dialers, WaitClosed(x) PROVE DownStays /\ Woken
  BY <1>24 DEF WaitClosed, DGoto, Returned, ReadyMeansHandshake
<1>25. ASSUME NEW x \in Dialers, WaitCtx(x) PROVE DownStays /\ Woken
  <2>1. CASE state # "connected" /\ Returned(x)  BY <2>1, ReturnedEffect
  <2>2. CASE state = "connected" /\ dpc' = [dpc EXCEPT ![x] = "use"]
    BY <1>25, <2>2 DEF WaitCtx, StateInv
  <2> QED  BY <1>25, <2>1, <2>2 DEF WaitCtx, DGoto
<1>26. ASSUME NEW x \in Dialers, CtxEnds(x) PROVE DownStays /\ Woken  BY <1>26 DEF CtxEnds
<1>27. ASSUME NEW x \in Dialers, Use(x) PROVE DownStays /\ Woken
  BY <1>27 DEF Use, DGoto, Returned
<1>28. ASSUME NEW x \in Dialers, Query(x) PROVE DownStays /\ Woken
  BY <1>28 DEF Query, DGoto, Returned
<1>29. ASSUME NEW x \in Dialers, LookupFails(x) PROVE DownStays /\ Woken
  BY <1>29 DEF LookupFails, DGoto, Returned
<1>30. CASE UNCHANGED vars
  BY <1>30 DEF vars
<1> QED
  BY <1>1, <1>2, <1>3, <1>4, <1>5, <1>6, <1>7, <1>8, <1>9, <1>10, <1>11, <1>12, <1>13,
     <1>14, <1>15, <1>16, <1>17, <1>18, <1>19, <1>20, <1>21, <1>22, <1>23, <1>24, <1>25,
     <1>26, <1>27, <1>28, <1>29, <1>30 DEF Next, CallerStep, SupervisorStep

\* A call whose context lives gets past WaitReady only on a running tunnel, through
\* a channel that a handshake of the device in force has closed: no Stop, restart,
\* reload or late supervisor lets it through.
THEOREM OnlyHandshakesWake == Spec => WokenByHandshake
<1>1. ReadyInv /\ [Next]_vars => [Woken]_vars  BY WaitStep
<1> QED  BY <1>1, ReadyInvariant, PTL DEF Spec, WokenByHandshake, Woken

\* WaitReady can succeed while the tunnel is down, and this is where: between the
\* critical section of a Stop and its last line, for a call whose context ends
\* there, since the reported state is still that of the device being closed.
THEOREM DownOnlyDuringStop == Spec => [][DownStays]_vars
<1>1. ReadyInv /\ [Next]_vars => [DownStays]_vars  BY WaitStep
<1> QED  BY <1>1, ReadyInvariant, PTL DEF Spec
=============================================================================
