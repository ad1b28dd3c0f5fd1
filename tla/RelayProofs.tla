---------------------------- MODULE RelayProofs ----------------------------
(***************************************************************************)
(* Theorems about module UdpRelay, for any local senders and any sockets:  *)
(* no in-tunnel socket is leaked, the header of a datagram is split where  *)
(* it should be, and the relay implements module Association.              *)
(***************************************************************************)
EXTENDS UdpRelay, TLAPS

\* How far the handler, the pump and their calls of tunnelConn have come.
StageInv ==
    /\ tc["handler"] # "no" <=> hpc = "warm"
    /\ tc["pump"] # "no" <=> ppc = "conn"
    /\ hpc \in {"warm", "refuse", "reply", "hold", "close"} => ppc # "off"
    /\ ppc = "off" <=> wpc = "off"
    /\ hpc = "create" => ppc = "off"
    /\ ppc = "off" => hpc \in {"create", "done"} /\ once = "no" /\ open = {}
    /\ kpc # "off" => wpc = "done" /\ hpc \in {"hold", "close", "done"}

\* How far Close has come, and what it finds.
CloseInv ==
    /\ closed <=> once # "no"
    /\ isNil <=> once \in {"wait", "done"}
    /\ closed => hpc \in {"hold", "close", "done"}
    /\ hpc = "done" => ppc = "off" \/ once = "done"
    /\ once = "done" => ~Working

\* Who holds which socket: the map or a caller, and each socket once.
SocketInv ==
    /\ \A t \in Callers : tc[t] = "store" <=> hand[t] # None
    /\ \A t \in Callers : hand[t] # None =>
         hand[t] \in open /\ \A f \in Families : tunnel[f] # hand[t]
    /\ \A t, u \in Callers : hand[t] # None /\ hand[t] = hand[u] => t = u
    /\ \A f \in Families : tunnel[f] # None => ~isNil /\ tunnel[f] \in open

\* What a caller of tunnelConn is about to spawn a pump for or to return; the
\* handler gets a socket that is in the map.
ReturnInv ==
    /\ \A t \in Callers : tc[t] = "spawn" =>
         got[t] # None /\ (~isNil => \E f \in Families : tunnel[f] = got[t])
    /\ tc["handler"] \in {"spawn", "ret"} /\ got["handler"] # None =>
         \E f \in Families : tunnel[f] # None
    /\ hpc = "reply" => \E f \in Families : tunnel[f] # None

\* Which pumps read: while the relay is open, those of sockets in the map.
PumpInv ==
    /\ ~isNil => \A k \in Sockets : tpc[k] # "off" => \E f \in Families : tunnel[f] = k
    /\ ppc = "off" => \A k \in Sockets : tpc[k] = "off"

\* Two callers that open a socket each are not too late both: only one of them may
\* find its family opened by the other.
OpenersInv ==
    (\A t \in Callers : tc[t] \in {"listen", "store"}) =>
        \E t \in Callers : tunnel[fam[t]] = None

\* After Close has emptied the map, the pumps that still read are those of the two
\* families, or of one that was about to be started.
Quiet(k) == tpc[k] = "off" /\ \A t \in Callers : ~(tc[t] = "spawn" /\ got[t] = k)

PairInv == isNil => \E a, b \in Sockets : \A k \in Sockets \ {a, b} : Quiet(k)

RelayInv ==
    /\ TypeOK
    /\ StageInv /\ CloseInv /\ SocketInv /\ ReturnInv /\ PumpInv /\ OpenersInv /\ PairInv
    /\ NoLeakedSocket

USE DEF callVars, pumpVars, relayVars, history

-----------------------------------------------------------------------------
\* The parts of the assumption that most steps need.
LEMMA NoneIsNoSocket == None \notin Sockets
  BY RelayAssumption

\* A datagram is dropped, kept for a lookup, or ends in a call of tunnelConn.
LEMMA PumpCalls ==
    ASSUME \/ PumpResolve
           \/ \E s \in Senders : PumpRead(s)
    PROVE  /\ ppc \in {"read", "resolve"}
           /\ ppc = "read" => ~closed
           /\ \/ ppc' \in {"read", "resolve"} /\ tc' = tc /\ fam' = fam
              \/ /\ ppc' = "conn"
                 /\ \E f \in Families : CallConn("pump", f)
           /\ UNCHANGED <<hpc, ctl, hand, got, wpc, kpc, tpc, tunnel, isNil, open, closed, once>>
  BY DEF PumpResolve, PumpRead, CallConn

\* A socket for a caller that opens one: the sockets in use are those of the map and
\* the one in the other caller's hand, or those the last pumps read.
LEMMA SocketLeft ==
    ASSUME TypeOK, StageInv, CloseInv, SocketInv, PumpInv, OpenersInv, PairInv, NoLeakedSocket,
           NEW t \in Callers, tc[t] = "listen"
    PROVE  Unused # {}
<1> USE DEF TypeOK, Callers, Families
<1>1. CASE isNil
  <2>1. PICK a \in Sockets, b \in Sockets : \A k \in Sockets \ {a, b} : tpc[k] = "off"
    BY <1>1 DEF PairInv, Quiet
  <2>2. PICK k \in Sockets : k \notin {a, b}  BY RelayAssumption
  <2>3. hand["handler"] = None /\ hand["pump"] = None
    BY <1>1 DEF StageInv, CloseInv, SocketInv
  <2>4. open = {}  BY <1>1, <2>3, NoneIsNoSocket DEF NoLeakedSocket
  <2>5. \A f \in Families : tunnel[f] # k  BY <1>1, NoneIsNoSocket DEF SocketInv
  <2> QED  BY <2>1, <2>2, <2>4, <2>5 DEF Unused
<1>2. CASE ~isNil
  <2>1. PICK a \in Sockets, b \in Sockets :
          \A k \in Sockets \ {a, b} : k \notin open /\ \A f \in Families : tunnel[f] # k
    <3> DEFINE Held == {tunnel["v4"], tunnel["v6"], hand["handler"], hand["pump"]}
    <3>1. \A k \in Sockets : k \in open \/ (\E f \in Families : tunnel[f] = k) => k \in Held
      BY DEF NoLeakedSocket
    <3>2. hand[t] = None  BY DEF SocketInv
    <3>3. tunnel["v4"] = None \/ tunnel["v6"] = None
            \/ (hand["handler"] = None /\ hand["pump"] = None)
      BY <3>2 DEF OpenersInv, SocketInv
    <3>4. PICK c \in Sockets : TRUE  BY RelayAssumption
    <3>5. \E a, b \in Sockets : \A k \in Sockets : k \in Held => k \in {a, b}
      <4> DEFINE h == IF hand["handler"] = None THEN hand["pump"] ELSE hand["handler"]
                 x == IF tunnel["v4"] = None THEN tunnel["v6"] ELSE tunnel["v4"]
                 y == IF tunnel["v4"] = None \/ tunnel["v6"] = None THEN h ELSE tunnel["v6"]
      <4>1. \A k \in Sockets : k \in Held => k \in {x, y}
        <5>1. hand["handler"] = None \/ hand["pump"] = None  BY <3>2
        <5> QED  BY <3>3, <5>1, NoneIsNoSocket
      <4>2. x \in Sockets \cup {None} /\ y \in Sockets \cup {None}  OBVIOUS
      <4> HIDE DEF x, y, Held
      <4> DEFINE a == IF x = None THEN c ELSE x
                 b == IF y = None THEN c ELSE y
      <4>3. a \in Sockets /\ b \in Sockets  BY <4>2, <3>4
      <4>4. \A k \in Sockets : k \in Held => k \in {a, b}  BY <4>1, NoneIsNoSocket
      <4> QED  BY <4>3, <4>4
    <3> QED  BY <3>1, <3>5
  <2>2. PICK k \in Sockets : k \notin {a, b}  BY RelayAssumption
  <2>3. tpc[k] = "off"  BY <1>2, <2>1, <2>2 DEF PumpInv
  <2> QED  BY <2>1, <2>2, <2>3 DEF Unused
<1> QED  BY <1>1, <1>2

\* ListenUDP returns a socket that nobody has.
LEMMA FreshSocket ==
    ASSUME RelayInv, NEW t \in Callers, tc[t] = "listen"
    PROVE  (CHOOSE k \in Unused : TRUE) \in Unused
  BY SocketLeft DEF RelayInv

\* Every step keeps the types.
LEMMA TypeStep ==
    ASSUME RelayInv, [Next]_vars
    PROVE  TypeOK'
<1> USE DEF RelayInv, TypeOK, Callers, Families
<1>1. CASE Create  BY <1>1 DEF Create, CallConn
<1>2. CASE Warmed  BY <1>2 DEF Warmed, CallConn
<1>3. CASE Answer  BY <1>3 DEF Answer
<1>4. ASSUME NEW t \in Callers, ConnCheck(t) PROVE TypeOK'  BY <1>4 DEF ConnCheck, Ret
<1>5. ASSUME NEW t \in Callers, ConnListen(t) PROVE TypeOK'
  BY <1>5, FreshSocket DEF ConnListen, Ret, Unused
<1>6. ASSUME NEW t \in Callers, ConnStore(t) PROVE TypeOK'  BY <1>6 DEF ConnStore, Ret
<1>7. ASSUME NEW t \in Callers, ConnSpawn(t) PROVE TypeOK'
  BY <1>7 DEF ConnSpawn, ReturnInv
<1>8. CASE CloseBegin  BY <1>8 DEF CloseBegin, Closing
<1>9. CASE CloseTunnel  BY <1>9 DEF CloseTunnel
<1>10. CASE CloseWait  BY <1>10 DEF CloseWait
<1>11. CASE CloseReturns  BY <1>11 DEF CloseReturns
<1>12. CASE PumpResolve  BY <1>12 DEF PumpResolve, CallConn
<1>13. CASE PumpSend  BY <1>13 DEF PumpSend
<1>14. CASE PumpEnds  BY <1>14 DEF PumpEnds
<1>15. CASE ControlEnds  BY <1>15 DEF ControlEnds
<1>16. CASE WatchIdle  BY <1>16 DEF WatchIdle
<1>17. ASSUME NEW s \in Senders, PumpRead(s) PROVE TypeOK'
  <2>1. expect' \in Declared /\ dealt' \subseteq Senders
    BY <1>17 DEF PumpRead, Declared
  <2>2. ppc' \in {"read", "resolve", "conn"}  BY <1>17, PumpCalls
  <2>3. tc' \in [Callers -> {"no", "check", "listen", "store", "spawn", "ret"}]
        /\ fam' \in [Callers -> Families]
    BY <1>17, PumpCalls DEF CallConn
  <2>4. UNCHANGED <<hpc, ctl, hand, got, wpc, kpc, tpc, tunnel, isNil, open, closed, once>>
    BY <1>17, PumpCalls
  <2> QED  BY <2>1, <2>2, <2>3, <2>4
<1>18. ASSUME NEW k \in Sockets, TunnelRead(k) PROVE TypeOK'  BY <1>18 DEF TunnelRead
<1>19. ASSUME NEW k \in Sockets, TunnelEnds(k) PROVE TypeOK'  BY <1>19 DEF TunnelEnds
<1>20. CASE UNCHANGED vars
  BY <1>20 DEF vars
<1> QED
  BY <1>1, <1>2, <1>3, <1>4, <1>5, <1>6, <1>7, <1>8, <1>9, <1>10, <1>11, <1>12, <1>13,
     <1>14, <1>15, <1>16, <1>17, <1>18, <1>19, <1>20 DEF Next, HandlerStep, CloseStep,
     PumpStep, ConnStep, Callers

\* The stages of the goroutines go together.
LEMMA StageStep ==
    ASSUME RelayInv, [Next]_vars
    PROVE  StageInv'
<1> USE DEF RelayInv, TypeOK, StageInv, Callers
<1>1. CASE Create  BY <1>1 DEF Create, CallConn
<1>2. CASE Warmed  BY <1>2 DEF Warmed, CallConn
<1>3. CASE Answer  BY <1>3 DEF Answer
<1>4. ASSUME NEW t \in Callers, ConnCheck(t) PROVE StageInv'  BY <1>4 DEF ConnCheck, Ret
<1>5. ASSUME NEW t \in Callers, ConnListen(t) PROVE StageInv'
  BY <1>5 DEF ConnListen, Ret, CloseInv
<1>6. ASSUME NEW t \in Callers, ConnStore(t) PROVE StageInv'  BY <1>6 DEF ConnStore, Ret
<1>7. ASSUME NEW t \in Callers, ConnSpawn(t) PROVE StageInv'  BY <1>7 DEF ConnSpawn
<1>8. CASE CloseBegin  BY <1>8 DEF CloseBegin, Closing, CloseInv
<1>9. CASE CloseTunnel  BY <1>9 DEF CloseTunnel, CloseInv
<1>10. CASE CloseWait  BY <1>10 DEF CloseWait
<1>11. CASE CloseReturns  BY <1>11 DEF CloseReturns, CloseInv
<1>12. CASE PumpResolve
  BY <1>12, PumpCalls DEF CallConn
<1>13. CASE PumpSend  BY <1>13 DEF PumpSend
<1>14. CASE PumpEnds  BY <1>14 DEF PumpEnds
<1>15. CASE ControlEnds  BY <1>15 DEF ControlEnds
<1>16. CASE WatchIdle  BY <1>16 DEF WatchIdle
<1>17. ASSUME NEW s \in Senders, PumpRead(s) PROVE StageInv'
  BY <1>17, PumpCalls DEF CallConn
<1>18. ASSUME NEW k \in Sockets, TunnelRead(k) PROVE StageInv'  BY <1>18 DEF TunnelRead
<1>19. ASSUME NEW k \in Sockets, TunnelEnds(k) PROVE StageInv'  BY <1>19 DEF TunnelEnds
<1>20. CASE UNCHANGED vars
  BY <1>20 DEF vars
<1> QED
  BY <1>1, <1>2, <1>3, <1>4, <1>5, <1>6, <1>7, <1>8, <1>9, <1>10, <1>11, <1>12, <1>13,
     <1>14, <1>15, <1>16, <1>17, <1>18, <1>19, <1>20 DEF Next, HandlerStep, CloseStep,
     PumpStep, ConnStep, Callers

\* Close goes from one stage to the next, and waits for every goroutine.
LEMMA CloseStepInv ==
    ASSUME RelayInv, [Next]_vars
    PROVE  CloseInv'
<1> USE DEF RelayInv, TypeOK, StageInv, CloseInv, Working, Callers
<1>1. CASE Create  BY <1>1 DEF Create, CallConn
<1>2. CASE Warmed  BY <1>2 DEF Warmed, CallConn
<1>3. CASE Answer  BY <1>3 DEF Answer
<1>4. ASSUME NEW t \in Callers, ConnCheck(t) PROVE CloseInv'  BY <1>4 DEF ConnCheck, Ret
<1>5. ASSUME NEW t \in Callers, ConnListen(t) PROVE CloseInv'
  BY <1>5 DEF ConnListen, Ret
<1>6. ASSUME NEW t \in Callers, ConnStore(t) PROVE CloseInv'  BY <1>6 DEF ConnStore, Ret
<1>7. ASSUME NEW t \in Callers, ConnSpawn(t) PROVE CloseInv'  BY <1>7 DEF ConnSpawn
<1>8. CASE CloseBegin  BY <1>8 DEF CloseBegin, Closing
<1>9. CASE CloseTunnel  BY <1>9 DEF CloseTunnel
<1>10. CASE CloseWait  BY <1>10 DEF CloseWait
<1>11. CASE CloseReturns  BY <1>11 DEF CloseReturns
<1>12. CASE PumpResolve
  BY <1>12, PumpCalls DEF CallConn
<1>13. CASE PumpSend  BY <1>13 DEF PumpSend
<1>14. CASE PumpEnds  BY <1>14 DEF PumpEnds
<1>15. CASE ControlEnds  BY <1>15 DEF ControlEnds
<1>16. CASE WatchIdle  BY <1>16 DEF WatchIdle
<1>17. ASSUME NEW s \in Senders, PumpRead(s) PROVE CloseInv'
  BY <1>17, PumpCalls DEF CallConn
<1>18. ASSUME NEW k \in Sockets, TunnelRead(k) PROVE CloseInv'  BY <1>18 DEF TunnelRead
<1>19. ASSUME NEW k \in Sockets, TunnelEnds(k) PROVE CloseInv'  BY <1>19 DEF TunnelEnds
<1>20. CASE UNCHANGED vars
  BY <1>20 DEF vars
<1> QED
  BY <1>1, <1>2, <1>3, <1>4, <1>5, <1>6, <1>7, <1>8, <1>9, <1>10, <1>11, <1>12, <1>13,
     <1>14, <1>15, <1>16, <1>17, <1>18, <1>19, <1>20 DEF Next, HandlerStep, CloseStep,
     PumpStep, ConnStep, Callers

\* Each socket keeps its one holder.
LEMMA SocketStep ==
    ASSUME RelayInv, [Next]_vars
    PROVE  SocketInv'
<1> USE DEF RelayInv, TypeOK, StageInv, SocketInv, Callers, Families
<1>1. CASE Create  BY <1>1, NoneIsNoSocket DEF Create, CallConn
<1>2. CASE Warmed  BY <1>2, NoneIsNoSocket DEF Warmed, CallConn
<1>3. CASE Answer  BY <1>3, NoneIsNoSocket DEF Answer
<1>4. ASSUME NEW t \in Callers, ConnCheck(t) PROVE SocketInv'
  BY <1>4, NoneIsNoSocket DEF ConnCheck, Ret
<1>5. ASSUME NEW t \in Callers, ConnListen(t) PROVE SocketInv'
  <2>1. CASE Ret(t, None) /\ UNCHANGED <<hand, open>>
    BY <1>5, <2>1 DEF ConnListen, Ret
  <2>2. CASE tc' = [tc EXCEPT ![t] = "store"]
    <3> DEFINE k == CHOOSE k \in Unused : TRUE
    <3>1. k \in Unused  BY <1>5, FreshSocket DEF ConnListen
    <3>2. /\ open' = open \cup {k} /\ hand' = [hand EXCEPT ![t] = k]
          /\ tc' = [tc EXCEPT ![t] = "store"]
          /\ UNCHANGED <<tunnel, isNil>>
      BY <1>5, <2>2 DEF ConnListen, Ret
    <3> HIDE DEF k
    <3>3. k \in Sockets /\ k \notin open /\ \A f \in Families : tunnel[f] # k
      BY <3>1 DEF Unused
    <3> QED  BY <1>5, <3>2, <3>3, NoneIsNoSocket DEF ConnListen
  <2> QED  BY <1>5, <2>1, <2>2 DEF ConnListen
<1>6. ASSUME NEW t \in Callers, ConnStore(t) PROVE SocketInv'
  <2>1. hand[t] # None  BY <1>6 DEF ConnStore
  <2>2. CASE open' = open \ {hand[t]} /\ Ret(t, got'[t]) /\ tunnel' = tunnel
    BY <1>6, <2>1, <2>2 DEF ConnStore, Ret
  <2>3. CASE open' = open /\ tunnel' = [tunnel EXCEPT ![fam[t]] = hand[t]] /\ ~isNil
             /\ tc' = [tc EXCEPT ![t] = "spawn"]
    BY <1>6, <2>1, <2>3, NoneIsNoSocket DEF ConnStore
  <2> QED  BY <1>6, <2>2, <2>3 DEF ConnStore, Ret
<1>7. ASSUME NEW t \in Callers, ConnSpawn(t) PROVE SocketInv'
  BY <1>7, NoneIsNoSocket DEF ConnSpawn
<1>8. CASE CloseBegin  BY <1>8, NoneIsNoSocket DEF CloseBegin, Closing
<1>9. CASE CloseTunnel  BY <1>9, NoneIsNoSocket DEF CloseTunnel, CloseInv
<1>10. CASE CloseWait  BY <1>10, NoneIsNoSocket DEF CloseWait
<1>11. CASE CloseReturns  BY <1>11, NoneIsNoSocket DEF CloseReturns
<1>12. CASE PumpResolve
  BY <1>12, PumpCalls DEF CallConn
<1>13. CASE PumpSend  BY <1>13, NoneIsNoSocket DEF PumpSend
<1>14. CASE PumpEnds  BY <1>14, NoneIsNoSocket DEF PumpEnds
<1>15. CASE ControlEnds  BY <1>15, NoneIsNoSocket DEF ControlEnds
<1>16. CASE WatchIdle  BY <1>16, NoneIsNoSocket DEF WatchIdle
<1>17. ASSUME NEW s \in Senders, PumpRead(s) PROVE SocketInv'
  BY <1>17, PumpCalls DEF CallConn
<1>18. ASSUME NEW k \in Sockets, TunnelRead(k) PROVE SocketInv'
  BY <1>18, NoneIsNoSocket DEF TunnelRead
<1>19. ASSUME NEW k \in Sockets, TunnelEnds(k) PROVE SocketInv'
  BY <1>19, NoneIsNoSocket DEF TunnelEnds
<1>20. CASE UNCHANGED vars
  BY <1>20, NoneIsNoSocket DEF vars
<1> QED
  BY <1>1, <1>2, <1>3, <1>4, <1>5, <1>6, <1>7, <1>8, <1>9, <1>10, <1>11, <1>12, <1>13,
     <1>14, <1>15, <1>16, <1>17, <1>18, <1>19, <1>20 DEF Next, HandlerStep, CloseStep,
     PumpStep, ConnStep, Callers

\* What tunnelConn returns to the handler is in the map.
LEMMA ReturnStep ==
    ASSUME RelayInv, [Next]_vars
    PROVE  ReturnInv'
<1> USE DEF RelayInv, TypeOK, StageInv, CloseInv, SocketInv, ReturnInv, Callers,
        Families
<1>1. CASE Create  BY <1>1, NoneIsNoSocket DEF Create, CallConn
<1>2. CASE Warmed  BY <1>2, NoneIsNoSocket DEF Warmed, CallConn
<1>3. CASE Answer  BY <1>3, NoneIsNoSocket DEF Answer
<1>4. ASSUME NEW t \in Callers, ConnCheck(t) PROVE ReturnInv'
  BY <1>4, NoneIsNoSocket DEF ConnCheck, Ret
<1>5. ASSUME NEW t \in Callers, ConnListen(t) PROVE ReturnInv'
  BY <1>5, NoneIsNoSocket DEF ConnListen, Ret
<1>6. ASSUME NEW t \in Callers, ConnStore(t) PROVE ReturnInv'
  BY <1>6, NoneIsNoSocket DEF ConnStore, Ret
<1>7. ASSUME NEW t \in Callers, ConnSpawn(t) PROVE ReturnInv'
  BY <1>7, NoneIsNoSocket DEF ConnSpawn
<1>8. CASE CloseBegin  BY <1>8, NoneIsNoSocket DEF CloseBegin, Closing
<1>9. CASE CloseTunnel  BY <1>9, NoneIsNoSocket DEF CloseTunnel
<1>10. CASE CloseWait  BY <1>10, NoneIsNoSocket DEF CloseWait
<1>11. CASE CloseReturns  BY <1>11, NoneIsNoSocket DEF CloseReturns
<1>12. CASE PumpResolve
  BY <1>12, PumpCalls DEF CallConn
<1>13. CASE PumpSend  BY <1>13, NoneIsNoSocket DEF PumpSend
<1>14. CASE PumpEnds  BY <1>14, NoneIsNoSocket DEF PumpEnds
<1>15. CASE ControlEnds  BY <1>15, NoneIsNoSocket DEF ControlEnds
<1>16. CASE WatchIdle  BY <1>16, NoneIsNoSocket DEF WatchIdle
<1>17. ASSUME NEW s \in Senders, PumpRead(s) PROVE ReturnInv'
  BY <1>17, PumpCalls DEF CallConn
<1>18. ASSUME NEW k \in Sockets, TunnelRead(k) PROVE ReturnInv'
  BY <1>18, NoneIsNoSocket DEF TunnelRead
<1>19. ASSUME NEW k \in Sockets, TunnelEnds(k) PROVE ReturnInv'
  BY <1>19, NoneIsNoSocket DEF TunnelEnds
<1>20. CASE UNCHANGED vars
  BY <1>20, NoneIsNoSocket DEF vars
<1> QED
  BY <1>1, <1>2, <1>3, <1>4, <1>5, <1>6, <1>7, <1>8, <1>9, <1>10, <1>11, <1>12, <1>13,
     <1>14, <1>15, <1>16, <1>17, <1>18, <1>19, <1>20 DEF Next, HandlerStep, CloseStep,
     PumpStep, ConnStep, Callers

\* A pump reads a socket of the map, until Close empties it.
LEMMA PumpStepInv ==
    ASSUME RelayInv, [Next]_vars
    PROVE  PumpInv'
<1> USE DEF RelayInv, TypeOK, StageInv, CloseInv, SocketInv, ReturnInv, PumpInv,
        Callers, Families
<1>1. CASE Create  BY <1>1, NoneIsNoSocket DEF Create, CallConn
<1>2. CASE Warmed  BY <1>2, NoneIsNoSocket DEF Warmed, CallConn
<1>3. CASE Answer  BY <1>3, NoneIsNoSocket DEF Answer
<1>4. ASSUME NEW t \in Callers, ConnCheck(t) PROVE PumpInv'
  BY <1>4, NoneIsNoSocket DEF ConnCheck, Ret
<1>5. ASSUME NEW t \in Callers, ConnListen(t) PROVE PumpInv'
  BY <1>5, NoneIsNoSocket DEF ConnListen, Ret
<1>6. ASSUME NEW t \in Callers, ConnStore(t) PROVE PumpInv'
  BY <1>6, NoneIsNoSocket DEF ConnStore, Ret
<1>7. ASSUME NEW t \in Callers, ConnSpawn(t) PROVE PumpInv'
  BY <1>7, NoneIsNoSocket DEF ConnSpawn
<1>8. CASE CloseBegin  BY <1>8, NoneIsNoSocket DEF CloseBegin, Closing
<1>9. CASE CloseTunnel  BY <1>9, NoneIsNoSocket DEF CloseTunnel
<1>10. CASE CloseWait  BY <1>10, NoneIsNoSocket DEF CloseWait
<1>11. CASE CloseReturns  BY <1>11, NoneIsNoSocket DEF CloseReturns
<1>12. CASE PumpResolve
  BY <1>12, PumpCalls DEF CallConn
<1>13. CASE PumpSend  BY <1>13, NoneIsNoSocket DEF PumpSend
<1>14. CASE PumpEnds  BY <1>14, NoneIsNoSocket DEF PumpEnds
<1>15. CASE ControlEnds  BY <1>15, NoneIsNoSocket DEF ControlEnds
<1>16. CASE WatchIdle  BY <1>16, NoneIsNoSocket DEF WatchIdle
<1>17. ASSUME NEW s \in Senders, PumpRead(s) PROVE PumpInv'
  BY <1>17, PumpCalls DEF CallConn
<1>18. ASSUME NEW k \in Sockets, TunnelRead(k) PROVE PumpInv'
  BY <1>18, NoneIsNoSocket DEF TunnelRead
<1>19. ASSUME NEW k \in Sockets, TunnelEnds(k) PROVE PumpInv'
  BY <1>19, NoneIsNoSocket DEF TunnelEnds
<1>20. CASE UNCHANGED vars
  BY <1>20, NoneIsNoSocket DEF vars
<1> QED
  BY <1>1, <1>2, <1>3, <1>4, <1>5, <1>6, <1>7, <1>8, <1>9, <1>10, <1>11, <1>12, <1>13,
     <1>14, <1>15, <1>16, <1>17, <1>18, <1>19, <1>20 DEF Next, HandlerStep, CloseStep,
     PumpStep, ConnStep, Callers

\* Of two callers that open, the later one has just found its family missing.
LEMMA OpenersStep ==
    ASSUME RelayInv, [Next]_vars
    PROVE  OpenersInv'
<1> USE DEF RelayInv, TypeOK, StageInv, OpenersInv, Callers, Families
<1>1. CASE Create  BY <1>1, NoneIsNoSocket DEF Create, CallConn
<1>2. CASE Warmed  BY <1>2, NoneIsNoSocket DEF Warmed, CallConn
<1>3. CASE Answer  BY <1>3, NoneIsNoSocket DEF Answer
<1>4. ASSUME NEW t \in Callers, ConnCheck(t) PROVE OpenersInv'
  BY <1>4, NoneIsNoSocket DEF ConnCheck, Ret
<1>5. ASSUME NEW t \in Callers, ConnListen(t) PROVE OpenersInv'
  BY <1>5, NoneIsNoSocket DEF ConnListen, Ret
<1>6. ASSUME NEW t \in Callers, ConnStore(t) PROVE OpenersInv'
  BY <1>6, NoneIsNoSocket DEF ConnStore, Ret
<1>7. ASSUME NEW t \in Callers, ConnSpawn(t) PROVE OpenersInv'
  BY <1>7, NoneIsNoSocket DEF ConnSpawn
<1>8. CASE CloseBegin  BY <1>8, NoneIsNoSocket DEF CloseBegin, Closing
<1>9. CASE CloseTunnel  BY <1>9, NoneIsNoSocket DEF CloseTunnel
<1>10. CASE CloseWait  BY <1>10, NoneIsNoSocket DEF CloseWait
<1>11. CASE CloseReturns  BY <1>11, NoneIsNoSocket DEF CloseReturns
<1>12. CASE PumpResolve
  BY <1>12, PumpCalls DEF CallConn
<1>13. CASE PumpSend  BY <1>13, NoneIsNoSocket DEF PumpSend
<1>14. CASE PumpEnds  BY <1>14, NoneIsNoSocket DEF PumpEnds
<1>15. CASE ControlEnds  BY <1>15, NoneIsNoSocket DEF ControlEnds
<1>16. CASE WatchIdle  BY <1>16, NoneIsNoSocket DEF WatchIdle
<1>17. ASSUME NEW s \in Senders, PumpRead(s) PROVE OpenersInv'
  BY <1>17, PumpCalls DEF CallConn
<1>18. ASSUME NEW k \in Sockets, TunnelRead(k) PROVE OpenersInv'
  BY <1>18, NoneIsNoSocket DEF TunnelRead
<1>19. ASSUME NEW k \in Sockets, TunnelEnds(k) PROVE OpenersInv'
  BY <1>19, NoneIsNoSocket DEF TunnelEnds
<1>20. CASE UNCHANGED vars
  BY <1>20, NoneIsNoSocket DEF vars
<1> QED
  BY <1>1, <1>2, <1>3, <1>4, <1>5, <1>6, <1>7, <1>8, <1>9, <1>10, <1>11, <1>12, <1>13,
     <1>14, <1>15, <1>16, <1>17, <1>18, <1>19, <1>20 DEF Next, HandlerStep, CloseStep,
     PumpStep, ConnStep, Callers

\* After Close no further pump is started.
LEMMA PairStep ==
    ASSUME RelayInv, [Next]_vars
    PROVE  PairInv'
<1> USE DEF RelayInv, TypeOK, Callers, Families
<1>1. CASE Create  BY <1>1 DEF Create, CallConn, PairInv, Quiet, StageInv, CloseInv
<1>2. CASE Warmed  BY <1>2 DEF Warmed, CallConn, PairInv, Quiet, StageInv, CloseInv
<1>3. CASE Answer  BY <1>3 DEF Answer, PairInv, Quiet
<1>4. ASSUME NEW t \in Callers, ConnCheck(t) PROVE PairInv'
  <2>1. ASSUME NEW k \in Sockets, Quiet(k), isNil PROVE Quiet(k)'
    BY <1>4, <2>1, NoneIsNoSocket DEF Quiet, ConnCheck, Ret
  <2>2. isNil' = isNil  BY <1>4 DEF ConnCheck, Ret
  <2> QED  BY <2>1, <2>2 DEF PairInv
<1>5. ASSUME NEW t \in Callers, ConnListen(t) PROVE PairInv'
  <2>1. ASSUME NEW k \in Sockets, Quiet(k), isNil PROVE Quiet(k)'
    BY <1>5, <2>1, NoneIsNoSocket DEF Quiet, ConnListen, Ret
  <2>2. isNil' = isNil  BY <1>5 DEF ConnListen, Ret
  <2> QED  BY <2>1, <2>2 DEF PairInv
<1>6. ASSUME NEW t \in Callers, ConnStore(t) PROVE PairInv'
  <2>1. ASSUME NEW k \in Sockets, Quiet(k), isNil PROVE Quiet(k)'
    BY <1>6, <2>1, NoneIsNoSocket DEF Quiet, ConnStore, Ret
  <2>2. isNil' = isNil  BY <1>6 DEF ConnStore, Ret
  <2> QED  BY <2>1, <2>2 DEF PairInv
<1>7. ASSUME NEW t \in Callers, ConnSpawn(t) PROVE PairInv'
  <2>1. ASSUME NEW k \in Sockets, Quiet(k), isNil PROVE Quiet(k)'
    BY <1>7, <2>1, NoneIsNoSocket DEF Quiet, ConnSpawn, ReturnInv
  <2>2. isNil' = isNil  BY <1>7 DEF ConnSpawn, ReturnInv
  <2> QED  BY <2>1, <2>2 DEF PairInv
<1>8. CASE CloseBegin  BY <1>8 DEF CloseBegin, Closing, PairInv, Quiet
<1>9. CASE CloseTunnel
  <2>1. PICK c \in Sockets : TRUE  BY RelayAssumption
  <2> DEFINE a == IF tunnel["v4"] = None THEN c ELSE tunnel["v4"]
             b == IF tunnel["v6"] = None THEN c ELSE tunnel["v6"]
  <2>2. a \in Sockets /\ b \in Sockets  OBVIOUS
  <2>3. ~isNil  BY <1>9 DEF CloseTunnel, CloseInv
  <2>4. ASSUME NEW k \in Sockets, k \notin {a, b} PROVE Quiet(k)
    <3>1. \A f \in Families : tunnel[f] # k  BY <2>4, NoneIsNoSocket
    <3> QED  BY <2>3, <3>1 DEF Quiet, PumpInv, ReturnInv
  <2>5. \A k \in Sockets : Quiet(k)' = Quiet(k)  BY <1>9 DEF CloseTunnel, Quiet
  <2> HIDE DEF a, b
  <2> QED  BY <2>2, <2>4, <2>5 DEF PairInv
<1>10. CASE CloseWait  BY <1>10 DEF CloseWait, PairInv, Quiet
<1>11. CASE CloseReturns  BY <1>11 DEF CloseReturns, PairInv, Quiet
<1>12. CASE PumpResolve
  <2>1. ASSUME NEW k \in Sockets, Quiet(k), isNil PROVE Quiet(k)'
    BY <1>12, <2>1, PumpCalls DEF Quiet, CallConn
  <2>2. isNil' = isNil  BY <1>12, PumpCalls DEF CallConn
  <2> QED  BY <2>1, <2>2 DEF PairInv
<1>13. CASE PumpSend  BY <1>13 DEF PumpSend, PairInv, Quiet
<1>14. CASE PumpEnds  BY <1>14 DEF PumpEnds, PairInv, Quiet
<1>15. CASE ControlEnds  BY <1>15 DEF ControlEnds, PairInv, Quiet
<1>16. CASE WatchIdle  BY <1>16 DEF WatchIdle, PairInv, Quiet
<1>17. ASSUME NEW s \in Senders, PumpRead(s) PROVE PairInv'
  <2>1. ASSUME NEW k \in Sockets, Quiet(k), isNil PROVE Quiet(k)'
    BY <1>17, <2>1, PumpCalls DEF Quiet, CallConn
  <2>2. isNil' = isNil  BY <1>17, PumpCalls DEF CallConn
  <2> QED  BY <2>1, <2>2 DEF PairInv
<1>18. ASSUME NEW k \in Sockets, TunnelRead(k) PROVE PairInv'
  BY <1>18 DEF TunnelRead, PairInv, Quiet
<1>19. ASSUME NEW k \in Sockets, TunnelEnds(k) PROVE PairInv'
  BY <1>19 DEF TunnelEnds, PairInv, Quiet
<1>20. CASE UNCHANGED vars
  BY <1>20 DEF vars, PairInv, Quiet
<1> QED
  BY <1>1, <1>2, <1>3, <1>4, <1>5, <1>6, <1>7, <1>8, <1>9, <1>10, <1>11, <1>12, <1>13,
     <1>14, <1>15, <1>16, <1>17, <1>18, <1>19, <1>20 DEF Next, HandlerStep, CloseStep,
     PumpStep, ConnStep, Callers

\* Every open socket keeps a holder.
LEMMA LeakStep ==
    ASSUME RelayInv, [Next]_vars
    PROVE  NoLeakedSocket'
<1> USE DEF RelayInv, TypeOK, StageInv, SocketInv, NoLeakedSocket, Callers, Families
<1>1. CASE Create  BY <1>1, NoneIsNoSocket DEF Create, CallConn
<1>2. CASE Warmed  BY <1>2, NoneIsNoSocket DEF Warmed, CallConn
<1>3. CASE Answer  BY <1>3, NoneIsNoSocket DEF Answer
<1>4. ASSUME NEW t \in Callers, ConnCheck(t) PROVE NoLeakedSocket'
  BY <1>4, NoneIsNoSocket DEF ConnCheck, Ret
<1>5. ASSUME NEW t \in Callers, ConnListen(t) PROVE NoLeakedSocket'
  <2>1. hand[t] = None  BY <1>5 DEF ConnListen
  <2>2. CASE Ret(t, None) /\ UNCHANGED <<hand, open>>
    BY <1>5, <2>2 DEF ConnListen
  <2>3. CASE \E k : open' = open \cup {k} /\ hand' = [hand EXCEPT ![t] = k]
    BY <1>5, <2>1, <2>3, NoneIsNoSocket DEF ConnListen
  <2> QED  BY <1>5, <2>2, <2>3 DEF ConnListen
<1>6. ASSUME NEW t \in Callers, ConnStore(t) PROVE NoLeakedSocket'
  BY <1>6, NoneIsNoSocket DEF ConnStore, Ret
<1>7. ASSUME NEW t \in Callers, ConnSpawn(t) PROVE NoLeakedSocket'
  BY <1>7, NoneIsNoSocket DEF ConnSpawn
<1>8. CASE CloseBegin  BY <1>8, NoneIsNoSocket DEF CloseBegin, Closing
<1>9. CASE CloseTunnel  BY <1>9, NoneIsNoSocket DEF CloseTunnel
<1>10. CASE CloseWait  BY <1>10, NoneIsNoSocket DEF CloseWait
<1>11. CASE CloseReturns  BY <1>11, NoneIsNoSocket DEF CloseReturns
<1>12. CASE PumpResolve
  BY <1>12, PumpCalls DEF CallConn
<1>13. CASE PumpSend  BY <1>13, NoneIsNoSocket DEF PumpSend
<1>14. CASE PumpEnds  BY <1>14, NoneIsNoSocket DEF PumpEnds
<1>15. CASE ControlEnds  BY <1>15, NoneIsNoSocket DEF ControlEnds
<1>16. CASE WatchIdle  BY <1>16, NoneIsNoSocket DEF WatchIdle
<1>17. ASSUME NEW s \in Senders, PumpRead(s) PROVE NoLeakedSocket'
  BY <1>17, PumpCalls DEF CallConn
<1>18. ASSUME NEW k \in Sockets, TunnelRead(k) PROVE NoLeakedSocket'
  BY <1>18, NoneIsNoSocket DEF TunnelRead
<1>19. ASSUME NEW k \in Sockets, TunnelEnds(k) PROVE NoLeakedSocket'
  BY <1>19, NoneIsNoSocket DEF TunnelEnds
<1>20. CASE UNCHANGED vars
  BY <1>20, NoneIsNoSocket DEF vars
<1> QED
  BY <1>1, <1>2, <1>3, <1>4, <1>5, <1>6, <1>7, <1>8, <1>9, <1>10, <1>11, <1>12, <1>13,
     <1>14, <1>15, <1>16, <1>17, <1>18, <1>19, <1>20 DEF Next, HandlerStep, CloseStep,
     PumpStep, ConnStep, Callers

-----------------------------------------------------------------------------
(* Theorems *)

\* The facts about the goroutines, Close and the sockets hold in every state of every
\* association of udp.go.
THEOREM RelayInvariant == Spec => []RelayInv
<1>1. ASSUME Init PROVE RelayInv
  <2> USE DEF Init, Callers, Families
  <2>1. TypeOK  BY <1>1 DEF TypeOK
  <2>2. StageInv /\ OpenersInv /\ PairInv  BY <1>1 DEF StageInv, OpenersInv, PairInv
  <2>3. CloseInv  BY <1>1 DEF CloseInv, Working
  <2>4. SocketInv /\ ReturnInv /\ PumpInv /\ NoLeakedSocket
    BY <1>1 DEF SocketInv, ReturnInv, PumpInv, NoLeakedSocket
  <2> QED  BY <2>1, <2>2, <2>3, <2>4 DEF RelayInv
<1>2. RelayInv /\ [Next]_vars => RelayInv'
  BY TypeStep, StageStep, CloseStepInv, SocketStep, ReturnStep, PumpStepInv, OpenersStep,
     PairStep, LeakStep DEF RelayInv
<1> QED  BY <1>1, <1>2, PTL DEF Spec

\* The state of a relay stays well typed; in particular ListenUDP has a socket to
\* return whenever it is asked, and the relay deals with local senders only.
THEOREM RelayTypes == Spec => []TypeOK
<1>1. RelayInv => TypeOK  BY DEF RelayInv
<1> QED  BY <1>1, RelayInvariant, PTL

\* However the two openers, Close and the idle watcher interleave, every open
\* in-tunnel socket is in the map, where Close finds it, or in the hand of the
\* caller that is about to store or close it.
THEOREM SocketsNeverLeak == Spec => []NoLeakedSocket
<1>1. RelayInv => NoLeakedSocket  BY DEF RelayInv
<1> QED  BY <1>1, RelayInvariant, PTL

-----------------------------------------------------------------------------
(* The header of a datagram *)

\* The length of an address as RFC 1928 gives it.
AddrLen(d) == CASE d.atyp = "ipv4" -> 4 [] d.atyp = "ipv6" -> 16
                [] d.atyp = "domain" -> 1 + d.dl [] OTHER -> 0

WellFormed(d) ==
    /\ d.rsv /\ ~d.frag /\ d.port /\ d.atyp # "other"
    /\ d.atyp = "domain" => d.dl > 0
    /\ 2 + 1 + 1 + AddrLen(d) + 2 <= d.len

\* Whatever its length, a datagram is accepted if it is well formed and its payload
\* is what follows the header.
LEMMA ParseSplits ==
    ASSUME NEW d, d.len \in Nat, d.dl \in Nat, d.atyp \in AddressTypes
    PROVE  ParseUDPHeader(d) = IF WellFormed(d)
                               THEN [ok |-> TRUE, payload |-> d.len - (6 + AddrLen(d))]
                               ELSE Rejected
<1>1. ASSUME NEW n \in Nat, AddrLen(d) = n, d.atyp \in {"ipv4", "ipv6"},
             n = IF d.atyp = "ipv4" THEN 4 ELSE 16
      PROVE  ParseUDPHeader(d) = IF WellFormed(d)
                                 THEN [ok |-> TRUE, payload |-> d.len - (6 + n)]
                                 ELSE Rejected
  <2> DEFINE bad == d.len < 4 \/ ~d.rsv \/ d.frag \/ d.len - 4 < n + 2 \/ ~d.port
  <2>1. ParseUDPHeader(d) = IF bad THEN Rejected
                            ELSE [ok |-> TRUE, payload |-> d.len - 4 - n - 2]
    BY <1>1 DEF ParseUDPHeader
  <2>2. d.len - 4 - n - 2 = d.len - (6 + n)  OBVIOUS
  <2>3. bad <=> ~WellFormed(d)  BY <1>1 DEF WellFormed
  <2> QED  BY <2>1, <2>2, <2>3, Zenon
<1>2. CASE d.atyp = "ipv4"  BY <1>1, <1>2 DEF AddrLen
<1>3. CASE d.atyp = "ipv6"  BY <1>1, <1>3 DEF AddrLen
<1>4. CASE d.atyp = "domain"
  <2> DEFINE bad == d.len < 4 \/ ~d.rsv \/ d.frag \/ d.len - 4 < 1 \/ d.dl = 0
                      \/ d.len - 4 < 1 + d.dl + 2 \/ ~d.port
  <2>1. ParseUDPHeader(d) = IF bad THEN Rejected
                            ELSE [ok |-> TRUE, payload |-> d.len - 4 - (1 + d.dl) - 2]
    BY <1>4 DEF ParseUDPHeader
  <2>2. AddrLen(d) = 1 + d.dl  BY <1>4 DEF AddrLen
  <2>3. d.len - 4 - (1 + d.dl) - 2 = d.len - (6 + (1 + d.dl))  OBVIOUS
  <2>4. bad <=> ~WellFormed(d)  BY <1>4, <2>2 DEF WellFormed
  <2> QED  BY <2>1, <2>2, <2>3, <2>4, Zenon
<1>5. CASE d.atyp = "other"  BY <1>5 DEF ParseUDPHeader, WellFormed
<1> QED  BY <1>2, <1>3, <1>4, <1>5 DEF AddressTypes

\* What buildUDPHeader puts before a payload is read back as that payload.
LEMMA BuildParses ==
    ASSUME NEW v4 \in BOOLEAN, NEW n \in Nat
    PROVE  ParseUDPHeader(BuildUDPHeader(v4, TRUE, n)) = [ok |-> TRUE, payload |-> n]
<1> DEFINE d == BuildUDPHeader(v4, TRUE, n)
           a == IF v4 THEN 4 ELSE 16
<1>1. /\ d.rsv /\ ~d.frag /\ d.port
      /\ d.len = 6 + a + n /\ d.dl = 0
      /\ d.atyp = IF v4 THEN "ipv4" ELSE "ipv6"
  BY DEF BuildUDPHeader
<1> HIDE DEF d
<1>2. AddrLen(d) = a  BY <1>1 DEF AddrLen
<1>3. WellFormed(d) /\ d.len - (6 + a) = n  BY <1>1, <1>2 DEF WellFormed
<1>4. ParseUDPHeader(d) = [ok |-> TRUE, payload |-> n]
  <2>1. d.len \in Nat /\ d.dl \in Nat /\ d.atyp \in AddressTypes  BY <1>1 DEF AddressTypes
  <2> QED  BY <1>2, <1>3, <2>1, ParseSplits
<1> QED  BY <1>4 DEF d

\* parseUDPHeader splits every datagram where the RFC says, and agrees with
\* buildUDPHeader, for every length and not only those around the boundaries.
THEOREM HeaderIsSplit == Spec => []HeaderSplit
<1>1. ASSUME NEW d \in Datagrams
      PROVE  ParseUDPHeader(d) = IF WellFormed(d)
                                 THEN [ok |-> TRUE, payload |-> d.len - (6 + AddrLen(d))]
                                 ELSE Rejected
  BY ParseSplits, RelayAssumption DEF Datagrams
<1>2. \A v4 \in BOOLEAN, n \in Lengths :
        ParseUDPHeader(BuildUDPHeader(v4, TRUE, n)) = [ok |-> TRUE, payload |-> n]
  BY BuildParses, RelayAssumption
<1>3. HeaderSplit  BY <1>1, <1>2 DEF HeaderSplit, WellFormed, AddrLen
<1> QED  BY <1>3, PTL

-----------------------------------------------------------------------------
(* The refinement *)

Phase == CASE hpc = "hold" -> "told" [] hpc = "close" -> "closing"
           [] hpc = "done" -> "released" [] OTHER -> "opening"
Client == IF expect \in Senders THEN expect ELSE None

\* An association that has been released has nothing left, so nothing moves.
LEMMA ReleasedMeansQuiet ==
    ASSUME RelayInv, hpc = "done"
    PROVE  open = {} /\ ~Working
<1>1. CASE ppc = "off"
  <2>1. open = {} /\ wpc = "off"  BY <1>1 DEF RelayInv, StageInv
  <2>2. \A k \in Sockets : tpc[k] = "off"  BY <1>1 DEF RelayInv, PumpInv
  <2> QED  BY <1>1, <2>1, <2>2 DEF Working
<1>2. CASE ppc # "off"
  <2>1. once = "done" /\ ~Working /\ isNil  BY <1>2 DEF RelayInv, CloseInv
  <2>2. ppc # "conn"  BY <2>1 DEF Working
  <2>3. \A t \in Callers : hand[t] = None
    BY <2>2 DEF RelayInv, StageInv, SocketInv, Callers
  <2>4. open = {}  BY <2>1, <2>3, NoneIsNoSocket DEF RelayInv, NoLeakedSocket, TypeOK
  <2> QED  BY <2>1, <2>4
<1> QED  BY <1>1, <1>2

\* A step that leaves the phase, the client and what was dealt with alone, and that
\* is not taken by a released association, is work or nothing.
LEMMA WorkOrNothing ==
    ASSUME RelayInv, TypeOK', UNCHANGED <<hpc, expect, dealt>>,
           hpc # "done" \/ UNCHANGED <<open, Working>>
    PROVE  [Promise!Next]_(Promise!vars)
<1>1. Phase' = Phase /\ Client' = Client  BY DEF Phase, Client
<1>2. open' \subseteq Sockets /\ Working' \in BOOLEAN  BY DEF TypeOK, Working
<1>3. CASE UNCHANGED <<open, Working>>
  BY <1>1, <1>3 DEF Promise!vars, Phase, Client
<1>4. CASE hpc # "done"
  <2>1. Promise!Work  BY <1>1, <1>2, <1>4 DEF Promise!Work, Phase, Client
  <2> QED  BY <2>1 DEF Promise!Next
<1> QED  BY <1>3, <1>4

\* Every step of the relay is a step of its association, or none: the answer
\* tells the client, the handler's return releases, a datagram is an exchange.
LEMMA StepSimulates ==
    ASSUME RelayInv, [Next]_vars, TypeOK'
    PROVE  [Promise!Next]_(Promise!vars)
<1>1. CASE Create
  <2>1. CASE hpc' = "warm"
    <3>1. Phase' = Phase /\ Client' = Client /\ open' = open /\ dealt' = dealt
      BY <1>1, <2>1 DEF Create, Phase, Client
    <3>2. open \subseteq Sockets /\ Working' \in BOOLEAN  BY DEF RelayInv, TypeOK, Working
    <3>3. hpc # "done"  BY <1>1 DEF Create
    <3>4. Promise!Work  BY <3>1, <3>2, <3>3 DEF Promise!Work, Phase, Client
    <3> QED  BY <3>4 DEF Promise!Next
  <2>2. CASE hpc' = "done"
    <3>1. ppc = "off" /\ wpc = "off" /\ open = {} /\ \A k \in Sockets : tpc[k] = "off"
      BY <1>1 DEF Create, RelayInv, StageInv, PumpInv
    <3>2. ~Working  BY <3>1 DEF Working
    <3>3. Working' = Working /\ UNCHANGED <<open, dealt, expect>>
      BY <1>1, <2>2 DEF Create, Working
    <3>4. Promise!Release
      BY <1>1, <2>2, <3>1, <3>2, <3>3 DEF Create, Promise!Release
    <3> QED  BY <3>4 DEF Promise!Next
  <2> QED  BY <1>1, <2>1, <2>2 DEF Create
<1>2. CASE Warmed
  <2>1. Phase' = Phase /\ Client' = Client  BY <1>2 DEF Warmed, Phase, Client
  <2>2. UNCHANGED <<open, Working, dealt>>  BY <1>2 DEF Warmed, Working
  <2> QED  BY <2>1, <2>2 DEF Promise!vars, Phase, Client
<1>3. CASE Answer
  <2>1. UNCHANGED <<expect, open, Working, dealt>>  BY <1>3 DEF Answer, Working
  <2>2. CASE hpc = "reply" /\ hpc' = "hold"
    <3>1. open # {}  BY <2>2, NoneIsNoSocket DEF RelayInv, ReturnInv, SocketInv
    <3>2. Promise!Tell  BY <2>1, <2>2, <3>1 DEF Promise!Tell
    <3> QED  BY <3>2 DEF Promise!Next
  <2>3. CASE hpc \in {"refuse", "reply", "hold"} /\ hpc' = "close"
    <3>1. Promise!Close  BY <2>1, <2>3 DEF Promise!Close
    <3> QED  BY <3>1 DEF Promise!Next
  <2> QED  BY <1>3, <2>2, <2>3 DEF Answer
<1>4. ASSUME NEW t \in Callers, ConnCheck(t) PROVE [Promise!Next]_(Promise!vars)
  <2>1. UNCHANGED <<hpc, expect, dealt>>  BY <1>4 DEF ConnCheck, Ret
  <2>2. hpc # "done" \/ UNCHANGED <<open, Working>>
    BY <1>4, ReleasedMeansQuiet DEF ConnCheck, Ret, Working
  <2> QED  BY <2>1, <2>2, WorkOrNothing
<1>5. ASSUME NEW t \in Callers, ConnListen(t) PROVE [Promise!Next]_(Promise!vars)
  <2>1. UNCHANGED <<hpc, expect, dealt>>  BY <1>5 DEF ConnListen
  <2>2. hpc # "done" \/ UNCHANGED <<open, Working>>
    BY <1>5, ReleasedMeansQuiet DEF ConnListen, RelayInv, StageInv, Callers, Working
  <2> QED  BY <2>1, <2>2, WorkOrNothing
<1>6. ASSUME NEW t \in Callers, ConnStore(t) PROVE [Promise!Next]_(Promise!vars)
  <2>1. UNCHANGED <<hpc, expect, dealt>>  BY <1>6 DEF ConnStore
  <2>2. hpc # "done" \/ UNCHANGED <<open, Working>>
    BY <1>6, ReleasedMeansQuiet DEF ConnStore, RelayInv, StageInv, Callers, Working
  <2> QED  BY <2>1, <2>2, WorkOrNothing
<1>7. ASSUME NEW t \in Callers, ConnSpawn(t) PROVE [Promise!Next]_(Promise!vars)
  <2>1. UNCHANGED <<hpc, expect, dealt>>  BY <1>7 DEF ConnSpawn
  <2>2. hpc # "done" \/ UNCHANGED <<open, Working>>
    BY <1>7, ReleasedMeansQuiet DEF ConnSpawn, RelayInv, StageInv, Callers, Working
  <2> QED  BY <2>1, <2>2, WorkOrNothing
<1>8. CASE CloseBegin
  <2>1. UNCHANGED <<hpc, expect, dealt>>  BY <1>8 DEF CloseBegin
  <2>2. hpc # "done" \/ UNCHANGED <<open, Working>>
    BY <1>8, ReleasedMeansQuiet DEF CloseBegin, Working
  <2> QED  BY <2>1, <2>2, WorkOrNothing
<1>9. CASE CloseTunnel
  <2>1. UNCHANGED <<hpc, expect, dealt>>  BY <1>9 DEF CloseTunnel
  <2>2. hpc # "done" \/ UNCHANGED <<open, Working>>
    BY <1>9, ReleasedMeansQuiet DEF CloseTunnel, RelayInv, CloseInv, StageInv
  <2> QED  BY <2>1, <2>2, WorkOrNothing
<1>10. CASE CloseWait
  <2>1. UNCHANGED <<hpc, expect, dealt>>  BY <1>10 DEF CloseWait
  <2>2. hpc # "done" \/ UNCHANGED <<open, Working>>
    BY <1>10, ReleasedMeansQuiet DEF CloseWait, Working
  <2> QED  BY <2>1, <2>2, WorkOrNothing
<1>11. CASE CloseReturns
  <2>1. UNCHANGED <<expect, open, Working, dealt>>  BY <1>11 DEF CloseReturns, Working
  <2>2. CASE hpc = "close" /\ hpc' = "done"
    <3>1. open' = {} /\ ~Working'
      <4>1. once = "done" /\ isNil /\ ~Working  BY <1>11 DEF CloseReturns, RelayInv, CloseInv
      <4>2. \A t \in Callers : hand[t] = None
        BY <2>2, <4>1 DEF RelayInv, StageInv, SocketInv, Callers, Working
      <4>3. open = {}  BY <4>1, <4>2, NoneIsNoSocket DEF RelayInv, NoLeakedSocket, TypeOK
      <4> QED  BY <2>1, <4>1, <4>3
    <3>2. Promise!Release  BY <2>1, <2>2, <3>1 DEF Promise!Release
    <3> QED  BY <3>2 DEF Promise!Next
  <2>3. CASE hpc' = hpc
    BY <2>1, <2>3 DEF Promise!vars
  <2> QED  BY <1>11, <2>2, <2>3 DEF CloseReturns
<1>12. CASE PumpResolve
  <2>1. UNCHANGED <<hpc, expect, dealt>>  BY <1>12 DEF PumpResolve
  <2>2. hpc # "done" \/ UNCHANGED <<open, Working>>
    BY <1>12, ReleasedMeansQuiet DEF PumpResolve, Working
  <2> QED  BY <2>1, <2>2, WorkOrNothing
<1>13. CASE PumpSend
  <2>1. UNCHANGED <<hpc, expect, dealt>>  BY <1>13 DEF PumpSend
  <2>2. hpc # "done" \/ UNCHANGED <<open, Working>>
    BY <1>13, ReleasedMeansQuiet DEF PumpSend, Working
  <2> QED  BY <2>1, <2>2, WorkOrNothing
<1>14. CASE PumpEnds
  <2>1. UNCHANGED <<hpc, expect, dealt>>  BY <1>14 DEF PumpEnds
  <2>2. hpc # "done" \/ UNCHANGED <<open, Working>>
    BY <1>14, ReleasedMeansQuiet DEF PumpEnds, Working
  <2> QED  BY <2>1, <2>2, WorkOrNothing
<1>15. CASE ControlEnds
  <2>1. UNCHANGED <<hpc, expect, dealt>>  BY <1>15 DEF ControlEnds
  <2>2. hpc # "done" \/ UNCHANGED <<open, Working>>
    BY <1>15, ReleasedMeansQuiet DEF ControlEnds, Working
  <2> QED  BY <2>1, <2>2, WorkOrNothing
<1>16. CASE WatchIdle
  <2>1. UNCHANGED <<hpc, expect, dealt>>  BY <1>16 DEF WatchIdle
  <2>2. hpc # "done" \/ UNCHANGED <<open, Working>>
    BY <1>16, ReleasedMeansQuiet DEF WatchIdle, Working
  <2> QED  BY <2>1, <2>2, WorkOrNothing
<1>17. ASSUME NEW s \in Senders, PumpRead(s) PROVE [Promise!Next]_(Promise!vars)
  <2>1. hpc # "done" /\ UNCHANGED <<hpc, open>>
    BY <1>17, ReleasedMeansQuiet DEF PumpRead, Working
  <2>2. Working' = Working  BY <1>17, PumpCalls DEF PumpRead, Working
  <2>3. /\ Client' \in Senders /\ dealt' = dealt \cup {Client'}
        /\ Client # None => Client' = Client
    BY <1>17, RelayAssumption DEF PumpRead, AcceptFrom, Unclaimed, Client
  <2>4. Promise!Exchange  BY <2>1, <2>2, <2>3 DEF Promise!Exchange, Client
  <2> QED  BY <2>4 DEF Promise!Next
<1>18. ASSUME NEW k \in Sockets, TunnelRead(k) PROVE [Promise!Next]_(Promise!vars)
  <2>1. hpc # "done" /\ UNCHANGED <<hpc, open>>
    BY <1>18, ReleasedMeansQuiet DEF TunnelRead, Working
  <2>2. Working' = Working  BY <1>18 DEF TunnelRead, Working
  <2>3. /\ Client' \in Senders /\ dealt' = dealt \cup {Client'}
        /\ Client # None => Client' = Client
    BY <1>18, RelayAssumption DEF TunnelRead, Client
  <2>4. Promise!Exchange  BY <2>1, <2>2, <2>3 DEF Promise!Exchange, Client
  <2> QED  BY <2>4 DEF Promise!Next
<1>19. ASSUME NEW k \in Sockets, TunnelEnds(k) PROVE [Promise!Next]_(Promise!vars)
  <2>1. UNCHANGED <<hpc, expect, dealt>>  BY <1>19 DEF TunnelEnds
  <2>2. hpc # "done" \/ UNCHANGED <<open, Working>>
    BY <1>19, ReleasedMeansQuiet DEF TunnelEnds, Working
  <2> QED  BY <2>1, <2>2, WorkOrNothing
<1>20. CASE UNCHANGED vars
  BY <1>20 DEF vars, Promise!vars, Working
<1> QED
  BY <1>1, <1>2, <1>3, <1>4, <1>5, <1>6, <1>7, <1>8, <1>9, <1>10, <1>11, <1>12, <1>13,
     <1>14, <1>15, <1>16, <1>17, <1>18, <1>19, <1>20 DEF Next, HandlerStep, CloseStep,
     PumpStep, ConnStep, Callers

\* The relay is an association: it belongs to one local client, is announced only when
\* a socket in the tunnel is open for it, and its handler returns when nothing of it
\* is left.
THEOREM RelayKeepsPromise == Spec => KeepsPromise
<1>1. ASSUME Init PROVE Promise!Init
  <2>1. ~Working  BY <1>1 DEF Init, Working
  <2> QED  BY <1>1, <2>1, RelayAssumption DEF Init, Promise!Init, Declared
<1>2. RelayInv /\ RelayInv' /\ [Next]_vars => [Promise!Next]_(Promise!vars)
  BY StepSimulates DEF RelayInv
<1> QED  BY <1>1, <1>2, RelayInvariant, PTL DEF Spec, KeepsPromise, Promise!Spec
=============================================================================
