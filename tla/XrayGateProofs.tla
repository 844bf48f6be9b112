--------------------------- MODULE XrayGateProofs ---------------------------
(***************************************************************************)
(* Safety of the gate for any number of connections, inbounds and          *)
(* instances: IInv is inductive, and implies the safety properties.        *)
(***************************************************************************)
EXTENDS XrayGate, FiniteSetTheorems, TLAPS

\* The constants as the provers need them.
USE GateAssumption DEF GateAssumption

\* The abbreviations of the state, expanded everywhere.
USE DEF gateVars, connVars, useVars, sweepVars, closeVars, listenVars,
        handlerVars, Lives, HandlerPCs, SweeperPCs, CloserPCs, InstOrNone

\* The two sockets of a handler are different from every other socket.
LEMMA SocketsDistinct ==
    ASSUME NEW g \in Handlers, NEW h \in Handlers
    PROVE  /\ Conn(g) \in Sockets /\ Upstream(g) \in Sockets
           /\ Conn(g) # Upstream(h)
           /\ Conn(g) = Conn(h) => g = h
           /\ Upstream(g) = Upstream(h) => g = h
  BY DEF Conn, Upstream, Sockets

\* The gate that StartGate has just begun satisfies the invariant.
LEMMA InitIInv == Init => IInv
  <1> SUFFICES ASSUME Init PROVE IInv
    OBVIOUS
  <1>1. TypeOK
    <2>1. closed \in BOOLEAN /\ stopped \in BOOLEAN /\ connsNil \in BOOLEAN
      BY Zenon DEF Init
    <2>. QED
      BY <2>1 DEF Init, TypeOK
  <1>2. BuildInv
    BY DEF Init, BuildInv
  <1>3. OwnerInv
    BY DEF Init, OwnerInv
  <1>4. ClosedInv
    BY DEF Init, ClosedInv
  <1>5. SocketInv
    BY DEF Init, SocketInv
  <1>6. IdleInv
    BY DEF Init, IdleInv
  <1>. QED
    BY <1>1, <1>2, <1>3, <1>4, <1>5, <1>6 DEF IInv

\* Every step keeps the types.
LEMMA StepTypeOK == IInv /\ [Next]_vars => TypeOK'
  <1> SUFFICES ASSUME IInv, [Next]_vars PROVE TypeOK'
    OBVIOUS
  <1>0. TypeOK /\ BuildInv /\ OwnerInv
    BY DEF IInv
  <1> USE <1>0
  <1> USE DEF TypeOK
  <1>1. CASE UNCHANGED vars
    BY <1>1 DEF vars
  <1>2. CASE \E b \in Bridges : Listen(b)
    BY <1>2 DEF Listen
  <1>3. CASE ListenFail
    BY <1>3 DEF ListenFail
  <1>4. CASE StartGate
    BY <1>4 DEF StartGate
  <1>5. ASSUME NEW h \in Handlers, Serve(h) \/ Handle(h) \/ RelayEnd(h)
        PROVE  TypeOK'
    <2> USE SocketsDistinct DEF Goto
    <2>1. CASE Serve(h)
      BY <2>1 DEF Serve
    <2>2. CASE Track(h)
      BY <2>2 DEF Track
    <2>3. CASE Count(h)
      BY <2>3 DEF Count
    <2>4. CASE Touch(h)
      BY <2>4 DEF Touch
    <2>5. CASE EnsureRefused(h)
      BY <2>5 DEF EnsureRefused
    <2>6. CASE EnsureWarm(h)
      BY <2>6 DEF EnsureWarm
    <2>7. CASE EnsureCreate(h)
      BY <2>7 DEF EnsureCreate
    <2>8. CASE EnsurePrepare(h)
      BY <2>8 DEF EnsurePrepare
    <2>9. CASE EnsureStart(h)
      <3>1. building \in Insts
        BY <2>9 DEF EnsureStart, BuildInv
      <3>. QED
        BY <2>9, <3>1 DEF EnsureStart
    <2>10. CASE EnsureFail(h)
      <3>1. building \in Insts
        BY <2>10 DEF EnsureFail, BuildInv
      <3>. QED
        BY <2>10, <3>1 DEF EnsureFail
    <2>11. CASE Dial(h) \/ DialFail(h)
      BY <2>11 DEF Dial, DialFail
    <2>12. CASE TrackUpstream(h)
      BY <2>12 DEF TrackUpstream
    <2>13. CASE RelayEnd(h)
      BY <2>13 DEF RelayEnd
    <2>14. CASE ForgetUpstream(h)
      BY <2>14 DEF ForgetUpstream
    <2>15. CASE Uncount(h) \/ Untouch(h) \/ ForgetConn(h)
      BY <2>15 DEF Uncount, Untouch, ForgetConn
    <2>. QED
      BY <1>5, <2>1, <2>2, <2>3, <2>4, <2>5, <2>6, <2>7, <2>8, <2>9, <2>10,
         <2>11, <2>12, <2>13, <2>14, <2>15 DEF Handle
  <1>6. CASE IdlePasses
    BY <1>6 DEF IdlePasses
  <1>7. CASE Sweep \/ SweepExit
    BY <1>7 DEF Sweep, SweepExit, SweepReadActive, SweepReadLastUse, SweepTake,
                SweepClose
  <1>8. CASE CloseBegin
    BY <1>8 DEF CloseBegin
  <1>9. CASE Close
    <2>1. CASE CloseStopped
      BY <2>1 DEF CloseStopped
    <2>2. CASE \E b \in Bridges : CloseListener(b)
      BY <2>2 DEF CloseListener
    <2>3. CASE CloseConns
      BY <2>3 DEF CloseConns
    <2>4. CASE \E s \in doomedConns : CloseConn(s)
      BY <2>4 DEF CloseConn
    <2>5. CASE CloseInstance
      BY <2>5 DEF CloseInstance
    <2>. QED
      BY <1>9, <2>1, <2>2, <2>3, <2>4, <2>5 DEF Close
  <1>. QED
    BY <1>1, <1>2, <1>3, <1>4, <1>5, <1>6, <1>7, <1>8, <1>9 DEF Next

\* ensure() alone builds, and it holds mu while it does.
LEMMA StepBuildInv == IInv /\ [Next]_vars => BuildInv'
  <1> SUFFICES ASSUME IInv, [Next]_vars PROVE BuildInv'
    OBVIOUS
  <1> USE DEF IInv, TypeOK, BuildInv
  <1>1. CASE UNCHANGED vars
    BY <1>1 DEF vars
  <1>2. CASE \E b \in Bridges : Listen(b)
    BY <1>2 DEF Listen
  <1>3. CASE ListenFail
    BY <1>3 DEF ListenFail
  <1>4. CASE StartGate
    BY <1>4 DEF StartGate
  <1>5. ASSUME NEW h \in Handlers, Serve(h) \/ Handle(h) \/ RelayEnd(h)
        PROVE  BuildInv'
    <2> USE DEF Goto
    <2>1. CASE Serve(h)
      BY <2>1 DEF Serve
    <2>2. CASE Track(h)
      BY <2>2 DEF Track
    <2>3. CASE Count(h)
      BY <2>3 DEF Count
    <2>4. CASE Touch(h)
      BY <2>4 DEF Touch
    <2>5. CASE EnsureRefused(h)
      BY <2>5 DEF EnsureRefused
    <2>6. CASE EnsureWarm(h)
      BY <2>6 DEF EnsureWarm
    <2>7. CASE EnsureCreate(h)
      BY <2>7 DEF EnsureCreate
    <2>8. CASE EnsurePrepare(h)
      BY <2>8 DEF EnsurePrepare
    <2>9. CASE EnsureStart(h)
      BY <2>9 DEF EnsureStart
    <2>10. CASE EnsureFail(h)
      BY <2>10 DEF EnsureFail
    <2>11. CASE Dial(h)
      BY <2>11 DEF Dial
    <2>12. CASE DialFail(h)
      BY <2>12 DEF DialFail
    <2>13. CASE TrackUpstream(h)
      BY <2>13 DEF TrackUpstream
    <2>14. CASE RelayEnd(h)
      BY <2>14 DEF RelayEnd
    <2>15. CASE ForgetUpstream(h)
      BY <2>15 DEF ForgetUpstream
    <2>16. CASE Uncount(h)
      BY <2>16 DEF Uncount
    <2>17. CASE Untouch(h)
      BY <2>17 DEF Untouch
    <2>18. CASE ForgetConn(h)
      BY <2>18 DEF ForgetConn
    <2>. QED
      BY <1>5, <2>1, <2>2, <2>3, <2>4, <2>5, <2>6, <2>7, <2>8, <2>9, <2>10, <2>11, <2>12, <2>13, <2>14, <2>15, <2>16, <2>17, <2>18
         DEF Handle
  <1>6. CASE IdlePasses
    BY <1>6 DEF IdlePasses
  <1>7. CASE SweepReadActive \/ SweepReadLastUse \/ SweepExit
    BY <1>7 DEF SweepReadActive, SweepReadLastUse, SweepExit
  <1>8. CASE SweepTake
    BY <1>8 DEF SweepTake
  <1>9. CASE SweepClose
    BY <1>9 DEF SweepClose, OwnerInv
  <1>10. CASE CloseBegin
    BY <1>10 DEF CloseBegin
  <1>11. CASE CloseStopped
    BY <1>11 DEF CloseStopped
  <1>12. CASE \E b \in Bridges : CloseListener(b)
    BY <1>12 DEF CloseListener
  <1>13. CASE CloseConns
    BY <1>13 DEF CloseConns
  <1>14. CASE \E s \in doomedConns : CloseConn(s)
    BY <1>14 DEF CloseConn
  <1>15. CASE CloseInstance
    BY <1>15 DEF CloseInstance, OwnerInv
  <1>. QED
    BY <1>1, <1>2, <1>3, <1>4, <1>5, <1>6, <1>7, <1>8, <1>9, <1>10, <1>11, <1>12, <1>13, <1>14, <1>15
    DEF Next, Sweep, Close

\* A started instance is handed from owner to owner and never shared or lost.
LEMMA StepOwnerInv == IInv /\ [Next]_vars => OwnerInv'
  <1> SUFFICES ASSUME IInv, [Next]_vars PROVE OwnerInv'
    OBVIOUS
  <1> USE DEF IInv, TypeOK, OwnerInv
  <1>1. CASE UNCHANGED vars
    BY <1>1 DEF vars
  <1>2. CASE \E b \in Bridges : Listen(b)
    BY <1>2 DEF Listen
  <1>3. CASE ListenFail
    BY <1>3 DEF ListenFail
  <1>4. CASE StartGate
    BY <1>4 DEF StartGate
  <1>5. ASSUME NEW h \in Handlers, Serve(h) \/ Handle(h) \/ RelayEnd(h)
        PROVE  OwnerInv'
    <2> USE DEF Goto
    <2>1. CASE Serve(h)
      BY <2>1 DEF Serve
    <2>2. CASE Track(h)
      BY <2>2 DEF Track
    <2>3. CASE Count(h)
      BY <2>3 DEF Count
    <2>4. CASE Touch(h)
      BY <2>4 DEF Touch
    <2>5. CASE EnsureRefused(h)
      BY <2>5 DEF EnsureRefused
    <2>6. CASE EnsureWarm(h)
      BY <2>6 DEF EnsureWarm
    <2>7. CASE EnsureCreate(h)
      BY <2>7 DEF EnsureCreate
    <2>8. CASE EnsurePrepare(h)
      BY <2>8 DEF EnsurePrepare
    <2>9. CASE EnsureStart(h)
      BY <2>9 DEF EnsureStart, BuildInv
    <2>10. CASE EnsureFail(h)
      BY <2>10 DEF EnsureFail, BuildInv
    <2>11. CASE Dial(h)
      BY <2>11 DEF Dial
    <2>12. CASE DialFail(h)
      BY <2>12 DEF DialFail
    <2>13. CASE TrackUpstream(h)
      BY <2>13 DEF TrackUpstream
    <2>14. CASE RelayEnd(h)
      BY <2>14 DEF RelayEnd
    <2>15. CASE ForgetUpstream(h)
      BY <2>15 DEF ForgetUpstream
    <2>16. CASE Uncount(h)
      BY <2>16 DEF Uncount
    <2>17. CASE Untouch(h)
      BY <2>17 DEF Untouch
    <2>18. CASE ForgetConn(h)
      BY <2>18 DEF ForgetConn
    <2>. QED
      BY <1>5, <2>1, <2>2, <2>3, <2>4, <2>5, <2>6, <2>7, <2>8, <2>9, <2>10, <2>11, <2>12, <2>13, <2>14, <2>15, <2>16, <2>17, <2>18
         DEF Handle
  <1>6. CASE IdlePasses
    BY <1>6 DEF IdlePasses
  <1>7. CASE SweepReadActive \/ SweepReadLastUse \/ SweepExit
    BY <1>7 DEF SweepReadActive, SweepReadLastUse, SweepExit
  <1>8. CASE SweepTake
    BY <1>8 DEF SweepTake
  <1>9. CASE SweepClose
    BY <1>9 DEF SweepClose
  <1>10. CASE CloseBegin
    BY <1>10 DEF CloseBegin, ClosedInv
  <1>11. CASE CloseStopped
    BY <1>11 DEF CloseStopped
  <1>12. CASE \E b \in Bridges : CloseListener(b)
    BY <1>12 DEF CloseListener
  <1>13. CASE CloseConns
    BY <1>13 DEF CloseConns
  <1>14. CASE \E s \in doomedConns : CloseConn(s)
    BY <1>14 DEF CloseConn
  <1>15. CASE CloseInstance
    BY <1>15 DEF CloseInstance
  <1>. QED
    BY <1>1, <1>2, <1>3, <1>4, <1>5, <1>6, <1>7, <1>8, <1>9, <1>10, <1>11, <1>12, <1>13, <1>14, <1>15
    DEF Next, Sweep, Close

\* After closed is set nothing is built or published again.
LEMMA StepClosedInv == IInv /\ [Next]_vars => ClosedInv'
  <1> SUFFICES ASSUME IInv, [Next]_vars PROVE ClosedInv'
    OBVIOUS
  <1> USE DEF IInv, TypeOK, ClosedInv
  <1>1. CASE UNCHANGED vars
    BY <1>1 DEF vars
  <1>2. CASE \E b \in Bridges : Listen(b)
    BY <1>2 DEF Listen
  <1>3. CASE ListenFail
    BY <1>3 DEF ListenFail
  <1>4. CASE StartGate
    BY <1>4 DEF StartGate
  <1>5. ASSUME NEW h \in Handlers, Serve(h) \/ Handle(h) \/ RelayEnd(h)
        PROVE  ClosedInv'
    <2> USE DEF Goto
    <2>1. CASE Serve(h)
      BY <2>1 DEF Serve
    <2>2. CASE Track(h)
      BY <2>2 DEF Track
    <2>3. CASE Count(h)
      BY <2>3 DEF Count
    <2>4. CASE Touch(h)
      BY <2>4 DEF Touch
    <2>5. CASE EnsureRefused(h)
      BY <2>5 DEF EnsureRefused
    <2>6. CASE EnsureWarm(h)
      BY <2>6 DEF EnsureWarm
    <2>7. CASE EnsureCreate(h)
      BY <2>7 DEF EnsureCreate
    <2>8. CASE EnsurePrepare(h)
      BY <2>8 DEF EnsurePrepare
    <2>9. CASE EnsureStart(h)
      BY <2>9 DEF EnsureStart, BuildInv
    <2>10. CASE EnsureFail(h)
      BY <2>10 DEF EnsureFail
    <2>11. CASE Dial(h)
      BY <2>11 DEF Dial
    <2>12. CASE DialFail(h)
      BY <2>12 DEF DialFail
    <2>13. CASE TrackUpstream(h)
      BY <2>13 DEF TrackUpstream
    <2>14. CASE RelayEnd(h)
      BY <2>14 DEF RelayEnd
    <2>15. CASE ForgetUpstream(h)
      BY <2>15 DEF ForgetUpstream
    <2>16. CASE Uncount(h)
      BY <2>16 DEF Uncount
    <2>17. CASE Untouch(h)
      BY <2>17 DEF Untouch
    <2>18. CASE ForgetConn(h)
      BY <2>18 DEF ForgetConn
    <2>. QED
      BY <1>5, <2>1, <2>2, <2>3, <2>4, <2>5, <2>6, <2>7, <2>8, <2>9, <2>10, <2>11, <2>12, <2>13, <2>14, <2>15, <2>16, <2>17, <2>18
         DEF Handle
  <1>6. CASE IdlePasses
    BY <1>6 DEF IdlePasses
  <1>7. CASE SweepReadActive \/ SweepReadLastUse \/ SweepExit
    BY <1>7 DEF SweepReadActive, SweepReadLastUse, SweepExit
  <1>8. CASE SweepTake
    BY <1>8 DEF SweepTake
  <1>9. CASE SweepClose
    BY <1>9 DEF SweepClose
  <1>10. CASE CloseBegin
    BY <1>10 DEF CloseBegin
  <1>11. CASE CloseStopped
    BY <1>11 DEF CloseStopped
  <1>12. CASE \E b \in Bridges : CloseListener(b)
    BY <1>12 DEF CloseListener
  <1>13. CASE CloseConns
    BY <1>13 DEF CloseConns
  <1>14. CASE \E s \in doomedConns : CloseConn(s)
    BY <1>14 DEF CloseConn
  <1>15. CASE CloseInstance
    BY <1>15 DEF CloseInstance
  <1>. QED
    BY <1>1, <1>2, <1>3, <1>4, <1>5, <1>6, <1>7, <1>8, <1>9, <1>10, <1>11, <1>12, <1>13, <1>14, <1>15
    DEF Next, Sweep, Close

\* A socket that is still open stays within the reach of Close.
LEMMA StepSocketInv == IInv /\ [Next]_vars => SocketInv'
  <1> SUFFICES ASSUME IInv, [Next]_vars PROVE SocketInv'
    OBVIOUS
  <1> USE DEF IInv, TypeOK, SocketInv
  <1>1. CASE UNCHANGED vars
    BY <1>1 DEF vars
  <1>2. CASE \E b \in Bridges : Listen(b)
    BY <1>2 DEF Listen
  <1>3. CASE ListenFail
    BY <1>3 DEF ListenFail
  <1>4. CASE StartGate
    BY <1>4 DEF StartGate
  <1>5. ASSUME NEW h \in Handlers, Serve(h) \/ Handle(h) \/ RelayEnd(h)
        PROVE  SocketInv'
    <2> USE DEF Goto
    <2>1. CASE Serve(h)
      BY <2>1, SocketsDistinct DEF Serve
    <2>2. CASE Track(h)
      BY <2>2 DEF Track
    <2>3. CASE Count(h)
      BY <2>3 DEF Count
    <2>4. CASE Touch(h)
      BY <2>4 DEF Touch
    <2>5. CASE EnsureRefused(h)
      BY <2>5 DEF EnsureRefused
    <2>6. CASE EnsureWarm(h)
      BY <2>6 DEF EnsureWarm
    <2>7. CASE EnsureCreate(h)
      BY <2>7 DEF EnsureCreate
    <2>8. CASE EnsurePrepare(h)
      BY <2>8 DEF EnsurePrepare
    <2>9. CASE EnsureStart(h)
      BY <2>9 DEF EnsureStart
    <2>10. CASE EnsureFail(h)
      BY <2>10 DEF EnsureFail
    <2>11. CASE Dial(h)
      BY <2>11, SocketsDistinct DEF Dial
    <2>12. CASE DialFail(h)
      BY <2>12 DEF DialFail
    <2>13. CASE TrackUpstream(h)
      BY <2>13 DEF TrackUpstream
    <2>14. CASE RelayEnd(h)
      BY <2>14 DEF RelayEnd
    <2>15. CASE ForgetUpstream(h)
      BY <2>15 DEF ForgetUpstream
    <2>16. CASE Uncount(h)
      BY <2>16 DEF Uncount
    <2>17. CASE Untouch(h)
      BY <2>17 DEF Untouch
    <2>18. CASE ForgetConn(h)
      BY <2>18 DEF ForgetConn
    <2>. QED
      BY <1>5, <2>1, <2>2, <2>3, <2>4, <2>5, <2>6, <2>7, <2>8, <2>9, <2>10, <2>11, <2>12, <2>13, <2>14, <2>15, <2>16, <2>17, <2>18
         DEF Handle
  <1>6. CASE IdlePasses
    BY <1>6 DEF IdlePasses
  <1>7. CASE SweepReadActive \/ SweepReadLastUse \/ SweepExit
    BY <1>7 DEF SweepReadActive, SweepReadLastUse, SweepExit
  <1>8. CASE SweepTake
    BY <1>8 DEF SweepTake
  <1>9. CASE SweepClose
    BY <1>9 DEF SweepClose
  <1>10. CASE CloseBegin
    BY <1>10 DEF CloseBegin
  <1>11. CASE CloseStopped
    BY <1>11 DEF CloseStopped
  <1>12. CASE \E b \in Bridges : CloseListener(b)
    BY <1>12 DEF CloseListener
  <1>13. CASE CloseConns
    BY <1>13 DEF CloseConns
  <1>14. CASE \E s \in doomedConns : CloseConn(s)
    BY <1>14 DEF CloseConn
  <1>15. CASE CloseInstance
    BY <1>15 DEF CloseInstance
  <1>. QED
    BY <1>1, <1>2, <1>3, <1>4, <1>5, <1>6, <1>7, <1>8, <1>9, <1>10, <1>11, <1>12, <1>13, <1>14, <1>15
    DEF Next, Sweep, Close

\* Only the sweeper moves the sweeper, and idle 0 stops every tick of it.
LEMMA StepIdleInv == IInv /\ [Next]_vars => IdleInv'
  <1> SUFFICES ASSUME IInv, [Next]_vars PROVE IdleInv'
    OBVIOUS
  <1>0. IdleInv
    BY DEF IInv
  <1>1. UNCHANGED idle /\ (UNCHANGED sweeper \/ Sweep \/ SweepExit)
    BY DEF vars, Next, Close, Handle, Goto, Listen, ListenFail, StartGate,
           Serve, Track, Count, Touch, EnsureRefused, EnsureWarm, EnsureCreate,
           EnsurePrepare, EnsureStart, EnsureFail, Dial, DialFail,
           TrackUpstream, RelayEnd, ForgetUpstream, Uncount, Untouch,
           ForgetConn, IdlePasses, SweepExit, Sweep, SweepReadActive,
           SweepReadLastUse, SweepTake, SweepClose, CloseBegin, CloseStopped,
           CloseListener, CloseConns, CloseConn, CloseInstance
  <1>2. CASE UNCHANGED sweeper
    BY <1>0, <1>1, <1>2 DEF IdleInv
  <1>3. CASE Sweep \/ SweepExit
    BY <1>0, <1>1, <1>3 DEF IdleInv, Sweep, SweepExit, SweepReadActive,
                            SweepReadLastUse, SweepTake, SweepClose
  <1>. QED
    BY <1>1, <1>2, <1>3

-----------------------------------------------------------------------------
(* The theorems. *)

\* IInv is inductive: whatever the interleaving of connections, sweeper and
\* Close, and whichever calls into Xray fail, it holds in every state.
THEOREM GateInvariant == Spec => []IInv
  <1>1. IInv /\ [Next]_vars => IInv'
    BY StepTypeOK, StepBuildInv, StepOwnerInv, StepClosedInv, StepSocketInv,
       StepIdleInv
    DEF IInv
  <1>. QED
    BY InitIInv, <1>1, PTL DEF Spec

\* Every variable of the gate keeps its type.
THEOREM GateTypeOK == Spec => []TypeOK
  <1>1. IInv => TypeOK
    BY DEF IInv
  <1>. QED
    BY GateInvariant, <1>1, PTL

\* No instance is started and lost: each has exactly one owner that closes it.
THEOREM GateOwnsInstances == Spec => []InstanceOwned
  <1>1. IInv => InstanceOwned
    BY DEF IInv, TypeOK, BuildInv, OwnerInv, InstanceOwned
  <1>. QED
    BY GateInvariant, <1>1, PTL

\* Instance() hands out started instances only.
THEOREM GatePublishesUp == Spec => []PublishedIsUp
  <1>1. IInv => PublishedIsUp
    BY DEF IInv, TypeOK, OwnerInv, PublishedIsUp
  <1>. QED
    BY GateInvariant, <1>1, PTL

\* After Close has returned, nothing runs behind the gate except an instance
\* in the sweeper's hands.
THEOREM GateClosedRunsNothing == Spec => []ClosedGateRunsNothing
  <1>1. IInv => ClosedGateRunsNothing
    BY DEF IInv, TypeOK, BuildInv, OwnerInv, ClosedInv, ClosedGateRunsNothing
  <1>. QED
    BY GateInvariant, <1>1, PTL

\* After Close has returned, no relay has an open socket left.
THEOREM GateClosedCutsRelays == Spec => []ClosedGateCutsRelays
  <1>1. IInv => ClosedGateCutsRelays
    BY DEF IInv, TypeOK, SocketInv, ClosedGateCutsRelays
  <1>. QED
    BY GateInvariant, <1>1, PTL

\* With an idle period of 0 only Close takes the published instance away.
THEOREM GateResident == Spec => ResidentStaysUp
  <1>1. ASSUME IInv, [Next]_vars, idle = "zero", instance # None, ~closed'
        PROVE  instance' = instance
    <2>0. IdleInv /\ mu = None
      BY <1>1 DEF IInv, TypeOK, BuildInv
    <2>1. \/ UNCHANGED instance
          \/ \E h \in Handlers : EnsureStart(h)
          \/ SweepTake \/ CloseBegin
      BY <1>1
      DEF vars, Next, Close, Handle, Goto, Listen, ListenFail, StartGate,
          Serve, Track, Count, Touch, EnsureRefused, EnsureWarm, EnsureCreate,
          EnsurePrepare, EnsureFail, Dial, DialFail, TrackUpstream, RelayEnd,
          ForgetUpstream, Uncount, Untouch, ForgetConn, IdlePasses, SweepExit,
          Sweep, SweepReadActive, SweepReadLastUse, SweepClose, CloseStopped,
          CloseListener, CloseConns, CloseConn, CloseInstance
    <2>2. ASSUME NEW h \in Handlers PROVE ~EnsureStart(h)
      BY <1>1, <2>0 DEF IInv, BuildInv, EnsureStart, Goto
    <2>3. ~SweepTake
      BY <1>1, <2>0 DEF IdleInv, SweepTake
    <2>4. ~CloseBegin
      BY <1>1 DEF CloseBegin
    <2>. QED
      BY <2>1, <2>2, <2>3, <2>4
  <1>. QED
    BY GateInvariant, <1>1, PTL DEF Spec, ResidentStaysUp

-----------------------------------------------------------------------------
(* The count of connections *)

LEMMA StepStageInv == StageInv /\ [Next]_vars => StageInv'
  <1> SUFFICES ASSUME StageInv, [Next]_vars PROVE StageInv'
    OBVIOUS
  <1> USE DEF StageInv
  <1>1. CASE UNCHANGED vars
    BY <1>1 DEF vars
  <1>2. CASE \/ \E b \in Bridges : Listen(b)
             \/ ListenFail \/ StartGate \/ IdlePasses
    BY <1>2 DEF Listen, ListenFail, StartGate, IdlePasses
  <1>3. ASSUME NEW h \in Handlers, Serve(h) \/ Handle(h) \/ RelayEnd(h)
        PROVE  StageInv'
    BY <1>3 DEF Handle, Goto, Serve, Track, Count, Touch, EnsureRefused, EnsureWarm,
                EnsureCreate, EnsurePrepare, EnsureStart, EnsureFail, Dial, DialFail,
                TrackUpstream, RelayEnd, ForgetUpstream, Uncount, Untouch, ForgetConn
  <1>4. CASE Sweep \/ SweepExit
    BY <1>4 DEF Sweep, SweepExit, SweepReadActive, SweepReadLastUse, SweepTake, SweepClose
  <1>5. CASE CloseBegin \/ Close
    BY <1>5 DEF CloseBegin, Close, CloseStopped, CloseListener, CloseConns, CloseConn,
                CloseInstance
  <1>. QED
    BY <1>1, <1>2, <1>3, <1>4, <1>5 DEF Next

Counted == {h \in Handlers : pc[h] \in CountedPCs}

\* Only the two additions change the count, and each moves its handler.
LEMMA CountedChanges ==
    ASSUME TypeOK, [Next]_vars
    PROVE  \/ UNCHANGED active /\ Counted' = Counted
           \/ \E h \in Handlers \ Counted :
                 active' = active + 1 /\ Counted' = Counted \cup {h}
           \/ \E h \in Counted :
                 active' = active - 1 /\ Counted' = Counted \ {h}
  <1> USE DEF TypeOK, Counted, CountedPCs
  <1>1. CASE UNCHANGED <<active, pc>>
    BY <1>1
  <1>2. ASSUME NEW h \in Handlers, Count(h)
        PROVE  h \notin Counted /\ active' = active + 1 /\ Counted' = Counted \cup {h}
    BY <1>2 DEF Count, Goto
  <1>3. ASSUME NEW h \in Handlers, Uncount(h)
        PROVE  h \in Counted /\ active' = active - 1 /\ Counted' = Counted \ {h}
    BY <1>3 DEF Uncount, Goto
  <1>4. ASSUME NEW h \in Handlers,
               \/ Serve(h) \/ Track(h) \/ Untouch(h) \/ ForgetConn(h)
        PROVE  UNCHANGED active /\ Counted' = Counted
    BY <1>4 DEF Serve, Track, Untouch, ForgetConn, Goto
  <1>5. ASSUME NEW h \in Handlers,
               \/ Touch(h) \/ EnsureRefused(h) \/ EnsureWarm(h) \/ EnsureCreate(h)
               \/ EnsurePrepare(h) \/ EnsureStart(h) \/ EnsureFail(h)
        PROVE  UNCHANGED active /\ Counted' = Counted
    BY <1>5 DEF Touch, EnsureRefused, EnsureWarm, EnsureCreate, EnsurePrepare, EnsureStart,
                EnsureFail, Goto
  <1>6. ASSUME NEW h \in Handlers,
               \/ Dial(h) \/ DialFail(h) \/ TrackUpstream(h) \/ ForgetUpstream(h)
        PROVE  UNCHANGED active /\ Counted' = Counted
    BY <1>6 DEF Dial, DialFail, TrackUpstream, ForgetUpstream, Goto
  <1>7. \/ UNCHANGED <<active, pc>>
        \/ \E h \in Handlers : Serve(h) \/ Handle(h)
    BY DEF vars, Next, RelayEnd, Close, Listen, ListenFail, StartGate, IdlePasses, SweepExit, Sweep,
           SweepReadActive, SweepReadLastUse, SweepTake, SweepClose, CloseBegin,
           CloseStopped, CloseListener, CloseConns, CloseConn, CloseInstance
  <1>8. CASE UNCHANGED <<active, pc>>
    BY <1>1, <1>8
  <1>9. ASSUME NEW h \in Handlers, Serve(h) \/ Handle(h)
        PROVE  \/ UNCHANGED active /\ Counted' = Counted
               \/ h \notin Counted /\ active' = active + 1 /\ Counted' = Counted \cup {h}
               \/ h \in Counted /\ active' = active - 1 /\ Counted' = Counted \ {h}
    <2> HIDE DEF Counted, TypeOK
    <2>. QED
      BY <1>9, <1>2, <1>3, <1>4, <1>5, <1>6 DEF Handle
  <1> HIDE DEF Counted, TypeOK
  <1>. QED
    BY <1>7, <1>8, <1>9

\* active is exactly the number of connections in use: no return path of handle
\* forgets to give its count back, or the sweeper would never find the gate idle,
\* and none gives it back twice, or it would find a busy one idle.
THEOREM GateCountsExactly == Spec => []ActiveCounts
  <1>1. Init => ActiveCounts
    <2> SUFFICES ASSUME Init PROVE ActiveCounts
      OBVIOUS
    <2>1. Counted = {}
      BY DEF Init, Counted, CountedPCs
    <2>. QED
      BY <2>1, FS_EmptySet DEF Init, ActiveCounts, Counted
  <1>2. TypeOK /\ ActiveCounts /\ [Next]_vars => ActiveCounts'
    <2> SUFFICES ASSUME TypeOK, active = Cardinality(Counted), [Next]_vars
                 PROVE  active' = Cardinality(Counted')
      BY DEF ActiveCounts, Counted
    <2>1. IsFiniteSet(Counted)
      BY FS_Subset DEF Counted
    <2>2. CASE UNCHANGED active /\ Counted' = Counted
      BY <2>2
    <2>3. ASSUME NEW h \in Handlers \ Counted,
                 active' = active + 1, Counted' = Counted \cup {h}
          PROVE  active' = Cardinality(Counted')
      BY <2>1, <2>3, FS_AddElement
    <2>4. ASSUME NEW h \in Counted, active' = active - 1, Counted' = Counted \ {h}
          PROVE  active' = Cardinality(Counted')
      BY <2>1, <2>4, FS_RemoveElement
    <2>. QED
      BY <2>2, <2>3, <2>4, CountedChanges
  <1>. QED
    BY <1>1, <1>2, GateTypeOK, PTL DEF Spec

-----------------------------------------------------------------------------
(* The gate implements GateService *)

usedInsts == {i \in Insts : life[i] # "none"}

\* The steps the abstract gate cannot see.
Hidden == UNCHANGED <<gateStage, building, instance, swept, doomed, usedInsts>>

\* Listening, connections, ticks that take nothing and most of Close are hidden.
LEMMA HiddenSteps ==
    ASSUME IInv, IInv', UNCHANGED <<phase, building, instance, swept, doomed, life>>,
           closer' = closer \/ {closer, closer'} \subseteq {"stop", "listeners", "drain"}
    PROVE  Hidden
  <1>1. TypeOK /\ TypeOK'
    BY DEF IInv
  <1>2. UNCHANGED gateStage
    BY DEF gateStage
  <1>. QED
    BY <1>2 DEF Hidden, usedInsts

\* Every step of the gate is a step of the abstract one, or hidden from it.
LEMMA StepGateService ==
    ASSUME IInv, IInv', StageInv, [Next]_vars
    PROVE  [Ideal!Next]_(Ideal!vars)
  <1>0. TypeOK /\ TypeOK' /\ BuildInv /\ OwnerInv /\ ClosedInv
    BY DEF IInv
  <1> USE <1>0
  <1>1. Hidden => UNCHANGED Ideal!vars
    BY DEF Hidden, Ideal!vars, usedInsts
  <1>2. CASE UNCHANGED vars
    BY <1>1, <1>2, HiddenSteps DEF vars
  <1>3. ASSUME NEW b \in Bridges, Listen(b) PROVE Hidden
    BY <1>3, HiddenSteps DEF Listen
  <1>4. CASE ListenFail
    <2>1. /\ phase = "listening" /\ phase' = "failed"
          /\ UNCHANGED <<building, instance, swept, doomed, life>>
      BY <1>4 DEF ListenFail
    <2>2. /\ gateStage = "opening" /\ gateStage' = "refused"
          /\ UNCHANGED usedInsts
      BY <2>1 DEF gateStage, usedInsts
    <2>3. Ideal!Open("refused")
      BY <2>1, <2>2 DEF Ideal!Open, usedInsts
    <2>. QED
      BY <2>3 DEF Ideal!Next
  <1>5. CASE StartGate
    <2>1. /\ phase = "listening" /\ phase' = "running" /\ closer' = "idle"
          /\ UNCHANGED <<building, instance, swept, doomed, life>>
      BY <1>5 DEF StartGate, StageInv
    <2>2. /\ gateStage = "opening" /\ gateStage' = "open"
          /\ UNCHANGED usedInsts
      BY <2>1 DEF gateStage, usedInsts
    <2>3. Ideal!Open("open")
      BY <2>1, <2>2 DEF Ideal!Open, usedInsts
    <2>. QED
      BY <2>3 DEF Ideal!Next
  <1>6. ASSUME NEW h \in Handlers,
               \/ Serve(h) \/ Track(h) \/ Count(h) \/ Touch(h) \/ EnsureRefused(h)
               \/ EnsureWarm(h) \/ EnsurePrepare(h) \/ Dial(h) \/ DialFail(h)
               \/ TrackUpstream(h) \/ ForgetUpstream(h) \/ Uncount(h) \/ Untouch(h)
               \/ ForgetConn(h) \/ RelayEnd(h)
        PROVE  Hidden
    BY <1>6, HiddenSteps
    DEF Serve, Track, Count, Touch, EnsureRefused, EnsureWarm, EnsurePrepare, Dial,
        DialFail, TrackUpstream, ForgetUpstream, Uncount, Untouch, ForgetConn, RelayEnd
  <1>7. ASSUME NEW h \in Handlers, EnsureCreate(h) PROVE Ideal!Next
    <2>1. PICK i \in Insts : /\ life[i] = "none" /\ life' = [life EXCEPT ![i] = "built"]
                             /\ building' = i
      BY <1>7 DEF EnsureCreate
    <2>2. phase = "running" /\ closer = "idle" /\ building = None /\ instance = None
      BY <1>7 DEF EnsureCreate, Goto, StageInv, BuildInv, ClosedInv
    <2>3. UNCHANGED <<phase, closer, instance, swept, doomed>>
      BY <1>7 DEF EnsureCreate
    <2>4. gateStage = "open" /\ UNCHANGED <<gateStage, instance>>
      BY <2>2, <2>3 DEF gateStage
    <2>5. i \notin usedInsts /\ usedInsts' = usedInsts \cup {i}
      BY <2>1 DEF usedInsts, TypeOK
    <2>6. Ideal!Build(i)
      BY <2>1, <2>2, <2>3, <2>4, <2>5 DEF Ideal!Build, usedInsts
    <2>. QED
      BY <2>6 DEF Ideal!Next
  <1>8. ASSUME NEW h \in Handlers, EnsureStart(h) PROVE Ideal!Next
    <2>1. /\ building \in Insts /\ instance = None /\ mu = h /\ life[building] = "built"
          /\ phase = "running" /\ closer = "idle"
      BY <1>8 DEF EnsureStart, Goto, BuildInv, ClosedInv, StageInv, TypeOK
    <2>2. UNCHANGED <<phase, closer, swept, doomed>>
      BY <1>8 DEF EnsureStart
    <2>3. gateStage = "open" /\ UNCHANGED gateStage
      BY <2>1, <2>2 DEF gateStage
    <2>4. usedInsts' = usedInsts
      BY <1>8, <2>1 DEF EnsureStart, usedInsts, TypeOK
    <2>5. instance' = building /\ building' = None
      BY <1>8 DEF EnsureStart
    <2>6. Ideal!Publish
      BY <2>1, <2>2, <2>3, <2>4, <2>5 DEF Ideal!Publish, usedInsts
    <2>. QED
      BY <2>6 DEF Ideal!Next
  <1>9. ASSUME NEW h \in Handlers, EnsureFail(h) PROVE Ideal!Next
    <2>1. building \in Insts /\ life[building] = "built"
      BY <1>9 DEF EnsureFail, BuildInv, TypeOK
    <2>2. UNCHANGED <<phase, closer, swept, doomed, instance>>
      BY <1>9 DEF EnsureFail
    <2>3. UNCHANGED gateStage
      BY <2>2 DEF gateStage
    <2>4. usedInsts' = usedInsts
      BY <1>9, <2>1 DEF EnsureFail, usedInsts, TypeOK
    <2>5. building' = None
      BY <1>9 DEF EnsureFail
    <2>6. Ideal!Abandon
      BY <2>1, <2>2, <2>3, <2>4, <2>5 DEF Ideal!Abandon, usedInsts
    <2>. QED
      BY <2>6 DEF Ideal!Next
  <1>10. CASE IdlePasses \/ SweepReadActive \/ SweepReadLastUse \/ SweepExit
    BY <1>1, <1>10, HiddenSteps DEF IdlePasses, SweepReadActive, SweepReadLastUse, SweepExit
  <1>11. CASE SweepTake /\ instance = None
    <2>1. swept = None
      BY <1>11 DEF SweepTake, OwnerInv
    <2>. QED
      BY <1>1, <1>11, <2>1, HiddenSteps DEF SweepTake
  <1>12. CASE SweepTake /\ instance # None
    <2>1. swept = None /\ doomed = None /\ phase = "running" /\ closer = "idle"
      BY <1>12 DEF SweepTake, OwnerInv, ClosedInv, StageInv
    <2>2. UNCHANGED <<phase, closer, life, building, doomed>>
      BY <1>12 DEF SweepTake
    <2>3. gateStage = "open" /\ UNCHANGED <<gateStage, usedInsts>>
      BY <2>1, <2>2 DEF gateStage, usedInsts
    <2>4. swept' = instance /\ instance' = None
      BY <1>12 DEF SweepTake
    <2>5. Ideal!Retire
      BY <1>12, <2>1, <2>2, <2>3, <2>4 DEF Ideal!Retire, usedInsts
    <2>. QED
      BY <2>5 DEF Ideal!Next
  <1>13. CASE SweepClose
    <2>1. swept \in Insts /\ life[swept] = "up" /\ swept # doomed
      BY <1>13 DEF SweepClose, OwnerInv, TypeOK
    <2>2. UNCHANGED <<phase, closer, building, instance, doomed>>
      BY <1>13 DEF SweepClose
    <2>3. UNCHANGED gateStage
      BY <2>2 DEF gateStage
    <2>4. usedInsts' = usedInsts
      BY <1>13, <2>1 DEF SweepClose, usedInsts, TypeOK
    <2>5. swept # None /\ swept' = None
      BY <1>13, <2>1 DEF SweepClose, OwnerInv
    <2>6. Ideal!Drop
      BY <2>2, <2>3, <2>4, <2>5 DEF Ideal!Drop, usedInsts
    <2>. QED
      BY <2>6 DEF Ideal!Next
  <1>14. CASE CloseBegin
    <2>1. /\ phase = "running" /\ closer = "idle" /\ closer' = "stop"
          /\ building = None /\ doomed = None
          /\ doomed' = instance /\ instance' = None
          /\ UNCHANGED <<phase, life, building, swept>>
      BY <1>14 DEF CloseBegin, BuildInv, ClosedInv
    <2>2. gateStage = "open" /\ gateStage' = "closing" /\ UNCHANGED usedInsts
      BY <2>1 DEF gateStage, usedInsts
    <2>3. Ideal!BeginClose
      BY <2>1, <2>2 DEF Ideal!BeginClose, usedInsts
    <2>. QED
      BY <2>3 DEF Ideal!Next
  <1>15. CASE \/ CloseStopped \/ CloseConns
              \/ \E b \in Bridges : CloseListener(b)
              \/ \E s \in doomedConns : CloseConn(s)
    BY <1>1, <1>15, HiddenSteps DEF CloseStopped, CloseConns, CloseListener, CloseConn
  <1>16. CASE CloseInstance
    <2>1. /\ closer = "drain" /\ closer' = "done" /\ doomed' = None
          /\ UNCHANGED <<phase, building, instance, swept>>
          /\ life' = IF doomed = None THEN life ELSE [life EXCEPT ![doomed] = "closed"]
          /\ phase = "running"
      BY <1>16 DEF CloseInstance, StageInv
    <2>2. gateStage = "closing" /\ gateStage' = "closed"
      BY <2>1 DEF gateStage
    <2>3. usedInsts' = usedInsts
      BY <2>1 DEF usedInsts, TypeOK, OwnerInv
    <2>4. Ideal!EndClose
      BY <2>1, <2>2, <2>3 DEF Ideal!EndClose, usedInsts
    <2>. QED
      BY <2>4 DEF Ideal!Next
  <1>. QED
    BY <1>1, <1>2, <1>3, <1>4, <1>5, <1>6, <1>7, <1>8, <1>9, <1>10, <1>11, <1>12,
       <1>13, <1>14, <1>15, <1>16
    DEF Next, Handle, Sweep, Close

\* The gate implements the abstract one for any number of connections, inbounds
\* and instances: it never has two instances to hand out, uses none twice, builds
\* none once Close has begun, and has closed its own when Close returns.
THEOREM GateImplementsService == Spec => ImplementsGateService
  <1>1. Init => Ideal!Init
    <2> SUFFICES ASSUME Init PROVE Ideal!Init
      OBVIOUS
    <2>1. gateStage = "opening"
      BY DEF Init, gateStage
    <2>2. usedInsts = {}
      BY DEF Init, usedInsts
    <2>. QED
      BY <2>1, <2>2 DEF Init, Ideal!Init, usedInsts
  <1>2. Init => StageInv
    BY DEF Init, StageInv
  <1>3. IInv /\ IInv' /\ StageInv /\ [Next]_vars => [Ideal!Next]_(Ideal!vars)
    BY StepGateService
  <1>. QED
    BY <1>1, <1>2, <1>3, GateInvariant, StepStageInv, PTL
    DEF Spec, ImplementsGateService, Ideal!Spec

=============================================================================
