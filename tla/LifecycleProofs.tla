-------------------------- MODULE LifecycleProofs --------------------------
(***************************************************************************)
(* Safety of Start and Stop for any number of calls and any profiles:      *)
(* BaseInv is inductive whatever the client does, CourteousInv when it     *)
(* does not start a running profile; with profiles the code keeps its      *)
(* promise for, every step is one ProfileService allows.                   *)
(***************************************************************************)
EXTENDS Lifecycle, TLAPS

USE LifecycleAssumption DEF LifecycleAssumption
USE DEF slots, dns, id, req, Ids, Kinds, Sidecars, RequestType

-----------------------------------------------------------------------------
(* Whatever the client does *)

LEMMA InitBase == Init => BaseInv
  <1> SUFFICES ASSUME Init PROVE BaseInv
    OBVIOUS
  <1>1. needUnsetDNS \in BOOLEAN
    BY Zenon DEF Init
  <1>2. TypeOK
    BY <1>1 DEF Init, TypeOK, PCs, NoRequest
  <1>. QED
    BY <1>2 DEF Init, BaseInv, NumberInv, SlotInv, Slotted

\* Every step keeps the types, and only what closeXray took out of the slots
\* is closed.
LEMMA StepBase == BaseInv /\ [Next]_vars => BaseInv'
  <1> SUFFICES ASSUME BaseInv, [Next]_vars PROVE BaseInv'
    OBVIOUS
  <1> USE DEF BaseInv, TypeOK, PCs, NumberInv, SlotInv, Slotted, StopExtra,
              autoRedirectMarkFor
  <1>1. CASE UNCHANGED vars
    BY <1>1 DEF vars
  <1>2. ASSUME NEW r \in Requests, Start(r) PROVE BaseInv'
    BY <1>2 DEF Start
  <1>3. CASE StartWithoutExtra
    BY <1>3 DEF StartWithoutExtra
  <1>4. CASE StartExtraRefused
    BY <1>4 DEF StartExtraRefused
  <1>5. CASE StartExtra
    BY <1>5 DEF StartExtra
  <1>6. CASE StoreMark
    BY <1>6 DEF StoreMark
  <1>7. CASE StartWithoutXray
    BY <1>7 DEF StartWithoutXray
  <1>8. CASE StartXray
    BY <1>8 DEF StartXray
  <1>9. CASE StartXrayFails
    BY <1>9 DEF StartXrayFails
  <1>10. CASE StartFull
    BY <1>10 DEF StartFull
  <1>11. CASE StartFullFails
    BY <1>11 DEF StartFullFails
  <1>12. CASE CreateBox
    BY <1>12 DEF CreateBox
  <1>13. CASE CreateBoxFails
    BY <1>13 DEF CreateBoxFails
  <1>14. CASE PublishBox
    BY <1>14 DEF PublishBox
  <1>15. CASE StartDNS
    BY <1>15 DEF StartDNS
  <1>16. CASE StopAllCores
    BY <1>16 DEF StopAllCores
  <1>17. CASE StopAllCoresUnpublish
    BY <1>17 DEF StopAllCoresUnpublish
  <1>18. CASE Failed
    BY <1>18 DEF Failed
  <1>19. CASE CloseXray
    BY <1>19 DEF CloseXray
  <1>20. CASE CloseXrayReturns
    BY <1>20 DEF CloseXrayReturns
  <1>21. CASE Stop
    <2>1. needUnsetDNS' \in BOOLEAN
      BY <1>21, Zenon DEF Stop
    <2>. QED
      BY <1>21, <2>1 DEF Stop
  <1>22. CASE StopUnpublish
    BY <1>22 DEF StopUnpublish
  <1>23. CASE CloseWithTimeout
    BY <1>23 DEF CloseWithTimeout
  <1>24. CASE StopExtraProcess
    BY <1>24 DEF StopExtraProcess
  <1>25. CASE ClearMark
    BY <1>25 DEF ClearMark
  <1>26. ASSUME NEW s \in taken, CloseSidecar(s) PROVE BaseInv'
    BY <1>26 DEF CloseSidecar
  <1>27. ASSUME NEW n \in Ids, BoxCloses(n) PROVE BaseInv'
    BY <1>27 DEF BoxCloses
  <1>28. ASSUME NEW s \in Sidecars, GatePrepares(s) PROVE BaseInv'
    BY <1>28 DEF GatePrepares
  <1>29. ASSUME NEW live \in SUBSET open, InterfaceChanges(live) PROVE BaseInv'
    BY <1>29 DEF InterfaceChanges
  <1>30. ASSUME NEW n \in Ids, ProcessExits(n) PROVE BaseInv'
    BY <1>30 DEF ProcessExits
  <1>. QED
    BY <1>1, <1>2, <1>3, <1>4, <1>5, <1>6, <1>7, <1>8, <1>9, <1>10,
       <1>11, <1>12, <1>13, <1>14, <1>15, <1>16, <1>17, <1>18, <1>19,
       <1>20, <1>21, <1>22, <1>23, <1>24, <1>25, <1>26, <1>27, <1>28,
       <1>29, <1>30
    DEF Next, StartSteps, CloseXraySteps, StopSteps, Environment

\* The types of the lifecycle, and that its numbers are those of Start calls.
THEOREM LifecycleBase == Spec => []BaseInv
  BY InitBase, StepBase, PTL DEF Spec

\* No reader is handed a sidecar that is closed or being closed, even when a
\* client starts a running profile.
THEOREM LifecycleSlots == Spec => []SlotsHoldOpenSidecars
  <1>1. BaseInv => SlotsHoldOpenSidecars
    BY DEF BaseInv, SlotInv, Slotted, SlotsHoldOpenSidecars
  <1>. QED
    BY LifecycleBase, <1>1, PTL

-----------------------------------------------------------------------------
(* A client that starts a profile only when none is running *)

LEMMA InitCourteous == Init => CourteousInv
  <1> SUFFICES ASSUME Init PROVE CourteousInv
    OBVIOUS
  <1>1. BaseInv
    BY InitBase
  <1>2. /\ pc = "idle" /\ boxInstance = 0 /\ stopping = 0 /\ starts = 0
        /\ open = {} /\ taken = {} /\ mark = "none" /\ ~needUnsetDNS
        /\ \A n \in Ids : box[n] \notin {"up", "closing"}
        /\ \A s \in Sidecars : egress[s] = "unset"
    BY DEF Init
  <1>3. PointerInv /\ MarkInv /\ DNSInv
    BY <1>2 DEF PointerInv, MarkInv, DNSInv
  <1>4. BoxInv
    BY <1>2 DEF BoxInv, Whole, Dying
  <1>5. Slotted = {}
    BY <1>1, <1>2 DEF BaseInv, SlotInv
  <1>6. SidecarInv
    BY <1>2, <1>5 DEF SidecarInv, Whole, Dying
  <1>7. UnsetDNSIsOwed
    BY <1>2 DEF UnsetDNSIsOwed
  <1>. QED
    BY <1>1, <1>3, <1>4, <1>6, <1>7 DEF CourteousInv

\* Every step keeps what is up, and the mark, with the latest Start.
LEMMA StepCourteous == ~StartOverRunning /\ CourteousInv /\ [Next]_vars => CourteousInv'
  <1> SUFFICES ASSUME ~StartOverRunning, CourteousInv, [Next]_vars PROVE CourteousInv'
    OBVIOUS
  <1>0. BaseInv'
    BY StepBase DEF CourteousInv
  <1> USE <1>0
      DEF CourteousInv, BaseInv, TypeOK, NumberInv, SlotInv, Slotted, PointerInv,
          BoxInv, SidecarInv, MarkInv, DNSInv, UnsetDNSIsOwed, Whole, Dying, Asked,
          autoRedirectMarkFor, StopExtra
  <1>1. CASE UNCHANGED vars
    BY <1>1 DEF vars
  <1>2. ASSUME NEW r \in Requests, Start(r) PROVE CourteousInv'
    BY <1>2 DEF Start
  <1>3. CASE StartWithoutExtra
    BY <1>3 DEF StartWithoutExtra
  <1>4. CASE StartExtraRefused
    BY <1>4 DEF StartExtraRefused
  <1>5. CASE StartExtra
    BY <1>5 DEF StartExtra
  <1>6. CASE StoreMark
    BY <1>6 DEF StoreMark
  <1>7. CASE StartWithoutXray
    BY <1>7 DEF StartWithoutXray
  <1>8. CASE StartXray
    BY <1>8 DEF StartXray
  <1>9. CASE StartXrayFails
    BY <1>9 DEF StartXrayFails
  <1>10. CASE StartFull
    BY <1>10 DEF StartFull
  <1>11. CASE StartFullFails
    BY <1>11 DEF StartFullFails
  <1>12. CASE CreateBox
    BY <1>12 DEF CreateBox
  <1>13. CASE CreateBoxFails
    BY <1>13 DEF CreateBoxFails
  <1>14. CASE PublishBox
    BY <1>14 DEF PublishBox
  <1>15. CASE StartDNS
    BY <1>15 DEF StartDNS
  <1>16. CASE StopAllCores
    BY <1>16 DEF StopAllCores
  <1>17. CASE StopAllCoresUnpublish
    BY <1>17 DEF StopAllCoresUnpublish
  <1>18. CASE Failed
    BY <1>18 DEF Failed
  <1>19. CASE CloseXray
    BY <1>19 DEF CloseXray
  <1>20. CASE CloseXrayReturns
    BY <1>20 DEF CloseXrayReturns
  <1>21. CASE Stop
    <2>1. needUnsetDNS' \in BOOLEAN
      BY <1>21, Zenon DEF Stop
    <2>. QED
      BY <1>21, <2>1 DEF Stop
  <1>22. CASE StopUnpublish
    BY <1>22 DEF StopUnpublish
  <1>23. CASE CloseWithTimeout
    BY <1>23 DEF CloseWithTimeout
  <1>24. CASE StopExtraProcess
    BY <1>24 DEF StopExtraProcess
  <1>25. CASE ClearMark
    BY <1>25 DEF ClearMark
  <1>26. ASSUME NEW s \in taken, CloseSidecar(s) PROVE CourteousInv'
    BY <1>26 DEF CloseSidecar
  <1>27. ASSUME NEW n \in Ids, BoxCloses(n) PROVE CourteousInv'
    BY <1>27 DEF BoxCloses
  <1>28. ASSUME NEW s \in Sidecars, GatePrepares(s) PROVE CourteousInv'
    BY <1>28 DEF GatePrepares
  <1>29. ASSUME NEW live \in SUBSET open, InterfaceChanges(live) PROVE CourteousInv'
    BY <1>29 DEF InterfaceChanges
  <1>30. ASSUME NEW n \in Ids, ProcessExits(n) PROVE CourteousInv'
    BY <1>30 DEF ProcessExits
  <1>. QED
    BY <1>1, <1>2, <1>3, <1>4, <1>5, <1>6, <1>7, <1>8, <1>9, <1>10,
       <1>11, <1>12, <1>13, <1>14, <1>15, <1>16, <1>17, <1>18, <1>19,
       <1>20, <1>21, <1>22, <1>23, <1>24, <1>25, <1>26, <1>27, <1>28,
       <1>29, <1>30
    DEF Next, StartSteps, CloseXraySteps, StopSteps, Environment

\* Everything that is up belongs to the latest Start, step by step.
THEOREM LifecycleInvariant == ASSUME ~StartOverRunning PROVE Spec => []CourteousInv
  BY InitCourteous, StepCourteous, PTL DEF Spec

\* Between calls exactly the box, the sidecars and the mark of the published
\* profile are there, whichever steps of earlier calls failed.
THEOREM LifecycleRunsPublished ==
    ASSUME ~StartOverRunning PROVE Spec => []RunsWhatIsPublished
  <1>1. CourteousInv => RunsWhatIsPublished
    BY DEF CourteousInv, BaseInv, TypeOK, NumberInv, PointerInv, BoxInv, SidecarInv,
           MarkInv, Whole, Dying, RunsWhatIsPublished
  <1>. QED
    BY LifecycleInvariant, <1>1, PTL

\* Between calls the system resolver is owed back exactly when the published
\* profile took it over.
THEOREM LifecycleOwesDNS == ASSUME ~StartOverRunning PROVE Spec => []UnsetDNSIsOwed
  <1>1. CourteousInv => UnsetDNSIsOwed
    BY DEF CourteousInv
  <1>. QED
    BY LifecycleInvariant, <1>1, PTL

\* The sidecars of an active TUN carry its exemption mark, whenever a gate
\* prepared an instance or the interface changed.
THEOREM LifecycleExemptsTun == ASSUME ~StartOverRunning PROVE Spec => []ActiveTunExempt
  <1>1. CourteousInv => ActiveTunExempt
    BY DEF CourteousInv, BaseInv, TypeOK, MarkInv, ActiveTunExempt
  <1>. QED
    BY LifecycleInvariant, <1>1, PTL

-----------------------------------------------------------------------------
(* Polls during a teardown *)

\* The requests the code has seen are requests of the client.
RequestInv == \A n \in 1..starts : reqs[n] \in Requests

LEMMA StepRequests == BaseInv /\ RequestInv /\ [Next]_vars => RequestInv'
  <1> SUFFICES ASSUME BaseInv, RequestInv, [Next]_vars PROVE RequestInv'
    OBVIOUS
  <1>1. ASSUME NEW r \in Requests, Start(r) PROVE RequestInv'
    BY <1>1 DEF Start, RequestInv, BaseInv, TypeOK, Ids
  <1>2. CASE UNCHANGED <<starts, reqs>>
    BY <1>2 DEF RequestInv
  <1>3. StartSteps => UNCHANGED <<starts, reqs>>
    BY DEF StartSteps, StartWithoutExtra, StartExtraRefused, StartExtra, StoreMark,
           StartWithoutXray, StartXray, StartXrayFails, StartFull, StartFullFails,
           CreateBox, CreateBoxFails, PublishBox, StartDNS, StopAllCores,
           StopAllCoresUnpublish, Failed
  <1>4. Stop \/ StopSteps \/ CloseXraySteps => UNCHANGED <<starts, reqs>>
    BY DEF Stop, StopSteps, StopUnpublish, CloseWithTimeout, StopExtraProcess, ClearMark,
           CloseXraySteps, CloseXray, CloseSidecar, CloseXrayReturns
  <1>5. (\E n \in Ids : BoxCloses(n)) \/ Environment => UNCHANGED <<starts, reqs>>
    BY DEF BoxCloses, Environment, GatePrepares, InterfaceChanges, ProcessExits
  <1>6. UNCHANGED vars => UNCHANGED <<starts, reqs>>
    BY DEF vars
  <1>. QED
    BY <1>1, <1>2, <1>3, <1>4, <1>5, <1>6 DEF Next

\* A poll sees a dying box only in the teardown of stopAllCores: where no profile
\* has a TUN address that macOS cannot parse, the published box is an open one.
THEOREM LifecyclePublishesUp ==
    ASSUME ~StartOverRunning,
           GOOS = "darwin" => \A r \in Requests : r.cidr # "bad"
    PROVE  Spec => []PublishedBoxIsUp
  <1>1. Init => CourteousInv /\ RequestInv
    BY InitCourteous DEF Init, RequestInv
  <1>2. CourteousInv /\ RequestInv /\ [Next]_vars => (CourteousInv /\ RequestInv)'
    BY StepCourteous, StepRequests DEF CourteousInv
  <1>3. CourteousInv /\ RequestInv => pc # "allCores"
    BY DEF CourteousInv, BaseInv, TypeOK, NumberInv, DNSInv, RequestInv
  <1>4. CourteousInv /\ pc # "allCores" => PublishedBoxIsUp
    BY DEF CourteousInv, BaseInv, TypeOK, NumberInv, PointerInv, BoxInv, Whole, Dying,
           PublishedBoxIsUp
  <1>. QED
    BY <1>1, <1>2, <1>3, <1>4, PTL DEF Spec

-----------------------------------------------------------------------------
(* Start and Stop implement ProfileService, step by step *)

AllKept == \A r \in Requests : Kept(r)

LEMMA InitProcesses == Init => ProcInv
  BY DEF Init, ProcInv, Kept, NoRequest

\* A running extra process is that of the latest Start.
LEMMA StepProcesses ==
    ~StartOverRunning /\ AllKept /\ CourteousInv /\ ProcInv /\ [Next]_vars => ProcInv'
  <1> SUFFICES ASSUME ~StartOverRunning, AllKept, CourteousInv, ProcInv, [Next]_vars
               PROVE  ProcInv'
    OBVIOUS
  <1> USE DEF AllKept, CourteousInv, BaseInv, TypeOK, NumberInv, PointerInv, ProcInv,
              Whole, Dying, Kept, StopExtra
  <1>1. CASE UNCHANGED vars
    BY <1>1 DEF vars
  <1>2. ASSUME NEW r \in Requests, Start(r) PROVE ProcInv'
    BY <1>2 DEF Start
  <1>3. CASE StartWithoutExtra
    BY <1>3 DEF StartWithoutExtra
  <1>4. CASE StartExtraRefused
    BY <1>4 DEF StartExtraRefused
  <1>5. CASE StartExtra
    BY <1>5 DEF StartExtra
  <1>6. CASE StoreMark
    BY <1>6 DEF StoreMark
  <1>7. CASE StartWithoutXray
    BY <1>7 DEF StartWithoutXray
  <1>8. CASE StartXray
    BY <1>8 DEF StartXray
  <1>9. CASE StartXrayFails
    BY <1>9 DEF StartXrayFails
  <1>10. CASE StartFull
    BY <1>10 DEF StartFull
  <1>11. CASE StartFullFails
    BY <1>11 DEF StartFullFails
  <1>12. CASE CreateBox
    BY <1>12 DEF CreateBox
  <1>13. CASE CreateBoxFails
    BY <1>13 DEF CreateBoxFails
  <1>14. CASE PublishBox
    BY <1>14 DEF PublishBox
  <1>15. CASE StartDNS
    BY <1>15 DEF StartDNS
  <1>16. CASE StopAllCores
    BY <1>16 DEF StopAllCores
  <1>17. CASE StopAllCoresUnpublish
    BY <1>17 DEF StopAllCoresUnpublish
  <1>18. CASE Failed
    BY <1>18 DEF Failed
  <1>19. CASE CloseXray
    BY <1>19 DEF CloseXray
  <1>20. CASE CloseXrayReturns
    BY <1>20 DEF CloseXrayReturns
  <1>21. CASE Stop
    BY <1>21 DEF Stop
  <1>22. CASE StopUnpublish
    BY <1>22 DEF StopUnpublish
  <1>23. CASE CloseWithTimeout
    BY <1>23 DEF CloseWithTimeout
  <1>24. CASE StopExtraProcess
    BY <1>24 DEF StopExtraProcess
  <1>25. CASE ClearMark
    BY <1>25 DEF ClearMark
  <1>26. ASSUME NEW s \in taken, CloseSidecar(s) PROVE ProcInv'
    BY <1>26 DEF CloseSidecar
  <1>27. ASSUME NEW n \in Ids, BoxCloses(n) PROVE ProcInv'
    BY <1>27 DEF BoxCloses
  <1>28. ASSUME NEW s \in Sidecars, GatePrepares(s) PROVE ProcInv'
    BY <1>28 DEF GatePrepares
  <1>29. ASSUME NEW live \in SUBSET open, InterfaceChanges(live) PROVE ProcInv'
    BY <1>29 DEF InterfaceChanges
  <1>30. ASSUME NEW n \in Ids, ProcessExits(n) PROVE ProcInv'
    BY <1>30 DEF ProcessExits
  <1>. QED
    BY <1>1, <1>2, <1>3, <1>4, <1>5, <1>6, <1>7, <1>8, <1>9, <1>10,
       <1>11, <1>12, <1>13, <1>14, <1>15, <1>16, <1>17, <1>18, <1>19,
       <1>20, <1>21, <1>22, <1>23, <1>24, <1>25, <1>26, <1>27, <1>28,
       <1>29, <1>30
    DEF Next, StartSteps, CloseXraySteps, StopSteps, Environment

\* While there is a profile nothing runs but its cores, and it is visible only
\* with its box.
RunningWanted ==
    serviceStatus # "down" =>
        /\ running \subseteq asks(req)
        /\ asks(req) \subseteq {"box", "extra", "eager", "gate", "full"}
        /\ boxInstance # 0 => "box" \in running

LEMMA ProfileRuns == CourteousInv /\ ProcInv => RunningWanted
  <1> SUFFICES ASSUME CourteousInv, ProcInv, serviceStatus # "down"
               PROVE  /\ running \subseteq asks(req)
                      /\ asks(req) \subseteq {"box", "extra", "eager", "gate", "full"}
                      /\ boxInstance # 0 => "box" \in running
    BY DEF RunningWanted
  <1> USE DEF CourteousInv, BaseInv, TypeOK, NumberInv, PointerInv, ProcInv, Kept,
              Whole, Dying, serviceStatus
  <1>0. starts \in Ids
    OBVIOUS
  <1>1. reqs[starts] \in RequestType
    BY <1>0
  <1>2. ASSUME NEW s \in open PROVE s[1] \in asks(req)
    BY <1>1, <1>2 DEF SidecarInv, Asked, asks
  <1>3. ASSUME NEW n \in Ids, proc[n] = "running" PROVE "extra" \in asks(req)
    BY <1>3 DEF asks
  <1>4. running \subseteq asks(req)
    BY <1>2, <1>3 DEF running, asks
  <1>5. asks(req) \subseteq {"box", "extra", "eager", "gate", "full"}
    BY <1>1 DEF asks
  <1>6. ASSUME boxInstance # 0 PROVE "box" \in running
    <2>1. pc # "allCores"
      BY <1>0 DEF DNSInv
    <2>2. box[starts] = "up"
      BY <1>6, <2>1 DEF BoxInv
    <2>. QED
      BY <1>0, <2>2 DEF running
  <1>. QED
    BY <1>4, <1>5, <1>6

\* Inside Start and inside Stop every step is Work on the cores.
LEMMA WorkStep ==
    ASSUME RunningWanted', serviceStatus \in {"starting", "stopping"},
           UNCHANGED <<serviceStatus, starts, reqs>>
    PROVE  Service!Next
  <1> DEFINE wanted == IF serviceStatus = "down" THEN {} ELSE asks(req)
  <1>1. wanted' = asks(req) /\ wanted = asks(req) /\ asks(req)' = asks(req)
    BY DEF asks
  <1>2. /\ running' \subseteq asks(req)
        /\ boxInstance' # 0 => "box" \in running'
    BY <1>1 DEF RunningWanted
  <1>3. Service!Work(running')
    BY <1>1, <1>2 DEF Service!Work
  <1>. QED
    BY <1>1, <1>2, <1>3 DEF Service!Next

\* The cores that run are the same when boxes, processes and sidecars are.
LEMMA SameCores == ASSUME UNCHANGED <<box, proc, open>> PROVE running' = running
  BY DEF running

\* Every step of Start and Stop, and of what happens beside them, is one the
\* service allows or changes nothing it speaks of.
LEMMA StepService ==
    ASSUME ~StartOverRunning, CourteousInv, ProcInv, RunningWanted, RunningWanted',
           [Next]_vars
    PROVE  [Service!Next]_(Service!vars)
  <1> USE DEF CourteousInv, BaseInv, TypeOK, NumberInv, PointerInv
  <1> DEFINE wanted == IF serviceStatus = "down" THEN {} ELSE asks(req)
             Inside == /\ serviceStatus \in {"starting", "stopping"}
                       /\ UNCHANGED <<serviceStatus, starts, reqs>>
  <1>1. CASE Inside
    BY <1>1, WorkStep
  <1>2. CASE UNCHANGED <<pc, starts, reqs, boxInstance, box, proc, open, stopping>>
    BY <1>2, SameCores DEF serviceStatus, asks, Service!vars
  <1>3. ASSUME NEW r \in Requests, Start(r) PROVE Service!Next
    <2>1. running' = running /\ starts + 1 \in Ids /\ reqs'[starts + 1] = r
      BY <1>3, SameCores DEF Start
    <2>2. serviceStatus = "down" /\ serviceStatus' = "starting"
      BY <1>3 DEF Start, serviceStatus
    <2>3. wanted' = asks(r)
      BY <1>3, <2>1, <2>2 DEF Start, asks
    <2>4. Service!Begin(wanted')
      BY <1>3, <2>1, <2>2 DEF Start, Service!Begin
    <2>5. wanted' \in SUBSET {"box", "extra", "eager", "gate", "full"}
      BY <2>2 DEF RunningWanted
    <2>. QED
      BY <2>4, <2>5 DEF Service!Next
  <1>4. CASE Stop
    <2>1. running' = running
      BY <1>4, SameCores DEF Stop
    <2>2. serviceStatus = "up" /\ serviceStatus' = "stopping"
      BY <1>4 DEF Stop, serviceStatus
    <2>3. Service!BeginStop
      BY <1>4, <2>1, <2>2 DEF Stop, asks, Service!BeginStop
    <2>. QED
      BY <2>3 DEF Service!Next
  <1>5. ASSUME PublishBox \/ StartDNS, pc' = "idle" PROVE Service!Next
    <2>1. running' = running
      BY <1>5, SameCores DEF PublishBox, StartDNS
    <2>2. serviceStatus = "starting" /\ serviceStatus' = "up" /\ boxInstance' # 0
      BY <1>5 DEF PublishBox, StartDNS, serviceStatus
    <2>3. Whole /\ starts \in Ids
      BY <1>5 DEF PublishBox, StartDNS, Whole
    <2>4. "box" \in running
      BY <2>3 DEF running, BoxInv
    <2>5. open = Asked(starts)
      BY <2>3 DEF SidecarInv
    <2>6. asks(req) \subseteq running \cup {"extra"}
      <3>1. reqs[starts] \in RequestType
        BY <2>3
      <3>2. ASSUME reqs[starts].xray # "none" PROVE reqs[starts].xray \in {s[1] : s \in open}
        <4>1. <<reqs[starts].xray, starts>> \in open
          BY <2>3, <2>5, <3>1, <3>2 DEF Asked
        <4>. QED
          BY <4>1
      <3>3. ASSUME reqs[starts].full PROVE "full" \in {s[1] : s \in open}
        <4>1. <<"full", starts>> \in open
          BY <2>3, <2>5, <3>3 DEF Asked
        <4>. QED
          BY <4>1
      <3>. QED
        BY <2>4, <3>2, <3>3 DEF asks, running
    <2>7. Service!Succeed
      BY <1>5, <2>1, <2>2, <2>6 DEF PublishBox, StartDNS, RunningWanted, asks, Service!Succeed
    <2>. QED
      BY <2>7 DEF Service!Next
  <1>6. CASE Failed \/ ClearMark
    <2>1. running' = running
      BY <1>6, SameCores DEF Failed, ClearMark
    <2>2. serviceStatus \in {"starting", "stopping"} /\ serviceStatus' = "down" /\ boxInstance' = 0
      BY <1>6 DEF Failed, ClearMark, serviceStatus
    <2>3. open = {}
      BY <1>6 DEF Failed, ClearMark, SidecarInv
    <2>4. \A n \in Ids : box[n] \notin {"up", "closing"} /\ proc[n] # "running"
      BY <1>6 DEF Failed, ClearMark, BoxInv, ProcInv, Whole, Dying
    <2>5. running = {}
      BY <2>3, <2>4 DEF running
    <2>6. Service!End
      BY <2>1, <2>2, <2>5 DEF Service!End
    <2>. QED
      BY <2>6 DEF Service!Next
  <1>7. ASSUME NEW n \in Ids, ProcessExits(n), ~Inside PROVE Service!Next
    <2>1. UNCHANGED <<pc, starts, reqs, boxInstance, box, open, stopping>>
      BY <1>7 DEF ProcessExits
    <2>2. serviceStatus' = serviceStatus /\ wanted' = wanted
      BY <2>1 DEF serviceStatus, asks
    <2>3. \A m \in Ids : proc'[m] # "running"
      BY <1>7 DEF ProcessExits, ProcInv
    <2>4. "extra" \in running
      BY <1>7 DEF ProcessExits, running
    <2>5. "extra" \notin {s[1] : s \in open}
      OBVIOUS
    <2>6. running' = running \ {"extra"}
      BY <2>1, <2>3, <2>5 DEF running
    <2>7. Service!Lose
      BY <2>1, <2>2, <2>4, <2>6 DEF Service!Lose
    <2>. QED
      BY <2>7 DEF Service!Next
  <1>8. ASSUME NEW n \in Ids, BoxCloses(n) PROVE Inside
    BY <1>8 DEF BoxCloses, BoxInv, Whole, Dying, serviceStatus
  <1>9. ASSUME CloseXraySteps \/ StopUnpublish \/ CloseWithTimeout \/ StopExtraProcess PROVE Inside
    BY <1>9
    DEF CloseXraySteps, CloseXray, CloseSidecar, CloseXrayReturns, StopUnpublish, CloseWithTimeout,
        StopExtraProcess, serviceStatus
  <1>10. ASSUME StartSteps, pc' # "idle" PROVE Inside
    BY <1>10
    DEF StartSteps, StartWithoutExtra, StartExtraRefused, StartExtra, StoreMark, StartWithoutXray,
        StartXray, StartXrayFails, StartFull, StartFullFails, CreateBox, CreateBoxFails, PublishBox,
        StartDNS, StopAllCores, StopAllCoresUnpublish, Failed, serviceStatus
  <1>11. ASSUME StartSteps, pc' = "idle" PROVE PublishBox \/ StartDNS \/ Failed
    BY <1>11
    DEF StartSteps, StartWithoutExtra, StartExtraRefused, StartExtra, StoreMark, StartWithoutXray,
        StartXray, StartXrayFails, StartFull, StartFullFails, CreateBox, CreateBoxFails,
        StopAllCores, StopAllCoresUnpublish
  <1>12. ASSUME Environment, ~(\E n \in Ids : ProcessExits(n))
         PROVE  UNCHANGED <<pc, starts, reqs, boxInstance, box, proc, open, stopping>>
    BY <1>12 DEF Environment, GatePrepares, InterfaceChanges
  <1>13. CASE UNCHANGED vars
    BY <1>2, <1>13 DEF vars
  <1>. QED
    BY <1>1, <1>2, <1>3, <1>4, <1>5, <1>6, <1>7, <1>8, <1>9, <1>10, <1>11, <1>12, <1>13
    DEF Next, StopSteps, Environment

\* For profiles without an extra process beside sidecars (and on macOS with an
\* address that parses), Start and Stop take the service through the steps it
\* promises: all cores after success, none after failure or Stop, visible only
\* with the box.
THEOREM LifecycleImplementsService ==
    ASSUME ~StartOverRunning, AllKept PROVE Spec => ServiceSteps
  <1>1. Init => Service!Init
    BY DEF Init, Service!Init, serviceStatus, running
  <1>2. Init => CourteousInv /\ ProcInv
    BY InitCourteous, InitProcesses
  <1>3. CourteousInv /\ ProcInv /\ [Next]_vars => (CourteousInv /\ ProcInv)'
    BY StepCourteous, StepProcesses
  <1>4. CourteousInv /\ ProcInv => RunningWanted
    BY ProfileRuns
  <1>5. CourteousInv /\ ProcInv /\ RunningWanted /\ RunningWanted' /\ [Next]_vars
            => [Service!Next]_(Service!vars)
    BY StepService
  <1>. QED
    BY <1>1, <1>2, <1>3, <1>4, <1>5, PTL DEF Spec, ServiceSteps

=============================================================================
