-------------------------- MODULE ServicesProofs --------------------------
(***************************************************************************)
(* Safety of the services of the desktop core, each for every value of its *)
(* constants.  A step of Services is a step of one of them and leaves the  *)
(* others alone, so an invariant of one is an invariant of all.            *)
(***************************************************************************)
EXTENDS Services, FiniteSetTheorems, TLAPS

-----------------------------------------------------------------------------
(* Capture of diagnostics *)

LEMMA DiagOnly == [Next]_vars => [Diag!Next]_diagVars
    BY DEF Next, vars, OnlyCore, OnlyBox, OnlySending, OnlyFan, OnlyExtra,
        OnlyDialer, OnlySpeed, OnlyVpn, OnlyDiag, OnlyWarp, OnlyDns,
        OnlyPhone, OnlyLog

LEMMA DiagInit == Init => Diag!DiagInv
    BY ServicesAssumption DEF Init, ServicesAssumption, Diag!Init,
        Diag!DiagInv, Diag!Goto, Diag!Holding, Diag!Stoppable,
        Diag!Measuring, Diag!Profilers

LEMMA DiagStep == Diag!DiagInv /\ [Diag!Next]_diagVars => Diag!DiagInv'
  <1> SUFFICES ASSUME Diag!DiagInv, [Diag!Next]_diagVars PROVE Diag!DiagInv'
    OBVIOUS
  <1> USE ServicesAssumption DEF ServicesAssumption, Diag!DiagInv,
      Diag!Goto, Diag!Holding, Diag!Stoppable, Diag!Measuring,
      Diag!Profilers
  <1>1. CASE UNCHANGED diagVars
    BY <1>1 DEF diagVars
  <1>2. ASSUME NEW c \in Captures,
      NEW asked \in SUBSET {"contention", "trace"},
      Diag!CaptureDiagnostics(c, asked)
        PROVE  Diag!DiagInv'
    BY <1>2 DEF Diag!CaptureDiagnostics
  <1>3. ASSUME NEW c \in Captures, Diag!AttachmentsRefused(c)
        PROVE  Diag!DiagInv'
    BY <1>3 DEF Diag!AttachmentsRefused
  <1>4. ASSUME NEW c \in Captures, Diag!PublishStop(c)
        PROVE  Diag!DiagInv'
    BY <1>4 DEF Diag!PublishStop
  <1>5. ASSUME NEW c \in Captures, Diag!StartContention(c)
        PROVE  Diag!DiagInv'
    BY <1>5 DEF Diag!StartContention, Diag!SwitchOn, Diag!SwitchOff
  <1>6. ASSUME NEW c \in Captures, Diag!StartTrace(c)
        PROVE  Diag!DiagInv'
    BY <1>6 DEF Diag!StartTrace, Diag!SwitchOn, Diag!SwitchOff
  <1>7. ASSUME NEW c \in Captures, Diag!StartCPU(c)
        PROVE  Diag!DiagInv'
    BY <1>7 DEF Diag!StartCPU, Diag!SwitchOff
  <1>8. ASSUME NEW c \in Captures, Diag!WindowEnds(c)
        PROVE  Diag!DiagInv'
    BY <1>8 DEF Diag!WindowEnds
  <1>9. ASSUME NEW c \in Captures, Diag!Panics(c)
        PROVE  Diag!DiagInv'
    BY <1>9 DEF Diag!Panics
  <1>10. ASSUME NEW c \in Captures, Diag!Unwind(c)
        PROVE  Diag!DiagInv'
    BY <1>10 DEF Diag!Unwind
  <1>11. ASSUME NEW c \in Captures, Diag!Collect(c)
        PROVE  Diag!DiagInv'
    BY <1>11 DEF Diag!Collect
  <1>12. ASSUME NEW c \in Captures, Diag!Unpublish(c)
        PROVE  Diag!DiagInv'
    BY <1>12 DEF Diag!Unpublish
  <1>13. ASSUME NEW c \in Captures, Diag!Unlock(c)
        PROVE  Diag!DiagInv'
    BY <1>13 DEF Diag!Unlock
  <1>14. CASE Diag!StopDiagnostics
    BY <1>14 DEF Diag!StopDiagnostics
  <1>. QED
    BY <1>1, <1>2, <1>3, <1>4, <1>5, <1>6, <1>7, <1>8, <1>9, <1>10, <1>11,
        <1>12, <1>13, <1>14 DEF Diag!Next

\* The lock, the published stop function and the profilers that are on follow
\* from where the calls are.
THEOREM DiagInvariant == Spec => []Diag!DiagInv
  <1>1. Diag!DiagInv /\ [Next]_vars => Diag!DiagInv'
    BY DiagOnly, DiagStep
  <1>. QED
    BY <1>1, DiagInit, PTL DEF Spec

\* No profiler runs on after the window of its capture, panic or not, for any
\* number of calls.
THEOREM CaptureStopsProfilers == Spec => []ProfilersStopped
  <1>1. Diag!DiagInv => ProfilersStopped
    BY ServicesAssumption DEF ServicesAssumption, ProfilersStopped, Diag!ProfilersStopped, Diag!DiagInv, Diag!Holding, Diag!Stoppable, Diag!Measuring
  <1>. QED
    BY <1>1, DiagInvariant, PTL

\* StopDiagnostics cancels the capture whose window is open, never a later one.
THEOREM StopReachesTheCurrent == Spec => []StopHitsTheCurrent
  <1>1. Diag!DiagInv => StopHitsTheCurrent
    BY ServicesAssumption DEF ServicesAssumption, StopHitsTheCurrent, Diag!StopHitsTheCurrent, Diag!InWindow, Diag!DiagInv, Diag!Holding, Diag!Stoppable, Diag!Measuring
  <1>. QED
    BY <1>1, DiagInvariant, PTL

-----------------------------------------------------------------------------
(* Status of VPN endpoints *)

LEMMA VpnOnly == [Next]_vars => [Vpn!Next]_vpnVars
    BY DEF Next, vars, OnlyCore, OnlyBox, OnlySending, OnlyFan, OnlyExtra,
        OnlyDialer, OnlySpeed, OnlyVpn, OnlyDiag, OnlyWarp, OnlyDns,
        OnlyPhone, OnlyLog

LEMMA VpnInit == Init => Vpn!VpnInv
    BY ServicesAssumption DEF Init, ServicesAssumption, Vpn!Init,
        Vpn!VpnInv, Vpn!vpnStatusSettled, Vpn!None, Vpn!Quiet, Vpn!Nothing

LEMMA VpnStep == Vpn!VpnInv /\ [Vpn!Next]_vpnVars => Vpn!VpnInv'
  <1> SUFFICES ASSUME Vpn!VpnInv, [Vpn!Next]_vpnVars PROVE Vpn!VpnInv'
    OBVIOUS
  <1> USE ServicesAssumption DEF ServicesAssumption, Vpn!VpnInv,
      Vpn!vpnStatusSettled, Vpn!None, Vpn!Quiet
  <1>1. CASE UNCHANGED vpnVars
    BY <1>1 DEF vpnVars
  <1>2. ASSUME NEW e \in Endpoints, NEW new \in Vpn!NewStatuses(e),
      Vpn!StatusChanges(e, new)
        PROVE  Vpn!VpnInv'
    BY <1>2 DEF Vpn!StatusChanges, Vpn!NewStatuses
  <1>3. ASSUME NEW e \in Endpoints, Vpn!Subscribe(e)
        PROVE  Vpn!VpnInv'
    BY <1>3 DEF Vpn!Subscribe
  <1>4. ASSUME NEW e \in Endpoints, Vpn!Snapshot(e)
        PROVE  Vpn!VpnInv'
    BY <1>4 DEF Vpn!Snapshot
  <1>5. ASSUME NEW e \in Endpoints, Vpn!Wake(e)
        PROVE  Vpn!VpnInv'
    BY <1>5 DEF Vpn!Wake
  <1>6. ASSUME NEW e \in Endpoints, Vpn!Deadline(e)
        PROVE  Vpn!VpnInv'
    BY <1>6 DEF Vpn!Deadline
  <1>7. ASSUME NEW e \in Endpoints, Vpn!SubmitVPNChallenge(e)
        PROVE  Vpn!VpnInv'
    BY <1>7 DEF Vpn!SubmitVPNChallenge
  <1>8. ASSUME NEW e \in Endpoints, Vpn!CancelVPNChallenge(e)
        PROVE  Vpn!VpnInv'
    BY <1>8 DEF Vpn!CancelVPNChallenge
  <1>9. ASSUME NEW waits \in BOOLEAN, Vpn!QueryVPNStatus(waits)
        PROVE  Vpn!VpnInv'
    BY <1>9 DEF Vpn!QueryVPNStatus
  <1>10. CASE Vpn!Respond
    BY <1>10 DEF Vpn!Respond
  <1>11. CASE Vpn!CompleteChallenge
    <2> DEFINE e == submission.endpoint
    <2>1. e \in Endpoints
      BY <1>11 DEF Vpn!CompleteChallenge
    <2>2. CASE status[e].challenge.id = submission.id
      <3>1. /\ status' = [status EXCEPT ![e] = Vpn!Quiet]
            /\ generation' = [generation EXCEPT ![e] = @ + 1]
            /\ submitPC' = "idle" /\ UNCHANGED <<waitPC, heard>>
        BY <1>11, <2>2 DEF Vpn!CompleteChallenge
      <3>. QED
        BY <2>1, <3>1
    <2>3. CASE status[e].challenge.id # submission.id
      BY <1>11, <2>1, <2>3 DEF Vpn!CompleteChallenge
    <2>. QED
      BY <2>2, <2>3
  <1>. QED
    BY <1>1, <1>2, <1>3, <1>4, <1>5, <1>6, <1>7, <1>8, <1>9, <1>10, <1>11 DEF Vpn!Next

\* A goroutine whose channel is in force has seen the status there is.
THEOREM VpnInvariant == Spec => []Vpn!VpnInv
  <1>1. Vpn!VpnInv /\ [Next]_vars => Vpn!VpnInv'
    BY VpnOnly, VpnStep
  <1>. QED
    BY <1>1, VpnInit, PTL DEF Spec

\* No query sleeps through the change of status it waits for, for any number of
\* endpoints and changes.
THEOREM QueryHearsEveryChange == Spec => []NoLostWakeup
  <1>1. Vpn!VpnInv => NoLostWakeup
    BY DEF NoLostWakeup, Vpn!NoLostWakeup, Vpn!VpnInv
  <1>. QED
    BY <1>1, VpnInvariant, PTL

-----------------------------------------------------------------------------
(* The interface Xray instances send from *)

LEMMA SendingOnly == [Next]_vars => [Sending!Next]_egressVars
    BY DEF Next, vars, OnlyCore, OnlyBox, OnlySending, OnlyFan, OnlyExtra,
        OnlyDialer, OnlySpeed, OnlyVpn, OnlyDiag, OnlyWarp, OnlyDns,
        OnlyPhone, OnlyLog

LEMMA SendingInit == Init => Sending!EgressInv
  <1> SUFFICES ASSUME Init PROVE Sending!EgressInv
    OBVIOUS
  <1>1. Sending!FirstLink \in Links
    BY ServicesAssumption DEF ServicesAssumption, Sending!FirstLink
  <1>. QED
    BY <1>1 DEF Init, Sending!Init, Sending!EgressInv

LEMMA SendingStep == Sending!EgressInv /\ [Sending!Next]_egressVars => Sending!EgressInv'
  <1> SUFFICES ASSUME Sending!EgressInv, [Sending!Next]_egressVars PROVE Sending!EgressInv'
    OBVIOUS
  <1> USE DEF Sending!EgressInv, Sending!callback, Sending!lifecycle
  <1>0. Sending!Sidecar \in Sending!Owners
    BY DEF Sending!Owners
  <1>1. CASE UNCHANGED egressVars
    BY <1>1 DEF egressVars
  <1>2. ASSUME NEW l \in Links, Sending!LinkChanges(l)
        PROVE  Sending!EgressInv'
    BY <1>2 DEF Sending!LinkChanges
  <1>3. ASSUME NEW o \in Sending!Owners, Sending!Prepare(o)
        PROVE  Sending!EgressInv'
    BY <1>3 DEF Sending!Prepare, Sending!Take
  <1>4. ASSUME NEW o \in Sending!Owners, Sending!Ensured(o)
        PROVE  Sending!EgressInv'
    BY <1>4 DEF Sending!Ensured
  <1>5. ASSUME NEW o \in Sending!Owners, Sending!Swept(o)
        PROVE  Sending!EgressInv'
    BY <1>5 DEF Sending!Swept
  <1>6. ASSUME NEW o \in Sending!Owners, Sending!OpenGate(o)
        PROVE  Sending!EgressInv'
    BY <1>6 DEF Sending!OpenGate
  <1>7. ASSUME NEW o \in Sending!Owners, Sending!CloseOne(o)
        PROVE  Sending!EgressInv'
    BY <1>7 DEF Sending!CloseOne
  <1>8. ASSUME NEW o \in Sending!Owners, Sending!Instance(o)
        PROVE  Sending!EgressInv'
    BY <1>8 DEF Sending!Instance
  <1>9. ASSUME NEW o \in Sending!Owners, Sending!SetEgress(o)
        PROVE  Sending!EgressInv'
    BY <1>9 DEF Sending!SetEgress
  <1>10. ASSUME NEW need \in BOOLEAN, NEW cold \in BOOLEAN, Sending!StartXray(need, cold)
         PROVE  Sending!EgressInv'
    BY <1>10 DEF Sending!StartXray
  <1>11. CASE Sending!PrepareEager
    BY <1>0, <1>11 DEF Sending!PrepareEager, Sending!Take
  <1>12. CASE Sending!setXray
    <2>1. /\ inst' = [o \in Sending!Owners |-> inst'[o]]
          /\ \A o \in Sending!Owners : /\ inst'[o] \in {"none", "prepared", "live"}
                                       /\ inst'[o] # "none" => inst[o] # "none"
      BY <1>0, <1>12 DEF Sending!setXray
    <2>. QED
      BY <1>0, <1>12, <2>1 DEF Sending!setXray
  <1>13. CASE Sending!SidecarFails
    BY <1>0, <1>13 DEF Sending!SidecarFails
  <1>14. CASE Sending!setXrayFullGates
    BY <1>14 DEF Sending!setXrayFullGates, Sending!Owners
  <1>15. CASE Sending!FullGatesFail \/ Sending!closeXray \/ Sending!XrayClosed
    BY <1>15 DEF Sending!FullGatesFail, Sending!closeXray, Sending!XrayClosed
  <1>16. CASE Sending!ReadSlots
    BY <1>16 DEF Sending!ReadSlots
  <1>17. CASE Sending!CallbackReturns
    BY <1>17 DEF Sending!CallbackReturns
  <1>. QED
    BY <1>1, <1>2, <1>3, <1>4, <1>5, <1>6, <1>7, <1>8, <1>9, <1>10, <1>11, <1>12,
       <1>13, <1>14, <1>15, <1>16, <1>17 DEF Sending!Next

\* An instance on an interface that is no longer the default one is on the list
\* of the callback, or was in no slot when the callback read them.
THEOREM SendingInvariant == Spec => []Sending!EgressInv
  <1>1. Sending!EgressInv /\ [Next]_vars => Sending!EgressInv'
    BY SendingOnly, SendingStep
  <1>. QED
    BY <1>1, SendingInit, PTL DEF Spec

\* Every instance whose owner was published when the callback of an interface
\* change read the slots sends from the new interface once it is over, and so
\* does every instance prepared since, for any number of gates and interfaces.
THEOREM EgressIsMoved == Spec => []EgressFollowsDefault
  <1>1. Sending!EgressInv => EgressFollowsDefault
    BY DEF EgressFollowsDefault, Sending!EgressFollowsDefault, Sending!EgressInv
  <1>. QED
    BY <1>1, SendingInvariant, PTL

-----------------------------------------------------------------------------
(* The connection of the core *)

LEMMA CoreOnly == [Next]_vars => [Core!Next]_coreVars
    BY DEF Next, vars, OnlyCore, OnlyBox, OnlySending, OnlyFan, OnlyExtra,
        OnlyDialer, OnlySpeed, OnlyVpn, OnlyDiag, OnlyWarp, OnlyDns,
        OnlyPhone, OnlyLog

LEMMA CoreInit == Init => Core!CoreInv
    BY ServicesAssumption DEF Init, ServicesAssumption, Core!Init,
        Core!CoreInv, Core!ResponsesWhole

LEMMA CoreStep == Core!CoreInv /\ [Core!Next]_coreVars => Core!CoreInv'
  <1> SUFFICES ASSUME Core!CoreInv, [Core!Next]_coreVars PROVE Core!CoreInv'
    OBVIOUS
  <1> USE ServicesAssumption DEF ServicesAssumption, Core!CoreInv,
      Core!ResponsesWhole
  <1>1. CASE UNCHANGED coreVars
    BY <1>1 DEF coreVars
  <1>2. CASE Core!CheckParentProcess
    BY <1>2 DEF Core!CheckParentProcess
  <1>3. CASE Core!ConnectFails
    BY <1>3 DEF Core!ConnectFails
  <1>4. CASE Core!ServeReturns
    BY <1>4 DEF Core!ServeReturns
  <1>5. CASE Core!Dropped
    BY <1>5 DEF Core!Dropped, Core!Exit
  <1>6. CASE Core!WatchParent
    BY <1>6 DEF Core!WatchParent, Core!Exit
  <1>7. CASE Core!CheckFails
    BY <1>7 DEF Core!CheckFails, Core!Exit
  <1>8. CASE Core!ConnectIPC
    BY <1>8 DEF Core!ConnectIPC
  <1>9. CASE Core!PeerRefused
    BY <1>9 DEF Core!PeerRefused, Core!Exit
  <1>10. CASE Core!Panic
    BY <1>10 DEF Core!Panic, Core!Exit
  <1>11. CASE Core!ParentExits
    BY <1>11 DEF Core!ParentExits
  <1>12. CASE Core!PeerGoes
    BY <1>12 DEF Core!PeerGoes
  <1>13. ASSUME NEW r \in Requests, Core!ReadRequest(r)
        PROVE  Core!CoreInv'
    BY <1>13 DEF Core!ReadRequest
  <1>14. ASSUME NEW r \in Requests, Core!dispatch(r)
        PROVE  Core!CoreInv'
    BY <1>14 DEF Core!dispatch
  <1>15. ASSUME NEW r \in Requests, Core!WriteHeader(r)
        PROVE  Core!CoreInv'
    <2>1. CASE conn = "open"
      <3>1. /\ reqPC[r] = "lock" /\ writeMu = "free" /\ reqPC' = [reqPC EXCEPT ![r] = "data"]
            /\ writeMu' = r /\ wire' = Append(wire, <<r, "header">>)
        BY <1>15, <2>1 DEF Core!WriteHeader
      <3>2. /\ wire' \in Seq(Requests \X {"header", "data"})
            /\ DOMAIN wire' = 1..(Len(wire) + 1) /\ DOMAIN wire = 1..Len(wire)
            /\ Len(wire') = Len(wire) + 1 /\ Len(wire) \in Nat
            /\ wire'[Len(wire) + 1] = <<r, "header">>
            /\ \A i \in DOMAIN wire : wire'[i] = wire[i]
        BY <3>1
      <3>3. Core!ResponsesWhole'
        BY <3>1, <3>2
      <3>. QED
        BY <3>1, <3>2, <3>3
    <2>2. CASE conn # "open"
      <3>1. /\ reqPC[r] = "lock" /\ reqPC' = [reqPC EXCEPT ![r] = "done"]
            /\ UNCHANGED <<writeMu, wire>>
        BY <1>15, <2>2 DEF Core!WriteHeader
      <3>2. Core!ResponsesWhole'
        BY <3>1
      <3>. QED
        BY <3>1, <3>2
    <2>. QED
      BY <2>1, <2>2
  <1>16. ASSUME NEW r \in Requests, Core!WriteData(r)
        PROVE  Core!CoreInv'
    BY <1>16 DEF Core!WriteData
  <1>. QED
    BY <1>1, <1>2, <1>3, <1>4, <1>5, <1>6, <1>7, <1>8, <1>9, <1>10, <1>11,
        <1>12, <1>13, <1>14, <1>15, <1>16 DEF Core!Next, Core!MainStep, Core!RequestStep

\* The goroutine that holds writeMu wrote its header last.
THEOREM CoreInvariant == Spec => []Core!CoreInv
  <1>1. Core!CoreInv /\ [Next]_vars => Core!CoreInv'
    BY CoreOnly, CoreStep
  <1>. QED
    BY <1>1, CoreInit, PTL DEF Spec

\* Responses are never torn or repeated, for any number of requests in flight.
THEOREM CoreAnswersWhole == Spec => []ResponsesWhole
  <1>1. Core!CoreInv => ResponsesWhole
    BY DEF ResponsesWhole, Core!CoreInv
  <1>. QED
    BY <1>1, CoreInvariant, PTL

\* What is on the wire stays there.
LEMMA AppendKeeps ==
    ASSUME NEW S, NEW w \in Seq(S), NEW x \in S
    PROVE  \A i \in DOMAIN w : i \in DOMAIN Append(w, x) /\ Append(w, x)[i] = w[i]
  OBVIOUS

\* A goroutine that ends leaves its answer on the wire.
LEMMA CoreEnds ==
    ASSUME Core!CoreInv, Core!EndedIsAnswered, Core!ConnInv, [Core!Next]_coreVars
    PROVE  Core!EndedIsAnswered' /\ Core!ConnInv'
  <1> USE DEF Core!EndedIsAnswered, Core!ConnInv
  <1>1. reqPC \in [Requests -> {"unsent", "dispatch", "lock", "data", "done"}]
        /\ wire \in Seq(Requests \X {"header", "data"})
    BY DEF Core!CoreInv
  <1>2. CASE \/ UNCHANGED coreVars \/ Core!MainStep \/ Core!WatchParent
             \/ Core!CheckFails \/ Core!ConnectIPC \/ Core!PeerRefused \/ Core!Panic
             \/ Core!ParentExits \/ Core!PeerGoes
    BY <1>2 DEF coreVars, Core!MainStep, Core!CheckParentProcess, Core!ConnectFails,
        Core!ServeReturns, Core!Dropped, Core!WatchParent, Core!CheckFails,
        Core!ConnectIPC, Core!PeerRefused, Core!Panic, Core!ParentExits,
        Core!PeerGoes, Core!Exit
  <1>3. ASSUME NEW r \in Requests, Core!ReadRequest(r) \/ Core!dispatch(r)
        PROVE  Core!EndedIsAnswered' /\ Core!ConnInv'
    BY <1>1, <1>3 DEF Core!ReadRequest, Core!dispatch
  <1>4. ASSUME NEW r \in Requests, Core!WriteHeader(r) \/ Core!WriteData(r)
        PROVE  Core!EndedIsAnswered' /\ Core!ConnInv'
    <2>1. corePC \in {"serve", "dropped"} /\ UNCHANGED <<corePC, conn>>
      BY <1>4 DEF Core!WriteHeader, Core!WriteData
    <2>2. \A q \in Requests \ {r} : reqPC'[q] = reqPC[q]
      BY <1>1, <1>4 DEF Core!WriteHeader, Core!WriteData
    <2>3. \A i \in DOMAIN wire : i \in DOMAIN wire' /\ wire'[i] = wire[i]
      <3>1. \/ wire' = wire \/ wire' = Append(wire, <<r, "header">>)
            \/ wire' = Append(wire, <<r, "data">>)
        BY <1>4 DEF Core!WriteHeader, Core!WriteData
      <3>2. <<r, "header">> \in Requests \X {"header", "data"}
            /\ <<r, "data">> \in Requests \X {"header", "data"}
        OBVIOUS
      <3>. QED
        BY <1>1, <3>1, <3>2, AppendKeeps
    <2>4. ASSUME reqPC'[r] = "done", conn = "open"
          PROVE  \E i \in DOMAIN wire' : wire'[i] = <<r, "data">>
      <3>1. wire' = Append(wire, <<r, "data">>)
        BY <1>1, <1>4, <2>4 DEF Core!WriteHeader, Core!WriteData
      <3>2. Len(wire) + 1 \in DOMAIN wire' /\ wire'[Len(wire) + 1] = <<r, "data">>
        BY <1>1, <3>1
      <3>. QED
        BY <3>2
    <2>. QED
      BY <2>1, <2>2, <2>3, <2>4
  <1>. QED
    BY <1>2, <1>3, <1>4 DEF Core!Next, Core!RequestStep

\* No request is lost: while the connection stands, a goroutine ends only with
\* its response written, for any number of requests at the same time.
THEOREM CoreEndsAnswered == Spec => []Core!EndedIsAnswered
  <1>1. Init => Core!EndedIsAnswered /\ Core!ConnInv
    BY DEF Init, Core!Init, Core!EndedIsAnswered, Core!ConnInv
  <1>2. Core!CoreInv /\ Core!EndedIsAnswered /\ Core!ConnInv /\ [Next]_vars
            => Core!EndedIsAnswered' /\ Core!ConnInv'
    BY CoreOnly, CoreEnds
  <1>. QED
    BY <1>1, <1>2, CoreInvariant, PTL DEF Spec

-----------------------------------------------------------------------------
(* The extra process *)

LEMMA ExtraOnly == [Next]_vars => [Extra!Next]_extraVars
    BY DEF Next, vars, OnlyCore, OnlyBox, OnlySending, OnlyFan, OnlyExtra,
        OnlyDialer, OnlySpeed, OnlyVpn, OnlyDiag, OnlyWarp, OnlyDns,
        OnlyPhone, OnlyLog

\* Whichever source of a token worked, it is a user's.
LEMMA ChildTokenIsUsers == Extra!ChildToken \in {"user", "fail"}
  BY DEF Extra!ChildToken, Extra!unprivilegedToken, Extra!unelevated

LEMMA ChildTokenStays == UNCHANGED <<platform, tokens>> => Extra!ChildToken' = Extra!ChildToken
  BY DEF Extra!ChildToken, Extra!unprivilegedToken, Extra!unelevated

LEMMA ExtraInit == Init => Extra!ExtraInv
    BY DEF Init, Extra!Init, Extra!ExtraInv, Extra!BeforeChild, Extra!Opening

LEMMA ExtraStep == Extra!ExtraInv /\ [Extra!Next]_extraVars => Extra!ExtraInv'
  <1> SUFFICES ASSUME Extra!ExtraInv, [Extra!Next]_extraVars PROVE Extra!ExtraInv'
    OBVIOUS
  <1> USE DEF Extra!ExtraInv, Extra!BeforeChild, Extra!Opening, Extra!Frame,
      Extra!NoRunner, Extra!NoChild, Extra!closeAll
  <1>1. CASE UNCHANGED extraVars
    BY <1>1, ChildTokenStays DEF extraVars
  <1>2. ASSUME NEW system \in Extra!Systems,
      Extra!createSecureConfigFile(system)
        PROVE  Extra!ExtraInv'
    BY <1>2 DEF Extra!createSecureConfigFile
  <1>3. CASE Extra!CreateExtraConfig
    BY <1>3 DEF Extra!CreateExtraConfig
  <1>4. CASE Extra!StartRefused
    BY <1>4 DEF Extra!StartRefused, Extra!StartFailed
  <1>5. CASE Extra!startCmd
    BY <1>5, ChildTokenIsUsers DEF Extra!startCmd, Extra!StartFailed
  <1>6. CASE Extra!OpenOut
    BY <1>6, ChildTokenIsUsers, ChildTokenStays DEF Extra!OpenOut
  <1>7. CASE Extra!OpenErr
    BY <1>7, ChildTokenStays DEF Extra!OpenErr
  <1>8. CASE Extra!OpenNul
    BY <1>8, ChildTokenStays DEF Extra!OpenNul
  <1>9. CASE Extra!MakeInheritable
    BY <1>9, ChildTokenStays DEF Extra!MakeInheritable
  <1>10. CASE Extra!CreateFails
    BY <1>10 DEF Extra!CreateFails
  <1>11. CASE Extra!CreateProcessWithTokenW
    BY <1>11 DEF Extra!CreateProcessWithTokenW
  <1>12. CASE Extra!ChildExits
    BY <1>12 DEF Extra!ChildExits, Extra!Reaper
  <1>13. CASE Extra!WaitReturns
    BY <1>13 DEF Extra!WaitReturns, Extra!Reaper
  <1>14. CASE Extra!WaitCleanup
    BY <1>14 DEF Extra!WaitCleanup
  <1>15. CASE Extra!Kill
    BY <1>15 DEF Extra!Kill
  <1>16. CASE Extra!TerminateProcess
    BY <1>16 DEF Extra!TerminateProcess
  <1>17. CASE Extra!StopCleanup
    BY <1>17 DEF Extra!StopCleanup
  <1>18. ASSUME NEW r \in {"outR", "errR"}, Extra!PumpEnds(r)
        PROVE  Extra!ExtraInv'
    BY <1>18 DEF Extra!PumpEnds, Extra!Reaper
  <1>. QED
    BY <1>1, <1>2, <1>3, <1>4, <1>5, <1>6, <1>7, <1>8, <1>9, <1>10, <1>11,
        <1>12, <1>13, <1>14, <1>15, <1>16, <1>17, <1>18 DEF Extra!Next

\* What there is of the child in each phase, each handle of a start with a token
\* that failed half-way included.
THEOREM ExtraInvariant == Spec => []Extra!ExtraInv
  <1>1. Extra!ExtraInv /\ [Next]_vars => Extra!ExtraInv'
    BY ExtraOnly, ExtraStep
  <1>. QED
    BY <1>1, ExtraInit, PTL DEF Spec

\* The extra process never runs with the privileges of the core, whatever tokens
\* the system offers.
THEOREM ExtraIsUnprivileged == Spec => []ChildUnprivileged
  <1>1. Extra!ExtraInv => ChildUnprivileged
    BY DEF ChildUnprivileged, Extra!ChildUnprivileged, Extra!ExtraInv, Extra!BeforeChild
  <1>. QED
    BY <1>1, ExtraInvariant, PTL

\* A start that failed and a child that was reaped leave no file, pipe or handle.
THEOREM ExtraLeavesNothing == Spec => []NothingLeftOfProcess
  <1>1. Extra!ExtraInv => NothingLeftOfProcess
    BY DEF NothingLeftOfProcess, Extra!NothingLeftOfProcess, Extra!ExtraInv, Extra!BeforeChild,
        Extra!Opening
  <1>. QED
    BY <1>1, ExtraInvariant, PTL

\* Stop never terminates through a handle the reaping goroutine has closed.
THEOREM ExtraHandleIsOpen == Spec => []HandleNeverReused
  <1>1. Extra!ExtraInv => HandleNeverReused
    BY DEF HandleNeverReused, Extra!HandleNeverReused, Extra!ExtraInv
  <1>. QED
    BY <1>1, ExtraInvariant, PTL

-----------------------------------------------------------------------------
(* Speed and country tests *)

LEMMA SpeedOnly == [Next]_vars => [Speed!Next]_speedVars
    BY DEF Next, vars, OnlyCore, OnlyBox, OnlySending, OnlyFan, OnlyExtra,
        OnlyDialer, OnlySpeed, OnlyVpn, OnlyDiag, OnlyWarp, OnlyDns,
        OnlyPhone, OnlyLog

LEMMA SpeedInit == Init => Speed!SpeedInv
  <1> SUFFICES ASSUME Init PROVE Speed!SpeedInv
    OBVIOUS
  <1>1. isRunning \in BOOLEAN /\ overlapped \in BOOLEAN
    BY Zenon DEF Init, Speed!Init
  <1>. QED
    BY <1>1, ServicesAssumption DEF ServicesAssumption, Init, Speed!Init, Speed!SpeedInv,
       Speed!SpeedTypeOK, Speed!AnswersInv, Speed!SamplingInv, Speed!Tags, Speed!Sampling,
       Speed!ProgressIsLive

LEMMA SpeedStep == Speed!SpeedInv /\ [Speed!Next]_speedVars => Speed!SpeedInv'
  <1> SUFFICES ASSUME Speed!SpeedInv, [Speed!Next]_speedVars PROVE Speed!SpeedInv'
    OBVIOUS
  <1> USE ServicesAssumption DEF ServicesAssumption, Speed!SpeedInv,
      Speed!SpeedTypeOK, Speed!AnswersInv, Speed!SamplingInv, Speed!Tags,
      Speed!Sampling, Speed!Goto, Speed!ProgressIsLive
  <1>1. CASE UNCHANGED speedVars
    BY <1>1 DEF speedVars
  <1>2. ASSUME NEW t \in Tests, NEW kind \in {"country", "speed"},
      Speed!BatchSpeedTest(t, kind)
        PROVE  Speed!SpeedInv'
    BY <1>2 DEF Speed!BatchSpeedTest
  <1>3. ASSUME NEW t \in Tests,
      \E exists \in BOOLEAN : Speed!NextTag(t, exists)
        PROVE  Speed!SpeedInv'
    <2>0. PICK exists \in BOOLEAN : Speed!NextTag(t, exists)
      BY <1>3, Zenon
    <2>1. /\ spPC[t] = "loop" /\ spTag[t] \in Speed!Tags
          /\ answered' = [answered EXCEPT ![t] = @ \cup {spTag[t]}]
          /\ UNCHANGED <<spKind, spCtx, workers, isRunning, overlapped>>
      BY <2>0 DEF Speed!NextTag
    <2>2. CASE exists
      <3>1. PICK to \in {"queue", "server"} :
               spPC' = [spPC EXCEPT ![t] = to] /\ UNCHANGED <<spTag, country>>
        BY <2>0, <2>2 DEF Speed!NextTag
      <3>2. Speed!SpeedTypeOK'
        BY <2>1, <3>1
      <3>3. Speed!AnswersInv'
        BY <2>1, <3>1, <3>2
      <3>4. Speed!Sampling' = Speed!Sampling
        BY <2>1, <3>1
      <3>5. Speed!SamplingInv'
        BY <2>1, <3>4
      <3>. QED
        BY <3>2, <3>3, <3>5
    <2>3. CASE ~exists
      <3>1. /\ spTag' = [spTag EXCEPT ![t] = spTag[t] + 1] /\ UNCHANGED spPC
            /\ country' \in {country, country \cup {<<t, spTag[t]>>}}
        BY <2>0, <2>3 DEF Speed!NextTag
      <3>. QED
        BY <2>1, <3>1
    <2>. QED
      BY <2>2, <2>3
  <1>4. ASSUME NEW t \in Tests, Speed!LeaveLoop(t)
        PROVE  Speed!SpeedInv'
    <2>1. spCtx[t] = "live" => spTag[t] = LastTag + 1
      BY <1>4 DEF Speed!LeaveLoop
    <2>2. ASSUME spCtx[t] = "live" PROVE answered[t] = Speed!Tags
      <3>1. \A k \in Speed!Tags : k < LastTag + 1
        OBVIOUS
      <3>2. Speed!Tags \subseteq answered[t]
        BY <2>1, <2>2, <3>1 DEF Speed!AnswersInv
      <3>. QED
        BY <3>2
    <2>. QED
      BY <1>4, <2>2 DEF Speed!LeaveLoop
  <1>5. ASSUME NEW t \in Tests, Speed!SpawnCountry(t)
        PROVE  Speed!SpeedInv'
    BY <1>5 DEF Speed!SpawnCountry
  <1>6. ASSUME NEW t \in Tests, Speed!ServerFails(t)
        PROVE  Speed!SpeedInv'
    BY <1>6 DEF Speed!ServerFails
  <1>7. ASSUME NEW t \in Tests, Speed!BeginTransfer(t)
        PROVE  Speed!SpeedInv'
    BY <1>7 DEF Speed!BeginTransfer
  <1>8. ASSUME NEW t \in Tests, Speed!TransferEnds(t)
        PROVE  Speed!SpeedInv'
    BY <1>8 DEF Speed!TransferEnds
  <1>9. ASSUME NEW t \in Tests, Speed!sample(t)
        PROVE  Speed!SpeedInv'
    BY <1>9 DEF Speed!sample
  <1>10. ASSUME NEW t \in Tests, Speed!TransferDone(t)
        PROVE  Speed!SpeedInv'
    <2>1. /\ spPC[t] = "sample" /\ spPC' = [spPC EXCEPT ![t] = "loop"]
          /\ spTag' = [spTag EXCEPT ![t] = @ + 1] /\ isRunning' = FALSE
          /\ UNCHANGED <<spCtx, answered, workers, country>>
      BY <1>10 DEF Speed!TransferDone, Speed!EndSampling
    <2>2. overlapped' = (overlapped /\ Speed!Sampling # {t})
      BY <1>10, Zenon DEF Speed!TransferDone, Speed!EndSampling
    <2>3. isRunning' \in BOOLEAN /\ overlapped' \in BOOLEAN
      BY <2>1, <2>2, Zenon
    <2>4. Speed!SpeedTypeOK'
      BY <2>1, <2>3
    <2>5. Speed!AnswersInv'
      BY <2>1, <2>4
    <2>6. Speed!SamplingInv'
      <3>1. Speed!Sampling' = Speed!Sampling \ {t}
        BY <2>1
      <3>2. ASSUME NEW u \in Speed!Sampling' PROVE overlapped'
        <4>1. overlapped /\ Speed!Sampling # {t}
          BY <2>1, <3>1, <3>2
        <4>. QED
          BY <4>1, <2>2
      <3>. QED
        BY <2>1, <3>2
    <2>. QED
      BY <2>4, <2>5, <2>6
  <1>11. ASSUME NEW t \in Tests, Speed!TransferCancelled(t)
        PROVE  Speed!SpeedInv'
    <2>1. /\ spPC[t] = "sample" /\ spPC' = [spPC EXCEPT ![t] = "loop"]
          /\ spTag' = [spTag EXCEPT ![t] = @ + 1] /\ isRunning' = FALSE
          /\ UNCHANGED <<spCtx, answered, workers, country>>
      BY <1>11 DEF Speed!TransferCancelled, Speed!EndSampling
    <2>2. overlapped' = (overlapped /\ Speed!Sampling # {t})
      BY <1>11, Zenon DEF Speed!TransferCancelled, Speed!EndSampling
    <2>3. isRunning' \in BOOLEAN /\ overlapped' \in BOOLEAN
      BY <2>1, <2>2, Zenon
    <2>4. Speed!SpeedTypeOK'
      BY <2>1, <2>3
    <2>5. Speed!AnswersInv'
      BY <2>1, <2>4
    <2>6. Speed!SamplingInv'
      <3>1. Speed!Sampling' = Speed!Sampling \ {t}
        BY <2>1
      <3>2. ASSUME NEW u \in Speed!Sampling' PROVE overlapped'
        <4>1. overlapped /\ Speed!Sampling # {t}
          BY <2>1, <3>1, <3>2
        <4>. QED
          BY <4>1, <2>2
      <3>. QED
        BY <2>1, <3>2
    <2>. QED
      BY <2>4, <2>5, <2>6
  <1>12. ASSUME NEW t \in Tests, Speed!Return(t)
        PROVE  Speed!SpeedInv'
    BY <1>12 DEF Speed!Return
  <1>13. ASSUME NEW t \in Tests, NEW tag \in Speed!Tags,
      Speed!countryTest(t, tag)
        PROVE  Speed!SpeedInv'
    BY <1>13 DEF Speed!countryTest
  <1>14. ASSUME NEW x \in orphans, Speed!OrphanEnds(x)
        PROVE  Speed!SpeedInv'
    BY <1>14 DEF Speed!OrphanEnds
  <1>15. CASE Speed!QueryCountryTest
    BY <1>15 DEF Speed!QueryCountryTest
  <1>16. CASE Speed!StopTest
    BY <1>16 DEF Speed!StopTest
  <1> HIDE ServicesAssumption DEF ServicesAssumption, Speed!SpeedInv,
      Speed!SpeedTypeOK, Speed!AnswersInv, Speed!SamplingInv, Speed!Tags,
      Speed!Sampling, Speed!Goto, Speed!ProgressIsLive
  <1>. QED
    BY <1>1, <1>2, <1>3, <1>4, <1>5, <1>6, <1>7, <1>8, <1>9, <1>10, <1>11,
        <1>12, <1>13, <1>14, <1>15, <1>16 DEF Speed!Next

\* The tags before the one in turn are answered, and tests that sample together
\* have been noticed.
THEOREM SpeedInvariant == Spec => []Speed!SpeedInv
  <1>1. Speed!SpeedInv /\ [Next]_vars => Speed!SpeedInv'
    BY SpeedOnly, SpeedStep
  <1>. QED
    BY <1>1, SpeedInit, PTL DEF Spec

\* The progress of speed tests is shown exactly while one samples, unless tests
\* overlap, for any number of tests and tags.
THEOREM SpeedProgressIsLive == Spec => []ProgressIsLive
  <1>1. Speed!SpeedInv => ProgressIsLive
    BY DEF ProgressIsLive, Speed!SpeedInv, Speed!SamplingInv
  <1>. QED
    BY <1>1, SpeedInvariant, PTL

\* A speed test that returned answered its tags and left no goroutine and no
\* country result behind.
THEOREM SpeedTestsSettle == Spec => []SpeedTestSettled
  <1>1. Speed!SpeedInv => SpeedTestSettled
    BY DEF SpeedTestSettled, Speed!SpeedTestSettled, Speed!SpeedInv, Speed!AnswersInv
  <1>. QED
    BY <1>1, SpeedInvariant, PTL

-----------------------------------------------------------------------------
(* The gates of the full configurations *)

LEMMA FanOnly == [Next]_vars => [Fan!Next]_fanVars
    BY DEF Next, vars, OnlyCore, OnlyBox, OnlySending, OnlyFan, OnlyExtra,
        OnlyDialer, OnlySpeed, OnlyVpn, OnlyDiag, OnlyWarp, OnlyDns,
        OnlyPhone, OnlyLog

\* FullGates has the operators of FiniteSets under names of its own.
LEMMA FanCardinality ==
  ASSUME NEW S
  PROVE  Fan!Cardinality(S) = Cardinality(S) /\ (Fan!IsFiniteSet(S) <=> IsFiniteSet(S))
  BY DEF Fan!Cardinality, Cardinality, Fan!IsFiniteSet, IsFiniteSet

LEMMA FanInit == Init => Fan!FanInv
    BY ServicesAssumption DEF Init, ServicesAssumption, Fan!Init,
        Fan!FanInv, Fan!FanTypeOK, Fan!ProbesInv, Fan!ListenInv,
        Fan!Listens, Fan!PhaseInv, Fan!FullConfigs, Fan!IsInjective

LEMMA FanStep == Fan!FanInv /\ [Fan!Next]_fanVars => Fan!FanInv'
  <1> SUFFICES ASSUME Fan!FanInv, [Fan!Next]_fanVars PROVE Fan!FanInv'
    OBVIOUS
  <1>0. /\ Fan!FanTypeOK /\ Fan!ProbesInv /\ Fan!ListenInv /\ Fan!PhaseInv
        /\ 1 \in Fan!FullConfigs /\ GateCount \in Nat
        /\ \A g \in Fan!FullConfigs :
              InboundPorts(g) \in Seq(Nat) /\ Len(InboundPorts(g)) \in Nat \ {0}
    BY ServicesAssumption DEF ServicesAssumption, Fan!FanInv, Fan!FullConfigs
  <1> USE <1>0 DEF Fan!FanTypeOK
  <1>1. CASE UNCHANGED fanVars
    BY <1>1 DEF fanVars, Fan!FanInv, Fan!FanTypeOK, Fan!ProbesInv, Fan!ListenInv, Fan!Listens, Fan!PhaseInv
  <1>2. CASE Fan!startXrayFullGates
    <2>1. /\ fanPC = "idle" /\ fanPC' = "first" /\ fgPC[1] = "none"
          /\ fgPC' = [fgPC EXCEPT ![1] = "remap"]
          /\ UNCHANGED <<probes, targets, listening>>
      BY <1>2 DEF Fan!startXrayFullGates, Fan!PhaseInv
    <2>2. Fan!FanTypeOK'
      BY <2>1
    <2>3. Fan!ProbesInv'
      BY <2>1 DEF Fan!ProbesInv, Fan!IsInjective
    <2>4. Fan!ListenInv'
      BY <2>1 DEF Fan!ListenInv, Fan!Listens
    <2>5. Fan!PhaseInv'
      BY <2>1 DEF Fan!PhaseInv
    <2>. QED
      BY <2>2, <2>3, <2>4, <2>5 DEF Fan!FanInv
  <1>3. CASE Fan!FanOut
    <2>1. /\ fanPC = "first" /\ fgPC[1] \in {"up", "failed"}
          /\ fanPC' = IF fgPC[1] = "up" THEN "fan" ELSE "error"
          /\ fgPC' = [g \in Fan!FullConfigs |-> IF g # 1 /\ fgPC[1] = "up" THEN "queued" ELSE fgPC[g]]
          /\ UNCHANGED <<probes, targets, listening>>
      BY <1>3 DEF Fan!FanOut
    <2>2. Fan!FanTypeOK'
      BY <2>1
    <2>3. Fan!ProbesInv'
      BY <2>1 DEF Fan!ProbesInv, Fan!PhaseInv, Fan!IsInjective
    <2>4. Fan!ListenInv'
      BY <2>1 DEF Fan!ListenInv, Fan!Listens, Fan!PhaseInv
    <2>5. Fan!PhaseInv'
      BY <2>1 DEF Fan!PhaseInv
    <2>. QED
      BY <2>2, <2>3, <2>4, <2>5 DEF Fan!FanInv
  <1>4. CASE Fan!Join
    <2>1. CASE \E g \in Fan!FullConfigs : fgPC[g] = "failed"
      <3>1. /\ fanPC' = "error" /\ listening' = [g \in Fan!FullConfigs |-> {}]
            /\ fgPC' = [g \in Fan!FullConfigs |-> IF fgPC[g] = "up" THEN "closed" ELSE fgPC[g]]
            /\ \A g \in Fan!FullConfigs : fgPC[g] \in {"up", "failed"}
            /\ UNCHANGED <<probes, targets>>
        BY <1>4, <2>1 DEF Fan!Join
      <3>. QED
        BY <3>1 DEF Fan!FanInv, Fan!ProbesInv, Fan!ListenInv, Fan!Listens, Fan!PhaseInv
    <2>2. CASE ~ \E g \in Fan!FullConfigs : fgPC[g] = "failed"
      <3>1. fanPC' = "ok" /\ UNCHANGED <<fgPC, probes, targets, listening>>
        BY <1>4, <2>2 DEF Fan!Join
      <3>2. \A g \in Fan!FullConfigs : fgPC[g] = "up"
        BY <1>4, <2>2 DEF Fan!Join
      <3>. QED
        BY <3>1, <3>2 DEF Fan!FanInv, Fan!ProbesInv, Fan!ListenInv, Fan!Listens, Fan!PhaseInv
    <2>. QED
      BY <2>1, <2>2
  <1>5. ASSUME NEW g \in Fan!FullConfigs, Fan!TakeSlot(g)
        PROVE  Fan!FanInv'
    <2>1. /\ fgPC[g] = "queued" /\ fgPC' = [fgPC EXCEPT ![g] = "remap"]
          /\ UNCHANGED <<fanPC, probes, targets, listening>>
      BY <1>5 DEF Fan!TakeSlot
    <2>2. Fan!FanTypeOK'
      BY <2>1
    <2>3. Fan!ProbesInv'
      <3>1. DOMAIN targets[g] = {}
        BY <2>1 DEF Fan!ProbesInv
      <3>. QED
        BY <2>1, <3>1 DEF Fan!ProbesInv
    <2>4. Fan!ListenInv'
      BY <2>1 DEF Fan!ListenInv, Fan!Listens
    <2>5. Fan!PhaseInv'
      BY <2>1 DEF Fan!PhaseInv
    <2>. QED
      BY <2>2, <2>3, <2>4, <2>5 DEF Fan!FanInv
  <1>6. ASSUME NEW g \in Fan!FullConfigs, Fan!Remapped(g)
        PROVE  Fan!FanInv'
    <2>1. /\ fgPC[g] = "remap" /\ fgPC' = [fgPC EXCEPT ![g] = "listen"]
          /\ probes' = [probes EXCEPT ![g] = {}]
          /\ UNCHANGED <<fanPC, targets, listening>>
      BY <1>6 DEF Fan!Remapped
    <2>2. Fan!FanTypeOK'
      BY <2>1
    <2>3. Fan!ProbesInv'
      BY <2>1 DEF Fan!ProbesInv, Fan!IsInjective
    <2>4. Fan!ListenInv'
      <3>1. listening[g] = {} /\ IsFiniteSet({}) /\ Cardinality({}) = 0
        BY <2>1, FS_EmptySet DEF Fan!ListenInv, Fan!Listens
      <3>2. Fan!IsFiniteSet({}) /\ Fan!Cardinality({}) = 0
        BY <3>1, FanCardinality
      <3>3. {InboundPorts(g)[i] : i \in 1..0} = {} 
        OBVIOUS
      <3>4. ASSUME NEW h \in Fan!FullConfigs, h # g
            PROVE  fgPC'[h] = fgPC[h] /\ listening'[h] = listening[h]
        BY <2>1, <3>4
      <3>5. /\ Fan!IsFiniteSet(listening'[g])
            /\ Fan!Cardinality(listening'[g]) < Len(InboundPorts(g))
            /\ listening'[g] = {InboundPorts(g)[i] : i \in 1..Fan!Cardinality(listening'[g])}
        BY <2>1, <3>1, <3>2, <3>3
      <3>. QED
        BY <2>1, <3>4, <3>5 DEF Fan!ListenInv, Fan!Listens
    <2>5. Fan!PhaseInv'
      BY <2>1 DEF Fan!PhaseInv
    <2>. QED
      BY <2>2, <2>3, <2>4, <2>5 DEF Fan!FanInv
  <1>7. ASSUME NEW g \in Fan!FullConfigs, Fan!Listen(g)
        PROVE  Fan!FanInv'
    <2> DEFINE k == Fan!Cardinality(listening[g]) + 1
    <2>1. /\ fgPC[g] = "listen" /\ InboundPorts(g)[k] \notin listening[g]
          /\ listening' = [listening EXCEPT ![g] = @ \cup {InboundPorts(g)[k]}]
          /\ fgPC' = [fgPC EXCEPT ![g] = IF k = Len(InboundPorts(g)) THEN "up" ELSE "listen"]
          /\ UNCHANGED <<fanPC, probes, targets>>
      BY <1>7 DEF Fan!Listen, Fan!Bound
    <2>2. /\ IsFiniteSet(listening[g]) /\ Cardinality(listening[g]) \in Nat
          /\ Fan!Cardinality(listening[g]) = Cardinality(listening[g])
      BY <2>1, FanCardinality, FS_CardinalityType DEF Fan!ListenInv, Fan!Listens
    <2>3. k \in Nat /\ k <= Len(InboundPorts(g)) /\ InboundPorts(g) \in Seq(Nat)
      BY <2>1, <2>2 DEF Fan!ListenInv, Fan!Listens
    <2>4. listening'[g] = listening[g] \cup {InboundPorts(g)[k]}
      BY <2>1
    <2>5. Fan!IsFiniteSet(listening'[g]) /\ Fan!Cardinality(listening'[g]) = k
      <3>1. ASSUME NEW x, x \notin listening[g]
            PROVE  /\ IsFiniteSet(listening[g] \cup {x})
                   /\ Cardinality(listening[g] \cup {x}) = Cardinality(listening[g]) + 1
        BY <2>2, <3>1, FS_AddElement
      <3>2. IsFiniteSet(listening'[g]) /\ Cardinality(listening'[g]) = k
        BY <2>1, <2>2, <2>4, <3>1
      <3>. QED
        BY <3>2, FanCardinality
    <2>6. listening'[g] = {InboundPorts(g)[i] : i \in 1..k}
      <3>1. listening[g] = {InboundPorts(g)[i] : i \in 1..(k - 1)}
        BY <2>1, <2>2 DEF Fan!ListenInv, Fan!Listens
      <3>2. 1..k = (1..(k - 1)) \cup {k}
        BY <2>2
      <3>. QED
        BY <2>4, <3>1, <3>2
    <2>7. Fan!ListenInv'
      <3>1. k = Len(InboundPorts(g)) => listening'[g] = Fan!Range(InboundPorts(g))
        <4>1. DOMAIN InboundPorts(g) = 1..Len(InboundPorts(g))
          BY <2>3
        <4>. QED
          BY <2>6, <4>1 DEF Fan!Range
      <3>2. ASSUME NEW h \in Fan!FullConfigs, h # g
            PROVE  fgPC'[h] = fgPC[h] /\ listening'[h] = listening[h]
        BY <2>1, <3>2
      <3>3. fgPC'[g] = IF k = Len(InboundPorts(g)) THEN "up" ELSE "listen"
        BY <2>1
      <3>4. listening'[g] = {InboundPorts(g)[i] : i \in 1..Fan!Cardinality(listening'[g])}
        BY <2>5, <2>6
      <3>5. k # Len(InboundPorts(g)) => Fan!Cardinality(listening'[g]) < Len(InboundPorts(g))
        BY <2>3, <2>5
      <3>6. Fan!Listens(g)'
        BY <2>5, <3>1, <3>3, <3>4, <3>5 DEF Fan!Listens
      <3>7. ASSUME NEW h \in Fan!FullConfigs, h # g PROVE Fan!Listens(h)'
        BY <3>2, <3>7 DEF Fan!ListenInv, Fan!Listens
      <3>. QED
        BY <3>6, <3>7 DEF Fan!ListenInv
    <2>8. InboundPorts(g)[k] \in Nat
      BY <2>2, <2>3
    <2>9. Fan!FanTypeOK' /\ Fan!ProbesInv' /\ Fan!PhaseInv'
      BY <2>1, <2>8 DEF Fan!ProbesInv, Fan!PhaseInv
    <2>. QED
      BY <2>7, <2>9 DEF Fan!FanInv
  <1>8. ASSUME NEW g \in Fan!FullConfigs, Fan!StartGateFails(g)
        PROVE  Fan!FanInv'
    <2>1. /\ fgPC[g] \in {"remap", "listen"} /\ fgPC' = [fgPC EXCEPT ![g] = "failed"]
          /\ probes' = [probes EXCEPT ![g] = {}] /\ listening' = [listening EXCEPT ![g] = {}]
          /\ UNCHANGED <<fanPC, targets>>
      BY <1>8 DEF Fan!StartGateFails
    <2>2. Fan!FanTypeOK'
      BY <2>1
    <2>3. Fan!ProbesInv'
      BY <2>1 DEF Fan!ProbesInv, Fan!IsInjective
    <2>4. Fan!ListenInv'
      BY <2>1 DEF Fan!ListenInv, Fan!Listens
    <2>5. Fan!PhaseInv'
      BY <2>1 DEF Fan!PhaseInv
    <2>. QED
      BY <2>2, <2>3, <2>4, <2>5 DEF Fan!FanInv
  <1>9. ASSUME NEW g \in Fan!FullConfigs, NEW port \in Ephemeral,
      Fan!remapInbound(g, port)
        PROVE  Fan!FanInv'
    <2>1. /\ fgPC[g] = "remap" /\ port \notin probes[g]
          /\ probes' = [probes EXCEPT ![g] = @ \cup {port}]
          /\ targets' = [targets EXCEPT ![g] = Append(@, port)]
          /\ UNCHANGED <<fanPC, fgPC, listening>>
      BY <1>9 DEF Fan!remapInbound, Fan!Bound
    <2>2. Fan!FanTypeOK'
      BY <2>1
    <2>3. Fan!ProbesInv'
      <3>1. /\ targets[g] \in Seq(Ephemeral) /\ targets'[g] = Append(targets[g], port)
            /\ probes'[g] = probes[g] \cup {port}
            /\ \A h \in Fan!FullConfigs : h # g => targets'[h] = targets[h] /\ probes'[h] = probes[h]
        BY <2>1
      <3>2. /\ DOMAIN targets'[g] = DOMAIN targets[g] \cup {Len(targets[g]) + 1}
            /\ targets'[g][Len(targets[g]) + 1] = port
            /\ \A k \in DOMAIN targets[g] : targets'[g][k] = targets[g][k]
        BY <3>1
      <3>3. Fan!IsInjective(targets[g])'
        BY <2>1, <3>2 DEF Fan!ProbesInv, Fan!IsInjective
      <3>4. \A j \in DOMAIN targets'[g] : targets'[g][j] \in probes'[g]
        BY <2>1, <3>1, <3>2 DEF Fan!ProbesInv
      <3>5. ASSUME NEW h \in Fan!FullConfigs, h # g PROVE Fan!IsInjective(targets[h])'
        BY <3>1, <3>5 DEF Fan!ProbesInv, Fan!IsInjective
      <3>. QED
        BY <2>1, <3>1, <3>3, <3>4, <3>5 DEF Fan!ProbesInv
    <2>4. Fan!ListenInv'
      BY <2>1 DEF Fan!ListenInv, Fan!Listens
    <2>5. Fan!PhaseInv'
      BY <2>1 DEF Fan!PhaseInv
    <2>. QED
      BY <2>2, <2>3, <2>4, <2>5 DEF Fan!FanInv
  <1>. QED
    BY <1>1, <1>2, <1>3, <1>4, <1>5, <1>6, <1>7, <1>8, <1>9 DEF Fan!Next

\* What each StartGate has bound in each of its phases.
THEOREM FanInvariant == Spec => []Fan!FanInv
  <1>1. Fan!FanInv /\ [Next]_vars => Fan!FanInv'
    BY FanOnly, FanStep
  <1>. QED
    BY <1>1, FanInit, PTL DEF Spec

\* Opening the gates ends with all of them open, each inbound on a port of its
\* own, or with nothing bound, for any number of gates, inbounds and slots.
THEOREM FanOutSettles == Spec => []FanOutSettled
  <1>1. Fan!FanInv => FanOutSettled
    BY DEF FanOutSettled, Fan!FanOutSettled, Fan!FanInv, Fan!FanTypeOK, Fan!ProbesInv, Fan!ListenInv, Fan!Listens,
       Fan!PhaseInv, Fan!Bound, Fan!Working
  <1>. QED
    BY <1>1, FanInvariant, PTL

-----------------------------------------------------------------------------
(* Registration of a WARP device *)

LEMMA WarpOnly == [Next]_vars => [Warp!Next]_warpVars
    BY DEF Next, vars, OnlyCore, OnlyBox, OnlySending, OnlyFan, OnlyExtra,
        OnlyDialer, OnlySpeed, OnlyVpn, OnlyDiag, OnlyWarp, OnlyDns,
        OnlyPhone, OnlyLog

LEMMA OneHost ==
  ASSUME NEW S, NEW h \in S
  PROVE  <<h>> \in Seq(S) \ {<<>>}
  <1>1. <<h>> \in Seq(S) /\ Len(<<h>>) = 1 /\ Len(<<>>) = 0
    OBVIOUS
  <1>. QED
    BY <1>1

LEMMA HostsLeft ==
  ASSUME NEW S, NEW s \in Seq(S), Len(s) > 1
  PROVE  Tail(s) \in Seq(S) \ {<<>>}
  <1>1. s # <<>>
    OBVIOUS
  <1>2. Tail(s) \in Seq(S) /\ Len(Tail(s)) = Len(s) - 1
    BY <1>1
  <1>3. Tail(s) # <<>>
    <2>1. Len(Tail(s)) # 0 /\ Len(<<>>) = 0
      BY <1>2
    <2>. QED
      BY <2>1, Zenon
  <1>. QED
    BY <1>2, <1>3

\* A device more where there was none.
LEMMA FirstDevice ==
  ASSUME NEW S, NEW f \in [S -> Nat], NEW g \in S, \A h \in S : f[h] = 0
  PROVE  \A h \in S : [f EXCEPT ![g] = @ + 1][h] = IF h = g THEN 1 ELSE 0
  OBVIOUS

\* Whatever is named, there is a host to call.
LEMMA NormalizedHosts ==
  ASSUME NEW n \in Nat, NEW raw \in [1..n -> Spellings], NEW list \in Warp!normalizeHosts(raw)
  PROVE  list \in Seq(Warp!Hosts) \ {<<>>}
  <1> DEFINE named == {HostOf(raw[i]) : i \in DOMAIN raw} \ {""}
  <1>1. named \subseteq Warp!Hosts /\ DefaultHost \in Warp!Hosts
    BY DEF Warp!Hosts
  <1>2. CASE named = {}
    <2>1. list = <<DefaultHost>>
      BY <1>2 DEF Warp!normalizeHosts
    <2>2. DefaultHost \in Warp!Hosts
      BY <1>1
    <2>. QED
      BY <2>1, <2>2, OneHost
  <1>3. CASE named # {}
    <2>1. raw \in Seq(Spellings) /\ Len(raw) = n
      OBVIOUS
    <2>2. PICK m \in 1..n : list \in [1..m -> named]
      BY <1>3, <2>1 DEF Warp!normalizeHosts
    <2> HIDE DEF named
    <2>3. list \in [1..m -> Warp!Hosts] /\ m \in Nat \ {0}
      BY <1>1, <2>2
    <2>. QED
      BY <2>3
  <1>. QED
    BY <1>2, <1>3

LEMMA WarpInit == Init => Warp!WarpInv
  BY DEF Init, Warp!Init, Warp!WarpInv, Warp!OneUsableDevice, Warp!OneDevicePerCall,
     Warp!IdentityIsUsable

LEMMA WarpStep == Warp!WarpInv /\ [Warp!Next]_warpVars => Warp!WarpInv'
  <1> SUFFICES ASSUME Warp!WarpInv, [Warp!Next]_warpVars PROVE Warp!WarpInv'
    OBVIOUS
  <1> USE DEF Warp!WarpInv, Warp!OneUsableDevice, Warp!OneDevicePerCall, Warp!IdentityIsUsable
  <1>1. CASE UNCHANGED warpVars
    BY <1>1 DEF warpVars
  <1>2. ASSUME NEW n \in 0..MaxHosts, NEW raw \in [1..n -> Spellings],
      NEW type \in {"wireguard", "masque", "other"},
      Warp!WarpRegister(raw, type)
        PROVE  Warp!WarpInv'
    <2>1. CASE warpPC' = "post" /\ hosts' \in Warp!normalizeHosts(raw) /\ UNCHANGED <<identity, devices, enrolled>>
      <3>1. hosts' \in Seq(Warp!Hosts) \ {<<>>}
        BY <2>1, NormalizedHosts
      <3>. QED
        BY <1>2, <2>1, <3>1 DEF Warp!WarpRegister
    <2>2. CASE Warp!Return([error |-> "request"]) /\ UNCHANGED <<devices, enrolled>>
      BY <1>2, <2>2 DEF Warp!WarpRegister, Warp!Return
    <2>. QED
      BY <1>2, <2>1, <2>2 DEF Warp!WarpRegister
  <1>3. CASE Warp!Expire
    BY <1>3 DEF Warp!Expire
  <1>4. ASSUME NEW outcome \in Warp!CallOutcomes, NEW done \in BOOLEAN,
      Warp!Post(outcome, done)
        PROVE  Warp!WarpInv'
    <2>1. /\ warpPC = "post" /\ UNCHANGED enrolled /\ hosts \in Seq(Warp!Hosts) \ {<<>>}
          /\ Head(hosts) \in Warp!Hosts /\ \A h \in Warp!Hosts : devices[h] = 0
      BY <1>4 DEF Warp!Post
    <2>4. Len(hosts) > 1 => Tail(hosts) \in Seq(Warp!Hosts) \ {<<>>}
      BY <2>1, HostsLeft
    <2>5. devices \in [Warp!Hosts -> Nat]
      OBVIOUS
    <2>2. CASE done
      <3>1. devices' = [devices EXCEPT ![Head(hosts)] = @ + 1]
        BY <1>4, <2>2 DEF Warp!Post
      <3>2. \A h \in Warp!Hosts : devices'[h] = IF h = Head(hosts) THEN 1 ELSE 0
        BY <2>1, <2>5, <3>1, FirstDevice
      <3>3. \/ warpPC' = "fill" /\ UNCHANGED hosts
            \/ warpPC' = "done" /\ "host" \notin DOMAIN identity'
        BY <1>4, <2>2 DEF Warp!Post, Warp!Return, Warp!TriesNext, Warp!Connected, Warp!isRejected,
                        Warp!MayRegister
      <3>. QED
        BY <2>1, <3>1, <3>2, <3>3
    <2>3. CASE ~done
      <3>1. devices' = devices
        BY <1>4, <2>3 DEF Warp!Post
      <3>2. \/ warpPC' = "post" /\ Len(hosts) > 1 /\ hosts' = Tail(hosts)
            \/ warpPC' = "done" /\ "host" \notin DOMAIN identity'
        BY <1>4, <2>3 DEF Warp!Post, Warp!Return, Warp!MustRegister
      <3>. QED
        BY <2>1, <2>4, <3>1, <3>2
    <2>. QED
      BY <2>2, <2>3
  <1>5. ASSUME NEW valid \in BOOLEAN, Warp!fillWireGuard(valid)
        PROVE  Warp!WarpInv'
    <2>1. Head(hosts) \in Warp!Hosts
      BY <1>5 DEF Warp!fillWireGuard
    <2>2. /\ warpPC = "fill" /\ warpPC' = "done" /\ UNCHANGED <<devices, enrolled>>
          /\ \/ identity' = [host |-> Head(hosts), type |-> "wireguard"]
             \/ identity' = [error |-> "response"]
      BY <1>5 DEF Warp!fillWireGuard, Warp!Return
    <2>. QED
      BY <2>1, <2>2
  <1>6. ASSUME NEW outcome \in Warp!CallOutcomes, NEW done \in BOOLEAN,
      NEW valid \in BOOLEAN, Warp!enrollMASQUE(outcome, done, valid)
        PROVE  Warp!WarpInv'
    <2>1. Head(hosts) \in Warp!Hosts
      BY <1>6 DEF Warp!enrollMASQUE
    <2>2. /\ warpPC = "fill" /\ warpPC' = "done" /\ UNCHANGED devices
          /\ enrolled' \in {enrolled, enrolled \cup {Head(hosts)}}
          /\ \/ /\ identity' = [host |-> Head(hosts), type |-> "masque"]
                /\ enrolled' = enrolled \cup {Head(hosts)}
             \/ identity' = [error |-> "enroll"]
      BY <1>6 DEF Warp!enrollMASQUE, Warp!Return, Warp!MustRegister
    <2>. QED
      BY <2>1, <2>2
  <1>. QED
    BY <1>1, <1>2, <1>3, <1>4, <1>5, <1>6 DEF Warp!Next

\* No host has a device while hosts are tried, and one has when one answered.
THEOREM WarpInvariant == Spec => []Warp!WarpInv
  <1>1. Warp!WarpInv /\ [Next]_vars => Warp!WarpInv'
    BY WarpOnly, WarpStep
  <1>. QED
    BY <1>1, WarpInit, PTL DEF Spec

\* One call of WarpRegister registers at most one device, and an identity it
\* returns is that of a device that exists, for any hosts and spellings.
THEOREM WarpOneUsableDevice == Spec => []OneUsableDevice
  <1>1. Warp!WarpInv => OneUsableDevice
    BY DEF OneUsableDevice, Warp!WarpInv
  <1>. QED
    BY <1>1, WarpInvariant, PTL

-----------------------------------------------------------------------------
(* The system resolver *)

\* When the servers dropped stand together, those around them are joined.
LEMMA MiddleDropped ==
    ASSUME NEW S, NEW D, S \cap D = {}, NEW a \in Seq(S), NEW b \in Seq(D), NEW c \in Seq(S)
    PROVE  Dns!Without((a \o b) \o c, D) = a \o c
  <1> DEFINE s == (a \o b) \o c
             la == Len(a)
             lb == Len(b)
             lc == Len(c)
             kept == {k \in DOMAIN s : s[k] \notin D}
             nth(j) == CHOOSE k \in kept : Cardinality(kept \cap 1..k) = j
             place(j) == IF j <= la THEN j ELSE j + lb
  <1>1. /\ la \in Nat /\ lb \in Nat /\ lc \in Nat
        /\ DOMAIN s = 1..(la + lb + lc)
        /\ \A k \in 1..la : s[k] = a[k] /\ a[k] \in S
        /\ \A k \in 1..lb : s[la + k] = b[k] /\ b[k] \in D
        /\ \A k \in 1..lc : s[la + lb + k] = c[k] /\ c[k] \in S
    OBVIOUS
  <1>2. /\ a \o c = [j \in 1..(la + lc) |-> (a \o c)[j]]
        /\ \A j \in 1..la : (a \o c)[j] = a[j]
        /\ \A j \in 1..lc : (a \o c)[la + j] = c[j]
    <2> DEFINE t == a \o c
    <2>1. t \in Seq(S) /\ Len(t) = la + lc
      OBVIOUS
    <2>2. ASSUME NEW r \in Seq(S) PROVE r = [j \in 1..Len(r) |-> r[j]]
      OBVIOUS
    <2>3. \A j \in 1..la : (a \o c)[j] = a[j]
      OBVIOUS
    <2>4. \A j \in 1..lc : (a \o c)[la + j] = c[j]
      OBVIOUS
    <2>. QED
      BY <2>1, <2>2, <2>3, <2>4
  <1>3. Dns!Without(s, D) = [j \in 1..Cardinality(kept) |-> s[nth(j)]]
    BY DEF Dns!Without, Dns!Cardinality, Cardinality
  <1> HIDE DEF s, la, lb, lc
  <1>4. kept = 1..la \cup (la + lb + 1)..(la + lb + lc)
    <2>1. ASSUME NEW k \in DOMAIN s
          PROVE  s[k] \notin D <=> k \in 1..la \cup (la + lb + 1)..(la + lb + lc)
      <3>1. CASE k <= la
        BY <1>1, <2>1, <3>1
      <3>2. CASE la < k /\ k <= la + lb
        <4>1. k - la \in 1..lb /\ k = la + (k - la)
          BY <1>1, <2>1, <3>2
        <4>2. s[la + (k - la)] \in D
          BY <1>1, <4>1
        <4>3. k \notin 1..la \cup (la + lb + 1)..(la + lb + lc)
          BY <1>1, <3>2
        <4>. QED
          BY <4>1, <4>2, <4>3
      <3>3. CASE la + lb < k
        <4>1. k - la - lb \in 1..lc /\ k = la + lb + (k - la - lb)
          BY <1>1, <2>1, <3>3
        <4>2. s[la + lb + (k - la - lb)] \in S
          BY <1>1, <4>1
        <4>3. k \in (la + lb + 1)..(la + lb + lc)
          BY <1>1, <2>1, <3>3
        <4>. QED
          BY <4>1, <4>2, <4>3
      <3>. QED
        BY <1>1, <2>1, <3>1, <3>2, <3>3
    <2>. QED
      BY <1>1, <2>1
  <1> HIDE DEF kept
  <1>5. ASSUME NEW k \in 1..la PROVE Cardinality(kept \cap 1..k) = k
    <2>1. kept \cap 1..k = 1..k
      BY <1>1, <1>4
    <2>2. Cardinality(1..k) = k
      BY <1>1, FS_Interval
    <2>. QED
      BY <2>1, <2>2
  <1>6. ASSUME NEW k \in 1..lc PROVE Cardinality(kept \cap 1..(la + lb + k)) = la + k
    <2>0. la \in Nat /\ lb \in Nat /\ lc \in Nat /\ k \in Nat /\ k >= 1
      BY <1>1
    <2> DEFINE A == 1..la
               B == (la + lb + 1)..(la + lb + k)
    <2>1. kept \cap 1..(la + lb + k) = A \cup B
      BY <1>1, <1>4
    <2>2. IsFiniteSet(A) /\ Cardinality(A) = la
      BY <2>0, FS_Interval
    <2>3. IsFiniteSet(B) /\ Cardinality(B) = k
      BY <2>0, FS_Interval
    <2>4. A \cap B = {}
      BY <1>1
    <2> HIDE DEF A, B
    <2>5. Cardinality(A \cup B) = Cardinality(A) + Cardinality(B) - Cardinality(A \cap B)
      BY <2>2, <2>3, FS_Union
    <2>6. Cardinality(A \cap B) = 0
      BY <2>4, FS_EmptySet
    <2>7. Cardinality(A \cup B) = la + k
      BY <2>0, <2>2, <2>3, <2>5, <2>6
    <2>. QED
      BY <2>1, <2>7
  <1>7. Cardinality(kept) = la + lc
    <2>1. CASE lc = 0
      <3>1. kept = 1..la
        BY <1>1, <1>4, <2>1
      <3>. QED
        BY <1>1, <2>1, <3>1, FS_Interval
    <2>2. CASE lc # 0
      <3>1. lc \in 1..lc /\ kept \cap 1..(la + lb + lc) = kept
        BY <1>1, <1>4, <2>2
      <3>. QED
        BY <1>6, <3>1
    <2>. QED
      BY <2>1, <2>2
  <1>8. ASSUME NEW j \in 1..(la + lc) PROVE nth(j) = place(j)
    <2>1. place(j) \in kept /\ Cardinality(kept \cap 1..place(j)) = j
      <3>1. CASE j <= la
        BY <1>1, <1>4, <1>5, <3>1
      <3>2. CASE j > la
        <4>1. j - la \in 1..lc /\ place(j) = la + lb + (j - la) /\ la + (j - la) = j
          BY <1>1, <3>2
        <4>2. Cardinality(kept \cap 1..(la + lb + (j - la))) = j
          BY <1>6, <4>1
        <4>3. la + lb + (j - la) \in kept
          BY <1>1, <1>4, <4>1
        <4>. QED
          BY <4>1, <4>2, <4>3
      <3>. QED
        BY <1>1, <3>1, <3>2
    <2>2. ASSUME NEW k \in kept, Cardinality(kept \cap 1..k) = j PROVE k = place(j)
      <3>1. CASE k <= la
        BY <1>1, <1>4, <1>5, <2>2, <3>1
      <3>2. CASE k > la
        <4>1. k - la - lb \in 1..lc /\ k = la + lb + (k - la - lb)
          BY <1>1, <1>4, <2>2, <3>2
        <4>2. j = la + (k - la - lb)
          BY <1>6, <2>2, <4>1
        <4>. QED
          BY <1>1, <4>1, <4>2
      <3>. QED
        BY <1>1, <1>4, <2>2, <3>1, <3>2
    <2> HIDE DEF place
    <2>. QED
      BY <2>1, <2>2
  <1>9. ASSUME NEW j \in 1..(la + lc) PROVE s[place(j)] = (a \o c)[j]
    <2>1. CASE j <= la
      <3>1. j \in 1..la /\ place(j) = j
        BY <1>1, <2>1
      <3>. QED
        BY <1>1, <1>2, <3>1
    <2>2. CASE j > la
      <3>1. j - la \in 1..lc /\ j = la + (j - la) /\ place(j) = la + lb + (j - la)
        BY <1>1, <2>2
      <3>2. s[la + lb + (j - la)] = c[j - la] /\ (a \o c)[la + (j - la)] = c[j - la]
        BY <1>1, <1>2, <3>1
      <3>. QED
        BY <3>1, <3>2
    <2>3. j <= la \/ j > la
      BY <1>1
    <2>. QED
      BY <2>1, <2>2, <2>3
  <1> HIDE DEF nth, place
  <1>10. [j \in 1..(la + lc) |-> s[nth(j)]] = [j \in 1..(la + lc) |-> (a \o c)[j]]
    BY <1>8, <1>9
  <1>. QED
    BY <1>2, <1>3, <1>7, <1>10 DEF s

LEMMA Listed ==
    ASSUME NEW T, NEW s \in Seq(T)
    PROVE  Dns!IsList(s)
    BY DEF Dns!IsList

LEMMA ListsJoin ==
    ASSUME NEW s, NEW t, Dns!IsList(s), Dns!IsList(t)
    PROVE  Dns!IsList(s \o t)
  <1> DEFINE A == {s[k] : k \in DOMAIN s}
             B == {t[k] : k \in DOMAIN t}
  <1>1. s \in Seq(A) /\ t \in Seq(B)
    BY DEF Dns!IsList
  <1> HIDE DEF A, B
  <1>2. s \in Seq(A \cup B) /\ t \in Seq(A \cup B)
    BY <1>1
  <1>3. s \o t \in Seq(A \cup B)
    BY <1>2
  <1>. QED
    BY <1>3, Listed

\* What is dropped from a list leaves a list.
LEMMA WithoutLists ==
    ASSUME NEW s, NEW D, Dns!IsList(s)
    PROVE  /\ Dns!IsList(Dns!Without(s, D))
           /\ s = <<>> => Dns!Without(s, D) = <<>>
  <1> DEFINE kept == {k \in DOMAIN s : s[k] \notin D}
             nth(j) == CHOOSE k \in kept : Cardinality(kept \cap 1..k) = j
  <1>1. Dns!Without(s, D) = [j \in 1..Cardinality(kept) |-> s[nth(j)]]
    BY DEF Dns!Without, Dns!Cardinality, Cardinality
  <1>2. DOMAIN s = 1..Len(s) /\ Len(s) \in Nat
    BY DEF Dns!IsList
  <1>3. IsFiniteSet(DOMAIN s)
    BY <1>2, FS_Interval
  <1>4. Cardinality(kept) \in Nat
    BY <1>3, FS_Subset, FS_CardinalityType
  <1>5. s = <<>> => Cardinality(kept) = 0
    BY FS_EmptySet
  <1> HIDE DEF kept, nth
  <1>6. ASSUME NEW n \in Nat
        PROVE  [j \in 1..n |-> s[nth(j)]] \in Seq({s[nth(j)] : j \in 1..n})
    OBVIOUS
  <1>7. [j \in 1..0 |-> s[nth(j)]] = <<>>
    OBVIOUS
  <1>. QED
    BY <1>1, <1>4, <1>5, <1>6, <1>7, Listed

\* A server that is kept and stands last is last in what is left.
LEMMA LastKept ==
    ASSUME NEW s, NEW D, NEW m, Dns!IsList(s), m \notin D
    PROVE  LET w == Dns!Without(s \o <<m>>, D)
           IN  Dns!IsList(w) /\ w # <<>> /\ w[Len(w)] = m
  <1> DEFINE t == s \o <<m>>
             kept == {k \in DOMAIN t : t[k] \notin D}
             nth(j) == CHOOSE k \in kept : Cardinality(kept \cap 1..k) = j
             n == Len(s) + 1
             c == Cardinality(kept)
             w == Dns!Without(t, D)
  <1>1. w = [j \in 1..c |-> t[nth(j)]]
    BY DEF Dns!Without, Dns!Cardinality, Cardinality
  <1>2. Dns!IsList(<<m>>)
    BY DEF Dns!IsList
  <1>3. Dns!IsList(t) /\ Dns!IsList(w)
    BY <1>2, ListsJoin, WithoutLists
  <1>4. n \in Nat \ {0} /\ DOMAIN t = 1..n /\ t[n] = m
    BY DEF Dns!IsList
  <1> HIDE DEF t, n
  <1>5. n \in kept /\ kept \subseteq 1..n
    BY <1>4
  <1>6. IsFiniteSet(kept)
    BY <1>4, <1>5, FS_Interval, FS_Subset
  <1>7. c \in Nat \ {0}
    BY <1>5, <1>6, FS_CardinalityType, FS_EmptySet
  <1> HIDE DEF kept
  <1>8. nth(c) = n
    <2>1. Cardinality(kept \cap 1..n) = c
      <3>1. kept \cap 1..n = kept
        BY <1>5
      <3>. QED
        BY <3>1
    <2>2. ASSUME NEW k \in kept, Cardinality(kept \cap 1..k) = c PROVE k = n
      <3>1. kept \cap 1..k \subseteq kept
        OBVIOUS
      <3>2. kept \cap 1..k = kept
        BY <1>6, <2>2, <3>1, FS_Subset
      <3>3. n \in 1..k
        BY <1>5, <3>2
      <3>. QED
        BY <1>4, <1>5, <2>2, <3>3
    <2> HIDE DEF c
    <2>. QED
      BY <1>5, <2>1, <2>2
  <1> HIDE DEF nth, c
  <1>9. w # <<>> /\ Len(w) = c /\ w[c] = m
    <2>1. DOMAIN w = 1..c /\ c \in 1..c
      BY <1>1, <1>7
    <2>2. w[c] = t[nth(c)]
      BY <1>1, <2>1
    <2>3. w \in Seq({w[k] : k \in DOMAIN w})
      BY <1>3 DEF Dns!IsList
    <2>. QED
      BY <1>4, <1>7, <1>8, <2>1, <2>2, <2>3
  <1>. QED
    BY <1>3, <1>9 DEF t

-----------------------------------------------------------------------------
(* What is made of the two kinds of interfaces *)

LEMMA DnsTypes ==
    ASSUME NEW i \in Ifcs
    PROVE  LET S == STRING \ (IPv6 \cup Dns!Marks) IN
           /\ Original(i).nameServer \in Seq(S) /\ Original(i).leased \in Seq(S)
           /\ Original(i).v6 \in Seq(IPv6)
           /\ Original(i).v6First \in BOOLEAN
           /\ IPv6 \cap Dns!Marks = {} /\ "local" \notin IPv6 /\ "local" \notin Dns!Marks
    BY DnsAssumption DEF DnsAssumption, Dns!Marks

\* What can be read of a static interface and what becomes of either form.
LEMMA StaticForms ==
    ASSUME NEW i \in Ifcs
    PROVE  LET ns == Original(i).nameServer
               v6 == Original(i).v6
               lf == Dns!LocalFirst(i)
           IN  /\ lf # <<>>
               /\ ~Dns!Marked(ns \o v6) /\ ~Dns!WasDHCP(ns \o v6) /\ ~Dns!HasDHCP(ns \o v6)
               /\ Dns!Marked(lf \o v6) /\ ~Dns!WasDHCP(lf \o v6) /\ ~Dns!HasDHCP(lf \o v6)
               /\ Dns!WithoutLocal(Dns!Unmarked(lf \o v6)) = ns \o v6
               /\ Dns!SetDNS(ns \o v6) = ns
               /\ Dns!SetDNS(<<"local">> \o (ns \o v6) \o <<"setMark">>) = lf
  <1> DEFINE ns == Original(i).nameServer
             v6 == Original(i).v6
             lf == Dns!LocalFirst(i)
             S == STRING \ (IPv6 \cup Dns!Marks)
             Plain == S \cup {"local"}
             mark == <<"setMark">>
             lns == <<"local">> \o ns
  <1>1. /\ ns \in Seq(S) /\ v6 \in Seq(IPv6)
        /\ IPv6 \cap Dns!Marks = {} /\ "local" \notin IPv6 /\ "local" \notin Dns!Marks
    BY DnsTypes
  <1>2. lf = lns \o mark
    BY DEF Dns!LocalFirst
  <1>3. /\ S \cap IPv6 = {} /\ Plain \cap IPv6 = {} /\ Plain \cap Dns!Marks = {}
        /\ "setMark" \in Dns!Marks /\ "dhcpMark" \in Dns!Marks /\ "dhcpMark" # "setMark"
    BY <1>1 DEF Dns!Marks
  <1> HIDE DEF ns, v6, S, lf
  <1>4. lns \in Seq(Plain) /\ lns # <<>> /\ Head(lns) = "local" /\ Tail(lns) = ns
    BY <1>1
  <1>5. /\ ns \o v6 \in Seq(S \cup IPv6)
        /\ \A k \in DOMAIN (ns \o v6) : (ns \o v6)[k] \in S \cup IPv6
    <2>1. ns \in Seq(S \cup IPv6) /\ v6 \in Seq(S \cup IPv6)
      BY <1>1
    <2>2. ns \o v6 \in Seq(S \cup IPv6)
      BY <2>1
    <2>. QED
      BY <2>2
  <1>6. (S \cup IPv6) \cap Dns!Marks = {}
    BY <1>1, <1>3 DEF S
  <1>7. ~Dns!Marked(ns \o v6) /\ ~Dns!WasDHCP(ns \o v6) /\ ~Dns!HasDHCP(ns \o v6)
    BY <1>3, <1>5, <1>6 DEF Dns!Marked, Dns!WasDHCP, Dns!HasDHCP
  <1> HIDE DEF lns
  <1>8. /\ lf \o v6 \in Seq(Plain \cup IPv6 \cup {"setMark"})
        /\ \A k \in DOMAIN (lf \o v6) : (lf \o v6)[k] \in Plain \cup IPv6 \cup {"setMark"}
        /\ Len(lns) \in Nat /\ Len(lns) + 1 \in DOMAIN (lf \o v6)
        /\ (lf \o v6)[Len(lns) + 1] = "setMark" /\ lf # <<>>
    <2> DEFINE T == Plain \cup IPv6 \cup {"setMark"}
    <2>1. lns \in Seq(T) /\ v6 \in Seq(T) /\ mark \in Seq(T)
      BY <1>1, <1>4
    <2> HIDE DEF T
    <2>2. /\ lns \o mark \in Seq(T) /\ Len(lns) \in Nat
          /\ Len(lns \o mark) = Len(lns) + 1 /\ (lns \o mark)[Len(lns) + 1] = "setMark"
          /\ lns \o mark # <<>>
      BY <2>1
    <2> HIDE DEF mark
    <2>3. /\ lf \o v6 \in Seq(T) /\ Len(lns) + 1 \in DOMAIN (lf \o v6)
          /\ (lf \o v6)[Len(lns) + 1] = "setMark"
      BY <1>2, <2>1, <2>2
    <2>4. \A k \in DOMAIN (lf \o v6) : (lf \o v6)[k] \in T
      BY <2>3
    <2>. QED
      BY <1>2, <2>2, <2>3, <2>4 DEF T
  <1>9. "dhcpMark" \notin Plain \cup IPv6 \cup {"setMark"}
    BY <1>1, <1>3
  <1>10. Dns!Marked(lf \o v6) /\ ~Dns!WasDHCP(lf \o v6) /\ ~Dns!HasDHCP(lf \o v6)
    <2> HIDE DEF Plain
    <2>. QED
      BY <1>3, <1>8, <1>9 DEF Dns!Marked, Dns!WasDHCP, Dns!HasDHCP
  <1>11. Dns!WithoutLocal(Dns!Unmarked(lf \o v6)) = ns \o v6
    <2> DEFINE T == Plain \cup IPv6
    <2>1. lns \in Seq(T) /\ v6 \in Seq(T) /\ T \cap Dns!Marks = {} /\ mark \in Seq(Dns!Marks)
      BY <1>1, <1>3, <1>4
    <2> HIDE DEF T, mark
    <2>2. Dns!Without((lns \o mark) \o v6, Dns!Marks) = lns \o v6
      BY <2>1, MiddleDropped
    <2>3. lns \o v6 # <<>> /\ Head(lns \o v6) = "local" /\ Tail(lns \o v6) = ns \o v6
      BY <1>1, <2>1, <1>4 DEF lns
    <2>. QED
      BY <1>2, <2>2, <2>3 DEF Dns!Unmarked, Dns!WithoutLocal
  <1>12. Dns!SetDNS(ns \o v6) = ns
    <2>1. <<>> \in Seq(S) /\ (ns \o v6) \o <<>> = ns \o v6 /\ ns \o <<>> = ns
      BY <1>1, <1>5
    <2> DEFINE e == <<>>
    <2>2. e \in Seq(S)
      BY <2>1
    <2> HIDE DEF e
    <2>3. Dns!Without((ns \o v6) \o e, IPv6) = ns \o e
      BY <1>1, <1>3, <2>2, MiddleDropped
    <2>. QED
      BY <2>1, <2>3 DEF Dns!SetDNS, e
  <1>13. Dns!SetDNS(<<"local">> \o (ns \o v6) \o <<"setMark">>) = lf
    <2> DEFINE T == Plain \cup {"setMark"}
    <2>1. lns \in Seq(T) /\ mark \in Seq(T) /\ T \cap IPv6 = {}
      BY <1>1, <1>3, <1>4
    <2>2. <<"local">> \o (ns \o v6) = lns \o v6
      BY <1>1, <1>5 DEF lns
    <2> HIDE DEF T, mark
    <2>0. v6 \in Seq(IPv6)
      BY <1>1
    <2>3. Dns!Without((lns \o v6) \o mark, IPv6) = lns \o mark
      BY <2>0, <2>1, MiddleDropped
    <2>. QED
      BY <1>2, <2>2, <2>3 DEF Dns!SetDNS, mark
  <1>. QED
    BY <1>7, <1>8, <1>10, <1>11, <1>12, <1>13 DEF ns, v6, lf

\* Setting gives the one form and restoring the other, whichever was read.
LEMMA StaticWrites ==
    ASSUME NEW i \in Ifcs,
           NEW r \in {Original(i).nameServer \o Original(i).v6,
                      Dns!LocalFirst(i) \o Original(i).v6}
    PROVE  /\ Dns!SetDNS(Dns!WithLocal(r, FALSE)) = Dns!LocalFirst(i)
           /\ Dns!Restored(Dns!LocalFirst(i) \o Original(i).v6) = Original(i).nameServer
  <1> DEFINE ns == Original(i).nameServer
             v6 == Original(i).v6
             lf == Dns!LocalFirst(i)
  <1>1. /\ ~Dns!Marked(ns \o v6) /\ ~Dns!WasDHCP(ns \o v6)
        /\ Dns!Marked(lf \o v6) /\ ~Dns!WasDHCP(lf \o v6)
        /\ Dns!WithoutLocal(Dns!Unmarked(lf \o v6)) = ns \o v6
        /\ Dns!SetDNS(ns \o v6) = ns
        /\ Dns!SetDNS(<<"local">> \o (ns \o v6) \o <<"setMark">>) = lf
    BY StaticForms
  <1>2. r \in {ns \o v6, lf \o v6}
    OBVIOUS
  <1> HIDE DEF ns, v6, lf
  <1>3. Dns!WithLocal(r, FALSE) = <<"local">> \o (ns \o v6) \o <<"setMark">>
    BY <1>1, <1>2 DEF Dns!WithLocal
  <1>4. Dns!Restored(lf \o v6) = ns
    BY <1>1 DEF Dns!Restored
  <1>. QED
    BY <1>1, <1>3, <1>4 DEF ns, v6, lf

\* The servers of a static interface that does not hide the local resolver.
LEMMA StaticReads ==
    ASSUME NEW i \in Ifcs, Original(i).nameServer # <<>>, ~Dns!LocalIsHidden(i),
           dns[i] \in {Original(i).nameServer, Dns!LocalFirst(i)}
    PROVE  Dns!DNS(i) = dns[i] \o Original(i).v6
  <1> DEFINE ns == Original(i).nameServer
             v6 == Original(i).v6
             lf == Dns!LocalFirst(i)
  <1>1. dns[i] # <<>>
    BY StaticForms
  <1> DEFINE T == STRING \cup {"local", "setMark"}
  <1>2. ns \in Seq(T) /\ v6 \in Seq(IPv6)
    BY DnsTypes
  <1>3. lf \in Seq(T)
    <2> HIDE DEF ns
    <2>1. <<"local">> \o ns \in Seq(T)
      BY <1>2
    <2>2. (<<"local">> \o ns) \o <<"setMark">> \in Seq(T)
      BY <2>1
    <2>. QED
      BY <2>2 DEF Dns!LocalFirst, ns
  <1>4. dns[i] \in Seq(T)
    BY <1>2, <1>3
  <1>5. CASE Original(i).v6First
    <2>1. v6 = <<>>
      BY <1>5 DEF Dns!LocalIsHidden
    <2>2. v6 \o dns[i] = dns[i] /\ dns[i] \o v6 = dns[i]
      BY <1>4, <2>1
    <2>. QED
      BY <1>1, <1>5, <2>2 DEF Dns!DNS
  <1>6. CASE ~Original(i).v6First
    BY <1>1, <1>6 DEF Dns!DNS
  <1>. QED
    BY <1>5, <1>6

\* The servers of an interface with DHCP: the mark is there unless the lease is.
LEMMA DhcpReads ==
    ASSUME NEW i \in Ifcs, Dns!IsList(dns[i]),
           dns[i] # <<>> => dns[i][Len(dns[i])] = "dhcpMark"
    PROVE  /\ Dns!IsList(Dns!DNS(i))
           /\ dns[i] = <<>> => ~Dns!Marked(Dns!DNS(i))
           /\ dns[i] # <<>> => /\ Dns!HasDHCP(Dns!DNS(i)) /\ Dns!WasDHCP(Dns!DNS(i))
                               /\ Dns!Marked(Dns!DNS(i))
  <1> DEFINE v6 == Original(i).v6
             v4 == IF dns[i] = <<>> THEN Original(i).leased ELSE dns[i]
  <1>1. /\ Original(i).leased \in Seq(STRING \ Dns!Marks) /\ v6 \in Seq(IPv6)
        /\ IPv6 \cap Dns!Marks = {} /\ Original(i).v6First \in BOOLEAN
    <2>1. Original(i).leased \in Seq(STRING \ (IPv6 \cup Dns!Marks))
      BY DnsTypes
    <2>. QED
      BY <2>1, DnsTypes
  <1>2. Dns!IsList(v6) /\ Dns!IsList(Original(i).leased)
    BY <1>1, Listed
  <1>3. Dns!IsList(v4)
    BY <1>2
  <1>4. Dns!DNS(i) \in {v4 \o v6, v6 \o v4}
    BY DEF Dns!DNS
  <1>5. Dns!IsList(Dns!DNS(i))
    BY <1>2, <1>3, <1>4, ListsJoin
  <1>6. CASE dns[i] = <<>>
    <2> DEFINE T == (STRING \ Dns!Marks) \cup IPv6
    <2>1. v4 \in Seq(T) /\ v6 \in Seq(T)
      BY <1>1, <1>6
    <2>2. T \cap Dns!Marks = {}
      BY <1>1
    <2> HIDE DEF T, v4, v6
    <2>3. v4 \o v6 \in Seq(T) /\ v6 \o v4 \in Seq(T)
      BY <2>1
    <2>4. Dns!DNS(i) \in Seq(T)
      BY <1>4, <2>3
    <2> DEFINE r == Dns!DNS(i)
    <2>5. \A k \in DOMAIN r : r[k] \in T
      BY <2>4
    <2>6. ~Dns!Marked(r)
      BY <2>2, <2>5 DEF Dns!Marked
    <2>. QED
      BY <1>5, <1>6, <2>6
  <1>7. CASE dns[i] # <<>>
    <2>1. v4 = dns[i] /\ v4 # <<>> /\ v4[Len(v4)] = "dhcpMark"
      BY <1>7
    <2> HIDE DEF v4, v6
    <2>2. /\ v4 \in Seq({v4[k] : k \in DOMAIN v4}) /\ v6 \in Seq(IPv6)
          /\ "setMark" \notin IPv6 /\ "dhcpMark" \in Dns!Marks
      BY <1>1, <1>3 DEF Dns!IsList, Dns!Marks, v6
    <2>3. /\ Len(v4) \in Nat \ {0} /\ Len(v6) \in Nat /\ DOMAIN v4 = 1..Len(v4)
          /\ DOMAIN v6 = 1..Len(v6) /\ \A k \in DOMAIN v6 : v6[k] # "setMark"
      BY <2>1, <2>2
    <2>4. CASE Dns!DNS(i) = v4 \o v6
      <3>1. /\ DOMAIN (v4 \o v6) = 1..(Len(v4) + Len(v6))
            /\ (v4 \o v6)[Len(v4)] = "dhcpMark"
            /\ \A j \in 1..(Len(v4) + Len(v6)) : j > Len(v4) => (v4 \o v6)[j] = v6[j - Len(v4)]
        BY <2>1, <2>2, <2>3
      <3>2. \A j \in 1..(Len(v4) + Len(v6)) : j > Len(v4) => j - Len(v4) \in DOMAIN v6
        BY <2>3
      <3>3. Len(v4) \in 1..(Len(v4) + Len(v6))
        BY <2>3
      <3> DEFINE r == v4 \o v6
      <3>4. /\ Len(v4) \in DOMAIN r /\ r[Len(v4)] = "dhcpMark"
            /\ \A j \in DOMAIN r : j > Len(v4) => r[j] # "setMark"
        BY <2>3, <3>1, <3>2, <3>3
      <3> HIDE DEF r
      <3>5. Dns!HasDHCP(r) /\ Dns!WasDHCP(r) /\ Dns!Marked(r)
        BY <2>2, <3>4 DEF Dns!HasDHCP, Dns!WasDHCP, Dns!Marked
      <3>. QED
        BY <1>5, <1>7, <2>4, <3>5 DEF r
    <2>5. CASE Dns!DNS(i) = v6 \o v4
      <3>1. /\ DOMAIN (v6 \o v4) = 1..(Len(v6) + Len(v4))
            /\ (v6 \o v4)[Len(v6) + Len(v4)] = "dhcpMark"
        BY <2>1, <2>2, <2>3
      <3>2. /\ Len(v6) + Len(v4) \in 1..(Len(v6) + Len(v4))
            /\ \A j \in 1..(Len(v6) + Len(v4)) : ~(j > Len(v6) + Len(v4))
        BY <2>3
      <3>. QED
        BY <1>5, <1>7, <2>2, <2>5, <3>1, <3>2 DEF Dns!HasDHCP, Dns!WasDHCP, Dns!Marked
    <2>. QED
      BY <1>4, <2>4, <2>5
  <1>. QED
    BY <1>6, <1>7

LEMMA DhcpWrites ==
    ASSUME NEW r, Dns!IsList(r)
    PROVE  LET w == Dns!SetDNS(Dns!WithLocal(r, TRUE))
           IN  Dns!IsList(w) /\ w # <<>> /\ w[Len(w)] = "dhcpMark"
  <1> DEFINE tl == IF Dns!Marked(r) THEN Dns!WithoutLocal(Dns!Unmarked(r)) ELSE r
  <1>1. Dns!IsList(Dns!Unmarked(r))
    BY WithoutLists DEF Dns!Unmarked
  <1>2. ASSUME NEW s, Dns!IsList(s) PROVE Dns!IsList(Dns!WithoutLocal(s))
    <2>1. CASE s # <<>>
      <3>1. Tail(s) \in Seq({s[k] : k \in DOMAIN s})
        BY <1>2, <2>1 DEF Dns!IsList
      <3>. QED
        BY <1>2, <3>1, Listed DEF Dns!WithoutLocal
    <2>2. CASE s = <<>>
      BY <1>2, <2>2 DEF Dns!WithoutLocal
    <2>. QED
      BY <2>1, <2>2
  <1>3. Dns!IsList(tl)
    BY <1>1, <1>2
  <1>4. Dns!IsList(<<"local">>)
    BY DEF Dns!IsList
  <1>5. Dns!IsList(<<"local">> \o tl)
    BY <1>3, <1>4, ListsJoin
  <1>6. "dhcpMark" \notin IPv6
    BY DnsAssumption DEF DnsAssumption
  <1>7. Dns!WithLocal(r, TRUE) = (<<"local">> \o tl) \o <<"dhcpMark">>
    BY DEF Dns!WithLocal
  <1> DEFINE h == <<"local">> \o tl
             mark == "dhcpMark"
  <1> HIDE DEF tl, h, mark
  <1>8. LET w == Dns!Without(h \o <<mark>>, IPv6)
        IN  Dns!IsList(w) /\ w # <<>> /\ w[Len(w)] = mark
    BY <1>5, <1>6, LastKept DEF h, mark
  <1>. QED
    BY <1>7, <1>8 DEF Dns!SetDNS, h, mark

LEMMA DhcpRestores ==
    ASSUME NEW r, Dns!WasDHCP(r)
    PROVE  Dns!Restored(r) = <<>>
  <1>1. Dns!IsList(<<>>)
    BY DEF Dns!IsList
  <1>. QED
    BY <1>1, WithoutLists DEF Dns!Restored, Dns!SetDNS

-----------------------------------------------------------------------------
LEMMA DnsOnly == [Next]_vars => [Dns!Next]_dnsVars
    BY DEF Next, vars, OnlyCore, OnlyBox, OnlySending, OnlyFan, OnlyExtra,
        OnlyDialer, OnlySpeed, OnlyVpn, OnlyDiag, OnlyWarp, OnlyDns,
        OnlyPhone, OnlyLog

LEMMA DnsInit == Init => Dns!DnsInv
  <1> SUFFICES ASSUME Dns!Init PROVE Dns!DnsInv
    BY DEF Init
  <1>1. Dns!IsList(<<>>)
    BY DEF Dns!IsList
  <1>. QED
    BY <1>1 DEF Dns!Init, Dns!DnsInv, Dns!StaticInv, Dns!DhcpInv, Dns!Idle, Dns!Actors

\* An interface stays as it was described while neither its list nor what
\* anybody relies on of it changes.
LEMMA DnsStays ==
    ASSUME NEW i, dns'[i] = dns[i],
           \A b \in Dns!Actors : doing'[b].ifc = i =>
               \/ doing'[b] = doing[b]
               \/ doing'[b].op \in {"idle", "set", "restore", "next"}
    PROVE  /\ Dns!DhcpInv(i) => Dns!DhcpInv(i)'
           /\ Dns!StaticInv(i) => Dns!StaticInv(i)'
  <1>1. ASSUME Dns!DhcpInv(i) PROVE Dns!DhcpInv(i)'
    <2>1. /\ Dns!IsList(dns[i])'
          /\ (dns[i] # <<>> => dns[i][Len(dns[i])] = "dhcpMark")'
      BY <1>1 DEF Dns!DhcpInv, Dns!IsList
    <2>2. ASSUME NEW b \in Dns!Actors, doing'[b].ifc = i
          PROVE  (/\ doing[b].op \in {"mode", "registry", "write"} => Dns!IsList(doing[b].read)
                  /\ doing[b].op = "registry" => dns[i] = <<>>
                  /\ doing[b].op = "write" => doing[b].dhcp
                  /\ doing[b].op = "unset" => Dns!WasDHCP(doing[b].read))'
      <3>1. CASE doing'[b] = doing[b]
        <4>1. /\ doing[b].op \in {"mode", "registry", "write"} => Dns!IsList(doing[b].read)
              /\ doing[b].op = "registry" => dns[i] = <<>>
              /\ doing[b].op = "write" => doing[b].dhcp
              /\ doing[b].op = "unset" => Dns!WasDHCP(doing[b].read)
          BY <1>1, <2>2, <3>1 DEF Dns!DhcpInv
        <4>2. doing[b].op \in {"mode", "registry", "write"} => Dns!IsList(doing[b].read)'
          BY <3>1, <4>1 DEF Dns!IsList
        <4>3. doing[b].op = "unset" => Dns!WasDHCP(doing[b].read)'
          BY <3>1, <4>1 DEF Dns!WasDHCP
        <4>. QED
          BY <3>1, <4>1, <4>2, <4>3
      <3>2. CASE doing'[b].op \in {"idle", "set", "restore", "next"}
        BY <3>2
      <3>. QED
        BY <2>2, <3>1, <3>2
    <2>. QED
      BY <2>1, <2>2 DEF Dns!DhcpInv
  <1>2. ASSUME Dns!StaticInv(i) PROVE Dns!StaticInv(i)'
    <2> DEFINE ns == Original(i).nameServer
               lf == Dns!LocalFirst(i)
    <2>1. lf' = lf
      BY DEF Dns!LocalFirst
    <2> HIDE DEF lf
    <2>. QED
      BY <1>2, <2>1 DEF Dns!StaticInv, lf
  <1>. QED
    BY <1>1, <1>2

\* What is left to show of a step: the record of the actor that took it, and
\* that the interface it works on is one of the two kinds again.
LEMMA DnsByActor ==
    ASSUME Dns!DnsInv, NEW a \in Dns!Actors, NEW d,
           doing' = [doing EXCEPT ![a] = d],
           d = [op |-> d.op, ifc |-> d.ifc, read |-> d.read, dhcp |-> d.dhcp, last |-> d.last],
           d.op # "idle" => d.ifc \in Ifcs,
           dns' = [j \in Ifcs |-> dns'[j]], misread \subseteq misread',
           \A j \in Ifcs : j # d.ifc => dns'[j] = dns[j],
           default' \in Ifcs, lastIfc' \in Ifcs \cup {"none"},
           d.ifc \in Ifcs \ misread' /\ ~Dns!LocalIsHidden(d.ifc) =>
             IF Original(d.ifc).nameServer = <<>> THEN Dns!DhcpInv(d.ifc)'
                                                  ELSE Dns!StaticInv(d.ifc)'
    PROVE  Dns!DnsInv'
  <1>1. /\ doing' = [b \in Dns!Actors |-> doing'[b]]
        /\ doing'[a] = d
        /\ \A b \in Dns!Actors \ {a} : doing'[b] = doing[b]
    BY DEF Dns!DnsInv
  <1>2. \A b \in Dns!Actors :
          /\ doing'[b] = [op |-> doing'[b].op, ifc |-> doing'[b].ifc, read |-> doing'[b].read,
                          dhcp |-> doing'[b].dhcp, last |-> doing'[b].last]
          /\ doing'[b].op # "idle" => doing'[b].ifc \in Ifcs
    BY <1>1 DEF Dns!DnsInv
  <1>3. ASSUME NEW j \in Ifcs \ misread', ~Dns!LocalIsHidden(j), j # d.ifc
        PROVE  IF Original(j).nameServer = <<>> THEN Dns!DhcpInv(j)' ELSE Dns!StaticInv(j)'
    <2>1. \A b \in Dns!Actors : doing'[b].ifc = j => doing'[b] = doing[b]
      BY <1>1, <1>3
    <2>2. dns'[j] = dns[j]
      BY <1>3
    <2>3. IF Original(j).nameServer = <<>> THEN Dns!DhcpInv(j) ELSE Dns!StaticInv(j)
      BY <1>3 DEF Dns!DnsInv
    <2>. QED
      BY <2>1, <2>2, <2>3, DnsStays
  <1>. QED
    BY <1>1, <1>2, <1>3 DEF Dns!DnsInv, Dns!LocalIsHidden

\* A call that begins, goes on to the next interface or ends has nothing read
\* to rely on.
LEMMA DnsTurns ==
    ASSUME Dns!DnsInv, NEW a \in Dns!Actors, NEW d,
           doing' = [doing EXCEPT ![a] = d],
           d = [op |-> d.op, ifc |-> d.ifc, read |-> d.read, dhcp |-> d.dhcp, last |-> d.last],
           d.op \in {"idle", "set", "restore", "next"},
           d.op # "idle" => d.ifc \in Ifcs,
           UNCHANGED <<dns, misread>>,
           default' \in Ifcs, lastIfc' \in Ifcs \cup {"none"}
    PROVE  Dns!DnsInv'
  <1>1. dns' = [j \in Ifcs |-> dns'[j]] /\ \A j \in Ifcs : dns'[j] = dns[j]
    BY DEF Dns!DnsInv
  <1>2. /\ doing'[a] = d
        /\ \A b \in Dns!Actors \ {a} : doing'[b] = doing[b]
    BY DEF Dns!DnsInv
  <1>3. ASSUME d.ifc \in Ifcs \ misread', ~Dns!LocalIsHidden(d.ifc)
        PROVE  IF Original(d.ifc).nameServer = <<>> THEN Dns!DhcpInv(d.ifc)'
                                                    ELSE Dns!StaticInv(d.ifc)'
    <2> DEFINE j == d.ifc
    <2>1. IF Original(j).nameServer = <<>> THEN Dns!DhcpInv(j) ELSE Dns!StaticInv(j)
      BY <1>3 DEF Dns!DnsInv
    <2>2. dns'[j] = dns[j]
      BY <1>1, <1>3
    <2>3. \A b \in Dns!Actors : doing'[b].ifc = j =>
            \/ doing'[b] = doing[b]
            \/ doing'[b].op \in {"idle", "set", "restore", "next"}
      BY <1>2
    <2> HIDE DEF j
    <2>4. /\ Dns!DhcpInv(j) => Dns!DhcpInv(j)'
          /\ Dns!StaticInv(j) => Dns!StaticInv(j)'
      BY <2>2, <2>3, DnsStays
    <2>. QED
      BY <2>1, <2>4 DEF j
  <1>. QED
    BY <1>1, <1>3, DnsByActor

LEMMA DnsStep == Dns!DnsInv /\ [Dns!Next]_dnsVars => Dns!DnsInv'
  <1> SUFFICES ASSUME Dns!DnsInv, [Dns!Next]_dnsVars PROVE Dns!DnsInv'
    OBVIOUS
  <1> DEFINE others == <<default, dnsIsSet, lastIfc, dnsSteps>>
             Kind(i) == IF Original(i).nameServer = <<>> THEN Dns!DhcpInv(i)
                                                         ELSE Dns!StaticInv(i)
  <1>0. /\ default \in Ifcs /\ lastIfc \in Ifcs \cup {"none"}
        /\ dns = [i \in Ifcs |-> dns[i]] /\ doing = [a \in Dns!Actors |-> doing[a]]
        /\ \A a \in Dns!Actors :
              /\ doing[a] = [op |-> doing[a].op, ifc |-> doing[a].ifc, read |-> doing[a].read,
                             dhcp |-> doing[a].dhcp, last |-> doing[a].last]
              /\ doing[a].op # "idle" => doing[a].ifc \in Ifcs
        /\ \A i \in Ifcs \ misread : ~Dns!LocalIsHidden(i) => Kind(i)
    BY DEF Dns!DnsInv
  <1> HIDE DEF Kind
  <1>1. CASE UNCHANGED dnsVars
    <2>1. dns' = dns /\ doing' = doing /\ misread' = misread
      BY <1>1 DEF dnsVars
    <2>2. ASSUME NEW i \in Ifcs \ misread, ~Dns!LocalIsHidden(i)
          PROVE  IF Original(i).nameServer = <<>> THEN Dns!DhcpInv(i)' ELSE Dns!StaticInv(i)'
      BY <1>0, <2>1, <2>2, DnsStays DEF Kind
    <2>. QED
      BY <1>1, <2>1, <2>2 DEF dnsVars, Dns!DnsInv, Dns!LocalIsHidden
  <1>2. ASSUME NEW i \in Ifcs, Dns!HandleSystemDNS(i) PROVE Dns!DnsInv'
    <2>1. PICK op \in {"set", "restore"} : Dns!Begin("monitor", op, i, TRUE)
      BY <1>2 DEF Dns!HandleSystemDNS
    <2>2. default' = i /\ UNCHANGED <<dns, lastIfc, misread>> /\ "monitor" \in Dns!Actors
      BY <1>2 DEF Dns!HandleSystemDNS, Dns!Actors
    <2>. QED
      BY <1>0, <2>1, <2>2, DnsTurns DEF Dns!Begin
  <1>3. ASSUME NEW clear \in BOOLEAN, Dns!SetSystemDNS(clear) PROVE Dns!DnsInv'
    <2>1. PICK op \in {"set", "restore"} : Dns!Begin("rpc", op, default, FALSE)
      BY <1>3 DEF Dns!SetSystemDNS
    <2>2. /\ lastIfc' \in {lastIfc, default} /\ UNCHANGED <<dns, default, misread>>
          /\ "rpc" \in Dns!Actors
      BY <1>3 DEF Dns!SetSystemDNS, Dns!Actors
    <2>. QED
      BY <1>0, <2>1, <2>2, DnsTurns DEF Dns!Begin
  <1>4. ASSUME NEW a \in Dns!Actors, Dns!GiveUp(a) PROVE Dns!DnsInv'
    <2>1. /\ Dns!On(a, "next", doing[a].read, doing[a].dhcp) /\ doing[a].op # "idle"
          /\ UNCHANGED <<dns, default, lastIfc, misread>>
      BY <1>4 DEF Dns!GiveUp
    <2>. QED
      BY <1>0, <2>1, DnsTurns DEF Dns!On
  <1>5. ASSUME NEW a \in Dns!Actors, Dns!NextInterface(a) PROVE Dns!DnsInv'
    <2>1. UNCHANGED <<dns, default, lastIfc, misread>>
      BY <1>5 DEF Dns!NextInterface
    <2>2. CASE doing[a].last /\ lastIfc \notin {"none", doing[a].ifc}
      <3>1. lastIfc \in Ifcs /\ Dns!Begin(a, "restore", lastIfc, FALSE)
        BY <1>0, <1>5, <2>2 DEF Dns!NextInterface
      <3>. QED
        BY <1>0, <2>1, <3>1, DnsTurns DEF Dns!Begin
    <2>3. CASE ~(doing[a].last /\ lastIfc \notin {"none", doing[a].ifc})
      <3>1. doing' = [doing EXCEPT ![a] = Dns!Idle]
        BY <1>5, <2>3 DEF Dns!NextInterface
      <3>. QED
        BY <1>0, <2>1, <3>1, DnsTurns DEF Dns!Idle
    <2>. QED
      BY <2>2, <2>3
  <1>6. ASSUME NEW a \in Dns!Actors,
               \/ Dns!ReadServers(a) \/ Dns!ReadMark(a) \/ Dns!ReadRegistry(a)
               \/ Dns!ModeUnknown(a) \/ Dns!setSystemDNS(a) \/ Dns!restoreSystemDNS(a)
        PROVE  Dns!DnsInv'
    <2>0. PICK i : i = doing[a].ifc
      OBVIOUS
    <2>1. i \in Ifcs /\ UNCHANGED others
      BY <1>0, <1>6, <2>0 DEF Dns!ReadServers, Dns!ReadMark, Dns!ReadRegistry, Dns!ModeUnknown,
                        Dns!setSystemDNS, Dns!restoreSystemDNS
    <2>2. /\ dns' = [j \in Ifcs |-> dns'[j]] /\ misread \subseteq misread'
          /\ \A j \in Ifcs : j # i => dns'[j] = dns[j]
      BY <1>0, <1>6, <2>0, <2>1 DEF Dns!ReadServers, Dns!ReadMark, Dns!ReadRegistry, Dns!ModeUnknown,
                        Dns!setSystemDNS, Dns!restoreSystemDNS
    <2>3. /\ doing' = [doing EXCEPT ![a] = doing'[a]] /\ doing'[a].ifc = i
          /\ doing'[a] = [op |-> doing'[a].op, ifc |-> i, read |-> doing'[a].read,
                          dhcp |-> doing'[a].dhcp, last |-> doing'[a].last]
      <3>1. \E op, r, dhcp : Dns!On(a, op, r, dhcp)
        BY <1>6 DEF Dns!ReadServers, Dns!ReadMark, Dns!ReadRegistry, Dns!ModeUnknown,
                    Dns!setSystemDNS, Dns!restoreSystemDNS
      <3>2. PICK op, r, dhcp : Dns!On(a, op, r, dhcp)
        BY <3>1
      <3>. QED
        BY <1>0, <2>0, <3>2 DEF Dns!On
    <2>4. ASSUME i \notin misread', ~Dns!LocalIsHidden(i)
          PROVE  IF Original(i).nameServer = <<>> THEN Dns!DhcpInv(i)' ELSE Dns!StaticInv(i)'
      <3>1. Kind(i) /\ i \notin misread
        BY <1>0, <2>1, <2>2, <2>4
      <3>2. \A b \in Dns!Actors \ {a} : doing'[b] = doing[b]
        BY <1>0, <2>3
      <3>3. CASE Original(i).nameServer = <<>>
        <4>1. Dns!DhcpInv(i)
          BY <3>1, <3>3 DEF Kind
        <4>2. /\ Dns!IsList(dns[i]) /\ (dns[i] # <<>> => dns[i][Len(dns[i])] = "dhcpMark")
              /\ \A b \in Dns!Actors : doing[b].ifc = i =>
                    /\ doing[b].op \in {"mode", "registry", "write"} => Dns!IsList(doing[b].read)
                    /\ doing[b].op = "registry" => dns[i] = <<>>
                    /\ doing[b].op = "write" => doing[b].dhcp
                    /\ doing[b].op = "unset" => Dns!WasDHCP(doing[b].read)
          BY <4>1 DEF Dns!DhcpInv
        <4>3. /\ Dns!IsList(Dns!DNS(i))
              /\ dns[i] = <<>> => ~Dns!Marked(Dns!DNS(i))
              /\ dns[i] # <<>> => Dns!HasDHCP(Dns!DNS(i)) /\ Dns!WasDHCP(Dns!DNS(i))
          BY <2>1, <4>2, DhcpReads
        <4> SUFFICES /\ Dns!IsList(dns'[i])
                     /\ (dns'[i] # <<>> => dns'[i][Len(dns'[i])] = "dhcpMark")
                     /\ \A b \in Dns!Actors : doing'[b].ifc = i =>
                          /\ doing'[b].op \in {"mode", "registry", "write"} =>
                                Dns!IsList(doing'[b].read)
                          /\ doing'[b].op = "registry" => dns'[i] = <<>>
                          /\ doing'[b].op = "write" => doing'[b].dhcp
                          /\ doing'[b].op = "unset" => Dns!WasDHCP(doing'[b].read)
          <5>1. /\ Dns!IsList(dns'[i]) => Dns!IsList(dns[i])'
                /\ \A b \in Dns!Actors : Dns!IsList(doing'[b].read) => Dns!IsList(doing[b].read)'
            BY DEF Dns!IsList
          <5>2. \A b \in Dns!Actors : Dns!WasDHCP(doing'[b].read) => Dns!WasDHCP(doing[b].read)'
            BY DEF Dns!WasDHCP
          <5>3. /\ Dns!IsList(dns[i])'
                /\ (dns[i] # <<>> => dns[i][Len(dns[i])] = "dhcpMark")'
            BY <5>1
          <5>4. ASSUME NEW b \in Dns!Actors, doing'[b].ifc = i
                PROVE  (/\ doing[b].op \in {"mode", "registry", "write"} =>
                              Dns!IsList(doing[b].read)
                        /\ doing[b].op = "registry" => dns[i] = <<>>
                        /\ doing[b].op = "write" => doing[b].dhcp
                        /\ doing[b].op = "unset" => Dns!WasDHCP(doing[b].read))'
            BY <5>1, <5>2, <5>4
          <5>5. Dns!DhcpInv(i)'
            BY <5>3, <5>4 DEF Dns!DhcpInv
          <5>. QED
            BY <3>3, <5>5
        <4>4. CASE Dns!ReadServers(a)
          <5> DEFINE to == CASE doing[a].op = "set" -> "mode"
                             [] Dns!Marked(Dns!DNS(i)) -> "unset"
                             [] OTHER -> "next"
          <5>7. \/ to = "mode" \/ to = "next"
                \/ to = "unset" /\ Dns!Marked(Dns!DNS(i))
            OBVIOUS
          <5>8. /\ dns' = dns
                /\ Dns!On(a, to, Dns!DNS(i), FALSE)
            BY <2>0, <4>4 DEF Dns!ReadServers
          <5> HIDE DEF to
          <5>0. /\ dns' = dns /\ doing'[a].op = to /\ doing'[a].read = Dns!DNS(i)
                /\ \/ to = "mode" \/ to = "next"
                   \/ to = "unset" /\ Dns!Marked(Dns!DNS(i))
            BY <1>0, <5>7, <5>8 DEF Dns!On
          <5>1. /\ dns' = dns /\ doing'[a].read = Dns!DNS(i)
                /\ \/ doing'[a].op = "mode"
                   \/ doing'[a].op = "unset" /\ Dns!Marked(Dns!DNS(i))
                   \/ doing'[a].op = "next"
            BY <1>0, <2>0, <5>0
          <5>. QED
            BY <2>0, <3>2, <4>2, <4>3, <5>1
        <4>5. CASE Dns!ReadMark(a)
          <5>0. PICK op : /\ dns' = dns /\ doing[a].op = "mode"
                          /\ doing'[a].op = op /\ doing'[a].dhcp = Dns!HasDHCP(Dns!DNS(i))
                          /\ doing'[a].read = doing[a].read
                          /\ \/ op = "write" /\ Dns!HasDHCP(Dns!DNS(i))
                             \/ op = "registry" /\ ~Dns!HasDHCP(Dns!DNS(i))
            BY <1>0, <2>0, <4>5 DEF Dns!ReadMark, Dns!On
          <5>1. /\ dns' = dns /\ doing'[a].read = doing[a].read /\ doing[a].op = "mode"
                /\ \/ doing'[a].op = "write" /\ doing'[a].dhcp
                   \/ doing'[a].op = "registry" /\ ~Dns!HasDHCP(Dns!DNS(i))
            BY <1>0, <2>0, <5>0
          <5>. QED
            BY <2>0, <3>2, <4>2, <4>3, <5>1
        <4>6. CASE Dns!ReadRegistry(a)
          <5>0. /\ dns' = dns /\ doing[a].op = "registry"
                /\ doing'[a].op = "write" /\ doing'[a].dhcp = (dns[i] = <<>>)
                /\ doing'[a].read = doing[a].read
            BY <1>0, <2>0, <4>6 DEF Dns!ReadRegistry, Dns!On
          <5>1. /\ dns' = dns /\ doing'[a].read = doing[a].read /\ doing[a].op = "registry"
                /\ doing'[a].op = "write" /\ doing'[a].dhcp = (dns[i] = <<>>)
            BY <1>0, <2>0, <5>0
          <5>. QED
            BY <2>0, <3>2, <4>2, <5>1
        <4>7. CASE Dns!ModeUnknown(a)
          BY <2>0, <2>4, <4>7 DEF Dns!ModeUnknown
        <4>8. CASE Dns!setSystemDNS(a)
          <5>1. /\ dns'[i] = Dns!SetDNS(Dns!WithLocal(doing[a].read, doing[a].dhcp))
                /\ doing[a].op = "write" /\ doing'[a].op = "next"
            BY <2>0, <1>0, <2>1, <4>8 DEF Dns!setSystemDNS, Dns!On
          <5>2. \A b \in Dns!Actors : doing[b].ifc = i => doing[b].op # "registry"
            BY <2>0, <2>4, <4>8 DEF Dns!setSystemDNS, Dns!On
          <5>3. doing[a].dhcp /\ Dns!IsList(doing[a].read)
            BY <2>0, <4>2, <5>1
          <5>4. doing[a].dhcp = TRUE \/ Dns!WithLocal(doing[a].read, doing[a].dhcp)
                                        = Dns!WithLocal(doing[a].read, TRUE)
            BY <5>3 DEF Dns!WithLocal
          <5>5. Dns!WithLocal(doing[a].read, doing[a].dhcp) = Dns!WithLocal(doing[a].read, TRUE)
            BY <5>4
          <5>6. Dns!IsList(dns'[i]) /\ dns'[i][Len(dns'[i])] = "dhcpMark"
            BY <5>1, <5>3, <5>5, DhcpWrites
          <5>. QED
            BY <2>0, <3>2, <4>2, <5>1, <5>2, <5>6
        <4>9. CASE Dns!restoreSystemDNS(a)
          <5>1. /\ dns'[i] = Dns!Restored(doing[a].read)
                /\ doing[a].op = "unset" /\ doing'[a].op = "next"
            BY <2>0, <1>0, <2>1, <4>9 DEF Dns!restoreSystemDNS, Dns!On
          <5>2. dns'[i] = <<>>
            BY <2>0, <4>2, <5>1, DhcpRestores
          <5>3. Dns!IsList(<<>>)
            BY DEF Dns!IsList
          <5>. QED
            BY <2>0, <3>2, <4>2, <5>1, <5>2, <5>3
        <4>. QED
          BY <1>6, <4>4, <4>5, <4>6, <4>7, <4>8, <4>9
      <3>4. CASE Original(i).nameServer # <<>>
        <4> DEFINE ns == Original(i).nameServer
                   v6 == Original(i).v6
                   lf == Dns!LocalFirst(i)
        <4>1. /\ dns[i] \in {ns, lf}
              /\ \A b \in Dns!Actors : doing[b].ifc = i =>
                    /\ doing[b].op \in {"mode", "registry", "write"} =>
                          doing[b].read \in {ns \o v6, lf \o v6}
                    /\ doing[b].op = "write" => ~doing[b].dhcp
                    /\ doing[b].op = "unset" => doing[b].read = lf \o v6
          BY <3>1, <3>4 DEF Kind, Dns!StaticInv
        <4>2. /\ Dns!DNS(i) = dns[i] \o v6 /\ ~Dns!HasDHCP(Dns!DNS(i))
              /\ Dns!Marked(Dns!DNS(i)) => dns[i] = lf
              /\ dns[i] # <<>>
          BY <2>1, <2>4, <3>4, <4>1, StaticReads, StaticForms
        <4>3. \A r \in {ns \o v6, lf \o v6} :
                 /\ Dns!SetDNS(Dns!WithLocal(r, FALSE)) = lf
                 /\ Dns!Restored(lf \o v6) = ns
          BY <2>1, StaticWrites
        <4>4. lf' = lf
          BY DEF Dns!LocalFirst
        <4> HIDE DEF ns, v6, lf
        <4> SUFFICES /\ dns'[i] \in {ns, lf}
                     /\ \A b \in Dns!Actors : doing'[b].ifc = i =>
                          /\ doing'[b].op \in {"mode", "registry", "write"} =>
                                doing'[b].read \in {ns \o v6, lf \o v6}
                          /\ doing'[b].op = "write" => ~doing'[b].dhcp
                          /\ doing'[b].op = "unset" => doing'[b].read = lf \o v6
          BY <2>1, <3>4 DEF Dns!StaticInv, Dns!LocalFirst, ns, v6, lf
        <4>5. CASE Dns!ReadServers(a)
          <5> DEFINE to == CASE doing[a].op = "set" -> "mode"
                             [] Dns!Marked(Dns!DNS(i)) -> "unset"
                             [] OTHER -> "next"
          <5>7. \/ to = "mode" \/ to = "next"
                \/ to = "unset" /\ Dns!Marked(Dns!DNS(i))
            OBVIOUS
          <5>8. /\ dns' = dns
                /\ Dns!On(a, to, Dns!DNS(i), FALSE)
            BY <2>0, <4>5 DEF Dns!ReadServers
          <5> HIDE DEF to
          <5>0. /\ dns' = dns /\ doing'[a].op = to /\ doing'[a].read = Dns!DNS(i)
                /\ \/ to = "mode" \/ to = "next"
                   \/ to = "unset" /\ Dns!Marked(Dns!DNS(i))
            BY <1>0, <5>7, <5>8 DEF Dns!On
          <5>1. /\ dns' = dns /\ doing'[a].read = Dns!DNS(i)
                /\ \/ doing'[a].op = "mode"
                   \/ doing'[a].op = "unset" /\ Dns!Marked(Dns!DNS(i))
                   \/ doing'[a].op = "next"
            BY <1>0, <2>0, <5>0
          <5>2. Dns!DNS(i) \in {ns \o v6, lf \o v6}
            BY <4>1, <4>2
          <5>. QED
            BY <2>0, <3>2, <4>1, <4>2, <5>1, <5>2
        <4>6. CASE Dns!ReadMark(a)
          <5>0. PICK op : /\ dns' = dns /\ doing[a].op = "mode"
                          /\ doing'[a].op = op /\ doing'[a].dhcp = Dns!HasDHCP(Dns!DNS(i))
                          /\ doing'[a].read = doing[a].read
                          /\ \/ op = "write" /\ Dns!HasDHCP(Dns!DNS(i))
                             \/ op = "registry" /\ ~Dns!HasDHCP(Dns!DNS(i))
            BY <1>0, <2>0, <4>6 DEF Dns!ReadMark, Dns!On
          <5>1. /\ dns' = dns /\ doing'[a].read = doing[a].read /\ doing[a].op = "mode"
                /\ doing'[a].op = "registry"
            BY <1>0, <2>0, <4>2, <5>0
          <5>. QED
            BY <2>0, <3>2, <4>1, <5>1
        <4>7. CASE Dns!ReadRegistry(a)
          <5>0. /\ dns' = dns /\ doing[a].op = "registry"
                /\ doing'[a].op = "write" /\ doing'[a].dhcp = (dns[i] = <<>>)
                /\ doing'[a].read = doing[a].read
            BY <1>0, <2>0, <4>7 DEF Dns!ReadRegistry, Dns!On
          <5>1. /\ dns' = dns /\ doing'[a].read = doing[a].read /\ doing[a].op = "registry"
                /\ doing'[a].op = "write" /\ ~doing'[a].dhcp
            BY <1>0, <2>0, <4>2, <5>0
          <5>. QED
            BY <2>0, <3>2, <4>1, <5>1
        <4>8. CASE Dns!ModeUnknown(a)
          BY <2>0, <2>4, <4>8 DEF Dns!ModeUnknown
        <4>9. CASE Dns!setSystemDNS(a)
          <5>1. /\ dns'[i] = Dns!SetDNS(Dns!WithLocal(doing[a].read, doing[a].dhcp))
                /\ doing[a].op = "write" /\ doing'[a].op = "next"
            BY <2>0, <1>0, <2>1, <4>9 DEF Dns!setSystemDNS, Dns!On
          <5>2. ~doing[a].dhcp /\ doing[a].read \in {ns \o v6, lf \o v6}
            BY <2>0, <4>1, <5>1
          <5>3. Dns!WithLocal(doing[a].read, doing[a].dhcp) = Dns!WithLocal(doing[a].read, FALSE)
            BY <5>2 DEF Dns!WithLocal
          <5>4. dns'[i] = lf
            BY <4>3, <5>1, <5>2, <5>3
          <5>. QED
            BY <2>0, <3>2, <4>1, <5>1, <5>4
        <4>10. CASE Dns!restoreSystemDNS(a)
          <5>1. /\ dns'[i] = Dns!Restored(doing[a].read)
                /\ doing[a].op = "unset" /\ doing'[a].op = "next"
            BY <2>0, <1>0, <2>1, <4>10 DEF Dns!restoreSystemDNS, Dns!On
          <5>2. dns'[i] = ns
            BY <2>0, <4>1, <4>3, <5>1
          <5>. QED
            BY <2>0, <3>2, <4>1, <5>1, <5>2
        <4>. QED
          BY <1>6, <4>5, <4>6, <4>7, <4>8, <4>9, <4>10
      <3>. QED
        BY <3>3, <3>4
    <2>5. PICK d : d = doing'[a]
      OBVIOUS
    <2>6. /\ doing' = [doing EXCEPT ![a] = d] /\ d.ifc = i
          /\ d = [op |-> d.op, ifc |-> d.ifc, read |-> d.read, dhcp |-> d.dhcp, last |-> d.last]
      BY <2>3, <2>5
    <2>. QED
      BY <1>0, <2>1, <2>2, <2>4, <2>6, DnsByActor
  <1>. QED
    BY <1>1, <1>2, <1>3, <1>4, <1>5, <1>6 DEF Dns!Next

\* Every interface whose mode was read rightly keeps, if static, its own list
\* or that with the local resolver in front, and if it has DHCP, no list or one
\* that ends in the mark of DHCP; of what is read before another actor writes,
\* either form is still good.
THEOREM DnsInvariant == Spec => []Dns!DnsInv
  <1>1. Dns!DnsInv /\ [Next]_vars => Dns!DnsInv'
    BY DnsOnly, DnsStep
  <1>. QED
    BY <1>1, DnsInit, PTL DEF Spec

\* restoreSystemDNS gives an interface back the servers its user gave it, for
\* any servers of either family and however calls and moves of the default
\* overlap, unless isIfcDNSDhcp failed or the other actor set the interface
\* between its two reads, or IPv6 servers hide the local resolver of a static one.
THEOREM DnsIsRecoverable == Spec => []OriginalRecoverable
  <1>1. Dns!DnsInv => OriginalRecoverable
    <2> SUFFICES ASSUME Dns!DnsInv, NEW i \in Ifcs \ misread, ~Dns!LocalIsHidden(i)
                 PROVE  IF Dns!Marked(Dns!DNS(i))
                        THEN Dns!Restored(Dns!DNS(i)) = Original(i).nameServer
                        ELSE dns[i] = Original(i).nameServer
      BY DEF OriginalRecoverable, Dns!OriginalRecoverable
    <2>1. IF Original(i).nameServer = <<>> THEN Dns!DhcpInv(i) ELSE Dns!StaticInv(i)
      BY DEF Dns!DnsInv
    <2>2. CASE Original(i).nameServer = <<>>
      <3>1. Dns!IsList(dns[i]) /\ (dns[i] # <<>> => dns[i][Len(dns[i])] = "dhcpMark")
        BY <2>1, <2>2 DEF Dns!DhcpInv
      <3>2. /\ dns[i] = <<>> => ~Dns!Marked(Dns!DNS(i))
            /\ dns[i] # <<>> => Dns!Marked(Dns!DNS(i)) /\ Dns!WasDHCP(Dns!DNS(i))
        BY <3>1, DhcpReads
      <3>. QED
        BY <2>2, <3>2, DhcpRestores
    <2>3. CASE Original(i).nameServer # <<>>
      <3>1. dns[i] \in {Original(i).nameServer, Dns!LocalFirst(i)}
        BY <2>1, <2>3 DEF Dns!StaticInv
      <3>2. Dns!DNS(i) = dns[i] \o Original(i).v6
        BY <2>3, <3>1, StaticReads
      <3>. QED
        BY <3>1, <3>2, StaticForms, StaticWrites
    <2>. QED
      BY <2>2, <2>3
  <1>. QED
    BY <1>1, DnsInvariant, PTL

=============================================================================
