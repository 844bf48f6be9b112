----------------------------- MODULE Lifecycle ------------------------------
(***************************************************************************)
(* Start and Stop of a profile (internal/rpc/lifecycle.go, state.go,       *)
(* xray.go): the extra process, the Xray sidecars and the sing-box are     *)
(* brought up in that order and published in package variables that every  *)
(* other call reads.                                                       *)
(*                                                                         *)
(* Start and Stop hold lifecycleMu throughout, so there is one operation   *)
(* at a time and pc is where it is.  What interleaves with it is whatever  *)
(* reads or reacts without that lock: the gates, which prepare an instance *)
(* whenever a connection arrives, the network monitor's callback, the      *)
(* extra process, which may exit, and the pollers, which see the published *)
(* state after every step.                                                 *)
(*                                                                         *)
(* The n-th Start call names what it creates: box n, process n, sidecars   *)
(* <<kind, n>>.  Sidecars are an eager instance, a gate (see XrayGate) or  *)
(* the set of full-config gates (see FullGates); they are open or not.     *)
(***************************************************************************)
EXTENDS Integers, FiniteSets

CONSTANTS
    Requests,           \* LoadConfigReqs the client may send
    MaxStarts,          \* bound on the number of Start calls
    GOOS,               \* runtime.GOOS
    StartOverRunning    \* whether the client ever sends Start to a running profile

\* extra: NeedExtraProcess; xray: the sidecar it asks for; full: has
\* XrayFullConfigs; redirect: its TUN inbound has auto_redirect; cidr: TunIpv4Cidr.
RequestType ==
    [extra : BOOLEAN, xray : {"none", "eager", "gate"}, full : BOOLEAN,
     redirect : BOOLEAN, cidr : {"none", "good", "bad"}]

ASSUME LifecycleAssumption ==
    /\ Requests \subseteq RequestType
    /\ MaxStarts \in Nat
    /\ GOOS \in {"linux", "darwin", "windows"}
    /\ StartOverRunning \in BOOLEAN

VARIABLES
    pc,             \* where the operation under lifecycleMu is
    starts,         \* number of Start calls; the current one's identity
    reqs,           \* the request of each Start call
    boxInstance, xrayInstance, xrayGate, xrayFullGates, extraProcess,
                    \* the package variables: 0 (nil) or a Start call
    mark,           \* autoRedirectMark: "none" (0), or the TUN's "exempt"ion
    needUnsetDNS,
    sysDNS,         \* the system resolver: "own" or "tun"
    box,            \* life of each box
    proc,           \* life of each extra process
    open,           \* sidecars that are open
    egress,         \* the mark each sidecar's instance last got by SetEgress,
                    \* "unset" before the first
    taken,          \* the local variables of closeXray
    stopping        \* the local variable "box" of Stop and stopAllCores

slots == <<xrayInstance, xrayGate, xrayFullGates>>
dns   == <<needUnsetDNS, sysDNS>>

vars == <<pc, starts, reqs, boxInstance, xrayInstance, xrayGate, xrayFullGates,
          extraProcess, mark, needUnsetDNS, sysDNS, box, proc, open, egress,
          taken, stopping>>

Ids      == 1..MaxStarts
Kinds    == {"eager", "gate", "full"}
Sidecars == Kinds \X Ids

NoRequest == [extra |-> FALSE, xray |-> "none", full |-> FALSE,
              redirect |-> FALSE, cidr |-> "none"]

id == starts
req == reqs[starts]

\* autoRedirectMarkFor: no mark off Linux, and for a config without auto_redirect.
autoRedirectMarkFor(r) ==
    IF GOOS = "linux" /\ r.redirect THEN "exempt" ELSE "none"

-----------------------------------------------------------------------------

Init ==
    /\ pc = "idle"
    /\ starts = 0
    /\ reqs = [n \in Ids |-> NoRequest]
    /\ boxInstance = 0
    /\ xrayInstance = 0
    /\ xrayGate = 0
    /\ xrayFullGates = 0
    /\ extraProcess = 0
    /\ mark = "none"
    /\ needUnsetDNS = FALSE
    /\ sysDNS = "own"
    /\ box = [n \in Ids |-> "none"]
    /\ proc = [n \in Ids |-> "none"]
    /\ open = {}
    /\ egress = [s \in Sidecars |-> "unset"]
    /\ taken = {}
    /\ stopping = 0

-----------------------------------------------------------------------------
(* Start *)

\* The call, up to the check that no box is published.
Start(r) ==
    /\ pc = "idle"
    /\ starts < MaxStarts
    /\ StartOverRunning \/ boxInstance = 0
    /\ starts' = starts + 1
    /\ reqs' = [reqs EXCEPT ![starts + 1] = r]
    /\ pc' = IF boxInstance # 0 THEN "failed" ELSE "extra"
    /\ UNCHANGED <<boxInstance, slots, extraProcess, mark, dns, box, proc,
                   open, egress, taken, stopping>>

StartWithoutExtra ==
    /\ pc = "extra"
    /\ ~req.extra
    /\ pc' = "mark"
    /\ UNCHANGED <<starts, reqs, boxInstance, slots, extraProcess, mark, dns,
                   box, proc, open, egress, taken, stopping>>

\* The arguments do not parse, or extra.conf cannot be written.
StartExtraRefused ==
    /\ pc = "extra"
    /\ req.extra
    /\ pc' = "failed"
    /\ UNCHANGED <<starts, reqs, boxInstance, slots, extraProcess, mark, dns,
                   box, proc, open, egress, taken, stopping>>

\* NewProcess is stored before its Start, which may fail.
StartExtra ==
    /\ pc = "extra"
    /\ req.extra
    /\ extraProcess' = id
    /\ \/ /\ proc' = [proc EXCEPT ![id] = "running"]
          /\ pc' = "mark"
       \/ /\ pc' = "failed"
          /\ UNCHANGED proc
    /\ UNCHANGED <<starts, reqs, boxInstance, slots, mark, dns, box, open,
                   egress, taken, stopping>>

StoreMarkSkipped ==
    /\ pc = "mark"
    /\ pc' = "xray"
    /\ UNCHANGED <<starts, reqs, boxInstance, slots, extraProcess, mark, dns,
                   box, proc, open, egress, taken, stopping>>

StoreMark ==
    /\ pc = "mark"
    /\ mark' = autoRedirectMarkFor(req)
    /\ pc' = "xray"
    /\ UNCHANGED <<starts, reqs, boxInstance, slots, extraProcess, dns, box,
                   proc, open, egress, taken, stopping>>

\* NeedXray is false.
StartWithoutXray ==
    /\ pc = "xray"
    /\ req.xray = "none"
    /\ pc' = "full"
    /\ UNCHANGED <<starts, reqs, boxInstance, slots, extraProcess, mark, dns,
                   box, proc, open, egress, taken, stopping>>

\* The gate listens, or the eager instance is prepared and started; setXray.
StartXray ==
    /\ pc = "xray"
    /\ req.xray # "none"
    /\ open' = open \cup {<<req.xray, id>>}
    /\ egress' = IF req.xray = "eager"
                 THEN [egress EXCEPT ![<<"eager", id>>] = mark] ELSE egress
    /\ xrayInstance' = IF req.xray = "eager" THEN id ELSE 0
    /\ xrayGate' = IF req.xray = "gate" THEN id ELSE 0
    /\ pc' = "full"
    /\ UNCHANGED <<starts, reqs, boxInstance, xrayFullGates, extraProcess, mark,
                   dns, box, proc, taken, stopping>>

\* StartGate, CreateXrayInstance, prepare or Start failed; nothing stays open,
\* and the extra process is left alone.
StartXrayFails ==
    /\ pc = "xray"
    /\ req.xray # "none"
    /\ pc' = "failed"
    /\ UNCHANGED <<starts, reqs, boxInstance, slots, extraProcess, mark, dns,
                   box, proc, open, egress, taken, stopping>>

StartFull ==
    /\ pc = "full"
    /\ IF req.full
       THEN /\ open' = open \cup {<<"full", id>>}
            /\ xrayFullGates' = id
       ELSE UNCHANGED <<open, xrayFullGates>>
    /\ pc' = "box"
    /\ UNCHANGED <<starts, reqs, boxInstance, xrayInstance, xrayGate,
                   extraProcess, mark, dns, box, proc, egress, taken, stopping>>

StartFullFailsLeaky ==
    /\ pc = "full"
    /\ req.full
    /\ pc' = "failed"
    /\ UNCHANGED <<starts, reqs, boxInstance, slots, extraProcess, mark, dns,
                   box, proc, open, egress, taken, stopping>>

\* startXrayFullGates has unwound its own gates; closeXray takes the sidecar.
StartFullFails ==
    /\ pc = "full"
    /\ req.full
    /\ pc' = "closeXray"
    /\ UNCHANGED <<starts, reqs, boxInstance, slots, extraProcess, mark, dns,
                   box, proc, open, egress, taken, stopping>>

\* boxmain.Create returned a started box.
CreateBox ==
    /\ pc = "box"
    /\ box' = [box EXCEPT ![id] = "up"]
    /\ pc' = "publish"
    /\ UNCHANGED <<starts, reqs, boxInstance, slots, extraProcess, mark, dns,
                   proc, open, egress, taken, stopping>>

\* Killing the process in the extraProcess slot and clearing the slot.
StopExtra ==
    /\ extraProcess' = 0
    /\ proc' = [n \in Ids |->
                   IF n = extraProcess /\ proc[n] = "running" THEN "stopped"
                   ELSE proc[n]]

CreateBoxFailsLeaky ==
    /\ pc = "box"
    /\ pc' = "closeXray"
    /\ UNCHANGED <<starts, reqs, boxInstance, slots, extraProcess, proc, mark,
                   dns, box, open, egress, taken, stopping>>

\* boxmain.Create failed and has closed what it built.
CreateBoxFails ==
    /\ pc = "box"
    /\ StopExtra
    /\ pc' = "closeXray"
    /\ UNCHANGED <<starts, reqs, boxInstance, slots, mark, dns, box, open,
                   egress, taken, stopping>>

\* setBoxInstance(box, cancel)
PublishBox ==
    /\ pc = "publish"
    /\ boxInstance' = id
    /\ pc' = IF GOOS = "darwin" /\ req.cidr # "none" THEN "dns" ELSE "idle"
    /\ UNCHANGED <<starts, reqs, slots, extraProcess, mark, dns, box, proc,
                   open, egress, taken, stopping>>

\* SetSystemDNS may fail, which is logged and ignored.
StartDNS ==
    /\ pc = "dns"
    /\ req.cidr = "good"
    /\ sysDNS' \in {sysDNS, "tun"}
    /\ needUnsetDNS' = TRUE
    /\ pc' = "idle"
    /\ UNCHANGED <<starts, reqs, boxInstance, slots, extraProcess, mark, box,
                   proc, open, egress, taken, stopping>>

\* stopAllCores: the box is closed first and unpublished after that.
StopAllCores ==
    /\ pc = "dns"
    /\ req.cidr = "bad"
    /\ stopping' = id
    /\ box' = [box EXCEPT ![id] = "closing"]
    /\ pc' = "allCores"
    /\ UNCHANGED <<starts, reqs, boxInstance, slots, extraProcess, mark, dns,
                   proc, open, egress, taken>>

StopAllCoresLeaky ==
    /\ pc = "allCores"
    /\ box[stopping] = "closed"
    /\ boxInstance' = 0
    /\ stopping' = 0
    /\ StopExtra
    /\ pc' = "failed"
    /\ UNCHANGED <<starts, reqs, slots, mark, dns, box, open, egress, taken>>

StopAllCoresUnpublish ==
    /\ pc = "allCores"
    /\ box[stopping] = "closed"
    /\ boxInstance' = 0
    /\ stopping' = 0
    /\ StopExtra
    /\ pc' = "closeXray"
    /\ UNCHANGED <<starts, reqs, slots, mark, dns, box, open, egress, taken>>

\* The deferred function of a Start that returns an error.
Failed ==
    /\ pc = "failed"
    /\ boxInstance' = 0
    /\ mark' = "none"
    /\ pc' = "idle"
    /\ UNCHANGED <<starts, reqs, slots, extraProcess, dns, box, proc, open,
                   egress, taken, stopping>>

-----------------------------------------------------------------------------
(* closeXray, called by a failing Start (which then fails) and by Stop. *)

CloseXrayWithoutClearing ==
    /\ pc = "closeXray"
    /\ taken' = {s \in Sidecars : \/ s = <<"eager", xrayInstance>>
                                  \/ s = <<"gate", xrayGate>>
                                  \/ s = <<"full", xrayFullGates>>}
    /\ pc' = "closing"
    /\ UNCHANGED <<starts, reqs, boxInstance, slots, extraProcess, mark, dns,
                   box, proc, open, egress, stopping>>

\* The section under stateMu.
CloseXray ==
    /\ pc = "closeXray"
    /\ taken' = {s \in Sidecars : \/ s = <<"eager", xrayInstance>>
                                  \/ s = <<"gate", xrayGate>>
                                  \/ s = <<"full", xrayFullGates>>}
    /\ xrayInstance' = 0
    /\ xrayGate' = 0
    /\ xrayFullGates' = 0
    /\ pc' = "closing"
    /\ UNCHANGED <<starts, reqs, boxInstance, extraProcess, mark, dns, box,
                   proc, open, egress, stopping>>

\* The order of the closes: the gate, the full gates, the eager instance.
Turn(s) ==
    \/ s[1] = "gate"
    \/ s[1] = "full" /\ \A t \in taken : t[1] # "gate"
    \/ s[1] = "eager" /\ \A t \in taken : t[1] = "eager"

CloseSidecar(s) ==
    /\ pc = "closing"
    /\ s \in taken
    /\ Turn(s)
    /\ open' = open \ {s}
    /\ taken' = taken \ {s}
    /\ UNCHANGED <<pc, starts, reqs, boxInstance, slots, extraProcess, mark,
                   dns, box, proc, egress, stopping>>

\* closeXray returns to Stop (which has a box in hand) or to Start.
CloseXrayReturns ==
    /\ pc = "closing"
    /\ taken = {}
    /\ pc' = IF stopping # 0 THEN "unmark" ELSE "failed"
    /\ UNCHANGED <<starts, reqs, boxInstance, slots, extraProcess, mark, dns,
                   box, proc, open, egress, taken, stopping>>

-----------------------------------------------------------------------------
(* Stop.  Without a published box it returns and changes nothing. *)

StopOwingDNS ==
    /\ pc = "idle"
    /\ boxInstance # 0
    /\ stopping' = boxInstance
    /\ sysDNS' \in IF needUnsetDNS THEN {sysDNS, "own"} ELSE {sysDNS}
    /\ pc' = "unpublish"
    /\ UNCHANGED <<starts, reqs, boxInstance, slots, extraProcess, mark, box,
                   needUnsetDNS, proc, open, egress, taken>>

Stop ==
    /\ pc = "idle"
    /\ boxInstance # 0
    /\ stopping' = boxInstance
    /\ sysDNS' \in IF needUnsetDNS THEN {sysDNS, "own"} ELSE {sysDNS}
    /\ needUnsetDNS' = FALSE
    /\ pc' = "unpublish"
    /\ UNCHANGED <<starts, reqs, boxInstance, slots, extraProcess, mark, box,
                   proc, open, egress, taken>>

StopUnpublish ==
    /\ pc = "unpublish"
    /\ boxInstance' = 0
    /\ pc' = "close"
    /\ UNCHANGED <<starts, reqs, slots, extraProcess, mark, dns, box, proc,
                   open, egress, taken, stopping>>

\* CloseWithTimeout with block set: the timeout is only logged.
CloseWithTimeout ==
    /\ pc = "close"
    /\ box' = [box EXCEPT ![stopping] = "closing"]
    /\ pc' = "stopExtra"
    /\ UNCHANGED <<starts, reqs, boxInstance, slots, extraProcess, mark, dns,
                   proc, open, egress, taken, stopping>>

StopExtraProcess ==
    /\ pc = "stopExtra"
    /\ box[stopping] = "closed"
    /\ StopExtra
    /\ pc' = "closeXray"
    /\ UNCHANGED <<starts, reqs, boxInstance, slots, mark, dns, box, open,
                   egress, taken, stopping>>

ClearMark ==
    /\ pc = "unmark"
    /\ mark' = "none"
    /\ stopping' = 0
    /\ pc' = "idle"
    /\ UNCHANGED <<starts, reqs, boxInstance, slots, extraProcess, dns, box,
                   proc, open, egress, taken>>

-----------------------------------------------------------------------------
(* What happens without lifecycleMu. *)

\* The goroutine of CloseWithTimeout: Box.Close returns.
BoxCloses(n) ==
    /\ box[n] = "closing"
    /\ box' = [box EXCEPT ![n] = "closed"]
    /\ UNCHANGED <<pc, starts, reqs, boxInstance, slots, extraProcess, mark,
                   dns, proc, open, egress, taken, stopping>>

\* An open gate brings an instance up for a connection and prepares it.
GatePrepares(s) ==
    /\ s \in open
    /\ s[1] \in {"gate", "full"}
    /\ egress' = [egress EXCEPT ![s] = mark]
    /\ UNCHANGED <<pc, starts, reqs, boxInstance, slots, extraProcess, mark,
                   dns, box, proc, open, taken, stopping>>

\* The monitor's callback: SetEgress on the live instances in the slots.
\* Gates that are cold have no instance, so any subset of the gates is live.
InterfaceChanges(live) ==
    /\ egress' = [s \in Sidecars |->
                     IF \/ s = <<"eager", xrayInstance>>
                        \/ xrayInstance = 0 /\ s = <<"gate", xrayGate>> /\ s \in live
                        \/ s = <<"full", xrayFullGates>> /\ s \in live
                     THEN mark ELSE egress[s]]
    /\ UNCHANGED <<pc, starts, reqs, boxInstance, slots, extraProcess, mark,
                   dns, box, proc, open, taken, stopping>>

\* The extra process exits by itself; nobody clears its slot.
ProcessExits(n) ==
    /\ proc[n] = "running"
    /\ proc' = [proc EXCEPT ![n] = "exited"]
    /\ UNCHANGED <<pc, starts, reqs, boxInstance, slots, extraProcess, mark,
                   dns, box, open, egress, taken, stopping>>

-----------------------------------------------------------------------------

StartSteps ==
    \/ StartWithoutExtra
    \/ StartExtraRefused
    \/ StartExtra
    \/ StoreMark
    \/ StartWithoutXray
    \/ StartXray
    \/ StartXrayFails
    \/ StartFull
    \/ StartFullFails
    \/ CreateBox
    \/ CreateBoxFails
    \/ PublishBox
    \/ StartDNS
    \/ StopAllCores
    \/ StopAllCoresUnpublish
    \/ Failed

CloseXraySteps ==
    \/ CloseXray
    \/ \E s \in taken : CloseSidecar(s)
    \/ CloseXrayReturns

StopSteps ==
    \/ StopUnpublish
    \/ CloseWithTimeout
    \/ StopExtraProcess
    \/ ClearMark

Environment ==
    \/ \E s \in Sidecars : GatePrepares(s)
    \/ \E live \in SUBSET open : InterfaceChanges(live)
    \/ \E n \in Ids : ProcessExits(n)

Next ==
    \/ \E r \in Requests : Start(r)
    \/ Stop
    \/ StartSteps
    \/ CloseXraySteps
    \/ StopSteps
    \/ \E n \in Ids : BoxCloses(n)
    \/ Environment

Spec == Init /\ [][Next]_vars

\* A call that has begun is carried on, and Box.Close returns.
Fairness ==
    /\ WF_vars(StartSteps \/ CloseXraySteps \/ StopSteps)
    /\ WF_vars(\E n \in Ids : BoxCloses(n))

FairSpec == Spec /\ Fairness

-----------------------------------------------------------------------------
(* Properties *)

PCs == {"idle", "extra", "mark", "xray", "full", "box", "publish", "dns",
        "allCores", "failed", "closeXray", "closing", "unpublish", "close",
        "stopExtra", "unmark"}

TypeOK ==
    /\ pc \in PCs
    /\ starts \in 0..MaxStarts
    /\ reqs \in [Ids -> RequestType]
    /\ boxInstance \in 0..MaxStarts
    /\ xrayInstance \in 0..MaxStarts
    /\ xrayGate \in 0..MaxStarts
    /\ xrayFullGates \in 0..MaxStarts
    /\ extraProcess \in 0..MaxStarts
    /\ mark \in {"none", "exempt"}
    /\ needUnsetDNS \in BOOLEAN
    /\ sysDNS \in {"own", "tun"}
    /\ box \in [Ids -> {"none", "up", "closing", "closed"}]
    /\ proc \in [Ids -> {"none", "running", "exited", "stopped"}]
    /\ open \in SUBSET Sidecars
    /\ egress \in [Sidecars -> {"unset", "none", "exempt"}]
    /\ taken \in SUBSET Sidecars
    /\ stopping \in 0..MaxStarts

\* The sidecars the request of a Start call asks for.
Asked(n) == {s \in Sidecars :
                /\ s[2] = n
                /\ s[1] = reqs[n].xray \/ (s[1] = "full" /\ reqs[n].full)}

\* Between calls, what runs is exactly what the published profile asked for:
\* after a failed Start or a Stop no box, no sidecar and no mark is left; after
\* a successful Start its own box and sidecars run and nothing older does.
RunsWhatIsPublished ==
    pc = "idle" =>
        /\ \A n \in Ids : box[n] \in {"up", "closing"} <=> n = boxInstance
        /\ open = IF boxInstance = 0 THEN {} ELSE Asked(boxInstance)
        /\ mark = IF boxInstance = 0 THEN "none"
                  ELSE autoRedirectMarkFor(reqs[boxInstance])

\* lifecycle.go:197 "Unpublished first, so a poll mid-teardown sees no instance
\* rather than a dying one": the published box is always an open one.
PublishedBoxIsUp ==
    boxInstance # 0 => box[boxInstance] = "up"

\* xray.go:42 "Slots are cleared before the close so no reader picks up a
\* pointer that is going away": what a slot holds is open and nobody closes it.
SlotsHoldOpenSidecars ==
    \A s \in Sidecars :
        \/ s = <<"eager", xrayInstance>>
        \/ s = <<"gate", xrayGate>>
        \/ s = <<"full", xrayFullGates>>
        => s \in open /\ s \notin taken

\* xray.go:130 "both settings keep the instance off an active TUN": while a
\* box with an auto_redirect TUN is up, the instances of its sidecars carry
\* the TUN's exemption mark, whenever they were prepared or updated.
ActiveTunExempt ==
    \A s \in open :
        box[s[2]] = "up" /\ egress[s] # "unset"
            => egress[s] = autoRedirectMarkFor(reqs[s[2]])

\* Between calls the system resolver has to be handed back exactly when the
\* published profile took it over (lifecycle.go needUnsetDNS).
UnsetDNSIsOwed ==
    pc = "idle" =>
        (needUnsetDNS <=> /\ boxInstance # 0
                          /\ GOOS = "darwin"
                          /\ reqs[boxInstance].cidr = "good")

(***************************************************************************)
(* The inductive invariants.  BaseInv holds whatever the client does, the  *)
(* rest when it does not start a running profile: everything that is up    *)
(* belongs to the latest Start, and pc says how much of it is.             *)
(***************************************************************************)
Slotted == {s \in Sidecars : \/ s = <<"eager", xrayInstance>>
                             \/ s = <<"gate", xrayGate>>
                             \/ s = <<"full", xrayFullGates>>}

\* What closeXray took out of the slots is the only thing being closed.
SlotInv ==
    /\ Slotted \subseteq open
    /\ Slotted \cap taken = {}
    /\ taken # {} => pc = "closing"
    /\ pc = "closing" => Slotted = {}

NumberInv ==
    /\ boxInstance <= starts
    /\ pc # "idle" => starts # 0

BaseInv == TypeOK /\ NumberInv /\ SlotInv

\* The profile is complete: Start succeeded, or Stop has not come far yet.
Whole ==
    \/ pc \in {"publish", "dns", "unpublish", "close"}
    \/ pc = "idle" /\ boxInstance # 0

\* A box is being closed.
Dying == pc \in {"allCores", "stopExtra"}

PointerInv ==
    /\ pc \in {"dns", "allCores", "unpublish"} => boxInstance = starts
    /\ pc = "idle" => boxInstance \in {0, starts}
    /\ pc \notin {"dns", "allCores", "unpublish", "idle"} => boxInstance = 0
    /\ pc \in {"unpublish", "close", "stopExtra", "unmark", "allCores"} => stopping = starts
    /\ pc \in {"closeXray", "closing"} => stopping \in {0, starts}
    /\ pc \in {"idle", "extra", "mark", "xray", "full", "box", "publish", "dns", "failed"}
          => stopping = 0

BoxInv ==
    /\ \A n \in Ids : box[n] \in {"up", "closing"} => n = starts /\ (Whole \/ Dying)
    /\ Whole => box[starts] = "up"
    /\ Dying => box[starts] # "up"

SidecarInv ==
    /\ open = Slotted \cup taken
    /\ pc \in {"extra", "mark", "xray", "failed", "unmark"} => open = {}
    /\ pc = "full" => open = {s \in Asked(starts) : s[1] # "full"}
    /\ pc = "box" \/ Whole \/ Dying => open = Asked(starts)
    /\ pc = "idle" /\ boxInstance = 0 => open = {}
    /\ open \subseteq Asked(starts)

MarkInv ==
    /\ pc \in {"extra", "mark"} \/ (pc = "idle" /\ boxInstance = 0) => mark = "none"
    /\ pc \notin {"idle", "extra", "mark", "failed"} \/ (pc = "idle" /\ boxInstance # 0)
          => mark = autoRedirectMarkFor(reqs[starts])
    /\ \A s \in Sidecars : egress[s] # "unset" =>
          s[2] <= starts /\ egress[s] = autoRedirectMarkFor(reqs[s[2]])

DNSInv ==
    /\ pc # "idle" => ~needUnsetDNS
    /\ pc \in {"dns", "allCores"} => GOOS = "darwin"
    /\ pc = "allCores" => reqs[starts].cidr = "bad"

CourteousInv ==
    /\ BaseInv
    /\ PointerInv /\ BoxInv /\ SidecarInv /\ MarkInv /\ DNSInv /\ UnsetDNSIsOwed

(***************************************************************************)
(* Start and Stop implement ProfileService.                                *)
(***************************************************************************)

\* Cores that exist, in the terms of the service.
running ==
    (IF \E n \in Ids : box[n] \in {"up", "closing"} THEN {"box"} ELSE {})
    \cup (IF \E n \in Ids : proc[n] = "running" THEN {"extra"} ELSE {})
    \cup {s[1] : s \in open}

asks(r) ==
    {"box"} \cup (IF r.extra THEN {"extra"} ELSE {})
            \cup ({r.xray} \ {"none"})
            \cup (IF r.full THEN {"full"} ELSE {})

serviceStatus ==
    IF pc = "idle" THEN (IF boxInstance = 0 THEN "down" ELSE "up")
    ELSE IF pc \in {"unpublish", "close", "stopExtra", "unmark"}
            \/ (pc \in {"closeXray", "closing"} /\ stopping # 0) THEN "stopping"
    ELSE "starting"

Service == INSTANCE ProfileService WITH
    Cores   <- {"box", "extra", "eager", "gate", "full"},
    status  <- serviceStatus,
    wanted  <- IF serviceStatus = "down" THEN {} ELSE asks(req),
    cores   <- running,
    visible <- boxInstance # 0

\* Every behaviour of Start and Stop is one the service allows.
ImplementsService == Service!Spec

\* Profiles for which the code keeps the promise: without an extra process
\* beside sidecars, and without a TUN address that macOS cannot parse.
Kept(r) ==
    /\ r.extra => r.xray = "none" /\ ~r.full
    /\ GOOS = "darwin" => r.cidr # "bad"

\* With such profiles the extra process belongs to the latest Start, too.
ProcInv ==
    /\ \A n \in Ids : Kept(reqs[n])
    /\ \A n \in Ids : proc[n] = "running" =>
          /\ n = extraProcess /\ n = starts /\ reqs[n].extra
          /\ pc \in {"mark", "xray", "full", "box"} \/ Whole \/ Dying

\* Every step of Start and Stop is one the service allows.
ServiceSteps == Service!Init /\ [][Service!Next]_(Service!vars)

=============================================================================
