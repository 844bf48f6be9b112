-------------------------------- MODULE Box --------------------------------
(***************************************************************************)
(* One sing-box instance (internal/boxbox/box.go) from its construction to *)
(* its close, as boxmain.Create and boxmain.Check drive it.  Every stage   *)
(* of every part may fail or panic, so may every close of a part, and a    *)
(* signal may arrive while the box starts.                                 *)
(***************************************************************************)
EXTENDS Integers, Sequences, SequencesExt

CONSTANT Configs    \* sets of optional features, each a subset of Features

VARIABLES
    boxPC,      \* where the call that owns the box is
    boxFor,     \* "none", "create", "check": the call
    features,   \* what the configuration asks for
    internal,   \* Box.internalService, in the order New appends
    life,       \* the stage each part has reached
    pos,        \* steps of the start, or of the close, already made
    boxCtx,     \* "none", "live", "cancelled": the context of the box
    boxResult,  \* "none", "ok", "error": what the call returned
    signalled,  \* the signal goroutine of Create: "no", "waiting"
    boxDone,    \* Box.done is closed
    swallowed   \* history: Start recovered from a panic of its own early close

vars == <<boxPC, boxFor, features, internal, life, pos, boxCtx, boxResult, signalled,
          boxDone, swallowed>>

Features == {"certificate", "clash", "apiService", "platformLog", "cache", "v2ray", "ntp"}

Services == {"certificateStore", "netns", "traffic", "clashMode", "cacheFile",
             "clashServer", "v2rayServer", "ntpService"}
\* The parts a connection or a query passes on its way out.
Carriers == {"network", "dnsTransport", "dnsRouter", "connection", "router",
             "outbound", "httpClient"}
\* The parts that take connections in.
Takers   == {"inbound", "endpoint", "service"}
Parts    == Carriers \cup Takers \cup {"certificateProvider", "log"} \cup Services

Up     == {"started", "postStarted", "running"}
Opened == {"initialized"} \cup Up

-----------------------------------------------------------------------------
(* The stages of a start, as <<stage, part>> in the order of the calls *)

Stage(stage, parts) == [i \in DOMAIN parts |-> <<stage, parts[i]>>]

preStart ==
    Stage("started", <<"log">>)
    \o Stage("initialized", internal)
    \o Stage("initialized", <<"network", "dnsTransport", "dnsRouter", "connection", "router",
                              "outbound", "inbound", "endpoint", "service", "certificateProvider">>)
    \o Stage("started", <<"outbound", "dnsTransport", "network", "connection">>)
    \o Stage("started", <<"httpClient">>)
    \o Stage("started", <<"router", "dnsRouter">>)

start ==
    preStart
    \o Stage("started", internal)
    \o Stage("started", <<"endpoint">>)
    \o Stage("started", <<"certificateProvider">>)
    \o Stage("started", <<"inbound", "service">>)
    \o Stage("postStarted", <<"outbound", "network", "dnsTransport", "dnsRouter", "connection",
                              "router", "endpoint", "certificateProvider", "inbound", "service">>)
    \o Stage("postStarted", internal)
    \o Stage("running", <<"network", "dnsTransport", "dnsRouter", "connection", "router",
                          "outbound", "endpoint", "certificateProvider", "inbound", "service">>)
    \o Stage("running", internal)

CarriersFirst == <<"router", "outbound", "service", "inbound", "certificateProvider", "endpoint",
        "connection", "dnsRouter", "dnsTransport", "network", "httpClient">>
    \o internal \o <<"log">>

closeOrder == <<"service", "inbound", "certificateProvider", "endpoint", "outbound", "router",
        "connection", "dnsRouter", "dnsTransport", "network", "httpClient">>
    \o internal \o <<"log">>

-----------------------------------------------------------------------------
Init ==
    /\ boxPC = "idle" /\ boxFor = "none" /\ features = {} /\ internal = <<>>
    /\ life = [p \in Parts |-> "none"]
    /\ pos = 0 /\ boxCtx = "none" /\ boxResult = "none" /\ signalled = "no"
    /\ boxDone = FALSE /\ swallowed = FALSE

\* Create and Check parse the configuration and make a context of their own;
\* the registries New looks for are always in it.
Call(by, need) ==
    /\ boxPC = "idle"
    /\ boxPC' = "log" /\ boxFor' = by /\ features' = need /\ boxCtx' = "live"
    /\ UNCHANGED <<internal, life, pos, boxResult, signalled, boxDone, swallowed>>

ParseFails ==
    /\ boxPC = "idle"
    /\ boxPC' = "done" /\ boxResult' = "error"
    /\ UNCHANGED <<boxFor, features, internal, life, pos, boxCtx, signalled, boxDone, swallowed>>

Built(parts, services, next) ==
    /\ boxPC' = next /\ boxDone' = (next = "close")
    /\ internal' = internal \o services
    /\ life' = [p \in Parts |-> IF p \in parts \cup Range(services) THEN "built" ELSE life[p]]
    /\ UNCHANGED <<boxFor, features, pos, boxCtx, boxResult, signalled, swallowed>>

If(some, services) == IF features \cap some # {} THEN services ELSE <<>>

\* The registry checks, the log factory and the features that are needed.
NewLog == boxPC = "log" /\ Built({"log"}, <<>>, "managers")

\* Certificate store and namespaces, then the managers, which depend on one
\* another in this order, and the trackers of the router.
NewManagers ==
    /\ boxPC = "managers"
    /\ Built(Carriers \cup Takers \cup {"certificateProvider"},
             If({"certificate"}, <<"certificateStore">>) \o <<"netns">>
             \o If({"clash", "apiService", "platformLog"}, <<"traffic", "clashMode">>),
             "services")

\* The managers have made their members, and the other internal services follow.
\* A V2Ray server without a statistics service is dropped.  Check closes the box
\* that New has made, Create starts it.
NewServices(stats) ==
    /\ boxPC = "services"
    /\ Built({}, If({"cache", "platformLog"}, <<"cacheFile">>) \o If({"clash"}, <<"clashServer">>)
                 \o (IF stats THEN If({"v2ray"}, <<"v2rayServer">>) ELSE <<>>)
                 \o If({"ntp"}, <<"ntpService">>),
             IF boxFor = "check" THEN "close" ELSE "start")

\* A failing New drops what it built, which has not been started; the caller
\* cancels the context.
NewFails ==
    /\ boxPC \in {"log", "managers", "services"}
    /\ boxPC' = "done" /\ boxResult' = "error" /\ boxCtx' = "cancelled"
    /\ UNCHANGED <<boxFor, features, internal, life, pos, signalled, boxDone, swallowed>>

-----------------------------------------------------------------------------
\* One call of adapter.Start; the last one ends Create.
StartStep ==
    /\ boxPC = "start"
    /\ LET step == start[pos + 1]
           last == pos + 1 = Len(start)
       IN  /\ life' = [life EXCEPT ![step[2]] = step[1]]
           /\ pos' = IF last THEN 0 ELSE pos + 1
           /\ boxPC' = IF last THEN "up" ELSE "start"
           /\ boxResult' = IF last THEN "ok" ELSE "none"
    /\ UNCHANGED <<boxFor, features, internal, boxCtx, signalled, boxDone, swallowed>>

StartFailsOnly ==
    /\ boxPC = "start"
    /\ boxPC' = "done" /\ boxResult' = "error" /\ boxCtx' = "cancelled"
    /\ UNCHANGED <<boxFor, features, internal, life, pos, signalled, boxDone, swallowed>>

\* The error of any stage: Start closes the box before it returns it.
StartFails ==
    /\ boxPC = "start"
    /\ boxPC' = "close" /\ pos' = 0 /\ boxDone' = TRUE
    /\ UNCHANGED <<boxFor, features, internal, life, boxCtx, boxResult, signalled, swallowed>>

\* A panic of New or of a stage goes through Create to the dispatcher, or through
\* Check to CheckConfig, which answer the request: nobody cancels or closes anything.
BuildPanics ==
    /\ boxPC \in {"log", "managers", "services", "start"}
    /\ boxPC' = "panicked"
    /\ UNCHANGED <<boxFor, features, internal, life, pos, boxCtx, boxResult, signalled,
                   boxDone, swallowed>>

\* CloseWithTimeout: the context is cancelled, then the box closed; Close refuses
\* a box that was closed before.
CloseWithTimeout ==
    /\ boxPC = "up"
    /\ boxPC' = (IF boxDone THEN "done" ELSE "close") /\ boxDone' = TRUE /\ boxCtx' = "cancelled"
    /\ UNCHANGED <<boxFor, features, internal, life, pos, boxResult, signalled, swallowed>>

\* An error of one part is remembered and the next one closed.  After the last
\* one Check and a failed Create cancel the context and return.
CloseStep ==
    /\ boxPC = "close"
    /\ LET last == pos + 1 = Len(closeOrder)
       IN  /\ life' = [life EXCEPT ![closeOrder[pos + 1]] = "closed"]
           /\ pos' = pos + 1
           /\ boxPC' = IF last THEN "done" ELSE "close"
           /\ boxCtx' = IF last THEN "cancelled" ELSE boxCtx
           /\ boxResult' = IF last /\ boxResult = "none"
                           THEN (IF boxFor = "check" THEN "ok" ELSE "error") ELSE boxResult
    /\ UNCHANGED <<boxFor, features, internal, signalled, boxDone, swallowed>>

\* A part panics in its Close, which may have closed it, and those after it stay
\* as they are.  Start recovers and, its result having no name, returns nil: Create
\* takes the half-closed box for a running one.  Check panics on to CheckConfig.
ClosePanics ==
    /\ boxPC = "close"
    /\ \/ /\ boxFor = "create" /\ boxResult = "none"
          /\ boxPC' = "up" /\ pos' = 0 /\ boxResult' = "ok" /\ swallowed' = TRUE
       \/ /\ boxFor = "check"
          /\ boxPC' = "panicked" /\ UNCHANGED <<pos, boxResult, swallowed>>
    /\ \E after \in {life[closeOrder[pos + 1]], "closed"} :
          life' = [life EXCEPT ![closeOrder[pos + 1]] = after]
    /\ UNCHANGED <<boxFor, features, internal, boxCtx, signalled, boxDone>>

\* In the goroutine of CloseWithTimeout nobody recovers: the process ends.
CloseDies ==
    /\ boxPC = "close" /\ boxFor = "create" /\ boxResult = "ok"
    /\ boxPC' = "exited" /\ life' = [p \in Parts |-> "none"]
    /\ UNCHANGED <<boxFor, features, internal, pos, boxCtx, boxResult, signalled, boxDone, swallowed>>

\* While Create runs Start it takes the signals: the context is cancelled, and
\* a Start that then takes too long ends the process.
Signal ==
    /\ boxFor = "create" /\ boxResult = "none" /\ boxPC \in {"start", "close"}
    /\ signalled = "no" /\ signalled' = "waiting"
    /\ boxCtx' = "cancelled"
    /\ UNCHANGED <<boxPC, boxFor, features, internal, life, pos, boxResult, boxDone, swallowed>>

closeMonitor ==
    /\ signalled = "waiting" /\ boxResult = "none"
    /\ boxPC' = "exited" /\ signalled' = "no"
    /\ life' = [p \in Parts |-> "none"]
    /\ UNCHANGED <<boxFor, features, internal, pos, boxCtx, boxResult, boxDone, swallowed>>

Next ==
    \/ \E need \in Configs : Call("create", need) \/ Call("check", need)
    \/ ParseFails \/ NewLog \/ NewManagers \/ NewFails
    \/ \E stats \in BOOLEAN : NewServices(stats)
    \/ StartStep \/ StartFails \/ BuildPanics \/ CloseWithTimeout \/ CloseStep \/ ClosePanics
    \/ CloseDies \/ Signal \/ closeMonitor

-----------------------------------------------------------------------------
(* Properties *)

\* A part takes connections in only while every part they are routed through
\* is up: at each step of the start, of the close, of the close that ends a start
\* which failed half way, and after a panic that cut one of them short.
TakersFindCarriersUp ==
    (\E t \in Takers : life[t] \in Up) => \A c \in Carriers : life[c] \in Up

\* When Create or Check has returned an error, or the box has been closed, the
\* context is cancelled and no part is left open, the ones whose first stage had
\* only run included.  The one box that keeps parts open is that of a failed Start
\* whose early close panicked: Create has not returned an error for it, and the
\* second close is refused.
NothingOutlivesBox ==
    boxPC = "done" => /\ boxCtx # "live"
                      /\ swallowed => boxResult = "ok"
                      /\ ~swallowed => \A p \in Parts : life[p] \notin Opened

-----------------------------------------------------------------------------
(* What the proofs carry along *)

Lives    == {"none", "built", "initialized", "closed"} \cup Up
Building == {"idle", "log", "managers", "services"}

\* Stages are run in order: from the 12th step after the internal services on
\* each leaves its part up, the carriers are up when preStart is over, and
\* nothing takes connections before the internal services are started.  A close
\* has closed what comes before pos, the takers first; a box that is up and was
\* closed before is one whose early close panicked.
BoxInv ==
    /\ boxPC \in Building \cup {"start", "up", "close", "done", "exited", "panicked"}
    /\ internal \in Seq(Services) /\ life \in [Parts -> Lives] /\ pos \in Nat
    /\ \A s \in Services : life[s] # "none" => s \in Range(internal)
    /\ boxPC = "idle" => boxCtx = "none"
    /\ boxPC \in Building => pos = 0 /\ \A p \in Parts : life[p] \in {"none", "built"}
    /\ boxPC = "start" =>
          /\ pos < Len(start)
          /\ pos <= Len(preStart) + Len(internal) => \A t \in Takers : life[t] \notin Up
          /\ \A i \in (Len(internal) + 12)..pos : life[start[i][2]] \in Up
    /\ boxPC \in Building \cup {"start"} => boxDone = FALSE /\ swallowed = FALSE
    /\ boxPC = "up" => /\ pos = 0 /\ boxDone = swallowed
                       /\ swallowed => boxResult = "ok"
                       /\ ~swallowed => \A c \in Carriers : life[c] \in Up
    /\ boxPC = "close" =>
          /\ pos < Len(closeOrder) /\ boxDone = TRUE /\ swallowed = FALSE
          /\ \A i \in 1..pos : life[closeOrder[i]] = "closed"
    /\ TakersFindCarriersUp /\ NothingOutlivesBox

=============================================================================
