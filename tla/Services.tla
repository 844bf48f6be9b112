------------------------------ MODULE Services ------------------------------
(***************************************************************************)
(* The services of the core that keep state of their own, side by side.    *)
(* They share nothing, so each behaviour is a behaviour of one of them:    *)
(* `acting` says of which.                                                 *)
(***************************************************************************)
EXTENDS Integers, Sequences, FiniteSets

CONSTANTS
    Requests, Attempts,                                 \* CoreProcess
    Configs,                                            \* Box
    Gates, Links,                                       \* Egress
    GateCount, InboundPorts(_), Ephemeral, GateWorkers, \* FullGates
    Dials,                                              \* ProbeDialer
    Tests, LastTag, CountrySlots,                       \* SpeedTest
    Endpoints, KindOf(_), MaxChanges,                   \* VpnStatus
    Captures,                                           \* Diagnostics
    Spellings, HostOf(_), DefaultHost, MaxHosts,        \* Warp
    Ifcs, IPv6, Original(_), MaxSteps,                  \* SystemDns
    MobileBoxes, XrayNeeds, NoBox,                      \* MobileInstance
    Loggers, Limits, MaxLines                           \* LogPump

\* The values that stand for nobody are nobody's, a gated configuration has
\* inbounds, and the limits of the log are those after its default.
ASSUME ServicesAssumption ==
    /\ "free" \notin Requests
    /\ Links # {}
    /\ GateCount \in Nat \ {0}
    /\ \A g \in 1..GateCount : InboundPorts(g) \in Seq(Nat) \ {<<>>}
    /\ LastTag \in Nat
    /\ "free" \notin Captures /\ "none" \notin Captures
    /\ NoBox \notin MobileBoxes
    /\ XrayNeeds \subseteq SUBSET {"main", "full"}
    /\ Limits \subseteq Nat \ {0}

\* The marks are addresses nobody else uses, of IPv4 like the local resolver.
ASSUME DnsAssumption ==
    /\ IPv6 \cap {"local", "setMark", "dhcpMark"} = {}
    /\ \A i \in Ifcs :
          Original(i) \in [nameServer : Seq(STRING \ (IPv6 \cup {"setMark", "dhcpMark"})),
                          leased : Seq(STRING \ (IPv6 \cup {"setMark", "dhcpMark"})),
                          v6 : Seq(IPv6), v6First : BOOLEAN]

VARIABLES
    acting,
    corePC, exitCode, attempt, parent, watching, conn, reqPC, writeMu, wire,
    boxPC, boxFor, features, internal, life, pos, boxCtx, boxResult, signalled,
    boxDone, swallowed,
    link, moving, readSlots, toAsk, alive, egPhase, lazy, opened, slots, inst, egress, missed,
    fanPC, fgPC, probes, targets, listening,
    platform, tokens, exPC, exFile, pipes, runner, child, childToken, waitPC2, pumps,
    handle, runnerMu,
    dialCtx, dialConns, dialerClosed, closing, dialPC, dialConn, closer,
    spPC, spKind, spTag, spCtx, answered, workers, transfer, orphans, isRunning, current,
    overlapped, country,
    status, generation, waitPC, heard, seen, timed, queryPC, submitPC, submission,
    capPC, opts, defers, diagnosticsMu, diagnosticsStop, stopped, profiling,
    warpPC, tunnel, hosts, warpCtx, devices, enrolled, identity,
    dns, default, dnsIsSet, lastIfc, doing, misread, dnsSteps,
    mKind, mNeeds, stack, mPC, mBox, mCtx, mClosed, closePC, overtook, holder, transport,
    protector, installed,
    sink, limit, pending, notify, waking, pumpPC, batch, delivered, lost, lines

coreVars == <<corePC, exitCode, attempt, parent, watching, conn, reqPC, writeMu, wire>>
boxVars == <<boxPC, boxFor, features, internal, life, pos, boxCtx, boxResult, signalled,
             boxDone, swallowed>>
egressVars == <<link, moving, readSlots, toAsk, alive, egPhase, lazy, opened, slots, inst,
                egress, missed>>
fanVars == <<fanPC, fgPC, probes, targets, listening>>
extraVars == <<platform, tokens, exPC, exFile, pipes, runner, child, childToken, waitPC2,
               pumps, handle, runnerMu>>
dialerVars == <<dialCtx, dialConns, dialerClosed, closing, dialPC, dialConn, closer>>
speedVars == <<spPC, spKind, spTag, spCtx, answered, workers, transfer, orphans, isRunning,
               current, overlapped, country>>
vpnVars == <<status, generation, waitPC, heard, seen, timed, queryPC, submitPC, submission>>
diagVars == <<capPC, opts, defers, diagnosticsMu, diagnosticsStop, stopped, profiling>>
warpVars == <<warpPC, tunnel, hosts, warpCtx, devices, enrolled, identity>>
dnsVars == <<dns, default, dnsIsSet, lastIfc, doing, misread, dnsSteps>>
phoneVars == <<mKind, mNeeds, stack, mPC, mBox, mCtx, mClosed, closePC, overtook, holder,
               transport, protector, installed>>
logVars == <<sink, limit, pending, notify, waking, pumpPC, batch, delivered, lost, lines>>
vars == <<acting, coreVars, boxVars, egressVars, fanVars, extraVars, dialerVars, speedVars,
                  vpnVars, diagVars, warpVars, dnsVars, phoneVars, logVars>>

Core    == INSTANCE CoreProcess
Box     == INSTANCE Box
Sending == INSTANCE Egress
Fan     == INSTANCE FullGates
Extra   == INSTANCE ExtraProcess
Dialer  == INSTANCE ProbeDialer WITH conns <- dialConns, closed <- dialerClosed, pc <- dialPC, conn <- dialConn
Speed   == INSTANCE SpeedTest
Vpn     == INSTANCE VpnStatus
Diag    == INSTANCE Diagnostics
Warp    == INSTANCE Warp
Dns     == INSTANCE SystemDns
Phone   == INSTANCE MobileInstance
Log     == INSTANCE LogPump

-----------------------------------------------------------------------------
Init ==
    /\ acting \in {"core", "box", "egress", "fan", "extra", "dialer", "speed",
                   "vpn", "diag", "warp", "dns", "phone", "log"}
    /\ Core!Init /\ Box!Init /\ Sending!Init /\ Fan!Init
    /\ Extra!Init /\ Dialer!Init /\ Speed!Init /\ Vpn!Init
    /\ Diag!Init /\ Warp!Init /\ Dns!Init /\ Phone!Init
    /\ Log!Init

OnlyCore ==
    /\ acting = "core"
    /\ UNCHANGED <<acting, boxVars, egressVars, fanVars, extraVars, dialerVars, speedVars,
                           vpnVars, diagVars, warpVars, dnsVars, phoneVars, logVars>>
OnlyBox ==
    /\ acting = "box"
    /\ UNCHANGED <<acting, coreVars, egressVars, fanVars, extraVars, dialerVars, speedVars,
                           vpnVars, diagVars, warpVars, dnsVars, phoneVars, logVars>>
OnlySending ==
    /\ acting = "egress"
    /\ UNCHANGED <<acting, coreVars, boxVars, fanVars, extraVars, dialerVars, speedVars,
                           vpnVars, diagVars, warpVars, dnsVars, phoneVars, logVars>>
OnlyFan ==
    /\ acting = "fan"
    /\ UNCHANGED <<acting, coreVars, boxVars, egressVars, extraVars, dialerVars, speedVars,
                           vpnVars, diagVars, warpVars, dnsVars, phoneVars, logVars>>
OnlyExtra ==
    /\ acting = "extra"
    /\ UNCHANGED <<acting, coreVars, boxVars, egressVars, fanVars, dialerVars, speedVars,
                           vpnVars, diagVars, warpVars, dnsVars, phoneVars, logVars>>
OnlyDialer ==
    /\ acting = "dialer"
    /\ UNCHANGED <<acting, coreVars, boxVars, egressVars, fanVars, extraVars, speedVars,
                           vpnVars, diagVars, warpVars, dnsVars, phoneVars, logVars>>
OnlySpeed ==
    /\ acting = "speed"
    /\ UNCHANGED <<acting, coreVars, boxVars, egressVars, fanVars, extraVars, dialerVars,
                           vpnVars, diagVars, warpVars, dnsVars, phoneVars, logVars>>
OnlyVpn ==
    /\ acting = "vpn"
    /\ UNCHANGED <<acting, coreVars, boxVars, egressVars, fanVars, extraVars, dialerVars,
                           speedVars, diagVars, warpVars, dnsVars, phoneVars, logVars>>
OnlyDiag ==
    /\ acting = "diag"
    /\ UNCHANGED <<acting, coreVars, boxVars, egressVars, fanVars, extraVars, dialerVars,
                           speedVars, vpnVars, warpVars, dnsVars, phoneVars, logVars>>
OnlyWarp ==
    /\ acting = "warp"
    /\ UNCHANGED <<acting, coreVars, boxVars, egressVars, fanVars, extraVars, dialerVars,
                           speedVars, vpnVars, diagVars, dnsVars, phoneVars, logVars>>
OnlyDns ==
    /\ acting = "dns"
    /\ UNCHANGED <<acting, coreVars, boxVars, egressVars, fanVars, extraVars, dialerVars,
                           speedVars, vpnVars, diagVars, warpVars, phoneVars, logVars>>
OnlyPhone ==
    /\ acting = "phone"
    /\ UNCHANGED <<acting, coreVars, boxVars, egressVars, fanVars, extraVars, dialerVars,
                           speedVars, vpnVars, diagVars, warpVars, dnsVars, logVars>>
OnlyLog ==
    /\ acting = "log"
    /\ UNCHANGED <<acting, coreVars, boxVars, egressVars, fanVars, extraVars, dialerVars,
                           speedVars, vpnVars, diagVars, warpVars, dnsVars, phoneVars>>

Next ==
    \/ OnlyCore /\ Core!Next
    \/ OnlyBox /\ Box!Next
    \/ OnlySending /\ Sending!Next
    \/ OnlyFan /\ Fan!Next
    \/ OnlyExtra /\ Extra!Next
    \/ OnlyDialer /\ Dialer!Next
    \/ OnlySpeed /\ Speed!Next
    \/ OnlyVpn /\ Vpn!Next
    \/ OnlyDiag /\ Diag!Next
    \/ OnlyWarp /\ Warp!Next
    \/ OnlyDns /\ Dns!Next
    \/ OnlyPhone /\ Phone!Next
    \/ OnlyLog /\ Log!Next

Spec == Init /\ [][Next]_vars

\* The main thread, the watcher of the parent and the goroutines of requests
\* run on; a dial ends once its context is cancelled, and the closer is
\* deferred.
Fairness ==
    /\ WF_vars(OnlyCore /\ Core!WatchParent)
    /\ WF_vars(OnlyCore /\ Core!MainStep)
    /\ \A r \in Requests : WF_vars(OnlyCore /\ Core!RequestStep(r))
    /\ WF_vars(OnlyDialer /\ (Dialer!CancelDials \/ Dialer!Close))
    /\ \A d \in Dials : WF_vars(OnlyDialer /\ (Dialer!DialEnds(d) \/ Dialer!ConnCloses(d)))

FairSpec == Spec /\ Fairness

-----------------------------------------------------------------------------
(* Properties, stated in the modules of the components *)

\* Responses share the connection without being torn.
ResponsesWhole == Core!ResponsesWhole
\* Every request is answered, even when its handler panics.
RequestsAnswered == Core!RequestsAnswered
\* Whoever takes connections finds everything behind it up.
TakersFindCarriersUp == Box!TakersFindCarriersUp
\* A failed or closed box leaves nothing open.
NothingOutlivesBox == Box!NothingOutlivesBox
\* Instances send from the default interface after it changed.
EgressFollowsDefault == Sending!EgressFollowsDefault
\* Opening the gates leaves all of them or none.
FanOutSettled == Fan!FanOutSettled
\* The extra process has no privileges.
ChildUnprivileged == Extra!ChildUnprivileged
\* A start that failed and a reaped process leave nothing.
NothingLeftOfProcess == Extra!NothingLeftOfProcess
\* Stop uses no handle that was closed.
HandleNeverReused == Extra!HandleNeverReused
\* Every connection of a probe is closed in the end.
AllConnsClosed == Dialer!AllConnsClosed
\* The progress of speed tests is shown while they run.
ProgressIsLive == Speed!ProgressIsLive
\* A speed test that returned has settled everything.
SpeedTestSettled == Speed!SpeedTestSettled
\* No status change is slept through.
NoLostWakeup == Vpn!NoLostWakeup
\* Profilers stop with their window.
ProfilersStopped == Diag!ProfilersStopped
\* A stop hits the capture that runs.
StopHitsTheCurrent == Diag!StopHitsTheCurrent
\* One call registers one device, the one it returns.
OneUsableDevice == Warp!OneUsableDevice
\* The servers of an interface can be restored.
OriginalRecoverable == Dns!OriginalRecoverable
\* The newest box is protected.
NewestIsProtected == Phone!NewestIsProtected
\* The Xray stack is up around its box.
StackAroundBox == Phone!StackAroundBox
\* A resolver asks its own box.
OwnBoxResolves == Phone!OwnBoxResolves
\* No log line is repeated, reordered or unaccounted for.
LinesAccounted == Log!LinesAccounted
\* No log line waits for a pump that sleeps.
NoLineStranded == Log!NoLineStranded

=============================================================================
