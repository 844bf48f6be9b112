------------------------------ MODULE FullGates ------------------------------
(***************************************************************************)
(* The gates of the full configurations are opened in parallel             *)
(* (startXrayFullGates of internal/rpc/xray.go and mobile/xray.go).  Every *)
(* StartGate moves its inbounds to ports it finds by listening on them     *)
(* (remapInbounds of internal/xray/gate.go) and takes the old ones over;   *)
(* all of them contend for the ports of one host.                          *)
(***************************************************************************)
EXTENDS Naturals, Sequences, FiniteSets, SequencesExt

CONSTANTS
    GateCount,      \* configurations, at least one
    InboundPorts(_),    \* the ports of a configuration's inbounds
    Ephemeral,      \* ports the system deals out
    GateWorkers     \* the CPUs that bound the fan-out

VARIABLES
    fanPC,          \* "idle", "first", "fan", "ok", "error"
    fgPC,           \* where StartGate of each configuration is
    probes,         \* ports held open while the set is chosen
    targets,        \* the ports the inbounds were moved to
    listening       \* the inbound ports a gate has taken over

vars == <<fanPC, fgPC, probes, targets, listening>>

FullConfigs == 1..GateCount
Bound == UNION {probes[g] \cup listening[g] : g \in FullConfigs}
Working == {g \in FullConfigs : fgPC[g] \in {"remap", "listen"}}

Init ==
    /\ fanPC = "idle" /\ fgPC = [g \in FullConfigs |-> "none"]
    /\ probes = [g \in FullConfigs |-> {}] /\ targets = [g \in FullConfigs |-> <<>>]
    /\ listening = [g \in FullConfigs |-> {}]

\* The first configuration alone, then the others through the slots.
startXrayFullGates ==
    /\ fanPC = "idle" /\ fanPC' = "first"
    /\ fgPC' = [fgPC EXCEPT ![1] = "remap"]
    /\ UNCHANGED <<probes, targets, listening>>

FanOut ==
    /\ fanPC = "first" /\ fgPC[1] \in {"up", "failed"}
    /\ fanPC' = IF fgPC[1] = "up" THEN "fan" ELSE "error"
    /\ fgPC' = [g \in FullConfigs |-> IF g # 1 /\ fgPC[1] = "up" THEN "queued" ELSE fgPC[g]]
    /\ UNCHANGED <<probes, targets, listening>>

TakeSlot(g) ==
    /\ fgPC[g] = "queued" /\ Cardinality(Working) < GateWorkers
    /\ fgPC' = [fgPC EXCEPT ![g] = "remap"]
    /\ UNCHANGED <<fanPC, probes, targets, listening>>

\* A free port for the next inbound; it stays bound until all are chosen.
remapInbound(g, port) ==
    /\ fgPC[g] = "remap" /\ Len(targets[g]) < Len(InboundPorts(g))
    /\ port \notin Bound
    /\ probes' = [probes EXCEPT ![g] = @ \cup {port}]
    /\ targets' = [targets EXCEPT ![g] = Append(@, port)]
    /\ UNCHANGED <<fanPC, fgPC, listening>>

\* The probes are released and the new configuration passes its check.
Remapped(g) ==
    /\ fgPC[g] = "remap" /\ Len(targets[g]) = Len(InboundPorts(g))
    /\ fgPC' = [fgPC EXCEPT ![g] = "listen"]
    /\ probes' = [probes EXCEPT ![g] = {}]
    /\ UNCHANGED <<fanPC, targets, listening>>

Listen(g) ==
    LET k == Cardinality(listening[g]) + 1
    IN  /\ fgPC[g] = "listen" /\ InboundPorts(g)[k] \notin Bound
        /\ listening' = [listening EXCEPT ![g] = @ \cup {InboundPorts(g)[k]}]
        /\ fgPC' = [fgPC EXCEPT ![g] = IF k = Len(InboundPorts(g)) THEN "up" ELSE "listen"]
        /\ UNCHANGED <<fanPC, probes, targets>>

\* A configuration that cannot be gated, no free port, a failing check, or an
\* inbound port that is taken, by the probe of another gate for one.
StartGateFails(g) ==
    /\ fgPC[g] \in {"remap", "listen"}
    /\ fgPC' = [fgPC EXCEPT ![g] = "failed"]
    /\ probes' = [probes EXCEPT ![g] = {}] /\ listening' = [listening EXCEPT ![g] = {}]
    /\ UNCHANGED <<fanPC, targets>>

JoinAtFirstError ==
    /\ fanPC = "fan"
    /\ \/ \E g \in FullConfigs : fgPC[g] = "failed"
       \/ \A g \in FullConfigs : fgPC[g] = "up"
    /\ LET failed == \E g \in FullConfigs : fgPC[g] = "failed"
       IN  /\ fanPC' = IF failed THEN "error" ELSE "ok"
           /\ listening' = [g \in FullConfigs |-> IF failed THEN {} ELSE listening[g]]
           /\ fgPC' = [g \in FullConfigs |-> IF failed /\ fgPC[g] = "up" THEN "closed" ELSE fgPC[g]]
    /\ UNCHANGED <<probes, targets>>

\* All goroutines are waited for; one error closes every gate that is open.
Join ==
    /\ fanPC = "fan" /\ \A g \in FullConfigs : fgPC[g] \in {"up", "failed"}
    /\ LET failed == \E g \in FullConfigs : fgPC[g] = "failed"
       IN  /\ fanPC' = IF failed THEN "error" ELSE "ok"
           /\ listening' = [g \in FullConfigs |-> IF failed THEN {} ELSE listening[g]]
           /\ fgPC' = [g \in FullConfigs |-> IF failed /\ fgPC[g] = "up" THEN "closed" ELSE fgPC[g]]
    /\ UNCHANGED <<probes, targets>>

Next ==
    \/ startXrayFullGates \/ FanOut \/ Join
    \/ \E g \in FullConfigs :
        \/ TakeSlot(g) \/ Remapped(g) \/ Listen(g) \/ StartGateFails(g)
        \/ \E port \in Ephemeral : remapInbound(g, port)

-----------------------------------------------------------------------------
(* Properties *)

\* Once the call has returned no goroutine of it opens anything any more: all
\* gates are open and no two inbounds of one configuration were moved to the
\* same port, or an error left no gate and no port bound.
FanOutSettled ==
    /\ fanPC = "ok" => \A g \in FullConfigs :
           /\ fgPC[g] = "up" /\ listening[g] = Range(InboundPorts(g))
           /\ IsInjective(targets[g])
    /\ fanPC = "error" => Bound = {} /\ Working = {}

-----------------------------------------------------------------------------
(* What the proofs carry along *)

FanTypeOK ==
    /\ fanPC \in {"idle", "first", "fan", "ok", "error"}
    /\ fgPC \in [FullConfigs -> {"none", "queued", "remap", "listen", "up", "failed", "closed"}]
    /\ probes \in [FullConfigs -> SUBSET Ephemeral]
    /\ targets \in [FullConfigs -> Seq(Ephemeral)]
    /\ listening \in [FullConfigs -> SUBSET Nat]

\* The ports that were chosen are held open until all are, so none is chosen
\* twice.
ProbesInv == \A g \in FullConfigs :
    /\ fgPC[g] # "remap" => probes[g] = {}
    /\ fgPC[g] \in {"none", "queued"} => targets[g] = <<>>
    /\ fgPC[g] = "remap" => \A k \in DOMAIN targets[g] : targets[g][k] \in probes[g]
    /\ IsInjective(targets[g])

\* A gate listens on the first of its inbound ports, in the end on all.
Listens(g) ==
    /\ fgPC[g] \notin {"listen", "up"} => listening[g] = {}
    /\ fgPC[g] = "listen" =>
          /\ IsFiniteSet(listening[g])
          /\ Cardinality(listening[g]) < Len(InboundPorts(g))
          /\ listening[g] = {InboundPorts(g)[k] : k \in 1..Cardinality(listening[g])}
    /\ fgPC[g] = "up" => listening[g] = Range(InboundPorts(g))

ListenInv == \A g \in FullConfigs : Listens(g)

\* How far the gates are in each phase of the call.
PhaseInv ==
    /\ fanPC \in {"idle", "first"} => \A g \in FullConfigs : g # 1 => fgPC[g] = "none"
    /\ fanPC = "idle" => fgPC[1] = "none"
    /\ fanPC = "ok" => \A g \in FullConfigs : fgPC[g] = "up"
    /\ fanPC = "error" => \A g \in FullConfigs : fgPC[g] \in {"none", "failed", "closed"}

FanInv == FanTypeOK /\ ProbesInv /\ ListenInv /\ PhaseInv

=============================================================================
