------------------------------- MODULE Egress -------------------------------
(***************************************************************************)
(* The interface Xray instances send from (internal/rpc/egress.go): every  *)
(* instance takes the default one when it is prepared, and the callback of *)
(* the interface monitor moves the ones it finds through the slots of      *)
(* state.go.  Start publishes the sidecar and the full gates there after   *)
(* they serve, closeXray clears them before it closes, and instances come  *)
(* and go behind the gates meanwhile.                                      *)
(***************************************************************************)
EXTENDS FiniteSets

CONSTANTS
    Gates,          \* the gates of the full configs
    Links           \* interfaces that can be the default one

VARIABLES
    link,           \* the default interface
    moving,         \* whether the monitor owes a callback or is in one
    readSlots,      \* whether it has read the slots
    toAsk, alive,   \* gates it found there and not asked yet, instances found
    egPhase,        \* what Start or Stop is doing to the sidecars
    lazy,           \* whether the sidecar of the profile is behind a gate
    opened,         \* gates that serve, and the eager instance once it exists
    slots,          \* what xrayInstance, xrayGate and xrayFullGates hold
    inst,           \* of each owner: "none", "prepared", "live"
    egress,         \* the interface of each instance
    missed          \* instances the last callback could not find in the slots

vars == <<link, moving, readSlots, toAsk, alive, egPhase, lazy, opened, slots, inst, egress,
          missed>>

Sidecar == "sidecar"
Owners == Gates \cup {Sidecar}
Gated(o) == o \in Gates \/ lazy
FirstLink == CHOOSE l \in Links : TRUE

Init ==
    /\ link = FirstLink /\ moving = FALSE /\ readSlots = FALSE /\ toAsk = {} /\ alive = {}
    /\ egPhase = "none" /\ lazy = FALSE /\ opened = {} /\ slots = {}
    /\ inst = [o \in Owners |-> "none"] /\ egress = [o \in Owners |-> FirstLink] /\ missed = {}

callback == <<link, moving, readSlots, toAsk, alive>>
lifecycle == <<egPhase, lazy, opened, slots>>

\* The monitor has the new interface before it calls back, and calls back in turn.
LinkChanges(l) ==
    /\ l # link /\ ~moving
    /\ link' = l /\ moving' = TRUE /\ readSlots' = FALSE
    /\ UNCHANGED <<toAsk, alive, lifecycle, inst, egress, missed>>

-----------------------------------------------------------------------------
(* Instances, each with its interface from xrayPreparer *)

Take(o) ==
    /\ inst[o] = "none"
    /\ inst' = [inst EXCEPT ![o] = "prepared"]
    /\ egress' = [egress EXCEPT ![o] = link]
    /\ missed' = missed \ {o}

\* Gate.ensure: mu is held from here until the instance is the gate's.
Prepare(o) ==
    /\ o \in opened /\ Gated(o) /\ Take(o)
    /\ UNCHANGED <<callback, lifecycle>>

\* It starts, or fails and is closed.
Ensured(o) ==
    /\ Gated(o) /\ inst[o] = "prepared"
    /\ \E to \in {"live", "none"} : inst' = [inst EXCEPT ![o] = to]
    /\ UNCHANGED <<callback, lifecycle, egress, missed>>

Swept(o) ==
    /\ Gated(o) /\ inst[o] = "live"
    /\ inst' = [inst EXCEPT ![o] = "none"]
    /\ UNCHANGED <<callback, lifecycle, egress, missed>>

-----------------------------------------------------------------------------
(* Start and the closing of the sidecars, under lifecycleMu *)

\* A profile with a sidecar, behind a gate or not, or without one.
StartXray(need, cold) ==
    /\ egPhase = "none"
    /\ egPhase' = IF need THEN "sidecar" ELSE "full"
    /\ lazy' = (need /\ cold)
    /\ UNCHANGED <<callback, opened, slots, inst, egress, missed>>

\* StartGate of the sidecar, and of every full config.
OpenGate(o) ==
    /\ Gated(o) /\ egPhase = (IF o = Sidecar THEN "sidecar" ELSE "full")
    /\ opened' = opened \cup {o}
    /\ UNCHANGED <<callback, egPhase, lazy, slots, inst, egress, missed>>

PrepareEager ==
    /\ egPhase = "sidecar" /\ ~lazy /\ Take(Sidecar)
    /\ opened' = opened \cup {Sidecar}
    /\ UNCHANGED <<callback, egPhase, lazy, slots>>

setXray ==
    /\ egPhase = "sidecar"
    /\ IF lazy THEN Sidecar \in opened ELSE inst[Sidecar] = "prepared"
    /\ inst' = IF lazy THEN inst ELSE [inst EXCEPT ![Sidecar] = "live"]
    /\ slots' = {Sidecar} /\ egPhase' = "full"
    /\ UNCHANGED <<callback, lazy, opened, egress, missed>>

\* The sidecar does not start: nothing has been published.
SidecarFails ==
    /\ egPhase = "sidecar" /\ (lazy => Sidecar \notin opened)
    /\ inst' = [inst EXCEPT ![Sidecar] = "none"] /\ opened' = {} /\ egPhase' = "none"
    /\ missed' = missed \ {Sidecar}
    /\ UNCHANGED <<callback, lazy, slots, egress>>

\* All of them at once, after the last one serves; there may be none.
setXrayFullGates ==
    /\ egPhase = "full" /\ opened \cap Gates \in {{}, Gates}
    /\ slots' = slots \cup (opened \cap Gates) /\ egPhase' = "up"
    /\ UNCHANGED <<callback, lazy, opened, inst, egress, missed>>

\* One of them does not open, and startXrayFullGates closes those that did.
FullGatesFail ==
    /\ egPhase = "full" /\ Gates \ opened # {}
    /\ egPhase' = "unwind"
    /\ UNCHANGED <<callback, lazy, opened, slots, inst, egress, missed>>

\* The slots are cleared first.
closeXray ==
    /\ \/ egPhase = "up"
       \/ egPhase = "unwind" /\ opened \cap Gates = {}
    /\ slots' = {} /\ egPhase' = "closing"
    /\ UNCHANGED <<callback, lazy, opened, inst, egress, missed>>

\* Then the gate, the full gates and the eager instance are closed in turn.  A
\* gate waits for its mu, and answers nil from then on.
CloseOne(o) ==
    /\ \/ egPhase = "unwind" /\ o \in Gates
       \/ egPhase = "closing" /\ IF lazy THEN o = Sidecar \/ Sidecar \notin opened
                                         ELSE o \in Gates \/ opened = {Sidecar}
    /\ o \in opened /\ opened' = opened \ {o}
    /\ inst[o] # "prepared" /\ inst' = [inst EXCEPT ![o] = "none"]
    /\ toAsk' = toAsk \ {o} /\ alive' = alive \ {o} /\ missed' = missed \ {o}
    /\ UNCHANGED <<link, moving, readSlots, egPhase, lazy, slots, egress>>

XrayClosed ==
    /\ egPhase = "closing" /\ opened = {}
    /\ egPhase' = "none"
    /\ UNCHANGED <<callback, lazy, opened, slots, inst, egress, missed>>

-----------------------------------------------------------------------------
(* The callback *)

\* liveXrayInstances reads all slots under one lock.
ReadSlots ==
    /\ moving /\ ~readSlots /\ readSlots' = TRUE
    /\ toAsk' = {o \in slots : Gated(o)} /\ alive' = {o \in slots : ~Gated(o)}
    /\ missed' = {o \in Owners : inst[o] # "none" /\ o \notin slots}
    /\ UNCHANGED <<link, moving, lifecycle, inst, egress>>

InstanceUnlocked(o) ==
    /\ o \in toAsk /\ toAsk' = toAsk \ {o}
    /\ alive' = IF inst[o] = "live" THEN alive \cup {o} ELSE alive
    /\ UNCHANGED <<link, moving, readSlots, lifecycle, inst, egress, missed>>

\* Then every gate, which waits for an ensure that is under way.
Instance(o) ==
    /\ o \in toAsk /\ toAsk' = toAsk \ {o}
    /\ inst[o] # "prepared"
    /\ alive' = IF inst[o] = "live" THEN alive \cup {o} ELSE alive
    /\ UNCHANGED <<link, moving, readSlots, lifecycle, inst, egress, missed>>

\* An instance that was closed meanwhile does not care.
SetEgress(o) ==
    /\ moving /\ readSlots /\ toAsk = {} /\ o \in alive
    /\ alive' = alive \ {o}
    /\ egress' = [egress EXCEPT ![o] = link]
    /\ UNCHANGED <<link, moving, readSlots, toAsk, lifecycle, inst, missed>>

CallbackReturns ==
    /\ moving /\ readSlots /\ toAsk = {} /\ alive = {}
    /\ moving' = FALSE
    /\ UNCHANGED <<link, readSlots, toAsk, alive, lifecycle, inst, egress, missed>>

Next ==
    \/ \E l \in Links : LinkChanges(l)
    \/ \E o \in Owners : \/ Prepare(o) \/ Ensured(o) \/ Swept(o)
                         \/ OpenGate(o) \/ CloseOne(o) \/ Instance(o) \/ SetEgress(o)
    \/ \E need, cold \in BOOLEAN : StartXray(need, cold)
    \/ PrepareEager \/ setXray \/ SidecarFails \/ setXrayFullGates \/ FullGatesFail
    \/ closeXray \/ XrayClosed
    \/ ReadSlots \/ CallbackReturns

-----------------------------------------------------------------------------
(* Properties *)

\* When the callback of an interface change is over, every instance sends from
\* the new interface, one that was being set up behind its gate when the change
\* came included.  Left out are the instances whose owner was in no slot when
\* the callback read them: not yet published by Start, or already unpublished
\* by closeXray.
EgressFollowsDefault ==
    ~moving => \A o \in Owners \ missed : inst[o] # "none" => egress[o] = link

-----------------------------------------------------------------------------
(* What the proofs carry along *)

\* An instance that sends from another interface than the default one is one
\* the callback did not find, has still to ask for, or has still to move.
EgressInv ==
    /\ link \in Links
    /\ toAsk \subseteq Owners /\ alive \subseteq Owners /\ slots \subseteq Owners
    /\ ~moving => toAsk = {} /\ alive = {}
    /\ inst = [o \in Owners |-> inst[o]] /\ egress = [o \in Owners |-> egress[o]]
    /\ \A o \in Owners : inst[o] \in {"none", "prepared", "live"}
    /\ \A o \in Owners \ missed : inst[o] # "none" /\ egress[o] # link =>
          moving /\ (~readSlots \/ o \in toAsk \cup alive)

=============================================================================
