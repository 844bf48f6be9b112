------------------------------ MODULE XrayGate ------------------------------
(***************************************************************************)
(* The on-demand gate in front of one Xray instance                        *)
(* (internal/xray/gate.go).  The gate listens on the configured inbound    *)
(* ports for the whole life of the configuration, brings the instance up   *)
(* when the first connection arrives, and a sweeper shuts the instance     *)
(* down once nothing has used it for the idle period.                      *)
(*                                                                         *)
(* Threads: one handler per accepted connection, one sweeper, and the      *)
(* caller of Close.  A step is the code between two points where another   *)
(* thread can see a difference: a lock section, an atomic operation, or a  *)
(* call into Xray or the network.  Gate.mu is held across several steps    *)
(* only by ensure(), so mu is the handler that holds it; the short         *)
(* sections of Close and sweep are single steps that need it free.         *)
(***************************************************************************)
EXTENDS Integers, FiniteSets

CONSTANTS
    Handlers,   \* connections the listeners may accept (bound: one each)
    Bridges,    \* inbounds of the configuration, one listener each
    Insts,      \* identities of Xray instances (bound on CreateXrayInstance)
    Idles,      \* idle periods to consider: "zero", "positive" or both
    None        \* nil

ASSUME GateAssumption ==
    /\ None \notin Handlers \cup Insts
    /\ Idles \subseteq {"zero", "positive"}
    /\ IsFiniteSet(Handlers)

VARIABLES
    idle,       \* Gate.idle, fixed by StartGate
    phase,      \* StartGate: "listening", then "running" or "failed"
    listener,   \* bridges[b].listener
    mu,         \* the handler inside ensure(), or None
    instance,   \* Gate.instance
    closed,     \* Gate.closed
    stopped,    \* Gate.stopped is closed
    life,       \* what became of each instance
    building,   \* the local variable "instance" of ensure()
    pc,         \* where each handler is
    relays,     \* relay goroutines of each handler still copying
    conns,      \* Gate.conns
    connsNil,   \* Gate.conns = nil
    open,       \* sockets not yet closed by this process
    active,     \* Gate.active
    lastUse,    \* Gate.lastUse: "stale" once time.Since(lastUse) >= idle
    sweeper,    \* where the sweeper is
    swept,      \* the local variable "instance" of sweep()
    closer,     \* where the caller of Close is
    doomed,     \* the local variable "instance" of Close
    doomedConns \* the local variable "conns" of Close

gateVars    == <<instance, closed, mu, life, building>>
connVars    == <<conns, connsNil, open>>
useVars     == <<active, lastUse>>
sweepVars   == <<sweeper, swept>>
closeVars   == <<closer, stopped, doomed, doomedConns>>
listenVars  == <<idle, phase, listener>>
handlerVars == <<pc, relays>>

vars == <<idle, phase, listener, mu, instance, closed, stopped, life,
          building, pc, relays, conns, connsNil, open, active, lastUse, sweeper, swept,
          closer, doomed, doomedConns>>

-----------------------------------------------------------------------------
(* Values *)

Conn(h)     == <<h, "conn">>
Upstream(h) == <<h, "upstream">>
Sockets     == Handlers \X {"conn", "upstream"}

\* "built" is a created instance that has not started, "up" a started one.
Lives == {"none", "built", "up", "closed"}

\* Program counters of handle() with ensure() inlined ("ensure" .. "prepared").
HandlerPCs == {"none", "accepted", "tracked", "counted", "ensure", "built",
               "prepared", "dial", "dialed", "relay", "uncount", "untouch",
               "untrack", "done"}

\* Between active.Add(1) and active.Add(-1).
CountedPCs == {"counted", "ensure", "built", "prepared", "dial", "dialed",
               "relay", "uncount"}

SweeperPCs == {"wait", "counted", "ready", "closing", "exited"}
CloserPCs  == {"idle", "stop", "listeners", "drain", "done"}

InstOrNone == Insts \cup {None}

-----------------------------------------------------------------------------
(* StartGate: take over every inbound port, or none. *)

Init ==
    /\ idle \in Idles
    /\ phase = "listening"
    /\ listener = [b \in Bridges |-> "none"]
    /\ mu = None
    /\ instance = None
    /\ closed = FALSE
    /\ stopped = FALSE
    /\ life = [i \in Insts |-> "none"]
    /\ building = None
    /\ pc = [h \in Handlers |-> "none"]
    /\ relays = [h \in Handlers |-> 0]
    /\ conns = {}
    /\ connsNil = FALSE
    /\ open = {}
    /\ active = 0
    /\ lastUse = "recent"
    /\ sweeper = "wait"
    /\ swept = None
    /\ closer = "idle"
    /\ doomed = None
    /\ doomedConns = {}

Listen(b) ==
    /\ phase = "listening"
    /\ listener[b] = "none"
    /\ listener' = [listener EXCEPT ![b] = "open"]
    /\ UNCHANGED <<idle, phase, gateVars, connVars, useVars, sweepVars,
                   closeVars, handlerVars>>

\* net.Listen failed on a port: the listeners opened so far are closed.
ListenFail ==
    /\ phase = "listening"
    /\ \E b \in Bridges : listener[b] = "none"
    /\ phase' = "failed"
    /\ listener' = [b \in Bridges |->
                       IF listener[b] = "open" THEN "closed" ELSE listener[b]]
    /\ UNCHANGED <<idle, gateVars, connVars, useVars, sweepVars, closeVars,
                   handlerVars>>

\* Every port is taken: the serve and sweep goroutines start.
StartGate ==
    /\ phase = "listening"
    /\ \A b \in Bridges : listener[b] = "open"
    /\ phase' = "running"
    /\ UNCHANGED <<idle, listener, gateVars, connVars, useVars, sweepVars,
                   closeVars, handlerVars>>

-----------------------------------------------------------------------------
(* handle(): one connection, from Accept to its deferred cleanups. *)

Goto(h, from, to) ==
    /\ pc[h] = from
    /\ pc' = [pc EXCEPT ![h] = to]

\* serve(): Accept returned a connection and its handler is spawned.
Serve(h) ==
    /\ phase = "running"
    /\ \E b \in Bridges : listener[b] = "open"
    /\ Goto(h, "none", "accepted")
    /\ open' = open \cup {Conn(h)}
    /\ UNCHANGED <<listenVars, gateVars, conns, connsNil, useVars, sweepVars,
                   closeVars, relays>>

\* track(conn): a nil map means the gate is closed, and the handler gives up.
Track(h) ==
    /\ IF connsNil
       THEN /\ Goto(h, "accepted", "done")
            /\ open' = open \ {Conn(h)}
            /\ UNCHANGED conns
       ELSE /\ Goto(h, "accepted", "tracked")
            /\ conns' = conns \cup {Conn(h)}
            /\ UNCHANGED open
    /\ UNCHANGED <<listenVars, gateVars, connsNil, useVars, sweepVars,
                   closeVars, relays>>

\* g.active.Add(1)
Count(h) ==
    /\ Goto(h, "tracked", "counted")
    /\ active' = active + 1
    /\ UNCHANGED <<listenVars, gateVars, connVars, lastUse, sweepVars,
                   closeVars, relays>>

\* g.touch()
Touch(h) ==
    /\ Goto(h, "counted", "ensure")
    /\ lastUse' = "recent"
    /\ UNCHANGED <<listenVars, gateVars, connVars, active, sweepVars,
                   closeVars, relays>>

\* ensure(): the gate is closed, or CreateXrayInstance fails.
EnsureRefused(h) ==
    /\ mu = None
    /\ closed \/ instance = None
    /\ Goto(h, "ensure", "uncount")
    /\ UNCHANGED <<listenVars, gateVars, connVars, useVars, sweepVars,
                   closeVars, relays>>

\* ensure(): the instance is already up.
EnsureWarm(h) ==
    /\ mu = None
    /\ ~closed
    /\ instance # None
    /\ Goto(h, "ensure", "dial")
    /\ UNCHANGED <<listenVars, gateVars, connVars, useVars, sweepVars,
                   closeVars, relays>>

EnsureCreateClosed(h) ==
    /\ mu = None
    /\ instance = None
    /\ Goto(h, "ensure", "built")
    /\ mu' = h
    /\ \E i \in Insts :
          /\ life[i] = "none"
          /\ life' = [life EXCEPT ![i] = "built"]
          /\ building' = i
    /\ UNCHANGED <<listenVars, instance, closed, connVars, useVars, sweepVars,
                   closeVars, relays>>

\* ensure(): cold, CreateXrayInstance succeeds; mu stays locked.
EnsureCreate(h) ==
    /\ mu = None
    /\ ~closed
    /\ instance = None
    /\ Goto(h, "ensure", "built")
    /\ mu' = h
    /\ \E i \in Insts :
          /\ life[i] = "none"
          /\ life' = [life EXCEPT ![i] = "built"]
          /\ building' = i
    /\ UNCHANGED <<listenVars, instance, closed, connVars, useVars, sweepVars,
                   closeVars, relays>>

\* ensure(): g.prepare(instance)
EnsurePrepare(h) ==
    /\ Goto(h, "built", "prepared")
    /\ UNCHANGED <<listenVars, gateVars, connVars, useVars, sweepVars,
                   closeVars, relays>>

\* ensure(): instance.Start() succeeds and the instance is published.
EnsureStart(h) ==
    /\ Goto(h, "prepared", "dial")
    /\ life' = [life EXCEPT ![building] = "up"]
    /\ instance' = building
    /\ building' = None
    /\ mu' = None
    /\ UNCHANGED <<listenVars, closed, connVars, useVars, sweepVars,
                   closeVars, relays>>

EnsureFailLeaky(h) ==
    /\ pc[h] \in {"built", "prepared"}
    /\ pc' = [pc EXCEPT ![h] = "uncount"]
    /\ building' = None
    /\ mu' = None
    /\ UNCHANGED <<listenVars, life, instance, closed, connVars, useVars,
                   sweepVars, closeVars, relays>>

EnsureFailLocked(h) ==
    /\ pc[h] \in {"built", "prepared"}
    /\ pc' = [pc EXCEPT ![h] = "uncount"]
    /\ life' = [life EXCEPT ![building] = "closed"]
    /\ building' = None
    /\ UNCHANGED <<listenVars, mu, instance, closed, connVars, useVars,
                   sweepVars, closeVars, relays>>

\* ensure(): prepare or Start failed, and the new instance is closed.
EnsureFail(h) ==
    /\ pc[h] \in {"built", "prepared"}
    /\ pc' = [pc EXCEPT ![h] = "uncount"]
    /\ life' = [life EXCEPT ![building] = "closed"]
    /\ building' = None
    /\ mu' = None
    /\ UNCHANGED <<listenVars, instance, closed, connVars, useVars, sweepVars,
                   closeVars, relays>>

\* net.Dial(target) reaches a port only a started instance listens on.
Dial(h) ==
    /\ \E i \in Insts : life[i] = "up"
    /\ Goto(h, "dial", "dialed")
    /\ open' = open \cup {Upstream(h)}
    /\ UNCHANGED <<listenVars, gateVars, conns, connsNil, useVars, sweepVars,
                   closeVars, relays>>

DialFail(h) ==
    /\ Goto(h, "dial", "uncount")
    /\ UNCHANGED <<listenVars, gateVars, connVars, useVars, sweepVars,
                   closeVars, relays>>

\* track(upstream), and the two relays start.
TrackUpstream(h) ==
    /\ IF connsNil
       THEN /\ Goto(h, "dialed", "uncount")
            /\ open' = open \ {Upstream(h)}
            /\ UNCHANGED <<conns, relays>>
       ELSE /\ Goto(h, "dialed", "relay")
            /\ conns' = conns \cup {Upstream(h)}
            /\ relays' = [relays EXCEPT ![h] = 2]
            /\ UNCHANGED open
    /\ UNCHANGED <<listenVars, gateVars, connsNil, useVars, sweepVars, closeVars>>

\* One io.Copy returned: the peers ended it, or a socket was closed under it.
RelayEnd(h) ==
    /\ pc[h] = "relay"
    /\ relays[h] > 0
    /\ relays' = [relays EXCEPT ![h] = @ - 1]
    /\ UNCHANGED <<listenVars, gateVars, connVars, useVars, sweepVars,
                   closeVars, pc>>

\* Both relays are done: forget(upstream) and its Close.
ForgetUpstream(h) ==
    /\ relays[h] = 0
    /\ Goto(h, "relay", "uncount")
    /\ conns' = conns \ {Upstream(h)}
    /\ open' = open \ {Upstream(h)}
    /\ UNCHANGED <<listenVars, gateVars, connsNil, useVars, sweepVars,
                   closeVars, relays>>

UncountSkipped(h) ==
    /\ Goto(h, "uncount", "untouch")
    /\ UNCHANGED <<listenVars, gateVars, connVars, useVars, sweepVars,
                   closeVars, relays>>

\* Deferred g.active.Add(-1)
Uncount(h) ==
    /\ Goto(h, "uncount", "untouch")
    /\ active' = active - 1
    /\ UNCHANGED <<listenVars, gateVars, connVars, lastUse, sweepVars,
                   closeVars, relays>>

\* Deferred g.touch()
Untouch(h) ==
    /\ Goto(h, "untouch", "untrack")
    /\ lastUse' = "recent"
    /\ UNCHANGED <<listenVars, gateVars, connVars, active, sweepVars,
                   closeVars, relays>>

\* Deferred forget(conn) and its Close.
ForgetConn(h) ==
    /\ Goto(h, "untrack", "done")
    /\ conns' = conns \ {Conn(h)}
    /\ open' = open \ {Conn(h)}
    /\ UNCHANGED <<listenVars, gateVars, connsNil, useVars, sweepVars,
                   closeVars, relays>>

-----------------------------------------------------------------------------
(* sweep(): a tick that goes on past its early "continue"s. *)

\* The idle period has passed since the last touch().
IdlePasses ==
    /\ phase = "running"
    /\ lastUse = "recent"
    /\ lastUse' = "stale"
    /\ UNCHANGED <<listenVars, gateVars, connVars, active, sweepVars,
                   closeVars, handlerVars>>

\* g.idle > 0 and g.active.Load() is not positive.
SweepReadActive ==
    /\ phase = "running"
    /\ sweeper = "wait"
    /\ idle = "positive"
    /\ active <= 0
    /\ sweeper' = "counted"
    /\ UNCHANGED <<listenVars, gateVars, connVars, useVars, swept, closeVars,
                   handlerVars>>

\* g.lastUse.Load() decides whether this tick goes on.
SweepReadLastUse ==
    /\ sweeper = "counted"
    /\ sweeper' = IF lastUse = "stale" THEN "ready" ELSE "wait"
    /\ UNCHANGED <<listenVars, gateVars, connVars, useVars, swept, closeVars,
                   handlerVars>>

\* The section under mu: take the instance, without looking at active again.
SweepTake ==
    /\ sweeper = "ready"
    /\ mu = None
    /\ swept' = instance
    /\ instance' = None
    /\ sweeper' = IF instance = None THEN "wait" ELSE "closing"
    /\ UNCHANGED <<listenVars, closed, mu, life, building, connVars, useVars,
                   closeVars, handlerVars>>

\* instance.Close(), outside mu.
SweepClose ==
    /\ sweeper = "closing"
    /\ life' = [life EXCEPT ![swept] = "closed"]
    /\ swept' = None
    /\ sweeper' = "wait"
    /\ UNCHANGED <<listenVars, instance, closed, mu, building, connVars,
                   useVars, closeVars, handlerVars>>

\* select saw g.stopped; it may still have picked a tick before that.
SweepExit ==
    /\ phase = "running"
    /\ sweeper = "wait"
    /\ stopped
    /\ sweeper' = "exited"
    /\ UNCHANGED <<listenVars, gateVars, connVars, useVars, swept, closeVars,
                   handlerVars>>

-----------------------------------------------------------------------------
(* Close().  A second call returns at g.closed and changes nothing. *)

CloseBegin ==
    /\ phase = "running"
    /\ closer = "idle"
    /\ mu = None
    /\ closed' = TRUE
    /\ doomed' = instance
    /\ instance' = None
    /\ closer' = "stop"
    /\ UNCHANGED <<listenVars, mu, life, building, connVars, useVars,
                   sweepVars, stopped, doomedConns, handlerVars>>

CloseForgettingStopped ==
    /\ closer = "stop"
    /\ closer' = "listeners"
    /\ UNCHANGED <<listenVars, gateVars, connVars, useVars, sweepVars, stopped,
                   doomed, doomedConns, handlerVars>>

\* close(g.stopped)
CloseStopped ==
    /\ closer = "stop"
    /\ stopped' = TRUE
    /\ closer' = "listeners"
    /\ UNCHANGED <<listenVars, gateVars, connVars, useVars, sweepVars, doomed,
                   doomedConns, handlerVars>>

CloseListener(b) ==
    /\ closer = "listeners"
    /\ listener[b] = "open"
    /\ listener' = [listener EXCEPT ![b] = "closed"]
    /\ UNCHANGED <<idle, phase, gateVars, connVars, useVars, sweepVars,
                   closeVars, handlerVars>>

\* The section under connsMu: take the map and leave nil behind.
CloseConns ==
    /\ closer = "listeners"
    /\ \A b \in Bridges : listener[b] # "open"
    /\ doomedConns' = conns
    /\ conns' = {}
    /\ connsNil' = TRUE
    /\ closer' = "drain"
    /\ UNCHANGED <<listenVars, gateVars, open, useVars, sweepVars, stopped,
                   doomed, handlerVars>>

\* conn.Close() for each connection taken.
CloseConn(s) ==
    /\ closer = "drain"
    /\ s \in doomedConns
    /\ open' = open \ {s}
    /\ doomedConns' = doomedConns \ {s}
    /\ UNCHANGED <<listenVars, gateVars, conns, connsNil, useVars, sweepVars,
                   stopped, closer, doomed, handlerVars>>

\* Last: instance.Close(), if there was one.
CloseInstance ==
    /\ closer = "drain"
    /\ doomedConns = {}
    /\ life' = IF doomed = None THEN life
               ELSE [life EXCEPT ![doomed] = "closed"]
    /\ doomed' = None
    /\ closer' = "done"
    /\ UNCHANGED <<listenVars, instance, closed, mu, building, connVars,
                   useVars, sweepVars, stopped, doomedConns, handlerVars>>

-----------------------------------------------------------------------------
(* Specification *)

Handle(h) ==
    \/ Track(h)
    \/ Count(h)
    \/ Touch(h)
    \/ EnsureRefused(h)
    \/ EnsureWarm(h)
    \/ EnsureCreate(h)
    \/ EnsurePrepare(h)
    \/ EnsureStart(h)
    \/ EnsureFail(h)
    \/ Dial(h)
    \/ DialFail(h)
    \/ TrackUpstream(h)
    \/ ForgetUpstream(h)
    \/ Uncount(h)
    \/ Untouch(h)
    \/ ForgetConn(h)

Sweep ==
    \/ SweepReadActive
    \/ SweepReadLastUse
    \/ SweepTake
    \/ SweepClose

Close ==
    \/ CloseStopped
    \/ \E b \in Bridges : CloseListener(b)
    \/ CloseConns
    \/ \E s \in doomedConns : CloseConn(s)
    \/ CloseInstance

Next ==
    \/ \E b \in Bridges : Listen(b)
    \/ ListenFail
    \/ StartGate
    \/ \E h \in Handlers : Serve(h) \/ Handle(h) \/ RelayEnd(h)
    \/ IdlePasses
    \/ Sweep
    \/ SweepExit
    \/ CloseBegin
    \/ Close

\* An io.Copy ends by itself only when both of its sockets are closed.
RelayCut(h) ==
    /\ {Conn(h), Upstream(h)} \cap open = {}
    /\ RelayEnd(h)

(***************************************************************************)
(* Runnable goroutines run.  Clients need not connect, peers need not end  *)
(* a relay, and nobody need call Close.  Go's select picks at random       *)
(* between a tick and the stopped channel, so the exit is only strongly    *)
(* fair.                                                                   *)
(***************************************************************************)
Fairness ==
    /\ \A h \in Handlers : WF_vars(Handle(h)) /\ WF_vars(RelayCut(h))
    /\ WF_vars(IdlePasses)
    /\ WF_vars(Sweep)
    /\ SF_vars(SweepExit)
    /\ WF_vars(Close)

Spec == Init /\ [][Next]_vars

FairSpec == Spec /\ Fairness

-----------------------------------------------------------------------------
(* Properties *)

TypeOK ==
    /\ idle \in {"zero", "positive"}
    /\ phase \in {"listening", "running", "failed"}
    /\ listener \in [Bridges -> {"none", "open", "closed"}]
    /\ mu \in Handlers \cup {None}
    /\ instance \in InstOrNone
    /\ closed \in BOOLEAN
    /\ stopped \in BOOLEAN
    /\ life \in [Insts -> Lives]
    /\ building \in InstOrNone
    /\ pc \in [Handlers -> HandlerPCs]
    /\ relays \in [Handlers -> 0..2]
    /\ conns \in SUBSET Sockets
    /\ connsNil \in BOOLEAN
    /\ open \in SUBSET Sockets
    /\ active \in Int
    /\ lastUse \in {"recent", "stale"}
    /\ sweeper \in SweeperPCs
    /\ swept \in InstOrNone
    /\ closer \in CloserPCs
    /\ doomed \in InstOrNone
    /\ doomedConns \in SUBSET Sockets

\* Every running instance has exactly one owner that will close it: the gate
\* itself, the ensure() that is building it, the sweeper, or Close.  Nothing
\* starts an instance and loses it, on any error path or interleaving.
InstanceOwned ==
    \A i \in Insts : life[i] \in {"built", "up"} =>
        \/ instance = i /\ building # i /\ swept # i /\ doomed # i
        \/ building = i /\ instance # i /\ swept # i /\ doomed # i
        \/ swept = i /\ instance # i /\ building # i /\ doomed # i
        \/ doomed = i /\ instance # i /\ building # i /\ swept # i

\* Instance() only ever hands out a started instance that nobody is closing:
\* ensure publishes after Start, sweep and Close unpublish before closing.
PublishedIsUp ==
    instance # None => life[instance] = "up"

\* Once Close has returned nothing runs behind the gate and nothing will: the
\* only instance that can still be up is one the sweeper took and is closing.
ClosedGateRunsNothing ==
    closer = "done" =>
        /\ instance = None
        /\ mu = None
        /\ \A i \in Insts : life[i] \in {"built", "up"} => swept = i

\* Once Close has returned, the gate's socket set stays empty and every
\* relaying handler has had both of its sockets closed under it.
ClosedGateCutsRelays ==
    closer = "done" =>
        /\ conns = {}
        /\ \A h \in Handlers :
              pc[h] = "relay" => {Conn(h), Upstream(h)} \cap open = {}

\* idle 0 keeps the instance resident: only Close takes it away.
ResidentStaysUp ==
    [][idle = "zero" /\ instance # None /\ ~closed'
            => instance' = instance]_vars

\* gate.go:214 "Counted before the instance is up, or the sweeper could call
\* the gate idle mid-setup": the sweeper takes the instance only from a gate
\* that no counted handler uses.
SweptOnlyWhenUnused ==
    [][instance # None /\ instance' = None /\ ~closed' => active = 0]_vars

\* The instance's lock is never held for good: a connection that was accepted
\* either reaches its relay or ends.
AcceptedIsServed ==
    \A h \in Handlers : pc[h] = "accepted" ~> pc[h] \in {"relay", "done"}

\* Close returns once called, and everything behind the gate ends with it: the
\* sweeper goroutine and every handler, whatever it was doing or waiting for.
CloseCompletes ==
    closed ~> /\ closer = "done" /\ sweeper = "exited"
              /\ \A h \in Handlers : pc[h] \in {"none", "done"}

\* The instance of a gate that no connection uses any more is shut down.
IdleInstanceGoesDown ==
    (idle = "positive" /\ <>[](\A h \in Handlers : pc[h] \notin CountedPCs))
        => []<>(instance = None)

-----------------------------------------------------------------------------
(***************************************************************************)
(* The inductive invariant behind the safety properties: who owns an       *)
(* instance at each program counter, and which sockets Close can reach.    *)
(***************************************************************************)

\* ensure() builds under mu, and only what it holds is built.
BuildInv ==
    /\ \A h \in Handlers : pc[h] \in {"built", "prepared"} <=> mu = h
    /\ mu = None <=> building = None
    /\ mu # None => instance = None
    /\ \A i \in Insts : life[i] = "built" <=> building = i

\* A started instance is in exactly one of the three hands that hold one.
OwnerInv ==
    /\ \A i \in Insts : life[i] = "up" <=> i \in {instance, swept, doomed}
    /\ instance # None => instance # swept /\ instance # doomed
    /\ swept # None => swept # doomed
    /\ swept # None <=> sweeper = "closing"

\* closed is set under mu, so nothing builds or publishes after it.
ClosedInv ==
    /\ closed <=> closer # "idle"
    /\ closed => instance = None /\ mu = None
    /\ closer \in {"idle", "done"} => doomed = None

\* A socket of a handler is known to the gate, in Close's hands, or closed.
SocketInv ==
    /\ connsNil <=> closer \in {"drain", "done"}
    /\ connsNil => conns = {}
    /\ closer # "drain" => doomedConns = {}
    /\ \A h \in Handlers :
          /\ pc[h] \in {"tracked", "counted", "ensure", "built", "prepared",
                        "dial", "dialed", "relay"}
                => Conn(h) \in conns \cup doomedConns \/ Conn(h) \notin open
          /\ pc[h] = "relay"
                => Upstream(h) \in conns \cup doomedConns
                   \/ Upstream(h) \notin open

\* With an idle period of 0 no tick gets past its first condition.
IdleInv == idle = "zero" => sweeper \in {"wait", "exited"}

\* The five together, and the types: preserved by every step of the gate.
IInv ==
    /\ TypeOK
    /\ BuildInv
    /\ OwnerInv
    /\ ClosedInv
    /\ SocketInv
    /\ IdleInv

\* Before the gate runs there is nothing for Close, handlers or a sweep to do.
StageInv ==
    phase # "running" =>
        /\ closer = "idle" /\ sweeper = "wait"
        /\ \A h \in Handlers : pc[h] = "none"

\* Gate.active is the number of handlers between their two additions, on every
\* return path of handle.
ActiveCounts == active = Cardinality({h \in Handlers : pc[h] \in CountedPCs})

-----------------------------------------------------------------------------
(***************************************************************************)
(* The gate implements GateService.                                        *)
(***************************************************************************)
gateStage ==
    IF phase = "listening" THEN "opening"
    ELSE IF phase = "failed" THEN "refused"
    ELSE IF closer = "idle" THEN "open"
    ELSE IF closer = "done" THEN "closed"
    ELSE "closing"

Ideal == INSTANCE GateService WITH
    Nil     <- None,
    stage   <- gateStage,
    current <- instance,
    retired <- swept,
    ending  <- doomed,
    used    <- {i \in Insts : life[i] # "none"}

\* Whatever connections, sweeps and Close do at the same time, the gate is the
\* one owner of instances that xray.go takes it for.
ImplementsGateService == Ideal!Spec

=============================================================================
