---------------------------- MODULE ProbeDialer ----------------------------
(***************************************************************************)
(* The dialer that remembers the connections of a probe                    *)
(* (internal/probe/probe.go).  The HTTP transport dials from goroutines of *)
(* its own, which the end of the probe does not wait for, so the closer    *)
(* can run before, during and after any of them.                           *)
(***************************************************************************)
EXTENDS Integers

CONSTANT Dials  \* calls of DialContext; a successful one opens one connection

VARIABLES
    dialCtx,    \* "live", "cancelled": the context the dials carry
    conns,      \* probeDialer.conns
    closed,     \* probeDialer.closed: "no", "yes"
    closing,    \* connections whose closing goroutine has been spawned
    pc,         \* where each call of DialContext is
    conn,       \* the connection of each call: "none", "open", "closed"
    closer      \* where the closer is

vars == <<dialCtx, conns, closed, closing, pc, conn, closer>>

DialPCs   == {"idle", "dial", "dialed", "returned", "failed"}
CloserPCs == {"idle", "cancelled", "done"}

Init ==
    /\ dialCtx = "live"
    /\ conns = {}
    /\ closed = "no"
    /\ closing = {}
    /\ pc = [d \in Dials |-> "idle"]
    /\ conn = [d \in Dials |-> "none"]
    /\ closer = "idle"

Goto(d, from, to) ==
    /\ pc[d] = from
    /\ pc' = [pc EXCEPT ![d] = to]

-----------------------------------------------------------------------------
(* DialContext *)

\* The first look at closed, in a lock section of its own.
DialContext(d) ==
    /\ Goto(d, "idle", IF closed = "yes" THEN "failed" ELSE "dial")
    /\ UNCHANGED <<dialCtx, conns, closed, closing, conn, closer>>

\* d.dial: the outbound connects, maybe just as its context is cancelled.
DialSucceeds(d) ==
    /\ Goto(d, "dial", "dialed")
    /\ conn' = [conn EXCEPT ![d] = "open"]
    /\ UNCHANGED <<dialCtx, conns, closed, closing, closer>>

DialFails(d) ==
    /\ Goto(d, "dial", "failed")
    /\ UNCHANGED <<dialCtx, conns, closed, closing, conn, closer>>

RememberUnchecked(d) ==
    /\ Goto(d, "dialed", "returned")
    /\ conns' = conns \cup {d}
    /\ UNCHANGED <<dialCtx, closed, closing, conn, closer>>

\* The second look, in the section that remembers the connection; a connection
\* that came too late is closed here.
Remember(d) ==
    /\ IF closed = "yes"
       THEN /\ Goto(d, "dialed", "failed")
            /\ conn' = [conn EXCEPT ![d] = "closed"]
            /\ UNCHANGED conns
       ELSE /\ Goto(d, "dialed", "returned")
            /\ conns' = conns \cup {d}
            /\ UNCHANGED conn
    /\ UNCHANGED <<dialCtx, closed, closing, closer>>

-----------------------------------------------------------------------------
(* The closer of outboundHTTPClient: cancelDials(), then probe.Close() *)

CancelDials ==
    /\ closer = "idle"
    /\ closer' = "cancelled"
    /\ dialCtx' = "cancelled"
    /\ UNCHANGED <<conns, closed, closing, pc, conn>>

\* The section that takes the list and marks the dialer, then one goroutine
\* per connection, because a proxied Close can block.
Close ==
    /\ closer = "cancelled"
    /\ closer' = "done"
    /\ closing' = conns
    /\ conns' = {}
    /\ closed' = "yes"
    /\ UNCHANGED <<dialCtx, pc, conn>>

ConnCloses(d) ==
    /\ d \in closing
    /\ closing' = closing \ {d}
    /\ conn' = [conn EXCEPT ![d] = "closed"]
    /\ UNCHANGED <<dialCtx, conns, closed, pc, closer>>

-----------------------------------------------------------------------------
DialStep(d) == DialSucceeds(d) \/ DialFails(d) \/ Remember(d)

\* The probe is over and every goroutine has ended.
Terminated ==
    /\ closer = "done"
    /\ closing = {}
    /\ \A d \in Dials : pc[d] \in {"returned", "failed"}
    /\ UNCHANGED vars

Next ==
    \/ \E d \in Dials : DialContext(d) \/ DialStep(d) \/ ConnCloses(d)
    \/ CancelDials
    \/ Close
    \/ Terminated

Spec == Init /\ [][Next]_vars

\* A dial ends once its context is cancelled, and may hang until then.
DialEnds(d) == dialCtx = "cancelled" /\ DialStep(d)

\* The closer is deferred, so it runs; a closing goroutine ends, however long
\* its teardown takes.
FairSpec ==
    /\ Spec
    /\ WF_vars(CancelDials)
    /\ WF_vars(Close)
    /\ \A d \in Dials : WF_vars(DialEnds(d)) /\ WF_vars(ConnCloses(d))

-----------------------------------------------------------------------------
(* Properties *)

TypeOK ==
    /\ dialCtx \in {"live", "cancelled"}
    /\ conns \in SUBSET Dials
    /\ closed \in {"no", "yes"}
    /\ closing \in SUBSET Dials
    /\ pc \in [Dials -> DialPCs]
    /\ conn \in [Dials -> {"none", "open", "closed"}]
    /\ closer \in CloserPCs

\* An open connection is in somebody's hands: the dial that is about to
\* remember or close it, the dialer's list, or a closing goroutine.
ConnOwned ==
    \A d \in Dials : conn[d] = "open" =>
        pc[d] = "dialed" \/ d \in conns \/ d \in closing

\* Once the closer has run, no call hands out a connection any more: the
\* connection of a dial that was overtaken is closed, not returned.
NothingHandedOutLate ==
    [][\A d \in Dials : closer = "done" /\ pc[d] # "returned"
          => pc'[d] # "returned"]_vars

\* Every connection a probe opened is closed in the end, the ones whose dial
\* finished after the closer included.
AllConnsClosed ==
    \A d \in Dials : conn[d] = "open" ~> conn[d] = "closed"

\* The list is empty for good once the dialer is closed: with the types and
\* ConnOwned, the inductive invariant behind the properties above.
ClosedInv ==
    /\ closed = "yes" <=> closer = "done"
    /\ closed = "yes" => conns = {}
    /\ closed = "no" => closing = {}
    /\ \A d \in Dials : pc[d] = "dialed" => conn[d] = "open"
    /\ \A d \in conns \cup closing : pc[d] = "returned" /\ conn[d] = "open"

DialerInv == TypeOK /\ ConnOwned /\ ClosedInv

=============================================================================
