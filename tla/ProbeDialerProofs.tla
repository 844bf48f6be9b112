------------------------- MODULE ProbeDialerProofs -------------------------
(***************************************************************************)
(* What the tracking dialer guarantees, for any number of dials.           *)
(***************************************************************************)
EXTENDS ProbeDialer, TLAPS

LEMMA InitDialer == Init => DialerInv
<1> SUFFICES ASSUME Init PROVE DialerInv
    OBVIOUS
<1> USE DEF Init
<1>1. TypeOK
    BY DEF TypeOK, DialPCs, CloserPCs
<1>2. ConnOwned
    BY DEF ConnOwned
<1>3. ClosedInv
    BY DEF ClosedInv
<1> QED
    BY <1>1, <1>2, <1>3 DEF DialerInv

LEMMA NextDialer == DialerInv /\ [Next]_vars => DialerInv'
<1> SUFFICES ASSUME DialerInv, [Next]_vars PROVE DialerInv'
    OBVIOUS
<1> USE DEF DialerInv, TypeOK, ConnOwned, ClosedInv, DialPCs, CloserPCs
<1>1. ASSUME NEW d \in Dials, DialContext(d) PROVE DialerInv'
    BY <1>1 DEF DialContext, Goto
<1>2. ASSUME NEW d \in Dials, DialSucceeds(d) PROVE DialerInv'
    BY <1>2 DEF DialSucceeds, Goto
<1>3. ASSUME NEW d \in Dials, DialFails(d) PROVE DialerInv'
    BY <1>3 DEF DialFails, Goto
<1>4. ASSUME NEW d \in Dials, Remember(d) PROVE DialerInv'
    <2>1. CASE closed = "yes"
        BY <1>4, <2>1 DEF Remember, Goto
    <2>2. CASE closed # "yes"
        <3>1. /\ conns' = conns \cup {d}
              /\ pc' = [pc EXCEPT ![d] = "returned"]
              /\ pc[d] = "dialed"
              /\ UNCHANGED <<dialCtx, closed, closing, closer, conn>>
            BY <1>4, <2>2 DEF Remember, Goto
        <3>2. conn[d] = "open"
            BY <3>1
        <3>3. TypeOK'
            BY <3>1
        <3>4. ConnOwned'
            BY <3>1
        <3>5. ClosedInv'
            BY <2>2, <3>1, <3>2
        <3> QED
            BY <3>3, <3>4, <3>5
    <2> QED
        BY <2>1, <2>2
<1>5. ASSUME NEW d \in Dials, ConnCloses(d) PROVE DialerInv'
    <2>1. TypeOK'
        BY <1>5 DEF ConnCloses
    <2>2. ConnOwned'
        BY <1>5 DEF ConnCloses
    <2>3. ClosedInv'
        BY <1>5 DEF ConnCloses
    <2> QED
        BY <2>1, <2>2, <2>3
<1>6. CASE CancelDials
    BY <1>6 DEF CancelDials
<1>7. CASE Close
    <2>1. TypeOK'
        BY <1>7 DEF Close
    <2>2. ConnOwned'
        BY <1>7 DEF Close
    <2>3. ClosedInv'
        BY <1>7 DEF Close
    <2> QED
        BY <2>1, <2>2, <2>3
<1>8. CASE UNCHANGED vars
    BY <1>8 DEF vars
<1> QED
    BY <1>1, <1>2, <1>3, <1>4, <1>5, <1>6, <1>7, <1>8
    DEF Next, DialStep, Terminated

\* The types, ConnOwned and ClosedInv together hold in every state: the
\* dialer and its closer keep each other's books.
THEOREM DialerInvariant == Spec => []DialerInv
    BY InitDialer, NextDialer, PTL DEF Spec

\* No connection of a probe is ever lost: each is with its dial, in the list,
\* or with a goroutine that closes it.
THEOREM DialerOwnsConns == Spec => []ConnOwned
<1>1. DialerInv => ConnOwned
    BY DEF DialerInv
<1> QED
    BY <1>1, DialerInvariant, PTL

\* A dial that the closer overtook never hands its connection out.
THEOREM DialerHandsOutNothingLate == Spec => NothingHandedOutLate
<1> DEFINE Late == \A d \in Dials : closer = "done" /\ pc[d] # "returned"
                       => pc'[d] # "returned"
<1>1. ASSUME DialerInv, Next PROVE Late
    <2> SUFFICES ASSUME NEW d \in Dials, closer = "done", pc[d] # "returned"
                 PROVE  pc'[d] # "returned"
        OBVIOUS
    <2> USE <1>1 DEF DialerInv, TypeOK, ClosedInv, DialPCs, Goto
    <2>1. ASSUME NEW e \in Dials, DialContext(e) PROVE pc'[d] # "returned"
        BY <2>1 DEF DialContext
    <2>2. ASSUME NEW e \in Dials, DialStep(e) PROVE pc'[d] # "returned"
        BY <2>2 DEF DialStep, DialSucceeds, DialFails, Remember
    <2>3. ASSUME NEW e \in Dials, ConnCloses(e) PROVE pc'[d] # "returned"
        BY <2>3 DEF ConnCloses
    <2>4. CASE CancelDials \/ Close \/ Terminated
        BY <2>4 DEF CancelDials, Close, Terminated, vars
    <2> QED
        BY <2>1, <2>2, <2>3, <2>4 DEF Next
<1>2. DialerInv /\ [Next]_vars => [Late]_vars
    BY <1>1
<1> QED
    BY <1>2, DialerInvariant, PTL DEF Spec, NothingHandedOutLate

=============================================================================
