---------------------------- MODULE MobileStatus ----------------------------
(***************************************************************************)
(* Instance.Status of a phone (mobile/command.go): every call reports the  *)
(* traffic since the one before, which statusAccess keeps for all callers. *)
(***************************************************************************)
EXTENDS Integers

CONSTANTS
    Pollers,        \* goroutines that call Status
    MaxTotal        \* bound on the traffic

VARIABLES
    total,          \* trafficcontrol.Manager.Total
    statusPC, read, \* of each caller: where it is, the total it has read
    rate,           \* what it reported
    statusSampled, lastTotal

vars == <<total, statusPC, read, rate, statusSampled, lastTotal>>

Init ==
    /\ total = 0 /\ statusPC = [p \in Pollers |-> "idle"] /\ read = [p \in Pollers |-> 0]
    /\ rate = [p \in Pollers |-> 0] /\ statusSampled = FALSE /\ lastTotal = 0

Transfer ==
    /\ total < MaxTotal /\ total' = total + 1
    /\ UNCHANGED <<statusPC, read, rate, statusSampled, lastTotal>>

\* The total is read before the lock is taken.
ReadTotal(p) ==
    /\ statusPC[p] = "idle"
    /\ statusPC' = [statusPC EXCEPT ![p] = "read"] /\ read' = [read EXCEPT ![p] = total]
    /\ UNCHANGED <<total, rate, statusSampled, lastTotal>>

Status(p) ==
    /\ statusPC[p] = "read"
    /\ statusPC' = [statusPC EXCEPT ![p] = "idle"]
    /\ rate' = [rate EXCEPT ![p] = IF statusSampled THEN read[p] - lastTotal ELSE 0]
    /\ statusSampled' = TRUE /\ lastTotal' = read[p]
    /\ UNCHANGED <<total, read>>

Next == Transfer \/ \E p \in Pollers : ReadTotal(p) \/ Status(p)

Spec == Init /\ [][Next]_vars

\* "Uplink/Downlink are the bytes moved since the previous Status() call": no
\* caller is told that fewer than none were.
RatesCountBytes == \A p \in Pollers : rate[p] >= 0

=============================================================================
