------------------------------ MODULE VpnStatus ------------------------------
(***************************************************************************)
(* Status and challenges of OpenVPN and OpenConnect endpoints              *)
(* (internal/rpc/vpnstatus.go).  An endpoint is external: it changes its   *)
(* status when it likes, and then closes the channel StatusUpdated handed  *)
(* out.  A query waits for a settled status; the GUI answers challenges.   *)
(***************************************************************************)
EXTENDS Naturals

CONSTANTS
    Endpoints,      \* tags of a query
    KindOf(_),      \* "openvpn", "openconnect", "other" (no VPN, or no endpoint)
    MaxChanges      \* bound on the status changes of an endpoint

VARIABLES
    status,         \* of each endpoint: [state, challenge]
    generation,     \* status changes so far; the channel in force
    waitPC, heard, seen,    \* of the goroutine of each tag: its channel, its snapshot
    timed,          \* whether the query has a positive timeout
    queryPC,        \* "idle", "waiting", "returned"
    submitPC,       \* "idle", "complete"
    submission      \* the endpoint and challenge a client answers

vars == <<status, generation, waitPC, heard, seen, timed, queryPC, submitPC, submission>>

None == [id |-> 0, kind |-> "none"]
Nothing == [endpoint |-> "none", id |-> 0]
Quiet == [state |-> "connecting", challenge |-> None]
Vpn == {e \in Endpoints : KindOf(e) # "other"}

Init ==
    /\ status = [e \in Endpoints |-> Quiet]
    /\ generation = [e \in Endpoints |-> 0]
    /\ waitPC = [e \in Endpoints |-> "none"] /\ heard = [e \in Endpoints |-> 0]
    /\ seen = [e \in Endpoints |-> Quiet]
    /\ timed = FALSE /\ queryPC = "idle"
    /\ submitPC = "idle" /\ submission = Nothing

\* OpenVPN raises forms only; identifiers are never used twice.
NewStatuses(e) ==
    {[state |-> s, challenge |-> None] : s \in {"connecting", "connectedWithoutTunnel", "connected", "error"}}
    \cup {[state |-> "authenticating", challenge |-> [id |-> generation[e] + 1, kind |-> k]] :
            k \in IF KindOf(e) = "openconnect" THEN {"form", "browser"} ELSE {"form"}}

StatusChanges(e, new) ==
    /\ e \in Vpn /\ generation[e] < MaxChanges /\ new # status[e]
    /\ status' = [status EXCEPT ![e] = new]
    /\ generation' = [generation EXCEPT ![e] = @ + 1]
    /\ UNCHANGED <<waitPC, heard, seen, timed, queryPC, submitPC, submission>>

vpnStatusSettled(s) == s.state \in {"connected", "error"} \/ s.challenge # None

-----------------------------------------------------------------------------
(* QueryVPNStatus *)

\* collectVPNStatus: a goroutine per tag; a tag that is no VPN has its error.
QueryVPNStatus(waits) ==
    /\ queryPC # "waiting" /\ queryPC' = "waiting"
    /\ timed' = waits /\ seen' = [e \in Endpoints |-> Quiet]
    /\ waitPC' = [e \in Endpoints |->
          IF e \notin Vpn THEN "done" ELSE IF waits THEN "subscribe" ELSE "snapshot"]
    /\ UNCHANGED <<status, generation, heard, submitPC, submission>>

Subscribe(e) ==
    /\ waitPC[e] = "subscribe"
    /\ heard' = [heard EXCEPT ![e] = generation[e]]
    /\ waitPC' = [waitPC EXCEPT ![e] = "snapshot"]
    /\ UNCHANGED <<status, generation, seen, timed, queryPC, submitPC, submission>>

SnapshotBeforeSubscribing(e) ==
    /\ \/ /\ waitPC[e] = "snapshot"
          /\ seen' = [seen EXCEPT ![e] = status[e]]
          /\ waitPC' = [waitPC EXCEPT ![e] =
                IF ~timed \/ vpnStatusSettled(status[e]) THEN "done" ELSE "subscribeLate"]
          /\ UNCHANGED heard
       \/ /\ waitPC[e] = "subscribeLate"
          /\ heard' = [heard EXCEPT ![e] = generation[e]]
          /\ waitPC' = [waitPC EXCEPT ![e] = "sleep"]
          /\ UNCHANGED seen
    /\ UNCHANGED <<status, generation, timed, queryPC, submitPC, submission>>

Snapshot(e) ==
    /\ waitPC[e] = "snapshot"
    /\ seen' = [seen EXCEPT ![e] = status[e]]
    /\ waitPC' = [waitPC EXCEPT ![e] =
          IF ~timed \/ vpnStatusSettled(status[e]) THEN "done" ELSE "sleep"]
    /\ UNCHANGED <<status, generation, heard, timed, queryPC, submitPC, submission>>

\* The channel the goroutine took has been closed.
Wake(e) ==
    /\ waitPC[e] = "sleep" /\ heard[e] # generation[e]
    /\ waitPC' = [waitPC EXCEPT ![e] = "subscribe"]
    /\ UNCHANGED <<status, generation, heard, seen, timed, queryPC, submitPC, submission>>

Deadline(e) ==
    /\ waitPC[e] = "sleep"
    /\ waitPC' = [waitPC EXCEPT ![e] = "done"]
    /\ UNCHANGED <<status, generation, heard, seen, timed, queryPC, submitPC, submission>>

Respond ==
    /\ queryPC = "waiting" /\ \A e \in Endpoints : waitPC[e] = "done"
    /\ queryPC' = "returned"
    /\ timed' = FALSE /\ heard' = [e \in Endpoints |-> 0]
    /\ UNCHANGED <<status, generation, waitPC, seen, submitPC, submission>>

-----------------------------------------------------------------------------
(* SubmitVPNChallenge and CancelVPNChallenge *)

\* A client answers a challenge that it was shown, which may be gone by now.
\* The challenge of an OpenConnect endpoint is looked at first.
SubmitVPNChallenge(e) ==
    /\ submitPC = "idle" /\ queryPC = "returned" /\ e \in Vpn /\ seen[e].challenge # None
    /\ ~(/\ KindOf(e) = "openconnect"
         /\ status[e].challenge.id = seen[e].challenge.id
         /\ status[e].challenge.kind = "browser")
    /\ submitPC' = "complete"
    /\ submission' = [endpoint |-> e, id |-> seen[e].challenge.id]
    /\ UNCHANGED <<status, generation, waitPC, heard, seen, timed, queryPC>>

\* The endpoint takes an answer to the challenge it has raised, and no other.
CompleteChallenge ==
    LET e == submission.endpoint
    IN  /\ submitPC = "complete" /\ submitPC' = "idle"
        /\ IF status[e].challenge.id = submission.id
           THEN /\ generation[e] < MaxChanges
                /\ status' = [status EXCEPT ![e] = Quiet]
                /\ generation' = [generation EXCEPT ![e] = @ + 1]
           ELSE UNCHANGED <<status, generation>>
        /\ submission' = Nothing
        /\ UNCHANGED <<waitPC, heard, seen, timed, queryPC>>

CancelVPNChallenge(e) ==
    /\ queryPC = "returned" /\ e \in Vpn /\ seen[e].challenge # None /\ status[e].challenge = seen[e].challenge
    /\ generation[e] < MaxChanges
    /\ status' = [status EXCEPT ![e] = [state |-> "error", challenge |-> None]]
    /\ generation' = [generation EXCEPT ![e] = @ + 1]
    /\ UNCHANGED <<waitPC, heard, seen, timed, queryPC, submitPC, submission>>

Next ==
    \/ \E e \in Endpoints :
        \/ \E new \in NewStatuses(e) : StatusChanges(e, new)
        \/ Subscribe(e) \/ Snapshot(e) \/ Wake(e) \/ Deadline(e)
        \/ SubmitVPNChallenge(e) \/ CancelVPNChallenge(e)
    \/ \E waits \in BOOLEAN : QueryVPNStatus(waits)
    \/ Respond
    \/ CompleteChallenge

-----------------------------------------------------------------------------
(* Properties *)

\* A query never sleeps through the change it waits for: when the status of an
\* endpoint is settled, a goroutine that sleeps on it has been woken.
NoLostWakeup ==
    \A e \in Endpoints : waitPC[e] = "sleep" /\ vpnStatusSettled(status[e])
        => heard[e] # generation[e]

-----------------------------------------------------------------------------
(* What the proofs carry along *)

\* A goroutine took its channel before its snapshot, so while that channel is
\* the one in force the status is the one it saw.
VpnInv ==
    /\ status \in [Endpoints -> [state : {"connecting", "connectedWithoutTunnel", "connected",
                                          "error", "authenticating"},
                                 challenge : [id : Nat, kind : {"none", "form", "browser"}]]]
    /\ generation \in [Endpoints -> Nat] /\ heard \in [Endpoints -> Nat]
    /\ waitPC \in [Endpoints -> {"none", "subscribe", "snapshot", "sleep", "done"}]
    /\ submitPC = "complete" => submission.endpoint \in Endpoints
    /\ \A e \in Endpoints :
          /\ heard[e] <= generation[e]
          /\ waitPC[e] = "sleep" /\ heard[e] = generation[e] => ~vpnStatusSettled(status[e])

=============================================================================
