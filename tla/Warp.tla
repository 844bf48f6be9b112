-------------------------------- MODULE Warp --------------------------------
(***************************************************************************)
(* Registration of a WARP device (internal/warp, internal/rpc/warp.go): a  *)
(* POST that is not idempotent is tried on one API host after the other,   *)
(* each of which may be unreachable, refuse, or carry the request out and  *)
(* fail to answer.  The servers are external.                              *)
(***************************************************************************)
EXTENDS Naturals, Sequences, SequencesExt

CONSTANTS
    Spellings,      \* host names as a client may write them
    HostOf(_),      \* the host a spelling stands for, "" when there is none
    DefaultHost,
    MaxHosts        \* bound on the hosts of one call

VARIABLES
    warpPC,
    tunnel,         \* the tunnel type asked for
    hosts,          \* hosts not tried yet; the head is the one being called
    warpCtx,        \* "live", "expired": the deadline of WarpRegister
    devices,        \* devices each server has registered
    enrolled,       \* hosts whose device has the MASQUE key
    identity        \* what Register returned: "none", "error", or a host's device

vars == <<warpPC, tunnel, hosts, warpCtx, devices, enrolled, identity>>

Hosts == ({HostOf(s) : s \in Spellings} \ {""}) \cup {DefaultHost}

Init ==
    /\ warpPC = "idle" /\ tunnel = "none" /\ hosts = <<>> /\ warpCtx = "live"
    /\ devices = [h \in Hosts |-> 0] /\ enrolled = {} /\ identity = "none"

\* The hosts that are named, each once and in the order they are first named.
normalizeHosts(raw) ==
    LET named == {HostOf(raw[i]) : i \in DOMAIN raw} \ {""}
        FirstNamed(g, h) == \E i \in DOMAIN raw :
            HostOf(raw[i]) = g /\ \A j \in 1..i : HostOf(raw[j]) # h
    IN  IF named = {} THEN {<<DefaultHost>>}
        ELSE {list \in UNION {[1..n -> named] : n \in 1..Len(raw)} :
                /\ Range(list) = named
                /\ \A j, k \in DOMAIN list : j < k => FirstNamed(list[j], list[k])}

Return(what) ==
    /\ warpPC' = "done" /\ identity' = what
    /\ UNCHANGED <<tunnel, hosts>>

\* Unknown tunnel types, a bad proxy or no randomness end the call at once.
WarpRegister(raw, type) ==
    /\ warpPC = "idle"
    /\ \/ /\ type \in {"wireguard", "masque"}
          /\ warpPC' = "post" /\ tunnel' = type /\ hosts' \in normalizeHosts(raw)
          /\ UNCHANGED identity
       \/ Return([error |-> "request"])
    /\ UNCHANGED <<warpCtx, devices, enrolled>>

Expire ==
    /\ warpPC \in {"post", "next", "fill"} /\ warpCtx = "live"
    /\ warpCtx' = "expired"
    /\ UNCHANGED <<warpPC, tunnel, hosts, devices, enrolled, identity>>

\* What a call can come to: whether a server had it, and what the client saw.
CallOutcomes ==
    {"unreachable"}                         \* no connection was had
    \cup {"lost", "status5xx", "status429", "status3xx", "undecodable"}
    \cup {"status4xx"}                      \* refused
    \cup {"device", "incomplete"}           \* an answer; one without id or token
Connected(outcome)  == outcome # "unreachable"
isRejected(outcome) == outcome = "status4xx"
\* A refused request was not carried out; one that failed otherwise may have been.
MayRegister(outcome)  == outcome \in {"lost", "status5xx", "status3xx", "undecodable", "device", "incomplete"}
MustRegister(outcome) == outcome \in {"device", "incomplete", "undecodable"}

ContinuesAfterLost(outcome) == isRejected(outcome) \/ outcome \in {"lost", "unreachable"}

\* register's loop stops once a server may have seen the request.
TriesNext(outcome) == ~Connected(outcome) \/ isRejected(outcome)

Post(outcome, done) ==
    /\ warpPC = "post"
    /\ warpCtx = "expired" => outcome \in {"unreachable", "lost"}
    /\ done => MayRegister(outcome)
    /\ MustRegister(outcome) => done
    /\ devices' = IF done THEN [devices EXCEPT ![Head(hosts)] = @ + 1] ELSE devices
    /\ \/ /\ outcome = "device"
          /\ warpPC' = "fill" /\ UNCHANGED <<tunnel, hosts, identity>>
       \/ /\ outcome = "incomplete"
          /\ Return([error |-> "incomplete"])
       \/ /\ outcome \notin {"device", "incomplete"}
          /\ \/ /\ TriesNext(outcome) /\ warpCtx = "live" /\ Len(hosts) > 1
                /\ warpPC' = "post" /\ hosts' = Tail(hosts) /\ UNCHANGED <<tunnel, identity>>
             \/ /\ ~TriesNext(outcome) \/ warpCtx = "expired" \/ Len(hosts) = 1
                /\ Return([error |-> "register"])
    /\ UNCHANGED <<warpCtx, enrolled>>

\* The answer of the registration is the identity, if it has addresses, a peer
\* and a client id.
fillWireGuard(valid) ==
    /\ warpPC = "fill" /\ tunnel = "wireguard"
    /\ Return(IF valid THEN [host |-> Head(hosts), type |-> "wireguard"] ELSE [error |-> "response"])
    /\ UNCHANGED <<warpCtx, devices, enrolled>>

\* The key of the new device is replaced on the host that registered it, and
\* the identity taken from the answer to that.
enrollMASQUE(outcome, done, valid) ==
    /\ warpPC = "fill" /\ tunnel = "masque"
    /\ warpCtx = "expired" => outcome \in {"unreachable", "lost"}
    /\ done => MayRegister(outcome)
    /\ MustRegister(outcome) => done
    /\ enrolled' = IF done THEN enrolled \cup {Head(hosts)} ELSE enrolled
    /\ Return(IF outcome \in {"device", "incomplete"} /\ valid
              THEN [host |-> Head(hosts), type |-> "masque"] ELSE [error |-> "enroll"])
    /\ UNCHANGED <<warpCtx, devices>>

Next ==
    \/ \E n \in 0..MaxHosts : \E raw \in [1..n -> Spellings] :
          \E type \in {"wireguard", "masque", "other"} : WarpRegister(raw, type)
    \/ Expire
    \/ \E outcome \in CallOutcomes, done \in BOOLEAN : Post(outcome, done)
    \/ \E valid \in BOOLEAN : fillWireGuard(valid)
    \/ \E outcome \in CallOutcomes, done, valid \in BOOLEAN : enrollMASQUE(outcome, done, valid)

-----------------------------------------------------------------------------
(* Properties *)

\* One call registers at most one device, over all hosts together, however
\* the hosts are spelled and whichever answers are lost.
OneDevicePerCall ==
    \A g, h \in Hosts : devices[g] + (IF g = h THEN 0 ELSE devices[h]) <= 1

\* An identity is handed out only for a device that exists, and a MASQUE
\* identity only for one that really carries the MASQUE key.
IdentityIsUsable ==
    warpPC = "done" /\ "host" \in DOMAIN identity =>
        /\ devices[identity.host] = 1
        /\ identity.type = "masque" <=> identity.host \in enrolled

\* Both together: a call leaves at most one device behind, and the identity it
\* returns is that device's.
OneUsableDevice == OneDevicePerCall /\ IdentityIsUsable

-----------------------------------------------------------------------------
(* What the proofs carry along *)

\* As long as hosts are tried none has the device; the host that answered has
\* the only one, and MASQUE keys come last.
WarpInv ==
    /\ warpPC \in {"idle", "post", "fill", "done"}
    /\ devices \in [Hosts -> Nat] /\ enrolled \subseteq Hosts
    /\ warpPC \in {"post", "fill"} => hosts \in Seq(Hosts) \ {<<>>}
    /\ warpPC \in {"idle", "post"} => \A h \in Hosts : devices[h] = 0
    /\ warpPC = "fill" => \A h \in Hosts : devices[h] = IF h = Head(hosts) THEN 1 ELSE 0
    /\ warpPC # "done" => enrolled = {}
    /\ OneUsableDevice

=============================================================================
