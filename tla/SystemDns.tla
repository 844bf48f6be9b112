------------------------------ MODULE SystemDns ------------------------------
(***************************************************************************)
(* The system resolver on Windows (internal/boxdns): the local resolver is *)
(* put in front of the servers of an interface, with a mark that says how  *)
(* to take it out again.  The callback of the interface monitor and the    *)
(* SetSystemDNS call run without a lock between them.                      *)
(***************************************************************************)
EXTENDS Naturals, Sequences, FiniteSets

CONSTANTS
    Ifcs,           \* network interfaces
    IPv6,           \* the addresses of the other family
    Original(_),    \* of an interface: its servers in the registry (none: DHCP), those the
                    \* lease gives, those of IPv6 and whether Windows lists these first
    MaxSteps        \* bound on moves of the default interface and on calls

VARIABLES
    dns,            \* NameServer of an interface in the registry; none means DHCP
    default,        \* the default interface
    dnsIsSet, lastIfc,
    doing,          \* of "rpc" and "monitor": what it is doing to which interface
    misread,        \* interfaces whose mode could not be read, or was set while it was read
    dnsSteps

vars == <<dns, default, dnsIsSet, lastIfc, doing, misread, dnsSteps>>

Actors == {"rpc", "monitor"}
Marks == {"setMark", "dhcpMark"}
Idle == [op |-> "idle", ifc |-> "none", read |-> <<>>, dhcp |-> FALSE, last |-> FALSE]

Init ==
    /\ dns = [i \in Ifcs |-> Original(i).nameServer]
    /\ default \in Ifcs
    /\ dnsIsSet = FALSE /\ lastIfc = "none"
    /\ doing = [a \in Actors |-> Idle]
    /\ misread = {} /\ dnsSteps = 0

\* luid.DNS: the servers of both families.
DNS(i) ==
    LET v4 == IF dns[i] = <<>> THEN Original(i).leased ELSE dns[i]
    IN  IF Original(i).v6First THEN Original(i).v6 \o v4 ELSE v4 \o Original(i).v6

Marked(servers)   == \E k \in DOMAIN servers : servers[k] \in Marks
HasDHCP(servers)  == \E k \in DOMAIN servers : servers[k] = "dhcpMark"
\* The last mark decides.
WasDHCP(servers) ==
    \E k \in DOMAIN servers :
        /\ servers[k] = "dhcpMark"
        /\ \A j \in DOMAIN servers : j > k => servers[j] # "setMark"
WithoutLocal(servers) ==
    IF servers # <<>> /\ Head(servers) = "local" THEN Tail(servers) ELSE servers

\* The servers that are not in D, in their order.
Without(servers, D) ==
    LET kept   == {k \in DOMAIN servers : servers[k] \notin D}
        nth(j) == CHOOSE k \in kept : Cardinality(kept \cap 1..k) = j
    IN  [j \in 1..Cardinality(kept) |-> servers[nth(j)]]

Unmarked(servers) == Without(servers, Marks)

\* luid.SetDNS(AF_INET): what it stores are the addresses of that family.
SetDNS(servers) == Without(servers, IPv6)

Restored(servers) ==
    SetDNS(IF WasDHCP(servers) THEN <<>> ELSE WithoutLocal(Unmarked(servers)))

WithLocalAlways(servers, dhcp) ==
    <<"local">> \o Unmarked(servers) \o <<IF dhcp THEN "dhcpMark" ELSE "setMark">>

\* A second set does not put a second local resolver in front.
WithLocal(servers, dhcp) ==
    <<"local">> \o (IF Marked(servers) THEN WithoutLocal(Unmarked(servers)) ELSE servers)
    \o <<IF dhcp \/ WasDHCP(servers) THEN "dhcpMark" ELSE "setMark">>

-----------------------------------------------------------------------------
Begin(a, op, i, last) ==
    doing' = [doing EXCEPT ![a] =
        [op |-> op, ifc |-> i, read |-> <<>>, dhcp |-> FALSE, last |-> last]]
On(a, op, read, dhcp) ==
    doing' = [doing EXCEPT ![a] = [op |-> op, ifc |-> doing[a].ifc, read |-> read,
                                   dhcp |-> dhcp, last |-> doing[a].last]]
Step == dnsSteps < MaxSteps /\ dnsSteps' = dnsSteps + 1

\* The default interface moves, and the monitor calls HandleSystemDNS.
HandleSystemDNS(i) ==
    /\ doing["monitor"].op = "idle" /\ i # default /\ Step
    /\ default' = i
    /\ Begin("monitor", IF dnsIsSet THEN "set" ELSE "restore", i, TRUE)
    /\ UNCHANGED <<dns, dnsIsSet, lastIfc, misread>>

SetSystemDNS(clear) ==
    /\ doing["rpc"].op = "idle" /\ Step
    /\ dnsIsSet' = ~clear
    /\ lastIfc' = IF clear THEN lastIfc ELSE default
    /\ Begin("rpc", IF clear THEN "restore" ELSE "set", default, FALSE)
    /\ UNCHANGED <<dns, default, misread>>

\* The servers of the interface are read; when there is no mark, there is
\* nothing to restore.
ReadServers(a) ==
    LET i == doing[a].ifc
    IN  /\ doing[a].op \in {"set", "restore"}
        /\ On(a, CASE doing[a].op = "set" -> "mode"
                   [] Marked(DNS(i)) -> "unset"
                   [] OTHER -> "next",
                 DNS(i), FALSE)
        /\ UNCHANGED <<dns, default, dnsIsSet, lastIfc, misread, dnsSteps>>

\* The servers cannot be read, or not be set: the interface is left as it is.
GiveUp(a) ==
    /\ doing[a].op \in {"set", "restore", "write", "unset"}
    /\ On(a, "next", doing[a].read, doing[a].dhcp)
    /\ UNCHANGED <<dns, default, dnsIsSet, lastIfc, misread, dnsSteps>>

\* isIfcDNSDhcp reads the servers again and, without a mark, the registry.
ReadMark(a) ==
    LET i == doing[a].ifc
    IN  /\ doing[a].op = "mode"
        /\ On(a, IF HasDHCP(DNS(i)) THEN "write" ELSE "registry", doing[a].read, HasDHCP(DNS(i)))
        /\ UNCHANGED <<dns, default, dnsIsSet, lastIfc, misread, dnsSteps>>

ReadRegistry(a) ==
    /\ doing[a].op = "registry"
    /\ On(a, "write", doing[a].read, dns[doing[a].ifc] = <<>>)
    /\ UNCHANGED <<dns, default, dnsIsSet, lastIfc, misread, dnsSteps>>

\* One of the reads fails: a static interface is assumed, or, when it is the
\* value that cannot be read, DHCP.
ModeUnknown(a) ==
    /\ doing[a].op \in {"mode", "registry"}
    /\ \E dhcp \in BOOLEAN :
          /\ dhcp => doing[a].op = "registry"
          /\ On(a, "write", doing[a].read, dhcp)
    /\ misread' = misread \cup {doing[a].ifc}
    /\ UNCHANGED <<dns, default, dnsIsSet, lastIfc, dnsSteps>>

\* Nothing keeps the other actor from being between its two reads.
setSystemDNS(a) ==
    LET i == doing[a].ifc
    IN  /\ doing[a].op = "write"
        /\ dns' = [dns EXCEPT ![i] = SetDNS(WithLocal(doing[a].read, doing[a].dhcp))]
        /\ misread' = misread \cup
              {j \in {i} : \E b \in Actors : doing[b].op = "registry" /\ doing[b].ifc = j}
        /\ On(a, "next", doing[a].read, doing[a].dhcp)
        /\ UNCHANGED <<default, dnsIsSet, lastIfc, dnsSteps>>

restoreSystemDNS(a) ==
    LET i == doing[a].ifc
    IN  /\ doing[a].op = "unset"
        /\ dns' = [dns EXCEPT ![i] = Restored(doing[a].read)]
        /\ On(a, "next", doing[a].read, doing[a].dhcp)
        /\ UNCHANGED <<default, dnsIsSet, lastIfc, misread, dnsSteps>>

\* The callback then restores the interface that was set last, if it is another.
NextInterface(a) ==
    /\ doing[a].op = "next"
    /\ IF doing[a].last /\ lastIfc \notin {"none", doing[a].ifc}
       THEN Begin(a, "restore", lastIfc, FALSE)
       ELSE doing' = [doing EXCEPT ![a] = Idle]
    /\ UNCHANGED <<dns, default, dnsIsSet, lastIfc, misread, dnsSteps>>

Next ==
    \/ \E i \in Ifcs : HandleSystemDNS(i)
    \/ \E clear \in BOOLEAN : SetSystemDNS(clear)
    \/ \E a \in Actors :
          \/ ReadServers(a) \/ GiveUp(a) \/ ReadMark(a) \/ ReadRegistry(a) \/ ModeUnknown(a)
          \/ setSystemDNS(a) \/ restoreSystemDNS(a) \/ NextInterface(a)

-----------------------------------------------------------------------------
(* Properties *)

\* A static interface whose IPv6 servers come first: the local resolver, which
\* is then second, is not taken out again.
LocalIsHidden(i) ==
    /\ Original(i).nameServer # <<>>
    /\ Original(i).v6First /\ Original(i).v6 # <<>>

\* However calls and interface changes overlap, an interface that carries no
\* mark has the servers its user gave it, and restoring one that does gives
\* them back: none is lost or doubled, and DHCP is not turned static.  Left out
\* are interfaces whose mode was misread (an error, or a set by the other actor
\* between the two reads of isIfcDNSDhcp) and those that hide the local resolver.
OriginalRecoverable ==
    \A i \in {j \in Ifcs \ misread : ~LocalIsHidden(j)} :
        IF Marked(DNS(i)) THEN Restored(DNS(i)) = Original(i).nameServer
                          ELSE dns[i] = Original(i).nameServer

-----------------------------------------------------------------------------
(* What the proofs carry along *)

\* What the registry of a static interface holds while the local resolver is
\* in front.
LocalFirst(i) == <<"local">> \o Original(i).nameServer \o <<"setMark">>

\* Of a static interface either form may have been read before the other actor
\* wrote: what is written from either of them is one of the two again.
StaticInv(i) ==
    /\ dns[i] \in {Original(i).nameServer, LocalFirst(i)}
    /\ \A a \in Actors : doing[a].ifc = i =>
          /\ doing[a].op \in {"mode", "registry", "write"} =>
                doing[a].read \in {Original(i).nameServer \o Original(i).v6,
                                   LocalFirst(i) \o Original(i).v6}
          /\ doing[a].op = "write" => ~doing[a].dhcp
          /\ doing[a].op = "unset" => doing[a].read = LocalFirst(i) \o Original(i).v6

IsList(s) == s \in Seq({s[k] : k \in DOMAIN s})

\* Of one with DHCP only the mark at the end of the list matters.
DhcpInv(i) ==
    /\ IsList(dns[i])
    /\ dns[i] # <<>> => dns[i][Len(dns[i])] = "dhcpMark"
    /\ \A a \in Actors : doing[a].ifc = i =>
          /\ doing[a].op \in {"mode", "registry", "write"} => IsList(doing[a].read)
          /\ doing[a].op = "registry" => dns[i] = <<>>
          /\ doing[a].op = "write" => doing[a].dhcp
          /\ doing[a].op = "unset" => WasDHCP(doing[a].read)

DnsInv ==
    /\ dns = [i \in Ifcs |-> dns[i]]
    /\ default \in Ifcs /\ lastIfc \in Ifcs \cup {"none"}
    /\ doing = [a \in Actors |-> doing[a]]
    /\ \A a \in Actors :
          /\ doing[a] = [op |-> doing[a].op, ifc |-> doing[a].ifc, read |-> doing[a].read,
                         dhcp |-> doing[a].dhcp, last |-> doing[a].last]
          /\ doing[a].op # "idle" => doing[a].ifc \in Ifcs
    /\ \A i \in {j \in Ifcs \ misread : ~LocalIsHidden(j)} :
          IF Original(i).nameServer = <<>> THEN DhcpInv(i) ELSE StaticInv(i)

=============================================================================
