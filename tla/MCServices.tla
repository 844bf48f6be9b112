----------------------------- MODULE MCServices -----------------------------
(* A small instance of each service for TLC. *)
EXTENDS Services

MCConfigs == {{}, {"clash", "v2ray"}, {"certificate", "cache", "ntp"}}

\* The second gate's second inbound port and the third's are ephemeral, too.
MCInboundPorts(g) == CASE g = 1 -> <<1>> [] g = 2 -> <<2, 3>> [] OTHER -> <<4>>

MCKindOf(e) == CASE e = "ovpn" -> "openvpn" [] e = "oc" -> "openconnect" [] OTHER -> "other"

\* Two spellings of one host, another host, and a name that is blank.
MCSpellings == {"a", "A/", "b", " "}
MCHostOf(s) == CASE s \in {"a", "A/"} -> "a" [] s = "b" -> "b" [] OTHER -> ""

\* A static interface with its IPv6 servers behind, one with DHCP and them first.
MCOriginal(i) ==
    IF i = "eth"
    THEN [nameServer |-> <<"s1", "s2">>, leased |-> <<>>, v6 |-> <<"six">>, v6First |-> FALSE]
    ELSE [nameServer |-> <<>>, leased |-> <<"lease">>, v6 |-> <<"six">>, v6First |-> TRUE]

MCXrayNeeds == {{}, {"main", "full"}}

\* What only one component chooses is fixed in the behaviours of the others.
MCInit ==
    /\ Init
    /\ acting # "extra" => platform = "unix"
    /\ acting # "dns" => default = "eth"
    /\ acting # "log" => limit = 1

MCSpec == MCInit /\ [][Next]_vars /\ Fairness

=============================================================================
