---------------------------- MODULE MCLifecycle -----------------------------
(* Small instances of Lifecycle for TLC. *)
EXTENDS Lifecycle

\* Profiles with every combination of sidecars, with and without a redirecting
\* TUN, and a profile whose extra process is its only companion.
SidecarRequests ==
    [extra : {FALSE}, xray : {"none", "eager", "gate"}, full : BOOLEAN,
     redirect : BOOLEAN, cidr : {"none"}]

ExtraRequests ==
    [extra : {TRUE}, xray : {"none"}, full : {FALSE}, redirect : {TRUE},
     cidr : {"none"}]

LinuxRequests == SidecarRequests \cup ExtraRequests

\* macOS profiles: every mix of sidecars, a TUN whose address becomes the
\* system resolver over a gate or an extra process, or over nothing.
DarwinRequests ==
    [extra : {FALSE}, xray : {"none", "eager", "gate"}, full : BOOLEAN,
     redirect : {FALSE}, cidr : {"none"}]
    \cup
    [extra : {FALSE}, xray : {"none", "gate"}, full : {TRUE},
     redirect : {FALSE}, cidr : {"good", "bad"}]
    \cup
    [extra : {TRUE}, xray : {"none"}, full : {FALSE}, redirect : {FALSE},
     cidr : {"none", "good", "bad"}]

\* One profile with a redirecting TUN and a gate, sent again and again.
TunRequests ==
    [extra : {FALSE}, xray : {"gate"}, full : {FALSE}, redirect : {TRUE},
     cidr : {"none"}]
=============================================================================
