----------------------------- MODULE MCXrayGate -----------------------------
(* Small instances of XrayGate for TLC. *)
EXTENDS XrayGate, TLC

\* Connections, inbounds and instance identities are interchangeable.
Symmetry == Permutations(Handlers) \cup Permutations(Bridges)
            \cup Permutations(Insts)
=============================================================================
