--------------------------- MODULE ProfileService ---------------------------
(***************************************************************************)
(* What the Start and Stop calls promise their caller, without saying how: *)
(* one profile at a time; its cores (the sing-box, its Xray sidecars, its  *)
(* extra process) all run once Start has succeeded and none runs once      *)
(* Start has failed or Stop has returned; the other calls see the profile  *)
(* only while its sing-box runs.                                           *)
(***************************************************************************)
CONSTANTS Cores     \* kinds of core a profile may ask for

VARIABLES
    status,     \* "down", "starting", "up" or "stopping"
    wanted,     \* the cores of the profile
    cores,      \* the cores that run
    visible     \* whether the other calls see a running profile

vars == <<status, wanted, cores, visible>>

Init ==
    /\ status = "down"
    /\ wanted = {}
    /\ cores = {}
    /\ visible = FALSE

\* Start begins on a profile that asks for the cores w.
Begin(w) ==
    /\ status = "down"
    /\ status' = "starting"
    /\ wanted' = w
    /\ UNCHANGED <<cores, visible>>

\* Cores come up and go down only while Start or Stop works on them.
Work(c) ==
    /\ status \in {"starting", "stopping"}
    /\ c \subseteq wanted
    /\ cores' = c
    /\ visible' \in BOOLEAN
    /\ visible' => "box" \in c
    /\ UNCHANGED <<status, wanted>>

Succeed ==
    /\ status = "starting"
    /\ cores \cup {"extra"} = wanted \cup {"extra"}
    /\ status' = "up"
    /\ visible' = TRUE
    /\ UNCHANGED <<wanted, cores>>

\* An extra process may exit by itself.
Lose ==
    /\ "extra" \in cores
    /\ cores' = cores \ {"extra"}
    /\ UNCHANGED <<status, wanted, visible>>

BeginStop ==
    /\ status = "up"
    /\ status' = "stopping"
    /\ UNCHANGED <<wanted, cores, visible>>

\* A failed Start, and Stop, leave nothing behind.
End ==
    /\ status \in {"starting", "stopping"}
    /\ cores = {}
    /\ status' = "down"
    /\ wanted' = {}
    /\ visible' = FALSE
    /\ UNCHANGED cores

Next ==
    \/ \E w \in SUBSET Cores : Begin(w)
    \/ \E c \in SUBSET wanted : Work(c)
    \/ Succeed
    \/ Lose
    \/ BeginStop
    \/ End

\* Start and Stop return.
Spec == Init /\ [][Next]_vars /\ WF_vars(Succeed \/ End)

=============================================================================
