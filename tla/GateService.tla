---------------------------- MODULE GateService -----------------------------
(***************************************************************************)
(* What a gate promises the code that opens and closes it, without its     *)
(* connections, its lock and its sweeper: it owns at most one instance at  *)
(* a time besides those on their way down, every instance is built fresh   *)
(* and only while the gate is open, and closing the gate ends them.        *)
(***************************************************************************)
CONSTANTS
    Insts,      \* identities of instances
    Nil

VARIABLES
    stage,      \* "opening", then "refused" or "open", "closing", "closed"
    building,   \* the instance that is being built, or Nil
    current,    \* the instance the gate hands out, or Nil
    retired,    \* the idle one it hands out no more and is closing, or Nil
    ending,     \* the one it still had when it was closed, or Nil
    used        \* instances that were ever created

vars == <<stage, building, current, retired, ending, used>>

Init ==
    /\ stage = "opening"
    /\ building = Nil /\ current = Nil
    /\ retired = Nil /\ ending = Nil
    /\ used = {}

\* Every port is taken, or none.
Open(to) ==
    /\ stage = "opening" /\ to \in {"open", "refused"}
    /\ stage' = to
    /\ UNCHANGED <<building, current, retired, ending, used>>

Build(i) ==
    /\ stage = "open" /\ building = Nil /\ current = Nil
    /\ i \notin used
    /\ building' = i /\ used' = used \cup {i}
    /\ UNCHANGED <<stage, current, retired, ending>>

Publish ==
    /\ stage = "open" /\ building # Nil /\ current = Nil
    /\ current' = building /\ building' = Nil
    /\ UNCHANGED <<stage, retired, ending, used>>

\* An instance that could not be started is closed at once.
Abandon ==
    /\ building # Nil
    /\ building' = Nil
    /\ UNCHANGED <<stage, current, retired, ending, used>>

\* An idle instance goes out of reach before it is closed, one at a time.
Retire ==
    /\ stage = "open" /\ current # Nil /\ retired = Nil
    /\ retired' = current /\ current' = Nil
    /\ UNCHANGED <<stage, building, ending, used>>

Drop ==
    /\ retired # Nil
    /\ retired' = Nil
    /\ UNCHANGED <<stage, building, current, ending, used>>

\* Closing begins when nothing is being built, and from then on nothing is.
BeginClose ==
    /\ stage = "open" /\ building = Nil
    /\ stage' = "closing"
    /\ ending' = current /\ current' = Nil
    /\ UNCHANGED <<building, retired, used>>

\* It ends with that instance closed; one that was idle before may still be on
\* its way down.
EndClose ==
    /\ stage = "closing"
    /\ stage' = "closed"
    /\ ending' = Nil
    /\ UNCHANGED <<building, current, retired, used>>

Next ==
    \/ \E to \in {"open", "refused"} : Open(to)
    \/ \E i \in Insts : Build(i)
    \/ Publish \/ Abandon
    \/ Retire \/ Drop
    \/ BeginClose \/ EndClose

Spec == Init /\ [][Next]_vars

=============================================================================
