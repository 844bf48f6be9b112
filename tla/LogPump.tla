------------------------------- MODULE LogPump -------------------------------
(***************************************************************************)
(* The log pump of a phone (mobile/log.go): lines are queued by any number *)
(* of goroutines and delivered to the sink of the platform by one, which   *)
(* sleeps on a channel with room for one token.                            *)
(***************************************************************************)
EXTENDS Naturals, Sequences, SequencesExt

CONSTANTS
    Loggers,        \* goroutines that log
    Limits,         \* limits the platform sets
    MaxLines        \* bound on the lines that are logged

VARIABLES
    sink,           \* "none", "set"
    limit,
    pending,        \* queued lines, numbered in the order they were queued
    notify,         \* tokens in the channel
    waking,         \* loggers between the unlock and wake
    pumpPC,         \* "none" (no goroutine yet), "begin", "sleep", "take", "deliver"
    batch,          \* the lines run is delivering
    delivered, lost,    \* lines the sink has had; lines that were dropped
    lines           \* lines queued so far

vars == <<sink, limit, pending, notify, waking, pumpPC, batch, delivered, lost, lines>>

Init ==
    /\ sink = "none" /\ limit \in Limits
    /\ pending = <<>> /\ notify = 0 /\ waking = {}
    /\ pumpPC = "none" /\ batch = <<>> /\ delivered = <<>> /\ lost = {} /\ lines = 0

setLimit(l) ==
    /\ l # limit /\ limit' = l
    /\ UNCHANGED <<sink, pending, notify, waking, pumpPC, batch, delivered, lost, lines>>

\* The first sink starts the goroutine.
setSink ==
    /\ sink = "none" /\ sink' = "set"
    /\ pumpPC' = IF pumpPC = "none" THEN "begin" ELSE pumpPC
    /\ notify' = 1
    /\ UNCHANGED <<limit, pending, waking, batch, delivered, lost, lines>>

clearSink ==
    /\ sink = "set" /\ sink' = "none"
    /\ UNCHANGED <<limit, pending, notify, waking, pumpPC, batch, delivered, lost, lines>>

\* At the limit the oldest queued line goes; without a sink there is no queue.
push(g) ==
    /\ g \notin waking /\ sink = "set" /\ lines < MaxLines
    /\ lines' = lines + 1
    /\ IF Len(pending) >= limit
       THEN pending' = Append(Tail(pending), lines + 1) /\ lost' = lost \cup {Head(pending)}
       ELSE pending' = Append(pending, lines + 1) /\ UNCHANGED lost
    /\ waking' = waking \cup {g}
    /\ UNCHANGED <<sink, limit, notify, pumpPC, batch, delivered>>

wakeUnbuffered(g) ==
    /\ g \in waking /\ waking' = waking \ {g}
    /\ notify' = IF pumpPC = "sleep" THEN 1 ELSE notify
    /\ UNCHANGED <<sink, limit, pending, pumpPC, batch, delivered, lost, lines>>

\* A token is left for the goroutine, busy or not, unless there is one.
wake(g) ==
    /\ g \in waking /\ waking' = waking \ {g}
    /\ notify' = 1
    /\ UNCHANGED <<sink, limit, pending, pumpPC, batch, delivered, lost, lines>>

\* The goroutine receives, at its start and when it found nothing to deliver;
\* until then no send can meet it.
Sleeps ==
    /\ pumpPC = "begin" /\ pumpPC' = "sleep"
    /\ UNCHANGED <<sink, limit, pending, notify, waking, batch, delivered, lost, lines>>

Wakes ==
    /\ pumpPC = "sleep" /\ notify = 1
    /\ pumpPC' = "take" /\ notify' = 0
    /\ UNCHANGED <<sink, limit, pending, waking, batch, delivered, lost, lines>>

takeKeeping ==
    /\ pumpPC = "take"
    /\ pumpPC' = IF sink = "none" \/ pending = <<>> THEN "begin" ELSE "deliver"
    /\ batch' = IF sink = "none" THEN <<>> ELSE pending
    /\ UNCHANGED <<sink, limit, pending, notify, waking, delivered, lost, lines>>

\* The whole queue is taken; with no sink any more it is dropped.
take ==
    /\ pumpPC = "take"
    /\ pending' = <<>>
    /\ IF sink = "none" \/ pending = <<>>
       THEN pumpPC' = "begin" /\ lost' = lost \cup Range(pending) /\ UNCHANGED batch
       ELSE pumpPC' = "deliver" /\ batch' = pending /\ UNCHANGED lost
    /\ UNCHANGED <<sink, limit, notify, waking, delivered, lines>>

\* One call of the sink, without the lock; after the last the queue is looked
\* at again.
Write ==
    /\ pumpPC = "deliver"
    /\ delivered' = Append(delivered, Head(batch)) /\ batch' = Tail(batch)
    /\ pumpPC' = IF Len(batch) = 1 THEN "take" ELSE "deliver"
    /\ UNCHANGED <<sink, limit, pending, notify, waking, lost, lines>>

Next ==
    \/ \E l \in Limits : setLimit(l)
    \/ setSink \/ clearSink \/ Sleeps \/ Wakes \/ take \/ Write
    \/ \E g \in Loggers : push(g) \/ wake(g)

-----------------------------------------------------------------------------
(* Properties *)

\* No line is delivered twice or out of order, and none vanishes: a line that
\* was queued is delivered, on its way, or was dropped.
LinesAccounted ==
    LET onTheWay == delivered \o batch \o pending
    IN  /\ \A j, k \in DOMAIN onTheWay : j < k => onTheWay[j] < onTheWay[k]
        /\ Range(onTheWay) \cap lost = {}
        /\ Range(onTheWay) \cup lost = 1..lines

\* The goroutine never sleeps on a queue that has lines for its sink: a token
\* is there, or a logger is about to leave one.
NoLineStranded ==
    pumpPC = "sleep" /\ pending # <<>> => notify = 1 \/ waking # {}

-----------------------------------------------------------------------------
(* What the proofs carry along *)

InOrder(s) == \A j, k \in DOMAIN s : j < k => s[j] < s[k]
Before(s, t) == \A m \in Range(s), n \in Range(t) : m < n

\* LinesAccounted, for the three queues one by one.
QueuesInv ==
    /\ limit \in Nat \ {0} /\ lines \in Nat /\ lost \subseteq 1..lines
    /\ delivered \in Seq(Nat) /\ batch \in Seq(Nat) /\ pending \in Seq(Nat)
    /\ InOrder(delivered) /\ InOrder(batch) /\ InOrder(pending)
    /\ Before(delivered, batch) /\ Before(batch, pending) /\ Before(delivered, pending)
    /\ Range(delivered) \cup Range(batch) \cup Range(pending) = (1..lines) \ lost
    /\ pumpPC = "deliver" <=> batch # <<>>

\* NoLineStranded holds already when the goroutine is about to sleep.
WakeInv ==
    pumpPC \in {"begin", "sleep"} /\ pending # <<>> => notify = 1 \/ waking # {}

LogInv == QueuesInv /\ WakeInv

=============================================================================
