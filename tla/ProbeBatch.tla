----------------------------- MODULE ProbeBatch -----------------------------
(***************************************************************************)
(* runBatch (internal/probe/probe.go) and what its batches share: the      *)
(* test session, whose context StopTest cancels and replaces, and the      *)
(* result buffer the client drains while a batch runs.                     *)
(*                                                                         *)
(* This module has the variables and the steps of a batch.  DesktopTest    *)
(* and MobileTest put the two kinds of caller around them.  The tags of a  *)
(* batch are distinct and named by their position; every batch uses the    *)
(* same names, as the clients do.                                          *)
(***************************************************************************)
EXTENDS Integers, FiniteSets

CONSTANTS
    Batches,            \* concurrent calls of runBatch
    N,                  \* tags of the largest batch
    MaxConcurrency,     \* what the request asks for
    MaxConcurrentTests, \* the constant of that name
    MaxStops            \* bound: calls of CancelTests

ASSUME BatchAssumption ==
    /\ N \in Nat
    /\ MaxConcurrency \in Int
    /\ MaxConcurrentTests \in Nat \ {0}
    /\ MaxStops \in Nat

VARIABLES
    session,    \* session.ctx, counted; every earlier context is cancelled
    ctx,        \* the context each batch holds
    size,       \* the number of tags of each batch
    at,         \* where each batch is
    next,       \* the loop variable of each batch
    worker,     \* where the goroutine of each tag is
    resMap,     \* resMap of each batch
    reporter    \* the results in the resultBuffer

batchVars == <<ctx, size, at, next, worker, resMap>>
probeVars == <<session, batchVars, reporter>>

Tags    == 1..N
Results == Batches \X Tags

BatchPCs  == {"none", "next", "limit", "wait", "reclaim", "returned"}
WorkerPCs == {"none", "started", "probing", "stored", "published", "released",
              "done"}
\* What the probe came to, a duration or an error, is one outcome.
Outcomes  == {"none", "probed", "missing", "aborted"}

normalizeConcurrency ==
    IF MaxConcurrency <= 0 \/ MaxConcurrency >= 500
    THEN MaxConcurrentTests ELSE MaxConcurrency

Cancelled(b) == ctx[b] < session

HoldingMissing(b) ==
    {k \in Tags : \/ worker[b][k] \in {"started", "probing", "stored", "published"}
                  \/ worker[b][k] \in {"released", "done"} /\ resMap[b][k] = "missing"}

\* Goroutines that hold a slot of the limiter.
Holding(b) ==
    {k \in Tags : worker[b][k] \in {"started", "probing", "stored", "published"}}

ProbeInit ==
    /\ session = 0
    /\ ctx = [b \in Batches |-> 0]
    /\ size = [b \in Batches |-> 0]
    /\ at = [b \in Batches |-> "none"]
    /\ next = [b \in Batches |-> 1]
    /\ worker = [b \in Batches |-> [k \in Tags |-> "none"]]
    /\ resMap = [b \in Batches |-> [k \in Tags |-> "none"]]
    /\ reporter = {}

-----------------------------------------------------------------------------
(* The session *)

CancelTests ==
    /\ session < MaxStops
    /\ session' = session + 1
    /\ UNCHANGED <<batchVars, reporter>>

\* TestContext(), held for the whole batch, of n tags.
TestContext(b, n) ==
    /\ at[b] = "none"
    /\ ctx' = [ctx EXCEPT ![b] = session] /\ size' = [size EXCEPT ![b] = n]
    /\ at' = [at EXCEPT ![b] = "next"]
    /\ UNCHANGED <<session, next, worker, resMap, reporter>>

-----------------------------------------------------------------------------
(* The loop over the tags *)

NextTagRereading(b) ==
    /\ at[b] = "next"
    /\ next[b] <= size[b]
    /\ ctx' = [ctx EXCEPT ![b] = session]
    /\ at' = [at EXCEPT ![b] = "limit"]
    /\ UNCHANGED <<session, size, next, worker, resMap, reporter>>

\* The select at the top of the loop: an aborted tag is stored, not published.
NextTag(b) ==
    /\ at[b] = "next"
    /\ next[b] <= size[b]
    /\ IF Cancelled(b)
       THEN /\ resMap' = [resMap EXCEPT ![b][next[b]] = "aborted"]
            /\ next' = [next EXCEPT ![b] = @ + 1]
            /\ UNCHANGED at
       ELSE /\ at' = [at EXCEPT ![b] = "limit"]
            /\ UNCHANGED <<next, resMap>>
    /\ UNCHANGED <<session, ctx, size, worker, reporter>>

\* limiter <- struct{}{} and the go statement; ctx is not looked at again.
Spawn(b) ==
    /\ at[b] = "limit"
    /\ Cardinality(Holding(b)) < normalizeConcurrency
    /\ worker' = [worker EXCEPT ![b][next[b]] = "started"]
    /\ next' = [next EXCEPT ![b] = @ + 1]
    /\ at' = [at EXCEPT ![b] = "next"]
    /\ UNCHANGED <<session, ctx, size, resMap, reporter>>

LoopDone(b) ==
    /\ at[b] = "next"
    /\ next[b] > size[b]
    /\ at' = [at EXCEPT ![b] = "wait"]
    /\ UNCHANGED <<session, ctx, size, next, worker, resMap, reporter>>

-----------------------------------------------------------------------------
(* The goroutine of a tag *)

Finish(b, k, outcome) ==
    /\ worker' = [worker EXCEPT ![b][k] = "stored"]
    /\ resMap' = [resMap EXCEPT ![b][k] = outcome]
    /\ UNCHANGED <<session, ctx, size, at, next, reporter>>

\* The outbound is gone, or the batch was stopped before the probe began (a
\* request under a cancelled context fails at once).
ProbeRefused(b, k) ==
    /\ worker[b][k] = "started"
    /\ Finish(b, k, "missing") \/ (Cancelled(b) /\ Finish(b, k, "probed"))

ProbeBeginsAlways(b, k) ==
    /\ worker[b][k] = "started"
    /\ worker' = [worker EXCEPT ![b][k] = "probing"]
    /\ UNCHANGED <<session, ctx, size, at, next, resMap, reporter>>

\* probe.run: the tunnels are awaited and the first request goes out.
ProbeBegins(b, k) ==
    /\ worker[b][k] = "started"
    /\ ~Cancelled(b)
    /\ worker' = [worker EXCEPT ![b][k] = "probing"]
    /\ UNCHANGED <<session, ctx, size, at, next, resMap, reporter>>

\* probe.run returns; every wait in it has a timeout.
ProbeEnds(b, k) ==
    /\ worker[b][k] = "probing"
    /\ Finish(b, k, "probed")

\* AddResult
Publish(b, k) ==
    /\ worker[b][k] = "stored"
    /\ worker' = [worker EXCEPT ![b][k] = "published"]
    /\ reporter' = reporter \cup {<<b, k>>}
    /\ UNCHANGED <<session, ctx, size, at, next, resMap>>

\* The deferred calls: the receive from the limiter, which the loop may be waiting
\* for, and wg.Done().
Release(b, k) ==
    /\ worker[b][k] = "published"
    /\ worker' = [worker EXCEPT ![b][k] = "released"]
    /\ UNCHANGED <<session, ctx, size, at, next, resMap, reporter>>

Exit(b, k) ==
    /\ worker[b][k] = "released"
    /\ worker' = [worker EXCEPT ![b][k] = "done"]
    /\ UNCHANGED <<session, ctx, size, at, next, resMap, reporter>>

-----------------------------------------------------------------------------
(* The end of the batch *)

WaitSkipped(b) ==
    /\ at[b] = "wait"
    /\ at' = [at EXCEPT ![b] = "reclaim"]
    /\ UNCHANGED <<session, ctx, size, next, worker, resMap, reporter>>

\* wg.Wait(): aborted tags were counted down by the loop itself.
Wait(b) ==
    /\ at[b] = "wait"
    /\ \A k \in Tags : worker[b][k] \in {"none", "done"}
    /\ at' = [at EXCEPT ![b] = "reclaim"]
    /\ UNCHANGED <<session, ctx, size, next, worker, resMap, reporter>>

ReclaimSkipped(b) ==
    /\ at[b] = "reclaim"
    /\ at' = [at EXCEPT ![b] = "returned"]
    /\ UNCHANGED <<session, ctx, size, next, worker, resMap, reporter>>

\* Reclaim(results): what nobody drained is in the return value already.
Reclaim(b) ==
    /\ at[b] = "reclaim"
    /\ reporter' = reporter \ ({b} \X Tags)
    /\ at' = [at EXCEPT ![b] = "returned"]
    /\ UNCHANGED <<session, ctx, size, next, worker, resMap>>

BatchStep(b) ==
    \/ NextTag(b)
    \/ Spawn(b)
    \/ LoopDone(b)
    \/ Wait(b)
    \/ Reclaim(b)

WorkerStep(b, k) ==
    \/ ProbeRefused(b, k)
    \/ ProbeBegins(b, k)
    \/ ProbeEnds(b, k)
    \/ Publish(b, k)
    \/ Release(b, k)
    \/ Exit(b, k)

RunBatch == \E b \in Batches : BatchStep(b) \/ \E k \in Tags : WorkerStep(b, k)

-----------------------------------------------------------------------------
(* Properties of every batch *)

ProbeTypeOK ==
    /\ session \in 0..MaxStops
    /\ ctx \in [Batches -> 0..MaxStops]
    /\ size \in [Batches -> 0..N]
    /\ at \in [Batches -> BatchPCs]
    /\ next \in [Batches -> 1..(N + 1)]
    /\ worker \in [Batches -> [Tags -> WorkerPCs]]
    /\ resMap \in [Batches -> [Tags -> Outcomes]]
    /\ reporter \in SUBSET Results

\* A batch never has more probes in flight than its limiter has slots.
LimiterHolds ==
    \A b \in Batches : Cardinality(Holding(b)) <= normalizeConcurrency

\* A batch that returned has a stored result for every tag, whatever was
\* stopped, missing or failed: the "no result" filler is never needed.
EveryTagAnswered ==
    \A b \in Batches : at[b] \in {"reclaim", "returned"} =>
        \A k \in 1..size[b] : resMap[b][k] # "none"

\* Nothing of a batch that returned is left in the buffer, or the next test,
\* whose tags have the same names, would be shown it.
NothingLeftBehind ==
    \A r \in reporter : at[r[1]] # "returned"

\* A tag that was aborted is no measurement and is never published.
AbortedNotPublished ==
    \A r \in reporter : resMap[r[1]][r[2]] # "aborted"

(***************************************************************************)
(* How the loop, the goroutines and the results of a batch hang together:  *)
(* the inductive invariant behind the four properties above.               *)
(***************************************************************************)
LoopInv ==
    \A b \in Batches :
        /\ at[b] = "none" => next[b] = 1
        /\ at[b] # "none" => next[b] <= size[b] + 1
        /\ at[b] = "limit" => next[b] <= size[b]
        /\ at[b] \in {"wait", "reclaim", "returned"} => next[b] = size[b] + 1
        /\ at[b] \in {"reclaim", "returned"} =>
              \A k \in Tags : worker[b][k] \in {"none", "done"}

ResultInv ==
    \A b \in Batches, k \in Tags :
        /\ k >= next[b] => worker[b][k] = "none" /\ resMap[b][k] = "none"
        /\ k < next[b] /\ worker[b][k] = "none" => resMap[b][k] = "aborted"
        /\ worker[b][k] \in {"started", "probing"} => resMap[b][k] = "none"
        /\ worker[b][k] \in {"stored", "published", "released", "done"} =>
              resMap[b][k] \in {"probed", "missing"}

BufferInv ==
    \A r \in reporter :
        /\ worker[r[1]][r[2]] \in {"published", "released", "done"}
        /\ at[r[1]] # "returned"

\* A batch that StopTest stopped stays stopped, and none of its tags begins
\* to probe after that: the context is held, not read again.
StopIsFinal ==
    [][\A b \in Batches : at[b] # "none" /\ Cancelled(b) =>
          /\ ctx'[b] < session'
          /\ \A k \in Tags : worker[b][k] = "started" =>
                 worker'[b][k] # "probing"]_probeVars

\* probe.go:121 "Cancelling ctx aborts tags not yet started."
CancelAbortsUnstarted ==
    [][\A b \in Batches, k \in Tags :
          at[b] # "none" /\ Cancelled(b) /\ worker[b][k] = "none"
              => worker'[b][k] = "none"]_probeVars

\* What holds of it: a stopped batch starts no tag but the one its loop is
\* waiting with, and its loop never waits again, so at most one is started.
OnlyWaitingTagStarts ==
    [][\A b \in Batches : at[b] # "none" /\ Cancelled(b) =>
          /\ at[b] # "limit" => at'[b] # "limit"
          /\ \A k \in Tags : worker[b][k] = "none" /\ worker'[b][k] # "none" =>
                at[b] = "limit" /\ at'[b] = "next" /\ k = next[b]]_probeVars

=============================================================================
