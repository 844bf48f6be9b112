----------------------------- MODULE MobileTest -----------------------------
(***************************************************************************)
(* StartURLTest on the mobile side (mobile/test.go): a goroutine runs the  *)
(* batch while a ticker drains the shared result buffer into the app's     *)
(* handler, filtered by tag; when the batch has returned its return value  *)
(* fills in what the ticker missed, and OnDone follows.                    *)
(***************************************************************************)
EXTENDS ProbeBatch

VARIABLES
    run,        \* where each test is
    ticker,     \* the draining goroutine of each test
    reported,   \* urlTestReporter.reported: the result given for each tag
    alone       \* history: the tests that no other test has overlapped

testVars == <<run, ticker, reported, alone>>
vars     == <<session, ctx, size, at, next, worker, resMap, reporter, run, ticker,
              reported, alone>>

NoResult == <<>>
RunPCs   == {"idle", "batch", "stop", "drain", "fill", "close", "done"}

Init ==
    /\ ProbeInit
    /\ run = [b \in Batches |-> "idle"]
    /\ ticker = [b \in Batches |-> "none"]
    /\ reported = [b \in Batches |-> [k \in Tags |-> NoResult]]
    /\ alone = Batches

Goto(b, from, to) ==
    /\ run[b] = from
    /\ run' = [run EXCEPT ![b] = to]

-----------------------------------------------------------------------------
Running == {c \in Batches : run[c] \notin {"idle", "done"}}

\* Nothing keeps the app from starting a test before the OnDone of another.
StartURLTest(b) ==
    /\ Goto(b, "idle", "batch")
    /\ \E n \in 0..N : TestContext(b, n)
    /\ ticker' = [ticker EXCEPT ![b] = "running"]
    /\ alone' = IF Running = {} THEN alone ELSE alone \ (Running \cup {b})
    /\ UNCHANGED reported

\* The results whose tags the test asked for: report() passes over the others.
Ours(b, given) == {r \in given : r[2] <= size[b]}

\* report() of a sequence of results: the first with a tag wins, and the names
\* of the tags are the same in every test.
Report(b, given) ==
    \E pick \in [Tags -> given \cup {NoResult}] :
        /\ \A k \in Tags :
              IF \E r \in given : r[2] = k
              THEN pick[k] # NoResult /\ pick[k][2] = k
              ELSE pick[k] = NoResult
        /\ reported' = [reported EXCEPT ![b] =
               [k \in Tags |-> IF reported[b][k] = NoResult
                               THEN pick[k] ELSE reported[b][k]]]

\* One tick: drain() takes the whole buffer, the results of others included.
Tick(b) ==
    /\ ticker[b] = "running"
    /\ reporter # {}
    /\ Report(b, Ours(b, reporter))
    /\ reporter' = {}
    /\ UNCHANGED <<session, batchVars, run, ticker, alone>>

\* batch() returned: close(stop).
BatchReturns(b) ==
    /\ at[b] = "returned"
    /\ Goto(b, "batch", "stop")
    /\ UNCHANGED <<probeVars, ticker, reported, alone>>

\* The ticker sees stop; it may have picked a tick before that.
TickerStops(b) ==
    /\ run[b] = "stop"
    /\ ticker[b] = "running"
    /\ ticker' = [ticker EXCEPT ![b] = "stopped"]
    /\ UNCHANGED <<probeVars, run, reported, alone>>

\* <-stopped and the last drain().
LastDrain(b) ==
    /\ ticker[b] = "stopped"
    /\ Goto(b, "stop", "fill")
    /\ Report(b, Ours(b, reporter))
    /\ reporter' = {}
    /\ UNCHANGED <<session, batchVars, ticker, alone>>

FillPublishedOnly(b) ==
    /\ Goto(b, "fill", "close")
    /\ Report(b, {r \in {b} \X (1..size[b]) : resMap[b][r[2]] # "aborted"})
    /\ UNCHANGED <<probeVars, ticker, alone>>

\* report() of the batch's own results.
Fill(b) ==
    /\ Goto(b, "fill", "close")
    /\ Report(b, {b} \X (1..size[b]))
    /\ UNCHANGED <<probeVars, ticker, alone>>

\* The deferred env.close(), then OnDone().
OnDone(b) ==
    /\ Goto(b, "close", "done")
    /\ UNCHANGED <<probeVars, ticker, reported, alone>>

StopTests == CancelTests /\ UNCHANGED testVars

-----------------------------------------------------------------------------
TestStep(b) ==
    \/ BatchStep(b) /\ UNCHANGED testVars
    \/ BatchReturns(b)
    \/ LastDrain(b)
    \/ Fill(b)
    \/ OnDone(b)

Work(b, k) == WorkerStep(b, k) /\ UNCHANGED testVars

Terminated == (\A b \in Batches : run[b] = "done") /\ UNCHANGED vars

Next ==
    \/ \E b \in Batches :
          \/ StartURLTest(b) \/ TestStep(b) \/ Tick(b) \/ TickerStops(b)
          \/ \E k \in Tags : Work(b, k)
    \/ StopTests
    \/ Terminated

Spec == Init /\ [][Next]_vars

-----------------------------------------------------------------------------
(* Properties *)

TypeOK ==
    /\ ProbeTypeOK
    /\ run \in [Batches -> RunPCs]
    /\ ticker \in [Batches -> {"none", "running", "stopped"}]
    /\ reported \in [Batches -> [Tags -> Results \cup {NoResult}]]
    /\ alone \subseteq Batches

\* When OnDone is called the handler has had a result for every tag, aborted
\* and reclaimed ones included.
AllReportedByDone ==
    \A b \in Batches : run[b] = "done" =>
        \A k \in 1..size[b] : reported[b][k] # NoResult

\* A test that no other overlapped reports no result but its own, although it
\* shares the buffer and the names of its tags with the tests before it.
OwnResultsOnly ==
    \A b \in alone, k \in Tags : reported[b][k] \in {NoResult, <<b, k>>}

(***************************************************************************)
(* Where a test is in relation to its batch and its ticker, and that a     *)
(* test nobody overlapped is the only one running while it runs: with the  *)
(* invariants of the batches, the inductive invariant behind the two       *)
(* properties above.                                                       *)
(***************************************************************************)
RunInv ==
    \A b \in Batches :
        /\ run[b] = "idle" <=> at[b] = "none"
        /\ run[b] \notin {"idle", "batch"} => at[b] = "returned"
        /\ ticker[b] = "running" => run[b] \in {"batch", "stop"}
        /\ run[b] \in {"close", "done"} => \A k \in 1..size[b] : reported[b][k] # NoResult

AloneInv == \A b \in alone : b \in Running => Running = {b}

MobileInv ==
    /\ TypeOK /\ LoopInv /\ ResultInv /\ BufferInv
    /\ RunInv /\ AloneInv /\ OwnResultsOnly

=============================================================================
