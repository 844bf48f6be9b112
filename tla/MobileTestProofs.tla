-------------------------- MODULE MobileTestProofs --------------------------
(***************************************************************************)
(* What StartURLTest guarantees, for any number of tests started on top of *)
(* one another and any number of tags.  A step of a batch keeps what is    *)
(* known of the batches (BatchesInv) and where the tests are; a step of a  *)
(* test leaves the batches alone or only empties the buffer.               *)
(***************************************************************************)
EXTENDS MobileTest, TLAPS

USE BatchAssumption DEF BatchAssumption

BatchesInv == ProbeTypeOK /\ LoopInv /\ ResultInv /\ BufferInv

TestsInv ==
    /\ run \in [Batches -> RunPCs]
    /\ ticker \in [Batches -> {"none", "running", "stopped"}]
    /\ reported \in [Batches -> [Tags -> Results \cup {NoResult}]]
    /\ alone \subseteq Batches
    /\ RunInv /\ AloneInv /\ OwnResultsOnly

LEMMA MobileParts ==
    /\ MobileInv <=> BatchesInv /\ TestsInv
    /\ MobileInv' <=> BatchesInv' /\ TestsInv'
    BY DEF MobileInv, TypeOK, BatchesInv, TestsInv

LEMMA InitMobile == Init => MobileInv
<1> SUFFICES ASSUME Init PROVE MobileInv
    OBVIOUS
<1> USE DEF Init, ProbeInit
<1>1. TypeOK
    BY DEF TypeOK, ProbeTypeOK, BatchPCs, WorkerPCs, Outcomes, RunPCs, NoResult
<1>2. LoopInv /\ ResultInv /\ BufferInv
    BY DEF LoopInv, ResultInv, BufferInv, Tags
<1>3. RunInv
    BY DEF RunInv, NoResult
<1>4. AloneInv
    BY DEF AloneInv, Running
<1>5. OwnResultsOnly
    BY DEF OwnResultsOnly
<1> QED
    BY <1>1, <1>2, <1>3, <1>4, <1>5 DEF MobileInv

-----------------------------------------------------------------------------
(* The steps of a batch *)

\* A result in the buffer is that of a batch which has not returned.
LEMMA BufferOfRunning ==
    ASSUME BatchesInv, NEW r \in reporter
    PROVE  r \in Results /\ at[r[1]] \notin {"none", "returned"}
<1> USE DEF BatchesInv, ProbeTypeOK
<1>1. r \in Results /\ r[1] \in Batches /\ r[2] \in Tags
    BY DEF Results
<1>2. worker[r[1]][r[2]] \in {"published", "released", "done"} /\ at[r[1]] # "returned"
    BY DEF BufferInv
<1>3. r[2] < next[r[1]]
    <2>1. next[r[1]] \in 1..(N + 1) /\ r[2] \in 1..N
        BY <1>1 DEF Tags
    <2>2. ~(r[2] >= next[r[1]])
        BY <1>1, <1>2 DEF ResultInv
    <2> QED
        BY <2>1, <2>2
<1> QED
    BY <1>1, <1>2, <1>3 DEF LoopInv, Tags

\* The loop of a batch moves on: none of its steps begins a batch, and each
\* is one of a batch that is in its loop.
LEMMA LoopKeeps ==
    ASSUME BatchesInv, NEW b \in Batches, BatchStep(b)
    PROVE  /\ BatchesInv' /\ UNCHANGED size
           /\ at[b] \notin {"none", "returned"} /\ at'[b] # "none"
           /\ \A c \in Batches \ {b} : at'[c] = at[c]
<1> USE DEF BatchesInv, ProbeTypeOK, Tags
<1>1. CASE NextTag(b) /\ Cancelled(b)
    <2>0. /\ at[b] = "next" /\ next[b] <= size[b]
          /\ resMap' = [resMap EXCEPT ![b][next[b]] = "aborted"]
          /\ next' = [next EXCEPT ![b] = next[b] + 1]
          /\ UNCHANGED <<session, ctx, size, at, worker, reporter>>
        BY <1>1 DEF NextTag
    <2>1. ProbeTypeOK'
        BY <2>0 DEF BatchPCs, WorkerPCs, Outcomes, Results
    <2>2. LoopInv'
        BY <2>0 DEF LoopInv
    <2>3. ResultInv'
        BY <2>0 DEF LoopInv, ResultInv
    <2>4. BufferInv'
        BY <2>0 DEF BufferInv
    <2> QED
        BY <2>0, <2>1, <2>2, <2>3, <2>4
<1>2. CASE NextTag(b) /\ ~Cancelled(b)
    <2>0. /\ at[b] = "next" /\ next[b] <= size[b]
          /\ at' = [at EXCEPT ![b] = "limit"]
          /\ UNCHANGED <<session, ctx, size, next, resMap, worker, reporter>>
        BY <1>2 DEF NextTag
    <2>1. ProbeTypeOK'
        BY <2>0 DEF BatchPCs
    <2>2. LoopInv' /\ ResultInv'
        BY <2>0 DEF LoopInv, ResultInv
    <2>3. BufferInv'
        BY <2>0 DEF BufferInv, Results
    <2> QED
        BY <2>0, <2>1, <2>2, <2>3
<1>3. CASE Spawn(b)
    <2> USE <1>3 DEF Spawn
    <2>1. ProbeTypeOK'
        BY DEF LoopInv, WorkerPCs, BatchPCs
    <2>2. LoopInv'
        BY DEF LoopInv
    <2>3. ResultInv'
        BY DEF LoopInv, ResultInv
    <2>4. BufferInv'
        BY DEF LoopInv, ResultInv, BufferInv, Results
    <2> QED
        BY <2>1, <2>2, <2>3, <2>4
<1>4. CASE LoopDone(b) \/ Wait(b)
    <2>0. /\ \/ at[b] = "next" /\ next[b] > size[b] /\ at' = [at EXCEPT ![b] = "wait"]
             \/ /\ at[b] = "wait" /\ at' = [at EXCEPT ![b] = "reclaim"]
                /\ \A k \in Tags : worker[b][k] \in {"none", "done"}
          /\ UNCHANGED <<session, ctx, size, next, worker, resMap, reporter>>
        BY <1>4 DEF LoopDone, Wait
    <2>1. ProbeTypeOK'
        BY <2>0 DEF BatchPCs
    <2>2. LoopInv' /\ ResultInv'
        BY <2>0 DEF LoopInv, ResultInv
    <2>3. BufferInv'
        BY <2>0 DEF BufferInv, Results
    <2> QED
        BY <2>0, <2>1, <2>2, <2>3
<1>5. CASE Reclaim(b)
    <2> USE <1>5 DEF Reclaim
    <2>1. ProbeTypeOK'
        BY DEF BatchPCs
    <2>2. LoopInv' /\ ResultInv'
        BY DEF LoopInv, ResultInv
    <2>3. BufferInv'
        BY DEF BufferInv, Results
    <2> QED
        BY <2>1, <2>2, <2>3
<1> QED
    BY <1>1, <1>2, <1>3, <1>4, <1>5 DEF BatchStep

\* A goroutine changes neither the loop of its batch nor that of another.
LEMMA WorkerKeeps ==
    ASSUME BatchesInv, NEW b \in Batches, NEW k \in Tags, WorkerStep(b, k)
    PROVE  BatchesInv' /\ UNCHANGED <<at, size>>
<1> USE DEF BatchesInv, ProbeTypeOK, Tags
<1>1. ASSUME worker[b][k] \in {"started", "probing"},
             NEW outcome \in {"probed", "missing"}, Finish(b, k, outcome)
      PROVE  BatchesInv' /\ UNCHANGED <<at, size>>
    <2> USE <1>1 DEF Finish
    <2>1. ProbeTypeOK'
        BY DEF WorkerPCs, Outcomes
    <2>2. LoopInv'
        BY DEF LoopInv
    <2>3. ResultInv'
        BY DEF LoopInv, ResultInv
    <2>4. BufferInv'
        BY DEF BufferInv, Results
    <2> QED
        BY <2>1, <2>2, <2>3, <2>4
<1>2. CASE ProbeRefused(b, k) \/ ProbeEnds(b, k)
    BY <1>1, <1>2 DEF ProbeRefused, ProbeEnds
<1>3. CASE ProbeBegins(b, k)
    <2> USE <1>3 DEF ProbeBegins
    <2>1. ProbeTypeOK'
        BY DEF WorkerPCs
    <2>2. LoopInv'
        BY DEF LoopInv
    <2>3. ResultInv'
        BY DEF LoopInv, ResultInv
    <2>4. BufferInv'
        BY DEF BufferInv, Results
    <2> QED
        BY <2>1, <2>2, <2>3, <2>4
<1>4. CASE Publish(b, k)
    <2> USE <1>4 DEF Publish
    <2>1. ProbeTypeOK'
        BY DEF WorkerPCs, Results
    <2>2. LoopInv'
        BY DEF LoopInv
    <2>3. ResultInv'
        BY DEF LoopInv, ResultInv
    <2>4. BufferInv'
        BY DEF LoopInv, BufferInv, Results
    <2> QED
        BY <2>1, <2>2, <2>3, <2>4
<1>5. CASE Exit(b, k)
    <2> USE <1>5 DEF Exit
    <2>1. ProbeTypeOK'
        BY DEF WorkerPCs
    <2>2. LoopInv'
        BY DEF LoopInv
    <2>3. ResultInv'
        BY DEF LoopInv, ResultInv
    <2>4. BufferInv'
        BY DEF BufferInv, Results
    <2> QED
        BY <2>1, <2>2, <2>3, <2>4
<1>6. CASE Release(b, k)
    <2> USE <1>6 DEF Release
    <2>1. ProbeTypeOK'
        BY DEF WorkerPCs
    <2>2. LoopInv'
        BY DEF LoopInv
    <2>3. ResultInv'
        BY DEF LoopInv, ResultInv
    <2>4. BufferInv'
        BY DEF BufferInv, Results
    <2> QED
        BY <2>1, <2>2, <2>3, <2>4
<1> QED
    BY <1>2, <1>3, <1>4, <1>5, <1>6 DEF WorkerStep

-----------------------------------------------------------------------------
(* The steps of a test *)

\* A step of a batch, seen from the tests.
LEMMA TestsUnmoved ==
    ASSUME TestsInv, UNCHANGED <<testVars, size>>,
           \A c \in Batches : \/ at'[c] = at[c]
                              \/ at[c] \notin {"none", "returned"} /\ at'[c] # "none"
    PROVE  TestsInv'
<1> USE DEF TestsInv, testVars
<1>1. RunInv'
    BY DEF RunInv, RunPCs
<1>2. AloneInv' /\ OwnResultsOnly'
    BY DEF AloneInv, OwnResultsOnly, Running
<1> QED
    BY <1>1, <1>2

\* The batches do not notice that the buffer is emptied.
LEMMA BatchesUnmoved ==
    ASSUME BatchesInv, UNCHANGED <<session, batchVars>>, reporter' \in {{}, reporter}
    PROVE  BatchesInv'
<1> USE DEF BatchesInv, batchVars
<1>1. ProbeTypeOK'
    BY DEF ProbeTypeOK
<1>2. LoopInv' /\ ResultInv'
    BY DEF LoopInv, ResultInv
<1>3. BufferInv'
    BY DEF BufferInv
<1> QED
    BY <1>1, <1>2, <1>3

\* A test that runs alone finds no result in the buffer but its own.
LEMMA OwnBuffer ==
    ASSUME BatchesInv, TestsInv, NEW b \in alone, b \in Running, NEW r \in reporter
    PROVE  r[1] = b
<1>1. r \in Results /\ at[r[1]] \notin {"none", "returned"}
    BY BufferOfRunning
<1>2. r[1] \in Batches /\ run[r[1]] = "batch"
    BY <1>1 DEF TestsInv, RunInv, Results
<1>3. r[1] \in Running
    BY <1>2 DEF Running
<1> QED
    BY <1>3 DEF TestsInv, AloneInv

\* Reporting keeps what was reported, gives each tag a result of that tag, and
\* one to every tag there is a result for.
LEMMA ReportGives ==
    ASSUME TestsInv, NEW b \in Batches, NEW given, given \subseteq Results, Report(b, given)
    PROVE  /\ reported' \in [Batches -> [Tags -> Results \cup {NoResult}]]
           /\ \A c \in Batches \ {b} : reported'[c] = reported[c]
           /\ \A k \in Tags :
                 /\ reported[b][k] # NoResult => reported'[b][k] = reported[b][k]
                 /\ reported[b][k] = NoResult =>
                       \/ reported'[b][k] = NoResult /\ ~\E r \in given : r[2] = k
                       \/ \E r \in given : r[2] = k /\ reported'[b][k] = r
<1> USE DEF TestsInv
<1>1. PICK pick \in [Tags -> given \cup {NoResult}] :
        /\ \A k \in Tags :
              IF \E r \in given : r[2] = k
              THEN pick[k] # NoResult /\ pick[k][2] = k
              ELSE pick[k] = NoResult
        /\ reported' = [reported EXCEPT ![b] =
               [k \in Tags |-> IF reported[b][k] = NoResult
                               THEN pick[k] ELSE reported[b][k]]]
    BY DEF Report
<1>2. reported' \in [Batches -> [Tags -> Results \cup {NoResult}]]
    BY <1>1
<1>3. \A c \in Batches \ {b} : reported'[c] = reported[c]
    BY <1>1
<1>4. \A k \in Tags : reported'[b][k] = IF reported[b][k] = NoResult
                                        THEN pick[k] ELSE reported[b][k]
    BY <1>1
<1>5. \A k \in Tags : \/ pick[k] = NoResult /\ ~\E r \in given : r[2] = k
                      \/ \E r \in given : r[2] = k /\ pick[k] = r
    BY <1>1
<1> QED
    BY <1>2, <1>3, <1>4, <1>5

\* A test that is reported its own results, or what is in the buffer while it
\* runs, is reported nothing else if it is alone.
LEMMA OwnKept ==
    ASSUME TestsInv, NEW b \in Batches, NEW given, given \subseteq Results,
           Report(b, given), b \in alone => \A r \in given : r[1] = b, UNCHANGED alone
    PROVE  OwnResultsOnly'
<1> SUFFICES ASSUME NEW c \in alone, NEW k \in Tags
             PROVE  reported'[c][k] \in {NoResult, <<c, k>>}
    BY DEF OwnResultsOnly
<1>1. c \in Batches /\ reported[c][k] \in {NoResult, <<c, k>>}
    BY DEF TestsInv, OwnResultsOnly
<1>2. CASE c # b
    BY <1>1, <1>2, ReportGives
<1>3. CASE c = b
    <2>1. CASE reported[b][k] # NoResult
        BY <1>1, <1>3, <2>1, ReportGives
    <2>2. CASE reported[b][k] = NoResult
        <3>1. \/ reported'[b][k] = NoResult
              \/ \E r \in given : r[2] = k /\ reported'[b][k] = r
            BY <2>2, ReportGives
        <3>2. ASSUME NEW r \in given, r[2] = k PROVE r = <<b, k>>
            <4>1. r \in Batches \X Tags /\ r[1] = b
                BY <1>3 DEF Results
            <4> QED
                BY <3>2, <4>1
        <3> QED
            BY <1>3, <3>1, <3>2
    <2> QED
        BY <2>1, <2>2
<1> QED
    BY <1>2, <1>3

LEMMA StartKeeps ==
    ASSUME MobileInv, NEW b \in Batches, StartURLTest(b)
    PROVE  MobileInv'
<1> USE MobileParts
<1>n. PICK n \in 0..N : TestContext(b, n)
    BY DEF StartURLTest
<1>0. /\ run[b] = "idle" /\ run' = [run EXCEPT ![b] = "batch"]
      /\ size' = [size EXCEPT ![b] = n]
      /\ at[b] = "none" /\ at' = [at EXCEPT ![b] = "next"]
      /\ ticker' = [ticker EXCEPT ![b] = "running"]
      /\ alone' = IF Running = {} THEN alone ELSE alone \ (Running \cup {b})
      /\ ctx' = [ctx EXCEPT ![b] = session]
      /\ UNCHANGED <<session, next, worker, resMap, reporter, reported>>
    BY <1>n DEF StartURLTest, Goto, TestContext
<1>1. BatchesInv'
    <2> USE DEF BatchesInv
    <2>1. ProbeTypeOK'
        BY <1>0 DEF ProbeTypeOK, BatchPCs
    <2>2. LoopInv' /\ ResultInv'
        BY <1>0 DEF LoopInv, ResultInv, ProbeTypeOK, Tags
    <2>3. BufferInv'
        BY <1>0 DEF BufferInv, ProbeTypeOK, Results
    <2> QED
        BY <2>1, <2>2, <2>3
<1>2. TestsInv'
    <2> USE DEF TestsInv
    <2>0. at \in [Batches -> BatchPCs]
        BY DEF BatchesInv, ProbeTypeOK
    <2>1. RunInv'
        BY <1>0, <2>0 DEF RunInv
    <2>2. Running' = Running \cup {b}
        BY <1>0 DEF Running
    <2>3. AloneInv'
        BY <1>0, <2>2 DEF AloneInv
    <2>4. OwnResultsOnly'
        BY <1>0 DEF OwnResultsOnly
    <2>5. /\ run' \in [Batches -> RunPCs]
          /\ ticker' \in [Batches -> {"none", "running", "stopped"}]
          /\ alone' \subseteq Batches
        BY <1>0 DEF RunPCs
    <2> QED
        BY <1>0, <2>1, <2>3, <2>4, <2>5
<1> QED
    BY <1>1, <1>2

LEMMA TickKeeps ==
    ASSUME MobileInv, NEW b \in Batches, Tick(b)
    PROVE  MobileInv'
<1> USE MobileParts
<1>0. /\ ticker[b] = "running" /\ Report(b, Ours(b, reporter)) /\ reporter' = {}
      /\ UNCHANGED <<session, batchVars, at, size, run, ticker, alone>>
    BY DEF Tick, batchVars
<1>1. BatchesInv'
    BY <1>0, BatchesUnmoved
<1>2. Ours(b, reporter) \subseteq Results /\ Ours(b, reporter) \subseteq reporter
    BY DEF BatchesInv, ProbeTypeOK, Ours
<1>3. b \in Running
    BY <1>0 DEF Running, TestsInv, RunInv
<1>4. OwnResultsOnly'
    BY <1>0, <1>2, <1>3, OwnBuffer, OwnKept
<1>5. RunInv'
    BY <1>0, <1>2, ReportGives DEF RunInv, TestsInv
<1>6. AloneInv'
    BY <1>0 DEF AloneInv, Running, TestsInv
<1> QED
    BY <1>0, <1>1, <1>2, <1>4, <1>5, <1>6, ReportGives DEF TestsInv

\* Steps of a test that report nothing and start nothing.
LEMMA MoveKeeps ==
    ASSUME MobileInv, NEW b \in Batches,
           BatchReturns(b) \/ TickerStops(b) \/ OnDone(b)
    PROVE  MobileInv'
<1> USE MobileParts
<1>0. /\ UNCHANGED <<session, batchVars, at, size, reporter, reported, alone>>
      /\ \/ /\ at[b] = "returned" /\ run[b] = "batch" /\ UNCHANGED ticker
            /\ run' = [run EXCEPT ![b] = "stop"]
         \/ /\ run[b] = "stop" /\ UNCHANGED run
            /\ ticker' = [ticker EXCEPT ![b] = "stopped"]
         \/ /\ run[b] = "close" /\ UNCHANGED ticker
            /\ run' = [run EXCEPT ![b] = "done"]
    BY DEF BatchReturns, TickerStops, OnDone, Goto, probeVars, batchVars
<1>1. BatchesInv'
    BY <1>0, BatchesUnmoved
<1>2. RunInv'
    BY <1>0 DEF RunInv, TestsInv
<1>3. Running' \in {Running, Running \ {b}}
    BY <1>0 DEF Running, TestsInv
<1>4. AloneInv'
    BY <1>0, <1>3 DEF AloneInv, TestsInv
<1>5. OwnResultsOnly'
    BY <1>0 DEF OwnResultsOnly, TestsInv
<1>6. /\ run' \in [Batches -> RunPCs]
      /\ ticker' \in [Batches -> {"none", "running", "stopped"}]
    BY <1>0 DEF RunPCs, TestsInv
<1> QED
    BY <1>0, <1>1, <1>2, <1>4, <1>5, <1>6 DEF TestsInv

LEMMA LastDrainKeeps ==
    ASSUME MobileInv, NEW b \in Batches, LastDrain(b)
    PROVE  MobileInv'
<1> USE MobileParts
<1>0. /\ ticker[b] = "stopped" /\ run[b] = "stop" /\ run' = [run EXCEPT ![b] = "fill"]
      /\ Report(b, Ours(b, reporter)) /\ reporter' = {}
      /\ UNCHANGED <<session, batchVars, at, size, ticker, alone>>
    BY DEF LastDrain, Goto, batchVars
<1>1. BatchesInv'
    BY <1>0, BatchesUnmoved
<1>2. Ours(b, reporter) \subseteq Results /\ Ours(b, reporter) \subseteq reporter
    BY DEF BatchesInv, ProbeTypeOK, Ours
<1>3. b \in Running /\ Running' = Running
    BY <1>0 DEF Running, TestsInv
<1>4. OwnResultsOnly'
    BY <1>0, <1>2, <1>3, OwnBuffer, OwnKept
<1>5. RunInv'
    BY <1>0, <1>2, ReportGives DEF RunInv, TestsInv
<1>6. AloneInv'
    BY <1>0, <1>3 DEF AloneInv, TestsInv
<1>7. run' \in [Batches -> RunPCs]
    BY <1>0 DEF RunPCs, TestsInv
<1> QED
    BY <1>0, <1>1, <1>2, <1>4, <1>5, <1>6, <1>7, ReportGives DEF TestsInv

LEMMA FillKeeps ==
    ASSUME MobileInv, NEW b \in Batches, Fill(b)
    PROVE  MobileInv'
<1> USE MobileParts
<1>0. /\ run[b] = "fill" /\ run' = [run EXCEPT ![b] = "close"]
      /\ Report(b, {b} \X (1..size[b]))
      /\ UNCHANGED <<session, batchVars, at, size, reporter, ticker, alone>>
    BY DEF Fill, Goto, batchVars, probeVars
<1>1. BatchesInv'
    BY <1>0, BatchesUnmoved
<1>2. {b} \X (1..size[b]) \subseteq Results
    BY DEF Results, Tags, BatchesInv, ProbeTypeOK
<1>3. b \in Running /\ Running' = Running
    BY <1>0 DEF Running, TestsInv
<1>4. OwnResultsOnly'
    BY <1>0, <1>2, OwnKept
<1>5. ASSUME NEW k \in 1..size[b] PROVE reported'[b][k] # NoResult
    <2>1. <<b, k>> \in {b} \X (1..size[b]) /\ <<b, k>>[2] = k
        OBVIOUS
    <2>3. k \in Tags
        BY DEF Tags, BatchesInv, ProbeTypeOK
    <2>2. \A r \in {b} \X (1..size[b]) : r # NoResult
        BY DEF NoResult
    <2> QED
        BY <1>0, <1>2, <2>1, <2>2, <2>3, ReportGives
<1>6. RunInv'
    BY <1>0, <1>2, <1>5, ReportGives DEF RunInv, TestsInv
<1>7. AloneInv'
    BY <1>0, <1>3 DEF AloneInv, TestsInv
<1>8. run' \in [Batches -> RunPCs]
    BY <1>0 DEF RunPCs, TestsInv
<1> QED
    BY <1>0, <1>1, <1>2, <1>4, <1>6, <1>7, <1>8, ReportGives DEF TestsInv

-----------------------------------------------------------------------------
LEMMA NextMobile == MobileInv /\ [Next]_vars => MobileInv'
<1> SUFFICES ASSUME MobileInv, [Next]_vars PROVE MobileInv'
    OBVIOUS
<1>1. ASSUME NEW b \in Batches, TestStep(b) PROVE MobileInv'
    <2>1. CASE BatchStep(b) /\ UNCHANGED testVars
        <3>1. /\ BatchesInv' /\ UNCHANGED size
              /\ at[b] \notin {"none", "returned"} /\ at'[b] # "none"
              /\ \A c \in Batches \ {b} : at'[c] = at[c]
            BY <2>1, LoopKeeps, MobileParts
        <3> QED
            BY <2>1, <3>1, TestsUnmoved, MobileParts
    <2> QED
        BY <1>1, <2>1, MoveKeeps, LastDrainKeeps, FillKeeps DEF TestStep
<1>2. ASSUME NEW b \in Batches, NEW k \in Tags, Work(b, k) PROVE MobileInv'
    BY <1>2, WorkerKeeps, TestsUnmoved, MobileParts DEF Work
<1>3. ASSUME NEW b \in Batches, StartURLTest(b) \/ Tick(b) \/ TickerStops(b)
      PROVE  MobileInv'
    BY <1>3, StartKeeps, TickKeeps, MoveKeeps
<1>4. CASE StopTests
    <2>1. /\ session < MaxStops /\ session' = session + 1
          /\ UNCHANGED <<batchVars, at, size, reporter, testVars>>
        BY <1>4 DEF StopTests, CancelTests, batchVars
    <2>2. BatchesInv'
        BY <2>1, MobileParts
        DEF BatchesInv, ProbeTypeOK, LoopInv, ResultInv, BufferInv, batchVars
    <2> QED
        BY <2>1, <2>2, TestsUnmoved, MobileParts
<1>5. CASE UNCHANGED vars
    <2>1. UNCHANGED <<session, batchVars, at, size, reporter, testVars>>
        BY <1>5 DEF vars, batchVars, testVars
    <2> QED
        BY <2>1, BatchesUnmoved, TestsUnmoved, MobileParts
<1> QED
    BY <1>1, <1>2, <1>3, <1>4, <1>5 DEF Next, Terminated

\* The tests, their tickers and their batches stay consistent, and a test that
\* nothing has overlapped runs by itself.
THEOREM MobileInvariant == Spec => []MobileInv
    BY InitMobile, NextMobile, PTL DEF Spec

\* A test that no other overlapped reports no result but its own: what an
\* earlier test published under the same tags has left the buffer by then.
THEOREM MobileReportsOwn == Spec => []OwnResultsOnly
<1>1. MobileInv => OwnResultsOnly
    BY DEF MobileInv
<1> QED
    BY <1>1, MobileInvariant, PTL

\* When OnDone is called every tag has been reported, in every test.
THEOREM MobileReportsAll == Spec => []AllReportedByDone
<1>1. MobileInv => AllReportedByDone
    BY DEF MobileInv, RunInv, AllReportedByDone
<1> QED
    BY <1>1, MobileInvariant, PTL

=============================================================================
