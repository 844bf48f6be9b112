------------------------- MODULE DesktopTestProofs -------------------------
(***************************************************************************)
(* What a probe call guarantees, for any number of concurrent calls and    *)
(* any number of tags: DesktopInv is inductive, and the properties of      *)
(* DesktopTest and ProbeBatch follow from it.  One lemma per action, with  *)
(* a step for each conjunct the action can disturb; Frame has the others.  *)
(***************************************************************************)
EXTENDS DesktopTest, FiniteSetTheorems, TLAPS

USE BatchAssumption DEF BatchAssumption

LEMMA InitDesktop == Init => DesktopInv
<1> SUFFICES ASSUME Init PROVE DesktopInv
    OBVIOUS
<1> USE DEF Init, ProbeInit
<1>1. TypeOK
    BY DEF TypeOK, ProbeTypeOK, BatchPCs, WorkerPCs, Outcomes, CallPCs, Lives
<1>2. LoopInv
    BY DEF LoopInv
<1>3. ResultInv
    BY DEF ResultInv, Tags
<1>4. BufferInv
    BY DEF BufferInv
<1>5. DeliveryInv
    BY DEF DeliveryInv
<1>6. CallInv
    BY DEF CallInv
<1>7. EnvInv
    BY DEF EnvInv
<1> QED
    BY <1>1, <1>2, <1>3, <1>4, <1>5, <1>6, <1>7 DEF DesktopInv

\* What a conjunct depends on.
LEMMA Frame ==
    ASSUME DesktopInv
    PROVE  /\ UNCHANGED <<size, at, next, worker>> => LoopInv'
           /\ UNCHANGED <<next, worker, resMap>> => ResultInv'
           /\ UNCHANGED <<at, worker, reporter>> => BufferInv'
           /\ UNCHANGED <<worker, reporter, delivered>> => DeliveryInv'
           /\ UNCHANGED <<at, call>> => CallInv'
           /\ UNCHANGED <<call, env>> => EnvInv'
    BY DEF DesktopInv, LoopInv, ResultInv, BufferInv, DeliveryInv, CallInv, EnvInv

LEMMA BeginKeeps ==
    ASSUME DesktopInv, NEW b \in Batches, Begin(b)
    PROVE  DesktopInv'
<1> USE DEF DesktopInv, TypeOK, ProbeTypeOK, Tags
<1> USE DEF Begin, probeVars, batchVars
<1>1. TypeOK'
    BY KindsAssumption DEF CallPCs, KindsAssumption
<1>2. CallInv'
    BY KindsAssumption DEF CallInv, KindsAssumption
<1>3. EnvInv'
    BY KindsAssumption DEF EnvInv, Parts, KindsAssumption
<1> QED
    BY Frame, <1>1, <1>2, <1>3

LEMMA XrayUpKeeps ==
    ASSUME DesktopInv, NEW b \in Batches, PartUp(b, "xray", "full")
    PROVE  DesktopInv'
<1> USE DEF DesktopInv, TypeOK, ProbeTypeOK, Tags
<1> USE DEF PartUp, probeVars, batchVars
<1>1. TypeOK'
    BY DEF BatchPCs, WorkerPCs, Outcomes, CallPCs, Lives, Parts, Results
<1>2. CallInv'
    BY DEF CallInv
<1>3. EnvInv'
    BY DEF EnvInv, Parts
<1> QED
    BY Frame, <1>1, <1>2, <1>3

LEMMA FullUpKeeps ==
    ASSUME DesktopInv, NEW b \in Batches, PartUp(b, "full", "box")
    PROVE  DesktopInv'
<1> USE DEF DesktopInv, TypeOK, ProbeTypeOK, Tags
<1> USE DEF PartUp, probeVars, batchVars
<1>1. TypeOK'
    BY DEF BatchPCs, WorkerPCs, Outcomes, CallPCs, Lives, Parts, Results
<1>2. CallInv'
    BY DEF CallInv
<1>3. EnvInv'
    BY DEF EnvInv, Parts
<1> QED
    BY Frame, <1>1, <1>2, <1>3

LEMMA BoxUpKeeps ==
    ASSUME DesktopInv, NEW b \in Batches, PartUp(b, "box", "ready")
    PROVE  DesktopInv'
<1> USE DEF DesktopInv, TypeOK, ProbeTypeOK, Tags
<1> USE DEF PartUp, probeVars, batchVars
<1>1. TypeOK'
    BY DEF BatchPCs, WorkerPCs, Outcomes, CallPCs, Lives, Parts, Results
<1>2. CallInv'
    BY DEF CallInv
<1>3. EnvInv'
    BY DEF EnvInv, Parts
<1> QED
    BY Frame, <1>1, <1>2, <1>3

LEMMA PrepareFailsKeeps ==
    ASSUME DesktopInv, NEW b \in Batches, PrepareFails(b)
    PROVE  DesktopInv'
<1> USE DEF DesktopInv, TypeOK, ProbeTypeOK, Tags
<1> USE DEF PrepareFails, probeVars, batchVars
<1>1. TypeOK'
    BY DEF BatchPCs, WorkerPCs, Outcomes, CallPCs, Lives, Parts, Results
<1>2. CallInv'
    BY DEF CallInv
<1>3. EnvInv'
    BY DEF EnvInv, Parts
<1> QED
    BY Frame, <1>1, <1>2, <1>3

LEMMA StartBatchKeeps ==
    ASSUME DesktopInv, NEW b \in Batches, StartBatch(b)
    PROVE  DesktopInv'
<1> USE DEF DesktopInv, TypeOK, ProbeTypeOK, Tags
<1> USE DEF StartBatch, TestContext, probeVars, batchVars
<1>0. (IF env[b]["box"] = "up" THEN N ELSE 1) \in 0..N
    BY DEF EnvInv
<1>1. TypeOK'
    BY <1>0 DEF BatchPCs, WorkerPCs, Outcomes, CallPCs, Lives, Parts, Results
<1>2. LoopInv'
    BY <1>0 DEF LoopInv
<1>3. BufferInv'
    BY DEF LoopInv, BufferInv, Results
<1>4. CallInv'
    BY DEF CallInv
<1>5. EnvInv'
    BY DEF EnvInv, Parts
<1> QED
    BY Frame, <1>1, <1>2, <1>3, <1>4, <1>5

LEMMA AbortTagKeeps ==
    ASSUME DesktopInv, NEW b \in Batches,
           NextTag(b), Cancelled(b), UNCHANGED <<callVars, delivered>>
    PROVE  DesktopInv'
<1> USE DEF DesktopInv, TypeOK, ProbeTypeOK, Tags
<1>0. /\ at[b] = "next" /\ next[b] <= size[b]
      /\ resMap' = [resMap EXCEPT ![b][next[b]] = "aborted"]
      /\ next' = [next EXCEPT ![b] = next[b] + 1]
      /\ UNCHANGED <<session, ctx, size, at, worker, reporter, call, env, delivered>>
    BY DEF NextTag, callVars
<1>1. TypeOK'
    BY <1>0 DEF BatchPCs, WorkerPCs, Outcomes, CallPCs, Lives, Parts, Results
<1>2. LoopInv'
    BY <1>0 DEF LoopInv
<1>3. ResultInv'
    BY <1>0 DEF LoopInv, ResultInv
<1> QED
    BY Frame, <1>0, <1>1, <1>2, <1>3

LEMMA TryTagKeeps ==
    ASSUME DesktopInv, NEW b \in Batches,
           NextTag(b), ~Cancelled(b), UNCHANGED <<callVars, delivered>>
    PROVE  DesktopInv'
<1> USE DEF DesktopInv, TypeOK, ProbeTypeOK, Tags
<1> USE DEF NextTag, callVars, probeVars, batchVars
<1>1. TypeOK'
    BY DEF BatchPCs, WorkerPCs, Outcomes, CallPCs, Lives, Parts, Results
<1>2. LoopInv'
    BY DEF LoopInv
<1>3. BufferInv'
    BY DEF LoopInv, BufferInv, Results
<1>4. CallInv'
    BY DEF CallInv
<1> QED
    BY Frame, <1>1, <1>2, <1>3, <1>4

LEMMA SpawnKeeps ==
    ASSUME DesktopInv, NEW b \in Batches,
           Spawn(b), UNCHANGED <<callVars, delivered>>
    PROVE  DesktopInv'
<1> USE DEF DesktopInv, TypeOK, ProbeTypeOK, Tags
<1> USE DEF Spawn, callVars, probeVars, batchVars
<1>1. TypeOK'
    BY DEF LoopInv, WorkerPCs, BatchPCs
<1>2. LoopInv'
    BY DEF LoopInv
<1>3. ResultInv'
    BY DEF LoopInv, ResultInv
<1>4. BufferInv'
    BY DEF LoopInv, ResultInv, BufferInv, Results
<1>5. DeliveryInv'
    BY DEF LoopInv, ResultInv, DeliveryInv, Results
<1>6. CallInv'
    BY DEF CallInv
<1> QED
    BY Frame, <1>1, <1>2, <1>3, <1>4, <1>5, <1>6

LEMMA LoopDoneKeeps ==
    ASSUME DesktopInv, NEW b \in Batches,
           LoopDone(b), UNCHANGED <<callVars, delivered>>
    PROVE  DesktopInv'
<1> USE DEF DesktopInv, TypeOK, ProbeTypeOK, Tags
<1> USE DEF LoopDone, callVars, probeVars, batchVars
<1>1. TypeOK'
    BY DEF BatchPCs, WorkerPCs, Outcomes, CallPCs, Lives, Parts, Results
<1>2. LoopInv'
    BY DEF LoopInv
<1>3. BufferInv'
    BY DEF LoopInv, BufferInv, Results
<1>4. CallInv'
    BY DEF CallInv
<1> QED
    BY Frame, <1>1, <1>2, <1>3, <1>4

LEMMA WaitKeeps ==
    ASSUME DesktopInv, NEW b \in Batches,
           Wait(b), UNCHANGED <<callVars, delivered>>
    PROVE  DesktopInv'
<1> USE DEF DesktopInv, TypeOK, ProbeTypeOK, Tags
<1> USE DEF Wait, callVars, probeVars, batchVars
<1>1. TypeOK'
    BY DEF BatchPCs, WorkerPCs, Outcomes, CallPCs, Lives, Parts, Results
<1>2. LoopInv'
    BY DEF LoopInv
<1>3. BufferInv'
    BY DEF LoopInv, BufferInv, Results
<1>4. CallInv'
    BY DEF CallInv
<1> QED
    BY Frame, <1>1, <1>2, <1>3, <1>4

LEMMA ReclaimKeeps ==
    ASSUME DesktopInv, NEW b \in Batches,
           Reclaim(b), UNCHANGED <<callVars, delivered>>
    PROVE  DesktopInv'
<1> USE DEF DesktopInv, TypeOK, ProbeTypeOK, Tags
<1> USE DEF Reclaim, callVars, probeVars, batchVars
<1>1. TypeOK'
    BY DEF BatchPCs, WorkerPCs, Outcomes, CallPCs, Lives, Parts, Results
<1>2. LoopInv'
    BY DEF LoopInv
<1>3. BufferInv'
    BY DEF LoopInv, BufferInv, Results
<1>4. DeliveryInv'
    BY DEF BufferInv, DeliveryInv, Results
<1>5. CallInv'
    BY DEF CallInv
<1> QED
    BY Frame, <1>1, <1>2, <1>3, <1>4, <1>5

LEMMA FinishKeeps ==
    ASSUME DesktopInv, NEW b \in Batches, NEW k \in Tags,
           worker[b][k] \in {"started", "probing"},
           NEW outcome \in {"probed", "missing"}, Finish(b, k, outcome),
           UNCHANGED <<callVars, delivered>>
    PROVE  DesktopInv'
<1> USE DEF DesktopInv, TypeOK, ProbeTypeOK, Tags
<1> USE DEF Finish, callVars, probeVars, batchVars
<1>1. TypeOK'
    BY DEF BatchPCs, WorkerPCs, Outcomes, CallPCs, Lives, Parts, Results
<1>2. LoopInv'
    BY DEF LoopInv
<1>3. ResultInv'
    BY DEF LoopInv, ResultInv
<1>4. BufferInv'
    BY DEF LoopInv, BufferInv, Results
<1>5. DeliveryInv'
    BY DEF BufferInv, DeliveryInv, Results
<1> QED
    BY Frame, <1>1, <1>2, <1>3, <1>4, <1>5

LEMMA ProbeBeginsKeeps ==
    ASSUME DesktopInv, NEW b \in Batches, NEW k \in Tags,
           ProbeBegins(b, k), UNCHANGED <<callVars, delivered>>
    PROVE  DesktopInv'
<1> USE DEF DesktopInv, TypeOK, ProbeTypeOK, Tags
<1> USE DEF ProbeBegins, callVars, probeVars, batchVars
<1>1. TypeOK'
    BY DEF BatchPCs, WorkerPCs, Outcomes, CallPCs, Lives, Parts, Results
<1>2. LoopInv'
    BY DEF LoopInv
<1>3. ResultInv'
    BY DEF LoopInv, ResultInv
<1>4. BufferInv'
    BY DEF LoopInv, BufferInv, Results
<1>5. DeliveryInv'
    BY DEF BufferInv, DeliveryInv, Results
<1> QED
    BY Frame, <1>1, <1>2, <1>3, <1>4, <1>5

LEMMA PublishKeeps ==
    ASSUME DesktopInv, NEW b \in Batches, NEW k \in Tags,
           Publish(b, k), UNCHANGED <<callVars, delivered>>
    PROVE  DesktopInv'
<1> USE DEF DesktopInv, TypeOK, ProbeTypeOK, Tags
<1> USE DEF Publish, callVars, probeVars, batchVars
<1>1. TypeOK'
    BY DEF BatchPCs, WorkerPCs, Outcomes, CallPCs, Lives, Parts, Results
<1>2. LoopInv'
    BY DEF LoopInv
<1>3. ResultInv'
    BY DEF LoopInv, ResultInv
<1>4. BufferInv'
    <2>1. at[b] # "returned"
        BY DEF LoopInv
    <2> QED
        BY <2>1 DEF BufferInv, Results
<1>5. DeliveryInv'
    BY DEF BufferInv, DeliveryInv, Results
<1> QED
    BY Frame, <1>1, <1>2, <1>3, <1>4, <1>5

LEMMA ReleaseKeeps ==
    ASSUME DesktopInv, NEW b \in Batches, NEW k \in Tags,
           Release(b, k), UNCHANGED <<callVars, delivered>>
    PROVE  DesktopInv'
<1> USE DEF DesktopInv, TypeOK, ProbeTypeOK, Tags
<1> USE DEF Release, callVars, probeVars, batchVars
<1>1. TypeOK'
    BY DEF BatchPCs, WorkerPCs, Outcomes, CallPCs, Lives, Parts, Results
<1>2. LoopInv'
    BY DEF LoopInv
<1>3. ResultInv'
    BY DEF LoopInv, ResultInv
<1>4. BufferInv'
    BY DEF LoopInv, BufferInv, Results
<1>5. DeliveryInv'
    BY DEF BufferInv, DeliveryInv, Results
<1> QED
    BY Frame, <1>1, <1>2, <1>3, <1>4, <1>5

LEMMA ExitKeeps ==
    ASSUME DesktopInv, NEW b \in Batches, NEW k \in Tags,
           Exit(b, k), UNCHANGED <<callVars, delivered>>
    PROVE  DesktopInv'
<1> USE DEF DesktopInv, TypeOK, ProbeTypeOK, Tags
<1> USE DEF Exit, callVars, probeVars, batchVars
<1>1. TypeOK'
    BY DEF BatchPCs, WorkerPCs, Outcomes, CallPCs, Lives, Parts, Results
<1>2. LoopInv'
    BY DEF LoopInv
<1>3. ResultInv'
    BY DEF LoopInv, ResultInv
<1>4. BufferInv'
    BY DEF LoopInv, BufferInv, Results
<1>5. DeliveryInv'
    BY DEF BufferInv, DeliveryInv, Results
<1> QED
    BY Frame, <1>1, <1>2, <1>3, <1>4, <1>5

LEMMA RespondKeeps ==
    ASSUME DesktopInv, NEW b \in Batches, Respond(b)
    PROVE  DesktopInv'
<1> USE DEF DesktopInv, TypeOK, ProbeTypeOK, Tags
<1> USE DEF Respond, probeVars, batchVars
<1>1. TypeOK'
    BY DEF BatchPCs, WorkerPCs, Outcomes, CallPCs, Lives, Parts, Results
<1>2. CallInv'
    BY DEF CallInv
<1>3. EnvInv'
    BY DEF EnvInv, Parts
<1> QED
    BY Frame, <1>1, <1>2, <1>3

LEMMA CloseBoxKeeps ==
    ASSUME DesktopInv, NEW b \in Batches, CloseBox(b)
    PROVE  DesktopInv'
<1> USE DEF DesktopInv, TypeOK, ProbeTypeOK, Tags
<1> USE DEF CloseBox, probeVars, batchVars
<1>1. TypeOK'
    BY DEF BatchPCs, WorkerPCs, Outcomes, CallPCs, Lives, Parts, Results
<1>2. CallInv'
    BY DEF CallInv
<1>3. EnvInv'
    BY DEF EnvInv, Parts
<1> QED
    BY Frame, <1>1, <1>2, <1>3

LEMMA CloseFullKeeps ==
    ASSUME DesktopInv, NEW b \in Batches,
           ClosePart(b, "closeFull", "full", "closeXray")
    PROVE  DesktopInv'
<1> USE DEF DesktopInv, TypeOK, ProbeTypeOK, Tags
<1> USE DEF ClosePart, probeVars, batchVars
<1>1. TypeOK'
    BY DEF BatchPCs, WorkerPCs, Outcomes, CallPCs, Lives, Parts, Results
<1>2. CallInv'
    BY DEF CallInv
<1>3. EnvInv'
    BY DEF EnvInv, Parts
<1> QED
    BY Frame, <1>1, <1>2, <1>3

LEMMA CloseXrayKeeps ==
    ASSUME DesktopInv, NEW b \in Batches,
           ClosePart(b, "closeXray", "xray", "done")
    PROVE  DesktopInv'
<1> USE DEF DesktopInv, TypeOK, ProbeTypeOK, Tags
<1> USE DEF ClosePart, probeVars, batchVars
<1>1. TypeOK'
    BY DEF BatchPCs, WorkerPCs, Outcomes, CallPCs, Lives, Parts, Results
<1>2. CallInv'
    BY DEF CallInv
<1>3. EnvInv'
    BY DEF EnvInv, Parts
<1> QED
    BY Frame, <1>1, <1>2, <1>3

LEMMA BoxClosesKeeps ==
    ASSUME DesktopInv, NEW b \in Batches, BoxCloses(b)
    PROVE  DesktopInv'
<1> USE DEF DesktopInv, TypeOK, ProbeTypeOK, Tags
<1> USE DEF BoxCloses, probeVars, batchVars
<1>1. TypeOK'
    BY DEF BatchPCs, WorkerPCs, Outcomes, CallPCs, Lives, Parts, Results
<1>2. EnvInv'
    BY DEF EnvInv, Parts
<1> QED
    BY Frame, <1>1, <1>2

LEMMA QueryURLTestKeeps ==
    ASSUME DesktopInv, QueryURLTest
    PROVE  DesktopInv'
<1> USE DEF DesktopInv, TypeOK, ProbeTypeOK, Tags
<1> USE DEF QueryURLTest, callVars, batchVars
<1>1. TypeOK'
    BY DEF BatchPCs, WorkerPCs, Outcomes, CallPCs, Lives, Parts, Results
<1>2. BufferInv'
    BY DEF LoopInv, BufferInv, Results
<1>3. DeliveryInv'
    BY DEF BufferInv, DeliveryInv, Results
<1> QED
    BY Frame, <1>1, <1>2, <1>3

LEMMA StopTestKeeps ==
    ASSUME DesktopInv, StopTest
    PROVE  DesktopInv'
<1> USE DEF DesktopInv, TypeOK, ProbeTypeOK, Tags
<1> USE DEF StopTest, CancelTests, callVars, batchVars
<1>1. TypeOK'
    BY DEF BatchPCs, WorkerPCs, Outcomes, CallPCs, Lives, Parts, Results
<1> QED
    BY Frame, <1>1

-----------------------------------------------------------------------------
LEMMA NextDesktop == DesktopInv /\ [Next]_vars => DesktopInv'
<1> SUFFICES ASSUME DesktopInv, [Next]_vars PROVE DesktopInv'
    OBVIOUS
<1>1. ASSUME NEW b \in Batches, CallStep(b) PROVE DesktopInv'
    <2>1. CASE PrepareEnv(b) \/ PrepareFails(b)
        BY <2>1, XrayUpKeeps, FullUpKeeps, BoxUpKeeps, PrepareFailsKeeps
        DEF PrepareEnv
    <2>2. CASE BatchStep(b) /\ UNCHANGED <<callVars, delivered>>
        BY <2>2, AbortTagKeeps, TryTagKeeps, SpawnKeeps, LoopDoneKeeps,
           WaitKeeps, ReclaimKeeps DEF BatchStep
    <2>3. CASE CloseEnv(b)
        BY <2>3, CloseBoxKeeps, CloseFullKeeps, CloseXrayKeeps DEF CloseEnv
    <2>4. CASE StartBatch(b) \/ Respond(b)
        BY <2>4, StartBatchKeeps, RespondKeeps
    <2> QED
        BY <1>1, <2>1, <2>2, <2>3, <2>4 DEF CallStep
<1>2. ASSUME NEW b \in Batches, NEW k \in Tags, Work(b, k) PROVE DesktopInv'
    <2>1. CASE ProbeRefused(b, k) \/ ProbeEnds(b, k)
        BY <1>2, <2>1, FinishKeeps DEF Work, ProbeRefused, ProbeEnds
    <2>2. CASE ~(ProbeRefused(b, k) \/ ProbeEnds(b, k))
        BY <1>2, <2>2, ProbeBeginsKeeps, PublishKeeps, ReleaseKeeps, ExitKeeps
        DEF Work, WorkerStep
    <2> QED
        BY <2>1, <2>2
<1>3. ASSUME NEW b \in Batches, Begin(b) \/ BoxCloses(b) PROVE DesktopInv'
    BY <1>3, BeginKeeps, BoxClosesKeeps
<1>4. CASE QueryURLTest \/ StopTest \/ UNCHANGED vars
    <2>1. CASE UNCHANGED vars
        BY <2>1, Frame DEF vars, DesktopInv, TypeOK, ProbeTypeOK
    <2> QED
        BY <1>4, <2>1, QueryURLTestKeeps, StopTestKeeps
<1> QED
    BY <1>1, <1>2, <1>3, <1>4 DEF Next, Terminated

-----------------------------------------------------------------------------
\* The loops, goroutines, results and environments of any number of concurrent
\* calls stay consistent with each other.
THEOREM DesktopInvariant == Spec => []DesktopInv
    BY InitDesktop, NextDesktop, PTL DEF Spec

\* A batch returns a stored result for every one of its tags.
THEOREM DesktopAnswersEveryTag == Spec => []EveryTagAnswered
<1>1. ASSUME DesktopInv, NEW b \in Batches, NEW k \in 1..size[b],
             at[b] \in {"reclaim", "returned"}
      PROVE  resMap[b][k] # "none"
    <2>1. k < next[b] /\ k \in Tags
        BY <1>1 DEF DesktopInv, TypeOK, ProbeTypeOK, LoopInv, Tags
    <2>2. worker[b][k] \in {"none", "done"}
        BY <1>1, <2>1 DEF DesktopInv, LoopInv
    <2> QED
        BY <2>1, <2>2, <1>1 DEF DesktopInv, ResultInv
<1>2. DesktopInv => EveryTagAnswered
    BY <1>1 DEF EveryTagAnswered
<1> QED
    BY <1>2, DesktopInvariant, PTL

\* No result of a batch that returned is left in the buffer.
THEOREM DesktopLeavesNothingBehind == Spec => []NothingLeftBehind
<1>1. DesktopInv => NothingLeftBehind
    BY DEF DesktopInv, BufferInv, NothingLeftBehind
<1> QED
    BY <1>1, DesktopInvariant, PTL

\* An aborted tag is never in the buffer.
THEOREM DesktopPublishesNoAborted == Spec => []AbortedNotPublished
<1>1. DesktopInv => AbortedNotPublished
    BY DEF DesktopInv, TypeOK, ProbeTypeOK, Results, BufferInv, ResultInv,
           AbortedNotPublished
<1> QED
    BY <1>1, DesktopInvariant, PTL

\* QueryURLTest hands out every result at most once.
THEOREM DesktopDeliversOnce == Spec => []DeliveredOnce
<1>1. DesktopInv => DeliveredOnce
    BY DEF DesktopInv, DeliveryInv, DeliveredOnce
<1> QED
    BY <1>1, DesktopInvariant, PTL

\* The instances a batch probes through outlive every goroutine of the batch.
THEOREM DesktopProbesInsideEnv == Spec => []ProbesInsideEnv
<1>1. ASSUME DesktopInv PROVE ProbesInsideEnv
    <2> SUFFICES ASSUME NEW b \in Batches,
                        \/ \E k \in Tags : worker[b][k] \notin {"none", "done"}
                        \/ at[b] \notin {"none", "returned"}
                 PROVE  /\ "closed" \notin {env[b][p] : p \in Parts}
                        /\ env[b]["box"] # "closing"
        BY DEF ProbesInsideEnv
    <2> USE <1>1 DEF DesktopInv, TypeOK, ProbeTypeOK, Tags
    <2>1. at[b] \notin {"none", "returned"}
        BY DEF LoopInv, ResultInv
    <2>2. call[b] = "running"
        BY <2>1 DEF CallInv, CallPCs
    <2>3. \A p \in Parts : env[b][p] \in {"none", "up"}
        BY <2>2 DEF EnvInv
    <2> QED
        BY <2>3 DEF Parts
<1> QED
    BY <1>1, DesktopInvariant, PTL

\* A call that returned has taken down everything it built.
THEOREM DesktopLeaksNothing == Spec => []NothingLeaks
<1>1. DesktopInv => NothingLeaks
    BY DEF DesktopInv, EnvInv, NothingLeaks, Parts
<1> QED
    BY <1>1, DesktopInvariant, PTL

-----------------------------------------------------------------------------
\* Only Spawn takes a slot, and only for the tag the loop is at.
LEMMA SlotsTaken ==
    ASSUME DesktopInv, [Next]_vars, NEW c \in Batches
    PROVE  \/ Holding(c)' \subseteq Holding(c)
           \/ /\ Cardinality(Holding(c)) < normalizeConcurrency
              /\ Holding(c)' = Holding(c) \cup {next[c]}
              /\ next[c] \notin Holding(c)
<1> USE DEF DesktopInv, TypeOK, ProbeTypeOK, Holding
<1>1. CASE UNCHANGED worker
    BY <1>1
<1>2. ASSUME NEW b \in Batches, Spawn(b)
      PROVE  \/ Holding(c)' \subseteq Holding(c)
             \/ /\ Cardinality(Holding(c)) < normalizeConcurrency
                /\ Holding(c)' = Holding(c) \cup {next[c]}
                /\ next[c] \notin Holding(c)
    <2>1. CASE b # c
        BY <1>2, <2>1 DEF Spawn
    <2>2. CASE b = c
        <3>1. next[c] \in Tags
            BY <1>2, <2>2 DEF Spawn, LoopInv, Tags
        <3>2. worker[c][next[c]] = "none"
            BY <3>1 DEF ResultInv, Tags
        <3>3. \A k \in Tags : worker'[c][k] =
                  IF k = next[c] THEN "started" ELSE worker[c][k]
            BY <1>2, <2>2, <3>1 DEF Spawn
        <3> QED
            BY <1>2, <2>2, <3>1, <3>2, <3>3 DEF Spawn
    <2> QED
        BY <2>1, <2>2
<1>3. ASSUME NEW b \in Batches, NEW k \in Tags, WorkerStep(b, k)
      PROVE  Holding(c)' \subseteq Holding(c)
    <2>1. \E pc \in WorkerPCs :
            /\ worker' = [worker EXCEPT ![b][k] = pc]
            /\ \/ worker[b][k] \in {"started", "probing", "stored", "published"}
               \/ pc = "done"
        BY <1>3 DEF WorkerStep, ProbeRefused, Finish, ProbeBegins, ProbeEnds,
                    Publish, Release, Exit, WorkerPCs
    <2> QED
        BY <2>1
<1>4. \/ UNCHANGED worker
      \/ \E b \in Batches : Spawn(b)
      \/ \E b \in Batches, k \in Tags : WorkerStep(b, k)
    BY DEF Next, CallStep, Begin, PrepareEnv, PartUp, PrepareFails, StartBatch,
           TestContext, BatchStep, NextTag, LoopDone, Wait, Reclaim, Respond,
           CloseEnv, CloseBox, ClosePart, BoxCloses, Work, QueryURLTest,
           StopTest, CancelTests, Terminated, vars, probeVars, batchVars
<1> QED
    BY <1>1, <1>2, <1>3, <1>4

\* No batch ever has more probes in flight than its limiter has slots.
THEOREM DesktopHoldsLimit == Spec => []LimiterHolds
<1>1. normalizeConcurrency \in Nat \ {0}
    BY DEF normalizeConcurrency
<1>2. ASSUME NEW b \in Batches
      PROVE  IsFiniteSet(Holding(b)) /\ Cardinality(Holding(b)) \in Nat
    <2>1. IsFiniteSet(Tags)
        BY FS_Interval DEF Tags
    <2> QED
        BY <2>1, FS_Subset, FS_CardinalityType DEF Holding
<1>3. Init => LimiterHolds
    <2> SUFFICES ASSUME Init, NEW b \in Batches
                 PROVE  Cardinality(Holding(b)) <= normalizeConcurrency
        BY DEF LimiterHolds
    <2>1. Holding(b) = {}
        BY DEF Init, ProbeInit, Holding
    <2> QED
        BY <1>1, <2>1, FS_EmptySet
<1>4. DesktopInv /\ LimiterHolds /\ [Next]_vars => LimiterHolds'
    <2> SUFFICES ASSUME DesktopInv, LimiterHolds, [Next]_vars, NEW c \in Batches
                 PROVE  Cardinality(Holding(c))' <= normalizeConcurrency
        BY DEF LimiterHolds, normalizeConcurrency
    <2>1. CASE Holding(c)' \subseteq Holding(c)
        <3>1. Cardinality(Holding(c)') <= Cardinality(Holding(c))
            BY <1>2, <2>1, FS_Subset
        <3>2. Cardinality(Holding(c)') \in Nat
            BY <1>2, <2>1, FS_Subset, FS_CardinalityType
        <3> QED
            BY <1>1, <1>2, <3>1, <3>2 DEF LimiterHolds
    <2>2. CASE /\ Cardinality(Holding(c)) < normalizeConcurrency
               /\ Holding(c)' = Holding(c) \cup {next[c]}
               /\ next[c] \notin Holding(c)
        <3>1. Cardinality(Holding(c)') = Cardinality(Holding(c)) + 1
            BY <1>2, <2>2, FS_AddElement
        <3> QED
            BY <1>1, <1>2, <2>2, <3>1
    <2> QED
        BY <2>1, <2>2, SlotsTaken
<1> QED
    BY <1>3, <1>4, DesktopInvariant, PTL DEF Spec

\* A batch that StopTest stopped stays stopped and begins no further probe.
THEOREM DesktopStopIsFinal == Spec => StopIsFinal
<1> DEFINE Final == \A b \in Batches : at[b] # "none" /\ Cancelled(b) =>
                        /\ ctx'[b] < session'
                        /\ \A k \in Tags : worker[b][k] = "started" =>
                               worker'[b][k] # "probing"
<1>1. ASSUME DesktopInv, [Next]_vars PROVE Final
    <2> SUFFICES ASSUME NEW b \in Batches, at[b] # "none", Cancelled(b)
                 PROVE  /\ ctx'[b] < session'
                        /\ \A k \in Tags : worker[b][k] = "started" =>
                               worker'[b][k] # "probing"
        OBVIOUS
    <2> USE DEF Cancelled
    <2>1. CASE UNCHANGED <<session, ctx, worker>>
        BY <2>1
    <2>2. ASSUME NEW c \in Batches, StartBatch(c)
          PROVE  ctx'[b] < session' /\ worker' = worker
        BY <1>1, <2>2 DEF StartBatch, TestContext, DesktopInv, TypeOK, ProbeTypeOK
    <2>3. ASSUME NEW c \in Batches, Spawn(c)
          PROVE  /\ UNCHANGED <<session, ctx>>
                 /\ \A k \in Tags : worker[b][k] = "started" =>
                        worker'[b][k] # "probing"
        BY <1>1, <2>3 DEF Spawn, DesktopInv, TypeOK, ProbeTypeOK
    <2>4. ASSUME NEW c \in Batches, NEW k \in Tags, WorkerStep(c, k)
          PROVE  /\ UNCHANGED <<session, ctx>>
                 /\ \A j \in Tags : worker[b][j] = "started" =>
                        worker'[b][j] # "probing"
        <3>1. /\ UNCHANGED <<session, ctx>>
              /\ \E pc \in WorkerPCs :
                    /\ worker' = [worker EXCEPT ![c][k] = pc]
                    /\ pc = "probing" => ~Cancelled(c)
            BY <2>4 DEF WorkerStep, ProbeRefused, Finish, ProbeBegins,
                   ProbeEnds, Publish, Release, Exit, WorkerPCs
        <3> QED
            BY <1>1, <3>1 DEF DesktopInv, TypeOK, ProbeTypeOK
    <2>5. CASE StopTest
        BY <1>1, <2>5 DEF StopTest, CancelTests, batchVars, DesktopInv, TypeOK,
               ProbeTypeOK
    <2>6. \/ UNCHANGED <<session, ctx, worker>>
          \/ \E c \in Batches : StartBatch(c) \/ Spawn(c)
          \/ \E c \in Batches, k \in Tags : WorkerStep(c, k)
          \/ StopTest
        BY <1>1 DEF Next, CallStep, Begin, PrepareEnv, PartUp, PrepareFails,
               BatchStep, NextTag, LoopDone, Wait, Reclaim, Respond, CloseEnv,
               CloseBox, ClosePart, BoxCloses, Work, QueryURLTest, Terminated,
               vars, probeVars, batchVars
    <2> QED
        BY <2>1, <2>2, <2>3, <2>4, <2>5, <2>6
<1>2. DesktopInv /\ [Next]_vars => [Final]_probeVars
    BY <1>1
<1> QED
    BY <1>2, DesktopInvariant, PTL DEF Spec, StopIsFinal

\* After StopTest a batch starts at most the one tag its loop waits with.
THEOREM DesktopStopStartsOne == Spec => OnlyWaitingTagStarts
<1> DEFINE Waiting == \A b \in Batches : at[b] # "none" /\ Cancelled(b) =>
               /\ at[b] # "limit" => at'[b] # "limit"
               /\ \A k \in Tags : worker[b][k] = "none" /\ worker'[b][k] # "none" =>
                     at[b] = "limit" /\ at'[b] = "next" /\ k = next[b]
<1>1. ASSUME DesktopInv, [Next]_vars PROVE Waiting
    <2> SUFFICES ASSUME NEW b \in Batches, at[b] # "none", Cancelled(b)
                 PROVE  /\ at[b] # "limit" => at'[b] # "limit"
                        /\ \A k \in Tags :
                              worker[b][k] = "none" /\ worker'[b][k] # "none" =>
                                 at[b] = "limit" /\ at'[b] = "next" /\ k = next[b]
        OBVIOUS
    <2> USE <1>1 DEF DesktopInv, TypeOK, ProbeTypeOK
    <2>1. CASE UNCHANGED <<at, worker>>
        BY <2>1
    <2>2. ASSUME NEW c \in Batches, StartBatch(c)
          PROVE  worker' = worker /\ at'[b] = at[b]
        BY <2>2 DEF StartBatch, TestContext
    <2>3. ASSUME NEW c \in Batches, NextTag(c)
          PROVE  worker' = worker /\ at'[b] = at[b]
        BY <2>3 DEF NextTag
    <2>4. ASSUME NEW c \in Batches, Spawn(c)
          PROVE  /\ at[b] # "limit" => at'[b] # "limit"
                 /\ \A k \in Tags : worker[b][k] = "none" /\ worker'[b][k] # "none" =>
                       at[b] = "limit" /\ at'[b] = "next" /\ k = next[b]
        BY <2>4 DEF Spawn
    <2>5. ASSUME NEW c \in Batches, LoopDone(c) \/ Wait(c) \/ Reclaim(c)
          PROVE  worker' = worker /\ (at[b] # "limit" => at'[b] # "limit")
        BY <2>5 DEF LoopDone, Wait, Reclaim
    <2>6. ASSUME NEW c \in Batches, NEW k \in Tags, WorkerStep(c, k)
          PROVE  /\ at' = at
                 /\ \A j \in Tags : worker[b][j] = "none" => worker'[b][j] = "none"
        <3>1. /\ at' = at /\ worker[c][k] # "none"
              /\ \E pc \in WorkerPCs : worker' = [worker EXCEPT ![c][k] = pc]
            BY <2>6 DEF WorkerStep, ProbeRefused, Finish, ProbeBegins,
                   ProbeEnds, Publish, Release, Exit, WorkerPCs
        <3> QED
            BY <3>1
    <2>7. \/ UNCHANGED <<at, worker>>
          \/ \E c \in Batches : \/ StartBatch(c) \/ NextTag(c) \/ Spawn(c)
                               \/ LoopDone(c) \/ Wait(c) \/ Reclaim(c)
          \/ \E c \in Batches, k \in Tags : WorkerStep(c, k)
        BY DEF Next, CallStep, Begin, PrepareEnv, PartUp, PrepareFails, BatchStep,
               Respond, CloseEnv, CloseBox, ClosePart, BoxCloses, Work,
               QueryURLTest, StopTest, CancelTests, Terminated, vars, probeVars, batchVars
    <2> QED
        BY <2>1, <2>2, <2>3, <2>4, <2>5, <2>6, <2>7
<1>2. DesktopInv /\ [Next]_vars => [Waiting]_probeVars
    BY <1>1
<1> QED
    BY <1>2, DesktopInvariant, PTL DEF Spec, OnlyWaitingTagStarts

=============================================================================
