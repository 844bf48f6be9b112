---------------------------- MODULE DesktopTest ----------------------------
(***************************************************************************)
(* The RPC calls Test and IPTest (internal/rpc/urltest.go) around a batch: *)
(* prepareTestEnv builds the instances to probe through, the deferred      *)
(* env.close() takes them down, QueryURLTest drains the results meanwhile  *)
(* and StopTest cancels.  Every call has a goroutine of its own.           *)
(***************************************************************************)
EXTENDS ProbeBatch

CONSTANT Kinds  \* the requests clients send: "xray", "full", "current"

\* A test of the current profile has one tag, "proxy" or the default outbound.
ASSUME KindsAssumption ==
    /\ Kinds \subseteq {"xray", "full", "current"}
    /\ "current" \in Kinds => N >= 1

VARIABLES
    call,       \* where each call is
    env,        \* the instances each call has built
    delivered   \* results QueryURLTest has handed out

callVars == <<call, env>>
vars     == <<session, ctx, size, at, next, worker, resMap, reporter, call, env,
              delivered>>

CallPCs == {"idle", "xray", "full", "box", "ready", "running", "close",
            "closeFull", "closeXray", "done"}
Parts   == {"xray", "full", "box"}
Lives   == {"none", "up", "closing", "closed"}

Init ==
    /\ ProbeInit
    /\ call = [b \in Batches |-> "idle"]
    /\ env = [b \in Batches |-> [p \in Parts |-> "none"]]
    /\ delivered = {}

-----------------------------------------------------------------------------
(* prepareTestEnv *)

\* NeedXray or not; test-current probes the published box and owns nothing; without a published
\* box the call answers at once.
Begin(b) ==
    /\ call[b] = "idle"
    /\ \E kind \in Kinds :
          \E to \in IF kind = "current" THEN {"ready", "done"} ELSE {kind} :
              call' = [call EXCEPT ![b] = to]
    /\ UNCHANGED <<probeVars, env, delivered>>

\* One part is created, prepared and started, and its cleanup is recorded.
PartUp(b, part, to) ==
    /\ call[b] = part
    /\ env' = [env EXCEPT ![b][part] = "up"]
    /\ call' = [call EXCEPT ![b] = to]
    /\ UNCHANGED <<probeVars, delivered>>

PrepareEnv(b) ==
    \/ PartUp(b, "xray", "full")
    \/ PartUp(b, "full", "box")
    \/ PartUp(b, "box", "ready")

PrepareFailsAtOnce(b) ==
    /\ call[b] \in {"xray", "full", "box"}
    /\ call' = [call EXCEPT ![b] = "done"]
    /\ UNCHANGED <<probeVars, env, delivered>>

\* A part fails (and has closed what it had begun): unwind the earlier ones.
PrepareFails(b) ==
    /\ call[b] \in {"xray", "full", "box"}
    /\ call' = [call EXCEPT ![b] = "close"]
    /\ UNCHANGED <<probeVars, env, delivered>>

-----------------------------------------------------------------------------
(* The batch, and env.close() after it *)

\* A test of the current profile, which has built nothing, has one tag.
StartBatch(b) ==
    /\ call[b] = "ready"
    /\ TestContext(b, IF env[b]["box"] = "up" THEN N ELSE 1)
    /\ call' = [call EXCEPT ![b] = "running"]
    /\ UNCHANGED <<env, delivered>>

\* The response is put together, with a snapshot of the tunnels that failed.
Respond(b) ==
    /\ call[b] = "running"
    /\ at[b] = "returned"
    /\ call' = [call EXCEPT ![b] = "close"]
    /\ UNCHANGED <<probeVars, env, delivered>>

\* box.CloseWithTimeout(..., false), first because the cleanups run backwards:
\* it returns when the box has closed or the timer fires.
CloseBox(b) ==
    /\ call[b] = "close"
    /\ env' = [env EXCEPT ![b]["box"] = IF @ = "up" THEN "closing" ELSE @]
    /\ call' = [call EXCEPT ![b] = "closeFull"]
    /\ UNCHANGED <<probeVars, delivered>>

BoxCloses(b) ==
    /\ env[b]["box"] = "closing"
    /\ env' = [env EXCEPT ![b]["box"] = "closed"]
    /\ UNCHANGED <<probeVars, call, delivered>>

ClosePart(b, from, part, to) ==
    /\ call[b] = from
    /\ env' = [env EXCEPT ![b][part] = IF @ = "up" THEN "closed" ELSE @]
    /\ call' = [call EXCEPT ![b] = to]
    /\ UNCHANGED <<probeVars, delivered>>

CloseEnv(b) ==
    \/ CloseBox(b)
    \/ ClosePart(b, "closeFull", "full", "closeXray")
    \/ ClosePart(b, "closeXray", "xray", "done")

-----------------------------------------------------------------------------
(* The other calls *)

QueryWithoutReset ==
    /\ reporter # {}
    /\ delivered' = delivered \cup reporter
    /\ UNCHANGED <<session, batchVars, reporter, callVars>>

\* Results(): the buffer is handed out and emptied in one section.
QueryURLTest ==
    /\ reporter # {}
    /\ delivered' = delivered \cup reporter
    /\ reporter' = {}
    /\ UNCHANGED <<session, batchVars, callVars>>

StopTest == CancelTests /\ UNCHANGED <<callVars, delivered>>

-----------------------------------------------------------------------------
CallStep(b) ==
    \/ PrepareEnv(b) \/ PrepareFails(b)
    \/ StartBatch(b)
    \/ BatchStep(b) /\ UNCHANGED <<callVars, delivered>>
    \/ Respond(b)
    \/ CloseEnv(b)

Work(b, k) == WorkerStep(b, k) /\ UNCHANGED <<callVars, delivered>>

\* Every call has returned and every box has gone: nothing is left to do.
Terminated ==
    /\ \A b \in Batches : call[b] = "done" /\ env[b]["box"] # "closing"
    /\ UNCHANGED vars

Next ==
    \/ \E b \in Batches :
          Begin(b) \/ CallStep(b) \/ BoxCloses(b) \/ \E k \in Tags : Work(b, k)
    \/ QueryURLTest
    \/ StopTest
    \/ Terminated

Spec == Init /\ [][Next]_vars

\* Calls in flight are carried on and every probe has a timeout.  Nobody has
\* to call, poll or stop.
FairSpec ==
    /\ Spec
    /\ \A b \in Batches : WF_vars(CallStep(b)) /\ WF_vars(BoxCloses(b))
    /\ \A b \in Batches, k \in Tags : WF_vars(Work(b, k))

-----------------------------------------------------------------------------
(* Properties *)

TypeOK ==
    /\ ProbeTypeOK
    /\ call \in [Batches -> CallPCs]
    /\ env \in [Batches -> [Parts -> Lives]]
    /\ delivered \in SUBSET Results

\* QueryURLTest hands out a result at most once.
DeliveredOnce == delivered \cap reporter = {}

\* No goroutine of a batch still runs, and no tunnel is still being read, when
\* the box it goes through is taken down.
ProbesInsideEnv ==
    \A b \in Batches :
        (\E k \in Tags : worker[b][k] \notin {"none", "done"}) \/ at[b] \notin {"none", "returned"} =>
            "closed" \notin {env[b][p] : p \in Parts} /\ env[b]["box"] # "closing"

\* A call that returned leaves nothing it built behind, whichever step of the
\* preparation failed; only the box may still be on its way down.
NothingLeaks ==
    \A b \in Batches : call[b] = "done" =>
        \A p \in Parts : env[b][p] # "up"

(***************************************************************************)
(* The inductive invariant: a drained result was published and cannot be   *)
(* published again, and the parts of an environment go down only when its  *)
(* batch has not begun or has returned.                                    *)
(***************************************************************************)
DeliveryInv ==
    \A r \in delivered :
        worker[r[1]][r[2]] \in {"published", "released", "done"} /\ r \notin reporter

CallInv ==
    \A b \in Batches :
        /\ call[b] \in {"idle", "xray", "full", "box", "ready"} => at[b] = "none"
        /\ call[b] = "running" => at[b] # "none"
        /\ call[b] \in {"close", "closeFull", "closeXray", "done"} =>
              at[b] \in {"none", "returned"}

EnvInv ==
    \A b \in Batches :
        /\ call[b] = "idle" => \A p \in Parts : env[b][p] = "none"
        /\ call[b] = "ready" /\ env[b]["box"] # "up" => N >= 1
        /\ call[b] \notin {"close", "closeFull", "closeXray", "done"} =>
              \A p \in Parts : env[b][p] \in {"none", "up"}
        /\ call[b] \in {"closeFull", "closeXray", "done"} => env[b]["box"] # "up"
        /\ call[b] \in {"closeXray", "done"} => env[b]["full"] # "up"
        /\ call[b] = "done" => env[b]["xray"] # "up"

DesktopInv ==
    TypeOK /\ LoopInv /\ ResultInv /\ BufferInv /\ DeliveryInv /\ CallInv /\ EnvInv

\* Every call returns and its box goes down.
TestReturns ==
    \A b \in Batches :
        call[b] # "idle" ~> call[b] = "done" /\ env[b]["box"] # "closing"

=============================================================================
