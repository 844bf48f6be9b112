------------------------------ MODULE SpeedTest ------------------------------
(***************************************************************************)
(* Speed and country tests (internal/probe/speedtest.go, the calls of      *)
(* internal/rpc/speedtest.go and mobile/test.go).  Tests may overlap; they *)
(* share the progress of SpTQuerier and the buffer of country results.     *)
(***************************************************************************)
EXTENDS Naturals, FiniteSets

CONSTANTS
    Tests,          \* calls of SpeedTest
    LastTag,        \* every test has the tags 1..LastTag
    CountrySlots    \* countryConcurrency, after its default

VARIABLES
    spPC, spKind, spTag,    \* of each test; spTag is the tag in turn
    spCtx,          \* the session context each test took
    answered,       \* tags with a result
    workers,        \* country goroutines that run
    transfer,       \* the transfer of the tag in turn: "none", "running", "done"
    orphans,        \* transfers whose test was cancelled and did not wait
    isRunning, current,     \* SpTQuerier
    overlapped,     \* two tests have sampled at once since nobody last did
    country         \* CountryResults, as <<test, tag>>

vars == <<spPC, spKind, spTag, spCtx, answered, workers, transfer, orphans,
          isRunning, current, overlapped, country>>

Tags == 1..LastTag
Sampling == {t \in Tests : spPC[t] = "sample"}

Init ==
    /\ spPC = [t \in Tests |-> "idle"] /\ spKind = [t \in Tests |-> "none"]
    /\ spTag = [t \in Tests |-> 1] /\ spCtx = [t \in Tests |-> "none"]
    /\ answered = [t \in Tests |-> {}] /\ workers = [t \in Tests |-> {}]
    /\ transfer = [t \in Tests |-> "none"] /\ orphans = {}
    /\ isRunning = FALSE /\ current = <<0, 0>> /\ overlapped = FALSE /\ country = {}

Goto(t, from, to) == spPC[t] = from /\ spPC' = [spPC EXCEPT ![t] = to]

\* The test has its environment and takes the session's context.
BatchSpeedTest(t, kind) ==
    /\ Goto(t, "idle", "loop")
    /\ spKind' = [spKind EXCEPT ![t] = kind]
    /\ spCtx' = [spCtx EXCEPT ![t] = "live"]
    /\ UNCHANGED <<spTag, answered, workers, transfer, orphans, isRunning, current, overlapped, country>>

\* The head of the loop; a tag without an outbound has its result at once.
NextTag(t, exists) ==
    LET tag == spTag[t]
    IN  /\ spPC[t] = "loop" /\ tag \in Tags /\ spCtx[t] = "live"
        /\ answered' = [answered EXCEPT ![t] = @ \cup {tag}]
        /\ IF exists
           THEN /\ Goto(t, "loop", IF spKind[t] = "country" THEN "queue" ELSE "server")
                /\ UNCHANGED <<spTag, country>>
           ELSE /\ spTag' = [spTag EXCEPT ![t] = tag + 1]
                /\ country' = IF spKind[t] = "country" THEN country \cup {<<t, tag>>} ELSE country
                /\ UNCHANGED spPC
        /\ UNCHANGED <<spKind, spCtx, workers, transfer, orphans, isRunning, current, overlapped>>

\* The last tag, or a stop.
LeaveLoop(t) ==
    /\ spTag[t] \notin Tags \/ spCtx[t] = "cancelled"
    /\ Goto(t, "loop", "wait")
    /\ UNCHANGED <<spKind, spTag, spCtx, answered, workers, transfer, orphans, isRunning, current, overlapped, country>>

SpawnCountry(t) ==
    /\ Goto(t, "queue", "loop")
    /\ Cardinality(workers[t]) < CountrySlots
    /\ workers' = [workers EXCEPT ![t] = @ \cup {spTag[t]}]
    /\ spTag' = [spTag EXCEPT ![t] = @ + 1]
    /\ UNCHANGED <<spKind, spCtx, answered, transfer, orphans, isRunning, current, overlapped, country>>

\* Whatever came of it, the result is published.
countryTest(t, tag) ==
    /\ tag \in workers[t]
    /\ workers' = [workers EXCEPT ![t] = @ \ {tag}]
    /\ country' = country \cup {<<t, tag>>}
    /\ UNCHANGED <<spPC, spKind, spTag, spCtx, answered, transfer, orphans, isRunning, current, overlapped>>

\* No server, or a bad address: the tag is over before it sampled anything.
ServerFails(t) ==
    /\ Goto(t, "server", "loop")
    /\ spTag' = [spTag EXCEPT ![t] = @ + 1]
    /\ UNCHANGED <<spKind, spCtx, answered, workers, transfer, orphans, isRunning, current, overlapped, country>>

\* The transfer gets a goroutine and the querier shows the test.
BeginTransfer(t) ==
    /\ Goto(t, "server", "sample")
    /\ transfer' = [transfer EXCEPT ![t] = "running"]
    /\ isRunning' = TRUE
    /\ overlapped' = (overlapped \/ Sampling # {})
    /\ UNCHANGED <<spKind, spTag, spCtx, answered, workers, orphans, current, country>>

TransferEnds(t) ==
    /\ transfer[t] = "running"
    /\ transfer' = [transfer EXCEPT ![t] = "done"]
    /\ UNCHANGED <<spPC, spKind, spTag, spCtx, answered, workers, orphans, isRunning, current, overlapped, country>>

sample(t) ==
    /\ spPC[t] = "sample" /\ current # <<t, spTag[t]>>
    /\ current' = <<t, spTag[t]>>
    /\ UNCHANGED <<spPC, spKind, spTag, spCtx, answered, workers, transfer, orphans, isRunning, overlapped, country>>

EndSampling(t) ==
    /\ Goto(t, "sample", "loop")
    /\ spTag' = [spTag EXCEPT ![t] = @ + 1]
    /\ transfer' = [transfer EXCEPT ![t] = "none"]
    /\ isRunning' = FALSE
    /\ overlapped' = (overlapped /\ Sampling # {t})
    /\ UNCHANGED <<spKind, spCtx, answered, workers, country>>

TransferDone(t) ==
    /\ transfer[t] = "done"
    /\ current' = <<t, spTag[t]>>
    /\ EndSampling(t)
    /\ UNCHANGED orphans

TransferCancelledRunning(t) ==
    /\ spCtx[t] = "cancelled"
    /\ Goto(t, "sample", "loop")
    /\ spTag' = [spTag EXCEPT ![t] = @ + 1]
    /\ transfer' = [transfer EXCEPT ![t] = "none"]
    /\ UNCHANGED <<spKind, spCtx, answered, workers, orphans, isRunning, current, overlapped, country>>

\* A stop ends the sampling at once, without a last sample and without waiting
\* for the goroutine.
TransferCancelled(t) ==
    /\ spCtx[t] = "cancelled"
    /\ orphans' = IF transfer[t] = "running" THEN orphans \cup {<<t, spTag[t]>>} ELSE orphans
    /\ EndSampling(t)
    /\ UNCHANGED current

\* Its context is cancelled and its connections are closed.
OrphanEnds(o) ==
    /\ o \in orphans
    /\ orphans' = orphans \ {o}
    /\ UNCHANGED <<spPC, spKind, spTag, spCtx, answered, workers, transfer, isRunning, current, overlapped, country>>

ReturnKeeping(t) ==
    /\ workers[t] = {}
    /\ Goto(t, "wait", "returned")
    /\ UNCHANGED <<spKind, spTag, spCtx, answered, workers, transfer, orphans, isRunning, current, overlapped, country>>

\* wg.Wait, then what no poll has drained is reclaimed.
Return(t) ==
    /\ workers[t] = {}
    /\ Goto(t, "wait", "returned")
    /\ country' = {r \in country : r[1] # t \/ r[2] \notin answered[t]}
    /\ UNCHANGED <<spKind, spTag, spCtx, answered, workers, transfer, orphans, isRunning, current, overlapped>>

QueryCountryTest ==
    /\ country # {} /\ country' = {}
    /\ UNCHANGED <<spPC, spKind, spTag, spCtx, answered, workers, transfer, orphans, isRunning, current, overlapped>>

StopTest ==
    /\ \E t \in Tests : spCtx[t] = "live"
    /\ spCtx' = [t \in Tests |-> IF spCtx[t] = "live" THEN "cancelled" ELSE spCtx[t]]
    /\ UNCHANGED <<spPC, spKind, spTag, answered, workers, transfer, orphans, isRunning, current, overlapped, country>>

Next ==
    \/ \E t \in Tests :
        \/ \E kind \in {"country", "speed"} : BatchSpeedTest(t, kind)
        \/ \E exists \in BOOLEAN : NextTag(t, exists)
        \/ LeaveLoop(t) \/ SpawnCountry(t) \/ ServerFails(t) \/ BeginTransfer(t) \/ TransferEnds(t)
        \/ sample(t) \/ TransferDone(t) \/ TransferCancelled(t) \/ Return(t)
        \/ \E tag \in Tags : countryTest(t, tag)
    \/ \E o \in orphans : OrphanEnds(o)
    \/ QueryCountryTest
    \/ StopTest

-----------------------------------------------------------------------------
(* Properties *)

\* QuerySpeedTest says that a test is running only while one samples, and, as
\* long as tests do not overlap, whenever one does, cancelled tests included.
ProgressIsLive ==
    /\ isRunning => Sampling # {}
    /\ Sampling # {} /\ ~overlapped => isRunning

\* A test that has returned answered every tag unless it was stopped, runs no
\* country goroutine in its closed environment, and left no country result
\* that a poll would take for one of the next test.
SpeedTestSettled ==
    \A t \in Tests : spPC[t] = "returned" =>
        /\ spCtx[t] = "live" => answered[t] = Tags
        /\ workers[t] = {}
        /\ \A r \in country : r[1] # t

-----------------------------------------------------------------------------
(* What the proofs carry along *)

SpeedTypeOK ==
    /\ spPC \in [Tests -> {"idle", "loop", "queue", "server", "sample", "wait", "returned"}]
    /\ spTag \in [Tests -> 1..(LastTag + 1)]
    /\ spCtx \in [Tests -> {"none", "live", "cancelled"}]
    /\ answered \in [Tests -> SUBSET Tags] /\ workers \in [Tests -> SUBSET Tags]
    /\ country \subseteq Tests \X Tags
    /\ isRunning \in BOOLEAN /\ overlapped \in BOOLEAN

\* The tags before the one in turn have their answers; goroutines and country
\* results belong to tags that have one.
AnswersInv ==
    /\ \A t \in Tests :
          /\ \A k \in Tags : k < spTag[t] => k \in answered[t]
          /\ spPC[t] \in {"queue", "server", "sample"} => spTag[t] \in answered[t]
          /\ workers[t] \subseteq answered[t]
          /\ spPC[t] \in {"idle", "returned"} => workers[t] = {} /\ \A r \in country : r[1] # t
          /\ spPC[t] \in {"wait", "returned"} /\ spCtx[t] = "live" => answered[t] = Tags
    /\ \A r \in country : r[2] \in answered[r[1]]

\* Tests that sample together have been noticed.
SamplingInv ==
    /\ \A t, u \in Tests : spPC[t] = "sample" /\ spPC[u] = "sample" /\ t # u => overlapped
    /\ ProgressIsLive

SpeedInv == SpeedTypeOK /\ AnswersInv /\ SamplingInv

=============================================================================
