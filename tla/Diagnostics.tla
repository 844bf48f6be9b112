----------------------------- MODULE Diagnostics -----------------------------
(***************************************************************************)
(* Capture of diagnostics (internal/rpc/diagnostics.go).  Calls overlap,   *)
(* any call may be stopped early, and any step of one may panic: dispatch  *)
(* recovers it after the deferred functions have run.                      *)
(***************************************************************************)
EXTENDS Naturals, FiniteSets

CONSTANT Captures   \* calls of CaptureDiagnostics

VARIABLES
    capPC,          \* where each call is
    opts,           \* what each call was asked for: a subset of Profilers
    defers,         \* what the call's deferred functions will undo
    diagnosticsMu,  \* the call that holds it, or "free"
    diagnosticsStop,    \* the call the published stop function cancels, or "none"
    stopped,        \* calls whose window was cancelled
    profiling       \* profilers that are on

vars == <<capPC, opts, defers, diagnosticsMu, diagnosticsStop, stopped, profiling>>

Profilers == {"contention", "trace", "cpu"}

Init ==
    /\ capPC = [c \in Captures |-> "idle"] /\ opts = [c \in Captures |-> {}]
    /\ defers = [c \in Captures |-> {}] /\ diagnosticsMu = "free" /\ diagnosticsStop = "none"
    /\ stopped = {} /\ profiling = {}

Goto(c, from, to) == capPC[c] = from /\ capPC' = [capPC EXCEPT ![c] = to]

\* A window that is not positive is refused before the lock, a second capture
\* by TryLock.
CaptureDiagnostics(c, asked) ==
    /\ capPC[c] = "idle"
    /\ IF diagnosticsMu = "free"
       THEN Goto(c, "idle", "locked") /\ diagnosticsMu' = c
       ELSE Goto(c, "idle", "refused") /\ UNCHANGED diagnosticsMu
    /\ opts' = [opts EXCEPT ![c] = asked]
    /\ UNCHANGED <<defers, diagnosticsStop, stopped, profiling>>

\* Attachments over the limit: refused with the lock held, which is deferred.
AttachmentsRefused(c) ==
    /\ Goto(c, "locked", "unlock")
    /\ UNCHANGED <<opts, defers, diagnosticsMu, diagnosticsStop, stopped, profiling>>

\* From here a stop can end the window; the metadata, the first metrics and
\* the first heap profile follow.
PublishStop(c) ==
    /\ Goto(c, "locked", "contention")
    /\ diagnosticsStop' = c
    /\ UNCHANGED <<opts, defers, diagnosticsMu, stopped, profiling>>

\* Turns a profiler on, and its undoing is deferred.
SwitchOn(c, profiler, from, to) ==
    /\ Goto(c, from, to)
    /\ profiler \in opts[c]
    /\ profiling' = profiling \cup {profiler}
    /\ defers' = [defers EXCEPT ![c] = @ \cup {profiler}]
    /\ UNCHANGED <<opts, diagnosticsMu, diagnosticsStop, stopped>>

\* It was not asked for, or would not start, which the archive records.
SwitchOff(c, from, to) ==
    /\ Goto(c, from, to)
    /\ UNCHANGED <<opts, defers, diagnosticsMu, diagnosticsStop, stopped, profiling>>

StartContention(c) ==
    \/ SwitchOn(c, "contention", "contention", "trace")
    \/ "contention" \notin opts[c] /\ SwitchOff(c, "contention", "trace")
StartTrace(c) == SwitchOn(c, "trace", "trace", "cpu") \/ SwitchOff(c, "trace", "cpu")
StartCPU(c) ==
    \/ SwitchOff(c, "cpu", "window")
    \/ /\ Goto(c, "cpu", "window")
       /\ profiling' = profiling \cup {"cpu"}
       /\ defers' = [defers EXCEPT ![c] = @ \cup {"cpu"}]
       /\ UNCHANGED <<opts, diagnosticsMu, diagnosticsStop, stopped>>

\* The window passes or is cancelled; the CPU profile and the trace are
\* stopped and written.  Their deferred stops then find nothing to do.
WindowEnds(c) ==
    /\ Goto(c, "window", "unwind")
    /\ profiling' = profiling \ (defers[c] \cap {"cpu", "trace"})
    /\ UNCHANGED <<opts, defers, diagnosticsMu, diagnosticsStop, stopped>>

\* Any step between PublishStop and the end may panic.
Panics(c) ==
    /\ capPC[c] \in {"contention", "trace", "cpu", "window", "unwind", "collect"}
    /\ capPC' = [capPC EXCEPT ![c] = IF @ = "collect" THEN "unpublish" ELSE "panicking"]
    /\ UNCHANGED <<opts, defers, diagnosticsMu, diagnosticsStop, stopped, profiling>>

UnwindOnlyReturn(c) ==
    /\ \/ Goto(c, "unwind", "collect") /\ profiling' = profiling \ defers[c]
       \/ Goto(c, "panicking", "unpublish") /\ UNCHANGED profiling
    /\ UNCHANGED <<opts, defers, diagnosticsMu, diagnosticsStop, stopped>>

\* The deferred functions of captureDiagnosticsWindow: the rates go back to
\* what they were.
Unwind(c) ==
    /\ Goto(c, "unwind", "collect") \/ Goto(c, "panicking", "unpublish")
    /\ profiling' = profiling \ defers[c]
    /\ UNCHANGED <<opts, defers, diagnosticsMu, diagnosticsStop, stopped>>

\* Goroutine and heap profiles, attachments and the metadata.
Collect(c) ==
    /\ Goto(c, "collect", "unpublish")
    /\ UNCHANGED <<opts, defers, diagnosticsMu, diagnosticsStop, stopped, profiling>>

UnpublishForgotten(c) ==
    /\ Goto(c, "unpublish", "unlock")
    /\ UNCHANGED <<opts, defers, diagnosticsMu, diagnosticsStop, stopped, profiling>>

\* The deferred functions of CaptureDiagnostics, last in first out.
Unpublish(c) ==
    /\ Goto(c, "unpublish", "unlock")
    /\ diagnosticsStop' = "none"
    /\ UNCHANGED <<opts, defers, diagnosticsMu, stopped, profiling>>

Unlock(c) ==
    /\ Goto(c, "unlock", "done")
    /\ diagnosticsMu' = "free"
    /\ UNCHANGED <<opts, defers, diagnosticsStop, stopped, profiling>>

StopDiagnostics ==
    /\ diagnosticsStop # "none" /\ diagnosticsStop \notin stopped
    /\ stopped' = stopped \cup {diagnosticsStop}
    /\ UNCHANGED <<capPC, opts, defers, diagnosticsMu, diagnosticsStop, profiling>>

Next ==
    \/ \E c \in Captures :
        \/ \E asked \in SUBSET {"contention", "trace"} : CaptureDiagnostics(c, asked)
        \/ AttachmentsRefused(c) \/ PublishStop(c)
        \/ StartContention(c) \/ StartTrace(c) \/ StartCPU(c) \/ WindowEnds(c) \/ Panics(c)
        \/ Unwind(c) \/ Collect(c) \/ Unpublish(c) \/ Unlock(c)
    \/ StopDiagnostics

-----------------------------------------------------------------------------
(* Properties *)

InWindow(c) == capPC[c] \in {"contention", "trace", "cpu", "window"}

\* No profiler runs on once its window is over, not after a panic either.
ProfilersStopped ==
    /\ profiling # {} => diagnosticsMu # "free"
    /\ \A c \in Captures : capPC[c] \in {"collect", "unpublish", "unlock"} => profiling = {}

\* A stop reaches the capture whose window is open and never a later one: the
\* published stop function is always that of the call that holds the lock.
StopHitsTheCurrent ==
    /\ \A c \in Captures : InWindow(c) => diagnosticsStop = c
    /\ diagnosticsStop # "none" => diagnosticsStop = diagnosticsMu

-----------------------------------------------------------------------------
(* What the proofs carry along *)

Measuring == {"contention", "trace", "cpu", "window", "unwind", "panicking"}
Stoppable == Measuring \cup {"collect", "unpublish"}
Holding   == Stoppable \cup {"locked", "unlock"}

\* Who holds the lock and whose stop function is published can be told from
\* where the calls are, and a profiler that is on is one a call has deferred
\* to stop.
DiagInv ==
    /\ capPC \in [Captures -> Holding \cup {"idle", "refused", "done"}]
    /\ defers \in [Captures -> SUBSET Profilers]
    /\ diagnosticsMu \in Captures \cup {"free"}
    /\ diagnosticsStop \in Captures \cup {"none"}
    /\ \A c \in Captures : /\ capPC[c] \in Holding <=> diagnosticsMu = c
                           /\ capPC[c] \in Stoppable <=> diagnosticsStop = c
    /\ \A p \in profiling : \E c \in Captures : capPC[c] \in Measuring /\ p \in defers[c]

=============================================================================
