----------------------------- MODULE CoreProcess -----------------------------
(***************************************************************************)
(* The desktop core as a process (main.go, internal/ipc, parentcheck) and  *)
(* the loop that serves framed requests over its one connection            *)
(* (internal/rpc/dispatch.go).  A handler is external here: it returns,    *)
(* fails or panics in a goroutine of its own.                              *)
(***************************************************************************)
EXTENDS Naturals, Sequences

CONSTANTS
    Requests,       \* frames the GUI sends
    Attempts        \* connection attempts of RunCore

VARIABLES
    corePC,         \* "check", "connect", "serve", "dropped", "exited"
    exitCode,       \* "none", "fatal", "panic"
    attempt,
    parent,         \* "alive", "gone"
    watching,       \* the goroutine that watches the parent has begun
    conn,           \* "none", "open", "lost"
    reqPC,          \* where the goroutine of each request is
    writeMu,        \* the request whose goroutine writes, or "free"
    wire            \* what was written, as <<request, "header" or "data">>

vars == <<corePC, exitCode, attempt, parent, watching, conn, reqPC, writeMu, wire>>

Init ==
    /\ corePC = "check" /\ exitCode = "none" /\ attempt = 0
    /\ parent = "alive" /\ watching = FALSE /\ conn = "none"
    /\ reqPC = [r \in Requests |-> "unsent"] /\ writeMu = "free" /\ wire = <<>>

Exit(code) ==
    /\ corePC' = "exited" /\ exitCode' = code
    /\ UNCHANGED <<attempt, parent, watching, conn, reqPC, writeMu, wire>>

-----------------------------------------------------------------------------
\* No socket name, or a parent that is not the GUI beside this binary.
CheckFails == corePC = "check" /\ Exit("fatal")

CheckParentProcess ==
    /\ corePC = "check"
    /\ corePC' = "connect" /\ watching' = TRUE
    /\ UNCHANGED <<exitCode, attempt, parent, conn, reqPC, writeMu, wire>>

\* Signal 0 every ten seconds, or Wait on Windows.
WatchParent == watching /\ parent = "gone" /\ corePC # "exited" /\ Exit("fatal")

ParentExits ==
    /\ parent = "alive" /\ parent' = "gone"
    /\ UNCHANGED <<corePC, exitCode, attempt, watching, conn, reqPC, writeMu, wire>>

ConnectIPC ==
    /\ corePC = "connect" /\ attempt < Attempts
    /\ corePC' = "serve" /\ conn' = "open"
    /\ UNCHANGED <<exitCode, attempt, parent, watching, reqPC, writeMu, wire>>

\* The dial fails and is tried again, the last time it ends the process.
ConnectFails ==
    /\ corePC = "connect" /\ attempt < Attempts
    /\ attempt' = attempt + 1
    /\ IF attempt + 1 = Attempts
       THEN corePC' = "exited" /\ exitCode' = "fatal"
       ELSE UNCHANGED <<corePC, exitCode>>
    /\ UNCHANGED <<parent, watching, conn, reqPC, writeMu, wire>>

\* The process at the other end of the socket is not the parent.
PeerRefused == corePC = "connect" /\ Exit("fatal")

\* The memory watchdog, or a goroutine no recover covers.
Panic == corePC # "exited" /\ Exit("panic")

-----------------------------------------------------------------------------
\* A whole frame is read and gets a goroutine.
ReadRequest(r) ==
    /\ corePC = "serve" /\ conn = "open" /\ reqPC[r] = "unsent"
    /\ reqPC' = [reqPC EXCEPT ![r] = "dispatch"]
    /\ UNCHANGED <<corePC, exitCode, attempt, parent, watching, conn, writeMu, wire>>

dispatchDroppingPanics(r) ==
    /\ corePC \in {"serve", "dropped"} /\ reqPC[r] = "dispatch"
    /\ \E to \in {"lock", "done"} : reqPC' = [reqPC EXCEPT ![r] = to]
    /\ UNCHANGED <<corePC, exitCode, attempt, parent, watching, conn, writeMu, wire>>

\* The handler returned data or an error, the method is unknown, or the
\* handler panicked and was recovered.  All of them are answered.
dispatch(r) ==
    /\ corePC \in {"serve", "dropped"} /\ reqPC[r] = "dispatch"
    /\ reqPC' = [reqPC EXCEPT ![r] = "lock"]
    /\ UNCHANGED <<corePC, exitCode, attempt, parent, watching, conn, writeMu, wire>>

WriteHeaderUnlocked(r) ==
    /\ corePC = "serve" /\ reqPC[r] = "lock"
    /\ conn = "open"
    /\ reqPC' = [reqPC EXCEPT ![r] = "data"]
    /\ writeMu' = r /\ wire' = Append(wire, <<r, "header">>)
    /\ UNCHANGED <<corePC, exitCode, attempt, parent, watching, conn>>

WriteHeader(r) ==
    /\ corePC \in {"serve", "dropped"} /\ reqPC[r] = "lock" /\ writeMu = "free"
    /\ IF conn = "open"
       THEN /\ reqPC' = [reqPC EXCEPT ![r] = "data"]
            /\ writeMu' = r /\ wire' = Append(wire, <<r, "header">>)
       ELSE /\ reqPC' = [reqPC EXCEPT ![r] = "done"]
            /\ UNCHANGED <<writeMu, wire>>
    /\ UNCHANGED <<corePC, exitCode, attempt, parent, watching, conn>>

\* The body, if it has one; an error shows at the next read.
WriteData(r) ==
    /\ corePC \in {"serve", "dropped"} /\ reqPC[r] = "data"
    /\ reqPC' = [reqPC EXCEPT ![r] = "done"]
    /\ writeMu' = "free"
    /\ wire' = IF conn = "open" THEN Append(wire, <<r, "data">>) ELSE wire
    /\ UNCHANGED <<corePC, exitCode, attempt, parent, watching, conn>>

\* The GUI closes its end, or dies.
PeerGoes ==
    /\ conn = "open" /\ conn' = "lost"
    /\ UNCHANGED <<corePC, exitCode, attempt, parent, watching, reqPC, writeMu, wire>>

\* A read fails: Serve closes the connection and returns, and the core exits
\* with what its handlers still do.
ServeReturns ==
    /\ corePC = "serve" /\ conn = "lost"
    /\ corePC' = "dropped"
    /\ UNCHANGED <<exitCode, attempt, parent, watching, conn, reqPC, writeMu, wire>>
Dropped == corePC = "dropped" /\ Exit("fatal")

RequestStep(r) == dispatch(r) \/ WriteHeader(r) \/ WriteData(r)
MainStep == CheckParentProcess \/ ConnectFails \/ ServeReturns \/ Dropped

Next ==
    \/ MainStep \/ WatchParent
    \/ CheckFails \/ ConnectIPC \/ PeerRefused \/ Panic
    \/ ParentExits \/ PeerGoes
    \/ \E r \in Requests : ReadRequest(r) \/ RequestStep(r)

-----------------------------------------------------------------------------
(* Properties *)

\* The connection carries whole responses: a header is followed by its own
\* body before any other header, and no request is answered twice, whatever
\* goroutines end or panic at the same time.
ResponsesWhole ==
    \A i \in DOMAIN wire :
        /\ wire[i][2] = "data" => i > 1 /\ wire[i - 1] = <<wire[i][1], "header">>
        /\ \A j \in DOMAIN wire : wire[i] = wire[j] => i = j

\* Every request that was read is answered, unless the connection or the
\* process goes first.
RequestsAnswered ==
    \A r \in Requests : reqPC[r] = "dispatch" ~>
        (\E i \in DOMAIN wire : wire[i] = <<r, "data">>) \/ conn = "lost" \/ corePC = "exited"

-----------------------------------------------------------------------------
(* What the proofs carry along *)

\* The holder of the lock has written its header last, and nobody has written
\* before its turn.
CoreInv ==
    /\ wire \in Seq(Requests \X {"header", "data"})
    /\ reqPC \in [Requests -> {"unsent", "dispatch", "lock", "data", "done"}]
    /\ writeMu \in Requests \cup {"free"}
    /\ \A r \in Requests :
          /\ reqPC[r] = "data" <=> writeMu = r
          /\ reqPC[r] \in {"unsent", "dispatch", "lock"} => \A i \in DOMAIN wire : wire[i][1] # r
          /\ reqPC[r] = "data" => /\ wire # <<>> /\ wire[Len(wire)] = <<r, "header">>
                                  /\ \A i \in DOMAIN wire : wire[i] # <<r, "data">>
    /\ ResponsesWhole

\* A goroutine that has ended has answered its request, unless the connection
\* was lost: a method that is unknown, an error and a panic included.
EndedIsAnswered ==
    \A r \in Requests :
        reqPC[r] = "done" => conn # "open" \/ \E i \in DOMAIN wire : wire[i] = <<r, "data">>

\* Nothing is read before there is a connection, and there is only ever one.
ConnInv == corePC \in {"check", "connect"} =>
    conn = "none" /\ \A r \in Requests : reqPC[r] = "unsent"

=============================================================================
