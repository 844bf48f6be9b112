---------------------------- MODULE ExtraProcess ----------------------------
(***************************************************************************)
(* The extra process of a profile (internal/process): its configuration    *)
(* file, the token or uid it is started with, and the goroutine that reaps *)
(* it while Stop kills it.  Windows and Unix are two values of `platform`. *)
(***************************************************************************)
EXTENDS Naturals, FiniteSets, Sequences

VARIABLES
    platform,       \* "windows", "unix"
    tokens,         \* what the system offers: the core's own token and the sources'
    exPC,           \* where the caller of CreateExtraConfig, Start and Stop is
    exFile,         \* the configuration: "none", "open", "closed"
    pipes,          \* handles of startWithTokenW that are open
    runner,         \* "none", "cmd", "token": the running that startChild returned
    child,          \* "none", "alive", "exited"
    childToken,     \* "none", "user", "elevated"
    waitPC2,        \* the reaping goroutine
    pumps,          \* output pumps that still run
    handle,         \* tokenRunner.hProcess: "none", "open", "closed"
    runnerMu        \* tokenRunner.mu: "free", "kill"

vars == <<platform, tokens, exPC, exFile, pipes, runner, child, childToken, waitPC2, pumps, handle, runnerMu>>

\* A token is elevated or not; an elevated one may have a linked token.
Token == [elevated : {FALSE}, linked : {"none"}]
         \cup [elevated : {TRUE}, linked : {"none", "user", "elevated"}]

\* The core's own token, those of the sessions and of the shells that can be
\* opened (one loop like the other tries them), and what stripping its own gives.
\* On Unix "elevated" is an effective uid of 0, and a linked "user" the real uid
\* it has then.
Systems == [self : Token, candidates : SUBSET Token, restricted : {"fail", "elevated", "user"}]
NoSystem == [self |-> [elevated |-> FALSE, linked |-> "none"], candidates |-> {}, restricted |-> "fail"]

Init ==
    /\ platform \in {"windows", "unix"} /\ tokens = NoSystem
    /\ exPC = "idle" /\ exFile = "none" /\ pipes = {}
    /\ runner = "none" /\ child = "none" /\ childToken = "none"
    /\ waitPC2 = "none" /\ pumps = 0 /\ handle = "none" /\ runnerMu = "free"

Frame == UNCHANGED <<platform, tokens>>
NoRunner == UNCHANGED <<pipes, runner, child, childToken, waitPC2, pumps, handle, runnerMu>>

-----------------------------------------------------------------------------
(* CreateExtraConfig *)

\* On Unix with privileges the file is made in a directory of its own, which
\* goes with it.
createSecureConfigFile(system) ==
    /\ exPC = "idle" /\ tokens' = system
    /\ platform = "unix" => system.candidates = {}
    /\ \/ exPC' = "write" /\ exFile' = "open"
       \/ exPC' = "failed" /\ UNCHANGED exFile
    /\ UNCHANGED platform /\ NoRunner

\* The content is written and made readable for the child on the descriptor.
CreateExtraConfig ==
    /\ exPC = "write"
    /\ \/ exPC' = "start" /\ exFile' = "closed"
       \/ exPC' = "failed" /\ exFile' = "none"
    /\ Frame /\ NoRunner

-----------------------------------------------------------------------------
(* startChild *)

unelevatedUnchecked(t) == IF t.elevated THEN t.linked ELSE "user"

\* A token that is not elevated, or its linked token if that is not.
unelevated(t) == IF t.elevated /\ t.linked # "user" THEN "fail" ELSE "user"

\* Every source in order, and every session or shell of one, until a token is
\* found; the last source strips the core's own, and makes sure that it did.
unprivilegedToken ==
    LET found(source) == {unelevated(t) : t \in source} \ {"fail", "none"}
        all == found({tokens.self} \cup tokens.candidates)
    IN  IF all # {} THEN CHOOSE t \in all : TRUE
        ELSE IF tokens.restricted = "user" THEN "user" ELSE "fail"

\* What the child runs as: the core itself when it has no privileges, else the
\* user behind it, or there is no child.
ChildToken ==
    IF ~tokens.self.elevated THEN "user"
    ELSE IF platform = "unix" THEN (IF tokens.self.linked = "user" THEN "user" ELSE "fail")
    ELSE unprivilegedToken

UsesToken == platform = "windows" /\ tokens.self.elevated

StartFailed == exPC' = "failed" /\ exFile' = "none"

\* Nothing to run the child as, or the start fails: the configuration goes.
StartRefused ==
    /\ exPC = "start"
    /\ StartFailed
    /\ Frame /\ NoRunner

\* os/exec starts the child, as CreateProcessAsUser with a token or as a plain
\* process, and keeps its own pipes.
startCmd ==
    /\ exPC \in {"start", "asUser"} /\ ChildToken # "fail" /\ (exPC = "start" => ~UsesToken)
    /\ \/ /\ exPC' = "running" /\ runner' = "cmd" /\ child' = "alive"
          /\ childToken' = ChildToken /\ waitPC2' = "wait"
          /\ UNCHANGED <<exFile, pipes, pumps, handle, runnerMu>>
       \/ StartFailed /\ NoRunner
    /\ Frame

closeAll(files) == exPC' = "asUser" /\ pipes' = pipes \ files
NoChild == UNCHANGED <<exFile, runner, child, childToken, waitPC2, pumps, handle, runnerMu>>

\* startWithTokenW opens a handle after the other, and closes on failure those it
\* has by then; its caller goes on to CreateProcessAsUser.
OpenOut ==
    /\ exPC = "start" /\ ChildToken # "fail" /\ UsesToken
    /\ \/ exPC' = "err" /\ pipes' = {"outR", "outW"}
       \/ closeAll({})
    /\ Frame /\ NoChild

OpenErr ==
    /\ exPC = "err"
    /\ \/ exPC' = "nul" /\ pipes' = pipes \cup {"errR", "errW"}
       \/ closeAll({"outR", "outW"})
    /\ Frame /\ NoChild

OpenNulLeaking ==
    /\ exPC = "nul"
    /\ \/ exPC' = "inherit" /\ pipes' = pipes \cup {"nul"}
       \/ closeAll({"outR", "outW"})
    /\ Frame /\ NoChild

OpenNul ==
    /\ exPC = "nul"
    /\ \/ exPC' = "inherit" /\ pipes' = pipes \cup {"nul"}
       \/ closeAll({"outR", "outW", "errR", "errW"})
    /\ Frame /\ NoChild

\* makeInheritable, and the strings of the call.
MakeInheritable ==
    /\ exPC = "inherit"
    /\ \/ exPC' = "create" /\ UNCHANGED pipes
       \/ closeAll({"outR", "outW", "errR", "errW", "nul"})
    /\ Frame /\ NoChild

CreateFails ==
    /\ exPC = "create"
    /\ closeAll({"outW", "errW", "nul"} \cup {"outR", "errR"})
    /\ Frame /\ NoChild

\* The write ends are the child's alone from here; a pump reads each other end.
CreateProcessWithTokenW ==
    /\ exPC = "create"
    /\ exPC' = "running" /\ pipes' = pipes \ {"outW", "errW", "nul"} /\ pumps' = 2
    /\ runner' = "token" /\ child' = "alive" /\ childToken' = ChildToken
    /\ handle' = "open" /\ waitPC2' = "wait"
    /\ Frame /\ UNCHANGED <<exFile, runnerMu>>

-----------------------------------------------------------------------------
(* The child, its pumps and the reaping goroutine of Start *)

Reaper == UNCHANGED <<exPC, exFile, runner, childToken, runnerMu>> /\ Frame

ChildExits ==
    /\ child = "alive" /\ child' = "exited"
    /\ Reaper /\ UNCHANGED <<pipes, waitPC2, pumps, handle>>

\* End of file on one pipe: it is closed and the pump is done.
PumpEnds(r) ==
    /\ child = "exited" /\ runner = "token" /\ r \in pipes
    /\ pipes' = pipes \ {r} /\ pumps' = pumps - 1
    /\ Reaper /\ UNCHANGED <<child, waitPC2, handle>>

\* The child is gone and both pumps are done; then the handle is closed.
WaitReturns ==
    /\ waitPC2 = "wait" /\ child = "exited" /\ pumps = 0 /\ runnerMu = "free"
    /\ waitPC2' = "cleanup"
    /\ handle' = IF handle = "open" THEN "closed" ELSE handle
    /\ Reaper /\ UNCHANGED <<pipes, child, pumps>>

WaitCleanup ==
    /\ waitPC2 = "cleanup" /\ waitPC2' = "done"
    /\ exFile' = "none"
    /\ Frame /\ UNCHANGED <<exPC, pipes, runner, child, childToken, pumps, handle, runnerMu>>

-----------------------------------------------------------------------------
(* Stop *)

KillUnlocked ==
    /\ exPC = "running"
    /\ exPC' = IF runner = "token" /\ handle # "open" THEN "stopCleanup" ELSE "terminate"
    /\ Frame /\ UNCHANGED <<exFile, pipes, runner, child, childToken, waitPC2, pumps, handle, runnerMu>>

\* Kill looks at the handle and uses it under one lock.
Kill ==
    /\ exPC = "running"
    /\ IF runner = "token" /\ handle # "open"
       THEN exPC' = "stopCleanup" /\ UNCHANGED runnerMu
       ELSE exPC' = "terminate" /\ runnerMu' = IF runner = "token" THEN "kill" ELSE "free"
    /\ Frame /\ UNCHANGED <<exFile, pipes, runner, child, childToken, waitPC2, pumps, handle>>

TerminateProcess ==
    /\ exPC = "terminate"
    /\ exPC' = "stopCleanup" /\ runnerMu' = "free" /\ child' = "exited"
    /\ Frame /\ UNCHANGED <<exFile, pipes, runner, childToken, waitPC2, pumps, handle>>

\* Windows keeps a file that something still has open.
StopCleanup ==
    /\ exPC = "stopCleanup" /\ exPC' = "stopped"
    /\ \/ exFile' = "none"
       \/ platform = "windows" /\ waitPC2 = "wait" /\ UNCHANGED exFile
    /\ Frame /\ UNCHANGED <<pipes, runner, child, childToken, waitPC2, pumps, handle, runnerMu>>

Next ==
    \/ \E system \in Systems : createSecureConfigFile(system)
    \/ CreateExtraConfig \/ StartRefused \/ startCmd
    \/ OpenOut \/ OpenErr \/ OpenNul \/ MakeInheritable \/ CreateFails \/ CreateProcessWithTokenW
    \/ ChildExits \/ WaitReturns \/ WaitCleanup \/ Kill \/ TerminateProcess \/ StopCleanup
    \/ \E r \in {"outR", "errR"} : PumpEnds(r)

-----------------------------------------------------------------------------
(* Properties *)

\* A child that runs never has the privileges of the core, whichever way to a
\* token worked.
ChildUnprivileged == child # "none" => childToken = "user"

\* After a start that failed, and after the child was reaped, nothing of it is
\* left: no configuration file, no pipe, no open handle.
NothingLeftOfProcess ==
    exPC = "failed" \/ waitPC2 = "done" =>
        exFile = "none" /\ pipes = {} /\ handle # "open" /\ child # "alive"

\* Stop never terminates through a handle the reaping goroutine has closed.
HandleNeverReused == exPC = "terminate" /\ runner = "token" => handle = "open"

-----------------------------------------------------------------------------
(* What the proofs carry along *)

\* What there is of the child in each phase of the call, and of its reaping.
Opening == {"err", "nul", "inherit", "create"}
BeforeChild == Opening \cup {"idle", "write", "start", "asUser", "failed"}
ExtraInv ==
    /\ exPC \in BeforeChild \cup {"running", "terminate", "stopCleanup", "stopped"}
    /\ exPC \in BeforeChild =>
          /\ runner = "none" /\ child = "none" /\ waitPC2 = "none"
          /\ pumps = 0 /\ handle = "none"
    /\ exPC \in Opening => ChildToken = "user"
    /\ exPC \in {"idle", "failed"} => exFile = "none"
    /\ exPC \in BeforeChild \ Opening => pipes = {}
    /\ exPC = "err" => pipes = {"outR", "outW"}
    /\ exPC = "nul" => pipes = {"outR", "outW", "errR", "errW"}
    /\ exPC \in {"inherit", "create"} => pipes = {"outR", "outW", "errR", "errW", "nul"}
    /\ exPC \notin BeforeChild =>
          /\ child \in {"alive", "exited"} /\ childToken = "user"
          /\ pipes \subseteq {"outR", "errR"}
          /\ pumps = (IF "outR" \in pipes THEN 1 ELSE 0) + (IF "errR" \in pipes THEN 1 ELSE 0)
    /\ exPC \notin BeforeChild /\ runner = "cmd" => pipes = {}
    /\ waitPC2 \in {"none", "wait", "cleanup", "done"}
    /\ waitPC2 \in {"cleanup", "done"} => child = "exited" /\ pipes = {} /\ handle # "open"
    /\ waitPC2 = "done" => exFile = "none"
    /\ exPC = "terminate" /\ runner = "token" => runnerMu = "kill" /\ handle = "open"

=============================================================================
