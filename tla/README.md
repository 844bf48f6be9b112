# TLA+ verification of nunya-core

nunya-core wraps a sing-box instance and a number of Xray instances in a small
RPC surface. A client starts and stops a *profile*, polls the running profile,
and runs probes (URL, IP and speed tests) through it or through throw-away
instances. This directory holds TLA+ models of the parts of that program that
are hard to test, the TLC runs that check them on small instances, and TLAPS
proofs of the most important facts for instances of any size.

## 1. Inventory

| Component | State it keeps | Operations | Hard behaviour |
| --- | --- | --- | --- |
| **On-demand gate** `internal/xray/gate.go` | `mu`, `instance`, `closed`, the socket map `conns`, the counters `active` and `lastUse`, listeners | `StartGate`, `serve`, `handle`, `ensure`, `sweep`, `Close`, `Instance` | one goroutine per connection, a sweeper and `Close` interleave; `Create`, `prepare`, `Start`, `Dial` may each fail |
| **Profile lifecycle** `internal/rpc/lifecycle.go`, `state.go`, `xray.go`, `egress.go` | the published box and sidecars (under `stateMu`), the extra process, the exemption mark, `needUnsetDNS` | `Start`, `Stop`, `closeXray`, the network-monitor callback | a dozen failure points, each unwinding what is up so far; pollers and gates act without `lifecycleMu` |
| **Box construction, start, close** `internal/boxmain`, `internal/boxbox` | the box's managers and its `done` channel | `Create`, `New`, `Start`, `Close`, `CloseWithTimeout` | staged start with unwind, close with a timeout |
| **Extra process** `internal/process` | the child, its configuration on disk | `Start`, `Stop`, `CreateExtraConfig` | exit, stop and failed start race for the clean-up |
| **Batch probes** `internal/probe` | result buffers, the test session, tracking dialers | `runBatch`, `Reclaim`, `Drain`, `cancelAndRearm`, `DialContext`, `Close` | bounded fan-out with cancellation; results polled while they arrive; a dial finishing after its dialer closed |
| **Probe calls** `internal/rpc/urltest.go`, `speedtest.go`, `testenv.go` | none of their own | `Test`, `StopTest`, `Query...` | a stop that arrives while a test is still preparing |
| **RPC dispatch** `internal/rpc/dispatch.go` | the connection and its write lock | `Serve`, `handle` | one goroutine per request, panics, interleaved responses |
| **Diagnostics** `internal/rpc/diagnostics.go` | the capture lock and its stop function | capture, stop | capture, early stop and a second capture race; profiling rates must be restored |
| **VPN status** `internal/rpc/vpnstatus.go` | none | `awaitVPNStatus`, query, submit, cancel | subscribe before snapshot, timeout |
| **Queries** `connections.go`, `stats.go`, `autoselector.go`, `rulesets.go` | none | reads of the published box; rule-set fan-out | the box goes away under them |
| **Dashboard** `internal/rpc/dashboard.go` | the installed directory | install | failure between removing the old and renaming the new |
| **WARP** `internal/warp` | none | `register`, `call` | a lost answer to a call that is not idempotent |
| **System DNS** `internal/boxdns`, `internal/sysdns` | the interface that carries the local resolver | set, restore, interface change | the default interface moves while the resolver is set |
| **Xray outbound DNS** `internal/xraydns` | cached transport | `LookupIP` | cache of the box it was prepared for |
| **Core process** `main.go`, `internal/ipc`, `internal/parentcheck` | connection attempts | connect, watch parent | retries, parent exit |
| **Mobile instance** `mobile/instance.go`, `mobile/xray.go` | `started`, the box, the Xray stack, the process-wide protector | `NewInstance`, `Start`, `Close` | `Close` during `Start`; two instances share the protector |
| **Mobile tests, logs, glue** `mobile/*.go` | the log queue, test reporters | push, deliver, test, interface update, DNS exchange | bounded queue, cancellation |
| **winipcfg, schema, scripts** | none | wrappers, generated code | none |

How they interact. The dispatcher gives every request a goroutine. `Start` and
`Stop` are serialised by `lifecycleMu`; they publish pointers under `stateMu`,
and everything else (pollers, probes, the interface callback) reads those
pointers without `lifecycleMu` and uses them afterwards. A profile's sidecars
start before its box, because the box dials them; a gate holds its ports from
the start and builds its instance when the first connection arrives, reading
the exemption mark and the default interface at that moment.

The properties that make each part correct are listed with its module below;
`PROJECT.json` lists the hazards they are aimed at, each at its line.

## 2. Modules and plan

| Module | Models | Run | Proofs |
| --- | --- | --- | --- |
| `GateService` | what a gate promises the code that opens it | refined by `XrayGate` | |
| `XrayGate`, `MCXrayGate`, `XrayGateProofs` | the gate | `gate`, `gate_sweep_race` | safety, refinement of `GateService` |
| `ProfileService` | what Start and Stop promise | refined by `Lifecycle` | |
| `Lifecycle`, `MCLifecycle`, `LifecycleProofs` | Start, Stop, closeXray, the callback | `lifecycle_*` | safety, simulation of `ProfileService` |
| `ProbeBatch` | `runBatch`, the result buffer, the test session | in its callers' | in its callers' |
| `DesktopTest`, `MCDesktopTest`, `DesktopTestProofs` | the RPC test calls | `desktop_*` | safety |
| `MobileTest`, `MCMobileTest`, `MobileTestProofs` | the mobile test | `mobile_tests` | safety |
| `ProbeDialer`, `ProbeDialerProofs` | the tracking dialer | `services` | safety |
| `CoreProcess` | `main`, the parent check, the connection, dispatch | `services` | `ServicesProofs` |
| `Box` | construction, staged start and close of a box | `services` | `BoxProofs` |
| `Egress` | default interface against prepare and publish | `services` | `ServicesProofs` |
| `FullGates` | ports and fan-out of the full-configuration gates | `services` | `ServicesProofs` |
| `ExtraProcess` | the child of a profile, Windows and Unix | `services` | `ServicesProofs` |
| `SpeedTest` | speed and country tests | `services` | `ServicesProofs` |
| `VpnStatus` | status queries and challenges | `services` | `ServicesProofs` |
| `Diagnostics` | captures, early stop, panics | `services` | `ServicesProofs` |
| `Warp` | device registration | `services` | `ServicesProofs` |
| `SystemDns` | the system resolver on Windows | `services` | `ServicesProofs` |
| `MobileInstance` | boxes, stacks, resolver and protector on a phone | `services` | `MobileServicesProofs` |
| `LogPump` | the log queue of a phone | `services` | `MobileServicesProofs` |
| `Services`, `MCServices` | composes the thirteen modules of `services`; gives the constants their values | `services` | `BoxProofs`, `ServicesProofs`, `MobileServicesProofs` |
| `MobileStatus` | `Instance.Status` | `mobile_status` | `MobileServicesProofs` |

Proved: the gate's safety and its refinement of `GateService`, the safety of the
probe calls on both sides, the tracking dialer's leak freedom, the lifecycle's
safety and its step simulation of `ProfileService`, the stages of a box, and the
safety of eleven more services. Every invariant and every safety property the
passing runs check is stated by a theorem. Of the five violations the project
finds, three have a theorem that says how far they reach (`LifecyclePublishesUp`,
`DesktopStopStartsOne`, `StatusCountsForOneCaller`).

## 3. The gate: `XrayGate`

One handler per accepted connection, one sweeper, one caller of `Close`. A step
is the code between two points where another thread can see a difference: a
lock section, an atomic operation, a call into Xray or the network. `mu` names
the handler inside `ensure()`, the only place that keeps the lock over several
steps; the short sections of `sweep` and `Close` are single steps that need it
free. Time is one bit: `lastUse` is `"recent"` after `touch()` and becomes
`"stale"` when the idle period has passed. Xray itself is external: creating,
preparing, starting and dialling may each succeed or fail at any time. A relay
may end at any time, but is only *obliged* to end when both of its sockets are
closed.

* `gate` (2 connections, 1 inbound, 2 instances; idle period zero and
  positive). Two connections and two instances are the least that show a rebuild
  racing a sweep. The safety properties are proved for any number of
  connections, inbounds and instances, so the instance is chosen for liveness.
  `InstanceOwned`: a created instance has exactly one owner (the gate, the
  `ensure` building it, the sweeper, `Close`) until it is closed.
  `ImplementsGateService`: seen from outside, without connections, lock and
  sweeper, the gate is `GateService`. It hands out one instance at a time, uses
  none twice, builds none once `Close` took the slot, and has closed its own when
  `Close` returns; only one the sweeper took before may still be going down.
  `AcceptedIsServed`: an accepted connection is relayed or closed.
  `CloseCompletes`: once called, `Close` returns, and the sweeper and every
  handler end. `IdleInstanceGoesDown`: an instance that stays unused is
  shut down, which takes every return path of `handle` to give its count back.
  Fairness: runnable goroutines run; clients need not connect, peers need not end
  a relay, nobody need call `Close`. The sweeper's exit is strongly fair because
  Go's `select` chooses at random between a tick and the closed channel.
* `gate_sweep_race` finds a violation: the sweeper reads `active` and `lastUse`
  before it locks `mu` and does not read them again, so it can shut the
  instance down under a connection counted in between, against the comment at
  `gate.go:214`.

Proofs (`XrayGateProofs`). The safety properties are not inductive: that a
started instance has one owner depends on `ensure` holding `mu` while it builds
and on the slot being empty then (`BuildInv`), and what `Close` achieves depends
on `closed` being set under `mu` (`ClosedInv`) and on `conns` being nil from the
moment `Close` took it (`SocketInv`). `IInv` is the conjunction with
`OwnerInv`, `IdleInv` (with idle period 0 the sweeper never gets past its first
condition, which is what `ResidentStaysUp` rests on) and the types; it is proved
inductive for any sets of connections, inbounds and instances, one step per
action. From it also follow, without a run of their own, `PublishedIsUp`
(`Instance()` hands out started instances only), `ClosedGateRunsNothing`,
`ClosedGateCutsRelays` and `ResidentStaysUp` (with idle period 0 only `Close`
takes the instance).

`GateImplementsService` is the whole refinement: the mapping names the stage of
the gate by `phase` and `closer`, calls what the sweeper holds *retired* and what
`Close` took *ending* (it returns only when that one is closed), and forgets the
rest. With `IInv` and `StageInv` (nothing acts before
the gate runs) each initial state is one of `GateService` and each action one
of its steps or hidden from it. `GateCountsExactly` shows that `active` is the
number of connections between their two additions on every return path of
`handle`, so the race of `gate_sweep_race` is one of reading it too early and
never one of a wrong count.

The only
assumptions are that `None` is neither a connection nor an instance, that there
are finitely many connections and that an idle period is zero or positive.
Liveness is model-checked only.

## 4. The lifecycle: `Lifecycle` and `ProfileService`

`Start` and `Stop` hold `lifecycleMu`, so there is one operation at a time and
`pc` is where it is. The n-th `Start` names what it creates (box n, process n,
sidecars `<<kind, n>>`). Without the lock act: gates that prepare an instance
for a connection, the monitor callback, a process that exits, a box whose close
takes time. Everything an external call can answer is a choice. A gate is open
or closed here; what goes on inside is `XrayGate`.

* `lifecycle_safety` (3 starts, macOS; every mix of sidecars, TUN addresses
  that are absent, good and bad, and profiles with an extra process).
  `RunsWhatIsPublished`: between calls exactly the published profile's box and
  sidecars run and the mark is its mark, a bad TUN address included, which
  unwinds everything. `SlotsHoldOpenSidecars`: no slot keeps a closed sidecar.
  `UnsetDNSIsOwed`: the
  system resolver is owed back exactly while a profile that took it is
  published. Three starts allow a failed one, a stopped one and a later one
  that could meet their remains.
* `lifecycle_service` (2 starts, Linux; every mix of sidecars, with and without
  a redirecting TUN, and a profile with an extra process): the specification
  refines `ProfileService` (all cores of the profile after success, none after
  failure or Stop, visible only while the box runs, every call returns).
  Fairness: a call that began is carried on and `Box.Close` returns.
  `ActiveTunExempt`: sidecars of an active TUN carry its exemption mark.
* `lifecycle_dying_box` finds a violation: `stopAllCores` closes the box before
  it unpublishes it, the order the comment at `lifecycle.go:197` rules out
  (`PublishedBoxIsUp`: no poll is handed a box that is going away).
* `lifecycle_restart` finds a violation: a `Start` refused because a profile
  runs goes through the deferred cleanup, forgets the running box and clears
  the mark under its active TUN. The passing runs therefore assume a client
  that does not send `Start` to a running profile (`StartOverRunning = FALSE`).

One combination is left out of the passing runs: a profile with both an extra
process and Xray sidecars. When the sidecar fails, `Start` returns without
stopping the process (`lifecycle.go:86-109`), and the next such `Start`
overwrites its slot, so that process is left running and the refinement does
not hold there.

Proofs (`LifecycleProofs`), for any number of calls and any set of requests.
`BaseInv` (the types, that every number is that of a `Start` that was made, and
that a slot holds an open sidecar) is inductive for every client, so
`SlotsHoldOpenSidecars` is proved for a client that starts a running profile,
too. What else the runs check is false for such a client
(`lifecycle_restart`), so the other theorems assume `~StartOverRunning`.
`RunsWhatIsPublished` speaks of the moments between calls only; `CourteousInv`
says at each step of `Start`, `Stop` and the clean-up which box, which sidecars
and which mark are there, and that all of them are those of the latest `Start`
(`PointerInv`, `BoxInv`, `SidecarInv`, `MarkInv`, `DNSInv`). It holds on every
platform and with profiles of every kind, the ones with a bad TUN address and
with an extra process beside sidecars included. `RunsWhatIsPublished`,
`UnsetDNSIsOwed` and `ActiveTunExempt` follow. So does `PublishedBoxIsUp` where
macOS is given no TUN address that does not parse (`LifecyclePublishesUp`):
`stopAllCores` is the only teardown that shows a dying box, and
`lifecycle_dying_box` has no other cause.

`LifecycleImplementsService` is the refinement step by step: under the mapping
of `ImplementsService` each initial state is one of `ProfileService`, and each
step is a step of it or a stutter. Beside `~StartOverRunning` it assumes
`AllKept`, that every request is one for which the code keeps the promise
(`Kept`): no extra process beside sidecars, for the reason above, and on macOS
no TUN address that does not parse, whose teardown shows a dying box
(`lifecycle_dying_box`). `ProcInv` says what becomes of the extra process then.
That every call returns is the liveness half, checked by `lifecycle_service`.

## 5. Probes: `ProbeBatch`, `DesktopTest`, `MobileTest`, `ProbeDialer`

`ProbeBatch` has the variables and steps of `runBatch`: the loop with its look
at the context and its wait for a slot, one goroutine per tag that gives its slot
back and then counts itself done (two deferred calls, two steps), `wg.Wait` and
`Reclaim`. The number of tags is that of the call (`size`): a test of the running
box has one. The session's context is a counter, because `cancelAndRearm` cancels
the current context and replaces it: a batch is cancelled when it holds an
older one. A probe (tunnel handshakes, requests, their timeouts) begins and
ends; a duration and an error are one outcome, since nothing in the batch tells
them apart, and one that would begin under a cancelled context ends at once. Tags are distinct and
named by position, and all batches use the same names, as the clients do. The
two callers extend the module.

`DesktopTest` is the RPC side: `prepareTestEnv` part by part with every failure,
the batch, the response, `env.close()` backwards through the cleanups (the box's
close may outlive the call), and `QueryURLTest` and `StopTest` at any moment.

* `desktop_batches` (2 calls, 2 tags each, one slot, 2 stops).
  `NothingLeftBehind`: no result of a finished batch stays in the buffer.
  `DeliveredOnce`: a poll never repeats a result. `StopIsFinal`: a stopped batch
  begins no probe any more. Two calls are the least for one to meet the
  other's results, two tags for one to wait on the slot of the other, and the
  second stop cancels a batch that took its context after the first.
* `desktop_env` (a call of any kind, 3 tags, one slot, one stop).
  `ProbesInsideEnv`: what a test probes through outlives its goroutines.
  `NothingLeaks`: whatever step of the preparation fails, nothing stays up.
  `TestReturns` under fairness of the goroutines: every wait in a probe has a
  timeout, so probes end. With three tags and one slot the loop waits for a slot
  twice, so that a goroutine that kept its slot would wedge the call. One call is
  enough: environments are the calls' own, and what calls share, the session and
  the buffer, is in `desktop_batches`.
* `desktop_stop` finds a violation: the tag that waits for a slot when the stop
  arrives is started and published, against `probe.go:121`.

A stop that arrives while a test is still preparing is lost on that test: it
takes the new context afterwards. The model has this behaviour; the repository
promises nothing about it.

`MobileTest` is `StartURLTest`: a ticker drains the buffer into the handler
while the batch runs, the return value fills in the rest, `OnDone` follows.
The preparation is that of `DesktopTest` and left out. Tests may have different
numbers of tags; what a drain finds of another test's tags is dropped (`Ours`).

* `mobile_tests` (2 tests with 2 tags, one after the other or overlapping, one
  stop; symmetric). `AllReportedByDone`: a handler is given one result per tag
  before its `OnDone`, even when two tests drain each other's results. `OwnResultsOnly`: a test that no other overlapped (the
  history variable `alone`) reports its own results only; one that was
  overlapped may be given the other's result for a tag of the same name. No
  step can be taken back, so that the run finds no deadlock before every test
  is done also shows that every test reaches its `OnDone`.

`ProbeDialer` is the dialer that remembers a probe's connections. `services`
checks `AllConnsClosed` with 3 dials that may hang until their context is
cancelled; `ConnOwned` and `NothingHandedOutLate` are proved.

Proofs (`DesktopTestProofs`, `ProbeDialerProofs`). `DesktopInv` ties the loop
index to the goroutines and results (`LoopInv`, `ResultInv`), the buffer and
what was drained to goroutines past their publish step (`BufferInv`,
`DeliveryInv`: this is why a result cannot be published again after it was
drained), and the environment to the batch (`CallInv`, `EnvInv`). It is
inductive for any set of calls, any number of tags, any limit and any number of
stops; all safety properties of `DesktopTest` follow, `LimiterHolds` (never more
probes than slots) with the cardinality theorems of the library and
`StopIsFinal` as an action property. `KindsAssumption` says that a test of the
running box has a tag. `LimiterHolds`, `EveryTagAnswered` (the
"no result" filler of `runBatch` is never needed) and `AbortedNotPublished` are
proved without a run of their own.
`OnlyWaitingTagStarts` bounds what `desktop_stop` shows: a stopped batch starts
no tag but the one its loop already waits with, and the loop does not come to
wait again, so a stop is late by at most one probe.
`DialerInv` does the same for the dialer.

`MobileTestProofs` has the mobile side, for any number of tests started at any
moment. The invariants of the batches are those of the desktop; `RunInv` ties
the phase of a test to its batch and its ticker, and `AloneInv` says that a test
nobody overlapped is the only one that runs while it runs. A result in the
buffer is that of a batch that has not returned, so of a test that runs, so of
this one: `OwnResultsOnly` is inductive with them, and `AllReportedByDone`
follows from `RunInv`. Liveness is model-checked only.

## 6. The services: `Services`

Thirteen modules describe components that share no state with each other. One
run, `services`, checks them all: the variable `acting` is chosen initially and
names the component that acts, so that the run explores the sum of their state
spaces (about 309,000 states, about two minutes). Each module is a specification of
its own, with its constants and its properties; `Services` composes them and
states the fairness, and `MCServices` gives the constants their values. A component may come to rest (a process
exits, a capture ends), so the run does not look for deadlocks.

Fairness is assumed of the core process (its main thread, the watcher of the
parent and the goroutine of every request run on; the watcher polls or waits on
the parent for as long as it lives) and of the dialer (its closer is deferred,
and a dial ends when its context is cancelled). No other liveness is claimed.

**`CoreProcess`** (3 requests, 2 connection attempts). The start-up checks, the
retries, the watcher that ends the process with its parent, the read loop, one
goroutine per request, the write lock and a connection that is lost at any
moment. A handler returns, fails or panics. `ResponsesWhole`: header and body of
a response stay together and nothing is answered twice. `RequestsAnswered`:
every request is, after a panic too. Three requests let one panic while two
others contend for the lock.

**`Box`** (no, some and other optional parts). `New` in the order it makes the
parts, `Start` stage by stage and part by part with a failure or a panic at each, `Close`
in its order with a panic at each part, `Create` with its signal goroutine and
`Check`. What a part does in a stage is sing-box, and so are the members `New`
makes inside the managers (`box.go:253-416`), whose failure is that of `New`. A
panic of `New` or of a stage ends in the dispatcher, one of a close that
`CloseWithTimeout` runs ends the process, and one of the close that follows a
failed start is recovered by `Start` (`box.go:510-517`), which then returns nil: its
result has no name, so `Create` reports a running box that is half closed, and
`Close` refuses to close it again (`swallowed`).
`TakersFindCarriersUp`: parts that take connections in are up only while all parts
behind them are, during start, close, the close of a half-made start and after a
panic that cut one of them short. `NothingOutlivesBox`: after an error or a close no
part is open, not even one that was only initialized, and the swallowed box is the
only exception. The order of the parts is fixed by the code, so the instance covers
every failure point of it.

**`Egress`** (2 gates of full configurations, a sidecar that is eager or behind a
gate, 2 interfaces). `Start` opens the sidecar and the gates, publishes each in its
slot only then, and unwinds them on a failure; `closeXray` clears the slots and then
closes what was in them. Instances are prepared, started and swept behind the open
gates meanwhile, and the callback of an interface change reads the slots, asks
every gate it found and moves what they hand out. `EgressFollowsDefault`: after the
callback every instance sends from the new interface. A gate keeps its lock from
prepare to publish, so the callback waits for it. What is in no slot when the
callback reads them (not published yet, or unpublished already) it passes by; the
property leaves out exactly these instances (`missed`).

**`FullGates`** (3 configurations, 2 workers, 4 inbound ports of which two are in
the range the system deals from). The first configuration alone, then the others
through the slots; each finds ports by listening on them and takes its inbound
ports over. `FanOutSettled`: all gates or none, no port bound and nothing
working after an error, distinct targets within a configuration. Two gates may
be dealt the same target, because the probes are released before a cold
instance binds; the second instance then fails to start.

**`ExtraProcess`** (both platforms; every combination of tokens the system may
offer). The configuration file, the search for an unprivileged token, the handles
of `startWithTokenW` one after the other with a failure at each and what is closed
then, output pumps, the goroutine that reaps the child, and `Stop`. The tokens of
sessions and shells are one set, as both loops try their candidates alike.
`ChildUnprivileged`: a child never runs with the core's privileges.
`NothingLeftOfProcess`: no file, pipe or handle after a failed start or a reaped
child. `HandleNeverReused`: `Stop` never terminates through a closed handle.

**`SpeedTest`** (2 tests with 2 tags, one country slot). Transfers that outlive a
cancelled test, the progress all tests share, the country goroutines and their
buffer. `ProgressIsLive`: the querier says that a test runs exactly while one
samples; when two overlap the first to finish clears the flag under the other,
and the property excepts that (`overlapped`). `SpeedTestSettled`: a test that
returned answered every tag unless it was stopped, runs nothing and left no
country result.

**`VpnStatus`** (an endpoint of each kind, 2 status changes each). A query takes
the channel, then the snapshot, then sleeps; the client answers or cancels
challenges that may be gone. `NoLostWakeup`: nobody sleeps on a settled status
without having been woken. Two changes allow one before and one after the
snapshot.

**`Diagnostics`** (2 captures). The lock, the published stop function, the
profilers and their deferred stops; every step may panic. `ProfilersStopped`: no
profiler outlives its window. `StopHitsTheCurrent`: a stop never reaches a later
capture.

**`Warp`** (up to 3 hosts of four spellings, two of them of one host and one
blank). Every call may be carried out and its answer lost. `OneUsableDevice`: a
call registers at most one device over all hosts, and the identity it returns is
that device's, with the MASQUE key exactly when it says so.

**`SystemDns`** (a static and a DHCP interface, with IPv6 servers behind and in
front of the others, 4 calls and moves). The callback of the monitor and the call of
the client share no lock. Each reads the servers of both families (`DNS`), looks for
a mark, reads the registry and writes the servers of one family (`SetDNS`), in
steps of their own. `OriginalRecoverable`: an unmarked interface has its user's
servers and a marked one can be restored to them. Two kinds of interface are
excepted. `misread`: a read of `isIfcDNSDhcp` failed (the code then takes the
interface for static, or for DHCP when it is the registry value), or the other actor
wrote between its two reads, so that a DHCP interface looks static.
`LocalIsHidden`: a static interface whose IPv6 servers are listed first; the code
looks for the local resolver in the first place only, so it stays in the list when
the mark is taken out. The fallback for Windows before 1809 is left out. Four steps are two
calls and two moves, enough to come back to an interface that was left marked.

**`MobileInstance`** (2 boxes, each an instance or a test, with and without Xray
parts). `Close` may overtake `Start`, a close may outlive its timeout.
`NewestIsProtected`: closing an older box never takes the protector of a newer
one. `StackAroundBox`: the Xray stack is up for as long as the box; an instance that
could not be made leaves no stack, no box and no live context, and one that was
closed none either. Two exceptions are part of it: a box closed while it was
starting may keep parts that `Start` brought up since (`"remnant"`, possible only
when `overtook`), and a test does not wait for a close that outlasts its timeout.
`OwnBoxResolves`: a resolver never caches the transport of another box. What a box
does between its start and its close is `Box`.

**`LogPump`** (2 loggers, limits 1 and 2, 4 lines). `LinesAccounted`: no line is
repeated, reordered or lost without being dropped by the limit or a cleared sink.
`NoLineStranded`: the pump never sleeps on a filled queue without a token or a
logger about to leave one.

`MobileStatus` is apart. `mobile_status` (2 callers) finds a violation: `Status`
reads the totals before it takes the lock, so two overlapping calls can subtract
in the wrong order, and one reports a negative rate, against the comment that it
reports the bytes moved since the previous call. `StatusCountsForOneCaller` proves
that it takes two callers: with one, what was stored last is never newer than
what the call in progress has read (`TrafficInv`).

Proofs (`BoxProofs`, `ServicesProofs`, `MobileServicesProofs`). A step of
`Services` is a step of one component and leaves the others' variables alone, so
an inductive invariant of a component is an invariant of the composition. Each
module ends with the invariant its proof carries along; the theorems hold for
any number of requests, gates, configurations, tests, tags, captures, hosts,
interfaces, boxes, loggers and lines. `ServicesAssumption` and `DnsAssumption` are
all they assume of the constants: the values that stand for nobody (`"free"`, `"none"`, `NoBox`) are
nobody's, there is an interface, there are gates to open and each has an inbound
(`remapInbounds` refuses a configuration without one), and a limit of the log is
positive (the queue puts its default in place of one that is not,
`log.go:71`); the two marks and the local resolver are IPv4 addresses, and nobody
uses the marks for a server. The arguments:

* `Box!BoxInv`: `StartShape` and `CloseShape` say what comes where in the start
  and the close of a box with any list of internal services: no taker is started
  before the internal services are, from the twelfth stage after them on every
  stage leaves its part up, the seven carriers are among those of `preStart`, and
  a close names the takers first and every part that exists. A box that starts
  has its carriers up from the end of `preStart` on; a box that closes has closed
  everything before `pos`, so a panic at `pos` leaves the takers closed or everything
  behind them as it was; a box that is up has its carriers up unless it is the
  swallowed one, which `done` keeps from being closed again.
* `Diag!DiagInv`: the lock and the published stop function can be told from
  where the calls are, and a profiler that is on is one a call has deferred to
  stop.
* `Vpn!VpnInv`: a sleeper whose channel is still in force saw the status there
  is.
* `Sending!EgressInv`: an instance that sends from another interface than the
  default one was in no slot, or the callback has still to read the slots, to ask
  its gate or to move it.
* `Core!CoreInv`: the holder of the write lock wrote its header last.
  `EndedIsAnswered` is the safety half of `RequestsAnswered`: while the connection
  stands a goroutine ends only with its response written. That it ends is left to
  the run.
* `Dns!DnsInv`: a static interface has the servers of its user or these between the
  local resolver and the mark (`LocalFirst`), and so has what either actor read
  before the other one wrote: whichever of the two it starts from, it writes one of
  them (`StaticInv`). Of a DHCP interface the list may grow while the two overlap;
  only that it is empty or ends in its mark matters (`DhcpInv`), and that it is
  empty while somebody is between its two reads, unless it was misread. What the loop over the servers keeps of a list is stated by position (its j-th
  server is the j-th that is no mark) and not as a loop, so that a theorem can
  be about it: the marks come last, and what is left is the list before them.
* `Extra!ExtraInv`: what exists of the child, and which handles are open, in each
  phase of `Start`, `Stop` and the reaping goroutine.
* `Speed!SpeedInv`: the tags before the current one are answered, and tests that
  sample together have been noticed.
* `Fan!FanInv`: ports that were chosen are held until all are, a gate listens on
  a prefix of its inbound ports, and the phase of the call bounds the phases of
  its gates.
* `Warp!WarpInv`: while hosts are tried none has a device. `normalizeHosts` is
  stated by what it returns (the hosts named, each once, in the order they are
  first named) and not as a loop, so that a theorem can be about it.
* `Phone!PhoneInv`: how far a box is on its way up and down, and what of its
  stack, resolver and context there is then.
* `Log!LogInv`: the queue, the batch and the delivered lines are increasing and
  follow one another, and a filled queue has a token or a logger about to leave
  one.

These invariants were checked by TLC on the instance of `services` as well.
Model-checked only are the liveness properties, `RequestsAnswered` and
`AllConnsClosed`.

## 7. Not modelled

* **Queries and selectors** (`connections.go`, `stats.go`, `autoselector.go`,
  `rulesets.go`): they read a box and keep nothing; the groups they select in
  are sing-box state. That a query may read a box that goes away is `Lifecycle`.
* **Dashboard installer**: a sequence of file operations; a rename that fails after
  the old directory was removed (`dashboard.go:74-79`) leaves none installed.
* **A panic inside `boxmain.Create`** during `Start` of a profile: the dispatcher
  answers the request (`dispatch.go:79-84`), but the deferred cleanup at
  `lifecycle.go:29` sees no error, so sidecars, extra process and mark stay. `Box` has
  this panic; `Lifecycle` has not.
* **Xray construction** (`constructor.go`): parsing and construction inside Xray;
  its outcomes are choices of the gate and the lifecycle.
* **`winipcfg`**: wrappers of Windows calls without state; what the system
  resolver uses of them is in `SystemDns`.
* **macOS `sysdns`**: one command per call; the obligation to undo it is
  `UnsetDNSIsOwed` of `Lifecycle`.
* **Mobile glue**: conversions between the platform's types and sing-box's.
* **Generated messages, build scripts**: no state.

Liveness is checked by TLC only: it needs fairness, which the proof system does
not reason about. That is `AcceptedIsServed`, `CloseCompletes`,
`IdleInstanceGoesDown`, `TestReturns`, `RequestsAnswered`, `AllConnsClosed` and
the fairness of `ImplementsService`. The internals of sing-box, Xray and the operating systems are
external and appear as choices.
