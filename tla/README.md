# Specifications of the Temporal Kotlin bridge

`temporal-kt-bridge` lets Kotlin use Temporal's Rust Core. Rust code
(`core-bridge/rust/kt-bridge/src`, written `rs:` below) exports C functions; Kotlin
code (`core-bridge/src/main/kotlin/.../core`) calls them through the foreign-function
API. Calls that take time return at once and are answered later through a completion
queue that a Kotlin thread polls. What can go wrong is therefore mostly concurrency:
handles used after they are freed, answers that are lost or given twice, waits that
nobody ends, and shutdowns that race everything else.

## 1. Inventory

| Part | State | Operations | Hard behaviour | What makes it correct |
|---|---|---|---|---|
| Handle table `handle.rs` | slots (generation, owner, entry), free stack, one RwLock | insert, insert_owned, remove_of_kind, remove_runtime, require_owner, typed getters | a call takes the lock several times; frees race; 24-bit generations wrap | stale handles are rejected; free stack exact; children die with their runtime; one remover per object |
| Completion queue `queue.rs` | queue, wake counter, closed flag; per poller a busy flag and a payload slab | push, close, poll, wake; dropping a completion that owns a handle | condition variable, timeouts, spurious wakeups, concurrent polls | no lost wakeup; each completion delivered once in order; batches stay valid; each handle has one owner |
| Runtime, requests `runtime.rs`, `lib.rs` | pending table, closed flag, task tracker | spawn_request, kt_cancel, kt_runtime_free | completion, cancellation and shutdown race for one request id | exactly one completion per accepted request; free waits for everything and returns |
| Worker `worker.rs` | Running/Draining/Finalized, loop count, abort handles, shutdown lock, shared Arc of the Core worker | start, complete, heartbeat, initiate_shutdown, shutdown, free | grace periods, overlapping shutdowns, background finalization, panics | Core finalized once by its last owner; no completion refused while Core waits for it; shutdown returns; streams end |
| Ephemeral servers `ephemeral.rs` | the child process and the mutex around it | start, shutdown, free, Drop | reaping needs the reactor that shutdown drops; a cancelled shutdown leaves the child to others | no child outlives its runtime |
| JVM pump `Pump.kt`, `KtRuntime.kt` | map of continuations, running/dead flags, poller | request, pump loop, cancellation, close | two threads resume one continuation; cancellation before issue or after resumption | every coroutine resumed; no created handle without an owner; cancellation reaches Rust |
| JVM worker `KtWorker.kt`, `TemporalWorker.kt` | task streams (queue and conflated wakeup) | poll, onEvent, shutdown, close | end of stream races a poll | no suspended poll after the end; no task lost |
| Slot supplier `jvm_slots.rs` | permits, target, ramp clock | try_reserve, reserve, release, update | a waiter and an expiring throttle | permits never exceed the target; waiters are woken |
| Resource control `internal/JvmResource*.kt`, `PidController.kt` | PID state, last sample | sample, decide | floating point | bounds on the target |
| Server registry `EphemeralServers.kt` | a file of process records | record, forget, reap orphans | JVM crash between steps, reused pids, failing kills and file operations | an orphan is seen to or stays recorded, a stranger is never killed |
| Telemetry `telemetry.rs`, `CoreMetricsBridge.kt` | bounded metric buffer, retained batch | update, drain | buffer limit, caller's buffer too small | no update lost unaccounted, replayed twice or out of order |
| Runtime API `TemporalRuntime.kt` | closed flag, registered workers and their callbacks; three monitors | sample, register, remove, close | hooks that close workers or the runtime from the sampler thread | no freed handle is sampled; nothing runs after close; close returns |
| Client, RPC `client.rs`, `rpc.rs`, `error.rs`, `KtClient.kt`, `TemporalCoreClient.kt` | closed flag, handle, calls in flight | connect, call, close | two deadlines and retries race the answer; close between check and call; TLS decided on both sides | the caller can tell what happened; a timeout is neither exceeded nor cut short; TLS fits the target |
| Worker configuration `worker.rs:288-617`, `WorkerOptionsProto` | none | encode, validate, translate | two validators, signed and unsigned, absent and zero | what one accepts the other builds as it was meant |

How they interact: exported functions look objects up in the handle table, then either
act at once or hand an operation to `spawn_request`. Its task pushes one completion.
Worker loops push tasks with request id 0. The pump thread polls, resumes the
coroutine registered under the request id or passes the event to the worker. Closing a
runtime removes it and its children from the table, answers what is pending, closes the
queue, and waits for all tasks; the closed queue in turn ends the pump.

`PROJECT.json` lists these parts as components and the hazards line by line.

## 2. Modules

| Module | Models | Read with |
|---|---|---|
| `HandleTable` | `handle.rs` and the lookups, creations and frees of `lib.rs` | `MCHandleTable`, `HandleTableProofs` |
| `CompletionQueue` | `queue.rs` | `MCCompletionQueue`, `CompletionQueueProofs` |
| `OneAnswer` | nothing: the promise of `queue.rs:12-15` in the abstract | implemented by `RequestRuntime`, used by `Pump` |
| `RequestRuntime` | `runtime.rs`, the asynchronous functions of `lib.rs`, the process life cycle of `ephemeral.rs` | `MCRequestRuntime`, `RequestRuntimeProofs` |
| `Pump` | `Pump.kt`, `KtRuntime.close` | `MCPump`, `RequestRuntimeProofs` |
| `NativeStreams` | nothing: what a worker promises about its task streams | implemented by `Worker`, assumed by `TaskStream` |
| `Worker` | `worker.rs:32-286, 619-768` | `MCWorker`, `WorkerProofs` |
| `TaskStream` | `KtWorker.kt` (`TaskStream`, `onEvent`, `create`, `close`), pushed events and `KtRuntime.close` | `MCTaskStream`, `WorkerProofs` |
| `WorkerOptions` | `WorkerOptionsProto.encode` of `TemporalWorker.kt`, `worker.rs:288-617` | extended by `JvmSlots` |
| `JvmSlots` | `jvm_slots.rs`, `kt_worker_new`, the sampler of `TemporalRuntime.kt` | `MCJvmSlots`, `JvmSlotsProofs` |
| `ClientCalls` | `client.rs`, `rpc.rs`, `error.rs`, `KtClient.kt`, `TemporalCoreClient.kt`, the client functions of `lib.rs` | `MCClientCalls`, `ClientCallsProofs` |
| `ServerRegistry` | `EphemeralServers.kt`, `close` of servers and of `TemporalRuntime` | `MCServerRegistry`, `ServerRegistryProofs` |
| `Telemetry` | `telemetry.rs`, the retained batch of `runtime.rs` | extended by `Sampler` |
| `Sampler` | `TemporalRuntime.kt`, `CoreMetricsBridge.kt`, `create` and `close` of `TemporalWorker.kt` | `MCSampler`, `SamplerProofs` |

One step is one critical section, one atomic operation or one stretch of thread-local
code. Definitions whose comment begins with "Faulty variant" are not part of any
specification: each is a plausible bug in the definition that follows it, and
`PROJECT.json` names the property that TLC then finds violated.

**HandleTable.** `slots` and `free` are the table. `calls[t]` is what a thread is inside
of: an exported function that resolves the runtime (`Resolve`), checks the owner
(`RequireOwner`), resolves the target (`ResolveTarget`) and inserts (`Insert`) takes the
lock once in each, so other threads run in between. Frees remove under the lock
(`FreeOfKind`, `RuntimeFree`) and close outside of it (`Close`, `FinishFree`). The JVM may
pass any handle it was ever given, or 0, to any function. `issued`, `reuse` and
`released` are histories.

**CompletionQueue.** Parking is explicit: a thread in `Condvar::wait` stays "parked"
until `NotifyAll`, a timeout or a spurious wakeup. An expired wait does not test the
predicate again but drains (`DrainExpired`), as the code does. Completions are numbered;
a completion may carry a new handle, which it releases when dropped.

**RequestRuntime.** A call goes through `Resolve`, `Reserve` (tracker token), `Register`,
`Spawn`; its task through `TaskCancelled` or `OpEnds`, `TaskFinish`, `TaskRetire`.
`kt_runtime_free` is `FreeBegin`, `CloseChild`, `DrainBegin`, `DrainOne`, `DrainEnd`,
`FreeReturn`; the drain holds the lock of the pending table (`locked`) throughout. A
started server is a resource with a tracker token until it is reaped. Request ids may be
reused; completions name the call they answer, so that an answer to the wrong call shows.
A request of kind "stop" (`kt_ephemeral_shutdown`) names the call that started the server;
its task holds the server's mutex from `StopBegin` to `StopEnds` (`Held`), and whoever else
wants to reap the child waits for it. A cancelled stop leaves the child in its entry. A stop
that fails drops the child all the same, which kills it.

**Pump.** The native side is `OneAnswer` with a queue. A continuation is active,
cancelled, resumed with a value or an exception, discarded or returned; resuming it
twice throws. `request`'s steps are separate because other threads run between the
insertion, the check, `start`, the catch block and the registration of the handler.
`CanDie` lets `dispatch` throw. `waiting` is the map that the code calls `pending`.

**Worker.** Who holds an `Arc<CoreWorker>` is explicit (`StateHolds`, `OtherHolders`).
Core is external: a stream returns ShutDown once shutdown was initiated and its task is
completed, and `finalize_shutdown` returns once all streams have done so. Time is not
modelled, so a grace period may end at any turn of the loop that watches it. Each stream
has at most one task at the JVM at a time. Heartbeats, validation and resource updates clone the Arc
for the length of a call; they appear as `GiveUp` being possible whatever `OtherHolders` says.
`Promise` is `NativeStreams` with the loops, shutdowns and references hidden.

**TaskStream.** One of a worker's three streams. The conflated channel holds one signal or
hands it to a waiting coroutine; a coroutine cancelled after that and before it runs loses the
signal (`Thrown`), which the `finally` block of `receive` makes up for. `send` and
`TaskStream.close` are two steps each, because `KtWorker.close` and `KtRuntime.close` run on
other threads than the pump. The native side is one stream of `NativeStreams`.

**WorkerOptions.** Operators without state: what `encode` requires of a configuration and the
message it makes of it (`EncodeAccepts`, `Encode`), what Rust requires of a message and the
configuration it makes of that (`WorkerConfigAccepts`, `WorkerConfig`). A signed number becomes
unsigned on the way, with `HalfRange` in place of 2^31 and 2^63. Floats are a set of representatives
(not a number, infinite, negative, 0, inside the unit interval, 1, above); the default ratio 0.2
is "half", and default durations are scaled to the same small numbers. What Core's own builders
check again is external and taken to pass. `IsConfig` is the type of a JVM configuration (signed
fields, nullable ones) and `IsOptions` what the message type limits; `JvmSlots` assumes them of its
`Configs` and `RawOptions` (`ConfigsAssumption`), so that the proofs are about all of them.

**JvmSlots.** `kt_worker_new` (`Translate`, `InitWorker`, `Abandon`) for the JVM's
configurations (`NewWorker`) and for messages another caller of the C functions may send
(`NewRawWorker`); then one slot kind of the worker that comes out. `notify_waiters` reaches the futures that are
enabled (`Listening`). The time since the last grant is one bit (`ramped`). A reservation that
was refused for the ramp interval alone and finds it over when it computes its sleep arms none;
it is called "missed", and the next sample wakes it. Other kinds share the gate and can only
add notifications.

**ClientCalls.** `StartConnect` goes through `clientConfig` and `connection_options`. A call is
`Enter` (`ensureOpen`), `Issue` (`kt_client_rpc` resolves and clones the connection),
`Dispatch`, then attempts by Core, which retries or gives up as it likes. Two clocks run per call:
`elapsed` for `with_deadline`, `age` for the attempt. `cause` is the history of what ended a
request, which the caller's `result` is compared with. Cancellation, panics and shutdown are one
step here (`Interrupt`); `RequestRuntime` and `Pump` are about their races.

**ServerRegistry.** Pids are abstracted to whether they still name the recorded process. A JVM
dies between any two steps and loses its memory; files stay. Writing a file is one step because
the code moves a complete temporary file, whose name no reaper matches. `recordsLock` is held
from `RegisterCheck` to `RegisterWrite`; `unregister`'s critical section is one step. The
platform may not report start times (`startKnown`), in which case nothing is ever killed.
`destroyForcibly` requests an end that comes later (`ServerExits`), or is refused (`refused`), and
the file is deleted either way; a file that cannot be read is skipped (`missed`), and a deletion
may fail. `closeAll` also closes servers whose registration is still running, and unregisters
the ones another thread is closing (`CloseAllUnregisters`). `server.pid` and `ProcessRecord.of`
are one step: that a close and a reuse of the pid fall between the two, so that a stranger's start
time is recorded, is left out. Only recorded pids are given out again.

**Telemetry.** Core's threads `Define` instruments and `Record` numbered updates; a full buffer
loses its oldest. `Probe` is the call that finds the JVM's buffer too small and keeps the batch,
`CopyOut` the one that hands it over. Definitions travel with the updates that need them.

**Sampler.** It extends `Telemetry` with the JVM side: one sampler thread, workers (each with a
thread that creates, observes and closes it) and threads that close the runtime. The owners of
`sampleLock`, of the runtime's monitor (`lock`) and of each worker's monitor are explicit;
critical sections without a step of anybody else's inside are one step. The sampler thread may
own `sampleLock` and close the runtime in a hook, which works because the monitor is
reentrant; a hook may as well close any open worker (`current` then names it). A worker stands for all the samples of its slot kinds, so a callback runs once per
sample. What the application's meter throws loses the rest of a batch (`lost`).

## 3. Runs

Every property has a mutant: TLC finds it violated when one mapped definition is replaced
by its faulty variant. The type invariants of `HandleTable` and `CompletionQueue` are theorems of
their own; in the other modules the type invariant is the first conjunct of a safety invariant (in
`Sampler`, of `HandlesLiveWhenSampled`) and is proved and checked with it.

| Run | Bounds | Shows |
|---|---|---|
| `handle_table` | 2 threads, 4 objects, GenMask 2, clients, workers, pollers | `LiveResolves`, `StaleWithinCycle`, `OwnerLive`, `SingleRemover`, `CallPairsMatch` |
| `queue` | 2 threads, 2 pollers, capacities 1 and 2, 2 completions, 1 wake | `NoLostWakeup`, `BatchIntact`, `DeliveredOnce`, `QueuedIsDelivered` |
| `request` | 2 calls of any kind (client, server, stop, use), 2 request ids | `ExactlyOneCompletion`, `FreeLeavesNothing`, `NoLeakedHandle`, `ImplementsOneAnswer`, `FreeTerminates` |
| `pump` | 2 requests (one under NonCancellable), batches of 1, a pump that may die | `NoOrphanHandle`, `CloseEndsRequests`, `CancelReachesNative` |
| `worker` | 2 streams, 2 shutdowns, 1 task each, panics | `NoStrandedCompletion`, `FinalizedOnce`, `ShutdownReturns`, `ImplementsStreams`, `LateIsFinalized` |
| `task_stream` | 2 receivers, 2 tasks, 1 cancellation | `NoSleepOnTask`, `TasksReceived`, `EndReleases` |
| `jvm_slots` | 3 tasks; about 600 configurations and 16 messages, suppliers of 1 or 2 slots, with and without minimum, throttle and sticky queue | `PermitsExact`, `AcceptedIsBuilt`, `QueueKeepsPermit`, `NoMissedChange`, `NeverStuck` |
| `server_registry` | 1 JVM with 2 servers, 2 JVMs that reap | `OnlyOrphansKilled`, `OrphansReaped`, `ClosedIsForgotten` |
| `sampler` | 1 worker, 2 threads and a hook that close the runtime, 3 updates, a buffer of 2, a first attempt that fits 1 | `TelemetryAccounted`, `HandlesLiveWhenSampled`, `QuietAfterClose`, `CloseReturns` |
| `client_calls` | 1 connect with all TLS options, 2 calls, timeouts of 0, 1 and 3 ticks, an attempt's default of 2, 3 gRPC codes | `AnswerTellsWhatHappened`, `DeadlineHonoured`, `TlsFitsTarget` |
| `pump_poller` | 2 requests | violation: a double resumption keeps the pump from freeing its poller |
| `worker_panic` | 1 stream, 1 shutdown | violation: after a panic `kt_worker_shutdown` is not bounded by its grace period |

Why the bounds are enough. The table's interesting cases need two threads, a slot reused,
a generation wrap (GenMask 2: two removals) and a runtime with two children. In the queue
two threads are one to park and one to interfere, on the same or on another poller; a
finite wait that need not expire stands for an infinite one as well. Two calls suffice for a
reused id, two coroutines for one to fail while the other waits, and two streams for one
to end before the other. In `pump` a batch of 1 makes the queue outgrow it. Two receivers and two tasks are one signal
too few; three tasks and two slots leave one to wait; two reapers meet at one file, and two
records make a file that is rewritten rather than removed. Three updates overflow a buffer of two
and make a batch that does not fit; two closers and a hook are all the ways two closes can meet.
Configurations vary one field at a time, with values on both sides of each check, and together
those that decide about the workflow slots; `HalfRange` 8 leaves room between the numbers used and
the wrap. Timeouts below and above Core's default for an attempt meet each of the two timers first,
and the gRPC codes are the two that deadlines may be mistaken for and another.

Deadlock checking is off except in `jvm_slots`, whose sampler never stops: the other systems may
stop, when all is freed or nobody calls.

Exceptions that the properties state. `CloseEndsRequests` leaves out a
`failPending` that was cut short (`CutShort`), which is what `pump_poller` shows.
`NoStrandedCompletion`, `ShutdownReturns` and `LateIsFinalized` leave out a worker whose
poll panicked (`Panicked`), which `worker_panic` shows. `TasksReceived`
leaves out a worker or runtime that its owner closes. `OrphansReaped`
leaves out JVMs whose last write failed and platforms without start times; an orphan counts as
settled (`Settled`) once its end was requested, though the process may live a little longer, and
also when the system refused to end it, because its record is deleted all the same; and a reap
owes nothing to a file it could not read but that it still records the orphan. `QuietAfterClose` leaves
out a close that returns early because another thread is closing. `StaleWithinCycle` and
`CallPairsMatch` leave out a slot that was emptied GenMask (2^24 - 1) times, the limit of the
encoding.

Comments that the code does not follow and that no run is about:

- "A transport error is reported and ends this stream" (`worker.rs:125-126`): the loop reports the
  first error and goes on polling, which `worker.rs:182-185` explains and `Worker` models.
- `kt_poller_poll` blocks until "`kt_poller_wake` is called" (`lib.rs:543-544`): the wake counter
  belongs to the queue (`queue.rs:348`), so a poll of another poller of the runtime can consume
  the wake. The JVM creates one poller per runtime and is not exposed to it.
- "the status message on failure" and "3 health" (`lib.rs:220-223`): the payload of a failed call is
  an encoded `RpcFailure`, which is what `KtClient` reads and `ClientCalls` models, and
  `Service::from_u32` refuses 3. The doc of `kt_client_connect` ("the error text as the payload",
  `lib.rs:193-194`) is true of bridge errors only.

Fairness. `CompletionQueue`: a thread inside poll that is not parked keeps running; the
pump polls again as long as poll returns KT_OK (`Pump.run`); no timeout need expire.
`RequestRuntime`: threads inside exported functions, Tokio's tasks and a free in progress
keep going, and a child that is being stopped ends; nothing makes another operation end by
itself, or the JVM poll or free. `Pump`: the
caller's and the pump's thread keep running, and the native side answers a request that is
cancelled or meets a shutdown, which `ImplementsOneAnswer` establishes. `Worker`: loops and
shutdowns run, Core's polls return, and the JVM completes what it is given; shutdowns get
strong fairness because tokio's Mutex is first come first served. Errors, panics, frees and
ends of grace periods need not happen. `TaskStream`: the pump thread, resumed coroutines and a
close in progress keep going, and receivers call again until the stream ends. `JvmSlots`: tasks
run, a drop that has begun ends, and the sampler runs at its fixed rate; nobody need drop a
permit. `Sampler`: threads inside a call go on and hooks return; nobody need call anything. Closes
get strong fairness, because `sampleLock` is free for most of the 50 ms between two samples.
`ServerRegistry` and `ClientCalls` have no liveness: a call
without a timeout may be retried forever.

## 4. Proofs

Eight modules hold proofs. Each theorem is about the whole specification, for every value of the
constants that the named assumptions of its module allow: any number of threads, calls, streams,
servers or workers, buffers and capacities of any size, numbers of any width. The bounds that keep
TLC's instances finite (`MaxObjects`, `MaxPushes`, `MaxPushed`, `MaxTasks`, `MaxCancels`,
`MaxRecords`) may be any natural numbers.

| Module | Theorem | States | Assumes |
|---|---|---|---|
| `HandleTableProofs` | `HandleTypes`, `FreeListIsExact`, `LiveHandlesResolve`, `UseAfterFreeIsStale`, `ChildrenDieWithRuntime`, `OneRemover`, `LookupsAgree` | `TypeOK`, `FreeListExact`, `LiveResolves`, `StaleWithinCycle`, `OwnerLive`, `SingleRemover`, `CallPairsMatch` | `GenMaskAssumption`, `MaxObjectsAssumption`, `CreatedAssumption` |
| `CompletionQueueProofs` | `TypeCorrect`, `NoWakeupIsLost`, `BatchesStayIntact`, `EveryCompletionDeliveredOnce` | `TypeOK`, `NoLostWakeup`, `BatchIntact` (with `PollerOwned`), `DeliveredOnce` | `CapsAssumption` |
| `RequestRuntimeProofs` | `OneCompletionEach`, `FreeIsComplete`, `FreeWaitsForNoOperation`, `NoHandleLeaks`, `ImplementsSafeOneAnswer` | `ExactlyOneCompletion`, `FreeLeavesNothing`, `FreeWaitsForTheEnding`, `NoLeakedHandle`, refinement of `OneAnswer!SafeSpec` | `CallsAssumption`, `OpsAssumption` |
| `RequestRuntimeProofs`, of `Pump` | `NoHandleIsOrphaned`, `NoCoroutineIsAbandoned`, `NoCancellationIsLost`, `PumpKeepsToOneAnswer` | `NoOrphanHandle`, `NobodyAbandoned`, `CancelNotLost`, refinement of `OneAnswer!SafeSpec` | `BatchAssumption` |
| `WorkerProofs` | `NoCompletionIsStranded`, `CoreFinalizedOnce`, `NoShutdownWaitsIdly`, `NoLateWorkerIsForgotten`, `ImplementsSafeStreams` | `NoStrandedCompletion`, `FinalizedOnce`, `NoIdleWait`, `LateIsAttended`, refinement of `NativeStreams!SafeSpec` | `StreamsAssumption`, `ShutdownsAssumption` |
| `WorkerProofs`, of `TaskStream` | `NobodySleepsOnATask`, `NoTaskIsLost`, `TheEndIsComing` | `NoSleepOnTask`, `TasksKept`, `EndIsComing` | `PushedAssumption` |
| `JvmSlotsProofs` | `AcceptedConfigsAreBuilt`, `PermitCountsAreExact`, `EachQueueKeepsAPermit`, `NoChangeIsMissed` | `AcceptedIsBuilt`, `PermitsExact`, `QueueKeepsPermit`, `NoMissedChange` | `HalfRangeAssumption`, `ReservationsAssumption`, `ConfigsAssumption` |
| `ServerRegistryProofs` | `OnlyOrphansAreKilled`, `RecordedOrphansAreReaped`, `ClosedServersAreForgotten` | `OnlyOrphansKilled`, `OrphansReaped`, `ClosedIsForgotten` | `ServersAssumption`, `OwnersAssumption` |
| `ClientCallsProofs` | `AnswersTellWhatHappened`, `DeadlinesAreHonoured`, `TlsAlwaysFitsTarget` | `AnswerTellsWhatHappened`, `DeadlineHonoured`, `TlsFitsTarget` | `TimesAssumption`, `CodesAssumption`, `CallsAssumption` |
| `SamplerProofs` | `SampledHandlesAreLive`, `QuietOnceClosed`, `TelemetryIsAccounted`, `NobodyWaitsInACircle` | `HandlesLiveWhenSampled`, `QuietAfterClose`, `TelemetryAccounted`, `NoCircularWait` | `ThreadsAssumption`, `TelemetryAssumption` |

Every safety invariant that a run checks is stated by one of these theorems. `Pump` and
`TaskStream` are proved about beside the component they meet, so their specifications are named
`PumpSpec` and `StreamSpec`. `RequestRuntime` is proved to implement `OneAnswer`, and the native side inside `Pump`
to do nothing else, so the two sides of the bridge meet in one specification.

Liveness cannot be proved here, but what it rests on can: somebody is always on his way to do what
is waited for. TLC checks the liveness on a small instance, the theorem its safety core for every
instance. What remains between the two, and with TLC, is the fairness of the steps named there
and that finitely many of them suffice.

| Checked by TLC | Proved core | Who is on his way |
|---|---|---|
| `QueuedIsDelivered` | `NoLostWakeup` | whoever made the predicate of the wait true has notified |
| `FreeTerminates` | `FreeWaitsForTheEnding` | calls that are refused, cancelled operations, tasks past their operation, reapers |
| `CloseEndsRequests` | `NobodyAbandoned` | the caller that is still inside `request` |
| `CancelReachesNative` | `CancelNotLost` | the caller that is about to register the handler, or the free |
| `ShutdownReturns` | `NoIdleWait` | the shutdown that holds the lock; Core, told to end its streams |
| `LateIsFinalized` | `LateIsAttended` | the background task |
| `TasksReceived` | `TasksKept`, with `NoSleepOnTask` | the receiver that is awake, or whoever signals |
| `EndReleases` | `EndIsComing` | the pump thread or the close that has set the flag and closes the channel next |
| `NeverStuck` | `NoMissedChange` | whoever notifies the supplier |
| `CloseReturns` | `NoCircularWait` | the thread at the end of the chain of waits, which has at most two links |

Hardly any of the properties is inductive. What each module adds, and why:

**HandleTable.** `HandleInv` is the types, `BuildsKnownKind`, `TableInv`, `RemoverInv` and
`PairInv`.

- `StaleWithinCycle` speaks of handles whose object is gone, so nothing in the slots
  remembers them; `GenerationsCount` relates each handle ever issued to its slot's present
  generation by the number of removals in between, and the arithmetic of one whole cycle
  then gives the property.
- `OwnerLive` needs `OwnedIsChild` (an owner entry is never itself a child, so removing a
  child cannot orphan another) and `FreeListExact` (an insertion overwrites nothing).
- `SingleRemover` needs `ObjectsAccounted`: what is held or released was issued, and what is
  live is not released.
- `CallPairsMatch` is about three lookups with removals and insertions in between. `LookupInv`
  states what each lookup found in terms of `issued`, which only grows, so that a later step
  cannot make it false. If the first and the second lookup met different objects under one handle,
  `AgesDistinct` and `GenerationsCount` show that the slot went round a whole cycle
  (`TwinsWrapped`), which is the exception the property makes.

One lemma per table operation (`InsertTable`, `TakeOneTable`, `TakeRuntimeTable`) shows that
it keeps `TableInv`; `TableStep`, `CallsStep`, `RemoverStep` and `PairStep` put the actions together.

**CompletionQueue.** `NoLostWakeup` is inductive with the types: whatever makes the predicate of the
wait loop true notifies in the same critical section. `BatchIntact` needs `PollerOwned`: the in_poll flag admits one
thread per poller, so that the only poll which can overwrite a slab is the next one of its owner.
`DeliveryInv` says where each completion is: the queue holds the numbers from `Drained + 1` to
`accepted` in order, and each drained one was received or is in the hands of exactly one thread.

**RequestRuntime.** `RequestInv` is `StageInv` (what each stage of the free has closed; nothing is
registered once the queue is closed), `RegisteredInv` (a registration is of an unfinished and
unanswered call) and `CallInv` (an unfinished call still owns its id, unless the shutdown has
answered for it). The last two together are why completion, cancellation and drain cannot both answer, and
why a reused id is not answered for its predecessor. `ResourceInv` adds `TrackInv` (the tracker
covers every reservation and task, so the free waits for them) and `OwnerInv` (who owns the handle and
the child). The refinement maps each step to a step or a stutter of `OneAnswer`: a call is answered
when its completion is queued, by its task or by the shutdown's drain, and `RegisteredInv` shows that
neither answers a call the other has answered. `FreeWaitsForTheEnding` needs `TokenInv` (a token is
that of a call or task not yet done) and `DoomInv` (an unfinished call that was answered was answered
by the drain, which cancels it in the same step), so that past the drain only cancelled operations
still run.

**Pump.** `NoOrphanHandle` needs no account of the handles but one of the continuations: a handle
whose coroutine could not take it is freed in the step that finds out, and whether it could is
decided by who may resume the continuation. `ResumerInv` says so: `ThreadInv` (the pump thread
resumes the head of its batch, which it has taken out of the map; past its loop `dead` is set; the
poller goes last), `CallerInv` (what is in the map has not been resumed) and `WaiterInv` (a suspended
coroutine is in the map, or held by the thread, or by its own caller; once the thread fails what is
pending, the map's entries are on its list, unless the caller has yet to look at `dead`).
`CancelNotLost` needs `IssueInv`: the operation starts before its handler is there, and the
registration runs the handler at once when the cancellation came in between.

**Worker.** `PumpInv` (live_pumps is exact, an ended loop has told the JVM), `LockInv` (who holds
shutdown_lock), `EndInv` (the stages of a shutdown, `ReasonInv`: a finalized state has a reason, and what
Core's finalization implies) and `OkInv`. `NoStrandedCompletion` needs the exact count and the
ended loops: a shutdown finalizes when live_pumps is 0, and then every stream that has not panicked
has reported ShutDown and has no task out. `LateIsAttended` needs `DownInv`: Core is told to shut down
before any background task starts.

**TaskStream.** `SignalInv` extends `NoSleepOnTask` from receivers that wait to tasks in the queue: each
has a signal kept, or somebody awake who signals again when he leaves, the `finally` of a cancelled
receive included. `CloseInv` says that whoever sets `closed` closes the channel next, and that a
worker stays registered until `KtRuntime.close` has been there. `CountInv` and `InOrder` place every
number between 1 and `sent`: handed out, then queued in order, then being added.

**JvmSlots.** `AcceptedIsBuilt` is a fact about operators, proved field by field for every
configuration: both validators agree, and no number changes its meaning on the way through unsigned
fields. `CountInv` states the counters as cardinalities of the sets of reservations. `RoomInv`
(the permits kept for a queue without one are below the maximum) gives `QueueKeepsPermit`, and `WaitInv`
extends `NoMissedChange` back to the refusal: from there on a reservation is blocked, or a
notification is on its way.

**ServerRegistry.** `HomeInv` (a JVM records its own servers only), `LockInv` (recordsLock),
`KilledInv` (a reaper that has read a file has found its JVM gone, and no JVM comes back), `RecordInv` (where
a server that is not `Settled` is recorded), `ReapInv` (what a reaper has still to do, or has had
to leave in a file it could not read) and `ForgetInv`
(which of three paths forgets a closed server: its own close, which `closeAll` may have called, the
sweep of its runtime, or the registration, which looks once more).

**ClientCalls.** `AnswerInv` relates the cause of a request to its completion (`Fit`) and then to the
caller's result (`Told`). A stale handle or a shutdown needs a reason (`Justified`), for which
`HandleInv` follows the client's handle. `ClockInv` orders the two clocks of a call; the property
follows because neither timer runs past the timeout.

**Sampler.** `OwnerInv` (who owns the two monitors in which phase), `PhaseInv`, `OpenInv` and `HandleInv`
(a worker is removed from the runtime before its handle is freed) give the first two theorems.
For the telemetry `CountInv` is the balance of all updates, `OrderInv` their order through both
buffers, `BatchInv` the state of the retained batch, and `MarkInv` that the last drain has taken all that was
recorded before the close. `NoCircularWait` needs `HolderInv` (a monitor is held by somebody past its
lock, and a hook closes one thing at a time): the runtime's monitor is held only by threads that wait
for nobody, a worker's monitor by a close that waits at most for that one, and `sampleLock` comes
before both.

All inductive invariants were also checked with TLC on the instances of section 3.

Only model-checked is liveness: `QueuedIsDelivered`, `FreeTerminates`, `CloseEndsRequests`,
`CancelReachesNative`, `ShutdownReturns`, `LateIsFinalized`, `TasksReceived`, `EndReleases`,
`NeverStuck`, `CloseReturns`, and the fair halves of the two refinements (`ImplementsOneAnswer`,
`ImplementsStreams`). The prover has neither fairness nor ENABLED.


## 5. Not modelled

Payload bytes, the protobuf wire format, error texts, logging, the C ABI layout and pointer
arguments: no protocol state. The names and types of the RPC methods, identity, compression and
headers of a client, worker identity and build ids, log files and command lines of servers: data
that passes through and that no property tells apart. Construction of a runtime
(`runtime.rs:94-139`) is an initial state.
Core, Tokio, Condvar and CancellableContinuation are external and modelled as the code uses
them. The PID controller is floating-point arithmetic.

## 6. Plan

Done: `HandleTable`, `CompletionQueue`, `OneAnswer`, `RequestRuntime`, `Pump`, `NativeStreams`,
`Worker`, `TaskStream`, `WorkerOptions`, `JvmSlots`, `ClientCalls`, `ServerRegistry`, `Telemetry`,
`Sampler`; the proofs of every safety invariant, of the safety core of every liveness property, and
of both refinements without their fairness.

Left: liveness itself stays with TLC, and the resource controller is not modelled (section 5).
