------------------------------ MODULE Sampler ------------------------------
(***************************************************************************)
(* TemporalRuntime: the sampler thread, which every 50 ms updates the        *)
(* admission of each registered worker, calls the application's hooks and     *)
(* replays Core's telemetry, against workers that are created, observed and   *)
(* closed (TemporalWorker) and threads, or hooks, that close the runtime.     *)
(*                                                                         *)
(* Three monitors order them: sampleLock around a whole sample and around     *)
(* close, the runtime's own monitor (lock) around its registrations, and one  *)
(* per worker around TemporalWorker.close.  All are reentrant.               *)
(***************************************************************************)
EXTENDS Telemetry, FiniteSets

CONSTANTS
  Workers,   \* workers with a JVM resource supplier, each with a thread of its own
  Closers,   \* threads that close the runtime
  SamplerThread,
  NoThread

ASSUME ThreadsAssumption ==
  /\ Workers \cap Closers = {}
  /\ SamplerThread \notin Workers \cup Closers
  /\ NoThread \notin Workers \cup Closers \cup {SamplerThread}

VARIABLES
  closed,      \* TemporalRuntime.closed
  native,      \* the native runtime's handle is live
  sampleLock,  \* the owner of sampleLock
  lock,        \* the owner of the runtime's monitor
  registered,  \* resourceWorkers
  hooked,      \* the registered workers with a callback
  sampler,     \* how far sample() is
  todo,        \* the workers it has not updated yet
  deliveries,  \* the workers whose callbacks it has to call
  current,     \* the worker whose callback runs, or that it closes; or NoThread
  closing,     \* how far close() is, per thread
  creating,    \* how far TemporalWorker.create is, per worker
  handles,     \* live worker handles
  workerClosed, \* TemporalWorker.closed
  monitor,     \* the owner of a worker's monitor
  closeWorker, \* how far TemporalWorker.close is, per thread
  drain,       \* how far drainTelemetry is
  cap,         \* the size of its buffer
  needed,      \* the instruments of the batch it has
  replaying,   \* the updates of the batch that are not replayed yet
  instruments, \* CoreMetricsBridge.instruments
  replayed,    \* how many updates the application's meter got
  latest,      \* the number of the last one
  lost,        \* how many updates a failing meter cost
  reported,    \* how many updates the log reported as dropped
  mark         \* how many updates there were when the runtime was closed

runtimeVars == <<closed, native, registered, hooked, mark>>
lockVars == <<sampleLock, lock>>
samplerVars == <<sampler, todo, deliveries, current>>
workerVars == <<creating, handles, workerClosed, monitor, closeWorker>>
replayVars == <<drain, cap, needed, replaying, instruments, replayed, latest, lost, reported>>
vars == <<telemetryVars, runtimeVars, lockVars, samplerVars, closing, workerVars, replayVars>>

CloseThreads == Closers \cup {SamplerThread}
WorkerThreads == Workers \cup {SamplerThread}

\* A hook runs, and is not in the middle of closing something.
InHook ==
  /\ sampler = "hook"
  /\ closeWorker[SamplerThread] = "out"
  /\ closing[SamplerThread] \in {"out", "skipped", "returned"}

-----------------------------------------------------------------------------
(***************************************************************************)
(* drainTelemetry, KtBridge.retrieveMetrics and CoreMetricsBridge.record, by  *)
(* the thread that owns sampleLock.  An exception of the application's meter   *)
(* ends it.                                                                *)
(***************************************************************************)

\* The first attempt is made with a buffer of fixed size.
DrainBegin ==
  /\ drain' = "retrieve"
  /\ cap' = Fit

\* BUFFER_TOO_SMALL: try again with the size of the batch.
RetrieveAgain ==
  /\ drain = "retrieve"
  /\ Probe(cap)
  /\ cap' = Len(Batch.updates)
  /\ UNCHANGED <<runtimeVars, lockVars, samplerVars, closing, workerVars, drain, needed,
                 replaying, instruments, replayed, latest, lost, reported>>

\* The batch is copied out; its log lines come first.
Retrieve ==
  /\ drain = "retrieve"
  /\ CopyOut(cap)
  /\ drain' = "define"
  /\ needed' = Batch.known
  /\ replaying' = Batch.updates
  /\ reported' = reported + Batch.dropped
  /\ cap' = Fit
  /\ UNCHANGED <<runtimeVars, lockVars, samplerVars, closing, workerVars, instruments,
                 replayed, latest, lost>>

\* What is left of the batch is lost with an exception.
GiveUp ==
  /\ drain' = "none"
  /\ replaying' = <<>>
  /\ lost' = lost + Len(replaying)

\* Instruments are created for the definitions that are new.
CreateInstruments ==
  /\ drain = "define"
  /\ \/ /\ instruments' = instruments \cup needed
        /\ drain' = "replay"
        /\ UNCHANGED <<replaying, lost>>
     \/ /\ \E failing \in needed \ instruments, done \in SUBSET (needed \ instruments) :
             /\ failing \notin done
             /\ instruments' = instruments \cup done
        /\ GiveUp
  /\ needed' = {}
  /\ UNCHANGED <<telemetryVars, runtimeVars, lockVars, samplerVars, closing, workerVars, cap,
                 replayed, latest, reported>>

\* One update.  One without an instrument is skipped silently.
ReplayOne ==
  /\ drain = "replay"
  /\ replaying # <<>>
  /\ \/ /\ replayed' = IF Head(replaying).id \in instruments THEN replayed + 1 ELSE replayed
        /\ latest' = Head(replaying).n
        /\ replaying' = Tail(replaying)
        /\ UNCHANGED <<drain, lost>>
     \/ /\ GiveUp
        /\ UNCHANGED <<replayed, latest>>
  /\ UNCHANGED <<telemetryVars, runtimeVars, lockVars, samplerVars, closing, workerVars, cap,
                 needed, instruments, reported>>

ReplayEnd ==
  /\ drain = "replay"
  /\ replaying = <<>>
  /\ drain' = "none"
  /\ UNCHANGED <<telemetryVars, runtimeVars, lockVars, samplerVars, closing, workerVars, cap,
                 needed, replaying, instruments, replayed, latest, lost, reported>>

DrainStep == RetrieveAgain \/ Retrieve \/ CreateInstruments \/ ReplayOne \/ ReplayEnd

-----------------------------------------------------------------------------
(***************************************************************************)
(* sample().  A worker stands for all its samples.                         *)
(***************************************************************************)

\* The schedule ends with close; a sample that was waiting then does nothing.
SampleBegin ==
  /\ sampler = "idle"
  /\ sampleLock = NoThread
  /\ ~closed
  /\ sampleLock' = SamplerThread
  /\ sampler' = "locking"
  /\ UNCHANGED <<telemetryVars, runtimeVars, lock, todo, deliveries, current, closing,
                 workerVars, replayVars>>

SampleWorkersBegin ==
  /\ sampler = "locking"
  /\ lock = NoThread
  /\ lock' = SamplerThread
  /\ sampler' = "updating"
  /\ todo' = registered
  /\ UNCHANGED <<telemetryVars, runtimeVars, sampleLock, deliveries, current, closing,
                 workerVars, replayVars>>

\* updateResource of one worker, which fails once Core has been finalized.
SampleWorker(w) ==
  /\ sampler = "updating"
  /\ w \in todo
  /\ todo' = todo \ {w}
  /\ \E updated \in BOOLEAN :
       deliveries' = IF updated THEN deliveries \cup ({w} \cap hooked) ELSE deliveries
  /\ UNCHANGED <<telemetryVars, runtimeVars, lockVars, sampler, current, closing, workerVars,
                 replayVars>>

\* The hooks run without the runtime's monitor.
SampleWorkersEnd ==
  /\ sampler = "updating"
  /\ todo = {}
  /\ lock' = NoThread
  /\ sampler' = "delivering"
  /\ UNCHANGED <<telemetryVars, runtimeVars, sampleLock, todo, deliveries, current, closing,
                 workerVars, replayVars>>

Deliver(w) ==
  /\ sampler = "delivering"
  /\ w \in deliveries
  /\ ~closed
  /\ sampler' = "hook"
  /\ current' = w
  /\ deliveries' = deliveries \ {w}
  /\ UNCHANGED <<telemetryVars, runtimeVars, lockVars, todo, closing, workerVars, replayVars>>

\* The hook returns, or throws an exception that is logged.
HookEnds ==
  /\ InHook
  /\ sampler' = "delivering"
  /\ current' = NoThread
  /\ UNCHANGED <<telemetryVars, runtimeVars, lockVars, todo, deliveries, closing,
                 workerVars, replayVars>>

SampleDrain ==
  /\ sampler = "delivering"
  /\ deliveries = {}
  /\ ~closed
  /\ sampler' = "draining"
  /\ DrainBegin
  /\ UNCHANGED <<telemetryVars, runtimeVars, lockVars, todo, deliveries, current, closing,
                 workerVars, needed, replaying, instruments, replayed, latest, lost, reported>>

\* After the drain, or as soon as a hook has closed the runtime.
SampleEnd ==
  /\ \/ sampler = "draining" /\ drain = "none"
     \/ sampler = "delivering" /\ closed
  /\ sampler' = "idle"
  /\ deliveries' = {}
  /\ sampleLock' = NoThread
  /\ UNCHANGED <<telemetryVars, runtimeVars, lock, todo, current, closing, workerVars,
                 replayVars>>

SampleStep ==
  \/ SampleWorkersBegin
  \/ \E w \in Workers : SampleWorker(w) \/ Deliver(w)
  \/ SampleWorkersEnd
  \/ HookEnds
  \/ SampleDrain
  \/ SampleEnd

-----------------------------------------------------------------------------
(***************************************************************************)
(* TemporalRuntime.close, by a thread or by a hook.                         *)
(***************************************************************************)

\* if (closed) return.
CloseCall(t) ==
  /\ closing[t] = "out"
  /\ t = SamplerThread => InHook
  /\ closing' = [closing EXCEPT ![t] = IF closed THEN "skipped" ELSE "entering"]
  /\ UNCHANGED <<telemetryVars, runtimeVars, lockVars, samplerVars, workerVars, replayVars>>

\* Faulty variant: sampleLock is not waited for.
CloseLockIgnored(t) ==
  /\ closing[t] = "entering"
  /\ closing' = [closing EXCEPT ![t] = IF closed THEN "skipped" ELSE "locked"]
  /\ UNCHANGED <<telemetryVars, runtimeVars, lockVars, samplerVars, workerVars, replayVars>>

\* Faulty variant: sampleLock is not reentrant.
CloseLockExclusive(t) ==
  /\ closing[t] = "entering"
  /\ sampleLock = NoThread
  /\ closing' = [closing EXCEPT ![t] = IF closed THEN "skipped" ELSE "locked"]
  /\ sampleLock' = IF closed THEN sampleLock ELSE t
  /\ UNCHANGED <<telemetryVars, runtimeVars, lock, samplerVars, workerVars, replayVars>>

\* sampleLock, and closed again under it.
CloseLock(t) ==
  /\ closing[t] = "entering"
  /\ sampleLock \in {NoThread, t}
  /\ closing' = [closing EXCEPT ![t] = IF closed THEN "skipped" ELSE "locked"]
  /\ sampleLock' = IF closed THEN sampleLock ELSE t
  /\ UNCHANGED <<telemetryVars, runtimeVars, lock, samplerVars, workerVars, replayVars>>

\* Under the runtime's monitor: no samples, registrations or workers from here
\* on.  Then the last drain begins.
CloseFlag(t) ==
  /\ closing[t] = "locked"
  /\ lock = NoThread
  /\ closing' = [closing EXCEPT ![t] = "draining"]
  /\ closed' = TRUE
  /\ registered' = {}
  /\ hooked' = {}
  /\ mark' = recorded
  /\ DrainBegin
  /\ UNCHANGED <<telemetryVars, native, lockVars, samplerVars, workerVars, needed, replaying,
                 instruments, replayed, latest, lost, reported>>

\* KtRuntime.close frees the native runtime with its children.
CloseFree(t) ==
  /\ closing[t] = "draining"
  /\ drain = "none"
  /\ closing' = [closing EXCEPT ![t] = "freed"]
  /\ native' = FALSE
  /\ handles' = {}
  /\ UNCHANGED <<telemetryVars, closed, registered, hooked, mark, lockVars, samplerVars,
                 creating, workerClosed, monitor, closeWorker, replayVars>>

\* unregisterClosed, which ServerRegistry models; a hook keeps sampleLock.
CloseEnd(t) ==
  /\ closing[t] = "freed"
  /\ closing' = [closing EXCEPT ![t] = "returned"]
  /\ sampleLock' = IF t = SamplerThread THEN sampleLock ELSE NoThread
  /\ UNCHANGED <<telemetryVars, runtimeVars, lock, samplerVars, workerVars, replayVars>>

CloseStep(t) == CloseLock(t) \/ CloseFlag(t) \/ CloseFree(t) \/ CloseEnd(t)

-----------------------------------------------------------------------------
(***************************************************************************)
(* TemporalWorker.create, onSlotSupplierMetrics and close.                  *)
(***************************************************************************)

\* runtime.ensureOpen().
CreateCheck(w) ==
  /\ creating[w] = "none"
  /\ ~closed
  /\ creating' = [creating EXCEPT ![w] = "checked"]
  /\ UNCHANGED <<telemetryVars, runtimeVars, lockVars, samplerVars, closing, handles,
                 workerClosed, monitor, closeWorker, replayVars>>

\* KtWorker.create, which leaves no handle behind when it fails.
CreateHandle(w) ==
  /\ creating[w] = "checked"
  /\ \E valid \in BOOLEAN :
       LET made == valid /\ native
       IN /\ creating' = [creating EXCEPT ![w] = IF made THEN "created" ELSE "failed"]
          /\ handles' = IF made THEN handles \cup {w} ELSE handles
  /\ UNCHANGED <<telemetryVars, runtimeVars, lockVars, samplerVars, closing,
                 workerClosed, monitor, closeWorker, replayVars>>

\* registerResourceWorker, which fails on a closed runtime and with its first
\* updateResource.
Register(w) ==
  /\ creating[w] = "created"
  /\ lock = NoThread
  /\ \E updated \in BOOLEAN :
       LET done == updated /\ ~closed
       IN /\ creating' = [creating EXCEPT ![w] = IF done THEN "registered" ELSE "failing"]
          /\ registered' = IF done THEN registered \cup {w} ELSE registered
  /\ UNCHANGED <<telemetryVars, closed, native, hooked, mark, lockVars, samplerVars, closing,
                 handles, workerClosed, monitor, closeWorker, replayVars>>

\* worker.start(), which may fail, and does on a freed handle.
Start(w) ==
  /\ creating[w] = "registered"
  /\ \E started \in BOOLEAN :
       creating' = [creating EXCEPT ![w] =
          IF started /\ w \in handles THEN "open" ELSE "failing"]
  /\ UNCHANGED <<telemetryVars, runtimeVars, lockVars, samplerVars, closing, handles,
                 workerClosed, monitor, closeWorker, replayVars>>

\* removeResourceWorker(handle).
RemoveResourceWorker(w) ==
  /\ lock = NoThread
  /\ registered' = registered \ {w}
  /\ hooked' = hooked \ {w}
  /\ UNCHANGED <<closed, native, mark>>

\* The catch block of create: removeResourceWorker ...
CreateUndo(w) ==
  /\ creating[w] = "failing"
  /\ creating' = [creating EXCEPT ![w] = "undone"]
  /\ RemoveResourceWorker(w)
  /\ UNCHANGED <<telemetryVars, lockVars, samplerVars, closing, handles, workerClosed, monitor,
                 closeWorker, replayVars>>

\* ... and KtWorker.close.
CreateFails(w) ==
  /\ creating[w] = "undone"
  /\ creating' = [creating EXCEPT ![w] = "failed"]
  /\ handles' = handles \ {w}
  /\ UNCHANGED <<telemetryVars, runtimeVars, lockVars, samplerVars, closing,
                 workerClosed, monitor, closeWorker, replayVars>>

\* onSlotSupplierMetrics sets the callback of a registered worker, or removes it.
Observe(w) ==
  /\ creating[w] = "open"
  /\ lock = NoThread
  /\ \/ hooked' = hooked \cup ({w} \cap registered)
     \/ hooked' = hooked \ {w}
  /\ UNCHANGED <<telemetryVars, closed, native, registered, mark, lockVars, samplerVars,
                 closing, workerVars, replayVars>>

\* A worker is closed by its own thread, or by a hook, its own or another's.
Target(t) == IF t = SamplerThread THEN current ELSE t

\* if (closed) return.
WorkerCloseCall(t) ==
  /\ closeWorker[t] = "out"
  /\ \/ /\ t = SamplerThread /\ InHook
        /\ \E w \in Workers : creating[w] = "open" /\ current' = w
     \/ /\ t # SamplerThread /\ creating[t] = "open"
        /\ UNCHANGED current
  /\ Target(t)' \notin workerClosed
  /\ closeWorker' = [closeWorker EXCEPT ![t] = "entering"]
  /\ UNCHANGED <<telemetryVars, runtimeVars, lockVars, sampler, todo, deliveries, closing, creating,
                 handles, workerClosed, monitor, replayVars>>

\* The worker's monitor, and closed again under it.
WorkerCloseLock(t) ==
  /\ closeWorker[t] = "entering"
  /\ monitor[Target(t)] = NoThread
  /\ LET already == Target(t) \in workerClosed
     IN /\ closeWorker' = [closeWorker EXCEPT ![t] = IF already THEN "out" ELSE "owning"]
        /\ monitor' = [monitor EXCEPT ![Target(t)] = IF already THEN @ ELSE t]
  /\ workerClosed' = workerClosed \cup {Target(t)}
  /\ UNCHANGED <<telemetryVars, runtimeVars, lockVars, samplerVars, closing, creating, handles,
                 replayVars>>

\* Faulty variant: the runtime keeps the closed worker.
WorkerCloseKeeps(t) ==
  /\ closeWorker[t] = "owning"
  /\ closeWorker' = [closeWorker EXCEPT ![t] = "removed"]
  /\ UNCHANGED <<telemetryVars, runtimeVars, lockVars, samplerVars, closing, creating, handles,
                 workerClosed, monitor, replayVars>>

\* removeResourceWorker comes before the handle is freed.
WorkerCloseRemove(t) ==
  /\ closeWorker[t] = "owning"
  /\ closeWorker' = [closeWorker EXCEPT ![t] = "removed"]
  /\ RemoveResourceWorker(Target(t))
  /\ UNCHANGED <<telemetryVars, lockVars, samplerVars, closing, creating, handles,
                 workerClosed, monitor, replayVars>>

\* KtWorker.close.
WorkerCloseFree(t) ==
  /\ closeWorker[t] = "removed"
  /\ closeWorker' = [closeWorker EXCEPT ![t] = "out"]
  /\ handles' = handles \ {Target(t)}
  /\ monitor' = [monitor EXCEPT ![Target(t)] = NoThread]
  /\ UNCHANGED <<telemetryVars, runtimeVars, lockVars, samplerVars, closing, creating,
                 workerClosed, replayVars>>

WorkerCloseStep(t) == WorkerCloseLock(t) \/ WorkerCloseRemove(t) \/ WorkerCloseFree(t)

CreateStep(w) ==
  CreateHandle(w) \/ Register(w) \/ Start(w) \/ CreateUndo(w) \/ CreateFails(w)

-----------------------------------------------------------------------------

\* Core's threads, which end with the native runtime.
CoreStep ==
  /\ native
  /\ \/ \E i \in Instruments : Define(i)
     \/ \E id \in 1..Len(definitions) : Record(id)
  /\ UNCHANGED <<runtimeVars, lockVars, samplerVars, closing, workerVars, replayVars>>

Init ==
  /\ TelemetryInit
  /\ closed = FALSE
  /\ native = TRUE
  /\ sampleLock = NoThread
  /\ lock = NoThread
  /\ registered = {}
  /\ hooked = {}
  /\ mark = 0
  /\ sampler = "idle"
  /\ todo = {}
  /\ deliveries = {}
  /\ current = NoThread
  /\ closing = [t \in CloseThreads |-> "out"]
  /\ creating = [w \in Workers |-> "none"]
  /\ handles = {}
  /\ workerClosed = {}
  /\ monitor = [w \in Workers |-> NoThread]
  /\ closeWorker = [t \in WorkerThreads |-> "out"]
  /\ drain = "none"
  /\ cap = Fit
  /\ needed = {}
  /\ replaying = <<>>
  /\ instruments = {}
  /\ replayed = 0
  /\ latest = 0
  /\ lost = 0
  /\ reported = 0

Next ==
  \/ CoreStep
  \/ DrainStep
  \/ SampleBegin
  \/ SampleStep
  \/ \E t \in CloseThreads : CloseCall(t) \/ CloseStep(t)
  \/ \E w \in Workers : CreateCheck(w) \/ CreateStep(w) \/ Observe(w)
  \/ \E t \in WorkerThreads : WorkerCloseCall(t) \/ WorkerCloseStep(t)

Spec == Init /\ [][Next]_vars

\* Threads inside a call go on, and a hook returns; nobody need call anything.  Between two
\* samples sampleLock is free for 50 ms, time enough for a closer that waits for it.
Fairness ==
  /\ WF_vars(DrainStep)
  /\ WF_vars(SampleStep)
  /\ \A t \in CloseThreads : SF_vars(CloseStep(t))
  /\ \A w \in Workers : WF_vars(CreateStep(w))
  /\ \A t \in WorkerThreads : WF_vars(WorkerCloseStep(t))

FairSpec == Spec /\ Fairness

-----------------------------------------------------------------------------
(***************************************************************************)
(* Properties.                                                             *)
(***************************************************************************)

\* The types of the runtime's state.
TypeOK ==
  /\ closed \in BOOLEAN /\ native \in BOOLEAN
  /\ sampleLock \in CloseThreads \cup {NoThread}
  /\ lock \in {NoThread, SamplerThread}
  /\ hooked \subseteq registered /\ registered \subseteq Workers
  /\ sampler \in {"idle", "locking", "updating", "delivering", "hook", "draining"}
  /\ todo \subseteq Workers /\ deliveries \subseteq Workers
  /\ current \in Workers \cup {NoThread}
  /\ closing \in [CloseThreads ->
       {"out", "skipped", "entering", "locked", "draining", "freed", "returned"}]
  /\ creating \in [Workers ->
       {"none", "checked", "created", "registered", "open", "failing", "undone", "failed"}]
  /\ handles \subseteq Workers /\ workerClosed \subseteq Workers
  /\ monitor \in [Workers -> WorkerThreads \cup {NoThread}]
  /\ closeWorker \in [WorkerThreads -> {"out", "entering", "owning", "removed"}]
  /\ drain \in {"none", "retrieve", "define", "replay"}

\* The updates in the hands of drainTelemetry, retained for it and still in the
\* buffer, in this order.
InOrder == replaying \o retained.updates \o updates

\* "Retained until a successful FFI buffer copy; a size probe must not consume
\* samples" (runtime.rs:27): every recorded update is on its way, replayed, lost
\* in an exception of the meter, or reported as dropped; never twice, out of
\* order, or skipped for want of its instrument.  And the close that closed the
\* runtime leaves nothing behind that was recorded before.
TelemetryAccounted ==
  /\ recorded = replayed + lost + reported + Len(InOrder) + retained.dropped + dropped
  /\ \A m, n \in DOMAIN InOrder : m < n => InOrder[m].n < InOrder[n].n
  /\ \A m \in DOMAIN InOrder : InOrder[m].n > latest
  /\ native \/ \A m \in DOMAIN InOrder : InOrder[m].n > mark

\* The native side is never asked about a freed handle, whoever closes a worker
\* or the runtime while the sampler is at work.
HandlesLiveWhenSampled ==
  /\ TypeOK
  /\ registered \cup todo \subseteq handles
  /\ drain # "none" => native

\* Once close has returned to the thread that closed the runtime, the sampler is
\* not sampling: no hook runs and no telemetry arrives any more.
QuietAfterClose ==
  \A c \in Closers : closing[c] = "returned" => sampler = "idle" /\ drain = "none"

\* close returns, although it waits for samples whose hooks close workers or
\* the runtime themselves ("User hooks may close workers", TemporalRuntime.kt:160).
CloseReturns ==
  \A t \in CloseThreads :
    closing[t] = "entering" ~> closing[t] \in {"skipped", "returned"}

\* Thread t cannot go on before thread u gives up sampleLock, which is reentrant, the
\* runtime's monitor or the monitor of a worker.
WaitsFor(t, u) ==
  \/ t \in CloseThreads /\ closing[t] = "entering" /\ sampleLock = u /\ t # u
  \/ t \in CloseThreads /\ closing[t] = "locked" /\ lock = u
  \/ t \in WorkerThreads /\ closeWorker[t] = "entering" /\ monitor[Target(t)] = u
  \/ t \in WorkerThreads /\ closeWorker[t] = "owning" /\ lock = u
  \/ t \in Workers /\ creating[t] \in {"created", "failing"} /\ lock = u
  \/ t = SamplerThread /\ sampler = "locking" /\ lock = u

\* What CloseReturns rests on: whoever is waited for waits at most for a thread that waits
\* for nobody, so that no threads wait in a circle, although hooks, called with sampleLock
\* held, close workers and the runtime (TemporalRuntime.kt:160).
NoCircularWait ==
  LET threads == CloseThreads \cup WorkerThreads
  IN \A t, u, v, x \in threads : WaitsFor(t, u) /\ WaitsFor(u, v) => ~WaitsFor(v, x)
=============================================================================
