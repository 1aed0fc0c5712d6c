------------------------------- MODULE Worker -------------------------------
(***************************************************************************)
(* One worker (kt-bridge/src/worker.rs): its three poll loops, the task       *)
(* completions that flow back, and the ways it ends (kt_worker_shutdown with  *)
(* its grace period and background finalization, kt_worker_free).           *)
(*                                                                         *)
(* Sharing of the Core worker is what the shutdown code is about, so who     *)
(* holds an Arc<CoreWorker> is explicit (Holders).  Core itself is external:  *)
(* a stream reports ShutDown once shutdown was initiated and its tasks are    *)
(* completed, and finalize_shutdown waits until every stream has reported it  *)
(* (worker.rs:182-187, 617-623).  Time is not modelled: a grace period may   *)
(* run out at any turn of the loop that watches it.                         *)
(***************************************************************************)
EXTENDS Naturals, FiniteSets

CONSTANTS
  Streams,     \* the poll streams (TaskKind): three in the code
  Shutdowns,   \* calls of kt_worker_shutdown
  MaxTasks,    \* bound: tasks a stream hands out
  CanPanic     \* whether Core may panic inside a poll

ASSUME BoundsAssumption == MaxTasks \in Nat /\ CanPanic \in BOOLEAN
ASSUME StreamsAssumption == IsFiniteSet(Streams)
ASSUME ShutdownsAssumption == "nobody" \notin Shutdowns   \* NoActor is no actor

VARIABLES
  state,      \* WorkerEntry.state: "running", "draining" or "finalized"
  started,    \* WorkerState::Running.started (kept afterwards)
  livePumps,  \* WorkerEntry.live_pumps
  pump,       \* per stream: how far its poll loop is
  aborted,    \* the poll tasks whose abort handle was used
  reported,   \* streams whose loop has pushed WorkerFailed
  ended,      \* streams whose TaskStreamEnd was pushed
  sawShutDown,\* streams that returned ShutDown to their loop
  handed,     \* per stream: how many tasks it has handed out
  task,       \* per stream: its task at the JVM
  coreDown,   \* initiate_shutdown has run
  coreFinal,  \* finalize_shutdown: "no", "called" or "done"
  actor,      \* per shutdown: the request ("fg") and its background task ("bg")
  lock,       \* the holder of shutdown_lock
  freed       \* kt_worker_free has run

vars == <<state, started, livePumps, pump, aborted, reported, ended, sawShutDown, handed,
          task, coreDown, coreFinal, actor, lock, freed>>
pumpVars == <<livePumps, pump, aborted, reported, ended, sawShutDown, handed, task>>

Actors == Shutdowns \X {"fg", "bg"}
NoActor == <<"nobody", "fg">>
PumpSteps == {"none", "polling", "leaving", "gone"}
TaskStates == {"none", "jvm", "completing", "stranded"}
ActorSteps == {"idle", "locking", "draining", "finalizing", "awaitingCore",
               "ok", "late", "shared", "cancelled"}

-----------------------------------------------------------------------------
(***************************************************************************)
(* Who holds an Arc<CoreWorker>: the state, a running loop, a completion in  *)
(* progress, a shutdown between taking it and finalizing.  Heartbeats and    *)
(* validations hold a clone too, for the length of the call: they begin and   *)
(* end at any time, and all they do to a shutdown is in GiveUp.              *)
(***************************************************************************)
StateHolds == state # "finalized"
OtherHolders(a) ==
  { k \in Streams : pump[k] = "polling" \/ task[k] = "completing" }
    \cup { b \in Actors \ {a} : actor[b] \in {"draining", "finalizing"} }

-----------------------------------------------------------------------------
(***************************************************************************)
(* kt_worker_start and the poll loops.                                     *)
(***************************************************************************)

\* worker::start, under the lock of state: a started worker is left alone, one
\* that is shutting down is refused.
Start ==
  /\ state = "running"
  /\ ~started
  /\ started' = TRUE
  /\ livePumps' = Cardinality(Streams)
  /\ pump' = [k \in Streams |-> "polling"]
  /\ UNCHANGED <<state, aborted, reported, ended, sawShutDown, handed, task, coreDown,
                 coreFinal, actor, lock, freed>>

\* pump: poll returned a task, which is pushed to the JVM.
PumpTask(k) ==
  /\ pump[k] = "polling"
  /\ task[k] = "none"
  /\ handed[k] < MaxTasks
  /\ handed' = [handed EXCEPT ![k] = @ + 1]
  /\ task' = [task EXCEPT ![k] = "jvm"]
  /\ UNCHANGED <<state, started, livePumps, pump, aborted, reported, ended, sawShutDown,
                 coreDown, coreFinal, actor, lock, freed>>

\* Faulty variant: the JVM is not told of the end of the stream.
PumpShutDownSilently(k) ==
  /\ pump[k] = "polling"
  /\ coreDown
  /\ task[k] = "none"
  /\ sawShutDown' = sawShutDown \cup {k}
  /\ pump' = [pump EXCEPT ![k] = "leaving"]
  /\ UNCHANGED <<state, started, livePumps, aborted, reported, ended, handed, task, coreDown,
                 coreFinal, actor, lock, freed>>

\* pump: poll returned ShutDown; TaskStreamEnd is pushed and the loop ends.
PumpShutDown(k) ==
  /\ pump[k] = "polling"
  /\ coreDown
  /\ task[k] = "none"
  /\ ended' = ended \cup {k}
  /\ sawShutDown' = sawShutDown \cup {k}
  /\ pump' = [pump EXCEPT ![k] = "leaving"]
  /\ UNCHANGED <<state, started, livePumps, aborted, reported, handed, task, coreDown,
                 coreFinal, actor, lock, freed>>

\* pump: poll returned another error.  The first one starts the shutdown and
\* is reported; the loop goes on in any case.
PumpError(k) ==
  /\ pump[k] = "polling"
  /\ k \notin reported
  /\ reported' = reported \cup {k}
  /\ coreDown' = TRUE
  /\ UNCHANGED <<state, started, livePumps, pump, aborted, ended, sawShutDown, handed, task,
                 coreFinal, actor, lock, freed>>

\* pump: the poll panicked.  The failure and the end of the stream are pushed,
\* shutdown is initiated and the loop is left.
PumpPanic(k) ==
  /\ CanPanic
  /\ pump[k] = "polling"
  /\ reported' = reported \cup {k}
  /\ ended' = ended \cup {k}
  /\ coreDown' = TRUE
  /\ pump' = [pump EXCEPT ![k] = "leaving"]
  /\ UNCHANGED <<state, started, livePumps, aborted, sawShutDown, handed, task, coreFinal,
                 actor, lock, freed>>

\* An aborted loop ends at its next await, without pushing anything.
PumpAborted(k) ==
  /\ pump[k] = "polling"
  /\ k \in aborted
  /\ pump' = [pump EXCEPT ![k] = "leaving"]
  /\ UNCHANGED <<state, started, livePumps, aborted, reported, ended, sawShutDown, handed,
                 task, coreDown, coreFinal, actor, lock, freed>>

\* Drop for Leaving: the count goes down after the loop dropped its Arc.
PumpLeave(k) ==
  /\ pump[k] = "leaving"
  /\ pump' = [pump EXCEPT ![k] = "gone"]
  /\ livePumps' = livePumps - 1
  /\ UNCHANGED <<state, started, aborted, reported, ended, sawShutDown, handed, task, coreDown,
                 coreFinal, actor, lock, freed>>

-----------------------------------------------------------------------------
(***************************************************************************)
(* kt_worker_complete and kt_worker_initiate_shutdown.                     *)
(***************************************************************************)

\* WorkerEntry::core for a completion: refused when finalized, and then the
\* task can never be completed.
CompleteBegin(k) ==
  /\ task[k] = "jvm"
  /\ task' = [task EXCEPT ![k] = IF state = "finalized" THEN "stranded" ELSE "completing"]
  /\ UNCHANGED <<state, started, livePumps, pump, aborted, reported, ended, sawShutDown, handed,
                 coreDown, coreFinal, actor, lock, freed>>

\* worker::complete is done and its Arc dropped.
CompleteEnd(k) ==
  /\ task[k] = "completing"
  /\ task' = [task EXCEPT ![k] = "none"]
  /\ UNCHANGED <<state, started, livePumps, pump, aborted, reported, ended, sawShutDown, handed,
                 coreDown, coreFinal, actor, lock, freed>>

\* kt_worker_initiate_shutdown: a no-op on a finalized worker.
InitiateShutdown ==
  /\ state # "finalized"
  /\ ~coreDown
  /\ coreDown' = TRUE
  /\ UNCHANGED <<state, started, pumpVars, coreFinal, actor, lock, freed>>

-----------------------------------------------------------------------------
(***************************************************************************)
(* worker::shutdown and worker::finalize.                                  *)
(***************************************************************************)

\* shutdown_lock can be taken.
LockFree == lock = NoActor

\* kt_worker_shutdown has been accepted as a request.
ShutdownCall(s) ==
  /\ actor[<<s, "fg">>] = "idle"
  /\ actor' = [actor EXCEPT ![<<s, "fg">>] = "locking"]
  /\ UNCHANGED <<state, started, pumpVars, coreDown, coreFinal, lock, freed>>

\* With shutdown_lock: nothing to do if finalized; else the worker drains and
\* Core is told, and one that was never started is finalized on the spot.
ShutdownBegin(s) ==
  LET a == <<s, "fg">>
  IN /\ actor[a] = "locking"
     /\ LockFree
     /\ \/ /\ state = "finalized"
           /\ actor' = [actor EXCEPT ![a] = "ok"]
           /\ UNCHANGED <<state, coreDown, lock>>
        \/ /\ state # "finalized" /\ ~started
           /\ state' = "finalized"
           /\ coreDown' = TRUE
           /\ actor' = [actor EXCEPT ![a] = "ok"]
           /\ UNCHANGED lock
        \/ /\ state # "finalized" /\ started
           /\ state' = "draining"
           /\ coreDown' = TRUE
           /\ actor' = [actor EXCEPT ![a] = "draining"]
           /\ lock' = a
     /\ UNCHANGED <<started, pumpVars, coreFinal, freed>>

\* The loops have ended: return if a force-close got there first, else
\* finalize (which begins by setting the state).
Drained(s) ==
  LET a == <<s, "fg">>
  IN /\ actor[a] = "draining"
     /\ livePumps = 0
     /\ IF state = "finalized"
        THEN actor' = [actor EXCEPT ![a] = "ok"] /\ lock' = NoActor /\ UNCHANGED state
        ELSE actor' = [actor EXCEPT ![a] = "finalizing"] /\ state' = "finalized" /\ UNCHANGED lock
     /\ UNCHANGED <<started, pumpVars, coreDown, coreFinal, freed>>

\* Faulty variant: the worker is finalized when its grace period ends.
GraceFinalizes(s) ==
  /\ actor[<<s, "fg">>] = "draining"
  /\ livePumps > 0
  /\ actor' = [actor EXCEPT ![<<s, "fg">>] = "late", ![<<s, "bg">>] = "locking"]
  /\ lock' = NoActor
  /\ state' = "finalized"
  /\ UNCHANGED <<started, pumpVars, coreDown, coreFinal, freed>>

\* Faulty variant: nothing is left to finalize the worker later.
GraceAbandons(s) ==
  /\ actor[<<s, "fg">>] = "draining"
  /\ livePumps > 0
  /\ actor' = [actor EXCEPT ![<<s, "fg">>] = "late"]
  /\ lock' = NoActor
  /\ UNCHANGED <<state, started, pumpVars, coreDown, coreFinal, freed>>

\* Faulty variant: the lock is kept for the background task.
GraceKeepsLock(s) ==
  /\ actor[<<s, "fg">>] = "draining"
  /\ livePumps > 0
  /\ actor' = [actor EXCEPT ![<<s, "fg">>] = "late", ![<<s, "bg">>] = "locking"]
  /\ UNCHANGED <<state, started, pumpVars, coreDown, coreFinal, lock, freed>>

\* The grace period ends while loops are running: report it, stay in Draining
\* and leave the rest to a background task.
GraceExpires(s) ==
  /\ actor[<<s, "fg">>] = "draining"
  /\ livePumps > 0
  /\ actor' = [actor EXCEPT ![<<s, "fg">>] = "late", ![<<s, "bg">>] = "locking"]
  /\ lock' = NoActor
  /\ UNCHANGED <<state, started, pumpVars, coreDown, coreFinal, freed>>

\* The background task, once the loops have ended and it has the lock: clone
\* the core if there still is one, and finalize.
BackgroundFinalize(s) ==
  LET a == <<s, "bg">>
  IN /\ actor[a] = "locking"
     /\ livePumps = 0
     /\ LockFree
     /\ IF state = "finalized"
        THEN actor' = [actor EXCEPT ![a] = "ok"] /\ UNCHANGED <<state, lock>>
        ELSE actor' = [actor EXCEPT ![a] = "finalizing"] /\ state' = "finalized" /\ lock' = a
     /\ UNCHANGED <<started, pumpVars, coreDown, coreFinal, freed>>

\* Faulty variant: other references are not waited for.
UnwrapShared(a) ==
  /\ actor[a] = "finalizing"
  /\ actor' = [actor EXCEPT ![a] = "awaitingCore"]
  /\ coreFinal' = "called"
  /\ UNCHANGED <<state, started, pumpVars, coreDown, lock, freed>>

\* finalize: Arc::try_unwrap succeeds for the last reference ...
Unwrap(a) ==
  /\ actor[a] = "finalizing"
  /\ ~StateHolds
  /\ OtherHolders(a) = {}
  /\ actor' = [actor EXCEPT ![a] = "awaitingCore"]
  /\ coreFinal' = "called"
  /\ UNCHANGED <<state, started, pumpVars, coreDown, lock, freed>>

\* ... and otherwise is tried again until the deadline, when the reference is
\* put back and the shutdown fails.  The other reference need not be one of
\* OtherHolders: a heartbeat or a validation may have outlasted the deadline.
GiveUp(a) ==
  /\ actor[a] = "finalizing"
  /\ state' = "draining"
  /\ actor' = [actor EXCEPT ![a] = "shared"]
  /\ lock' = NoActor
  /\ UNCHANGED <<started, pumpVars, coreDown, coreFinal, freed>>

\* Core's finalize_shutdown returns.
CoreFinalized(a) ==
  /\ actor[a] = "awaitingCore"
  /\ Streams \subseteq sawShutDown
  /\ coreFinal' = "done"
  /\ actor' = [actor EXCEPT ![a] = "ok"]
  /\ lock' = NoActor
  /\ UNCHANGED <<state, started, pumpVars, coreDown, freed>>

\* kt_runtime_free frees its workers before it cancels the requests in flight:
\* the future of a shutdown is dropped at an await, with its Arc and the lock.
ShutdownCancelled(s) ==
  LET a == <<s, "fg">>
  IN /\ freed
     /\ actor[a] \in {"locking", "draining", "finalizing", "awaitingCore"}
     /\ actor' = [actor EXCEPT ![a] = "cancelled"]
     /\ lock' = IF lock = a THEN NoActor ELSE lock
     /\ UNCHANGED <<state, started, pumpVars, coreDown, coreFinal, freed>>

-----------------------------------------------------------------------------
\* worker::free: invalidate, abort the loops, initiate shutdown.
Free ==
  /\ ~freed
  /\ freed' = TRUE
  /\ state' = "finalized"
  /\ aborted' = { k \in Streams : pump[k] # "none" }
  /\ coreDown' = (coreDown \/ state # "finalized")
  /\ UNCHANGED <<started, livePumps, pump, reported, ended, sawShutDown, handed, task,
                 coreFinal, actor, lock>>

-----------------------------------------------------------------------------
Init ==
  /\ state = "running"
  /\ started = FALSE
  /\ livePumps = 0
  /\ pump = [k \in Streams |-> "none"]
  /\ aborted = {}
  /\ reported = {}
  /\ ended = {}
  /\ sawShutDown = {}
  /\ handed = [k \in Streams |-> 0]
  /\ task = [k \in Streams |-> "none"]
  /\ coreDown = FALSE
  /\ coreFinal = "no"
  /\ actor = [a \in Actors |-> "idle"]
  /\ lock = NoActor
  /\ freed = FALSE

PumpStep(k) == PumpTask(k) \/ PumpShutDown(k) \/ PumpAborted(k) \/ PumpLeave(k)
JvmStep(k) == CompleteBegin(k) \/ CompleteEnd(k)
ActorStep(s) ==
  \/ ShutdownBegin(s) \/ Drained(s) \/ BackgroundFinalize(s)
  \/ \E w \in {"fg", "bg"} : Unwrap(<<s, w>>) \/ CoreFinalized(<<s, w>>)

Next ==
  \/ Start \/ InitiateShutdown \/ Free
  \/ \E k \in Streams : PumpStep(k) \/ PumpError(k) \/ PumpPanic(k) \/ JvmStep(k)
  \/ \E s \in Shutdowns :
       ShutdownCall(s) \/ ActorStep(s) \/ GraceExpires(s) \/ ShutdownCancelled(s)
  \/ \E a \in Actors : GiveUp(a)

Spec == Init /\ [][Next]_vars

\* Tokio runs the loops and the shutdowns, Core's polls return, the JVM
\* completes the tasks it is given.  Grace periods, errors and frees need not
\* happen.  The shutdowns get strong fairness: tokio's Mutex is first come first
\* served.
Fairness ==
  /\ \A k \in Streams : WF_vars(PumpStep(k)) /\ WF_vars(JvmStep(k))
  /\ \A s \in Shutdowns : SF_vars(ActorStep(s))

FairSpec == Spec /\ Fairness

-----------------------------------------------------------------------------
(***************************************************************************)
(* Properties.                                                             *)
(***************************************************************************)

\* The types of the worker's state.
TypeOK ==
  /\ state \in {"running", "draining", "finalized"}
  /\ started \in BOOLEAN /\ coreDown \in BOOLEAN /\ freed \in BOOLEAN
  /\ livePumps \in Nat
  /\ pump \in [Streams -> PumpSteps]
  /\ aborted \subseteq Streams /\ reported \subseteq Streams
  /\ ended \subseteq Streams /\ sawShutDown \subseteq Streams
  /\ handed \in [Streams -> Nat]
  /\ task \in [Streams -> TaskStates]
  /\ coreFinal \in {"no", "called", "done"}
  /\ actor \in [Actors -> ActorSteps]
  /\ lock \in Actors \cup {NoActor}

\* Streams whose loop was left after a panic, without having seen ShutDown.
Panicked == ended \ sawShutDown

\* A worker that is not force-closed never refuses a completion Core waits for
\* (worker.rs:665-668: "a deadlock"), whatever shutdowns time out, overlap or
\* finish in the background, unless a poll has panicked and left its tasks.
NoStrandedCompletion ==
  ~freed /\ Panicked = {} => \A k \in Streams :
    task[k] # "stranded" /\ (task[k] = "jvm" => state # "finalized")

\* Core is finalized once, by a shutdown that holds the only reference, and not
\* before every loop has ended (worker.rs:622-625); and a shutdown that reports
\* success has finalized it, or found a worker that was never started or was
\* force-closed.
FinalizedOnce ==
  /\ TypeOK
  /\ coreFinal # "no" =>
       /\ \A k \in Streams : pump[k] # "polling" /\ task[k] # "completing"
       /\ Cardinality({ a \in Actors : actor[a] \in {"finalizing", "awaitingCore"} }) <= 1
  /\ \A s \in Shutdowns :
       actor[<<s, "fg">>] = "ok" => coreFinal = "done" \/ ~started \/ freed

Returned == {"ok", "late", "shared", "cancelled"}

\* Every kt_worker_shutdown returns, however it overlaps with another one, with
\* errors, completions and a force-close, unless a poll has panicked.
ShutdownReturns ==
  \A s \in Shutdowns :
    (actor[<<s, "fg">>] # "idle") ~> (actor[<<s, "fg">>] \in Returned \/ Panicked # {})

\* "Bounded by `grace_millis`" (lib.rs:406): the same without the exception.
ShutdownBounded ==
  \A s \in Shutdowns : (actor[<<s, "fg">>] # "idle") ~> (actor[<<s, "fg">>] \in Returned)

Promise == INSTANCE NativeStreams
             WITH sent <- handed, failed <- reported, down <- coreDown, cut <- freed

\* The streams are what NativeStreams promises the JVM, whatever errors, panics,
\* shutdowns and aborts happen: nothing is pushed before the start or after the end,
\* a failure starts the shutdown, no stream ends without one, and once shutdown was
\* initiated every stream reaches its end, unless the worker is force-closed.
ImplementsStreams == Promise!Spec

\* A worker whose grace period ran out is still finalized in the background,
\* unless a reference was held for another grace period or a poll panicked.
LateIsFinalized ==
  \A s \in Shutdowns :
    (actor[<<s, "fg">>] = "late") ~>
      \/ coreFinal = "done" \/ freed \/ Panicked # {}
      \/ \E a \in Actors : actor[a] = "shared"

\* What ShutdownReturns rests on: shutdown_lock is held by a shutdown at work, one that
\* drains has told Core to end the streams, and one that awaits finalize_shutdown has seen
\* every stream return ShutDown, unless a poll has panicked or the worker was force-closed.
NoIdleWait ==
  /\ lock # NoActor => actor[lock] \in {"draining", "finalizing", "awaitingCore"}
  /\ \A a \in Actors :
       /\ actor[a] = "draining" => coreDown
       /\ actor[a] = "awaitingCore" /\ ~freed /\ Panicked = {} => Streams \subseteq sawShutDown

\* What LateIsFinalized rests on: when a shutdown has reported that its grace period ran
\* out, its background task is going to finalize the worker, or somebody has, or the task
\* has given up because a reference was held for another grace period.
LateIsAttended ==
  \A s \in Shutdowns : actor[<<s, "fg">>] = "late" =>
    \/ coreDown /\ actor[<<s, "bg">>] \in {"locking", "finalizing", "awaitingCore"}
    \/ coreFinal = "done" \/ freed
    \/ actor[<<s, "bg">>] = "shared"
=============================================================================
