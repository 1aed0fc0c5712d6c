------------------------------ MODULE JvmSlots ------------------------------
(***************************************************************************)
(* The resource-based slot supplier (kt-bridge/src/jvm_slots.rs): the permits *)
(* of one slot kind, the admission bit the JVM's sampler sets                 *)
(* (TemporalRuntime.sample), the ramp throttle, and the reservations of Core  *)
(* that wait for a permit.  The supplier is what kt_worker_new builds from the *)
(* options of a worker (WorkerOptions), the JVM's or another caller's.        *)
(*                                                                         *)
(* The sampler's decision is arbitrary (the PID controller is not modelled).  *)
(* Time is not modelled: the ramp interval since the last grant ends at any   *)
(* moment, and so does a sleep.                                             *)
(***************************************************************************)
EXTENDS WorkerOptions, FiniteSets

CONSTANTS
  Reservations,  \* tasks of Core that reserve slots
  Configs,       \* WorkerConfigs of the JVM, acceptable ones and others
  RawOptions     \* WorkerOptions messages a caller of the C functions may send

ASSUME ReservationsAssumption == IsFiniteSet(Reservations)
ASSUME ConfigsAssumption ==
  (\A c \in Configs : IsConfig(c)) /\ (\A o \in RawOptions : IsOptions(o))

VARIABLES
  setup,     \* kt_worker_new between its checks and init_worker; NoSetup outside
  supplier,  \* the custom supplier of one slot kind of the worker
  issued,    \* State.issued, per queue
  ramped,    \* last_issued is at least the ramp interval ago
  allowed,   \* this kind's bit of ResourceGate.allowed
  reserved,  \* this kind's counter of permits
  pending,   \* this kind's counter of waiting reservations
  step,      \* per reservation: how far it is
  queue,     \* per reservation or permit: its queue, 1 for sticky (0 when there is none)
  notified,  \* reservations whose current Notified future has completed
  sleeping,  \* reservations with a sleep armed
  sampler    \* how far the JVM's sampler is in update

vars == <<setup, supplier, issued, ramped, allowed, reserved, pending, step, queue, notified,
          sleeping, sampler>>
stateVars == <<setup, supplier, issued, ramped>>
gateVars == <<allowed, reserved, pending>>

Queues == {0, 1}

NoSetup == [stage |-> "none"]
NoSupplier == [type |-> "none"]
Running == supplier.type = "custom"

\* A reservation that was refused for the ramp interval alone is "throttled", and
\* "missed" if the interval had ended when its sleep was to be armed.  A permit
\* is dropped in three steps.
Steps == {"idle", "loop", "enabled", "refused", "throttled", "waiting", "missed", "granted",
          "holding", "unissued", "unreserved"}

-----------------------------------------------------------------------------
(***************************************************************************)
(* What try_reserve_slot decides.                                          *)
(***************************************************************************)
Total == issued[0] + issued[1]

\* Faulty variant: the last permit goes to whoever asks first.
RoomForAny(q) == Total < supplier.maximum

\* The hard maximum, and the last permit, which is kept for a queue that has none.
Room(q) ==
  /\ Total < supplier.maximum
  /\ ~(supplier.sticky /\ issued[1 - q] = 0 /\ Total + 1 = supplier.maximum)

\* Granted whatever the pressure: the minimum, and one permit for each queue.
Required(q) == Total < supplier.minimum \/ (supplier.sticky /\ issued[q] = 0)

Entitled(q) == Room(q) /\ Required(q)

\* try_reserve_slot's answer.
Grants(q) == Entitled(q) \/ (Room(q) /\ allowed /\ ramped)

\* A permit is issued.
Grant(q) ==
  /\ issued' = [issued EXCEPT ![q] = @ + 1]
  /\ reserved' = reserved + 1
  /\ ramped' = (supplier.ramp = 0)

-----------------------------------------------------------------------------
(***************************************************************************)
(* kt_worker_new.                                                          *)
(***************************************************************************)
idleVars == <<issued, allowed, reserved, pending, step, queue, notified, sleeping, sampler>>

\* worker_config refuses the options or translates them; config is the JVM's, if
\* the caller is the JVM.
Translate(config, options) ==
  /\ setup' =
       IF WorkerConfigAccepts(options)
       THEN [stage |-> "built", config |-> config, built |-> WorkerConfig(options)]
       ELSE [stage |-> "refused", config |-> config]
  /\ UNCHANGED <<supplier, ramped, idleVars>>

NewWorker(c) == EncodeAccepts(c) /\ Translate(<<c>>, Encode(c))

NewRawWorker(o) == Translate(<<>>, o)

\* init_worker takes the config: from here on the model follows one custom supplier,
\* and its bit of the mask is allowed, whatever its number.
InitWorker(k) ==
  /\ setup.stage = "built"
  /\ setup.built.slots[k].type = "custom"
  /\ supplier' = [f \in DOMAIN setup.built.slots[k] \ {"number"} |-> setup.built.slots[k][f]]
  /\ ramped' = (supplier'.ramp = 0)
  /\ setup' = NoSetup
  /\ UNCHANGED idleVars

\* The error is thrown in the JVM, or the worker has no custom supplier to follow.
Abandon ==
  /\ setup # NoSetup
  /\ setup.stage = "built" => \A k \in Kinds : setup.built.slots[k].type # "custom"
  /\ setup' = NoSetup
  /\ UNCHANGED <<supplier, ramped, idleVars>>

-----------------------------------------------------------------------------
(***************************************************************************)
(* changed.notify_waiters: it reaches the futures that are enabled.         *)
(***************************************************************************)

\* Faulty variant: a reservation is registered only when it waits.
ListeningLate == { r \in Reservations : step[r] \in {"waiting", "missed"} }

\* The reservations between enable() and the end of select!.
Listening ==
  { r \in Reservations : step[r] \in {"enabled", "refused", "throttled", "waiting", "missed"} }

NotifyWaiters == notified' = notified \cup Listening

-----------------------------------------------------------------------------
(***************************************************************************)
(* reserve_slot.                                                           *)
(***************************************************************************)

\* A reservation begins; only a sticky supplier tells the queues apart.
Begin(r) ==
  /\ Running /\ step[r] = "idle"
  /\ \E q \in Queues :
       /\ q = 1 => supplier.sticky
       /\ queue' = [queue EXCEPT ![r] = q]
  /\ pending' = pending + 1
  /\ step' = [step EXCEPT ![r] = "loop"]
  /\ UNCHANGED <<stateVars, allowed, reserved, notified, sleeping, sampler>>

\* A new Notified future, enabled before the state is looked at.
Enable(r) ==
  /\ step[r] = "loop"
  /\ step' = [step EXCEPT ![r] = "enabled"]
  /\ UNCHANGED <<stateVars, gateVars, queue, notified, sleeping, sampler>>

\* try_reserve_slot, under the lock of the state.
TryReserve(r) ==
  /\ step[r] = "enabled"
  /\ \/ /\ Grants(queue[r])
        /\ Grant(queue[r])
        /\ step' = [step EXCEPT ![r] = "granted"]
        /\ notified' = notified \ {r}
     \/ /\ ~Grants(queue[r])
        /\ step' = [step EXCEPT ![r] =
             IF Room(queue[r]) /\ allowed THEN "throttled" ELSE "refused"]
        /\ UNCHANGED <<issued, reserved, ramped, notified>>
  /\ UNCHANGED <<setup, supplier, allowed, pending, queue, sleeping, sampler>>

\* The rest of the interval is read again; a sleep is armed if there is any.
Wait(r) ==
  /\ step[r] \in {"refused", "throttled"}
  /\ \/ /\ ~ramped
        /\ sleeping' = sleeping \cup {r}
        /\ step' = [step EXCEPT ![r] = "waiting"]
     \/ /\ ramped
        /\ step' = [step EXCEPT ![r] = IF step[r] = "throttled" THEN "missed" ELSE "waiting"]
        /\ UNCHANGED sleeping
  /\ UNCHANGED <<stateVars, gateVars, queue, notified, sampler>>

\* select! ends: a notification or the sleep.
Wakeup(r) ==
  /\ step[r] \in {"waiting", "missed"}
  /\ r \in notified \cup sleeping
  /\ notified' = notified \ {r}
  /\ sleeping' = sleeping \ {r}
  /\ step' = [step EXCEPT ![r] = "loop"]
  /\ UNCHANGED <<stateVars, gateVars, queue, sampler>>

\* Faulty variant: a cancelled reservation stays counted.
CancelForgets(r) ==
  /\ step[r] \in {"waiting", "missed"}
  /\ notified' = notified \ {r}
  /\ sleeping' = sleeping \ {r}
  /\ queue' = [queue EXCEPT ![r] = 0]
  /\ step' = [step EXCEPT ![r] = "idle"]
  /\ UNCHANGED <<stateVars, gateVars, sampler>>

\* Core drops the future at its await.
CancelReserve(r) ==
  /\ step[r] \in {"waiting", "missed"}
  /\ pending' = pending - 1
  /\ notified' = notified \ {r}
  /\ sleeping' = sleeping \ {r}
  /\ queue' = [queue EXCEPT ![r] = 0]
  /\ step' = [step EXCEPT ![r] = "idle"]
  /\ UNCHANGED <<stateVars, allowed, reserved, sampler>>

\* PendingReserve is dropped with the function's frame.
ReserveReturns(r) ==
  /\ step[r] = "granted"
  /\ pending' = pending - 1
  /\ step' = [step EXCEPT ![r] = "holding"]
  /\ UNCHANGED <<stateVars, allowed, reserved, queue, notified, sleeping, sampler>>

\* try_reserve_slot called by Core itself, which does not wait.
TryDirect(r) ==
  /\ Running /\ step[r] = "idle"
  /\ \E q \in Queues :
       /\ q = 1 => supplier.sticky
       /\ Grants(q)
       /\ Grant(q)
       /\ queue' = [queue EXCEPT ![r] = q]
  /\ step' = [step EXCEPT ![r] = "holding"]
  /\ UNCHANGED <<setup, supplier, allowed, pending, notified, sleeping, sampler>>

-----------------------------------------------------------------------------
(***************************************************************************)
(* Drop for Permit.                                                        *)
(***************************************************************************)
DropIssued(r) ==
  /\ step[r] = "holding"
  /\ issued' = [issued EXCEPT ![queue[r]] = @ - 1]
  /\ queue' = [queue EXCEPT ![r] = 0]
  /\ step' = [step EXCEPT ![r] = "unissued"]
  /\ UNCHANGED <<setup, supplier, ramped, gateVars, notified, sleeping, sampler>>

DropReserved(r) ==
  /\ step[r] = "unissued"
  /\ reserved' = reserved - 1
  /\ step' = [step EXCEPT ![r] = "unreserved"]
  /\ UNCHANGED <<stateVars, allowed, pending, queue, notified, sleeping, sampler>>

DropNotify(r) ==
  /\ step[r] = "unreserved"
  /\ NotifyWaiters
  /\ step' = [step EXCEPT ![r] = "idle"]
  /\ UNCHANGED <<stateVars, gateVars, queue, sleeping, sampler>>

-----------------------------------------------------------------------------
(***************************************************************************)
(* ResourceGate::update, called by the sampler at every sample.             *)
(***************************************************************************)

\* JvmResourceController.update weighs memory and CPU and may come out either way.
Verdicts == BOOLEAN

Sample ==
  /\ Running /\ sampler = "idle"
  /\ \E allow \in Verdicts : allowed' = allow
  /\ sampler' = "stored"
  /\ UNCHANGED <<stateVars, reserved, pending, step, queue, notified, sleeping>>

\* Faulty variant: the waiters are not notified.
SampleSilently ==
  /\ sampler = "stored"
  /\ sampler' = "idle"
  /\ UNCHANGED <<stateVars, gateVars, step, queue, notified, sleeping>>

SampleNotify ==
  /\ sampler = "stored"
  /\ sampler' = "idle"
  /\ NotifyWaiters
  /\ UNCHANGED <<stateVars, gateVars, step, queue, sleeping>>

\* The ramp interval since the last grant ends.
RampEnds ==
  /\ ~ramped
  /\ ramped' = TRUE
  /\ UNCHANGED <<setup, supplier, issued, gateVars, step, queue, notified, sleeping, sampler>>

-----------------------------------------------------------------------------
Init ==
  /\ setup = NoSetup
  /\ supplier = NoSupplier
  /\ issued = [q \in Queues |-> 0]
  /\ ramped = TRUE
  /\ allowed = FALSE
  /\ reserved = 0
  /\ pending = 0
  /\ step = [r \in Reservations |-> "idle"]
  /\ queue = [r \in Reservations |-> 0]
  /\ notified = {}
  /\ sleeping = {}
  /\ sampler = "idle"

ReserveStep(r) == Enable(r) \/ TryReserve(r) \/ Wait(r) \/ Wakeup(r) \/ ReserveReturns(r)
DropStep(r) == DropReserved(r) \/ DropNotify(r)

Next ==
  \/ /\ setup = NoSetup /\ ~Running
     /\ \/ \E c \in Configs : NewWorker(c)
        \/ \E o \in RawOptions : NewRawWorker(o)
  \/ \E k \in Kinds : InitWorker(k)
  \/ Abandon
  \/ \E r \in Reservations :
       \/ Begin(r) \/ ReserveStep(r) \/ CancelReserve(r) \/ TryDirect(r)
       \/ DropIssued(r) \/ DropStep(r)
  \/ Sample
  \/ SampleNotify
  \/ RampEnds

Spec == Init /\ [][Next]_vars

\* Tasks run, a drop that has begun ends, and the sampler is scheduled at a fixed
\* rate until the runtime closes.  Core need neither reserve nor drop.
Fairness ==
  /\ \A r \in Reservations : WF_vars(ReserveStep(r)) /\ WF_vars(DropStep(r))
  /\ WF_vars(Sample)
  /\ WF_vars(SampleNotify)

FairSpec == Spec /\ Fairness

-----------------------------------------------------------------------------
(***************************************************************************)
(* Properties.                                                             *)
(***************************************************************************)

\* The types of the supplier's state; no counter passes the number of tasks.
TypeOK ==
  /\ setup.stage \in {"none", "built", "refused"}
  /\ Running \/ supplier = NoSupplier
  /\ issued \in [Queues -> 0..Cardinality(Reservations)]
  /\ reserved \in 0..Cardinality(Reservations)
  /\ pending \in 0..Cardinality(Reservations)
  /\ ramped \in BOOLEAN /\ allowed \in BOOLEAN
  /\ step \in [Reservations -> Steps]
  /\ queue \in [Reservations -> Queues]
  /\ notified \subseteq Reservations /\ sleeping \subseteq Reservations
  /\ sampler \in {"idle", "stored"}

Permits(q) == { r \in Reservations : queue[r] = q /\ step[r] \in {"granted", "holding"} }

\* The task is inside reserve_slot, without a permit.
Reserving(r) ==
  step[r] \in {"loop", "enabled", "refused", "throttled", "waiting", "missed"}

\* The permits are never more than the maximum (available_slots would
\* underflow, jvm_slots.rs:168), and the counters are exactly the permits and
\* the waiting reservations there are, whatever is cancelled or dropped when.
PermitsExact ==
  /\ TypeOK
  /\ \A q \in Queues : issued[q] = Cardinality(Permits(q))
  /\ Running => Total <= supplier.maximum
  /\ reserved = Cardinality({ r \in Reservations : step[r] \in {"granted", "holding", "unissued"} })
  /\ pending = Cardinality({ r \in Reservations : Reserving(r) \/ step[r] = "granted" })

\* Two validators: a config encode() accepts is not refused by worker_config, and
\* what Core gets says what the JVM's config says, unsigned conversions, presence
\* of zero values and the kind numbers included ("The generated schema is shared
\* with Rust, including presence for meaningful zero values", TemporalWorker.kt:187).
AcceptedIsBuilt ==
  setup # NoSetup /\ setup.config # <<>> =>
    setup.stage = "built" /\ AsConfigured(setup.config[1], setup.built)

\* "Keep one permit available for each workflow queue so sticky polling cannot
\* starve new work" (jvm_slots.rs:143): a queue without a permit gets one at once,
\* whatever the pressure, the other queue's permits and the options the worker
\* was built from.
QueueKeepsPermit ==
  Running /\ supplier.sticky => \A q \in Queues : issued[q] = 0 => Entitled(q)

\* "a concurrent release/update cannot be missed" (jvm_slots.rs:121): a reservation
\* that waits without a sleep could not be granted now, or somebody is about to
\* notify it.  One whose ramp interval ended before its sleep was armed is the
\* exception.
NoMissedChange ==
  \A r \in Reservations :
    step[r] = "waiting" /\ r \notin notified \cup sleeping /\ Grants(queue[r]) =>
      \/ sampler = "stored"
      \/ \E p \in Reservations : step[p] \in {"unissued", "unreserved"}

\* No reservation waits forever for a slot it could have, the minimum included
\* ("always granted regardless of resource pressure", SlotSupplier.kt:22): the next
\* sample makes up for a ramp interval that ended between the refusal and the wait.
NeverStuck ==
  \A r \in Reservations : []<>~(Reserving(r) /\ Grants(queue[r]))
=============================================================================
