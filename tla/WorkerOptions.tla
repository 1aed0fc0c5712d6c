---------------------------- MODULE WorkerOptions ----------------------------
(***************************************************************************)
(* A worker's configuration on its way to Core: the WorkerConfig of the JVM,  *)
(* WorkerOptionsProto.encode (TemporalWorker.kt), the WorkerOptions message   *)
(* and worker_config of kt-bridge/src/worker.rs, which checks it again.      *)
(*                                                                         *)
(* A name is "blank" or "text", a float is a member of Floats, and an optional *)
(* field is <<>> or <<value>>.  The signed numbers of the JVM become unsigned  *)
(* in the message, as in the code, but of a smaller width.                    *)
(***************************************************************************)
EXTENDS Integers, Sequences

CONSTANT HalfRange   \* 2^63 for a Long and 2^31 for an Int

ASSUME HalfRangeAssumption == HalfRange \in Nat \ {0}

Floats == {"nan", "infinite", "negative", "zero", "half", "one", "ten"}
Finite(x) == x \notin {"nan", "infinite"}
Unit(x) == x \in {"zero", "half", "one"}
Nonnegative(x) == x \in {"zero", "half", "one", "ten"}

\* The bits of a signed number read as an unsigned one: a protobuf uint32 or uint64.
Unsigned(n) == n % (2 * HalfRange)

OrElse(option, default) == IF option = <<>> THEN default ELSE option[1]
Mapped(option, Op(_)) == IF option = <<>> THEN <<>> ELSE <<Op(option[1])>>

\* The slot kinds in the order the JVM registers their controllers: the place of a
\* kind in this list, from 0, is the bit of the admission mask its controller sets.
Kinds == {"workflow", "activity", "local", "nexus"}
Controllers == <<"workflow", "activity", "local", "nexus">>

\* The kind numbers tuner() gives the suppliers.
KindNumber == [workflow |-> 0, activity |-> 1, local |-> 2, nexus |-> 3]

-----------------------------------------------------------------------------
(***************************************************************************)
(* The types of a WorkerConfig, and of the limits in a WorkerOptions message. *)
(***************************************************************************)
Signed == -HalfRange..(HalfRange - 1)
Words == 0..(2 * HalfRange - 1)
Option(S) == { option \in Seq(S) : Len(option) <= 1 }

SlotSuppliers ==
  [type : {"fixed"}, slots : Signed] \cup
  [type : {"jvm", "cgroup"}, memory : Floats, cpu : Floats, gain : Floats,
   minimum : Signed, maximum : Signed, ramp : Signed]
PollerBehaviors ==
  [strategy : {"simple"}, maximum : Signed] \cup
  [strategy : {"auto"}, minimum : Signed, initial : Signed, maximum : Signed]
DeploymentOptions ==
  [name : {"blank", "text"}, build : {"blank", "text"}, versioned : BOOLEAN, default : 0..2]

\* Only the graceful shutdown period may be null.
IsConfig(c) ==
  /\ c.cached \in Signed /\ c.eager \in Signed
  /\ c.enabled \subseteq Kinds
  /\ c.millis \in [{"maxHeartbeat", "defaultHeartbeat", "sticky", "graceful"} -> Option(Signed)]
  /\ \A m \in DOMAIN c.millis \ {"graceful"} : c.millis[m] # <<>>
  /\ c.rates \in [{"worker", "queue"} -> Floats]
  /\ c.deployment \in Option(DeploymentOptions)
  /\ c.pollers \in [{"workflow", "activity", "nexus"} -> Option(PollerBehaviors)]
  /\ c.slots \in [Kinds -> SlotSuppliers]

ResourceSlotLimits == [minimum : Words, maximum : Words, ramp : Words]
IsOptions(o) == o.limits \in [Kinds -> Option(ResourceSlotLimits)]

-----------------------------------------------------------------------------
(***************************************************************************)
(* WorkerOptionsProto.encode: what it requires of a config, and the message.  *)
(***************************************************************************)
MaxConcurrent(s) == IF s.type = "fixed" THEN s.slots ELSE s.maximum
Targets(s) == [jvm |-> s.type = "jvm", memory |-> s.memory, cpu |-> s.cpu, gain |-> s.gain]
ResourceKinds(c) == { k \in Kinds : c.slots[k].type # "fixed" }
CachesWorkflows(c) == c.cached > 0 /\ "workflow" \in c.enabled

SupplierAccepted(s) ==
  \/ s.type = "fixed" /\ s.slots > 0
  \/ /\ s.type # "fixed"
     /\ Unit(s.memory) /\ Unit(s.cpu) /\ Finite(s.gain)
     /\ s.minimum >= 0 /\ s.maximum > 0 /\ s.minimum <= s.maximum
     /\ s.ramp >= 0

\* Every supplier is compared with the one before it, and so with all of them.
SharedTargets(c) ==
  \A k, l \in ResourceKinds(c) :
    LET a == Targets(c.slots[k])
        b == Targets(c.slots[l])
    IN a.jvm = b.jvm /\ (a.jvm \/ a = b)

PollerAccepted(p) ==
  \/ p.strategy = "simple" /\ p.maximum > 0
  \/ /\ p.strategy = "auto"
     /\ 0 < p.minimum /\ p.minimum <= p.initial /\ p.initial <= p.maximum

\* Faulty variant: one slot is enough for cached workflows.
SlotsForOneQueue(c) == MaxConcurrent(c.slots["workflow"]) >= 1

SlotsForQueues(c) == CachesWorkflows(c) => MaxConcurrent(c.slots["workflow"]) >= 2

\* The constructor of WorkerDeploymentVersion requires the names.
DeploymentAccepted(d) ==
  d.name # "blank" /\ d.build # "blank" /\ (d.versioned \/ d.default = 0)

EncodeAccepts(c) ==
  /\ c.taskQueue # "blank" /\ c.namespace # "blank" /\ c.failTypes # "blank"
  /\ c.cached >= 0 /\ c.eager >= 0
  /\ "local" \in c.enabled => "workflow" \in c.enabled
  /\ c.enabled \cap {"workflow", "activity", "nexus"} # {}
  /\ \A m \in DOMAIN c.millis : OrElse(c.millis[m], 0) >= 0
  /\ \A r \in DOMAIN c.rates : Nonnegative(c.rates[r])
  /\ Unit(c.ratio)
  /\ c.deployment # <<>> => DeploymentAccepted(c.deployment[1])
  /\ \A q \in DOMAIN c.pollers : c.pollers[q] # <<>> => PollerAccepted(c.pollers[q][1])
  /\ LET p == c.pollers["workflow"]
     IN p # <<>> /\ p[1].strategy = "simple" /\ c.cached > 0 => p[1].maximum >= 2
  /\ SlotsForQueues(c)
  /\ \A k \in Kinds : SupplierAccepted(c.slots[k])
  /\ SharedTargets(c)

\* The last resource supplier's targets are the ones that are sent.
LastTargets(c) ==
  LET places == { i \in 1..4 : Controllers[i] \in ResourceKinds(c) }
  IN IF places = {} THEN <<>>
     ELSE <<Targets(c.slots[Controllers[CHOOSE i \in places : \A j \in places : j <= i]])>>

PollerToProto(p) ==
  [f \in DOMAIN p |-> IF f = "strategy" THEN p[f] ELSE Unsigned(p[f])]

Limits(s) ==
  [minimum |-> Unsigned(s.minimum), maximum |-> Unsigned(s.maximum), ramp |-> Unsigned(s.ramp)]

Encode(c) ==
  [ taskQueue |-> c.taskQueue, namespace |-> c.namespace, failTypes |-> c.failTypes,
    cached |-> Unsigned(c.cached), eager |-> <<Unsigned(c.eager)>>,
    disabled |-> Kinds \ c.enabled,
    millis |-> [m \in DOMAIN c.millis |-> Mapped(c.millis[m], Unsigned)],
    rates |-> [r \in DOMAIN c.rates |-> <<c.rates[r]>>],
    ratio |-> <<c.ratio>>,
    deployment |-> c.deployment,
    pollers |-> [q \in DOMAIN c.pollers |-> Mapped(c.pollers[q], PollerToProto)],
    fixed |-> [k \in Kinds |-> IF k \in ResourceKinds(c) THEN <<>>
                               ELSE <<Unsigned(c.slots[k].slots)>>],
    limits |-> [k \in Kinds |-> IF k \in ResourceKinds(c) THEN <<Limits(c.slots[k])>> ELSE <<>>],
    tuner |-> LastTargets(c) ]

-----------------------------------------------------------------------------
(***************************************************************************)
(* worker_config and tuner: what they require of a message, and the config.   *)
(***************************************************************************)
DurationAccepted(millis) == millis < HalfRange

RateAccepted(rate) == rate = <<>> \/ Nonnegative(rate[1])

\* Zero is no limit.
Rate(rate) == IF rate = <<"zero">> THEN <<>> ELSE rate

Sticky(o, kind) == kind = "workflow" /\ "workflow" \notin o.disabled /\ o.cached > 0

WorkflowLimit(o) ==
  IF o.limits["workflow"] # <<>> THEN o.limits["workflow"][1].maximum
  ELSE OrElse(o.fixed["workflow"], 100)

QueuesFit(o) == Sticky(o, "workflow") => WorkflowLimit(o) >= 2

SlotAccepted(fixed, limits) ==
  IF limits = <<>> THEN fixed # <<0>>
  ELSE /\ fixed = <<>>
       /\ limits[1].maximum # 0 /\ limits[1].minimum <= limits[1].maximum
       /\ DurationAccepted(limits[1].ramp)

TunerAccepts(o) ==
  /\ QueuesFit(o)
  /\ o.tuner # <<>> => Unit(o.tuner[1].memory) /\ Unit(o.tuner[1].cpu) /\ Finite(o.tuner[1].gain)
  /\ \A k \in Kinds : SlotAccepted(o.fixed[k], o.limits[k])

VersioningAccepts(o) ==
  o.deployment # <<>> =>
    LET d == o.deployment[1] IN d.name # "blank" /\ d.build # "blank" /\ d.default \in 0..2

WorkerConfigAccepts(o) ==
  /\ o.namespace # "blank" /\ o.taskQueue # "blank" /\ o.failTypes # "blank"
  /\ Unit(OrElse(o.ratio, "half"))
  /\ TunerAccepts(o) /\ VersioningAccepts(o)
  /\ \A q \in DOMAIN o.pollers : o.pollers[q] # <<>> => o.pollers[q][1].strategy # "none"
  /\ \A m \in DOMAIN o.millis : o.millis[m] # <<>> => DurationAccepted(o.millis[m][1])
  /\ \A r \in DOMAIN o.rates : RateAccepted(o.rates[r])

\* slot(): a custom supplier of jvm_slots.rs, Core's own resource-based one, or a
\* fixed number of slots.
Slot(o, k) ==
  IF o.limits[k] = <<>> THEN [type |-> "fixed", slots |-> OrElse(o.fixed[k], 100)]
  ELSE IF o.tuner # <<>> /\ o.tuner[1].jvm
  THEN [type |-> "custom", minimum |-> o.limits[k][1].minimum, maximum |-> o.limits[k][1].maximum,
        ramp |-> o.limits[k][1].ramp, number |-> KindNumber[k], sticky |-> Sticky(o, k)]
  ELSE [type |-> "resource", minimum |-> o.limits[k][1].minimum,
        maximum |-> o.limits[k][1].maximum, ramp |-> o.limits[k][1].ramp]

\* The defaults of worker_config for the durations; the grace period stays absent.
DefaultMillis == [maxHeartbeat |-> <<6>>, defaultHeartbeat |-> <<3>>, sticky |-> <<1>>,
                  graceful |-> <<>>]

WorkerConfig(o) ==
  [ slots |-> [k \in Kinds |-> Slot(o, k)],
    cached |-> o.cached,
    eager |-> OrElse(o.eager, 3),
    taskTypes |-> Kinds \ o.disabled,
    millis |-> [m \in DOMAIN o.millis |->
                  IF o.millis[m] = <<>> THEN DefaultMillis[m] ELSE o.millis[m]],
    rates |-> [r \in DOMAIN o.rates |-> Rate(o.rates[r])],
    ratio |-> OrElse(o.ratio, "half"),
    versioning |-> o.deployment,
    pollers |-> o.pollers ]

-----------------------------------------------------------------------------
(***************************************************************************)
(* What the bridge promises of a worker: the config that reaches Core says     *)
(* what the JVM's says, with the numbers the JVM meant.                      *)
(***************************************************************************)

\* One supplier of a config c against what Core is given for it.  A custom supplier
\* listens to the bit of the controller its own kind registers.
SlotAsConfigured(c, k, built) ==
  LET s == c.slots[k]
  IN CASE s.type = "fixed" -> built = [type |-> "fixed", slots |-> s.slots]
       [] s.type = "jvm" ->
            /\ built.type = "custom"
            /\ built.minimum = s.minimum /\ built.maximum = s.maximum /\ built.ramp = s.ramp
            /\ built.sticky = (k = "workflow" /\ CachesWorkflows(c))
            /\ Controllers[built.number + 1] = k
       [] s.type = "cgroup" ->
            built = [type |-> "resource", minimum |-> s.minimum, maximum |-> s.maximum,
                     ramp |-> s.ramp]

AsConfigured(c, built) ==
  /\ \A k \in Kinds : SlotAsConfigured(c, k, built.slots[k])
  /\ built.cached = c.cached /\ built.eager = c.eager /\ built.taskTypes = c.enabled
  /\ built.millis = c.millis
  /\ \A r \in DOMAIN c.rates :
       built.rates[r] = IF c.rates[r] = "zero" THEN <<>> ELSE <<c.rates[r]>>
  /\ built.ratio = c.ratio /\ built.versioning = c.deployment /\ built.pollers = c.pollers
=============================================================================
