----------------------------- MODULE MCJvmSlots -----------------------------
(***************************************************************************)
(* Instance of JvmSlots for TLC.  The configs vary one field of a base config  *)
(* at a time, and the fields that decide about the workflow slots together.   *)
(***************************************************************************)
EXTENDS JvmSlots

Fixed(n) == [type |-> "fixed", slots |-> n]
Resource(type, minimum, maximum) ==
  [type |-> type, memory |-> "half", cpu |-> "half", gain |-> "ten",
   minimum |-> minimum, maximum |-> maximum, ramp |-> 1]
Simple(n) == [strategy |-> "simple", maximum |-> n]
Auto(minimum, initial, maximum) ==
  [strategy |-> "auto", minimum |-> minimum, initial |-> initial, maximum |-> maximum]

Base ==
  [ taskQueue |-> "text", namespace |-> "text", failTypes |-> "text",
    cached |-> 1, eager |-> 1, enabled |-> Kinds,
    millis |-> [maxHeartbeat |-> <<2>>, defaultHeartbeat |-> <<1>>, sticky |-> <<1>>,
                graceful |-> <<>>],
    rates |-> [worker |-> "zero", queue |-> "ten"],
    ratio |-> "half", deployment |-> <<>>,
    pollers |-> [workflow |-> <<>>, activity |-> <<Simple(1)>>, nexus |-> <<>>],
    slots |-> [k \in Kinds |-> Fixed(2)] ]

Numbers == {-1, 0, 1, 2}
Pollers == { <<Simple(n)>> : n \in Numbers } \cup
           { <<Auto(a, i, b)>> : a, i, b \in 0..2 }
Deployments ==
  { <<[name |-> n, build |-> b, versioned |-> v, default |-> d]>> :
      n, b \in {"blank", "text"}, v \in BOOLEAN, d \in 0..2 }

\* Resource suppliers: with and without a minimum or a throttle, and wrong ones.
Resources ==
  { Resource("jvm", 0, 2), Resource("jvm", 1, 2), Resource("jvm", 2, 2), Resource("jvm", 0, 1),
    Resource("jvm", -1, 2), Resource("jvm", 0, 0), Resource("jvm", 2, 1),
    Resource("cgroup", 1, 2), [Resource("jvm", 1, 2) EXCEPT !.ramp = 0],
    [Resource("jvm", 0, 2) EXCEPT !.ramp = -1], [Resource("jvm", 0, 2) EXCEPT !.memory = "ten"],
    [Resource("cgroup", 0, 2) EXCEPT !.cpu = "nan"], [Resource("jvm", 0, 2) EXCEPT !.gain = "infinite"] }

MCConfigs ==
  { [Base EXCEPT !.taskQueue = "blank"], [Base EXCEPT !.namespace = "blank"],
    [Base EXCEPT !.failTypes = "blank"] } \cup
  { [Base EXCEPT !.eager = n] : n \in Numbers } \cup
  { [Base EXCEPT !.enabled = e] : e \in SUBSET Kinds } \cup
  { [Base EXCEPT !.millis[m] = <<n>>] : m \in DOMAIN Base.millis, n \in Numbers } \cup
  { [Base EXCEPT !.rates[r] = x] : r \in DOMAIN Base.rates, x \in Floats } \cup
  { [Base EXCEPT !.ratio = x] : x \in Floats } \cup
  { [Base EXCEPT !.deployment = d] : d \in Deployments } \cup
  { [Base EXCEPT !.pollers[q] = p, !.cached = n] :
      q \in DOMAIN Base.pollers, p \in Pollers, n \in {0, 1} } \cup
  { [Base EXCEPT !.slots["workflow"] = s, !.cached = n, !.enabled = e] :
      s \in Resources \cup {Fixed(m) : m \in Numbers},
      n \in {-1, 0, 1}, e \in {Kinds, {"activity", "nexus"}} } \cup
  { [Base EXCEPT !.slots[k] = s, !.slots[l] = t] :
      k, l \in {"activity", "nexus"}, s, t \in Resources \cup {Fixed(0)} }

\* Messages that encode() never sends.
BaseOptions == Encode(Base)

MCRawOptions ==
  { [BaseOptions EXCEPT !.fixed["workflow"] = f, !.limits["workflow"] = l,
                        !.tuner = <<Targets(Resource("jvm", 0, 2))>>] :
      f \in {<<>>, <<2>>},
      l \in { <<[minimum |-> m, maximum |-> n, ramp |-> 1]>> : m \in 0..1, n \in 0..2 } } \cup
  { [BaseOptions EXCEPT !.ratio = <<>>, !.eager = <<>>, !.millis["maxHeartbeat"] = <<>>],
    [BaseOptions EXCEPT !.millis["graceful"] = <<HalfRange>>],
    [BaseOptions EXCEPT !.rates["queue"] = <<>>],
    [BaseOptions EXCEPT !.pollers["nexus"] = <<[strategy |-> "none"]>>] }
=============================================================================
