--------------------------- MODULE JvmSlotsProofs ---------------------------
(***************************************************************************)
(* Proofs about the slot supplier and the options it is built from, for any   *)
(* number of reservations, every worker config of any integer width and every  *)
(* message: the two validators agree and nothing is lost on the way to Core,   *)
(* the permit counters are exact, each workflow queue keeps its permit, and    *)
(* no change is missed by a reservation that waits.                          *)
(***************************************************************************)
EXTENDS JvmSlots, FiniteSetTheorems, SequenceTheorems, TLAPS

-----------------------------------------------------------------------------
(***************************************************************************)
(* Optional fields and unsigned numbers.                                    *)
(***************************************************************************)
LEMMA OptionCases ==
  ASSUME NEW S, NEW p \in Option(S)
  PROVE  p = <<>> \/ (p # <<>> /\ p = <<p[1]>> /\ p[1] \in S)
<1>1. p \in Seq(S) /\ Len(p) \in {0, 1}
  <2>1. p \in Seq(S) /\ Len(p) <= 1
    BY DEF Option
  <2>2. Len(p) \in Nat
    BY <2>1, LenProperties
  <2>3. ASSUME NEW n \in Nat, n <= 1 PROVE n \in {0, 1}
    BY <2>3
  <2> QED BY <2>1, <2>2, <2>3
<1>2. CASE Len(p) = 0
  BY <1>1, <1>2, EmptySeq
<1>3. CASE Len(p) = 1
  <2>1. p[1] \in S
    BY <1>1, <1>3, ElementOfSeq
  <2>2. <<p[1]>> \in Seq(S) /\ Len(<<p[1]>>) = 1 /\ <<p[1]>>[1] = p[1]
    BY <2>1
  <2>3. p = <<p[1]>>
    BY <1>1, <1>3, <2>2, SeqEqual
  <2> QED BY <2>1, <2>3, <1>3
<1> QED BY <1>1, <1>2, <1>3

LEMMA OptionOf ==
  ASSUME NEW S, NEW x \in S
  PROVE  <<>> \in Option(S) /\ <<x>> \in Option(S) /\ <<x>> # <<>> /\ <<x>>[1] = x
BY DEF Option

\* A nonnegative number survives the conversion, any number becomes a word.
LEMMA UnsignedIs ==
  /\ \A n \in Signed : n >= 0 => Unsigned(n) = n
  /\ \A n \in Signed : Unsigned(n) \in Words
BY HalfRangeAssumption DEF Signed, Words, Unsigned

-----------------------------------------------------------------------------
(***************************************************************************)
(* The two validators agree.                                               *)
(***************************************************************************)
LEMMA EncodeFields ==
  ASSUME NEW c
  PROVE  /\ Encode(c).taskQueue = c.taskQueue /\ Encode(c).namespace = c.namespace
         /\ Encode(c).failTypes = c.failTypes
         /\ Encode(c).cached = Unsigned(c.cached) /\ Encode(c).eager = <<Unsigned(c.eager)>>
         /\ Encode(c).disabled = Kinds \ c.enabled
         /\ Encode(c).ratio = <<c.ratio>> /\ Encode(c).deployment = c.deployment
         /\ Encode(c).tuner = LastTargets(c)
BY DEF Encode

LEMMA EncodeFunctions ==
  ASSUME NEW c
  PROVE  /\ Encode(c).rates = [r \in DOMAIN c.rates |-> <<c.rates[r]>>]
         /\ Encode(c).millis = [m \in DOMAIN c.millis |-> Encode(c).millis[m]]
         /\ \A m \in DOMAIN c.millis : Encode(c).millis[m] =
              IF c.millis[m] = <<>> THEN <<>> ELSE <<Unsigned(c.millis[m][1])>>
         /\ Encode(c).pollers = [q \in DOMAIN c.pollers |-> Encode(c).pollers[q]]
         /\ \A q \in DOMAIN c.pollers : Encode(c).pollers[q] =
              IF c.pollers[q] = <<>> THEN <<>> ELSE <<PollerToProto(c.pollers[q][1])>>
BY DEF Encode, Mapped

LEMMA EncodeSlots ==
  ASSUME NEW c
  PROVE  /\ DOMAIN Encode(c).limits = Kinds /\ DOMAIN Encode(c).fixed = Kinds
         /\ Encode(c).limits = [k \in Kinds |-> Encode(c).limits[k]]
         /\ \A k \in ResourceKinds(c) :
              Encode(c).fixed[k] = <<>> /\ Encode(c).limits[k] = <<Limits(c.slots[k])>>
         /\ \A k \in Kinds \ ResourceKinds(c) :
              Encode(c).fixed[k] = <<Unsigned(c.slots[k].slots)>> /\ Encode(c).limits[k] = <<>>
<1>1. /\ Encode(c).fixed = [k \in Kinds |-> IF k \in ResourceKinds(c) THEN <<>>
                                            ELSE <<Unsigned(c.slots[k].slots)>>]
      /\ Encode(c).limits = [k \in Kinds |-> IF k \in ResourceKinds(c)
                                             THEN <<Limits(c.slots[k])>> ELSE <<>>]
  BY DEF Encode
<1> QED BY <1>1 DEF ResourceKinds

\* An accepted poller behaviour is sent as it is.
LEMMA PollerSent ==
  ASSUME NEW p \in PollerBehaviors, PollerAccepted(p)
  PROVE  PollerToProto(p) = p /\ p.strategy # "none"
<1>1. CASE p \in [strategy : {"simple"}, maximum : Signed]
  <2>1. p.maximum >= 0 /\ Unsigned(p.maximum) = p.maximum
    BY <1>1, UnsignedIs DEF PollerAccepted, Signed
  <2> QED BY <1>1, <2>1 DEF PollerToProto
<1>2. CASE p \in [strategy : {"auto"}, minimum : Signed, initial : Signed, maximum : Signed]
  <2>1. /\ Unsigned(p.minimum) = p.minimum /\ Unsigned(p.initial) = p.initial
        /\ Unsigned(p.maximum) = p.maximum
    BY <1>2, UnsignedIs, HalfRangeAssumption DEF PollerAccepted, Signed
  <2> QED BY <1>2, <2>1 DEF PollerToProto
<1> QED BY <1>1, <1>2 DEF PollerBehaviors

\* An accepted resource supplier's limits are the supplier's.
LEMMA LimitsSent ==
  ASSUME NEW s \in SlotSuppliers, s.type # "fixed"
  PROVE  /\ Limits(s) \in ResourceSlotLimits
         /\ SupplierAccepted(s) =>
              /\ Limits(s).minimum = s.minimum /\ Limits(s).maximum = s.maximum
              /\ Limits(s).ramp = s.ramp
              /\ s.minimum <= s.maximum /\ s.maximum # 0 /\ s.ramp < HalfRange
<1>1. s.minimum \in Signed /\ s.maximum \in Signed /\ s.ramp \in Signed
  BY DEF SlotSuppliers
<1>2. Limits(s) \in ResourceSlotLimits
  BY <1>1, UnsignedIs DEF Limits, ResourceSlotLimits
<1>3. ASSUME SupplierAccepted(s)
      PROVE  /\ s.minimum >= 0 /\ s.maximum > 0 /\ s.ramp >= 0
             /\ s.minimum <= s.maximum /\ s.maximum # 0 /\ s.ramp < HalfRange
  BY <1>1, <1>3, HalfRangeAssumption DEF SupplierAccepted, Signed
<1>4. ASSUME SupplierAccepted(s)
      PROVE  /\ Limits(s).minimum = s.minimum /\ Limits(s).maximum = s.maximum
             /\ Limits(s).ramp = s.ramp
  <2>1. /\ Unsigned(s.minimum) = s.minimum /\ Unsigned(s.maximum) = s.maximum
        /\ Unsigned(s.ramp) = s.ramp
    BY <1>1, <1>3, <1>4, UnsignedIs DEF Signed
  <2> QED BY <2>1 DEF Limits
<1> QED BY <1>2, <1>3, <1>4

\* The targets that are sent are those of an accepted resource supplier, and tell
\* JVM suppliers from the others for every kind.
LEMMA TargetsSent ==
  ASSUME NEW c, EncodeAccepts(c)
  PROVE  \/ ResourceKinds(c) = {} /\ LastTargets(c) = <<>>
         \/ /\ ResourceKinds(c) # {} /\ LastTargets(c) # <<>>
            /\ LET t == LastTargets(c)[1]
               IN /\ Unit(t.memory) /\ Unit(t.cpu) /\ Finite(t.gain)
                  /\ \A k \in ResourceKinds(c) : t.jvm <=> c.slots[k].type = "jvm"
<1> DEFINE places == { i \in 1..4 : Controllers[i] \in ResourceKinds(c) }
<1>1. \A k \in Kinds : \E i \in 1..4 : Controllers[i] = k
  BY DEF Kinds, Controllers
<1>2. places = {} <=> ResourceKinds(c) = {}
  BY <1>1 DEF ResourceKinds
<1>3. ASSUME ResourceKinds(c) # {}
      PROVE  \E l \in ResourceKinds(c) : LastTargets(c) = <<Targets(c.slots[l])>>
  <2>1. \E i \in places : \A j \in places : j <= i
    <3>1. places # {}
      BY <1>2, <1>3
    <3>2. CASE 4 \in places
      BY <3>2
    <3>3. CASE 4 \notin places /\ 3 \in places
      BY <3>3
    <3>4. CASE 4 \notin places /\ 3 \notin places /\ 2 \in places
      BY <3>4
    <3>5. CASE 4 \notin places /\ 3 \notin places /\ 2 \notin places
      BY <3>1, <3>5
    <3> QED BY <3>2, <3>3, <3>4, <3>5
  <2>2. PICK i : i = (CHOOSE h \in places : \A j \in places : j <= h)
    OBVIOUS
  <2>3. i \in places
    BY <2>1, <2>2
  <2>4. LastTargets(c) = <<Targets(c.slots[Controllers[i]])>>
    BY <1>2, <1>3, <2>2 DEF LastTargets
  <2> QED BY <2>3, <2>4
<1>4. ASSUME NEW l \in ResourceKinds(c), LastTargets(c) = <<Targets(c.slots[l])>>
      PROVE  LET t == LastTargets(c)[1]
             IN /\ Unit(t.memory) /\ Unit(t.cpu) /\ Finite(t.gain)
                /\ \A k \in ResourceKinds(c) : t.jvm <=> c.slots[k].type = "jvm"
  <2>1. LastTargets(c)[1] = Targets(c.slots[l])
    BY <1>4
  <2>2. l \in Kinds /\ SupplierAccepted(c.slots[l]) /\ c.slots[l].type # "fixed"
    BY DEF ResourceKinds, EncodeAccepts
  <2>3. \A k \in ResourceKinds(c) : Targets(c.slots[k]).jvm = Targets(c.slots[l]).jvm
    BY DEF EncodeAccepts, SharedTargets
  <2>4. \A k \in ResourceKinds(c) :
          Targets(c.slots[l]).jvm <=> c.slots[k].type = "jvm"
    BY <2>3 DEF Targets
  <2>5. LET t == Targets(c.slots[l]) IN Unit(t.memory) /\ Unit(t.cpu) /\ Finite(t.gain)
    BY <2>2 DEF Targets, SupplierAccepted
  <2> QED BY <2>1, <2>4, <2>5
<1>5. ASSUME ResourceKinds(c) = {} PROVE LastTargets(c) = <<>>
  BY <1>2, <1>5 DEF LastTargets
<1>6. ASSUME ResourceKinds(c) # {} PROVE LastTargets(c) # <<>>
  BY <1>3, <1>6
<1> QED BY <1>3, <1>4, <1>5, <1>6

\* Null or not, a duration, a poller behaviour or a deployment reaches Core unchanged.
LEMMA MillisSent ==
  ASSUME NEW c, IsConfig(c), EncodeAccepts(c)
  PROVE  /\ Encode(c).millis = c.millis
         /\ \A m \in DOMAIN c.millis : c.millis[m] # <<>> => DurationAccepted(c.millis[m][1])
<1>1. ASSUME NEW m \in DOMAIN c.millis, c.millis[m] # <<>>
      PROVE  /\ c.millis[m] = <<c.millis[m][1]>> /\ c.millis[m][1] \in Signed
             /\ c.millis[m][1] >= 0 /\ c.millis[m][1] < HalfRange
  <2>1. c.millis[m] \in Option(Signed)
    BY DEF IsConfig
  <2>2. c.millis[m] = <<c.millis[m][1]>> /\ c.millis[m][1] \in Signed
    BY <1>1, <2>1, OptionCases
  <2>3. c.millis[m][1] >= 0
    BY <1>1 DEF EncodeAccepts, OrElse
  <2> QED BY <2>2, <2>3, HalfRangeAssumption DEF Signed
<1>2. \A m \in DOMAIN c.millis : Encode(c).millis[m] = c.millis[m]
  <2> TAKE m \in DOMAIN c.millis
  <2>1. CASE c.millis[m] = <<>>
    BY <2>1, EncodeFunctions
  <2>2. CASE c.millis[m] # <<>>
    <3>1. Unsigned(c.millis[m][1]) = c.millis[m][1]
      BY <1>1, <2>2, UnsignedIs
    <3>2. Encode(c).millis[m] = <<Unsigned(c.millis[m][1])>>
      BY <2>2, EncodeFunctions
    <3>3. c.millis[m] = <<c.millis[m][1]>>
      BY <1>1, <2>2
    <3> QED BY <3>1, <3>2, <3>3
  <2> QED BY <2>1, <2>2
<1>3. Encode(c).millis = [m \in DOMAIN c.millis |-> c.millis[m]]
  BY <1>2, EncodeFunctions
<1> QED BY <1>1, <1>3 DEF IsConfig, DurationAccepted

LEMMA PollersSent ==
  ASSUME NEW c, IsConfig(c), EncodeAccepts(c)
  PROVE  /\ Encode(c).pollers = c.pollers
         /\ \A q \in DOMAIN c.pollers : c.pollers[q] # <<>> => c.pollers[q][1].strategy # "none"
<1>1. ASSUME NEW q \in DOMAIN c.pollers, c.pollers[q] # <<>>
      PROVE  /\ c.pollers[q] = <<c.pollers[q][1]>> /\ c.pollers[q][1].strategy # "none"
             /\ PollerToProto(c.pollers[q][1]) = c.pollers[q][1]
  <2>1. c.pollers[q] \in Option(PollerBehaviors)
    BY DEF IsConfig
  <2>2. c.pollers[q] = <<c.pollers[q][1]>> /\ c.pollers[q][1] \in PollerBehaviors
    BY <1>1, <2>1, OptionCases
  <2>3. PollerAccepted(c.pollers[q][1])
    BY <1>1 DEF EncodeAccepts
  <2> QED BY <2>2, <2>3, PollerSent
<1>2. \A q \in DOMAIN c.pollers : Encode(c).pollers[q] = c.pollers[q]
  <2> TAKE q \in DOMAIN c.pollers
  <2>1. CASE c.pollers[q] = <<>>
    BY <2>1, EncodeFunctions
  <2>2. CASE c.pollers[q] # <<>>
    <3>1. Encode(c).pollers[q] = <<PollerToProto(c.pollers[q][1])>>
      BY <2>2, EncodeFunctions
    <3>2. /\ c.pollers[q] = <<c.pollers[q][1]>>
          /\ PollerToProto(c.pollers[q][1]) = c.pollers[q][1]
      BY <1>1, <2>2
    <3> QED BY <3>1, <3>2
  <2> QED BY <2>1, <2>2
<1>3. Encode(c).pollers = [q \in DOMAIN c.pollers |-> c.pollers[q]]
  BY <1>2, EncodeFunctions
<1> QED BY <1>1, <1>3 DEF IsConfig

LEMMA DeploymentAgreed ==
  ASSUME NEW c, IsConfig(c), EncodeAccepts(c)
  PROVE  VersioningAccepts(Encode(c))
<1>1. Encode(c).deployment = c.deployment
  BY EncodeFields
<1>2. ASSUME c.deployment # <<>> PROVE c.deployment[1] \in DeploymentOptions
  BY <1>2, OptionCases DEF IsConfig
<1>3. ASSUME c.deployment # <<>> PROVE DeploymentAccepted(c.deployment[1])
  BY <1>3 DEF EncodeAccepts
<1> QED BY <1>1, <1>2, <1>3 DEF VersioningAccepts, DeploymentAccepted, DeploymentOptions

\* One supplier, by the kind of the config's.
LEMMA SlotSent ==
  ASSUME NEW c, IsConfig(c), EncodeAccepts(c), NEW k \in Kinds
  PROVE  \/ /\ c.slots[k].type = "fixed"
            /\ Encode(c).limits[k] = <<>>
            /\ Encode(c).fixed[k] = <<c.slots[k].slots>> /\ c.slots[k].slots \in Nat \ {0}
         \/ /\ c.slots[k].type \in {"jvm", "cgroup"}
            /\ Encode(c).fixed[k] = <<>>
            /\ Encode(c).limits[k] = <<Limits(c.slots[k])>>
            /\ k \in ResourceKinds(c)
<1>1. c.slots[k] \in SlotSuppliers /\ SupplierAccepted(c.slots[k])
  BY DEF IsConfig, EncodeAccepts
<1>2. CASE c.slots[k].type = "fixed"
  <2>1. c.slots[k].slots \in Signed /\ c.slots[k].slots > 0
    BY <1>1, <1>2 DEF SlotSuppliers, SupplierAccepted
  <2>2. Unsigned(c.slots[k].slots) = c.slots[k].slots /\ c.slots[k].slots \in Nat \ {0}
    BY <2>1, UnsignedIs, HalfRangeAssumption DEF Signed
  <2>3. k \notin ResourceKinds(c)
    BY <1>2 DEF ResourceKinds
  <2>4. Encode(c).limits[k] = <<>> /\ Encode(c).fixed[k] = <<Unsigned(c.slots[k].slots)>>
    BY <2>3, EncodeSlots
  <2> QED BY <1>2, <2>2, <2>4
<1>3. CASE c.slots[k].type # "fixed"
  <2>1. c.slots[k].type \in {"jvm", "cgroup"}
    BY <1>1, <1>3 DEF SlotSuppliers
  <2>2. k \in ResourceKinds(c)
    BY <1>3 DEF ResourceKinds
  <2> QED BY <2>1, <2>2, EncodeSlots
<1> QED BY <1>2, <1>3

\* The options that encode() sends have the types of the message.
LEMMA EncodedTyped ==
  ASSUME NEW c, IsConfig(c)
  PROVE  IsOptions(Encode(c))
<1>1. ASSUME NEW k \in Kinds PROVE Encode(c).limits[k] \in Option(ResourceSlotLimits)
  <2>1. CASE k \in ResourceKinds(c)
    <3>1. c.slots[k] \in SlotSuppliers /\ c.slots[k].type # "fixed"
      BY <2>1 DEF IsConfig, ResourceKinds
    <3>2. Limits(c.slots[k]) \in ResourceSlotLimits
      BY <3>1, LimitsSent
    <3>3. <<Limits(c.slots[k])>> \in Option(ResourceSlotLimits)
      BY <3>2, OptionOf
    <3> QED BY <2>1, <3>3, EncodeSlots
  <2>2. CASE k \notin ResourceKinds(c)
    <3>1. Encode(c).limits[k] = <<>>
      BY <2>2, EncodeSlots
    <3> QED BY <3>1 DEF Option
  <2> QED BY <2>1, <2>2
<1>2. Encode(c).limits = [k \in Kinds |-> Encode(c).limits[k]]
  BY EncodeSlots
<1> QED BY <1>1, <1>2 DEF IsOptions

\* The workflow slots are enough for cached workflows on both sides.
LEMMA QueuesAgreed ==
  ASSUME NEW c, IsConfig(c), EncodeAccepts(c)
  PROVE  /\ QueuesFit(Encode(c))
         /\ \A k \in Kinds : Sticky(Encode(c), k) <=> (k = "workflow" /\ CachesWorkflows(c))
<1> DEFINE o == Encode(c)
<1>1. \A k \in Kinds : Sticky(o, k) <=> (k = "workflow" /\ CachesWorkflows(c))
  <2>1. o.cached = c.cached /\ c.cached \in Nat
    <3>1. c.cached \in Signed /\ c.cached >= 0
      BY DEF IsConfig, EncodeAccepts
    <3>2. Unsigned(c.cached) = c.cached /\ c.cached \in Nat
      BY <3>1, UnsignedIs, HalfRangeAssumption DEF Signed
    <3> QED BY <3>2, EncodeFields
  <2>2. "workflow" \in Kinds
    BY DEF Kinds
  <2>3. "workflow" \notin o.disabled <=> "workflow" \in c.enabled
    BY <2>2, EncodeFields
  <2> QED BY <2>1, <2>3 DEF Sticky, CachesWorkflows
<1>2. ASSUME Sticky(o, "workflow") PROVE WorkflowLimit(o) >= 2
  <2>1. "workflow" \in Kinds
    BY DEF Kinds
  <2>2. MaxConcurrent(c.slots["workflow"]) >= 2
    BY <1>1, <1>2, <2>1 DEF EncodeAccepts, SlotsForQueues
  <2>3. CASE c.slots["workflow"].type = "fixed"
    <3>1. o.limits["workflow"] = <<>> /\ o.fixed["workflow"] = <<c.slots["workflow"].slots>>
      BY <2>1, <2>3, SlotSent
    <3> QED BY <2>2, <2>3, <3>1 DEF WorkflowLimit, OrElse, MaxConcurrent
  <2>4. CASE c.slots["workflow"].type # "fixed"
    <3>1. o.limits["workflow"] = <<Limits(c.slots["workflow"])>>
      BY <2>1, <2>4, SlotSent
    <3>2. c.slots["workflow"] \in SlotSuppliers /\ SupplierAccepted(c.slots["workflow"])
      BY <2>1 DEF IsConfig, EncodeAccepts
    <3>3. Limits(c.slots["workflow"]).maximum = c.slots["workflow"].maximum
      BY <2>4, <3>2, LimitsSent
    <3> QED BY <2>2, <2>4, <3>1, <3>3 DEF WorkflowLimit, MaxConcurrent
  <2> QED BY <2>3, <2>4
<1> QED BY <1>1, <1>2 DEF QueuesFit

\* A config that encode() accepts is not refused by worker_config.
LEMMA ValidatorsAgree ==
  ASSUME NEW c, IsConfig(c), EncodeAccepts(c)
  PROVE  WorkerConfigAccepts(Encode(c))
<1> DEFINE o == Encode(c)
<1>1. o.namespace # "blank" /\ o.taskQueue # "blank" /\ o.failTypes # "blank"
  BY EncodeFields DEF EncodeAccepts
<1>2. Unit(OrElse(o.ratio, "half"))
  <2>1. o.ratio = <<c.ratio>> /\ Unit(c.ratio)
    BY EncodeFields DEF EncodeAccepts
  <2>2. OrElse(<<c.ratio>>, "half") = c.ratio
    BY DEF OrElse
  <2> QED BY <2>1, <2>2
<1>3. \A k \in Kinds : SlotAccepted(o.fixed[k], o.limits[k])
  <2> TAKE k \in Kinds
  <2>1. CASE c.slots[k].type = "fixed"
    <3>1. /\ o.limits[k] = <<>> /\ o.fixed[k] = <<c.slots[k].slots>>
          /\ c.slots[k].slots # 0
      BY <2>1, SlotSent
    <3> QED BY <3>1 DEF SlotAccepted
  <2>2. CASE c.slots[k].type # "fixed"
    <3>1. o.fixed[k] = <<>> /\ o.limits[k] = <<Limits(c.slots[k])>>
      BY <2>2, SlotSent
    <3>2. c.slots[k] \in SlotSuppliers /\ SupplierAccepted(c.slots[k])
      BY DEF IsConfig, EncodeAccepts
    <3>3. LET l == Limits(c.slots[k])
          IN l.maximum # 0 /\ l.minimum <= l.maximum /\ DurationAccepted(l.ramp)
      BY <2>2, <3>2, LimitsSent DEF DurationAccepted
    <3>4. o.limits[k] # <<>> /\ o.limits[k][1] = Limits(c.slots[k])
      BY <3>1
    <3> QED BY <3>1, <3>3, <3>4 DEF SlotAccepted
  <2> QED BY <2>1, <2>2
<1>4. TunerAccepts(o)
  <2>1. o.tuner = LastTargets(c)
    BY EncodeFields
  <2>2. o.tuner # <<>> =>
          Unit(o.tuner[1].memory) /\ Unit(o.tuner[1].cpu) /\ Finite(o.tuner[1].gain)
    BY <2>1, TargetsSent
  <2> QED BY <1>3, <2>2, QueuesAgreed DEF TunerAccepts
<1>5. \A r \in DOMAIN o.rates : RateAccepted(o.rates[r])
  <2>1. o.rates = [r \in DOMAIN c.rates |-> <<c.rates[r]>>]
    BY EncodeFunctions
  <2>2. \A r \in DOMAIN c.rates : Nonnegative(c.rates[r])
    BY DEF EncodeAccepts
  <2> QED BY <2>1, <2>2 DEF RateAccepted
<1>6. /\ \A q \in DOMAIN o.pollers : o.pollers[q] # <<>> => o.pollers[q][1].strategy # "none"
      /\ \A m \in DOMAIN o.millis : o.millis[m] # <<>> => DurationAccepted(o.millis[m][1])
  BY MillisSent, PollersSent
<1> QED BY <1>1, <1>2, <1>4, <1>5, <1>6, DeploymentAgreed DEF WorkerConfigAccepts

LEMMA ConfigFields ==
  ASSUME NEW o
  PROVE  /\ WorkerConfig(o).slots = [k \in Kinds |-> Slot(o, k)]
         /\ WorkerConfig(o).cached = o.cached
         /\ WorkerConfig(o).eager = OrElse(o.eager, 3)
         /\ WorkerConfig(o).taskTypes = Kinds \ o.disabled
         /\ WorkerConfig(o).millis = [m \in DOMAIN o.millis |->
              IF o.millis[m] = <<>> THEN DefaultMillis[m] ELSE o.millis[m]]
         /\ WorkerConfig(o).rates = [r \in DOMAIN o.rates |-> Rate(o.rates[r])]
         /\ WorkerConfig(o).ratio = OrElse(o.ratio, "half")
         /\ WorkerConfig(o).versioning = o.deployment
         /\ WorkerConfig(o).pollers = o.pollers
BY DEF WorkerConfig

\* What Core is given for one kind is the config's supplier.
LEMMA SlotBuilt ==
  ASSUME NEW c, IsConfig(c), EncodeAccepts(c), NEW k \in Kinds
  PROVE  SlotAsConfigured(c, k, Slot(Encode(c), k))
<1> DEFINE o == Encode(c)
<1>1. CASE c.slots[k].type = "fixed"
  <2>1. o.limits[k] = <<>> /\ o.fixed[k] = <<c.slots[k].slots>>
    BY <1>1, SlotSent
  <2>2. OrElse(o.fixed[k], 100) = c.slots[k].slots
    BY <2>1 DEF OrElse
  <2> QED BY <1>1, <2>1, <2>2 DEF Slot, SlotAsConfigured
<1>2. CASE c.slots[k].type # "fixed"
  <2>1. c.slots[k].type \in {"jvm", "cgroup"} /\ o.limits[k] = <<Limits(c.slots[k])>>
        /\ k \in ResourceKinds(c)
    BY <1>2, SlotSent
  <2>2. o.limits[k] # <<>> /\ o.limits[k][1] = Limits(c.slots[k])
    BY <2>1
  <2>3. c.slots[k] \in SlotSuppliers /\ SupplierAccepted(c.slots[k])
    BY DEF IsConfig, EncodeAccepts
  <2>4. /\ o.limits[k][1].minimum = c.slots[k].minimum
        /\ o.limits[k][1].maximum = c.slots[k].maximum
        /\ o.limits[k][1].ramp = c.slots[k].ramp
    BY <1>2, <2>2, <2>3, LimitsSent
  <2>5. o.tuner = LastTargets(c)
    BY EncodeFields
  <2>6. o.tuner # <<>> /\ (o.tuner[1].jvm <=> c.slots[k].type = "jvm")
    BY <2>1, <2>5, TargetsSent
  <2>7. Sticky(o, k) = (k = "workflow" /\ CachesWorkflows(c))
    BY QueuesAgreed DEF Sticky
  <2>8. Controllers[KindNumber[k] + 1] = k
    BY DEF Controllers, KindNumber, Kinds
  <2>9. CASE c.slots[k].type = "jvm"
    <3>1. Slot(o, k) =
            [type |-> "custom", minimum |-> c.slots[k].minimum, maximum |-> c.slots[k].maximum,
             ramp |-> c.slots[k].ramp, number |-> KindNumber[k], sticky |-> Sticky(o, k)]
      BY <2>2, <2>4, <2>6, <2>9 DEF Slot
    <3> QED BY <2>7, <2>8, <2>9, <3>1 DEF SlotAsConfigured
  <2>10. CASE c.slots[k].type = "cgroup"
    <3>1. Slot(o, k) =
            [type |-> "resource", minimum |-> c.slots[k].minimum,
             maximum |-> c.slots[k].maximum, ramp |-> c.slots[k].ramp]
      BY <2>2, <2>4, <2>6, <2>10 DEF Slot
    <3> QED BY <2>10, <3>1 DEF SlotAsConfigured
  <2> QED BY <2>1, <2>9, <2>10
<1> QED BY <1>1, <1>2

\* And so is everything else.
LEMMA BuiltAsConfigured ==
  ASSUME NEW c, IsConfig(c), EncodeAccepts(c)
  PROVE  AsConfigured(c, WorkerConfig(Encode(c)))
<1> DEFINE o == Encode(c)
<1> DEFINE built == WorkerConfig(o)
<1>1. \A k \in Kinds : SlotAsConfigured(c, k, built.slots[k])
  <2>1. built.slots = [k \in Kinds |-> Slot(o, k)]
    BY ConfigFields
  <2>2. \A k \in Kinds : built.slots[k] = Slot(o, k)
    BY <2>1
  <2> QED BY <2>2, SlotBuilt
<1>2. built.cached = c.cached /\ built.eager = c.eager
  <2>1. c.cached \in Signed /\ c.cached >= 0 /\ c.eager \in Signed /\ c.eager >= 0
    BY DEF IsConfig, EncodeAccepts
  <2>2. Unsigned(c.cached) = c.cached /\ Unsigned(c.eager) = c.eager
    BY <2>1, UnsignedIs
  <2>3. o.cached = c.cached /\ o.eager = <<c.eager>>
    BY <2>2, EncodeFields
  <2>4. OrElse(<<c.eager>>, 3) = c.eager
    BY DEF OrElse
  <2>5. built.cached = o.cached /\ built.eager = OrElse(o.eager, 3)
    BY ConfigFields
  <2> QED BY <2>3, <2>4, <2>5
<1>3. built.taskTypes = c.enabled
  <2>1. o.disabled = Kinds \ c.enabled /\ c.enabled \subseteq Kinds
    BY EncodeFields DEF IsConfig
  <2> QED BY <2>1, ConfigFields
<1>4. built.millis = c.millis
  <2>1. o.millis = c.millis
    BY MillisSent
  <2>2. \A m \in DOMAIN c.millis :
          (IF c.millis[m] = <<>> THEN DefaultMillis[m] ELSE c.millis[m]) = c.millis[m]
    BY DEF IsConfig, DefaultMillis
  <2>3. built.millis = [m \in DOMAIN o.millis |->
                         IF o.millis[m] = <<>> THEN DefaultMillis[m] ELSE o.millis[m]]
    BY ConfigFields
  <2>4. built.millis = [m \in DOMAIN c.millis |-> c.millis[m]]
    BY <2>1, <2>2, <2>3
  <2> QED BY <2>4 DEF IsConfig
<1>5. \A r \in DOMAIN c.rates :
        built.rates[r] = IF c.rates[r] = "zero" THEN <<>> ELSE <<c.rates[r]>>
  <2>1. o.rates = [r \in DOMAIN c.rates |-> <<c.rates[r]>>]
    BY EncodeFunctions
  <2>2. built.rates = [r \in DOMAIN o.rates |-> Rate(o.rates[r])]
    BY ConfigFields
  <2> QED BY <2>1, <2>2 DEF Rate
<1>6. built.ratio = c.ratio
  <2>1. o.ratio = <<c.ratio>>
    BY EncodeFields
  <2>2. OrElse(<<c.ratio>>, "half") = c.ratio
    BY DEF OrElse
  <2>3. built.ratio = OrElse(o.ratio, "half")
    BY ConfigFields
  <2> HIDE DEF built, o
  <2> QED BY <2>1, <2>2, <2>3
<1>7. built.versioning = c.deployment /\ built.pollers = c.pollers
  <2>1. o.deployment = c.deployment /\ o.pollers = c.pollers
    BY EncodeFields, PollersSent
  <2> QED BY <2>1, ConfigFields
<1> QED BY <1>1, <1>2, <1>3, <1>4, <1>5, <1>6, <1>7 DEF AsConfigured

-----------------------------------------------------------------------------
(***************************************************************************)
(* The invariants of the supplier.                                         *)
(***************************************************************************)

\* What the checks of worker_config leave of a supplier: a sticky one has room for
\* both queues.
SupplierOK(s) ==
  /\ {"type", "minimum", "maximum", "sticky"} \subseteq DOMAIN s
  /\ s.type = "custom"
  /\ s.maximum \in Nat \ {0} /\ s.minimum \in Nat
  /\ s.sticky \in BOOLEAN
  /\ s.sticky => s.maximum >= 2

\* kt_worker_new: there is no supplier while options are looked at, and no
\* reservation before there is one.
SetupInv ==
  /\ setup = NoSetup \/ setup.stage \in {"built", "refused"}
  /\ setup.stage = "built" => \A k \in Kinds :
       setup.built.slots[k].type = "custom" => SupplierOK(setup.built.slots[k])
  /\ setup # NoSetup => supplier = NoSupplier
  /\ supplier = NoSupplier \/ SupplierOK(supplier)
  /\ supplier = NoSupplier =>
       issued = [q \in Queues |-> 0] /\ \A r \in Reservations : step[r] = "idle"

\* The types without the bounds on the counters, which follow from what they count.
ShapeOK ==
  /\ issued \in [Queues -> Int] /\ reserved \in Int /\ pending \in Int
  /\ ramped \in BOOLEAN /\ allowed \in BOOLEAN
  /\ step \in [Reservations -> Steps]
  /\ queue \in [Reservations -> Queues]
  /\ notified \subseteq Reservations /\ sleeping \subseteq Reservations
  /\ sampler \in {"idle", "stored"}

Held == { r \in Reservations : step[r] \in {"granted", "holding", "unissued"} }
Counted == { r \in Reservations : Reserving(r) \/ step[r] = "granted" }

CountInv ==
  /\ \A q \in Queues : issued[q] = Cardinality(Permits(q))
  /\ reserved = Cardinality(Held)
  /\ pending = Cardinality(Counted)

\* The maximum is kept, and below it the permit of a queue that has none.
RoomInv ==
  Running =>
    /\ Total <= supplier.maximum
    /\ supplier.sticky => \A q \in Queues : issued[q] = 0 => Total < supplier.maximum

\* The end of the ramp interval alone does not let queue q in: there is no room, or
\* there is pressure and nothing it is owed.
Blocked(q) == ~Room(q) \/ (~Required(q) /\ ~allowed)

Notifying ==
  \/ sampler = "stored"
  \/ \E p \in Reservations : step[p] \in {"unissued", "unreserved"}

\* From the refusal on, a reservation without a sleep is blocked, or a notification
\* is on its way to it.
WaitInv ==
  \A r \in Reservations :
    step[r] \in {"refused", "waiting"} /\ r \notin notified \cup sleeping =>
      Blocked(queue[r]) \/ Notifying

SlotInv == ShapeOK /\ SetupInv /\ AcceptedIsBuilt /\ CountInv /\ RoomInv /\ WaitInv

-----------------------------------------------------------------------------
(***************************************************************************)
(* The steps of Next, by what they leave alone.                            *)
(***************************************************************************)
NewStep ==
  /\ setup = NoSetup /\ ~Running
  /\ \/ \E c \in Configs : NewWorker(c)
     \/ \E o \in RawOptions : NewRawWorker(o)

TaskStep(r) ==
  \/ Begin(r) \/ Enable(r) \/ TryReserve(r) \/ Wait(r) \/ Wakeup(r) \/ ReserveReturns(r)
  \/ CancelReserve(r) \/ TryDirect(r) \/ DropIssued(r) \/ DropReserved(r) \/ DropNotify(r)

LEMMA NextCases ==
  Next => \/ NewStep \/ Abandon \/ Sample \/ SampleNotify \/ RampEnds
          \/ \E k \in Kinds : InitWorker(k)
          \/ \E r \in Reservations : TaskStep(r)
BY DEF Next, NewStep, ReserveStep, DropStep, TaskStep

\* A task steps only when there is a supplier, which it leaves alone.
LEMMA TaskFrame ==
  ASSUME ShapeOK, SetupInv, NEW r \in Reservations, TaskStep(r)
  PROVE  /\ supplier # NoSupplier /\ SupplierOK(supplier)
         /\ UNCHANGED <<setup, supplier>>
         /\ \A p \in Reservations \ {r} : step'[p] = step[p] /\ queue'[p] = queue[p]
<1>1. supplier # NoSupplier
  BY DEF TaskStep, Begin, Enable, TryReserve, Wait, Wakeup, ReserveReturns, CancelReserve,
         TryDirect, DropIssued, DropReserved, DropNotify, SetupInv, Running, NoSupplier
<1>2. UNCHANGED <<setup, supplier>>
  BY DEF TaskStep, Begin, Enable, TryReserve, Wait, Wakeup, ReserveReturns, CancelReserve,
         TryDirect, DropIssued, DropReserved, DropNotify, stateVars
<1>3. \A p \in Reservations \ {r} : step'[p] = step[p]
  BY DEF TaskStep, Begin, Enable, TryReserve, Wait, Wakeup, ReserveReturns, CancelReserve,
         TryDirect, DropIssued, DropReserved, DropNotify, ShapeOK
<1>4. \A p \in Reservations \ {r} : queue'[p] = queue[p]
  BY DEF TaskStep, Begin, Enable, TryReserve, Wait, Wakeup, ReserveReturns, CancelReserve,
         TryDirect, DropIssued, DropReserved, DropNotify, ShapeOK
<1> QED BY <1>1, <1>2, <1>3, <1>4 DEF SetupInv

LEMMA SetupShape ==
  ASSUME NewStep \/ Abandon \/ (\E k \in Kinds : InitWorker(k))
  PROVE  /\ UNCHANGED idleVars
         /\ ramped' = ramped \/ ramped' \in BOOLEAN
<1>1. CASE NewStep
  BY <1>1 DEF NewStep, NewWorker, NewRawWorker, Translate
<1>2. CASE Abandon
  BY <1>2 DEF Abandon
<1>3. ASSUME NEW k \in Kinds, InitWorker(k) PROVE UNCHANGED idleVars /\ ramped' \in BOOLEAN
  <2>1. UNCHANGED idleVars
    BY <1>3 DEF InitWorker
  <2>2. ramped' \in BOOLEAN
    BY <1>3, Zenon DEF InitWorker
  <2> QED BY <2>1, <2>2
<1> QED BY <1>1, <1>2, <1>3

LEMMA ShapeInit == Init => ShapeOK
<1> SUFFICES ASSUME Init PROVE ShapeOK
  OBVIOUS
<1>1. ramped \in BOOLEAN /\ allowed \in BOOLEAN
  BY Zenon DEF Init
<1>2. /\ issued \in [Queues -> Int] /\ step \in [Reservations -> Steps]
      /\ queue \in [Reservations -> Queues]
  BY DEF Init, Queues, Steps
<1> QED BY <1>1, <1>2 DEF Init, ShapeOK

LEMMA ShapeKept == ShapeOK /\ [Next]_vars => ShapeOK'
<1> SUFFICES ASSUME ShapeOK, [Next]_vars PROVE ShapeOK'
  OBVIOUS
<1>1. CASE NewStep \/ Abandon \/ (\E k \in Kinds : InitWorker(k))
  <2>1. UNCHANGED idleVars /\ ramped' \in BOOLEAN
    BY <1>1, SetupShape DEF ShapeOK
  <2> QED BY <2>1 DEF ShapeOK, idleVars
<1>2. CASE Sample
  <2>1. allowed' \in BOOLEAN
    BY <1>2 DEF Sample, Verdicts
  <2> QED BY <1>2, <2>1 DEF Sample, ShapeOK, stateVars
<1>3. CASE SampleNotify
  BY <1>3 DEF SampleNotify, NotifyWaiters, Listening, ShapeOK, stateVars, gateVars
<1>4. CASE RampEnds
  <2>1. ramped' \in BOOLEAN
    BY <1>4, Zenon DEF RampEnds
  <2> QED BY <1>4, <2>1 DEF RampEnds, ShapeOK, gateVars
<1>5. ASSUME NEW r \in Reservations, TaskStep(r) PROVE ShapeOK'
  <2>1. ramped' \in BOOLEAN /\ allowed' \in BOOLEAN
    <3>1. allowed' = allowed
      BY <1>5 DEF TaskStep, Begin, Enable, TryReserve, Wait, Wakeup, ReserveReturns,
           CancelReserve, TryDirect, DropIssued, DropReserved, DropNotify, gateVars
    <3>2. ramped' = ramped \/ ramped' = (supplier.ramp = 0)
      BY <1>5 DEF TaskStep, Begin, Enable, TryReserve, Wait, Wakeup, ReserveReturns, Grant,
           CancelReserve, TryDirect, DropIssued, DropReserved, DropNotify, stateVars
    <3>3. (supplier.ramp = 0) \in BOOLEAN
      BY Zenon
    <3>4. ramped' \in BOOLEAN
      BY <3>2, <3>3 DEF ShapeOK
    <3> QED BY <3>1, <3>4 DEF ShapeOK
  <2>2. step' \in [Reservations -> Steps]
    BY <1>5 DEF TaskStep, Begin, Enable, TryReserve, Wait, Wakeup, ReserveReturns,
         CancelReserve, TryDirect, DropIssued, DropReserved, DropNotify, ShapeOK, Steps
  <2>3. queue' \in [Reservations -> Queues]
    BY <1>5 DEF TaskStep, Begin, Enable, TryReserve, Wait, Wakeup, ReserveReturns,
         CancelReserve, TryDirect, DropIssued, DropReserved, DropNotify, ShapeOK, Queues
  <2>4. notified' \subseteq Reservations /\ sleeping' \subseteq Reservations
    BY <1>5 DEF TaskStep, Begin, Enable, TryReserve, Wait, Wakeup, ReserveReturns, CancelReserve,
         TryDirect, DropIssued, DropReserved, DropNotify, NotifyWaiters, Listening, ShapeOK
  <2>5. issued' \in [Queues -> Int] /\ reserved' \in Int /\ pending' \in Int
    <3>1. queue[r] \in Queues
      BY DEF ShapeOK
    <3>2. issued' \in [Queues -> Int]
      BY <1>5, <3>1 DEF TaskStep, Begin, Enable, TryReserve, Wait, Wakeup, ReserveReturns, Grant,
           CancelReserve, TryDirect, DropIssued, DropReserved, DropNotify, ShapeOK, stateVars
    <3>3. reserved' \in Int
      BY <1>5 DEF TaskStep, Begin, Enable, TryReserve, Wait, Wakeup, ReserveReturns, Grant,
           CancelReserve, TryDirect, DropIssued, DropReserved, DropNotify, ShapeOK, gateVars
    <3>4. pending' \in Int
      BY <1>5 DEF TaskStep, Begin, Enable, TryReserve, Wait, Wakeup, ReserveReturns,
           CancelReserve, TryDirect, DropIssued, DropReserved, DropNotify, ShapeOK, gateVars
    <3> QED BY <3>2, <3>3, <3>4
  <2>6. sampler' = sampler
    BY <1>5 DEF TaskStep, Begin, Enable, TryReserve, Wait, Wakeup, ReserveReturns,
         CancelReserve, TryDirect, DropIssued, DropReserved, DropNotify
  <2> QED BY <2>1, <2>2, <2>3, <2>4, <2>5, <2>6 DEF ShapeOK
<1>6. CASE UNCHANGED vars
  BY <1>6 DEF ShapeOK, vars
<1> QED BY <1>1, <1>2, <1>3, <1>4, <1>5, <1>6, NextCases

-----------------------------------------------------------------------------
(***************************************************************************)
(* kt_worker_new.                                                          *)
(***************************************************************************)

\* A custom supplier of accepted options, whoever sent them.
LEMMA SuppliersBuilt ==
  ASSUME NEW o, IsOptions(o), WorkerConfigAccepts(o), NEW k \in Kinds,
         WorkerConfig(o).slots[k].type = "custom"
  PROVE  SupplierOK(WorkerConfig(o).slots[k])
<1>1. WorkerConfig(o).slots = [l \in Kinds |-> Slot(o, l)]
  BY ConfigFields
<1>2. WorkerConfig(o).slots[k] = Slot(o, k) /\ Slot(o, k).type = "custom"
  BY <1>1
<1>3. o.limits[k] # <<>>
  BY <1>2 DEF Slot
<1>4. o.limits[k] \in Option(ResourceSlotLimits)
  BY DEF IsOptions
<1>5. o.limits[k][1] \in ResourceSlotLimits
  BY <1>3, <1>4, OptionCases
<1>6. o.limits[k][1].maximum \in Nat /\ o.limits[k][1].minimum \in Nat
  BY <1>5, HalfRangeAssumption DEF ResourceSlotLimits, Words
<1>7. o.limits[k][1].maximum # 0
  BY <1>3 DEF WorkerConfigAccepts, TunerAccepts, SlotAccepted
<1>8. Sticky(o, k) => o.limits[k][1].maximum >= 2
  BY <1>3 DEF WorkerConfigAccepts, TunerAccepts, QueuesFit, Sticky, WorkflowLimit
<1>9. Sticky(o, k) \in BOOLEAN
  BY Zenon DEF Sticky
<1>10. /\ Slot(o, k).maximum = o.limits[k][1].maximum
       /\ Slot(o, k).minimum = o.limits[k][1].minimum
       /\ Slot(o, k).sticky = Sticky(o, k)
       /\ {"type", "minimum", "maximum", "sticky"} \subseteq DOMAIN Slot(o, k)
  <2>1. o.tuner # <<>> /\ o.tuner[1].jvm
    BY <1>2, <1>3 DEF Slot
  <2> QED BY <1>3, <2>1 DEF Slot
<1> QED BY <1>2, <1>6, <1>7, <1>8, <1>9, <1>10 DEF SupplierOK

\* What kt_worker_new knows after its checks.
LEMMA SetupMade ==
  ASSUME NewStep
  PROVE  /\ setup'.stage \in {"built", "refused"}
         /\ setup'.stage = "built" => \A k \in Kinds :
              setup'.built.slots[k].type = "custom" => SupplierOK(setup'.built.slots[k])
         /\ setup'.config # <<>> =>
              setup'.stage = "built" /\ AsConfigured(setup'.config[1], setup'.built)
<1>1. ASSUME NEW config, NEW o, IsOptions(o), Translate(config, o)
      PROVE  /\ setup'.stage \in {"built", "refused"} /\ setup'.config = config
             /\ setup'.stage = "built" <=> WorkerConfigAccepts(o)
             /\ setup'.stage = "built" => setup'.built = WorkerConfig(o)
  BY <1>1 DEF Translate
<1>2. ASSUME NEW config, NEW o, IsOptions(o), Translate(config, o), setup'.stage = "built"
      PROVE  \A k \in Kinds :
               setup'.built.slots[k].type = "custom" => SupplierOK(setup'.built.slots[k])
  BY <1>1, <1>2, SuppliersBuilt
<1>3. ASSUME NEW c \in Configs, NewWorker(c)
      PROVE  /\ IsOptions(Encode(c)) /\ Translate(<<c>>, Encode(c))
             /\ setup'.config[1] = c
             /\ setup'.stage = "built" /\ AsConfigured(c, setup'.built)
  <2>1. IsConfig(c) /\ EncodeAccepts(c) /\ Translate(<<c>>, Encode(c))
    BY <1>3, ConfigsAssumption DEF NewWorker
  <2>2. IsOptions(Encode(c)) /\ WorkerConfigAccepts(Encode(c))
    BY <2>1, EncodedTyped, ValidatorsAgree
  <2>3. setup'.config = <<c>> /\ setup'.stage = "built" /\ setup'.built = WorkerConfig(Encode(c))
    BY <1>1, <2>1, <2>2
  <2> QED BY <2>1, <2>2, <2>3, BuiltAsConfigured
<1>4. ASSUME NEW o \in RawOptions, NewRawWorker(o)
      PROVE  IsOptions(o) /\ Translate(<<>>, o)
  BY <1>4, ConfigsAssumption DEF NewRawWorker
<1>5. CASE \E c \in Configs : NewWorker(c)
  <2>1. PICK c \in Configs : NewWorker(c)
    BY <1>5
  <2>2. /\ IsOptions(Encode(c)) /\ Translate(<<c>>, Encode(c)) /\ setup'.config[1] = c
        /\ setup'.stage = "built" /\ AsConfigured(c, setup'.built)
    BY <1>3, <2>1
  <2> QED BY <1>2, <2>2
<1>6. CASE \E o \in RawOptions : NewRawWorker(o)
  <2>1. PICK o \in RawOptions : NewRawWorker(o)
    BY <1>6
  <2>2. IsOptions(o) /\ Translate(<<>>, o)
    BY <1>4, <2>1
  <2>3. setup'.stage \in {"built", "refused"} /\ setup'.config = <<>>
    BY <1>1, <2>2
  <2> QED BY <1>2, <2>2, <2>3
<1> QED BY <1>5, <1>6 DEF NewStep

LEMMA SetupInit == Init => SetupInv /\ AcceptedIsBuilt
BY DEF Init, SetupInv, AcceptedIsBuilt, NoSetup

LEMMA SetupKept ==
  ShapeOK /\ SetupInv /\ AcceptedIsBuilt /\ [Next]_vars => SetupInv' /\ AcceptedIsBuilt'
<1> SUFFICES ASSUME ShapeOK, SetupInv, AcceptedIsBuilt, [Next]_vars
             PROVE  SetupInv' /\ AcceptedIsBuilt'
  OBVIOUS
<1>n. NoSetup.stage = "none"
  BY DEF NoSetup
<1>1. CASE NewStep
  <2>1. supplier = NoSupplier /\ UNCHANGED <<supplier, issued, step>>
    BY <1>1 DEF NewStep, NewWorker, NewRawWorker, Translate, SetupInv, Running, SupplierOK,
                idleVars
  <2>2. setup' # NoSetup
    BY <1>1, <1>n, SetupMade
  <2>3. SetupInv'
    BY <1>1, <2>1, <2>2, SetupMade DEF SetupInv
  <2>4. AcceptedIsBuilt'
    BY <1>1, SetupMade DEF AcceptedIsBuilt
  <2> QED BY <2>3, <2>4
<1>2. CASE Abandon
  <2>1. setup' = NoSetup /\ UNCHANGED <<supplier, issued, step>>
    BY <1>2 DEF Abandon, idleVars
  <2> QED BY <1>n, <2>1 DEF SetupInv, AcceptedIsBuilt
<1>3. ASSUME NEW k \in Kinds, InitWorker(k) PROVE SetupInv' /\ AcceptedIsBuilt'
  <2>1. setup' = NoSetup /\ UNCHANGED <<issued, step>>
    BY <1>3 DEF InitWorker, idleVars
  <2>2. SupplierOK(setup.built.slots[k])
    BY <1>3 DEF InitWorker, SetupInv
  <2>3. SupplierOK(supplier')
    BY <1>3, <2>2 DEF InitWorker, SupplierOK
  <2>4. supplier' # NoSupplier
    BY <2>3 DEF SupplierOK, NoSupplier
  <2> QED BY <1>n, <2>1, <2>3, <2>4 DEF SetupInv, AcceptedIsBuilt
<1>4. CASE Sample \/ SampleNotify \/ RampEnds
  BY <1>4 DEF Sample, SampleNotify, RampEnds, SetupInv, AcceptedIsBuilt, stateVars
<1>5. ASSUME NEW r \in Reservations, TaskStep(r) PROVE SetupInv' /\ AcceptedIsBuilt'
  BY <1>5, TaskFrame DEF SetupInv, AcceptedIsBuilt
<1>6. CASE UNCHANGED vars
  BY <1>6 DEF SetupInv, AcceptedIsBuilt, vars
<1> QED BY <1>1, <1>2, <1>3, <1>4, <1>5, <1>6, NextCases

-----------------------------------------------------------------------------
(***************************************************************************)
(* The counters.                                                           *)
(***************************************************************************)
LEMMA CountInit == Init => CountInv
<1> SUFFICES ASSUME Init PROVE CountInv
  OBVIOUS
<1>1. Held = {} /\ Counted = {} /\ \A q \in Queues : Permits(q) = {}
  BY DEF Init, Held, Counted, Permits, Reserving
<1> QED BY <1>1, FS_EmptySet DEF Init, CountInv

LEMMA CountFinite == IsFiniteSet(Held) /\ IsFiniteSet(Counted) /\ \A q : IsFiniteSet(Permits(q))
BY ReservationsAssumption, FS_Subset DEF Held, Counted, Permits

\* What one member more or less makes of a cardinality.
LEMMA OneMore ==
  ASSUME NEW S, IsFiniteSet(S), NEW T, NEW x, x \notin S, T = S \cup {x}
  PROVE  Cardinality(T) = Cardinality(S) + 1
BY FS_AddElement

LEMMA OneLess ==
  ASSUME NEW S, IsFiniteSet(S), NEW T, NEW x, x \in S, T = S \ {x}
  PROVE  Cardinality(T) = Cardinality(S) - 1
BY FS_RemoveElement

LEMMA CountKept == ShapeOK /\ SetupInv /\ CountInv /\ [Next]_vars => CountInv'
<1> SUFFICES ASSUME ShapeOK, SetupInv, CountInv, [Next]_vars PROVE CountInv'
  OBVIOUS
<1>0. ASSUME UNCHANGED <<issued, reserved, pending, step, queue>> PROVE CountInv'
  BY <1>0 DEF CountInv, Permits, Held, Counted, Reserving
<1>1. CASE NewStep \/ Abandon \/ (\E k \in Kinds : InitWorker(k))
  BY <1>0, <1>1, SetupShape DEF idleVars
<1>2. CASE Sample \/ SampleNotify \/ RampEnds
  BY <1>0, <1>2 DEF Sample, SampleNotify, RampEnds, stateVars, gateVars
<1>3. ASSUME NEW r \in Reservations, TaskStep(r) PROVE CountInv'
  <2>f. /\ \A p \in Reservations \ {r} : step'[p] = step[p] /\ queue'[p] = queue[p]
        /\ queue[r] \in Queues
    BY <1>3, TaskFrame DEF ShapeOK
  <2>1. CASE Enable(r) \/ Wait(r) \/ Wakeup(r) \/ DropNotify(r)
             \/ (TryReserve(r) /\ step'[r] # "granted")
    <3>1. UNCHANGED <<issued, reserved, pending, queue>>
      BY <2>1 DEF Enable, Wait, Wakeup, DropNotify, TryReserve, ShapeOK, stateVars, gateVars
    <3>2. \/ Reserving(r) /\ Reserving(r)'
          \/ step[r] = "unreserved" /\ step'[r] = "idle"
      BY <2>1 DEF Enable, Wait, Wakeup, DropNotify, TryReserve, ShapeOK, Reserving
    <3>3. Held' = Held /\ Counted' = Counted /\ \A q \in Queues : Permits(q)' = Permits(q)
      BY <2>f, <3>1, <3>2 DEF Held, Counted, Permits, Reserving
    <3> QED BY <3>1, <3>3 DEF CountInv
  <2>2. CASE Begin(r)
    <3>1. /\ UNCHANGED <<issued, reserved>> /\ pending' = pending + 1
          /\ step[r] = "idle" /\ step'[r] = "loop"
      BY <2>2 DEF Begin, ShapeOK, stateVars
    <3>2. /\ Held' = Held /\ \A q \in Queues : Permits(q)' = Permits(q)
          /\ r \notin Counted /\ Counted' = Counted \cup {r}
      BY <2>f, <3>1 DEF Held, Counted, Permits, Reserving
    <3>3. Cardinality(Counted') = Cardinality(Counted) + 1
      BY <3>2, CountFinite, OneMore
    <3> QED BY <3>1, <3>2, <3>3 DEF CountInv
  <2>3. CASE CancelReserve(r) \/ ReserveReturns(r)
    <3>1. /\ UNCHANGED <<issued, reserved>> /\ pending' = pending - 1
          /\ \/ step[r] \in {"waiting", "missed"} /\ step'[r] = "idle"
             \/ step[r] = "granted" /\ step'[r] = "holding" /\ queue'[r] = queue[r]
      BY <2>3 DEF CancelReserve, ReserveReturns, ShapeOK, stateVars
    <3>2. /\ Held' = Held /\ \A q \in Queues : Permits(q)' = Permits(q)
          /\ r \in Counted /\ Counted' = Counted \ {r}
      BY <2>f, <3>1 DEF Held, Counted, Permits, Reserving
    <3>3. Cardinality(Counted') = Cardinality(Counted) - 1
      BY <3>2, CountFinite, OneLess
    <3> QED BY <3>1, <3>2, <3>3 DEF CountInv
  <2>4. CASE (TryReserve(r) /\ step'[r] = "granted") \/ TryDirect(r)
    <3>1. PICK q \in Queues :
            /\ issued' = [issued EXCEPT ![q] = @ + 1] /\ reserved' = reserved + 1
            /\ pending' = pending /\ queue'[r] = q
            /\ \/ step[r] = "enabled" /\ step'[r] = "granted"
               \/ step[r] = "idle" /\ step'[r] = "holding"
      <4>1. CASE TryReserve(r) /\ step'[r] = "granted"
        BY <2>f, <4>1 DEF TryReserve, Grant, ShapeOK
      <4>2. CASE TryDirect(r)
        BY <4>2 DEF TryDirect, Grant, ShapeOK
      <4> QED BY <2>4, <4>1, <4>2
    <3>2. /\ r \notin Held /\ Held' = Held \cup {r} /\ Counted' = Counted
          /\ r \notin Permits(q) /\ Permits(q)' = Permits(q) \cup {r}
          /\ \A p \in Queues \ {q} : Permits(p)' = Permits(p)
      BY <2>f, <3>1 DEF Held, Counted, Permits, Reserving
    <3>3. /\ Cardinality(Held') = Cardinality(Held) + 1
          /\ Cardinality(Permits(q)') = Cardinality(Permits(q)) + 1
      BY <3>2, CountFinite, OneMore
    <3>4. \A p \in Queues : issued'[p] = Cardinality(Permits(p)')
      BY <3>1, <3>2, <3>3 DEF CountInv, ShapeOK
    <3> QED BY <3>1, <3>2, <3>3, <3>4 DEF CountInv
  <2>5. CASE DropIssued(r)
    <3>1. PICK q \in Queues : q = queue[r]
      BY <2>f
    <3>2. /\ issued' = [issued EXCEPT ![q] = @ - 1] /\ UNCHANGED <<reserved, pending>>
          /\ step[r] = "holding" /\ step'[r] = "unissued"
      BY <2>5, <3>1 DEF DropIssued, ShapeOK, gateVars
    <3>3. /\ Held' = Held /\ Counted' = Counted
          /\ r \in Permits(q) /\ Permits(q)' = Permits(q) \ {r}
          /\ \A p \in Queues \ {q} : Permits(p)' = Permits(p)
      BY <2>f, <3>1, <3>2 DEF Held, Counted, Permits, Reserving
    <3>4. Cardinality(Permits(q)') = Cardinality(Permits(q)) - 1
      BY <3>3, CountFinite, OneLess
    <3>5. \A p \in Queues : issued'[p] = Cardinality(Permits(p)')
      BY <3>2, <3>3, <3>4 DEF CountInv, ShapeOK
    <3> QED BY <3>2, <3>3, <3>5 DEF CountInv
  <2>6. CASE DropReserved(r)
    <3>1. /\ UNCHANGED <<issued, pending>> /\ reserved' = reserved - 1
          /\ step[r] = "unissued" /\ step'[r] = "unreserved"
      BY <2>6 DEF DropReserved, ShapeOK, stateVars
    <3>2. /\ r \in Held /\ Held' = Held \ {r} /\ Counted' = Counted
          /\ \A q \in Queues : Permits(q)' = Permits(q)
      BY <2>f, <3>1 DEF Held, Counted, Permits, Reserving
    <3>3. Cardinality(Held') = Cardinality(Held) - 1
      BY <3>2, CountFinite, OneLess
    <3> QED BY <3>1, <3>2, <3>3 DEF CountInv
  <2> QED BY <1>3, <2>1, <2>2, <2>3, <2>4, <2>5, <2>6 DEF TaskStep
<1>4. CASE UNCHANGED vars
  BY <1>0, <1>4 DEF vars
<1> QED BY <1>1, <1>2, <1>3, <1>4, NextCases

-----------------------------------------------------------------------------
(***************************************************************************)
(* Room for both queues.                                                   *)
(***************************************************************************)

\* The steps that issue a permit, and all others.
LEMMA TaskIssued ==
  ASSUME ShapeOK, NEW r \in Reservations, TaskStep(r)
  PROVE  /\ allowed' = allowed
         /\ \/ issued' = issued
            \/ /\ step'[r] = "unissued"
               /\ issued' = [issued EXCEPT ![queue[r]] = @ - 1] /\ queue[r] \in Queues
            \/ /\ step'[r] \in {"granted", "holding"}
               /\ \E q \in Queues : Room(q) /\ issued' = [issued EXCEPT ![q] = @ + 1]
<1>q. queue[r] \in Queues
  BY DEF ShapeOK
<1>1. allowed' = allowed
  BY DEF TaskStep, Begin, Enable, TryReserve, Wait, Wakeup, ReserveReturns,
         CancelReserve, TryDirect, DropIssued, DropReserved, DropNotify, gateVars
<1>2. CASE DropIssued(r)
  BY <1>1, <1>2, <1>q DEF DropIssued, ShapeOK
<1>3. CASE TryReserve(r)
  BY <1>1, <1>3, <1>q DEF TryReserve, Grants, Grant, Entitled, ShapeOK
<1>4. CASE TryDirect(r)
  BY <1>1, <1>4 DEF TryDirect, Grants, Grant, Entitled, ShapeOK
<1>5. CASE \/ Begin(r) \/ Enable(r) \/ Wait(r) \/ Wakeup(r) \/ ReserveReturns(r)
           \/ CancelReserve(r) \/ DropReserved(r) \/ DropNotify(r)
  <2>1. issued' = issued
    BY <1>5 DEF Begin, Enable, Wait, Wakeup, ReserveReturns, CancelReserve, DropReserved,
         DropNotify, stateVars
  <2> QED BY <1>1, <2>1
<1> QED BY <1>2, <1>3, <1>4, <1>5 DEF TaskStep

LEMMA RoomInit == Init => RoomInv
BY DEF Init, RoomInv, Running, NoSupplier

LEMMA IssuedNat == ShapeOK /\ CountInv => issued[0] \in Nat /\ issued[1] \in Nat
<1> SUFFICES ASSUME ShapeOK, CountInv PROVE issued[0] \in Nat /\ issued[1] \in Nat
  OBVIOUS
<1>1. \A q \in Queues : Cardinality(Permits(q)) \in Nat
  BY CountFinite, FS_CardinalityType
<1> QED BY <1>1 DEF CountInv, Queues

LEMMA RoomKept ==
  ShapeOK /\ SetupInv /\ SetupInv' /\ CountInv /\ RoomInv /\ [Next]_vars => RoomInv'
<1> SUFFICES ASSUME ShapeOK, SetupInv, SetupInv', CountInv, RoomInv, [Next]_vars PROVE RoomInv'
  OBVIOUS
<1>n. NoSupplier.type # "custom"
  BY DEF NoSupplier
<1>i. issued[0] \in Nat /\ issued[1] \in Nat
  BY IssuedNat
<1>0. ASSUME UNCHANGED <<issued, supplier>> PROVE RoomInv'
  BY <1>0 DEF RoomInv, Total, Running
<1>1. CASE NewStep \/ Abandon
  BY <1>0, <1>1 DEF NewStep, NewWorker, NewRawWorker, Translate, Abandon, idleVars
<1>2. ASSUME NEW k \in Kinds, InitWorker(k) PROVE RoomInv'
  <2>1. issued' = [q \in Queues |-> 0] /\ supplier' # NoSupplier
    <3>1. setup # NoSetup /\ issued' = issued
      BY <1>2 DEF InitWorker, NoSetup, idleVars
    <3>2. supplier'.type = "custom"
      BY <1>2 DEF InitWorker, SetupInv, SupplierOK
    <3> QED BY <1>n, <3>1, <3>2 DEF SetupInv
  <2>2. supplier'.maximum \in Nat \ {0}
    BY <2>1 DEF SetupInv, SupplierOK
  <2> QED BY <2>1, <2>2 DEF RoomInv, Total, Queues
<1>3. CASE Sample \/ SampleNotify \/ RampEnds
  BY <1>0, <1>3 DEF Sample, SampleNotify, RampEnds, stateVars
<1>4. ASSUME NEW r \in Reservations, TaskStep(r) PROVE RoomInv'
  <2>1. supplier' = supplier /\ SupplierOK(supplier)
    BY <1>4, TaskFrame
  <2>2. /\ Total <= supplier.maximum /\ supplier.maximum \in Nat
        /\ supplier.sticky => \A q \in Queues : issued[q] = 0 => Total < supplier.maximum
    BY <2>1 DEF RoomInv, Running, SupplierOK
  <2>3. CASE issued' = issued
    BY <1>0, <2>1, <2>3
  <2>4. ASSUME NEW q \in Queues, issued' = [issued EXCEPT ![q] = @ - 1] PROVE RoomInv'
    <3>1. issued'[q] = issued[q] - 1 /\ issued'[1 - q] = issued[1 - q] /\ q \in {0, 1}
      BY <2>4 DEF ShapeOK, Queues
    <3>2. Total' = Total - 1
      BY <1>i, <3>1 DEF Total
    <3> QED BY <1>i, <2>1, <2>2, <3>2 DEF RoomInv, Total
  <2>5. ASSUME NEW q \in Queues, Room(q), issued' = [issued EXCEPT ![q] = @ + 1] PROVE RoomInv'
    <3>1. issued'[q] = issued[q] + 1 /\ issued'[1 - q] = issued[1 - q] /\ q \in {0, 1}
      BY <2>5 DEF ShapeOK, Queues
    <3>2. Total' = Total + 1 /\ Total \in Nat
      BY <1>i, <3>1 DEF Total
    <3>3. /\ Total < supplier.maximum
          /\ supplier.sticky /\ issued[1 - q] = 0 => Total + 1 # supplier.maximum
      BY <2>5 DEF Room
    <3>4. \A p \in Queues : issued'[p] = 0 => p = 1 - q
      BY <1>i, <3>1 DEF Queues
    <3>5. Total' <= supplier.maximum
      BY <2>2, <3>2, <3>3
    <3>6. supplier.sticky => \A p \in Queues : issued'[p] = 0 => Total' < supplier.maximum
      BY <2>2, <3>1, <3>2, <3>3, <3>4
    <3> QED BY <2>1, <3>5, <3>6 DEF RoomInv
  <2> QED BY <1>4, <2>3, <2>4, <2>5, TaskIssued
<1>5. CASE UNCHANGED vars
  BY <1>0, <1>5 DEF vars
<1> QED BY <1>1, <1>2, <1>3, <1>4, <1>5, NextCases

-----------------------------------------------------------------------------
(***************************************************************************)
(* No missed change.                                                       *)
(***************************************************************************)

\* Another grant does not let a blocked queue in.
LEMMA GrantBlocks ==
  ASSUME ShapeOK, SupplierOK(supplier), issued[0] \in Nat, issued[1] \in Nat,
         supplier' = supplier, allowed' = allowed,
         NEW q \in Queues, Room(q), issued' = [issued EXCEPT ![q] = @ + 1],
         NEW p \in Queues, Blocked(p)
  PROVE  Blocked(p)'
<1>1. issued'[q] = issued[q] + 1 /\ issued'[1 - q] = issued[1 - q] /\ q \in {0, 1} /\ p \in {0, 1}
  BY DEF ShapeOK, Queues
<1>2. Total' = Total + 1 /\ Total \in Nat
  BY <1>1 DEF Total
<1>3. supplier.maximum \in Nat /\ supplier.minimum \in Nat
  BY DEF SupplierOK
<1>4. CASE ~Room(p)
  <2>1. \/ Total >= supplier.maximum
        \/ supplier.sticky /\ issued[1 - p] = 0 /\ Total + 1 = supplier.maximum
    BY <1>2, <1>3, <1>4 DEF Room
  <2>2. Total' >= supplier.maximum
    BY <1>2, <1>3, <2>1
  <2>3. ~(Total' < supplier'.maximum)
    BY <1>2, <1>3, <2>2
  <2> QED BY <2>3 DEF Blocked, Room
<1>5. CASE ~Required(p) /\ ~allowed
  <2>1. ~(Total < supplier.minimum) /\ ~(supplier.sticky /\ issued[p] = 0)
    BY <1>5 DEF Required
  <2>2. ~(Total' < supplier.minimum)
    BY <1>2, <1>3, <2>1
  <2>3. issued'[p] = 0 => issued[p] = 0
    BY <1>1
  <2> QED BY <1>5, <2>1, <2>2, <2>3 DEF Blocked, Required
<1> QED BY <1>4, <1>5 DEF Blocked

LEMMA WaitInit == Init => WaitInv
BY DEF Init, WaitInv

LEMMA WaitKept ==
  ShapeOK /\ SetupInv /\ CountInv /\ WaitInv /\ [Next]_vars => WaitInv'
<1> SUFFICES ASSUME ShapeOK, SetupInv, CountInv, WaitInv, [Next]_vars PROVE WaitInv'
  OBVIOUS
<1>0. ASSUME UNCHANGED <<issued, supplier, allowed, step, queue, notified, sleeping, sampler>>
      PROVE  WaitInv'
  BY <1>0 DEF WaitInv, Blocked, Room, Required, Total, Notifying
<1>1. CASE NewStep \/ Abandon
  BY <1>0, <1>1 DEF NewStep, NewWorker, NewRawWorker, Translate, Abandon, idleVars
<1>2. ASSUME NEW k \in Kinds, InitWorker(k) PROVE WaitInv'
  <2>1. setup # NoSetup /\ step' = step
    BY <1>2 DEF InitWorker, NoSetup, idleVars
  <2>2. \A r \in Reservations : step'[r] = "idle"
    BY <2>1 DEF SetupInv
  <2> QED BY <2>2 DEF WaitInv
<1>3. CASE Sample
  BY <1>3 DEF Sample, WaitInv, Notifying
<1>4. CASE SampleNotify
  BY <1>4 DEF SampleNotify, NotifyWaiters, Listening, WaitInv
<1>5. CASE RampEnds
  BY <1>0, <1>5 DEF RampEnds, gateVars
<1>6. ASSUME NEW r \in Reservations, TaskStep(r) PROVE WaitInv'
  <2> SUFFICES ASSUME NEW w \in Reservations, step'[w] \in {"refused", "waiting"},
                      w \notin notified' \cup sleeping', ~Notifying'
               PROVE  Blocked(queue[w])'
    BY DEF WaitInv
  <2>q. queue[w] \in Queues /\ queue'[w] \in Queues
    BY <1>6, ShapeKept DEF ShapeOK
  <2>f. /\ supplier' = supplier /\ SupplierOK(supplier) /\ allowed' = allowed
        /\ w # r => step'[w] = step[w] /\ queue'[w] = queue[w]
    BY <1>6, TaskFrame, TaskIssued
  <2>n. /\ notified \ {r} \subseteq notified' /\ sleeping \ {r} \subseteq sleeping'
        /\ sampler' = sampler
    BY <1>6 DEF TaskStep, Begin, Enable, TryReserve, Wait, Wakeup, ReserveReturns,
         CancelReserve, TryDirect, DropIssued, DropReserved, DropNotify, NotifyWaiters
  <2>1. CASE w = r /\ TryReserve(r)
    <3>1. step'[r] = "refused" /\ ~Grants(queue[r]) /\ ~(Room(queue[r]) /\ allowed)
      BY <2>1 DEF TryReserve, ShapeOK
    <3>2. Blocked(queue[r])
      BY <3>1 DEF Grants, Entitled, Blocked
    <3>3. UNCHANGED <<issued, queue>>
      BY <2>1, <3>1 DEF TryReserve, ShapeOK
    <3> QED BY <2>1, <2>f, <3>2, <3>3 DEF Blocked, Room, Required, Total
  <2>2. CASE w = r /\ ~TryReserve(r)
    <3>1. Wait(r)
      BY <1>6, <2>2 DEF TaskStep, Begin, Enable, Wakeup, ReserveReturns, CancelReserve,
           TryDirect, DropIssued, DropReserved, DropNotify, ShapeOK
    <3>2. /\ step[r] = "refused" /\ r \notin notified \cup sleeping
          /\ UNCHANGED <<issued, queue>>
      BY <2>2, <3>1 DEF Wait, ShapeOK, stateVars
    <3>3. ~Notifying
      BY <1>6, <2>n, <3>2, TaskFrame DEF Notifying
    <3>4. Blocked(queue[r])
      BY <3>2, <3>3 DEF WaitInv
    <3> QED BY <2>2, <2>f, <3>2, <3>4 DEF Blocked, Room, Required, Total
  <2>3. CASE w # r
    <3>1. step[w] \in {"refused", "waiting"} /\ w \notin notified \cup sleeping
      BY <2>3, <2>f, <2>n
    <3>2. ~Notifying
      <4>1. ~DropNotify(r)
        BY <3>1 DEF DropNotify, NotifyWaiters, Listening
      <4>2. step[r] \in {"unissued", "unreserved"} => step'[r] \in {"unissued", "unreserved"}
        BY <1>6, <4>1 DEF TaskStep, Begin, Enable, TryReserve, Wait, Wakeup, ReserveReturns,
             CancelReserve, TryDirect, DropIssued, DropReserved, ShapeOK
      <4> QED BY <1>6, <2>n, <4>2, TaskFrame DEF Notifying
    <3>3. Blocked(queue[w])
      BY <3>1, <3>2 DEF WaitInv
    <3>4. PICK p \in Queues : p = queue[w] /\ p = queue'[w]
      BY <2>3, <2>q, <2>f
    <3>5. Blocked(p)
      BY <3>3, <3>4
    <3>6. CASE issued' = issued
      BY <2>f, <3>4, <3>5, <3>6 DEF Blocked, Room, Required, Total
    <3>7. ASSUME NEW q \in Queues, Room(q), issued' = [issued EXCEPT ![q] = @ + 1]
          PROVE  Blocked(queue[w])'
      <4>1. Blocked(p)'
        BY <2>f, <3>5, <3>7, IssuedNat, GrantBlocks
      <4> QED BY <3>4, <4>1 DEF Blocked, Room, Required, Total
    <3>8. step'[r] # "unissued"
      BY DEF Notifying
    <3> QED BY <1>6, <3>6, <3>7, <3>8, TaskIssued
  <2> QED BY <2>1, <2>2, <2>3
<1>7. CASE UNCHANGED vars
  BY <1>0, <1>7 DEF vars
<1> QED BY <1>1, <1>2, <1>3, <1>4, <1>5, <1>6, <1>7, NextCases

-----------------------------------------------------------------------------
(***************************************************************************)
(* The theorems.                                                           *)
(***************************************************************************)
LEMMA SlotInductive == Spec => []SlotInv
<1>1. Init => SlotInv
  BY ShapeInit, SetupInit, CountInit, RoomInit, WaitInit DEF SlotInv
<1>2. SlotInv /\ [Next]_vars => SlotInv'
  BY ShapeKept, SetupKept, CountKept, RoomKept, WaitKept DEF SlotInv
<1> QED BY <1>1, <1>2, PTL DEF Spec

\* For every config encode() accepts, of any integer width: worker_config does not
\* refuse the message, and Core gets what the JVM's config says.
THEOREM AcceptedConfigsAreBuilt == Spec => []AcceptedIsBuilt
<1>1. SlotInv => AcceptedIsBuilt
  BY DEF SlotInv
<1> QED BY <1>1, SlotInductive, PTL

\* jvm_slots.rs counts exactly, and never issues more permits than the maximum, for
\* any number of reservations, cancelled and dropped at any time.
THEOREM PermitCountsAreExact == Spec => []PermitsExact
<1>1. SlotInv => PermitsExact
  <2> SUFFICES ASSUME SlotInv PROVE PermitsExact
    OBVIOUS
  <2>1. ShapeOK /\ SetupInv /\ CountInv /\ RoomInv
    BY DEF SlotInv
  <2>2. ASSUME NEW S \in SUBSET Reservations
        PROVE  Cardinality(S) \in 0..Cardinality(Reservations)
    <3>1. /\ Cardinality(S) <= Cardinality(Reservations)
          /\ Cardinality(S) \in Nat /\ Cardinality(Reservations) \in Nat
      BY ReservationsAssumption, FS_Subset, FS_CardinalityType
    <3> QED BY <3>1
  <2>3. /\ reserved \in 0..Cardinality(Reservations)
        /\ pending \in 0..Cardinality(Reservations)
        /\ \A q \in Queues : issued[q] \in 0..Cardinality(Reservations)
    <3>1. Held \subseteq Reservations /\ Counted \subseteq Reservations
          /\ \A q \in Queues : Permits(q) \subseteq Reservations
      BY DEF Held, Counted, Permits
    <3> QED BY <2>1, <2>2, <3>1 DEF CountInv
  <2>4. issued \in [Queues -> 0..Cardinality(Reservations)]
    BY <2>1, <2>3 DEF ShapeOK
  <2>5. setup.stage \in {"none", "built", "refused"} /\ (Running \/ supplier = NoSupplier)
    BY <2>1 DEF SetupInv, NoSetup, SupplierOK, Running
  <2>6. TypeOK
    BY <2>1, <2>3, <2>4, <2>5 DEF ShapeOK, TypeOK
  <2>7. /\ reserved = Cardinality({ r \in Reservations : step[r] \in {"granted", "holding", "unissued"} })
        /\ pending = Cardinality({ r \in Reservations : Reserving(r) \/ step[r] = "granted" })
    BY <2>1 DEF CountInv, Held, Counted
  <2> QED BY <2>1, <2>6, <2>7 DEF PermitsExact, CountInv, RoomInv
<1> QED BY <1>1, SlotInductive, PTL

\* A workflow queue without a permit is always entitled to one, whatever options the
\* worker was built from: sticky polling cannot starve new work.
THEOREM EachQueueKeepsAPermit == Spec => []QueueKeepsPermit
<1>1. SlotInv => QueueKeepsPermit
  <2> SUFFICES ASSUME SlotInv, Running, supplier.sticky, NEW q \in Queues, issued[q] = 0
               PROVE  Entitled(q)
    BY DEF QueueKeepsPermit
  <2>1. issued[0] \in Nat /\ issued[1] \in Nat /\ q \in {0, 1}
    BY IssuedNat DEF SlotInv, Queues
  <2>2. SupplierOK(supplier)
    BY DEF SlotInv, SetupInv, Running, NoSupplier
  <2>3. Total < supplier.maximum /\ supplier.maximum \in Nat /\ supplier.maximum >= 2
    BY <2>2 DEF SlotInv, RoomInv, SupplierOK
  <2>4. issued[1 - q] = 0 => Total = 0
    BY <2>1 DEF Total
  <2> QED BY <2>3, <2>4 DEF Entitled, Room, Required
<1> QED BY <1>1, SlotInductive, PTL

\* A release or an update is not missed by a reservation between its refusal and its
\* wait, for any number of them.
THEOREM NoChangeIsMissed == Spec => []NoMissedChange
<1>1. SlotInv => NoMissedChange
  <2>1. \A q : Blocked(q) => ~Grants(q)
    BY DEF Blocked, Grants, Entitled
  <2> QED BY <2>1 DEF SlotInv, WaitInv, Notifying, NoMissedChange
<1> QED BY <1>1, SlotInductive, PTL
=============================================================================
