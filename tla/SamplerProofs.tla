--------------------------- MODULE SamplerProofs ---------------------------
(***************************************************************************)
(* Proofs about Sampler and Telemetry for any number of workers and of threads *)
(* that close the runtime, any size of the two buffers and any instruments:    *)
(* no freed handle is sampled, a close that has returned leaves nothing        *)
(* running, and every recorded update is accounted for, in order.             *)
(***************************************************************************)
EXTENDS Sampler, SequenceTheorems, TLAPS

Update == [n : Nat, id : Nat]

\* The types of the telemetry on both sides.
BufferTypes ==
  /\ definitions \in Seq(Instruments)
  /\ updates \in Seq(Update) /\ replaying \in Seq(Update) /\ retained.updates \in Seq(Update)
  /\ dropped \in Nat /\ retained.dropped \in Nat /\ recorded \in Nat
  /\ replayed \in Nat /\ lost \in Nat /\ reported \in Nat /\ latest \in Nat /\ mark \in Nat
  /\ cap \in Nat

\* sampleLock is held through a sample and through the part of a close that changes
\* anything, also by a hook that closes, and the runtime's monitor while the workers
\* are updated.
OwnerInv ==
  /\ \A t \in CloseThreads : closing[t] \in {"locked", "draining", "freed"} => sampleLock = t
  /\ sampler # "idle" => sampleLock = SamplerThread
  /\ closing[SamplerThread] \in {"entering", "locked", "draining", "freed"} => sampler = "hook"
  /\ lock = SamplerThread <=> sampler = "updating"
  /\ drain # "none" => sampler = "draining" \/ \E t \in CloseThreads : closing[t] = "draining"

\* What has happened before a close is where it is.
PhaseInv ==
  /\ \A t \in CloseThreads :
       /\ closing[t] = "locked" => ~closed
       /\ closing[t] \in {"draining", "freed", "returned"} => closed
  /\ closed => registered = {}
  /\ ~native => closed
  /\ drain # "none" => native

\* A worker that a hook, or its own thread, observes or closes is open.
Open == { w \in Workers : creating[w] = "open" }
OpenInv ==
  /\ hooked \cup deliveries \subseteq Open
  /\ sampler = "hook" => current \in Open
  /\ closeWorker[SamplerThread] # "out" => sampler = "hook"
  /\ \A w \in Workers : closeWorker[w] # "out" => w \in Open

\* Registered workers have handles, and those whose handle is about to be freed are
\* not registered.
HandleInv ==
  /\ registered \subseteq handles
  /\ todo \subseteq registered /\ (sampler # "updating" => todo = {})
  /\ \A w \in Workers :
       /\ w \in registered => creating[w] \in {"registered", "open", "failing"}
       /\ creating[w] = "created" /\ native => w \in handles
  /\ \A t \in WorkerThreads : closeWorker[t] = "removed" => Target(t) \notin registered

\* Updates are numbered upwards.
Ascending(s) == \A i, j \in 1..Len(s) : i < j => s[i].n < s[j].n
Before(s, t) == \A i \in 1..Len(s), j \in 1..Len(t) : s[i].n < t[j].n
After(m, s) == \A i \in 1..Len(s) : m < s[i].n
UpTo(s, m) == \A i \in 1..Len(s) : s[i].n <= m
Ids(s, S) == \A i \in 1..Len(s) : s[i].id \in S

\* A batch is retained only between the probe and the copy; it and the one that is
\* replayed name their instruments; and there is nothing to replay otherwise.
BatchInv ==
  /\ IF retained.some
     THEN drain = "retrieve" /\ cap = Len(retained.updates) /\ Ids(retained.updates, retained.known)
     ELSE retained = NoBatch
  /\ drain \in {"none", "retrieve"} => replaying = <<>>
  /\ drain = "define" => Ids(replaying, needed)
  /\ drain = "replay" => Ids(replaying, instruments)

CountInv ==
  recorded = replayed + lost + reported + Len(replaying) + Len(retained.updates) + Len(updates)
               + retained.dropped + dropped

OrderInv ==
  /\ Ascending(replaying) /\ Ascending(retained.updates) /\ Ascending(updates)
  /\ Before(replaying, updates) /\ Before(retained.updates, updates)
  /\ After(latest, replaying) /\ After(latest, retained.updates) /\ After(latest, updates)
  /\ UpTo(replaying, recorded) /\ UpTo(retained.updates, recorded) /\ UpTo(updates, recorded)
  /\ latest <= recorded /\ mark <= recorded

\* The batch of the close that closed the runtime held what was recorded before.
MarkInv == closed /\ (drain # "retrieve" \/ retained.some) => After(mark, updates)

SamplerInv ==
  /\ TypeOK /\ OwnerInv /\ PhaseInv /\ OpenInv /\ HandleInv /\ QuietAfterClose
  /\ BufferTypes /\ BatchInv /\ CountInv /\ OrderInv /\ MarkInv

-----------------------------------------------------------------------------
(***************************************************************************)
(* The steps.                                                              *)
(***************************************************************************)
controlVars == <<runtimeVars, lockVars, samplerVars, closing, workerVars>>

LEMMA Steps ==
  ASSUME [Next]_vars
  PROVE  \/ CoreStep \/ RetrieveAgain \/ Retrieve \/ CreateInstruments \/ ReplayOne \/ ReplayEnd
         \/ SampleBegin \/ SampleWorkersBegin
         \/ \E w \in Workers : SampleWorker(w)
         \/ SampleWorkersEnd
         \/ \E w \in Workers : Deliver(w)
         \/ HookEnds \/ SampleDrain \/ SampleEnd
         \/ \E t \in CloseThreads : CloseCall(t)
         \/ \E t \in CloseThreads : CloseLock(t)
         \/ \E t \in CloseThreads : CloseFlag(t)
         \/ \E t \in CloseThreads : CloseFree(t)
         \/ \E t \in CloseThreads : CloseEnd(t)
         \/ \E w \in Workers : CreateCheck(w)
         \/ \E w \in Workers : CreateHandle(w)
         \/ \E w \in Workers : Register(w)
         \/ \E w \in Workers : Start(w)
         \/ \E w \in Workers : CreateUndo(w)
         \/ \E w \in Workers : CreateFails(w)
         \/ \E w \in Workers : Observe(w)
         \/ \E t \in WorkerThreads : WorkerCloseCall(t)
         \/ \E t \in WorkerThreads : WorkerCloseLock(t)
         \/ \E t \in WorkerThreads : WorkerCloseRemove(t)
         \/ \E t \in WorkerThreads : WorkerCloseFree(t)
         \/ UNCHANGED vars
BY Zenon DEF Next, DrainStep, SampleStep, CloseStep, CreateStep, WorkerCloseStep

\* Steps that leave the runtime, its workers and its threads alone: Core records, or
\* a drain that is under way goes on.
LEMMA DrainMoves ==
  ASSUME CoreStep \/ RetrieveAgain \/ Retrieve \/ CreateInstruments \/ ReplayOne \/ ReplayEnd
         \/ UNCHANGED vars
  PROVE  /\ UNCHANGED controlVars
         /\ drain' = drain \/ (drain # "none" /\ drain' \in {"none", "define", "replay"})
<1>1. CASE CoreStep
  BY <1>1 DEF CoreStep, controlVars, replayVars
<1>2. CASE RetrieveAgain \/ Retrieve
  BY <1>2 DEF RetrieveAgain, Retrieve, controlVars
<1>3. CASE CreateInstruments
  BY <1>3 DEF CreateInstruments, GiveUp, controlVars
<1>4. CASE ReplayOne \/ ReplayEnd
  BY <1>4 DEF ReplayOne, ReplayEnd, GiveUp, controlVars
<1>5. CASE UNCHANGED vars
  BY <1>5 DEF vars, controlVars, replayVars
<1> QED BY <1>1, <1>2, <1>3, <1>4, <1>5

LEMMA Threads ==
  /\ SamplerThread \in CloseThreads /\ SamplerThread \in WorkerThreads
  /\ NoThread \notin CloseThreads /\ NoThread \notin WorkerThreads /\ NoThread \notin Workers
  /\ Workers \subseteq WorkerThreads /\ Closers \subseteq CloseThreads
  /\ SamplerThread \notin Workers /\ SamplerThread \notin Closers
  /\ \A t \in CloseThreads : t # SamplerThread => t \in Closers
  /\ \A t \in WorkerThreads : t # SamplerThread => t \in Workers
BY ThreadsAssumption DEF CloseThreads, WorkerThreads

-----------------------------------------------------------------------------
(***************************************************************************)
(* Types.                                                                  *)
(***************************************************************************)
LEMMA FlagTypes ==
  ASSUME closed \in BOOLEAN, native \in BOOLEAN, [Next]_vars
  PROVE  closed' \in BOOLEAN /\ native' \in BOOLEAN
<1>0. ASSUME UNCHANGED <<closed, native>> PROVE closed' \in BOOLEAN /\ native' \in BOOLEAN
  BY <1>0, Zenon
<1>1. CASE CoreStep \/ RetrieveAgain \/ Retrieve \/ CreateInstruments \/ ReplayOne \/ ReplayEnd
           \/ UNCHANGED vars
  <2>1. UNCHANGED controlVars
    BY <1>1, DrainMoves
  <2> QED BY <2>1, <1>0 DEF controlVars, runtimeVars
<1>2. CASE \/ SampleBegin \/ SampleWorkersBegin \/ SampleWorkersEnd \/ HookEnds \/ SampleDrain
           \/ SampleEnd
           \/ \E w \in Workers : SampleWorker(w)
           \/ \E w \in Workers : Deliver(w)
  BY <1>2, <1>0 DEF SampleBegin, SampleWorkersBegin, SampleWorkersEnd, HookEnds, SampleDrain,
                    SampleEnd, SampleWorker, Deliver, runtimeVars
<1>3. CASE \E t \in CloseThreads : CloseCall(t) \/ CloseLock(t) \/ CloseEnd(t)
  BY <1>3, <1>0 DEF CloseCall, CloseLock, CloseEnd, runtimeVars
<1>4. CASE \E t \in CloseThreads : CloseFlag(t)
  BY <1>4, Zenon DEF CloseFlag
<1>5. CASE \E t \in CloseThreads : CloseFree(t)
  BY <1>5, Zenon DEF CloseFree
<1>6. CASE \/ \E w \in Workers : CreateCheck(w)
           \/ \E w \in Workers : CreateHandle(w)
           \/ \E w \in Workers : Register(w)
           \/ \E w \in Workers : Start(w)
           \/ \E w \in Workers : CreateUndo(w)
           \/ \E w \in Workers : CreateFails(w)
           \/ \E w \in Workers : Observe(w)
  BY <1>6, <1>0 DEF CreateCheck, CreateHandle, Register, Start, CreateUndo, CreateFails, Observe,
                    RemoveResourceWorker, runtimeVars
<1>7. CASE \/ \E t \in WorkerThreads : WorkerCloseCall(t)
           \/ \E t \in WorkerThreads : WorkerCloseLock(t)
           \/ \E t \in WorkerThreads : WorkerCloseRemove(t)
           \/ \E t \in WorkerThreads : WorkerCloseFree(t)
  BY <1>7, <1>0 DEF WorkerCloseCall, WorkerCloseLock, WorkerCloseRemove, WorkerCloseFree,
                    RemoveResourceWorker, runtimeVars
<1> QED BY Steps, <1>1, <1>2, <1>3, <1>4, <1>5, <1>6, <1>7, Zenon

\* The thread that closes a worker has one to close.
LEMMA TargetOpen ==
  ASSUME TypeOK, OpenInv, NEW t \in WorkerThreads, closeWorker[t] # "out"
  PROVE  Target(t) \in Workers /\ creating[Target(t)] = "open"
BY Threads DEF OpenInv, Open, Target

StateTypes ==
  /\ sampleLock \in CloseThreads \cup {NoThread}
  /\ lock \in {NoThread, SamplerThread}
  /\ hooked \subseteq registered /\ registered \subseteq Workers
  /\ sampler \in {"idle", "locking", "updating", "delivering", "hook", "draining"}
  /\ todo \subseteq Workers /\ deliveries \subseteq Workers
  /\ current \in Workers \cup {NoThread}
  /\ closing \in [CloseThreads ->
       {"out", "skipped", "entering", "locked", "draining", "freed", "returned"}]
  /\ drain \in {"none", "retrieve", "define", "replay"}

WorkerTypes ==
  /\ creating \in [Workers ->
       {"none", "checked", "created", "registered", "open", "failing", "undone", "failed"}]
  /\ handles \subseteq Workers /\ workerClosed \subseteq Workers
  /\ monitor \in [Workers -> WorkerThreads \cup {NoThread}]
  /\ closeWorker \in [WorkerThreads -> {"out", "entering", "owning", "removed"}]

LEMMA TypeParts ==
  TypeOK <=> closed \in BOOLEAN /\ native \in BOOLEAN /\ StateTypes /\ WorkerTypes
BY Zenon DEF TypeOK, StateTypes, WorkerTypes

LEMMA TypeStep ==
  ASSUME TypeOK, OpenInv, [Next]_vars
  PROVE  TypeOK'
<1> USE Threads
<1>s. StateTypes /\ WorkerTypes
  BY TypeParts
<1>w. ASSUME UNCHANGED workerVars PROVE WorkerTypes'
  BY <1>s, <1>w DEF WorkerTypes, workerVars
<1>r. ASSUME UNCHANGED <<sampleLock, lock, hooked, registered, sampler, todo, deliveries, current,
                         closing, drain>>
      PROVE  StateTypes'
  BY <1>s, <1>r DEF StateTypes
<1> DEFINE Good == StateTypes' /\ WorkerTypes'
<1>1. ASSUME CoreStep \/ RetrieveAgain \/ Retrieve \/ CreateInstruments \/ ReplayOne \/ ReplayEnd
             \/ UNCHANGED vars
      PROVE  Good
  <2>1. /\ UNCHANGED controlVars
        /\ drain' = drain \/ (drain # "none" /\ drain' \in {"none", "define", "replay"})
    BY <1>1, DrainMoves
  <2> QED BY <2>1, <1>s, <1>w DEF StateTypes, controlVars, runtimeVars, lockVars, samplerVars
<1>2. ASSUME SampleBegin \/ SampleWorkersBegin \/ SampleWorkersEnd PROVE Good
  BY <1>2, <1>s, <1>w DEF SampleBegin, SampleWorkersBegin, SampleWorkersEnd, StateTypes,
                          runtimeVars, replayVars
<1>3. ASSUME NEW w \in Workers, SampleWorker(w) \/ Deliver(w) PROVE Good
  BY <1>3, <1>s, <1>w DEF SampleWorker, Deliver, StateTypes, runtimeVars, lockVars, replayVars
<1>4. ASSUME HookEnds \/ SampleDrain \/ SampleEnd PROVE Good
  BY <1>4, <1>s, <1>w DEF HookEnds, SampleDrain, SampleEnd, DrainBegin, StateTypes,
                          runtimeVars, lockVars, replayVars
<1>5. ASSUME NEW t \in CloseThreads, CloseCall(t) \/ CloseLock(t) \/ CloseFlag(t) \/ CloseEnd(t)
      PROVE  Good
  BY <1>5, <1>s, <1>w DEF CloseCall, CloseLock, CloseFlag, CloseEnd, DrainBegin, StateTypes,
                          runtimeVars, lockVars, samplerVars, replayVars
<1>6. ASSUME NEW t \in CloseThreads, CloseFree(t) PROVE Good
  <2>1. StateTypes'
    BY <1>6, <1>s DEF CloseFree, StateTypes, lockVars, samplerVars, replayVars
  <2>2. WorkerTypes'
    BY <1>6, <1>s DEF CloseFree, WorkerTypes
  <2> QED BY <2>1, <2>2
<1>7. ASSUME NEW w \in Workers,
             CreateCheck(w) \/ CreateHandle(w) \/ Register(w) \/ Start(w) \/ CreateUndo(w)
               \/ CreateFails(w) \/ Observe(w)
      PROVE  Good
  <2>1. StateTypes'
    BY <1>7, <1>s DEF CreateCheck, CreateHandle, Register, Start, CreateUndo, CreateFails, Observe,
                      RemoveResourceWorker, StateTypes, runtimeVars, lockVars, samplerVars, replayVars
  <2>2. WorkerTypes'
    BY <1>7, <1>s DEF CreateCheck, CreateHandle, Register, Start, CreateUndo, CreateFails, Observe,
                      WorkerTypes, workerVars
  <2> QED BY <2>1, <2>2
<1>8. ASSUME NEW t \in WorkerThreads,
             WorkerCloseCall(t) \/ WorkerCloseLock(t) \/ WorkerCloseRemove(t) \/ WorkerCloseFree(t)
      PROVE  Good
  <2>1. StateTypes'
    BY <1>8, <1>s DEF WorkerCloseCall, WorkerCloseLock, WorkerCloseRemove, WorkerCloseFree,
                      RemoveResourceWorker, StateTypes, runtimeVars, lockVars, samplerVars, replayVars
  <2>2. WorkerCloseLock(t) => Target(t) \in Workers
    BY TargetOpen DEF WorkerCloseLock
  <2>3. WorkerTypes'
    BY <1>8, <1>s, <2>2 DEF WorkerCloseCall, WorkerCloseLock, WorkerCloseRemove, WorkerCloseFree,
                      WorkerTypes
  <2> QED BY <2>1, <2>3
<1>9. Good
  BY Steps, <1>1, <1>2, <1>3, <1>4, <1>5, <1>6, <1>7, <1>8
<1>10. closed' \in BOOLEAN /\ native' \in BOOLEAN
  BY FlagTypes, Zenon DEF TypeOK
<1> QED BY <1>9, <1>10, Zenon DEF TypeOK, StateTypes, WorkerTypes

-----------------------------------------------------------------------------
(***************************************************************************)
(* Who holds the locks, and in which phase the runtime is.                   *)
(***************************************************************************)
LEMMA OwnerStep ==
  ASSUME TypeOK, OwnerInv, [Next]_vars
  PROVE  OwnerInv'
<1> USE Threads
<1>0. ASSUME UNCHANGED <<closing, sampleLock, sampler, lock, drain>> PROVE OwnerInv'
  BY <1>0 DEF OwnerInv
<1>1. ASSUME CoreStep \/ RetrieveAgain \/ Retrieve \/ CreateInstruments \/ ReplayOne \/ ReplayEnd
             \/ UNCHANGED vars
      PROVE  OwnerInv'
  <2>1. /\ UNCHANGED controlVars
        /\ drain' = drain \/ (drain # "none" /\ drain' \in {"none", "define", "replay"})
    BY <1>1, DrainMoves
  <2> QED BY <2>1 DEF OwnerInv, controlVars, lockVars, samplerVars
<1>2. ASSUME SampleBegin \/ SampleWorkersBegin \/ SampleWorkersEnd PROVE OwnerInv'
  BY <1>2 DEF SampleBegin, SampleWorkersBegin, SampleWorkersEnd, OwnerInv, TypeOK, replayVars
<1>3. ASSUME NEW w \in Workers, SampleWorker(w) \/ Deliver(w) PROVE OwnerInv'
  BY <1>3 DEF SampleWorker, Deliver, OwnerInv, lockVars, replayVars
<1>4. ASSUME HookEnds \/ SampleEnd PROVE OwnerInv'
  BY <1>4 DEF HookEnds, InHook, SampleEnd, OwnerInv, TypeOK, lockVars, replayVars
<1>5. ASSUME SampleDrain PROVE OwnerInv'
  BY <1>5 DEF SampleDrain, DrainBegin, OwnerInv, TypeOK, lockVars
<1>6. ASSUME NEW t \in CloseThreads, CloseCall(t) PROVE OwnerInv'
  BY <1>6 DEF CloseCall, InHook, OwnerInv, TypeOK, lockVars, samplerVars, replayVars
<1>7. ASSUME NEW t \in CloseThreads, CloseLock(t) PROVE OwnerInv'
  BY <1>7 DEF CloseLock, OwnerInv, TypeOK, samplerVars, replayVars
<1>8. ASSUME NEW t \in CloseThreads, CloseFlag(t) PROVE OwnerInv'
  BY <1>8 DEF CloseFlag, DrainBegin, OwnerInv, TypeOK, lockVars, samplerVars
<1>9. ASSUME NEW t \in CloseThreads, CloseFree(t) PROVE OwnerInv'
  BY <1>9 DEF CloseFree, OwnerInv, TypeOK, lockVars, samplerVars, replayVars
<1>10. ASSUME NEW t \in CloseThreads, CloseEnd(t) PROVE OwnerInv'
  BY <1>10 DEF CloseEnd, OwnerInv, TypeOK, samplerVars, replayVars
<1>11. CASE \/ \E w \in Workers : CreateCheck(w)
            \/ \E w \in Workers : CreateHandle(w)
            \/ \E w \in Workers : Register(w)
            \/ \E w \in Workers : Start(w)
            \/ \E w \in Workers : CreateUndo(w)
            \/ \E w \in Workers : CreateFails(w)
            \/ \E w \in Workers : Observe(w)
  BY <1>11, <1>0 DEF CreateCheck, CreateHandle, Register, Start, CreateUndo, CreateFails, Observe,
                     lockVars, samplerVars, replayVars
<1>12. CASE \/ \E t \in WorkerThreads : WorkerCloseCall(t)
            \/ \E t \in WorkerThreads : WorkerCloseLock(t)
            \/ \E t \in WorkerThreads : WorkerCloseRemove(t)
            \/ \E t \in WorkerThreads : WorkerCloseFree(t)
  BY <1>12, <1>0 DEF WorkerCloseCall, WorkerCloseLock, WorkerCloseRemove, WorkerCloseFree,
                     lockVars, samplerVars, replayVars
<1> QED
  BY Steps, <1>1, <1>2, <1>3, <1>4, <1>5, <1>6, <1>7, <1>8, <1>9, <1>10, <1>11, <1>12

\* A drain begins when there is none, on a runtime that is not closed.
LEMMA DrainBegins ==
  ASSUME TypeOK, OwnerInv, PhaseInv,
         SampleDrain \/ \E t \in CloseThreads : CloseFlag(t)
  PROVE  drain = "none" /\ ~closed /\ native
<1>1. CASE SampleDrain
  BY <1>1, Threads DEF SampleDrain, OwnerInv, PhaseInv
<1>2. CASE \E t \in CloseThreads : CloseFlag(t)
  BY <1>2, Threads DEF CloseFlag, OwnerInv, PhaseInv
<1> QED BY <1>1, <1>2

LEMMA PhaseStep ==
  ASSUME TypeOK, OwnerInv, PhaseInv, QuietAfterClose, [Next]_vars
  PROVE  PhaseInv' /\ QuietAfterClose'
<1> USE Threads
<1> DEFINE Good == PhaseInv' /\ QuietAfterClose'
<1>0. ASSUME UNCHANGED <<closing, closed, native, registered, drain, sampler>> PROVE Good
  BY <1>0 DEF PhaseInv, QuietAfterClose
<1>1. ASSUME CoreStep \/ RetrieveAgain \/ Retrieve \/ CreateInstruments \/ ReplayOne \/ ReplayEnd
             \/ UNCHANGED vars
      PROVE  Good
  <2>1. /\ UNCHANGED controlVars
        /\ drain' = drain \/ (drain # "none" /\ drain' \in {"none", "define", "replay"})
    BY <1>1, DrainMoves
  <2>2. UNCHANGED <<closing, closed, native, registered, sampler>>
    BY <2>1 DEF controlVars, runtimeVars, samplerVars
  <2> QED BY <2>1, <2>2 DEF PhaseInv, QuietAfterClose
<1>2. ASSUME SampleBegin \/ SampleWorkersBegin \/ SampleWorkersEnd \/ HookEnds \/ SampleEnd PROVE Good
  <2>1. UNCHANGED <<closing, closed, native, registered, drain>>
    BY <1>2 DEF SampleBegin, SampleWorkersBegin, SampleWorkersEnd, HookEnds, SampleEnd, runtimeVars,
                replayVars
  <2>2. sampler' = "idle" \/ sampler # "idle" \/ ~closed
    BY <1>2 DEF SampleBegin, SampleWorkersBegin, SampleWorkersEnd, HookEnds, InHook, SampleEnd
  <2> QED BY <2>1, <2>2 DEF PhaseInv, QuietAfterClose
<1>3. ASSUME NEW w \in Workers, SampleWorker(w) \/ Deliver(w) PROVE Good
  BY <1>3 DEF SampleWorker, Deliver, PhaseInv, QuietAfterClose, runtimeVars, replayVars
<1>5. ASSUME SampleDrain PROVE Good
  <2>1. drain = "none" /\ ~closed /\ native
    BY <1>5, DrainBegins
  <2> QED BY <1>5, <2>1 DEF SampleDrain, DrainBegin, PhaseInv, QuietAfterClose, runtimeVars
<1>6. ASSUME NEW t \in CloseThreads, CloseCall(t) PROVE Good
  BY <1>6 DEF CloseCall, PhaseInv, QuietAfterClose, TypeOK, runtimeVars, samplerVars, replayVars
<1>7. ASSUME NEW t \in CloseThreads, CloseLock(t) PROVE Good
  BY <1>7 DEF CloseLock, PhaseInv, QuietAfterClose, TypeOK, runtimeVars, samplerVars, replayVars
<1>8. ASSUME NEW t \in CloseThreads, CloseFlag(t) PROVE Good
  <2>1. drain = "none" /\ ~closed /\ native
    BY <1>8, DrainBegins
  <2>2. /\ closing' = [closing EXCEPT ![t] = "draining"] /\ closed' = TRUE /\ registered' = {}
        /\ drain' = "retrieve" /\ UNCHANGED <<native, sampler>> /\ sampleLock = t
    BY <1>8 DEF CloseFlag, DrainBegin, OwnerInv, samplerVars
  <2>3. \A q \in CloseThreads : q # t => closing[q] # "locked" /\ closing[q] # "returned"
    BY <2>1, <2>2 DEF OwnerInv, PhaseInv
  <2> QED BY <2>1, <2>2, <2>3 DEF PhaseInv, QuietAfterClose, TypeOK
<1>9. ASSUME NEW t \in CloseThreads, CloseFree(t) PROVE Good
  BY <1>9 DEF CloseFree, PhaseInv, QuietAfterClose, TypeOK, samplerVars, replayVars
<1>10. ASSUME NEW t \in CloseThreads, CloseEnd(t) PROVE Good
  <2>1. /\ closing[t] = "freed" /\ closing' = [closing EXCEPT ![t] = "returned"]
        /\ UNCHANGED <<closed, native, registered, drain, sampler>>
    BY <1>10 DEF CloseEnd, runtimeVars, samplerVars, replayVars
  <2>2. t \in Closers => sampler = "idle" /\ drain = "none"
    BY <2>1 DEF OwnerInv
  <2> QED BY <2>1, <2>2 DEF PhaseInv, QuietAfterClose, TypeOK
<1>11. ASSUME NEW w \in Workers, Register(w) PROVE Good
  <2>1. /\ UNCHANGED <<closing, closed, native, drain, sampler>>
        /\ closed => registered' = registered
    BY <1>11 DEF Register, samplerVars, replayVars
  <2> QED BY <2>1 DEF PhaseInv, QuietAfterClose
<1>12. ASSUME NEW w, RemoveResourceWorker(w), UNCHANGED <<closing, samplerVars, replayVars>> PROVE Good
  BY <1>12 DEF RemoveResourceWorker, PhaseInv, QuietAfterClose, samplerVars, replayVars
<1>13. ASSUME \/ \E w \in Workers : CreateCheck(w)
              \/ \E w \in Workers : CreateHandle(w)
              \/ \E w \in Workers : Start(w)
              \/ \E w \in Workers : CreateFails(w)
              \/ \E w \in Workers : Observe(w)
              \/ \E t \in WorkerThreads : WorkerCloseCall(t)
              \/ \E t \in WorkerThreads : WorkerCloseLock(t)
              \/ \E t \in WorkerThreads : WorkerCloseFree(t)
       PROVE  Good
  BY <1>13, <1>0 DEF CreateCheck, CreateHandle, Start, CreateFails, Observe, WorkerCloseCall,
                     WorkerCloseLock, WorkerCloseFree, runtimeVars, samplerVars, replayVars
<1>14. ASSUME \/ \E w \in Workers : CreateUndo(w)
              \/ \E t \in WorkerThreads : WorkerCloseRemove(t)
       PROVE  Good
  BY <1>14, <1>12, Zenon DEF CreateUndo, WorkerCloseRemove
<1> QED
  BY Steps, <1>1, <1>2, <1>3, <1>5, <1>6, <1>7, <1>8, <1>9, <1>10, <1>11, <1>13, <1>14

-----------------------------------------------------------------------------
(***************************************************************************)
(* Workers and their handles.                                              *)
(***************************************************************************)
LEMMA OpenStep ==
  ASSUME TypeOK, OwnerInv, OpenInv, [Next]_vars
  PROVE  OpenInv'
<1> USE Threads DEF Open
<1>0. ASSUME hooked' \subseteq hooked, deliveries' \subseteq deliveries \cup hooked,
             sampler' = "hook" => sampler = "hook" /\ current' = current,
             closeWorker' = closeWorker, creating' = creating,
             sampler = "hook" => sampler' = "hook"
      PROVE  OpenInv'
  BY <1>0 DEF OpenInv
<1>1. ASSUME CoreStep \/ RetrieveAgain \/ Retrieve \/ CreateInstruments \/ ReplayOne \/ ReplayEnd
             \/ UNCHANGED vars
      PROVE  OpenInv'
  <2>1. UNCHANGED controlVars
    BY <1>1, DrainMoves
  <2> QED BY <2>1, <1>0 DEF controlVars, runtimeVars, samplerVars, workerVars
<1>2. ASSUME SampleBegin \/ SampleWorkersBegin \/ SampleWorkersEnd \/ SampleDrain \/ SampleEnd
      PROVE  OpenInv'
  BY <1>2, <1>0 DEF SampleBegin, SampleWorkersBegin, SampleWorkersEnd, SampleDrain, SampleEnd,
                    runtimeVars, workerVars
<1>3. ASSUME NEW w \in Workers, SampleWorker(w) PROVE OpenInv'
  BY <1>3, <1>0 DEF SampleWorker, runtimeVars, workerVars
<1>4. ASSUME NEW w \in Workers, Deliver(w) PROVE OpenInv'
  BY <1>4 DEF Deliver, OpenInv, runtimeVars, workerVars
<1>5. ASSUME HookEnds PROVE OpenInv'
  BY <1>5 DEF HookEnds, InHook, OpenInv, runtimeVars, workerVars
<1>6. ASSUME NEW t \in CloseThreads,
             CloseCall(t) \/ CloseLock(t) \/ CloseFlag(t) \/ CloseFree(t) \/ CloseEnd(t)
      PROVE  OpenInv'
  BY <1>6, <1>0 DEF CloseCall, CloseLock, CloseFlag, CloseFree, CloseEnd, runtimeVars, samplerVars,
                    workerVars
<1>7. ASSUME NEW w \in Workers,
             CreateCheck(w) \/ CreateHandle(w) \/ Register(w) \/ Start(w) \/ CreateUndo(w)
               \/ CreateFails(w)
      PROVE  OpenInv'
  <2>1. /\ UNCHANGED <<sampler, deliveries, current, closeWorker>> /\ hooked' \subseteq hooked
        /\ creating[w] # "open" /\ \E c : creating' = [creating EXCEPT ![w] = c]
    BY <1>7 DEF CreateCheck, CreateHandle, Register, Start, CreateUndo, CreateFails,
                RemoveResourceWorker, runtimeVars, samplerVars
  <2>2. \A v \in Workers : creating[v] = "open" => creating'[v] = "open"
    BY <2>1 DEF TypeOK
  <2> QED BY <2>1, <2>2 DEF OpenInv
<1>8. ASSUME NEW w \in Workers, Observe(w) PROVE OpenInv'
  BY <1>8 DEF Observe, OpenInv, samplerVars, workerVars
<1>9. ASSUME NEW t \in WorkerThreads, WorkerCloseCall(t) PROVE OpenInv'
  BY <1>9 DEF WorkerCloseCall, InHook, OpenInv, TypeOK, runtimeVars, samplerVars
<1>10. ASSUME NEW t \in WorkerThreads, WorkerCloseLock(t) \/ WorkerCloseRemove(t) \/ WorkerCloseFree(t)
       PROVE  OpenInv'
  <2>1. /\ UNCHANGED <<sampler, deliveries, current, creating>> /\ hooked' \subseteq hooked
        /\ closeWorker[t] # "out" /\ \E c : closeWorker' = [closeWorker EXCEPT ![t] = c]
    BY <1>10 DEF WorkerCloseLock, WorkerCloseRemove, WorkerCloseFree, RemoveResourceWorker,
                 runtimeVars, samplerVars
  <2>2. \A q \in WorkerThreads : closeWorker'[q] # "out" => closeWorker[q] # "out"
    BY <2>1 DEF TypeOK
  <2> QED BY <2>1, <2>2 DEF OpenInv
<1> QED BY Steps, <1>1, <1>2, <1>3, <1>4, <1>5, <1>6, <1>7, <1>8, <1>9, <1>10

LEMMA HandleStep ==
  ASSUME TypeOK, OwnerInv, PhaseInv, OpenInv, HandleInv, [Next]_vars
  PROVE  HandleInv'
<1> USE Threads
<1>0. ASSUME UNCHANGED <<registered, handles, creating, native, closeWorker>>,
             current' = current \/ closeWorker[SamplerThread] = "out",
             todo' \subseteq registered, sampler' # "updating" => todo' = {}
      PROVE  HandleInv'
  BY <1>0 DEF HandleInv, Target
<1>1. ASSUME CoreStep \/ RetrieveAgain \/ Retrieve \/ CreateInstruments \/ ReplayOne \/ ReplayEnd
             \/ UNCHANGED vars
      PROVE  HandleInv'
  <2>1. UNCHANGED controlVars
    BY <1>1, DrainMoves
  <2> QED BY <2>1, <1>0 DEF HandleInv, controlVars, runtimeVars, samplerVars, workerVars
<1>2. ASSUME SampleBegin \/ SampleWorkersBegin \/ SampleWorkersEnd \/ SampleDrain \/ SampleEnd
             \/ HookEnds
      PROVE  HandleInv'
  <2>1. UNCHANGED <<registered, handles, creating, native, closeWorker>>
    BY <1>2 DEF SampleBegin, SampleWorkersBegin, SampleWorkersEnd, SampleDrain, SampleEnd, HookEnds,
                runtimeVars, workerVars
  <2>2. /\ current' = current \/ closeWorker[SamplerThread] = "out"
        /\ todo' \subseteq registered /\ (sampler' # "updating" => todo' = {})
    BY <1>2 DEF SampleBegin, SampleWorkersBegin, SampleWorkersEnd, SampleDrain, SampleEnd, HookEnds,
                InHook, HandleInv
  <2> QED BY <2>1, <2>2, <1>0
<1>3. ASSUME NEW w \in Workers, SampleWorker(w) \/ Deliver(w) PROVE HandleInv'
  <2>1. UNCHANGED <<registered, handles, creating, native, closeWorker>>
    BY <1>3 DEF SampleWorker, Deliver, runtimeVars, workerVars
  <2>2. /\ current' = current \/ closeWorker[SamplerThread] = "out"
        /\ todo' \subseteq registered /\ (sampler' # "updating" => todo' = {})
    BY <1>3 DEF SampleWorker, Deliver, HandleInv, OpenInv, TypeOK
  <2> QED BY <2>1, <2>2, <1>0
<1>4. ASSUME NEW t \in CloseThreads, CloseCall(t) \/ CloseLock(t) \/ CloseEnd(t) PROVE HandleInv'
  BY <1>4, <1>0 DEF CloseCall, CloseLock, CloseEnd, HandleInv, runtimeVars, samplerVars, workerVars
<1>5. ASSUME NEW t \in CloseThreads, CloseFlag(t) PROVE HandleInv'
  <2>1. todo = {}
    BY <1>5 DEF CloseFlag, OwnerInv, HandleInv
  <2> QED BY <1>5, <2>1 DEF CloseFlag, HandleInv, Target, samplerVars, workerVars
<1>6. ASSUME NEW t \in CloseThreads, CloseFree(t) PROVE HandleInv'
  <2>1. registered = {}
    BY <1>6 DEF CloseFree, PhaseInv
  <2> QED BY <1>6, <2>1 DEF CloseFree, HandleInv, Target, samplerVars
\* A worker's creation goes on.
<1>7. ASSUME NEW w \in Workers, CreateCheck(w) \/ Start(w) \/ CreateHandle(w) PROVE HandleInv'
  <2>1. /\ UNCHANGED <<registered, native, closeWorker, current, todo, sampler>>
        /\ handles \subseteq handles'
        /\ \E c : /\ creating' = [creating EXCEPT ![w] = c]
                  /\ creating[w] = "registered" => c \in {"open", "failing"}
                  /\ creating[w] \in {"none", "checked", "registered"}
                  /\ c = "created" => w \in handles'
    BY <1>7 DEF CreateCheck, Start, CreateHandle, runtimeVars, samplerVars
  <2> QED BY <2>1 DEF HandleInv, Target, TypeOK
<1>8. ASSUME NEW w \in Workers, Register(w) PROVE HandleInv'
  <2>1. todo = {} /\ creating[w] = "created"
    BY <1>8 DEF Register, OwnerInv, HandleInv
  <2>2. UNCHANGED <<native, handles, closeWorker, current, todo, sampler>>
    BY <1>8 DEF Register, samplerVars
  <2>3. ASSUME NEW t \in WorkerThreads, closeWorker[t] = "removed" PROVE Target(t) # w
    BY <2>1, <2>3, TargetOpen
  <2>4. CASE /\ ~closed /\ creating' = [creating EXCEPT ![w] = "registered"]
             /\ registered' = registered \cup {w}
    <3>1. native /\ w \in handles
      BY <2>1, <2>4 DEF PhaseInv, HandleInv
    <3> QED BY <2>1, <2>2, <2>3, <2>4, <3>1 DEF HandleInv, Target, TypeOK
  <2>5. CASE creating' = [creating EXCEPT ![w] = "failing"] /\ registered' = registered
    BY <2>1, <2>2, <2>5 DEF HandleInv, Target, TypeOK
  <2> QED BY <2>4, <2>5, <1>8 DEF Register
<1>9. ASSUME NEW w \in Workers, CreateUndo(w) PROVE HandleInv'
  <2>1. todo = {}
    BY <1>9 DEF CreateUndo, RemoveResourceWorker, OwnerInv, HandleInv
  <2> QED BY <1>9, <2>1 DEF CreateUndo, RemoveResourceWorker, HandleInv, Target, TypeOK, samplerVars
<1>10. ASSUME NEW w \in Workers, CreateFails(w) PROVE HandleInv'
  BY <1>10 DEF CreateFails, HandleInv, Target, TypeOK, runtimeVars, samplerVars
<1>11. ASSUME NEW w \in Workers, Observe(w) PROVE HandleInv'
  BY <1>11, <1>0 DEF Observe, HandleInv, samplerVars, workerVars
<1>12. ASSUME NEW t \in WorkerThreads, WorkerCloseCall(t) \/ WorkerCloseLock(t) PROVE HandleInv'
  <2>1. /\ UNCHANGED <<registered, handles, creating, native, todo, sampler>>
        /\ current' = current \/ (closeWorker[SamplerThread] = "out" /\ t = SamplerThread)
        /\ \E c \in {"out", "entering", "owning"} : closeWorker' = [closeWorker EXCEPT ![t] = c]
    BY <1>12 DEF WorkerCloseCall, WorkerCloseLock, runtimeVars, samplerVars
  <2> QED BY <2>1 DEF HandleInv, Target, TypeOK
<1>13. ASSUME NEW t \in WorkerThreads, WorkerCloseRemove(t) PROVE HandleInv'
  <2>1. todo = {}
    BY <1>13 DEF WorkerCloseRemove, RemoveResourceWorker, OwnerInv, HandleInv
  <2>2. /\ UNCHANGED <<handles, creating, native, current, todo, sampler>>
        /\ registered' = registered \ {Target(t)}
        /\ closeWorker' = [closeWorker EXCEPT ![t] = "removed"]
    BY <1>13 DEF WorkerCloseRemove, RemoveResourceWorker, samplerVars
  <2> QED BY <2>1, <2>2 DEF HandleInv, Target, TypeOK
<1>14. ASSUME NEW t \in WorkerThreads, WorkerCloseFree(t) PROVE HandleInv'
  <2>1. Target(t) \in Workers /\ creating[Target(t)] = "open" /\ Target(t) \notin registered
    BY <1>14, TargetOpen DEF WorkerCloseFree, HandleInv
  <2>2. /\ UNCHANGED <<registered, creating, native, current, todo, sampler>>
        /\ handles' = handles \ {Target(t)}
        /\ closeWorker' = [closeWorker EXCEPT ![t] = "out"]
    BY <1>14 DEF WorkerCloseFree, runtimeVars, samplerVars
  <2> QED BY <2>1, <2>2 DEF HandleInv, Target, TypeOK
<1> QED
  BY Steps, <1>1, <1>2, <1>3, <1>4, <1>5, <1>6, <1>7, <1>8, <1>9, <1>10, <1>11, <1>12, <1>13, <1>14

-----------------------------------------------------------------------------
(***************************************************************************)
(* Sequences of updates.                                                   *)
(***************************************************************************)
LEMMA TailOf ==
  ASSUME NEW s \in Seq(Update), s # <<>>
  PROVE  /\ Tail(s) \in Seq(Update) /\ Len(Tail(s)) = Len(s) - 1 /\ Len(s) \in Nat \ {0}
         /\ \A i \in 1..Len(Tail(s)) : Tail(s)[i] = s[i + 1] /\ i + 1 \in 1..Len(s)
         /\ Head(s) = s[1] /\ 1 \in 1..Len(s) /\ s[1] \in Update
BY HeadTailProperties, LenProperties, EmptySeq, ElementOfSeq

LEMMA AppendOf ==
  ASSUME NEW s \in Seq(Update), NEW u \in Update
  PROVE  /\ Append(s, u) \in Seq(Update) /\ Len(Append(s, u)) = Len(s) + 1 /\ Len(s) \in Nat
         /\ \A i \in 1..(Len(s) + 1) : Append(s, u)[i] = IF i = Len(s) + 1 THEN u ELSE s[i]
BY AppendProperties, LenProperties

LEMMA Elements ==
  ASSUME NEW s \in Seq(Update)
  PROVE  Len(s) \in Nat /\ \A i \in 1..Len(s) : s[i] \in Update /\ s[i].n \in Nat /\ s[i].id \in Nat
<1>1. Len(s) \in Nat /\ \A i \in 1..Len(s) : s[i] \in Update
  BY LenProperties, ElementOfSeq
<1> QED BY <1>1 DEF Update

LEMMA EmptyUpdates ==
  /\ <<>> \in Seq(Update) /\ Len(<<>>) = 0
  /\ Ascending(<<>>)
  /\ \A s : Before(<<>>, s) /\ Before(s, <<>>)
  /\ \A m : After(m, <<>>) /\ UpTo(<<>>, m) /\ Ids(<<>>, m)
BY DEF Ascending, Before, After, UpTo, Ids

\* The rest of a sequence, and what is known of it.
LEMMA TailKeeps ==
  ASSUME NEW s \in Seq(Update), s # <<>>, NEW m \in Nat, NEW t \in Seq(Update)
  PROVE  /\ Ascending(s) => Ascending(Tail(s)) /\ After(Head(s).n, Tail(s))
         /\ After(m, s) => After(m, Tail(s)) /\ m < Head(s).n
         /\ UpTo(s, m) => UpTo(Tail(s), m) /\ Head(s).n <= m
         /\ Before(s, t) => Before(Tail(s), t) /\ After(Head(s).n, t)
         /\ Before(t, s) => Before(t, Tail(s))
         /\ \A S : Ids(s, S) => Ids(Tail(s), S) /\ Head(s).id \in S
<1>1. /\ Len(Tail(s)) = Len(s) - 1 /\ Len(s) \in Nat \ {0}
      /\ \A i \in 1..Len(Tail(s)) : Tail(s)[i] = s[i + 1] /\ i + 1 \in 1..Len(s)
      /\ Head(s) = s[1] /\ 1 \in 1..Len(s)
  BY TailOf
<1>2. Ascending(s) => Ascending(Tail(s)) /\ After(Head(s).n, Tail(s))
  BY <1>1 DEF Ascending, After
<1>3. After(m, s) => After(m, Tail(s)) /\ m < Head(s).n
  BY <1>1 DEF After
<1>4. UpTo(s, m) => UpTo(Tail(s), m) /\ Head(s).n <= m
  BY <1>1 DEF UpTo
<1>5. (Before(s, t) => Before(Tail(s), t) /\ After(Head(s).n, t)) /\ (Before(t, s) => Before(t, Tail(s)))
  BY <1>1 DEF Before, After
<1>6. \A S : Ids(s, S) => Ids(Tail(s), S) /\ Head(s).id \in S
  BY <1>1 DEF Ids
<1> QED BY <1>2, <1>3, <1>4, <1>5, <1>6

\* A sequence with a new update at its end.
LEMMA AppendKeeps ==
  ASSUME NEW s \in Seq(Update), NEW m \in Nat, NEW id \in Nat, UpTo(s, m), Ascending(s),
         NEW u, u = [n |-> m + 1, id |-> id]
  PROVE  /\ Append(s, u) \in Seq(Update) /\ Len(Append(s, u)) = Len(s) + 1
         /\ Ascending(Append(s, u)) /\ UpTo(Append(s, u), m + 1)
         /\ \A k \in Nat : k <= m /\ After(k, s) => After(k, Append(s, u))
         /\ \A t \in Seq(Update) : UpTo(t, m) /\ Before(t, s) => Before(t, Append(s, u))
<1>1. u \in Update /\ u.n = m + 1
  BY DEF Update
<1>2. /\ Append(s, u) \in Seq(Update) /\ Len(Append(s, u)) = Len(s) + 1 /\ Len(s) \in Nat
      /\ \A i \in 1..(Len(s) + 1) : Append(s, u)[i] = IF i = Len(s) + 1 THEN u ELSE s[i]
  BY <1>1, AppendOf
<1>3. \A i \in 1..Len(s) : s[i].n \in Nat /\ s[i].n <= m
  BY Elements DEF UpTo
<1>4. Ascending(Append(s, u)) /\ UpTo(Append(s, u), m + 1)
  <2>1. UpTo(Append(s, u), m + 1)
    BY <1>1, <1>2, <1>3 DEF UpTo
  <2>2. ASSUME NEW i \in 1..(Len(s) + 1), NEW j \in 1..(Len(s) + 1), i < j
        PROVE  Append(s, u)[i].n < Append(s, u)[j].n
    <3>1. i \in 1..Len(s) /\ Append(s, u)[i] = s[i]
      BY <1>2, <2>2
    <3>2. CASE j = Len(s) + 1
      BY <1>1, <1>2, <1>3, <3>1, <3>2
    <3>3. CASE j \in 1..Len(s)
      <4>1. Append(s, u)[j] = s[j]
        BY <1>2, <3>3
      <4> QED BY <2>2, <3>1, <3>3, <4>1 DEF Ascending
    <3> QED BY <1>2, <3>2, <3>3
  <2> QED BY <1>2, <2>1, <2>2 DEF Ascending
<1>5. ASSUME NEW k \in Nat, k <= m, After(k, s) PROVE After(k, Append(s, u))
  BY <1>1, <1>2, <1>3, <1>5 DEF After
<1>6. ASSUME NEW t \in Seq(Update), UpTo(t, m), Before(t, s) PROVE Before(t, Append(s, u))
  <2>1. \A i \in 1..Len(t) : t[i].n \in Nat /\ t[i].n <= m
    BY <1>6, Elements DEF UpTo
  <2> QED BY <1>1, <1>2, <1>3, <1>6, <2>1 DEF Before
<1> QED BY <1>2, <1>4, <1>5, <1>6

\* Two ascending sequences, one after the other.
LEMMA ConcatKeeps ==
  ASSUME NEW s \in Seq(Update), NEW t \in Seq(Update), Ascending(s), Ascending(t), Before(s, t)
  PROVE  /\ s \o t \in Seq(Update) /\ Len(s \o t) = Len(s) + Len(t) /\ Ascending(s \o t)
         /\ \A m \in Nat : After(m, s) /\ After(m, t) => After(m, s \o t)
         /\ \A q \in Seq(Update) : Before(s, q) /\ Before(t, q) => Before(s \o t, q)
<1>1. /\ s \o t \in Seq(Update) /\ Len(s \o t) = Len(s) + Len(t)
      /\ \A i \in 1..(Len(s) + Len(t)) : (s \o t)[i] = IF i <= Len(s) THEN s[i] ELSE t[i - Len(s)]
  BY ConcatProperties
<1>2. Len(s) \in Nat /\ Len(t) \in Nat
  BY LenProperties
<1>3. \A i \in 1..Len(s \o t) : \/ i \in 1..Len(s) /\ (s \o t)[i] = s[i]
                                \/ i - Len(s) \in 1..Len(t) /\ i > Len(s) /\ (s \o t)[i] = t[i - Len(s)]
  BY <1>1, <1>2
<1>4. Ascending(s \o t)
  <2> SUFFICES ASSUME NEW i \in 1..Len(s \o t), NEW j \in 1..Len(s \o t), i < j
               PROVE  (s \o t)[i].n < (s \o t)[j].n
    BY DEF Ascending
  <2>1. CASE i \in 1..Len(s) /\ j \in 1..Len(s)
    BY <1>2, <1>3, <2>1 DEF Ascending
  <2>2. CASE i \in 1..Len(s) /\ j > Len(s)
    BY <1>2, <1>3, <2>2 DEF Before
  <2>3. CASE i > Len(s) /\ j > Len(s)
    <3>1. /\ i - Len(s) \in 1..Len(t) /\ (s \o t)[i] = t[i - Len(s)]
          /\ j - Len(s) \in 1..Len(t) /\ (s \o t)[j] = t[j - Len(s)]
      BY <1>2, <1>3, <2>3
    <3>2. i - Len(s) < j - Len(s)
      BY <1>1, <1>2
    <3> QED BY <3>1, <3>2 DEF Ascending
  <2> QED BY <1>1, <1>2, <2>1, <2>2, <2>3
<1>5. \A m \in Nat : After(m, s) /\ After(m, t) => After(m, s \o t)
  BY <1>3 DEF After
<1>6. \A q \in Seq(Update) : Before(s, q) /\ Before(t, q) => Before(s \o t, q)
  BY <1>3 DEF Before
<1> QED BY <1>1, <1>4, <1>5, <1>6

-----------------------------------------------------------------------------
(***************************************************************************)
(* Telemetry.                                                              *)
(***************************************************************************)
TelemetryInv == BufferTypes /\ BatchInv /\ CountInv /\ OrderInv /\ MarkInv

LEMMA NoBatchIs == NoBatch.updates = <<>> /\ NoBatch.dropped = 0 /\ ~NoBatch.some
BY DEF NoBatch

\* UpTo with a larger bound.
LEMMA UpToMore ==
  ASSUME NEW s \in Seq(Update), NEW m \in Nat, NEW k \in Nat, m <= k, UpTo(s, m)
  PROVE  UpTo(s, k)
BY Elements DEF UpTo

\* One more recorded update is in the buffer, or dropped from it.
LEMMA CountMoves ==
  ASSUME BufferTypes, CountInv, recorded' = recorded + 1,
         updates' \in Seq(Update), dropped' \in Nat,
         UNCHANGED <<replayed, lost, reported, replaying, retained>>,
         Len(updates') + dropped' = Len(updates) + dropped + 1
  PROVE  CountInv'
<1>0. PICK m, k : m = Len(retained.updates) /\ k = retained.dropped
  OBVIOUS
<1>1. PICK rest : rest = replayed + lost + reported + Len(replaying) + m
  OBVIOUS
<1>2. /\ Len(updates) \in Nat /\ Len(updates') \in Nat /\ Len(replaying) \in Nat
      /\ m \in Nat
  BY <1>0, Elements DEF BufferTypes
<1>3. replayed \in Nat /\ lost \in Nat /\ reported \in Nat /\ k \in Nat /\ dropped \in Nat
  BY <1>0 DEF BufferTypes
<1>4. recorded = rest + Len(updates) + k + dropped
  BY <1>0, <1>1 DEF CountInv
<1>5. recorded' = rest + Len(updates') + k + dropped'
  <2>1. rest \in Nat
    BY <1>1, <1>2, <1>3
  <2> QED BY <1>2, <1>3, <1>4, <2>1
<1>6. rest = replayed' + lost' + reported' + Len(replaying') + Len(retained'.updates)
  BY <1>0, <1>1
<1>7. retained'.dropped = k
  BY <1>0
<1> QED BY <1>5, <1>6, <1>7 DEF CountInv

\* A recorded update comes last, and pushes out at most the oldest of the buffer.
LEMMA RecordStep ==
  ASSUME TelemetryInv, NEW id \in Nat, Record(id),
         UNCHANGED <<closed, mark, drain, cap, needed, replaying, instruments, replayed, latest, lost,
                     reported>>
  PROVE  TelemetryInv'
<1>s. BufferTypes /\ BatchInv /\ CountInv /\ OrderInv /\ MarkInv
  BY DEF TelemetryInv
<1>1. PICK kept : /\ kept = IF Len(updates) < Capacity THEN updates ELSE Tail(updates)
                  /\ updates' = Append(kept, [n |-> recorded + 1, id |-> id])
  BY DEF Record
<1>2. /\ recorded' = recorded + 1 /\ UNCHANGED <<definitions, retained>>
      /\ dropped' = IF Len(updates) < Capacity THEN dropped ELSE dropped + 1
  BY DEF Record
<1>3. Len(updates) \in Nat /\ Len(replaying) \in Nat /\ Len(retained.updates) \in Nat
  BY <1>s, Elements DEF BufferTypes
<1>4. /\ kept \in Seq(Update) /\ Len(kept) \in Nat /\ Len(kept) + dropped' = Len(updates) + dropped
      /\ dropped' \in Nat
      /\ Ascending(kept) /\ UpTo(kept, recorded) /\ After(latest, kept)
      /\ Before(replaying, kept) /\ Before(retained.updates, kept)
      /\ After(mark, updates) => After(mark, kept)
  <2>1. CASE Len(updates) < Capacity
    <3>1. kept = updates /\ dropped' = dropped
      BY <1>1, <1>2, <2>1
    <3> QED BY <1>s, <1>3, <3>1 DEF BufferTypes, OrderInv
  <2>2. CASE ~(Len(updates) < Capacity)
    <3>1. kept = Tail(updates) /\ dropped' = dropped + 1
      BY <1>1, <1>2, <2>2
    <3>2. updates # <<>>
      BY <1>3, <2>2, TelemetryAssumption, EmptySeq
    <3>3. updates \in Seq(Update) /\ replaying \in Seq(Update) /\ retained.updates \in Seq(Update)
          /\ recorded \in Nat /\ latest \in Nat /\ mark \in Nat /\ dropped \in Nat
      BY <1>s DEF BufferTypes
    <3>4. Tail(updates) \in Seq(Update) /\ Len(Tail(updates)) = Len(updates) - 1 /\ Len(updates) \in Nat \ {0}
      BY <3>2, <3>3, TailOf
    <3>5. Ascending(Tail(updates)) /\ UpTo(Tail(updates), recorded) /\ After(latest, Tail(updates))
      BY <1>s, <3>2, <3>3, TailKeeps DEF OrderInv
    <3>6. Before(replaying, Tail(updates)) /\ Before(retained.updates, Tail(updates))
      BY <1>s, <3>2, <3>3, TailKeeps DEF OrderInv
    <3>7. After(mark, updates) => After(mark, Tail(updates))
      BY <3>2, <3>3, TailKeeps
    <3> QED BY <3>1, <3>3, <3>4, <3>5, <3>6, <3>7
  <2> QED BY <2>1, <2>2
<1>5. recorded \in Nat /\ latest \in Nat /\ mark \in Nat /\ latest <= recorded /\ mark <= recorded
  BY <1>s DEF BufferTypes, OrderInv
<1>6. /\ updates' \in Seq(Update) /\ Len(updates') = Len(kept) + 1
      /\ Ascending(updates') /\ UpTo(updates', recorded + 1)
      /\ \A k \in Nat : k <= recorded /\ After(k, kept) => After(k, updates')
      /\ \A t \in Seq(Update) : UpTo(t, recorded) /\ Before(t, kept) => Before(t, updates')
  <2>1. PICK u : u = [n |-> recorded + 1, id |-> id]
    OBVIOUS
  <2>2. updates' = Append(kept, u)
    BY <1>1, <2>1
  <2>3. kept \in Seq(Update) /\ recorded \in Nat /\ UpTo(kept, recorded) /\ Ascending(kept)
    BY <1>4, <1>5
  <2>4. /\ Append(kept, u) \in Seq(Update) /\ Len(Append(kept, u)) = Len(kept) + 1
        /\ Ascending(Append(kept, u)) /\ UpTo(Append(kept, u), recorded + 1)
        /\ \A k \in Nat : k <= recorded /\ After(k, kept) => After(k, Append(kept, u))
        /\ \A t \in Seq(Update) :
             UpTo(t, recorded) /\ Before(t, kept) => Before(t, Append(kept, u))
    BY <2>1, <2>3, AppendKeeps
  <2> QED BY <2>2, <2>4
<1>7. BufferTypes'
  BY <1>s, <1>2, <1>4, <1>6 DEF BufferTypes
<1>8. BatchInv'
  BY <1>s, <1>2 DEF BatchInv, Ids
<1>9. CountInv'
  <2>1. /\ UNCHANGED <<replayed, lost, reported, replaying, retained>>
        /\ Len(updates') + dropped' = Len(updates) + dropped + 1
    BY <1>2, <1>3, <1>4, <1>6
  <2>2. recorded' = recorded + 1 /\ updates' \in Seq(Update) /\ dropped' \in Nat
    BY <1>2, <1>4, <1>6
  <2> QED BY <1>s, <2>1, <2>2, CountMoves
<1>10. OrderInv'
  <2>1. replaying \in Seq(Update) /\ retained.updates \in Seq(Update)
    BY <1>s DEF BufferTypes
  <2>2. /\ UpTo(replaying, recorded) /\ UpTo(retained.updates, recorded)
        /\ UpTo(replaying, recorded + 1) /\ UpTo(retained.updates, recorded + 1)
    BY <1>s, <1>5, <2>1, UpToMore DEF OrderInv
  <2>3. Before(replaying, updates') /\ Before(retained.updates, updates')
    BY <1>4, <1>6, <2>1, <2>2
  <2>4. After(latest, updates') /\ latest <= recorded + 1 /\ mark <= recorded + 1
    BY <1>4, <1>5, <1>6
  <2> QED BY <1>s, <1>2, <1>6, <2>2, <2>3, <2>4 DEF OrderInv
<1>11. MarkInv'
  BY <1>s, <1>2, <1>4, <1>5, <1>6 DEF MarkInv
<1> QED BY <1>7, <1>8, <1>9, <1>10, <1>11 DEF TelemetryInv

\* A probe moves everything that is buffered to the retained batch.
LEMMA ProbeStep ==
  ASSUME TelemetryInv, RetrieveAgain
  PROVE  TelemetryInv'
<1>s. BufferTypes /\ BatchInv /\ CountInv /\ OrderInv /\ MarkInv
  BY DEF TelemetryInv
<1>1. drain = "retrieve" /\ Len(Batch.updates) > cap
  BY DEF RetrieveAgain, Probe
<1>2. ~retained.some /\ retained = NoBatch
  <2>1. Len(retained.updates) \in Nat
    BY <1>s, Elements DEF BufferTypes
  <2> QED BY <1>s, <1>1, <2>1 DEF BatchInv, Batch
<1>3. Batch = Drain
  BY <1>2 DEF Batch
<1>4. /\ retained'.updates = updates /\ retained'.dropped = dropped /\ retained'.some
      /\ retained'.known = { u.id : u \in Range(updates) }
  BY <1>3 DEF RetrieveAgain, Probe, Drain
<1>5. /\ updates' = <<>> /\ dropped' = 0 /\ cap' = Len(updates)
      /\ UNCHANGED <<definitions, recorded, closed, mark, drain, needed, replaying, instruments,
                     replayed, latest, lost, reported>>
  BY <1>2, <1>3 DEF RetrieveAgain, Probe, TakeBatch, Drain, runtimeVars
<1>6. /\ updates \in Seq(Update) /\ Len(updates) \in Nat
      /\ replaying = <<>> /\ retained.updates = <<>> /\ retained.dropped = 0
  BY <1>s, <1>1, <1>2, Elements, NoBatchIs DEF BufferTypes, BatchInv
<1>7. BufferTypes'
  BY <1>s, <1>4, <1>5, <1>6, EmptyUpdates DEF BufferTypes
<1>8. BatchInv'
  <2>1. Ids(updates, { u.id : u \in Range(updates) })
    <3>1. \A i \in 1..Len(updates) : updates[i] \in Range(updates)
      BY <1>6, LenProperties DEF Range
    <3> QED BY <3>1 DEF Ids
  <2> QED BY <1>1, <1>4, <1>5, <1>6, <2>1 DEF BatchInv
<1>9. CountInv'
  BY <1>s, <1>4, <1>5, <1>6, EmptyUpdates DEF CountInv, BufferTypes
<1>10. OrderInv'
  BY <1>s, <1>4, <1>5, <1>6, EmptyUpdates DEF OrderInv
<1>11. MarkInv'
  BY <1>5, EmptyUpdates DEF MarkInv
<1> QED BY <1>7, <1>8, <1>9, <1>10, <1>11 DEF TelemetryInv

\* A copy takes the retained batch, or everything that is buffered.
LEMMA CopyStep ==
  ASSUME TelemetryInv, Retrieve
  PROVE  TelemetryInv'
<1>s. BufferTypes /\ BatchInv /\ CountInv /\ OrderInv /\ MarkInv
  BY DEF TelemetryInv
<1>1. /\ drain = "retrieve" /\ drain' = "define" /\ retained' = NoBatch /\ cap' = Fit
      /\ needed' = Batch.known /\ replaying' = Batch.updates /\ reported' = reported + Batch.dropped
      /\ UNCHANGED <<definitions, recorded, closed, mark, instruments, replayed, latest, lost>>
  BY DEF Retrieve, CopyOut, TakeBatch, runtimeVars
<1>2. /\ replaying = <<>> /\ updates \in Seq(Update) /\ retained.updates \in Seq(Update)
      /\ Len(updates) \in Nat /\ Len(retained.updates) \in Nat /\ Fit \in Nat
  BY <1>s, <1>1, Elements, TelemetryAssumption DEF BatchInv, BufferTypes
<1>3. retained'.updates = <<>> /\ retained'.dropped = 0 /\ ~retained'.some
  BY <1>1, NoBatchIs
<1>4. CASE retained.some
  <2>1. /\ Batch = retained /\ updates' = updates /\ dropped' = dropped
    BY <1>4 DEF Batch, Retrieve, CopyOut, TakeBatch
  <2>2. Ids(retained.updates, retained.known)
    BY <1>s, <1>4 DEF BatchInv
  <2>3. BufferTypes'
    BY <1>s, <1>1, <1>2, <1>3, <2>1, EmptyUpdates DEF BufferTypes
  <2>4. BatchInv'
    BY <1>1, <1>3, <2>1, <2>2 DEF BatchInv
  <2>5. CountInv'
    <3>1. /\ Len(replaying) = 0 /\ Len(retained'.updates) = 0
          /\ Len(replaying') = Len(retained.updates) /\ reported' = reported + retained.dropped
      BY <1>1, <1>2, <1>3, <2>1, EmptyUpdates
    <3>2. /\ replayed \in Nat /\ lost \in Nat /\ reported \in Nat /\ dropped \in Nat
          /\ retained.dropped \in Nat
      BY <1>s DEF BufferTypes
    <3>3. recorded = replayed + lost + reported + 0 + Len(retained.updates) + Len(updates)
                       + retained.dropped + dropped
      BY <1>s, <3>1 DEF CountInv
    <3>4. recorded = replayed + lost + (reported + retained.dropped) + Len(retained.updates) + 0
                       + Len(updates) + 0 + dropped
      <4>1. PICK m, k : m = Len(retained.updates) /\ k = retained.dropped
        OBVIOUS
      <4>2. m \in Nat /\ k \in Nat
        BY <1>2, <3>2, <4>1
      <4>3. recorded = replayed + lost + reported + 0 + m + Len(updates) + k + dropped
        BY <3>3, <4>1
      <4>4. replayed \in Nat /\ lost \in Nat /\ reported \in Nat /\ dropped \in Nat
        BY <3>2
      <4>5. Len(updates) \in Nat
        BY <1>2
      <4>6. recorded = replayed + lost + (reported + k) + m + 0 + Len(updates) + 0 + dropped
        BY <4>2, <4>3, <4>4, <4>5
      <4> QED BY <4>1, <4>6
    <3> QED BY <1>1, <1>3, <2>1, <3>1, <3>4 DEF CountInv
  <2>6. OrderInv'
    BY <1>s, <1>1, <1>3, <2>1, EmptyUpdates DEF OrderInv
  <2>7. MarkInv'
    BY <1>s, <1>1, <1>4, <2>1 DEF MarkInv
  <2> QED BY <2>3, <2>4, <2>5, <2>6, <2>7 DEF TelemetryInv
<1>5. CASE ~retained.some
  <2>1. /\ Batch = Drain /\ updates' = <<>> /\ dropped' = 0
    BY <1>5 DEF Batch, Retrieve, CopyOut, TakeBatch
  <2>2. /\ replaying' = updates /\ reported' = reported + dropped
        /\ needed' = { u.id : u \in Range(updates) }
    BY <1>1, <2>1 DEF Drain
  <2>3. Ids(updates, { u.id : u \in Range(updates) })
    <3>1. \A i \in 1..Len(updates) : updates[i] \in Range(updates)
      BY <1>2, LenProperties DEF Range
    <3> QED BY <3>1 DEF Ids
  <2>4. retained.updates = <<>> /\ retained.dropped = 0
    BY <1>s, <1>5, NoBatchIs DEF BatchInv
  <2>5. BufferTypes'
    BY <1>s, <1>1, <1>2, <1>3, <2>1, <2>2, EmptyUpdates DEF BufferTypes
  <2>6. BatchInv'
    BY <1>1, <1>3, <2>2, <2>3 DEF BatchInv
  <2>7. CountInv'
    <3>1. /\ Len(replaying) = 0 /\ Len(retained'.updates) = 0 /\ Len(retained.updates) = 0
          /\ Len(replaying') = Len(updates) /\ Len(updates') = 0
      BY <1>2, <1>3, <2>1, <2>2, <2>4, EmptyUpdates
    <3>2. /\ replayed \in Nat /\ lost \in Nat /\ reported \in Nat /\ dropped \in Nat
      BY <1>s DEF BufferTypes
    <3>3. recorded = replayed + lost + reported + 0 + 0 + Len(updates) + 0 + dropped
      BY <1>s, <2>4, <3>1 DEF CountInv
    <3>4. recorded = replayed + lost + (reported + dropped) + Len(updates) + 0 + 0 + 0 + 0
      BY <1>2, <3>2, <3>3
    <3> QED BY <1>1, <1>3, <2>1, <2>2, <3>1, <3>4 DEF CountInv
  <2>8. OrderInv'
    BY <1>s, <1>1, <1>3, <2>1, <2>2, EmptyUpdates DEF OrderInv
  <2>9. MarkInv'
    BY <2>1, EmptyUpdates DEF MarkInv
  <2> QED BY <2>5, <2>6, <2>7, <2>8, <2>9 DEF TelemetryInv
<1> QED BY <1>4, <1>5

\* An exception loses the rest of the batch, and says so.
LEMMA GiveUpStep ==
  ASSUME TelemetryInv, drain \in {"define", "replay"}, GiveUp,
         UNCHANGED <<telemetryVars, closed, mark, cap, replayed, latest, reported>>
  PROVE  TelemetryInv'
<1>s. BufferTypes /\ BatchInv /\ CountInv /\ OrderInv /\ MarkInv
  BY DEF TelemetryInv
<1>1. /\ drain' = "none" /\ replaying' = <<>> /\ lost' = lost + Len(replaying)
      /\ UNCHANGED <<definitions, updates, dropped, recorded, retained>>
  BY DEF GiveUp, telemetryVars
<1>2. /\ ~retained.some /\ Len(updates) \in Nat /\ Len(replaying) \in Nat
      /\ Len(retained.updates) \in Nat
  BY <1>s, Elements DEF BatchInv, BufferTypes
<1>3. BufferTypes'
  BY <1>s, <1>1, <1>2, EmptyUpdates DEF BufferTypes
<1>4. BatchInv'
  BY <1>s, <1>1, <1>2 DEF BatchInv
<1>5. CountInv'
  <2>1. Len(replaying') = 0
    BY <1>1, EmptyUpdates
  <2>2. /\ replayed \in Nat /\ lost \in Nat /\ reported \in Nat /\ dropped \in Nat
        /\ retained.dropped \in Nat
    BY <1>s DEF BufferTypes
  <2>3. recorded = replayed + (lost + Len(replaying)) + reported + 0 + Len(retained.updates)
                     + Len(updates) + retained.dropped + dropped
    <3>1. PICK m, k : m = Len(retained.updates) /\ k = retained.dropped
      OBVIOUS
    <3>2. m \in Nat /\ k \in Nat
      BY <1>2, <2>2, <3>1
    <3>3. recorded = replayed + lost + reported + Len(replaying) + m + Len(updates) + k + dropped
      BY <1>s, <3>1 DEF CountInv
    <3>4. recorded = replayed + (lost + Len(replaying)) + reported + 0 + m + Len(updates) + k + dropped
      BY <1>2, <2>2, <3>2, <3>3
    <3> QED BY <3>1, <3>4
  <2> QED BY <1>1, <2>1, <2>3 DEF CountInv
<1>6. OrderInv'
  BY <1>s, <1>1, EmptyUpdates DEF OrderInv
<1>7. MarkInv'
  BY <1>s, <1>1 DEF MarkInv
<1> QED BY <1>3, <1>4, <1>5, <1>6, <1>7 DEF TelemetryInv

\* One update is replayed, by the instrument that was created for it.
LEMMA ReplayStep ==
  ASSUME TelemetryInv, ReplayOne
  PROVE  TelemetryInv'
<1>s. BufferTypes /\ BatchInv /\ CountInv /\ OrderInv /\ MarkInv
  BY DEF TelemetryInv
<1>1. /\ drain = "replay" /\ replaying # <<>>
      /\ UNCHANGED <<definitions, updates, dropped, recorded, retained, closed, mark, cap, needed,
                     instruments, reported>>
  BY DEF ReplayOne, telemetryVars, runtimeVars
<1>2. CASE GiveUp /\ UNCHANGED <<replayed, latest>>
  BY <1>1, <1>2, GiveUpStep DEF telemetryVars
<1>3. CASE /\ replayed' = IF Head(replaying).id \in instruments THEN replayed + 1 ELSE replayed
           /\ latest' = Head(replaying).n
           /\ replaying' = Tail(replaying)
           /\ UNCHANGED <<drain, lost>>
  <2>1. /\ replaying \in Seq(Update) /\ updates \in Seq(Update) /\ recorded \in Nat /\ latest \in Nat
        /\ ~retained.some /\ retained.updates = <<>> /\ retained.dropped = 0
        /\ Ids(replaying, instruments)
    BY <1>s, <1>1, NoBatchIs DEF BufferTypes, BatchInv
  <2>2. /\ Tail(replaying) \in Seq(Update) /\ Len(Tail(replaying)) = Len(replaying) - 1
        /\ Len(replaying) \in Nat \ {0} /\ Head(replaying) \in Update
    BY <1>1, <2>1, TailOf
  <2>3. Head(replaying).n \in Nat
    BY <2>2 DEF Update
  <2>4. Ids(Tail(replaying), instruments) /\ Head(replaying).id \in instruments
    BY <1>1, <2>1, TailKeeps
  <2>5. /\ Ascending(Tail(replaying)) /\ After(Head(replaying).n, Tail(replaying))
        /\ UpTo(Tail(replaying), recorded) /\ Head(replaying).n <= recorded
    BY <1>s, <1>1, <2>1, TailKeeps DEF OrderInv
  <2>6. Before(Tail(replaying), updates) /\ After(Head(replaying).n, updates)
    BY <1>s, <1>1, <2>1, TailKeeps DEF OrderInv
  <2>7. replayed' = replayed + 1
    BY <1>3, <2>4
  <2>8. BufferTypes'
    BY <1>s, <1>1, <1>3, <2>2, <2>3, <2>7 DEF BufferTypes
  <2>9. BatchInv'
    BY <1>s, <1>1, <1>3, <2>1, <2>4 DEF BatchInv
  <2>10. CountInv'
    <3>1. /\ Len(replaying') = Len(replaying) - 1 /\ Len(updates) \in Nat
          /\ Len(retained.updates) = 0
      BY <1>3, <2>1, <2>2, Elements, EmptyUpdates
    <3>2. /\ replayed \in Nat /\ lost \in Nat /\ reported \in Nat /\ dropped \in Nat
      BY <1>s DEF BufferTypes
    <3>3. recorded = replayed + lost + reported + Len(replaying) + 0 + Len(updates) + 0 + dropped
      BY <1>s, <2>1, <3>1 DEF CountInv
    <3>4. recorded = (replayed + 1) + lost + reported + (Len(replaying) - 1) + 0 + Len(updates)
                       + 0 + dropped
      BY <2>2, <3>1, <3>2, <3>3
    <3> QED BY <1>1, <1>3, <2>1, <2>7, <3>1, <3>4 DEF CountInv
  <2>11. OrderInv'
    BY <1>s, <1>1, <1>3, <2>1, <2>5, <2>6, EmptyUpdates DEF OrderInv
  <2>12. MarkInv'
    BY <1>s, <1>1, <1>3 DEF MarkInv
  <2> QED BY <2>8, <2>9, <2>10, <2>11, <2>12 DEF TelemetryInv
<1> QED BY <1>2, <1>3 DEF ReplayOne

\* The batch's instruments are there before it is replayed, or the batch is given up.
LEMMA InstrumentsStep ==
  ASSUME TelemetryInv, CreateInstruments
  PROVE  TelemetryInv'
<1>s. BufferTypes /\ BatchInv /\ CountInv /\ OrderInv /\ MarkInv
  BY DEF TelemetryInv
<1>1. /\ drain = "define"
      /\ UNCHANGED <<definitions, updates, dropped, recorded, retained, closed, mark, cap, replayed,
                     latest, reported>>
  BY DEF CreateInstruments, telemetryVars, runtimeVars
<1>2. CASE GiveUp
  BY <1>1, <1>2, GiveUpStep DEF telemetryVars
<1>3. CASE instruments' = instruments \cup needed /\ drain' = "replay" /\ UNCHANGED <<replaying, lost>>
  <2>1. ~retained.some /\ Ids(replaying, needed)
    BY <1>s, <1>1 DEF BatchInv
  <2>2. Ids(replaying, instruments \cup needed)
    BY <2>1 DEF Ids
  <2>3. BatchInv'
    BY <1>s, <1>1, <1>3, <2>1, <2>2 DEF BatchInv
  <2>4. BufferTypes' /\ CountInv' /\ OrderInv'
    BY <1>s, <1>1, <1>3 DEF BufferTypes, CountInv, OrderInv
  <2>5. MarkInv'
    BY <1>s, <1>1, <1>3 DEF MarkInv
  <2> QED BY <2>3, <2>4, <2>5 DEF TelemetryInv
<1> QED BY <1>2, <1>3 DEF CreateInstruments

LEMMA ReplayEndStep ==
  ASSUME TelemetryInv, ReplayEnd
  PROVE  TelemetryInv'
<1>s. BufferTypes /\ BatchInv /\ CountInv /\ OrderInv /\ MarkInv
  BY DEF TelemetryInv
<1>1. /\ drain = "replay" /\ replaying = <<>> /\ drain' = "none"
      /\ UNCHANGED <<definitions, updates, dropped, recorded, retained, closed, mark, cap, needed,
                     replaying, instruments, replayed, latest, lost, reported>>
  BY DEF ReplayEnd, telemetryVars, runtimeVars
<1>2. BatchInv'
  BY <1>s, <1>1 DEF BatchInv
<1>3. BufferTypes' /\ CountInv' /\ OrderInv'
  BY <1>s, <1>1 DEF BufferTypes, CountInv, OrderInv
<1>4. MarkInv'
  BY <1>s, <1>1 DEF MarkInv
<1> QED BY <1>2, <1>3, <1>4 DEF TelemetryInv

\* A drain begins when no other one is under way.
LEMMA BeginStep ==
  ASSUME TelemetryInv, drain = "none", DrainBegin,
         \/ UNCHANGED <<closed, mark>>
         \/ mark' = recorded,
         UNCHANGED <<telemetryVars, needed, replaying, instruments, replayed, latest, lost, reported>>
  PROVE  TelemetryInv'
<1>s. BufferTypes /\ BatchInv /\ CountInv /\ OrderInv /\ MarkInv
  BY DEF TelemetryInv
<1>1. /\ drain' = "retrieve" /\ cap' = Fit /\ Fit \in Nat
      /\ UNCHANGED <<definitions, updates, dropped, recorded, retained>>
  BY TelemetryAssumption DEF DrainBegin, telemetryVars
<1>2. retained = NoBatch /\ ~retained.some /\ replaying = <<>>
  BY <1>s DEF BatchInv
<1>3. BatchInv'
  BY <1>1, <1>2 DEF BatchInv
<1>4. (mark' \in Nat /\ mark' <= recorded) /\ recorded \in Nat
  BY <1>s DEF BufferTypes, OrderInv
<1>5. BufferTypes'
  BY <1>s, <1>1, <1>4 DEF BufferTypes
<1>6. CountInv'
  BY <1>s, <1>1 DEF CountInv
<1>7. OrderInv'
  BY <1>s, <1>1, <1>4 DEF OrderInv
<1>8. MarkInv'
  BY <1>1, <1>2 DEF MarkInv
<1> QED BY <1>3, <1>5, <1>6, <1>7, <1>8 DEF TelemetryInv

LEMMA DefineStep ==
  ASSUME TelemetryInv, NEW i \in Instruments, Define(i), UNCHANGED <<closed, mark, replayVars>>
  PROVE  TelemetryInv'
<1>s. BufferTypes /\ BatchInv /\ CountInv /\ OrderInv /\ MarkInv
  BY DEF TelemetryInv
<1>1. /\ definitions' = Append(definitions, i)
      /\ UNCHANGED <<updates, dropped, recorded, retained, closed, mark, drain, cap, needed,
                     replaying, instruments, replayed, latest, lost, reported>>
  BY DEF Define, replayVars
<1>2. definitions' \in Seq(Instruments)
  BY <1>s, <1>1, AppendProperties DEF BufferTypes
<1>3. BufferTypes'
  BY <1>s, <1>1, <1>2 DEF BufferTypes
<1>4. BatchInv' /\ CountInv' /\ OrderInv' /\ MarkInv'
  BY <1>s, <1>1 DEF BatchInv, CountInv, OrderInv, MarkInv
<1> QED BY <1>3, <1>4 DEF TelemetryInv

LEMMA TelemetryStep ==
  ASSUME TypeOK, OwnerInv, PhaseInv, TelemetryInv, [Next]_vars
  PROVE  TelemetryInv'
<1>0. ASSUME UNCHANGED <<telemetryVars, closed, mark, replayVars>> PROVE TelemetryInv'
  BY <1>0 DEF TelemetryInv, BufferTypes, BatchInv, CountInv, OrderInv, MarkInv, telemetryVars, replayVars
<1>1. ASSUME CoreStep PROVE TelemetryInv'
  <2>1. UNCHANGED <<closed, mark, replayVars>>
    BY <1>1 DEF CoreStep, runtimeVars
  <2>2. CASE \E i \in Instruments : Define(i)
    BY <2>1, <2>2, DefineStep
  <2>3. CASE \E id \in 1..Len(definitions) : Record(id)
    <3>1. PICK id \in 1..Len(definitions) : Record(id)
      BY <2>3
    <3>2. id \in Nat
      BY LenProperties DEF TelemetryInv, BufferTypes
    <3> QED BY <2>1, <3>1, <3>2, RecordStep DEF replayVars
  <2> QED BY <1>1, <2>2, <2>3 DEF CoreStep
<1>2. ASSUME RetrieveAgain \/ Retrieve \/ CreateInstruments \/ ReplayOne \/ ReplayEnd
      PROVE  TelemetryInv'
  BY <1>2, ProbeStep, CopyStep, InstrumentsStep, ReplayStep, ReplayEndStep, Zenon
<1>3. ASSUME SampleBegin \/ SampleWorkersBegin \/ SampleWorkersEnd \/ HookEnds \/ SampleEnd
      PROVE  TelemetryInv'
  BY <1>3, <1>0, Zenon DEF SampleBegin, SampleWorkersBegin, SampleWorkersEnd, HookEnds, SampleEnd,
                    runtimeVars
<1>4. ASSUME NEW w \in Workers, SampleWorker(w) \/ Deliver(w) PROVE TelemetryInv'
  BY <1>4, <1>0 DEF SampleWorker, Deliver, runtimeVars
<1>5. ASSUME SampleDrain PROVE TelemetryInv'
  <2>1. drain = "none"
    BY <1>5, DrainBegins DEF SampleDrain
  <2> QED BY <1>5, <2>1, BeginStep DEF SampleDrain, runtimeVars
<1>6. ASSUME NEW t \in CloseThreads, CloseFlag(t) PROVE TelemetryInv'
  <2>1. drain = "none"
    BY <1>6, DrainBegins DEF CloseFlag
  <2> QED BY <1>6, <2>1, BeginStep DEF CloseFlag
<1>7. ASSUME NEW t \in CloseThreads, CloseCall(t) \/ CloseLock(t) \/ CloseFree(t) \/ CloseEnd(t)
      PROVE  TelemetryInv'
  BY <1>7, <1>0 DEF CloseCall, CloseLock, CloseFree, CloseEnd, runtimeVars
<1>8. ASSUME NEW w \in Workers,
             CreateCheck(w) \/ CreateHandle(w) \/ Register(w) \/ Start(w) \/ CreateUndo(w)
               \/ CreateFails(w) \/ Observe(w)
      PROVE  TelemetryInv'
  BY <1>8, <1>0 DEF CreateCheck, CreateHandle, Register, Start, CreateUndo, CreateFails, Observe,
                    RemoveResourceWorker, runtimeVars
<1>9. ASSUME NEW t \in WorkerThreads,
             WorkerCloseCall(t) \/ WorkerCloseLock(t) \/ WorkerCloseRemove(t) \/ WorkerCloseFree(t)
      PROVE  TelemetryInv'
  BY <1>9, <1>0 DEF WorkerCloseCall, WorkerCloseLock, WorkerCloseRemove, WorkerCloseFree,
                    RemoveResourceWorker, runtimeVars
<1>10. ASSUME UNCHANGED vars PROVE TelemetryInv'
  BY <1>10, <1>0 DEF vars, runtimeVars
<1> QED BY Steps, <1>1, <1>2, <1>3, <1>4, <1>5, <1>6, <1>7, <1>8, <1>9, <1>10

-----------------------------------------------------------------------------
(***************************************************************************)
(* The invariant, and what follows from it.                                 *)
(***************************************************************************)
LEMMA InitSampler ==
  ASSUME Init
  PROVE  SamplerInv
<1>1. TypeOK
  <2>1. closed \in BOOLEAN /\ native \in BOOLEAN
    BY Zenon DEF Init
  <2>2. StateTypes /\ WorkerTypes
    BY DEF Init, StateTypes, WorkerTypes
  <2> QED BY <2>1, <2>2, TypeParts
<1>2. OwnerInv /\ OpenInv /\ HandleInv /\ QuietAfterClose
  BY Threads DEF Init, OwnerInv, OpenInv, Open, HandleInv, Target, QuietAfterClose
<1>3. PhaseInv
  BY DEF Init, PhaseInv
<1>4. /\ definitions = <<>> /\ updates = <<>> /\ dropped = 0 /\ recorded = 0 /\ retained = NoBatch
      /\ replaying = <<>> /\ replayed = 0 /\ lost = 0 /\ reported = 0 /\ latest = 0 /\ mark = 0
      /\ drain = "none" /\ cap = Fit /\ Fit \in Nat /\ ~closed
  BY TelemetryAssumption DEF Init, TelemetryInit
<1>5. retained.updates = <<>> /\ retained.dropped = 0 /\ ~retained.some
  BY <1>4, NoBatchIs
<1>6. <<>> \in Seq(Instruments)
  OBVIOUS
<1>7. BufferTypes
  BY <1>4, <1>5, <1>6, EmptyUpdates DEF BufferTypes
<1>8. BatchInv
  BY <1>4, <1>5 DEF BatchInv
<1>9. CountInv
  BY <1>4, <1>5, EmptyUpdates DEF CountInv
<1>10. OrderInv
  BY <1>4, <1>5, EmptyUpdates DEF OrderInv
<1>11. MarkInv
  BY <1>4 DEF MarkInv
<1> QED BY <1>1, <1>2, <1>3, <1>7, <1>8, <1>9, <1>10, <1>11 DEF SamplerInv

\* SamplerInv, the inductive invariant of sampling, closing and replaying, holds
\* in every reachable state, however they interleave.
THEOREM SamplerInvariant == Spec => []SamplerInv
<1>1. Init => SamplerInv
  BY InitSampler
<1>2. SamplerInv /\ [Next]_vars => SamplerInv'
  <2> SUFFICES ASSUME SamplerInv, [Next]_vars PROVE SamplerInv'
    OBVIOUS
  <2>s. /\ TypeOK /\ OwnerInv /\ PhaseInv /\ OpenInv /\ HandleInv /\ QuietAfterClose
        /\ TelemetryInv
    BY DEF SamplerInv, TelemetryInv
  <2>1. TypeOK'
    BY <2>s, TypeStep
  <2>2. OwnerInv'
    BY <2>s, OwnerStep
  <2>3. PhaseInv' /\ QuietAfterClose'
    BY <2>s, PhaseStep
  <2>4. OpenInv'
    BY <2>s, OpenStep
  <2>5. HandleInv'
    BY <2>s, HandleStep
  <2>6. TelemetryInv'
    BY <2>s, TelemetryStep
  <2> QED BY <2>1, <2>2, <2>3, <2>4, <2>5, <2>6 DEF SamplerInv, TelemetryInv
<1> QED BY <1>1, <1>2, PTL DEF Spec

\* The native side is never asked about a freed handle: sample() works on
\* registered workers, TemporalWorker.close unregisters before it frees, and a
\* drain ends before the runtime is freed.
THEOREM SampledHandlesAreLive == Spec => []HandlesLiveWhenSampled
<1>1. SamplerInv => HandlesLiveWhenSampled
  BY DEF SamplerInv, HandleInv, PhaseInv, HandlesLiveWhenSampled
<1> QED BY <1>1, SamplerInvariant, PTL

\* Once TemporalRuntime.close has returned to the thread that closed the runtime,
\* no hook runs and no telemetry arrives.
THEOREM QuietOnceClosed == Spec => []QuietAfterClose
<1>1. SamplerInv => QuietAfterClose
  BY DEF SamplerInv
<1> QED BY <1>1, SamplerInvariant, PTL

\* Every recorded update is on its way, replayed, lost to an exception or
\* reported as dropped, once and in order, and the close that freed the native
\* runtime left none behind that was recorded before it.
THEOREM TelemetryIsAccounted == Spec => []TelemetryAccounted
<1>1. SamplerInv => TelemetryAccounted
  <2> SUFFICES ASSUME SamplerInv PROVE TelemetryAccounted
    OBVIOUS
  <2>s. BufferTypes /\ BatchInv /\ CountInv /\ OrderInv /\ MarkInv /\ PhaseInv
    BY DEF SamplerInv
  <2>1. PICK first, s : first = replaying \o retained.updates /\ s = first \o updates
    OBVIOUS
  <2>2. /\ replaying \in Seq(Update) /\ retained.updates \in Seq(Update) /\ updates \in Seq(Update)
        /\ Len(replaying) \in Nat /\ Len(retained.updates) \in Nat /\ Len(updates) \in Nat
        /\ latest \in Nat /\ mark \in Nat
    BY <2>s, Elements DEF BufferTypes
  <2>3. Before(replaying, retained.updates)
    <3>1. replaying = <<>> \/ retained.updates = <<>>
      BY <2>s, NoBatchIs DEF BatchInv
    <3> QED BY <3>1, EmptyUpdates
  <2>4. /\ first \in Seq(Update) /\ Len(first) = Len(replaying) + Len(retained.updates)
        /\ Ascending(first)
        /\ \A m \in Nat : After(m, replaying) /\ After(m, retained.updates) => After(m, first)
        /\ \A q \in Seq(Update) :
             Before(replaying, q) /\ Before(retained.updates, q) => Before(first, q)
    BY <2>s, <2>1, <2>2, <2>3, ConcatKeeps DEF OrderInv
  <2>5. Before(first, updates) /\ Ascending(updates)
    BY <2>s, <2>2, <2>4 DEF OrderInv
  <2>6. /\ s \in Seq(Update) /\ Len(s) = Len(first) + Len(updates) /\ Ascending(s)
        /\ \A m \in Nat : After(m, first) /\ After(m, updates) => After(m, s)
    BY <2>1, <2>2, <2>4, <2>5, ConcatKeeps
  <2>7. InOrder = s /\ DOMAIN s = 1..Len(s)
    BY <2>1, <2>6, LenProperties DEF InOrder
  <2>8. recorded = replayed + lost + reported + Len(s) + retained.dropped + dropped
    <3>1. PICK a, b, c : a = Len(replaying) /\ b = Len(retained.updates) /\ c = retained.dropped
      OBVIOUS
    <3>2. a \in Nat /\ b \in Nat /\ c \in Nat /\ Len(updates) \in Nat
      BY <2>s, <2>2, <3>1 DEF BufferTypes
    <3>3. replayed \in Nat /\ lost \in Nat /\ reported \in Nat /\ dropped \in Nat
      BY <2>s DEF BufferTypes
    <3>4. recorded = replayed + lost + reported + a + b + Len(updates) + c + dropped
      BY <2>s, <3>1 DEF CountInv
    <3>5. Len(s) = a + b + Len(updates)
      BY <2>4, <2>6, <3>1
    <3>6. recorded = replayed + lost + reported + (a + b + Len(updates)) + c + dropped
      BY <3>2, <3>3, <3>4
    <3> QED BY <3>1, <3>5, <3>6
  <2>9. After(latest, s)
    BY <2>s, <2>2, <2>4, <2>6 DEF OrderInv
  <2>10. native \/ After(mark, s)
    <3> SUFFICES ASSUME ~native PROVE After(mark, s)
      OBVIOUS
    <3>1. closed /\ drain = "none"
      BY <2>s DEF PhaseInv
    <3>2. replaying = <<>> /\ retained.updates = <<>>
      BY <2>s, <3>1, NoBatchIs DEF BatchInv
    <3>3. After(mark, updates)
      BY <2>s, <3>1 DEF MarkInv
    <3> QED BY <2>2, <2>4, <2>6, <3>2, <3>3, EmptyUpdates
  <2>11. \A m, n \in DOMAIN s : m < n => s[m].n < s[n].n
    BY <2>6, <2>7 DEF Ascending
  <2>12. /\ \A m \in DOMAIN s : s[m].n > latest
         /\ native \/ \A m \in DOMAIN s : s[m].n > mark
    <3>1. \A m \in 1..Len(s) : s[m].n \in Nat
      BY <2>6, Elements
    <3> QED BY <2>2, <2>7, <2>9, <2>10, <3>1 DEF After
  <2> QED BY <2>7, <2>8, <2>11, <2>12 DEF TelemetryAccounted
<1> QED BY <1>1, SamplerInvariant, PTL

-----------------------------------------------------------------------------
(***************************************************************************)
(* Who waits for whom.                                                     *)
(***************************************************************************)

\* A lock is held by somebody at work: a worker's monitor by the close of that worker,
\* past the lock; sampleLock by a sample or by a close past the lock; and the sampler's
\* thread, in a hook, closes one thing at a time.
HolderInv ==
  /\ \A w \in Workers : monitor[w] # NoThread =>
       closeWorker[monitor[w]] \in {"owning", "removed"} /\ Target(monitor[w]) = w
  /\ sampleLock = SamplerThread => sampler # "idle"
  /\ \A t \in Closers : sampleLock = t => closing[t] \in {"locked", "draining", "freed"}
  /\ closeWorker[SamplerThread] # "out" => closing[SamplerThread] \in {"out", "skipped", "returned"}

\* Every step keeps who holds what: a thread releases on its way out what it has locked.
LEMMA HolderStep ==
  ASSUME TypeOK, OwnerInv, OpenInv, HolderInv, [Next]_vars
  PROVE  HolderInv'
<1> USE Threads DEF Target
<1>0. ASSUME UNCHANGED <<monitor, closeWorker, sampleLock, sampler, current, closing>>
      PROVE  HolderInv'
  BY <1>0 DEF HolderInv
<1>1. ASSUME CoreStep \/ RetrieveAgain \/ Retrieve \/ CreateInstruments \/ ReplayOne \/ ReplayEnd
             \/ UNCHANGED vars
      PROVE  HolderInv'
  <2>1. UNCHANGED controlVars
    BY <1>1, DrainMoves
  <2> QED BY <2>1, <1>0 DEF controlVars, lockVars, samplerVars, workerVars
<1>2. ASSUME SampleBegin \/ SampleWorkersBegin \/ SampleWorkersEnd \/ SampleDrain PROVE HolderInv'
  BY <1>2 DEF SampleBegin, SampleWorkersBegin, SampleWorkersEnd, SampleDrain, HolderInv, TypeOK,
              lockVars, workerVars
<1>3. ASSUME NEW w \in Workers, SampleWorker(w) PROVE HolderInv'
  BY <1>0, <1>3 DEF SampleWorker, lockVars, workerVars
<1>4. ASSUME NEW w \in Workers, Deliver(w) PROVE HolderInv'
  BY <1>4 DEF Deliver, HolderInv, OpenInv, TypeOK, lockVars, workerVars
<1>5. ASSUME HookEnds PROVE HolderInv'
  BY <1>5 DEF HookEnds, InHook, HolderInv, TypeOK, lockVars, workerVars
<1>6. ASSUME SampleEnd PROVE HolderInv'
  BY <1>6 DEF SampleEnd, HolderInv, TypeOK, workerVars
<1>7. ASSUME NEW t \in CloseThreads, CloseCall(t) \/ CloseFlag(t) \/ CloseFree(t) PROVE HolderInv'
  BY <1>7 DEF CloseCall, CloseFlag, CloseFree, InHook, OwnerInv, HolderInv, TypeOK, lockVars,
              samplerVars, workerVars
<1>8. ASSUME NEW t \in CloseThreads, CloseLock(t) PROVE HolderInv'
  BY <1>8 DEF CloseLock, OwnerInv, HolderInv, TypeOK, samplerVars, workerVars
<1>9. ASSUME NEW t \in CloseThreads, CloseEnd(t) PROVE HolderInv'
  BY <1>9 DEF CloseEnd, OwnerInv, HolderInv, TypeOK, samplerVars, workerVars
<1>10. ASSUME NEW w \in Workers,
              CreateCheck(w) \/ CreateHandle(w) \/ Register(w) \/ Start(w) \/ CreateUndo(w)
                \/ CreateFails(w) \/ Observe(w)
       PROVE  HolderInv'
  BY <1>0, <1>10 DEF CreateCheck, CreateHandle, Register, Start, CreateUndo, CreateFails, Observe,
                     lockVars, samplerVars, workerVars
<1>11. ASSUME NEW t \in WorkerThreads, WorkerCloseCall(t) PROVE HolderInv'
  BY <1>11 DEF WorkerCloseCall, InHook, HolderInv, TypeOK, lockVars, samplerVars
<1>12. ASSUME NEW t \in WorkerThreads, WorkerCloseLock(t) PROVE HolderInv'
  <2>1. Target(t) \in Workers
    BY <1>12, TargetOpen DEF WorkerCloseLock
  <2> QED BY <1>12, <2>1 DEF WorkerCloseLock, HolderInv, TypeOK, lockVars, samplerVars
<1>13. ASSUME NEW t \in WorkerThreads, WorkerCloseRemove(t) PROVE HolderInv'
  BY <1>13 DEF WorkerCloseRemove, HolderInv, TypeOK, lockVars, samplerVars
<1>14. ASSUME NEW t \in WorkerThreads, WorkerCloseFree(t) PROVE HolderInv'
  <2>1. Target(t) \in Workers
    BY <1>14, TargetOpen DEF WorkerCloseFree
  <2> QED BY <1>14, <2>1 DEF WorkerCloseFree, HolderInv, TypeOK, lockVars, samplerVars
<1> QED
  BY Steps, <1>1, <1>2, <1>3, <1>4, <1>5, <1>6, <1>7, <1>8, <1>9, <1>10, <1>11, <1>12, <1>13, <1>14

\* The sampler gives up the runtime's monitor without another lock.
LEMMA UpdatingWaitsForNobody ==
  ASSUME TypeOK, OwnerInv, OpenInv, lock # NoThread, NEW x
  PROVE  lock = SamplerThread /\ ~WaitsFor(SamplerThread, x)
<1>1. lock = SamplerThread /\ sampler = "updating"
  BY DEF TypeOK, OwnerInv
<1>2. closeWorker[SamplerThread] = "out" /\ closing[SamplerThread] \notin {"entering", "locked"}
  BY <1>1 DEF OwnerInv, OpenInv
<1> QED BY <1>1, <1>2, Threads DEF WaitsFor

\* The close of a worker that has the worker's monitor waits at most for the runtime's.
LEMMA ClosingWaitsForLock ==
  ASSUME TypeOK, OwnerInv, OpenInv, HolderInv, NEW w \in Workers, monitor[w] # NoThread,
         NEW x, WaitsFor(monitor[w], x)
  PROVE  lock = x
<1> USE Threads
<1>1. PICK u \in WorkerThreads : u = monitor[w]
  BY DEF TypeOK
<1>2. closeWorker[u] \in {"owning", "removed"}
  BY <1>1 DEF HolderInv
<1>3. CASE u = SamplerThread
  <2>1. sampler = "hook" /\ closing[SamplerThread] \in {"out", "skipped", "returned"}
    BY <1>2, <1>3 DEF OpenInv, HolderInv
  <2> QED BY <1>1, <1>2, <1>3, <2>1 DEF WaitsFor
<1>4. CASE u \in Workers
  <2>1. creating[u] = "open" /\ u \notin CloseThreads
    BY <1>2, <1>4, ThreadsAssumption DEF OpenInv, Open, CloseThreads
  <2> QED BY <1>1, <1>2, <1>4, <2>1 DEF WaitsFor
<1> QED BY <1>1, <1>3, <1>4

\* sampleLock is taken before a worker's monitor and that before the runtime's, also by the
\* hooks that close workers or the runtime (TemporalRuntime.kt:160): no threads wait in a
\* circle, however many close at once, and nobody waits behind more than two others.
THEOREM NobodyWaitsInACircle == Spec => []NoCircularWait
<1>1. Init => HolderInv
  BY Threads DEF Init, HolderInv
<1>2. SamplerInv /\ HolderInv /\ [Next]_vars => HolderInv'
  BY HolderStep DEF SamplerInv
<1>3. SamplerInv /\ HolderInv => NoCircularWait
  <2> SUFFICES ASSUME TypeOK, OwnerInv, OpenInv, HolderInv,
                      NEW t \in CloseThreads \cup WorkerThreads, NEW u \in CloseThreads \cup WorkerThreads,
                      NEW v \in CloseThreads \cup WorkerThreads, NEW x \in CloseThreads \cup WorkerThreads,
                      WaitsFor(t, u), WaitsFor(u, v), WaitsFor(v, x)
               PROVE  FALSE
    BY DEF SamplerInv, NoCircularWait
  <2> USE Threads
  <2>n. u # NoThread /\ v # NoThread /\ x # NoThread
    OBVIOUS
  <2>1. u # lock /\ v # lock
    BY <2>n, UpdatingWaitsForNobody
  <2>2. ASSUME NEW w \in Workers, monitor[w] = u PROVE FALSE
    BY <2>1, <2>2, <2>n, ClosingWaitsForLock
  <2>3. closing[t] = "entering" /\ sampleLock = u /\ t # u /\ t \in CloseThreads
    <3>1. t \in WorkerThreads /\ closeWorker[t] = "entering" => Target(t) \in Workers
      BY TargetOpen
    <3> QED BY <2>1, <2>2, <3>1 DEF WaitsFor
  <2>4. CASE u = SamplerThread
    <3>1. closeWorker[u] = "entering" /\ monitor[Target(u)] = v
      BY <2>1, <2>3, <2>4 DEF WaitsFor
    <3>2. Target(u) \in Workers /\ sampler = "hook"
      BY <2>4, <3>1, TargetOpen DEF OpenInv
    <3>3. lock = x
      BY <2>n, <3>1, <3>2, ClosingWaitsForLock
    <3> QED BY <2>n, <3>2, <3>3 DEF OwnerInv, TypeOK
  <2>5. CASE u \in Closers
    <3>1. closing[u] \in {"locked", "draining", "freed"} /\ u \notin WorkerThreads
      BY <2>3, <2>5, ThreadsAssumption DEF HolderInv, WorkerThreads
    <3> QED BY <2>1, <2>5, <3>1 DEF WaitsFor
  <2> QED BY <2>3, <2>4, <2>5 DEF TypeOK
<1> QED BY <1>1, <1>2, <1>3, SamplerInvariant, PTL DEF Spec
=============================================================================
