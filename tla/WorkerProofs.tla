---------------------------- MODULE WorkerProofs ----------------------------
(***************************************************************************)
(* Proofs about Worker for any finite set of streams and any number of        *)
(* shutdowns: Core is finalized once and by the holder of the last reference, *)
(* no completion is stranded, and the streams are what NativeStreams promises; *)
(* and about TaskStream, the JVM's end of such a stream, for any number of     *)
(* receivers, tasks and cancellations.                                     *)
(***************************************************************************)
EXTENDS Worker, TaskStream, Integers, FiniteSetTheorems, SequenceTheorems, TLAPS

LivePumps == { k \in Streams : pump[k] \in {"polling", "leaving"} }
OffLoop == {"leaving", "gone"}

\* The poll loops.  live_pumps counts them exactly; the ones that are left have
\* told the JVM so, except in a force-close, and a stream that reported ShutDown
\* has no task out.
PumpInv ==
  /\ livePumps = Cardinality(LivePumps)
  /\ ~started => coreFinal = "no" /\ \A k \in Streams : pump[k] = "none" /\ task[k] = "none"
  /\ started => \A k \in Streams : pump[k] # "none"
  /\ aborted # {} => freed
  /\ sawShutDown \subseteq ended
  /\ \A k \in Streams :
       /\ k \in ended => pump[k] \in OffLoop
       /\ pump[k] \in OffLoop => k \in ended \/ freed
       /\ k \in sawShutDown => task[k] = "none"

\* shutdown_lock: held by the one actor between taking it and its end.
Holding == {"draining", "finalizing", "awaitingCore"}
LockInv ==
  /\ \A a \in Actors : (actor[a] \in Holding <=> lock = a) /\ (lock = a => state # "running")
  /\ \A s \in Shutdowns :
       /\ actor[<<s, "bg">>] # "idle" => started
       /\ actor[<<s, "fg">>] \in Holding => started
       /\ actor[<<s, "fg">>] = "ok" => state # "running"

\* The end of the worker.  A finalized state has a reason: a force-close, a worker
\* that was never started, a finished finalization, or one in progress; and until a
\* force-close a finalized worker has no loop polling.
StageInv ==
  \A a \in Actors :
    /\ actor[a] = "draining" => freed \/ state = "draining"
    /\ actor[a] = "finalizing" => freed \/ state = "finalized"
    /\ actor[a] = "awaitingCore" => coreFinal = "called"
ReasonInv ==
  /\ state = "finalized" => freed \/ ~started \/ coreFinal = "done"
       \/ \E a \in Actors : actor[a] \in {"finalizing", "awaitingCore"}
  /\ state = "finalized" /\ ~freed => \A k \in Streams : pump[k] \notin {"polling", "leaving"}
CoreInv ==
  coreFinal # "no" =>
    /\ state = "finalized"
    /\ \A a \in Actors : actor[a] \notin {"draining", "finalizing"}
    /\ \A k \in Streams : pump[k] # "polling" /\ task[k] # "completing"
EndInv == StageInv /\ ReasonInv /\ CoreInv

\* A shutdown that succeeded has finalized Core, or there was nothing to finalize.
OkInv ==
  \A s \in Shutdowns : actor[<<s, "fg">>] = "ok" => coreFinal = "done" \/ ~started \/ freed

WorkerInv == TypeOK /\ PumpInv /\ LockInv /\ EndInv /\ OkInv /\ NoStrandedCompletion

-----------------------------------------------------------------------------
(***************************************************************************)
(* Facts about the actors and the steps of Next.                           *)
(***************************************************************************)

\* An actor is the foreground or the background of one shutdown; NoActor is none.
LEMMA ActorFacts ==
  /\ NoActor \notin Actors
  /\ \A s \in Shutdowns : <<s, "fg">> \in Actors /\ <<s, "bg">> \in Actors
  /\ \A s, t \in Shutdowns : <<s, "fg">> # <<t, "bg">>
  /\ \A a \in Actors : \E s \in Shutdowns : a = <<s, "fg">> \/ a = <<s, "bg">>
BY ShutdownsAssumption DEF Actors, NoActor

\* The steps of the poll loops and of the JVM's completions.
LoopStep(k) ==
  \/ PumpTask(k) \/ PumpShutDown(k) \/ PumpAborted(k) \/ PumpLeave(k)
  \/ PumpError(k) \/ PumpPanic(k) \/ CompleteBegin(k) \/ CompleteEnd(k)

\* The steps of a shutdown.
ShutdownStep ==
  \/ \E s \in Shutdowns :
       \/ ShutdownCall(s) \/ ShutdownBegin(s) \/ Drained(s) \/ BackgroundFinalize(s)
       \/ GraceExpires(s) \/ ShutdownCancelled(s)
  \/ \E a \in Actors : Unwrap(a) \/ CoreFinalized(a) \/ GiveUp(a)

\* The two groups and the three calls are all of Next.
LEMMA Steps ==
  Next => Start \/ InitiateShutdown \/ Free \/ (\E k \in Streams : LoopStep(k)) \/ ShutdownStep
BY ActorFacts DEF Next, PumpStep, JvmStep, ActorStep, LoopStep, ShutdownStep

\* A loop step leaves the shutdowns alone, and a shutdown step the loops.
LEMMA Frames ==
  /\ \A k \in Streams :
       LoopStep(k) => UNCHANGED <<state, started, coreFinal, actor, lock, freed>>
  /\ ShutdownStep => UNCHANGED <<pumpVars, started, freed>>
<1>1. ASSUME NEW k \in Streams, LoopStep(k)
      PROVE  UNCHANGED <<state, started, coreFinal, actor, lock, freed>>
  BY <1>1 DEF LoopStep, PumpTask, PumpShutDown, PumpAborted, PumpLeave, PumpError, PumpPanic,
              CompleteBegin, CompleteEnd
<1>2. ASSUME ShutdownStep PROVE UNCHANGED <<pumpVars, started, freed>>
  BY <1>2 DEF ShutdownStep, ShutdownCall, ShutdownBegin, Drained, BackgroundFinalize,
              GraceExpires, ShutdownCancelled, Unwrap, CoreFinalized, GiveUp
<1> QED BY <1>1, <1>2

-----------------------------------------------------------------------------
(***************************************************************************)
(* Type correctness.                                                       *)
(***************************************************************************)
LEMMA TypeInit == Init => TypeOK
<1> SUFFICES ASSUME Init PROVE TypeOK
  OBVIOUS
<1>1. started \in BOOLEAN /\ coreDown \in BOOLEAN /\ freed \in BOOLEAN
  BY Zenon DEF Init
<1>2. /\ pump \in [Streams -> PumpSteps] /\ task \in [Streams -> TaskStates]
      /\ handed \in [Streams -> Nat] /\ actor \in [Actors -> ActorSteps]
  BY DEF Init, PumpSteps, TaskStates, ActorSteps
<1> QED BY <1>1, <1>2 DEF Init, TypeOK

\* The counter never goes below zero: a loop that leaves is one that was counted.
LEMMA CountDown ==
  ASSUME TypeOK, PumpInv, NEW k \in Streams, PumpLeave(k)
  PROVE  livePumps \in Nat \ {0} /\ livePumps' = Cardinality(LivePumps')
<1>1. IsFiniteSet(LivePumps) /\ k \in LivePumps
  BY StreamsAssumption, FS_Subset DEF LivePumps, PumpLeave
<1>2. LivePumps' = LivePumps \ {k}
  BY DEF TypeOK, LivePumps, PumpLeave
<1>3. Cardinality(LivePumps') = Cardinality(LivePumps) - 1
  BY <1>1, <1>2, FS_RemoveElement
<1>4. Cardinality(LivePumps) \in Nat /\ Cardinality(LivePumps) # 0
  BY <1>1, FS_CardinalityType, FS_EmptySet
<1> QED BY <1>3, <1>4 DEF PumpInv, PumpLeave

LEMMA TypeStep == TypeOK /\ PumpInv /\ [Next]_vars => TypeOK'
<1> SUFFICES ASSUME TypeOK, PumpInv, [Next]_vars PROVE TypeOK'
  OBVIOUS
<1>1. CASE Start
  <2>1. Cardinality(Streams) \in Nat
    BY StreamsAssumption, FS_CardinalityType
  <2> QED BY <1>1, <2>1 DEF Start, TypeOK, PumpSteps
<1>2. CASE InitiateShutdown
  BY <1>2 DEF InitiateShutdown, TypeOK, pumpVars
<1>3. CASE Free
  <2>1. aborted' \subseteq Streams
    BY <1>3 DEF Free
  <2>2. coreDown' \in BOOLEAN /\ freed' \in BOOLEAN /\ started' \in BOOLEAN
    BY <1>3, Zenon DEF Free, TypeOK
  <2>3. state' \in {"running", "draining", "finalized"}
    BY <1>3 DEF Free
  <2> QED BY <1>3, <2>1, <2>2, <2>3 DEF Free, TypeOK
<1>4. ASSUME NEW k \in Streams, LoopStep(k) PROVE TypeOK'
  <2>1. CASE PumpLeave(k)
    <3>1. livePumps' \in Nat
      <4>1. livePumps \in Nat \ {0}
        BY <2>1, CountDown
      <4> QED BY <2>1, <4>1 DEF PumpLeave
    <3>2. pump' \in [Streams -> PumpSteps]
      BY <2>1 DEF PumpLeave, TypeOK, PumpSteps
    <3> QED BY <2>1, <3>1, <3>2 DEF PumpLeave, TypeOK
  <2>2. CASE PumpTask(k)
    BY <2>2 DEF PumpTask, TypeOK, TaskStates
  <2>3. CASE PumpShutDown(k) \/ PumpAborted(k) \/ PumpPanic(k)
    BY <2>3 DEF PumpShutDown, PumpAborted, PumpPanic, TypeOK, PumpSteps
  <2>4. CASE PumpError(k)
    BY <2>4 DEF PumpError, TypeOK
  <2>5. CASE CompleteBegin(k) \/ CompleteEnd(k)
    BY <2>5 DEF CompleteBegin, CompleteEnd, TypeOK, TaskStates
  <2> QED BY <1>4, <2>1, <2>2, <2>3, <2>4, <2>5 DEF LoopStep
<1>5. CASE ShutdownStep
  <2>1. actor' \in [Actors -> ActorSteps]
    <3>1. ASSUME NEW s \in Shutdowns,
                 \/ ShutdownCall(s) \/ ShutdownBegin(s) \/ Drained(s)
                 \/ GraceExpires(s) \/ ShutdownCancelled(s)
          PROVE  actor' \in [Actors -> ActorSteps]
      BY <3>1 DEF ShutdownCall, ShutdownBegin, Drained, GraceExpires, ShutdownCancelled,
           TypeOK, ActorSteps
    <3>2. ASSUME NEW s \in Shutdowns, BackgroundFinalize(s)
          PROVE  actor' \in [Actors -> ActorSteps]
      BY <3>2 DEF BackgroundFinalize, TypeOK, ActorSteps
    <3>3. ASSUME NEW a \in Actors, Unwrap(a) \/ CoreFinalized(a) \/ GiveUp(a)
          PROVE  actor' \in [Actors -> ActorSteps]
      BY <3>3 DEF Unwrap, CoreFinalized, GiveUp, TypeOK, ActorSteps
    <3> QED BY <1>5, <3>1, <3>2, <3>3 DEF ShutdownStep
  <2>2. lock' \in Actors \cup {NoActor}
    <3>1. ASSUME NEW s \in Shutdowns,
                 \/ ShutdownCall(s) \/ ShutdownBegin(s) \/ Drained(s) \/ BackgroundFinalize(s)
                 \/ GraceExpires(s) \/ ShutdownCancelled(s)
          PROVE  lock' \in Actors \cup {NoActor}
      BY <3>1, ActorFacts DEF ShutdownCall, ShutdownBegin, Drained, BackgroundFinalize,
           GraceExpires, ShutdownCancelled, TypeOK
    <3>2. ASSUME NEW a \in Actors, Unwrap(a) \/ CoreFinalized(a) \/ GiveUp(a)
          PROVE  lock' \in Actors \cup {NoActor}
      BY <3>2 DEF Unwrap, CoreFinalized, GiveUp, TypeOK
    <3> QED BY <1>5, <3>1, <3>2 DEF ShutdownStep
  <2>3. /\ state' \in {"running", "draining", "finalized"}
        /\ coreFinal' \in {"no", "called", "done"}
        /\ coreDown' \in BOOLEAN
    BY <1>5 DEF ShutdownStep, ShutdownCall, ShutdownBegin, Drained,
         BackgroundFinalize, GraceExpires, ShutdownCancelled, Unwrap, CoreFinalized, GiveUp, TypeOK
  <2> QED BY <1>5, <2>1, <2>2, <2>3, Frames DEF TypeOK, pumpVars
<1>6. CASE UNCHANGED vars
  BY <1>6 DEF TypeOK, vars
<1> QED BY <1>1, <1>2, <1>3, <1>4, <1>5, <1>6, Steps

-----------------------------------------------------------------------------
(***************************************************************************)
(* The poll loops.                                                         *)
(***************************************************************************)
LEMMA PumpInit == Init => PumpInv
BY FS_EmptySet DEF Init, PumpInv, LivePumps, OffLoop

LEMMA PumpKept == TypeOK /\ PumpInv /\ LockInv /\ [Next]_vars => PumpInv'
<1> SUFFICES ASSUME TypeOK, PumpInv, LockInv, [Next]_vars PROVE PumpInv'
  OBVIOUS
<1>1. CASE Start
  <2>1. LivePumps' = Streams
    BY <1>1 DEF Start, LivePumps
  <2> QED BY <1>1, <2>1 DEF Start, PumpInv, TypeOK, OffLoop
<1>2. CASE InitiateShutdown
  BY <1>2 DEF InitiateShutdown, PumpInv, LivePumps, pumpVars
<1>3. CASE Free
  BY <1>3 DEF Free, PumpInv, LivePumps
<1>4. ASSUME NEW k \in Streams, LoopStep(k) PROVE PumpInv'
  <2>1. CASE PumpLeave(k)
    BY <2>1, CountDown DEF PumpLeave, TypeOK, PumpInv, OffLoop
  <2>2. CASE PumpTask(k) \/ CompleteBegin(k) \/ CompleteEnd(k)
    <3>1. LivePumps' = LivePumps
      BY <2>2 DEF LivePumps, PumpTask, CompleteBegin, CompleteEnd
    <3> QED BY <2>2, <3>1 DEF PumpTask, CompleteBegin, CompleteEnd, PumpInv, TypeOK, OffLoop
  <2>3. CASE PumpShutDown(k) \/ PumpAborted(k) \/ PumpPanic(k)
    <3>1. LivePumps' = LivePumps
      BY <2>3 DEF LivePumps, PumpShutDown, PumpAborted, PumpPanic, TypeOK
    <3> QED BY <2>3, <3>1 DEF PumpShutDown, PumpAborted, PumpPanic, PumpInv, TypeOK, OffLoop
  <2>4. CASE PumpError(k)
    BY <2>4 DEF PumpError, PumpInv, LivePumps
  <2> QED BY <1>4, <2>1, <2>2, <2>3, <2>4 DEF LoopStep
<1>5. CASE ShutdownStep
  <2>1. ~started => coreFinal' = coreFinal
    BY <1>5, ActorFacts DEF ShutdownStep, ShutdownCall, ShutdownBegin, Drained,
         BackgroundFinalize, GraceExpires, ShutdownCancelled, Unwrap, CoreFinalized, GiveUp,
         LockInv, Holding
  <2> QED BY <1>5, <2>1, Frames DEF PumpInv, LivePumps, pumpVars
<1>6. CASE UNCHANGED vars
  BY <1>6 DEF PumpInv, LivePumps, vars
<1> QED BY <1>1, <1>2, <1>3, <1>4, <1>5, <1>6, Steps

-----------------------------------------------------------------------------
(***************************************************************************)
(* The shutdown lock.                                                      *)
(***************************************************************************)
LEMMA LockInit == Init => LockInv
BY ActorFacts DEF Init, LockInv, Holding

LEMMA LockKept == TypeOK /\ LockInv /\ [Next]_vars => LockInv'
<1> SUFFICES ASSUME TypeOK, LockInv, [Next]_vars PROVE LockInv'
  OBVIOUS
<1> USE ActorFacts
<1>1. CASE Start
  BY <1>1 DEF Start, LockInv
<1>2. CASE InitiateShutdown
  BY <1>2 DEF InitiateShutdown, LockInv
<1>3. CASE Free
  BY <1>3 DEF Free, LockInv
<1>4. ASSUME NEW k \in Streams, LoopStep(k) PROVE LockInv'
  BY <1>4, Frames DEF LockInv
<1>5. CASE ShutdownStep
  <2>1. ASSUME NEW s \in Shutdowns, ShutdownCall(s) PROVE LockInv'
    BY <2>1 DEF ShutdownCall, LockInv, Holding, TypeOK
  <2>2. ASSUME NEW s \in Shutdowns, ShutdownBegin(s) PROVE LockInv'
    BY <2>2 DEF ShutdownBegin, LockFree, LockInv, Holding, TypeOK
  <2>3. ASSUME NEW s \in Shutdowns, Drained(s) PROVE LockInv'
    BY <2>3 DEF Drained, LockInv, Holding, TypeOK
  <2>4. ASSUME NEW s \in Shutdowns, BackgroundFinalize(s) PROVE LockInv'
    BY <2>4 DEF BackgroundFinalize, LockFree, LockInv, Holding, TypeOK
  <2>5. ASSUME NEW s \in Shutdowns, GraceExpires(s) PROVE LockInv'
    BY <2>5 DEF GraceExpires, LockInv, Holding, TypeOK
  <2>6. ASSUME NEW s \in Shutdowns, ShutdownCancelled(s) PROVE LockInv'
    BY <2>6 DEF ShutdownCancelled, LockInv, Holding, TypeOK
  <2>7. ASSUME NEW a \in Actors, Unwrap(a) PROVE LockInv'
    BY <2>7 DEF Unwrap, LockInv, Holding, TypeOK
  <2>8. ASSUME NEW a \in Actors, CoreFinalized(a) PROVE LockInv'
    BY <2>8 DEF CoreFinalized, LockInv, Holding, TypeOK
  <2>9. ASSUME NEW a \in Actors, GiveUp(a) PROVE LockInv'
    BY <2>9 DEF GiveUp, LockInv, Holding, TypeOK
  <2> QED BY <1>5, <2>1, <2>2, <2>3, <2>4, <2>5, <2>6, <2>7, <2>8, <2>9 DEF ShutdownStep
<1>6. CASE UNCHANGED vars
  BY <1>6 DEF LockInv, vars
<1> QED BY <1>1, <1>2, <1>3, <1>4, <1>5, <1>6, Steps

-----------------------------------------------------------------------------
(***************************************************************************)
(* The end of the worker.                                                  *)
(***************************************************************************)

\* With no loop counted there is none.
LEMMA NoneLeft ==
  ASSUME TypeOK, PumpInv, livePumps = 0
  PROVE  \A k \in Streams : pump[k] \notin {"polling", "leaving"}
<1>1. IsFiniteSet(LivePumps)
  BY StreamsAssumption, FS_Subset DEF LivePumps
<1>2. LivePumps = {}
  BY <1>1, FS_EmptySet DEF PumpInv
<1> QED BY <1>2 DEF LivePumps

LEMMA EndInit == Init => EndInv /\ OkInv
BY ActorFacts DEF Init, EndInv, StageInv, ReasonInv, CoreInv, OkInv

LEMMA EndKept ==
  TypeOK /\ PumpInv /\ LockInv /\ EndInv /\ OkInv /\ [Next]_vars => EndInv' /\ OkInv'
<1> SUFFICES ASSUME TypeOK, PumpInv, LockInv, EndInv, OkInv, [Next]_vars
             PROVE  EndInv' /\ OkInv'
  OBVIOUS
<1> USE ActorFacts
<1>1. CASE Start
  BY <1>1 DEF Start, EndInv, StageInv, ReasonInv, CoreInv, OkInv, LockInv, PumpInv, TypeOK
<1>2. CASE InitiateShutdown
  BY <1>2 DEF InitiateShutdown, EndInv, StageInv, ReasonInv, CoreInv, OkInv, pumpVars
<1>3. CASE Free
  BY <1>3 DEF Free, EndInv, StageInv, ReasonInv, CoreInv, OkInv, TypeOK
<1>4. ASSUME NEW k \in Streams, LoopStep(k) PROVE EndInv' /\ OkInv'
  <2>1. UNCHANGED <<state, started, coreFinal, actor, lock, freed>>
    BY <1>4, Frames
  <2>2. \A j \in Streams : pump'[j] \in {"polling", "leaving"} => pump[j] \in {"polling", "leaving"}
    BY <1>4 DEF LoopStep, PumpTask, PumpShutDown, PumpAborted, PumpLeave, PumpError, PumpPanic,
                CompleteBegin, CompleteEnd, TypeOK
  <2>3. \A j \in Streams : pump'[j] = "polling" => pump[j] = "polling"
    BY <1>4 DEF LoopStep, PumpTask, PumpShutDown, PumpAborted, PumpLeave, PumpError, PumpPanic,
                CompleteBegin, CompleteEnd, TypeOK
  <2>4. \A j \in Streams :
          task'[j] = "completing" => task[j] = "completing" \/ state # "finalized"
    BY <1>4 DEF LoopStep, PumpTask, PumpShutDown, PumpAborted, PumpLeave, PumpError, PumpPanic,
                CompleteBegin, CompleteEnd, TypeOK
  <2> QED BY <2>1, <2>2, <2>3, <2>4 DEF EndInv, StageInv, ReasonInv, CoreInv, OkInv
<1>5. CASE ShutdownStep
  <2>f. UNCHANGED <<pump, task, started, freed>>
    BY <1>5, Frames DEF pumpVars
  <2>1. ASSUME NEW s \in Shutdowns, ShutdownCall(s) PROVE EndInv' /\ OkInv'
    BY <2>1, <2>f DEF ShutdownCall, EndInv, StageInv, ReasonInv, CoreInv, OkInv, TypeOK
  <2>2. ASSUME NEW s \in Shutdowns, ShutdownBegin(s) PROVE EndInv' /\ OkInv'
    <3>1. StageInv'
      BY <2>2, <2>f DEF ShutdownBegin, LockFree, PumpInv, EndInv, StageInv, CoreInv, LockInv, Holding, TypeOK
    <3>2. ReasonInv'
      BY <2>2, <2>f DEF ShutdownBegin, LockFree, PumpInv, EndInv, StageInv, ReasonInv, LockInv, Holding, TypeOK
    <3>3. CoreInv'
      BY <2>2, <2>f DEF ShutdownBegin, LockFree, PumpInv, EndInv, StageInv, CoreInv, LockInv, Holding, TypeOK
    <3>4. OkInv'
      <4>1. \A a \in Actors : actor[a] \notin Holding
        BY <2>2 DEF ShutdownBegin, LockFree, LockInv
      <4>2. state = "finalized" => freed \/ ~started \/ coreFinal = "done"
        BY <4>1 DEF EndInv, ReasonInv, Holding
      <4>3. \A t \in Shutdowns : actor'[<<t, "fg">>] = "ok" =>
              actor[<<t, "fg">>] = "ok" \/ state = "finalized" \/ ~started
        BY <2>2 DEF ShutdownBegin, TypeOK
      <4>4. coreFinal' = coreFinal
        BY <2>2 DEF ShutdownBegin
      <4> QED BY <2>f, <4>2, <4>3, <4>4 DEF OkInv
    <3> QED BY <3>1, <3>2, <3>3, <3>4 DEF EndInv
  <2>3. ASSUME NEW s \in Shutdowns, Drained(s) PROVE EndInv' /\ OkInv'
    <3>1. \A k \in Streams : pump[k] \notin {"polling", "leaving"}
      BY <2>3, NoneLeft DEF Drained
    <3>2. StageInv'
      BY <2>3, <2>f, <3>1 DEF Drained, EndInv, StageInv, CoreInv, LockInv, Holding, TypeOK
    <3>a. state = "finalized" => freed
      BY <2>3 DEF Drained, EndInv, StageInv
    <3>3. ReasonInv'
      <4>1. freed \/ actor'[<<s, "fg">>] = "finalizing"
        BY <2>3, <3>a DEF Drained, TypeOK
      <4> QED BY <2>f, <3>1, <4>1 DEF ReasonInv
    <3>4. CoreInv'
      BY <2>3, <2>f, <3>1 DEF Drained, EndInv, StageInv, CoreInv, LockInv, Holding, TypeOK
    <3>5. OkInv'
      <4>1. \A t \in Shutdowns : actor'[<<t, "fg">>] = "ok" => actor[<<t, "fg">>] = "ok" \/ freed
        BY <2>3, <3>a DEF Drained, TypeOK
      <4>2. coreFinal' = coreFinal
        BY <2>3 DEF Drained
      <4> QED BY <2>f, <4>1, <4>2 DEF OkInv
    <3> QED BY <3>2, <3>3, <3>4, <3>5 DEF EndInv
  <2>4. ASSUME NEW s \in Shutdowns, BackgroundFinalize(s) PROVE EndInv' /\ OkInv'
    <3>1. \A k \in Streams : pump[k] \notin {"polling", "leaving"}
      BY <2>4, NoneLeft DEF BackgroundFinalize
    <3>2. StageInv'
      BY <2>4, <2>f, <3>1 DEF BackgroundFinalize, LockFree, EndInv, StageInv, CoreInv, LockInv, Holding, TypeOK
    <3>3. ReasonInv'
      <4>1. \A a \in Actors : actor[a] \notin Holding
        BY <2>4 DEF BackgroundFinalize, LockFree, LockInv
      <4>2. state = "finalized" => freed \/ ~started \/ coreFinal = "done"
        BY <4>1 DEF EndInv, ReasonInv, Holding
      <4>3. state = "finalized" \/ actor'[<<s, "bg">>] = "finalizing"
        BY <2>4 DEF BackgroundFinalize, TypeOK
      <4>4. coreFinal' = coreFinal
        BY <2>4 DEF BackgroundFinalize
      <4> QED BY <2>f, <3>1, <4>2, <4>3, <4>4 DEF ReasonInv
    <3>4. CoreInv'
      BY <2>4, <2>f, <3>1 DEF BackgroundFinalize, LockFree, EndInv, StageInv, CoreInv, LockInv, Holding, TypeOK
    <3>5. OkInv'
      <4>1. \A t \in Shutdowns : actor'[<<t, "fg">>] = "ok" => actor[<<t, "fg">>] = "ok"
        BY <2>4 DEF BackgroundFinalize, TypeOK
      <4>2. coreFinal' = coreFinal
        BY <2>4 DEF BackgroundFinalize
      <4> QED BY <2>f, <4>1, <4>2 DEF OkInv
    <3> QED BY <3>2, <3>3, <3>4, <3>5 DEF EndInv
  <2>5. ASSUME NEW s \in Shutdowns, GraceExpires(s) PROVE EndInv' /\ OkInv'
    <3>1. StageInv'
      BY <2>5, <2>f DEF GraceExpires, EndInv, StageInv, CoreInv, LockInv, Holding, TypeOK
    <3>2. ReasonInv'
      BY <2>5, <2>f DEF GraceExpires, EndInv, StageInv, ReasonInv, LockInv, Holding, TypeOK
    <3>3. CoreInv'
      BY <2>5, <2>f DEF GraceExpires, EndInv, StageInv, CoreInv, LockInv, Holding, TypeOK
    <3>4. OkInv'
      <4>1. \A t \in Shutdowns : actor'[<<t, "fg">>] = "ok" => actor[<<t, "fg">>] = "ok"
        BY <2>5 DEF GraceExpires, TypeOK
      <4>2. coreFinal' = coreFinal
        BY <2>5 DEF GraceExpires
      <4> QED BY <2>f, <4>1, <4>2 DEF OkInv
    <3> QED BY <3>1, <3>2, <3>3, <3>4 DEF EndInv
  <2>6. ASSUME NEW s \in Shutdowns, ShutdownCancelled(s) PROVE EndInv' /\ OkInv'
    <3>1. StageInv'
      BY <2>6, <2>f DEF ShutdownCancelled, EndInv, StageInv, CoreInv, LockInv, Holding, TypeOK
    <3>2. ReasonInv'
      BY <2>6, <2>f DEF ShutdownCancelled, EndInv, StageInv, ReasonInv, LockInv, Holding, TypeOK
    <3>3. CoreInv'
      BY <2>6, <2>f DEF ShutdownCancelled, EndInv, StageInv, CoreInv, LockInv, Holding, TypeOK
    <3>4. OkInv'
      BY <2>6, <2>f DEF ShutdownCancelled, OkInv, TypeOK
    <3> QED BY <3>1, <3>2, <3>3, <3>4 DEF EndInv
  <2>7. ASSUME NEW a \in Actors, Unwrap(a) PROVE EndInv' /\ OkInv'
    <3>1. \A k \in Streams : pump[k] # "polling" /\ task[k] # "completing"
      BY <2>7 DEF Unwrap, OtherHolders
    <3>2. StageInv'
      BY <2>7, <2>f, <3>1 DEF Unwrap, StateHolds, EndInv, StageInv, CoreInv, LockInv, Holding, TypeOK
    <3>3. ReasonInv'
      BY <2>7, <2>f, <3>1 DEF Unwrap, StateHolds, EndInv, StageInv, ReasonInv, LockInv, Holding, TypeOK
    <3>4. CoreInv'
      BY <2>7, <2>f, <3>1 DEF Unwrap, StateHolds, EndInv, StageInv, CoreInv, LockInv, Holding, TypeOK
    <3>5. OkInv'
      BY <2>7, <2>f, <3>1 DEF Unwrap, StateHolds, EndInv, StageInv, ReasonInv, CoreInv, OkInv, LockInv, Holding, TypeOK
    <3> QED BY <3>2, <3>3, <3>4, <3>5 DEF EndInv
  <2>8. ASSUME NEW a \in Actors, CoreFinalized(a) PROVE EndInv' /\ OkInv'
    <3>1. StageInv'
      BY <2>8, <2>f DEF CoreFinalized, EndInv, StageInv, CoreInv, LockInv, Holding, TypeOK
    <3>2. ReasonInv'
      BY <2>8, <2>f DEF CoreFinalized, EndInv, StageInv, ReasonInv, LockInv, Holding, TypeOK
    <3>3. CoreInv'
      BY <2>8, <2>f DEF CoreFinalized, EndInv, StageInv, CoreInv, LockInv, Holding, TypeOK
    <3>4. OkInv'
      BY <2>8, <2>f DEF CoreFinalized, EndInv, StageInv, ReasonInv, CoreInv, OkInv, LockInv, Holding, TypeOK
    <3> QED BY <3>1, <3>2, <3>3, <3>4 DEF EndInv
  <2>9. ASSUME NEW a \in Actors, GiveUp(a) PROVE EndInv' /\ OkInv'
    <3>1. StageInv'
      BY <2>9, <2>f DEF GiveUp, EndInv, StageInv, CoreInv, LockInv, Holding, TypeOK
    <3>2. ReasonInv'
      BY <2>9, <2>f DEF GiveUp, EndInv, StageInv, ReasonInv, LockInv, Holding, TypeOK
    <3>3. CoreInv'
      BY <2>9, <2>f DEF GiveUp, EndInv, StageInv, CoreInv, LockInv, Holding, TypeOK
    <3>4. OkInv'
      BY <2>9, <2>f DEF GiveUp, EndInv, StageInv, ReasonInv, CoreInv, OkInv, LockInv, Holding, TypeOK
    <3> QED BY <3>1, <3>2, <3>3, <3>4 DEF EndInv
  <2> QED BY <1>5, <2>1, <2>2, <2>3, <2>4, <2>5, <2>6, <2>7, <2>8, <2>9 DEF ShutdownStep
<1>6. CASE UNCHANGED vars
  BY <1>6 DEF EndInv, StageInv, ReasonInv, CoreInv, OkInv, vars
<1> QED BY <1>1, <1>2, <1>3, <1>4, <1>5, <1>6, Steps

-----------------------------------------------------------------------------
(***************************************************************************)
(* Completions.                                                            *)
(***************************************************************************)

\* Once every loop of a started worker is gone, and none by a panic or an abort,
\* no stream has a task out.
LEMMA NothingOut ==
  ASSUME TypeOK, PumpInv, started, ~freed, Panicked = {}, livePumps = 0
  PROVE  \A k \in Streams : task[k] = "none"
<1> SUFFICES ASSUME NEW k \in Streams PROVE task[k] = "none"
  OBVIOUS
<1>1. pump[k] \in OffLoop
  BY NoneLeft DEF PumpInv, TypeOK, PumpSteps, OffLoop
<1>2. k \in sawShutDown
  BY <1>1 DEF PumpInv, Panicked
<1> QED BY <1>2 DEF PumpInv

LEMMA StrandedKept ==
  TypeOK /\ PumpInv /\ LockInv /\ EndInv /\ NoStrandedCompletion /\ [Next]_vars
    => NoStrandedCompletion'
<1> SUFFICES ASSUME TypeOK, PumpInv, LockInv, EndInv, NoStrandedCompletion, [Next]_vars,
                    ~freed', Panicked' = {}, NEW j \in Streams
             PROVE  task'[j] # "stranded" /\ (task'[j] = "jvm" => state' # "finalized")
  BY DEF NoStrandedCompletion
<1>1. CASE Start
  BY <1>1 DEF Start, NoStrandedCompletion, Panicked
<1>2. CASE InitiateShutdown
  BY <1>2 DEF InitiateShutdown, NoStrandedCompletion, Panicked, pumpVars
<1>3. CASE Free
  BY <1>3 DEF Free
<1>4. ASSUME NEW k \in Streams, LoopStep(k)
      PROVE  task'[j] # "stranded" /\ (task'[j] = "jvm" => state' # "finalized")
  <2>1. UNCHANGED <<state, freed>>
    BY <1>4, Frames
  <2>2. Panicked = {}
    BY <1>4 DEF LoopStep, PumpTask, PumpShutDown, PumpAborted, PumpLeave, PumpError, PumpPanic,
                CompleteBegin, CompleteEnd, Panicked, PumpInv, OffLoop
  <2>3. \A i \in Streams : task[i] # "stranded" /\ (task[i] = "jvm" => state # "finalized")
    BY <2>1, <2>2 DEF NoStrandedCompletion
  <2>4. CASE PumpTask(k)
    <3>1. state # "finalized"
      BY <2>1, <2>4 DEF PumpTask, EndInv, ReasonInv
    <3> QED BY <2>1, <2>3, <2>4, <3>1 DEF PumpTask, TypeOK
  <2>5. CASE CompleteBegin(k) \/ CompleteEnd(k)
    BY <2>1, <2>3, <2>5 DEF CompleteBegin, CompleteEnd, TypeOK
  <2>6. CASE \/ PumpShutDown(k) \/ PumpAborted(k) \/ PumpLeave(k)
             \/ PumpError(k) \/ PumpPanic(k)
    BY <2>1, <2>3, <2>6 DEF PumpShutDown, PumpAborted, PumpLeave, PumpError, PumpPanic
  <2> QED BY <1>4, <2>4, <2>5, <2>6 DEF LoopStep
<1>5. CASE ShutdownStep
  <2>1. /\ UNCHANGED <<task, started, freed, livePumps>>
        /\ Panicked = {}
    BY <1>5, Frames DEF pumpVars, Panicked
  <2>2. task[j] # "stranded" /\ (task[j] = "jvm" => state # "finalized")
    BY <2>1 DEF NoStrandedCompletion
  <2>3. ASSUME state # "finalized", state' = "finalized"
        PROVE  ~started \/ livePumps = 0
    BY <1>5, <2>3, ActorFacts DEF ShutdownStep, ShutdownCall, ShutdownBegin, Drained,
         BackgroundFinalize, GraceExpires, ShutdownCancelled, Unwrap, CoreFinalized, GiveUp
  <2>4. ASSUME state # "finalized", state' = "finalized" PROVE task[j] = "none"
    BY <2>1, <2>3, <2>4, NothingOut DEF PumpInv
  <2> QED BY <2>1, <2>2, <2>4
<1>6. CASE UNCHANGED vars
  BY <1>6 DEF NoStrandedCompletion, Panicked, vars
<1> QED BY <1>1, <1>2, <1>3, <1>4, <1>5, <1>6, Steps

-----------------------------------------------------------------------------
(***************************************************************************)
(* The theorems.                                                           *)
(***************************************************************************)
LEMMA WorkerInductive == Spec => []WorkerInv
<1>1. Init => WorkerInv
  <2>1. Init => NoStrandedCompletion
    BY DEF Init, NoStrandedCompletion
  <2> QED BY <2>1, TypeInit, PumpInit, LockInit, EndInit DEF WorkerInv
<1>2. WorkerInv /\ [Next]_vars => WorkerInv'
  BY TypeStep, PumpKept, LockKept, EndKept, StrandedKept DEF WorkerInv
<1> QED BY <1>1, <1>2, PTL DEF Spec

\* worker.rs never refuses a completion Core waits for, for any number of streams
\* and of shutdowns that time out, overlap or finish in the background.
THEOREM NoCompletionIsStranded == Spec => []NoStrandedCompletion
<1>1. WorkerInv => NoStrandedCompletion
  BY DEF WorkerInv
<1> QED BY <1>1, WorkerInductive, PTL

\* The lock leaves room for one finalization at a time.
LEMMA OneHolder ==
  ASSUME LockInv
  PROVE  Cardinality({ a \in Actors : actor[a] \in {"finalizing", "awaitingCore"} }) <= 1
<1> DEFINE H == { a \in Actors : actor[a] \in {"finalizing", "awaitingCore"} }
<1>1. H \subseteq {lock}
  BY DEF LockInv, Holding
<1>2. IsFiniteSet({lock}) /\ Cardinality({lock}) = 1
  BY FS_Singleton
<1>3. Cardinality(H) <= Cardinality({lock})
  BY <1>1, <1>2, FS_Subset
<1> QED BY <1>2, <1>3

\* finalize_shutdown is called by the holder of the last reference, one at a time and
\* after every loop, and a successful shutdown has finalized Core or had no need to.
THEOREM CoreFinalizedOnce == Spec => []FinalizedOnce
<1>1. WorkerInv => FinalizedOnce
  BY OneHolder DEF WorkerInv, FinalizedOnce, EndInv, CoreInv, OkInv
<1> QED BY <1>1, WorkerInductive, PTL

\* Core is told to end its streams before the worker leaves Running, and so before a
\* background task is started.
DownInv ==
  /\ state # "running" => coreDown
  /\ \A s \in Shutdowns : actor[<<s, "bg">>] # "idle" => coreDown

\* Every step keeps that, and that a late shutdown is attended to.
LEMMA LateKept ==
  ASSUME WorkerInv, DownInv, LateIsAttended, [Next]_vars
  PROVE  DownInv' /\ LateIsAttended'
<1> USE ActorFacts DEF DownInv, LateIsAttended
<1>t. TypeOK /\ LockInv /\ ReasonInv /\ CoreInv
  BY DEF WorkerInv, EndInv
<1>1. CASE Start
  BY <1>1 DEF Start
<1>2. CASE InitiateShutdown
  BY <1>2 DEF InitiateShutdown
<1>3. CASE Free
  BY <1>3, <1>t DEF Free, TypeOK
<1>4. ASSUME NEW k \in Streams, LoopStep(k) PROVE DownInv' /\ LateIsAttended'
  <2>1. coreDown' = coreDown \/ coreDown' = TRUE
    BY <1>4 DEF LoopStep, PumpTask, PumpShutDown, PumpAborted, PumpLeave, PumpError, PumpPanic,
                CompleteBegin, CompleteEnd
  <2> QED BY <1>4, <2>1, Frames
<1>5. CASE ShutdownStep
  <2>f. UNCHANGED <<started, freed>>
    BY <1>5, Frames
  <2>1. ASSUME NEW s \in Shutdowns, ShutdownCall(s) PROVE DownInv' /\ LateIsAttended'
    BY <2>1, <1>t, <2>f DEF ShutdownCall, TypeOK
  <2>2. ASSUME NEW s \in Shutdowns, ShutdownBegin(s) PROVE DownInv' /\ LateIsAttended'
    BY <2>2, <1>t, <2>f DEF ShutdownBegin, TypeOK
  <2>3. ASSUME NEW s \in Shutdowns, Drained(s) PROVE DownInv' /\ LateIsAttended'
    <3>1. coreDown
      BY <2>3, <1>t DEF Drained, LockInv, Holding
    <3> QED BY <2>3, <1>t, <2>f, <3>1 DEF Drained, TypeOK
  <2>4. ASSUME NEW s \in Shutdowns, BackgroundFinalize(s) PROVE DownInv' /\ LateIsAttended'
    <3>1. started /\ \A a \in Actors : actor[a] \notin Holding
      BY <2>4, <1>t DEF BackgroundFinalize, LockFree, LockInv
    <3>2. state = "finalized" => freed \/ coreFinal = "done"
      BY <3>1, <1>t DEF ReasonInv, Holding
    <3>3. coreDown
      BY <2>4, <1>t DEF BackgroundFinalize
    <3> QED BY <2>4, <1>t, <2>f, <3>2, <3>3 DEF BackgroundFinalize, TypeOK
  <2>5. ASSUME NEW s \in Shutdowns, GraceExpires(s) PROVE DownInv' /\ LateIsAttended'
    <3>1. coreDown
      BY <2>5, <1>t DEF GraceExpires, LockInv, Holding
    <3> QED BY <2>5, <1>t, <2>f, <3>1 DEF GraceExpires, TypeOK
  <2>6. ASSUME NEW s \in Shutdowns, ShutdownCancelled(s) PROVE DownInv' /\ LateIsAttended'
    BY <2>6, <1>t, <2>f DEF ShutdownCancelled, TypeOK
  <2>7. ASSUME NEW a \in Actors, Unwrap(a) PROVE DownInv' /\ LateIsAttended'
    BY <2>7, <1>t, <2>f DEF Unwrap, CoreInv, TypeOK
  <2>8. ASSUME NEW a \in Actors, CoreFinalized(a) PROVE DownInv' /\ LateIsAttended'
    BY <2>8, <1>t, <2>f DEF CoreFinalized, TypeOK
  <2>9. ASSUME NEW a \in Actors, GiveUp(a) PROVE DownInv' /\ LateIsAttended'
    BY <2>9, <1>t, <2>f DEF GiveUp, LockInv, Holding, TypeOK
  <2> QED BY <1>5, <2>1, <2>2, <2>3, <2>4, <2>5, <2>6, <2>7, <2>8, <2>9 DEF ShutdownStep
<1>6. CASE UNCHANGED vars
  BY <1>6 DEF vars
<1> QED BY <1>1, <1>2, <1>3, <1>4, <1>5, <1>6, Steps

LEMMA LateInductive == Spec => [](DownInv /\ LateIsAttended)
<1>1. Init => DownInv /\ LateIsAttended
  BY ActorFacts DEF Init, DownInv, LateIsAttended
<1>2. WorkerInv /\ DownInv /\ LateIsAttended /\ [Next]_vars => (DownInv /\ LateIsAttended)'
  BY LateKept
<1> QED BY <1>1, <1>2, WorkerInductive, PTL DEF Spec

\* A worker whose grace period ran out is not forgotten ("Finalize in the background once the
\* pumps really have ended", worker.rs:666-667), whichever other shutdowns and force-closes
\* there are.
THEOREM NoLateWorkerIsForgotten == Spec => []LateIsAttended
BY LateInductive, PTL

\* A kt_worker_shutdown waits only for what is under way: for a shutdown at work, for
\* streams that were told to end, or for a Core whose streams have all ended.
THEOREM NoShutdownWaitsIdly == Spec => []NoIdleWait
<1>1. WorkerInv /\ DownInv => NoIdleWait
  <2> SUFFICES ASSUME WorkerInv, DownInv PROVE NoIdleWait
    OBVIOUS
  <2>t. TypeOK /\ PumpInv /\ LockInv /\ StageInv /\ CoreInv
    BY DEF WorkerInv, EndInv
  <2>1. lock # NoActor => actor[lock] \in Holding
    BY <2>t DEF TypeOK, LockInv
  <2>2. ASSUME NEW a \in Actors, actor[a] = "draining" PROVE coreDown
    BY <2>2, <2>t DEF LockInv, Holding, DownInv
  <2>3. ASSUME NEW a \in Actors, actor[a] = "awaitingCore", ~freed, Panicked = {}, NEW k \in Streams
        PROVE  k \in sawShutDown
    <3>1. coreFinal = "called" /\ pump[k] # "polling"
      BY <2>3, <2>t DEF StageInv, CoreInv
    <3>2. started
      BY <2>t, <3>1 DEF PumpInv
    <3>3. pump[k] \in OffLoop
      BY <2>t, <3>1, <3>2 DEF PumpInv, TypeOK, PumpSteps, OffLoop
    <3> QED BY <2>3, <2>t, <3>3 DEF PumpInv, Panicked
  <2> QED BY <2>1, <2>2, <2>3 DEF NoIdleWait, Holding
<1> QED BY <1>1, LateInductive, WorkerInductive, PTL

\* Every step of the worker is one NativeStreams allows, or none.
LEMMA StreamStep == TypeOK /\ PumpInv /\ [Next]_vars => [Promise!Next]_(Promise!vars)
<1> SUFFICES ASSUME TypeOK, PumpInv, Next PROVE Promise!Next \/ UNCHANGED Promise!vars
  BY DEF vars, Promise!vars
<1>1. CASE Start
  BY <1>1 DEF Start, Promise!Next, Promise!Start
<1>2. CASE InitiateShutdown
  BY <1>2 DEF InitiateShutdown, pumpVars, Promise!Next, Promise!ShutDown
<1>3. CASE Free
  <2>1. coreDown' \in {coreDown, TRUE}
    BY <1>3, Zenon DEF Free, TypeOK
  <2> QED BY <1>3, <2>1 DEF Free, Promise!Next, Promise!Cut
<1>4. ASSUME NEW k \in Streams, LoopStep(k) PROVE Promise!Next \/ UNCHANGED Promise!vars
  <2>1. pump[k] = "polling" => started /\ k \notin ended
    BY DEF PumpInv, OffLoop
  <2>2. CASE PumpTask(k)
    BY <2>1, <2>2 DEF PumpTask, Promise!Next, Promise!Task
  <2>3. CASE PumpShutDown(k)
    BY <2>1, <2>3 DEF PumpShutDown, Promise!Next, Promise!End
  <2>4. CASE PumpError(k) \/ PumpPanic(k)
    BY <2>1, <2>4 DEF PumpError, PumpPanic, Promise!Next, Promise!Fail
  <2>5. CASE PumpAborted(k) \/ PumpLeave(k) \/ CompleteBegin(k) \/ CompleteEnd(k)
    BY <2>5 DEF PumpAborted, PumpLeave, CompleteBegin, CompleteEnd, Promise!vars
  <2> QED BY <1>4, <2>2, <2>3, <2>4, <2>5 DEF LoopStep
<1>5. CASE ShutdownStep
  <2>1. UNCHANGED <<started, handed, reported, ended, freed>>
    BY <1>5, Frames DEF pumpVars
  <2>2. coreDown' = coreDown \/ coreDown' = TRUE
    BY <1>5 DEF ShutdownStep, ShutdownCall, ShutdownBegin, Drained, BackgroundFinalize,
         GraceExpires, ShutdownCancelled, Unwrap, CoreFinalized, GiveUp
  <2> QED BY <2>1, <2>2 DEF Promise!vars, Promise!Next, Promise!ShutDown
<1> QED BY <1>1, <1>2, <1>3, <1>4, <1>5, Steps

\* The worker's streams are those of NativeStreams: what a JVM consumer is told of
\* tasks, failures and ends never deviates from the promise, for any number of streams.
\* (That every stream reaches its end is the liveness half, which TLC checks.)
THEOREM ImplementsSafeStreams == Spec => Promise!SafeSpec
<1>1. Init => Promise!Init
  BY DEF Init, Promise!Init
<1>2. WorkerInv /\ [Next]_vars => [Promise!Next]_(Promise!vars)
  BY StreamStep DEF WorkerInv
<1> QED BY <1>1, <1>2, WorkerInductive, PTL DEF Spec, Promise!SafeSpec

-----------------------------------------------------------------------------
(***************************************************************************)
(* The other end of a stream: TaskStream, the JVM object that the events of a    *)
(* stream arrive at, over any native side that pushes tasks, a failure and an     *)
(* end, as the streams of Worker do.  It has variables of its own, and the pump  *)
(* thread that delivers the events is its thread.                            *)
(***************************************************************************)

\* What tasks.poll leaves: every task but the first, in the same order.
LEMMA TaskTail ==
  ASSUME StreamTypeOK, tasks # <<>>
  PROVE  /\ Head(tasks) = tasks[1] /\ Head(tasks) \in 1..MaxPushed
         /\ Tail(tasks) \in Seq(1..MaxPushed)
         /\ DOMAIN Tail(tasks) \subseteq Nat
         /\ \A i \in DOMAIN Tail(tasks) :
              i + 1 \in DOMAIN tasks /\ 1 < i + 1 /\ Tail(tasks)[i] = tasks[i + 1]
         /\ 1 \in DOMAIN tasks
         /\ \A i \in DOMAIN tasks :
              i = 1 \/ \E j \in DOMAIN Tail(tasks) : Tail(tasks)[j] = tasks[i]
<1>1. tasks \in Seq(1..MaxPushed)
  BY DEF StreamTypeOK
<1>2. /\ Head(tasks) \in 1..MaxPushed /\ Tail(tasks) \in Seq(1..MaxPushed)
      /\ Len(Tail(tasks)) = Len(tasks) - 1
      /\ \A i \in 1..Len(Tail(tasks)) : Tail(tasks)[i] = tasks[i + 1]
  BY <1>1, HeadTailProperties
<1>3. /\ Len(tasks) \in Nat /\ DOMAIN tasks = 1..Len(tasks) /\ Head(tasks) = tasks[1]
      /\ Len(tasks) > 0 /\ DOMAIN Tail(tasks) = 1..Len(Tail(tasks))
  BY <1>1, <1>2, LenProperties, EmptySeq
<1>4. ASSUME NEW i \in DOMAIN tasks, i # 1
      PROVE  \E j \in DOMAIN Tail(tasks) : Tail(tasks)[j] = tasks[i]
  <2>1. i - 1 \in 1..Len(Tail(tasks)) /\ (i - 1) + 1 = i
    BY <1>2, <1>3, <1>4
  <2> QED BY <1>2, <1>3, <2>1
<1>5. ASSUME NEW i \in DOMAIN Tail(tasks)
      PROVE  i \in Nat /\ i + 1 \in DOMAIN tasks /\ 1 < i + 1 /\ Tail(tasks)[i] = tasks[i + 1]
  BY <1>2, <1>3, <1>5
<1> QED BY <1>1, <1>2, <1>3, <1>4, <1>5

\* What an addition to the queue leaves as it was, and where the new task is.
LEMMA TaskAppend ==
  ASSUME StreamTypeOK, NEW n \in 1..MaxPushed
  PROVE  /\ Append(tasks, n) \in Seq(1..MaxPushed) /\ Append(tasks, n) # <<>>
         /\ \A i \in DOMAIN tasks : i \in DOMAIN Append(tasks, n) /\ Append(tasks, n)[i] = tasks[i]
         /\ \E i \in DOMAIN Append(tasks, n) : Append(tasks, n)[i] = n
         /\ \A i \in DOMAIN Append(tasks, n) : i \in DOMAIN tasks \/ Append(tasks, n)[i] = n
         /\ \A i, j \in DOMAIN Append(tasks, n) : i < j => i \in DOMAIN tasks
<1> DEFINE more == Append(tasks, n)
<1>1. tasks \in Seq(1..MaxPushed)
  BY DEF StreamTypeOK
<1>2. /\ more \in Seq(1..MaxPushed) /\ Len(more) = Len(tasks) + 1
      /\ \A i \in 1..Len(tasks) : more[i] = tasks[i]
      /\ more[Len(tasks) + 1] = n
  BY <1>1, AppendProperties
<1> HIDE DEF more
<1>3. /\ Len(tasks) \in Nat /\ DOMAIN tasks = 1..Len(tasks) /\ DOMAIN more = 1..(Len(tasks) + 1)
  BY <1>1, <1>2, LenProperties
<1>4. more # <<>>
  BY <1>2, <1>3, EmptySeq
<1> QED BY <1>2, <1>3, <1>4 DEF more

\* What trySend does: on an open channel, somebody is woken or a signal is kept, and a
\* signal is kept only when nobody waits.
LEMMA TrySendEffect ==
  ASSUME ready \in {0, 1}, NEW rs \in [Receivers -> ReceiveSteps], TrySend(rs)
  PROVE  /\ ready' \in {0, 1} /\ receive' \in [Receivers -> ReceiveSteps]
         /\ \A r \in Receivers :
              receive'[r] = rs[r] \/ (rs[r] = "waiting" /\ receive'[r] = "woken")
         /\ channelClosed \/ ready' = 1 \/ \E r \in Receivers : receive'[r] = "woken"
         /\ ready' = ready \/ \A r \in Receivers : rs[r] # "waiting" /\ receive'[r] # "waiting"
<1> DEFINE waiting == { r \in Receivers : rs[r] = "waiting" }
<1>1. CASE channelClosed /\ receive' = rs /\ UNCHANGED ready
  BY <1>1
<1>2. CASE UNCHANGED ready /\ \E r \in waiting : receive' = [rs EXCEPT ![r] = "woken"]
  BY <1>2 DEF ReceiveSteps
<1>3. CASE waiting = {} /\ receive' = rs /\ ready' = 1
  BY <1>3
<1> QED BY <1>1, <1>2, <1>3 DEF TrySend

\* The same with the test of the queue in front: there is a signal if there is a task.
LEMMA SignalRestEffect ==
  ASSUME ready \in {0, 1}, NEW rs \in [Receivers -> ReceiveSteps], SignalRest(rs)
  PROVE  /\ ready' \in {0, 1} /\ receive' \in [Receivers -> ReceiveSteps]
         /\ \A r \in Receivers :
              receive'[r] = rs[r] \/ (rs[r] = "waiting" /\ receive'[r] = "woken")
         /\ tasks # <<>> => channelClosed \/ ready' = 1 \/ \E r \in Receivers : receive'[r] = "woken"
         /\ ready' = ready \/ \A r \in Receivers : rs[r] # "waiting" /\ receive'[r] # "waiting"
<1>1. CASE tasks # <<>>
  BY <1>1, TrySendEffect DEF SignalRest
<1>2. CASE tasks = <<>>
  BY <1>2 DEF SignalRest
<1> QED BY <1>1, <1>2

\* ready.close keeps the types.
LEMMA CloseChannelEffect ==
  ASSUME StreamTypeOK, CloseChannel
  PROVE  /\ channelClosed' = TRUE /\ receive' \in [Receivers -> ReceiveSteps]
BY DEF StreamTypeOK, CloseChannel, ReceiveSteps

\* Every step keeps the types; that the task being added has a number is CountInv's.
LEMMA StreamTypes ==
  ASSUME StreamTypeOK, CountInv, [StreamNext]_streamVars
  PROVE  StreamTypeOK'
<1> USE DEF StreamTypeOK, ThreadSteps, WorkerSteps, RuntimeSteps,
            channelVars, receiverVars, threadVars, ownerVars
<1>1. ASSUME NEW r \in Receivers, Call(r) PROVE StreamTypeOK'
  BY <1>1 DEF Call, ReceiveSteps
<1>2. ASSUME NEW r \in Receivers, Cancel(r) PROVE StreamTypeOK'
  BY <1>2, PushedAssumption DEF Cancel
<1>3. ASSUME NEW r \in Receivers, Head_(r) PROVE StreamTypeOK'
  <2>1. tasks # <<>> => Head(tasks) \in 1..MaxPushed /\ Tail(tasks) \in Seq(1..MaxPushed)
    BY TaskTail
  <2>2. tasks' \in Seq(1..MaxPushed) /\ taken' \subseteq 1..MaxPushed
    BY <1>3, <2>1 DEF Head_
  <2>3. receive' \in [Receivers -> ReceiveSteps]
    BY <1>3 DEF Head_, ReceiveSteps
  <2> QED BY <1>3, <2>2, <2>3 DEF Head_
<1>4. ASSUME NEW r \in Receivers, Took(r) PROVE StreamTypeOK'
  <2>1. [receive EXCEPT ![r] = "out"] \in [Receivers -> ReceiveSteps]
    BY DEF ReceiveSteps
  <2>2. ready' \in {0, 1} /\ receive' \in [Receivers -> ReceiveSteps]
    BY <1>4, <2>1, SignalRestEffect DEF Took
  <2> QED BY <1>4, <2>2 DEF Took
<1>5. ASSUME NEW r \in Receivers, Enter(r) PROVE StreamTypeOK'
  BY <1>5 DEF Enter, ReceiveSteps
<1>6. ASSUME NEW r \in Receivers, Thrown(r) PROVE StreamTypeOK'
  BY <1>6 DEF Thrown, ReceiveSteps
<1>7. ASSUME NEW r \in Receivers, Leave(r) PROVE StreamTypeOK'
  <2>1. [receive EXCEPT ![r] = After(receive[r])] \in [Receivers -> ReceiveSteps]
    BY DEF After, ReceiveSteps
  <2>2. ready' \in {0, 1} /\ receive' \in [Receivers -> ReceiveSteps]
    BY <1>7, <2>1, SignalRestEffect DEF Leave
  <2> QED BY <1>7, <2>2 DEF Leave
<1>8. ASSUME NEW r \in Receivers, Last_(r) PROVE StreamTypeOK'
  <2>1. tasks # <<>> => Head(tasks) \in 1..MaxPushed /\ Tail(tasks) \in Seq(1..MaxPushed)
    BY TaskTail
  <2>2. tasks' \in Seq(1..MaxPushed) /\ taken' \subseteq 1..MaxPushed
    BY <1>8, <2>1 DEF Last_
  <2>3. receive' \in [Receivers -> ReceiveSteps]
    BY <1>8 DEF Last_, ReceiveSteps
  <2> QED BY <1>8, <2>2, <2>3 DEF Last_
<1>9. CASE TaskEvent
  BY <1>9, PushedAssumption DEF TaskEvent
<1>10. CASE FailedEvent
  BY <1>10 DEF FailedEvent
<1>11. CASE EndEvent
  BY <1>11 DEF EndEvent
<1>12. CASE Add
  <2>1. sent \in 1..MaxPushed
    BY <1>12, PushedAssumption DEF Add, CountInv
  <2> QED BY <1>12, <2>1, TaskAppend DEF Add
<1>13. CASE Signal
  <2>1. ready' \in {0, 1} /\ receive' \in [Receivers -> ReceiveSteps]
    BY <1>13, TrySendEffect DEF Signal
  <2> QED BY <1>13, <2>1 DEF Signal
<1>14. CASE EndChannel
  <2>1. receive' \in [Receivers -> ReceiveSteps] /\ channelClosed' \in BOOLEAN
    BY <1>14, CloseChannelEffect DEF EndChannel
  <2>2. /\ thread' = "idle"
        /\ UNCHANGED <<tasks, ready, closed, cancelled, cancels, sent, pushedEnd, failed,
                       taken, worker, runtime, registered>>
    BY <1>14 DEF EndChannel
  <2> QED BY <2>1, <2>2
<1>15. CASE Register
  BY <1>15 DEF Register
<1>16. CASE WorkerClose
  <2>1. receive' \in [Receivers -> ReceiveSteps] /\ channelClosed' \in BOOLEAN
    BY <1>16, CloseChannelEffect DEF WorkerClose
  <2>2. worker' \in WorkerSteps /\ registered' \in BOOLEAN /\ closed' \in BOOLEAN
    BY <1>16 DEF WorkerClose
  <2>3. UNCHANGED <<tasks, ready, cancelled, cancels, thread, sent, pushedEnd, failed, taken,
                    runtime>>
    BY <1>16 DEF WorkerClose
  <2> QED BY <2>1, <2>2, <2>3
<1>17. CASE RuntimeClose
  <2>1. receive' \in [Receivers -> ReceiveSteps] /\ channelClosed' \in BOOLEAN
    BY <1>17, CloseChannelEffect DEF RuntimeClose
  <2>2. runtime' \in RuntimeSteps /\ registered' \in BOOLEAN /\ closed' \in BOOLEAN
    BY <1>17 DEF RuntimeClose
  <2>3. UNCHANGED <<tasks, ready, cancelled, cancels, thread, sent, pushedEnd, failed, taken,
                    worker>>
    BY <1>17 DEF RuntimeClose
  <2> QED BY <2>1, <2>2, <2>3
<1>18. CASE UNCHANGED streamVars
  BY <1>18 DEF streamVars
<1> QED
  BY <1>1, <1>2, <1>3, <1>4, <1>5, <1>6, <1>7, <1>8, <1>9, <1>10, <1>11, <1>12, <1>13, <1>14,
     <1>15, <1>16, <1>17, <1>18
  DEF StreamNext, ReceiverStep, ThreadStep

\* Every step keeps the signals: a step that uses one up leaves somebody who signals again,
\* the finally block of a cancelled receive included (KtWorker.kt:55).
LEMMA SignalKept ==
  ASSUME StreamTypeOK, SignalInv, CloseInv, CountInv, [StreamNext]_streamVars
  PROVE  SignalInv'
<1>t. StreamTypeOK'
  BY StreamTypes
<1> USE DEF SignalInv, Attended, channelVars, receiverVars, threadVars, ownerVars
<1>1. ASSUME NEW r \in Receivers, Call(r) PROVE SignalInv'
  BY <1>1 DEF Call, StreamTypeOK
<1>2. ASSUME NEW r \in Receivers, Cancel(r) PROVE SignalInv'
  BY <1>2 DEF Cancel
<1>3. ASSUME NEW r \in Receivers, Head_(r) PROVE SignalInv'
  BY <1>3 DEF Head_, StreamTypeOK
<1>4. ASSUME NEW r \in Receivers, Took(r) PROVE SignalInv'
  <2>1. [receive EXCEPT ![r] = "out"] \in [Receivers -> ReceiveSteps]
    BY DEF StreamTypeOK, ReceiveSteps
  <2> QED BY <1>4, <2>1, SignalRestEffect DEF Took, StreamTypeOK
<1>5. ASSUME NEW r \in Receivers, Enter(r) PROVE SignalInv'
  BY <1>5 DEF Enter, StreamTypeOK
<1>6. ASSUME NEW r \in Receivers, Thrown(r) PROVE SignalInv'
  BY <1>6 DEF Thrown, StreamTypeOK
<1>7. ASSUME NEW r \in Receivers, Leave(r) PROVE SignalInv'
  <2>1. [receive EXCEPT ![r] = After(receive[r])] \in [Receivers -> ReceiveSteps]
    BY DEF After, StreamTypeOK, ReceiveSteps
  <2> QED BY <1>7, <2>1, SignalRestEffect DEF Leave, StreamTypeOK, After
<1>8. ASSUME NEW r \in Receivers, Last_(r) PROVE SignalInv'
  BY <1>8 DEF Last_, StreamTypeOK
<1>9. CASE TaskEvent
  BY <1>9 DEF TaskEvent, Event
<1>10. CASE FailedEvent
  BY <1>10 DEF FailedEvent
<1>11. CASE EndEvent
  BY <1>11 DEF EndEvent, Event
<1>12. CASE Add
  BY <1>12 DEF Add
<1>13. CASE Signal
  BY <1>13, TrySendEffect DEF Signal, StreamTypeOK
<1>14. CASE EndChannel
  BY <1>14 DEF EndChannel, CloseChannel
<1>15. CASE Register
  BY <1>15 DEF Register
<1>16. CASE WorkerClose
  BY <1>16 DEF WorkerClose, CloseChannel
<1>17. CASE RuntimeClose
  BY <1>17 DEF RuntimeClose, CloseChannel
<1>18. CASE UNCHANGED streamVars
  BY <1>18 DEF streamVars
<1> QED
  BY <1>1, <1>2, <1>3, <1>4, <1>5, <1>6, <1>7, <1>8, <1>9, <1>10, <1>11, <1>12, <1>13, <1>14,
     <1>15, <1>16, <1>17, <1>18
  DEF StreamNext, ReceiverStep, ThreadStep

\* Every step keeps that whoever sets closed goes on to close the channel, also when
\* KtWorker.close, KtRuntime.close and the end of the stream cross.
LEMMA CloseKept ==
  ASSUME StreamTypeOK, CloseInv, [StreamNext]_streamVars
  PROVE  CloseInv'
<1> USE DEF CloseInv, Forced, channelVars, receiverVars, threadVars, ownerVars
<1>1. ASSUME NEW r \in Receivers, ReceiverStep(r) \/ Cancel(r) PROVE CloseInv'
  BY <1>1 DEF ReceiverStep, Call, Head_, Took, Enter, Thrown, Leave, Last_, Cancel
<1>2. CASE TaskEvent
  BY <1>2 DEF TaskEvent, Event
<1>3. CASE FailedEvent
  BY <1>3 DEF FailedEvent
<1>4. CASE EndEvent
  BY <1>4 DEF EndEvent, Event
<1>5. CASE Add
  BY <1>5 DEF Add
<1>6. CASE Signal
  BY <1>6 DEF Signal
<1>7. CASE EndChannel
  BY <1>7 DEF EndChannel, CloseChannel
<1>8. CASE Register
  BY <1>8 DEF Register, StreamTypeOK
<1>9. CASE WorkerClose
  BY <1>9 DEF WorkerClose, CloseChannel
<1>10. CASE RuntimeClose
  BY <1>10 DEF RuntimeClose, CloseChannel
<1>11. CASE UNCHANGED streamVars
  BY <1>11 DEF streamVars
<1> QED
  BY <1>1, <1>2, <1>3, <1>4, <1>5, <1>6, <1>7, <1>8, <1>9, <1>10, <1>11
  DEF StreamNext, ThreadStep

\* A receive takes the first task of the queue: the order and the count stay as they are,
\* and none is lost.
LEMMA TaskTaken ==
  ASSUME StreamTypeOK, CountInv, InOrder, tasks # <<>>,
         tasks' = Tail(tasks), taken' = taken \cup {Head(tasks)}, UNCHANGED <<sent, thread>>
  PROVE  CountInv' /\ InOrder' /\ (NoneLost => NoneLost')
<1>1. /\ Head(tasks) = tasks[1] /\ 1 \in DOMAIN tasks /\ DOMAIN tasks' \subseteq Nat
      /\ \A i \in DOMAIN tasks' : i + 1 \in DOMAIN tasks /\ 1 < i + 1 /\ tasks'[i] = tasks[i + 1]
      /\ \A i \in DOMAIN tasks : i = 1 \/ \E j \in DOMAIN tasks' : tasks'[j] = tasks[i]
  BY TaskTail
<1>2. CountInv'
  BY <1>1 DEF CountInv
<1>3. ASSUME NEW i \in DOMAIN tasks', NEW j \in DOMAIN tasks', i < j PROVE tasks'[i] < tasks'[j]
  <2>1. i + 1 \in DOMAIN tasks /\ j + 1 \in DOMAIN tasks /\ i + 1 < j + 1
    BY <1>1, <1>3
  <2> QED BY <1>1, <2>1 DEF InOrder
<1>4. ASSUME NEW i \in DOMAIN tasks', NEW n \in taken' PROVE n < tasks'[i]
  <2>1. i + 1 \in DOMAIN tasks /\ 1 < i + 1 /\ tasks'[i] = tasks[i + 1]
    BY <1>1
  <2>2. CASE n \in taken
    BY <2>1, <2>2 DEF InOrder
  <2>3. CASE n = tasks[1]
    BY <1>1, <2>1, <2>3 DEF InOrder
  <2> QED BY <1>1, <2>2, <2>3
<1>5. ASSUME NoneLost, NEW n \in 1..sent
      PROVE  n \in taken' \/ (\E i \in DOMAIN tasks' : tasks'[i] = n) \/ (n = sent /\ thread = "adding")
  <2>1. ASSUME NEW i \in DOMAIN tasks, tasks[i] = n
        PROVE  n \in taken' \/ \E j \in DOMAIN tasks' : tasks'[j] = n
    BY <1>1, <2>1
  <2> QED BY <1>5, <2>1 DEF NoneLost
<1> QED BY <1>2, <1>3, <1>4, <1>5 DEF InOrder, NoneLost

\* What concerns the tasks is kept by every step: a task is counted when it is pushed,
\* added behind those pushed before it, and taken from the front.
LEMMA TasksStep ==
  ASSUME StreamTypeOK, CloseInv, CountInv, TasksKept, [StreamNext]_streamVars
  PROVE  CountInv' /\ TasksKept'
<1> USE DEF channelVars, receiverVars, threadVars, ownerVars
<1>f. Forced => Forced'
  <2>1. CASE UNCHANGED <<worker, runtime>>
    BY <2>1 DEF Forced
  <2>2. CASE Register \/ WorkerClose \/ RuntimeClose
    BY <2>2 DEF Register, WorkerClose, RuntimeClose, Forced
  <2>3. ASSUME NEW r \in Receivers, ReceiverStep(r) \/ Cancel(r) PROVE UNCHANGED <<worker, runtime>>
    BY <2>3 DEF ReceiverStep, Call, Head_, Took, Enter, Thrown, Leave, Last_, Cancel
  <2>4. CASE TaskEvent \/ FailedEvent \/ EndEvent \/ ThreadStep \/ UNCHANGED streamVars
    BY <2>1, <2>4 DEF TaskEvent, FailedEvent, EndEvent, ThreadStep, Add, Signal,
         EndChannel, streamVars
  <2> QED BY <2>1, <2>2, <2>3, <2>4 DEF StreamNext
\* Most steps concern neither the queue nor what was pushed.
<1>u. ASSUME UNCHANGED <<tasks, taken, sent>>, thread' = "adding" <=> thread = "adding"
      PROVE  CountInv' /\ TasksKept'
  BY <1>f, <1>u DEF CountInv, TasksKept, InOrder, NoneLost
<1>k. ASSUME tasks # <<>>, tasks' = Tail(tasks), taken' = taken \cup {Head(tasks)},
             UNCHANGED <<sent, thread>>
      PROVE  CountInv' /\ TasksKept'
  BY <1>f, <1>k, TaskTaken DEF TasksKept
<1>1. ASSUME NEW r \in Receivers,
             Call(r) \/ Took(r) \/ Enter(r) \/ Thrown(r) \/ Leave(r) \/ Cancel(r)
      PROVE  CountInv' /\ TasksKept'
  BY <1>1, <1>u DEF Call, Took, Enter, Thrown, Leave, Cancel
<1>2. ASSUME NEW r \in Receivers, Head_(r) \/ Last_(r) PROVE CountInv' /\ TasksKept'
  BY <1>2, <1>k, <1>u DEF Head_, Last_
<1>3. CASE TaskEvent
  <2>1. thread = "idle" /\ UNCHANGED <<tasks, taken>> /\ sent' = sent + 1 /\ sent \in Nat
    BY <1>3, PushedAssumption DEF TaskEvent, Event, StreamTypeOK
  <2>2. /\ \A i \in DOMAIN tasks : tasks[i] \in Nat
        /\ \A n \in taken : n \in Nat
    BY PushedAssumption DEF StreamTypeOK
  <2>3. CountInv'
    BY <2>1, <2>2 DEF CountInv
  <2>4. CASE thread' = "adding"
    <3>1. ASSUME NoneLost PROVE NoneLost'
      <4>1. ASSUME NEW n \in 1..sent', n # sent'
            PROVE  n \in taken \/ \E i \in DOMAIN tasks : tasks[i] = n
        <5>1. n \in 1..sent
          BY <2>1, <4>1
        <5> QED BY <2>1, <3>1, <5>1 DEF NoneLost
      <4> QED BY <2>1, <2>4, <4>1 DEF NoneLost
    <3> QED BY <1>f, <2>1, <2>3, <3>1 DEF TasksKept, InOrder
  <2>5. CASE thread' # "adding"
    <3>1. Forced
      BY <1>3, <2>5 DEF TaskEvent, Event, CloseInv, Forced, StreamTypeOK, WorkerSteps, RuntimeSteps
    <3> QED BY <1>f, <2>1, <2>3, <3>1 DEF TasksKept, InOrder
  <2> QED BY <2>4, <2>5
<1>4. CASE FailedEvent \/ EndEvent
  BY <1>4, <1>u DEF FailedEvent, EndEvent, Event
<1>5. CASE Add
  <2>1. thread = "adding" /\ thread' # "adding" /\ UNCHANGED <<taken, sent>> /\ sent \in 1..MaxPushed
    BY <1>5, PushedAssumption DEF Add, CountInv, StreamTypeOK
  <2>2. tasks' = Append(tasks, sent)
    BY <1>5 DEF Add
  <2>3. /\ \A i \in DOMAIN tasks : i \in DOMAIN tasks' /\ tasks'[i] = tasks[i]
        /\ \E i \in DOMAIN tasks' : tasks'[i] = sent
        /\ \A i \in DOMAIN tasks' : i \in DOMAIN tasks \/ tasks'[i] = sent
        /\ \A i, j \in DOMAIN tasks' : i < j => i \in DOMAIN tasks
    BY <2>1, <2>2, TaskAppend
  <2>4. CountInv'
    BY <2>1, <2>3 DEF CountInv
  <2>5. ASSUME NEW i \in DOMAIN tasks', NEW j \in DOMAIN tasks', i < j PROVE tasks'[i] < tasks'[j]
    <3>1. i \in DOMAIN tasks /\ tasks'[i] = tasks[i] /\ tasks[i] < sent
      BY <2>1, <2>3, <2>5 DEF CountInv
    <3>2. CASE j \in DOMAIN tasks
      BY <2>3, <2>5, <3>1, <3>2 DEF TasksKept, InOrder
    <3>3. CASE tasks'[j] = sent
      BY <3>1, <3>3
    <3> QED BY <2>3, <3>2, <3>3
  <2>6. ASSUME NEW i \in DOMAIN tasks', NEW n \in taken PROVE n < tasks'[i]
    BY <2>1, <2>3 DEF TasksKept, InOrder, CountInv
  <2>7. ASSUME NoneLost PROVE NoneLost'
    BY <2>1, <2>3, <2>7 DEF NoneLost
  <2> QED BY <1>f, <2>1, <2>4, <2>5, <2>6, <2>7 DEF TasksKept, InOrder
<1>6. CASE Signal \/ EndChannel
  BY <1>6, <1>u DEF Signal, EndChannel
<1>7. CASE Register \/ WorkerClose \/ RuntimeClose \/ UNCHANGED streamVars
  BY <1>7, <1>u DEF Register, WorkerClose, RuntimeClose, streamVars
<1> QED
  BY <1>1, <1>2, <1>3, <1>4, <1>5, <1>6, <1>7 DEF StreamNext, ReceiverStep, ThreadStep

\* The stream's invariant is inductive.
LEMMA StreamInductive == StreamSpec => []StreamInv
<1>1. StreamInit => StreamInv
  <2> SUFFICES ASSUME StreamInit PROVE StreamInv
    OBVIOUS
  <2>0. /\ tasks \in Seq(1..MaxPushed) /\ sent \in 0..MaxPushed /\ cancels \in 0..MaxCancels
        /\ receive \in [Receivers -> ReceiveSteps]
    BY PushedAssumption DEF StreamInit, ReceiveSteps
  <2>1. StreamTypeOK
    BY <2>0 DEF StreamInit, StreamTypeOK, ThreadSteps, WorkerSteps, RuntimeSteps
  <2>2. SignalInv /\ CloseInv
    BY DEF StreamInit, SignalInv, CloseInv
  <2>3. CountInv /\ TasksKept
    BY DEF StreamInit, CountInv, TasksKept, InOrder, NoneLost
  <2> QED BY <2>1, <2>2, <2>3 DEF StreamInv
<1>2. StreamInv /\ [StreamNext]_streamVars => StreamInv'
  BY StreamTypes, SignalKept, CloseKept, TasksStep DEF StreamInv
<1> QED BY <1>1, <1>2, PTL DEF StreamSpec

\* However many coroutines receive, and whichever of them are cancelled when, none waits
\* while there is a task that nobody is about to signal (KtWorker.kt:55).
THEOREM NobodySleepsOnATask == StreamSpec => []NoSleepOnTask
<1>1. StreamInv => NoSleepOnTask
  BY DEF StreamInv, SignalInv, NoSleepOnTask
<1> QED BY <1>1, StreamInductive, PTL

\* A task that was pushed is handed out once and in its turn, or still waits in the queue:
\* neither a failure (KtWorker.kt:116-117), nor the end of the stream (KtWorker.kt:59), nor
\* a cancelled receive drops one, until the owner closes the worker or the runtime.
THEOREM NoTaskIsLost == StreamSpec => []TasksKept
<1>1. StreamInv => TasksKept
  BY DEF StreamInv
<1> QED BY <1>1, StreamInductive, PTL

\* A coroutine that waits on a stream that was ended, or on any stream of a closed runtime,
\* is not forgotten: the channel is about to be closed under it, also when the creation of
\* the worker raced the close of its runtime (KtRuntime.kt:69-71).
THEOREM TheEndIsComing == StreamSpec => []EndIsComing
<1>1. StreamInv => EndIsComing
  BY DEF StreamInv, StreamTypeOK, WorkerSteps, SignalInv, CloseInv, EndIsComing
<1> QED BY <1>1, StreamInductive, PTL
=============================================================================
