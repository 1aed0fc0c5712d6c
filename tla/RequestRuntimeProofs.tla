------------------------ MODULE RequestRuntimeProofs ------------------------
(***************************************************************************)
(* Proofs about RequestRuntime for any number of calls and request ids: the  *)
(* bookkeeping invariant, what it says of completions, handles and          *)
(* kt_runtime_free, and that the bridge implements OneAnswer; and about Pump,  *)
(* which the bridge answers through OneAnswer.                              *)
(***************************************************************************)
EXTENDS RequestRuntime, Pump, Integers, SequenceTheorems, TLAPS

\* A task that has not removed its request id yet.
Active == {"running", "stopping", "finishing"}

\* An accepted call that has not come to the end of its task.
Unfinished(c) == calls[c].pc = "registered" \/ tasks[c] \in Active

\* The stages of kt_runtime_free: what it has closed so far, and that nothing
\* is registered once the queue is closed, so that no answer is dropped.
StageInv ==
  /\ live <=> freeing = "no"
  /\ live => children = {}
  /\ locked <=> freeing = "draining"
  /\ closed <=> freeing \in {"draining", "waiting", "returned"}
  /\ queueClosed <=> freeing \in {"waiting", "returned"}
  /\ queueClosed => \A id \in ReqIds : pending[id] = NoCall

\* The bookkeeping of one call.  Its registration is under its own id; while it
\* is unfinished the id is its own, unless the shutdown has answered for it.
CallInv(c) ==
  /\ calls[c].pc \notin {"idle", "rejected"} => calls[c].id \in ReqIds
  /\ tasks[c] # "none" <=> calls[c].pc = "returned"
  /\ Unfinished(c) =>
       \/ pending[calls[c].id] = c
       \/ closed /\ pending[calls[c].id] = NoCall /\ Answered(c)
  /\ tasks[c] \in {"retiring", "finished"} => Answered(c)
  /\ Answered(c) => Accepted(c)
  /\ AtMostOnce(c)

\* A registration is that of an unfinished call, not yet answered.
RegisteredInv ==
  \A id \in ReqIds, c \in Calls :
    pending[id] = c => calls[c].id = id /\ Unfinished(c) /\ ~Answered(c)

RequestInv == StageInv /\ RegisteredInv /\ \A c \in Calls : CallInv(c)

\* What kt_runtime_free waits for covers every reservation and every task of
\* call c, and once it has returned there is nothing left of it.
TrackInv(c) ==
  /\ calls[c].pc \in {"reserved", "registered"}
       \/ tasks[c] \in {"running", "stopping", "finishing", "retiring"} => c \in tracked
  /\ ~live => handle[c] \notin {"pending", "jvm"}
  /\ freeing = "returned" =>
       /\ tasks[c] \in {"none", "finished"}
       /\ calls[c].pc # "registered"
       /\ server[c] \in {"none", "reaped"}

\* A success that has been queued and not delivered.
QueuedOk(c) == \E n \in Queued(c) : queue[n].status = "ok"

\* Who owns the handle and the child of call c.  A call that has not ended its
\* operation has created nothing, a stop names a call that has, and a stop
\* about to answer ok has ended the child.
OwnerInv(c) ==
  /\ tasks[c] \in {"none", "running", "stopping"} => handle[c] = "none" /\ server[c] = "none"
  /\ tasks[c] = "stopping" => calls[c].kind = "stop"
  /\ calls[c].kind = "stop" =>
       calls[c].of \in Calls /\ tasks[calls[c].of] \in {"finishing", "retiring", "finished"}
  /\ calls[c].kind = "stop" /\ tasks[c] = "finishing" /\ result[c] = "ok" =>
       server[calls[c].of] = "reaped"
  /\ handle[c] = "pending" => (tasks[c] = "finishing" /\ result[c] = "ok") \/ QueuedOk(c)
  /\ handle[c] = "jvm" => Succeeded(c)
  /\ handle[c] = "removed" /\ server[c] = "live" => c \in children
  /\ calls[c].kind = "stop" /\ Succeeded(c) => server[calls[c].of] = "reaped"

ResourceInv == \A c \in Calls : TrackInv(c) /\ OwnerInv(c)

-----------------------------------------------------------------------------
(***************************************************************************)
(* Type correctness.                                                       *)
(***************************************************************************)

CallRecords == [pc : CallSteps, id : ReqIds \cup {NoId}, kind : OpKinds, of : Calls \cup {NoCall}]

\* A call that moves on keeps its request.
LEMMA MovedCall ==
  ASSUME NEW r \in CallRecords, NEW step \in CallSteps
  PROVE  /\ [r EXCEPT !.pc = step] \in CallRecords
         /\ [r EXCEPT !.pc = step].pc = step
         /\ [r EXCEPT !.pc = step].id = r.id
         /\ [r EXCEPT !.pc = step].kind = r.kind
         /\ [r EXCEPT !.pc = step].of = r.of
BY DEF CallRecords

\* What a rejected call looks like.
LEMMA RejectedCall ==
  /\ Rejected \in CallRecords /\ NoRequest \in CallRecords
  /\ Rejected.pc = "rejected" /\ Rejected.kind = "use"
  /\ NoRequest.pc = "idle" /\ NoRequest.kind = "use"
BY DEF Rejected, NoRequest, CallRecords, CallSteps, OpKinds

\* Pushing a completion keeps the queue a sequence of completions.
LEMMA PushType ==
  ASSUME TypeOK, NEW c \in Calls, NEW s \in Statuses, Push(c, s)
  PROVE  queue' \in Seq(Completions)
<1>1. [call |-> c, status |-> s] \in Completions
  BY DEF Completions
<1> QED BY <1>1 DEF Push, TypeOK

\* Every step keeps the types.
LEMMA TypeStep == TypeOK /\ [Next]_vars => TypeOK'
<1> SUFFICES ASSUME TypeOK, [Next]_vars PROVE TypeOK'
  OBVIOUS
<1>c. ASSUME NEW c \in Calls PROVE calls[c] \in CallRecords
  BY DEF TypeOK, CallRecords
<1>1. ASSUME NEW c \in Calls, NEW id \in ReqIds, NEW kind \in Ops,
             NEW of \in (Calls \ {c}) \cup {NoCall}, Resolve(c, id, kind, of)
      PROVE  TypeOK'
  <2>1. [pc |-> "resolved", id |-> id, kind |-> kind, of |-> of] \in CallRecords
    BY OpsAssumption DEF CallRecords, CallSteps
  <2>2. calls' \in [Calls -> CallRecords]
    BY <1>1, <2>1, RejectedCall DEF Resolve, TypeOK, CallRecords
  <2> QED BY <1>1, <2>2 DEF Resolve, TypeOK, CallRecords
<1>2. ASSUME NEW c \in Calls, Reserve(c) PROVE TypeOK'
  <2>1. calls' \in [Calls -> CallRecords]
    <3>1. [calls[c] EXCEPT !.pc = "reserved"] \in CallRecords
      BY <1>c, MovedCall DEF CallSteps
    <3> QED BY <1>2, <3>1 DEF Reserve, TypeOK, CallRecords
  <2> QED BY <1>2, <2>1 DEF Reserve, TypeOK, CallRecords
<1>3. ASSUME NEW c \in Calls, Register(c) PROVE TypeOK'
  <2>1. calls' \in [Calls -> CallRecords]
    <3>1. Rejected \in CallRecords /\ [calls[c] EXCEPT !.pc = "registered"] \in CallRecords
      BY <1>c, MovedCall, RejectedCall DEF CallSteps
    <3> QED BY <1>3, <3>1 DEF Register, TypeOK, CallRecords
  <2>2. pending' \in [ReqIds -> Calls \cup {NoCall}] /\ tracked' \subseteq Calls
    BY <1>3 DEF Register, TypeOK
  <2> QED BY <1>3, <2>1, <2>2 DEF Register, TypeOK, CallRecords
<1>4. ASSUME NEW c \in Calls, Spawn(c) PROVE TypeOK'
  <2>1. calls' \in [Calls -> CallRecords]
    <3>1. [calls[c] EXCEPT !.pc = "returned"] \in CallRecords
      BY <1>c, MovedCall DEF CallSteps
    <3> QED BY <1>4, <3>1 DEF Spawn, TypeOK, CallRecords
  <2>2. tasks' \in [Calls -> TaskSteps] /\ tracked' \subseteq Calls
    BY <1>4 DEF Spawn, TypeOK, TaskSteps
  <2> QED BY <1>4, <2>1, <2>2 DEF Spawn, TypeOK, CallRecords
<1>5. ASSUME NEW id \in ReqIds, Cancel(id) PROVE TypeOK'
  <2>1. cancelled' \subseteq Calls
    BY <1>5 DEF Cancel, TypeOK
  <2> QED BY <1>5, <2>1 DEF Cancel, TypeOK
<1>6. ASSUME NEW c \in Calls, TaskCancelled(c) PROVE TypeOK'
  <2>1. tasks' \in [Calls -> TaskSteps] /\ result' \in [Calls -> Statuses]
    BY <1>6 DEF TaskCancelled, TypeOK, TaskSteps, Statuses
  <2> QED BY <1>6, <2>1 DEF TaskCancelled, TypeOK
<1>7. ASSUME NEW c \in Calls, NEW outcome \in Outcomes, OpEnds(c, outcome) PROVE TypeOK'
  <2>1. tasks' \in [Calls -> TaskSteps]
    BY <1>7 DEF OpEnds, TypeOK, TaskSteps
  <2>2. result' \in [Calls -> Statuses]
    BY <1>7 DEF OpEnds, TypeOK, Statuses, Outcomes
  <2>3. handle' \in [Calls -> HandleStates]
    BY <1>7 DEF OpEnds, TypeOK, HandleStates
  <2>4. server' \in [Calls -> ServerStates]
    BY <1>7 DEF OpEnds, TypeOK, ServerStates
  <2> QED BY <1>7, <2>1, <2>2, <2>3, <2>4 DEF OpEnds, TypeOK
<1>8. ASSUME NEW c \in Calls, StopBegin(c) PROVE TypeOK'
  <2>1. tasks' \in [Calls -> TaskSteps]
    BY <1>8 DEF StopBegin, TypeOK, TaskSteps
  <2> QED BY <1>8, <2>1 DEF StopBegin, TypeOK
<1>9. ASSUME NEW c \in Calls, NEW outcome \in Outcomes, StopEnds(c, outcome) PROVE TypeOK'
  <2>1. tasks' \in [Calls -> TaskSteps] /\ result' \in [Calls -> Statuses]
    BY <1>9 DEF StopEnds, TypeOK, TaskSteps, Statuses, Outcomes
  <2>2. server' \in [Calls -> ServerStates]
    BY <1>9 DEF StopEnds, TypeOK, ServerStates
  <2> QED BY <1>9, <2>1, <2>2 DEF StopEnds, TypeOK
<1>10. ASSUME NEW c \in Calls, TaskFinish(c) PROVE TypeOK'
  <2>1. tasks' \in [Calls -> TaskSteps] /\ result' \in [Calls -> Statuses]
    BY <1>10 DEF TaskFinish, TypeOK, TaskSteps, Statuses
  <2>2. pending' \in [ReqIds -> Calls \cup {NoCall}]
    BY <1>10 DEF TaskFinish, TypeOK
  <2>3. queue' \in Seq(Completions)
    <3>1. result[c] \in Statuses
      BY DEF TypeOK
    <3> QED BY <1>10, <3>1, PushType DEF TaskFinish, TypeOK
  <2>4. handle' \in [Calls -> HandleStates] /\ server' \in [Calls -> ServerStates]
    <3>1. CASE DropResult(c)
      BY <3>1 DEF DropResult, TypeOK, HandleStates, ServerStates
    <3>2. CASE UNCHANGED <<handle, server>>
      BY <3>2 DEF TypeOK
    <3> QED BY <1>10, <3>1, <3>2 DEF TaskFinish
  <2> QED BY <1>10, <2>1, <2>2, <2>3, <2>4 DEF TaskFinish, TypeOK
<1>11. ASSUME NEW c \in Calls, TaskRetire(c) PROVE TypeOK'
  <2>1. tasks' \in [Calls -> TaskSteps] /\ tracked' \subseteq Calls
    BY <1>11 DEF TaskRetire, TypeOK, TaskSteps
  <2> QED BY <1>11, <2>1 DEF TaskRetire, TypeOK
<1>12. ASSUME NEW c \in Calls, Reap(c) PROVE TypeOK'
  <2>1. server' \in [Calls -> ServerStates]
    BY <1>12 DEF Reap, TypeOK, ServerStates
  <2> QED BY <1>12, <2>1 DEF Reap, TypeOK
<1>13. CASE Deliver
  <2>1. Head(queue) \in Completions /\ queue' \in Seq(Completions)
    BY <1>13, HeadTailProperties DEF Deliver, TypeOK
  <2>2. Head(queue).call \in Calls /\ Head(queue).status \in Statuses
    BY <2>1 DEF Completions
  <2>3. delivered' \in [Calls -> Seq(Statuses)]
    <3>1. Append(delivered[Head(queue).call], Head(queue).status) \in Seq(Statuses)
      BY <2>2 DEF TypeOK
    <3> QED BY <1>13, <2>2, <3>1 DEF Deliver, TypeOK
  <2>4. handle' \in [Calls -> HandleStates]
    BY <1>13, <2>2 DEF Deliver, TypeOK, HandleStates
  <2> QED BY <1>13, <2>1, <2>3, <2>4 DEF Deliver, TypeOK
<1>14. ASSUME NEW c \in Calls, JvmFree(c) PROVE TypeOK'
  <2>1. handle' \in [Calls -> HandleStates] /\ server' \in [Calls -> ServerStates]
    BY <1>14 DEF JvmFree, TypeOK, HandleStates, ServerStates
  <2> QED BY <1>14, <2>1 DEF JvmFree, TypeOK
<1>15. CASE FreeBegin
  <2>1. handle' \in [Calls -> HandleStates] /\ children' \subseteq Calls
    BY <1>15 DEF FreeBegin, TypeOK, HandleStates
  <2> QED BY <1>15, <2>1 DEF FreeBegin, TypeOK, FreeSteps
<1>16. ASSUME NEW c \in Calls, CloseChild(c) PROVE TypeOK'
  <2>1. server' \in [Calls -> ServerStates] /\ children' \subseteq Calls
    BY <1>16 DEF CloseChild, TypeOK, ServerStates
  <2> QED BY <1>16, <2>1 DEF CloseChild, TypeOK
<1>17. CASE DrainBegin \/ DrainEnd \/ FreeReturn
  BY <1>17 DEF DrainBegin, DrainEnd, FreeReturn, TypeOK, FreeSteps
<1>18. ASSUME NEW id \in ReqIds, DrainOne(id) PROVE TypeOK'
  <2>1. pending[id] \in Calls
    BY <1>18 DEF DrainOne, TypeOK
  <2>2. cancelled' \subseteq Calls /\ pending' \in [ReqIds -> Calls \cup {NoCall}]
    BY <1>18, <2>1 DEF DrainOne, TypeOK
  <2>3. queue' \in Seq(Completions)
    BY <1>18, <2>1, PushType DEF DrainOne, Statuses
  <2> QED BY <1>18, <2>2, <2>3 DEF DrainOne, TypeOK
<1>19. CASE UNCHANGED vars
  BY <1>19 DEF vars, TypeOK
<1> QED
  BY <1>1, <1>2, <1>3, <1>4, <1>5, <1>6, <1>7, <1>8, <1>9, <1>10, <1>11, <1>12, <1>13,
     <1>14, <1>15, <1>16, <1>17, <1>18, <1>19
  DEF Next, CallStep, TaskStep, FreeStep

\* The request bookkeeping keeps its types.
LEMMA TypeCorrect == Spec => []TypeOK
<1>1. Init => TypeOK
  <2> SUFFICES ASSUME Init PROVE TypeOK
    OBVIOUS
  <2>1. calls \in [Calls -> CallRecords]
    BY RejectedCall DEF Init
  <2>2. queue \in Seq(Completions) /\ delivered \in [Calls -> Seq(Statuses)]
    BY EmptySeq DEF Init
  <2>3. /\ pending \in [ReqIds -> Calls \cup {NoCall}]
        /\ tasks \in [Calls -> TaskSteps] /\ result \in [Calls -> Statuses]
        /\ handle \in [Calls -> HandleStates] /\ server \in [Calls -> ServerStates]
    BY DEF Init, TaskSteps, Statuses, HandleStates, ServerStates
  <2> QED BY <2>1, <2>2, <2>3 DEF Init, TypeOK, CallRecords, FreeSteps
<1> QED BY <1>1, TypeStep, PTL DEF Spec

-----------------------------------------------------------------------------
(***************************************************************************)
(* What pushing and delivering do to the answers.                          *)
(***************************************************************************)

\* Steps that leave the queue and the deliveries alone.
LEMMA SameAnswers ==
  ASSUME UNCHANGED <<queue, delivered>>, NEW c
  PROVE  /\ Answered(c)' <=> Answered(c)
         /\ AtMostOnce(c)' <=> AtMostOnce(c)
         /\ QueuedOk(c)' <=> QueuedOk(c)
         /\ Succeeded(c)' <=> Succeeded(c)
BY DEF Answered, AtMostOnce, QueuedOk, Succeeded, Queued

\* A completion pushed for an unanswered call is its only one, and changes
\* nothing for the others.
LEMMA PushAnswers ==
  ASSUME TypeOK, NEW c \in Calls, NEW s \in Statuses,
         queue' = Append(queue, [call |-> c, status |-> s]), delivered' = delivered
  PROVE  /\ Answered(c)'
         /\ ~Answered(c) => AtMostOnce(c)'
         /\ s = "ok" => QueuedOk(c)'
         /\ Succeeded(c)' => s = "ok" \/ Succeeded(c)
         /\ \A d \in Calls : Succeeded(d) => Succeeded(d)'
         /\ \A d \in Calls : QueuedOk(d) => QueuedOk(d)'
         /\ \A d \in Calls \ {c} :
              /\ Answered(d)' <=> Answered(d)
              /\ AtMostOnce(d)' <=> AtMostOnce(d)
              /\ Succeeded(d)' <=> Succeeded(d)
<1> DEFINE new == Len(queue) + 1
           entry == [call |-> c, status |-> s]
<1>1. queue \in Seq(Completions) /\ entry \in Completions /\ entry.call = c /\ entry.status = s
  BY DEF TypeOK, Completions
<1>2. /\ Len(queue) \in Nat /\ DOMAIN queue = 1..Len(queue) /\ DOMAIN queue' = DOMAIN queue \cup {new}
      /\ new \notin DOMAIN queue
      /\ queue'[new] = entry
      /\ \A n \in DOMAIN queue : queue'[n] = queue[n]
  <2> HIDE DEF entry
  <2>1. queue' = Append(queue, entry)
    BY DEF entry
  <2> QED BY <1>1, <2>1
<1> HIDE DEF new, entry
<1>3. Queued(c)' = Queued(c) \cup {new}
  BY <1>1, <1>2 DEF Queued
<1>4. \A d \in Calls \ {c} : Queued(d)' = Queued(d)
  BY <1>1, <1>2 DEF Queued
<1>5. \A d \in Calls : Queued(d) \subseteq DOMAIN queue
  BY DEF Queued
<1>6. Answered(c)'
  BY <1>3 DEF Answered
<1>7. ASSUME ~Answered(c) PROVE AtMostOnce(c)'
  <2>1. Queued(c)' = {new} /\ delivered'[c] = <<>>
    BY <1>3, <1>7 DEF Answered
  <2>2. Len(delivered'[c]) <= 1
    BY <2>1
  <2> QED BY <2>1, <2>2 DEF AtMostOnce
<1>8. s = "ok" => QueuedOk(c)'
  BY <1>1, <1>2, <1>3 DEF QueuedOk
<1>9. ASSUME Succeeded(c)' PROVE s = "ok" \/ Succeeded(c)
  BY <1>1, <1>2, <1>3, <1>5, <1>9 DEF Succeeded
<1>10. \A d \in Calls : QueuedOk(d) => QueuedOk(d)'
  BY <1>2, <1>3, <1>4, <1>5 DEF QueuedOk
<1>11. \A d \in Calls : Succeeded(d) => Succeeded(d)'
  BY <1>2, <1>3, <1>4, <1>5 DEF Succeeded
<1>12. ASSUME NEW d \in Calls \ {c}
       PROVE  /\ Answered(d)' <=> Answered(d)
              /\ AtMostOnce(d)' <=> AtMostOnce(d)
              /\ Succeeded(d)' <=> Succeeded(d)
  <2>1. Queued(d)' = Queued(d) /\ \A n \in Queued(d) : queue'[n] = queue[n]
    BY <1>2, <1>4, <1>5
  <2>2. (Answered(d)' <=> Answered(d)) /\ (AtMostOnce(d)' <=> AtMostOnce(d))
    BY <2>1 DEF Answered, AtMostOnce
  <2>3. Succeeded(d)' <=> Succeeded(d)
    BY <2>1 DEF Succeeded
  <2> QED BY <2>2, <2>3
<1> QED BY <1>6, <1>7, <1>8, <1>9, <1>10, <1>11, <1>12

\* A delivery moves the answer of one call from the queue to the JVM.
LEMMA DeliverAnswers ==
  ASSUME TypeOK, Deliver, \A c \in Calls : AtMostOnce(c), NEW h, h = Head(queue).call
  PROVE  /\ h \in Calls
         /\ Queued(h) # {}
         /\ QueuedOk(h) => Succeeded(h)'
         /\ \A c \in Calls :
              /\ Answered(c)' <=> Answered(c)
              /\ AtMostOnce(c)'
              /\ Succeeded(c)' <=> Succeeded(c)
              /\ c # h => (QueuedOk(c) => QueuedOk(c)')
<1>s. PICK s : s = Head(queue).status
  OBVIOUS
<1>1. /\ queue \in Seq(Completions) /\ queue # <<>>
      /\ Head(queue) = queue[1] /\ Head(queue) \in Completions
      /\ Len(queue) \in Nat \ {0} /\ DOMAIN queue = 1..Len(queue)
  BY HeadTailProperties, EmptySeq, LenProperties DEF Deliver, TypeOK
<1>2. h \in Calls /\ s \in Statuses
  BY <1>s, <1>1 DEF Completions
<1>3. /\ DOMAIN queue' = 1..(Len(queue) - 1)
      /\ \A n \in 1..(Len(queue) - 1) : queue'[n] = queue[n + 1]
  BY <1>1, HeadTailProperties DEF Deliver
<1>4. /\ delivered'[h] = Append(delivered[h], s)
      /\ \A c \in Calls \ {h} : delivered'[c] = delivered[c]
      /\ delivered[h] \in Seq(Statuses)
  BY <1>s, <1>2 DEF Deliver, TypeOK
<1>5. 1 \in Queued(h)
  BY <1>1 DEF Queued
<1>6. Queued(h) = {1} /\ delivered[h] = <<>>
  BY <1>2, <1>5 DEF AtMostOnce
<1>7. delivered'[h] = <<s>> /\ Len(delivered'[h]) = 1
      /\ DOMAIN delivered'[h] = {1} /\ delivered'[h][1] = s
  <2>1. delivered'[h] = <<s>>
    BY <1>4, <1>6
  <2> QED BY <2>1
<1>8. ASSUME NEW c \in Calls \ {h}, NEW n \in Nat
      PROVE  n \in Queued(c)' <=> n + 1 \in Queued(c)
  <2>1. ASSUME n \in Queued(c)' PROVE n + 1 \in Queued(c)
    <3>1. n \in 1..(Len(queue) - 1) /\ queue'[n].call = c
      BY <1>3, <2>1 DEF Queued
    <3>2. n + 1 \in DOMAIN queue /\ queue[n + 1].call = c
      BY <1>1, <1>3, <3>1
    <3> QED BY <3>2 DEF Queued
  <2>2. ASSUME n + 1 \in Queued(c) PROVE n \in Queued(c)'
    <3>1. n + 1 \in 1..Len(queue) /\ queue[n + 1].call = c
      BY <1>1, <2>2 DEF Queued
    <3>2. n # 0
      BY <1>1, <3>1
    <3>3. n \in 1..(Len(queue) - 1) /\ queue'[n].call = c
      BY <1>1, <1>3, <3>1, <3>2
    <3> QED BY <1>3, <3>3 DEF Queued
  <2> QED BY <2>1, <2>2
<1>9. Queued(h)' = {}
  <2> SUFFICES ASSUME NEW n \in DOMAIN queue', queue'[n].call = h PROVE FALSE
    BY DEF Queued
  <2>1. n \in 1..(Len(queue) - 1)
    BY <1>3
  <2>2. n + 1 \in DOMAIN queue /\ n + 1 # 1 /\ queue[n + 1].call = h
    BY <1>1, <1>3, <2>1
  <2>3. n + 1 \in Queued(h)
    BY <2>2 DEF Queued
  <2> QED BY <1>6, <2>2, <2>3
<1>10. ASSUME NEW c \in Calls \ {h} PROVE \A n \in Queued(c) : n \in Nat \ {0, 1} /\ n - 1 \in Nat
  <2> SUFFICES ASSUME NEW n \in Queued(c) PROVE n \in Nat \ {0, 1} /\ n - 1 \in Nat
    OBVIOUS
  <2>1. n \in 1..Len(queue) /\ queue[n].call = c /\ c # h
    BY <1>1 DEF Queued
  <2>2. n # 1
    BY <1>1, <2>1
  <2> QED BY <1>1, <2>1, <2>2
<1>11. ASSUME NEW c \in Calls \ {h} PROVE \A n \in Queued(c)' : n \in Nat \ {0}
  BY <1>1, <1>3 DEF Queued
<1>12. ASSUME NEW c \in Calls \ {h}
       PROVE  /\ Queued(c)' # {} <=> Queued(c) # {}
              /\ QueuedOk(c)' <=> QueuedOk(c)
              /\ (\A m, n \in Queued(c) : m = n) => \A m, n \in Queued(c)' : m = n
  <2>1. ASSUME NEW n \in Queued(c)
        PROVE  n - 1 \in Queued(c)' /\ queue'[n - 1] = queue[n]
    <3>1. n \in Nat \ {0, 1} /\ n - 1 \in Nat /\ (n - 1) + 1 = n
      BY <1>10
    <3>2. n - 1 \in Queued(c)'
      BY <1>8, <3>1
    <3>3. n - 1 \in 1..(Len(queue) - 1)
      BY <1>3, <3>2 DEF Queued
    <3> QED BY <1>3, <3>1, <3>2, <3>3
  <2>2. ASSUME NEW n \in Queued(c)'
        PROVE  n + 1 \in Queued(c) /\ queue'[n] = queue[n + 1] /\ n \in Nat
    <3>1. n \in Nat \ {0}
      BY <1>11
    <3>2. n \in 1..(Len(queue) - 1)
      BY <1>3 DEF Queued
    <3> QED BY <1>3, <1>8, <3>1, <3>2
  <2>3. Queued(c)' # {} <=> Queued(c) # {}
    BY <2>1, <2>2
  <2>4. QueuedOk(c)' <=> QueuedOk(c)
    BY <2>1, <2>2 DEF QueuedOk
  <2>5. ASSUME \A m, n \in Queued(c) : m = n, NEW m \in Queued(c)', NEW n \in Queued(c)'
        PROVE  m = n
    <3>1. m + 1 = n + 1 /\ m \in Nat /\ n \in Nat
      BY <2>2, <2>5
    <3> QED BY <3>1
  <2> QED BY <2>3, <2>4, <2>5
<1>13. /\ Answered(h) /\ Answered(h)' /\ AtMostOnce(h)'
       /\ (Succeeded(h)' <=> s = "ok")
       /\ (Succeeded(h) <=> s = "ok")
  <2>1. Answered(h) /\ Answered(h)'
    BY <1>5, <1>7 DEF Answered
  <2>2. AtMostOnce(h)'
    BY <1>7, <1>9 DEF AtMostOnce
  <2>3. Succeeded(h)' <=> s = "ok"
    BY <1>7, <1>9 DEF Succeeded
  <2>4. queue[1].status = s /\ DOMAIN delivered[h] = {}
    BY <1>s, <1>1, <1>6
  <2>5. Succeeded(h) <=> s = "ok"
    BY <1>6, <2>4 DEF Succeeded
  <2> QED BY <2>1, <2>2, <2>3, <2>5
<1>14. ASSUME NEW c \in Calls \ {h}
       PROVE  /\ Answered(c)' <=> Answered(c)
              /\ AtMostOnce(c)'
              /\ Succeeded(c)' <=> Succeeded(c)
  <2>1. Answered(c)' <=> Answered(c)
    BY <1>4, <1>12 DEF Answered
  <2>2. AtMostOnce(c)'
    BY <1>4, <1>12 DEF AtMostOnce
  <2>3. Succeeded(c)' <=> Succeeded(c)
    BY <1>4, <1>12 DEF Succeeded, QueuedOk
  <2> QED BY <2>1, <2>2, <2>3
<1>15. QueuedOk(h) => Succeeded(h)
  BY DEF QueuedOk, Succeeded
<1>16. \A c \in Calls : c = h \/ c \in Calls \ {h}
  OBVIOUS
<1> QED BY <1>2, <1>5, <1>12, <1>13, <1>14, <1>15, <1>16

-----------------------------------------------------------------------------
(***************************************************************************)
(* The bookkeeping of requests.                                            *)
(***************************************************************************)

\* A step that neither registers call d nor ends its registration.
KeepsCall(d) ==
  /\ calls'[d].pc \notin {"idle", "rejected"} => calls'[d].id \in ReqIds
  /\ calls'[d].id = calls[d].id \/ ~Unfinished(d)
  /\ Unfinished(d)' <=> Unfinished(d)
  /\ Accepted(d)' <=> Accepted(d)
  /\ tasks'[d] # "none" <=> calls'[d].pc = "returned"
  /\ tasks'[d] \in {"retiring", "finished"} <=> tasks[d] \in {"retiring", "finished"}

\* A call that a step leaves alone.
LEMMA SameCall ==
  ASSUME NEW d \in Calls, CallInv(d), calls'[d] = calls[d], tasks'[d] = tasks[d]
  PROVE  KeepsCall(d)
BY DEF KeepsCall, CallInv, Unfinished, Accepted

\* The bookkeeping survives every step that keeps the calls and the answers.
LEMMA KeptBookkeeping ==
  ASSUME TypeOK, RequestInv, \A d \in Calls : KeepsCall(d),
         \A d \in Calls : (Answered(d)' <=> Answered(d)) /\ AtMostOnce(d)',
         UNCHANGED pending, closed => closed'
  PROVE  RegisteredInv' /\ \A d \in Calls : CallInv(d)'
<1>1. ASSUME NEW id \in ReqIds, NEW d \in Calls, pending'[id] = d
      PROVE  calls'[d].id = id /\ Unfinished(d)' /\ ~Answered(d)'
  <2>1. calls[d].id = id /\ Unfinished(d) /\ ~Answered(d)
    BY <1>1 DEF RequestInv, RegisteredInv
  <2> QED BY <2>1 DEF KeepsCall
<1>2. ASSUME NEW d \in Calls PROVE CallInv(d)'
  BY DEF RequestInv, CallInv, KeepsCall
<1> QED BY <1>1, <1>2 DEF RegisteredInv

\* Every step keeps the bookkeeping.
LEMMA RequestStep == TypeOK /\ RequestInv /\ [Next]_vars => RequestInv'
<1> SUFFICES ASSUME TypeOK, RequestInv, [Next]_vars PROVE RequestInv'
  OBVIOUS
<1>c. ASSUME NEW c \in Calls PROVE calls[c] \in CallRecords /\ CallInv(c)
  BY DEF TypeOK, CallRecords, RequestInv
<1>f. calls \in [Calls -> CallRecords] /\ tasks \in [Calls -> TaskSteps]
      /\ pending \in [ReqIds -> Calls \cup {NoCall}]
  BY DEF TypeOK, CallRecords
<1>a. ASSUME UNCHANGED <<queue, delivered>>
      PROVE  \A d \in Calls : (Answered(d)' <=> Answered(d)) /\ AtMostOnce(d)'
  <2> SUFFICES ASSUME NEW d \in Calls PROVE (Answered(d)' <=> Answered(d)) /\ AtMostOnce(d)'
    OBVIOUS
  <2>1. AtMostOnce(d)
    BY <1>c DEF CallInv
  <2> QED BY <1>a, <2>1, SameAnswers
<1>s. ASSUME UNCHANGED <<pending, locked, closed, queueClosed, live, freeing, children>>
      PROVE  StageInv'
  BY <1>s DEF RequestInv, StageInv
\* Steps of one call that keep all calls.
<1>k. ASSUME NEW c \in Calls, KeepsCall(c),
             \A d \in Calls \ {c} : calls'[d] = calls[d] /\ tasks'[d] = tasks[d],
             UNCHANGED <<queue, delivered>>,
             UNCHANGED <<pending, locked, closed, queueClosed, live, freeing, children>>
      PROVE  RequestInv'
  <2>1. \A d \in Calls : KeepsCall(d)
    BY <1>k, <1>c, SameCall
  <2> QED BY <1>a, <1>k, <1>s, <2>1, KeptBookkeeping DEF RequestInv
\* Steps that touch no call.
<1>u. ASSUME UNCHANGED <<calls, tasks, queue, delivered, pending>>, closed => closed', StageInv'
      PROVE  RequestInv'
  <2>1. \A d \in Calls : KeepsCall(d)
    BY <1>u, <1>c, SameCall
  <2> QED BY <1>a, <1>u, <2>1, KeptBookkeeping DEF RequestInv
<1>1. ASSUME NEW c \in Calls, NEW id \in ReqIds, NEW kind \in Ops,
             NEW of \in (Calls \ {c}) \cup {NoCall}, Resolve(c, id, kind, of)
      PROVE  RequestInv'
  <2>1. /\ calls[c].pc = "idle" /\ tasks' = tasks
        /\ \A d \in Calls \ {c} : calls'[d] = calls[d]
        /\ \/ calls'[c] = [pc |-> "resolved", id |-> id, kind |-> kind, of |-> of]
           \/ calls'[c] = Rejected
    BY <1>1, <1>f DEF Resolve
  <2>2. (calls'[c].pc = "resolved" /\ calls'[c].id \in ReqIds) \/ calls'[c].pc = "rejected"
    BY <2>1, RejectedCall
  <2>3. tasks[c] = "none"
    BY <1>c, <2>1 DEF CallInv
  <2>4. KeepsCall(c)
    BY <2>1, <2>2, <2>3 DEF KeepsCall, Unfinished, Accepted, Active
  <2> QED BY <1>1, <1>k, <2>1, <2>4 DEF Resolve
<1>2. ASSUME NEW c \in Calls, Reserve(c) PROVE RequestInv'
  <2>1. /\ calls[c].pc = "resolved" /\ tasks' = tasks
        /\ \A d \in Calls \ {c} : calls'[d] = calls[d]
        /\ calls'[c].pc = "reserved" /\ calls'[c].id = calls[c].id
    BY <1>2, <1>c, <1>f, MovedCall DEF Reserve, CallSteps
  <2>2. KeepsCall(c)
    BY <1>c, <2>1 DEF KeepsCall, CallInv, Unfinished, Accepted
  <2> QED BY <1>2, <1>k, <2>1, <2>2 DEF Reserve
<1>3. ASSUME NEW c \in Calls, Register(c) PROVE RequestInv'
  <2> DEFINE id == calls[c].id
  <2>1. /\ calls[c].pc = "reserved" /\ tasks' = tasks /\ UNCHANGED <<queue, delivered>>
        /\ UNCHANGED <<locked, closed, queueClosed, live, freeing, children>>
    BY <1>3 DEF Register
  <2>2. id \in ReqIds /\ tasks[c] = "none" /\ ~Unfinished(c) /\ ~Answered(c)
    BY <1>c, <2>1 DEF CallInv, Unfinished, Accepted, Active
  <2>3. CASE closed \/ pending[id] # NoCall
    <3>1. /\ calls' = [calls EXCEPT ![c] = Rejected] /\ pending' = pending
      BY <1>3, <2>3 DEF Register
    <3>2. calls'[c].pc = "rejected" /\ \A d \in Calls \ {c} : calls'[d] = calls[d]
      BY <3>1, <1>f, RejectedCall
    <3>3. KeepsCall(c)
      BY <2>1, <2>2, <3>2 DEF KeepsCall, Unfinished, Accepted, Active
    <3> QED BY <1>k, <2>1, <3>1, <3>2, <3>3
  <2>4. CASE ~closed /\ pending[id] = NoCall
    <3>1. /\ calls' = [calls EXCEPT ![c].pc = "registered"]
          /\ pending' = [pending EXCEPT ![id] = c]
      BY <1>3, <2>4 DEF Register
    <3>2. /\ calls'[c].pc = "registered" /\ calls'[c].id = id
          /\ \A d \in Calls \ {c} : calls'[d] = calls[d]
      BY <1>c, <1>f, <3>1, MovedCall DEF CallSteps
    <3>p. PICK k \in ReqIds : k = id
      BY <2>2
    <3> HIDE DEF id
    <3>3. pending'[k] = c /\ \A i \in ReqIds \ {k} : pending'[i] = pending[i]
      BY <1>f, <3>1, <3>p
    <3>4. StageInv'
      BY <2>1, <2>4 DEF RequestInv, StageInv
    <3>5. \A d \in Calls : (Answered(d)' <=> Answered(d)) /\ AtMostOnce(d)'
      BY <1>a, <2>1
    <3>6. ASSUME NEW d \in Calls \ {c} PROVE CallInv(d)'
      <4>1. KeepsCall(d)
        BY <1>c, <2>1, <3>2, SameCall
      <4>2. Unfinished(d) => pending[calls[d].id] = d /\ calls[d].id \in ReqIds
        BY <1>c, <2>4 DEF CallInv, Unfinished, Active
      <4>3. Unfinished(d) => pending'[calls[d].id] = d
        BY <2>4, <3>p, <3>3, <4>2, CallsAssumption
      <4> QED BY <1>c, <2>1, <3>2, <3>5, <4>1, <4>3 DEF CallInv, KeepsCall
    <3>7. CallInv(c)'
      BY <2>1, <2>2, <3>2, <3>3, <3>5, <3>p DEF CallInv, Unfinished, Accepted, Active
    <3>8. RegisteredInv'
      <4> SUFFICES ASSUME NEW i \in ReqIds, NEW d \in Calls, pending'[i] = d
                   PROVE  calls'[d].id = i /\ Unfinished(d)' /\ ~Answered(d)'
        BY DEF RegisteredInv
      <4>1. CASE i = k
        <5>1. Unfinished(c)' /\ ~Answered(c)'
          BY <2>2, <3>2, <3>5 DEF Unfinished
        <5> QED BY <3>2, <3>3, <3>p, <4>1, <5>1
      <4>2. CASE i # k
        <5>1. pending[i] = d
          BY <3>3, <4>2
        <5>2. calls[d].id = i /\ Unfinished(d) /\ ~Answered(d)
          BY <5>1 DEF RequestInv, RegisteredInv
        <5>3. d # c
          BY <2>2, <5>2
        <5>4. calls'[d].id = i /\ Unfinished(d)' /\ ~Answered(d)'
          BY <2>1, <3>2, <3>5, <5>2, <5>3 DEF Unfinished
        <5> QED BY <5>4
      <4> QED BY <4>1, <4>2
    <3> QED BY <3>4, <3>6, <3>7, <3>8 DEF RequestInv
  <2> QED BY <2>3, <2>4
<1>4. ASSUME NEW c \in Calls, Spawn(c) PROVE RequestInv'
  <2>1. /\ calls[c].pc = "registered"
        /\ \A d \in Calls \ {c} : calls'[d] = calls[d] /\ tasks'[d] = tasks[d]
        /\ calls'[c].pc = "returned" /\ calls'[c].id = calls[c].id /\ tasks'[c] = "running"
    BY <1>4, <1>c, <1>f, MovedCall DEF Spawn, CallSteps
  <2>2. KeepsCall(c)
    BY <1>c, <2>1 DEF KeepsCall, CallInv, Unfinished, Accepted, Active
  <2> QED BY <1>4, <1>k, <2>1, <2>2 DEF Spawn
<1>5. ASSUME NEW id \in ReqIds, Cancel(id) PROVE RequestInv'
  BY <1>5, <1>s, <1>u DEF Cancel
<1>6. ASSUME NEW c \in Calls,
             \/ TaskCancelled(c) \/ StopBegin(c)
             \/ \E outcome \in Outcomes : OpEnds(c, outcome) \/ StopEnds(c, outcome)
      PROVE  RequestInv'
  <2>1. /\ tasks[c] \in Active /\ calls' = calls
        /\ \A d \in Calls \ {c} : tasks'[d] = tasks[d]
        /\ tasks'[c] \in Active
    BY <1>6, <1>f DEF TaskCancelled, StopBegin, OpEnds, StopEnds, Active
  <2>2. KeepsCall(c)
    BY <1>c, <2>1 DEF KeepsCall, CallInv, Unfinished, Accepted, Active
  <2> QED BY <1>6, <1>k, <2>1, <2>2 DEF TaskCancelled, StopBegin, OpEnds, StopEnds
<1>7. ASSUME NEW c \in Calls, TaskFinish(c) PROVE RequestInv'
  <2> DEFINE id == calls[c].id
  <2>1. /\ tasks[c] = "finishing" /\ calls' = calls
        /\ tasks'[c] = "retiring" /\ \A d \in Calls \ {c} : tasks'[d] = tasks[d]
        /\ delivered' = delivered
        /\ UNCHANGED <<locked, closed, queueClosed, live, freeing, children>>
    BY <1>7, <1>f DEF TaskFinish
  <2>2. calls[c].pc = "returned" /\ id \in ReqIds /\ Unfinished(c)
    BY <1>c, <2>1 DEF CallInv, Unfinished, Active
  <2>p. PICK k \in ReqIds : k = id
    BY <2>2
  <2> HIDE DEF id
  <2>3. CASE pending[k] # NoCall
    <3>1. pending[k] = c /\ ~Answered(c) /\ ~queueClosed
      BY <1>c, <2>2, <2>3, <2>p DEF CallInv, RequestInv, RegisteredInv, StageInv, id
    <3>2. /\ pending' = [pending EXCEPT ![k] = NoCall]
          /\ queue' = Append(queue, [call |-> c, status |-> result[c]])
      BY <1>7, <2>3, <2>p, <3>1 DEF TaskFinish, Push, id
    <3>3. pending'[k] = NoCall /\ \A i \in ReqIds \ {k} : pending'[i] = pending[i]
      BY <1>f, <3>2
    <3>4. /\ Answered(c)' /\ AtMostOnce(c)'
          /\ \A d \in Calls \ {c} : (Answered(d)' <=> Answered(d)) /\ (AtMostOnce(d)' <=> AtMostOnce(d))
      <4>1. PICK st \in Statuses : st = result[c]
        BY DEF TypeOK
      <4> QED BY <2>1, <3>1, <3>2, <4>1, PushAnswers
    <3>5. StageInv'
      BY <2>1, <3>1 DEF RequestInv, StageInv
    <3>6. CallInv(c)'
      BY <2>1, <2>2, <3>4, <1>c DEF CallInv, Unfinished, Accepted, Active
    <3>7. ASSUME NEW d \in Calls \ {c} PROVE CallInv(d)'
      <4>1. KeepsCall(d)
        BY <1>c, <2>1, SameCall
      <4>2. Unfinished(d) =>
              \/ pending'[calls[d].id] = d
              \/ closed /\ pending'[calls[d].id] = NoCall /\ Answered(d)
        BY <1>c, <3>1, <3>3, CallsAssumption DEF CallInv, Unfinished, Active
      <4> QED BY <1>c, <2>1, <3>4, <4>1, <4>2 DEF CallInv, KeepsCall
    <3>8. RegisteredInv'
      <4> SUFFICES ASSUME NEW i \in ReqIds, NEW d \in Calls, pending'[i] = d
                   PROVE  calls'[d].id = i /\ Unfinished(d)' /\ ~Answered(d)'
        BY DEF RegisteredInv
      <4>1. i # k
        BY <3>3, CallsAssumption
      <4>2. pending[i] = d
        BY <3>3, <4>1
      <4>3. calls[d].id = i /\ Unfinished(d) /\ ~Answered(d)
        BY <4>2 DEF RequestInv, RegisteredInv
      <4>4. d # c
        BY <2>p, <4>1, <4>3 DEF id
      <4>5. calls'[d].id = i /\ Unfinished(d)' /\ ~Answered(d)'
        BY <2>1, <3>4, <4>3, <4>4 DEF Unfinished
      <4> QED BY <4>5
    <3> QED BY <3>5, <3>6, <3>7, <3>8 DEF RequestInv
  <2>4. CASE pending[k] = NoCall
    <3>1. UNCHANGED <<pending, queue>>
      BY <1>7, <2>4, <2>p DEF TaskFinish, id
    <3>2. Answered(c)
      BY <1>c, <2>2, <2>4, <2>p, CallsAssumption DEF CallInv, id
    <3>3. \A d \in Calls : (Answered(d)' <=> Answered(d)) /\ AtMostOnce(d)'
      BY <1>a, <2>1, <3>1
    <3>4. StageInv'
      BY <1>s, <2>1, <3>1
    <3>5. CallInv(c)'
      BY <2>1, <2>2, <3>2, <3>3, <1>c DEF CallInv, Unfinished, Accepted, Active
    <3>6. ASSUME NEW d \in Calls \ {c} PROVE CallInv(d)'
      <4>1. KeepsCall(d)
        BY <1>c, <2>1, SameCall
      <4> QED BY <1>c, <2>1, <3>1, <3>3, <4>1 DEF CallInv, KeepsCall
    <3>7. RegisteredInv'
      <4> SUFFICES ASSUME NEW i \in ReqIds, NEW d \in Calls, pending'[i] = d
                   PROVE  calls'[d].id = i /\ Unfinished(d)' /\ ~Answered(d)'
        BY DEF RegisteredInv
      <4>1. pending[i] = d
        BY <3>1
      <4>2. calls[d].id = i /\ Unfinished(d) /\ ~Answered(d)
        BY <4>1 DEF RequestInv, RegisteredInv
      <4>3. d # c
        BY <3>2, <4>2
      <4>4. calls'[d].id = i /\ Unfinished(d)' /\ ~Answered(d)'
        BY <2>1, <3>3, <4>2, <4>3 DEF Unfinished
      <4> QED BY <4>4
    <3> QED BY <3>4, <3>5, <3>6, <3>7 DEF RequestInv
  <2> QED BY <2>3, <2>4
<1>8. ASSUME NEW c \in Calls, TaskRetire(c) PROVE RequestInv'
  <2>1. /\ tasks[c] = "retiring" /\ calls' = calls
        /\ tasks'[c] = "finished" /\ \A d \in Calls \ {c} : tasks'[d] = tasks[d]
    BY <1>8, <1>f DEF TaskRetire
  <2>2. KeepsCall(c)
    BY <1>c, <2>1 DEF KeepsCall, CallInv, Unfinished, Accepted, Active
  <2> QED BY <1>8, <1>k, <2>1, <2>2 DEF TaskRetire
<1>9. ASSUME NEW c \in Calls, Reap(c) \/ JvmFree(c) PROVE RequestInv'
  BY <1>9, <1>s, <1>u DEF Reap, JvmFree
<1>10. CASE Deliver
  <2>1. \A d \in Calls : AtMostOnce(d)
    BY <1>c DEF CallInv
  <2>2. \A d \in Calls : (Answered(d)' <=> Answered(d)) /\ AtMostOnce(d)'
    BY <1>10, <2>1, DeliverAnswers
  <2>3. \A d \in Calls : KeepsCall(d)
    BY <1>10, <1>c, SameCall DEF Deliver
  <2>4. StageInv'
    BY <1>10, <1>s DEF Deliver
  <2> QED BY <1>10, <2>2, <2>3, <2>4, KeptBookkeeping DEF Deliver, RequestInv
<1>11. CASE FreeBegin \/ FreeReturn
  <2>1. StageInv'
    BY <1>11 DEF FreeBegin, FreeReturn, RequestInv, StageInv
  <2> QED BY <1>11, <1>u, <2>1 DEF FreeBegin, FreeReturn
<1>12. ASSUME NEW c \in Calls, CloseChild(c) PROVE RequestInv'
  <2>1. StageInv'
    BY <1>12 DEF CloseChild, RequestInv, StageInv
  <2> QED BY <1>12, <1>u, <2>1 DEF CloseChild
<1>13. CASE DrainBegin \/ DrainEnd
  <2>1. StageInv'
    BY <1>13 DEF DrainBegin, DrainEnd, RequestInv, StageInv
  <2> QED BY <1>13, <1>u, <2>1 DEF DrainBegin, DrainEnd
<1>14. ASSUME NEW id \in ReqIds, DrainOne(id) PROVE RequestInv'
  <2>1. PICK c \in Calls : c = pending[id]
    BY <1>14, <1>f DEF DrainOne
  <2>2. /\ freeing = "draining" /\ closed /\ ~queueClosed
        /\ UNCHANGED <<calls, tasks, delivered, locked, closed, queueClosed, live, freeing,
                       children>>
        /\ pending' = [pending EXCEPT ![id] = NoCall]
        /\ queue' = Append(queue, [call |-> c, status |-> "shutdown"])
    BY <1>14, <2>1 DEF DrainOne, Push, RequestInv, StageInv
  <2>3. calls[c].id = id /\ Unfinished(c) /\ ~Answered(c)
    BY <2>1, CallsAssumption DEF RequestInv, RegisteredInv
  <2>4. pending'[id] = NoCall /\ \A i \in ReqIds \ {id} : pending'[i] = pending[i]
    BY <1>f, <2>2
  <2>5. /\ Answered(c)' /\ AtMostOnce(c)'
        /\ \A d \in Calls \ {c} : (Answered(d)' <=> Answered(d)) /\ (AtMostOnce(d)' <=> AtMostOnce(d))
    BY <2>2, <2>3, PushAnswers DEF Statuses
  <2>6. StageInv'
    BY <2>2 DEF RequestInv, StageInv
  <2>7. CallInv(c)'
    <3>1. KeepsCall(c) /\ Accepted(c)
      BY <1>c, <2>2, <2>3, SameCall DEF CallInv, Unfinished, Accepted, Active
    <3> QED BY <1>c, <2>2, <2>3, <2>4, <2>5, <3>1 DEF CallInv, KeepsCall
  <2>8. ASSUME NEW d \in Calls \ {c} PROVE CallInv(d)'
    <3>1. KeepsCall(d)
      BY <1>c, <2>2, SameCall
    <3>2. Unfinished(d) =>
            \/ pending'[calls[d].id] = d
            \/ closed /\ pending'[calls[d].id] = NoCall /\ Answered(d)
      BY <1>c, <2>1, <2>4, CallsAssumption DEF CallInv, Unfinished, Active
    <3> QED BY <1>c, <2>2, <2>5, <3>1, <3>2 DEF CallInv, KeepsCall
  <2>9. RegisteredInv'
    <3> SUFFICES ASSUME NEW i \in ReqIds, NEW d \in Calls, pending'[i] = d
                 PROVE  calls'[d].id = i /\ Unfinished(d)' /\ ~Answered(d)'
      BY DEF RegisteredInv
    <3>1. i # id
      BY <2>4, CallsAssumption
    <3>2. pending[i] = d
      BY <2>4, <3>1
    <3>3. calls[d].id = i /\ Unfinished(d) /\ ~Answered(d)
      BY <3>2 DEF RequestInv, RegisteredInv
    <3>4. d # c
      BY <2>3, <3>1, <3>3
    <3>5. calls'[d].id = i /\ Unfinished(d)' /\ ~Answered(d)'
      BY <2>2, <2>5, <3>3, <3>4 DEF Unfinished
    <3> QED BY <3>5
  <2> QED BY <2>6, <2>7, <2>8, <2>9 DEF RequestInv
<1>15. CASE UNCHANGED vars
  BY <1>15, <1>s, <1>u DEF vars
<1> QED
  BY <1>1, <1>2, <1>3, <1>4, <1>5, <1>6, <1>7, <1>8, <1>9, <1>10, <1>11, <1>12, <1>13,
     <1>14, <1>15
  DEF Next, CallStep, TaskStep, FreeStep

\* The bookkeeping holds at the start, and so always.
LEMMA RequestCorrect == Spec => []RequestInv
<1>1. Init => RequestInv
  <2> SUFFICES ASSUME Init PROVE RequestInv
    OBVIOUS
  <2>1. StageInv /\ RegisteredInv
    BY CallsAssumption DEF Init, StageInv, RegisteredInv
  <2>2. ASSUME NEW c \in Calls PROVE CallInv(c)
    <3>1. /\ calls[c].pc = "idle" /\ tasks[c] = "none" /\ delivered[c] = <<>>
          /\ queue = <<>>
      BY RejectedCall DEF Init
    <3>2. Queued(c) = {} /\ Len(delivered[c]) <= 1
      BY <3>1 DEF Queued
    <3>3. AtMostOnce(c) /\ ~Answered(c)
      BY <3>1, <3>2 DEF AtMostOnce, Answered
    <3> QED BY <3>1, <3>3 DEF CallInv, Unfinished, Active
  <2> QED BY <2>1, <2>2 DEF RequestInv
<1> QED BY <1>1, RequestStep, TypeCorrect, PTL DEF Spec

\* "Every req_id produces exactly one terminal completion" (queue.rs:12): an
\* accepted call is registered or answered, never both and never neither.
THEOREM OneCompletionEach == Spec => []ExactlyOneCompletion
<1>1. TypeOK /\ RequestInv => ExactlyOneCompletion
  <2> SUFFICES ASSUME TypeOK, RequestInv PROVE ExactlyOneCompletion
    OBVIOUS
  <2>1. ASSUME NEW c \in Calls
        PROVE  /\ AtMostOnce(c)
               /\ Accepted(c) <=> (Registered(c) \/ Answered(c))
               /\ ~(Registered(c) /\ Answered(c))
    <3>1. CallInv(c)
      BY DEF RequestInv
    <3>2. Registered(c) => Unfinished(c) /\ ~Answered(c)
      BY CallsAssumption DEF RequestInv, RegisteredInv, Registered
    <3>3. Unfinished(c) => Accepted(c) /\ (Registered(c) \/ Answered(c))
      BY <3>1 DEF CallInv, Unfinished, Accepted, Registered, Active
    <3>4. Accepted(c) => Unfinished(c) \/ Answered(c)
      BY <3>1 DEF CallInv, Unfinished, Accepted, Active, TypeOK, TaskSteps
    <3> QED BY <3>1, <3>2, <3>3, <3>4 DEF CallInv
  <2> QED BY <2>1 DEF ExactlyOneCompletion
<1> QED BY <1>1, TypeCorrect, RequestCorrect, PTL

-----------------------------------------------------------------------------
(***************************************************************************)
(* Handles, child processes and kt_runtime_free.                           *)
(***************************************************************************)

\* Nothing succeeds without an answer.
LEMMA SucceededIsAnswered ==
  ASSUME NEW c PROVE Succeeded(c) => Answered(c)
BY DEF Succeeded, Answered

\* Every step keeps the account of handles, children and tracker tokens.
LEMMA ResourceStep ==
  TypeOK /\ TypeOK' /\ RequestInv /\ ResourceInv /\ [Next]_vars => ResourceInv'
<1> SUFFICES ASSUME TypeOK, TypeOK', RequestInv, ResourceInv, [Next]_vars PROVE ResourceInv'
  OBVIOUS
<1>c. ASSUME NEW c \in Calls
      PROVE  calls[c] \in CallRecords /\ CallInv(c) /\ TrackInv(c) /\ OwnerInv(c)
  BY DEF TypeOK, CallRecords, RequestInv, ResourceInv
<1>f. /\ calls \in [Calls -> CallRecords] /\ tasks \in [Calls -> TaskSteps]
      /\ pending \in [ReqIds -> Calls \cup {NoCall}]
      /\ result \in [Calls -> Statuses] /\ handle \in [Calls -> HandleStates]
      /\ server \in [Calls -> ServerStates]
  BY DEF TypeOK, CallRecords
<1>a. ASSUME UNCHANGED <<queue, delivered>>
      PROVE  \A d \in Calls : (QueuedOk(d)' <=> QueuedOk(d)) /\ (Succeeded(d)' <=> Succeeded(d))
  BY <1>a, SameAnswers
<1>1. ASSUME NEW c \in Calls, NEW id \in ReqIds, NEW kind \in Ops,
             NEW of \in (Calls \ {c}) \cup {NoCall}, Resolve(c, id, kind, of)
      PROVE  ResourceInv'
  <2>1. /\ calls[c].pc = "idle" /\ tasks[c] = "none"
        /\ UNCHANGED <<tasks, tracked, result, queue, delivered, handle, server, live, freeing,
                       children>>
        /\ \A d \in Calls \ {c} : calls'[d] = calls[d]
    BY <1>1, <1>f, <1>c DEF Resolve, CallInv
  <2>2. calls'[c].pc \in {"resolved", "rejected"}
    BY <1>1, <1>f, RejectedCall DEF Resolve
  <2>3. calls'[c].kind = "stop" => calls'[c].of \in Calls /\ handle[calls'[c].of] = "jvm"
    BY <1>1, <1>f, RejectedCall DEF Resolve
  <2>4. calls'[c].kind = "stop" => tasks[calls'[c].of] \in {"finishing", "retiring", "finished"}
    BY <1>c, <1>f, <2>3 DEF OwnerInv, TaskSteps
  <2>5. ~Succeeded(c)
    BY <1>c, <2>1, SucceededIsAnswered DEF CallInv, Accepted
  <2>6. \A d \in Calls : (QueuedOk(d)' <=> QueuedOk(d)) /\ (Succeeded(d)' <=> Succeeded(d))
    BY <1>a, <2>1
  <2>7. ASSUME NEW d \in Calls \ {c} PROVE TrackInv(d)' /\ OwnerInv(d)'
    BY <1>c, <2>1, <2>6 DEF TrackInv, OwnerInv
  <2>8. TrackInv(c)'
    BY <1>c, <2>1, <2>2 DEF TrackInv
  <2>9. OwnerInv(c)'
    BY <1>c, <2>1, <2>3, <2>4, <2>5, <2>6 DEF OwnerInv
  <2> QED BY <2>7, <2>8, <2>9 DEF ResourceInv
<1>2. ASSUME NEW c \in Calls, CallStep(c) PROVE ResourceInv'
  <2>1. /\ UNCHANGED <<result, queue, delivered, handle, server, live, freeing, children>>
        /\ \A d \in Calls \ {c} :
             calls'[d] = calls[d] /\ tasks'[d] = tasks[d] /\ (d \in tracked => d \in tracked')
        /\ tasks[c] = "none"
        /\ \/ calls'[c].kind = "use"
           \/ calls'[c].kind = calls[c].kind /\ calls'[c].of = calls[c].of
    <3>1. ASSUME NEW step \in CallSteps
          PROVE  /\ [calls[c] EXCEPT !.pc = step].kind = calls[c].kind
                 /\ [calls[c] EXCEPT !.pc = step].of = calls[c].of
      BY <1>c, MovedCall
    <3>2. PICK new : /\ calls' = [calls EXCEPT ![c] = new]
                     /\ \/ new = Rejected
                        \/ \E step \in CallSteps : new = [calls[c] EXCEPT !.pc = step]
      BY <1>2 DEF CallStep, Reserve, Register, Spawn, CallSteps
    <3>3. new.kind = "use" \/ (new.kind = calls[c].kind /\ new.of = calls[c].of)
      BY <3>1, <3>2, RejectedCall
    <3>4. calls'[c] = new /\ \A d \in Calls \ {c} : calls'[d] = calls[d]
      BY <1>f, <3>2
    <3>5. tasks[c] = "none"
      BY <1>2, <1>c DEF CallStep, Reserve, Register, Spawn, CallInv
    <3> QED BY <1>2, <1>f, <3>3, <3>4, <3>5 DEF CallStep, Reserve, Register, Spawn
  <2>2. tasks'[c] \in {"none", "running"}
    BY <1>2, <1>f, <2>1 DEF CallStep, Reserve, Register, Spawn
  <2>3. \A d \in Calls : (QueuedOk(d)' <=> QueuedOk(d)) /\ (Succeeded(d)' <=> Succeeded(d))
    BY <1>a, <2>1
  <2>4. ASSUME NEW d \in Calls, OwnerInv(d), calls[d].kind = "stop"
        PROVE  calls[d].of \in Calls \ {c}
    BY <2>1, <2>4 DEF OwnerInv
  <2>5. ASSUME NEW d \in Calls \ {c} PROVE TrackInv(d)' /\ OwnerInv(d)'
    <3>1. TrackInv(d)'
      BY <1>c, <2>1 DEF TrackInv
    <3>2. OwnerInv(d)'
      BY <1>c, <2>1, <2>3, <2>4 DEF OwnerInv
    <3> QED BY <3>1, <3>2
  <2>6. OwnerInv(c)'
    BY <1>c, <2>1, <2>2, <2>3, <2>4 DEF OwnerInv
  <2>7. TrackInv(c)'
    <3>1. CASE Reserve(c)
      <4>1. calls'[c].pc = "reserved" /\ c \in tracked' /\ tasks'[c] = tasks[c]
        BY <1>c, <1>f, <3>1, MovedCall DEF Reserve, CallSteps
      <4> QED BY <1>c, <2>1, <4>1 DEF TrackInv
    <3>2. CASE Register(c)
      <4>1. \/ calls'[c].pc = "rejected"
            \/ calls'[c].pc = "registered" /\ ~closed /\ tracked' = tracked
        <5>1. [calls[c] EXCEPT !.pc = "registered"].pc = "registered"
          BY <1>c, MovedCall DEF CallSteps
        <5> QED BY <1>f, <3>2, <5>1, RejectedCall DEF Register
      <4>2. calls[c].pc = "reserved" /\ tasks'[c] = tasks[c]
        BY <3>2 DEF Register
      <4>3. ~closed => freeing # "returned"
        BY DEF RequestInv, StageInv
      <4> QED BY <1>c, <2>1, <4>1, <4>2, <4>3 DEF TrackInv
    <3>3. CASE Spawn(c)
      <4>1. calls'[c].pc = "returned" /\ c \in tracked' /\ calls[c].pc = "registered"
        BY <1>c, <1>f, <3>3, MovedCall DEF Spawn, CallSteps
      <4> QED BY <1>c, <2>1, <4>1 DEF TrackInv
    <3> QED BY <1>2, <3>1, <3>2, <3>3 DEF CallStep
  <2> QED BY <2>5, <2>6, <2>7 DEF ResourceInv
<1>3. ASSUME UNCHANGED <<calls, tasks, tracked, result, queue, delivered, handle, server, live,
                         children>>,
             freeing' # "returned" \/ freeing' = freeing
      PROVE  ResourceInv'
  <2>1. \A d \in Calls : (QueuedOk(d)' <=> QueuedOk(d)) /\ (Succeeded(d)' <=> Succeeded(d))
    BY <1>3, <1>a
  <2>2. ASSUME NEW d \in Calls PROVE TrackInv(d)' /\ OwnerInv(d)'
    BY <1>3, <1>c, <2>1 DEF TrackInv, OwnerInv
  <2> QED BY <2>2 DEF ResourceInv
<1>4. ASSUME NEW c \in Calls, TaskCancelled(c) \/ StopBegin(c) PROVE ResourceInv'
  <2>1. /\ UNCHANGED <<calls, tracked, queue, delivered, handle, server, live, freeing,
                       children>>
        /\ \A d \in Calls \ {c} : tasks'[d] = tasks[d] /\ result'[d] = result[d]
        /\ tasks[c] \in {"running", "stopping"}
        /\ \/ tasks'[c] = "finishing" /\ result'[c] = "cancelled"
           \/ tasks'[c] = "stopping" /\ calls[c].kind = "stop"
    BY <1>4, <1>f DEF TaskCancelled, StopBegin
  <2>2. \A d \in Calls : (QueuedOk(d)' <=> QueuedOk(d)) /\ (Succeeded(d)' <=> Succeeded(d))
    BY <1>a, <2>1
  <2>3. ASSUME NEW d \in Calls, calls[d].kind = "stop" PROVE calls[d].of \in Calls \ {c}
    BY <1>c, <2>1, <2>3 DEF OwnerInv
  <2>4. ASSUME NEW d \in Calls PROVE TrackInv(d)'
    BY <1>c, <2>1 DEF TrackInv
  <2>5. ASSUME NEW d \in Calls \ {c} PROVE OwnerInv(d)'
    BY <1>c, <2>1, <2>2, <2>3 DEF OwnerInv
  <2>6. OwnerInv(c)'
    BY <1>c, <2>1, <2>2, <2>3 DEF OwnerInv
  <2> QED BY <2>4, <2>5, <2>6 DEF ResourceInv
<1>5. ASSUME NEW c \in Calls, NEW outcome \in Outcomes, OpEnds(c, outcome) PROVE ResourceInv'
  <2>1. /\ UNCHANGED <<calls, tracked, queue, delivered, live, freeing, children>>
        /\ \A d \in Calls \ {c} : /\ tasks'[d] = tasks[d] /\ result'[d] = result[d]
                                  /\ handle'[d] = handle[d] /\ server'[d] = server[d]
        /\ tasks[c] = "running" /\ calls[c].kind # "stop" /\ tasks'[c] = "finishing"
    BY <1>5, <1>f DEF OpEnds
  <2>2. handle[c] = "none" /\ server[c] = "none" /\ freeing # "returned" /\ c \in tracked
    BY <1>c, <2>1 DEF OwnerInv, TrackInv
  <2>3. handle'[c] \in {"none", "pending"} /\ (handle'[c] = "pending" => live /\ result'[c] = "ok")
    BY <1>5, <1>f, <2>2 DEF OpEnds
  <2>4. \A d \in Calls : (QueuedOk(d)' <=> QueuedOk(d)) /\ (Succeeded(d)' <=> Succeeded(d))
    BY <1>a, <2>1
  <2>5. ASSUME NEW d \in Calls, calls[d].kind = "stop" PROVE calls[d].of \in Calls \ {c}
    BY <1>c, <2>1, <2>5 DEF OwnerInv
  <2>6. ASSUME NEW d \in Calls \ {c} PROVE TrackInv(d)' /\ OwnerInv(d)'
    <3>1. TrackInv(d)'
      BY <1>c, <2>1 DEF TrackInv
    <3>2. OwnerInv(d)'
      BY <1>c, <2>1, <2>4, <2>5 DEF OwnerInv
    <3> QED BY <3>1, <3>2
  <2>7. TrackInv(c)'
    BY <1>c, <2>1, <2>2, <2>3 DEF TrackInv
  <2>8. OwnerInv(c)'
    BY <2>1, <2>3, <2>4 DEF OwnerInv
  <2> QED BY <2>6, <2>7, <2>8 DEF ResourceInv
<1>6. ASSUME NEW c \in Calls, NEW outcome \in Outcomes, StopEnds(c, outcome) PROVE ResourceInv'
  <2>1. PICK of : of = calls[c].of
    OBVIOUS
  <2>2. /\ UNCHANGED <<calls, tracked, queue, delivered, handle, live, freeing, children>>
        /\ \A d \in Calls \ {c} : tasks'[d] = tasks[d] /\ result'[d] = result[d]
        /\ tasks[c] = "stopping" /\ tasks'[c] = "finishing"
        /\ \A d \in Calls : server'[d] = server[d] \/ (d = of /\ server'[d] = "reaped")
        /\ of \in Calls => server'[of] = "reaped"
    BY <1>6, <1>f, <2>1 DEF StopEnds
  <2>3. freeing # "returned" /\ c \in tracked
    BY <1>c, <2>2 DEF TrackInv
  <2>4. \A d \in Calls : (QueuedOk(d)' <=> QueuedOk(d)) /\ (Succeeded(d)' <=> Succeeded(d))
    BY <1>a, <2>2
  <2>5. ASSUME NEW d \in Calls, calls[d].kind = "stop"
        PROVE  /\ calls[d].of \in Calls \ {c}
               /\ server[calls[d].of] = "reaped" => server'[calls[d].of] = "reaped"
    <3>1. calls[d].of \in Calls \ {c}
      BY <1>c, <2>2, <2>5 DEF OwnerInv
    <3> QED BY <2>2, <3>1
  <2>6. ASSUME NEW d \in Calls PROVE TrackInv(d)'
    BY <1>c, <2>2, <2>3 DEF TrackInv
  <2>s. calls[c].kind = "stop" /\ of \in Calls /\ server'[of] = "reaped"
    BY <1>c, <2>1, <2>2, <2>5 DEF OwnerInv
  \* The server a stop ends belongs to a call that has created it.
  <2>7. ASSUME NEW d \in Calls, tasks'[d] \in {"none", "running", "stopping"}
        PROVE  handle'[d] = "none" /\ server'[d] = "none"
    <3>1. d # c /\ tasks'[d] = tasks[d]
      BY <2>2, <2>7
    <3>2. handle[d] = "none" /\ server[d] = "none"
      BY <1>c, <2>7, <3>1 DEF OwnerInv
    <3>3. d # of
      BY <1>c, <2>1, <2>2, <2>7, <3>1 DEF OwnerInv
    <3> QED BY <2>2, <3>2, <3>3
  <2>8. ASSUME NEW d \in Calls PROVE OwnerInv(d)'
    BY <1>c, <2>1, <2>2, <2>4, <2>5, <2>s, <2>7 DEF OwnerInv
  <2> QED BY <2>6, <2>8 DEF ResourceInv
<1>7. ASSUME NEW c \in Calls, TaskFinish(c) PROVE ResourceInv'
  <2>1. PICK k \in ReqIds : k = calls[c].id
    BY <1>7, <1>c DEF TaskFinish, CallInv
  <2>2. /\ UNCHANGED <<calls, tracked, delivered, live, freeing, children>>
        /\ \A d \in Calls \ {c} : tasks'[d] = tasks[d] /\ result'[d] = result[d]
        /\ tasks[c] = "finishing" /\ tasks'[c] = "retiring"
    BY <1>7, <1>f DEF TaskFinish
  <2>3. freeing # "returned" /\ c \in tracked
    BY <1>c, <2>2 DEF TrackInv
  <2>4. CASE pending[k] # NoCall
    <3>1. pending[k] = c /\ ~queueClosed
      BY <1>c, <2>1, <2>2, <2>4 DEF CallInv, Unfinished, Active, RequestInv, StageInv
    <3>2. /\ queue' = Append(queue, [call |-> c, status |-> result[c]])
          /\ UNCHANGED <<handle, server>>
      BY <1>7, <2>1, <2>4, <3>1 DEF TaskFinish, Push
    <3>3. PICK st \in Statuses : st = result[c]
      BY <1>f
    <3>4. /\ st = "ok" => QueuedOk(c)'
          /\ Succeeded(c)' => st = "ok" \/ Succeeded(c)
          /\ \A d \in Calls : Succeeded(d) => Succeeded(d)'
          /\ \A d \in Calls : QueuedOk(d) => QueuedOk(d)'
          /\ \A d \in Calls \ {c} : Succeeded(d)' <=> Succeeded(d)
      BY <2>2, <3>2, <3>3, PushAnswers
    <3>5. ASSUME NEW d \in Calls PROVE TrackInv(d)'
      BY <1>c, <2>2, <2>3, <3>2 DEF TrackInv
    <3>6. ASSUME NEW d \in Calls, calls[d].kind = "stop" PROVE
            calls[d].of \in Calls /\ tasks'[calls[d].of] \in {"finishing", "retiring", "finished"}
      BY <1>c, <2>2, <3>6 DEF OwnerInv
    <3>7. ASSUME NEW d \in Calls \ {c} PROVE OwnerInv(d)'
      BY <1>c, <2>2, <3>2, <3>4, <3>6 DEF OwnerInv
    <3>8. OwnerInv(c)'
      BY <1>c, <2>2, <3>2, <3>3, <3>4, <3>6 DEF OwnerInv
    <3> QED BY <3>5, <3>7, <3>8 DEF ResourceInv
  <2>5. CASE pending[k] = NoCall
    <3>1. DropResult(c) /\ UNCHANGED <<queue>>
      BY <1>7, <2>1, <2>5 DEF TaskFinish
    <3>2. /\ \A d \in Calls \ {c} : handle'[d] = handle[d] /\ server'[d] = server[d]
          /\ \/ handle[c] = "pending" /\ handle'[c] = "removed" /\ server'[c] # "live"
             \/ handle[c] # "pending" /\ handle'[c] = handle[c] /\ server'[c] = server[c]
          /\ server[c] # "live" => server'[c] = server[c]
      BY <1>f, <3>1 DEF DropResult
    <3>3. \A d \in Calls : (QueuedOk(d)' <=> QueuedOk(d)) /\ (Succeeded(d)' <=> Succeeded(d))
      BY <1>a, <2>2, <3>1
    <3>4. ASSUME NEW d \in Calls PROVE TrackInv(d)'
      BY <1>c, <2>2, <2>3, <3>2 DEF TrackInv
    <3>5. ASSUME NEW d \in Calls, calls[d].kind = "stop" PROVE
            /\ calls[d].of \in Calls /\ tasks'[calls[d].of] \in {"finishing", "retiring", "finished"}
            /\ server[calls[d].of] = "reaped" => server'[calls[d].of] = "reaped"
      BY <1>c, <2>2, <3>2, <3>5 DEF OwnerInv
    <3>6. ASSUME NEW d \in Calls \ {c} PROVE OwnerInv(d)'
      BY <1>c, <2>2, <3>2, <3>3, <3>5 DEF OwnerInv
    <3>7. OwnerInv(c)'
      BY <1>c, <2>2, <3>2, <3>3, <3>5 DEF OwnerInv
    <3> QED BY <3>4, <3>6, <3>7 DEF ResourceInv
  <2> QED BY <2>4, <2>5
<1>8. ASSUME NEW c \in Calls, TaskRetire(c) PROVE ResourceInv'
  <2>1. /\ UNCHANGED <<calls, result, queue, delivered, handle, server, live, freeing, children>>
        /\ \A d \in Calls \ {c} : tasks'[d] = tasks[d] /\ (d \in tracked => d \in tracked')
        /\ tasks[c] = "retiring" /\ tasks'[c] = "finished"
    BY <1>8, <1>f DEF TaskRetire
  <2>2. \A d \in Calls : (QueuedOk(d)' <=> QueuedOk(d)) /\ (Succeeded(d)' <=> Succeeded(d))
    BY <1>a, <2>1
  <2>3. calls[c].pc = "returned"
    BY <1>c, <2>1 DEF CallInv
  <2>4. ASSUME NEW d \in Calls PROVE TrackInv(d)'
    BY <1>c, <2>1, <2>3 DEF TrackInv
  <2>5. ASSUME NEW d \in Calls, calls[d].kind = "stop" PROVE
          calls[d].of \in Calls /\ tasks'[calls[d].of] \in {"finishing", "retiring", "finished"}
    BY <1>c, <2>1, <2>5 DEF OwnerInv
  <2>6. ASSUME NEW d \in Calls PROVE OwnerInv(d)'
    BY <1>c, <2>1, <2>2, <2>5 DEF OwnerInv
  <2> QED BY <2>4, <2>6 DEF ResourceInv
\* Steps of the owners of handles and children.
<1>9. ASSUME NEW c \in Calls, Reap(c) \/ JvmFree(c) \/ CloseChild(c) PROVE ResourceInv'
  <2>1. /\ UNCHANGED <<calls, tasks, tracked, result, queue, delivered, live, freeing>>
        /\ \A d \in Calls \ {c} :
             handle'[d] = handle[d] /\ server'[d] = server[d] /\ (d \in children => d \in children')
        /\ handle'[c] = handle[c] \/ (handle[c] = "jvm" /\ handle'[c] = "removed")
        /\ server[c] = "none" => server'[c] = "none"
        /\ server[c] = "reaped" => server'[c] = "reaped"
        /\ server'[c] = "live" => server[c] = "live" /\ handle'[c] = handle[c] /\ children' = children
    BY <1>9, <1>f DEF Reap, JvmFree, CloseChild, ServerStates
  <2>2. \A d \in Calls : (QueuedOk(d)' <=> QueuedOk(d)) /\ (Succeeded(d)' <=> Succeeded(d))
    BY <1>a, <2>1
  <2>3. ASSUME NEW d \in Calls PROVE TrackInv(d)'
    BY <1>c, <2>1 DEF TrackInv
  <2>4. ASSUME NEW d \in Calls, calls[d].kind = "stop" PROVE
          calls[d].of \in Calls /\ (server[calls[d].of] = "reaped" => server'[calls[d].of] = "reaped")
    BY <1>c, <2>1, <2>4 DEF OwnerInv
  <2>5. ASSUME NEW d \in Calls \ {c} PROVE OwnerInv(d)'
    BY <1>c, <2>1, <2>2, <2>4 DEF OwnerInv
  <2>6. OwnerInv(c)'
    BY <1>c, <2>1, <2>2, <2>4 DEF OwnerInv
  <2> QED BY <2>3, <2>5, <2>6 DEF ResourceInv
<1>10. CASE Deliver
  <2>1. PICK h : h = Head(queue).call
    OBVIOUS
  <2>2. \A d \in Calls : AtMostOnce(d)
    BY <1>c DEF CallInv
  <2>3. /\ h \in Calls /\ Queued(h) # {}
        /\ QueuedOk(h) => Succeeded(h)'
        /\ \A d \in Calls : Succeeded(d)' <=> Succeeded(d)
        /\ \A d \in Calls \ {h} : QueuedOk(d) => QueuedOk(d)'
    BY <1>10, <2>1, <2>2, DeliverAnswers
  <2>4. /\ UNCHANGED <<calls, tasks, tracked, result, server, live, freeing, children>>
        /\ \A d \in Calls \ {h} : handle'[d] = handle[d]
        /\ handle'[h] = IF handle[h] = "pending" THEN "jvm" ELSE handle[h]
    BY <1>10, <1>f, <2>1, <2>3 DEF Deliver
  <2>5. Answered(h)
    BY <2>3 DEF Answered
  <2>6. handle[h] = "pending" => Succeeded(h)'
    <3> SUFFICES ASSUME handle[h] = "pending", tasks[h] = "finishing" PROVE FALSE
      BY <1>c, <2>3 DEF OwnerInv
    <3>1. live /\ ~closed
      BY <1>c, <2>3 DEF TrackInv, RequestInv, StageInv
    <3>2. Unfinished(h)
      BY DEF Unfinished, Active
    <3>3. pending[calls[h].id] = h /\ calls[h].id \in ReqIds
      BY <1>c, <2>3, <3>1, <3>2 DEF CallInv
    <3> QED BY <2>3, <2>5, <3>3 DEF RequestInv, RegisteredInv
  <2>7. ASSUME NEW d \in Calls PROVE TrackInv(d)'
    BY <1>c, <2>3, <2>4 DEF TrackInv
  <2>8. ASSUME NEW d \in Calls \ {h} PROVE OwnerInv(d)'
    BY <1>c, <2>3, <2>4 DEF OwnerInv
  <2>9. OwnerInv(h)'
    BY <1>c, <2>3, <2>4, <2>6 DEF OwnerInv
  <2> QED BY <2>7, <2>8, <2>9 DEF ResourceInv
<1>11. CASE FreeBegin
  <2>1. /\ UNCHANGED <<calls, tasks, tracked, result, queue, delivered, server>>
        /\ live /\ freeing' = "children"
        /\ \A d \in Calls : /\ handle'[d] \notin {"pending", "jvm"}
                            /\ \/ handle'[d] = handle[d]
                               \/ d \in children' /\ handle[d] # "none" /\ handle'[d] = "removed"
    BY <1>11 DEF FreeBegin
  <2>2. \A d \in Calls : (QueuedOk(d)' <=> QueuedOk(d)) /\ (Succeeded(d)' <=> Succeeded(d))
    BY <1>a, <2>1
  <2>3. children = {}
    BY <2>1 DEF RequestInv, StageInv
  <2>4. ASSUME NEW d \in Calls PROVE TrackInv(d)' /\ OwnerInv(d)'
    BY <1>c, <2>1, <2>2, <2>3 DEF TrackInv, OwnerInv
  <2> QED BY <2>4 DEF ResourceInv
<1>12. CASE DrainBegin \/ DrainEnd \/ \E id \in ReqIds : Cancel(id)
  BY <1>12, <1>3 DEF DrainBegin, DrainEnd, Cancel
<1>13. ASSUME NEW id \in ReqIds, DrainOne(id) PROVE ResourceInv'
  <2>1. PICK c \in Calls : c = pending[id]
    BY <1>13, <1>f DEF DrainOne
  <2>2. /\ ~queueClosed
        /\ UNCHANGED <<calls, tasks, tracked, result, delivered, handle, server, live, freeing,
                       children>>
        /\ queue' = Append(queue, [call |-> c, status |-> "shutdown"])
    BY <1>13, <2>1 DEF DrainOne, Push, RequestInv, StageInv
  <2>3. /\ Succeeded(c)' => Succeeded(c)
        /\ \A d \in Calls : Succeeded(d) => Succeeded(d)'
        /\ \A d \in Calls : QueuedOk(d) => QueuedOk(d)'
        /\ \A d \in Calls \ {c} : Succeeded(d)' <=> Succeeded(d)
    BY <2>2, PushAnswers DEF Statuses
  <2>4. ASSUME NEW d \in Calls PROVE TrackInv(d)' /\ OwnerInv(d)'
    BY <1>c, <2>2, <2>3 DEF TrackInv, OwnerInv
  <2> QED BY <2>4 DEF ResourceInv
<1>14. CASE FreeReturn
  <2>1. /\ UNCHANGED <<calls, tasks, tracked, result, queue, delivered, handle, server, live,
                       children>>
        /\ tracked = {} /\ \A d \in Calls : server[d] \notin {"live", "reaping"}
    BY <1>14 DEF FreeReturn, TrackerEmpty
  <2>2. \A d \in Calls : (QueuedOk(d)' <=> QueuedOk(d)) /\ (Succeeded(d)' <=> Succeeded(d))
    BY <1>a, <2>1
  <2>3. ASSUME NEW d \in Calls PROVE TrackInv(d)'
    BY <1>c, <1>f, <2>1 DEF TrackInv, TaskSteps, ServerStates
  <2>4. ASSUME NEW d \in Calls PROVE OwnerInv(d)'
    BY <1>c, <2>1, <2>2 DEF OwnerInv
  <2> QED BY <2>3, <2>4 DEF ResourceInv
<1>15. CASE UNCHANGED vars
  BY <1>15, <1>3 DEF vars
<1> QED
  BY <1>1, <1>2, <1>4, <1>5, <1>6, <1>7, <1>8, <1>9, <1>10, <1>11, <1>12, <1>13, <1>14, <1>15
  DEF Next, TaskStep, FreeStep

\* The account of handles, children and tokens holds at the start, and so always.
LEMMA ResourceCorrect == Spec => []ResourceInv
<1>1. Init => ResourceInv
  <2> SUFFICES ASSUME Init, NEW c \in Calls PROVE TrackInv(c) /\ OwnerInv(c)
    BY DEF ResourceInv
  <2>1. /\ calls[c].pc = "idle" /\ calls[c].kind = "use" /\ tasks[c] = "none"
        /\ handle[c] = "none" /\ server[c] = "none" /\ live /\ freeing = "no"
    BY RejectedCall DEF Init
  <2> QED BY <2>1 DEF TrackInv, OwnerInv
<1> QED BY <1>1, ResourceStep, TypeCorrect, RequestCorrect, PTL DEF Spec

\* "Accepted requests and child cleanup must finish before Core's reactor is
\* dropped" (runtime.rs:24): a kt_runtime_free that has returned leaves no
\* task, no unanswered call, no child process and no handle.
THEOREM FreeIsComplete == Spec => []FreeLeavesNothing
<1>1. TypeOK /\ RequestInv /\ ResourceInv => FreeLeavesNothing
  <2> SUFFICES ASSUME TypeOK, RequestInv, ResourceInv, freeing = "returned", NEW c \in Calls
               PROVE  /\ tasks[c] \in {"none", "finished"}
                      /\ Accepted(c) => Answered(c) /\ tasks[c] = "finished"
                      /\ server[c] \in {"none", "reaped"}
                      /\ handle[c] \notin {"pending", "jvm"}
    BY DEF FreeLeavesNothing
  <2>1. CallInv(c) /\ TrackInv(c) /\ ~live
    BY DEF RequestInv, ResourceInv, StageInv
  <2>2. Accepted(c) => tasks[c] = "finished"
    BY <2>1 DEF CallInv, TrackInv, Accepted
  <2> QED BY <2>1, <2>2 DEF CallInv, TrackInv
<1> QED BY <1>1, TypeCorrect, RequestCorrect, ResourceCorrect, PTL

\* A token of the tracker is that of a call or a task that is not done; a child that runs
\* has, or had, a handle; and kt_runtime_free drains after it has closed the children.
TokenInv ==
  /\ \A c \in tracked :
       calls[c].pc \in {"reserved", "registered"}
         \/ tasks[c] \in {"running", "stopping", "finishing", "retiring"}
  /\ \A c \in Calls : server[c] = "live" => handle[c] # "none"
  /\ freeing \in {"draining", "waiting", "returned"} => children = {}

\* An unfinished call that was answered was answered by the shutdown, which cancelled it.
DoomInv == \A c \in Calls : Unfinished(c) /\ Answered(c) => c \in cancelled

\* Every step keeps the tokens.
LEMMA TokenStep ==
  ASSUME TypeOK, RequestInv, TokenInv, [Next]_vars
  PROVE  TokenInv'
<1>f. /\ calls \in [Calls -> CallRecords] /\ tasks \in [Calls -> TaskSteps] /\ tracked \subseteq Calls
      /\ handle \in [Calls -> HandleStates] /\ server \in [Calls -> ServerStates]
  BY DEF TypeOK, CallRecords
<1>s. StageInv
  BY DEF RequestInv
<1>1. ASSUME NEW c \in Calls, NEW id \in ReqIds, NEW kind \in Ops,
             NEW of \in (Calls \ {c}) \cup {NoCall}, Resolve(c, id, kind, of)
      PROVE  TokenInv'
  <2>1. c \notin tracked
    <3>1. tasks[c] = "none" /\ calls[c].pc = "idle"
      BY <1>1 DEF Resolve, RequestInv, CallInv
    <3> QED BY <3>1 DEF TokenInv
  <2>2. \A d \in Calls \ {c} : calls'[d] = calls[d]
    BY <1>1, <1>f DEF Resolve
  <2> QED BY <1>1, <1>f, <2>1, <2>2 DEF Resolve, TokenInv
<1>2. ASSUME NEW c \in Calls, Reserve(c) PROVE TokenInv'
  <2>1. calls'[c].pc = "reserved" /\ \A d \in Calls \ {c} : calls'[d] = calls[d]
    BY <1>2, <1>f, MovedCall DEF Reserve, CallSteps
  <2> QED BY <1>2, <1>f, <2>1 DEF Reserve, TokenInv
<1>3. ASSUME NEW c \in Calls, Register(c) PROVE TokenInv'
  <2>1. \A d \in Calls \ {c} : calls'[d] = calls[d]
    BY <1>3, <1>f DEF Register
  <2>2. c \notin tracked' \/ calls'[c].pc = "registered"
    <3>1. CASE closed \/ pending[calls[c].id] # NoCall
      BY <1>3, <3>1 DEF Register
    <3>2. CASE ~(closed \/ pending[calls[c].id] # NoCall)
      <4>1. calls' = [calls EXCEPT ![c].pc = "registered"]
        BY <1>3, <3>2 DEF Register
      <4> QED BY <1>f, <4>1, MovedCall DEF CallSteps
    <3> QED BY <3>1, <3>2
  <2> QED BY <1>3, <1>f, <2>1, <2>2 DEF Register, TokenInv
<1>4. ASSUME NEW c \in Calls, Spawn(c) PROVE TokenInv'
  <2>1. tasks'[c] = "running" /\ \A d \in Calls \ {c} : calls'[d] = calls[d] /\ tasks'[d] = tasks[d]
    BY <1>4, <1>f DEF Spawn
  <2> QED BY <1>4, <1>f, <2>1 DEF Spawn, TokenInv
<1>5. ASSUME NEW c \in Calls,
             \/ TaskCancelled(c) \/ StopBegin(c) \/ \E o \in Outcomes : OpEnds(c, o)
             \/ \E o \in Outcomes : StopEnds(c, o)
      PROVE  TokenInv'
  <2>1. tasks'[c] \in {"stopping", "finishing"} /\ \A d \in Calls \ {c} : tasks'[d] = tasks[d]
    BY <1>5, <1>f DEF TaskCancelled, StopBegin, OpEnds, StopEnds
  <2>2. UNCHANGED <<calls, tracked, freeing, children>>
    BY <1>5 DEF TaskCancelled, StopBegin, OpEnds, StopEnds
  <2>3. \A d \in Calls : server'[d] = "live" => handle'[d] # "none"
    BY <1>5, <1>f DEF TaskCancelled, StopBegin, OpEnds, StopEnds, TokenInv
  <2> QED BY <1>f, <2>1, <2>2, <2>3 DEF TokenInv
<1>6. ASSUME NEW c \in Calls, TaskFinish(c) PROVE TokenInv'
  <2>1. tasks'[c] = "retiring" /\ \A d \in Calls \ {c} : tasks'[d] = tasks[d]
    BY <1>6, <1>f DEF TaskFinish
  <2>2. \A d \in Calls : server'[d] = "live" => handle'[d] # "none"
    BY <1>6, <1>f DEF TaskFinish, DropResult, TokenInv
  <2> QED BY <1>6, <1>f, <2>1, <2>2 DEF TaskFinish, TokenInv
<1>7. ASSUME NEW c \in Calls, TaskRetire(c) PROVE TokenInv'
  <2>1. \A d \in Calls \ {c} : tasks'[d] = tasks[d]
    BY <1>7, <1>f DEF TaskRetire
  <2> QED BY <1>7, <1>f, <2>1 DEF TaskRetire, TokenInv
<1>8. ASSUME NEW c \in Calls, Reap(c) \/ JvmFree(c) \/ CloseChild(c) PROVE TokenInv'
  <2>1. \A d \in Calls : server'[d] = "live" => handle'[d] # "none"
    BY <1>8, <1>f DEF Reap, JvmFree, CloseChild, TokenInv
  <2> QED BY <1>8, <2>1 DEF Reap, JvmFree, CloseChild, TokenInv
<1>9. CASE Deliver
  BY <1>9, <1>f DEF Deliver, TokenInv
<1>10. CASE FreeBegin
  BY <1>10, <1>f, <1>s DEF FreeBegin, TokenInv, StageInv
<1>11. CASE DrainBegin \/ DrainEnd \/ FreeReturn
  BY <1>11 DEF DrainBegin, DrainEnd, FreeReturn, TokenInv
<1>12. CASE UNCHANGED vars \/ \E id \in ReqIds : Cancel(id) \/ DrainOne(id)
  BY <1>12 DEF Cancel, DrainOne, vars, TokenInv
<1> QED
  BY <1>1, <1>2, <1>3, <1>4, <1>5, <1>6, <1>7, <1>8, <1>9, <1>10, <1>11, <1>12
  DEF Next, CallStep, TaskStep, FreeStep

\* Every step keeps that an answer comes last or with a cancellation.
LEMMA DoomStep ==
  ASSUME TypeOK, RequestInv, DoomInv, [Next]_vars
  PROVE  DoomInv'
<1>f. /\ calls \in [Calls -> CallRecords] /\ tasks \in [Calls -> TaskSteps]
      /\ pending \in [ReqIds -> Calls \cup {NoCall}] /\ result \in [Calls -> Statuses]
  BY DEF TypeOK, CallRecords
<1>c. \A c \in Calls : CallInv(c)
  BY DEF RequestInv
\* Steps that answer nobody.
<1>u. ASSUME \A d \in Calls : Answered(d)' <=> Answered(d), cancelled \subseteq cancelled',
             \A d \in Calls : Unfinished(d)' => Unfinished(d) \/ ~Answered(d)
      PROVE  DoomInv'
  BY <1>u DEF DoomInv
<1>k. ASSUME UNCHANGED <<queue, delivered>>, cancelled \subseteq cancelled',
             \A d \in Calls : Unfinished(d)' => Unfinished(d) \/ ~Answered(d)
      PROVE  DoomInv'
  BY <1>k, <1>u, SameAnswers
<1>n. ASSUME NEW c \in Calls, UNCHANGED <<queue, delivered, cancelled>>,
             \A d \in Calls \ {c} : calls'[d] = calls[d] /\ tasks'[d] = tasks[d],
             Unfinished(c)' => Unfinished(c) \/ ~Answered(c)
      PROVE  DoomInv'
  BY <1>n, <1>k DEF Unfinished
<1>1. ASSUME NEW c \in Calls, NEW id \in ReqIds, NEW kind \in Ops,
             NEW of \in (Calls \ {c}) \cup {NoCall}, Resolve(c, id, kind, of)
      PROVE  DoomInv'
  <2>1. calls[c].pc = "idle" /\ ~Answered(c)
    BY <1>1, <1>c DEF Resolve, CallInv, Accepted
  <2>2. \A d \in Calls \ {c} : calls'[d] = calls[d]
    BY <1>1, <1>f DEF Resolve
  <2> QED BY <1>1, <1>n, <2>1, <2>2 DEF Resolve
<1>2. ASSUME NEW c \in Calls, Reserve(c) \/ Register(c) PROVE DoomInv'
  <2>1. ~Answered(c)
    BY <1>2, <1>c DEF Reserve, Register, CallInv, Accepted
  <2>2. \A d \in Calls \ {c} : calls'[d] = calls[d]
    BY <1>2, <1>f DEF Reserve, Register
  <2> QED BY <1>2, <1>n, <2>1, <2>2 DEF Reserve, Register
<1>3. ASSUME NEW c \in Calls, Spawn(c) PROVE DoomInv'
  <2>1. Unfinished(c) /\ \A d \in Calls \ {c} : calls'[d] = calls[d] /\ tasks'[d] = tasks[d]
    BY <1>3, <1>f DEF Spawn, Unfinished
  <2> QED BY <1>3, <1>n, <2>1 DEF Spawn
<1>4. ASSUME NEW c \in Calls,
             \/ TaskCancelled(c) \/ StopBegin(c) \/ \E o \in Outcomes : OpEnds(c, o)
             \/ \E o \in Outcomes : StopEnds(c, o)
      PROVE  DoomInv'
  <2>1. Unfinished(c) /\ \A d \in Calls \ {c} : tasks'[d] = tasks[d]
    BY <1>4, <1>f DEF TaskCancelled, StopBegin, OpEnds, StopEnds, Unfinished, Active
  <2>2. UNCHANGED <<calls, queue, delivered, cancelled>>
    BY <1>4 DEF TaskCancelled, StopBegin, OpEnds, StopEnds
  <2> QED BY <1>n, <2>1, <2>2
<1>5. ASSUME NEW c \in Calls, TaskRetire(c) PROVE DoomInv'
  <2>1. tasks'[c] = "finished" /\ \A d \in Calls \ {c} : tasks'[d] = tasks[d]
    BY <1>5, <1>f DEF TaskRetire
  <2>2. Unfinished(c)' => Unfinished(c)
    BY <1>5, <2>1 DEF TaskRetire, Unfinished, Active
  <2> QED BY <1>5, <1>n, <2>1, <2>2 DEF TaskRetire
<1>6. ASSUME NEW c \in Calls, TaskFinish(c) PROVE DoomInv'
  <2>1. tasks'[c] = "retiring" /\ \A d \in Calls \ {c} : tasks'[d] = tasks[d]
    BY <1>6, <1>f DEF TaskFinish
  <2>2. UNCHANGED <<calls, cancelled, delivered>> /\ (queue' = queue \/ Push(c, result[c]))
    BY <1>6 DEF TaskFinish
  <2>3. \A d \in Calls \ {c} : Answered(d)' <=> Answered(d)
    <3>1. CASE queue' = queue
      BY <2>2, <3>1, SameAnswers
    <3>2. CASE queue' = Append(queue, [call |-> c, status |-> result[c]])
      <4>1. result[c] \in Statuses
        BY <1>f
      <4> QED BY <2>2, <3>2, <4>1, PushAnswers
    <3> QED BY <2>2, <3>1, <3>2 DEF Push
  <2>4. ~Unfinished(c)'
    <3>1. calls[c].pc = "returned"
      BY <1>6, <1>c DEF TaskFinish, CallInv
    <3> QED BY <2>1, <2>2, <3>1 DEF Unfinished, Active
  <2>5. \A d \in Calls \ {c} : Unfinished(d)' <=> Unfinished(d)
    BY <2>1, <2>2 DEF Unfinished
  <2> QED BY <2>2, <2>3, <2>4, <2>5 DEF DoomInv
<1>7. CASE Deliver
  <2>1. \A c \in Calls : AtMostOnce(c)
    BY <1>c DEF CallInv
  <2>2. \A d \in Calls : Answered(d)' <=> Answered(d)
    BY <1>7, <2>1, DeliverAnswers
  <2> QED BY <1>7, <1>u, <2>2 DEF Deliver, Unfinished
<1>8. ASSUME NEW id \in ReqIds, DrainOne(id) PROVE DoomInv'
  <2>1. PICK c \in Calls : c = pending[id]
    BY <1>8, <1>f DEF DrainOne
  <2>2. /\ UNCHANGED <<calls, tasks, delivered>> /\ cancelled' = cancelled \cup {c}
        /\ queue' = queue \/ queue' = Append(queue, [call |-> c, status |-> "shutdown"])
    BY <1>8, <2>1 DEF DrainOne, Push
  <2>3. \A d \in Calls \ {c} : Answered(d)' <=> Answered(d)
    <3>1. CASE queue' = queue
      BY <2>2, <3>1, SameAnswers
    <3>2. CASE queue' = Append(queue, [call |-> c, status |-> "shutdown"])
      <4>1. "shutdown" \in Statuses
        BY DEF Statuses
      <4> QED BY <2>2, <3>2, <4>1, PushAnswers
    <3> QED BY <2>2, <3>1, <3>2
  <2> QED BY <2>2, <2>3 DEF DoomInv, Unfinished
<1>9. ASSUME NEW c \in Calls, Reap(c) \/ JvmFree(c) \/ CloseChild(c) PROVE DoomInv'
  BY <1>9, <1>k DEF Reap, JvmFree, CloseChild, Unfinished
<1>10. CASE FreeBegin \/ DrainBegin \/ DrainEnd \/ FreeReturn \/ UNCHANGED vars
  BY <1>10, <1>k DEF FreeBegin, DrainBegin, DrainEnd, FreeReturn, vars, Unfinished
<1>11. ASSUME NEW id \in ReqIds, Cancel(id) PROVE DoomInv'
  BY <1>11, <1>k DEF Cancel, Unfinished
<1> QED
  BY <1>1, <1>2, <1>3, <1>4, <1>5, <1>6, <1>7, <1>8, <1>9, <1>10, <1>11
  DEF Next, CallStep, TaskStep, FreeStep

\* kt_runtime_free blocks on nothing that could go on for ever: what it waits for has been
\* refused or cancelled, or is done but for its token, and no child is left that nobody
\* reaps ("Accepted requests and child cleanup must finish", runtime.rs:24).
THEOREM FreeWaitsForNoOperation == Spec => []FreeWaitsForTheEnding
<1>1. Init => TokenInv /\ DoomInv
  <2> SUFFICES ASSUME Init PROVE TokenInv /\ DoomInv
    OBVIOUS
  <2>1. ASSUME NEW c \in Calls PROVE ~Unfinished(c)
    BY RejectedCall DEF Init, Unfinished, Active
  <2> QED BY <2>1 DEF Init, TokenInv, DoomInv
<1>2. TypeOK /\ RequestInv /\ TokenInv /\ DoomInv /\ [Next]_vars => (TokenInv /\ DoomInv)'
  BY TokenStep, DoomStep
<1>3. TypeOK /\ RequestInv /\ ResourceInv /\ TokenInv /\ DoomInv => FreeWaitsForTheEnding
  <2> SUFFICES ASSUME TypeOK, RequestInv, ResourceInv, TokenInv, DoomInv, freeing = "waiting"
               PROVE  FreeWaitsForTheEnding
    BY DEF FreeWaitsForTheEnding
  <2>1. ASSUME NEW c \in Calls, Unfinished(c) PROVE c \in cancelled
    <3>1. CallInv(c) /\ \A id \in ReqIds : pending[id] = NoCall
      BY DEF RequestInv, StageInv
    <3>2. calls[c].id \in ReqIds
      BY <2>1, <3>1 DEF CallInv, Unfinished, Active
    <3>3. Answered(c)
      BY <2>1, <3>1, <3>2, CallsAssumption DEF CallInv
    <3> QED BY <2>1, <3>3 DEF DoomInv
  <2>2. ASSUME NEW c \in tracked
        PROVE  \/ calls[c].pc = "reserved"
               \/ (calls[c].pc = "registered" \/ tasks[c] \in {"running", "stopping"}) /\ c \in cancelled
               \/ tasks[c] \in {"finishing", "retiring"}
    <3>1. c \in Calls
      BY DEF TypeOK
    <3> QED BY <2>1, <3>1 DEF TokenInv, Unfinished, Active
  <2>3. ASSUME NEW c \in Calls PROVE server[c] # "live"
    <3>1. TrackInv(c) /\ OwnerInv(c) /\ ~live /\ children = {}
      BY DEF ResourceInv, RequestInv, StageInv, TokenInv
    <3>2. handle[c] \in {"none", "removed"}
      BY <3>1 DEF TrackInv, TypeOK, HandleStates
    <3> QED BY <3>1, <3>2 DEF OwnerInv, TokenInv
  <2> QED BY <2>2, <2>3 DEF FreeWaitsForTheEnding
<1> QED BY <1>1, <1>2, <1>3, TypeCorrect, RequestCorrect, ResourceCorrect, PTL DEF Spec

\* No entry of the handle table and no child process is lost track of by a
\* cancellation, a shutdown or a discarded result, and a stop that answered ok
\* has ended its server (queue.rs:82-83, ephemeral.rs:56).
THEOREM NoHandleLeaks == Spec => []NoLeakedHandle
<1>1. ResourceInv => NoLeakedHandle
  BY DEF ResourceInv, OwnerInv, NoLeakedHandle, QueuedOk
<1> QED BY <1>1, ResourceCorrect, PTL

-----------------------------------------------------------------------------
(***************************************************************************)
(* The bridge implements OneAnswer.                                        *)
(***************************************************************************)

\* The status of a call in terms of the bookkeeping.
LEMMA StatusCases ==
  ASSUME NEW c \in Calls
  PROVE  /\ Answered(c) => StatusOf(c) = "answered"
         /\ ~Answered(c) /\ Accepted(c) => StatusOf(c) = "inflight"
         /\ ~Answered(c) /\ calls[c].pc = "rejected" => StatusOf(c) = "rejected"
         /\ ~Answered(c) /\ ~Accepted(c) /\ calls[c].pc # "rejected" => StatusOf(c) = "idle"
BY DEF StatusOf, Accepted

\* A step that OneAnswer does not see.
LEMMA Unseen ==
  ASSUME \A d \in Calls : StatusOf(d)' = StatusOf(d), Doomed' = Doomed, closed' = closed
  PROVE  UNCHANGED A!vars
BY DEF A!vars

\* Every step of the bridge is a step of OneAnswer or unseen by it.
LEMMA OneAnswerStep ==
  TypeOK /\ RequestInv /\ RequestInv' /\ [Next]_vars => [A!Next]_(A!vars)
<1> SUFFICES ASSUME TypeOK, RequestInv, RequestInv', [Next]_vars PROVE A!Next \/ UNCHANGED A!vars
  OBVIOUS
<1>c. ASSUME NEW c \in Calls PROVE calls[c] \in CallRecords /\ CallInv(c) /\ CallInv(c)'
  BY DEF TypeOK, CallRecords, RequestInv
<1>f. /\ calls \in [Calls -> CallRecords] /\ pending \in [ReqIds -> Calls \cup {NoCall}]
      /\ cancelled \subseteq Calls
  BY DEF TypeOK, CallRecords
<1>a. ASSUME UNCHANGED <<queue, delivered>> PROVE \A d \in Calls : Answered(d)' <=> Answered(d)
  BY <1>a, SameAnswers
\* A call of which neither the answer nor the admission changes.
<1>s. ASSUME NEW d \in Calls, Answered(d)' <=> Answered(d), Accepted(d)' <=> Accepted(d),
             calls'[d].pc = "rejected" <=> calls[d].pc = "rejected"
      PROVE  StatusOf(d)' = StatusOf(d)
  BY <1>s DEF StatusOf
<1>d. ASSUME \A d \in Calls : Answered(d)' <=> Answered(d), UNCHANGED cancelled
      PROVE  Doomed' = Doomed
  BY <1>d, <1>f DEF Doomed
\* Steps that neither admit, reject, cancel nor answer.
<1>u. ASSUME \A d \in Calls : Answered(d)' <=> Answered(d), UNCHANGED <<calls, cancelled,
                                                                        closed>>
      PROVE  UNCHANGED A!vars
  <2>1. \A d \in Calls : StatusOf(d)' = StatusOf(d)
    BY <1>s, <1>u DEF Accepted
  <2> QED BY <1>d, <1>u, <2>1, Unseen
\* The steps of OneAnswer, one call at a time.
<1>A. ASSUME NEW c \in Calls, StatusOf(c) = "idle",
             StatusOf(c)' \in {"rejected", "inflight"}, StatusOf(c)' = "inflight" => ~closed,
             \A d \in Calls \ {c} : StatusOf(d)' = StatusOf(d),
             Doomed' = Doomed, closed' = closed
      PROVE  A!Next
  <2>1. CASE StatusOf(c)' = "inflight"
    <3>1. A!Accept(c)
      BY <1>A, <2>1 DEF A!Accept
    <3> QED BY <3>1 DEF A!Next
  <2>2. CASE StatusOf(c)' = "rejected"
    <3>1. A!Reject(c)
      BY <1>A, <2>2 DEF A!Reject
    <3> QED BY <3>1 DEF A!Next
  <2> QED BY <1>A, <2>1, <2>2
<1>B. ASSUME NEW c \in Calls, StatusOf(c) = "inflight", StatusOf(c)' = "answered",
             \A d \in Calls \ {c} : StatusOf(d)' = StatusOf(d),
             Doomed' = Doomed \ {c}, closed' = closed
      PROVE  A!Next
  <2>1. A!Answer(c)
    BY <1>B DEF A!Answer
  <2> QED BY <2>1 DEF A!Next
<1>1. ASSUME NEW c \in Calls, NEW id \in ReqIds, NEW kind \in Ops,
             NEW of \in (Calls \ {c}) \cup {NoCall}, Resolve(c, id, kind, of)
      PROVE  A!Next \/ UNCHANGED A!vars
  <2>1. /\ calls[c].pc = "idle" /\ UNCHANGED <<queue, delivered, cancelled, closed>>
        /\ \A d \in Calls \ {c} : calls'[d] = calls[d]
        /\ calls'[c].pc \in {"resolved", "rejected"}
    BY <1>1, <1>f, RejectedCall DEF Resolve
  <2>2. \A d \in Calls : Answered(d)' <=> Answered(d)
    BY <1>a, <2>1
  <2>3. ~Answered(c) /\ ~Accepted(c) /\ StatusOf(c) = "idle"
    BY <1>c, <2>1, StatusCases DEF CallInv, Accepted
  <2>4. \A d \in Calls \ {c} : StatusOf(d)' = StatusOf(d)
    BY <1>s, <2>1, <2>2 DEF Accepted
  <2>5. Doomed' = Doomed
    BY <1>d, <2>1, <2>2
  <2>6. CASE calls'[c].pc = "resolved"
    <3>1. StatusOf(c)' = StatusOf(c)
      BY <1>s, <2>1, <2>2, <2>3, <2>6 DEF Accepted
    <3> QED BY <2>1, <2>4, <2>5, <3>1, Unseen
  <2>7. CASE calls'[c].pc = "rejected"
    <3>1. StatusOf(c)' = "rejected"
      BY <2>2, <2>3, <2>7 DEF StatusOf, Accepted
    <3> QED BY <1>A, <2>1, <2>3, <2>4, <2>5, <3>1
  <2> QED BY <2>1, <2>6, <2>7
<1>2. ASSUME NEW c \in Calls, Reserve(c) \/ Spawn(c) PROVE UNCHANGED A!vars
  <2>1. /\ UNCHANGED <<queue, delivered, cancelled, closed>>
        /\ \A d \in Calls \ {c} : calls'[d] = calls[d]
        /\ \/ calls[c].pc = "resolved" /\ calls'[c].pc = "reserved"
           \/ calls[c].pc = "registered" /\ calls'[c].pc = "returned"
    <3>1. /\ [calls[c] EXCEPT !.pc = "reserved"].pc = "reserved"
          /\ [calls[c] EXCEPT !.pc = "returned"].pc = "returned"
      BY <1>c, MovedCall DEF CallSteps
    <3>2. CASE Reserve(c)
      BY <3>1, <3>2, <1>f DEF Reserve
    <3>3. CASE Spawn(c)
      BY <3>1, <3>3, <1>f DEF Spawn
    <3> QED BY <1>2, <3>2, <3>3
  <2>2. \A d \in Calls : Answered(d)' <=> Answered(d)
    BY <1>a, <2>1
  <2>3. \A d \in Calls : StatusOf(d)' = StatusOf(d)
    BY <1>s, <2>1, <2>2 DEF Accepted
  <2> QED BY <1>d, <2>1, <2>2, <2>3, Unseen
<1>3. ASSUME NEW c \in Calls, Register(c) PROVE A!Next
  <2>1. /\ UNCHANGED <<queue, delivered, cancelled, closed>>
        /\ \A d \in Calls \ {c} : calls'[d] = calls[d]
        /\ calls[c].pc = "reserved"
        /\ calls'[c].pc = "rejected" \/ (calls'[c].pc = "registered" /\ ~closed)
    <3>1. [calls[c] EXCEPT !.pc = "registered"].pc = "registered"
      BY <1>c, MovedCall DEF CallSteps
    <3> QED BY <1>3, <1>f, <3>1, RejectedCall DEF Register
  <2>2. \A d \in Calls : Answered(d)' <=> Answered(d)
    BY <1>a, <2>1
  <2>3. ~Answered(c) /\ StatusOf(c) = "idle"
    BY <1>c, <2>1, StatusCases DEF CallInv, Accepted
  <2>4. \A d \in Calls \ {c} : StatusOf(d)' = StatusOf(d)
    BY <1>s, <2>1, <2>2 DEF Accepted
  <2>5. Doomed' = Doomed
    BY <1>d, <2>1, <2>2
  <2>6. /\ StatusOf(c)' \in {"rejected", "inflight"}
        /\ StatusOf(c)' = "inflight" => ~closed
    BY <2>1, <2>2, <2>3 DEF StatusOf, Accepted
  <2> QED BY <1>A, <2>1, <2>3, <2>4, <2>5, <2>6
<1>4. ASSUME NEW id \in ReqIds, Cancel(id) PROVE A!Next
  <2>1. PICK c \in Calls : c = pending[id]
    BY <1>4, <1>f DEF Cancel
  <2>2. /\ UNCHANGED <<calls, queue, delivered, closed>>
        /\ cancelled' = cancelled \cup {c}
    BY <1>4, <2>1 DEF Cancel
  <2>3. Unfinished(c) /\ ~Answered(c)
    BY <2>1 DEF RequestInv, RegisteredInv
  <2>4. StatusOf(c) = "inflight"
    BY <1>c, <2>3, StatusCases DEF CallInv, Unfinished, Accepted, Active
  <2>5. \A d \in Calls : (Answered(d)' <=> Answered(d)) /\ StatusOf(d)' = StatusOf(d)
    BY <1>a, <1>s, <2>2 DEF Accepted
  <2>6. Doomed' = Doomed \cup {c}
    BY <1>f, <2>2, <2>3, <2>5 DEF Doomed
  <2>7. A!Cancel(c)
    BY <2>2, <2>4, <2>5, <2>6 DEF A!Cancel
  <2> QED BY <2>7 DEF A!Next
<1>5. ASSUME NEW c \in Calls,
             \/ TaskCancelled(c) \/ StopBegin(c) \/ TaskRetire(c) \/ Reap(c) \/ JvmFree(c)
             \/ CloseChild(c)
             \/ \E outcome \in Outcomes : OpEnds(c, outcome) \/ StopEnds(c, outcome)
      PROVE  UNCHANGED A!vars
  <2>1. UNCHANGED <<queue, delivered, calls, cancelled, closed>>
    BY <1>5 DEF TaskCancelled, StopBegin, TaskRetire, Reap, JvmFree, CloseChild, OpEnds, StopEnds
  <2> QED BY <1>a, <1>u, <2>1
\* The push that answers call c.
<1>p. ASSUME NEW c \in Calls, NEW st \in Statuses, Unfinished(c), ~Answered(c),
             queue' = Append(queue, [call |-> c, status |-> st]),
             UNCHANGED <<delivered, calls, closed>>,
             cancelled' \ {c} = cancelled \ {c}, cancelled' \subseteq Calls
      PROVE  A!Next
  <2>1. Answered(c)' /\ \A d \in Calls \ {c} : Answered(d)' <=> Answered(d)
    BY <1>p, PushAnswers
  <2>2. StatusOf(c) = "inflight" /\ StatusOf(c)' = "answered"
    BY <1>c, <1>p, <2>1, StatusCases DEF CallInv, Unfinished, Accepted, Active, StatusOf
  <2>3. \A d \in Calls \ {c} : StatusOf(d)' = StatusOf(d)
    BY <1>p, <1>s, <2>1 DEF Accepted
  <2>4. Doomed' = Doomed \ {c}
    BY <1>f, <1>p, <2>1 DEF Doomed
  <2> QED BY <1>B, <1>p, <2>2, <2>3, <2>4
<1>6. ASSUME NEW c \in Calls, TaskFinish(c) PROVE A!Next \/ UNCHANGED A!vars
  <2>1. PICK k \in ReqIds : k = calls[c].id
    BY <1>6, <1>c DEF TaskFinish, CallInv
  <2>2. UNCHANGED <<calls, delivered, cancelled, closed>> /\ tasks[c] = "finishing"
    BY <1>6 DEF TaskFinish
  <2>3. CASE pending[k] # NoCall
    <3>1. Unfinished(c) /\ ~queueClosed
      BY <2>2, <2>3 DEF Unfinished, Active, RequestInv, StageInv
    <3>2. pending[k] = c
      BY <1>c, <2>1, <2>3, <3>1 DEF CallInv
    <3>3. ~Answered(c)
      BY <3>2 DEF RequestInv, RegisteredInv
    <3>4. PICK st \in Statuses : st = result[c]
      BY DEF TypeOK
    <3>5. queue' = Append(queue, [call |-> c, status |-> st])
      BY <1>6, <2>1, <2>3, <3>1, <3>4 DEF TaskFinish, Push
    <3> QED BY <1>f, <1>p, <2>2, <3>1, <3>3, <3>5
  <2>4. CASE pending[k] = NoCall
    <3>1. UNCHANGED queue
      BY <1>6, <2>1, <2>4 DEF TaskFinish
    <3> QED BY <1>a, <1>u, <2>2, <3>1
  <2> QED BY <2>3, <2>4
<1>7. CASE Deliver
  <2>1. \A d \in Calls : AtMostOnce(d)
    BY <1>c DEF CallInv
  <2>2. \A d \in Calls : Answered(d)' <=> Answered(d)
    BY <1>7, <2>1, DeliverAnswers
  <2> QED BY <1>7, <1>u, <2>2 DEF Deliver
<1>8. CASE FreeBegin \/ DrainEnd \/ FreeReturn \/ UNCHANGED vars
  <2>1. UNCHANGED <<queue, delivered, calls, cancelled, closed>>
    BY <1>8 DEF FreeBegin, DrainEnd, FreeReturn, vars
  <2> QED BY <1>a, <1>u, <2>1
<1>9. CASE DrainBegin
  <2>1. UNCHANGED <<queue, delivered, calls, cancelled>> /\ closed' = TRUE
    BY <1>9 DEF DrainBegin
  <2>2. \A d \in Calls : (Answered(d)' <=> Answered(d)) /\ StatusOf(d)' = StatusOf(d)
    BY <1>a, <1>s, <2>1 DEF Accepted
  <2>3. Doomed' = Doomed
    BY <1>d, <2>1, <2>2
  <2>4. A!ShutDown
    BY <2>1, <2>2, <2>3 DEF A!ShutDown
  <2> QED BY <2>4 DEF A!Next
<1>10. ASSUME NEW id \in ReqIds, DrainOne(id) PROVE A!Next
  <2>1. PICK c \in Calls : c = pending[id]
    BY <1>10, <1>f DEF DrainOne
  <2>2. /\ UNCHANGED <<calls, delivered, closed>>
        /\ cancelled' = cancelled \cup {c}
        /\ queue' = Append(queue, [call |-> c, status |-> "shutdown"])
    BY <1>10, <2>1 DEF DrainOne, Push, RequestInv, StageInv
  <2>3. Unfinished(c) /\ ~Answered(c)
    BY <2>1 DEF RequestInv, RegisteredInv
  <2>4. "shutdown" \in Statuses
    BY DEF Statuses
  <2>5. cancelled' \ {c} = cancelled \ {c} /\ cancelled' \subseteq Calls
    BY <1>f, <2>2
  <2> QED BY <1>p, <2>2, <2>3, <2>4, <2>5
<1> QED
  BY <1>1, <1>2, <1>3, <1>4, <1>5, <1>6, <1>7, <1>8, <1>9, <1>10
  DEF Next, CallStep, TaskStep, FreeStep

\* The bridge implements the safety part of OneAnswer: a call is answered once,
\* only if it was accepted, and nothing is accepted once the runtime shuts
\* down, whatever machinery of ids, tokens and locks is in between.
THEOREM ImplementsSafeOneAnswer == Spec => A!SafeSpec
<1>1. Init => A!Init
  <2> SUFFICES ASSUME Init PROVE A!Init
    OBVIOUS
  <2>1. ASSUME NEW c \in Calls PROVE StatusOf(c) = "idle"
    <3>1. calls[c].pc = "idle" /\ delivered[c] = <<>> /\ queue = <<>>
      BY RejectedCall DEF Init
    <3>2. ~Answered(c)
      BY <3>1 DEF Answered, Queued
    <3> QED BY <3>1, <3>2, StatusCases DEF Accepted
  <2>2. Doomed = {} /\ closed = FALSE
    BY DEF Init, Doomed
  <2> QED BY <2>1, <2>2 DEF A!Init
<1> QED BY <1>1, OneAnswerStep, TypeCorrect, RequestCorrect, PTL DEF Spec, A!SafeSpec

-----------------------------------------------------------------------------
(***************************************************************************)
(* The JVM side of the same requests: the pump (Pump), over the native side    *)
(* that OneAnswer describes and that RequestRuntime has just been shown to      *)
(* implement.  The pump has variables and a specification, PumpSpec, of its     *)
(* own; what it assumes of the constants is that a batch has room for a         *)
(* completion.                                                            *)
(***************************************************************************)

\* A queue split in two after its first n elements loses none of them.
LEMMA PollSplits ==
  ASSUME NEW S, NEW q \in Seq(S), NEW n \in 1..Len(q)
  PROVE  /\ SubSeq(q, 1, n) \in Seq(S) /\ Len(SubSeq(q, 1, n)) = n
         /\ SubSeq(q, n + 1, Len(q)) \in Seq(S)
         /\ \A i \in DOMAIN q :
              \/ \E j \in DOMAIN SubSeq(q, 1, n) : SubSeq(q, 1, n)[j] = q[i]
              \/ \E j \in DOMAIN SubSeq(q, n + 1, Len(q)) : SubSeq(q, n + 1, Len(q))[j] = q[i]
<1> DEFINE a == SubSeq(q, 1, n)
           b == SubSeq(q, n + 1, Len(q))
<1>1. Len(q) \in Nat /\ n \in Nat
  BY LenProperties
<1>2. a \in Seq(S) /\ Len(a) = n /\ \A i \in 1..n : a[i] = q[i]
  BY <1>1, SubSeqProperties
<1>3. b \in Seq(S) /\ Len(b) = Len(q) - n /\ \A i \in 1..(Len(q) - n) : b[i] = q[n + i]
  BY <1>1, SubSeqProperties
<1> HIDE DEF a, b
<1>4. ASSUME NEW i \in DOMAIN q
      PROVE  (\E j \in DOMAIN a : a[j] = q[i]) \/ (\E j \in DOMAIN b : b[j] = q[i])
  <2>0. i \in 1..Len(q)
    OBVIOUS
  <2>1. CASE i <= n
    BY <1>1, <1>2, <2>0, <2>1
  <2>2. CASE n < i
    <3>1. i - n \in 1..(Len(q) - n) /\ n + (i - n) = i
      BY <1>1, <2>0, <2>2
    <3>2. DOMAIN b = 1..(Len(q) - n)
      BY <1>3, LenProperties
    <3>3. b[i - n] = q[i]
      BY <1>3, <3>1
    <3> QED BY <3>1, <3>2, <3>3
  <2> QED BY <1>1, <2>0, <2>1, <2>2
<1> QED BY <1>2, <1>3, <1>4 DEF a, b

\* A poll that returns completions moves each from the queue to the batch or leaves it
\* in the queue, and returns no more than the native buffer holds.
LEMMA PollEffect ==
  ASSUME PumpTypeOK, Poll, thread' = "dispatching"
  PROVE  /\ completions' \in Seq(Answers) /\ batch' \in Seq(Answers)
         /\ Len(batch') <= Batch
         /\ \A i \in DOMAIN completions :
              \/ \E j \in DOMAIN batch' : batch'[j] = completions[i]
              \/ \E j \in DOMAIN completions' : completions'[j] = completions[i]
<1>1. Len(completions) \in Nat /\ Batch \in Nat \ {0} /\ completions \in Seq(Answers)
  BY LenProperties, BatchAssumption DEF PumpTypeOK
<1>2. PICK n : n = IF Len(completions) < Batch THEN Len(completions) ELSE Batch
  OBVIOUS
<1>3. /\ n > 0 /\ batch' = SubSeq(completions, 1, n)
      /\ completions' = SubSeq(completions, n + 1, Len(completions))
  BY <1>2 DEF Poll
<1>4. n \in 1..Len(completions) /\ n <= Batch
  BY <1>1, <1>2, <1>3
<1> QED BY <1>1, <1>3, <1>4, PollSplits

\* What is left of a batch once its first completion is dispatched: all the others.
LEMMA BatchTail ==
  ASSUME PumpTypeOK, batch # <<>>
  PROVE  /\ Head(batch).req \in Requests
         /\ Tail(batch) \in Seq(Answers) /\ Len(Tail(batch)) <= Batch
         /\ \A i \in DOMAIN batch :
              batch[i] = Head(batch) \/ \E j \in DOMAIN Tail(batch) : Tail(batch)[j] = batch[i]
<1>1. batch \in Seq(Answers) /\ Len(batch) <= Batch /\ Batch \in Nat
  BY BatchAssumption DEF PumpTypeOK
<1>2. /\ Head(batch) \in Answers /\ Tail(batch) \in Seq(Answers)
      /\ Len(Tail(batch)) = Len(batch) - 1
      /\ \A i \in 1..Len(Tail(batch)) : Tail(batch)[i] = batch[i + 1]
  BY <1>1, HeadTailProperties
<1>3. Len(batch) \in Nat /\ DOMAIN batch = 1..Len(batch) /\ Head(batch) = batch[1]
      /\ DOMAIN Tail(batch) = 1..Len(Tail(batch))
  BY <1>1, <1>2, LenProperties
<1>4. ASSUME NEW i \in DOMAIN batch, i # 1
      PROVE  \E j \in DOMAIN Tail(batch) : Tail(batch)[j] = batch[i]
  <2>1. i - 1 \in 1..Len(Tail(batch)) /\ (i - 1) + 1 = i
    BY <1>2, <1>3, <1>4
  <2> QED BY <1>2, <1>3, <2>1
<1>5. Head(batch).req \in Requests
  BY <1>2 DEF Answers
<1> QED BY <1>1, <1>2, <1>3, <1>4, <1>5

\* Every step of the pump, its callers and the native side keeps the types; that a
\* dispatch has a batch to take from is ThreadInv's.
LEMMA PumpTypes ==
  ASSUME PumpTypeOK, ThreadInv, [PumpNext]_pumpVars
  PROVE  PumpTypeOK'
<1> USE DEF ThreadSteps, CallerSteps, ContStates, CloseSteps, None
<1>1. ASSUME NEW r \in Requests, Insert(r) PROVE PumpTypeOK'
  BY <1>1 DEF Insert, nativeVars, PumpTypeOK
<1>2. ASSUME NEW r \in Requests, CheckRunning(r) PROVE PumpTypeOK'
  BY <1>2 DEF CheckRunning, nativeVars, PumpTypeOK
<1>3. ASSUME NEW r \in Requests, Refuse(r) PROVE PumpTypeOK'
  BY <1>3 DEF Refuse, Fail, nativeVars, PumpTypeOK
<1>4. ASSUME NEW r \in Requests, Start(r) PROVE PumpTypeOK'
  BY <1>4 DEF Start, N!Accept, N!Reject, nativeVars, PumpTypeOK
<1>5. ASSUME NEW r \in Requests, RegisterHandler(r) PROVE PumpTypeOK'
  BY <1>5 DEF RegisterHandler, N!Cancel, nativeVars, PumpTypeOK
<1>6. ASSUME NEW r \in Requests, Retire(r) PROVE PumpTypeOK'
  BY <1>6 DEF Retire, nativeVars, PumpTypeOK
<1>7. ASSUME NEW r \in Requests, CheckActive(r) PROVE PumpTypeOK'
  BY <1>7 DEF CheckActive, nativeVars, PumpTypeOK
<1>8. ASSUME NEW r \in Requests, ResumeFailed(r) PROVE PumpTypeOK'
  BY <1>8 DEF ResumeFailed, Fail, Resumable, nativeVars, PumpTypeOK
<1>9. ASSUME NEW r \in Requests, Continue(r) PROVE PumpTypeOK'
  BY <1>9 DEF Continue, ReleaseDiscarded, nativeVars, PumpTypeOK
<1>10. ASSUME NEW r \in Requests, CancelCoroutine(r) PROVE PumpTypeOK'
  BY <1>10 DEF CancelCoroutine, N!Cancel, nativeVars, PumpTypeOK
<1>11. ASSUME NEW r \in Requests, NativeAnswer(r) PROVE PumpTypeOK'
  BY <1>11 DEF NativeAnswer, Answer, N!Answer, Answers, nativeVars, PumpTypeOK
<1>12. ASSUME NEW r \in Requests, FailNext(r) PROVE PumpTypeOK'
  BY <1>12 DEF FailNext, nativeVars, PumpTypeOK
<1>13. CASE Poll
  <2>1. CASE thread' = "dispatching"
    <3>1. completions' \in Seq(Answers) /\ batch' \in Seq(Answers) /\ Len(batch') <= Batch
      BY <1>13, <2>1, PollEffect
    <3> QED BY <1>13, <2>1, <3>1 DEF Poll, PumpTypeOK, nativeVars
  <2>2. CASE thread' # "dispatching"
    BY <1>13, <2>2 DEF Poll, PumpTypeOK, nativeVars
  <2> QED BY <2>1, <2>2
<1>14. CASE Dispatch
  <2>1. CASE batch = <<>>
    BY <1>14, <2>1 DEF Dispatch, PumpTypeOK, nativeVars
  <2>2. CASE batch # <<>>
    <3>1. Head(batch).req \in Requests /\ Tail(batch) \in Seq(Answers) /\ Len(Tail(batch)) <= Batch
      BY <2>2, BatchTail
    <3> QED BY <1>14, <2>2, <3>1 DEF Dispatch, ReleaseDiscarded, PumpTypeOK, nativeVars
  <2> QED BY <2>1, <2>2
<1>15. CASE ResumeCurrent
  <2>1. Tail(batch) \in Seq(Answers) /\ Len(Tail(batch)) <= Batch
    BY <1>15, BatchTail DEF ResumeCurrent, ThreadInv
  <2> QED BY <1>15, <2>1 DEF ResumeCurrent, Resumable, ReleaseDiscarded, PumpTypeOK, nativeVars
<1>16. CASE Stop
  BY <1>16 DEF Stop, nativeVars, PumpTypeOK
<1>17. CASE FailCheck
  BY <1>17 DEF FailCheck, nativeVars, PumpTypeOK
<1>18. CASE FailResume
  BY <1>18 DEF FailResume, Resumable, Fail, nativeVars, PumpTypeOK
<1>19. CASE FreePoller
  BY <1>19 DEF FreePoller, nativeVars, PumpTypeOK
<1>20. CASE Die
  BY <1>20 DEF Die, nativeVars, PumpTypeOK
<1>21. CASE CloseBegin
  BY <1>21 DEF CloseBegin, nativeVars, PumpTypeOK
<1>22. CASE FreeDown
  BY <1>22 DEF FreeDown, N!ShutDown, nativeVars, PumpTypeOK
<1>23. CASE FreeEnd
  BY <1>23 DEF FreeEnd, nativeVars, PumpTypeOK
<1>24. CASE ClosePump
  BY <1>24 DEF ClosePump, nativeVars, PumpTypeOK
<1>25. CASE UNCHANGED pumpVars
  BY <1>25 DEF pumpVars, PumpTypeOK
<1> QED
  BY <1>1, <1>2, <1>3, <1>4, <1>5, <1>6, <1>7, <1>8, <1>9, <1>10, <1>11, <1>12, <1>13,
     <1>14, <1>15, <1>16, <1>17, <1>18, <1>19, <1>20, <1>21, <1>22, <1>23, <1>24, <1>25
  DEF PumpNext, CallerStep, ThreadStep, CloseStep

\* A handle that was created stays on its way, is returned, or is released with the step
\* that drops its completion: the dispatch of a request nobody waits for, or a
\* resumption that finds its coroutine cancelled.
LEMMA OrphanStep ==
  ASSUME NoOrphanHandle, ThreadInv, CallerInv, [PumpNext]_pumpVars
  PROVE  NoOrphanHandle'
<1>t. PumpTypeOK /\ PumpTypeOK'
  BY PumpTypes DEF NoOrphanHandle
<1> DEFINE Kept(r) == OnItsWay(r) \/ cont[r] = "returned" \/ dead
<1>k. \A r \in open : Kept(r)
  BY DEF NoOrphanHandle
<1>q. ASSUME \A r \in open' : Kept(r)' PROVE NoOrphanHandle'
  BY <1>q, <1>t DEF NoOrphanHandle
\* A step that neither dispatches nor adds a completion loses none.
<1>m. ASSUME UNCHANGED <<completions, batch>>, open' \subseteq open, dead => dead',
             \A r \in open' : cont[r] \in {"value", "returned"} => cont'[r] \in {"value", "returned"}
      PROVE  NoOrphanHandle'
  BY <1>k, <1>m, <1>q DEF OnItsWay
<1>1. ASSUME NEW r \in Requests, Insert(r) PROVE NoOrphanHandle'
  BY <1>1, <1>m, <1>t DEF Insert, CallerInv, PumpTypeOK
<1>2. ASSUME NEW r \in Requests,
             \/ CheckRunning(r) \/ Start(r) \/ RegisterHandler(r) \/ Retire(r)
             \/ CheckActive(r) \/ FailNext(r)
      PROVE  NoOrphanHandle'
  BY <1>2, <1>m DEF CheckRunning, Start, RegisterHandler, Retire, CheckActive, FailNext
<1>3. ASSUME NEW r \in Requests, Refuse(r) PROVE NoOrphanHandle'
  BY <1>3, <1>m, <1>t DEF Refuse, Fail, CallerInv, PumpTypeOK
<1>4. ASSUME NEW r \in Requests, ResumeFailed(r) \/ CancelCoroutine(r) PROVE NoOrphanHandle'
  BY <1>4, <1>m, <1>t DEF ResumeFailed, CancelCoroutine, Resumable, Fail, PumpTypeOK
<1>5. ASSUME NEW r \in Requests, Continue(r) PROVE NoOrphanHandle'
  BY <1>5, <1>m, <1>t DEF Continue, ReleaseDiscarded, PumpTypeOK
<1>6. ASSUME NEW r \in Requests, NativeAnswer(r) PROVE NoOrphanHandle'
  <2>1. PICK ok \in BOOLEAN, creates \in BOOLEAN : Answer(r, ok, creates)
    BY <1>6 DEF NativeAnswer
  <2>2. PICK e : e = [req |-> r, ok |-> ok]
    OBVIOUS
  <2>3. e \in Answers /\ e.req = r /\ completions \in Seq(Answers)
    BY <1>t, <2>2 DEF Answers, PumpTypeOK
  <2>4. /\ completions' = Append(completions, e) /\ open' \subseteq open \cup {r}
        /\ UNCHANGED <<batch, cont, dead>>
    BY <2>1, <2>2 DEF Answer
  <2>5. /\ \A i \in DOMAIN completions : i \in DOMAIN completions' /\ completions'[i] = completions[i]
        /\ \E i \in DOMAIN completions' : completions'[i].req = r
    <3>1. /\ completions' \in Seq(Answers) /\ Len(completions') = Len(completions) + 1
          /\ \A i \in 1..Len(completions) : completions'[i] = completions[i]
          /\ completions'[Len(completions) + 1] = e
      BY <2>3, <2>4, AppendProperties
    <3>2. /\ DOMAIN completions = 1..Len(completions) /\ DOMAIN completions' = 1..Len(completions')
          /\ Len(completions) \in Nat
      BY <2>3, <3>1, LenProperties
    <3> QED BY <2>3, <3>1, <3>2
  <2>6. ASSUME NEW x \in open' PROVE Kept(x)'
    <3>1. CASE x = r
      BY <2>5, <3>1 DEF OnItsWay
    <3>2. CASE x \in open
      BY <1>k, <2>4, <2>5, <3>2 DEF OnItsWay
    <3> QED BY <2>4, <3>1, <3>2
  <2> QED BY <1>q, <2>6
<1>7. CASE Poll
  <2>1. CASE thread' = "dispatching"
    <3>1. batch = <<>> /\ UNCHANGED <<open, cont, dead>>
      BY <1>7 DEF Poll, ThreadInv
    <3>2. \A i \in DOMAIN completions :
              \/ \E j \in DOMAIN batch' : batch'[j] = completions[i]
              \/ \E j \in DOMAIN completions' : completions'[j] = completions[i]
      BY <1>7, <1>t, <2>1, PollEffect
    <3>3. ASSUME NEW x \in open' PROVE Kept(x)'
      BY <1>k, <3>1, <3>2, <3>3 DEF OnItsWay
    <3> QED BY <1>q, <3>3
  <2>2. CASE thread' # "dispatching"
    BY <1>7, <1>m, <2>2 DEF Poll
  <2> QED BY <2>1, <2>2
<1>8. ASSUME batch # <<>>, batch' = Tail(batch), UNCHANGED <<completions, dead>>, open' \subseteq open,
             \A x \in open' : x = Head(batch).req => cont'[x] = "value",
             \A x \in open' : x # Head(batch).req => cont'[x] = cont[x]
      PROVE  NoOrphanHandle'
  <2>1. \A i \in DOMAIN batch :
          batch[i] = Head(batch) \/ \E j \in DOMAIN batch' : batch'[j] = batch[i]
    BY <1>8, <1>t, BatchTail
  <2>2. ASSUME NEW x \in open', x # Head(batch).req PROVE Kept(x)'
    BY <1>8, <1>k, <2>1, <2>2 DEF OnItsWay
  <2>3. ASSUME NEW x \in open', x = Head(batch).req PROVE Kept(x)'
    BY <1>8, <2>3 DEF OnItsWay
  <2> QED BY <1>q, <2>2, <2>3
<1>9. CASE Dispatch
  <2>1. CASE batch = <<>> \/ Head(batch).req \in waiting
    BY <1>9, <1>m, <2>1 DEF Dispatch
  <2>2. CASE batch # <<>> /\ Head(batch).req \notin waiting
    BY <1>8, <1>9, <2>2 DEF Dispatch, ReleaseDiscarded
  <2> QED BY <2>1, <2>2
<1>10. CASE ResumeCurrent
  <2>1. batch # <<>> /\ current = Head(batch).req /\ current \in Requests
    BY <1>10 DEF ResumeCurrent, ThreadInv, Holding
  <2>2. CASE Resumable(current)
    BY <1>8, <1>10, <1>t, <2>1, <2>2 DEF ResumeCurrent, ReleaseDiscarded, PumpTypeOK
  <2>3. CASE ~Resumable(current)
    BY <1>10, <1>m, <2>3 DEF ResumeCurrent
  <2> QED BY <2>2, <2>3
<1>11. CASE Stop \/ FailCheck \/ FreePoller \/ Die
  BY <1>11, <1>m DEF Stop, FailCheck, FreePoller, Die
<1>12. CASE FailResume
  <2>1. current \in Requests
    BY <1>12 DEF FailResume, ThreadInv, Holding
  <2> QED BY <1>12, <1>m, <1>t, <2>1 DEF FailResume, Resumable, Fail, PumpTypeOK
<1>13. CASE CloseBegin \/ CloseStep \/ UNCHANGED pumpVars
  BY <1>13, <1>m DEF CloseBegin, CloseStep, FreeDown, FreeEnd, ClosePump, pumpVars
<1> QED
  BY <1>1, <1>2, <1>3, <1>4, <1>5, <1>6, <1>7, <1>9, <1>10, <1>11, <1>12, <1>13
  DEF PumpNext, CallerStep, ThreadStep

\* Every step keeps who resumes whom: whoever takes a continuation out of the map resumes
\* it, and the pump thread that sets dead lists every request that has seen it unset.
LEMMA ResumerStep ==
  ASSUME PumpTypeOK, ResumerInv, [PumpNext]_pumpVars
  PROVE  ResumerInv'
<1> USE DEF ResumerInv, ThreadInv, CallerInv, WaiterInv, Holding, Ending
<1>1. ASSUME NEW r \in Requests, Insert(r) PROVE ResumerInv'
  BY <1>1 DEF Insert, PumpTypeOK
<1>2. ASSUME NEW r \in Requests, CheckRunning(r) PROVE ResumerInv'
  BY <1>2 DEF CheckRunning, PumpTypeOK
<1>3. ASSUME NEW r \in Requests, Refuse(r) PROVE ResumerInv'
  BY <1>3 DEF Refuse, Fail, PumpTypeOK
<1>4. ASSUME NEW r \in Requests, Start(r) PROVE ResumerInv'
  BY <1>4 DEF Start, PumpTypeOK
<1>5. ASSUME NEW r \in Requests, RegisterHandler(r) PROVE ResumerInv'
  BY <1>5 DEF RegisterHandler, PumpTypeOK
<1>6. ASSUME NEW r \in Requests, Retire(r) PROVE ResumerInv'
  BY <1>6 DEF Retire, PumpTypeOK
<1>7. ASSUME NEW r \in Requests, CheckActive(r) PROVE ResumerInv'
  BY <1>7 DEF CheckActive, PumpTypeOK
<1>8. ASSUME NEW r \in Requests, ResumeFailed(r) PROVE ResumerInv'
  BY <1>8 DEF ResumeFailed, Fail, Resumable, PumpTypeOK
<1>9. ASSUME NEW r \in Requests, Continue(r) PROVE ResumerInv'
  BY <1>9 DEF Continue, PumpTypeOK
<1>10. ASSUME NEW r \in Requests, CancelCoroutine(r) PROVE ResumerInv'
  BY <1>10 DEF CancelCoroutine, PumpTypeOK
<1>11. ASSUME NEW r \in Requests, NativeAnswer(r) PROVE ResumerInv'
  BY <1>11 DEF NativeAnswer, Answer, PumpTypeOK
<1>12. ASSUME NEW r \in Requests, FailNext(r) PROVE ResumerInv'
  BY <1>12 DEF FailNext, PumpTypeOK
<1>13. CASE Poll
  BY <1>13 DEF Poll, PumpTypeOK
<1>14. CASE Dispatch
  BY <1>14 DEF Dispatch, PumpTypeOK
<1>15. CASE ResumeCurrent
  BY <1>15 DEF ResumeCurrent, Resumable, PumpTypeOK
<1>16. CASE Stop
  BY <1>16 DEF Stop, PumpTypeOK
<1>17. CASE FailCheck
  BY <1>17 DEF FailCheck, PumpTypeOK
<1>18. CASE FailResume
  BY <1>18 DEF FailResume, Resumable, Fail, PumpTypeOK
<1>19. CASE FreePoller
  BY <1>19 DEF FreePoller, PumpTypeOK
<1>20. CASE Die
  BY <1>20 DEF Die, PumpTypeOK
<1>21. CASE CloseBegin \/ CloseStep \/ UNCHANGED pumpVars
  BY <1>21 DEF CloseBegin, CloseStep, FreeDown, FreeEnd, ClosePump, pumpVars
<1> QED
  BY <1>1, <1>2, <1>3, <1>4, <1>5, <1>6, <1>7, <1>8, <1>9, <1>10, <1>11, <1>12, <1>13,
     <1>14, <1>15, <1>16, <1>17, <1>18, <1>19, <1>20, <1>21
  DEF PumpNext, CallerStep, ThreadStep

\* The two together are inductive.
LEMMA PumpInvariant == PumpSpec => [](NoOrphanHandle /\ ResumerInv)
<1>1. PumpInit => NoOrphanHandle /\ ResumerInv
  <2> SUFFICES ASSUME PumpInit PROVE NoOrphanHandle /\ ResumerInv
    OBVIOUS
  <2>1. completions \in Seq(Answers) /\ batch \in Seq(Answers) /\ Len(batch) <= Batch
    BY BatchAssumption DEF PumpInit
  <2>2. PumpTypeOK
    BY <2>1 DEF PumpInit, N!Init, PumpTypeOK, ContStates, CallerSteps, ThreadSteps, CloseSteps
  <2> QED BY <2>2 DEF PumpInit, NoOrphanHandle, ResumerInv, ThreadInv, CallerInv, WaiterInv,
            Holding, Ending
<1>2. NoOrphanHandle /\ ResumerInv /\ [PumpNext]_pumpVars => (NoOrphanHandle /\ ResumerInv)'
  BY OrphanStep, ResumerStep DEF NoOrphanHandle, ResumerInv
<1> QED BY <1>1, <1>2, PTL DEF PumpSpec

\* Whichever requests are cancelled, before or after their answer, a client or server the
\* native side has created is on its way to the caller that asked for it, in its hands,
\* or released, as long as the pump thread lives (Pump.kt:205-208).
THEOREM NoHandleIsOrphaned == PumpSpec => []NoOrphanHandle
BY PumpInvariant, PTL

\* "Either way no coroutine is left suspended forever" (Pump.kt:230), as far as safety
\* goes: when the pump thread is done and its poller freed, the only coroutines still
\* suspended are those whose own caller is still inside request and sees dead there.
THEOREM NoCoroutineIsAbandoned == PumpSpec => []NobodyAbandoned
<1>1. ResumerInv => NobodyAbandoned
  BY DEF ResumerInv, ThreadInv, WaiterInv, NobodyAbandoned, Holding, Ending
<1> QED BY <1>1, PumpInvariant, PTL

\* Every step keeps the cancellations: the caller registers the handler after start, and a
\* cancellation that finds no handler is passed on by the registration.
LEMMA CancelStep ==
  ASSUME PumpTypeOK, ThreadInv, IssueInv, CancelNotLost, [PumpNext]_pumpVars
  PROVE  IssueInv' /\ CancelNotLost'
<1> USE DEF IssueInv, CancelNotLost, nativeVars, PumpTypeOK
\* Most steps leave the callers and the native side alone, and cancel nothing.
<1>m. ASSUME UNCHANGED <<status, doomed, caller, handler>>, runtimeLive' => runtimeLive,
             \A r \in Requests : cont'[r] = "cancelled" => cont[r] = "cancelled"
      PROVE  IssueInv' /\ CancelNotLost'
  BY <1>m
<1>1. ASSUME NEW r \in Requests, Insert(r) PROVE IssueInv' /\ CancelNotLost'
  BY <1>1 DEF Insert
<1>2. ASSUME NEW r \in Requests,
             CheckRunning(r) \/ Retire(r) \/ CheckActive(r)
      PROVE  IssueInv' /\ CancelNotLost'
  BY <1>2 DEF CheckRunning, Retire, CheckActive
<1>3. ASSUME NEW r \in Requests, Refuse(r) \/ ResumeFailed(r) PROVE IssueInv' /\ CancelNotLost'
  BY <1>3 DEF Refuse, ResumeFailed, Resumable, Fail
<1>4. ASSUME NEW r \in Requests, Start(r) PROVE IssueInv' /\ CancelNotLost'
  BY <1>4 DEF Start, N!Accept, N!Reject
<1>5. ASSUME NEW r \in Requests, RegisterHandler(r) PROVE IssueInv' /\ CancelNotLost'
  BY <1>5 DEF RegisterHandler, N!Cancel
<1>6. ASSUME NEW r \in Requests, CancelCoroutine(r) PROVE IssueInv' /\ CancelNotLost'
  BY <1>6 DEF CancelCoroutine, N!Cancel
<1>7. ASSUME NEW r \in Requests, NativeAnswer(r) PROVE IssueInv' /\ CancelNotLost'
  BY <1>7 DEF NativeAnswer, Answer, N!Answer
<1>8. ASSUME NEW r \in Requests, Continue(r) \/ FailNext(r) PROVE IssueInv' /\ CancelNotLost'
  BY <1>8, <1>m DEF Continue, FailNext
<1>9. CASE Poll \/ Dispatch \/ Stop \/ FailCheck \/ FreePoller \/ Die
  BY <1>9, <1>m DEF Poll, Dispatch, Stop, FailCheck, FreePoller, Die
<1>10. CASE ResumeCurrent \/ FailResume
  <2>1. current \in Requests
    BY <1>10 DEF ResumeCurrent, FailResume, ThreadInv, Holding
  <2> QED BY <1>10, <1>m, <2>1 DEF ResumeCurrent, FailResume, Resumable, Fail
<1>11. CASE CloseBegin \/ CloseStep \/ UNCHANGED pumpVars
  BY <1>11, <1>m DEF CloseBegin, CloseStep, FreeDown, FreeEnd, ClosePump, N!ShutDown, pumpVars
<1> QED
  BY <1>1, <1>2, <1>3, <1>4, <1>5, <1>6, <1>7, <1>8, <1>9, <1>10, <1>11
  DEF PumpNext, CallerStep, ThreadStep

\* A cancelled coroutine's operation is cancelled natively, or is about to be, or the whole
\* runtime is going down: no order of start, cancellation and registration of the handler
\* leaves it running with nobody listening (Pump.kt:126-129).
THEOREM NoCancellationIsLost == PumpSpec => []CancelNotLost
<1>1. PumpInit => IssueInv /\ CancelNotLost
  BY DEF PumpInit, N!Init, IssueInv, CancelNotLost
<1>2. NoOrphanHandle /\ ResumerInv /\ IssueInv /\ CancelNotLost /\ [PumpNext]_pumpVars =>
        (IssueInv /\ CancelNotLost)'
  BY CancelStep DEF NoOrphanHandle, ResumerInv
<1> QED BY <1>1, <1>2, PumpInvariant, PTL DEF PumpSpec

\* The native side as the pump sees it does nothing that OneAnswer forbids.  With
\* ImplementsSafeOneAnswer: what the theorems on the pump take of the bridge is the
\* specification the bridge implements.
THEOREM PumpKeepsToOneAnswer == PumpSpec => N!SafeSpec
<1>1. PumpInit => N!Init
  BY DEF PumpInit
<1>2. [PumpNext]_pumpVars => [N!Next]_(N!vars)
  <2> SUFFICES ASSUME [PumpNext]_pumpVars PROVE N!Next \/ UNCHANGED N!vars
    BY DEF N!vars
  <2> USE DEF nativeVars, N!vars
  <2>1. ASSUME NEW r \in Requests, CallerStep(r) \/ CancelCoroutine(r) \/ Insert(r)
        PROVE  N!Next \/ UNCHANGED N!vars
    BY <2>1 DEF N!Next, CallerStep, Insert, CheckRunning, Refuse, Start, RegisterHandler,
          Retire, CheckActive, ResumeFailed, Continue, CancelCoroutine
  <2>2. ASSUME NEW r \in Requests, NativeAnswer(r) PROVE N!Next
    BY <2>2 DEF NativeAnswer, Answer, N!Next
  <2>3. CASE ThreadStep \/ Die
    BY <2>3 DEF ThreadStep, Poll, Dispatch, ResumeCurrent, Stop, FailCheck, FailResume,
          FreePoller, FailNext, Die
  <2>4. CASE CloseBegin \/ CloseStep \/ UNCHANGED pumpVars
    BY <2>4 DEF CloseBegin, CloseStep, FreeDown, FreeEnd, ClosePump, pumpVars, N!Next
  <2> QED BY <2>1, <2>2, <2>3, <2>4 DEF PumpNext
<1> QED BY <1>1, <1>2, PTL DEF PumpSpec, N!SafeSpec
=============================================================================
