------------------------ MODULE CompletionQueueProofs ------------------------
(***************************************************************************)
(* Proofs about CompletionQueue for any set of JVM threads, pollers, batch   *)
(* capacities and bounds on pushes and wakes.                               *)
(***************************************************************************)
EXTENDS CompletionQueue, SequenceTheorems, TLAPS

\* A poll that changes only its program counter, as every wakeup does, is
\* still a poll.
LEMMA MovedPoll ==
  ASSUME NEW r \in Polls, NEW step \in Steps
  PROVE  [r EXCEPT !.pc = step] \in Polls
BY DEF Polls

\* notify_all leaves a poll for every thread, and unparks without touching
\* anything else of the poll.
LEMMA NotifyAllMoves ==
  ASSUME polls \in [PollThreads -> Polls]
  PROVE  /\ NotifyAll(polls) \in [PollThreads -> Polls]
         /\ \A t \in PollThreads :
              /\ NotifyAll(polls)[t].pc # "parked"
              /\ NotifyAll(polls)[t] = IF polls[t].pc = "parked"
                                         THEN [polls[t] EXCEPT !.pc = "testing"] ELSE polls[t]
<1>1. ASSUME NEW t \in PollThreads
      PROVE  polls[t] \in Polls /\ [polls[t] EXCEPT !.pc = "testing"] \in Polls
  BY MovedPoll DEF Steps
<1>2. ASSUME NEW t \in PollThreads
      PROVE  [polls[t] EXCEPT !.pc = "testing"].pc = "testing"
  BY <1>1 DEF Polls
<1> QED BY <1>1, <1>2 DEF NotifyAll

\* Taking a prefix of the queue leaves the rest in order.
LEMMA DrainSplits ==
  ASSUME NEW S, NEW q \in Seq(S), NEW take \in 0..Len(q)
  PROVE  /\ SubSeq(q, 1, take) \in Seq(S)
         /\ Len(SubSeq(q, 1, take)) = take
         /\ \A n \in 1..take : SubSeq(q, 1, take)[n] = q[n]
         /\ SubSeq(q, take + 1, Len(q)) \in Seq(S)
         /\ Len(SubSeq(q, take + 1, Len(q))) = Len(q) - take
         /\ \A n \in 1..(Len(q) - take) : SubSeq(q, take + 1, Len(q))[n] = q[take + n]
<1>1. Len(q) \in Nat
  BY LenProperties
<1>2. /\ SubSeq(q, 1, take) \in Seq(S)
      /\ Len(SubSeq(q, 1, take)) = take
      /\ \A n \in 1..take : SubSeq(q, 1, take)[n] = q[n]
  BY <1>1
<1>3. /\ SubSeq(q, take + 1, Len(q)) \in Seq(S)
      /\ Len(SubSeq(q, take + 1, Len(q))) = Len(q) - take
  BY <1>1
<1>4. \A n \in 1..(Len(q) - take) : SubSeq(q, take + 1, Len(q))[n] = q[take + n]
  BY <1>1
<1> QED BY <1>2, <1>3, <1>4

\* What a drain does to the thread that drains, in terms of the number of
\* completions taken.
LEMMA DrainEffect ==
  ASSUME TypeOK, NEW t \in PollThreads, Drain(t)
  PROVE  \E take \in 0..Len(queue) :
           /\ queue' = SubSeq(queue, take + 1, Len(queue))
           /\ queue' \in Seq(Nat \ {0})
           /\ Len(queue') = Len(queue) - take
           /\ \A n \in 1..(Len(queue) - take) : queue'[n] = queue[take + n]
           /\ polls' \in [PollThreads -> Polls]
           /\ \A u \in PollThreads : u # t => polls'[u] = polls[u]
           /\ polls'[t].poller = polls[t].poller
           /\ polls'[t].pc = IF take = 0 THEN "leaving" ELSE "filling"
           /\ Len(polls'[t].batch) = take
           /\ polls'[t].batch \in Seq(Nat \ {0})
           /\ \A n \in 1..take : polls'[t].batch[n] = queue[n]
<1> DEFINE cap == polls[t].cap
           take == IF cap < Len(queue) THEN cap ELSE Len(queue)
           new == [polls[t] EXCEPT !.batch = SubSeq(queue, 1, take),
                                   !.pc = IF take = 0 THEN "leaving" ELSE "filling",
                                   !.rc = IF take = 0 /\ closed THEN "shutdown" ELSE "ok"]
<1>1. polls[t] \in Polls /\ cap \in Nat /\ queue \in Seq(Nat \ {0})
  <2>1. polls[t] \in Polls /\ queue \in Seq(Nat \ {0})
    BY DEF TypeOK
  <2>2. polls[t].cap \in Caps \cup {0}
    BY <2>1 DEF Polls
  <2>3. polls[t].cap \in Nat
    BY <2>2, CapsAssumption
  <2> QED BY <2>1, <2>3
<1>2. /\ queue' = SubSeq(queue, take + 1, Len(queue))
      /\ polls' = [polls EXCEPT ![t] = new]
  BY DEF Drain
<1>3. /\ take \in 0..Len(queue)
      /\ SubSeq(queue, 1, take) \in Seq(Nat \ {0})
      /\ Len(SubSeq(queue, 1, take)) = take
      /\ \A n \in 1..take : SubSeq(queue, 1, take)[n] = queue[n]
      /\ queue' \in Seq(Nat \ {0})
      /\ Len(queue') = Len(queue) - take
      /\ \A n \in 1..(Len(queue) - take) : queue'[n] = queue[take + n]
  <2>1. take \in 0..Len(queue)
    <3> HIDE DEF cap
    <3> QED BY <1>1, LenProperties
  <2> HIDE DEF take, cap, new
  <2>2. /\ SubSeq(queue, 1, take) \in Seq(Nat \ {0})
        /\ Len(SubSeq(queue, 1, take)) = take
        /\ \A n \in 1..take : SubSeq(queue, 1, take)[n] = queue[n]
    BY <1>1, <2>1, DrainSplits
  <2>3. /\ SubSeq(queue, take + 1, Len(queue)) \in Seq(Nat \ {0})
        /\ Len(SubSeq(queue, take + 1, Len(queue))) = Len(queue) - take
        /\ \A n \in 1..(Len(queue) - take) :
             SubSeq(queue, take + 1, Len(queue))[n] = queue[take + n]
    BY <1>1, <2>1, DrainSplits
  <2> QED BY <1>2, <2>1, <2>2, <2>3
<1> HIDE DEF take, cap
<1>4. /\ new \in Polls
      /\ new.poller = polls[t].poller
      /\ new.pc = IF take = 0 THEN "leaving" ELSE "filling"
      /\ new.batch = SubSeq(queue, 1, take)
  BY <1>1, <1>3 DEF Polls, Steps, Codes
<1> HIDE DEF new
<1>5. /\ polls' \in [PollThreads -> Polls]
      /\ polls'[t] = new
      /\ \A u \in PollThreads : u # t => polls'[u] = polls[u]
  BY <1>2, <1>4 DEF TypeOK
<1>6. /\ polls'[t].poller = polls[t].poller
      /\ polls'[t].pc = IF take = 0 THEN "leaving" ELSE "filling"
      /\ Len(polls'[t].batch) = take
      /\ polls'[t].batch \in Seq(Nat \ {0})
      /\ \A n \in 1..take : polls'[t].batch[n] = queue[n]
  BY <1>3, <1>4, <1>5
<1> QED
  <2> SUFFICES \E k \in 0..Len(queue) :
           /\ queue' = SubSeq(queue, k + 1, Len(queue))
           /\ queue' \in Seq(Nat \ {0})
           /\ Len(queue') = Len(queue) - k
           /\ \A n \in 1..(Len(queue) - k) : queue'[n] = queue[k + n]
           /\ polls' \in [PollThreads -> Polls]
           /\ \A u \in PollThreads : u # t => polls'[u] = polls[u]
           /\ polls'[t].poller = polls[t].poller
           /\ polls'[t].pc = IF k = 0 THEN "leaving" ELSE "filling"
           /\ Len(polls'[t].batch) = k
           /\ polls'[t].batch \in Seq(Nat \ {0})
           /\ \A n \in 1..k : polls'[t].batch[n] = queue[n]
    OBVIOUS
  <2>1. take \in 0..Len(queue)
    BY <1>3
  <2> WITNESS take \in 0..Len(queue)
  <2> QED BY <1>2, <1>3, <1>5, <1>6

-----------------------------------------------------------------------------
(***************************************************************************)
(* Type correctness.                                                       *)
(***************************************************************************)

\* Every step keeps the types.
LEMMA TypeStep == TypeOK /\ [Next]_vars => TypeOK'
<1> SUFFICES ASSUME TypeOK, [Next]_vars PROVE TypeOK'
  OBVIOUS
<1> USE DEF queueVars, handleVars
<1>p. ASSUME NEW t \in PollThreads PROVE polls[t] \in Polls
  BY DEF TypeOK
<1>1. ASSUME NEW carries \in BOOLEAN, Push(carries) PROVE TypeOK'
  <2> DEFINE id == pushed + 1
  <2>1. id \in Nat \ {0}
    BY DEF TypeOK
  <2>2. CASE closed
    BY <1>1, <2>1, <2>2 DEF Push, TypeOK, DropPending
  <2>3. CASE ~closed
    <3>1. queue' = Append(queue, id) /\ polls' = NotifyAll(polls)
      BY <1>1, <2>3 DEF Push
    <3>2. queue' \in Seq(Nat \ {0}) /\ polls' \in [PollThreads -> Polls]
      BY <2>1, <3>1, NotifyAllMoves DEF TypeOK
    <3>3. pushed' \in Nat /\ accepted' \in Nat /\ carriers' \subseteq Nat /\ live' \subseteq Nat
      <4> DEFINE new == IF carries THEN {id} ELSE {}
      <4>1. /\ pushed' = id /\ accepted' = accepted + 1
            /\ carriers' = carriers \cup new /\ live' = live \cup new
        BY <1>1, <2>3 DEF Push
      <4>2. new \subseteq Nat
        BY <2>1
      <4> HIDE DEF new, id
      <4> QED BY <2>1, <4>1, <4>2 DEF TypeOK
    <3>4. UNCHANGED <<wakes, closed, inPoll, slab, received, gone>>
      BY <1>1 DEF Push
    <3> QED BY <3>2, <3>3, <3>4 DEF TypeOK
  <2> QED BY <2>2, <2>3
<1>2. CASE Close
  <2>1. polls' \in [PollThreads -> Polls]
    BY <1>2, NotifyAllMoves DEF Close, TypeOK
  <2> QED BY <1>2, <2>1 DEF Close, TypeOK
<1>3. CASE Abandon
  <2>1. queue' \in Seq(Nat \ {0}) /\ live' \subseteq Nat /\ gone' \in BOOLEAN
    BY <1>3, EmptySeq DEF Abandon, TypeOK, DropPending
  <2> QED BY <1>3, <2>1 DEF Abandon, TypeOK
<1>4. ASSUME NEW p \in Pollers, Wake(p) PROVE TypeOK'
  <2>1. polls' \in [PollThreads -> Polls]
    BY <1>4, NotifyAllMoves DEF Wake, TypeOK
  <2> QED BY <1>4, <2>1 DEF Wake, TypeOK
<1>5. ASSUME NEW t \in PollThreads, NEW p \in Pollers, NEW cap \in Caps, NEW timeout \in Timeouts,
             PollBegin(t, p, cap, timeout)
      PROVE  TypeOK'
  <2>1. Outside \in Polls
    BY DEF Outside, Polls, Steps, Codes
  <2>2. [pc |-> "testing", poller |-> p, cap |-> cap, timeout |-> timeout,
         batch |-> <<>>, rc |-> "none"] \in Polls
    BY DEF Polls, Steps, Codes
  <2>3. [polls[t] EXCEPT !.rc = "busy"] \in Polls
    BY <1>p DEF Polls, Codes
  <2>4. polls' \in [PollThreads -> Polls] /\ inPoll' \in [Pollers -> BOOLEAN]
    <3>1. CASE inPoll[p]
      BY <1>5, <2>3, <3>1 DEF PollBegin, TypeOK
    <3>2. CASE ~inPoll[p]
      <4>1. inPoll' \in [Pollers -> BOOLEAN]
        BY <1>5, <3>2 DEF PollBegin, TypeOK
      <4>2. polls' \in [PollThreads -> Polls]
        BY <1>5, <1>p, <2>1, <2>2, <3>2 DEF PollBegin
      <4> QED BY <4>1, <4>2
    <3> QED BY <3>1, <3>2
  <2> QED BY <1>5, <2>4 DEF PollBegin, TypeOK
<1>6. ASSUME NEW t \in PollThreads, Test(t) PROVE TypeOK'
  <2>1. CASE Drain(t)
    <3>1. queue' \in Seq(Nat \ {0}) /\ polls' \in [PollThreads -> Polls]
      BY <2>1, DrainEffect
    <3>2. wakes' \in Nat
      BY <1>6 DEF Test, TypeOK, ConsumeWake
    <3> QED BY <1>6, <3>1, <3>2 DEF Test, TypeOK
  <2>2. CASE polls' = [polls EXCEPT ![t].pc = "parked"] /\ UNCHANGED <<queue, wakes>>
    <3>1. polls' \in [PollThreads -> Polls]
      BY <2>2, <1>p, MovedPoll DEF TypeOK, Steps
    <3> QED BY <1>6, <2>2, <3>1 DEF Test, TypeOK
  <2> QED BY <1>6, <2>1, <2>2 DEF Test
<1>7. ASSUME NEW t \in PollThreads, Timeout(t) \/ SpuriousWakeup(t) PROVE TypeOK'
  <2>1. polls' \in [PollThreads -> Polls]
    BY <1>7, <1>p, MovedPoll DEF Timeout, SpuriousWakeup, TypeOK, Steps
  <2> QED BY <1>7, <2>1 DEF Timeout, SpuriousWakeup, TypeOK
<1>8. ASSUME NEW t \in PollThreads, DrainExpired(t) PROVE TypeOK'
  <2>1. queue' \in Seq(Nat \ {0}) /\ polls' \in [PollThreads -> Polls]
    BY <1>8, DrainEffect DEF DrainExpired
  <2> QED BY <1>8, <2>1 DEF DrainExpired, TypeOK
<1>9. ASSUME NEW t \in PollThreads, Fill(t) PROVE TypeOK'
  <2>1. polls[t].batch \in Seq(Nat \ {0}) /\ Elements(polls[t].batch) \subseteq Nat
    BY <1>p DEF Polls, Elements
  <2>2. polls' \in [PollThreads -> Polls]
    BY <1>9, <1>p, MovedPoll DEF Fill, TypeOK, Steps
  <2> QED BY <1>9, <2>1, <2>2 DEF Fill, TypeOK, DropPending
<1>10. ASSUME NEW t \in PollThreads, Leave(t) PROVE TypeOK'
  <2>1. [polls[t] EXCEPT !.pc = "out", !.cap = 0, !.timeout = "zero"] \in Polls
    BY <1>p DEF Polls, Steps
  <2>2. polls' \in [PollThreads -> Polls] /\ inPoll' \in [Pollers -> BOOLEAN]
    BY <1>10, <2>1 DEF Leave, TypeOK
  <2> QED BY <1>10, <2>2 DEF Leave, TypeOK
<1>11. CASE UNCHANGED vars
  BY <1>11 DEF vars, TypeOK
<1> QED
  BY <1>1, <1>2, <1>3, <1>4, <1>5, <1>6, <1>7, <1>8, <1>9, <1>10, <1>11 DEF Next, Poll

\* The completion queue keeps its types: the queue and every batch hold
\* completion numbers, and every thread is at a step of kt_poller_poll.
THEOREM TypeCorrect == Spec => []TypeOK
<1>1. Init => TypeOK
  <2> SUFFICES ASSUME Init PROVE TypeOK
    OBVIOUS
  <2>1. Outside \in Polls
    BY DEF Outside, Polls, Steps, Codes
  <2>2. polls \in [PollThreads -> Polls]
    BY <2>1 DEF Init
  <2>3. queue \in Seq(Nat \ {0}) /\ slab \in [Pollers -> Seq(Nat \ {0})]
    BY EmptySeq DEF Init
  <2> QED BY <2>2, <2>3 DEF Init, TypeOK
<1> QED BY <1>1, TypeStep, PTL DEF Spec

-----------------------------------------------------------------------------
(***************************************************************************)
(* No lost wakeup.                                                         *)
(***************************************************************************)

\* What a parked thread may assume is inductive by itself: whatever makes the
\* predicate of the wait loop true notifies in the same critical section.
LEMMA NoLostWakeupStep == TypeOK /\ NoLostWakeup /\ [Next]_vars => NoLostWakeup'
<1> SUFFICES ASSUME TypeOK, NoLostWakeup, [Next]_vars PROVE NoLostWakeup'
  OBVIOUS
<1> USE DEF queueVars, handleVars
<1>p. polls \in [PollThreads -> Polls]
  BY DEF TypeOK
<1>1. ASSUME polls' = NotifyAll(polls) PROVE NoLostWakeup'
  BY <1>1, <1>p, NotifyAllMoves DEF NoLostWakeup
<1>2. ASSUME \A u \in PollThreads : polls'[u].pc = "parked" => polls[u].pc = "parked",
             UNCHANGED closed,
             queue = <<>> => queue' = <<>>,
             wakes = 0 => wakes' = 0
      PROVE  NoLostWakeup'
  BY <1>2 DEF NoLostWakeup
<1>3. ASSUME NEW t \in PollThreads, Drain(t), UNCHANGED closed, wakes' = 0 \/ UNCHANGED wakes
      PROVE  NoLostWakeup'
  <2>1. PICK take \in 0..Len(queue) :
          /\ Len(queue') = Len(queue) - take
          /\ queue' \in Seq(Nat \ {0})
          /\ \A u \in PollThreads : u # t => polls'[u] = polls[u]
          /\ polls'[t].pc = IF take = 0 THEN "leaving" ELSE "filling"
    BY <1>3, DrainEffect
  <2>2. queue = <<>> => queue' = <<>>
    BY <2>1, EmptySeq DEF TypeOK
  <2>3. \A u \in PollThreads : polls'[u].pc = "parked" => polls[u].pc = "parked"
    BY <2>1
  <2> QED BY <1>2, <1>3, <2>2, <2>3
<1>4. ASSUME NEW carries \in BOOLEAN, Push(carries) PROVE NoLostWakeup'
  <2>1. CASE closed
    BY <1>4, <2>1 DEF Push, NoLostWakeup
  <2>2. CASE ~closed
    BY <1>1, <1>4, <2>2 DEF Push
  <2> QED BY <2>1, <2>2
<1>5. CASE Close
  BY <1>1, <1>5 DEF Close
<1>6. CASE Abandon
  BY <1>2, <1>6 DEF Abandon
<1>7. ASSUME NEW p \in Pollers, Wake(p) PROVE NoLostWakeup'
  BY <1>1, <1>7 DEF Wake
<1>8. ASSUME NEW t \in PollThreads, NEW p \in Pollers, NEW cap \in Caps, NEW timeout \in Timeouts,
             PollBegin(t, p, cap, timeout)
      PROVE  NoLostWakeup'
  <2>1. polls[t] \in Polls
    BY <1>p
  <2>2. ASSUME NEW u \in PollThreads, polls'[u].pc = "parked" PROVE polls[u].pc = "parked"
    <3>1. CASE inPoll[p]
      BY <1>8, <1>p, <2>1, <2>2, <3>1 DEF PollBegin, Polls
    <3>2. CASE ~inPoll[p]
      BY <1>8, <2>2, <3>2 DEF PollBegin, Outside
    <3> QED BY <3>1, <3>2
  <2> QED BY <1>2, <1>8, <2>2 DEF PollBegin
<1>9. ASSUME NEW t \in PollThreads, Test(t) PROVE NoLostWakeup'
  <2>1. CASE Drain(t) /\ UNCHANGED wakes
    BY <1>3, <1>9, <2>1 DEF Test
  <2>2. CASE Drain(t) /\ ConsumeWake
    \* A consumed wake may leave another one; the woken thread is not parked and
    \* every other one was not either, as the wakes were not zero.
    <3>1. \A u \in PollThreads : polls[u].pc # "parked"
      BY <2>2 DEF ConsumeWake, NoLostWakeup, TypeOK
    <3>2. \A u \in PollThreads : polls'[u].pc # "parked"
      BY <2>2, <3>1, DrainEffect
    <3> QED BY <3>2 DEF NoLostWakeup
  <2>3. CASE /\ queue = <<>> /\ ~closed /\ wakes = 0
             /\ polls' = [polls EXCEPT ![t].pc = "parked"]
             /\ UNCHANGED <<queue, wakes>>
    BY <1>9, <2>3 DEF Test, NoLostWakeup
  <2> QED BY <1>9, <2>1, <2>2, <2>3 DEF Test
<1>10. ASSUME NEW t \in PollThreads, Timeout(t) \/ SpuriousWakeup(t) \/ Fill(t) \/ Leave(t)
       PROVE  NoLostWakeup'
  <2>1. polls[t] \in Polls
    BY <1>p
  <2>2. ASSUME NEW u \in PollThreads, polls'[u].pc = "parked" PROVE polls[u].pc = "parked"
    <3>1. CASE Timeout(t) \/ SpuriousWakeup(t)
      BY <1>p, <2>1, <2>2, <3>1 DEF Timeout, SpuriousWakeup, Polls
    <3>2. CASE Fill(t)
      BY <1>p, <2>1, <2>2, <3>2 DEF Fill, Polls
    <3>3. CASE Leave(t)
      BY <1>p, <2>1, <2>2, <3>3 DEF Leave, Polls
    <3> QED BY <1>10, <3>1, <3>2, <3>3
  <2> QED BY <1>2, <1>10, <2>2 DEF Timeout, SpuriousWakeup, Fill, Leave
<1>11. ASSUME NEW t \in PollThreads, DrainExpired(t) PROVE NoLostWakeup'
  BY <1>3, <1>11 DEF DrainExpired
<1>12. CASE UNCHANGED vars
  BY <1>2, <1>12 DEF vars
<1> QED
  BY <1>4, <1>5, <1>6, <1>7, <1>8, <1>9, <1>10, <1>11, <1>12 DEF Next, Poll

\* No thread sleeps in Condvar::wait while a completion is queued, a wake is
\* outstanding or the queue is closed (queue.rs:125-132).
THEOREM NoWakeupIsLost == Spec => []NoLostWakeup
<1>1. Init => NoLostWakeup
  BY DEF Init, NoLostWakeup, Outside
<1> QED BY <1>1, NoLostWakeupStep, TypeCorrect, PTL DEF Spec

-----------------------------------------------------------------------------
(***************************************************************************)
(* Batches stay intact.                                                    *)
(***************************************************************************)

\* A thread that is inside of poll, or that still reads the batch of its last
\* one, is engaged with its poller.
Engaged(t) == polls[t].pc # "out" \/ polls[t].batch # <<>>

\* in_poll does what it is for: a poller engages at most one thread, and a
\* thread that waits holds no batch.
PollerOwned ==
  /\ \A t \in PollThreads : Engaged(t) => polls[t].poller \in Pollers
  /\ \A t \in PollThreads : polls[t].pc # "out" => inPoll[polls[t].poller]
  /\ \A t, u \in PollThreads :
       t # u /\ Engaged(t) /\ Engaged(u) => polls[t].poller # polls[u].poller
  /\ \A t \in PollThreads :
       polls[t].pc \in {"testing", "parked", "expired"} => polls[t].batch = <<>>

BatchInv == PollerOwned /\ BatchIntact

\* The program counters of a thread in the wait loop.
Waiting == {"testing", "parked", "expired"}

\* Steps that move threads inside of the wait loop and change nothing of what
\* they hold.
KeepHold ==
  \A u \in PollThreads :
    /\ polls'[u].poller = polls[u].poller
    /\ polls'[u].batch = polls[u].batch
    /\ polls'[u].pc = polls[u].pc \/ (polls[u].pc \in Waiting /\ polls'[u].pc \in Waiting)

\* Notifications, parking, spurious wakeups and expired waits are such steps.
LEMMA WaitStepsKeepHold ==
  ASSUME TypeOK,
         \/ polls' = NotifyAll(polls)
         \/ polls' = polls
         \/ \E t \in PollThreads, step \in Waiting :
              polls[t].pc \in Waiting /\ polls' = [polls EXCEPT ![t].pc = step]
  PROVE  KeepHold
<1>p. polls \in [PollThreads -> Polls]
  BY DEF TypeOK
<1>q. ASSUME NEW u \in PollThreads, NEW step
      PROVE  /\ [polls[u] EXCEPT !.pc = step].pc = step
             /\ [polls[u] EXCEPT !.pc = step].poller = polls[u].poller
             /\ [polls[u] EXCEPT !.pc = step].batch = polls[u].batch
  <2>1. polls[u] \in Polls
    BY <1>p
  <2> QED BY <2>1 DEF Polls
<1>1. CASE polls' = NotifyAll(polls)
  <2> SUFFICES ASSUME NEW u \in PollThreads
               PROVE  /\ polls'[u].poller = polls[u].poller
                      /\ polls'[u].batch = polls[u].batch
                      /\ \/ polls'[u].pc = polls[u].pc
                         \/ polls[u].pc \in Waiting /\ polls'[u].pc \in Waiting
    BY DEF KeepHold
  <2>1. polls'[u] = IF polls[u].pc = "parked" THEN [polls[u] EXCEPT !.pc = "testing"] ELSE polls[u]
    BY <1>1, <1>p, NotifyAllMoves
  <2> QED BY <2>1, <1>q DEF Waiting
<1>2. CASE polls' = polls
  BY <1>2 DEF KeepHold
<1>3. ASSUME NEW t \in PollThreads, NEW step \in Waiting,
             polls[t].pc \in Waiting, polls' = [polls EXCEPT ![t].pc = step]
      PROVE  KeepHold
  <2>1. \A u \in PollThreads : u # t => polls'[u] = polls[u]
    BY <1>3, <1>p
  <2>2. polls'[t] = [polls[t] EXCEPT !.pc = step]
    BY <1>3, <1>p
  <2> QED BY <1>3, <2>1, <2>2, <1>q DEF KeepHold
<1> QED BY <1>1, <1>2, <1>3

\* One poller engages one thread at a time, and the slab holds what that
\* thread was given.
LEMMA BatchStep == TypeOK /\ BatchInv /\ [Next]_vars => BatchInv'
<1> SUFFICES ASSUME TypeOK, BatchInv, [Next]_vars PROVE BatchInv'
  OBVIOUS
<1> USE DEF queueVars, handleVars
<1>p. polls \in [PollThreads -> Polls] /\ slab \in [Pollers -> Seq(Nat \ {0})]
  BY DEF TypeOK
<1>i. inPoll \in [Pollers -> BOOLEAN]
  BY DEF TypeOK
<1>1. ASSUME KeepHold, UNCHANGED <<inPoll, slab>> PROVE BatchInv'
  BY <1>1 DEF KeepHold, BatchInv, PollerOwned, BatchIntact, Engaged, Waiting
<1>2. ASSUME NEW t \in PollThreads, polls[t].pc \in Waiting, Drain(t), UNCHANGED <<inPoll, slab>>
      PROVE  BatchInv'
  <2>1. PICK take \in 0..Len(queue) :
          /\ \A u \in PollThreads : u # t => polls'[u] = polls[u]
          /\ polls'[t].poller = polls[t].poller
          /\ polls'[t].pc = IF take = 0 THEN "leaving" ELSE "filling"
          /\ Len(polls'[t].batch) = take
          /\ polls'[t].batch \in Seq(Nat \ {0})
    BY <1>2, DrainEffect
  <2>2. take = 0 => polls'[t].batch = <<>>
    BY <2>1, EmptySeq
  <2>3. polls[t].pc # "out" /\ Engaged(t) /\ polls'[t].pc \in {"leaving", "filling"}
    BY <1>2, <2>1 DEF Engaged, Waiting
  <2>4. PollerOwned'
    BY <1>2, <2>1, <2>3 DEF BatchInv, PollerOwned, Engaged
  <2>5. BatchIntact'
    BY <1>2, <2>1, <2>2 DEF BatchInv, BatchIntact
  <2> QED BY <2>4, <2>5 DEF BatchInv
<1>3. ASSUME NEW carries \in BOOLEAN, Push(carries) PROVE BatchInv'
  BY <1>1, <1>3, WaitStepsKeepHold DEF Push
<1>4. CASE Close \/ Abandon
  BY <1>1, <1>4, WaitStepsKeepHold DEF Close, Abandon
<1>5. ASSUME NEW p \in Pollers, Wake(p) PROVE BatchInv'
  BY <1>1, <1>5, WaitStepsKeepHold DEF Wake
<1>6. ASSUME NEW t \in PollThreads, NEW p \in Pollers, NEW cap \in Caps, NEW timeout \in Timeouts,
             PollBegin(t, p, cap, timeout)
      PROVE  BatchInv'
  <2>1. CASE inPoll[p]
    <3>1. polls[t] \in Polls
      BY <1>p
    <3>2. /\ \A u \in PollThreads : u # t => polls'[u] = polls[u]
          /\ polls'[t] = [polls[t] EXCEPT !.rc = "busy"]
      BY <1>6, <1>p, <2>1 DEF PollBegin
    <3>3. /\ polls'[t].pc = polls[t].pc /\ polls'[t].poller = polls[t].poller
          /\ polls'[t].batch = polls[t].batch
      BY <3>1, <3>2 DEF Polls
    <3>4. KeepHold
      BY <3>2, <3>3 DEF KeepHold
    <3> QED BY <1>1, <1>6, <2>1, <3>4 DEF PollBegin
  <2>2. CASE ~inPoll[p]
    <3>1. /\ inPoll' = [inPoll EXCEPT ![p] = TRUE]
          /\ slab' = slab
          /\ polls'[t] = [pc |-> "testing", poller |-> p, cap |-> cap, timeout |-> timeout,
                          batch |-> <<>>, rc |-> "none"]
          /\ \A u \in PollThreads \ {t} :
               polls'[u] = IF polls[u].pc = "out" /\ polls[u].poller = p THEN Outside ELSE polls[u]
      BY <1>6, <2>2 DEF PollBegin
    <3>2. polls'[t].pc = "testing" /\ polls'[t].poller = p /\ polls'[t].batch = <<>>
      BY <3>1
    <3>3. ASSUME NEW u \in PollThreads \ {t}
          PROVE  \/ polls'[u].pc = "out" /\ polls'[u].batch = <<>>
                 \/ polls'[u] = polls[u] /\ (Engaged(u) => polls[u].poller # p)
      <4>1. CASE polls[u].pc = "out" /\ polls[u].poller = p
        BY <3>1, <4>1 DEF Outside
      <4>2. CASE ~(polls[u].pc = "out" /\ polls[u].poller = p)
        BY <2>2, <3>1, <4>2 DEF BatchInv, PollerOwned
      <4> QED BY <4>1, <4>2
    <3>4. inPoll'[p] /\ \A q \in Pollers : inPoll[q] => inPoll'[q]
      BY <1>i, <3>1
    <3>5. PollerOwned'
      <4>1. \A u \in PollThreads : Engaged(u)' => polls'[u].poller \in Pollers
        BY <3>2, <3>3 DEF BatchInv, PollerOwned, Engaged
      <4>2. \A u \in PollThreads : polls'[u].pc # "out" => inPoll'[polls'[u].poller]
        BY <3>2, <3>3, <3>4 DEF BatchInv, PollerOwned, Engaged
      <4>3. \A u, v \in PollThreads :
              u # v /\ Engaged(u)' /\ Engaged(v)' => polls'[u].poller # polls'[v].poller
        BY <3>2, <3>3 DEF BatchInv, PollerOwned, Engaged
      <4>4. \A u \in PollThreads :
              polls'[u].pc \in {"testing", "parked", "expired"} => polls'[u].batch = <<>>
        BY <3>2, <3>3 DEF BatchInv, PollerOwned
      <4> QED BY <4>1, <4>2, <4>3, <4>4 DEF PollerOwned
    <3>6. BatchIntact'
      BY <3>1, <3>2, <3>3 DEF BatchInv, BatchIntact
    <3> QED BY <3>5, <3>6 DEF BatchInv
  <2> QED BY <2>1, <2>2
<1>7. ASSUME NEW t \in PollThreads, Test(t) PROVE BatchInv'
  <2>1. CASE Drain(t)
    BY <1>2, <1>7, <2>1 DEF Test, Waiting
  <2>2. CASE polls' = [polls EXCEPT ![t].pc = "parked"]
    <3>1. KeepHold
      BY <1>7, <2>2, WaitStepsKeepHold DEF Test, Waiting
    <3> QED BY <1>1, <1>7, <3>1 DEF Test
  <2> QED BY <1>7, <2>1, <2>2 DEF Test
<1>8. ASSUME NEW t \in PollThreads, Timeout(t) \/ SpuriousWakeup(t) PROVE BatchInv'
  <2>1. KeepHold
    BY <1>8, WaitStepsKeepHold DEF Timeout, SpuriousWakeup, Waiting
  <2> QED BY <1>1, <1>8, <2>1 DEF Timeout, SpuriousWakeup
<1>9. ASSUME NEW t \in PollThreads, DrainExpired(t) PROVE BatchInv'
  BY <1>2, <1>9 DEF DrainExpired, Waiting
<1>10. ASSUME NEW t \in PollThreads, Fill(t) PROVE BatchInv'
  <2>1. polls[t] \in Polls
    BY <1>p
  <2>2. /\ \A u \in PollThreads : u # t => polls'[u] = polls[u]
        /\ polls'[t] = [polls[t] EXCEPT !.pc = "leaving"]
        /\ inPoll' = inPoll
    BY <1>10, <1>p DEF Fill
  <2>3. /\ polls'[t].pc = "leaving" /\ polls'[t].poller = polls[t].poller
        /\ polls'[t].batch = polls[t].batch
    BY <2>1, <2>2 DEF Polls
  <2>4. polls[t].pc = "filling" /\ Engaged(t) /\ polls[t].poller \in Pollers
    BY <1>10 DEF Fill, Engaged, BatchInv, PollerOwned
  <2>5. PollerOwned'
    <3>1. \A u \in PollThreads :
            /\ polls'[u].poller = polls[u].poller
            /\ polls'[u].batch = polls[u].batch
            /\ polls'[u].pc = polls[u].pc \/ (polls[u].pc = "filling" /\ polls'[u].pc = "leaving")
      BY <2>2, <2>3, <2>4
    <3> QED BY <3>1, <2>2 DEF BatchInv, PollerOwned, Engaged
  <2>6. /\ slab'[polls[t].poller] = polls[t].batch
        /\ \A q \in Pollers : q # polls[t].poller => slab'[q] = slab[q]
    BY <1>10, <1>p, <2>4 DEF Fill
  <2>7. BatchIntact'
    <3> SUFFICES ASSUME NEW u \in PollThreads, polls'[u].pc \in {"out", "leaving"},
                        polls'[u].batch # <<>>
                 PROVE  slab'[polls'[u].poller] = polls'[u].batch
      BY DEF BatchIntact
    <3>1. CASE u = t
      BY <3>1, <2>3, <2>6
    <3>2. CASE u # t
      <4>1. Engaged(u) /\ polls'[u] = polls[u]
        BY <2>2, <3>2 DEF Engaged
      <4>2. polls[u].poller \in Pollers /\ polls[u].poller # polls[t].poller
        BY <2>4, <3>2, <4>1 DEF BatchInv, PollerOwned
      <4> QED BY <2>6, <4>1, <4>2 DEF BatchInv, BatchIntact
    <3> QED BY <3>1, <3>2
  <2> QED BY <2>5, <2>7 DEF BatchInv
<1>11. ASSUME NEW t \in PollThreads, Leave(t) PROVE BatchInv'
  <2>1. polls[t] \in Polls
    BY <1>p
  <2>2. /\ \A u \in PollThreads : u # t => polls'[u] = polls[u]
        /\ polls'[t] = [polls[t] EXCEPT !.pc = "out", !.cap = 0, !.timeout = "zero"]
        /\ slab' = slab
    BY <1>11, <1>p DEF Leave
  <2>3. /\ polls'[t].pc = "out" /\ polls'[t].poller = polls[t].poller
        /\ polls'[t].batch = polls[t].batch
    BY <2>1, <2>2 DEF Polls
  <2>4. polls[t].pc = "leaving" /\ Engaged(t) /\ polls[t].poller \in Pollers
    BY <1>11 DEF Leave, Engaged, BatchInv, PollerOwned
  <2>5. \A q \in Pollers : q # polls[t].poller => inPoll'[q] = inPoll[q]
    BY <1>11, <1>i, <2>4 DEF Leave
  <2>6. ASSUME NEW u \in PollThreads, polls'[u].pc # "out" PROVE inPoll'[polls'[u].poller]
    <3>1. u # t /\ polls'[u] = polls[u] /\ Engaged(u)
      BY <2>2, <2>3, <2>6 DEF Engaged
    <3>2. /\ polls[u].poller \in Pollers /\ polls[u].poller # polls[t].poller
          /\ inPoll[polls[u].poller]
      BY <2>4, <2>6, <3>1 DEF BatchInv, PollerOwned
    <3> QED BY <2>5, <3>1, <3>2
  <2>7. PollerOwned'
    <3>1. \A u \in PollThreads : Engaged(u)' => Engaged(u) /\ polls'[u].poller = polls[u].poller
      BY <2>2, <2>3, <2>4 DEF Engaged
    <3>2. \A u \in PollThreads :
            polls'[u].pc \in {"testing", "parked", "expired"} => polls'[u].batch = <<>>
      BY <2>2, <2>3 DEF BatchInv, PollerOwned
    <3>3. \A u \in PollThreads : Engaged(u)' => polls'[u].poller \in Pollers
      BY <3>1 DEF BatchInv, PollerOwned
    <3>4. \A u, v \in PollThreads :
            u # v /\ Engaged(u)' /\ Engaged(v)' => polls'[u].poller # polls'[v].poller
      BY <3>1 DEF BatchInv, PollerOwned
    <3> QED BY <2>6, <3>2, <3>3, <3>4 DEF PollerOwned
  <2>8. BatchIntact'
    <3>1. \A u \in PollThreads :
            /\ polls'[u].poller = polls[u].poller
            /\ polls'[u].batch = polls[u].batch
            /\ polls'[u].pc = polls[u].pc \/ (polls[u].pc = "leaving" /\ polls'[u].pc = "out")
      BY <2>2, <2>3, <2>4
    <3> QED BY <3>1, <2>2 DEF BatchInv, BatchIntact
  <2> QED BY <2>7, <2>8 DEF BatchInv
<1>12. CASE UNCHANGED vars
  BY <1>1, <1>12, WaitStepsKeepHold DEF vars
<1> QED
  BY <1>3, <1>4, <1>5, <1>6, <1>7, <1>8, <1>9, <1>10, <1>11, <1>12 DEF Next, Poll

\* The in_poll flag gives a poller to one thread at a time, and so the payload
\* memory of a batch stays as it was handed over until that poller's next
\* poll is admitted (queue.rs:16).
THEOREM BatchesStayIntact == Spec => [](PollerOwned /\ BatchIntact)
<1>1. Init => BatchInv
  BY DEF Init, BatchInv, PollerOwned, BatchIntact, Engaged, Outside
<1> QED BY <1>1, BatchStep, TypeCorrect, PTL DEF Spec, BatchInv

-----------------------------------------------------------------------------
(***************************************************************************)
(* Every completion is delivered once.                                     *)
(***************************************************************************)

\* How many completions have been drained.
Drained == accepted - Len(queue)

Transit == UNION { InTransit(t) : t \in PollThreads }

\* Completions are numbered as they are pushed, so the queue holds the numbers
\* from Drained + 1 to accepted in order; what was drained was received or is
\* in the hands of exactly one thread.
DeliveryInv ==
  /\ Len(queue) <= accepted /\ accepted <= pushed /\ (~closed => accepted = pushed)
  /\ carriers \subseteq 1..pushed
  /\ gone => closed /\ queue = <<>> /\ \A t \in PollThreads : polls[t].pc = "out"
  /\ \A n \in DOMAIN queue : queue[n] = Drained + n
  /\ received \subseteq 1..Drained
  /\ Transit \subseteq 1..Drained
  /\ ~gone => 1..Drained \subseteq received \cup Transit
  /\ \A t \in PollThreads : InTransit(t) \cap received = {}
  /\ \A t, u \in PollThreads : t # u => InTransit(t) \cap InTransit(u) = {}
  /\ live = carriers \cap (Elements(queue) \cup Transit \cup received)

\* The queue holds exactly the numbers that are accepted and not drained.
LEMMA QueuedNumbers ==
  ASSUME TypeOK, DeliveryInv
  PROVE  /\ Len(queue) \in Nat /\ Drained \in Nat /\ accepted = Drained + Len(queue)
         /\ DOMAIN queue = 1..Len(queue)
         /\ Elements(queue) = (Drained + 1)..accepted
<1>1. /\ Len(queue) \in Nat /\ DOMAIN queue = 1..Len(queue)
      /\ accepted \in Nat /\ Len(queue) <= accepted
  BY LenProperties DEF TypeOK, DeliveryInv
<1>2. Drained \in Nat /\ accepted = Drained + Len(queue)
  BY <1>1 DEF Drained
<1>3. \A n \in 1..Len(queue) : queue[n] = Drained + n
  BY <1>1 DEF DeliveryInv
<1>4. Elements(queue) = (Drained + 1)..accepted
  <2>1. ASSUME NEW d \in (Drained + 1)..accepted PROVE d \in Elements(queue)
    <3>1. d - Drained \in 1..Len(queue) /\ Drained + (d - Drained) = d
      BY <1>2, <1>1
    <3> QED BY <1>1, <1>3, <3>1 DEF Elements
  <2>2. ASSUME NEW d \in Elements(queue) PROVE d \in (Drained + 1)..accepted
    <3>1. PICK n \in 1..Len(queue) : d = queue[n]
      BY <1>1 DEF Elements
    <3> QED BY <1>1, <1>2, <1>3, <3>1
  <2> QED BY <2>1, <2>2
<1> QED BY <1>1, <1>2, <1>4

\* Steps that leave every thread its drained batch leave the completions in
\* transit as they are.
LEMMA TransitSame ==
  ASSUME \A u \in PollThreads : InTransit(u)' = InTransit(u)
  PROVE  Transit' = Transit
BY DEF Transit

\* Every step keeps the account of the completions.
LEMMA DeliveryStep == TypeOK /\ TypeOK' /\ DeliveryInv /\ [Next]_vars => DeliveryInv'
<1> SUFFICES ASSUME TypeOK, TypeOK', DeliveryInv, [Next]_vars PROVE DeliveryInv'
  OBVIOUS
<1> USE DEF queueVars, handleVars
<1>p. polls \in [PollThreads -> Polls] /\ polls' \in [PollThreads -> Polls]
  BY DEF TypeOK
<1>t. /\ pushed \in Nat /\ accepted \in Nat /\ accepted <= pushed
      /\ queue \in Seq(Nat \ {0})
      /\ carriers \subseteq 1..pushed
  BY DEF TypeOK, DeliveryInv
<1>q. /\ Len(queue) \in Nat /\ Drained \in Nat /\ accepted = Drained + Len(queue)
      /\ DOMAIN queue = 1..Len(queue)
      /\ Elements(queue) = (Drained + 1)..accepted
  BY QueuedNumbers
<1>k. ASSUME KeepHold PROVE \A u \in PollThreads : InTransit(u)' = InTransit(u)
  BY <1>k DEF KeepHold, InTransit, Waiting
\* A step that moves no completion.
<1>1. ASSUME ~gone, UNCHANGED gone, closed => closed',
             \A u \in PollThreads : InTransit(u)' = InTransit(u),
             UNCHANGED <<queue, pushed, accepted, carriers, live, received>>
      PROVE  DeliveryInv'
  <2>1. Transit' = Transit /\ Drained' = Drained /\ Elements(queue)' = Elements(queue)
    BY <1>1, TransitSame DEF Drained, Elements
  <2> QED BY <1>1, <2>1 DEF DeliveryInv
\* A drain moves the oldest completions of the queue to the thread.
<1>2. ASSUME NEW t \in PollThreads, polls[t].pc \in Waiting, Drain(t),
             UNCHANGED <<closed, pushed, accepted, carriers, live, received, gone>>
      PROVE  DeliveryInv'
  <2>1. PICK take \in 0..Len(queue) :
          /\ queue' \in Seq(Nat \ {0})
          /\ Len(queue') = Len(queue) - take
          /\ \A n \in 1..(Len(queue) - take) : queue'[n] = queue[take + n]
          /\ \A u \in PollThreads : u # t => polls'[u] = polls[u]
          /\ polls'[t].pc = IF take = 0 THEN "leaving" ELSE "filling"
          /\ Len(polls'[t].batch) = take
          /\ polls'[t].batch \in Seq(Nat \ {0})
          /\ \A n \in 1..take : polls'[t].batch[n] = queue[n]
    BY <1>2, DrainEffect
  <2>2. ~gone
    BY <1>2 DEF DeliveryInv, Waiting
  <2>3. take \in Nat /\ Drained' = Drained + take /\ Drained' \in Nat
    BY <1>2, <1>q, <1>t, <2>1 DEF Drained
  <2>4. InTransit(t) = {} /\ \A u \in PollThreads : u # t => InTransit(u)' = InTransit(u)
    BY <1>2, <2>1 DEF InTransit, Waiting
  <2>5. InTransit(t)' = (Drained + 1)..(Drained + take)
    <3>1. DOMAIN (polls'[t].batch) = 1..take
      BY <2>1, LenProperties
    <3>2. \A n \in 1..take : polls'[t].batch[n] = Drained + n
      <4>1. \A n \in 1..take : n \in DOMAIN queue
        BY <1>q
      <4> QED BY <2>1, <4>1 DEF DeliveryInv
    <3>3. InTransit(t)' = { polls'[t].batch[n] : n \in 1..take }
      BY <2>1, <2>3, <3>1 DEF InTransit, Elements
    <3>4. ASSUME NEW d \in (Drained + 1)..(Drained + take) PROVE d \in InTransit(t)'
      <4>1. d - Drained \in 1..take /\ Drained + (d - Drained) = d
        BY <2>3, <1>q
      <4> QED BY <3>2, <3>3, <4>1
    <3>5. ASSUME NEW d \in InTransit(t)' PROVE d \in (Drained + 1)..(Drained + take)
      <4>1. PICK n \in 1..take : d = polls'[t].batch[n]
        BY <3>3
      <4>2. d = Drained + n
        BY <3>2, <4>1
      <4> QED BY <4>2, <2>3, <1>q
    <3> QED BY <3>4, <3>5
  <2>6. Transit' = Transit \cup (Drained + 1)..(Drained + take)
    BY <2>4, <2>5 DEF Transit
  <2>7. \A n \in DOMAIN queue' : queue'[n] = Drained' + n
    <3> SUFFICES ASSUME NEW n \in DOMAIN queue' PROVE queue'[n] = Drained' + n
      OBVIOUS
    <3>1. n \in 1..(Len(queue) - take)
      BY <2>1, LenProperties
    <3>2. take + n \in DOMAIN queue
      BY <1>q, <3>1
    <3>3. queue'[n] = queue[take + n]
      BY <2>1, <3>1
    <3>4. queue[take + n] = Drained + (take + n)
      BY <3>2 DEF DeliveryInv
    <3> QED BY <1>q, <2>3, <3>1, <3>3, <3>4
  <2>8. Transit' \subseteq 1..Drained' /\ received' \subseteq 1..Drained'
    <3>1. Transit \subseteq 1..Drained /\ received \subseteq 1..Drained
      BY DEF DeliveryInv
    <3> QED BY <1>2, <1>q, <2>3, <2>6, <3>1
  <2>9. 1..Drained' \subseteq received' \cup Transit'
    <3>1. 1..Drained \subseteq received \cup Transit
      BY <2>2 DEF DeliveryInv
    <3> QED BY <1>2, <1>q, <2>3, <2>6, <3>1
  <2>10. \A u \in PollThreads : InTransit(u) \subseteq 1..Drained
    BY DEF DeliveryInv, Transit
  <2>11. \A u \in PollThreads : InTransit(u)' \cap received' = {}
    <3>1. received \cap (Drained + 1)..(Drained + take) = {}
      BY <1>q, <2>3 DEF DeliveryInv
    <3> QED BY <1>2, <2>4, <2>5, <3>1 DEF DeliveryInv
  <2>12. \A u, v \in PollThreads : u # v => InTransit(u)' \cap InTransit(v)' = {}
    <3>1. \A u \in PollThreads : InTransit(u) \cap (Drained + 1)..(Drained + take) = {}
      BY <1>q, <2>3, <2>10
    <3>2. \A u, v \in PollThreads : u # v => InTransit(u) \cap InTransit(v) = {}
      BY DEF DeliveryInv
    <3>3. ASSUME NEW u \in PollThreads, NEW v \in PollThreads, u # v
          PROVE  InTransit(u)' \cap InTransit(v)' = {}
      <4>1. CASE u = t
        BY <2>4, <2>5, <3>1, <3>3, <4>1
      <4>2. CASE v = t
        BY <2>4, <2>5, <3>1, <3>3, <4>2
      <4>3. CASE u # t /\ v # t
        BY <2>4, <3>2, <3>3, <4>3
      <4> QED BY <4>1, <4>2, <4>3
    <3> QED BY <3>3
  <2>13. Elements(queue)' = (Drained' + 1)..accepted
    <3>1. DOMAIN queue' = 1..Len(queue') /\ accepted = Drained' + Len(queue') /\ Len(queue') \in Nat
      BY <1>q, <2>1, <2>3, LenProperties
    <3>2. ASSUME NEW d \in (Drained' + 1)..accepted PROVE d \in Elements(queue)'
      <4>1. d - Drained' \in 1..Len(queue') /\ Drained' + (d - Drained') = d
        BY <2>3, <3>1, <1>t
      <4> QED BY <2>7, <3>1, <4>1 DEF Elements
    <3>3. ASSUME NEW d \in Elements(queue)' PROVE d \in (Drained' + 1)..accepted
      <4>1. PICK n \in 1..Len(queue') : d = queue'[n]
        BY <3>1, <3>3 DEF Elements
      <4>2. d = Drained' + n
        BY <2>7, <3>1, <4>1
      <4> QED BY <4>2, <2>3, <3>1
    <3> QED BY <3>2, <3>3
  <2>14. Elements(queue)' \cup Transit' = Elements(queue) \cup Transit
    <3>1. (Drained + 1)..accepted = (Drained + 1)..(Drained + take) \cup (Drained' + 1)..accepted
      <4>1. Drained + take <= accepted
        BY <1>q, <2>3
      <4> QED BY <1>q, <1>t, <2>3, <4>1
    <3> QED BY <1>q, <2>6, <2>13, <3>1
  <2>15. Len(queue') <= accepted
    BY <1>q, <1>t, <2>1
  <2> QED BY <1>2, <2>2, <2>7, <2>8, <2>9, <2>11, <2>12, <2>14, <2>15 DEF DeliveryInv
<1>3. ASSUME NEW carries \in BOOLEAN, Push(carries) PROVE DeliveryInv'
  <2> DEFINE id == pushed + 1
             new == IF carries THEN {id} ELSE {}
  <2>1. /\ ~gone /\ gone' = gone /\ pushed' = id /\ carriers' = carriers \cup new
        /\ received' = received /\ closed' = closed
    BY <1>3 DEF Push
  <2>2. new \subseteq {id} /\ id \notin carriers /\ id \in Nat /\ id \notin 1..accepted
    BY <1>t
  <2>3. carriers' \subseteq 1..pushed'
    <3> HIDE DEF new
    <3> QED BY <1>t, <2>1, <2>2
  <2>4. KeepHold
    BY <1>3, WaitStepsKeepHold DEF Push
  <2>5. /\ \A u \in PollThreads : InTransit(u)' = InTransit(u)
        /\ Transit' = Transit
    BY <2>4, <1>k, TransitSame
  <2>6. Elements(queue) \cup Transit \cup received \subseteq 1..accepted
    <3>1. Transit \subseteq 1..Drained /\ received \subseteq 1..Drained
      BY DEF DeliveryInv
    <3>2. \A d \in 1..Drained : d \in 1..accepted
      BY <1>q, <1>t
    <3>3. \A d \in (Drained + 1)..accepted : d \in 1..accepted
      BY <1>q, <1>t
    <3> QED BY <1>q, <3>1, <3>2, <3>3
  <2>7. CASE closed
    <3>1. /\ queue' = queue /\ accepted' = accepted
          /\ live' = (live \cup new) \ new
      BY <1>3, <2>7 DEF Push, DropPending
    <3>2. Drained' = Drained /\ Elements(queue)' = Elements(queue)
      BY <3>1 DEF Drained, Elements
    <3>3. live' = carriers' \cap (Elements(queue)' \cup Transit' \cup received')
      <4>1. live = carriers \cap (Elements(queue) \cup Transit \cup received)
        BY DEF DeliveryInv
      <4> HIDE DEF new, id
      <4> QED BY <2>1, <2>2, <2>5, <2>6, <3>1, <3>2, <4>1
    <3>4. accepted' <= pushed' /\ Len(queue') <= accepted'
      BY <1>t, <2>1, <3>1 DEF DeliveryInv
    <3> HIDE DEF new, id
    <3> QED BY <2>1, <2>3, <2>5, <2>7, <3>1, <3>2, <3>3, <3>4 DEF DeliveryInv
  <2>8. CASE ~closed
    <3>1. /\ queue' = Append(queue, id) /\ accepted' = accepted + 1
          /\ live' = live \cup new
      BY <1>3, <2>8 DEF Push
    <3>2. /\ accepted = pushed /\ id = accepted + 1
      BY <2>8 DEF DeliveryInv
    <3>3. /\ Len(queue') = Len(queue) + 1
          /\ DOMAIN queue' = 1..(Len(queue) + 1)
          /\ \A n \in 1..Len(queue) : queue'[n] = queue[n]
          /\ queue'[Len(queue) + 1] = id
      <4>1. id \in Nat \ {0}
        BY <1>t
      <4> HIDE DEF id
      <4> QED BY <1>t, <1>q, <3>1, <4>1
    <3>4. Drained' = Drained
      BY <1>q, <1>t, <3>1, <3>3 DEF Drained
    <3>5. Elements(queue)' = Elements(queue) \cup {id}
      <4> HIDE DEF id
      <4> QED BY <1>q, <3>3 DEF Elements
    <3>6. \A n \in DOMAIN queue' : queue'[n] = Drained' + n
      <4> SUFFICES ASSUME NEW n \in DOMAIN queue' PROVE queue'[n] = Drained' + n
        OBVIOUS
      <4>1. CASE n \in 1..Len(queue)
        BY <1>q, <3>3, <3>4, <4>1 DEF DeliveryInv
      <4>2. CASE n = Len(queue) + 1
        <5> QED BY <1>q, <3>2, <3>3, <3>4, <4>2
      <4> QED BY <1>q, <3>3, <4>1, <4>2
    <3>7. live' = carriers' \cap (Elements(queue)' \cup Transit' \cup received')
      <4>1. live = carriers \cap (Elements(queue) \cup Transit \cup received)
        BY DEF DeliveryInv
      <4> HIDE DEF new, id
      <4> QED BY <2>1, <2>2, <2>5, <2>6, <3>1, <3>5, <4>1
    <3>8. accepted' <= pushed' /\ Len(queue') <= accepted' /\ accepted' = pushed'
      BY <1>t, <1>q, <2>1, <3>1, <3>2, <3>3
    <3> HIDE DEF new, id
    <3> QED BY <2>1, <2>3, <2>5, <2>8, <3>4, <3>6, <3>7, <3>8 DEF DeliveryInv
  <2> QED BY <2>7, <2>8
<1>4. CASE Close
  <2>1. KeepHold
    BY <1>4, WaitStepsKeepHold DEF Close
  <2> QED BY <1>1, <1>4, <1>k, <2>1 DEF Close
<1>5. CASE Abandon
  <2>1. /\ queue' = <<>> /\ polls' = polls /\ closed /\ closed' = closed /\ gone'
        /\ \A u \in PollThreads : polls[u].pc = "out"
        /\ accepted' = accepted /\ pushed' = pushed /\ carriers' = carriers /\ received' = received
        /\ live' = live \ (Elements(queue) \cap carriers)
    BY <1>5 DEF Abandon, DropPending
  <2>2. \A u \in PollThreads : InTransit(u) = {} /\ InTransit(u)' = {}
    BY <2>1 DEF InTransit
  <2>3. Transit = {} /\ Transit' = {} /\ Elements(queue)' = {}
    BY <2>1, <2>2 DEF Transit, Elements
  <2>4. Drained' = accepted /\ Len(queue') = 0 /\ DOMAIN queue' = {}
    BY <2>1, <1>t DEF Drained
  <2>5. received' \subseteq 1..Drained' /\ received \cap Elements(queue) = {}
    <3>1. received \subseteq 1..Drained
      BY DEF DeliveryInv
    <3> QED BY <1>q, <2>1, <2>4, <3>1
  <2>6. live' = carriers' \cap (Elements(queue)' \cup Transit' \cup received')
    <3>1. live = carriers \cap (Elements(queue) \cup Transit \cup received)
      BY DEF DeliveryInv
    <3> QED BY <2>1, <2>3, <2>5, <3>1
  <2>7. Len(queue') <= accepted' /\ accepted' <= pushed'
    BY <1>t, <2>1, <2>4
  <2> QED BY <1>t, <2>1, <2>2, <2>3, <2>4, <2>5, <2>6, <2>7 DEF DeliveryInv
<1>6. ASSUME NEW p \in Pollers, Wake(p) PROVE DeliveryInv'
  <2>1. KeepHold
    BY <1>6, WaitStepsKeepHold DEF Wake
  <2> QED BY <1>1, <1>6, <1>k, <2>1 DEF Wake
<1>7. ASSUME NEW t \in PollThreads, NEW p \in Pollers, NEW cap \in Caps, NEW timeout \in Timeouts,
             PollBegin(t, p, cap, timeout)
      PROVE  DeliveryInv'
  <2>1. polls[t] \in Polls /\ polls[t].pc = "out"
    BY <1>7, <1>p DEF PollBegin
  <2>2. ASSUME NEW u \in PollThreads
        PROVE  polls'[u] = polls[u] \/ (polls[u].pc # "filling" /\ polls'[u].pc # "filling")
    <3>1. CASE inPoll[p]
      BY <1>7, <1>p, <2>1, <3>1 DEF PollBegin, Polls
    <3>2. CASE ~inPoll[p]
      BY <1>7, <2>1, <3>2 DEF PollBegin, Outside
    <3> QED BY <3>1, <3>2
  <2>3. \A u \in PollThreads : InTransit(u)' = InTransit(u)
    BY <2>2 DEF InTransit
  <2> QED BY <1>1, <1>7, <2>3 DEF PollBegin
<1>8. ASSUME NEW t \in PollThreads, Test(t) PROVE DeliveryInv'
  <2>1. CASE Drain(t)
    BY <1>2, <1>8, <2>1 DEF Test, Waiting
  <2>2. CASE polls' = [polls EXCEPT ![t].pc = "parked"] /\ UNCHANGED <<queue, wakes>>
    <3>1. KeepHold
      BY <1>8, <2>2, WaitStepsKeepHold DEF Test, Waiting
    <3>2. ~gone
      BY <1>8 DEF Test, DeliveryInv
    <3> QED BY <1>1, <1>8, <1>k, <2>2, <3>1, <3>2 DEF Test
  <2> QED BY <1>8, <2>1, <2>2 DEF Test
<1>9. ASSUME NEW t \in PollThreads, Timeout(t) \/ SpuriousWakeup(t) PROVE DeliveryInv'
  <2>1. KeepHold
    BY <1>9, WaitStepsKeepHold DEF Timeout, SpuriousWakeup, Waiting
  <2>2. ~gone
    BY <1>9 DEF Timeout, SpuriousWakeup, DeliveryInv
  <2> QED BY <1>1, <1>9, <1>k, <2>1, <2>2 DEF Timeout, SpuriousWakeup
<1>10. ASSUME NEW t \in PollThreads, DrainExpired(t) PROVE DeliveryInv'
  BY <1>2, <1>10 DEF DrainExpired, Waiting
<1>11. ASSUME NEW t \in PollThreads, Fill(t) PROVE DeliveryInv'
  <2> DEFINE ids == Elements(polls[t].batch)
  <2>1. polls[t] \in Polls
    BY <1>p
  <2>2. /\ \A u \in PollThreads : u # t => polls'[u] = polls[u]
        /\ polls'[t] = [polls[t] EXCEPT !.pc = "leaving"]
        /\ polls[t].pc = "filling"
        /\ received' = received \cup ids /\ live' = live
        /\ UNCHANGED <<queue, closed, pushed, accepted, carriers, gone>>
    BY <1>11, <1>p DEF Fill, DropPending
  <2>3. polls'[t].pc = "leaving"
    BY <2>1, <2>2 DEF Polls
  <2>4. /\ InTransit(t) = ids /\ InTransit(t)' = {}
        /\ \A u \in PollThreads : u # t => InTransit(u)' = InTransit(u)
    BY <2>2, <2>3 DEF InTransit
  <2> HIDE DEF ids
  <2>5. Transit = Transit' \cup ids
    BY <2>4 DEF Transit
  <2>6. Drained' = Drained /\ Elements(queue)' = Elements(queue)
    BY <2>2 DEF Drained, Elements
  <2>7. ~gone
    BY <2>2 DEF DeliveryInv
  <2>8. \A u \in PollThreads : InTransit(u)' \cap received' = {}
    BY <2>2, <2>4 DEF DeliveryInv
  <2>9. \A u, v \in PollThreads : u # v => InTransit(u)' \cap InTransit(v)' = {}
    BY <2>4 DEF DeliveryInv
  <2>10. received' \cup Transit' = received \cup Transit
    BY <2>2, <2>5
  <2>11. /\ received' \subseteq 1..Drained' /\ Transit' \subseteq 1..Drained'
         /\ 1..Drained' \subseteq received' \cup Transit'
    BY <2>2, <2>5, <2>6, <2>7, <2>10 DEF DeliveryInv
  <2>12. live' = carriers' \cap (Elements(queue)' \cup Transit' \cup received')
    BY <2>2, <2>5, <2>6 DEF DeliveryInv
  <2> QED BY <2>2, <2>6, <2>7, <2>8, <2>9, <2>11, <2>12 DEF DeliveryInv
<1>12. ASSUME NEW t \in PollThreads, Leave(t) PROVE DeliveryInv'
  <2>1. polls[t] \in Polls
    BY <1>p
  <2>2. /\ \A u \in PollThreads : u # t => polls'[u] = polls[u]
        /\ polls[t].pc # "filling" /\ polls'[t].pc # "filling"
        /\ polls[t].pc # "out"
    BY <1>12, <1>p, <2>1 DEF Leave, Polls
  <2>3. \A u \in PollThreads : InTransit(u)' = InTransit(u)
    BY <2>2 DEF InTransit
  <2>4. ~gone
    BY <2>2 DEF DeliveryInv
  <2> QED BY <1>1, <1>12, <2>3, <2>4 DEF Leave
<1>13. CASE UNCHANGED vars
  <2>1. /\ \A u \in PollThreads : InTransit(u)' = InTransit(u)
        /\ Transit' = Transit /\ Drained' = Drained /\ Elements(queue)' = Elements(queue)
    BY <1>13, TransitSame DEF vars, InTransit, Drained, Elements
  <2> QED BY <1>13, <2>1 DEF vars, DeliveryInv
<1> QED
  BY <1>3, <1>4, <1>5, <1>6, <1>7, <1>8, <1>9, <1>10, <1>11, <1>12, <1>13 DEF Next, Poll

\* No accepted completion is lost, duplicated or overtaken, and every handle
\* that a completion carries has one owner (queue.rs:82-96, 125-132).
THEOREM EveryCompletionDeliveredOnce == Spec => []DeliveredOnce
<1>1. Init => DeliveryInv
  <2> SUFFICES ASSUME Init PROVE DeliveryInv
    OBVIOUS
  <2>1. \A t \in PollThreads : InTransit(t) = {} /\ polls[t].pc = "out"
    BY DEF Init, InTransit, Outside
  <2>2. /\ Transit = {} /\ Elements(queue) = {}
        /\ Len(queue) = 0 /\ DOMAIN queue = {} /\ Drained = 0
    <3>1. Transit = {}
      BY <2>1 DEF Transit
    <3>2. queue = <<>> /\ accepted = 0
      BY DEF Init
    <3>3. Elements(queue) = {} /\ DOMAIN queue = {}
      BY <3>2 DEF Elements
    <3>4. Len(queue) = 0
      BY <3>2
    <3>5. accepted = 0
      BY <3>2
    <3>6. Drained = 0
      BY <3>4, <3>5 DEF Drained
    <3> QED BY <3>1, <3>3, <3>4, <3>6
  <2> QED BY <2>1, <2>2 DEF Init, DeliveryInv
<1>2. TypeOK /\ DeliveryInv => DeliveredOnce
  <2> SUFFICES ASSUME TypeOK, DeliveryInv PROVE DeliveredOnce
    OBVIOUS
  <2>1. /\ Len(queue) \in Nat /\ Drained \in Nat /\ accepted = Drained + Len(queue)
        /\ DOMAIN queue = 1..Len(queue)
        /\ Elements(queue) = (Drained + 1)..accepted
    BY QueuedNumbers
  <2>2. Undelivered = Elements(queue) \cup Transit
    BY DEF Undelivered, Transit
  <2>3. /\ Transit \subseteq 1..Drained /\ received \subseteq 1..Drained
        /\ ~gone => 1..Drained \subseteq received \cup Transit
        /\ Transit \cap received = {}
    BY DEF DeliveryInv, Transit
  <2>q. \A n \in 1..Len(queue) : queue[n] = Drained + n
    BY <2>1 DEF DeliveryInv
  <2>a. /\ 1..Drained \cup (Drained + 1)..accepted = 1..accepted
        /\ 1..Drained \cap (Drained + 1)..accepted = {}
    BY <2>1
  <2>4. ~gone => Undelivered \cup received = 1..accepted
    <3>1. ~gone => received \cup Transit = 1..Drained
      BY <2>3
    <3> QED BY <2>1, <2>2, <2>a, <3>1
  <2>5. Undelivered \cap received = {}
    <3>1. Elements(queue) \cap received = {}
      BY <2>1, <2>3, <2>a
    <3> QED BY <2>2, <2>3, <3>1
  <2>6. \A m, n \in DOMAIN queue : m < n => queue[m] < queue[n]
    BY <2>1, <2>q
  <2>7. \A n \in DOMAIN queue : \A d \in (1..accepted) \ Elements(queue) : d < queue[n]
    BY <2>1, <2>q
  <2>8. live = carriers \cap (Undelivered \cup received)
    BY <2>2 DEF DeliveryInv
  <2>9. \A t, u \in PollThreads : t # u => InTransit(t) \cap InTransit(u) = {}
    BY DEF DeliveryInv
  <2> QED BY <2>4, <2>5, <2>6, <2>7, <2>8, <2>9 DEF DeliveredOnce
<1> QED BY <1>1, <1>2, DeliveryStep, TypeCorrect, PTL DEF Spec
=============================================================================
