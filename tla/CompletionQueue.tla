--------------------------- MODULE CompletionQueue ---------------------------
(***************************************************************************)
(* The completion queue of one runtime (kt-bridge/src/queue.rs): Tokio      *)
(* tasks push completions, JVM threads block in kt_poller_poll and drain    *)
(* them in batches.                                                        *)
(*                                                                         *)
(* Each step below is one critical section of Shared.state, one use of an   *)
(* atomic, or one stretch of thread-local code.  The condition variable is  *)
(* explicit: a thread inside Condvar::wait is "parked" until a notify_all,   *)
(* its timeout or a spurious wakeup makes it compete for the lock again.    *)
(*                                                                         *)
(* Completions are numbered in the order they are pushed.  Of a completion  *)
(* only one thing matters besides its number: whether it is the successful  *)
(* creation of a client or server, in which case it owns the new handle.    *)
(***************************************************************************)
EXTENDS Naturals, Sequences, FiniteSets

CONSTANTS
  PollThreads,   \* JVM threads that call kt_poller_poll
  Pollers,       \* poller handles of this runtime
  Caps,          \* the batch capacities passed to poll
  Timeouts,      \* the timeout_millis passed: "zero", "finite" (> 0), "infinite" (< 0)
  MaxPushes,     \* bound: completions pushed in a behaviour
  MaxWakes       \* bound: wakes outstanding at a time

ASSUME CapsAssumption == Caps \subseteq Nat \ {0}   \* cap = 0 returns Ok(0) at once
ASSUME TimeoutsAssumption == Timeouts \subseteq {"zero", "finite", "infinite"}
ASSUME BoundsAssumption == MaxPushes \in Nat /\ MaxWakes \in Nat

VARIABLES
  queue,      \* State.queue
  wakes,      \* State.wakes: delivered but not consumed
  closed,     \* State.closed
  inPoll,     \* PollerEntry.in_poll, per poller
  slab,       \* PollerEntry.buf: the batch whose payloads it holds, per poller
  polls,      \* per thread, its current poll, or the batch of its last one
  pushed,     \* how many completions have been pushed, the dropped ones too
  accepted,   \* how many of them entered the queue
  carriers,   \* the completions that own a handle when pushed
  live,       \* the completions whose handle is in the handle table
  received,   \* the completions written to a JVM batch
  gone        \* the last reference to the queue has been dropped

queueVars == <<queue, wakes, closed>>
handleVars == <<carriers, live, received>>
vars == <<queue, wakes, closed, inPoll, slab, polls, pushed, accepted,
          carriers, live, received, gone>>

\* A thread is outside of poll ("out"), about to test the predicate with the
\* lock ("testing"), inside Condvar::wait ("parked"), past an expired wait
\* ("expired"), holding a drained batch ("filling"), or returning ("leaving").
Steps == {"out", "testing", "parked", "expired", "filling", "leaving"}
Codes == {"none", "ok", "shutdown", "busy"}
NoPoller == "no poller"
Polls == [pc : Steps, poller : Pollers \cup {NoPoller}, cap : Caps \cup {0},
          timeout : Timeouts \cup {"zero"}, batch : Seq(Nat \ {0}), rc : Codes]
Outside == [pc |-> "out", poller |-> NoPoller, cap |-> 0, timeout |-> "zero",
            batch |-> <<>>, rc |-> "none"]

Elements(s) == { s[n] : n \in DOMAIN s }

-----------------------------------------------------------------------------
(***************************************************************************)
(* Pieces of the operations.                                               *)
(***************************************************************************)

\* Condvar::notify_all: every parked thread competes for the lock again.
NotifyAll(ps) ==
  [t \in PollThreads |-> IF ps[t].pc = "parked" THEN [ps[t] EXCEPT !.pc = "testing"] ELSE ps[t]]

\* Drop for Pending: the handles of completions dropped while they still own
\* one leave the handle table.
DropPending(handles, dropped) == handles \ dropped

\* The end of the wait loop: take up to cap completions while still holding
\* the lock.  An empty batch returns at once: Shutdown if closed, else Ok(0).
Drain(t) ==
  LET cap == polls[t].cap
      take == IF cap < Len(queue) THEN cap ELSE Len(queue)
  IN /\ queue' = SubSeq(queue, take + 1, Len(queue))
     /\ polls' = [polls EXCEPT ![t] =
           [@ EXCEPT !.batch = SubSeq(queue, 1, take),
                     !.pc = IF take = 0 THEN "leaving" ELSE "filling",
                     !.rc = IF take = 0 /\ closed THEN "shutdown" ELSE "ok"]]

\* The wait loop consumes one outstanding wake.
ConsumeWake == wakes > 0 /\ wakes' = wakes - 1

-----------------------------------------------------------------------------
(***************************************************************************)
(* The Rust side.                                                          *)
(***************************************************************************)

\* Faulty variant: nobody is notified of a push.
PushSilently(carries) ==
  LET id == pushed + 1
      new == IF carries THEN {id} ELSE {}
  IN /\ ~gone
     /\ pushed < MaxPushes
     /\ pushed' = id
     /\ carriers' = carriers \cup new
     /\ queue' = IF closed THEN queue ELSE Append(queue, id)
     /\ accepted' = IF closed THEN accepted ELSE accepted + 1
     /\ live' = IF closed THEN live ELSE live \cup new
     /\ UNCHANGED <<polls, wakes, closed, inPoll, slab, received, gone>>

\* Sender::push of a completion that may own a handle.  A closed queue drops
\* it, and with it the handle.
Push(carries) ==
  LET id == pushed + 1
      new == IF carries THEN {id} ELSE {}
  IN /\ ~gone
     /\ pushed < MaxPushes
     /\ pushed' = id
     /\ carriers' = carriers \cup new
     /\ \/ /\ closed
           /\ live' = DropPending(live \cup new, new)
           /\ UNCHANGED <<queue, polls, accepted>>
        \/ /\ ~closed
           /\ queue' = Append(queue, id)
           /\ accepted' = accepted + 1
           /\ live' = live \cup new
           /\ polls' = NotifyAll(polls)
     /\ UNCHANGED <<wakes, closed, inPoll, slab, received, gone>>

\* Queue::close.
Close ==
  /\ ~gone
  /\ ~closed
  /\ closed' = TRUE
  /\ polls' = NotifyAll(polls)
  /\ UNCHANGED <<queue, wakes, inPoll, slab, pushed, accepted, handleVars, gone>>

\* The runtime, its senders and its pollers are gone: the queue is dropped
\* with whatever nobody drained.
Abandon ==
  /\ ~gone
  /\ closed
  /\ \A t \in PollThreads : polls[t].pc = "out"
  /\ gone' = TRUE
  /\ queue' = <<>>
  /\ live' = DropPending(live, Elements(queue) \cap carriers)
  /\ UNCHANGED <<wakes, closed, inPoll, slab, polls, pushed, accepted, carriers, received>>

-----------------------------------------------------------------------------
(***************************************************************************)
(* kt_poller_poll and kt_poller_wake.                                      *)
(***************************************************************************)

\* Faulty variant: in_poll is set but not tested.
PollBeginUnguarded(t, p, cap, timeout) ==
  /\ ~gone
  /\ polls[t].pc = "out"
  /\ inPoll' = [inPoll EXCEPT ![p] = TRUE]
  /\ polls' = [u \in PollThreads |->
       CASE u = t -> [pc |-> "testing", poller |-> p, cap |-> cap, timeout |-> timeout,
                      batch |-> <<>>, rc |-> "none"]
         [] u # t /\ polls[u].pc = "out" /\ polls[u].poller = p -> Outside
         [] OTHER -> polls[u]]
  /\ UNCHANGED <<queueVars, slab, pushed, accepted, handleVars, gone>>

\* Entering poll: in_poll.swap(true).  A poller that is being polled by
\* another thread rejects the call.  Otherwise this is the poller's next
\* poll, which ends the life of the batch it returned before.
PollBegin(t, p, cap, timeout) ==
  /\ ~gone
  /\ polls[t].pc = "out"
  /\ \/ /\ inPoll[p]
        /\ polls' = [polls EXCEPT ![t].rc = "busy"]
        /\ UNCHANGED inPoll
     \/ /\ ~inPoll[p]
        /\ inPoll' = [inPoll EXCEPT ![p] = TRUE]
        /\ polls' = [u \in PollThreads |->
             CASE u = t -> [pc |-> "testing", poller |-> p, cap |-> cap, timeout |-> timeout,
                            batch |-> <<>>, rc |-> "none"]
               [] u # t /\ polls[u].pc = "out" /\ polls[u].poller = p -> Outside
               [] OTHER -> polls[u]]
  /\ UNCHANGED <<queueVars, slab, pushed, accepted, handleVars, gone>>

\* One turn of the wait loop, with the lock held: break with what there is,
\* consume a wake, give up on a zero timeout, or park.
Test(t) ==
  /\ polls[t].pc = "testing"
  /\ \/ /\ queue # <<>> \/ closed
        /\ Drain(t)
        /\ UNCHANGED wakes
     \/ /\ queue = <<>> /\ ~closed
        /\ ConsumeWake
        /\ Drain(t)
     \/ /\ queue = <<>> /\ ~closed /\ wakes = 0
        /\ polls[t].timeout = "zero"
        /\ Drain(t)
        /\ UNCHANGED wakes
     \/ /\ queue = <<>> /\ ~closed /\ wakes = 0
        /\ polls[t].timeout # "zero"
        /\ polls' = [polls EXCEPT ![t].pc = "parked"]
        /\ UNCHANGED <<queue, wakes>>
  /\ UNCHANGED <<closed, inPoll, slab, pushed, accepted, handleVars, gone>>

\* The deadline of wait_until passes while the thread is parked.
Timeout(t) ==
  /\ polls[t].pc = "parked"
  /\ polls[t].timeout = "finite"
  /\ polls' = [polls EXCEPT ![t].pc = "expired"]
  /\ UNCHANGED <<queueVars, inPoll, slab, pushed, accepted, handleVars, gone>>

\* A Condvar may return from wait without a notification.
SpuriousWakeup(t) ==
  /\ polls[t].pc = "parked"
  /\ polls' = [polls EXCEPT ![t].pc = "testing"]
  /\ UNCHANGED <<queueVars, inPoll, slab, pushed, accepted, handleVars, gone>>

\* timed_out() breaks out of the loop without testing the predicate again;
\* what arrived before the lock was regained is drained all the same.
DrainExpired(t) ==
  /\ polls[t].pc = "expired"
  /\ Drain(t)
  /\ UNCHANGED <<wakes, closed, inPoll, slab, pushed, accepted, handleVars, gone>>

\* Faulty variant: aux0 is not cleared, so dropping the drained completions
\* releases the handles just handed over.
FillKeepsAux(t) ==
  LET ids == Elements(polls[t].batch)
  IN /\ polls[t].pc = "filling"
     /\ slab' = [slab EXCEPT ![polls[t].poller] = polls[t].batch]
     /\ received' = received \cup ids
     /\ live' = DropPending(live, ids \cap carriers)
     /\ polls' = [polls EXCEPT ![t].pc = "leaving"]
     /\ UNCHANGED <<queueVars, inPoll, pushed, accepted, carriers, gone>>

\* Writing the batch: reset the slab, copy the payloads, write the records.
\* aux0 = 0 before the drained completions are dropped, so the handles stay
\* in the table and are the JVM's from here on.
Fill(t) ==
  LET ids == Elements(polls[t].batch)
  IN /\ polls[t].pc = "filling"
     /\ slab' = [slab EXCEPT ![polls[t].poller] = polls[t].batch]
     /\ received' = received \cup ids
     /\ live' = DropPending(live, {})
     /\ polls' = [polls EXCEPT ![t].pc = "leaving"]
     /\ UNCHANGED <<queueVars, inPoll, pushed, accepted, carriers, gone>>

\* Drop for InPoll, and the return to the JVM, which reads the batch.
Leave(t) ==
  /\ polls[t].pc = "leaving"
  /\ inPoll' = [inPoll EXCEPT ![polls[t].poller] = FALSE]
  /\ polls' = [polls EXCEPT ![t] = [@ EXCEPT !.pc = "out", !.cap = 0, !.timeout = "zero"]]
  /\ UNCHANGED <<queueVars, slab, pushed, accepted, handleVars, gone>>

\* Faulty variant: the wake is counted but nobody is notified.
WakeSilently(p) ==
  /\ ~gone
  /\ p \in Pollers
  /\ wakes < MaxWakes
  /\ wakes' = wakes + 1
  /\ UNCHANGED <<polls, queue, closed, inPoll, slab, pushed, accepted, handleVars, gone>>

\* PollerEntry::wake on poller p.  The counter and the signal belong to the
\* queue, so p leaves no trace.
Wake(p) ==
  /\ ~gone
  /\ p \in Pollers
  /\ wakes < MaxWakes
  /\ wakes' = wakes + 1
  /\ polls' = NotifyAll(polls)
  /\ UNCHANGED <<queue, closed, inPoll, slab, pushed, accepted, handleVars, gone>>

-----------------------------------------------------------------------------
Init ==
  /\ queue = <<>>
  /\ wakes = 0
  /\ closed = FALSE
  /\ inPoll = [p \in Pollers |-> FALSE]
  /\ slab = [p \in Pollers |-> <<>>]
  /\ polls = [t \in PollThreads |-> Outside]
  /\ pushed = 0
  /\ accepted = 0
  /\ carriers = {}
  /\ live = {}
  /\ received = {}
  /\ gone = FALSE

Poll(t) == Test(t) \/ DrainExpired(t) \/ Fill(t) \/ Leave(t)

Next ==
  \/ \E carries \in BOOLEAN : Push(carries)
  \/ Close \/ Abandon
  \/ \E p \in Pollers : Wake(p)
  \/ \E t \in PollThreads :
       \/ \E p \in Pollers, cap \in Caps, timeout \in Timeouts : PollBegin(t, p, cap, timeout)
       \/ Poll(t) \/ Timeout(t) \/ SpuriousWakeup(t)

Spec == Init /\ [][Next]_vars

\* Native threads that are not parked keep running.  Nothing is assumed of
\* timeouts: whatever has to end a wait notifies it.
PollFairness == \A t \in PollThreads : WF_vars(Poll(t))

\* The JVM's pump loop polls again as long as poll returns KT_OK.
PumpFairness ==
  \A t \in PollThreads :
    WF_vars(/\ polls[t].rc \in {"none", "ok"}
            /\ \E p \in Pollers, cap \in Caps, timeout \in Timeouts : PollBegin(t, p, cap, timeout))

FairSpec == Spec /\ PollFairness
PumpSpec == FairSpec /\ PumpFairness

-----------------------------------------------------------------------------
(***************************************************************************)
(* Properties.                                                             *)
(***************************************************************************)

\* The types of the queue, of the polls in progress and of the histories.
TypeOK ==
  /\ queue \in Seq(Nat \ {0})
  /\ wakes \in Nat
  /\ closed \in BOOLEAN
  /\ inPoll \in [Pollers -> BOOLEAN]
  /\ slab \in [Pollers -> Seq(Nat \ {0})]
  /\ polls \in [PollThreads -> Polls]
  /\ pushed \in Nat
  /\ accepted \in Nat
  /\ carriers \subseteq Nat
  /\ live \subseteq Nat
  /\ received \subseteq Nat
  /\ gone \in BOOLEAN

\* The hang the State comment (queue.rs:125-132) is about: a thread is never
\* parked while there is something to take, a wake to consume or a closed
\* queue to report.
NoLostWakeup ==
  \A t \in PollThreads :
    polls[t].pc = "parked" => queue = <<>> /\ ~closed /\ wakes = 0

\* "Payload memory belongs to the poller and lives until its next poll"
\* (queue.rs:16): the batch a thread was given is what the slab holds until a
\* poll of the same poller is admitted, whoever else polls, is rejected or
\* frees in between.
BatchIntact ==
  \A t \in PollThreads :
    polls[t].pc \in {"out", "leaving"} /\ polls[t].batch # <<>> =>
      slab[polls[t].poller] = polls[t].batch

\* The completions a thread has drained and not yet handed over.
InTransit(t) == IF polls[t].pc = "filling" THEN Elements(polls[t].batch) ELSE {}

\* Where an accepted completion can be.
Undelivered == Elements(queue) \cup UNION { InTransit(t) : t \in PollThreads }

\* No accepted completion is lost or handed over twice, and none overtakes an
\* earlier one: what is queued is newer than all that was drained.  And every handle
\* in the table has one owner, a completion that was not handed over yet or the JVM:
\* none is leaked by a closed, undrained or abandoned queue, and none is released
\* under the JVM (queue.rs:82-96).
DeliveredOnce ==
  /\ TypeOK
  /\ ~gone => Undelivered \cup received = 1..accepted
  /\ Undelivered \cap received = {}
  /\ \A m, n \in DOMAIN queue : m < n => queue[m] < queue[n]
  /\ \A t, u \in PollThreads : t # u => InTransit(t) \cap InTransit(u) = {}
  /\ \A n \in DOMAIN queue : \A d \in (1..accepted) \ Elements(queue) :
       ~gone => d < queue[n]
  /\ live = carriers \cap (Undelivered \cup received)

\* A completion in the queue reaches a JVM batch as long as the pump polls,
\* whatever timeouts and wakes do, and also after the queue was closed.
QueuedIsDelivered ==
  \A id \in 1..MaxPushes : (id \in Elements(queue)) ~> (id \in received \/ gone)
=============================================================================
