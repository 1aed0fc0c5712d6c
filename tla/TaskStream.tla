----------------------------- MODULE TaskStream -----------------------------
(***************************************************************************)
(* One task stream of a worker on the JVM (TaskStream and KtWorker in        *)
(* KtWorker.kt), from the pump thread that delivers pushed events to the     *)
(* coroutines that receive tasks, with the ways it ends: TASK_STREAM_END,     *)
(* KtWorker.close and KtRuntime.close.                                      *)
(*                                                                         *)
(* A conflated channel holds at most one signal; a signal sent while          *)
(* coroutines wait is handed to one of them.  A coroutine that is cancelled   *)
(* after it was handed a signal and before it runs loses it (prompt          *)
(* cancellation).  The native side does what NativeStreams allows of a stream,   *)
(* and more: tasks, perhaps a failure among them, then its end, whenever it      *)
(* likes.                                                                  *)
(***************************************************************************)
EXTENDS Naturals, Sequences, FiniteSets

CONSTANTS
  Receivers,   \* coroutines that poll the stream
  MaxPushed,    \* bound: tasks pushed
  MaxCancels   \* bound: receives cancelled

ASSUME PushedAssumption == MaxPushed \in Nat /\ MaxCancels \in Nat

VARIABLES
  tasks,         \* TaskStream.tasks
  ready,         \* signals in the conflated channel: 0 or 1
  channelClosed, \* ready.close has run
  closed,        \* TaskStream.closed
  receive,       \* per receiver: how far its receive is
  cancelled,     \* receivers whose coroutine is cancelled
  cancels,       \* how many there have been
  thread,          \* how far the pump thread is with an event
  sent,          \* tasks pushed so far
  pushedEnd,     \* TASK_STREAM_END has been delivered
  failed,        \* streamFailures has an entry for this stream
  taken,         \* tasks a receive returned or is about to
  registered,    \* KtRuntime.pushedHandlers has this worker
  worker,        \* how far the worker object is: created, open, closed
  runtime        \* how far KtRuntime.close is

channelVars == <<tasks, ready, channelClosed, closed>>
receiverVars == <<receive, cancelled, cancels>>
threadVars == <<thread, sent, pushedEnd, failed>>
ownerVars == <<registered, worker, runtime>>
streamVars == <<tasks, ready, channelClosed, closed, receive, cancelled, cancels, thread, sent,
          pushedEnd, failed, taken, registered, worker, runtime>>

\* A receive is at the head of its loop, has polled a task ("took"), is about to
\* call receiveCatching, waits in it, or has left it with a signal ("woken"), with
\* the end ("endWoken") or cancelled ("thrown"); "last" is the poll after the end.
ReceiveSteps == {"out", "head", "took", "entering", "waiting", "woken", "endWoken", "thrown",
                 "last", "ended"}
ThreadSteps == {"idle", "adding", "signalling", "closing"}
WorkerSteps == {"creating", "refused", "open", "removed", "freed", "flagged", "closed"}
RuntimeSteps == {"open", "ending", "flagged", "freeing", "closed"}

-----------------------------------------------------------------------------
(***************************************************************************)
(* The conflated channel.                                                  *)
(***************************************************************************)

\* ready.trySend(Unit), while the receives are at rs: nothing on a closed
\* channel, else a waiting coroutine is handed the signal, else it is kept.
TrySend(rs) ==
  LET waiting == { r \in Receivers : rs[r] = "waiting" }
  IN \/ /\ channelClosed
        /\ receive' = rs
        /\ UNCHANGED ready
     \/ /\ ~channelClosed
        /\ waiting # {}
        /\ \E r \in waiting : receive' = [rs EXCEPT ![r] = "woken"]
        /\ UNCHANGED ready
     \/ /\ ~channelClosed
        /\ waiting = {}
        /\ receive' = rs
        /\ ready' = 1

\* if (tasks.isNotEmpty()) ready.trySend(Unit).  The two are one step: a signal
\* sent late is a spurious one.
SignalRest(rs) ==
  \/ /\ tasks # <<>>
     /\ TrySend(rs)
  \/ /\ tasks = <<>>
     /\ receive' = rs
     /\ UNCHANGED ready

\* ready.close(): every waiting coroutine sees the end.
CloseChannel ==
  /\ channelClosed' = TRUE
  /\ receive' = [r \in Receivers |-> IF receive[r] = "waiting" THEN "endWoken" ELSE receive[r]]

-----------------------------------------------------------------------------
(***************************************************************************)
(* TaskStream.receive, called by TemporalWorker.poll*.                     *)
(***************************************************************************)

\* A coroutine polls the stream of a worker it was given, until it ends.
Call(r) ==
  /\ receive[r] = "out"
  /\ worker \notin {"creating", "refused"}
  /\ receive' = [receive EXCEPT ![r] = "head"]
  /\ cancelled' = cancelled \ {r}
  /\ UNCHANGED <<channelVars, cancels, threadVars, taken, ownerVars>>

\* The coroutine of a receive in progress is cancelled.
Cancel(r) ==
  /\ receive[r] \notin {"out", "ended"}
  /\ r \notin cancelled
  /\ cancels < MaxCancels
  /\ cancels' = cancels + 1
  /\ cancelled' = cancelled \cup {r}
  /\ UNCHANGED <<channelVars, receive, threadVars, taken, ownerVars>>

\* ensureActive, then tasks.poll.
Head_(r) ==
  /\ receive[r] = "head"
  /\ \/ /\ r \in cancelled
        /\ receive' = [receive EXCEPT ![r] = "out"]
        /\ UNCHANGED <<tasks, taken>>
     \/ /\ r \notin cancelled
        /\ tasks # <<>>
        /\ receive' = [receive EXCEPT ![r] = "took"]
        /\ taken' = taken \cup {Head(tasks)}
        /\ tasks' = Tail(tasks)
     \/ /\ r \notin cancelled
        /\ tasks = <<>>
        /\ receive' = [receive EXCEPT ![r] = "entering"]
        /\ UNCHANGED <<tasks, taken>>
  /\ UNCHANGED <<ready, channelClosed, closed, cancelled, cancels, threadVars, ownerVars>>

\* With a task in hand: signal for what is left, and return it.
Took(r) ==
  /\ receive[r] = "took"
  /\ SignalRest([receive EXCEPT ![r] = "out"])
  /\ UNCHANGED <<tasks, channelClosed, closed, cancelled, cancels, threadVars, taken, ownerVars>>

\* ready.receiveCatching(): a kept signal comes before the end of the channel.
Enter(r) ==
  /\ receive[r] = "entering"
  /\ receive' = [receive EXCEPT ![r] =
        IF ready > 0 THEN "woken" ELSE IF channelClosed THEN "endWoken" ELSE "waiting"]
  /\ ready' = 0
  /\ UNCHANGED <<tasks, channelClosed, closed, cancelled, cancels, threadVars, taken, ownerVars>>

\* Cancellation makes receiveCatching throw while it waits, and also after it
\* was resumed, as long as the coroutine has not run.
Thrown(r) ==
  /\ r \in cancelled
  /\ receive[r] \in {"waiting", "woken", "endWoken"}
  /\ receive' = [receive EXCEPT ![r] = "thrown"]
  /\ UNCHANGED <<channelVars, cancelled, cancels, threadVars, taken, ownerVars>>

\* Where a receive goes after receiveCatching.
After(step) == CASE step = "woken" -> "head" [] step = "endWoken" -> "last" [] OTHER -> "out"

\* Faulty variant: the finally block is missing.
LeaveSilently(r) ==
  /\ receive[r] \in {"woken", "endWoken", "thrown"}
  /\ receive' = [receive EXCEPT ![r] = After(receive[r])]
  /\ UNCHANGED <<channelVars, cancelled, cancels, threadVars, taken, ownerVars>>

\* The finally block: pass the signal on if there are tasks.
Leave(r) ==
  /\ receive[r] \in {"woken", "endWoken", "thrown"}
  /\ SignalRest([receive EXCEPT ![r] = After(receive[r])])
  /\ UNCHANGED <<tasks, channelClosed, closed, cancelled, cancels, threadVars, taken, ownerVars>>

\* After the end: one more poll, then the exception.
Last_(r) ==
  /\ receive[r] = "last"
  /\ \/ /\ tasks # <<>>
        /\ receive' = [receive EXCEPT ![r] = "out"]
        /\ taken' = taken \cup {Head(tasks)}
        /\ tasks' = Tail(tasks)
     \/ /\ tasks = <<>>
        /\ receive' = [receive EXCEPT ![r] = "ended"]
        /\ UNCHANGED <<tasks, taken>>
  /\ UNCHANGED <<ready, channelClosed, closed, cancelled, cancels, threadVars, ownerVars>>

-----------------------------------------------------------------------------
(***************************************************************************)
(* The pump thread: KtRuntime.onPushed and KtWorker.onEvent.  An event of a   *)
(* worker without a handler is dropped.                                     *)
(***************************************************************************)

\* The native side pushes events between the start of the worker and the end
\* of the stream; a freed worker or runtime may push none.
Event ==
  /\ thread = "idle"
  /\ ~pushedEnd
  /\ worker \notin {"creating", "refused"}
  /\ runtime # "closed"

\* A task: send tests closed ...
TaskEvent ==
  /\ Event
  /\ sent < MaxPushed
  /\ sent' = sent + 1
  /\ thread' = IF registered /\ ~closed THEN "adding" ELSE "idle"
  /\ UNCHANGED <<channelVars, receiverVars, pushedEnd, failed, taken, ownerVars>>

\* ... adds ...
Add ==
  /\ thread = "adding"
  /\ thread' = "signalling"
  /\ tasks' = Append(tasks, sent)
  /\ UNCHANGED <<ready, channelClosed, closed, receiverVars, sent, pushedEnd, failed,
                 taken, ownerVars>>

\* ... and signals.
Signal ==
  /\ thread = "signalling"
  /\ thread' = "idle"
  /\ TrySend(receive)
  /\ UNCHANGED <<tasks, channelClosed, closed, cancelled, cancels, sent, pushedEnd, failed,
                 taken, ownerVars>>

\* Faulty variant: a failure closes the stream at once.
FailedEventCloses ==
  /\ Event
  /\ ~failed
  /\ failed' = registered
  /\ closed' = (closed \/ registered)
  /\ thread' = IF registered THEN "closing" ELSE "idle"
  /\ UNCHANGED <<tasks, ready, channelClosed, receiverVars, sent, pushedEnd, taken, ownerVars>>

\* WORKER_FAILED is remembered; the stream goes on.
FailedEvent ==
  /\ Event
  /\ ~failed
  /\ failed' = registered
  /\ UNCHANGED <<channelVars, receiverVars, thread, sent, pushedEnd, taken, ownerVars>>

\* TASK_STREAM_END closes the stream: the flag ...
EndEvent ==
  /\ Event
  /\ pushedEnd' = TRUE
  /\ closed' = (closed \/ registered)
  /\ thread' = IF registered THEN "closing" ELSE "idle"
  /\ UNCHANGED <<tasks, ready, channelClosed, receiverVars, sent, failed, taken, ownerVars>>

\* ... then the channel.
EndChannel ==
  /\ thread = "closing"
  /\ thread' = "idle"
  /\ CloseChannel
  /\ UNCHANGED <<tasks, ready, closed, cancelled, cancels, sent, pushedEnd, failed,
                 taken, ownerVars>>

-----------------------------------------------------------------------------
(***************************************************************************)
(* KtWorker.create and KtWorker.close.                                     *)
(***************************************************************************)

\* Faulty variant: the runtime is not asked whether it is open.
RegisterUnchecked ==
  /\ worker = "creating"
  /\ registered' = TRUE
  /\ worker' = "open"
  /\ UNCHANGED <<channelVars, receiverVars, threadVars, taken, runtime>>

\* onWorkerEvents, synchronized with KtRuntime.close: a closed runtime refuses,
\* and the new worker, which nobody else has, is closed again.
Register ==
  /\ worker = "creating"
  /\ \/ /\ runtime = "open"
        /\ registered' = TRUE
        /\ worker' = "open"
        /\ UNCHANGED <<closed, channelClosed>>
     \/ /\ runtime = "closed"
        /\ worker' = "refused"
        /\ closed' = TRUE
        /\ channelClosed' = TRUE
        /\ UNCHANGED registered
  /\ UNCHANGED <<tasks, ready, receiverVars, threadVars, taken, runtime>>

\* KtWorker.close: removeWorkerEvents, workerFree, then TaskStream.close.
WorkerClose ==
  /\ \/ /\ worker = "open"
        /\ worker' = "removed"
        /\ registered' = FALSE
        /\ UNCHANGED <<closed, channelClosed, receive>>
     \/ /\ worker = "removed"
        /\ worker' = "freed"
        /\ UNCHANGED <<registered, closed, channelClosed, receive>>
     \/ /\ worker = "freed"
        /\ worker' = "flagged"
        /\ closed' = TRUE
        /\ UNCHANGED <<registered, channelClosed, receive>>
     \/ /\ worker = "flagged"
        /\ worker' = "closed"
        /\ CloseChannel
        /\ UNCHANGED <<registered, closed>>
  /\ UNCHANGED <<tasks, ready, cancelled, cancels, threadVars, taken, runtime>>

-----------------------------------------------------------------------------
\* KtRuntime.close, holding the runtime's monitor throughout: an end for every
\* registered stream (TaskStream.close), then runtimeFree and pump.close, then
\* the handlers are cleared.  pump.close waits for the pump thread for five
\* seconds only, so the thread may still be in a handler.
RuntimeClose ==
  /\ \/ /\ runtime = "open"
        /\ runtime' = IF registered THEN "ending" ELSE "freeing"
        /\ UNCHANGED <<closed, channelClosed, receive, registered>>
     \/ /\ runtime = "ending"
        /\ runtime' = "flagged"
        /\ closed' = TRUE
        /\ UNCHANGED <<channelClosed, receive, registered>>
     \/ /\ runtime = "flagged"
        /\ runtime' = "freeing"
        /\ CloseChannel
        /\ UNCHANGED <<closed, registered>>
     \/ /\ runtime = "freeing"
        /\ runtime' = "closed"
        /\ registered' = FALSE
        /\ UNCHANGED <<closed, channelClosed, receive>>
  /\ UNCHANGED <<tasks, ready, cancelled, cancels, threadVars, taken, worker>>

-----------------------------------------------------------------------------
StreamInit ==
  /\ tasks = <<>>
  /\ ready = 0
  /\ channelClosed = FALSE
  /\ closed = FALSE
  /\ receive = [r \in Receivers |-> "out"]
  /\ cancelled = {}
  /\ cancels = 0
  /\ thread = "idle"
  /\ sent = 0
  /\ pushedEnd = FALSE
  /\ failed = FALSE
  /\ taken = {}
  /\ registered = FALSE
  /\ worker = "creating"
  /\ runtime = "open"

ReceiverStep(r) == Call(r) \/ Head_(r) \/ Took(r) \/ Enter(r) \/ Thrown(r) \/ Leave(r) \/ Last_(r)
ThreadStep == Add \/ Signal \/ EndChannel

StreamNext ==
  \/ \E r \in Receivers : ReceiverStep(r) \/ Cancel(r)
  \/ TaskEvent \/ FailedEvent \/ EndEvent \/ ThreadStep
  \/ Register \/ WorkerClose \/ RuntimeClose

StreamSpec == StreamInit /\ [][StreamNext]_streamVars

\* The pump thread and a close in progress keep going, a resumed or cancelled
\* coroutine runs, and the consumers poll until the stream ends.
StreamFairness ==
  /\ \A r \in Receivers : WF_streamVars(ReceiverStep(r))
  /\ WF_streamVars(ThreadStep)
  /\ WF_streamVars(worker # "open" /\ WorkerClose)
  /\ WF_streamVars(runtime # "open" /\ RuntimeClose)

StreamFairSpec == StreamSpec /\ StreamFairness

-----------------------------------------------------------------------------
(***************************************************************************)
(* Properties.                                                             *)
(***************************************************************************)

\* The types of the stream's state; the channel is conflated.
StreamTypeOK ==
  /\ tasks \in Seq(1..MaxPushed)
  /\ ready \in {0, 1}
  /\ channelClosed \in BOOLEAN /\ closed \in BOOLEAN
  /\ receive \in [Receivers -> ReceiveSteps]
  /\ cancelled \subseteq Receivers
  /\ cancels \in 0..MaxCancels
  /\ thread \in ThreadSteps
  /\ sent \in 0..MaxPushed
  /\ pushedEnd \in BOOLEAN /\ failed \in BOOLEAN /\ registered \in BOOLEAN
  /\ taken \subseteq 1..MaxPushed
  /\ worker \in WorkerSteps
  /\ runtime \in RuntimeSteps

\* The worker or the runtime is being closed by its owner, who gives its tasks up.
Forced == worker \notin {"creating", "open"} \/ runtime # "open"

\* Somebody is about to send a signal or to look at the tasks again.
Attended ==
  \/ thread \in {"signalling", "closing"}
  \/ \E r \in Receivers : receive[r] \in {"took", "woken", "endWoken", "thrown"}

\* "Prompt cancellation can consume a wakeup without consuming its task"
\* (KtWorker.kt:55): no coroutine waits while there is a task and nobody
\* about to signal it, whichever receives are cancelled when.
NoSleepOnTask ==
  /\ StreamTypeOK
  /\ (\E r \in Receivers : receive[r] = "waiting") /\ tasks # <<>> => Attended

\* A task that was pushed reaches a receiver as long as there are receivers that
\* poll, also when it was pushed just before the end of the stream
\* (KtWorker.kt:59) or after a failure was reported ("Dropping them would strand
\* the Core slots that shutdown is waiting to release", KtWorker.kt:116-117),
\* unless the owner closes the worker or the runtime.
TasksReceived ==
  \A n \in 1..MaxPushed : (sent >= n) ~> (n \in taken \/ Forced)

\* No coroutine is left suspended in poll*() once the stream was ended, by the native
\* side or the worker, or KtRuntime.close is done: a worker whose creation races it
\* is refused and undone (KtRuntime.kt:69-71).
EndReleases ==
  \A r \in Receivers :
    ((closed \/ runtime = "closed") /\ receive[r] = "waiting") ~> (receive[r] # "waiting")

-----------------------------------------------------------------------------
(***************************************************************************)
(* Why they hold: who owes a waiting coroutine a signal or the end of the       *)
(* channel, and where a task is between its push and its receive.             *)
(***************************************************************************)

\* A task in the queue has a signal behind it: kept in the channel, in the hands of
\* somebody who is going to signal again, or made pointless by the close of the channel.
\* A coroutine waits only on an open channel without a signal, and nobody polls the
\* stream of a worker that create has not returned.
SignalInv ==
  /\ tasks # <<>> => channelClosed \/ ready = 1 \/ Attended
  /\ \A r \in Receivers : receive[r] = "waiting" => ready = 0 /\ ~channelClosed
  /\ worker \in {"creating", "refused"} => \A r \in Receivers : receive[r] = "out"

\* The three who set closed, the pump thread at the end of the stream, KtWorker.close
\* and KtRuntime.close, each close the channel next; and an open worker is registered
\* until KtRuntime.close has closed its channel.
CloseInv ==
  /\ closed => channelClosed \/ thread = "closing" \/ worker = "flagged" \/ runtime = "flagged"
  /\ worker = "closed" => channelClosed
  /\ worker = "creating" => ~closed /\ ~pushedEnd
  /\ runtime \in {"ending", "flagged"} => worker # "creating"
  /\ registered => worker = "open"
  /\ worker = "open" /\ runtime \in {"open", "ending", "flagged"} => registered
  /\ worker = "open" /\ runtime \in {"freeing", "closed"} => channelClosed
  /\ closed => pushedEnd \/ Forced

\* Tasks are numbered as they are pushed; the one being added is the last.
CountInv ==
  /\ \A i \in DOMAIN tasks : tasks[i] <= sent /\ (thread = "adding" => tasks[i] < sent)
  /\ \A n \in taken : n <= sent /\ (thread = "adding" => n < sent)
  /\ thread = "adding" => sent > 0

\* Tasks are handed out in the order they were pushed, and a task that was handed out is
\* not handed out again.
InOrder ==
  /\ \A i, j \in DOMAIN tasks : i < j => tasks[i] < tasks[j]
  /\ \A i \in DOMAIN tasks : \A n \in taken : n < tasks[i]

\* Every task that was pushed has been handed out, waits in the queue, or is about to be
\* added to it.
NoneLost ==
  \A n \in 1..sent :
    n \in taken \/ (\E i \in DOMAIN tasks : tasks[i] = n) \/ (n = sent /\ thread = "adding")

\* What TasksReceived rests on: until the owner closes the worker or the runtime, no task
\* is lost, handed out twice or overtaken by a later one.  A failure that was reported
\* drops none of them (KtWorker.kt:116-117), nor does a cancelled receive.
TasksKept == InOrder /\ (NoneLost \/ Forced)

StreamInv == StreamTypeOK /\ SignalInv /\ CloseInv /\ CountInv /\ TasksKept

\* What EndReleases rests on: while a coroutine waits on a stream that was ended, or on
\* any stream of a closed runtime, somebody is on his way to close its channel.
EndIsComing ==
  (closed \/ runtime = "closed") /\ (\E r \in Receivers : receive[r] = "waiting") =>
    thread = "closing" \/ worker \in {"removed", "freed", "flagged"} \/ runtime = "flagged"
=============================================================================
