-------------------------------- MODULE Pump --------------------------------
(***************************************************************************)
(* The JVM's end of the bridge: Pump.kt, which issues requests, drains the   *)
(* completion queue on a thread of its own and resumes the coroutines that   *)
(* wait, and KtRuntime.close, which ends it.                                *)
(*                                                                         *)
(* The native side is what OneAnswer promises (RequestRuntime implements it), *)
(* with the queue its answers go through; a request stands for one call of   *)
(* Pump.request, and request ids are never reused (nextReqId).  A            *)
(* continuation is a CancellableContinuation: resuming it a second time      *)
(* throws, resuming a cancelled one discards the value.                     *)
(***************************************************************************)
EXTENDS Naturals, Sequences, FiniteSets

CONSTANTS
  Requests,     \* calls of Pump.request
  Cancellable,  \* those not issued under NonCancellable
  Batch,        \* BATCH: completions per poll
  CanDie        \* whether dispatch may throw (out of memory, say)

ASSUME CancellableAssumption == Cancellable \subseteq Requests
ASSUME BatchAssumption == Batch \in Nat \ {0}
ASSUME CanDieAssumption == CanDie \in BOOLEAN

VARIABLES
  \* The bridge below, as OneAnswer has it.
  status, doomed, down,
  completions,  \* the queue of completions not yet polled, each naming its request
  completionsClosed, \* poll reports KT_ERR_SHUTDOWN once the queue is empty
  open,         \* requests whose answer created a handle that is in the table
  runtimeLive,  \* the runtime's own handle is in the table
  \* Pump.
  waiting,      \* Pump.pending: requests in the map of continuations
  running, dead,\* the volatile flags
  poller,       \* the native poller exists
  cont,         \* per request: the state of its continuation
  handler,      \* requests with invokeOnCancellation registered
  caller,       \* per request: how far Pump.request is
  thread,       \* how far the pump thread is
  batch,        \* completions polled and not yet dispatched
  current,      \* the request the pump thread is about to resume
  stragglers,   \* failPending's snapshot
  closing       \* how far KtRuntime.close is

nativeVars == <<status, doomed, down>>
pumpVars == <<status, doomed, down, completions, completionsClosed, open, runtimeLive, waiting,
              running, dead, poller, cont, handler, caller, thread, batch, current, stragglers,
              closing>>

None == "none"
Answers == [req : Requests, ok : BOOLEAN]
ContStates == {"none", "active", "value", "exception", "cancelled", "discarded", "returned"}
CallerSteps == {"idle", "inserted", "refusing", "starting", "started", "failed", "retired",
                "resuming", "suspended"}
ThreadSteps == {"polling", "dispatching", "resuming", "stopping", "failing", "checking",
                "failresuming", "freeing", "ended"}
CloseSteps == {"open", "freeing", "freed", "closed"}

N == INSTANCE OneAnswer WITH Calls <- Requests

-----------------------------------------------------------------------------
(***************************************************************************)
(* Pieces of the operations.                                               *)
(***************************************************************************)

\* Faulty variant: a discarded completion keeps its handle.
ReleaseNothing(r) == open' = open

\* Pump.releaseDiscarded: kt_client_free or kt_ephemeral_free on the handle.
ReleaseDiscarded(r) == open' = open \ {r}

\* A continuation can be resumed while active, and once more after it was
\* cancelled; any other resumption throws "already resumed".
Resumable(r) == cont[r] \in {"active", "cancelled"}

\* resumeWithException.
Fail(r) ==
  cont' = [cont EXCEPT ![r] = IF @ = "active" THEN "exception" ELSE "discarded"]

-----------------------------------------------------------------------------
(***************************************************************************)
(* Pump.request, on the caller's thread.                                   *)
(***************************************************************************)

\* pending[reqId] = continuation.
Insert(r) ==
  /\ caller[r] = "idle"
  /\ caller' = [caller EXCEPT ![r] = "inserted"]
  /\ cont' = [cont EXCEPT ![r] = "active"]
  /\ waiting' = waiting \cup {r}
  /\ UNCHANGED <<nativeVars, completions, completionsClosed, open, runtimeLive, running, dead,
                 poller, handler, thread, batch, current, stragglers, closing>>

\* if (dead || !running), checked after the insertion.
CheckRunning(r) ==
  /\ caller[r] = "inserted"
  /\ caller' = [caller EXCEPT ![r] = IF dead \/ ~running THEN "refusing" ELSE "starting"]
  /\ UNCHANGED <<nativeVars, completions, completionsClosed, open, runtimeLive, waiting,
                 running, dead, poller, cont, handler, thread, batch, current, stragglers,
                 closing>>

\* The refusal resumes the continuation only if it is the one to remove it.
Refuse(r) ==
  /\ caller[r] = "refusing"
  /\ caller' = [caller EXCEPT ![r] = "suspended"]
  /\ waiting' = waiting \ {r}
  /\ IF r \in waiting THEN Fail(r) ELSE UNCHANGED cont
  /\ UNCHANGED <<nativeVars, completions, completionsClosed, open, runtimeLive, running, dead,
                 poller, handler, thread, batch, current, stragglers, closing>>

\* start(reqId): the exported function accepts the request, or it throws.
Start(r) ==
  /\ caller[r] = "starting"
  /\ \/ N!Accept(r) /\ caller' = [caller EXCEPT ![r] = "started"]
     \/ N!Reject(r) /\ caller' = [caller EXCEPT ![r] = "failed"]
  /\ UNCHANGED <<completions, completionsClosed, open, runtimeLive, waiting, running, dead,
                 poller, cont, handler, thread, batch, current, stragglers, closing>>

\* Faulty variant: a cancellation that came first is not passed on.
RegisterHandlerLate(r) ==
  /\ caller[r] = "started"
  /\ caller' = [caller EXCEPT ![r] = "suspended"]
  /\ handler' = handler \cup {r}
  /\ UNCHANGED <<nativeVars, completions, completionsClosed, open, runtimeLive, waiting,
                 running, dead, poller, cont, thread, batch, current, stragglers, closing>>

\* invokeOnCancellation, after start: a request cancelled in the meantime is
\* cancelled natively at once.
RegisterHandler(r) ==
  /\ caller[r] = "started"
  /\ caller' = [caller EXCEPT ![r] = "suspended"]
  /\ handler' = handler \cup {r}
  /\ IF cont[r] \in {"cancelled", "discarded"} /\ status[r] = "inflight" /\ runtimeLive
     THEN N!Cancel(r)
     ELSE UNCHANGED nativeVars
  /\ UNCHANGED <<completions, completionsClosed, open, runtimeLive, waiting, running, dead,
                 poller, cont, thread, batch, current, stragglers, closing>>

\* The catch block of start: pending.remove(reqId), its result unused ...
Retire(r) ==
  /\ caller[r] = "failed"
  /\ caller' = [caller EXCEPT ![r] = "retired"]
  /\ waiting' = waiting \ {r}
  /\ UNCHANGED <<nativeVars, completions, completionsClosed, open, runtimeLive, running, dead,
                 poller, cont, handler, thread, batch, current, stragglers, closing>>

\* Faulty variant: a request that could not be issued is not resumed.
CheckActiveNever(r) ==
  /\ caller[r] = "retired"
  /\ caller' = [caller EXCEPT ![r] = "suspended"]
  /\ UNCHANGED <<nativeVars, completions, completionsClosed, open, runtimeLive, waiting,
                 running, dead, poller, cont, handler, thread, batch, current, stragglers,
                 closing>>

\* ... then if (continuation.isActive) ...
CheckActive(r) ==
  /\ caller[r] = "retired"
  /\ caller' = [caller EXCEPT ![r] = IF cont[r] = "active" THEN "resuming" ELSE "suspended"]
  /\ UNCHANGED <<nativeVars, completions, completionsClosed, open, runtimeLive, waiting,
                 running, dead, poller, cont, handler, thread, batch, current, stragglers,
                 closing>>

\* ... resumeWithException.  A second resumption throws to the caller.
ResumeFailed(r) ==
  /\ caller[r] = "resuming"
  /\ caller' = [caller EXCEPT ![r] = "suspended"]
  /\ IF Resumable(r) THEN Fail(r) ELSE UNCHANGED cont
  /\ UNCHANGED <<nativeVars, completions, completionsClosed, open, runtimeLive, waiting,
                 running, dead, poller, handler, thread, batch, current, stragglers, closing>>

\* The coroutine is cancelled while its continuation is active; a registered
\* handler calls kt_cancel.
CancelCoroutine(r) ==
  /\ r \in Cancellable
  /\ cont[r] = "active"
  /\ cont' = [cont EXCEPT ![r] = "cancelled"]
  /\ IF r \in handler /\ status[r] = "inflight" /\ runtimeLive
     THEN N!Cancel(r)
     ELSE UNCHANGED nativeVars
  /\ UNCHANGED <<completions, completionsClosed, open, runtimeLive, waiting, running, dead,
                 poller, handler, caller, thread, batch, current, stragglers, closing>>

\* The resumed coroutine runs and has the completion, with its handle, or it
\* was cancelled before it was dispatched and the value is discarded.
Continue(r) ==
  /\ cont[r] = "value"
  /\ caller[r] = "suspended"
  /\ \/ /\ cont' = [cont EXCEPT ![r] = "returned"]
        /\ UNCHANGED open
     \/ /\ r \in Cancellable
        /\ cont' = [cont EXCEPT ![r] = "discarded"]
        /\ ReleaseDiscarded(r)
  /\ UNCHANGED <<nativeVars, completions, completionsClosed, runtimeLive, waiting, running,
                 dead, poller, handler, caller, thread, batch, current, stragglers, closing>>

-----------------------------------------------------------------------------
(***************************************************************************)
(* The native side.                                                        *)
(***************************************************************************)

\* A terminal completion is queued.  A successful creation puts its handle in
\* the table, unless the runtime's has been removed.
Answer(r, ok, creates) ==
  /\ N!Answer(r)
  /\ creates => ok /\ runtimeLive
  /\ completions' = Append(completions, [req |-> r, ok |-> ok])
  /\ open' = IF creates THEN open \cup {r} ELSE open
  /\ UNCHANGED <<completionsClosed, runtimeLive, waiting, running, dead, poller, cont, handler,
                 caller, thread, batch, current, stragglers, closing>>

-----------------------------------------------------------------------------
(***************************************************************************)
(* The pump thread.                                                        *)
(***************************************************************************)

\* One poll: a batch, the end of a closed queue, or nothing.  With nothing to
\* dispatch the loop ends if running was cleared, else it polls again.
Poll ==
  LET size == IF Len(completions) < Batch THEN Len(completions) ELSE Batch
  IN /\ thread = "polling"
     /\ \/ /\ size > 0
           /\ thread' = "dispatching"
           /\ batch' = SubSeq(completions, 1, size)
           /\ completions' = SubSeq(completions, size + 1, Len(completions))
        \/ /\ size = 0
           /\ completionsClosed \/ ~running
           /\ thread' = "stopping"
           /\ UNCHANGED <<batch, completions>>
     /\ UNCHANGED <<nativeVars, completionsClosed, open, runtimeLive, waiting, running, dead,
                    poller, cont, handler, caller, current, stragglers, closing>>

\* dispatch, first half: pending.remove.  Nobody waiting: discard.
Dispatch ==
  /\ thread = "dispatching"
  /\ IF batch = <<>>
     THEN /\ thread' = "polling"
          /\ UNCHANGED <<batch, waiting, current, open>>
     ELSE LET r == Head(batch).req
          IN IF r \in waiting
             THEN /\ thread' = "resuming"
                  /\ waiting' = waiting \ {r}
                  /\ current' = r
                  /\ UNCHANGED <<batch, open>>
             ELSE /\ batch' = Tail(batch)
                  /\ ReleaseDiscarded(r)
                  /\ UNCHANGED <<thread, waiting, current>>
  /\ UNCHANGED <<nativeVars, completions, completionsClosed, runtimeLive, running, dead, poller,
                 cont, handler, caller, stragglers, closing>>

\* dispatch, second half: continuation.resume(completion) { releaseDiscarded }.
ResumeCurrent ==
  /\ thread = "resuming"
  /\ IF Resumable(current)
     THEN /\ thread' = "dispatching"
          /\ batch' = Tail(batch)
          /\ cont' = [cont EXCEPT ![current] = IF @ = "active" THEN "value" ELSE "discarded"]
          /\ IF cont[current] = "active" THEN UNCHANGED open ELSE ReleaseDiscarded(current)
     ELSE /\ thread' = "stopping"
          /\ UNCHANGED <<batch, cont, open>>
  /\ current' = None
  /\ UNCHANGED <<nativeVars, completions, completionsClosed, runtimeLive, waiting, running,
                 dead, poller, handler, caller, stragglers, closing>>

\* dispatch throws before it removed anything: the thread leaves the loop.
Die ==
  /\ CanDie
  /\ thread = "dispatching"
  /\ batch # <<>>
  /\ thread' = "stopping"
  /\ UNCHANGED <<nativeVars, completions, completionsClosed, open, runtimeLive, waiting,
                 running, dead, poller, cont, handler, caller, batch, current, stragglers,
                 closing>>

\* finally: dead = true, then failPending takes the keys there are.
Stop ==
  /\ thread = "stopping"
  /\ IF ~dead
     THEN /\ dead' = TRUE
          /\ UNCHANGED <<thread, stragglers>>
     ELSE /\ thread' = "failing"
          /\ stragglers' = waiting
          /\ UNCHANGED dead
  /\ UNCHANGED <<nativeVars, completions, completionsClosed, open, runtimeLive, waiting,
                 running, poller, cont, handler, caller, batch, current, closing>>

\* failPending, one key: pending.remove(reqId)?.let ...
FailNext(r) ==
  /\ thread = "failing"
  /\ r \in stragglers
  /\ stragglers' = stragglers \ {r}
  /\ waiting' = waiting \ {r}
  /\ IF r \in waiting
     THEN thread' = "checking" /\ current' = r
     ELSE UNCHANGED <<thread, current>>
  /\ UNCHANGED <<nativeVars, completions, completionsClosed, open, runtimeLive, running, dead,
                 poller, cont, handler, caller, batch, closing>>

\* ... if (continuation.isActive) ...
FailCheck ==
  /\ thread = "checking"
  /\ thread' = IF cont[current] = "active" THEN "failresuming" ELSE "failing"
  /\ UNCHANGED <<nativeVars, completions, completionsClosed, open, runtimeLive, waiting,
                 running, dead, poller, cont, handler, caller, batch, current, stragglers,
                 closing>>

\* ... resumeWithException.  If it throws, the finally block ends here.
FailResume ==
  /\ thread = "failresuming"
  /\ IF Resumable(current)
     THEN thread' = "failing" /\ Fail(current)
     ELSE thread' = "ended" /\ UNCHANGED cont
  /\ current' = None
  /\ UNCHANGED <<nativeVars, completions, completionsClosed, open, runtimeLive, waiting,
                 running, dead, poller, handler, caller, batch, stragglers, closing>>

\* kt_poller_free, last.
FreePoller ==
  /\ thread = "failing"
  /\ stragglers = {}
  /\ thread' = "ended"
  /\ poller' = FALSE
  /\ UNCHANGED <<nativeVars, completions, completionsClosed, open, runtimeLive, waiting,
                 running, dead, cont, handler, caller, batch, current, stragglers, closing>>

-----------------------------------------------------------------------------
(***************************************************************************)
(* KtRuntime.close: runtimeFree, then Pump.close.                          *)
(***************************************************************************)

\* kt_runtime_free removes the runtime's handle and every handle it owns ...
CloseBegin ==
  /\ closing = "open"
  /\ closing' = "freeing"
  /\ runtimeLive' = FALSE
  /\ open' = {}
  /\ UNCHANGED <<nativeVars, completions, completionsClosed, waiting, running, dead, poller,
                 cont, handler, caller, thread, batch, current, stragglers>>

\* ... stops admission ...
FreeDown ==
  /\ closing = "freeing"
  /\ ~down
  /\ N!ShutDown
  /\ UNCHANGED <<completions, completionsClosed, open, runtimeLive, waiting, running, dead,
                 poller, cont, handler, caller, thread, batch, current, stragglers, closing>>

\* ... and returns once everything in flight is answered and the queue closed.
FreeEnd ==
  /\ closing = "freeing"
  /\ down
  /\ \A r \in Requests : status[r] # "inflight"
  /\ closing' = "freed"
  /\ completionsClosed' = TRUE
  /\ UNCHANGED <<nativeVars, completions, open, runtimeLive, waiting, running, dead, poller,
                 cont, handler, caller, thread, batch, current, stragglers>>

\* Pump.close: running = false, wake, join.
ClosePump ==
  /\ closing = "freed"
  /\ closing' = "closed"
  /\ running' = FALSE
  /\ UNCHANGED <<nativeVars, completions, completionsClosed, open, runtimeLive, waiting, dead,
                 poller, cont, handler, caller, thread, batch, current, stragglers>>

-----------------------------------------------------------------------------
PumpInit ==
  /\ N!Init
  /\ completions = <<>>
  /\ completionsClosed = FALSE
  /\ open = {}
  /\ runtimeLive = TRUE
  /\ waiting = {}
  /\ running = TRUE
  /\ dead = FALSE
  /\ poller = TRUE
  /\ cont = [r \in Requests |-> "none"]
  /\ handler = {}
  /\ caller = [r \in Requests |-> "idle"]
  /\ thread = "polling"
  /\ batch = <<>>
  /\ current = None
  /\ stragglers = {}
  /\ closing = "open"

CallerStep(r) ==
  \/ CheckRunning(r) \/ Refuse(r) \/ Start(r) \/ RegisterHandler(r)
  \/ Retire(r) \/ CheckActive(r) \/ ResumeFailed(r) \/ Continue(r)
ThreadStep ==
  \/ Poll \/ Dispatch \/ ResumeCurrent \/ Stop \/ FailCheck \/ FailResume \/ FreePoller
  \/ \E r \in Requests : FailNext(r)
NativeAnswer(r) == \E ok, creates \in BOOLEAN : Answer(r, ok, creates)
CloseStep == FreeDown \/ FreeEnd \/ ClosePump

PumpNext ==
  \/ \E r \in Requests : Insert(r) \/ CallerStep(r) \/ CancelCoroutine(r) \/ NativeAnswer(r)
  \/ ThreadStep \/ Die
  \/ CloseBegin \/ CloseStep

PumpSpec == PumpInit /\ [][PumpNext]_pumpVars

\* Threads inside these functions keep going, dispatched coroutines run, and
\* the native side answers what is cancelled or meets a shutdown (OneAnswer).
PumpFairness ==
  /\ \A r \in Requests :
       /\ WF_pumpVars(CallerStep(r))
       /\ WF_pumpVars((r \in doomed \/ down) /\ NativeAnswer(r))
  /\ WF_pumpVars(ThreadStep)
  /\ WF_pumpVars(CloseStep)

PumpFairSpec == PumpSpec /\ PumpFairness

-----------------------------------------------------------------------------
(***************************************************************************)
(* Properties.                                                             *)
(***************************************************************************)

\* The types of the pump's state; a batch fits the native buffer.
PumpTypeOK ==
  /\ status \in [Requests -> {"idle", "inflight", "answered", "rejected"}]
  /\ doomed \subseteq Requests /\ open \subseteq Requests /\ waiting \subseteq Requests
  /\ handler \subseteq Requests /\ stragglers \subseteq Requests
  /\ down \in BOOLEAN /\ completionsClosed \in BOOLEAN /\ runtimeLive \in BOOLEAN
  /\ running \in BOOLEAN /\ dead \in BOOLEAN /\ poller \in BOOLEAN
  /\ completions \in Seq(Answers) /\ batch \in Seq(Answers) /\ Len(batch) <= Batch
  /\ cont \in [Requests -> ContStates]
  /\ caller \in [Requests -> CallerSteps]
  /\ thread \in ThreadSteps
  /\ current \in Requests \cup {None}
  /\ closing \in CloseSteps

\* failPending was cut short by a continuation that the failing caller resumed
\* first; PumpReleasesPoller is about that.
CutShort == thread = "ended" /\ poller

\* A completion for r still on its way to being resumed or discarded.
OnItsWay(r) ==
  \/ \E n \in DOMAIN completions : completions[n].req = r
  \/ \E n \in DOMAIN batch : batch[n].req = r
  \/ cont[r] = "value"

\* A created handle is on its way, or in the hands of the caller that asked
\* for it: no cancellation, before or after the answer, leaves a client or a
\* server behind that nobody knows of (Pump.kt:205-208), as long as the pump
\* thread lives.
NoOrphanHandle ==
  /\ PumpTypeOK
  /\ \A r \in open : OnItsWay(r) \/ cont[r] = "returned" \/ dead

\* "Only this thread may release the slab" (Pump.kt:165): when the pump thread
\* is done, it has released its poller.
PumpReleasesPoller == thread = "ended" => ~poller

\* "Either way no coroutine is left suspended forever" (Pump.kt:230): closing the
\* runtime, or a pump thread that died in dispatch, ends every request that was ever
\* issued, also those that come in meanwhile, and the pump thread with them.
CloseEndsRequests ==
  /\ \A r \in Requests :
       ((closing # "open" \/ dead) /\ cont[r] \in {"active", "value"}) ~>
         (cont[r] \notin {"active", "value"} \/ CutShort)
  /\ (closing # "open" \/ dead) ~> (thread = "ended")

\* A cancelled coroutine does not leave its operation running: the
\* cancellation reaches the bridge also when it came before the request was
\* issued (Pump.kt:126-129).
CancelReachesNative ==
  \A r \in Requests :
    (cont[r] = "cancelled" /\ status[r] = "inflight") ~> (status[r] # "inflight")

-----------------------------------------------------------------------------
(***************************************************************************)
(* Who resumes a coroutine.  The continuation of a request is claimed by        *)
(* whoever removes it from the map, so at any time one party owes it a           *)
(* resumption: the pump thread, or the caller whose startRequest failed.        *)
(***************************************************************************)

\* The pump thread has taken the continuation of current out of the map; it has
\* left its loop and runs the block that fails what is still pending.
Holding == {"resuming", "checking", "failresuming"}
Ending == {"failing", "checking", "failresuming", "ended"}

\* The pump thread.  It polls with an empty batch; the completion it dispatches is
\* the head of the batch, of a request that was started and is no longer in the
\* map; past its loop dead is set; and the poller is freed after the last straggler
\* has been failed.
ThreadInv ==
  /\ thread = "polling" => batch = <<>>
  /\ thread = "resuming" => batch # <<>> /\ current = Head(batch).req
  /\ thread \in Holding =>
       current \in Requests /\ current \notin waiting /\ caller[current] # "idle"
  /\ thread \in Ending => dead
  /\ ~poller => thread = "ended" /\ stragglers = {}

\* A caller that has not begun has no continuation, and a continuation in the map has
\* not been resumed by its caller.
CallerInv ==
  \A r \in Requests :
    /\ caller[r] = "idle" => cont[r] = "none"
    /\ r \in waiting =>
         cont[r] \in {"active", "cancelled"} /\ caller[r] \notin {"idle", "retired", "resuming"}

\* A suspended coroutine is in the map, in the hands of the pump thread, or in those of
\* its own caller; and what is in the map once the thread has set dead is on the
\* thread's list, unless the caller has yet to look at dead.
WaiterInv ==
  \A r \in Requests :
    /\ cont[r] = "active" =>
         \/ r \in waiting
         \/ thread \in Holding /\ current = r
         \/ caller[r] \in {"retired", "resuming"}
    /\ thread \in Ending /\ r \in waiting /\ caller[r] \notin {"inserted", "refusing"} =>
         r \in stragglers

ResumerInv == ThreadInv /\ CallerInv /\ WaiterInv

\* "Either way no coroutine is left suspended forever" (Pump.kt:230): when the pump
\* thread is done and has freed its poller, a coroutine that is still suspended has a
\* caller that is still inside request and is about to find out.
NobodyAbandoned ==
  thread = "ended" /\ ~poller =>
    \A r \in Requests : cont[r] = "active" =>
      \/ caller[r] \in {"retired", "resuming"}
      \/ r \in waiting /\ caller[r] \in {"inserted", "refusing"}

\* The native side works only on a request whose caller is past start, and once the caller
\* is past invokeOnCancellation the handler is there.
IssueInv ==
  \A r \in Requests : status[r] = "inflight" =>
    caller[r] = "started" \/ (caller[r] = "suspended" /\ r \in handler)

\* What CancelReachesNative rests on: an operation whose coroutine was cancelled has been
\* cancelled too, unless its caller is just about to register the handler, which then runs
\* at once (Pump.kt:126-129), or the runtime is being freed, which answers everything.
CancelNotLost ==
  \A r \in Requests : cont[r] = "cancelled" /\ status[r] = "inflight" =>
    r \in doomed \/ caller[r] = "started" \/ ~runtimeLive
=============================================================================
