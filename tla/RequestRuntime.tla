--------------------------- MODULE RequestRuntime ---------------------------
(***************************************************************************)
(* The life of asynchronous requests on one runtime (kt-bridge/src/          *)
(* runtime.rs, and the exported functions of lib.rs that call               *)
(* spawn_request): admission, cancellation, completion, and kt_runtime_free  *)
(* racing all of them.                                                      *)
(*                                                                         *)
(* A call is one invocation of kt_client_connect ("client"), kt_ephemeral_   *)
(* start ("ephemeral"), kt_ephemeral_shutdown ("stop") or of a function that  *)
(* touches no handle of the runtime ("use": kt_client_rpc, kt_worker_validate, *)
(* complete and shutdown).  What an operation does while it runs is left out,   *)
(* but for a stop, which holds the mutex of its server; how it ends is chosen. *)
(* Each step is one critical section of the pending table, of the handle table  *)
(* or of the task tracker.                                                  *)
(***************************************************************************)
EXTENDS Naturals, Sequences, FiniteSets

CONSTANTS
  Calls,    \* asynchronous calls issued by JVM threads, one each
  ReqIds,   \* request ids; the JVM may reuse one
  Ops       \* the kinds of call issued, among OpKinds

NoCall == "no call"
NoId == "no id"
OpKinds == {"client", "ephemeral", "stop", "use"}
ASSUME CallsAssumption == NoCall \notin Calls /\ NoId \notin ReqIds
ASSUME OpsAssumption == Ops \subseteq OpKinds

VARIABLES
  calls,      \* per call: how far the exported function is, and its arguments
  pending,    \* RuntimeEntry.pending: req_id to the call whose token it holds
  locked,     \* the drain of kt_runtime_free holds the lock of pending
  closed,     \* RuntimeEntry.closed
  cancelled,  \* the calls whose CancellationToken is cancelled
  tasks,      \* per call: how far its Tokio task is
  tracked,    \* the calls whose reservation or task holds a tracker token
  result,     \* per call: the Pending its task is holding
  queue,      \* completions in the queue, each with the call it answers
  queueClosed,\* Queue::close has run
  delivered,  \* per call: the statuses of the completions handed to the JVM
  handle,     \* per call: who has the handle it created
  server,     \* per call: the child process it started
  live,       \* the runtime's handle is in the handle table
  freeing,    \* how far kt_runtime_free is
  children    \* calls whose entries kt_runtime_free still has to close

callVars == <<calls, tracked>>
tableVars == <<handle, server, live, children>>
vars == <<calls, pending, locked, closed, cancelled, tasks, tracked, result, queue,
          queueClosed, delivered, handle, server, live, freeing, children>>

CallSteps == {"idle", "resolved", "reserved", "registered", "returned", "rejected"}
TaskSteps == {"none", "running", "stopping", "finishing", "retiring", "finished"}
Statuses == {"none", "ok", "error", "cancelled", "shutdown"}
HandleStates == {"none", "pending", "jvm", "removed"}
ServerStates == {"none", "live", "reaping", "reaped"}
FreeSteps == {"no", "children", "draining", "closing", "waiting", "returned"}
Completions == [call : Calls, status : Statuses]

NoRequest == [pc |-> "idle", id |-> NoId, kind |-> "use", of |-> NoCall]
Rejected == [NoRequest EXCEPT !.pc = "rejected"]

-----------------------------------------------------------------------------
(***************************************************************************)
(* Pieces of the operations.                                               *)
(***************************************************************************)

\* Sender::push.  A closed queue drops the completion.
Push(c, status) ==
  queue' = IF queueClosed THEN queue ELSE Append(queue, [call |-> c, status |-> status])

\* A live child process holds a tracker token from its start until it is
\* reaped (EphemeralEntry.server); with the reservations and the tasks these
\* are all the tokens TaskTracker::wait waits for.
TrackerEmpty ==
  tracked = {} /\ \A c \in Calls : server[c] \notin {"live", "reaping"}

\* A stop holds the mutex of the server that call c started (EphemeralEntry.server).
Held(c) == \E d \in Calls : tasks[d] = "stopping" /\ calls[d].of = c

\* Dropping the Pending of call c: if it owns a handle that is still in the
\* table the entry is removed, and a server entry's drop schedules its reaping.
DropResult(c) ==
  /\ handle' = [handle EXCEPT ![c] = IF @ = "pending" THEN "removed" ELSE @]
  /\ server' = [server EXCEPT ![c] =
        IF handle[c] = "pending" /\ @ = "live" THEN "reaping" ELSE @]

-----------------------------------------------------------------------------
(***************************************************************************)
(* The exported function, on a JVM thread.                                 *)
(***************************************************************************)

\* HANDLES.runtime(runtime): from here on the call holds the RuntimeEntry, whatever
\* happens to its handle, and a stop the entry of a server the JVM has.  Arguments
\* that do not decode and stale handles are refused.
Resolve(c, id, kind, of) ==
  /\ calls[c].pc = "idle"
  /\ IF kind = "stop" THEN of # NoCall ELSE of = NoCall
  /\ \/ /\ live
        /\ kind = "stop" => handle[of] = "jvm" /\ server[of] # "none"
        /\ calls' = [calls EXCEPT ![c] = [pc |-> "resolved", id |-> id, kind |-> kind, of |-> of]]
     \/ calls' = [calls EXCEPT ![c] = Rejected]
  /\ UNCHANGED <<pending, locked, closed, cancelled, tasks, tracked, result, queue,
                 queueClosed, delivered, handle, server, live, freeing, children>>

\* Faulty variant: the tracker token is taken when the task is spawned only.
ReserveNothing(c) ==
  /\ calls[c].pc = "resolved"
  /\ calls' = [calls EXCEPT ![c].pc = "reserved"]
  /\ UNCHANGED <<pending, locked, closed, cancelled, tasks, tracked, result, queue,
                 queueClosed, delivered, handle, server, live, freeing, children>>

\* spawn_request: entry.tasks.token().
Reserve(c) ==
  /\ calls[c].pc = "resolved"
  /\ calls' = [calls EXCEPT ![c].pc = "reserved"]
  /\ tracked' = tracked \cup {c}
  /\ UNCHANGED <<pending, locked, closed, cancelled, tasks, result, queue,
                 queueClosed, delivered, handle, server, live, freeing, children>>

\* Faulty variant: a request id that is in use is overwritten.
RegisterOverwrites(c) ==
  LET id == calls[c].id
  IN /\ calls[c].pc = "reserved"
     /\ ~locked
     /\ IF closed
        THEN /\ calls' = [calls EXCEPT ![c] = Rejected]
             /\ tracked' = tracked \ {c}
             /\ UNCHANGED pending
        ELSE /\ calls' = [calls EXCEPT ![c].pc = "registered"]
             /\ pending' = [pending EXCEPT ![id] = c]
             /\ UNCHANGED tracked
     /\ UNCHANGED <<locked, closed, cancelled, tasks, result, queue,
                    queueClosed, delivered, handle, server, live, freeing, children>>

\* Faulty variant: closed is not consulted.
RegisterLate(c) ==
  LET id == calls[c].id
  IN /\ calls[c].pc = "reserved"
     /\ ~locked
     /\ IF pending[id] # NoCall
        THEN /\ calls' = [calls EXCEPT ![c] = Rejected]
             /\ tracked' = tracked \ {c}
             /\ UNCHANGED pending
        ELSE /\ calls' = [calls EXCEPT ![c].pc = "registered"]
             /\ pending' = [pending EXCEPT ![id] = c]
             /\ UNCHANGED tracked
     /\ UNCHANGED <<locked, closed, cancelled, tasks, result, queue,
                    queueClosed, delivered, handle, server, live, freeing, children>>

\* RuntimeEntry::register.  A runtime that shuts down and a request id that is
\* already in use are refused, and the reservation is dropped.
Register(c) ==
  LET id == calls[c].id
  IN /\ calls[c].pc = "reserved"
     /\ ~locked
     /\ IF closed \/ pending[id] # NoCall
        THEN /\ calls' = [calls EXCEPT ![c] = Rejected]
             /\ tracked' = tracked \ {c}
             /\ UNCHANGED pending
        ELSE /\ calls' = [calls EXCEPT ![c].pc = "registered"]
             /\ pending' = [pending EXCEPT ![id] = c]
             /\ UNCHANGED tracked
     /\ UNCHANGED <<locked, closed, cancelled, tasks, result, queue,
                    queueClosed, delivered, handle, server, live, freeing, children>>

\* track_future takes the task's token before the reservation is dropped; then
\* the task is spawned and the call returns KT_OK.
Spawn(c) ==
  /\ calls[c].pc = "registered"
  /\ calls' = [calls EXCEPT ![c].pc = "returned"]
  /\ tasks' = [tasks EXCEPT ![c] = "running"]
  /\ tracked' = tracked \cup {c}
  /\ UNCHANGED <<pending, locked, closed, cancelled, result, queue,
                 queueClosed, delivered, handle, server, live, freeing, children>>

\* kt_cancel, on a RuntimeEntry it resolved at any earlier time.
Cancel(id) ==
  /\ ~locked
  /\ pending[id] # NoCall
  /\ cancelled' = cancelled \cup {pending[id]}
  /\ UNCHANGED <<calls, pending, locked, closed, tasks, tracked, result, queue,
                 queueClosed, delivered, handle, server, live, freeing, children>>

-----------------------------------------------------------------------------
(***************************************************************************)
(* The task, on a Tokio worker thread.                                     *)
(***************************************************************************)

\* The biased select sees a cancelled token before it polls the operation,
\* and drops the operation, with the mutex; the child stays in its entry.
TaskCancelled(c) ==
  /\ tasks[c] \in {"running", "stopping"}
  /\ c \in cancelled
  /\ tasks' = [tasks EXCEPT ![c] = "finishing"]
  /\ result' = [result EXCEPT ![c] = "cancelled"]
  /\ UNCHANGED <<calls, pending, locked, closed, cancelled, tracked, queue,
                 queueClosed, delivered, handle, server, live, freeing, children>>

\* An operation succeeds, or it fails: a server with its port, its log file, its
\* download or its process.
Outcomes == {"ok", "error"}

\* Faulty variant: the created entry is inserted without validating its owner.
OpEndsUnowned(c, outcome) ==
  LET kind == calls[c].kind
      created == outcome = "ok" /\ kind # "use"
  IN /\ tasks[c] = "running" /\ kind # "stop"
     /\ c \notin cancelled
     /\ tasks' = [tasks EXCEPT ![c] = "finishing"]
     /\ result' = [result EXCEPT ![c] = outcome]
     /\ handle' = [handle EXCEPT ![c] = IF created THEN "pending" ELSE @]
     /\ server' = [server EXCEPT ![c] = IF created /\ kind = "ephemeral" THEN "live" ELSE @]
     /\ UNCHANGED <<calls, pending, locked, closed, cancelled, tracked, queue,
                    queueClosed, delivered, live, freeing, children>>

\* The operation ends by itself: it succeeds, or it fails or panics ("error").  A created
\* client or server goes through insert_owned, which closes it and answers
\* Shutdown if the runtime's handle is gone.
OpEnds(c, outcome) ==
  LET kind == calls[c].kind
      created == outcome = "ok" /\ kind # "use"
  IN /\ tasks[c] = "running" /\ kind # "stop"
     /\ c \notin cancelled
     /\ tasks' = [tasks EXCEPT ![c] = "finishing"]
     /\ result' = [result EXCEPT ![c] = IF created /\ ~live THEN "shutdown" ELSE outcome]
     /\ handle' = [handle EXCEPT ![c] = IF created /\ live THEN "pending" ELSE @]
     /\ server' = [server EXCEPT ![c] =
           IF created /\ kind = "ephemeral" THEN (IF live THEN "live" ELSE "reaping") ELSE @]
     /\ UNCHANGED <<calls, pending, locked, closed, cancelled, tracked, queue,
                    queueClosed, delivered, live, freeing, children>>

\* EphemeralEntry::shutdown, with the mutex ...
StopBegin(c) ==
  /\ tasks[c] = "running" /\ calls[c].kind = "stop"
  /\ c \notin cancelled
  /\ ~Held(calls[c].of)
  /\ tasks' = [tasks EXCEPT ![c] = "stopping"]
  /\ UNCHANGED <<calls, pending, locked, closed, cancelled, tracked, result, queue,
                 queueClosed, delivered, handle, server, live, freeing, children>>

\* ... until the child has exited, if there still is one.  After an error it is
\* dropped, and Core kills it then.
StopEnds(c, outcome) ==
  /\ tasks[c] = "stopping"
  /\ c \notin cancelled
  /\ tasks' = [tasks EXCEPT ![c] = "finishing"]
  /\ result' = [result EXCEPT ![c] = outcome]
  /\ server' = [server EXCEPT ![calls[c].of] = "reaped"]
  /\ UNCHANGED <<calls, pending, locked, closed, cancelled, tracked, queue,
                 queueClosed, delivered, handle, live, freeing, children>>

\* The end of the task: under the lock of pending, the first to remove the
\* request id answers; otherwise the result is dropped.
TaskFinish(c) ==
  LET id == calls[c].id
  IN /\ tasks[c] = "finishing"
     /\ ~locked
     /\ tasks' = [tasks EXCEPT ![c] = "retiring"]
     /\ result' = [result EXCEPT ![c] = "none"]
     /\ IF pending[id] # NoCall
        THEN /\ pending' = [pending EXCEPT ![id] = NoCall]
             /\ Push(c, result[c])
             /\ IF queueClosed THEN DropResult(c) ELSE UNCHANGED <<handle, server>>
        ELSE /\ DropResult(c)
             /\ UNCHANGED <<pending, queue>>
     /\ UNCHANGED <<calls, locked, closed, cancelled, tracked,
                    queueClosed, delivered, live, freeing, children>>

\* TrackedFuture drops its token last, after the operation and its result.
TaskRetire(c) ==
  /\ tasks[c] = "retiring"
  /\ tasks' = [tasks EXCEPT ![c] = "finished"]
  /\ tracked' = tracked \ {c}
  /\ UNCHANGED <<calls, pending, locked, closed, cancelled, result, queue,
                 queueClosed, delivered, handle, server, live, freeing, children>>

\* A scheduled reaping (EphemeralEntry::free, its Drop, or a blocking
\* kt_ephemeral_free) is done with its child process.
Reap(c) ==
  /\ server[c] = "reaping"
  /\ ~Held(c)
  /\ server' = [server EXCEPT ![c] = "reaped"]
  /\ UNCHANGED <<calls, pending, locked, closed, cancelled, tasks, tracked, result, queue,
                 queueClosed, delivered, handle, live, freeing, children>>

-----------------------------------------------------------------------------
(***************************************************************************)
(* The JVM's other side: polling, and freeing what it received.            *)
(***************************************************************************)

\* kt_poller_poll hands the oldest completion over, with its handle.
Deliver ==
  /\ queue # <<>>
  /\ delivered' = [delivered EXCEPT ![Head(queue).call] = Append(@, Head(queue).status)]
  /\ queue' = Tail(queue)
  /\ handle' = [handle EXCEPT ![Head(queue).call] = IF @ = "pending" THEN "jvm" ELSE @]
  /\ UNCHANGED <<calls, pending, locked, closed, cancelled, tasks, tracked, result,
                 queueClosed, server, live, freeing, children>>

\* Faulty variant: the server is forgotten with its handle.
JvmFreeForgets(c) ==
  /\ handle[c] = "jvm"
  /\ handle' = [handle EXCEPT ![c] = "removed"]
  /\ UNCHANGED <<calls, pending, locked, closed, cancelled, tasks, tracked, result, queue,
                 queueClosed, delivered, server, live, freeing, children>>

\* kt_client_free and kt_ephemeral_free: the handle is removed first, then the
\* server is shut down outside the table's lock.
JvmFree(c) ==
  /\ handle[c] = "jvm"
  /\ handle' = [handle EXCEPT ![c] = "removed"]
  /\ server' = [server EXCEPT ![c] = IF @ = "live" THEN "reaping" ELSE @]
  /\ UNCHANGED <<calls, pending, locked, closed, cancelled, tasks, tracked, result, queue,
                 queueClosed, delivered, live, freeing, children>>

-----------------------------------------------------------------------------
(***************************************************************************)
(* kt_runtime_free.                                                        *)
(***************************************************************************)

\* HANDLES.remove_runtime: the runtime and every entry it owns.
FreeBegin ==
  /\ live
  /\ live' = FALSE
  /\ freeing' = "children"
  /\ children' = { c \in Calls : handle[c] \in {"pending", "jvm"} }
  /\ handle' = [c \in Calls |-> IF handle[c] \in {"pending", "jvm"} THEN "removed" ELSE handle[c]]
  /\ UNCHANGED <<calls, pending, locked, closed, cancelled, tasks, tracked, result, queue,
                 queueClosed, delivered, server>>

\* Closing one removed child; a server is shut down before the loop goes on.
CloseChild(c) ==
  /\ freeing = "children"
  /\ c \in children
  /\ ~Held(c)
  /\ children' = children \ {c}
  /\ server' = [server EXCEPT ![c] = IF @ = "none" THEN @ ELSE "reaped"]
  /\ UNCHANGED <<calls, pending, locked, closed, cancelled, tasks, tracked, result, queue,
                 queueClosed, delivered, handle, live, freeing>>

\* drain_pending_for_shutdown takes the lock and closes admission ...
DrainBegin ==
  /\ freeing = "children"
  /\ children = {}
  /\ ~locked
  /\ freeing' = "draining"
  /\ locked' = TRUE
  /\ closed' = TRUE
  /\ UNCHANGED <<calls, pending, cancelled, tasks, tracked, result, queue,
                 queueClosed, delivered, handle, server, live, children>>

\* ... answers the requests it finds, in any order ...
DrainOne(id) ==
  /\ freeing = "draining"
  /\ pending[id] # NoCall
  /\ cancelled' = cancelled \cup {pending[id]}
  /\ Push(pending[id], "shutdown")
  /\ pending' = [pending EXCEPT ![id] = NoCall]
  /\ UNCHANGED <<calls, locked, closed, tasks, tracked, result,
                 queueClosed, delivered, handle, server, live, freeing, children>>

\* ... and closes the queue before it lets go of the lock.
DrainEnd ==
  /\ freeing = "draining"
  /\ \A id \in ReqIds : pending[id] = NoCall
  /\ freeing' = "waiting"
  /\ queueClosed' = TRUE
  /\ locked' = FALSE
  /\ UNCHANGED <<calls, pending, closed, cancelled, tasks, tracked, result, queue,
                 delivered, handle, server, live, children>>

\* free_runtime: tasks.close(), then block until the tracker is empty.
FreeReturn ==
  /\ freeing = "waiting"
  /\ TrackerEmpty
  /\ freeing' = "returned"
  /\ UNCHANGED <<calls, pending, locked, closed, cancelled, tasks, tracked, result, queue,
                 queueClosed, delivered, handle, server, live, children>>

-----------------------------------------------------------------------------
Init ==
  /\ calls = [c \in Calls |-> NoRequest]
  /\ pending = [id \in ReqIds |-> NoCall]
  /\ locked = FALSE
  /\ closed = FALSE
  /\ cancelled = {}
  /\ tasks = [c \in Calls |-> "none"]
  /\ tracked = {}
  /\ result = [c \in Calls |-> "none"]
  /\ queue = <<>>
  /\ queueClosed = FALSE
  /\ delivered = [c \in Calls |-> <<>>]
  /\ handle = [c \in Calls |-> "none"]
  /\ server = [c \in Calls |-> "none"]
  /\ live = TRUE
  /\ freeing = "no"
  /\ children = {}

CallStep(c) == Reserve(c) \/ Register(c) \/ Spawn(c)
TaskStep(c) ==
  \/ TaskCancelled(c) \/ TaskFinish(c) \/ TaskRetire(c) \/ Reap(c) \/ StopBegin(c)
  \/ \E outcome \in Outcomes : StopEnds(c, outcome)
FreeStep ==
  \/ \E c \in Calls : CloseChild(c)
  \/ DrainBegin
  \/ \E id \in ReqIds : DrainOne(id)
  \/ DrainEnd
  \/ FreeReturn

Next ==
  \/ \E c \in Calls :
       \/ \E id \in ReqIds, kind \in Ops, of \in (Calls \ {c}) \cup {NoCall} :
            Resolve(c, id, kind, of)
       \/ \E outcome \in Outcomes : OpEnds(c, outcome)
       \/ CallStep(c) \/ TaskStep(c) \/ JvmFree(c)
  \/ \E id \in ReqIds : Cancel(id)
  \/ Deliver \/ FreeBegin \/ FreeStep

Spec == Init /\ [][Next]_vars

\* Threads inside the bridge, Tokio's workers and a free in progress keep
\* going, and so does the end of a child that is being killed.  Nothing makes another
\* operation end by itself, the JVM free, or a poll happen.
Fairness ==
  /\ \A c \in Calls : WF_vars(CallStep(c)) /\ WF_vars(TaskStep(c))
  /\ WF_vars(FreeStep)

FairSpec == Spec /\ Fairness

-----------------------------------------------------------------------------
(***************************************************************************)
(* Properties.                                                             *)
(***************************************************************************)

\* The types of the request bookkeeping.
TypeOK ==
  /\ calls \in [Calls -> [pc : CallSteps, id : ReqIds \cup {NoId}, kind : OpKinds,
                         of : Calls \cup {NoCall}]]
  /\ pending \in [ReqIds -> Calls \cup {NoCall}]
  /\ locked \in BOOLEAN /\ closed \in BOOLEAN /\ queueClosed \in BOOLEAN /\ live \in BOOLEAN
  /\ cancelled \subseteq Calls
  /\ tasks \in [Calls -> TaskSteps]
  /\ tracked \subseteq Calls
  /\ result \in [Calls -> Statuses]
  /\ queue \in Seq(Completions)
  /\ delivered \in [Calls -> Seq(Statuses)]
  /\ handle \in [Calls -> HandleStates]
  /\ server \in [Calls -> ServerStates]
  /\ freeing \in FreeSteps
  /\ children \subseteq Calls

Accepted(c) == calls[c].pc \in {"registered", "returned"}
Registered(c) == \E id \in ReqIds : pending[id] = c

\* The places in the queue of the completions pushed for c.
Queued(c) == { n \in DOMAIN queue : queue[n].call = c }
Answered(c) == Queued(c) # {} \/ delivered[c] # <<>>
Succeeded(c) ==
  (\E n \in Queued(c) : queue[n].status = "ok") \/ \E n \in DOMAIN delivered[c] : delivered[c][n] = "ok"

\* At most one completion, in the queue or delivered, is for c.
AtMostOnce(c) ==
  /\ \A m, n \in Queued(c) : m = n
  /\ Len(delivered[c]) <= 1
  /\ Queued(c) = {} \/ delivered[c] = <<>>

\* "Every req_id produces exactly one terminal completion" (queue.rs:12): an
\* accepted call is still registered, or has been answered, never both and
\* never neither; a call that was not accepted is not answered.  It is in
\* terms of calls, so a reused request id cannot answer the wrong one.
ExactlyOneCompletion ==
  /\ TypeOK
  /\ \A c \in Calls :
       /\ AtMostOnce(c)
       /\ Accepted(c) <=> (Registered(c) \/ Answered(c))
       /\ ~(Registered(c) /\ Answered(c))

\* "Accepted requests and child cleanup must finish before Core's reactor is
\* dropped" (runtime.rs:24): when kt_runtime_free returns no task is left, every
\* accepted call has its answer, no child process is alive and no handle of
\* the runtime is left in the table.
FreeLeavesNothing ==
  freeing = "returned" =>
    \A c \in Calls :
      /\ tasks[c] \in {"none", "finished"}
      /\ Accepted(c) => Answered(c) /\ tasks[c] = "finished"
      /\ server[c] \in {"none", "reaped"}
      /\ handle[c] \notin {"pending", "jvm"}

\* A handle owned by a result is owned by one that still exists: the task is
\* about to hand it over, or it is in the queue with status ok.  One in the
\* JVM's hands came with a delivered ok.  So no cancellation, shutdown or
\* discarded result leaks an entry (queue.rs:82-83).  A child that nobody can name is
\* being reaped, also if a stop was cancelled ("Cancellation must leave it available
\* for runtime shutdown", ephemeral.rs:56), and a stop that answered ok has ended it.
NoLeakedHandle ==
  \A c \in Calls :
    /\ handle[c] = "pending" =>
         \/ tasks[c] = "finishing" /\ result[c] = "ok"
         \/ \E n \in Queued(c) : queue[n].status = "ok"
    /\ handle[c] = "jvm" => Succeeded(c)
    /\ handle[c] = "removed" /\ server[c] = "live" => c \in children
    /\ calls[c].kind = "stop" /\ Succeeded(c) => server[calls[c].of] = "reaped"

\* The refinement mapping: a call is in flight from its registration until a
\* completion for it is in the queue.
StatusOf(c) ==
  CASE Answered(c) -> "answered"
    [] ~Answered(c) /\ Accepted(c) -> "inflight"
    [] ~Answered(c) /\ calls[c].pc = "rejected" -> "rejected"
    [] OTHER -> "idle"
Doomed == { c \in cancelled : ~Answered(c) }

A == INSTANCE OneAnswer WITH
       status <- [c \in Calls |-> StatusOf(c)],
       doomed <- Doomed,
       down <- closed

\* The bridge implements OneAnswer: nothing is answered twice or accepted
\* after shutdown began, and a cancelled call or one that meets a shutdown is
\* answered in the end.
ImplementsOneAnswer == A!Spec

\* kt_runtime_free returns, whatever requests, cancellations, JVM frees and
\* scheduled reapings it meets.
FreeTerminates == (freeing # "no") ~> (freeing = "returned")

\* What FreeTerminates rests on: while kt_runtime_free blocks on the tracker it waits for
\* nothing that could go on as it likes.  Every token is that of a call about to be refused,
\* of an operation it has cancelled, or of a task on its way out, and every child process
\* that is left is being reaped.
FreeWaitsForTheEnding ==
  freeing = "waiting" =>
    /\ \A c \in tracked :
         \/ calls[c].pc = "reserved"
         \/ (calls[c].pc = "registered" \/ tasks[c] \in {"running", "stopping"}) /\ c \in cancelled
         \/ tasks[c] \in {"finishing", "retiring"}
    /\ \A c \in Calls : server[c] # "live"
=============================================================================
