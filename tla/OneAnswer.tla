------------------------------ MODULE OneAnswer ------------------------------
(***************************************************************************)
(* What the bridge promises the JVM about asynchronous calls, "every req_id  *)
(* produces exactly one terminal completion" (queue.rs:12-15), without any   *)
(* of the machinery: a call is accepted or rejected, an accepted one is      *)
(* answered once, and once the runtime is down nothing more is accepted.     *)
(***************************************************************************)
CONSTANT Calls

VARIABLES
  status,   \* per call: "idle", "inflight", "answered" or "rejected"
  doomed,   \* calls in flight that have been cancelled
  down      \* the runtime has started to shut down

vars == <<status, doomed, down>>

Init ==
  /\ status = [c \in Calls |-> "idle"]
  /\ doomed = {}
  /\ down = FALSE

Accept(c) ==
  /\ status[c] = "idle"
  /\ ~down
  /\ status' = [status EXCEPT ![c] = "inflight"]
  /\ UNCHANGED <<doomed, down>>

Reject(c) ==
  /\ status[c] = "idle"
  /\ status' = [status EXCEPT ![c] = "rejected"]
  /\ UNCHANGED <<doomed, down>>

Cancel(c) ==
  /\ status[c] = "inflight"
  /\ doomed' = doomed \cup {c}
  /\ UNCHANGED <<status, down>>

Answer(c) ==
  /\ status[c] = "inflight"
  /\ status' = [status EXCEPT ![c] = "answered"]
  /\ doomed' = doomed \ {c}
  /\ UNCHANGED down

ShutDown ==
  /\ down' = TRUE
  /\ UNCHANGED <<status, doomed>>

Next ==
  \/ \E c \in Calls : Accept(c) \/ Reject(c) \/ Cancel(c) \/ Answer(c)
  \/ ShutDown

\* An operation may run for ever, but not once it is cancelled or the runtime
\* is going down.
Fairness == \A c \in Calls : WF_vars((c \in doomed \/ down) /\ Answer(c))

SafeSpec == Init /\ [][Next]_vars
Spec == SafeSpec /\ Fairness
=============================================================================
