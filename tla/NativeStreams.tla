--------------------------- MODULE NativeStreams ---------------------------
(***************************************************************************)
(* What a worker promises the JVM about its task streams, without poll loops,  *)
(* shutdowns and references: tasks come after the start and before the end, a   *)
(* failure is reported and starts the shutdown, a stream ends because the       *)
(* shutdown was initiated or after a failure, and does end then ("rather than   *)
(* leaving a consumer suspended forever", worker.rs:172-173), unless the worker *)
(* is force-closed.                                                         *)
(***************************************************************************)
EXTENDS Naturals

CONSTANT Streams

VARIABLES
  started,  \* the streams are being polled
  sent,     \* per stream: how many tasks were pushed
  failed,   \* streams whose failure was pushed
  ended,    \* streams whose end was pushed
  down,     \* shutdown has been initiated
  cut       \* the worker was force-closed

vars == <<started, sent, failed, ended, down, cut>>

Init ==
  /\ started = FALSE /\ down = FALSE /\ cut = FALSE
  /\ sent = [k \in Streams |-> 0]
  /\ failed = {} /\ ended = {}

Start ==
  /\ ~started
  /\ started' = TRUE
  /\ UNCHANGED <<sent, failed, ended, down, cut>>

ShutDown ==
  /\ down' = TRUE
  /\ UNCHANGED <<started, sent, failed, ended, cut>>

Task(k) ==
  /\ started /\ k \notin ended
  /\ sent' = [sent EXCEPT ![k] = @ + 1]
  /\ UNCHANGED <<started, failed, ended, down, cut>>

\* A failure the stream goes on after, or one that ends it.
Fail(k) ==
  /\ started /\ k \notin ended
  /\ failed' = failed \cup {k}
  /\ ended' \in {ended, ended \cup {k}}
  /\ down' = TRUE
  /\ UNCHANGED <<started, sent, cut>>

End(k) ==
  /\ started /\ k \notin ended
  /\ down
  /\ ended' = ended \cup {k}
  /\ UNCHANGED <<started, sent, failed, down, cut>>

\* A force-close may silence the streams.
Cut ==
  /\ cut' = TRUE
  /\ down' \in {down, TRUE}
  /\ UNCHANGED <<started, sent, failed, ended>>

Next ==
  \/ Start \/ ShutDown \/ Cut
  \/ \E k \in Streams : Task(k) \/ Fail(k) \/ End(k)

SafeSpec == Init /\ [][Next]_vars
Spec == SafeSpec /\ \A k \in Streams : WF_vars(~cut /\ End(k))
=============================================================================
