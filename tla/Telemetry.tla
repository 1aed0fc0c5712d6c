----------------------------- MODULE Telemetry -----------------------------
(***************************************************************************)
(* The native side of Core's metrics (telemetry.rs and                      *)
(* kt_runtime_retrieve_metrics): Core's threads create instruments and       *)
(* record updates into a bounded buffer, and the JVM takes them out in        *)
(* batches, in one call when the batch fits its buffer and in two when it     *)
(* does not.  Values, attributes and forwarded logs are left out; an update   *)
(* is its number and the id of its instrument.                               *)
(***************************************************************************)
EXTENDS Naturals, Sequences, Functions

CONSTANTS
  Instruments, \* names with their kinds, the keys of State.instruments
  Capacity,    \* MAX_UPDATES
  Fit,         \* updates that fit into the buffer of the first attempt
  MaxRecords   \* bound: updates recorded

ASSUME TelemetryAssumption == Capacity \in Nat \ {0} /\ Fit \in Nat /\ MaxRecords \in Nat

VARIABLES
  definitions, \* State.definitions: the id of an instrument is its place
  updates,     \* State.updates
  dropped,     \* State.dropped
  recorded,    \* how many updates there have been
  retained     \* RuntimeEntry.metric_batch: a batch that did not fit, or NoBatch

bufferVars == <<updates, dropped, retained>>
telemetryVars == <<definitions, updates, dropped, recorded, retained>>

NoBatch == [known |-> {}, updates |-> <<>>, dropped |-> 0, some |-> FALSE]

-----------------------------------------------------------------------------

\* BridgeMeter::instrument, for a key it has not seen; a known key keeps its id.
Define(i) ==
  /\ i \notin Range(definitions)
  /\ definitions' = Append(definitions, i)
  /\ UNCHANGED <<updates, dropped, recorded, retained>>

\* Instrument::record: a full buffer loses its oldest update, and counts it.
Record(id) ==
  /\ recorded < MaxRecords
  /\ id \in DOMAIN definitions
  /\ recorded' = recorded + 1
  /\ LET room == Len(updates) < Capacity
         kept == IF room THEN updates ELSE Tail(updates)
     IN /\ updates' = Append(kept, [n |-> recorded + 1, id |-> id])
        /\ dropped' = IF room THEN dropped ELSE dropped + 1
  /\ UNCHANGED <<definitions, retained>>

\* BridgeMeter::drain: the updates with the definitions they need, and what was
\* dropped since the last time.
Drain == [known |-> { u.id : u \in Range(updates) }, updates |-> updates,
          dropped |-> dropped, some |-> TRUE]

\* pending.get_or_insert_with(drain): the retained batch comes first.
Batch == IF retained.some THEN retained ELSE Drain

\* What taking the batch leaves in the buffer.
TakeBatch ==
  /\ updates' = IF retained.some THEN updates ELSE <<>>
  /\ dropped' = IF retained.some THEN dropped ELSE 0
  /\ UNCHANGED <<definitions, recorded>>

\* Faulty variant: the size probe consumes the batch.
ProbeConsumes(cap) ==
  /\ Len(Batch.updates) > cap
  /\ TakeBatch
  /\ retained' = NoBatch

\* kt_runtime_retrieve_metrics answers BUFFER_TOO_SMALL and keeps the batch.
Probe(cap) ==
  /\ Len(Batch.updates) > cap
  /\ TakeBatch
  /\ retained' = Batch

\* kt_runtime_retrieve_metrics copies Batch out.
CopyOut(cap) ==
  /\ Len(Batch.updates) <= cap
  /\ TakeBatch
  /\ retained' = NoBatch

TelemetryInit ==
  /\ definitions = <<>>
  /\ updates = <<>>
  /\ dropped = 0
  /\ recorded = 0
  /\ retained = NoBatch
=============================================================================
