----------------------------- MODULE ClientCalls -----------------------------
(***************************************************************************)
(* Connecting a client and calling the server through it: TemporalCoreClient  *)
(* and KtClient in the JVM, kt_client_connect and kt_client_rpc (lib.rs), the   *)
(* dispatch with its deadline (rpc.rs), the status codes (error.rs) and the    *)
(* connection options (client.rs).                                         *)
(*                                                                         *)
(* Core's client is external: it makes attempts, each bounded by the deadline  *)
(* of the request or by Core's default, and after a failed attempt it retries   *)
(* or gives up, as it likes.  The server answers any attempt with anything, or  *)
(* never.  That a spawned request is answered once, also when it is cancelled   *)
(* or the runtime shuts down, is what RequestRuntime and Pump are about; here   *)
(* it is one step (Interrupt).  Time is counted per call, in ticks, and a timer *)
(* that is due fires before the next tick.                                   *)
(***************************************************************************)
EXTENDS Integers

CONSTANTS
  Calls,        \* RPCs made through the client
  Timeouts,     \* timeoutMillis, in ticks; 0 is none
  CoreDefault,  \* Core's deadline for an attempt whose request has none
  ServerCodes   \* gRPC codes the server or the transport may fail an attempt with

ASSUME TimesAssumption == Timeouts \subseteq Nat /\ CoreDefault \in Nat \ {0}
ASSUME CodesAssumption == ServerCodes \subseteq 1..16

VARIABLES
  client,      \* TemporalCoreClient: "none", "open" or "closed"
  handle,      \* the client's handle is in the table
  freed,       \* kt_runtime_free has removed the runtime, and its children with it
  options,     \* the ConnectionOptions that a connect in progress sends, or NoOptions
  stage,       \* per request: how far it is
  timeout,     \* per call: its timeout
  elapsed,     \* per call: ticks since with_deadline began, if it has a timeout
  age,         \* per call: ticks since the current attempt began
  cause,       \* per request: what ended it
  completion,  \* per request: the completion the JVM will read
  result       \* per request: what the caller got

vars == <<client, handle, freed, options, stage, timeout, elapsed, age, cause, completion, result>>
timeVars == <<timeout, elapsed, age>>
clientVars == <<client, handle, freed>>

Connect == "connect"
Requests == Calls \cup {Connect}

ASSUME CallsAssumption == Connect \notin Calls

\* gRPC codes, and the bridge's own codes, which are negative (abi.rs).
OK == 0
CANCELLED == 1
DEADLINE_EXCEEDED == 4
Panic == -1
InvalidArgument == -2
StaleHandle == -3
ShuttingDown == -5
Cancelled == -7
Failed == -8

Stages == {"idle", "entered", "spawned", "attempt", "backoff", "answered", "returned"}
InFlight(c) == stage[c] \in {"attempt", "backoff"}

NoOptions == [disabled |-> FALSE]
Nothing == [outcome |-> "none", status |-> OK]

-----------------------------------------------------------------------------
(***************************************************************************)
(* Statuses and completions.                                               *)
(***************************************************************************)

\* A tonic::Status: its code, and whether TimeoutExpired is among its sources,
\* which is so for a deadline of the local transport, labelled CANCELLED.
FromPeer(code) == [code |-> code, expired |-> FALSE]
LocallyExpired == [code |-> CANCELLED, expired |-> TRUE]

\* Faulty variant: the label is taken at its word.
GrpcStatusCodeAsLabelled(status) == status.code

GrpcStatusCode(status) ==
  IF status.code = CANCELLED /\ status.expired THEN DEADLINE_EXCEEDED ELSE status.code

\* The payload is an encoded response, an encoded RpcFailure, or plain text; the
\* answer to a connect carries the new handle and no payload.
Ack(form) == [status |-> OK, form |-> form]
RpcError(status) == [status |-> GrpcStatusCode(status), form |-> "failure"]
BridgeError(code) == [status |-> code, form |-> "text"]

\* KtClient.call and KtClient.connect: a positive status announces an RpcFailure.
Read(answer) ==
  IF answer.status = OK THEN [outcome |-> "value", status |-> OK]
  ELSE [outcome |-> IF (answer.status > 0) = (answer.form = "failure") THEN "failed" ELSE "garbled",
        status |-> answer.status]

Answered(r, what, answer) ==
  /\ stage' = [stage EXCEPT ![r] = "answered"]
  /\ options' = IF r = Connect THEN NoOptions ELSE options
  /\ cause' = [cause EXCEPT ![r] = what]
  /\ completion' = [completion EXCEPT ![r] = answer]

\* What ended a request: a reply, a status of the other side, a local deadline, or
\* an error of the bridge.
ByReply == [type |-> "reply"]
ByPeer(code) == [type |-> "peer", code |-> code]
ByDeadline == [type |-> "deadline"]
ByBridge(code) == [type |-> "bridge", code |-> code]

\* The function throws before anything is spawned: guard's code, KtBridge.check.
Throws(r, code) ==
  /\ stage' = [stage EXCEPT ![r] = "returned"]
  /\ cause' = [cause EXCEPT ![r] = ByBridge(code)]
  /\ result' = [result EXCEPT ![r] = [outcome |-> "failed", status |-> code]]

\* The runtime is not in the table any more, or stops admitting requests.
RuntimeGone(r) == \E code \in {StaleHandle, ShuttingDown} : Throws(r, code)

-----------------------------------------------------------------------------
(***************************************************************************)
(* Connecting.                                                             *)
(***************************************************************************)

\* The parameters of TemporalCoreClient.connect that decide about TLS.
ConnectParameters ==
  [https : BOOLEAN, wellFormed : BOOLEAN, apiKey : BOOLEAN, disabled : BOOLEAN,
   tls : {{}} \cup { {"given"} \cup fields : fields \in SUBSET {"ca", "domain", "cert", "key"} }]

\* clientConfig: the target is spelled again with the scheme that fits.
ClientConfig(p) ==
  LET useTls == ~p.disabled /\ (p.https \/ p.tls # {} \/ p.apiKey)
  IN [scheme |-> IF useTls THEN "https" ELSE "http", wellFormed |-> p.wellFormed, tls |-> useTls,
      apiKey |-> p.apiKey, fields |-> IF useTls THEN p.tls \ {"given"} ELSE {}]

\* Faulty variant: only certificates and domains turn TLS on.
WantsTlsByField(config) == config.fields # {}

WantsTls(config) == config.tls \/ config.fields # {}

\* connection_options, of a target that parses.
ConnectionOptions(config) ==
  [scheme |-> config.scheme, tls |-> WantsTls(config), apiKey |-> config.apiKey,
   ca |-> "ca" \in config.fields, domain |-> "domain" \in config.fields,
   identity |-> config.fields \cap {"cert", "key"} # {}]

StartConnect(p) ==
  /\ stage[Connect] = "idle"
  /\ \/ /\ \/ freed /\ RuntimeGone(Connect)
           \/ ~freed /\ ~p.wellFormed /\ Throws(Connect, InvalidArgument)
        /\ UNCHANGED options
     \/ /\ ~freed /\ p.wellFormed
        /\ options' = [disabled |-> p.disabled, sent |-> ConnectionOptions(ClientConfig(p))]
        /\ stage' = [stage EXCEPT ![Connect] = "spawned"]
        /\ UNCHANGED <<cause, result>>
  /\ UNCHANGED <<clientVars, timeVars, completion>>

\* Connection::connect succeeds, and the client enters the table if its runtime is
\* still there.
Connected ==
  /\ stage[Connect] = "spawned"
  /\ handle' = ~freed
  /\ IF freed THEN Answered(Connect, ByBridge(StaleHandle), BridgeError(StaleHandle))
     ELSE Answered(Connect, ByReply, Ack("handle"))
  /\ UNCHANGED <<client, freed, timeVars, result>>

\* connect_failure, of a GetSystemInfo that failed.
ConnectFailure(status) == RpcError(status)

\* The system info call fails by the server, the transport or its deadline.
ConnectRefused ==
  /\ stage[Connect] = "spawned"
  /\ \/ \E code \in ServerCodes :
          Answered(Connect, ByPeer(code), ConnectFailure(FromPeer(code)))
     \/ Answered(Connect, ByDeadline, ConnectFailure(LocallyExpired))
  /\ UNCHANGED <<clientVars, timeVars, result>>

\* The connection cannot be made for another reason.
ConnectFails ==
  /\ stage[Connect] = "spawned"
  /\ Answered(Connect, ByBridge(Failed), BridgeError(Failed))
  /\ UNCHANGED <<clientVars, timeVars, result>>

\* TemporalCoreClient.close sets its flag, and then frees the handle.
Close ==
  /\ client = "open"
  /\ client' = "closed"
  /\ UNCHANGED <<handle, freed, options, stage, timeVars, cause, completion, result>>

CloseFree ==
  /\ client = "closed" /\ handle
  /\ handle' = FALSE
  /\ UNCHANGED <<client, freed, options, stage, timeVars, cause, completion, result>>

\* kt_runtime_free; what it does to requests in progress is Interrupt.
RuntimeFree ==
  /\ ~freed
  /\ freed' = TRUE /\ handle' = FALSE
  /\ UNCHANGED <<client, options, stage, timeVars, cause, completion, result>>

-----------------------------------------------------------------------------
(***************************************************************************)
(* A call.                                                                 *)
(***************************************************************************)

\* ensureOpen has let the call through.
Enter(c) ==
  /\ stage[c] = "idle"
  /\ client = "open" /\ ~freed
  /\ \E t \in Timeouts : timeout' = [timeout EXCEPT ![c] = t]
  /\ stage' = [stage EXCEPT ![c] = "entered"]
  /\ UNCHANGED <<clientVars, options, elapsed, age, cause, completion, result>>

\* kt_client_rpc: the connection is cloned, so that the task keeps it.
Issue(c) ==
  /\ stage[c] = "entered"
  /\ \/ freed /\ RuntimeGone(c)
     \/ ~freed /\ ~handle /\ Throws(c, StaleHandle)
     \/ /\ handle
        /\ stage' = [stage EXCEPT ![c] = "spawned"]
        /\ UNCHANGED <<cause, result>>
  /\ UNCHANGED <<clientVars, options, timeVars, completion>>

\* The task looks the method up and decodes the request; with_deadline begins.
Dispatch(c) ==
  /\ stage[c] = "spawned"
  /\ stage' = [stage EXCEPT ![c] = "attempt"]
  /\ UNCHANGED <<clientVars, options, timeVars, cause, completion, result>>

\* An unknown method, or a request that does not decode.
DispatchFails(c) ==
  /\ stage[c] = "spawned"
  /\ Answered(c, ByBridge(InvalidArgument), BridgeError(InvalidArgument))
  /\ UNCHANGED <<clientVars, timeVars, result>>

\* The request's timeout replaces Core's default for an attempt.
AttemptLimit(c) == IF timeout[c] > 0 THEN timeout[c] ELSE CoreDefault

AttemptDue(c) == stage[c] = "attempt" /\ age[c] >= AttemptLimit(c)

\* Faulty variant: the deadline starts again with every attempt.
DeadlineDueForAttempt(c) == InFlight(c) /\ timeout[c] > 0 /\ age[c] >= timeout[c]

\* The outer deadline covers all attempts and the time between them.
DeadlineDue(c) == InFlight(c) /\ timeout[c] > 0 /\ elapsed[c] >= timeout[c]

Tick(c) ==
  /\ InFlight(c)
  /\ ~AttemptDue(c) /\ ~DeadlineDue(c)
  /\ elapsed' = [elapsed EXCEPT ![c] = IF timeout[c] > 0 THEN @ + 1 ELSE @]
  /\ age' = [age EXCEPT ![c] = IF stage[c] = "attempt" THEN @ + 1 ELSE @]
  /\ UNCHANGED <<clientVars, options, stage, timeout, cause, completion, result>>

Reply(c) ==
  /\ stage[c] = "attempt"
  /\ Answered(c, ByReply, Ack("response"))
  /\ UNCHANGED <<clientVars, timeVars, result>>

\* An attempt fails: Core makes another one later, or gives up.
AttemptFails(c, what, status) ==
  /\ stage[c] = "attempt"
  /\ \/ Answered(c, what, RpcError(status))
     \/ /\ stage' = [stage EXCEPT ![c] = "backoff"]
        /\ UNCHANGED <<options, cause, completion>>
  /\ UNCHANGED <<clientVars, timeVars, result>>

PeerFails(c) == \E code \in ServerCodes : AttemptFails(c, ByPeer(code), FromPeer(code))

AttemptExpires(c) == AttemptDue(c) /\ AttemptFails(c, ByDeadline, LocallyExpired)

Retry(c) ==
  /\ stage[c] = "backoff"
  /\ stage' = [stage EXCEPT ![c] = "attempt"]
  /\ age' = [age EXCEPT ![c] = 0]
  /\ UNCHANGED <<clientVars, options, timeout, elapsed, cause, completion, result>>

\* with_deadline drops the call.
Deadline(c) ==
  /\ DeadlineDue(c)
  /\ Answered(c, ByDeadline, RpcError(FromPeer(DEADLINE_EXCEEDED)))
  /\ UNCHANGED <<clientVars, timeVars, result>>

\* spawn_request ends the task: cancellation, shutdown of the runtime or a panic.
Interrupt(r) ==
  /\ stage[r] = "spawned" \/ InFlight(r)
  /\ \E code \in {Cancelled, Panic} \cup (IF freed THEN {ShuttingDown} ELSE {}) :
       Answered(r, ByBridge(code), BridgeError(code))
  /\ UNCHANGED <<clientVars, timeVars, result>>

\* The coroutine reads its completion; a connect that succeeded is the client.
Return(r) ==
  /\ stage[r] = "answered"
  /\ stage' = [stage EXCEPT ![r] = "returned"]
  /\ result' = [result EXCEPT ![r] = Read(completion[r])]
  /\ client' = IF r = Connect /\ result'[r].outcome = "value" THEN "open" ELSE client
  /\ UNCHANGED <<handle, freed, options, timeVars, cause, completion>>

-----------------------------------------------------------------------------
Init ==
  /\ client = "none" /\ handle = FALSE /\ freed = FALSE /\ options = NoOptions
  /\ stage = [r \in Requests |-> "idle"]
  /\ timeout = [c \in Calls |-> 0]
  /\ elapsed = [c \in Calls |-> 0]
  /\ age = [c \in Calls |-> 0]
  /\ cause = [r \in Requests |-> [type |-> "none"]]
  /\ completion = [r \in Requests |-> Ack("none")]
  /\ result = [r \in Requests |-> Nothing]

Next ==
  \/ \E p \in ConnectParameters : StartConnect(p)
  \/ Connected \/ ConnectRefused \/ ConnectFails
  \/ Close \/ CloseFree \/ RuntimeFree
  \/ \E c \in Calls :
       \/ Enter(c) \/ Issue(c) \/ Dispatch(c) \/ DispatchFails(c)
       \/ Tick(c) \/ Reply(c) \/ PeerFails(c) \/ AttemptExpires(c) \/ Retry(c) \/ Deadline(c)
  \/ \E r \in Requests : Interrupt(r) \/ Return(r)

Spec == Init /\ [][Next]_vars

-----------------------------------------------------------------------------
(***************************************************************************)
(* Properties.                                                             *)
(***************************************************************************)

\* The types of the client's and the calls' state.
TypeOK ==
  /\ client \in {"none", "open", "closed"} /\ handle \in BOOLEAN /\ freed \in BOOLEAN
  /\ stage \in [Requests -> Stages]
  /\ timeout \in [Calls -> Timeouts \cup {0}]
  /\ elapsed \in [Calls -> Nat] /\ age \in [Calls -> Nat]
  /\ \A r \in Requests :
       /\ completion[r].status \in -9..16
       /\ result[r].outcome \in {"none", "value", "failed", "garbled"}

\* "The status code travels back verbatim" (rpc.rs:47) and "only local transport
\* timeouts are deadline exceeded" (error.rs:76): every caller can read its answer,
\* gets the other side's own code, CANCELLED included, DEADLINE_EXCEEDED for a
\* deadline whichever timer won, and a negative code for an error of the bridge;
\* a handle is stale only after the client or its runtime was closed.
AnswerTellsWhatHappened ==
  /\ TypeOK
  /\ \A r \in Requests : stage[r] = "returned" =>
       CASE cause[r].type = "reply" -> result[r].outcome = "value"
         [] cause[r].type = "peer" -> result[r] = [outcome |-> "failed", status |-> cause[r].code]
         [] cause[r].type = "deadline" ->
              result[r] = [outcome |-> "failed", status |-> DEADLINE_EXCEEDED]
         [] cause[r].type = "bridge" ->
              /\ result[r] = [outcome |-> "failed", status |-> cause[r].code]
              /\ cause[r].code < 0
              /\ cause[r].code = StaleHandle => client = "closed" \/ freed
              /\ cause[r].code = ShuttingDown => freed

\* "This outer timeout covers every retry", and "Core's default 30-second per-attempt
\* deadline does not shorten an explicitly longer call" (rpc.rs:57-58): a call with a
\* timeout is over when it has elapsed, and no local deadline ends it before.
DeadlineHonoured ==
  \A c \in Calls : timeout[c] > 0 =>
    /\ InFlight(c) => elapsed[c] <= timeout[c]
    /\ cause[c].type = "deadline" => elapsed[c] = timeout[c]

\* "An https:// target with tls_options None is refused by tonic outright"
\* (client.rs:32-34): the scheme and the TLS options that reach Core agree for every
\* spelling of the target, certificates are not sent without TLS, and an API key
\* goes over TLS unless the caller disabled it.
TlsFitsTarget ==
  options # NoOptions =>
    /\ (options.sent.scheme = "https") = options.sent.tls
    /\ options.sent.identity \/ options.sent.ca \/ options.sent.domain => options.sent.tls
    /\ options.sent.apiKey /\ ~options.disabled => options.sent.tls
=============================================================================
