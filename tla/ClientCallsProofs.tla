-------------------------- MODULE ClientCallsProofs --------------------------
(***************************************************************************)
(* Proofs about ClientCalls for any number of calls, any timeouts, any default *)
(* of Core's and any codes of the server: callers are told what happened,      *)
(* deadlines are honoured, and the TLS options fit the target.               *)
(***************************************************************************)
EXTENDS ClientCalls, TLAPS

BridgeCodes == {Panic, InvalidArgument, StaleHandle, ShuttingDown, Cancelled, Failed}
Completions == [status : -9..16, form : {"none", "handle", "response", "failure", "text"}]
Results == [outcome : {"none", "value", "failed", "garbled"}, status : Int]
Over == {"answered", "returned"}

\* The types, with those of the records.
Shape ==
  /\ client \in {"none", "open", "closed"} /\ handle \in BOOLEAN /\ freed \in BOOLEAN
  /\ stage \in [Requests -> Stages]
  /\ timeout \in [Calls -> Nat]
  /\ elapsed \in [Calls -> Nat] /\ age \in [Calls -> Nat]
  /\ cause = [r \in Requests |-> cause[r]]
  /\ completion \in [Requests -> Completions]
  /\ result \in [Requests -> Results]

TimeoutsInv == timeout \in [Calls -> Timeouts \cup {0}]

\* Nobody is told of a stale handle or a shutdown before there was a reason.
Justified(code) ==
  /\ code = StaleHandle => client = "closed" \/ freed
  /\ code = ShuttingDown => freed

\* The completion that a cause puts into the queue, and what a caller makes of it.
Fit(what, answer) ==
  \/ what = ByReply /\ answer \in {Ack("handle"), Ack("response")}
  \/ \E code \in ServerCodes : what = ByPeer(code) /\ answer = [status |-> code, form |-> "failure"]
  \/ what = ByDeadline /\ answer = [status |-> DEADLINE_EXCEEDED, form |-> "failure"]
  \/ \E code \in BridgeCodes :
       what = ByBridge(code) /\ answer = BridgeError(code) /\ Justified(code)

Told(what, got) ==
  \/ what = ByReply /\ got.outcome = "value"
  \/ \E code \in ServerCodes : what = ByPeer(code) /\ got = [outcome |-> "failed", status |-> code]
  \/ what = ByDeadline /\ got = [outcome |-> "failed", status |-> DEADLINE_EXCEEDED]
  \/ \E code \in BridgeCodes :
       what = ByBridge(code) /\ got = [outcome |-> "failed", status |-> code] /\ Justified(code)

AnswerOK(r) ==
  /\ stage[r] = "answered" => Fit(cause[r], completion[r])
  /\ stage[r] = "returned" => Told(cause[r], result[r])
  /\ stage[r] \notin Over => cause[r].type = "none"

AnswerInv == \A r \in Requests : AnswerOK(r)

\* The client's handle is in the table until the client or the runtime is closed.
HandleInv ==
  /\ stage[Connect] # "returned" => client = "none"
  /\ stage[Connect] = "answered" /\ cause[Connect] = ByReply /\ ~freed => handle
  /\ client = "open" /\ ~freed => handle
  /\ \A c \in Calls : stage[c] # "idle" => client # "none"

\* The two clocks of a call with a timeout.
ClockInv ==
  \A c \in Calls :
    /\ stage[c] \in {"idle", "entered", "spawned"} => elapsed[c] = 0 /\ age[c] = 0
    /\ timeout[c] > 0 =>
         /\ age[c] <= elapsed[c] /\ elapsed[c] <= timeout[c]
         /\ cause[c].type = "deadline" => elapsed[c] = timeout[c]

ClientInv == Shape /\ TimeoutsInv /\ AnswerInv /\ HandleInv /\ ClockInv /\ TlsFitsTarget

-----------------------------------------------------------------------------
(***************************************************************************)
(* Statuses and completions.                                               *)
(***************************************************************************)

\* A status of the other side keeps its code, CANCELLED too; a local deadline is
\* DEADLINE_EXCEEDED whatever its label.
LEMMA StatusCodes ==
  /\ \A code : GrpcStatusCode(FromPeer(code)) = code
  /\ GrpcStatusCode(LocallyExpired) = DEADLINE_EXCEEDED
BY DEF GrpcStatusCode, FromPeer, LocallyExpired

LEMMA RpcErrors ==
  /\ \A code : RpcError(FromPeer(code)) = [status |-> code, form |-> "failure"]
  /\ RpcError(LocallyExpired) = [status |-> DEADLINE_EXCEEDED, form |-> "failure"]
  /\ RpcError(FromPeer(DEADLINE_EXCEEDED)) = [status |-> DEADLINE_EXCEEDED, form |-> "failure"]
BY StatusCodes DEF RpcError

\* Negative codes are the bridge's, positive ones the other side's.
LEMMA Codes ==
  /\ \A code \in BridgeCodes : code \in -9..-1
  /\ \A code \in ServerCodes : code \in 1..16
  /\ DEADLINE_EXCEEDED \in 1..16
BY CodesAssumption DEF BridgeCodes, Panic, InvalidArgument, StaleHandle, ShuttingDown, Cancelled,
                       Failed, DEADLINE_EXCEEDED

\* Every completion that fits its cause can be read, and is read as what it means.
LEMMA ReadTells ==
  ASSUME NEW what, NEW answer, Fit(what, answer)
  PROVE  /\ Told(what, Read(answer)) /\ answer \in Completions /\ Read(answer) \in Results
         /\ Read(answer).outcome = "value" => what = ByReply
<1>1. CASE what = ByReply /\ answer \in {Ack("handle"), Ack("response")}
  <2>1. answer \in Completions /\ Read(answer) = [outcome |-> "value", status |-> OK]
    BY <1>1 DEF Ack, Read, OK, Completions
  <2> QED BY <1>1, <2>1 DEF Told, Results, OK
<1>2. CASE \E code \in ServerCodes \cup {DEADLINE_EXCEEDED} :
             /\ answer = [status |-> code, form |-> "failure"]
             /\ \/ what = ByPeer(code) /\ code \in ServerCodes
                \/ what = ByDeadline /\ code = DEADLINE_EXCEEDED
  <2>1. PICK code \in ServerCodes \cup {DEADLINE_EXCEEDED} :
             /\ answer = [status |-> code, form |-> "failure"]
             /\ \/ what = ByPeer(code) /\ code \in ServerCodes
                \/ what = ByDeadline /\ code = DEADLINE_EXCEEDED
    BY <1>2
  <2>2. code \in 1..16
    BY <2>1, Codes
  <2>3. Read(answer) = [outcome |-> "failed", status |-> code] /\ answer \in Completions
    BY <2>1, <2>2 DEF Read, OK, Completions
  <2> QED BY <2>1, <2>2, <2>3 DEF Told, Results
<1>3. CASE \E code \in BridgeCodes :
             what = ByBridge(code) /\ answer = BridgeError(code) /\ Justified(code)
  <2>1. PICK code \in BridgeCodes :
             what = ByBridge(code) /\ answer = BridgeError(code) /\ Justified(code)
    BY <1>3
  <2>2. code \in -9..-1
    BY <2>1, Codes
  <2>3. Read(answer) = [outcome |-> "failed", status |-> code] /\ answer \in Completions
    BY <2>1, <2>2 DEF Read, OK, Completions, BridgeError
  <2> QED BY <2>1, <2>2, <2>3 DEF Told, Results
<1> QED BY <1>1, <1>2, <1>3 DEF Fit

-----------------------------------------------------------------------------
(***************************************************************************)
(* The steps: one that answers a request, one that throws, one that returns a   *)
(* completion to its caller, and the others, which end no request.            *)
(***************************************************************************)
Answers(r, what, answer) ==
  /\ stage[r] \in {"spawned", "attempt", "backoff"}
  /\ Answered(r, what, answer)
  /\ Fit(what, answer)
  /\ what = ByDeadline /\ r \in Calls => AttemptDue(r) \/ DeadlineDue(r)
  /\ r = Connect /\ what = ByReply /\ ~freed => handle'
  /\ r \in Calls => handle' = handle
  /\ client = "none" \/ handle' = handle
  /\ UNCHANGED <<client, freed, timeVars, result>>

Refuses(r, code) ==
  /\ stage[r] = IF r = Connect THEN "idle" ELSE "entered"
  /\ code \in BridgeCodes /\ Justified(code)
  /\ Throws(r, code)
  /\ UNCHANGED <<clientVars, timeVars, options, completion>>

Moves(r, from, to) ==
  /\ stage[r] = from /\ from \notin Over /\ to \in Stages \ Over
  /\ stage' = [stage EXCEPT ![r] = to]
  /\ UNCHANGED <<clientVars, cause, completion, result>>

LEMMA Members == Connect \in Requests /\ \A c \in Calls : c \in Requests /\ c # Connect
BY CallsAssumption DEF Requests

LEMMA AnsweringSteps ==
  ASSUME ClientInv, NEW r \in Requests,
         \/ r = Connect /\ (Connected \/ ConnectRefused \/ ConnectFails)
         \/ r \in Calls /\ (DispatchFails(r) \/ Reply(r) \/ Deadline(r))
         \/ Interrupt(r)
  PROVE  \E what, answer : Answers(r, what, answer)
<1> USE Members
<1>1. CASE r = Connect /\ Connected
  <2>1. CASE freed
    <3>1. Answered(Connect, ByBridge(StaleHandle), BridgeError(StaleHandle))
      BY <1>1, <2>1 DEF Connected
    <3>2. Fit(ByBridge(StaleHandle), BridgeError(StaleHandle))
      BY <2>1 DEF Fit, Justified, BridgeCodes, StaleHandle, ShuttingDown
    <3>3. ByBridge(StaleHandle) # ByReply /\ ByBridge(StaleHandle) # ByDeadline
      BY DEF ByBridge, ByReply, ByDeadline
    <3>4. client = "none"
      BY <1>1 DEF Connected, ClientInv, HandleInv
    <3> QED BY <1>1, <3>1, <3>2, <3>3, <3>4 DEF Answers, Connected
  <2>2. CASE ~freed
    <3>1. Answered(Connect, ByReply, Ack("handle")) /\ handle'
      BY <1>1, <2>2 DEF Connected
    <3>2. Fit(ByReply, Ack("handle")) /\ ByReply # ByDeadline
      BY DEF Fit, ByReply, ByDeadline
    <3>3. client = "none"
      BY <1>1 DEF Connected, ClientInv, HandleInv
    <3> QED BY <1>1, <3>1, <3>2, <3>3 DEF Answers, Connected
  <2> QED BY <2>1, <2>2
<1>2. CASE r = Connect /\ ConnectRefused
  <2>1. CASE \E code \in ServerCodes :
               Answered(Connect, ByPeer(code), ConnectFailure(FromPeer(code)))
    <3>1. PICK code \in ServerCodes :
               Answered(Connect, ByPeer(code), ConnectFailure(FromPeer(code)))
      BY <2>1
    <3>2. Fit(ByPeer(code), ConnectFailure(FromPeer(code)))
      BY RpcErrors DEF Fit, ConnectFailure
    <3>3. ByPeer(code) # ByReply /\ ByPeer(code) # ByDeadline
      BY DEF ByPeer, ByReply, ByDeadline
    <3> QED BY <1>2, <3>1, <3>2, <3>3 DEF Answers, ConnectRefused, clientVars
  <2>2. CASE Answered(Connect, ByDeadline, ConnectFailure(LocallyExpired))
    <3>1. Fit(ByDeadline, ConnectFailure(LocallyExpired)) /\ ByDeadline # ByReply
      BY RpcErrors DEF Fit, ConnectFailure, ByReply, ByDeadline
    <3> QED BY <1>2, <2>2, <3>1 DEF Answers, ConnectRefused, clientVars
  <2> QED BY <1>2, <2>1, <2>2 DEF ConnectRefused
<1>3. ASSUME NEW code \in BridgeCodes, Justified(code),
             Answered(r, ByBridge(code), BridgeError(code)),
             stage[r] \in {"spawned", "attempt", "backoff"}, UNCHANGED <<clientVars, timeVars, result>>
      PROVE  \E what, answer : Answers(r, what, answer)
  <2>1. Fit(ByBridge(code), BridgeError(code))
    BY <1>3 DEF Fit
  <2>2. ByBridge(code) # ByReply /\ ByBridge(code) # ByDeadline
    BY DEF ByBridge, ByReply, ByDeadline
  <2> QED BY <1>3, <2>1, <2>2 DEF Answers, clientVars
<1>4. CASE r = Connect /\ ConnectFails
  <2>1. Failed \in BridgeCodes /\ Justified(Failed)
    BY DEF BridgeCodes, Justified, Failed, StaleHandle, ShuttingDown
  <2> QED BY <1>3, <1>4, <2>1 DEF ConnectFails
<1>5. CASE r \in Calls /\ DispatchFails(r)
  <2>1. InvalidArgument \in BridgeCodes /\ Justified(InvalidArgument)
    BY DEF BridgeCodes, Justified, InvalidArgument, StaleHandle, ShuttingDown
  <2> QED BY <1>3, <1>5, <2>1 DEF DispatchFails
<1>6. CASE Interrupt(r)
  <2>1. PICK code \in {Cancelled, Panic} \cup (IF freed THEN {ShuttingDown} ELSE {}) :
          Answered(r, ByBridge(code), BridgeError(code))
    BY <1>6 DEF Interrupt
  <2>2. code \in BridgeCodes /\ Justified(code)
    BY <2>1 DEF BridgeCodes, Justified, Cancelled, Panic, StaleHandle, ShuttingDown
  <2> QED BY <1>3, <1>6, <2>1, <2>2 DEF Interrupt, InFlight
<1>7. CASE r \in Calls /\ Reply(r)
  <2>1. Fit(ByReply, Ack("response")) /\ ByReply # ByDeadline
    BY DEF Fit, ByReply, ByDeadline
  <2> QED BY <1>7, <2>1 DEF Answers, Reply, clientVars
<1>8. CASE r \in Calls /\ Deadline(r)
  <2>1. Fit(ByDeadline, RpcError(FromPeer(DEADLINE_EXCEEDED)))
    BY RpcErrors DEF Fit
  <2> QED BY <1>8, <2>1 DEF Answers, Deadline, DeadlineDue, InFlight, clientVars
<1> QED BY <1>1, <1>2, <1>4, <1>5, <1>6, <1>7, <1>8

LEMMA FailingAttempts ==
  ASSUME NEW c \in Calls, PeerFails(c) \/ AttemptExpires(c)
  PROVE  \/ \E what, answer : Answers(c, what, answer)
         \/ Moves(c, "attempt", "backoff") /\ UNCHANGED <<options, timeVars>>
<1> USE Members
<1>1. CASE PeerFails(c)
  <2>1. PICK code \in ServerCodes : AttemptFails(c, ByPeer(code), FromPeer(code))
    BY <1>1 DEF PeerFails
  <2>2. Fit(ByPeer(code), RpcError(FromPeer(code)))
    BY RpcErrors DEF Fit
  <2>3. ByPeer(code) # ByReply /\ ByPeer(code) # ByDeadline
    BY DEF ByPeer, ByReply, ByDeadline
  <2>4. CASE Answered(c, ByPeer(code), RpcError(FromPeer(code)))
    BY <2>1, <2>2, <2>3, <2>4 DEF Answers, AttemptFails, clientVars
  <2>5. CASE stage' = [stage EXCEPT ![c] = "backoff"] /\ UNCHANGED <<options, cause, completion>>
    BY <2>1, <2>5 DEF Moves, AttemptFails, Over, Stages
  <2> QED BY <2>1, <2>4, <2>5 DEF AttemptFails
<1>2. CASE AttemptExpires(c)
  <2>1. AttemptDue(c) /\ AttemptFails(c, ByDeadline, LocallyExpired)
    BY <1>2 DEF AttemptExpires
  <2>2. Fit(ByDeadline, RpcError(LocallyExpired)) /\ ByDeadline # ByReply
    BY RpcErrors DEF Fit, ByReply, ByDeadline
  <2>4. CASE Answered(c, ByDeadline, RpcError(LocallyExpired))
    BY <2>1, <2>2, <2>4 DEF Answers, AttemptFails, clientVars
  <2>5. CASE stage' = [stage EXCEPT ![c] = "backoff"] /\ UNCHANGED <<options, cause, completion>>
    BY <2>1, <2>5 DEF Moves, AttemptFails, Over, Stages
  <2> QED BY <2>1, <2>4, <2>5 DEF AttemptFails
<1> QED BY <1>1, <1>2

LEMMA Starting ==
  ASSUME NEW p \in ConnectParameters, StartConnect(p)
  PROVE  \/ \E code : Refuses(Connect, code)
         \/ /\ Moves(Connect, "idle", "spawned") /\ UNCHANGED timeVars
            /\ options' = [disabled |-> p.disabled, sent |-> ConnectionOptions(ClientConfig(p))]
<1>1. CASE UNCHANGED options /\ freed /\ RuntimeGone(Connect)
  <2>1. PICK code \in {StaleHandle, ShuttingDown} : Throws(Connect, code)
    BY <1>1 DEF RuntimeGone
  <2>2. code \in BridgeCodes /\ Justified(code)
    BY <1>1, <2>1 DEF BridgeCodes, Justified
  <2> QED BY <1>1, <2>1, <2>2 DEF Refuses, StartConnect
<1>2. CASE UNCHANGED options /\ Throws(Connect, InvalidArgument)
  <2>1. InvalidArgument \in BridgeCodes /\ Justified(InvalidArgument)
    BY DEF BridgeCodes, Justified, InvalidArgument, StaleHandle, ShuttingDown
  <2> QED BY <1>2, <2>1 DEF Refuses, StartConnect
<1>3. CASE /\ options' = [disabled |-> p.disabled, sent |-> ConnectionOptions(ClientConfig(p))]
           /\ stage' = [stage EXCEPT ![Connect] = "spawned"]
           /\ UNCHANGED <<cause, result>>
  BY <1>3 DEF Moves, StartConnect, Over, Stages
<1> QED BY <1>1, <1>2, <1>3 DEF StartConnect

LEMMA Issuing ==
  ASSUME ClientInv, NEW c \in Calls, Issue(c)
  PROVE  \/ \E code : Refuses(c, code)
         \/ Moves(c, "entered", "spawned") /\ UNCHANGED <<options, timeVars>>
<1> USE Members
<1>1. CASE freed /\ RuntimeGone(c)
  <2>1. PICK code \in {StaleHandle, ShuttingDown} : Throws(c, code)
    BY <1>1 DEF RuntimeGone
  <2>2. code \in BridgeCodes /\ Justified(code)
    BY <1>1, <2>1 DEF BridgeCodes, Justified
  <2> QED BY <1>1, <2>1, <2>2 DEF Refuses, Issue
<1>2. CASE ~freed /\ ~handle /\ Throws(c, StaleHandle)
  <2>1. client = "closed"
    BY <1>2 DEF Issue, ClientInv, HandleInv, Shape
  <2>2. StaleHandle \in BridgeCodes /\ Justified(StaleHandle)
    BY <2>1 DEF BridgeCodes, Justified, StaleHandle, ShuttingDown
  <2> QED BY <1>2, <2>2 DEF Refuses, Issue
<1>3. CASE stage' = [stage EXCEPT ![c] = "spawned"] /\ UNCHANGED <<cause, result>>
  BY <1>3 DEF Moves, Issue, Over, Stages
<1> QED BY <1>1, <1>2, <1>3 DEF Issue

\* Every step, by what it does to requests.
LEMMA Steps ==
  ASSUME ClientInv, [Next]_vars
  PROVE  \/ \E p \in ConnectParameters :
              /\ Moves(Connect, "idle", "spawned") /\ UNCHANGED timeVars
              /\ options' = [disabled |-> p.disabled, sent |-> ConnectionOptions(ClientConfig(p))]
         \/ \E r \in Requests : \E code : Refuses(r, code)
         \/ \E r \in Requests : \E what, answer : Answers(r, what, answer)
         \/ Close \/ CloseFree \/ RuntimeFree
         \/ \E c \in Calls : Enter(c)
         \/ \E c \in Calls : Moves(c, "entered", "spawned") /\ UNCHANGED <<options, timeVars>>
         \/ \E c \in Calls : Dispatch(c)
         \/ \E c \in Calls : Tick(c)
         \/ \E c \in Calls : Moves(c, "attempt", "backoff") /\ UNCHANGED <<options, timeVars>>
         \/ \E c \in Calls : Retry(c)
         \/ \E r \in Requests : Return(r)
         \/ UNCHANGED vars
<1> USE Members
<1>1. CASE \E p \in ConnectParameters : StartConnect(p)
  BY <1>1, Starting, Zenon
<1>2. CASE Connected \/ ConnectRefused \/ ConnectFails
  BY <1>2, AnsweringSteps, Zenon
<1>3. ASSUME NEW c \in Calls, DispatchFails(c) \/ Reply(c) \/ Deadline(c)
      PROVE  \E what, answer : Answers(c, what, answer)
  BY <1>3, AnsweringSteps, Zenon
<1>4. ASSUME NEW c \in Calls, PeerFails(c) \/ AttemptExpires(c)
      PROVE  \/ \E what, answer : Answers(c, what, answer)
             \/ Moves(c, "attempt", "backoff") /\ UNCHANGED <<options, timeVars>>
  BY <1>4, FailingAttempts, Zenon
<1>5. ASSUME NEW c \in Calls, Issue(c)
      PROVE  \/ \E code : Refuses(c, code)
             \/ Moves(c, "entered", "spawned") /\ UNCHANGED <<options, timeVars>>
  BY <1>5, Issuing, Zenon
<1>6. ASSUME NEW r \in Requests, Interrupt(r) PROVE \E what, answer : Answers(r, what, answer)
  BY <1>6, AnsweringSteps, Zenon
<1> QED BY <1>1, <1>2, <1>3, <1>4, <1>5, <1>6, Zenon DEF Next

-----------------------------------------------------------------------------
(***************************************************************************)
(* Types.                                                                  *)
(***************************************************************************)
LEMMA HandleStaysBoolean ==
  ASSUME handle \in BOOLEAN, [Next]_vars
  PROVE  handle' \in BOOLEAN
<1>1. CASE Connected \/ CloseFree \/ RuntimeFree
  BY <1>1, Zenon DEF Connected, CloseFree, RuntimeFree
<1>2. CASE \/ ConnectRefused \/ ConnectFails \/ Close \/ UNCHANGED vars
           \/ \E p \in ConnectParameters : StartConnect(p)
  BY <1>2 DEF ConnectRefused, ConnectFails, Close, vars, StartConnect, clientVars
<1>3. CASE \E c \in Calls : Enter(c) \/ Issue(c) \/ Dispatch(c) \/ DispatchFails(c) \/ Tick(c)
  BY <1>3 DEF Enter, Issue, Dispatch, DispatchFails, Tick, clientVars
<1>4. CASE \E c \in Calls :
             Reply(c) \/ PeerFails(c) \/ AttemptExpires(c) \/ Retry(c) \/ Deadline(c)
  BY <1>4 DEF Reply, PeerFails, AttemptExpires, AttemptFails, Retry, Deadline, clientVars
<1>5. CASE \E r \in Requests : Interrupt(r) \/ Return(r)
  BY <1>5 DEF Interrupt, Return, clientVars
<1> QED BY <1>1, <1>2, <1>3, <1>4, <1>5, Zenon DEF Next

LEMMA ShapeStep ==
  ASSUME ClientInv, [Next]_vars
  PROVE  Shape' /\ TimeoutsInv'
<1> USE Members
<1>s. Shape /\ TimeoutsInv /\ Timeouts \subseteq Nat
  BY TimesAssumption DEF ClientInv
<1>0. ASSUME client' \in {"none", "open", "closed"}, handle' \in BOOLEAN, freed' \in BOOLEAN,
             stage' \in [Requests -> Stages], UNCHANGED <<timeVars>>,
             cause' = [r \in Requests |-> cause'[r]],
             completion' \in [Requests -> Completions], result' \in [Requests -> Results]
      PROVE  Shape' /\ TimeoutsInv'
  <2>1. /\ timeout' \in [Calls -> Nat] /\ elapsed' \in [Calls -> Nat] /\ age' \in [Calls -> Nat]
        /\ TimeoutsInv'
    BY <1>s, <1>0 DEF Shape, TimeoutsInv, timeVars
  <2> QED BY <1>0, <2>1, Zenon DEF Shape
<1>c. ASSUME UNCHANGED clientVars
      PROVE  client' \in {"none", "open", "closed"} /\ handle' \in BOOLEAN /\ freed' \in BOOLEAN
  BY <1>s, <1>c, Zenon DEF Shape, clientVars
<1>q. ASSUME UNCHANGED <<cause, completion, result>>
      PROVE  /\ cause' = [r \in Requests |-> cause'[r]]
             /\ completion' \in [Requests -> Completions] /\ result' \in [Requests -> Results]
  BY <1>s, <1>q DEF Shape
<1>m. ASSUME NEW r \in Requests, NEW from, NEW to, Moves(r, from, to)
      PROVE  stage' \in [Requests -> Stages]
  BY <1>s, <1>m DEF Shape, Moves
<1>1. ASSUME NEW r \in Requests, NEW from, NEW to, Moves(r, from, to), UNCHANGED timeVars
      PROVE  Shape' /\ TimeoutsInv'
  <2>1. stage' \in [Requests -> Stages] /\ UNCHANGED clientVars /\ UNCHANGED <<cause, completion, result>>
    BY <1>1, <1>m DEF Moves
  <2> QED BY <1>1, <2>1, <1>0, <1>c, <1>q
<1>2. ASSUME NEW r \in Requests, NEW code, Refuses(r, code) PROVE Shape' /\ TimeoutsInv'
  <2>1. /\ stage' = [stage EXCEPT ![r] = "returned"] /\ cause' = [cause EXCEPT ![r] = ByBridge(code)]
        /\ result' = [result EXCEPT ![r] = [outcome |-> "failed", status |-> code]]
        /\ UNCHANGED clientVars /\ UNCHANGED timeVars /\ completion' = completion
    BY <1>2 DEF Refuses, Throws
  <2>2. [outcome |-> "failed", status |-> code] \in Results
    BY <1>2, Codes DEF Refuses, Results
  <2>3. stage' \in [Requests -> Stages] /\ result' \in [Requests -> Results]
    BY <1>s, <2>1, <2>2 DEF Shape, Stages
  <2>4. cause' = [q \in Requests |-> cause'[q]] /\ completion' \in [Requests -> Completions]
    BY <1>s, <2>1 DEF Shape
  <2> QED BY <2>1, <2>3, <2>4, <1>0, <1>c
<1>3. ASSUME NEW r \in Requests, NEW what, NEW answer, Answers(r, what, answer)
      PROVE  Shape' /\ TimeoutsInv'
  <2>1. /\ stage' = [stage EXCEPT ![r] = "answered"] /\ cause' = [cause EXCEPT ![r] = what]
        /\ completion' = [completion EXCEPT ![r] = answer] /\ answer \in Completions
    BY <1>3, ReadTells DEF Answers, Answered
  <2>2. stage' \in [Requests -> Stages] /\ completion' \in [Requests -> Completions]
    BY <1>s, <2>1 DEF Shape, Stages
  <2>3. cause' = [q \in Requests |-> cause'[q]] /\ result' \in [Requests -> Results]
    BY <1>s, <1>3, <2>1 DEF Shape, Answers
  <2>4. handle' \in BOOLEAN
    BY <1>s, HandleStaysBoolean, Zenon DEF Shape
  <2>5. client' \in {"none", "open", "closed"} /\ freed' \in BOOLEAN /\ UNCHANGED timeVars
    BY <1>s, <1>3, Zenon DEF Answers, Shape
  <2> QED BY <2>2, <2>3, <2>4, <2>5, <1>0
<1>4. CASE Close \/ CloseFree \/ RuntimeFree
  <2>1. client' \in {"none", "open", "closed"} /\ handle' \in BOOLEAN /\ freed' \in BOOLEAN
    BY <1>4, <1>s, Zenon DEF Close, CloseFree, RuntimeFree, Shape
  <2>2. UNCHANGED <<stage, timeVars, cause, completion, result>>
    BY <1>4 DEF Close, CloseFree, RuntimeFree
  <2>3. stage' \in [Requests -> Stages] /\ UNCHANGED timeVars
    BY <2>2, <1>s DEF Shape
  <2> QED BY <2>1, <2>2, <2>3, <1>0, <1>q
<1>5. ASSUME NEW c \in Calls, Enter(c) PROVE Shape' /\ TimeoutsInv'
  <2>1. PICK t \in Timeouts : timeout' = [timeout EXCEPT ![c] = t]
    BY <1>5 DEF Enter
  <2>2. timeout' \in [Calls -> Nat] /\ TimeoutsInv'
    BY <2>1, <1>s DEF Shape, TimeoutsInv
  <2>3. /\ stage' \in [Requests -> Stages] /\ elapsed' \in [Calls -> Nat] /\ age' \in [Calls -> Nat]
    BY <1>5, <1>s DEF Enter, Shape, Stages
  <2>4. UNCHANGED clientVars /\ UNCHANGED <<cause, completion, result>>
    BY <1>5 DEF Enter
  <2> QED BY <2>2, <2>3, <2>4, <1>c, <1>q, Zenon DEF Shape
<1>6. ASSUME NEW c \in Calls, Dispatch(c) \/ Tick(c) \/ Retry(c) PROVE Shape' /\ TimeoutsInv'
  <2>1. /\ stage' \in [Requests -> Stages] /\ elapsed' \in [Calls -> Nat] /\ age' \in [Calls -> Nat]
    BY <1>6, <1>s DEF Dispatch, Tick, Retry, Shape, Stages, timeVars
  <2>2. timeout' \in [Calls -> Nat] /\ TimeoutsInv'
    BY <1>6, <1>s DEF Dispatch, Tick, Retry, Shape, TimeoutsInv, timeVars
  <2>3. UNCHANGED clientVars /\ UNCHANGED <<cause, completion, result>>
    BY <1>6 DEF Dispatch, Tick, Retry
  <2> QED BY <2>1, <2>2, <2>3, <1>c, <1>q, Zenon DEF Shape
<1>7. ASSUME NEW r \in Requests, Return(r) PROVE Shape' /\ TimeoutsInv'
  <2>1. Read(completion[r]) \in Results
    BY <1>7, ReadTells DEF Return, ClientInv, AnswerInv, AnswerOK
  <2>2. /\ stage' \in [Requests -> Stages] /\ result' \in [Requests -> Results]
        /\ cause' = [q \in Requests |-> cause'[q]] /\ completion' \in [Requests -> Completions]
    BY <1>s, <1>7, <2>1 DEF Shape, Return, Stages
  <2>3. client' \in {"none", "open", "closed"} /\ UNCHANGED timeVars
    BY <1>s, <1>7 DEF Shape, Return
  <2>4. handle' \in BOOLEAN /\ freed' \in BOOLEAN
    BY <1>s, <1>7, Zenon DEF Shape, Return
  <2> QED BY <2>2, <2>3, <2>4, <1>0
<1>8. CASE UNCHANGED vars
  <2>1. /\ UNCHANGED clientVars /\ UNCHANGED <<cause, completion, result>> /\ UNCHANGED timeVars
        /\ stage' = stage
    BY <1>8 DEF vars, clientVars, timeVars
  <2>2. stage' \in [Requests -> Stages]
    BY <2>1, <1>s DEF Shape
  <2> QED BY <2>1, <2>2, <1>0, <1>c, <1>q
<1> QED BY Steps, <1>1, <1>2, <1>3, <1>4, <1>5, <1>6, <1>7, <1>8

-----------------------------------------------------------------------------
(***************************************************************************)
(* What callers are told.                                                  *)
(***************************************************************************)
LEMMA AnswerStep ==
  ASSUME ClientInv, [Next]_vars
  PROVE  AnswerInv'
<1> USE Members
<1>s. Shape /\ AnswerInv
  BY DEF ClientInv
<1>j. (client = "closed" => client' = "closed") /\ (freed => freed') =>
        \A code : Justified(code) => Justified(code)'
  BY DEF Justified
\* Requests that a step leaves alone.
<1>0. ASSUME NEW r \in Requests, client = "closed" => client' = "closed", freed => freed',
             stage'[r] = stage[r], cause'[r] = cause[r], completion'[r] = completion[r],
             result'[r] = result[r]
      PROVE  AnswerOK(r)'
  <2>1. AnswerOK(r)
    BY <1>s DEF AnswerInv
  <2>2. \A code : Justified(code) => Justified(code)'
    BY <1>0, <1>j
  <2>3. Fit(cause[r], completion[r]) => Fit(cause[r], completion[r])'
    BY <1>0, <2>2 DEF Fit
  <2>4. Told(cause[r], result[r]) => Told(cause[r], result[r])'
    BY <1>0, <2>2 DEF Told
  <2> QED BY <1>0, <2>1, <2>3, <2>4 DEF AnswerOK
\* Requests that a step takes from one stage to another before they are over.
<1>m. ASSUME NEW r \in Requests, NEW from, NEW to, Moves(r, from, to)
      PROVE  AnswerInv'
  <2>1. UNCHANGED <<client, freed, cause, completion, result>>
    BY <1>m, Zenon DEF Moves, clientVars
  <2>2. AnswerOK(r)'
    BY <1>s, <1>m DEF AnswerInv, AnswerOK, Moves, Shape, Over
  <2>3. ASSUME NEW q \in Requests, q # r PROVE AnswerOK(q)'
    BY <1>s, <1>m, <2>1, <2>3, <1>0 DEF Moves, Shape
  <2> QED BY <2>2, <2>3 DEF AnswerInv
<1>1. ASSUME NEW r \in Requests, NEW code, Refuses(r, code)
      PROVE  AnswerInv'
  <2>1. /\ UNCHANGED <<client, freed, completion>>
        /\ stage' = [stage EXCEPT ![r] = "returned"] /\ cause' = [cause EXCEPT ![r] = ByBridge(code)]
        /\ result' = [result EXCEPT ![r] = [outcome |-> "failed", status |-> code]]
    BY <1>1 DEF Refuses, Throws, clientVars
  <2>2. /\ stage'[r] = "returned" /\ cause'[r] = ByBridge(code)
        /\ result'[r] = [outcome |-> "failed", status |-> code]
        /\ \A q \in Requests \ {r} :
             stage'[q] = stage[q] /\ cause'[q] = cause[q] /\ result'[q] = result[q]
    BY <1>s, <2>1 DEF Shape
  <2>3. code \in BridgeCodes /\ Justified(code)'
    BY <1>1, <2>1 DEF Refuses, Justified
  <2>4. AnswerOK(r)'
    BY <2>2, <2>3 DEF AnswerOK, Told, Over
  <2>5. ASSUME NEW q \in Requests, q # r PROVE AnswerOK(q)'
    BY <2>1, <2>2, <2>5, <1>0
  <2> QED BY <2>4, <2>5 DEF AnswerInv
<1>2. ASSUME NEW r \in Requests, NEW what, NEW answer, Answers(r, what, answer)
      PROVE  AnswerInv'
  <2>1. /\ UNCHANGED <<client, freed, result>> /\ Fit(what, answer)
        /\ stage' = [stage EXCEPT ![r] = "answered"] /\ cause' = [cause EXCEPT ![r] = what]
        /\ completion' = [completion EXCEPT ![r] = answer]
    BY <1>2 DEF Answers, Answered
  <2>2. /\ stage'[r] = "answered" /\ cause'[r] = what /\ completion'[r] = answer
        /\ \A q \in Requests \ {r} :
             stage'[q] = stage[q] /\ cause'[q] = cause[q] /\ completion'[q] = completion[q]
    BY <1>s, <2>1 DEF Shape
  <2>3. \A code : Justified(code) => Justified(code)'
    BY <2>1, <1>j
  <2>4. AnswerOK(r)'
    BY <2>1, <2>2, <2>3 DEF AnswerOK, Fit, Over
  <2>5. ASSUME NEW q \in Requests, q # r PROVE AnswerOK(q)'
    BY <2>1, <2>2, <2>5, <1>0
  <2> QED BY <2>4, <2>5 DEF AnswerInv
<1>3. ASSUME NEW r \in Requests, Return(r)
      PROVE  AnswerInv'
  <2>1. Fit(cause[r], completion[r])
    BY <1>s, <1>3 DEF Return, AnswerInv, AnswerOK
  <2>2. /\ stage[r] = "answered" /\ UNCHANGED <<freed, cause, completion>>
        /\ stage' = [stage EXCEPT ![r] = "returned"]
        /\ result' = [result EXCEPT ![r] = Read(completion[r])]
    BY <1>3 DEF Return
  <2>3. client = "closed" => client' = "closed"
    BY <1>3 DEF Return, ClientInv, HandleInv
  <2>4. /\ stage'[r] = "returned" /\ result'[r] = Read(completion[r])
        /\ \A q \in Requests \ {r} : stage'[q] = stage[q] /\ result'[q] = result[q]
    BY <1>s, <2>2 DEF Shape
  <2>5. Told(cause[r], Read(completion[r]))
    BY <2>1, ReadTells
  <2>6. \A code : Justified(code) => Justified(code)'
    BY <2>2, <2>3, <1>j
  <2>7. AnswerOK(r)'
    BY <2>2, <2>4, <2>5, <2>6 DEF AnswerOK, Told, Over
  <2>8. ASSUME NEW q \in Requests, q # r PROVE AnswerOK(q)'
    BY <2>2, <2>3, <2>4, <2>8, <1>0
  <2> QED BY <2>7, <2>8 DEF AnswerInv
<1>4. ASSUME client = "closed" => client' = "closed", freed => freed',
             UNCHANGED <<stage, cause, completion, result>>
      PROVE  AnswerInv'
  BY <1>4, <1>0 DEF AnswerInv
<1>5. CASE Close \/ CloseFree \/ RuntimeFree \/ (\E c \in Calls : Tick(c)) \/ UNCHANGED vars
  BY <1>5, <1>4 DEF Close, CloseFree, RuntimeFree, Tick, vars, clientVars
<1>6. ASSUME NEW c \in Calls, Enter(c) \/ Dispatch(c) \/ Retry(c)
      PROVE  \E from, to : Moves(c, from, to)
  <2>1. \E from \in {"idle", "spawned", "backoff"}, to \in {"entered", "attempt"} : Moves(c, from, to)
    BY <1>6 DEF Enter, Dispatch, Retry, Moves, Over, Stages
  <2> QED BY <2>1
<1> QED BY Steps, <1>m, <1>1, <1>2, <1>3, <1>5, <1>6

-----------------------------------------------------------------------------
(***************************************************************************)
(* The client's handle.                                                    *)
(***************************************************************************)
LEMMA HandleStep ==
  ASSUME ClientInv, [Next]_vars
  PROVE  HandleInv'
<1> USE Members
<1>s. Shape /\ HandleInv /\ AnswerInv
  BY DEF ClientInv
<1>m. ASSUME NEW r \in Requests, NEW from, NEW to, Moves(r, from, to), from = "idle" => r = Connect \/ client # "none"
      PROVE  HandleInv'
  BY <1>s, <1>m DEF HandleInv, Shape, Moves, Over, clientVars
<1>1. ASSUME NEW r \in Requests, NEW code, Refuses(r, code)
      PROVE  HandleInv'
  <2>1. /\ stage' = [stage EXCEPT ![r] = "returned"] /\ UNCHANGED clientVars
        /\ cause' = [cause EXCEPT ![r] = ByBridge(code)]
        /\ stage[r] = IF r = Connect THEN "idle" ELSE "entered"
    BY <1>1 DEF Refuses, Throws
  <2>2. r # Connect => r \in Calls /\ client # "none"
    BY <1>s, <2>1 DEF HandleInv, Requests
  <2> QED BY <1>s, <2>1, <2>2 DEF HandleInv, Shape, clientVars
<1>2. ASSUME NEW r \in Requests, NEW what, NEW answer, Answers(r, what, answer)
      PROVE  HandleInv'
  <2>1. /\ stage' = [stage EXCEPT ![r] = "answered"] /\ cause' = [cause EXCEPT ![r] = what]
        /\ UNCHANGED <<client, freed>> /\ stage[r] \in {"spawned", "attempt", "backoff"}
    BY <1>2 DEF Answers, Answered
  <2>2. CASE r = Connect
    <3>1. client = "none" /\ (what = ByReply /\ ~freed => handle')
      BY <1>s, <1>2, <2>1, <2>2 DEF HandleInv, Answers
    <3> QED BY <1>s, <2>1, <2>2, <3>1 DEF HandleInv, Shape
  <2>3. CASE r \in Calls
    <3>1. handle' = handle /\ client # "none"
      BY <1>s, <1>2, <2>1, <2>3 DEF HandleInv, Answers
    <3> QED BY <1>s, <2>1, <2>3, <3>1 DEF HandleInv, Shape
  <2> QED BY <2>2, <2>3 DEF Requests
<1>3. ASSUME NEW r \in Requests, Return(r)
      PROVE  HandleInv'
  <2>1. /\ stage[r] = "answered" /\ stage' = [stage EXCEPT ![r] = "returned"]
        /\ UNCHANGED <<handle, freed, cause>>
    BY <1>3 DEF Return
  <2>2. CASE r = Connect
    <3>1. client' = "open" => cause[Connect] = ByReply
      <4>1. Read(completion[r]).outcome = "value" => cause[r] = ByReply
        BY <1>s, <2>1, ReadTells DEF AnswerInv, AnswerOK
      <4>2. result'[r] = Read(completion[r])
        BY <1>s, <1>3 DEF Return, Shape
      <4>3. client = "none"
        BY <1>s, <2>1, <2>2 DEF HandleInv
      <4> QED BY <1>3, <2>2, <4>1, <4>2, <4>3 DEF Return
    <3>2. client = "none" /\ (client' = "none" \/ client' = "open")
      BY <1>s, <1>3, <2>1, <2>2 DEF HandleInv, Return
    <3> QED BY <1>s, <2>1, <2>2, <3>1, <3>2 DEF HandleInv, Shape
  <2>3. CASE r # Connect
    <3>1. client' = client
      BY <1>3, <2>3 DEF Return
    <3> QED BY <1>s, <2>1, <2>3, <3>1 DEF HandleInv, Shape
  <2> QED BY <2>2, <2>3
<1>4. CASE Close
  BY <1>4, <1>s DEF Close, HandleInv
<1>5. CASE CloseFree
  BY <1>5, <1>s DEF CloseFree, HandleInv
<1>6. CASE RuntimeFree
  BY <1>6, <1>s DEF RuntimeFree, HandleInv
<1>7. CASE (\E c \in Calls : Tick(c)) \/ UNCHANGED vars
  BY <1>7, <1>s DEF HandleInv, Tick, vars, clientVars
<1>8. ASSUME NEW c \in Calls, Enter(c) \/ Dispatch(c) \/ Retry(c)
      PROVE  HandleInv'
  <2>1. \E from \in {"idle", "spawned", "backoff"}, to \in {"entered", "attempt"} :
          Moves(c, from, to) /\ (from = "idle" => client # "none")
    BY <1>8 DEF Enter, Dispatch, Retry, Moves, Over, Stages
  <2> QED BY <2>1, <1>m
<1> QED BY Steps, <1>m, <1>1, <1>2, <1>3, <1>4, <1>5, <1>6, <1>7, <1>8

-----------------------------------------------------------------------------
(***************************************************************************)
(* Deadlines.                                                              *)
(***************************************************************************)
LEMMA ClockStep ==
  ASSUME ClientInv, [Next]_vars
  PROVE  ClockInv'
<1> USE Members
<1>s. Shape /\ ClockInv /\ AnswerInv /\ CoreDefault \in Nat
  BY TimesAssumption DEF ClientInv
<1>m. ASSUME NEW r \in Requests, NEW from, NEW to, Moves(r, from, to), UNCHANGED timeVars,
             to \in {"idle", "entered", "spawned"} => from \in {"idle", "entered"}
      PROVE  ClockInv'
  BY <1>s, <1>m DEF ClockInv, Shape, Moves, Over, timeVars
<1>1. ASSUME NEW r \in Requests, NEW code, Refuses(r, code)
      PROVE  ClockInv'
  <2>1. /\ stage' = [stage EXCEPT ![r] = "returned"] /\ UNCHANGED timeVars
        /\ cause' = [cause EXCEPT ![r] = ByBridge(code)]
        /\ ByBridge(code).type # "deadline"
    BY <1>1 DEF Refuses, Throws, ByBridge
  <2> QED BY <1>s, <2>1 DEF ClockInv, Shape, timeVars
<1>2. ASSUME NEW r \in Requests, NEW what, NEW answer, Answers(r, what, answer)
      PROVE  ClockInv'
  <2>1. /\ stage' = [stage EXCEPT ![r] = "answered"] /\ cause' = [cause EXCEPT ![r] = what]
        /\ UNCHANGED timeVars
    BY <1>2 DEF Answers, Answered
  <2>2. what.type = "deadline" => what = ByDeadline
    BY <1>2 DEF Answers, Fit, ByReply, ByPeer, ByBridge, ByDeadline
  <2>3. ASSUME r \in Calls, timeout[r] > 0, what = ByDeadline PROVE elapsed[r] = timeout[r]
    <3>1. AttemptDue(r) \/ DeadlineDue(r)
      BY <1>2, <2>3 DEF Answers
    <3> QED BY <1>s, <2>3, <3>1 DEF AttemptDue, AttemptLimit, DeadlineDue, ClockInv, Shape
  <2> QED BY <1>s, <2>1, <2>2, <2>3 DEF ClockInv, Shape, timeVars
<1>3. ASSUME NEW r \in Requests, Return(r)
      PROVE  ClockInv'
  BY <1>s, <1>3 DEF Return, ClockInv, Shape, timeVars
<1>4. CASE Close \/ CloseFree \/ RuntimeFree \/ UNCHANGED vars
  BY <1>4, <1>s DEF Close, CloseFree, RuntimeFree, vars, ClockInv, timeVars
<1>5. ASSUME NEW c \in Calls, Enter(c) PROVE ClockInv'
  <2>1. PICK t \in Nat : timeout' = [timeout EXCEPT ![c] = t]
    BY <1>5, TimesAssumption DEF Enter
  <2>2. /\ stage' = [stage EXCEPT ![c] = "entered"] /\ UNCHANGED <<elapsed, age, cause>>
        /\ stage[c] = "idle" /\ elapsed[c] = 0 /\ age[c] = 0 /\ cause[c].type = "none"
    BY <1>s, <1>5 DEF Enter, ClockInv, AnswerInv, AnswerOK, Over
  <2>3. ASSUME NEW d \in Calls, d # c
        PROVE  stage'[d] = stage[d] /\ timeout'[d] = timeout[d]
    BY <1>s, <2>1, <2>2, <2>3 DEF Shape
  <2>4. stage'[c] = "entered" /\ timeout'[c] = t
    BY <1>s, <2>1, <2>2 DEF Shape
  <2>5. ASSUME NEW d \in Calls
        PROVE  /\ stage'[d] \in {"idle", "entered", "spawned"} => elapsed[d] = 0 /\ age[d] = 0
               /\ timeout'[d] > 0 =>
                    /\ age[d] <= elapsed[d] /\ elapsed[d] <= timeout'[d]
                    /\ cause[d].type = "deadline" => elapsed[d] = timeout'[d]
    <3>1. CASE d = c
      BY <2>1, <2>2, <2>4, <3>1
    <3>2. CASE d # c
      BY <1>s, <2>3, <3>2 DEF ClockInv
    <3> QED BY <3>1, <3>2
  <2> QED BY <2>2, <2>5 DEF ClockInv
<1>6. ASSUME NEW c \in Calls, Dispatch(c) PROVE ClockInv'
  BY <1>s, <1>6 DEF Dispatch, ClockInv, Shape, timeVars
<1>7. ASSUME NEW c \in Calls, Tick(c) PROVE ClockInv'
  <2>1. /\ UNCHANGED <<stage, timeout, cause>> /\ stage[c] \in {"attempt", "backoff"}
        /\ elapsed' = [elapsed EXCEPT ![c] = IF timeout[c] > 0 THEN @ + 1 ELSE @]
        /\ age' = [age EXCEPT ![c] = IF stage[c] = "attempt" THEN @ + 1 ELSE @]
    BY <1>7 DEF Tick, InFlight
  <2>2. timeout[c] > 0 => elapsed[c] < timeout[c]
    BY <1>s, <1>7 DEF Tick, DeadlineDue, Shape
  <2>3. cause[c].type # "deadline"
    BY <1>s, <2>1 DEF AnswerInv, AnswerOK, Over
  <2>4. ASSUME NEW d \in Calls, d # c PROVE elapsed'[d] = elapsed[d] /\ age'[d] = age[d]
    BY <1>s, <2>1, <2>4 DEF Shape
  <2>5. /\ elapsed[c] \in Nat /\ age[c] \in Nat /\ timeout[c] \in Nat
        /\ elapsed'[c] = IF timeout[c] > 0 THEN elapsed[c] + 1 ELSE elapsed[c]
        /\ age'[c] \in {age[c], age[c] + 1}
    BY <1>s, <2>1 DEF Shape
  <2>6. ASSUME NEW d \in Calls
        PROVE  /\ stage[d] \in {"idle", "entered", "spawned"} => elapsed'[d] = 0 /\ age'[d] = 0
               /\ timeout[d] > 0 =>
                    /\ age'[d] <= elapsed'[d] /\ elapsed'[d] <= timeout[d]
                    /\ cause[d].type = "deadline" => elapsed'[d] = timeout[d]
    <3>1. CASE d = c
      BY <1>s, <2>1, <2>2, <2>3, <2>5, <3>1 DEF ClockInv
    <3>2. CASE d # c
      BY <1>s, <2>4, <3>2 DEF ClockInv
    <3> QED BY <3>1, <3>2
  <2> QED BY <2>1, <2>6 DEF ClockInv
<1>8. ASSUME NEW c \in Calls, Retry(c) PROVE ClockInv'
  BY <1>s, <1>8 DEF Retry, ClockInv, Shape
<1> QED BY Steps, <1>m, <1>1, <1>2, <1>3, <1>4, <1>5, <1>6, <1>7, <1>8

-----------------------------------------------------------------------------
(***************************************************************************)
(* TLS.                                                                    *)
(***************************************************************************)

\* The options that are sent fit the target, for every combination of parameters.
LEMMA OptionsFit ==
  ASSUME NEW p \in ConnectParameters, NEW o,
         o = [disabled |-> p.disabled, sent |-> ConnectionOptions(ClientConfig(p))]
  PROVE  /\ (o.sent.scheme = "https") = o.sent.tls
         /\ o.sent.identity \/ o.sent.ca \/ o.sent.domain => o.sent.tls
         /\ o.sent.apiKey /\ ~o.disabled => o.sent.tls
<1>1. PICK useTls \in BOOLEAN : useTls = (~p.disabled /\ (p.https \/ p.tls # {} \/ p.apiKey))
  BY Zenon
<1>2. PICK config : config = ClientConfig(p)
  OBVIOUS
<1>3. o.disabled = p.disabled /\ o.sent = ConnectionOptions(config)
  BY <1>2
<1>4. CASE useTls = TRUE
  <2>1. config = [scheme |-> "https", wellFormed |-> p.wellFormed, tls |-> TRUE,
                  apiKey |-> p.apiKey, fields |-> p.tls \ {"given"}]
    BY <1>1, <1>2, <1>4, Zenon DEF ClientConfig
  <2>2. config.tls = TRUE /\ config.scheme = "https"
    BY <2>1
  <2>3. WantsTls(config) = TRUE
    BY <2>2, Zenon DEF WantsTls
  <2>4. o.sent.scheme = "https" /\ o.sent.tls = TRUE
    BY <1>3, <2>2, <2>3 DEF ConnectionOptions
  <2> QED BY <2>4, Zenon
<1>5. CASE useTls = FALSE
  <2>1. config = [scheme |-> "http", wellFormed |-> p.wellFormed, tls |-> FALSE,
                  apiKey |-> p.apiKey, fields |-> {}]
    BY <1>1, <1>2, <1>5, Zenon DEF ClientConfig
  <2>2. config.tls = FALSE /\ config.fields = {} /\ config.scheme = "http" /\ config.apiKey = p.apiKey
    BY <2>1
  <2>3. WantsTls(config) = FALSE
    BY <2>2, Zenon DEF WantsTls
  <2>4. /\ o.sent.scheme = "http" /\ o.sent.tls = FALSE /\ o.sent.apiKey = p.apiKey
    BY <1>3, <2>2, <2>3 DEF ConnectionOptions
  <2>5. ~o.sent.identity /\ ~o.sent.ca /\ ~o.sent.domain
    BY <1>3, <2>2 DEF ConnectionOptions
  <2>6. ~(p.apiKey /\ ~p.disabled)
    BY <1>1, <1>5, Zenon
  <2>7. (o.sent.scheme = "https") = o.sent.tls
    <3>1. o.sent.scheme # "https"
      BY <2>4
    <3> QED BY <2>4, <3>1, Zenon
  <2> QED BY <1>3, <2>4, <2>5, <2>6, <2>7, Zenon
<1> QED BY <1>4, <1>5, Zenon

LEMMA TlsStep ==
  ASSUME ClientInv, [Next]_vars
  PROVE  TlsFitsTarget'
<1> USE Members
<1>s. TlsFitsTarget
  BY DEF ClientInv
<1>1. ASSUME options' = options \/ options' = NoOptions
      PROVE  TlsFitsTarget'
  BY <1>s, <1>1, Zenon DEF TlsFitsTarget
<1>2. ASSUME NEW p \in ConnectParameters,
             options' = [disabled |-> p.disabled, sent |-> ConnectionOptions(ClientConfig(p))]
      PROVE  TlsFitsTarget'
  BY <1>2, OptionsFit, Zenon DEF TlsFitsTarget
<1>3. CASE \E r \in Requests : \E code : Refuses(r, code)
  BY <1>1, <1>3, Zenon DEF Refuses
<1>4. CASE \E r \in Requests : \E what, answer : Answers(r, what, answer)
  BY <1>1, <1>4 DEF Answers, Answered
<1>5. CASE Close \/ CloseFree \/ RuntimeFree \/ UNCHANGED vars
  BY <1>1, <1>5 DEF Close, CloseFree, RuntimeFree, vars
<1>6. CASE \E c \in Calls : Enter(c) \/ Dispatch(c) \/ Tick(c) \/ Retry(c)
  BY <1>1, <1>6 DEF Enter, Dispatch, Tick, Retry
<1>7. CASE \E r \in Requests : Return(r)
  BY <1>1, <1>7 DEF Return
<1> QED BY Steps, <1>1, <1>2, <1>3, <1>4, <1>5, <1>6, <1>7, Zenon

-----------------------------------------------------------------------------
(***************************************************************************)
(* The invariant and what follows from it.                                   *)
(***************************************************************************)
LEMMA InitClient == Init => ClientInv
<1> SUFFICES ASSUME Init PROVE ClientInv
  OBVIOUS
<1> USE Members
<1>1. Shape
  <2>1. client \in {"none", "open", "closed"} /\ handle \in BOOLEAN /\ freed \in BOOLEAN
    BY Zenon DEF Init
  <2>2. /\ stage \in [Requests -> Stages] /\ timeout \in [Calls -> Nat]
        /\ elapsed \in [Calls -> Nat] /\ age \in [Calls -> Nat]
        /\ cause = [r \in Requests |-> cause[r]]
    BY DEF Init, Stages
  <2>3. /\ completion \in [Requests -> Completions] /\ result \in [Requests -> Results]
    BY DEF Init, Completions, Results, Ack, Nothing, OK
  <2> QED BY <2>1, <2>2, <2>3, Zenon DEF Shape
<1>2. TimeoutsInv /\ AnswerInv /\ HandleInv /\ ClockInv
  BY DEF Init, TimeoutsInv, AnswerInv, AnswerOK, HandleInv, ClockInv, Over
<1>3. TlsFitsTarget
  BY Zenon DEF Init, TlsFitsTarget
<1> QED BY <1>1, <1>2, <1>3 DEF ClientInv

LEMMA ClientInvariant == Spec => []ClientInv
<1>1. ClientInv /\ [Next]_vars => ClientInv'
  BY ShapeStep, AnswerStep, HandleStep, ClockStep, TlsStep, Zenon DEF ClientInv
<1> QED BY <1>1, InitClient, PTL DEF Spec

\* Every caller of a connect or an RPC can read its answer and learns from it what
\* happened: the other side's own code, DEADLINE_EXCEEDED for a deadline, a negative
\* code for an error of the bridge, and a stale handle only after a close
\* (error.rs grpc_status_code, KtClient.call).
THEOREM AnswersTellWhatHappened == Spec => []AnswerTellsWhatHappened
<1>1. ClientInv => AnswerTellsWhatHappened
  <2> SUFFICES ASSUME ClientInv PROVE AnswerTellsWhatHappened
    OBVIOUS
  <2>1. TypeOK
    <3>1. \A r \in Requests : /\ completion[r].status \in -9..16
                              /\ result[r].outcome \in {"none", "value", "failed", "garbled"}
      BY DEF ClientInv, Shape, Completions, Results
    <3> QED BY <3>1, Zenon DEF ClientInv, Shape, TimeoutsInv, TypeOK
  <2>2. ASSUME NEW r \in Requests, stage[r] = "returned"
        PROVE  CASE cause[r].type = "reply" -> result[r].outcome = "value"
                 [] cause[r].type = "peer" ->
                      result[r] = [outcome |-> "failed", status |-> cause[r].code]
                 [] cause[r].type = "deadline" ->
                      result[r] = [outcome |-> "failed", status |-> DEADLINE_EXCEEDED]
                 [] cause[r].type = "bridge" ->
                      /\ result[r] = [outcome |-> "failed", status |-> cause[r].code]
                      /\ cause[r].code < 0
                      /\ cause[r].code = StaleHandle => client = "closed" \/ freed
                      /\ cause[r].code = ShuttingDown => freed
    <3>1. Told(cause[r], result[r])
      BY <2>2 DEF ClientInv, AnswerInv, AnswerOK
    <3>2. CASE cause[r] = ByReply /\ result[r].outcome = "value"
      BY <3>2 DEF ByReply
    <3>3. CASE \E code \in ServerCodes :
                 cause[r] = ByPeer(code) /\ result[r] = [outcome |-> "failed", status |-> code]
      BY <3>3 DEF ByPeer
    <3>4. CASE /\ cause[r] = ByDeadline
               /\ result[r] = [outcome |-> "failed", status |-> DEADLINE_EXCEEDED]
      BY <3>4 DEF ByDeadline
    <3>5. CASE \E code \in BridgeCodes :
                 /\ cause[r] = ByBridge(code) /\ result[r] = [outcome |-> "failed", status |-> code]
                 /\ Justified(code)
      <4>1. PICK code \in BridgeCodes :
                 /\ cause[r] = ByBridge(code) /\ result[r] = [outcome |-> "failed", status |-> code]
                 /\ Justified(code)
        BY <3>5
      <4>2. cause[r].type = "bridge" /\ cause[r].code = code /\ code < 0
        BY <4>1, Codes DEF ByBridge
      <4> QED BY <4>1, <4>2 DEF Justified
    <3> QED BY <3>1, <3>2, <3>3, <3>4, <3>5 DEF Told
  <2> QED BY <2>1, <2>2, Zenon DEF AnswerTellsWhatHappened
<1> QED BY <1>1, ClientInvariant, PTL

\* A call with a timeout is over when it has elapsed, retries included, and neither
\* the attempt's timer nor the outer one ends it before (rpc.rs with_deadline).
THEOREM DeadlinesAreHonoured == Spec => []DeadlineHonoured
<1>1. ClientInv => DeadlineHonoured
  BY DEF ClientInv, ClockInv, DeadlineHonoured
<1> QED BY <1>1, ClientInvariant, PTL

\* The scheme and the TLS options that reach Core agree for every target, certificate
\* and API key (clientConfig and client.rs connection_options).
THEOREM TlsAlwaysFitsTarget == Spec => []TlsFitsTarget
<1>1. ClientInv => TlsFitsTarget
  BY DEF ClientInv
<1> QED BY <1>1, ClientInvariant, PTL
=============================================================================
