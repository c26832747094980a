------------------------------ MODULE Receiver ------------------------------
(***************************************************************************)
(* One receiver lane under concurrent requests, its Kafka producer client  *)
(* and the single broker behind it.                                        *)
(*                                                                         *)
(* The lane, the delivery mode and the acknowledgement level are chosen    *)
(* once, at start (config).  The handler is the lane's own code.  The      *)
(* producer client and the broker are external: they are modelled as the   *)
(* lanes use them, an at-least-once client that retries an attempt it has  *)
(* no answer for, over a network that loses requests and responses.        *)
(***************************************************************************)
EXTENDS BidRules, Naturals, Sequences, FiniteSets

CONSTANTS Requests,      \* the requests the load generator sends
          Bids,          \* the bodies they carry
          Configs,       \* the deployments: lane, delivery mode, acks
          MaxAttempts,   \* Retries + 1: how often the client sends a record
          QueueCapacity  \* records the client holds before it refuses more

Modes == {"confirm", "enqueue", "http-only"}
AckLevels == {"0", "1", "all"}
Answers == {"none", "200", "204", "400", "500", "503"}
Attempts == Requests \X (1..MaxAttempts)

(* An id is a text: another, which Node would hand to the client as a key, *)
(* is left to the binding rules.                                           *)
ASSUME ReceiverAssumption ==
    /\ Bids \subseteq {b \in BidRequests : b.id \notin {"zero", "number", "object"}}
    /\ Configs \subseteq [lane : Lanes, mode : Modes, acks : AckLevels]
    /\ MaxAttempts \in Nat \ {0}
    /\ QueueCapacity \in Nat \ {0}

VARIABLES
    config,   \* the deployment, fixed at start
    bid,      \* bid[r]: the body request r carries
    phase,    \* phase[r]: where r's handler is
    answer,   \* answer[r]: the HTTP status the handler wrote, or "none"
    record,   \* record[r]: what the producer client knows of r's record
    attempt,  \* attempt[r]: how many times the client has sent it
    wire,     \* produce requests <<r, n>> the broker has not processed
    acked,    \* the broker's responses on their way back
    log,      \* the topic: the attempts appended, in order
    status    \* the receiver process

handlerVars == <<phase, answer>>
clientVars == <<record, attempt>>
brokerVars == <<wire, acked, log>>
vars == <<config, bid, phase, answer, record, attempt, wire, acked, log, status>>

Phases == {"idle", "publishing", "awaiting", "done"}
RecordStates == {"none", "queued", "inflight", "delivered", "failed", "lost"}
Statuses == {"up", "stopping", "stopped", "crashed"}

TypeOK ==
    /\ config \in Configs
    /\ bid \in [Requests -> Bids]
    /\ phase \in [Requests -> Phases]
    /\ answer \in [Requests -> Answers]
    /\ record \in [Requests -> RecordStates]
    /\ attempt \in [Requests -> 0..MaxAttempts]
    /\ wire \subseteq Attempts
    /\ acked \subseteq Attempts
    /\ log \in Seq(Attempts)
    /\ status \in Statuses

Init ==
    /\ config \in Configs
    /\ bid \in [Requests -> Bids]
    /\ phase = [r \in Requests |-> "idle"]
    /\ answer = [r \in Requests |-> "none"]
    /\ record = [r \in Requests |-> "none"]
    /\ attempt = [r \in Requests |-> 0]
    /\ wire = {}
    /\ acked = {}
    /\ log = <<>>
    /\ status = "up"

-----------------------------------------------------------------------------
(* The answer each lane gives to the result of publishing.                 *)
(*   unencodable  the body could not be serialised                         *)
(*   thrown       the client call failed at once (the producer is closed)  *)
(*   reported     the client gave the record back: no room, no metadata    *)
(*   queued       the client took the record; in confirm mode: wait        *)
(*   delivered, failed   the delivery report                               *)

Wait == "wait"

Settle(mode, result) ==
    CASE result = "unencodable"                  -> "500"
      [] result = "delivered"                    -> "200"
      [] result \in {"thrown", "reported", "failed"} -> "503"
      [] result = "queued" -> IF mode = "enqueue" THEN "200" ELSE Wait

RustAnswer(mode, result) == Settle(mode, result)

(* Mutant: the writer is left asynchronous in confirm mode. *)
GoAnswerAsync(mode, result) ==
    IF result = "queued" THEN "200" ELSE Settle(mode, result)

GoAnswer(mode, result) == Settle(mode, result)

(* Mutant: what send raises is swallowed in enqueue mode. *)
PythonAnswerSwallowing(mode, result) ==
    IF mode = "enqueue" /\ result = "reported" THEN "200" ELSE Settle(mode, result)

PythonAnswer(mode, result) == Settle(mode, result)

(* The promise of producer.send is dropped in enqueue mode: whatever       *)
(* becomes of it is only logged.                                           *)
NodeAnswer(mode, result) ==
    IF mode = "enqueue" /\ result # "unencodable" THEN "200" ELSE Settle(mode, result)

(* The stage publish returns, failed or not, is dropped in enqueue mode;   *)
(* in confirm mode every failure, serialisation included, is a 503.        *)
QuarkusAnswer(mode, result) ==
    CASE mode = "enqueue"        -> "200"
      [] result = "unencodable" -> "503"
      [] OTHER                  -> Settle(mode, result)

(* The future send returns is dropped in enqueue mode; only what send      *)
(* throws is mapped to a 503.                                              *)
SpringAnswer(mode, result) ==
    IF mode = "enqueue" /\ result = "reported" THEN "200" ELSE Settle(mode, result)

(* Mutant: the future is never joined. *)
SpringVirtualAnswerNoJoin(mode, result) ==
    IF result \in {"queued", "reported"} THEN "200" ELSE Settle(mode, result)

SpringVirtualAnswer(mode, result) ==
    IF mode = "enqueue" /\ result = "reported" THEN "200" ELSE Settle(mode, result)

LaneAnswer(result) ==
    LET mode == config.mode
    IN  CASE config.lane = "rust"           -> RustAnswer(mode, result)
          [] config.lane = "go"             -> GoAnswer(mode, result)
          [] config.lane = "python"         -> PythonAnswer(mode, result)
          [] config.lane = "node"           -> NodeAnswer(mode, result)
          [] config.lane = "quarkus"        -> QuarkusAnswer(mode, result)
          [] config.lane = "spring"         -> SpringAnswer(mode, result)
          [] config.lane = "spring-virtual" -> SpringVirtualAnswer(mode, result)

Verdict(r) == Decision(config.lane, bid[r])

Pending(r) == record[r] \in {"queued", "inflight"}

QueueFull == Cardinality({r \in Requests : Pending(r)}) >= QueueCapacity

(* Java's close and Python's stop send what the client holds before they   *)
(* return.  The other lanes have no shutdown code that does: a signal ends *)
(* them like a crash.                                                      *)
DrainsOnStop == config.lane \in JavaLanes \union {"python"}

(* The Java client is idempotent by default exactly when acks is "all" and *)
(* it may retry: the broker then drops a record it has already appended.   *)
Deduplicates == config.lane \in JavaLanes /\ config.acks = "all"

(* librdkafka queues a record before it knows the topic; the other clients *)
(* first need its metadata and give the record back when they time out.    *)
NeedsMetadata == config.lane # "rust"

Logged(r) == \E i \in 1..Len(log) : log[i][1] = r

-----------------------------------------------------------------------------
(* The handler. *)

Reply(r, code) ==
    /\ phase' = [phase EXCEPT ![r] = "done"]
    /\ answer' = [answer EXCEPT ![r] = code]

Arrives(r) == status = "up" /\ phase[r] = "idle"

RejectInvalid(r) ==
    /\ Arrives(r)
    /\ Verdict(r) = "invalid"
    /\ Reply(r, "400")
    /\ UNCHANGED <<config, bid, clientVars, brokerVars, status>>

Filter(r) ==
    /\ Arrives(r)
    /\ Verdict(r) = "filtered"
    /\ Reply(r, "204")
    /\ UNCHANGED <<config, bid, clientVars, brokerVars, status>>

AcceptHttpOnly(r) ==
    /\ Arrives(r)
    /\ Verdict(r) = "bid"
    /\ config.mode = "http-only"
    /\ Reply(r, "200")
    /\ UNCHANGED <<config, bid, clientVars, brokerVars, status>>

(* What the handler throws before it has decided ends in a 500. *)
FailToDecide(r) ==
    /\ Arrives(r)
    /\ Verdict(r) = "broken"
    /\ Reply(r, "500")
    /\ UNCHANGED <<config, bid, clientVars, brokerVars, status>>

FailToEncode(r) ==
    /\ Arrives(r)
    /\ Verdict(r) = "bid"
    /\ config.mode # "http-only"
    /\ ~bid[r].encodable
    /\ Reply(r, LaneAnswer("unencodable"))
    /\ UNCHANGED <<config, bid, clientVars, brokerVars, status>>

(* Mutant: the http-only branch is forgotten. *)
StartPublishInEveryMode(r) ==
    /\ Arrives(r)
    /\ Verdict(r) = "bid"
    /\ bid[r].encodable
    /\ phase' = [phase EXCEPT ![r] = "publishing"]
    /\ UNCHANGED <<config, bid, answer, clientVars, brokerVars, status>>

(* The body is serialised and the handler enters the client's send.  The   *)
(* call can take long: it waits for metadata and for room in the queue.    *)
StartPublish(r) ==
    /\ Arrives(r)
    /\ Verdict(r) = "bid"
    /\ config.mode # "http-only"
    /\ bid[r].encodable
    /\ phase' = [phase EXCEPT ![r] = "publishing"]
    /\ UNCHANGED <<config, bid, answer, clientVars, brokerVars, status>>

(* send returns with the record in the client's queue. *)
Enqueue(r) ==
    /\ status = "up"
    /\ phase[r] = "publishing"
    /\ ~QueueFull
    /\ record' = [record EXCEPT ![r] = "queued"]
    /\ IF LaneAnswer("queued") = Wait
       THEN phase' = [phase EXCEPT ![r] = "awaiting"] /\ UNCHANGED answer
       ELSE Reply(r, LaneAnswer("queued"))
    /\ UNCHANGED <<config, bid, attempt, brokerVars, status>>

(* Mutant: the handler gives up waiting, the client keeps the record. *)
RefuseKeepingRecord(r) ==
    /\ phase[r] = "publishing"
    /\ status = "up"
    /\ Reply(r, LaneAnswer("reported"))
    /\ record' = [record EXCEPT ![r] = "queued"]
    /\ UNCHANGED <<config, bid, attempt, brokerVars, status>>

(* send gives the record back: the queue stayed full or the metadata did   *)
(* not come; or, once the producer is being closed, it throws.             *)
Refuse(r) ==
    /\ phase[r] = "publishing"
    /\ \/ /\ status = "up"
          /\ QueueFull \/ NeedsMetadata
          /\ Reply(r, LaneAnswer("reported"))
       \/ /\ status = "stopping"
          /\ Reply(r, LaneAnswer("thrown"))
    /\ UNCHANGED <<config, bid, clientVars, brokerVars, status>>

(* Mutant: the report's callback answers whatever the handler did before. *)
ResumeAlways(r) ==
    /\ phase[r] # "idle"
    /\ record[r] \in {"delivered", "failed"}
    /\ Reply(r, LaneAnswer(record[r]))
    /\ UNCHANGED <<config, bid, clientVars, brokerVars, status>>

(* Mutant: only a success resumes the handler. *)
ResumeOnSuccess(r) ==
    /\ phase[r] = "awaiting"
    /\ record[r] = "delivered"
    /\ Reply(r, LaneAnswer(record[r]))
    /\ UNCHANGED <<config, bid, clientVars, brokerVars, status>>

(* The delivery report resumes a handler that waits for it. *)
Resume(r) ==
    /\ phase[r] = "awaiting"
    /\ record[r] \in {"delivered", "failed"}
    /\ Reply(r, LaneAnswer(record[r]))
    /\ UNCHANGED <<config, bid, clientVars, brokerVars, status>>

-----------------------------------------------------------------------------
(* The producer client. *)

Alive == status \in {"up", "stopping"}

(* An attempt goes out.  Without acknowledgements that is all there is. *)
Send(r) ==
    /\ Alive
    /\ record[r] = "queued"
    /\ attempt[r] < MaxAttempts
    /\ attempt' = [attempt EXCEPT ![r] = @ + 1]
    /\ wire' = wire \union {<<r, attempt[r] + 1>>}
    /\ record' = [record EXCEPT ![r] =
                      IF config.acks = "0" THEN "delivered" ELSE "inflight"]
    /\ UNCHANGED <<config, bid, handlerVars, acked, log, status>>

(* Mutant: a retry goes out at once, whatever the limit is. *)
RetryForEver(r) ==
    /\ Alive
    /\ record[r] = "inflight"
    /\ attempt' = [attempt EXCEPT ![r] = @ + 1]
    /\ wire' = wire \union {<<r, attempt[r] + 1>>}
    /\ UNCHANGED <<config, bid, handlerVars, record, acked, log, status>>

(* The request timeout or a retriable error: the record is sent again. *)
Retry(r) ==
    /\ Alive
    /\ record[r] = "inflight"
    /\ attempt[r] < MaxAttempts
    /\ record' = [record EXCEPT ![r] = "queued"]
    /\ UNCHANGED <<config, bid, handlerVars, attempt, brokerVars, status>>

(* Mutant: the timeout fires on a record that has had its report. *)
GiveUpLate(r) ==
    /\ Alive
    /\ record[r] # "none"
    /\ record' = [record EXCEPT ![r] = "failed"]
    /\ UNCHANGED <<config, bid, handlerVars, attempt, brokerVars, status>>

(* Mutant: the delivery timeout is not watched once the stop has begun. *)
GiveUpWhileUp(r) ==
    /\ status = "up"
    /\ Pending(r)
    /\ record' = [record EXCEPT ![r] = "failed"]
    /\ UNCHANGED <<config, bid, handlerVars, attempt, brokerVars, status>>

(* The retries or the delivery timeout are used up. *)
GiveUp(r) ==
    /\ Alive
    /\ Pending(r)
    /\ record' = [record EXCEPT ![r] = "failed"]
    /\ UNCHANGED <<config, bid, handlerVars, attempt, brokerVars, status>>

(* Only the response to the attempt in flight counts: the connection of an *)
(* earlier one is gone.                                                    *)
Acknowledge(r) ==
    /\ Alive
    /\ record[r] = "inflight"
    /\ <<r, attempt[r]>> \in acked
    /\ record' = [record EXCEPT ![r] = "delivered"]
    /\ acked' = acked \ {<<r, attempt[r]>>}
    /\ UNCHANGED <<config, bid, handlerVars, attempt, wire, log, status>>

-----------------------------------------------------------------------------
(* The network and the broker. *)

AppendToLog(m) ==
    /\ m \in wire
    /\ wire' = wire \ {m}
    /\ log' = IF Deduplicates /\ Logged(m[1]) THEN log ELSE Append(log, m)
    /\ acked' = IF config.acks = "0" THEN acked ELSE acked \union {m}
    /\ UNCHANGED <<config, bid, handlerVars, clientVars, status>>

LoseRequest(m) ==
    /\ m \in wire
    /\ wire' = wire \ {m}
    /\ UNCHANGED <<config, bid, handlerVars, clientVars, acked, log, status>>

LoseResponse(m) ==
    /\ m \in acked
    /\ acked' = acked \ {m}
    /\ UNCHANGED <<config, bid, handlerVars, clientVars, wire, log, status>>

-----------------------------------------------------------------------------
(* The process. *)

(* Whatever lives in the process is gone: handlers and queued records. *)
LoseProcess ==
    /\ phase' = [r \in Requests |->
                     IF phase[r] = "idle" THEN "idle" ELSE "done"]
    /\ record' = [r \in Requests |-> IF Pending(r) THEN "lost" ELSE record[r]]
    /\ UNCHANGED <<config, bid, answer, attempt, brokerVars>>

Crash ==
    /\ Alive
    /\ status' = "crashed"
    /\ LoseProcess

(* A graceful stop begins to close the producers.  Python's server ends    *)
(* the requests in flight before its shutdown hook stops the producer.     *)
Terminate ==
    /\ status = "up"
    /\ DrainsOnStop
    /\ config.lane = "python" => \A r \in Requests : phase[r] \in {"idle", "done"}
    /\ status' = "stopping"
    /\ UNCHANGED <<config, bid, handlerVars, clientVars, brokerVars>>

(* Mutant: the stop does not wait for what the client holds. *)
ExitAtOnce ==
    /\ status = "stopping"
    /\ status' = "stopped"
    /\ LoseProcess

Exit ==
    /\ status = "stopping"
    /\ \A r \in Requests : ~Pending(r)
    /\ status' = "stopped"
    /\ LoseProcess

-----------------------------------------------------------------------------
HandlerStep(r) ==
    \/ RejectInvalid(r) \/ Filter(r) \/ AcceptHttpOnly(r)
    \/ FailToDecide(r) \/ FailToEncode(r)
    \/ StartPublish(r) \/ Enqueue(r) \/ Refuse(r) \/ Resume(r)

ClientStep(r) == Send(r) \/ Retry(r) \/ GiveUp(r) \/ Acknowledge(r)

BrokerStep(m) == AppendToLog(m) \/ LoseRequest(m) \/ LoseResponse(m)

Next ==
    \/ \E r \in Requests : HandlerStep(r) \/ ClientStep(r)
    \/ \E m \in wire \union acked : BrokerStep(m)
    \/ Crash \/ Terminate \/ Exit

Spec == Init /\ [][Next]_vars

(* A handler that can run does (the runtime schedules it), a client call   *)
(* returns within its queue or metadata timeout, the client's sender keeps *)
(* going until the delivery timeout, and a stop waits for nothing else.    *)
(* Arrivals, crashes, signals and the network get no fairness.             *)
FairSpec ==
    /\ Spec
    /\ \A r \in Requests :
           /\ WF_vars(Enqueue(r) \/ Refuse(r))
           /\ WF_vars(Resume(r))
           /\ WF_vars(ClientStep(r))
    /\ WF_vars(Exit)

-----------------------------------------------------------------------------
(* In confirm mode with acknowledgements, a 200 means the record is in the *)
(* topic, whatever was retried, lost or late on the way: the delivery      *)
(* outcome awaited by every lane is the outcome of that very record.       *)
ConfirmedIsLogged ==
    (config.mode = "confirm" /\ config.acks # "0") =>
        \A r \in Requests : answer[r] = "200" => Logged(r)

(* Only a request that was valid, not filtered and encodable ever reaches  *)
(* the topic, and none does in http-only mode: no refused or filtered body *)
(* is on the wire, in the client or in the log.                            *)
OnlyBidsAreLogged ==
    \A r \in Requests :
        Logged(r) => /\ Verdict(r) = "bid" /\ bid[r].encodable
                     /\ config.mode # "http-only"
                     /\ answer[r] \notin {"204", "400", "500"}

(* The lanes whose enqueue answer depends on what the client said, and the *)
(* deployments in which a refusal is not answered 200.                     *)
ReportingLanes == {"rust", "go", "python"}
ReportsRefusals(c) == c.mode = "enqueue" => c.lane \in ReportingLanes

(* In enqueue mode a 200 is returned only after the local producer         *)
(* pipeline took the record ("200 is returned after the request is         *)
(* accepted into the local producer pipeline").                            *)
EnqueuedIsInPipeline ==
    config.mode = "enqueue" =>
        \A r \in Requests : answer[r] = "200" => record[r] # "none"

(* In enqueue mode a 503 is final: the record was refused and cannot turn  *)
(* up in the topic later, so a client may safely send the request again.   *)
(* (In confirm mode it may: a timed-out attempt can still be appended.)    *)
RefusedIsNotLogged ==
    config.mode = "enqueue" =>
        \A r \in Requests : answer[r] = "503" => ~Logged(r)

(* A graceful stop loses nothing the client took: what was answered 200    *)
(* and acknowledged or still queued when the signal came is, at the end,   *)
(* in the topic, unless its delivery was given up.                         *)
StopFlushes ==
    (status = "stopped" /\ config.acks # "0") =>
        \A r \in Requests :
            (answer[r] = "200" /\ record[r] # "none") =>
                Logged(r) \/ record[r] = "failed"

(* An answer is never revised, and a record in the topic is never undone:  *)
(* the log only grows, whatever the client and the process do.             *)
AnswersAndLogAreFinal ==
    [][/\ \A r \in Requests : answer[r] # "none" => answer'[r] = answer[r]
       /\ Len(log') >= Len(log)
       /\ \A i \in 1..Len(log) : log'[i] = log[i]]_vars

(* Every request whose handler started is answered, or its process ends:   *)
(* no handler waits for ever on a full queue or a missing report.          *)
EveryRequestIsAnswered ==
    \A r \in Requests :
        phase[r] # "idle" ~> (answer[r] # "none" \/ status # "up")

(* A graceful stop comes to an end although the broker may be silent: the  *)
(* delivery timeout empties the client.                                    *)
StopEnds == status = "stopping" ~> status \in {"stopped", "crashed"}

-----------------------------------------------------------------------------
(* What makes these safety properties inductive. *)

Publishable(r) ==
    Verdict(r) = "bid" /\ bid[r].encodable /\ config.mode # "http-only"

(* How far a handler is bounds what the client can hold of its record. *)
HandlerInv ==
    \A r \in Requests :
        /\ phase[r] \in {"idle", "publishing"} => record[r] = "none" /\ answer[r] = "none"
        /\ phase[r] = "publishing" => Publishable(r)
        /\ phase[r] = "awaiting" =>
               config.mode = "confirm" /\ record[r] # "none" /\ answer[r] = "none"
        /\ record[r] # "none" => Publishable(r) /\ answer[r] \notin {"204", "400", "500"}

(* What an answer says about the record, once the record has left the      *)
(* handler's hands.                                                        *)
AnswerInv ==
    \A r \in Requests :
        /\ config.mode = "confirm" /\ answer[r] = "200" => record[r] = "delivered"
        /\ config.mode = "enqueue" /\ answer[r] = "503" => record[r] = "none"

(* Everything in flight or in the log is an attempt the client made.       *)
AttemptInv ==
    /\ \A r \in Requests : record[r] = "none" => attempt[r] = 0
    /\ \A m \in wire : m[2] <= attempt[m[1]]
    /\ \A i \in 1..Len(log) : log[i][2] <= attempt[log[i][1]]

(* A response, and the delivery report it becomes, come after the append. *)
ReportInv ==
    /\ \A m \in acked : Logged(m[1])
    /\ config.acks # "0" =>
           \A r \in Requests : record[r] = "delivered" => Logged(r)

(* Only a crash loses a record of the client. *)
StopInv ==
    \A r \in Requests :
        /\ record[r] = "lost" => status = "crashed"
        /\ Pending(r) => status \in {"up", "stopping"}

SafetyInv ==
    /\ HandlerInv
    /\ AnswerInv
    /\ AttemptInv
    /\ ReportInv
    /\ StopInv

-----------------------------------------------------------------------------
(* The contract, seen through this module. *)
Contract == INSTANCE IngressContract
    WITH deserved   <- [r \in Requests |-> ContractDecision(bid[r])],
         mode       <- config.mode,
         durable    <- config.acks # "0",
         handedOver <- {r \in Requests : record[r] # "none"},
         published  <- {r \in Requests : Logged(r)}

(* The deployments the contract speaks for without exception: all that     *)
(* report a refusal, and bodies on which no two lanes can disagree.        *)
ContractDeployments ==
    /\ \A c \in Configs : ReportsRefusals(c)
    /\ \A b \in Bids : Plain(b)

(* Every behaviour of the receiver, its client and the broker is one the   *)
(* contract allows, whatever is retried, lost, appended late or stopped.   *)
ImplementsContract == Contract!Spec

=============================================================================
