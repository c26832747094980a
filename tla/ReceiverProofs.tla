---------------------------- MODULE ReceiverProofs ----------------------------
(***************************************************************************)
(* Safety of the receiver for every set of requests and bodies, every set  *)
(* of deployments, every number of attempts and every queue capacity.      *)
(***************************************************************************)
EXTENDS Receiver, TLAPS

(* The answers a lane can give, and when. *)
Results == {"unencodable", "thrown", "reported", "queued", "delivered", "failed"}

(* An answer of a lane is a status of the contract or the order to wait. *)
LEMMA LaneAnswerType ==
    ASSUME ReceiverAssumption, config \in Configs, NEW result \in Results
    PROVE  /\ LaneAnswer(result) \in {"200", "500", "503", Wait}
           /\ LaneAnswer(result) = Wait => result = "queued"
  BY DEF ReceiverAssumption, Results, LaneAnswer, Lanes, Modes, Settle, Wait,
         RustAnswer, GoAnswer, PythonAnswer, NodeAnswer, QuarkusAnswer,
         SpringAnswer, SpringVirtualAnswer

(* In confirm mode every lane waits for the delivery report, and only a    *)
(* delivered record is answered 200.                                       *)
LEMMA ConfirmAnswers ==
    ASSUME ReceiverAssumption, config \in Configs, config.mode = "confirm",
           NEW result \in Results
    PROVE  /\ LaneAnswer("queued") = Wait
           /\ LaneAnswer(result) = "200" => result = "delivered"
           /\ result \in {"thrown", "reported", "failed"} => LaneAnswer(result) = "503"
  BY DEF ReceiverAssumption, Results, LaneAnswer, Lanes, Modes, Settle, Wait,
         RustAnswer, GoAnswer, PythonAnswer, NodeAnswer, QuarkusAnswer,
         SpringAnswer, SpringVirtualAnswer

(* In enqueue mode a record the client took is answered 200 at once. *)
LEMMA EnqueueAnswers ==
    ASSUME ReceiverAssumption, config \in Configs, config.mode = "enqueue"
    PROVE  LaneAnswer("queued") = "200"
  BY DEF ReceiverAssumption, LaneAnswer, Lanes, Modes, Settle,
         RustAnswer, GoAnswer, PythonAnswer, NodeAnswer, QuarkusAnswer,
         SpringAnswer, SpringVirtualAnswer

-----------------------------------------------------------------------------
(* Type correctness: one step per action of Next. *)
LEMMA InitType == ASSUME ReceiverAssumption, Init PROVE TypeOK
  BY DEF ReceiverAssumption, Init, TypeOK, Phases, Answers, RecordStates, Statuses

(* Every step keeps the types. *)
LEMMA StepType == ASSUME ReceiverAssumption, TypeOK, [Next]_vars PROVE TypeOK'
<1> USE DEF ReceiverAssumption, TypeOK, Phases, Answers, RecordStates, Statuses,
            Attempts, Reply, handlerVars, clientVars, brokerVars
<1>1. ASSUME NEW r \in Requests, HandlerStep(r) PROVE TypeOK'
  <2>1. CASE RejectInvalid(r)
    BY <2>1 DEF RejectInvalid
  <2>2. CASE Filter(r)
    BY <2>2 DEF Filter
  <2>3. CASE AcceptHttpOnly(r)
    BY <2>3 DEF AcceptHttpOnly
  <2>4. CASE FailToDecide(r)
    BY <2>4 DEF FailToDecide, Arrives
  <2>5. CASE FailToEncode(r)
    <3>1. LaneAnswer("unencodable") \in Answers
      BY LaneAnswerType DEF Results, Wait
    <3> QED
      BY <2>5, <3>1 DEF FailToEncode
  <2>6. CASE StartPublish(r)
    BY <2>6 DEF StartPublish
  <2>7. CASE Enqueue(r)
    <3>1. LaneAnswer("queued") \in Answers \union {Wait}
      BY LaneAnswerType DEF Results
    <3> QED
      BY <2>7, <3>1 DEF Enqueue
  <2>8. CASE Refuse(r)
    <3>1. LaneAnswer("reported") \in Answers /\ LaneAnswer("thrown") \in Answers
      BY LaneAnswerType DEF Results, Wait
    <3>2. PICK code \in Answers : Reply(r, code)
      BY <2>8, <3>1 DEF Refuse
    <3>3. phase' \in [Requests -> Phases] /\ answer' \in [Requests -> Answers]
      BY <3>2
    <3> QED
      BY <2>8, <3>3 DEF Refuse
  <2>9. CASE Resume(r)
    <3>1. LaneAnswer(record[r]) \in Answers
      BY <2>9, LaneAnswerType DEF Resume, Results, Wait
    <3> QED
      BY <2>9, <3>1 DEF Resume
  <2> QED
    BY <1>1, <2>1, <2>2, <2>3, <2>4, <2>5, <2>6, <2>7, <2>8, <2>9 DEF HandlerStep
<1>2. ASSUME NEW r \in Requests, ClientStep(r) PROVE TypeOK'
  <2>1. CASE Send(r)
    <3>1. attempt[r] + 1 \in 1..MaxAttempts
      BY <2>1 DEF Send
    <3> QED
      BY <2>1, <3>1 DEF Send
  <2>2. CASE Retry(r)
    BY <2>2 DEF Retry
  <2>3. CASE GiveUp(r)
    BY <2>3 DEF GiveUp
  <2>4. CASE Acknowledge(r)
    BY <2>4 DEF Acknowledge
  <2> QED
    BY <1>2, <2>1, <2>2, <2>3, <2>4 DEF ClientStep
<1>3. ASSUME NEW m \in wire \union acked, BrokerStep(m) PROVE TypeOK'
  <2>1. CASE AppendToLog(m)
    <3>1. m \in Attempts
      BY <2>1
    <3>2. log' \in Seq(Attempts)
      BY <2>1, <3>1 DEF AppendToLog
    <3> QED
      BY <2>1, <3>1, <3>2 DEF AppendToLog
  <2>2. CASE LoseRequest(m)
    BY <2>2 DEF LoseRequest
  <2>3. CASE LoseResponse(m)
    BY <2>3 DEF LoseResponse
  <2> QED
    BY <1>3, <2>1, <2>2, <2>3 DEF BrokerStep
<1>4. CASE Crash
  BY <1>4 DEF Crash, LoseProcess
<1>5. CASE Terminate
  BY <1>5 DEF Terminate
<1>6. CASE Exit
  BY <1>6 DEF Exit, LoseProcess
<1>7. CASE UNCHANGED vars
  BY <1>7 DEF vars
<1> QED
  BY <1>1, <1>2, <1>3, <1>4, <1>5, <1>6, <1>7 DEF Next

(* Every state of the receiver is well formed: answers are HTTP statuses   *)
(* of the handlers, the log holds attempts of requests.                    *)
THEOREM TypeCorrect == Spec => []TypeOK
<1>1. Init => TypeOK
  BY InitType, ReceiverAssumption
<1>2. TypeOK /\ [Next]_vars => TypeOK'
  BY StepType, ReceiverAssumption
<1> QED
  BY <1>1, <1>2, PTL DEF Spec

-----------------------------------------------------------------------------
(* The inductive invariant, one conjunct at a time.  Each lemma has one    *)
(* step per action that can disturb its conjunct; the remaining actions    *)
(* leave its variables alone.                                              *)

(* A lane that has just started has answered and sent nothing. *)
LEMMA InitSafety == ASSUME ReceiverAssumption, Init PROVE SafetyInv
  BY DEF ReceiverAssumption, Init, SafetyInv, HandlerInv, AnswerInv, AttemptInv,
         ReportInv, StopInv, Logged, Pending

(* Answers and records stay in step: an answer is written only from the    *)
(* state of the record it speaks of, and the client never leaves a final   *)
(* state.                                                                  *)
LEMMA StepHandler ==
    ASSUME ReceiverAssumption, TypeOK, HandlerInv, AnswerInv, [Next]_vars
    PROVE  HandlerInv' /\ AnswerInv'
<1> USE DEF ReceiverAssumption, TypeOK, HandlerInv, AnswerInv, Publishable, Verdict,
            Reply, handlerVars, clientVars, brokerVars
<1>0. config.mode \in Modes /\ \A r \in Requests : record[r] \in RecordStates
  OBVIOUS
<1>1. ASSUME NEW r \in Requests, HandlerStep(r) PROVE HandlerInv' /\ AnswerInv'
  <2>1. CASE RejectInvalid(r)
    BY <2>1 DEF RejectInvalid, Arrives
  <2>2. CASE Filter(r)
    BY <2>2 DEF Filter, Arrives
  <2>3. CASE AcceptHttpOnly(r)
    BY <2>3 DEF AcceptHttpOnly, Arrives
  <2>4. CASE FailToDecide(r)
    BY <2>4 DEF FailToDecide, Arrives
  <2>5. CASE FailToEncode(r)
    <3>1. config.mode = "confirm" => LaneAnswer("unencodable") # "200"
      BY ConfirmAnswers DEF Results
    <3> QED
      BY <2>5, <3>1 DEF FailToEncode, Arrives
  <2>6. CASE StartPublish(r)
    BY <2>6 DEF StartPublish, Arrives
  <2>7. CASE Enqueue(r)
    <3>1. CASE config.mode = "confirm"
      <4>1. LaneAnswer("queued") = Wait
        BY <3>1, ConfirmAnswers DEF Results
      <4> QED
        BY <2>7, <3>1, <4>1 DEF Enqueue
    <3>2. CASE config.mode = "enqueue"
      <4>1. LaneAnswer("queued") = "200" /\ LaneAnswer("queued") # Wait
        BY <3>2, EnqueueAnswers DEF Wait
      <4> QED
        BY <2>7, <3>2, <4>1 DEF Enqueue
    <3> QED
      BY <2>7, <3>1, <3>2 DEF Enqueue, Modes
  <2>8. CASE Refuse(r)
    <3>1. config.mode = "confirm" =>
              LaneAnswer("reported") = "503" /\ LaneAnswer("thrown") = "503"
      BY ConfirmAnswers DEF Results
    <3> QED
      BY <2>8, <3>1 DEF Refuse
  <2>9. CASE Resume(r)
    <3>1. config.mode = "confirm"
      BY <2>9 DEF Resume
    <3>2. /\ LaneAnswer(record[r]) \in {"200", "503"}
          /\ LaneAnswer(record[r]) = "200" => record[r] = "delivered"
      <4>1. record[r] = "failed" => LaneAnswer(record[r]) = "503"
        BY <3>1, ConfirmAnswers DEF Results
      <4>2. record[r] = "delivered" => LaneAnswer(record[r]) = "200"
        BY <3>1 DEF LaneAnswer, Settle, RustAnswer, GoAnswer, PythonAnswer, NodeAnswer,
                    QuarkusAnswer, SpringAnswer, SpringVirtualAnswer, Lanes
      <4> QED
        BY <2>9, <4>1, <4>2 DEF Resume
    <3> QED
      BY <2>9, <3>1, <3>2 DEF Resume
  <2> QED
    BY <1>1, <2>1, <2>2, <2>3, <2>4, <2>5, <2>6, <2>7, <2>8, <2>9 DEF HandlerStep
<1>2. ASSUME NEW r \in Requests, ClientStep(r) PROVE HandlerInv' /\ AnswerInv'
  BY <1>2 DEF ClientStep, Send, Retry, GiveUp, Acknowledge, Pending
<1>3. ASSUME NEW m \in wire \union acked, BrokerStep(m) PROVE HandlerInv' /\ AnswerInv'
  BY <1>3 DEF BrokerStep, AppendToLog, LoseRequest, LoseResponse
<1>4. CASE Crash
  BY <1>4 DEF Crash, LoseProcess, Pending, Phases
<1>5. CASE Terminate
  BY <1>5 DEF Terminate
<1>6. CASE Exit
  BY <1>6 DEF Exit, LoseProcess, Pending, Phases
<1>7. CASE UNCHANGED vars
  BY <1>7 DEF vars
<1> QED
  BY <1>1, <1>2, <1>3, <1>4, <1>5, <1>6, <1>7 DEF Next

(* The handler steps leave the attempts, the network and the log alone. *)
LEMMA HandlerFrame ==
    ASSUME NEW r \in Requests, HandlerStep(r)
    PROVE  /\ UNCHANGED <<config, attempt, wire, acked, log, status>>
           /\ record' \in {record, [record EXCEPT ![r] = "queued"]}
  BY DEF HandlerStep, RejectInvalid, Filter, AcceptHttpOnly, FailToDecide, FailToEncode, StartPublish,
         Enqueue, Refuse, Resume, handlerVars, clientVars, brokerVars

(* What Append adds to the log, and that it adds nothing else. *)
LEMMA AppendExtends ==
    ASSUME NEW S, NEW s \in Seq(S), NEW e \in S
    PROVE  LET t == Append(s, e)
           IN  /\ Len(s) \in Nat /\ Len(t) = Len(s) + 1
               /\ t[Len(s) + 1] = e
               /\ \A i \in 1..Len(s) : t[i] = s[i]
               /\ \A i \in 1..Len(t) : i \in 1..Len(s) \/ i = Len(s) + 1
  OBVIOUS

(* The client numbers its attempts, and the network invents none. *)
LEMMA StepAttempts ==
    ASSUME ReceiverAssumption, TypeOK, AttemptInv, [Next]_vars
    PROVE  AttemptInv'
<1> USE DEF ReceiverAssumption, TypeOK, AttemptInv, Attempts,
            handlerVars, clientVars, brokerVars
<1>1. ASSUME NEW r \in Requests, HandlerStep(r) PROVE AttemptInv'
  <2>1. /\ UNCHANGED <<config, attempt, wire, acked, log, status>>
        /\ record' \in {record, [record EXCEPT ![r] = "queued"]}
    BY <1>1, HandlerFrame
  <2> QED
    BY <2>1
<1>2. ASSUME NEW r \in Requests, ClientStep(r) PROVE AttemptInv'
  <2>1. CASE Send(r)
    <3>1. /\ attempt' = [attempt EXCEPT ![r] = @ + 1]
          /\ wire' = wire \union {<<r, attempt[r] + 1>>}
          /\ record[r] = "queued"
          /\ record' \in {[record EXCEPT ![r] = "delivered"], [record EXCEPT ![r] = "inflight"]}
          /\ UNCHANGED <<config, log>>
      BY <2>1 DEF Send
    <3>2. \A q \in Requests : attempt'[q] >= attempt[q]
      BY <3>1
    <3>3. \A q \in Requests : record'[q] = "none" => attempt'[q] = 0
      BY <3>1
    <3>4. \A m \in wire' : m[2] <= attempt'[m[1]]
      BY <3>1, <3>2
    <3>5. \A i \in 1..Len(log') : log'[i][2] <= attempt'[log'[i][1]]
      BY <3>1, <3>2
    <3> QED
      BY <3>3, <3>4, <3>5
  <2>2. CASE Retry(r) \/ GiveUp(r)
    BY <2>2 DEF Retry, GiveUp, Pending
  <2>3. CASE Acknowledge(r)
    BY <2>3 DEF Acknowledge
  <2> QED
    BY <1>2, <2>1, <2>2, <2>3 DEF ClientStep
<1>3. ASSUME NEW m \in wire \union acked, BrokerStep(m) PROVE AttemptInv'
  <2>1. CASE AppendToLog(m)
    <3>1. /\ m \in wire /\ m \in Attempts
          /\ wire' = wire \ {m}
          /\ UNCHANGED <<config, record, attempt>>
      BY <2>1 DEF AppendToLog
    <3>2. CASE log' = log
      BY <3>1, <3>2
    <3>3. CASE log' = Append(log, m)
      <4>1. /\ \A i \in 1..Len(log) : log'[i] = log[i]
            /\ \A i \in 1..Len(log') : i \in 1..Len(log) \/ log'[i] = m
        BY <3>1, <3>3, AppendExtends
      <4>2. \A i \in 1..Len(log') : log'[i][2] <= attempt'[log'[i][1]]
        BY <3>1, <4>1
      <4> QED
        BY <3>1, <4>2
    <3> QED
      BY <2>1, <3>2, <3>3 DEF AppendToLog
  <2>2. CASE LoseRequest(m)
    BY <2>2 DEF LoseRequest
  <2>3. CASE LoseResponse(m)
    BY <2>3 DEF LoseResponse
  <2> QED
    BY <1>3, <2>1, <2>2, <2>3 DEF BrokerStep
<1>4. CASE Crash \/ Exit
  BY <1>4 DEF Crash, Exit, LoseProcess, Pending
<1>5. CASE Terminate
  BY <1>5 DEF Terminate
<1>6. CASE UNCHANGED vars
  BY <1>6 DEF vars
<1> QED
  BY <1>1, <1>2, <1>3, <1>4, <1>5, <1>6 DEF Next

(* The log only grows: every step appends at most one entry. *)
LEMMA LogGrows ==
    ASSUME ReceiverAssumption, TypeOK, [Next]_vars
    PROVE  \/ UNCHANGED log
           \/ \E m \in Attempts : log' = Append(log, m)
<1> USE DEF handlerVars, clientVars, brokerVars
<1>1. ASSUME NEW r \in Requests, HandlerStep(r) PROVE UNCHANGED log
  BY <1>1, HandlerFrame
<1>2. ASSUME NEW r \in Requests, ClientStep(r) PROVE UNCHANGED log
  BY <1>2 DEF ClientStep, Send, Retry, GiveUp, Acknowledge
<1>3. ASSUME NEW m \in wire \union acked, BrokerStep(m)
      PROVE  log' = log \/ log' = Append(log, m)
  BY <1>3 DEF BrokerStep, AppendToLog, LoseRequest, LoseResponse
<1>4. CASE Crash \/ Exit \/ Terminate \/ UNCHANGED vars
  BY <1>4 DEF Crash, Exit, Terminate, LoseProcess, vars
<1> QED
  BY <1>1, <1>2, <1>3, <1>4 DEF Next, TypeOK

(* What is in the topic stays in the topic. *)
LEMMA LoggedIsStable ==
    ASSUME ReceiverAssumption, TypeOK, [Next]_vars
    PROVE  /\ Len(log') >= Len(log)
           /\ \A i \in 1..Len(log) : log'[i] = log[i]
           /\ \A r \in Requests : Logged(r) => Logged(r)'
<1>1. /\ Len(log') >= Len(log) /\ Len(log) \in Nat /\ Len(log') \in Nat
      /\ \A i \in 1..Len(log) : log'[i] = log[i]
  <2>1. CASE UNCHANGED log
    BY <2>1 DEF TypeOK
  <2>2. ASSUME NEW m \in Attempts, log' = Append(log, m)
        PROVE  /\ Len(log') >= Len(log) /\ Len(log) \in Nat /\ Len(log') \in Nat
               /\ \A i \in 1..Len(log) : log'[i] = log[i]
    BY <2>2 DEF TypeOK
  <2> QED
    BY <2>1, <2>2, LogGrows
<1> QED
  BY <1>1 DEF Logged

(* A response comes after the append of its attempt, and a delivery report *)
(* after its response.                                                     *)
LEMMA StepReport ==
    ASSUME ReceiverAssumption, TypeOK, HandlerInv, ReportInv, [Next]_vars
    PROVE  ReportInv'
<1> USE DEF ReceiverAssumption, handlerVars, clientVars, brokerVars
<1>0. \A q \in Requests : Logged(q) => Logged(q)'
  BY LoggedIsStable
<1>a. \A m \in acked : m[1] \in Requests
  BY DEF TypeOK, Attempts
<1>b. ASSUME UNCHANGED config, acked' \subseteq acked,
             \A q \in Requests : record'[q] = "delivered" =>
                 record[q] = "delivered" \/ config.acks = "0" \/ Logged(q)
      PROVE  ReportInv'
  BY <1>0, <1>a, <1>b DEF ReportInv
<1>1. ASSUME NEW r \in Requests, HandlerStep(r) PROVE ReportInv'
  <2>1. /\ UNCHANGED <<config, acked>>
        /\ record' \in {record, [record EXCEPT ![r] = "queued"]}
    BY <1>1, HandlerFrame
  <2> QED
    BY <2>1, <1>b DEF TypeOK
<1>2. ASSUME NEW r \in Requests, ClientStep(r) PROVE ReportInv'
  <2>1. CASE Send(r) \/ Retry(r) \/ GiveUp(r)
    BY <2>1, <1>b DEF Send, Retry, GiveUp, TypeOK
  <2>2. CASE Acknowledge(r)
    <3>1. Logged(r)
      BY <2>2 DEF Acknowledge, ReportInv
    <3> QED
      BY <2>2, <3>1, <1>b DEF Acknowledge, TypeOK
  <2> QED
    BY <1>2, <2>1, <2>2 DEF ClientStep
<1>3. ASSUME NEW m \in wire \union acked, BrokerStep(m) PROVE ReportInv'
  <2>1. CASE AppendToLog(m)
    <3>1. Logged(m[1])'
      <4>1. m \in Attempts /\ m[1] \in Requests
        BY <2>1 DEF AppendToLog, TypeOK, Attempts
      <4>2. CASE Logged(m[1])
        BY <4>1, <4>2, <1>0
      <4>3. CASE log' = Append(log, m)
        <5>1. Len(log') = Len(log) + 1 /\ log'[Len(log) + 1] = m /\ Len(log) \in Nat
          BY <4>1, <4>3 DEF TypeOK
        <5> QED
          BY <5>1 DEF Logged
      <4> QED
        BY <2>1, <4>2, <4>3 DEF AppendToLog
    <3>2. acked' \subseteq acked \union {m} /\ UNCHANGED <<config, record>>
      BY <2>1 DEF AppendToLog
    <3> QED
      BY <3>1, <3>2, <1>0, <1>a DEF ReportInv
  <2>2. CASE LoseRequest(m) \/ LoseResponse(m)
    BY <2>2, <1>b DEF LoseRequest, LoseResponse
  <2> QED
    BY <1>3, <2>1, <2>2 DEF BrokerStep
<1>4. CASE Crash \/ Exit
  BY <1>4, <1>b DEF Crash, Exit, LoseProcess
<1>5. CASE Terminate
  BY <1>5, <1>b DEF Terminate
<1>6. CASE UNCHANGED vars
  BY <1>6, <1>b DEF vars
<1> QED
  BY <1>1, <1>2, <1>3, <1>4, <1>5, <1>6 DEF Next

(* The client's records end with the process, and a graceful stop waits    *)
(* for them.                                                               *)
LEMMA StepStop ==
    ASSUME ReceiverAssumption, TypeOK, StopInv, [Next]_vars
    PROVE  StopInv'
<1> USE DEF TypeOK, StopInv, Pending, Alive, handlerVars, clientVars, brokerVars
<1>1. ASSUME NEW r \in Requests, HandlerStep(r) PROVE StopInv'
  <2>1. CASE Enqueue(r)
    BY <2>1 DEF Enqueue
  <2>2. CASE ~Enqueue(r)
    <3>1. UNCHANGED <<record, status>>
      BY <1>1, <2>2 DEF HandlerStep, RejectInvalid, Filter, AcceptHttpOnly, FailToDecide, FailToEncode,
         StartPublish, Refuse, Resume
    <3> QED
      BY <3>1
  <2> QED
    BY <2>1, <2>2
<1>2. ASSUME NEW r \in Requests, ClientStep(r) PROVE StopInv'
  BY <1>2 DEF ClientStep, Send, Retry, GiveUp, Acknowledge
<1>3. ASSUME NEW m \in wire \union acked, BrokerStep(m) PROVE StopInv'
  BY <1>3 DEF BrokerStep, AppendToLog, LoseRequest, LoseResponse
<1>4. CASE Crash
  BY <1>4 DEF Crash, LoseProcess
<1>5. CASE Terminate
  BY <1>5 DEF Terminate
<1>6. CASE Exit
  BY <1>6 DEF Exit, LoseProcess
<1>7. CASE UNCHANGED vars
  BY <1>7 DEF vars
<1> QED
  BY <1>1, <1>2, <1>3, <1>4, <1>5, <1>6, <1>7 DEF Next

(* All the conjuncts together are inductive on top of the types.           *)
THEOREM SafetyInvariant == Spec => [](TypeOK /\ SafetyInv)
<1>1. Init => TypeOK /\ SafetyInv
  BY InitType, InitSafety, ReceiverAssumption
<1>2. TypeOK /\ SafetyInv /\ [Next]_vars => TypeOK' /\ SafetyInv'
  BY StepType, StepHandler, StepAttempts, StepReport, StepStop, ReceiverAssumption
  DEF SafetyInv
<1> QED
  BY <1>1, <1>2, PTL DEF Spec

-----------------------------------------------------------------------------
(* What the invariant is for. *)

(* Whatever is in the topic was handed to the client by its handler.       *)
LEMMA LoggedWasTaken ==
    ASSUME TypeOK, AttemptInv, NEW r \in Requests, Logged(r)
    PROVE  record[r] # "none"
<1>1. PICK i \in 1..Len(log) : log[i][1] = r
  BY DEF Logged
<1>2. log[i] \in Attempts
  BY DEF TypeOK
<1>3. log[i][2] >= 1 /\ log[i][2] <= attempt[r] /\ log[i][2] \in Nat
  BY <1>1, <1>2 DEF Attempts, AttemptInv
<1>4. attempt[r] # 0
  BY <1>3 DEF TypeOK
<1> QED
  BY <1>4 DEF AttemptInv

(* In confirm mode with acknowledgements a 200 means the record is in the  *)
(* topic, for every lane, every number of retries and every order of       *)
(* losses, timeouts, crashes and stops.                                    *)
THEOREM ConfirmMeansLogged == Spec => []ConfirmedIsLogged
<1>1. SafetyInv => ConfirmedIsLogged
  BY DEF SafetyInv, AnswerInv, ReportInv, ConfirmedIsLogged
<1> QED
  BY <1>1, SafetyInvariant, PTL

(* No refused, filtered or unencodable body reaches the topic, and none    *)
(* does in http-only mode.                                                 *)
THEOREM OnlyBidsReachTheTopic == Spec => []OnlyBidsAreLogged
<1>1. TypeOK /\ SafetyInv => OnlyBidsAreLogged
  BY LoggedWasTaken DEF SafetyInv, HandlerInv, OnlyBidsAreLogged, Publishable
<1> QED
  BY <1>1, SafetyInvariant, PTL

(* In enqueue mode a request answered 503 never turns up in the topic.     *)
THEOREM EnqueueRefusalIsFinal == Spec => []RefusedIsNotLogged
<1>1. TypeOK /\ SafetyInv => RefusedIsNotLogged
  BY LoggedWasTaken DEF SafetyInv, AnswerInv, RefusedIsNotLogged
<1> QED
  BY <1>1, SafetyInvariant, PTL

(* A graceful stop loses nothing the client took and did not give up.      *)
THEOREM GracefulStopFlushes == Spec => []StopFlushes
<1>1. TypeOK /\ SafetyInv => StopFlushes
  BY DEF TypeOK, RecordStates, SafetyInv, ReportInv, StopInv, Pending, StopFlushes
<1> QED
  BY <1>1, SafetyInvariant, PTL

(* No late delivery report, refusal or stop revises an answer, and nothing *)
(* in the topic is rewritten.                                              *)
THEOREM AnswersAndLogFinal == Spec => AnswersAndLogAreFinal
<1> DEFINE Kept == \A r \in Requests : answer[r] # "none" => answer'[r] = answer[r]
<1>1. ASSUME ReceiverAssumption, TypeOK, SafetyInv, [Next]_vars PROVE Kept
  <2> USE DEF handlerVars, clientVars, brokerVars
  <2>1. ASSUME NEW r \in Requests, HandlerStep(r) PROVE Kept
    <3>1. \/ UNCHANGED answer
          \/ phase[r] \in {"idle", "publishing", "awaiting"} /\ \E code : Reply(r, code)
      BY <2>1 DEF HandlerStep, RejectInvalid, Filter, AcceptHttpOnly, FailToDecide, FailToEncode,
         StartPublish, Enqueue, Refuse, Resume, Arrives
    <3>2. phase[r] \in {"idle", "publishing", "awaiting"} => answer[r] = "none"
      BY <1>1 DEF SafetyInv, HandlerInv
    <3> QED
      BY <1>1, <3>1, <3>2 DEF TypeOK, Reply
  <2>2. ASSUME NEW r \in Requests, ClientStep(r) PROVE UNCHANGED answer
    BY <2>2 DEF ClientStep, Send, Retry, GiveUp, Acknowledge
  <2>3. ASSUME NEW m \in wire \union acked, BrokerStep(m) PROVE UNCHANGED answer
    BY <2>3 DEF BrokerStep, AppendToLog, LoseRequest, LoseResponse
  <2>4. CASE Crash \/ Exit \/ Terminate \/ UNCHANGED vars
    BY <2>4 DEF Crash, Exit, Terminate, LoseProcess, vars
  <2> QED
    BY <1>1, <2>1, <2>2, <2>3, <2>4 DEF Next
<1>2. TypeOK /\ SafetyInv /\ [Next]_vars =>
          [/\ Kept
           /\ Len(log') >= Len(log)
           /\ \A i \in 1..Len(log) : log'[i] = log[i]]_vars
  BY <1>1, LoggedIsStable, ReceiverAssumption
<1> QED
  BY <1>2, SafetyInvariant, PTL DEF Spec, AnswersAndLogAreFinal

-----------------------------------------------------------------------------
(* The contract.  Its variables are functions of the receiver's, and each  *)
(* step of the receiver is one step of the contract or none at all.        *)

(* The answers where what the client said is reported: in enqueue mode by  *)
(* three lanes, in the other modes by all.                                 *)
LEMMA ReportingAnswers ==
    ASSUME config.lane \in Lanes, ReportsRefusals(config), NEW result \in Results
    PROVE  /\ result = "unencodable" => LaneAnswer(result) \in {"500", "503"}
           /\ result = "delivered" => LaneAnswer(result) = "200"
           /\ result \in {"thrown", "reported", "failed"} => LaneAnswer(result) = "503"
BY DEF ReportsRefusals, ReportingLanes, Lanes, Results, LaneAnswer, Settle, RustAnswer, GoAnswer,
   PythonAnswer, NodeAnswer, QuarkusAnswer, SpringAnswer, SpringVirtualAnswer

(* What the lanes that report a refusal promise in enqueue mode, with any  *)
(* bodies: a 200 speaks of a record the client has taken, and the client   *)
(* never gives back what it took.                                          *)
THEOREM EnqueuePromiseIsKept ==
    ASSUME \A c \in Configs : ReportsRefusals(c)
    PROVE  Spec => []EnqueuedIsInPipeline
<1>1. Init => EnqueuedIsInPipeline
  BY DEF Init, EnqueuedIsInPipeline
<1>2. ASSUME ReceiverAssumption, TypeOK, SafetyInv, EnqueuedIsInPipeline, [Next]_vars
      PROVE  EnqueuedIsInPipeline'
  <2> USE DEF handlerVars, clientVars, brokerVars, EnqueuedIsInPipeline
  <2>1. config.lane \in Lanes /\ ReportsRefusals(config)
    BY <1>2 DEF TypeOK, ReceiverAssumption
  <2>2. ASSUME NEW r \in Requests, HandlerStep(r) PROVE EnqueuedIsInPipeline'
    <3>1. CASE RejectInvalid(r) \/ Filter(r) \/ AcceptHttpOnly(r) \/ FailToDecide(r)
               \/ StartPublish(r)
      BY <1>2, <3>1
      DEF RejectInvalid, Filter, AcceptHttpOnly, FailToDecide, StartPublish, Reply, TypeOK
    <3>2. CASE FailToEncode(r) \/ Refuse(r)
      <4>1. LaneAnswer("unencodable") # "200" /\ LaneAnswer("reported") # "200"
            /\ LaneAnswer("thrown") # "200"
        BY <2>1, ReportingAnswers DEF Results
      <4> QED
        BY <1>2, <3>2, <4>1 DEF FailToEncode, Refuse, Reply, TypeOK
    <3>3. CASE Enqueue(r)
      BY <1>2, <3>3 DEF Enqueue, Reply, TypeOK
    <3>4. CASE Resume(r)
      BY <1>2, <3>4 DEF Resume, SafetyInv, HandlerInv
    <3> QED
      BY <2>2, <3>1, <3>2, <3>3, <3>4 DEF HandlerStep
  <2>3. ASSUME NEW r \in Requests, ClientStep(r) PROVE EnqueuedIsInPipeline'
    BY <1>2, <2>3 DEF ClientStep, Send, Retry, GiveUp, Acknowledge, TypeOK
  <2>4. ASSUME NEW m \in wire \union acked, BrokerStep(m) PROVE EnqueuedIsInPipeline'
    BY <1>2, <2>4 DEF BrokerStep, AppendToLog, LoseRequest, LoseResponse
  <2>5. CASE Crash \/ Terminate \/ Exit \/ UNCHANGED vars
    BY <1>2, <2>5 DEF Crash, Terminate, Exit, LoseProcess, vars
  <2> QED
    BY <1>2, <2>2, <2>3, <2>4, <2>5 DEF Next
<1>3. TypeOK /\ SafetyInv /\ EnqueuedIsInPipeline /\ [Next]_vars => EnqueuedIsInPipeline'
  BY <1>2, ReceiverAssumption
<1> QED
  BY <1>1, <1>3, SafetyInvariant, PTL DEF Spec

(* Every one of the seven handlers decides as the contract says on a body  *)
(* whose values leave no room for the binding to matter.                   *)
THEOREM LanesAgreeOnPlainBodies ==
    ASSUME NEW lane \in Lanes, NEW b \in BidRequests, Plain(b)
    PROVE  Decision(lane, b) = ContractDecision(b)
<1> USE DEF BidRequests, Plain, WellTyped, ContractDecision, Complete, Stages, HasId, HasInventory
<1>1. /\ RustDecision(b) = ContractDecision(b)
      /\ GoDecision(b) = ContractDecision(b)
      /\ PythonDecision(b) = ContractDecision(b)
      /\ NodeDecision(b) = ContractDecision(b)
  BY DEF RustDecision, RustValid, GoDecision, GoInts, PythonDecision, NodeDecision, BindsStrictly
<1>2. /\ QuarkusDecision(b) = ContractDecision(b)
      /\ SpringDecision(b) = ContractDecision(b)
      /\ SpringVirtualDecision(b) = ContractDecision(b)
  BY DEF QuarkusDecision, SpringDecision, SpringVirtualDecision,
         BindsScalars, JacksonInts, JacksonOnes
<1> QED
  BY <1>1, <1>2 DEF Decision, Lanes

(* A handler's step, the client and the log in the eyes of the contract.   *)
LEMMA SeenByContract ==
    ASSUME UNCHANGED <<config, bid>>
    PROVE  /\ UNCHANGED <<[r \in Requests |-> ContractDecision(bid[r])], config.mode,
                          config.acks # "0">>
           /\ UNCHANGED log => UNCHANGED {r \in Requests : Logged(r)}
           /\ (\A r \in Requests : record'[r] = "none" <=> record[r] = "none") =>
                  UNCHANGED {r \in Requests : record[r] # "none"}
  BY DEF Logged

(* A started lane is a started contract. *)
LEMMA ContractInit ==
    ASSUME ReceiverAssumption, Init PROVE Contract!Init
<1>1. \A r \in Requests : ContractDecision(bid[r]) \in {"invalid", "filtered", "bid"}
  BY DEF ContractDecision, Stages
<1>2. config.mode \in {"confirm", "enqueue", "http-only"}
  BY DEF ReceiverAssumption, Init, Modes
<1>3. {r \in Requests : record[r] # "none"} = {} /\ {r \in Requests : Logged(r)} = {}
  BY DEF Init, Logged
<1> QED
  BY <1>1, <1>2, <1>3 DEF Contract!Init, Init

(* Every step of a lane that reports its refusals, of its client and of    *)
(* the broker is a step of the contract or none.                           *)
LEMMA ContractStep ==
    ASSUME ReceiverAssumption, ContractDeployments, TypeOK, SafetyInv, [Next]_vars
    PROVE  [Contract!Next]_(Contract!vars)
<1> DEFINE taken == {r \in Requests : record[r] # "none"}
           published == {r \in Requests : Logged(r)}
<1> USE DEF ReceiverAssumption, handlerVars, clientVars, brokerVars
<1>0. /\ config \in Configs /\ config.lane \in Lanes /\ config.mode \in Modes
      /\ ReportsRefusals(config)
      /\ \A r \in Requests : Verdict(r) = ContractDecision(bid[r])
      /\ \A r \in Requests : Verdict(r) # "broken"
  BY LanesAgreeOnPlainBodies
  DEF ContractDeployments, TypeOK, Verdict, ContractDecision, Stages
<1>a. ASSUME NEW r \in Requests, UNCHANGED <<config, bid, record, log>>,
             answer[r] = "none", NEW code, answer' = [answer EXCEPT ![r] = code],
             \/ code = "400" /\ Verdict(r) = "invalid"
             \/ code = "204" /\ Verdict(r) = "filtered"
             \/ code = "200" /\ Verdict(r) = "bid" /\ config.mode = "http-only"
             \/ /\ code \in {"500", "503"} /\ Verdict(r) = "bid"
                /\ config.mode # "http-only"
                /\ config.mode = "enqueue" => record[r] = "none"
             \/ /\ code = "200" /\ config.mode = "confirm" /\ record[r] # "none"
                /\ config.acks # "0" => Logged(r)
      PROVE  Contract!Next
  <2>1. UNCHANGED <<taken, published>>
        /\ UNCHANGED <<[q \in Requests |-> ContractDecision(bid[q])], config.mode,
                       config.acks # "0">>
    BY <1>a, SeenByContract
  <2>2. Contract!Reply(r, code)
    BY <1>a, <2>1 DEF Contract!Reply
  <2>3. Contract!Reject(r) \/ Contract!Filter(r) \/ Contract!AcceptHttpOnly(r)
            \/ Contract!Fail(r) \/ Contract!Confirm(r)
    BY <1>a, <1>0, <2>1, <2>2
    DEF Contract!Reject, Contract!Filter, Contract!AcceptHttpOnly, Contract!Fail,
        Contract!Confirm
  <2> QED
    BY <2>3 DEF Contract!Next
<1>b. ASSUME UNCHANGED <<config, bid, answer, log>>,
             \A r \in Requests : record'[r] = "none" <=> record[r] = "none"
      PROVE  UNCHANGED Contract!vars
  BY <1>b, SeenByContract DEF Contract!vars
<1>1. ASSUME NEW r \in Requests, HandlerStep(r) PROVE [Contract!Next]_(Contract!vars)
  <2>1. CASE RejectInvalid(r) \/ Filter(r) \/ AcceptHttpOnly(r)
    BY <2>1, <1>a DEF RejectInvalid, Filter, AcceptHttpOnly, Arrives, Reply, SafetyInv,
       HandlerInv
  <2>2. CASE FailToDecide(r)
    BY <2>2, <1>0 DEF FailToDecide
  <2>3. CASE FailToEncode(r)
    <3>1. LaneAnswer("unencodable") \in {"500", "503"}
      BY <1>0, ReportingAnswers DEF Results
    <3> QED
      BY <2>3, <3>1, <1>a DEF FailToEncode, Arrives, Reply, SafetyInv, HandlerInv
  <2>4. CASE StartPublish(r)
    BY <2>4, <1>b DEF StartPublish
  <2>5. CASE Enqueue(r)
    <3>1. /\ Verdict(r) = "bid" /\ record[r] = "none" /\ answer[r] = "none"
          /\ config.mode \in {"confirm", "enqueue"}
      BY <2>5, <1>0 DEF Enqueue, SafetyInv, HandlerInv, Publishable, Modes
    <3>2. UNCHANGED published
          /\ UNCHANGED <<[q \in Requests |-> ContractDecision(bid[q])], config.mode,
                         config.acks # "0">>
      BY <2>5, SeenByContract DEF Enqueue
    <3>3. {q \in Requests : record'[q] # "none"} = taken \union {r}
      BY <2>5 DEF Enqueue, TypeOK
    <3>4. CASE config.mode = "confirm"
      <4>1. LaneAnswer("queued") = Wait
        BY <3>4, ConfirmAnswers, <1>0 DEF Results
      <4>2. Contract!HandOver(r)
        BY <1>0, <2>5, <3>1, <3>2, <3>3, <3>4, <4>1 DEF Enqueue, Contract!HandOver
      <4> QED
        BY <4>2 DEF Contract!Next
    <3>5. CASE config.mode = "enqueue"
      <4>1. LaneAnswer("queued") = "200" /\ LaneAnswer("queued") # Wait
        BY <3>5, EnqueueAnswers, <1>0 DEF Wait
      <4>2. Contract!Reply(r, "200")
        BY <2>5, <3>1, <3>2, <4>1 DEF Enqueue, Reply, Contract!Reply
      <4>3. Contract!HandOver(r)
        BY <1>0, <3>1, <3>2, <3>3, <3>5, <4>2 DEF Contract!HandOver
      <4> QED
        BY <4>3 DEF Contract!Next
    <3> QED
      BY <3>1, <3>4, <3>5
  <2>6. CASE Refuse(r)
    <3>1. LaneAnswer("reported") = "503" /\ LaneAnswer("thrown") = "503"
      BY <1>0, ReportingAnswers DEF Results
    <3> QED
      BY <2>6, <3>1, <1>a DEF Refuse, Reply, SafetyInv, HandlerInv, Publishable
  <2>7. CASE Resume(r)
    <3>1. /\ record[r] = "delivered" => LaneAnswer(record[r]) = "200"
          /\ record[r] = "failed" => LaneAnswer(record[r]) = "503"
      BY <1>0, ReportingAnswers DEF Results
    <3>2. config.mode = "confirm" /\ answer[r] = "none" /\ Verdict(r) = "bid"
      BY <2>7 DEF Resume, SafetyInv, HandlerInv, Publishable
    <3> QED
      BY <2>7, <3>1, <3>2, <1>a DEF Resume, Reply, SafetyInv, ReportInv
  <2> QED
    BY <1>1, <2>1, <2>2, <2>3, <2>4, <2>5, <2>6, <2>7 DEF HandlerStep
<1>2. ASSUME NEW r \in Requests, ClientStep(r) PROVE UNCHANGED Contract!vars
  <2>1. /\ UNCHANGED <<config, bid, answer, log>>
        /\ record[r] # "none"
        /\ \E s \in RecordStates \ {"none"} : record' = [record EXCEPT ![r] = s]
    BY <1>2 DEF ClientStep, Send, Retry, GiveUp, Acknowledge, Pending, RecordStates
  <2> QED
    BY <2>1, <1>b DEF TypeOK
<1>3. ASSUME NEW m \in wire \union acked, BrokerStep(m)
      PROVE  [Contract!Next]_(Contract!vars)
  <2>1. CASE AppendToLog(m) /\ log' # log
    <3>1. m \in Attempts /\ m[1] \in Requests /\ log' = Append(log, m)
      BY <2>1 DEF AppendToLog, TypeOK, Attempts
    <3>2. record[m[1]] # "none"
      <4>1. m[2] >= 1 /\ m[2] <= attempt[m[1]] /\ m[2] \in Nat
        BY <2>1, <3>1 DEF AppendToLog, SafetyInv, AttemptInv, Attempts
      <4>2. attempt[m[1]] # 0
        BY <3>1, <4>1 DEF TypeOK
      <4> QED
        BY <3>1, <4>2 DEF SafetyInv, AttemptInv
    <3>3. published' = published \union {m[1]}
      <4>1. /\ Len(log') = Len(log) + 1 /\ Len(log) \in Nat
            /\ log'[Len(log) + 1] = m
            /\ \A i \in 1..Len(log) : log'[i] = log[i]
        BY <3>1 DEF TypeOK
      <4>2. \A r \in Requests : Logged(r)' <=> Logged(r) \/ r = m[1]
        BY <4>1 DEF Logged
      <4> QED
        BY <3>1, <4>2
    <3>4. UNCHANGED <<answer, taken>>
          /\ UNCHANGED <<[q \in Requests |-> ContractDecision(bid[q])], config.mode,
                         config.acks # "0">>
      BY <2>1, SeenByContract DEF AppendToLog
    <3>5. Contract!Publish(m[1])
      BY <3>1, <3>2, <3>3, <3>4 DEF Contract!Publish
    <3> QED
      BY <3>1, <3>5 DEF Contract!Next
  <2>2. CASE LoseRequest(m) \/ LoseResponse(m) \/ (AppendToLog(m) /\ log' = log)
    BY <2>2, <1>b DEF LoseRequest, LoseResponse, AppendToLog
  <2> QED
    BY <1>3, <2>1, <2>2 DEF BrokerStep
<1>4. CASE Crash \/ Exit
  BY <1>4, <1>b DEF Crash, Exit, LoseProcess, Pending
<1>5. CASE Terminate
  BY <1>5, <1>b DEF Terminate
<1>6. CASE UNCHANGED vars
  BY <1>6, <1>b DEF vars
<1> QED
  BY <1>1, <1>2, <1>3, <1>4, <1>5, <1>6 DEF Next

(* On plain bodies the lanes implement the contract, all seven in confirm  *)
(* and http-only mode and the three that report a refusal in enqueue mode, *)
(* for any number of requests, attempts and queue places: every behaviour  *)
(* of handler, client, network, broker and process is one it allows.       *)
THEOREM ReceiverImplementsContract ==
    ASSUME ContractDeployments PROVE Spec => ImplementsContract
<1>1. Init => Contract!Init
  BY ContractInit, ReceiverAssumption
<1>2. TypeOK /\ SafetyInv /\ [Next]_vars => [Contract!Next]_(Contract!vars)
  BY ContractStep, ContractDeployments, ReceiverAssumption
<1> QED
  BY <1>1, <1>2, SafetyInvariant, PTL DEF Spec, ImplementsContract, Contract!Spec

=============================================================================
