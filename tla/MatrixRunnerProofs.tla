------------------------- MODULE MatrixRunnerProofs -------------------------
(***************************************************************************)
(* Proofs about MatrixRunner, for every list of lanes, every environment   *)
(* and every number of repeats.                                            *)
(***************************************************************************)
EXTENDS MatrixRunner, TLAPS

(***************************************************************************)
(* The configuration of an accepted environment is one, has a lane, and    *)
(* under the preset strict-1 is as narrow as the guardrails say.           *)
(***************************************************************************)
LEMMA AcceptedConfiguration ==
    ASSUME NEW env \in Environments, Accepted(env)
    PROVE  LET c == Effective(env)
           IN  /\ c \in Configurations
               /\ c.services # <<>>
               /\ c.preset = "strict-1" =>
                      /\ UsesKafka(c) /\ c.partitions = 1
                      /\ VirtualLane \notin ServicesOf(c.services)
<1> DEFINE c == Effective(env)
<1>2. DerivedPreset(env) \in Presets
  BY DEF DerivedPreset, Environments, Presets, Unset
<1>3. c.services \in Seq(Services)
  <2>1. DefaultServices(DerivedPreset(env)) \in Seq(Services)
    BY <1>2, MatrixConfigAssumption DEF MatrixConfigAssumption, DefaultServices
  <2>2. env.services # <<>> => env.services \in Seq(Services)
    BY MatrixConfigAssumption DEF MatrixConfigAssumption, Environments
  <2> QED BY <2>1, <2>2 DEF Effective
<1>4. c \in Configurations
  BY <1>2, <1>3 DEF Effective, Configurations, Environments, OrElse, Unset, Presets,
     DeliveryModes, Profiles, Acks, Knobs, Partitions
<1>5. /\ c.services # <<>>
      /\ c.preset = "strict-1" => VirtualLane \notin ServicesOf(c.services)
  BY DEF Accepted, ServicesAccepted
<1>6. ASSUME c.preset = "strict-1"
      PROVE  UsesKafka(c) /\ c.partitions = 1
  <2>1. c.mode = "confirm" /\ c.profile = "strict-1"
    BY <1>6 DEF Effective
  <2> QED BY <2>1 DEF Accepted, ConfirmAccepted, UsesKafka
<1> QED BY <1>4, <1>5, <1>6

-----------------------------------------------------------------------------
(* The lane the runner is at is one of the listed services. *)
LEMMA CurrentIsListed ==
    ASSUME TypeOK
    PROVE  /\ config.services \in Seq(Services) /\ Len(config.services) \in Nat
           /\ lane <= Len(config.services) =>
                  Current \in Services /\ Current \in ServicesOf(config.services)
<1>1. config.services \in Seq(Services)
  BY DEF TypeOK, Configurations
<1>2. ASSUME lane <= Len(config.services)
      PROVE  lane \in 1..Len(config.services)
  <2>1. lane \in 1..(Len(config.services) + 1)
    BY DEF TypeOK
  <2> QED BY <1>1, <1>2, <2>1
<1> QED BY <1>1, <1>2 DEF Current, ServicesOf

(* The counters are naturals, in a form arithmetic can use. *)
LEMMA Counters ==
    ASSUME TypeOK
    PROVE  /\ Len(config.services) \in Nat /\ Repeats \in Nat
           /\ lane \in Nat /\ run \in Nat
<1>1. Len(config.services) \in Nat /\ Repeats \in Nat
  BY CurrentIsListed, MatrixRunnerAssumption DEF MatrixRunnerAssumption
<1>2. lane \in 1..(Len(config.services) + 1) /\ run \in 1..(Repeats + 1)
  BY DEF TypeOK
<1> QED BY <1>1, <1>2

(* A run that got past the guardrails starts well formed. *)
LEMMA InitType == ASSUME Init PROVE TypeOK
<1>1. config \in Configurations /\ config.services # <<>>
  BY AcceptedConfiguration, MatrixRunnerAssumption DEF MatrixRunnerAssumption, Init
<1>2. config.services \in Seq(Services)
  BY <1>1 DEF Configurations
<1>3. lane \in 1..(Len(config.services) + 1) /\ lane <= Len(config.services)
  BY <1>1, <1>2 DEF Init
<1>4. run \in 1..(Repeats + 1)
  BY MatrixRunnerAssumption DEF MatrixRunnerAssumption, Init
<1>5. /\ container \in [Services -> {"absent", "starting", "ready", "exited"}]
      /\ summary \in [Runs -> {"none", "failed", "passed"}]
  BY DEF Init
<1> QED
  BY <1>1, <1>3, <1>4, <1>5 DEF Init, TypeOK, Active, Waiting, LanePhases, WithLane

(* Well-formed states stay well formed; that a measured topic exists is    *)
(* TopicInv's doing.                                                       *)
LEMMA StepType == ASSUME TypeOK, TopicInv, [Next]_vars PROVE TypeOK'
<1>a. Repeats \in Nat /\ 1 \in 1..(Repeats + 1)
  BY MatrixRunnerAssumption DEF MatrixRunnerAssumption
<1>b. (run <= Repeats /\ run \in 1..(Repeats + 1)) =>
          run \in 1..Repeats /\ run + 1 \in 1..(Repeats + 1)
  BY <1>a
<1>c. (lane <= Len(config.services) /\ lane \in 1..(Len(config.services) + 1)) =>
          lane + 1 \in 1..(Len(config.services) + 1)
  BY CurrentIsListed
<1>d. lane <= Len(config.services) => Current \in Services
  BY CurrentIsListed
<1> USE DEF TypeOK, Active, Waiting, LanePhases, WithLane, Alive, Up, Goto,
        runnerVars, brokerVars, resultVars
<1>e. config.partitions \in Partitions
  BY DEF Configurations
<1>1. CASE BrokerIsHealthy \/ BrokerDies \/ BrokerExits
  BY <1>1 DEF BrokerIsHealthy, BrokerDies, BrokerExits
<1>2. CASE CreateTopic \/ ScriptFails
  BY <1>2, <1>e DEF CreateTopic, ScriptFails
<1>3. CASE WidenTopic
  <2>1. width # 0 /\ width' \in Partitions
    BY <1>3, <1>e DEF WidenTopic, TopicInv
  <2>2. pc = "measuring" => <<Current, width'>> \in Services \X Partitions
    BY <1>d, <2>1
  <2> QED BY <1>3, <2>1, <2>2 DEF WidenTopic
<1>4. CASE Prepare
  BY <1>4 DEF Prepare, BringUpBroker
<1>5. CASE AwaitKafka \/ AwaitTopic \/ CheckTopic
  BY <1>5 DEF AwaitKafka, AwaitTopic, CheckTopic
<1>6. CASE StartLane
  BY <1>6, <1>d DEF StartLane, LaunchLane, BringUpBroker
<1>7. CASE AwaitBroker
  BY <1>7, <1>d DEF AwaitBroker, LaunchLane
<1>8. ASSUME NEW s \in Services, LaneIsReady(s) \/ LaneDies(s) PROVE TypeOK'
  BY <1>8 DEF LaneIsReady, LaneDies
<1>9. CASE AwaitLane \/ WarmUp
  BY <1>9, <1>a DEF AwaitLane, WarmUp
<1>10. CASE StartRun
  <2>1. UsesKafka(config) => <<Current, width>> \in Services \X Partitions
    BY <1>10, <1>d DEF StartRun, TopicInv
  <2> QED BY <1>10, <2>1 DEF StartRun
<1>11. ASSUME NEW result \in {"failed", "passed"}, EndRun(result) PROVE TypeOK'
  <2>1. <<Current, run>> \in Runs
    BY <1>11, <1>d, <1>b DEF EndRun, Runs
  <2>2. summary' \in [Runs -> {"none", "failed", "passed"}]
    BY <1>11, <2>1 DEF EndRun
  <2>3. run' \in 1..(Repeats + 1)
    BY <1>11, <1>b DEF EndRun
  <2> QED BY <1>11, <2>2, <2>3 DEF EndRun
<1>12. CASE StopLane
  <2>1. lane' \in 1..(Len(config.services) + 1)
    BY <1>12, <1>c DEF StopLane
  <2>2. container' \in [Services -> {"absent", "starting", "ready", "exited"}]
    BY <1>12 DEF StopLane
  <2> QED BY <1>12, <2>1, <2>2 DEF StopLane
<1>13. CASE Collate \/ TimeOut \/ Abort
  BY <1>13 DEF Collate, TimeOut, Abort
<1>14. CASE Cleanup \/ CleanupFails
  BY <1>14 DEF Cleanup, CleanupFails, StopLanes, StopBroker
<1>15. CASE UNCHANGED vars
  BY <1>15 DEF vars
<1> QED
  BY <1>1, <1>2, <1>3, <1>4, <1>5, <1>6, <1>7, <1>8, <1>9, <1>10, <1>11, <1>12,
     <1>13, <1>14, <1>15 DEF Next, RunnerStep

-----------------------------------------------------------------------------
(* The invariants, and why each survives a step. *)

(* No step changes the configuration. *)
LEMMA ConfigIsFixed == ASSUME [Next]_vars PROVE config' = config
  BY DEF Next, vars, RunnerStep, BrokerIsHealthy, BrokerDies, BrokerExits, CreateTopic,
     WidenTopic, ScriptFails, Prepare, AwaitKafka, AwaitTopic, CheckTopic, StartLane,
     AwaitBroker, LaneIsReady, LaneDies, AwaitLane, WarmUp, StartRun, EndRun, StopLane,
     Collate, TimeOut, Abort, Cleanup, CleanupFails, StopLanes, StopBroker

(* From the check on, the topic has the width it was checked for. *)
LEMMA StepTopic == ASSUME TypeOK, GuardedInv, TopicInv, [Next]_vars PROVE TopicInv'
<1>a. config.partitions \in Nat /\ config.partitions # 0
  <2>1. config.partitions \in Partitions
    BY DEF TypeOK, Configurations
  <2> QED BY <2>1, MatrixConfigAssumption DEF MatrixConfigAssumption, Partitions
<1> USE DEF TypeOK, GuardedInv, TopicInv, Waiting, LanePhases, WithLane, Active, Up, UsesKafka,
        Goto, runnerVars, brokerVars, resultVars
<1>1. CASE BrokerIsHealthy \/ BrokerDies \/ BrokerExits
  BY <1>1 DEF BrokerIsHealthy, BrokerDies, BrokerExits
<1>2. CASE CreateTopic \/ ScriptFails
  BY <1>2, <1>a DEF CreateTopic, ScriptFails
<1>3. CASE WidenTopic
  BY <1>3, <1>a DEF WidenTopic
<1>4. CASE Prepare
  BY <1>4 DEF Prepare, BringUpBroker
<1>5. CASE AwaitKafka \/ AwaitTopic \/ CheckTopic
  BY <1>5 DEF AwaitKafka, AwaitTopic, CheckTopic
<1>6. CASE StartLane \/ AwaitBroker
  BY <1>6 DEF StartLane, AwaitBroker, LaunchLane, BringUpBroker
<1>7. ASSUME NEW s \in Services, LaneIsReady(s) \/ LaneDies(s) PROVE TopicInv'
  BY <1>7 DEF LaneIsReady, LaneDies
<1>8. CASE AwaitLane \/ WarmUp \/ StartRun \/ StopLane
  BY <1>8 DEF AwaitLane, WarmUp, StartRun, StopLane
<1>9. ASSUME NEW result \in {"failed", "passed"}, EndRun(result) PROVE TopicInv'
  BY <1>9 DEF EndRun
<1>10. CASE Collate \/ TimeOut \/ Abort \/ Cleanup \/ CleanupFails
  BY <1>10 DEF Collate, TimeOut, Abort, Cleanup, CleanupFails, StopBroker
<1>11. CASE UNCHANGED vars
  BY <1>11 DEF vars
<1> QED
  BY <1>1, <1>2, <1>3, <1>4, <1>5, <1>6, <1>7, <1>8, <1>9, <1>10, <1>11
  DEF Next, RunnerStep

(* A broker is brought up by nobody else, and not by http-only. *)
LEMMA StepHttpOnly ==
    ASSUME TypeOK, HttpOnlyNeedsNoKafka, [Next]_vars PROVE HttpOnlyNeedsNoKafka'
<1> USE DEF HttpOnlyNeedsNoKafka, UsesKafka, Up, runnerVars, brokerVars, resultVars
<1>1. config' = config
  BY ConfigIsFixed
<1>2. ASSUME config.mode = "http-only" PROVE broker' = "down"
  BY <1>2 DEF Next, vars, RunnerStep, BrokerIsHealthy, BrokerDies, BrokerExits,
     CreateTopic, WidenTopic, ScriptFails, Prepare, AwaitKafka, AwaitTopic, CheckTopic,
     StartLane, AwaitBroker, LaneIsReady, LaneDies, AwaitLane, WarmUp, StartRun, EndRun,
     StopLane, Collate, TimeOut, Abort, Cleanup, CleanupFails, StopBroker
<1> QED BY <1>1, <1>2

(* Under strict-1 a lane is started and measured with the topic checked,   *)
(* and from there on nothing widens it.                                    *)
LEMMA StepStrict ==
    ASSUME TypeOK, GuardedInv, TopicInv, StrictMeansStrict, [Next]_vars
    PROVE  StrictMeansStrict'
<1> SUFFICES ASSUME config.preset = "strict-1"
             PROVE  /\ \A x \in seen' : x[2] = 1
                    /\ \A s \in Services :
                           container'[s] # "absent" => width' = 1 /\ s # VirtualLane
  BY ConfigIsFixed DEF StrictMeansStrict
<1>a. lane <= Len(config.services) => Current \in Services /\ Current # VirtualLane
  BY CurrentIsListed DEF GuardedInv
<1>b. pc \in LanePhases => width = 1
  BY DEF TopicInv
<1>c. config.partitions = 1
  BY DEF GuardedInv
<1>d. /\ \A x \in seen : x[2] = 1
      /\ \A s \in Services : container[s] # "absent" => width = 1 /\ s # VirtualLane
  BY DEF StrictMeansStrict
<1>e. container \in [Services -> {"absent", "starting", "ready", "exited"}]
  BY DEF TypeOK
<1> USE DEF LanePhases, WithLane, Goto, runnerVars, brokerVars, resultVars
<1>1. CASE CreateTopic
  BY <1>1, <1>d DEF CreateTopic
<1>2. CASE WidenTopic
  <2>1. width = 1 => width' = 1
    BY <1>2, <1>c DEF WidenTopic
  <2>2. \A x \in seen' : x \in seen \/ (pc = "measuring" /\ x[2] = width')
    BY <1>2 DEF WidenTopic
  <2> QED BY <1>2, <2>1, <2>2, <1>b, <1>d DEF WidenTopic
<1>3. CASE StartRun
  <2>1. seen' \subseteq seen \union {<<Current, width>>}
    BY <1>3 DEF StartRun
  <2>2. <<Current, width>>[2] = width
    OBVIOUS
  <2>3. \A x \in seen' : x \in seen \/ x[2] = width
    BY ONLY <2>1, <2>2
  <2> QED BY <1>3, <2>3, <1>b, <1>d DEF StartRun
<1>4. CASE StartLane \/ AwaitBroker
  <2>1. width' = width /\ seen' = seen
    BY <1>4 DEF StartLane, AwaitBroker
  <2>2. CASE container' = container
    BY <2>1, <2>2, <1>d
  <2>3. CASE LaunchLane
    <3>1. width = 1 /\ Current # VirtualLane
      BY <1>4, <1>a, <1>b DEF StartLane, AwaitBroker, TypeOK
    <3> QED BY <2>1, <2>3, <3>1, <1>d, <1>e DEF LaunchLane
  <2> QED BY <1>4, <2>2, <2>3 DEF StartLane, AwaitBroker
<1>5. ASSUME NEW s \in Services, LaneIsReady(s) \/ LaneDies(s)
      PROVE  /\ \A x \in seen' : x[2] = 1
             /\ \A t \in Services :
                    container'[t] # "absent" => width' = 1 /\ t # VirtualLane
  BY <1>5, <1>d, <1>e DEF LaneIsReady, LaneDies, Alive
<1>6. CASE StopLane
  <2>1. width = 1 /\ Current # VirtualLane
    BY <1>6, <1>a, <1>b DEF StopLane, TypeOK
  <2> QED BY <1>6, <2>1, <1>d, <1>e DEF StopLane
<1>7. CASE Cleanup \/ CleanupFails
  <2>1. UNCHANGED <<width, seen>> /\ (StopLanes \/ UNCHANGED container)
    BY <1>7 DEF Cleanup, CleanupFails
  <2> QED BY <2>1, <1>d, <1>e DEF StopLanes, Alive
<1>8. ASSUME UNCHANGED <<width, container, seen>>
      PROVE  /\ \A x \in seen' : x[2] = 1
             /\ \A s \in Services :
                    container'[s] # "absent" => width' = 1 /\ s # VirtualLane
  BY <1>8, <1>d
<1> QED
  BY <1>1, <1>2, <1>3, <1>4, <1>5, <1>6, <1>7, <1>8
  DEF Next, vars, RunnerStep, BrokerIsHealthy, BrokerDies, BrokerExits, ScriptFails,
      Prepare, AwaitKafka, AwaitTopic, CheckTopic, AwaitLane, WarmUp, EndRun, Collate,
      TimeOut, Abort

(* A lane is started only when the one before it was removed. *)
LEMMA StepAlone == ASSUME TypeOK, AloneInv, [Next]_vars PROVE AloneInv'
<1> SUFFICES ASSUME NEW s \in Services
             PROVE  /\ container'[s] # "absent" => s \in ServicesOf(config.services)
                    /\ (container'[s] \in Alive /\ pc' \in Active) =>
                           pc' \in WithLane /\ s = config.services[lane']
  BY ConfigIsFixed DEF AloneInv, Current
<1>a. lane <= Len(config.services) =>
          Current \in Services /\ Current \in ServicesOf(config.services)
  BY CurrentIsListed
<1>b. container \in [Services -> {"absent", "starting", "ready", "exited"}]
  BY DEF TypeOK
<1>c. /\ container[s] # "absent" => s \in ServicesOf(config.services)
      /\ (container[s] \in Alive /\ pc \in Active) =>
             pc \in WithLane /\ s = Current
  BY DEF AloneInv
<1> USE DEF Active, Waiting, LanePhases, WithLane, Alive, Goto, Current,
        runnerVars, brokerVars, resultVars
<1>1. CASE StartLane \/ AwaitBroker
  <2>1. pc \in {"next lane", "awaiting broker"} /\ container[s] \notin Alive
    BY <1>1, <1>c DEF StartLane, AwaitBroker
  <2>2. CASE container' = container
    BY <2>1, <2>2, <1>c
  <2>3. CASE LaunchLane
    <3>1. lane <= Len(config.services)
      BY <1>1 DEF StartLane, AwaitBroker, TypeOK
    <3> QED BY <2>1, <2>3, <3>1, <1>a, <1>b, <1>c DEF LaunchLane
  <2> QED BY <1>1, <2>2, <2>3 DEF StartLane, AwaitBroker
<1>2. ASSUME NEW t \in Services, LaneIsReady(t) \/ LaneDies(t)
      PROVE  /\ container'[s] # "absent" => s \in ServicesOf(config.services)
             /\ (container'[s] \in Alive /\ pc' \in Active) =>
                    pc' \in WithLane /\ s = config.services[lane']
  BY <1>2, <1>b, <1>c DEF LaneIsReady, LaneDies
<1>3. CASE StopLane
  <2>1. lane <= Len(config.services)
    BY <1>3 DEF StopLane, TypeOK
  <2> QED BY <1>3, <2>1, <1>a, <1>b, <1>c DEF StopLane
<1>4. CASE Cleanup \/ CleanupFails
  <2>1. /\ pc' \in {"exited", "gave up cleaning"}
        /\ StopLanes \/ UNCHANGED container
    BY <1>4 DEF Cleanup, CleanupFails
  <2> QED BY <2>1, <1>b, <1>c DEF StopLanes
<1>5. ASSUME container' = container, lane' = lane,
             pc' \in Active => pc \in Active /\ (pc \in WithLane => pc' \in WithLane)
      PROVE  /\ container'[s] # "absent" => s \in ServicesOf(config.services)
             /\ (container'[s] \in Alive /\ pc' \in Active) =>
                    pc' \in WithLane /\ s = config.services[lane']
  BY <1>5, <1>c
<1> QED
  BY <1>1, <1>2, <1>3, <1>4, <1>5
  DEF Next, vars, RunnerStep, BrokerIsHealthy, BrokerDies, BrokerExits, CreateTopic,
      WidenTopic, ScriptFails, Prepare, AwaitKafka, AwaitTopic, CheckTopic, AwaitLane,
      WarmUp, StartRun, EndRun, Collate, TimeOut, Abort

(* A run that is over was passed: a failed one takes the runner out of the *)
(* loop, and the next lane is reached past the last run only.              *)
LEMMA StepPassed == ASSUME TypeOK, PassedInv, [Next]_vars PROVE PassedInv'
<1>a. summary \in [Runs -> {"none", "failed", "passed"}]
  BY DEF TypeOK
<1>b. ASSUME NEW r \in 1..Repeats PROVE r < run + 1 => r < run \/ r = run
  BY Counters
<1>c. ASSUME NEW i \in 1..Len(config.services) PROVE i < lane + 1 => i < lane \/ i = lane
  BY Counters
<1>d. ASSUME NEW r \in 1..Repeats PROVE run > Repeats => r < run
  BY Counters
<1>e. pc \in Active =>
          ~report /\ \A i \in 1..Len(config.services), r \in 1..Repeats :
                         i < lane => summary[<<config.services[i], r>>] = "passed"
  BY DEF PassedInv
<1>f. pc \in {"next run", "measuring"} =>
          \A r \in 1..Repeats : r < run => summary[<<Current, r>>] = "passed"
  BY DEF PassedInv
<1> USE DEF Active, Waiting, LanePhases, WithLane, Goto,
        runnerVars, brokerVars, resultVars
<1>1. ASSUME NEW result \in {"failed", "passed"}, EndRun(result) PROVE PassedInv'
  <2>1. CASE result = "failed"
    BY <1>1, <2>1 DEF EndRun, PassedInv
  <2>2. CASE result = "passed"
    <3>1. /\ pc = "measuring" /\ pc' = "next run" /\ run' = run + 1
          /\ UNCHANGED <<config, lane, report>>
          /\ summary' = [summary EXCEPT ![<<Current, run>>] = "passed"]
      BY <1>1, <2>2 DEF EndRun
    <3>2. \A x \in Runs : summary[x] = "passed" \/ x = <<Current, run>> =>
                              summary'[x] = "passed"
      BY ONLY <3>1, <1>a
    <3>3. ASSUME NEW i \in 1..Len(config.services), NEW r \in 1..Repeats, i < lane
          PROVE  summary'[<<config.services[i], r>>] = "passed"
      <4>1. config.services[i] \in Services
        BY CurrentIsListed
      <4>2. <<config.services[i], r>> \in Runs
        BY <4>1 DEF Runs
      <4> QED BY <3>1, <3>2, <3>3, <4>2, <1>e
    <3>4. ASSUME NEW r \in 1..Repeats, r < run'
          PROVE  summary'[<<Current, r>>] = "passed"
      <4>1. Current \in Services
        BY <3>1, CurrentIsListed DEF TypeOK
      <4>2. <<Current, r>> \in Runs
        BY <4>1 DEF Runs
      <4>3. r < run \/ r = run
        BY <3>1, <3>4, <1>b
      <4> QED BY <3>1, <3>2, <4>2, <4>3, <1>f
    <3>5. Current' = Current
      BY <3>1 DEF Current
    <3> QED BY <3>1, <3>3, <3>4, <3>5, <1>e DEF PassedInv
  <2> QED BY <2>1, <2>2
<1>2. CASE StopLane
  <2>1. /\ pc = "next run" /\ run > Repeats /\ pc' = "next lane" /\ lane' = lane + 1
        /\ UNCHANGED <<config, summary, report>>
    BY <1>2 DEF StopLane
  <2>2. ASSUME NEW i \in 1..Len(config.services), NEW r \in 1..Repeats, i < lane + 1
        PROVE  summary[<<config.services[i], r>>] = "passed"
    <3>1. r < run /\ (i < lane \/ i = lane)
      BY <2>1, <2>2, <1>c, <1>d
    <3> QED BY <3>1, <2>1, <1>e, <1>f DEF Current
  <2> QED BY <2>1, <2>2, <1>e DEF PassedInv
<1>3. CASE WarmUp
  <2>1. \A r \in 1..Repeats : ~(r < 1)
    BY Counters
  <2> QED BY <1>3, <2>1, <1>e DEF WarmUp, PassedInv
<1>4. ASSUME UNCHANGED <<config, lane, run, summary>>, pc' \in Active => pc \in Active,
             pc' \in Active => report' = report,
             pc' \in {"next run", "measuring"} => pc \in {"next run", "measuring"}
      PROVE  PassedInv'
  <2>1. Current' = Current
    BY <1>4 DEF Current
  <2>2. ASSUME pc' \in Active
        PROVE  ~report' /\ \A i \in 1..Len(config.services), r \in 1..Repeats :
                   i < lane => summary'[<<config.services[i], r>>] = "passed"
    <3>1. pc \in Active /\ report' = report
      BY <1>4, <2>2
    <3>2. ~report'
      BY ONLY <3>1, <1>e
    <3> QED BY <3>1, <3>2, <1>4, <1>e
  <2>3. ASSUME pc' \in {"next run", "measuring"}
        PROVE  \A r \in 1..Repeats : r < run => summary'[<<Current, r>>] = "passed"
    BY <1>4, <2>3, <1>f
  <2> QED BY <1>4, <2>1, <2>2, <2>3 DEF PassedInv
<1>5. CASE Collate
  BY <1>5 DEF Collate, PassedInv
<1> QED
  BY <1>1, <1>2, <1>3, <1>4, <1>5
  DEF Next, vars, RunnerStep, BrokerIsHealthy, BrokerDies, BrokerExits, CreateTopic,
      WidenTopic, ScriptFails, Prepare, AwaitKafka, AwaitTopic, CheckTopic, StartLane,
      LaunchLane, AwaitBroker, LaneIsReady, LaneDies, AwaitLane, StartRun,
      TimeOut, Abort, Cleanup, CleanupFails

(* The report is written only after the last lane and repeat. *)
LEMMA StepReport ==
    ASSUME TypeOK, PassedInv, ReportIsComplete, [Next]_vars PROVE ReportIsComplete'
<1> USE DEF Goto, runnerVars, brokerVars, resultVars
<1>1. CASE Collate
  <2>1. \A i \in 1..Len(config.services), r \in 1..Repeats :
            i < lane => summary[<<config.services[i], r>>] = "passed"
    BY <1>1 DEF Collate, PassedInv, Active, LanePhases
  <2>2. \A i \in 1..Len(config.services) : i < lane
    <3>1. lane > Len(config.services)
      BY <1>1 DEF Collate
    <3> QED BY <3>1, Counters
  <2>3. \A s \in ServicesOf(config.services), r \in 1..Repeats : summary[<<s, r>>] = "passed"
    BY <2>1, <2>2 DEF ServicesOf
  <2> QED BY <1>1, <2>3 DEF Collate, ReportIsComplete
<1>2. CASE \E result \in {"failed", "passed"} : EndRun(result)
  <2>1. ~report /\ report' = report
    BY <1>2 DEF EndRun, PassedInv, Active, LanePhases, WithLane
  <2> QED BY <2>1 DEF ReportIsComplete
<1>3. CASE UNCHANGED <<config, report, summary>>
  BY <1>3 DEF ReportIsComplete
<1> QED
  BY <1>1, <1>2, <1>3
  DEF Next, vars, RunnerStep, BrokerIsHealthy, BrokerDies, BrokerExits, CreateTopic,
      WidenTopic, ScriptFails, Prepare, AwaitKafka, AwaitTopic, CheckTopic, StartLane,
      LaunchLane, AwaitBroker, LaneIsReady, LaneDies, AwaitLane, WarmUp, StartRun,
      StopLane, TimeOut, Abort, Cleanup, CleanupFails

-----------------------------------------------------------------------------
(* The safety invariant holds at the start. *)
LEMMA InitSafety == ASSUME Init PROVE SafetyInv
<1>1. GuardedInv
  BY AcceptedConfiguration, MatrixRunnerAssumption DEF MatrixRunnerAssumption, Init, GuardedInv
<1>2. TopicInv
  BY DEF Init, TopicInv, LanePhases, WithLane
<1>3. AloneInv /\ StrictMeansStrict
  BY DEF Init, AloneInv, StrictMeansStrict, Alive
<1>4. PassedInv
  <2>1. \A i \in 1..Len(config.services) : ~(i < 1)
    OBVIOUS
  <2> QED BY <2>1 DEF Init, PassedInv
<1>5. ReportIsComplete /\ HttpOnlyNeedsNoKafka
  BY DEF Init, ReportIsComplete, HttpOnlyNeedsNoKafka
<1> QED BY <1>1, <1>2, <1>3, <1>4, <1>5 DEF SafetyInv

(* Every step of script, containers and k6 keeps the safety invariant. *)
LEMMA StepSafety == ASSUME TypeOK, SafetyInv, [Next]_vars PROVE SafetyInv'
<1>1. GuardedInv'
  BY ConfigIsFixed DEF SafetyInv, GuardedInv
<1> QED
  BY <1>1, StepTopic, StepStrict, StepAlone, StepPassed, StepReport, StepHttpOnly
  DEF SafetyInv

(* Every state of a run is well formed, and what SafetyInv says of it      *)
(* holds, whatever dies and whatever an earlier run left behind.           *)
THEOREM SafetyInvariant == Spec => [](TypeOK /\ SafetyInv)
<1>1. Init => TypeOK /\ SafetyInv
  BY InitType, InitSafety
<1>2. TypeOK /\ SafetyInv /\ [Next]_vars => (TypeOK /\ SafetyInv)'
  BY StepType, StepSafety DEF SafetyInv
<1> QED BY <1>1, <1>2, PTL DEF Spec

(* Every state of a run is well formed: in particular no lane is measured  *)
(* without a topic, and no run is measured that was not asked for.         *)
THEOREM TypeCorrect == Spec => []TypeOK
BY SafetyInvariant, PTL

(* The preset strict-1 measures pinned lanes against one partition.        *)
THEOREM StrictRunsAreStrict == Spec => []StrictMeansStrict
<1>1. SafetyInv => StrictMeansStrict
  BY DEF SafetyInv
<1> QED BY <1>1, SafetyInvariant, PTL

(* A report holds a passed run for every lane and repeat asked for.        *)
THEOREM ReportsAreComplete == Spec => []ReportIsComplete
<1>1. SafetyInv => ReportIsComplete
  BY DEF SafetyInv
<1> QED BY <1>1, SafetyInvariant, PTL

(* No other lane of the matrix is alive beside the one that is loaded.     *)
THEOREM LanesAreMeasuredAlone == Spec => []MeasuredAlone
<1>1. SafetyInv => MeasuredAlone
  BY DEF SafetyInv, AloneInv, MeasuredAlone, Active, LanePhases, WithLane
<1> QED BY <1>1, SafetyInvariant, PTL

(* http-only runs without a broker.                                        *)
THEOREM HttpOnlyRunsWithoutKafka == Spec => []HttpOnlyNeedsNoKafka
<1>1. SafetyInv => HttpOnlyNeedsNoKafka
  BY DEF SafetyInv
<1> QED BY <1>1, SafetyInvariant, PTL

-----------------------------------------------------------------------------
(* The comparison: each step of the runner is one of it or none.           *)

(* Which of the comparison's variables a step of the runner touches. *)
LEMMA SeenByComparison ==
    ASSUME UNCHANGED <<config, lane, summary, report, Stage, RunsPassed>>,
           pc' \in Active <=> pc \in Active,
           \A s \in Services : container'[s] \in Alive <=> container[s] \in Alive
    PROVE  UNCHANGED Comparison!vars
<1>1. UNCHANGED {s \in Services : container[s] \in Alive}
  OBVIOUS
<1>2. UNCHANGED (pc \notin Active)
  OBVIOUS
<1> QED BY <1>1, <1>2 DEF Comparison!vars

(* A run of the script that got past the guardrails is a comparison begun. *)
LEMMA ComparisonInit == ASSUME Init PROVE Comparison!Init
<1>1. config \in Configurations /\ config.services # <<>>
  BY AcceptedConfiguration, MatrixRunnerAssumption DEF MatrixRunnerAssumption, Init
<1>2. config.services \in Seq(Services)
  BY <1>1 DEF Configurations
<1>3. Stage = "waiting" /\ RunsPassed = 0 /\ pc \in Active
  BY DEF Init, Stage, RunsPassed, WithLane, Active
<1>4. {s \in Services : container[s] \in Alive} = {}
  BY DEF Init, Alive
<1> QED BY <1>1, <1>2, <1>3, <1>4 DEF Comparison!Init, Init, Runs

(* The runs behind the n-th, of k that are asked for. *)
LEMMA RunsBehind ==
    ASSUME NEW n \in Nat, NEW k \in Nat
    PROVE  /\ n <= k => n - 1 < k
           /\ (n > k /\ n <= k + 1) => n - 1 = k
           /\ (n + 1) - 1 = (n - 1) + 1 /\ (n - 1) + 1 = n
  OBVIOUS

(* Every step of runner, broker, topic script and containers is a step of  *)
(* the comparison or none.                                                 *)
LEMMA ComparisonStep ==
    ASSUME TypeOK, SafetyInv, [Next]_vars PROVE [Comparison!Next]_(Comparison!vars)
<1> DEFINE living == {s \in Services : container[s] \in Alive}
<1>a. /\ lane <= Len(config.services) => Current \in Services
      /\ Repeats \in Nat /\ run \in Nat /\ run <= Repeats + 1
  <2>1. run \in 1..(Repeats + 1)
    BY DEF TypeOK
  <2>2. Repeats \in Nat
    BY Counters
  <2>3. run \in Nat /\ run <= Repeats + 1
    BY ONLY <2>1, <2>2
  <2> QED BY <2>2, <2>3, CurrentIsListed
<1>b. container \in [Services -> {"absent", "starting", "ready", "exited"}]
  BY DEF TypeOK
<1>c. \A s \in Services : (s \in living /\ pc \in Active) => pc \in WithLane /\ s = Current
  BY DEF SafetyInv, AloneInv
<1>d. pc \in WithLane => pc \in Active /\ lane <= Len(config.services)
  BY DEF TypeOK, WithLane, LanePhases, Active
<1> USE DEF runnerVars, brokerVars, resultVars
<1>e. ASSUME pc \in Active, pc' = "cleaning", UNCHANGED <<config, lane, container>>
      PROVE  /\ Comparison!End
             /\ UNCHANGED <<config.services, lane, living>>
  <2>1. Stage' = "waiting" /\ RunsPassed' = 0 /\ pc' \notin Active
    BY <1>e DEF Stage, RunsPassed, WithLane, Active, LanePhases, Waiting
  <2> QED BY <1>e, <2>1 DEF Comparison!End
<1>1. CASE BrokerIsHealthy \/ BrokerDies \/ BrokerExits \/ CreateTopic \/ WidenTopic
           \/ ScriptFails \/ UNCHANGED vars
  <2>1. UNCHANGED <<config, pc, lane, run, container, summary, report>>
    BY <1>1 DEF BrokerIsHealthy, BrokerDies, BrokerExits, CreateTopic, WidenTopic,
       ScriptFails, vars
  <2> QED BY <2>1, SeenByComparison DEF Stage, RunsPassed
<1>2. CASE Prepare \/ AwaitKafka \/ AwaitTopic \/ AwaitLane \/ WarmUp
  <2>1. UNCHANGED <<config, lane, container, summary, report>>
    BY <1>2 DEF Prepare, AwaitKafka, AwaitTopic, AwaitLane, WarmUp, Goto
  <2>2. UNCHANGED Stage /\ pc \in Active /\ pc' \in Active
    BY <1>2 DEF Prepare, AwaitKafka, AwaitTopic, AwaitLane, WarmUp, Goto, Stage, WithLane,
       Active, LanePhases, Waiting
  <2>3. /\ pc \notin {"next run", "measuring"}
        /\ pc' \in {"next run", "measuring"} => run' = 1
    BY <1>2 DEF Prepare, AwaitKafka, AwaitTopic, AwaitLane, WarmUp, Goto
  <2>4. RunsPassed = 0 /\ RunsPassed' = 0
    <3>1. 1 - 1 = 0
      OBVIOUS
    <3> QED BY <2>3, <3>1 DEF RunsPassed
  <2> QED BY <2>1, <2>2, <2>4, SeenByComparison
<1>3. CASE CheckTopic \/ TimeOut \/ Abort
  <2>1. CASE pc' = "cleaning"
    <3>1. pc \in Active /\ UNCHANGED <<config, lane, container, summary, report>>
      BY <1>3 DEF CheckTopic, TimeOut, Abort, Goto, Active
    <3> QED BY <2>1, <3>1, <1>e DEF Comparison!GiveUp, Comparison!Next
  <2>2. CASE pc' # "cleaning"
    <3>1. /\ pc = "checking topic" /\ pc' = "next lane"
          /\ UNCHANGED <<config, lane, container, summary, report>>
      BY <1>3, <2>2 DEF CheckTopic, TimeOut, Abort, Goto
    <3>2. UNCHANGED <<Stage, RunsPassed>> /\ pc \in Active /\ pc' \in Active
      BY <3>1 DEF Stage, RunsPassed, WithLane, Active, LanePhases
    <3> QED BY <3>1, <3>2, SeenByComparison
  <2> QED BY <2>1, <2>2
<1>4. CASE StartLane \/ AwaitBroker
  <2>1. /\ pc \in {"next lane", "awaiting broker"} /\ lane <= Len(config.services)
        /\ UNCHANGED <<config, lane, summary, report>>
    BY <1>4 DEF StartLane, AwaitBroker, LaunchLane, Goto, TypeOK, LanePhases, WithLane
  <2>2. /\ Stage = "waiting" /\ RunsPassed = 0 /\ pc \in Active /\ pc \notin WithLane
        /\ living = {}
    BY <2>1, <1>c DEF Stage, RunsPassed, WithLane, Active, LanePhases
  <2>3. CASE LaunchLane
    <3>1. pc' = "awaiting lane" /\ Stage' = "started" /\ RunsPassed' = 0 /\ pc' \in Active
      BY <2>3 DEF LaunchLane, Goto, Stage, RunsPassed, WithLane, Active, LanePhases
    <3>2. living' = {Current}
      BY <2>1, <2>2, <2>3, <1>a, <1>b DEF LaunchLane, Alive
    <3>3. Comparison!Start
      BY <2>1, <2>2, <3>1, <3>2 DEF Comparison!Start, Current
    <3> QED BY <3>3 DEF Comparison!Next
  <2>4. CASE pc' = "awaiting broker" /\ UNCHANGED container
    <3>1. UNCHANGED <<Stage, RunsPassed>> /\ pc' \in Active
      BY <2>2, <2>4 DEF Stage, RunsPassed, WithLane, Active, LanePhases
    <3> QED BY <2>1, <2>2, <2>4, <3>1, SeenByComparison
  <2> QED BY <1>4, <2>3, <2>4 DEF StartLane, AwaitBroker, Goto
<1>5. ASSUME NEW s \in Services, LaneIsReady(s) \/ LaneDies(s)
      PROVE  [Comparison!Next]_(Comparison!vars)
  <2>1. UNCHANGED <<config, pc, lane, run, summary, report>>
    BY <1>5 DEF LaneIsReady, LaneDies
  <2>2. UNCHANGED <<Stage, RunsPassed>>
    BY <2>1 DEF Stage, RunsPassed
  <2>3. CASE LaneIsReady(s)
    <3>1. \A t \in Services : container'[t] \in Alive <=> container[t] \in Alive
      BY <2>3, <1>b DEF LaneIsReady, Alive
    <3> QED BY <2>1, <2>2, <3>1, SeenByComparison
  <2>4. CASE LaneDies(s)
    <3>1. living' = living \ {s}
      BY <2>4, <1>b DEF LaneDies, Alive
    <3>2. Comparison!Die(s)
      BY <2>1, <2>2, <3>1 DEF Comparison!Die
    <3> QED BY <3>2 DEF Comparison!Next
  <2> QED BY <1>5, <2>3, <2>4
<1>6. CASE StartRun
  <2>1. /\ pc = "next run" /\ pc' = "measuring" /\ run <= Repeats
        /\ UNCHANGED <<config, lane, run, container, summary, report>>
    BY <1>6 DEF StartRun, Goto
  <2>2. /\ Stage = "started" /\ Stage' = "loaded" /\ UNCHANGED RunsPassed
        /\ RunsPassed = run - 1 /\ pc \in Active /\ pc' \in Active
    BY <2>1 DEF Stage, RunsPassed, WithLane, Active, LanePhases
  <2>3. RunsPassed < Repeats
    BY <2>1, <2>2, <1>a, RunsBehind
  <2>4. living \subseteq {Current}
    BY <2>2, <1>c
  <2>5. Comparison!Load
    BY <2>1, <2>2, <2>3, <2>4 DEF Comparison!Load, Current
  <2> QED BY <2>5 DEF Comparison!Next
<1>7. ASSUME NEW outcome \in {"failed", "passed"}, EndRun(outcome)
      PROVE  [Comparison!Next]_(Comparison!vars)
  <2>1. /\ pc = "measuring" /\ UNCHANGED <<config, lane, container, report>>
        /\ summary' = [summary EXCEPT ![<<Current, run>>] = outcome]
    BY <1>7 DEF EndRun
  <2>2. /\ Stage = "loaded" /\ RunsPassed = run - 1 /\ RunsPassed + 1 = run
        /\ pc \in Active
    BY <2>1, <1>a DEF Stage, RunsPassed, WithLane, Active, LanePhases
  <2>3. CASE outcome = "passed"
    <3>1. pc' = "next run" /\ run' = run + 1
      BY <1>7, <2>3 DEF EndRun
    <3>2. Stage' = "started" /\ RunsPassed' = run' - 1 /\ pc' \in Active
      BY <3>1 DEF Stage, RunsPassed, WithLane, Active, LanePhases
    <3>3. RunsPassed' = RunsPassed + 1
      BY <2>2, <3>1, <3>2, <1>a, RunsBehind
    <3>4. Comparison!Pass
      BY <2>1, <2>2, <2>3, <3>2, <3>3 DEF Comparison!Pass, Current
    <3> QED BY <3>4 DEF Comparison!Next
  <2>4. CASE outcome = "failed"
    <3>1. pc' = "cleaning"
      BY <1>7, <2>4 DEF EndRun
    <3>2. Comparison!Fail
      BY <2>1, <2>2, <2>4, <3>1, <1>e DEF Comparison!Fail, Current
    <3> QED BY <3>2 DEF Comparison!Next
  <2> QED BY <2>3, <2>4
<1>8. CASE StopLane
  <2>1. /\ pc = "next run" /\ run > Repeats /\ pc' = "next lane" /\ lane' = lane + 1
        /\ container' = [container EXCEPT ![Current] = "exited"]
        /\ UNCHANGED <<config, summary, report>>
    BY <1>8 DEF StopLane
  <2>2. /\ Stage = "started" /\ RunsPassed = run - 1 /\ Stage' = "waiting"
        /\ RunsPassed' = 0 /\ pc \in Active /\ pc' \in Active
    BY <2>1 DEF Stage, RunsPassed, WithLane, Active, LanePhases
  <2>3. RunsPassed = Repeats
    BY <2>1, <2>2, <1>a, RunsBehind
  <2>4. living' = {}
    BY <2>1, <2>2, <1>a, <1>b, <1>c, <1>d DEF Alive
  <2>5. Comparison!NextTurn
    BY <2>1, <2>2, <2>3, <2>4 DEF Comparison!NextTurn
  <2> QED BY <2>5 DEF Comparison!Next
<1>9. CASE Collate
  <2>1. /\ pc \in Active /\ pc' = "cleaning" /\ lane > Len(config.services)
        /\ report' = TRUE /\ UNCHANGED <<config, lane, container, summary>>
    BY <1>9 DEF Collate, Goto, Active, LanePhases
  <2>2. Comparison!Report
    BY <2>1, <1>e DEF Comparison!Report
  <2> QED BY <2>2 DEF Comparison!Next
<1>10. CASE Cleanup \/ CleanupFails
  <2>1. /\ pc = "cleaning" /\ pc' \in {"exited", "gave up cleaning"}
        /\ StopLanes \/ UNCHANGED container
        /\ UNCHANGED <<config, lane, run, summary, report>>
    BY <1>10 DEF Cleanup, CleanupFails, Goto
  <2>2. UNCHANGED <<Stage, RunsPassed>> /\ pc \notin Active /\ pc' \notin Active
    BY <2>1 DEF Stage, RunsPassed, WithLane, Active, LanePhases, Waiting
  <2>3. living' \subseteq living
    BY <2>1, <1>b DEF StopLanes, Alive
  <2>4. Comparison!CleanUp
    BY <2>1, <2>2, <2>3 DEF Comparison!CleanUp
  <2> QED BY <2>4 DEF Comparison!Next
<1> QED
  BY <1>1, <1>2, <1>3, <1>4, <1>5, <1>6, <1>7, <1>8, <1>9, <1>10 DEF Next, RunnerStep

(* A matrix run implements the fair comparison, for every list of lanes,   *)
(* environment and number of repeats: whatever dies, the lanes have their  *)
(* turns one by one, the first failed run is the last, and only a list     *)
(* that was gone through is reported.                                      *)
THEOREM MatrixComparesFairly == Spec => ComparesFairly
<1>1. Init => Comparison!Init
  BY ComparisonInit
<1>2. TypeOK /\ SafetyInv /\ [Next]_vars => [Comparison!Next]_(Comparison!vars)
  BY ComparisonStep
<1> QED BY <1>1, <1>2, SafetyInvariant, PTL DEF Spec, ComparesFairly, Comparison!Spec

-----------------------------------------------------------------------------
(* "Keep Kafka topology ... constant across compared services" does not    *)
(* hold of every run (TopologyIsConstant); of these it does: the topic an  *)
(* earlier run left, if any, is not narrower than this run wants it.       *)
WideEnough == width = 0 \/ width >= config.partitions

TopologyInv == WideEnough /\ \A x \in seen : x[2] = width

(* Once there is a topic, nothing changes it. *)
LEMMA StepTopology ==
    ASSUME TypeOK, SafetyInv, TopologyInv, [Next]_vars PROVE TopologyInv'
<1> USE DEF Goto, runnerVars, brokerVars, resultVars
<1>1. config' = config
  BY ConfigIsFixed
<1>2. config.partitions \in Nat /\ config.partitions # 0 /\ width \in Nat
  <2>1. config.partitions \in Partitions /\ width \in Partitions \union {0}
    BY DEF TypeOK, Configurations
  <2> QED BY <2>1, MatrixConfigAssumption DEF MatrixConfigAssumption, Partitions
<1>3. \A x \in seen : x[2] # 0
  <2>1. seen \subseteq Services \X Partitions
    BY DEF TypeOK
  <2>2. \A w \in Partitions : w # 0
    BY MatrixConfigAssumption DEF MatrixConfigAssumption, Partitions
  <2> QED BY <2>1, <2>2
<1>4. CASE CreateTopic
  <2>1. CASE width = 0
    <3>1. width' = config.partitions /\ seen' = seen
      BY <1>4, <2>1 DEF CreateTopic
    <3>2. seen = {}
      BY <1>3, <2>1 DEF TopologyInv
    <3> QED BY <1>1, <1>2, <3>1, <3>2 DEF TopologyInv, WideEnough
  <2>2. CASE width # 0
    BY <1>1, <1>4, <2>2 DEF CreateTopic, TopologyInv, WideEnough
  <2> QED BY <2>1, <2>2
<1>5. CASE WidenTopic
  <2>1. width # 0
    BY <1>5 DEF WidenTopic, SafetyInv, TopicInv
  <2>2. ~(width < config.partitions)
    BY <1>2, <2>1 DEF TopologyInv, WideEnough
  <2>3. width' = width /\ seen' \subseteq seen \union {<<Current, width>>}
    BY <1>5, <2>2 DEF WidenTopic
  <2>4. \A x \in seen' : x \in seen \/ x[2] = width
    BY ONLY <2>3
  <2> QED BY <1>1, <2>3, <2>4 DEF TopologyInv, WideEnough
<1>6. CASE StartRun
  <2>1. width' = width /\ seen' \subseteq seen \union {<<Current, width>>}
    BY <1>6 DEF StartRun
  <2>2. \A x \in seen' : x \in seen \/ x[2] = width
    BY ONLY <2>1
  <2> QED BY <1>1, <2>1, <2>2 DEF TopologyInv, WideEnough
<1>7. ASSUME UNCHANGED <<width, seen>> PROVE TopologyInv'
  BY <1>1, <1>7 DEF TopologyInv, WideEnough
<1> QED
  BY <1>4, <1>5, <1>6, <1>7
  DEF Next, vars, RunnerStep, BrokerIsHealthy, BrokerDies, BrokerExits, ScriptFails,
      Prepare, AwaitKafka, AwaitTopic, CheckTopic, StartLane, AwaitBroker, LaneIsReady,
      LaneDies, AwaitLane, WarmUp, EndRun, StopLane, Collate, TimeOut, Abort, Cleanup,
      CleanupFails

(* Unless an earlier run left a narrower topic, all lanes are measured     *)
(* against one topology, whatever dies and is started again: that the      *)
(* runner does not wait for its topic script does harm nowhere else.       *)
THEOREM OnlyNarrowTopicsAreWidened ==
    WideEnough /\ Spec => []TopologyIsConstant
<1>1. WideEnough /\ Init => TopologyInv
  BY DEF Init, TopologyInv
<1>2. TypeOK /\ SafetyInv /\ TopologyInv /\ [Next]_vars => TopologyInv'
  BY StepTopology
<1>3. TopologyInv => TopologyIsConstant
  BY DEF TopologyInv, TopologyIsConstant
<1> QED BY <1>1, <1>2, <1>3, SafetyInvariant, PTL DEF Spec

(* The guardrails of confirm mode pin the profile strict-1, too. *)
PinnedInv ==
    /\ width <= config.partitions
    /\ config.mode = "confirm" /\ config.profile = "strict-1" => config.partitions = 1

(* No step but the topic script's changes the width, to what is asked for. *)
LEMMA StepPinned == ASSUME TypeOK, PinnedInv, [Next]_vars PROVE PinnedInv'
<1> USE DEF Goto, runnerVars, brokerVars, resultVars
<1>1. config' = config
  BY ConfigIsFixed
<1>2. config.partitions \in Nat
  <2>1. config.partitions \in Partitions
    BY DEF TypeOK, Configurations
  <2> QED BY <2>1, MatrixConfigAssumption DEF MatrixConfigAssumption, Partitions
<1>3. width' \in {width, config.partitions}
  BY DEF Next, vars, RunnerStep, BrokerIsHealthy, BrokerDies, BrokerExits, CreateTopic,
     WidenTopic, ScriptFails, Prepare, AwaitKafka, AwaitTopic, CheckTopic, StartLane,
     AwaitBroker, LaneIsReady, LaneDies, AwaitLane, WarmUp, StartRun, EndRun, StopLane,
     Collate, TimeOut, Abort, Cleanup, CleanupFails, StopLanes, StopBroker
<1> QED BY <1>1, <1>2, <1>3 DEF PinnedInv

(* "One Kafka topic partition": a run of confirm mode and the profile      *)
(* strict-1 is measured against one, unless an earlier run left a topic of *)
(* another width.                                                          *)
THEOREM StrictProfileIsNarrowOnAFreshTopic ==
    width \in {0, config.partitions} /\ Spec =>
        [](config.mode = "confirm" => StrictProfileHasOnePartition)
<1> DEFINE Narrow == config.mode = "confirm" => StrictProfileHasOnePartition
<1>1. ASSUME width \in {0, config.partitions}, Init PROVE TopologyInv /\ PinnedInv
  <2>1. PICK env \in Callers : Accepted(env) /\ config = Effective(env)
    BY <1>1 DEF Init
  <2>2. config \in Configurations
    BY <2>1, AcceptedConfiguration, MatrixRunnerAssumption DEF MatrixRunnerAssumption
  <2>3. config.partitions \in Nat
    <3>1. config.partitions \in Partitions
      BY <2>2 DEF Configurations
    <3> QED BY <3>1, MatrixConfigAssumption DEF MatrixConfigAssumption, Partitions
  <2>4. config.mode = "confirm" /\ config.profile = "strict-1" => config.partitions = 1
    BY <2>1 DEF Accepted, ConfirmAccepted
  <2>5. width <= config.partitions /\ WideEnough
    BY <1>1, <2>3 DEF WideEnough
  <2> QED BY <1>1, <2>4, <2>5 DEF Init, TopologyInv, PinnedInv
<1>2. TypeOK /\ SafetyInv /\ TopologyInv /\ PinnedInv /\ [Next]_vars
          => TopologyInv' /\ PinnedInv'
  BY StepTopology, StepPinned
<1>3. ASSUME TypeOK, TopologyInv, PinnedInv PROVE Narrow
  <2> SUFFICES ASSUME config.mode = "confirm", config.profile = "strict-1", NEW x \in seen
               PROVE  x[2] = 1
    BY DEF StrictProfileHasOnePartition
  <2>1. x[2] = width /\ config.partitions = 1 /\ width <= 1
    BY <1>3 DEF TopologyInv, PinnedInv
  <2>2. width \in Nat /\ width # 0
    <3>1. x[2] \in Partitions
      BY <1>3 DEF TypeOK
    <3> QED BY <2>1, <3>1, MatrixConfigAssumption DEF MatrixConfigAssumption, Partitions
  <2> QED BY <2>1, <2>2
<1>4. TypeOK /\ TopologyInv /\ PinnedInv => Narrow
  BY <1>3
<1>5. width \in {0, config.partitions} /\ Init => TopologyInv /\ PinnedInv
  BY <1>1
<1> HIDE DEF Narrow
<1>6. width \in {0, config.partitions} /\ Spec => []Narrow
  BY <1>2, <1>4, <1>5, SafetyInvariant, PTL DEF Spec
<1> QED BY <1>6 DEF Narrow

=============================================================================
