---------------------------- MODULE MatrixRunner ----------------------------
(***************************************************************************)
(* One run of scripts/run-benchmark-matrix.sh that got past the guardrails *)
(* of MatrixConfig: the runner brings up the broker, and then one lane     *)
(* after the other is started, warmed up, measured and stopped, while the  *)
(* broker's container runs create-kafka-topics.sh beside it and any        *)
(* container may die.                                                      *)
(*                                                                         *)
(* It is assumed that every container is stopped when the run begins,      *)
(* which the clean-up of the run before it tries and does not ensure       *)
(* (CleanupFails).  The topic it used is still in the broker's volume.     *)
(* OUT_DIR is new.                                                         *)
(***************************************************************************)
EXTENDS MatrixConfig

CONSTANTS Callers, \* the environments the runner is called with
          Repeats  \* REPEATS

ASSUME MatrixRunnerAssumption ==
    /\ Callers \subseteq Environments
    /\ Repeats \in Nat \ {0}

VARIABLES
    config,    \* the run's configuration
    pc,        \* what the runner does
    lane,      \* which of config.services it is at
    run,       \* the measured run it is at
    broker,    \* "down", "starting", "healthy", or "dead" in a live container
    script,    \* create-kafka-topics.sh: "idle", "sleeping", "created", "done", "failed"
    width,     \* the partitions of the topic; 0: there is none
    container, \* container[s]: "absent", "starting", "ready", "exited"
    summary,   \* summary[s, r]: what k6 left of run r of s: "none", "failed", "passed"
    seen,      \* history: <<s, w>>, s was measured while the topic had w partitions
    report     \* the collated report is written

runnerVars == <<pc, lane, run>>
brokerVars == <<broker, script>>
resultVars == <<summary, seen, report>>
vars == <<config, runnerVars, brokerVars, width, container, resultVars>>

Waiting == {"awaiting kafka", "awaiting topic", "awaiting broker", "awaiting lane"}
WithLane == {"awaiting lane", "warming up", "next run", "measuring"}
LanePhases == {"next lane", "awaiting broker"} \union WithLane
Active == Waiting \union LanePhases \union {"preparing", "checking topic"}

Runs == Services \X (1..Repeats)
Alive == {"starting", "ready"}
Up == {"starting", "healthy"}

TypeOK ==
    /\ config \in Configurations
    /\ pc \in Active \union {"cleaning", "exited", "gave up cleaning"}
    /\ lane \in 1..(Len(config.services) + 1)
    /\ run \in 1..(Repeats + 1)
    /\ broker \in {"down", "starting", "healthy", "dead"}
    /\ script \in {"idle", "sleeping", "created", "done", "failed"}
    /\ broker \in {"down", "dead"} <=> script = "idle"
    /\ width \in Partitions \union {0}
    /\ container \in [Services -> {"absent", "starting", "ready", "exited"}]
    /\ summary \in [Runs -> {"none", "failed", "passed"}]
    /\ seen \subseteq Services \X Partitions
    /\ report \in BOOLEAN
    /\ pc \in LanePhases \ {"next lane"} => lane <= Len(config.services)
    /\ pc = "measuring" => run <= Repeats

Init ==
    /\ \E env \in Callers : Accepted(env) /\ config = Effective(env)
    /\ pc = "preparing" /\ lane = 1 /\ run = 1
    /\ broker = "down" /\ script = "idle"
    /\ width \in Partitions \union {0}
    /\ container = [s \in Services |-> "absent"]
    /\ summary = [x \in Runs |-> "none"]
    /\ seen = {}
    /\ report = FALSE

Goto(label) == pc' = label /\ UNCHANGED <<lane, run>>

Current == config.services[lane]

(* docker compose up of the broker: a stopped container starts, and its    *)
(* command sleeps before it runs the topic script; a live one is left      *)
(* alone.                                                                  *)
BringUpBroker ==
    IF broker = "down"
    THEN broker' = "starting" /\ script' = "sleeping"
    ELSE UNCHANGED brokerVars

-----------------------------------------------------------------------------
(* The broker and its topic script. *)

BrokerIsHealthy ==
    /\ broker = "starting"
    /\ broker' = "healthy"
    /\ UNCHANGED <<config, runnerVars, script, width, container, resultVars>>

(* The broker's process ends; the script, if it still runs, fails.  The    *)
(* container outlives both only as long as its shell.                      *)
BrokerDies ==
    /\ broker \in Up
    /\ broker' = "dead" /\ script' = "idle"
    /\ UNCHANGED <<config, runnerVars, width, container, resultVars>>

BrokerExits ==
    /\ broker = "dead"
    /\ broker' = "down"
    /\ UNCHANGED <<config, runnerVars, script, width, container, resultVars>>

(* ensure_topic: create if not there, ... *)
CreateTopic ==
    /\ script = "sleeping"
    /\ script' = "created"
    /\ width' = IF width = 0 THEN config.partitions ELSE width
    /\ UNCHANGED <<config, runnerVars, broker, container, resultVars>>

(* ... then widen what is too narrow, and never shrink. *)
WidenTopic ==
    /\ script = "created"
    /\ script' = "done"
    /\ width' = IF width < config.partitions THEN config.partitions ELSE width
    /\ seen' = IF pc = "measuring" /\ UsesKafka(config)
               THEN seen \union {<<Current, width'>>} ELSE seen
    /\ UNCHANGED <<config, runnerVars, broker, container, summary, report>>

(* A command of the script fails, or the broker is not there in a minute. *)
ScriptFails ==
    /\ script \in {"sleeping", "created"}
    /\ script' = "failed"
    /\ UNCHANGED <<config, runnerVars, broker, width, container, resultVars>>

-----------------------------------------------------------------------------
(* The runner, before the first lane. *)

(* The images are built; http-only goes on without a broker. *)
Prepare ==
    /\ pc = "preparing"
    /\ IF UsesKafka(config) THEN Goto("awaiting kafka") /\ BringUpBroker
       ELSE Goto("next lane") /\ UNCHANGED brokerVars
    /\ UNCHANGED <<config, width, container, resultVars>>

(* wait_for_compose_health. *)
AwaitKafka ==
    /\ pc = "awaiting kafka"
    /\ broker = "healthy"
    /\ Goto("awaiting topic")
    /\ UNCHANGED <<config, brokerVars, width, container, resultVars>>

(* wait_for_kafka_topic: it is enough that the topic is listed. *)
AwaitTopic ==
    /\ pc = "awaiting topic"
    /\ broker \in Up
    /\ width # 0
    /\ Goto("checking topic")
    /\ UNCHANGED <<config, brokerVars, width, container, resultVars>>

(* validate_kafka_topic_guardrails looks at the preset. *)
CheckTopic ==
    /\ pc = "checking topic"
    /\ Goto(IF config.preset = "strict-1" /\ (width # 1 \/ broker \notin Up)
            THEN "cleaning" ELSE "next lane")
    /\ UNCHANGED <<config, brokerVars, width, container, resultVars>>

-----------------------------------------------------------------------------
(* The runner, one lane at a time. *)

LaunchLane ==
    /\ container' = [container EXCEPT ![Current] = IF @ \in Alive THEN @ ELSE "starting"]
    /\ Goto("awaiting lane")

(* Mutant: the dependencies are started in every mode. *)
StartLaneWithDependencies ==
    /\ pc = "next lane" /\ lane <= Len(config.services)
    /\ BringUpBroker /\ Goto("awaiting broker") /\ UNCHANGED container
    /\ UNCHANGED <<config, width, resultVars>>

(* docker compose up: with its dependencies, which starts a broker that    *)
(* has exited, or without.                                                 *)
StartLane ==
    /\ pc = "next lane" /\ lane <= Len(config.services)
    /\ IF UsesKafka(config)
       THEN BringUpBroker /\ Goto("awaiting broker") /\ UNCHANGED container
       ELSE LaunchLane /\ UNCHANGED brokerVars
    /\ UNCHANGED <<config, width, resultVars>>

(* depends_on kafka: service_healthy. *)
AwaitBroker ==
    /\ pc = "awaiting broker"
    /\ broker = "healthy"
    /\ LaunchLane
    /\ UNCHANGED <<config, brokerVars, width, resultVars>>

LaneIsReady(s) ==
    /\ container[s] = "starting"
    /\ container' = [container EXCEPT ![s] = "ready"]
    /\ UNCHANGED <<config, runnerVars, brokerVars, width, resultVars>>

LaneDies(s) ==
    /\ container[s] \in Alive
    /\ container' = [container EXCEPT ![s] = "exited"]
    /\ UNCHANGED <<config, runnerVars, brokerVars, width, resultVars>>

(* wait_for_receiver_ready; the warm-up of 0s is one that ends at once. *)
AwaitLane ==
    /\ pc = "awaiting lane"
    /\ container[Current] = "ready"
    /\ Goto("warming up")
    /\ UNCHANGED <<config, brokerVars, width, container, resultVars>>

WarmUp ==
    /\ pc = "warming up"
    /\ pc' = "next run" /\ run' = 1
    /\ UNCHANGED <<config, lane, brokerVars, width, container, resultVars>>

(* Mutant: one run too many. *)
StartRunOnceMore ==
    /\ pc = "next run" /\ run <= Repeats + 1
    /\ Goto("measuring")
    /\ seen' = IF UsesKafka(config) THEN seen \union {<<Current, width>>} ELSE seen
    /\ UNCHANGED <<config, brokerVars, width, container, summary, report>>

StartRun ==
    /\ pc = "next run" /\ run <= Repeats
    /\ Goto("measuring")
    /\ seen' = IF UsesKafka(config) THEN seen \union {<<Current, width>>} ELSE seen
    /\ UNCHANGED <<config, brokerVars, width, container, summary, report>>

(* Mutant: k6's exit status is lost in the pipe to tee. *)
EndRunWhateverTheStatus(result) ==
    /\ pc = "measuring"
    /\ summary' = [summary EXCEPT ![<<Current, run>>] = result]
    /\ pc' = "next run" /\ run' = run + 1
    /\ UNCHANGED <<config, lane, brokerVars, width, container, seen, report>>

(* k6 exports its summary, also when a threshold failed or it was          *)
(* interrupted; then the runner exits with k6's status.                    *)
EndRun(result) ==
    /\ pc = "measuring"
    /\ summary' = [summary EXCEPT ![<<Current, run>>] = result]
    /\ IF result = "passed" THEN pc' = "next run" /\ run' = run + 1
       ELSE pc' = "cleaning" /\ UNCHANGED run
    /\ UNCHANGED <<config, lane, brokerVars, width, container, seen, report>>

(* Mutant: the lane is left running. *)
LeaveLane ==
    /\ pc = "next run" /\ run > Repeats
    /\ pc' = "next lane" /\ lane' = lane + 1 /\ UNCHANGED run
    /\ UNCHANGED <<config, brokerVars, width, container, resultVars>>

StopLane ==
    /\ pc = "next run" /\ run > Repeats
    /\ container' = [container EXCEPT ![Current] = "exited"]
    /\ pc' = "next lane" /\ lane' = lane + 1 /\ UNCHANGED run
    /\ UNCHANGED <<config, brokerVars, width, resultVars>>

Collate ==
    /\ pc = "next lane" /\ lane > Len(config.services)
    /\ report' = TRUE
    /\ Goto("cleaning")
    /\ UNCHANGED <<config, brokerVars, width, container, summary, seen>>

-----------------------------------------------------------------------------
(* The runner, when something is wrong. *)

(* Mutant: the wait for a lane has no deadline. *)
TimeOutOnKafka ==
    /\ pc \in Waiting \ {"awaiting lane"}
    /\ Goto("cleaning")
    /\ UNCHANGED <<config, brokerVars, width, container, resultVars>>

(* Mutant: a lane that is not ready in time is passed over. *)
TimeOutPassingOver ==
    /\ pc \in Waiting
    /\ IF pc = "awaiting lane"
       THEN pc' = "next lane" /\ lane' = lane + 1 /\ UNCHANGED run
       ELSE Goto("cleaning")
    /\ UNCHANGED <<config, brokerVars, width, container, resultVars>>

(* Every wait has a deadline, of the runner or of the broker's health      *)
(* check, and ends early when what it waits for has failed.                *)
TimeOut ==
    /\ pc \in Waiting
    /\ Goto("cleaning")
    /\ UNCHANGED <<config, brokerVars, width, container, resultVars>>

(* set -e: docker, curl, the warm-up's k6 or the collator fails, or the    *)
(* runner gets a signal that its trap outlives.                            *)
Abort ==
    /\ pc \in Active
    /\ Goto("cleaning")
    /\ UNCHANGED <<config, brokerVars, width, container, resultVars>>

(* The trap on EXIT stops this run's lanes and the broker, ... *)
StopLanes ==
    container' = [s \in Services |->
        IF s \in ServicesOf(config.services) /\ container[s] \in Alive
        THEN "exited" ELSE container[s]]
StopBroker == broker' = "down" /\ script' = "idle"

Cleanup ==
    /\ pc = "cleaning"
    /\ Goto("exited")
    /\ StopLanes /\ StopBroker
    /\ UNCHANGED <<config, width, resultVars>>

(* ... or some of them: "|| true", the runner exits as if it had. *)
CleanupFails ==
    /\ pc = "cleaning"
    /\ Goto("gave up cleaning")
    /\ StopLanes \/ UNCHANGED container
    /\ StopBroker \/ UNCHANGED brokerVars
    /\ UNCHANGED <<config, width, resultVars>>

-----------------------------------------------------------------------------
(* What the runner does by itself. *)
RunnerStep ==
    \/ Prepare \/ AwaitKafka \/ AwaitTopic \/ CheckTopic
    \/ StartLane \/ AwaitBroker \/ AwaitLane \/ WarmUp \/ StartRun
    \/ \E result \in {"failed", "passed"} : EndRun(result)
    \/ StopLane \/ Collate \/ TimeOut \/ Cleanup \/ CleanupFails

Next ==
    \/ RunnerStep \/ Abort
    \/ BrokerIsHealthy \/ BrokerDies \/ BrokerExits
    \/ CreateTopic \/ WidenTopic \/ ScriptFails
    \/ \E s \in Services : LaneIsReady(s) \/ LaneDies(s)

Spec == Init /\ [][Next]_vars

(* The runner is scheduled and docker and k6 return; containers owe        *)
(* nothing.                                                                *)
FairSpec == Spec /\ WF_vars(RunnerStep)

-----------------------------------------------------------------------------
(* "strict-1" says what it measured: from the first lane that is started   *)
(* to the report, whatever an older run left in the broker's volume and    *)
(* however often the broker is started again, the topic has one partition, *)
(* and the lane that cannot be pinned is not among the measured ones.      *)
StrictMeansStrict ==
    config.preset = "strict-1" =>
        /\ \A x \in seen : x[2] = 1
        /\ \A s \in Services : container[s] # "absent" => width = 1 /\ s # VirtualLane

(* A report is complete: every run of every lane that was asked for is in  *)
(* it and met its thresholds, also when a lane is listed twice.            *)
ReportIsComplete ==
    report => \A s \in ServicesOf(config.services), r \in 1..Repeats :
                  summary[<<s, r>>] = "passed"

(* A lane has the machine to itself while it is loaded. *)
MeasuredAlone ==
    pc \in {"warming up", "next run", "measuring"} =>
        \A s \in Services \ {Current} : container[s] \notin Alive

(* docs/BENCHMARK_CONTRACT.md, http-only: "Kafka is not started". *)
HttpOnlyNeedsNoKafka == config.mode = "http-only" => broker = "down"

(* Whatever dies, the run ends, and no container outlives it but one that  *)
(* docker compose failed to stop: nobody is told of that one.              *)
EverythingIsStopped ==
    /\ broker = "down"
    /\ \A s \in Services : container[s] \notin Alive
RunEnds ==
    <>[](pc = "gave up cleaning" \/ (pc = "exited" /\ EverythingIsStopped))

(* What makes the four invariants above inductive. *)

(* What the guardrails leave of strict-1. *)
GuardedInv ==
    config.preset = "strict-1" =>
        /\ UsesKafka(config) /\ config.partitions = 1
        /\ VirtualLane \notin ServicesOf(config.services)

(* A topic that was listed or set up is there, and from its check on it is *)
(* as narrow as the preset says.                                           *)
TopicInv ==
    /\ script \in {"created", "done"} => width # 0
    /\ (UsesKafka(config) /\ pc \in LanePhases \union {"checking topic"}) => width # 0
    /\ (config.preset = "strict-1" /\ pc \in LanePhases) => width = 1

(* Only listed lanes are ever started, and the one that is alive is the    *)
(* one the runner is at; before a lane and between two none is.            *)
AloneInv ==
    \A s \in Services :
        /\ container[s] # "absent" => s \in ServicesOf(config.services)
        /\ (container[s] \in Alive /\ pc \in Active) =>
               pc \in WithLane /\ s = Current

(* The lanes behind the runner have passed all their runs, and the lane it *)
(* is at the runs behind it; a run of a lane listed twice is measured      *)
(* again, and a failure then ends the runner.                              *)
PassedInv ==
    /\ pc \in Active =>
           /\ ~report
           /\ \A i \in 1..Len(config.services), r \in 1..Repeats :
                  i < lane => summary[<<config.services[i], r>>] = "passed"
    /\ pc \in {"next run", "measuring"} =>
           \A r \in 1..Repeats : r < run => summary[<<Current, r>>] = "passed"

SafetyInv ==
    /\ GuardedInv /\ TopicInv /\ AloneInv /\ PassedInv
    /\ StrictMeansStrict /\ ReportIsComplete /\ HttpOnlyNeedsNoKafka

(* The comparison, seen through this module. *)
Stage == IF pc = "measuring" THEN "loaded" ELSE IF pc \in WithLane THEN "started" ELSE "waiting"
RunsPassed == IF pc \in {"next run", "measuring"} THEN run - 1 ELSE 0

Comparison == INSTANCE FairComparison
    WITH Lanes  <- Services,
         plan   <- config.services,
         turn   <- lane,
         stage  <- Stage,
         runs   <- RunsPassed,
         alive  <- {s \in Services : container[s] \in Alive},
         result <- summary,
         over   <- pc \notin Active

(* The lanes are compared as the abstract specification says, whatever     *)
(* becomes of broker, script and containers meanwhile: in their order, one *)
(* at a time, until the first failed run, and reported when all passed.    *)
ComparesFairly == Comparison!Spec

(* "Keep Kafka topology, topic configuration, and downstream consumers     *)
(* constant across compared services."                                     *)
TopologyIsConstant == \A x, y \in seen : x[2] = y[2]

(* The profile strict-1: "One Kafka topic partition, removing              *)
(* client-partitioner skew from the comparison."                           *)
StrictProfileHasOnePartition ==
    config.profile = "strict-1" => \A x \in seen : x[2] = 1

=============================================================================
