----------------------------- MODULE RunMetrics -----------------------------
(***************************************************************************)
(* The arithmetic of scripts/collate-benchmark-results.py: from the files  *)
(* one measured run leaves to a row of metrics, from the rows of a service *)
(* to its aggregate, and from the aggregates of a run to its ranking.      *)
(*                                                                         *)
(* A quantity is a natural number in a unit small enough for the divisions *)
(* of the instance to come out even; a key a Python dict does not have is  *)
(* Missing.  Of the durations, counts and memory figures, which are copied *)
(* and averaged in the same way, the model keeps one each.                 *)
(***************************************************************************)
EXTENDS Integers, SequencesExt

Missing == -1

(* dict.get(key, 0.0), and numeric_value. *)
OrZero(value) == IF value = Missing THEN 0 ELSE value

SafeRatio(numerator, denominator) ==
    IF denominator <= 0 THEN Missing ELSE numerator \div denominator

(* The mean of the values at some places. *)
Mean(values, places) ==
    IF places = {} THEN Missing
    ELSE SumFunctionOnSet(values, places) \div Cardinality(places)

(* The mean of those that are there. *)
MeanOfPresent(values) == Mean(values, {i \in DOMAIN values : values[i] # Missing})

-----------------------------------------------------------------------------
(* A line of a docker stats file: whole, or cut short or garbled. *)
Samples == [whole : BOOLEAN, cpu : Nat, mem : Nat]

(* A lost or empty file, and one without a readable line, has no figures. *)
SummarizeStats(samples) ==
    LET whole == {i \in DOMAIN samples : samples[i].whole}
    IN  [cpu |-> Mean([i \in DOMAIN samples |-> samples[i].cpu], whole),
         mem |-> Mean([i \in DOMAIN samples |-> samples[i].mem], whole)]

(* HostConfig of docker inspect, 0 or <<>> being no limit. *)
Hosts == [nano : Nat, quota : Nat, period : Nat, cpuset : Seq(Nat \X Nat)]

(* "0-2,4" is <<<<0, 2>>, <<4, 4>>>>: the chunks are counted one by one. *)
CpusetCount(chunks) == FoldSeq(LAMBDA c, sum : c[2] - c[1] + 1 + sum, 0, chunks)

(* The tightest of the limits the container was given. *)
CpuLimit(host) ==
    LET limits == {l \in {host.nano, SafeRatio(host.quota, host.period), CpusetCount(host.cpuset)}
                      : l > 0}
    IN  IF limits = {} THEN Missing ELSE CHOOSE l \in limits : \A k \in limits : l <= k

-----------------------------------------------------------------------------
(* What a measured run leaves: k6's request rate and mean latency, and the *)
(* stats of the receiver's and of Kafka's container.                       *)
Measurements ==
    [rate : Nat, latency : Nat, receiver : Seq(Samples), kafka : Seq(Samples)]

RowKeys == {"rate", "latency", "receiver_cpu", "receiver_mem", "kafka_cpu",
            "per_cpu_limit", "per_receiver_core", "per_stack_core", "per_stack_gib"}

(* Mutant: Kafka's share of the stack is forgotten. *)
RunRowWithoutKafka(m, limit) ==
    LET receiver == SummarizeStats(m.receiver)
        kafka == SummarizeStats(m.kafka)
        stackCpu == OrZero(receiver.cpu)
        stackMem == OrZero(receiver.mem)
    IN  [rate |-> m.rate, latency |-> m.latency,
         receiver_cpu |-> receiver.cpu, receiver_mem |-> receiver.mem, kafka_cpu |-> kafka.cpu,
         per_cpu_limit |-> SafeRatio(m.rate, OrZero(limit)),
         per_receiver_core |-> SafeRatio(100 * m.rate, OrZero(receiver.cpu)),
         per_stack_core |-> SafeRatio(100 * m.rate, stackCpu),
         per_stack_gib |-> SafeRatio(m.rate, stackMem)]

(* One element of service_run_rows, with its derived metrics.  CPU is in   *)
(* percent of a core; a container without figures counts as using nothing. *)
RunRow(m, limit) ==
    LET receiver == SummarizeStats(m.receiver)
        kafka == SummarizeStats(m.kafka)
        stackCpu == OrZero(receiver.cpu) + OrZero(kafka.cpu)
        stackMem == OrZero(receiver.mem) + OrZero(kafka.mem)
    IN  [rate |-> m.rate, latency |-> m.latency,
         receiver_cpu |-> receiver.cpu, receiver_mem |-> receiver.mem, kafka_cpu |-> kafka.cpu,
         per_cpu_limit |-> SafeRatio(m.rate, OrZero(limit)),
         per_receiver_core |-> SafeRatio(100 * m.rate, OrZero(receiver.cpu)),
         per_stack_core |-> SafeRatio(100 * m.rate, stackCpu),
         per_stack_gib |-> SafeRatio(m.rate, stackMem)]

(* The aggregate of a service: each key over the rows that have it. *)
Aggregate(rows) ==
    [key \in RowKeys |-> MeanOfPresent([i \in DOMAIN rows |-> rows[i][key]])]

(* aggregate_rows: a service without a run has no aggregate. *)
AggregateRows(measured, limit) ==
    [s \in {s \in DOMAIN measured : measured[s] # <<>>} |->
        Aggregate([i \in DOMAIN measured[s] |-> RunRow(measured[s][i], limit)])]

-----------------------------------------------------------------------------
(* primary_result_sort_key, then raw throughput. *)
Outranks(a, b) ==
    LET x == OrZero(a.per_stack_core)
        y == OrZero(b.per_stack_core)
    IN  x > y \/ (x = y /\ OrZero(a.rate) > OrZero(b.rate))

(* The place of s after a stable sort, best first; order has the services  *)
(* as they were.                                                           *)
Rank(summary, order, s) ==
    LET Precedes(t) == \E i, j \in DOMAIN order : i < j /\ order[i] = t /\ order[j] = s
        before == {t \in DOMAIN summary \ {s} :
                      \/ Outranks(summary[t], summary[s])
                      \/ ~Outranks(summary[s], summary[t]) /\ Precedes(t)}
    IN  1 + Cardinality(before)

=============================================================================
