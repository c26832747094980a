---------------------------- MODULE MatrixConfig ----------------------------
(***************************************************************************)
(* How scripts/run-benchmark-matrix.sh turns its environment into the      *)
(* configuration of one benchmark run, and which configurations its        *)
(* guardrails refuse.                                                      *)
(*                                                                         *)
(* Knobs that are only ever checked together are one field: "knobs" is     *)
(* "pinned" when HTTP_SERVER_WORKERS, GOMAXPROCS, QUARKUS_HTTP_IO_THREADS, *)
(* the producer pool size, the retries and the percentages of filtered     *)
(* traffic all have the values strict-1 demands, "loose" otherwise.  The   *)
(* profile "idiomatic" takes the branches of "fixed-envelope".             *)
(***************************************************************************)
EXTENDS Naturals, Sequences

CONSTANTS AllServices,    \* ALL_SERVICES, in the order they are measured
          StrictServices, \* STRICT_1_SERVICES
          ServiceLists,   \* what BENCHMARK_SERVICES may name
          WidePartitions  \* the partitions of the profiles that are not strict

(* A variable the caller did not export. *)
Unset == "unset"

(* The lane that cannot be reduced to one HTTP execution lane. *)
VirtualLane == "spring-virtual-receiver"

ServicesOf(list) == {list[i] : i \in 1..Len(list)}

Services == ServicesOf(AllServices)

ASSUME MatrixConfigAssumption ==
    /\ AllServices \in Seq(Services)
    /\ StrictServices \in Seq(Services)
    /\ ServiceLists \subseteq Seq(Services)
    /\ WidePartitions \in Nat /\ WidePartitions > 1

Presets == {"strict-1", "custom"}
DeliveryModes == {"confirm", "enqueue", "http-only"}
Profiles == {"strict-1", "fixed-envelope"}
Acks == {"0", "1", "all"}
Knobs == {"pinned", "loose"}
Partitions == {1, WidePartitions}

(* What the caller may export.  0 partitions and no services: not set. *)
Environments ==
    [preset : Presets \union {Unset}, mode : DeliveryModes \union {Unset},
     profile : Profiles \union {Unset}, acks : Acks \union {Unset},
     partitions : Partitions \union {0}, knobs : Knobs \union {Unset},
     services : ServiceLists \union {<<>>}, parity : BOOLEAN]

Configurations ==
    [preset : Presets, mode : DeliveryModes, profile : Profiles, acks : Acks,
     partitions : Partitions, knobs : Knobs, services : Seq(Services), parity : BOOLEAN]

-----------------------------------------------------------------------------
OrElse(value, default) == IF value = Unset THEN default ELSE value

(* An explicit profile, or a mode other than confirm, makes a run custom. *)
DerivedPreset(env) ==
    CASE env.preset # Unset                    -> env.preset
      [] env.preset = Unset /\ env.profile = Unset /\ env.mode \in {Unset, "confirm"}
                                               -> "strict-1"
      [] OTHER                                 -> "custom"

(* strict-1 takes no other mode and no other profile. *)
PresetConflicts(env) ==
    /\ DerivedPreset(env) = "strict-1"
    /\ \/ env.mode \notin {Unset, "confirm"}
       \/ env.profile \notin {Unset, "strict-1"}

DefaultServices(preset) == IF preset = "strict-1" THEN StrictServices ELSE AllServices

(* The configuration of an environment without preset conflicts. *)
Effective(env) ==
    LET preset  == DerivedPreset(env)
        mode    == IF preset = "strict-1" THEN "confirm" ELSE OrElse(env.mode, "confirm")
        profile == IF preset = "strict-1" THEN "strict-1"
                   ELSE OrElse(env.profile, "fixed-envelope")
        strict  == profile = "strict-1"
    IN  [preset |-> preset, mode |-> mode, profile |-> profile,
         acks |-> OrElse(env.acks, IF mode = "enqueue" THEN "0" ELSE "1"),
         partitions |-> IF env.partitions # 0 THEN env.partitions
                        ELSE IF strict THEN 1 ELSE WidePartitions,
         knobs |-> OrElse(env.knobs, IF strict THEN "pinned" ELSE "loose"),
         services |-> IF env.services # <<>> THEN env.services ELSE DefaultServices(preset),
         parity |-> env.parity]

-----------------------------------------------------------------------------
(* validate_service_set: strict-1 takes no lane it cannot pin. *)
ServicesAccepted(c) ==
    /\ c.services # <<>>
    /\ c.preset = "strict-1" => VirtualLane \notin ServicesOf(c.services)

PythonAndRust(c) == {"python-receiver", "rust-receiver"} \subseteq ServicesOf(c.services)

(* Mutant: the partitions are not among the pinned values. *)
ConfirmAcceptedWithoutPartitions(c) ==
    c.mode = "confirm" =>
        /\ c.acks # "0"
        /\ c.preset = "strict-1" => c.acks = "1"
        /\ c.profile = "strict-1" => c.knobs = "pinned"
        /\ (c.parity /\ PythonAndRust(c)) => c.profile = "strict-1"

(* validate_confirm_guardrails. *)
ConfirmAccepted(c) ==
    c.mode = "confirm" =>
        /\ c.acks # "0"
        /\ c.preset = "strict-1" => c.acks = "1"
        /\ c.profile = "strict-1" => c.knobs = "pinned" /\ c.partitions = 1
        /\ (c.parity /\ PythonAndRust(c)) => c.profile = "strict-1"

(* The runs that get past the guardrails; the others exit with status 2    *)
(* before they touch a container.                                          *)
Accepted(env) ==
    /\ ~PresetConflicts(env)
    /\ ServicesAccepted(Effective(env))
    /\ ConfirmAccepted(Effective(env))

UsesKafka(c) == c.mode # "http-only"

=============================================================================
