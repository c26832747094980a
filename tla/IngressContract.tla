--------------------------- MODULE IngressContract ---------------------------
(***************************************************************************)
(* What docs/BENCHMARK_CONTRACT.md promises of any receiver lane, with no  *)
(* client library, retry, queue or network in sight: a request gets at     *)
(* most one answer, the answer follows from what the body deserves and     *)
(* from the delivery mode, and a 200 means what the mode says it means.    *)
(***************************************************************************)

CONSTANT Requests \* the requests of one benchmark

VARIABLES deserved,  \* what each body deserves: "invalid", "filtered" or "bid"
          mode,      \* "confirm", "enqueue" or "http-only"
          durable,   \* the broker acknowledges what it appended
          answer,    \* the HTTP status each request got, "none" before it has one
          handedOver,\* the requests the local producer pipeline took
          published  \* the requests with a record in the topic

vars == <<deserved, mode, durable, answer, handedOver, published>>

Init ==
    /\ deserved \in [Requests -> {"invalid", "filtered", "bid"}]
    /\ mode \in {"confirm", "enqueue", "http-only"}
    /\ durable \in BOOLEAN
    /\ answer = [r \in Requests |-> "none"]
    /\ handedOver = {}
    /\ published = {}

Reply(r, status) ==
    /\ answer[r] = "none"
    /\ answer' = [answer EXCEPT ![r] = status]
    /\ UNCHANGED <<deserved, mode, durable>>

(* 400 for malformed or incomplete requests. *)
Reject(r) ==
    /\ deserved[r] = "invalid"
    /\ Reply(r, "400")
    /\ UNCHANGED <<handedOver, published>>

(* 204 for intentionally filtered requests. *)
Filter(r) ==
    /\ deserved[r] = "filtered"
    /\ Reply(r, "204")
    /\ UNCHANGED <<handedOver, published>>

(* 200 after parsing, validation and filtering: Kafka is not started. *)
AcceptHttpOnly(r) ==
    /\ deserved[r] = "bid" /\ mode = "http-only"
    /\ Reply(r, "200")
    /\ UNCHANGED <<handedOver, published>>

(* The local producer pipeline takes the record: the 200 of enqueue mode. *)
HandOver(r) ==
    /\ deserved[r] = "bid"
    /\ r \notin handedOver
    /\ answer[r] = "none"
    /\ handedOver' = handedOver \union {r}
    /\ \/ mode = "enqueue" /\ Reply(r, "200")
       \/ mode = "confirm" /\ UNCHANGED <<deserved, mode, durable, answer>>
    /\ UNCHANGED published

(* The record reaches the topic, before or after the answer. *)
Publish(r) ==
    /\ r \in handedOver
    /\ published' = published \union {r}
    /\ UNCHANGED <<deserved, mode, durable, answer, handedOver>>

(* 200 only after the delivery outcome: with acknowledgements the record   *)
(* is in the topic by then.                                                *)
Confirm(r) ==
    /\ mode = "confirm"
    /\ r \in handedOver
    /\ durable => r \in published
    /\ Reply(r, "200")
    /\ UNCHANGED <<handedOver, published>>

(* A failure of the lane itself.  In enqueue mode it precedes the pipeline.*)
Fail(r) ==
    /\ deserved[r] = "bid" /\ mode # "http-only"
    /\ mode = "enqueue" => r \notin handedOver
    /\ \E status \in {"500", "503"} : Reply(r, status)
    /\ UNCHANGED <<handedOver, published>>

Next ==
    \E r \in Requests :
        \/ Reject(r) \/ Filter(r) \/ AcceptHttpOnly(r) \/ HandOver(r)
        \/ Publish(r) \/ Confirm(r) \/ Fail(r)

Spec == Init /\ [][Next]_vars

=============================================================================
