----------------------------- MODULE MCBidRules -----------------------------
(***************************************************************************)
(* Starts every lane in every environment of a small set, and has it       *)
(* decide every abstract body.                                             *)
(***************************************************************************)
EXTENDS BidRules, ReceiverSettings

CONSTANTS UnderTest, \* the lanes
          Samples,   \* texts a numeric variable may have
          Numbers    \* numbers the four parts of a timeout may have

ASSUME UnderTestAssumption ==
    /\ UnderTest \subseteq Lanes /\ UnderTest \subseteq ConfiguredLanes
    /\ Samples \subseteq Texts /\ Numbers \subseteq Int

Number(n) == [form |-> "integer", n |-> n, first |-> n]

Unset == [mode |-> "unset", acks |-> "unset", knobs |-> [knob \in Knobs |-> NotSet]]

(* Everything unset but one variable, or the parts of the timeout. *)
Tried ==
    {[Unset EXCEPT !.mode = m, !.acks = a] : m \in ModeTexts, a \in AcksTexts}
    \union {[Unset EXCEPT !.mode = m, !.knobs[k] = t] :
                m \in {"unset", "http-only"}, k \in Knobs, t \in Samples}
    \union {[Unset EXCEPT !.knobs["request"] = Number(w), !.knobs["retries"] = Number(x),
                          !.knobs["backoff"] = Number(y), !.knobs["linger"] = Number(z)]
                : w, x, y, z \in Numbers}

(* The instance: eight bits for the 32, the other values scaled to them;   *)
(* numbers at and around every limit, among them parts that add up to just *)
(* 2^64.                                                                   *)
MCDefault == [linger |-> 1, batch |-> 100, request |-> 50, retries |-> 5, backoff |-> 1,
              pool |-> 1, workers |-> 4]

(* 2^53 is scaled to 2^13: the number beyond it is one a double rounds. *)
MCSamples ==
    {Number(n) : n \in {-129, -128, -1, 0, 1, 5, 127, 128, 255, 256}}
    \union {Number(n) : n \in {32767, 32768, 65535, 65536}}
    \union {[form |-> "integer", n |-> 8193, first |-> 8192],
            [form |-> "blank", n |-> 0, first |-> 0],
            [form |-> "trailing", n |-> 0, first |-> 12],
            [form |-> "underscored", n |-> 100, first |-> 1]}

MCNumbers == {0, 1, 11, 127, 128, 129, 130, 254, 255}

VARIABLES lane, env, state, settings, bid, verdict

vars == <<lane, env, state, settings, bid, verdict>>

Init ==
    /\ lane \in UnderTest /\ env \in Tried
    /\ state = "off" /\ settings = {}
    /\ bid = {} /\ verdict = "undecided"

(* A client made at start may refuse a value, or find no broker. *)
Start ==
    /\ state = "off"
    /\ \/ Starts(lane, env) /\ state' = "up" /\ settings' = {Settings(lane, env)}
       \/ /\ \/ ~Starts(lane, env)
             \/ lane \in ClientAtStart /\ UsesKafka(NormalizeDeliveryMode(env.mode))
          /\ state' = "failed" /\ UNCHANGED settings
    /\ UNCHANGED <<lane, env, bid, verdict>>

(* The first bid that Quarkus publishes makes its clients, or fails and    *)
(* leaves it to the next to fail again.                                    *)
FirstPublish ==
    /\ state = "up" /\ lane = "quarkus" /\ UsesKafka(NormalizeDeliveryMode(env.mode))
    /\ state' = IF QuarkusClientTakes(env) THEN "publishing" ELSE "unable"
    /\ UNCHANGED <<lane, env, settings, bid, verdict>>

(* No decision depends on a number, so one environment is enough, nor on   *)
(* the encoder, nor on where a value is odd when none is.                  *)
Decide ==
    /\ state = "up" /\ env = Unset /\ verdict = "undecided"
    /\ \E b \in BidRequests :
           /\ b.encodable /\ (b.odd = "none" => b.at = "all")
           /\ bid' = {b} /\ verdict' = Decision(lane, b)
    /\ UNCHANGED <<lane, env, state, settings>>

Next == Start \/ FirstPublish \/ Decide

Spec == Init /\ [][Next]_vars

-----------------------------------------------------------------------------
(* What the bindings and presence checks of seven frameworks may do to a   *)
(* comparison.  On a body of the declared types every lane decides as the  *)
(* contract says, but Quarkus on a null body and an empty id and Spring on *)
(* a blank id.  On any body whatever no coercion lets a lane take a        *)
(* request that misses its id, device or inventory, the empty id of        *)
(* Quarkus apart; no typed binding bids on what another lane filters, so   *)
(* that it is Node's lane that bids on an lmt the others read as 1; and a  *)
(* lane refuses a complete request only for a value of another type.       *)
LanesDivergeOnlyAsKnown ==
    \A b \in bid :
        /\ WellTyped(b) /\ verdict # ContractDecision(b) =>
               \/ lane = "quarkus" /\ (b.body = "null" \/ b.id = "empty")
               \/ lane \in {"spring", "spring-virtual"} /\ b.id = "blank"
        /\ verdict \in {"filtered", "bid"} =>
               Complete(b) \/ (lane = "quarkus" /\ Complete([b EXCEPT !.id = "text"]) /\ b.id = "empty")
        /\ \A other \in UnderTest : verdict = "bid" /\ Decision(other, b) = "filtered" =>
               lane = "node" /\ b.lmt \in {"1.5", "quoted 1", "true"}
        /\ verdict = "invalid" /\ Complete(b) =>
               ~WellTyped(b) \/ (lane \in {"spring", "spring-virtual"} /\ b.id = "blank")

(* "apply the same validation rules": where every value has the declared   *)
(* type, so that the body binds in every lane, no lane refuses a request   *)
(* another accepts.                                                        *)
SameValidation ==
    \A b \in bid : WellTyped(b) =>
        \A other \in UnderTest :
            Decision(other, b) = "invalid" <=> verdict = "invalid"

(* A run's numbers are recorded once for all lanes, as the runner was      *)
(* given them.  The lanes mean the same by them, an unusable text being    *)
(* the default, except in seven ways: Quarkus does not start on what is no *)
(* int, and has no default for a linger, batch or timeout that is not      *)
(* positive, so that its first publish may be what fails; Node takes the   *)
(* leading digits of anything, and rounds beyond 2^53; Python takes        *)
(* grouped digits, and has a default number of workers of its own; Java's  *)
(* int, Rust's u32 and usize and Go's int end where the others do not.     *)
(* Nothing but Quarkus' checks and a lane's own client keeps one from      *)
(* starting.                                                               *)
LanesReadKnobsAlike ==
    /\ state = "failed" =>
           lane = "quarkus" \/ (lane # "go" /\ UsesKafka(NormalizeDeliveryMode(env.mode)))
    /\ state = "unable" => \A s \in settings :
           env.acks \notin QuarkusAcksTexts
               \/ \E knob \in {"linger", "batch", "request"} : s.knobs[knob] < 0
    /\ \A s \in settings :
           \A knob \in DOMAIN s.knobs :
               LET text == env.knobs[knob]
                   usable == text.form = "integer" /\ text.n >= Least(knob)
                   meant == IF usable THEN text.n
                            ELSE IF knob = "workers" THEN Cores ELSE Default[knob]
               IN  s.knobs[knob] # meant =>
                       \/ lane = "quarkus" /\ knob \in {"linger", "batch", "request"} /\ text.n <= 0
                       \/ lane = "node" /\ text.form \in {"trailing", "underscored"}
                       \/ lane = "node" /\ text.n \notin -ExactMax..ExactMax
                       \/ lane = "python" /\ (text.form = "underscored" \/ (knob = "workers" /\ ~usable))
                       \/ lane \in {"spring", "spring-virtual"} /\ text.n > IntMax
                       \/ lane = "rust" /\ text.n > (IF knob = "workers" THEN U64Max ELSE U32Max)
                       \/ lane = "go" /\ text.n > I64Max

(* The time a client may take for a record is enough for its linger, every *)
(* attempt it is configured to make and the pauses between them, or is the *)
(* longest an int can say, for every client that is made: the Java lanes   *)
(* never overflow, and Rust's does only if it is asked for 2^32 - 1        *)
(* retries or if all that adds up to more than 64 bits hold.               *)
TimeoutCoversAttempts ==
    \A s \in settings :
        LET k == s.knobs
            timeout == DeliveryTimeout(lane, k)
            all == k.request * (k.retries + 1) + k.backoff * k.retries
        IN  /\ lane \in TimedLanes /\ UsesKafka(s.mode)
            /\ lane = "quarkus" => state = "publishing"
            /\ lane = "rust" =>
                   k.retries < U32Max /\ all + AtLeast(LingerFloor, k.linger) <= U64Max
            => \/ timeout >= IntMax
               \/ timeout >= k.linger + all
=============================================================================
