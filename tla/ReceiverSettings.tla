-------------------------- MODULE ReceiverSettings --------------------------
(***************************************************************************)
(* What each lane makes of its environment when it starts: the delivery    *)
(* mode, the acknowledgements, the numeric knobs of the producer client    *)
(* and the time the client may take for a record.  Seven parsers read the  *)
(* same variables; the matrix runner checks the mode and the acks and      *)
(* passes the numbers on as they are.                                      *)
(*                                                                         *)
(* A text is abstracted to what the parsers disagree on.  The widths are   *)
(* constants: 2^31 - 1 in the code, from which the others follow, 2^53 for *)
(* a double, and 1000 ms the least linger a timeout accounts for.          *)
(***************************************************************************)
EXTENDS Integers

CONSTANTS IntMax,      \* the largest int of Java
          ExactMax,    \* the integers a double holds exactly
          LingerFloor, \* the least linger in a delivery timeout
          Cores,       \* the CPUs the container sees
          Default      \* Default[knob]: what a knob is when it is not set

ASSUME SettingsAssumption ==
    /\ IntMax \in Nat /\ LingerFloor \in Nat /\ Cores \in Nat \ {0}
    /\ LingerFloor <= IntMax
    /\ ExactMax \in Nat /\ IntMax <= ExactMax

(* The widths of 32 and 64 bits. *)
U32Max == 2 * IntMax + 1
I64Max == 2 * (IntMax + 1) * (IntMax + 1) - 1
U64Max == 2 * I64Max + 1

ConfiguredLanes == {"rust", "go", "python", "node", "quarkus", "spring", "spring-virtual"}

Knobs == {"linger", "batch", "request", "retries", "backoff", "pool", "workers"}

ASSUME DefaultAssumption == Default \in [Knobs -> Nat]

(* The variables a lane reads. *)
KnobsOf(lane) ==
    CASE lane = "rust"   -> Knobs
      [] lane = "go"     -> {"linger", "batch", "request", "retries", "backoff"}
      [] lane = "python" -> Knobs \ {"pool"}
      [] lane = "node"   -> {"request", "retries", "backoff", "workers"}
      [] OTHER           -> Knobs \ {"workers"}

(* form   of a text, blanks around it removed by every parser:             *)
(*   unset, blank                                                          *)
(*   integer      an optional sign and digits, worth n                     *)
(*   trailing     digits, then something else ("12abc", "1.5")             *)
(*   underscored  digits grouped ("1_000"), worth n                        *)
(* first  what a double makes of its first digits                          *)
Texts ==
    {t \in [form : {"unset", "blank", "integer", "trailing", "underscored"}, n : Int, first : Int] :
        t.form = "integer" /\ t.n \in -ExactMax..ExactMax => t.first = t.n}

NotSet == [form |-> "unset", n |-> 0, first |-> 0]

-----------------------------------------------------------------------------
(* What a parser reads: {} where it fails, or the one number. *)
PythonReads(text) == IF text.form \in {"integer", "underscored"} THEN {text.n} ELSE {}

(* Atoi, 64 bits wide. *)
GoReads(text) ==
    IF text.form = "integer" /\ text.n \in -(I64Max + 1)..I64Max THEN {text.n} ELSE {}

(* Number.parseInt stops at the first character that is no digit, and its  *)
(* result is a double.                                                     *)
NodeReads(text) ==
    IF text.form \in {"integer", "trailing", "underscored"} THEN {text.first} ELSE {}

(* parse::<u32>, and for the workers NonZeroUsize, 64 bits wide. *)
RustReads(knob, text) ==
    IF text.form = "integer" /\ text.n \in 0..(IF knob = "workers" THEN U64Max ELSE U32Max)
    THEN {text.n} ELSE {}

(* Integer.parseInt *)
JavaReads(text) ==
    IF text.form = "integer" /\ text.n \in -(IntMax + 1)..IntMax THEN {text.n} ELSE {}

Reads(lane, knob, text) ==
    CASE lane = "python" -> PythonReads(text)
      [] lane = "go"     -> GoReads(text)
      [] lane = "node"   -> NodeReads(text)
      [] lane = "rust"   -> RustReads(knob, text)
      [] OTHER           -> JavaReads(text)

(* parse_positive_int and parse_non_negative_int. *)
Least(knob) == IF knob \in {"retries", "backoff"} THEN 0 ELSE 1

(* Python starts one worker, the other lanes one for each CPU. *)
Fallback(lane, knob) ==
    IF knob # "workers" THEN Default[knob] ELSE IF lane = "python" THEN 1 ELSE Cores

(* Mutant: zero passes for a positive number. *)
NormalizedLenient(lane, knob, text) ==
    LET usable == {n \in Reads(lane, knob, text) : n >= 0}
    IN  IF usable = {} THEN Fallback(lane, knob) ELSE CHOOSE n \in usable : TRUE

Normalized(lane, knob, text) ==
    LET usable == {n \in Reads(lane, knob, text) : n >= Least(knob)}
    IN  IF usable = {} THEN Fallback(lane, knob) ELSE CHOOSE n \in usable : TRUE

(* Quarkus' injected ints: three of them are not checked at all. *)
QuarkusKnob(knob, text) ==
    IF text.form # "unset" /\ knob \in {"linger", "batch", "request"} THEN text.n
    ELSE Normalized("quarkus", knob, text)

Knob(lane, knob, text) ==
    IF lane = "quarkus" THEN QuarkusKnob(knob, text) ELSE Normalized(lane, knob, text)

-----------------------------------------------------------------------------
ModeTexts == {"unset", "empty", "blank", "confirm", "enqueue", "http-only", "unknown"}
AcksTexts == {"unset", "empty", "blank", "0", "none", "1", "leader", "-1", "all", "unknown"}

NormalizeDeliveryMode(text) ==
    IF text \in {"confirm", "enqueue", "http-only"} THEN text ELSE "confirm"

ParseKafkaAcks(text) ==
    CASE text \in {"0", "none"} -> "0"
      [] text \in {"-1", "all"} -> "all"
      [] OTHER                  -> "1"

(* Quarkus hands the text to the client, which knows no other values. *)
QuarkusAcksTexts == {"unset", "0", "1", "-1", "all"}

UsesKafka(mode) == mode # "http-only"

Environments == [mode : ModeTexts, acks : AcksTexts, knobs : [Knobs -> Texts]]

(* Every lane reads its environment without fail but Quarkus, which checks *)
(* at start that it can inject: no empty text, no int that is none.        *)
Starts(lane, env) ==
    lane = "quarkus" =>
        /\ env.mode # "empty" /\ env.acks # "empty"
        /\ \A knob \in KnobsOf("quarkus") :
               env.knobs[knob].form # "unset" => JavaReads(env.knobs[knob]) # {}

(* Quarkus makes its clients with the first publish, when the lazy bean    *)
(* is; they refuse an acks they do not know and negative values.           *)
QuarkusClientTakes(env) ==
    /\ env.acks \in QuarkusAcksTexts
    /\ \A knob \in {"linger", "batch", "request"} : Knob("quarkus", knob, env.knobs[knob]) >= 0

(* The lanes that make and connect their clients before they serve.        *)
ClientAtStart == {"rust", "python", "node", "spring", "spring-virtual"}

Settings(lane, env) ==
    [mode |-> NormalizeDeliveryMode(env.mode), acks |-> ParseKafkaAcks(env.acks),
     knobs |-> [knob \in KnobsOf(lane) |-> Knob(lane, knob, env.knobs[knob])]]

-----------------------------------------------------------------------------
AtMost(limit, n) == IF n < limit THEN n ELSE limit
AtLeast(limit, n) == IF n > limit THEN n ELSE limit

(* An int that does not fit wraps around. *)
WrapInt(n) == ((n + IntMax + 1) % (2 * (IntMax + 1))) - (IntMax + 1)

(* Mutant: the products are taken in int. *)
JavaDeliveryTimeoutNarrow(k) ==
    AtMost(IntMax, WrapInt(k.request * WrapInt(k.retries + 1))
                   + WrapInt(k.backoff * k.retries) + AtLeast(LingerFloor, k.linger))

(* computeDeliveryTimeoutMs, in long. *)
JavaDeliveryTimeout(k) ==
    AtMost(IntMax, k.request * (k.retries + 1) + k.backoff * k.retries
                   + AtLeast(LingerFloor, k.linger))

(* compute_message_timeout_ms, in u32 and u64, which wrap in the release   *)
(* build.                                                                  *)
RustMessageTimeout(k) ==
    AtMost(U32Max, (k.request * ((k.retries + 1) % (U32Max + 1)) + k.backoff * k.retries
                    + AtLeast(LingerFloor, k.linger)) % (U64Max + 1))

DeliveryTimeout(lane, k) ==
    IF lane = "rust" THEN RustMessageTimeout(k) ELSE JavaDeliveryTimeout(k)

TimedLanes == {"rust", "quarkus", "spring", "spring-virtual"}
=============================================================================
