---------------------------- MODULE RulesProofs ----------------------------
(***************************************************************************)
(* What the lanes' handlers and parsers have in common, for every width of *)
(* the integers, every default and every set of texts and numbers tried.   *)
(***************************************************************************)
EXTENDS MCBidRules, TLAPS

(* The inductive invariant: a lane's settings are those of its             *)
(* environment, in which it could start, and its verdict that of its       *)
(* handler.                                                                *)
RulesInv ==
    /\ lane \in UnderTest /\ env \in Environments
    /\ state = "failed" =>
           ~Starts(lane, env) \/ (lane \in ClientAtStart /\ UsesKafka(NormalizeDeliveryMode(env.mode)))
    /\ state = "unable" => lane = "quarkus" /\ ~QuarkusClientTakes(env) /\ settings # {}
    /\ state = "publishing" => lane = "quarkus" /\ QuarkusClientTakes(env)
    /\ state = "up" => settings # {}
    /\ settings \subseteq {Settings(lane, env)}
    /\ settings # {} => Starts(lane, env)
    /\ bid \subseteq BidRequests
    /\ \A b \in bid : verdict = Decision(lane, b)

(* What is tried are environments. *)
LEMMA TriedIsAnEnvironment == Tried \subseteq Environments
<1> DEFINE A(m, a) == [Unset EXCEPT !.mode = m, !.acks = a]
           B(m, k, t) == [Unset EXCEPT !.mode = m, !.knobs[k] = t]
           C(w, x, y, z) == [Unset EXCEPT !.knobs["request"] = Number(w),
                                          !.knobs["retries"] = Number(x),
                                          !.knobs["backoff"] = Number(y),
                                          !.knobs["linger"] = Number(z)]
<1> USE UnderTestAssumption DEF UnderTestAssumption
<1>1. NotSet \in Texts /\ \A n \in Numbers : Number(n) \in Texts
  BY DEF NotSet, Texts, Number
<1>2. Unset \in Environments
  BY <1>1 DEF Unset, ModeTexts, AcksTexts, Environments
<1>3. ASSUME NEW m \in ModeTexts, NEW a \in AcksTexts PROVE A(m, a) \in Environments
  BY <1>2 DEF Environments
<1>4. ASSUME NEW m \in {"unset", "http-only"}, NEW k \in Knobs, NEW t \in Samples
      PROVE  B(m, k, t) \in Environments
  BY <1>2 DEF ModeTexts, Environments
<1>5. ASSUME NEW w \in Numbers, NEW x \in Numbers, NEW y \in Numbers, NEW z \in Numbers
      PROVE  C(w, x, y, z) \in Environments
  BY <1>1, <1>2 DEF Environments
<1>6. Tried = {A(m, a) : m \in ModeTexts, a \in AcksTexts}
                \union {B(m, k, t) : m \in {"unset", "http-only"}, k \in Knobs, t \in Samples}
                \union {C(w, x, y, z) : w, x, y, z \in Numbers}
  BY DEF Tried
<1> HIDE DEF A, B, C
<1> QED
  BY <1>3, <1>4, <1>5, <1>6

(* A started lane has the settings its parsers make of its environment,    *)
(* and its verdict is its handler's.                                       *)
LEMMA RulesInvariant == Spec => []RulesInv
<1>1. Init => RulesInv
  BY TriedIsAnEnvironment DEF Init, RulesInv
<1>2. RulesInv /\ [Next]_vars => RulesInv'
  <2> SUFFICES ASSUME RulesInv, [Next]_vars PROVE RulesInv'
    OBVIOUS
  <2>1. CASE Start
    BY <2>1 DEF Start, RulesInv
  <2>2. CASE FirstPublish
    BY <2>2 DEF FirstPublish, RulesInv
  <2>3. CASE Decide
    BY <2>3 DEF Decide, RulesInv
  <2>4. CASE UNCHANGED vars
    BY <2>4 DEF vars, RulesInv
  <2> QED
    BY <2>1, <2>2, <2>3, <2>4 DEF Next
<1> QED
  BY <1>1, <1>2, PTL DEF Spec

-----------------------------------------------------------------------------
(* What a handler may do to a body. *)
DecidesAsKnown(l, b) ==
    /\ WellTyped(b) /\ Decision(l, b) # ContractDecision(b) =>
           \/ l = "quarkus" /\ (b.body = "null" \/ b.id = "empty")
           \/ l \in {"spring", "spring-virtual"} /\ b.id = "blank"
    /\ Decision(l, b) \in {"filtered", "bid"} =>
           Complete(b) \/ (l = "quarkus" /\ Complete([b EXCEPT !.id = "text"]) /\ b.id = "empty")
    /\ Decision(l, b) = "invalid" /\ Complete(b) =>
           ~WellTyped(b) \/ (l \in {"spring", "spring-virtual"} /\ b.id = "blank")

(* Handler by handler. *)
LEMMA HandlerDecidesAsKnown ==
    ASSUME NEW l \in Lanes, NEW b \in BidRequests
    PROVE  DecidesAsKnown(l, b)
<1> USE DEF DecidesAsKnown, BidRequests, Stages, WellTyped, Complete, HasId, ContractDecision,
            HasInventory
<1>1. CASE l = "rust"
  BY <1>1 DEF Decision, RustDecision, RustValid, BindsStrictly
<1>2. CASE l = "go"
  BY <1>2 DEF Decision, GoDecision, GoInts, BindsStrictly
<1>3. CASE l = "python"
  BY <1>3 DEF Decision, PythonDecision, BindsStrictly
<1>4. CASE l = "node"
  BY <1>4 DEF Decision, NodeDecision
<1>5. CASE l = "quarkus"
  BY <1>5 DEF Decision, QuarkusDecision, BindsScalars, JacksonInts, JacksonOnes
<1>6. CASE l = "spring"
  BY <1>6 DEF Decision, SpringDecision, BindsScalars, JacksonInts, JacksonOnes
<1>7. CASE l = "spring-virtual"
  BY <1>7 DEF Decision, SpringVirtualDecision, BindsScalars, JacksonInts, JacksonOnes
<1> QED
  BY <1>1, <1>2, <1>3, <1>4, <1>5, <1>6, <1>7 DEF Lanes

(* What a lane bids on has no lmt that a typed binding reads as 1, unless  *)
(* the lane is Node's; and 1 and 1.0 are 1 in Node's lane too.             *)
LEMMA BidsUnlimited ==
    ASSUME NEW l \in Lanes, NEW b \in BidRequests, Decision(l, b) = "bid"
    PROVE  /\ ~Throttled(b) /\ b.lmt \notin {"1", "1.0"}
           /\ l # "node" => b.lmt \in {"0", "null", "wide"}
<1> USE DEF BidRequests, Stages
<1>1. CASE l = "rust"
  BY <1>1 DEF Decision, RustDecision, RustValid, BindsStrictly
<1>2. CASE l = "go"
  BY <1>2 DEF Decision, GoDecision, GoInts, BindsStrictly
<1>3. CASE l = "python"
  BY <1>3 DEF Decision, PythonDecision, BindsStrictly
<1>4. CASE l = "node"
  BY <1>4 DEF Decision, NodeDecision
<1>5. CASE l = "quarkus"
  BY <1>5 DEF Decision, QuarkusDecision, BindsScalars, JacksonInts, JacksonOnes
<1>6. CASE l = "spring"
  BY <1>6 DEF Decision, SpringDecision, BindsScalars, JacksonInts, JacksonOnes
<1>7. CASE l = "spring-virtual"
  BY <1>7 DEF Decision, SpringVirtualDecision, BindsScalars, JacksonInts, JacksonOnes
<1> QED
  BY <1>1, <1>2, <1>3, <1>4, <1>5, <1>6, <1>7 DEF Lanes

(* What a lane filters is throttled or has an lmt that it reads as 1. *)
LEMMA FiltersLimited ==
    ASSUME NEW l \in Lanes, NEW b \in BidRequests, Decision(l, b) = "filtered"
    PROVE  Throttled(b) \/ b.lmt \in {"1", "1.0", "1.5", "quoted 1", "true"}
<1> USE DEF Stages
<1>1. CASE l \in {"rust", "go", "python", "node"}
  BY <1>1 DEF Decision, RustDecision, GoDecision, PythonDecision, NodeDecision
<1>2. CASE l \in {"quarkus", "spring", "spring-virtual"}
  BY <1>2 DEF Decision, QuarkusDecision, SpringDecision, SpringVirtualDecision, JacksonOnes
<1> QED
  BY <1>1, <1>2 DEF Lanes

(* Whatever set of lanes is compared: on a body of the declared types a    *)
(* handler departs from the contract only in the known ways, on any body   *)
(* it takes no incomplete request, and only Node bids where another        *)
(* filters.                                                                *)
THEOREM HandlersDivergeOnlyAsKnown == Spec => []LanesDivergeOnlyAsKnown
<1>1. ASSUME RulesInv, NEW b \in bid
      PROVE  /\ lane \in Lanes /\ b \in BidRequests /\ verdict = Decision(lane, b)
             /\ UnderTest \subseteq Lanes
  BY <1>1, UnderTestAssumption DEF UnderTestAssumption, RulesInv
<1>2. ASSUME RulesInv, NEW b \in bid PROVE DecidesAsKnown(lane, b)
  BY <1>1, <1>2, HandlerDecidesAsKnown
<1>3. ASSUME RulesInv, NEW b \in bid, NEW other \in UnderTest,
             verdict = "bid", Decision(other, b) = "filtered"
      PROVE  lane = "node" /\ b.lmt \in {"1.5", "quoted 1", "true"}
  <2>1. lane \in Lanes /\ other \in Lanes /\ b \in BidRequests /\ Decision(lane, b) = "bid"
    BY <1>1, <1>3
  <2>2. ~Throttled(b) /\ b.lmt \notin {"1", "1.0"} /\ (lane # "node" => b.lmt \in {"0", "null", "wide"})
    BY <2>1, BidsUnlimited
  <2>3. Throttled(b) \/ b.lmt \in {"1", "1.0", "1.5", "quoted 1", "true"}
    BY <1>3, <2>1, FiltersLimited
  <2> QED
    BY <2>2, <2>3
<1>4. RulesInv => LanesDivergeOnlyAsKnown
  <2> SUFFICES ASSUME RulesInv, NEW b \in bid
               PROVE  LanesDivergeOnlyAsKnown!(b)
    BY DEF LanesDivergeOnlyAsKnown
  <2> QED
    BY <1>1, <1>2, <1>3 DEF DecidesAsKnown
<1> QED
  BY <1>4, RulesInvariant, PTL

-----------------------------------------------------------------------------
(* What a parser makes of a text is its default, or usable and the number  *)
(* it read.                                                                *)
LEMMA NormalizedIsReadOrDefault ==
    ASSUME NEW l, NEW knob \in Knobs, NEW t \in Texts
    PROVE  /\ Reads(l, knob, t) = {} => Normalized(l, knob, t) = Fallback(l, knob)
           /\ \A n : Reads(l, knob, t) = {n} =>
                  Normalized(l, knob, t) = IF n >= Least(knob) THEN n ELSE Fallback(l, knob)
BY DEF Normalized

(* A parser reads nothing, the number, or, in Node, its first digits. *)
LEMMA ReadsAtMostOne ==
    ASSUME NEW l, NEW knob \in Knobs, NEW t \in Texts
    PROVE  \/ Reads(l, knob, t) = {}
           \/ Reads(l, knob, t) = {t.n}
           \/ Reads(l, knob, t) = {t.first} /\ l = "node"
BY DEF Reads, PythonReads, GoReads, NodeReads, RustReads, JavaReads, Texts

(* What a parser makes of any text is a natural number. *)
LEMMA NormalizedIsNumber ==
    ASSUME NEW l, NEW knob \in Knobs, NEW t \in Texts
    PROVE  Normalized(l, knob, t) \in Nat
<1>1. Fallback(l, knob) \in Nat /\ Least(knob) \in {0, 1}
  BY SettingsAssumption, DefaultAssumption
  DEF SettingsAssumption, DefaultAssumption, Fallback, Least
<1>2. t.n \in Int /\ t.first \in Int
  BY DEF Texts
<1> QED
  BY <1>1, <1>2, NormalizedIsReadOrDefault, ReadsAtMostOne

(* A setting is a natural number, but where Quarkus does not look.         *)
LEMMA KnobIsNumber ==
    ASSUME NEW l, NEW knob \in Knobs, NEW t \in Texts
    PROVE  /\ Knob(l, knob, t) \in Int
           /\ l # "quarkus" => Knob(l, knob, t) \in Nat
           /\ knob \notin {"linger", "batch", "request"} => Knob(l, knob, t) \in Nat
<1>1. t.n \in Int
  BY DEF Texts
<1> QED
  BY <1>1, NormalizedIsNumber DEF Knob, QuarkusKnob

-----------------------------------------------------------------------------
(* The timeout, from the time for the attempts, that for the pauses and    *)
(* the linger.                                                             *)
LEMMA TimeoutArithmetic ==
    ASSUME NEW attempts \in Nat, NEW pauses \in Nat, NEW linger \in Nat, NEW limit \in Nat
    PROVE  LET timeout == AtMost(limit, attempts + pauses + AtLeast(LingerFloor, linger))
           IN  timeout >= limit \/ timeout >= linger + attempts + pauses
BY SettingsAssumption DEF SettingsAssumption, AtMost, AtLeast

(* Whatever its environment says, a lane whose client is made gives it the *)
(* time its settings ask for.                                              *)
LEMMA TimeoutIsEnough ==
    ASSUME NEW l \in TimedLanes, NEW e \in Environments,
           l = "quarkus" => QuarkusClientTakes(e),
           LET k == Settings(l, e).knobs
           IN  l = "rust" => /\ k.retries < U32Max
                             /\ k.request * (k.retries + 1) + k.backoff * k.retries
                                    + AtLeast(LingerFloor, k.linger) <= U64Max
    PROVE  LET k == Settings(l, e).knobs
           IN  \/ DeliveryTimeout(l, k) >= IntMax
               \/ DeliveryTimeout(l, k) >= k.linger + (k.request * (k.retries + 1)
                                                          + k.backoff * k.retries)
<1> DEFINE k == Settings(l, e).knobs
<1>1. \A knob \in {"linger", "batch", "request", "retries", "backoff"} :
          knob \in Knobs /\ e.knobs[knob] \in Texts /\ k[knob] = Knob(l, knob, e.knobs[knob])
  BY DEF TimedLanes, Environments, Settings, KnobsOf, Knobs
<1>2. k.retries \in Nat /\ k.backoff \in Nat
  BY <1>1, KnobIsNumber
<1>3. k.linger \in Nat /\ k.request \in Nat
  <2>1. CASE l = "quarkus"
    <3>1. Knob("quarkus", "linger", e.knobs["linger"]) >= 0
          /\ Knob("quarkus", "request", e.knobs["request"]) >= 0
      BY <2>1 DEF QuarkusClientTakes
    <3> QED
      BY <1>1, <2>1, <3>1, KnobIsNumber
  <2>2. CASE l # "quarkus"
    BY <1>1, <2>2, KnobIsNumber
  <2> QED
    BY <2>1, <2>2
<1>4. /\ IntMax \in Nat /\ U32Max \in Nat /\ U32Max >= IntMax
      /\ LingerFloor \in Nat /\ U64Max \in Nat
  BY SettingsAssumption DEF SettingsAssumption, U32Max, U64Max, I64Max
<1> DEFINE attempts == k.request * (k.retries + 1)
           pauses == k.backoff * k.retries
           limit == IF l = "rust" THEN U32Max ELSE IntMax
           timeout == DeliveryTimeout(l, k)
<1> HIDE DEF k
<1>5. attempts \in Nat /\ pauses \in Nat
  BY <1>2, <1>3
<1>6. timeout = AtMost(limit, attempts + pauses + AtLeast(LingerFloor, k.linger))
  <2>1. CASE l # "rust"
    BY <2>1 DEF DeliveryTimeout, JavaDeliveryTimeout
  <2>2. CASE l = "rust"
    <3>1. k.retries + 1 \in 0..U32Max
      BY <1>2, <1>4, <2>2 DEF k
    <3>2. (k.retries + 1) % (U32Max + 1) = k.retries + 1
      BY <1>2, <1>4, <3>1
    <3>3. attempts + pauses + AtLeast(LingerFloor, k.linger) \in 0..U64Max
      <4>1. AtLeast(LingerFloor, k.linger) \in Nat
        BY <1>3, <1>4 DEF AtLeast
      <4>2. attempts + pauses + AtLeast(LingerFloor, k.linger) <= U64Max
        BY <2>2 DEF k
      <4> HIDE DEF attempts, pauses
      <4> QED
        BY <1>4, <1>5, <4>1, <4>2
    <3>4. \A n \in 0..U64Max : n % (U64Max + 1) = n
      BY <1>4
    <3>5. RustMessageTimeout(k)
              = AtMost(U32Max, (attempts + pauses + AtLeast(LingerFloor, k.linger)) % (U64Max + 1))
      BY <3>2 DEF RustMessageTimeout
    <3> HIDE DEF attempts, pauses
    <3> QED
      BY <2>2, <3>3, <3>4, <3>5 DEF DeliveryTimeout
  <2> QED
    BY <2>1, <2>2
<1> HIDE DEF attempts, pauses, timeout, limit
<1>7. timeout >= limit \/ timeout >= k.linger + attempts + pauses
  BY <1>3, <1>4, <1>5, <1>6, TimeoutArithmetic DEF limit
<1>8. timeout >= IntMax \/ timeout >= k.linger + (attempts + pauses)
  <2>1. timeout \in Nat /\ limit >= IntMax /\ limit \in Nat
    BY <1>3, <1>4, <1>5, <1>6, SettingsAssumption
    DEF SettingsAssumption, AtMost, AtLeast, limit
  <2> QED
    BY <1>3, <1>4, <1>5, <1>7, <2>1
<1> QED
  BY <1>8 DEF k, attempts, pauses, timeout

(* The delivery timeout, for every width of the integers and every         *)
(* environment in which a lane makes its client.                           *)
THEOREM TimeoutsCoverAttempts == Spec => []TimeoutCoversAttempts
<1>1. ASSUME RulesInv, NEW s \in settings, lane \in TimedLanes,
             lane = "quarkus" => state = "publishing",
             LET k == s.knobs
             IN  lane = "rust" => /\ k.retries < U32Max
                                  /\ k.request * (k.retries + 1) + k.backoff * k.retries
                                         + AtLeast(LingerFloor, k.linger) <= U64Max
      PROVE  LET k == s.knobs
                 timeout == DeliveryTimeout(lane, k)
             IN  \/ timeout >= IntMax
                 \/ timeout >= k.linger + (k.request * (k.retries + 1) + k.backoff * k.retries)
  <2>1. s = Settings(lane, env) /\ env \in Environments
        /\ (lane = "quarkus" => QuarkusClientTakes(env))
    BY <1>1 DEF RulesInv
  <2> QED
    BY <1>1, <2>1, TimeoutIsEnough
<1>2. RulesInv => TimeoutCoversAttempts
  BY <1>1 DEF TimeoutCoversAttempts
<1> QED
  BY <1>2, RulesInvariant, PTL

-----------------------------------------------------------------------------
(* What a run means by the text of a knob. *)
Usable(knob, t) == t.form = "integer" /\ t.n >= Least(knob)
Meant(knob, t) ==
    IF Usable(knob, t) THEN t.n ELSE IF knob = "workers" THEN Cores ELSE Default[knob]

(* The ways in which a lane may take it for something else. *)
KnownReading(l, knob, t) ==
    \/ l = "quarkus" /\ knob \in {"linger", "batch", "request"} /\ t.n <= 0
    \/ l = "node" /\ t.form \in {"trailing", "underscored"}
    \/ l = "node" /\ t.n \notin -ExactMax..ExactMax
    \/ l = "python" /\ (t.form = "underscored" \/ (knob = "workers" /\ ~Usable(knob, t)))
    \/ l \in {"spring", "spring-virtual"} /\ t.n > IntMax
    \/ l = "rust" /\ t.n > (IF knob = "workers" THEN U64Max ELSE U32Max)
    \/ l = "go" /\ t.n > I64Max

(* Outside the known ways a lane reads what the text means. *)
LEMMA NormalizedAsMeant ==
    ASSUME NEW l \in ConfiguredLanes \ {"quarkus"}, NEW knob \in Knobs, NEW t \in Texts,
           ~KnownReading(l, knob, t)
    PROVE  Normalized(l, knob, t) = Meant(knob, t)
<1>1. /\ t.n \in Int /\ t.first \in Int /\ Least(knob) \in {0, 1}
      /\ t.form \in {"unset", "blank", "integer", "trailing", "underscored"}
      /\ IntMax \in Nat /\ U32Max \in Nat /\ I64Max \in Nat /\ U64Max \in Nat
      /\ t.form = "integer" /\ t.n \in -ExactMax..ExactMax => t.first = t.n
  BY SettingsAssumption DEF SettingsAssumption, U32Max, I64Max, U64Max, Texts, Least
<1>2. CASE Usable(knob, t)
  <2>1. Reads(l, knob, t) = {t.n}
    <3>1. CASE l \in {"python", "go", "node"}
      BY <1>1, <1>2, <3>1 DEF Usable, KnownReading, Reads, PythonReads, GoReads, NodeReads
    <3>2. CASE l = "rust"
      BY <1>1, <1>2, <3>2 DEF Usable, KnownReading, Reads, RustReads
    <3>3. CASE l \in {"spring", "spring-virtual"}
      BY <1>1, <1>2, <3>3 DEF Usable, KnownReading, Reads, JavaReads
    <3> QED
      BY <3>1, <3>2, <3>3 DEF ConfiguredLanes
  <2> QED
    BY <1>1, <1>2, <2>1, NormalizedIsReadOrDefault DEF Usable, Meant
<1>3. CASE ~Usable(knob, t)
  <2>1. \/ Reads(l, knob, t) = {}
        \/ Reads(l, knob, t) = {t.n} /\ ~(t.n >= Least(knob))
    BY <1>1, <1>3
    DEF Usable, KnownReading, Reads, PythonReads, GoReads, NodeReads, RustReads, JavaReads
  <2>2. Normalized(l, knob, t) = Fallback(l, knob)
    BY <2>1, NormalizedIsReadOrDefault
  <2>3. l = "python" => knob # "workers"
    BY <1>3 DEF KnownReading
  <2> QED
    BY <1>3, <2>2, <2>3 DEF Meant, Fallback
<1> QED
  BY <1>2, <1>3

(* Quarkus' injected ints are those it is configured with. *)
LEMMA QuarkusKnobAsMeant ==
    ASSUME NEW knob \in Knobs, knob # "workers", NEW t \in Texts,
           t.form # "unset" => JavaReads(t) # {}, ~KnownReading("quarkus", knob, t)
    PROVE  QuarkusKnob(knob, t) = Meant(knob, t)
<1>1. /\ t.n \in Int /\ Least(knob) \in {0, 1}
      /\ knob \in {"linger", "batch", "request"} => Least(knob) = 1
  BY DEF Texts, Least
<1>2. CASE t.form = "unset"
  <2>1. Reads("quarkus", knob, t) = {} /\ ~Usable(knob, t)
    BY <1>2 DEF Reads, JavaReads, Usable
  <2> QED
    BY <1>2, <2>1, NormalizedIsReadOrDefault DEF QuarkusKnob, Meant, Fallback
<1>3. CASE t.form # "unset"
  <2>1. t.form = "integer" /\ Reads("quarkus", knob, t) = {t.n}
    BY <1>3 DEF Reads, JavaReads
  <2>2. CASE knob \in {"linger", "batch", "request"}
    BY <1>1, <1>3, <2>1, <2>2 DEF QuarkusKnob, KnownReading, Meant, Usable
  <2>3. CASE knob \notin {"linger", "batch", "request"}
    BY <1>1, <1>3, <2>1, <2>3, NormalizedIsReadOrDefault
    DEF QuarkusKnob, Meant, Usable, Fallback
  <2> QED
    BY <2>2, <2>3
<1> QED
  BY <1>2, <1>3

(* Whatever is passed on, the seven lanes mean the same by it, but for the *)
(* known readings.                                                         *)
THEOREM ParsersReadAlike == Spec => []LanesReadKnobsAlike
<1>1. ASSUME RulesInv, NEW s \in settings, NEW knob \in DOMAIN s.knobs,
             s.knobs[knob] # Meant(knob, env.knobs[knob])
      PROVE  KnownReading(lane, knob, env.knobs[knob])
  <2> DEFINE t == env.knobs[knob]
  <2>1. /\ s = Settings(lane, env) /\ Starts(lane, env) /\ env \in Environments
        /\ lane \in ConfiguredLanes
    BY <1>1, UnderTestAssumption DEF UnderTestAssumption, RulesInv
  <2>2. knob \in KnobsOf(lane) /\ knob \in Knobs /\ s.knobs[knob] = Knob(lane, knob, t)
    BY <2>1 DEF Settings, KnobsOf, Knobs, ConfiguredLanes
  <2>3. t \in Texts
    BY <2>1, <2>2 DEF Environments
  <2>4. CASE lane # "quarkus"
    BY <1>1, <2>1, <2>2, <2>3, <2>4, NormalizedAsMeant DEF Knob
  <2>5. CASE lane = "quarkus"
    <3>1. knob # "workers" /\ (t.form # "unset" => JavaReads(t) # {})
      BY <2>1, <2>2, <2>5 DEF Starts, KnobsOf
    <3> QED
      BY <1>1, <2>2, <2>3, <2>5, <3>1, QuarkusKnobAsMeant DEF Knob
  <2> QED
    BY <2>4, <2>5
<1>2. ASSUME RulesInv, state = "failed"
      PROVE  lane = "quarkus" \/ (lane # "go" /\ UsesKafka(NormalizeDeliveryMode(env.mode)))
  BY <1>2 DEF RulesInv, Starts, ClientAtStart
<1>3. ASSUME RulesInv, state = "unable", NEW s \in settings
      PROVE  \/ env.acks \notin QuarkusAcksTexts
             \/ \E knob \in {"linger", "batch", "request"} : s.knobs[knob] < 0
  <2>1. /\ s = Settings("quarkus", env) /\ env \in Environments
        /\ ~QuarkusClientTakes(env)
    BY <1>3 DEF RulesInv
  <2>2. \A knob \in {"linger", "batch", "request"} :
            /\ env.knobs[knob] \in Texts /\ knob \in Knobs
            /\ s.knobs[knob] = Knob("quarkus", knob, env.knobs[knob])
    BY <2>1 DEF Environments, Settings, KnobsOf, Knobs
  <2> QED
    BY <2>1, <2>2, KnobIsNumber DEF QuarkusClientTakes
<1>4. RulesInv => LanesReadKnobsAlike
  BY <1>1, <1>2, <1>3 DEF LanesReadKnobsAlike, KnownReading, Meant, Usable
<1> QED
  BY <1>4, RulesInvariant, PTL
=============================================================================
