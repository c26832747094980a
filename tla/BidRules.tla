------------------------------ MODULE BidRules ------------------------------
(***************************************************************************)
(* What each receiver lane decides about a POST /bid-request body before   *)
(* it touches Kafka: reject it (400), filter it (204) or bid on it.        *)
(*                                                                         *)
(* A body is abstracted to the facts the handlers branch on and the kinds  *)
(* of value their bindings tell apart.  The JSON binding of every lane is  *)
(* part of the decision, because the lanes are compared on what they do    *)
(* with the same bytes: serde and encoding/json refuse "lmt": "1", Jackson *)
(* and pydantic read it as 1, and Node, which binds nothing, keeps it.     *)
(***************************************************************************)

Lanes == {"rust", "go", "python", "node", "quarkus", "spring", "spring-virtual"}

(* The lanes whose body binding is Jackson. *)
JavaLanes == {"quarkus", "spring", "spring-virtual"}

(* body      a JSON object, the JSON null (or no body), or not JSON        *)
(* id        absent (or null), "", only blanks, some other text, the       *)
(*           number 0, another number, or an object                        *)
(* lmt       Limit Ad Tracking: 0 (or absent), 1, 1.0, a number with a     *)
(*           fraction, the string "1", null, true, a number beyond 32      *)
(*           bits, or other: a text that is no number, or an object        *)
(* ip        absent, in the throttled prefix "10.10.", or elsewhere        *)
(* odd, at   a value of another type at a string of the models: a scalar   *)
(*           (number, boolean) or an object; at a string every typed model *)
(*           declares (device.os), at one that Go's does not (device.ua)   *)
(*           or at one that only Quarkus' does (device.geo)                *)
(* encodable the lane's JSON encoder accepts the bound request             *)
BidRequests ==
    [body : {"object", "null", "malformed"},
     id : {"absent", "empty", "blank", "text", "zero", "number", "object"},
     device : BOOLEAN, site : BOOLEAN, app : BOOLEAN,
     lmt : {"0", "1", "1.0", "1.5", "quoted 1", "null", "true", "wide", "other"},
     ip : {"absent", "throttled", "other"},
     odd : {"none", "scalar", "object"}, at : {"all", "not go", "quarkus"},
     encodable : BOOLEAN]

(* "broken" is a handler that throws before it has decided. *)
Decisions == {"invalid", "filtered", "bid", "broken"}

-----------------------------------------------------------------------------
(* The two stages every handler runs, in this order. *)
Stages(valid, filtered) ==
    IF ~valid THEN "invalid" ELSE IF filtered THEN "filtered" ELSE "bid"

HasInventory(b) == b.site \/ b.app

Throttled(b) == b.ip = "throttled"

(* The id is there and not "". *)
HasId(b) == b.id \notin {"absent", "empty"}

(* A binding that takes a value for what the model declares, or refuses    *)
(* the body; ints are the lmt values it takes, places the strings declared.*)
BindsStrictly(b, ints, places) ==
    /\ b.body = "object" /\ b.id \notin {"zero", "number", "object"}
    /\ b.device => b.lmt \in ints
    /\ b.odd = "none" \/ b.at \notin places

(* A binding that makes a text of a scalar.  *)
BindsScalars(b, ints, places) ==
    /\ b.body = "object" /\ b.id # "object"
    /\ b.device => b.lmt \in ints
    /\ b.odd # "object" \/ b.at \notin places

(* What Jackson makes an int of, and what of that is 1: it cuts fractions. *)
JacksonInts == {"0", "1", "1.0", "1.5", "quoted 1"}
JacksonOnes == {"1", "1.0", "1.5", "quoted 1"}

-----------------------------------------------------------------------------
RustValid(b) == HasId(b) /\ b.device /\ HasInventory(b)

RustDecision(b) ==
    Stages(BindsStrictly(b, {"0", "1"}, {"all", "not go"}) /\ RustValid(b),
           b.lmt = "1" \/ Throttled(b))

(* A null leaves the zero value, and an int has 64 bits. *)
GoInts == {"0", "1", "null", "wide"}

(* Mutant: the second half of the presence check is forgotten. *)
GoDecisionNoInventory(b) ==
    Stages(BindsStrictly(b, GoInts, {"all"}) /\ HasId(b) /\ b.device,
           b.lmt = "1" \/ Throttled(b))

GoDecision(b) ==
    Stages(BindsStrictly(b, GoInts, {"all"}) /\ HasId(b) /\ b.device /\ HasInventory(b),
           b.lmt = "1" \/ Throttled(b))

(* pydantic makes an int of whole numbers, digits and booleans, no text.   *)
PythonDecision(b) ==
    LET ones == {"1", "1.0", "quoted 1", "true"}
    IN  Stages(/\ BindsStrictly(b, ones \union {"0", "wide"}, {"all", "not go"})
               /\ HasId(b) /\ b.device /\ HasInventory(b),
               b.lmt \in ones \/ Throttled(b))

(* Nothing is bound: the id only has to be true, and lmt === 1 compares    *)
(* without coercion.                                                       *)
NodeDecision(b) ==
    Stages(b.body = "object" /\ HasId(b) /\ b.id # "zero" /\ b.device /\ HasInventory(b),
           b.lmt \in {"1", "1.0"} \/ Throttled(b))

(* Only a null id is refused, a null body is dereferenced, and Jackson 2   *)
(* makes 0 of a null.                                                      *)
QuarkusDecision(b) ==
    IF b.body = "null" THEN "broken"
    ELSE Stages(/\ BindsScalars(b, JacksonInts \union {"null"}, {"all", "not go", "quarkus"})
                /\ b.id # "absent" /\ HasInventory(b) /\ b.device,
                b.lmt \in JacksonOnes \/ Throttled(b))

(* isBlank refuses "" and an id of blanks, and the mapper of Spring Boot   *)
(* has Jackson 3's defaults: it refuses a null where an int is declared.   *)
SpringDecision(b) ==
    Stages(/\ BindsScalars(b, JacksonInts, {"all", "not go"})
           /\ HasId(b) /\ b.id # "blank" /\ b.device /\ HasInventory(b),
           b.lmt \in JacksonOnes \/ Throttled(b))

SpringVirtualDecision(b) ==
    Stages(/\ BindsScalars(b, JacksonInts, {"all", "not go"})
           /\ HasId(b) /\ b.id # "blank" /\ b.device /\ HasInventory(b),
           b.lmt \in JacksonOnes \/ Throttled(b))

Decision(lane, b) ==
    CASE lane = "rust"           -> RustDecision(b)
      [] lane = "go"             -> GoDecision(b)
      [] lane = "python"         -> PythonDecision(b)
      [] lane = "node"           -> NodeDecision(b)
      [] lane = "quarkus"        -> QuarkusDecision(b)
      [] lane = "spring"         -> SpringDecision(b)
      [] lane = "spring-virtual" -> SpringVirtualDecision(b)

-----------------------------------------------------------------------------
(* The rule the lanes are compared against: malformed or incomplete        *)
(* requests are refused, limited or throttled devices are filtered.        *)
Complete(b) == b.body = "object" /\ HasId(b) /\ b.device /\ HasInventory(b)

ContractDecision(b) == Stages(Complete(b), b.lmt = "1" \/ Throttled(b))

(* Every value has the type the models declare: the id is a text, lmt the  *)
(* integer OpenRTB asks for, and no string is anything else.               *)
WellTyped(b) ==
    b.id \in {"absent", "empty", "blank", "text"} /\ b.lmt \in {"0", "1"} /\ b.odd = "none"

(* Bodies on which no binding matters: there is one, and its id is missing *)
(* or a real one.                                                          *)
Plain(b) == WellTyped(b) /\ b.body # "null" /\ b.id \in {"absent", "text"}

=============================================================================
