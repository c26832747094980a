------------------------------ MODULE Collator ------------------------------
(***************************************************************************)
(* scripts/collate-benchmark-results.py: one result directory after        *)
(* another is collated, by the matrix runner or by hand, while others      *)
(* appear and fill.  A collation reads its directory, looks through its    *)
(* siblings in whatever order the file system lists them for the run of    *)
(* the opposite delivery mode to compare with, and writes five files; it   *)
(* may die at any point.                                                   *)
(***************************************************************************)
EXTENDS MatrixConfig, RunMetrics

CONSTANTS Dirs,      \* the result directories, numbered in the order of their names
          NameOrder, \* the services in the order of their names
          StampOf,   \* StampOf[d]: when run d began; Missing if nothing tells
          Callers,   \* the environments the matrix runner is called with
          Checkouts, \* what else run-meta.txt tells apart: commit, platform, budgets; "" for
                     \* what it does not say, or says with an empty value
          Recorded,  \* Recorded[d]: the metadata run d may have
          Outcomes,  \* Outcomes[m, s]: what a run of service s may measure in mode m
          Host,      \* the limits the receivers' container was given
          Repeats,   \* REPEATS
          MaxCollations \* bound on how often the collator is started

ASSUME CollatorAssumption ==
    /\ Dirs \subseteq Nat \ {0}
    /\ NameOrder \in Seq(Services) /\ IsInjective(NameOrder) /\ ToSet(NameOrder) = Services
    /\ StampOf \in [Dirs -> Nat \union {Missing}]
    /\ Callers \subseteq Environments
    /\ Outcomes \in [DeliveryModes \X Services -> SUBSET Measurements]
    /\ Host \in Hosts /\ Repeats \in Nat /\ MaxCollations \in Nat

Limit == CpuLimit(Host)

NoDir == 0

(* run-meta.txt.  "dirty" is git_dirty, "absent" in a run from before that *)
(* key was; "zoned", whether its timestamp has a UTC offset, which the     *)
(* date in a directory's name, taken instead of none, has not; the setup   *)
(* holds what is read for the keys MODE_COMPARISON_META_KEYS names.        *)
MetaOf(c, dirty, zoned, checkout) ==
    [mode |-> c.mode, dirty |-> dirty, zoned |-> zoned,
     setup |-> [preset |-> c.preset, profile |-> c.profile, services |-> c.services,
                partitions |-> c.partitions, knobs |-> c.knobs, parity |-> c.parity,
                checkout |-> checkout]]

(* The metadata a run the guardrails let through can have. *)
Metas ==
    {MetaOf(Effective(env), dirty, zoned, checkout) :
        env \in {e \in Callers : Accepted(e)}, dirty \in {"true", "false", "absent"},
        zoned \in BOOLEAN, checkout \in Checkouts}

ASSUME RecordedAssumption == Recorded \in [Dirs -> SUBSET Metas]

(* The files of a collation, in the order they are written. *)
Artifacts == <<"runs.csv", "summary.csv", "mode-comparison.csv", "summary.md", "summary.json">>

VARIABLES
    meta,       \* meta[d]: the run-meta.txt of each directory there is
    raw,        \* raw[d][s]: the measured runs of service s in d
    files,      \* files[d][name]: {} or the one content of an artifact
    torn,       \* the directories whose summary.json was cut short
    pc,         \* the collator: "idle", "scanning" or "writing"
    dir,        \* the directory it collates
    rows,       \* the runs it read there
    listed,     \* the siblings it found
    todo,       \* those it has not looked at
    best,       \* the closest comparable one so far, or NoDir
    comparison, \* {} or the one comparison it made
    settled,    \* history: the directories whose last collation came to its end
    collations  \* history: how often it was started

dirVars == <<meta, raw>>
fileVars == <<files, torn, settled>>
scanVars == <<dir, rows, listed, todo, best, comparison>>
vars == <<dirVars, fileVars, scanVars, pc, collations>>

Present == DOMAIN meta

NoRuns == [s \in Services |-> <<>>]

TypeOK ==
    /\ Present \subseteq Dirs /\ meta \in [Present -> Metas]
    /\ raw \in [Dirs -> [Services -> Seq(Measurements)]]
    /\ \A d \in Dirs \ Present : raw[d] = NoRuns
    /\ DOMAIN files = Dirs
    /\ torn \subseteq Present /\ settled \subseteq Present
    /\ pc \in {"idle", "scanning", "writing"}
    /\ dir \in Present \union {NoDir} /\ (pc # "idle" => dir # NoDir)
    /\ rows \in [Services -> Seq(Measurements)]
    /\ todo \subseteq listed /\ listed \subseteq Present \ {dir}
    /\ best \in listed \union {NoDir}
    /\ collations \in 0..MaxCollations

Init ==
    /\ meta = [d \in {} |-> {}]
    /\ raw = [d \in Dirs |-> NoRuns]
    /\ files = [d \in Dirs |-> [name \in ToSet(Artifacts) |-> {}]]
    /\ torn = {} /\ settled = {}
    /\ pc = "idle" /\ dir = NoDir /\ rows = NoRuns
    /\ listed = {} /\ todo = {} /\ best = NoDir /\ comparison = {}
    /\ collations = 0

(* The collator's process is gone, and its memory with it. *)
Exit ==
    /\ pc' = "idle" /\ dir' = NoDir /\ rows' = NoRuns
    /\ listed' = {} /\ todo' = {} /\ best' = NoDir /\ comparison' = {}

-----------------------------------------------------------------------------
(* The matrix runner: a directory begins with its run-meta.txt ... *)
StartRun(d) ==
    /\ d \notin Present
    /\ \E m \in Recorded[d] : meta' = [e \in Present \union {d} |-> IF e = d THEN m ELSE meta[e]]
    /\ UNCHANGED <<raw, fileVars, scanVars, pc, collations>>

(* ... and gets the files of its services one after the other, until the   *)
(* run is aborted or complete.                                             *)
Measure(d) ==
    /\ d \in Present
    /\ \E i \in DOMAIN meta[d].setup.services :
           LET Service(j) == meta[d].setup.services[j]
           IN  /\ Len(raw[d][Service(i)]) < Repeats
               /\ \A j \in 1..(i - 1) : Len(raw[d][Service(j)]) = Repeats
               /\ \E m \in Outcomes[meta[d].mode, Service(i)] :
                      raw' = [raw EXCEPT ![d][Service(i)] = Append(@, m)]
    /\ UNCHANGED <<meta, fileVars, scanVars, pc, collations>>

-----------------------------------------------------------------------------
NotComparable == 2

(* mode_priority: http-only is best compared with confirm; a run with      *)
(* Kafka only with http-only.                                              *)
ModePriority(current, candidate) ==
    IF current = candidate THEN NotComparable
    ELSE IF current = "http-only" THEN IF candidate = "confirm" THEN 0 ELSE 1
    ELSE IF candidate = "http-only" THEN 0 ELSE NotComparable

(* Mutant: the preset and what it fixes are not compared. *)
MetaMatchesAcrossPresets(m, n) ==
    m.dirty = "false" /\ n.dirty = "false" /\ m.setup.checkout = n.setup.checkout

(* meta_matches_for_mode_comparison, which cannot tell a key that is not   *)
(* there from an empty value.                                              *)
MetaMatches(m, n) == m.dirty = "false" /\ n.dirty = "false" /\ m.setup = n.setup

Comparable(d, c) ==
    /\ ModePriority(meta[d].mode, meta[c].mode) # NotComparable
    /\ MetaMatches(meta[d], meta[c])

(* The time between two runs; a run without a time is infinitely far.      *)
Undated(d, c) == IF Missing \in {StampOf[d], StampOf[c]} THEN 1 ELSE 0
TimestampDelta(d, c) ==
    IF Undated(d, c) = 1 THEN 0
    ELSE IF StampOf[d] > StampOf[c] THEN StampOf[d] - StampOf[c] ELSE StampOf[c] - StampOf[d]

(* Python subtracts no time without an offset from one that has an offset. *)
Clash(d, c) == Undated(d, c) = 0 /\ meta[d].zoned # meta[c].zoned

(* candidate_key: priority, distance in time, name. *)
CandidateKey(d, c) ==
    <<ModePriority(meta[d].mode, meta[c].mode), Undated(d, c), TimestampDelta(d, c), c>>

(* The order of tuples. *)
Before(k, l) == \E i \in 1..4 : k[i] < l[i] /\ \A j \in 1..4 : j < i => k[j] = l[j]

(* Mutant: the later of two candidates in the listing wins. *)
CloserLast(d, c, e) == TRUE

Closer(d, c, e) == Before(CandidateKey(d, c), CandidateKey(d, e))

-----------------------------------------------------------------------------
(* Mutant: the directory is among its own candidates. *)
BeginListingItself(d) ==
    /\ pc = "idle" /\ collations < MaxCollations
    /\ d \in Present
    /\ collations' = collations + 1
    /\ dir' = d /\ rows' = raw[d] /\ best' = NoDir /\ comparison' = {}
    /\ settled' = settled \ {d}
    /\ pc' = "scanning" /\ listed' = Present /\ todo' = Present
    /\ UNCHANGED <<dirVars, files, torn>>

(* main: metadata and rows are read, and the siblings listed.  A run that  *)
(* is not known to be clean is compared with none.                         *)
Begin(d) ==
    /\ pc = "idle" /\ collations < MaxCollations
    /\ d \in Present
    /\ collations' = collations + 1
    /\ dir' = d /\ rows' = raw[d] /\ best' = NoDir /\ comparison' = {}
    /\ settled' = settled \ {d}
    /\ IF meta[d].dirty = "false"
       THEN pc' = "scanning" /\ listed' = Present \ {d} /\ todo' = Present \ {d}
       ELSE pc' = "writing" /\ listed' = {} /\ todo' = {}
    /\ UNCHANGED <<dirVars, files, torn>>

(* The next directory of the listing. *)
Look(c) ==
    /\ pc = "scanning" /\ c \in todo
    /\ Comparable(dir, c) => ~Clash(dir, c)
    /\ todo' = todo \ {c}
    /\ best' = IF Comparable(dir, c) /\ (best = NoDir \/ Closer(dir, c, best)) THEN c ELSE best
    /\ UNCHANGED <<dirVars, fileVars, dir, rows, listed, comparison, pc, collations>>

(* Its time cannot be compared: the script dies. *)
FailToLook(c) ==
    /\ pc = "scanning" /\ c \in todo
    /\ Comparable(dir, c) /\ Clash(dir, c)
    /\ Exit
    /\ UNCHANGED <<dirVars, fileVars, collations>>

(* load_summary_rows: what was collated before, or else the raw files. *)
SummaryOf(d) ==
    IF files[d]["summary.json"] # {}
    THEN (CHOOSE j \in files[d]["summary.json"] : TRUE).summary
    ELSE AggregateRows(raw[d], Limit)

(* One row of the comparison. *)
ComparisonRow(http, kafka, s) ==
    [http_only_rank |-> Rank(http, NameOrder, s), kafka_mode_rank |-> Rank(kafka, NameOrder, s),
     http_only_req_s |-> OrZero(http[s].rate), kafka_req_s |-> OrZero(kafka[s].rate),
     added_latency |-> OrZero(kafka[s].latency) - OrZero(http[s].latency),
     retained |-> SafeRatio(100 * OrZero(kafka[s].rate), OrZero(http[s].rate))]

(* Mutant: runs that do not have the same services are not compared. *)
CompareWholeRunsOnly(d, e, current) ==
    LET httpFirst == meta[d].mode = "http-only"
        http == IF httpFirst THEN current ELSE SummaryOf(e)
        kafka == IF httpFirst THEN SummaryOf(e) ELSE current
    IN  IF DOMAIN http = {} \/ DOMAIN http # DOMAIN kafka THEN {}
        ELSE {[http_only |-> IF httpFirst THEN d ELSE e, kafka |-> IF httpFirst THEN e ELSE d,
               rows |-> [s \in DOMAIN http |-> ComparisonRow(http, kafka, s)]]}

(* The comparison of d with e, over the services measured in both. *)
Compare(d, e, current) ==
    LET shared == DOMAIN current \intersect DOMAIN SummaryOf(e)
        httpFirst == meta[d].mode = "http-only"
        http == IF httpFirst THEN current ELSE SummaryOf(e)
        kafka == IF httpFirst THEN SummaryOf(e) ELSE current
    IN  IF shared = {} THEN {}
        ELSE {[http_only |-> IF httpFirst THEN d ELSE e, kafka |-> IF httpFirst THEN e ELSE d,
               rows |-> [s \in shared |-> ComparisonRow(http, kafka, s)]]}

(* The listing is at its end: compare with the closest, if there is one. *)
EndScan ==
    /\ pc = "scanning" /\ todo = {} /\ best \notin torn
    /\ comparison' = IF best = NoDir THEN {}
                     ELSE Compare(dir, best, AggregateRows(rows, Limit))
    /\ pc' = "writing"
    /\ UNCHANGED <<dirVars, fileVars, dir, rows, listed, todo, best, collations>>

(* A summary.json that is cut short does not decode: the script dies. *)
FailToLoad ==
    /\ pc = "scanning" /\ todo = {} /\ best \in torn
    /\ Exit
    /\ UNCHANGED <<dirVars, fileVars, collations>>

-----------------------------------------------------------------------------
(* Without rows both leave the file as it is. *)
WriteCsv(content, old) == IF rows = NoRuns THEN old ELSE {content}
WriteSummaryMarkdown(summary, old) == IF rows = NoRuns THEN old ELSE {<<summary, comparison>>}

(* Mutant: without a comparison the file of an earlier one is left. *)
ContentKeepingComparison(name, summary, old) ==
    CASE name = "runs.csv"            -> WriteCsv(rows, old)
      [] name = "summary.csv"         -> WriteCsv(summary, old)
      [] name = "mode-comparison.csv" -> IF comparison = {} THEN old ELSE comparison
      [] name = "summary.md"          -> WriteSummaryMarkdown(summary, old)
      [] name = "summary.json"        -> {[meta |-> meta[dir], runs |-> rows, summary |-> summary,
                                           comparison |-> comparison]}

(* What the file has after it was written, without a comparison: none.     *)
Content(name, summary, old) ==
    CASE name = "runs.csv"            -> WriteCsv(rows, old)
      [] name = "summary.csv"         -> WriteCsv(summary, old)
      [] name = "mode-comparison.csv" -> comparison
      [] name = "summary.md"          -> WriteSummaryMarkdown(summary, old)
      [] name = "summary.json"        -> {[meta |-> meta[dir], runs |-> rows, summary |-> summary,
                                           comparison |-> comparison]}

(* The first n artifacts are written. *)
Written(n) ==
    [name \in ToSet(Artifacts) |->
        IF \E i \in 1..n : Artifacts[i] = name
        THEN Content(name, AggregateRows(rows, Limit), files[dir][name])
        ELSE files[dir][name]]

(* All five; no other program reads them before the collator has ended. *)
Write ==
    /\ pc = "writing"
    /\ files' = [files EXCEPT ![dir] = Written(Len(Artifacts))]
    /\ settled' = settled \union {dir} /\ torn' = torn \ {dir}
    /\ Exit
    /\ UNCHANGED <<dirVars, collations>>

(* The collator is killed: before it writes, ... *)
Die ==
    /\ pc # "idle"
    /\ Exit
    /\ UNCHANGED <<dirVars, fileVars, collations>>

(* ... or while it does, cutting the file it is at short. *)
DieWriting ==
    /\ pc = "writing"
    /\ \E i \in DOMAIN Artifacts :
           /\ files' = [files EXCEPT ![dir] = [Written(i - 1) EXCEPT ![Artifacts[i]] = {}]]
           /\ torn' = IF Artifacts[i] = "summary.json" THEN torn \union {dir} ELSE torn
    /\ Exit
    /\ UNCHANGED <<dirVars, settled, collations>>

Next ==
    \/ \E d \in Dirs : StartRun(d) \/ Measure(d) \/ Begin(d) \/ Look(d) \/ FailToLook(d)
    \/ EndScan \/ FailToLoad \/ Write \/ Die \/ DieWriting

Spec == Init /\ [][Next]_vars

-----------------------------------------------------------------------------
(* build_mode_comparison's key is a total order, so the run a summary is   *)
(* compared with does not depend on how the file system lists the others:  *)
(* of the siblings looked at so far, best is comparable, none of the       *)
(* comparable ones comes before it, and without a best there is none.      *)
NearestWins ==
    pc # "idle" =>
        /\ best # NoDir => Comparable(dir, best)
        /\ \A c \in listed \ todo :
               Comparable(dir, c) =>
                   best # NoDir /\ ~Before(CandidateKey(dir, c), CandidateKey(dir, best))

Summaries(d) == files[d]["summary.json"]

(* A comparison of run d: http-only on the one side and Kafka on the       *)
(* other, both from clean worktrees and of the same setup.                 *)
Alike(d, c) ==
    /\ {c.http_only, c.kafka} \subseteq Present /\ d \in {c.http_only, c.kafka}
    /\ meta[c.http_only].mode = "http-only" /\ meta[c.kafka].mode # "http-only"
    /\ meta[c.http_only].dirty = "false" /\ meta[c.kafka].dirty = "false"
    /\ meta[c.http_only].setup = meta[c.kafka].setup

(* A published delta is a delta between like and like, and has rows only   *)
(* for services of the summary it is published with.                       *)
LikeWithLike ==
    \A d \in Dirs : \A j \in Summaries(d) : \A c \in j.comparison :
        Alike(d, c) /\ DOMAIN c.rows # {} /\ DOMAIN c.rows \subseteq DOMAIN j.summary

(* Whatever earlier collations left, or cut short, in a directory: after   *)
(* one has come to its end the five files tell the same story, and         *)
(* mode-comparison.csv is there exactly if the summary has a comparison.   *)
FilesAgree ==
    \A d \in settled :
        /\ d \notin torn
        /\ \E j \in Summaries(d) :
               /\ Summaries(d) = {j}
               /\ files[d]["mode-comparison.csv"] = j.comparison
               /\ j.runs # NoRuns =>
                      /\ files[d]["runs.csv"] = {j.runs}
                      /\ files[d]["summary.csv"] = {j.summary}
                      /\ files[d]["summary.md"] = {<<j.summary, j.comparison>>}

(* What a run used of a container, and of the stack, in percent of a core, *)
(* as far as the stats that are left tell.                                 *)
Load(lines) ==
    LET whole == {i \in DOMAIN lines : lines[i].whole}
    IN  IF whole = {} THEN 0
        ELSE SumFunctionOnSet([i \in DOMAIN lines |-> lines[i].cpu], whole) \div Cardinality(whole)
Used(m) == Load(m.receiver) + Load(m.kafka)

(* The units of the instance are small enough for m's efficiency. *)
ComesOutEven(m) == Used(m) > 0 /\ (100 * m.rate) % Used(m) = 0

(* "req/s / measured stack avg core ranks cost-efficient capacity by       *)
(* observed CPU use": of two services with a measured run each, the one    *)
(* that answered more for what receiver and broker used together is ranked *)
(* first.                                                                  *)
RankingIsEarned ==
    \A d \in Dirs : \A j \in Summaries(d) : \A s, t \in DOMAIN j.summary :
        LET m == j.runs[s][1]
            n == j.runs[t][1]
        IN  (/\ Len(j.runs[s]) = 1 /\ Len(j.runs[t]) = 1
             /\ ComesOutEven(m) /\ ComesOutEven(n)
             /\ m.rate * Used(n) > n.rate * Used(m))
            => Rank(j.summary, NameOrder, s) < Rank(j.summary, NameOrder, t)

(* The run has results of a service that c has results of, too. *)
Shares(c) == DOMAIN AggregateRows(rows, Limit) \intersect DOMAIN SummaryOf(c) # {}

(* A step that gives up the comparison for a sibling without results. *)
GivesUpBehindAborted ==
    (pc = "scanning" /\ pc' = "writing" /\ comparison' = {}) =>
        \A c \in listed :
            (Comparable(dir, c) /\ Shares(c)) =>
                ~Shares(best) /\ Before(CandidateKey(dir, best), CandidateKey(dir, c))

(* README: mode-comparison.csv is written "when a compatible opposite-mode *)
(* run is available".  A collation gives up the comparison although a      *)
(* comparable sibling has results of the same services only if a closer    *)
(* one, say of an aborted run, has none: the choice falls before the rows  *)
(* are read.                                                               *)
MissedOnlyBehindAborted == [][GivesUpBehindAborted]_vars
=============================================================================
