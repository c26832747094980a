--------------------------- MODULE CollatorProofs ---------------------------
(***************************************************************************)
(* Proofs about Collator, for every set of directories, times, metadata    *)
(* and measurements.                                                       *)
(***************************************************************************)
EXTENDS Collator, RunMetricsProofs

(***************************************************************************)
(* The order of the candidates.                                            *)
(***************************************************************************)
Keys == Int \X Int \X Int \X Int

(* Keys are compared as Python compares tuples. *)
LEMMA BeforeIsLexicographic ==
    ASSUME NEW k \in Keys, NEW l \in Keys
    PROVE  Before(k, l) <=>
               \/ k[1] < l[1]
               \/ k[1] = l[1] /\ k[2] < l[2]
               \/ k[1] = l[1] /\ k[2] = l[2] /\ k[3] < l[3]
               \/ k[1] = l[1] /\ k[2] = l[2] /\ k[3] = l[3] /\ k[4] < l[4]
<1>1. 1..4 = {1, 2, 3, 4}
  OBVIOUS
<1> QED
  BY <1>1 DEF Before, Keys

(* No key comes before itself. *)
LEMMA BeforeIsIrreflexive == ASSUME NEW k \in Keys PROVE ~Before(k, k)
BY BeforeIsLexicographic DEF Keys

(* The order of the keys is transitive, *)
LEMMA BeforeIsTransitive ==
    ASSUME NEW k \in Keys, NEW l \in Keys, NEW m \in Keys, Before(k, l), Before(l, m)
    PROVE  Before(k, m)
<1>1. \A n \in {k, l, m} : n[1] \in Int /\ n[2] \in Int /\ n[3] \in Int /\ n[4] \in Int
  BY DEF Keys
<1> QED
  BY <1>1, BeforeIsLexicographic

(* and total on keys that differ in the directory's name. *)
LEMMA BeforeIsTotal ==
    ASSUME NEW k \in Keys, NEW l \in Keys, k[4] # l[4]
    PROVE  Before(k, l) \/ Before(l, k)
<1>1. \A n \in {k, l} : n[1] \in Int /\ n[2] \in Int /\ n[3] \in Int /\ n[4] \in Int
  BY DEF Keys
<1> QED
  BY <1>1, BeforeIsLexicographic

(* candidate_key ends with the name. *)
LEMMA CandidateKeysAreKeys ==
    ASSUME NEW d \in Dirs, NEW c \in Dirs
    PROVE  CandidateKey(d, c) \in Keys /\ CandidateKey(d, c)[4] = c
<1>1. d \in Nat /\ c \in Nat /\ StampOf[d] \in Int /\ StampOf[c] \in Int
  BY CollatorAssumption DEF CollatorAssumption, Missing
<1>2. TimestampDelta(d, c) \in Int /\ Undated(d, c) \in Int
  BY <1>1 DEF TimestampDelta, Undated
<1>3. ModePriority(meta[d].mode, meta[c].mode) \in Int
  BY DEF ModePriority, NotComparable
<1> QED
  BY <1>1, <1>2, <1>3 DEF CandidateKey, Keys

-----------------------------------------------------------------------------
(* What the collator has found so far bears comparison: it works on a      *)
(* directory that is there and not settled, and a comparison it has made   *)
(* is one of that directory, over services it has measured.                *)
WorkInv ==
    /\ pc # "idle" => dir \in Present /\ dir \notin settled
    /\ pc = "writing" =>
           \A c \in comparison :
               /\ Alike(dir, c) /\ DOMAIN c.rows # {}
               /\ DOMAIN c.rows \subseteq DOMAIN AggregateRows(rows, Limit)

(* The inductive invariant. *)
CollatorInv == TypeOK /\ NearestWins /\ WorkInv /\ LikeWithLike /\ FilesAgree

-----------------------------------------------------------------------------
(* Before the first collation there is nothing to look at. *)
LEMMA InitHolds == ASSUME Init PROVE CollatorInv
<1>1. NoRuns \in [Services -> Seq(Measurements)]
  BY DEF NoRuns
<1>2. Present = {} /\ MaxCollations \in Nat
  BY CollatorAssumption DEF CollatorAssumption, Init, Present
<1>3. TypeOK
  BY <1>1, <1>2 DEF Init, TypeOK
<1>4. LikeWithLike
  <2>1. "summary.json" \in ToSet(Artifacts)
    BY DEF Artifacts, ToSet
  <2> QED
    BY <2>1 DEF Init, LikeWithLike, Summaries
<1> QED
  BY <1>3, <1>4 DEF Init, CollatorInv, NearestWins, WorkInv, FilesAgree

(* A directory more changes nothing about the others. *)
LEMMA StartRunKeeps ==
    ASSUME CollatorInv, NEW d \in Dirs, StartRun(d)
    PROVE  CollatorInv'
<1> USE DEF CollatorInv
<1>1. PICK m \in Recorded[d] :
          meta' = [e \in Present \union {d} |-> IF e = d THEN m ELSE meta[e]]
  BY DEF StartRun
<1>2. d \notin Present /\ UNCHANGED <<raw, fileVars, scanVars, pc, collations>>
  BY DEF StartRun
<1>3. m \in Metas
  BY <1>1, RecordedAssumption DEF RecordedAssumption
<1>4. Present' = Present \union {d} /\ \A e \in Present : meta'[e] = meta[e]
  BY <1>1, <1>2 DEF Present
<1>5. TypeOK'
  <2>1. meta' \in [Present' -> Metas]
    BY <1>1, <1>3, <1>4 DEF TypeOK
  <2> QED
    BY <1>2, <1>4, <2>1 DEF TypeOK, fileVars, scanVars
<1>6. \A c \in Present : dir \in Present =>
          /\ Comparable(dir, c)' = Comparable(dir, c)
          /\ CandidateKey(dir, c)' = CandidateKey(dir, c)
  BY <1>2, <1>4 DEF Comparable, MetaMatches, CandidateKey, Undated, TimestampDelta, scanVars
<1>7. \A e, c : Alike(e, c) => Alike(e, c)'
  BY <1>4 DEF Alike
<1>8. NearestWins'
  <2>1. pc # "idle" => dir \in Present /\ listed \subseteq Present
    BY DEF TypeOK, WorkInv
  <2>2. best # NoDir => best \in listed
    BY DEF TypeOK
  <2> QED
    BY <1>2, <1>6, <2>1, <2>2 DEF NearestWins, scanVars
<1>9. WorkInv' /\ LikeWithLike' /\ FilesAgree'
  BY <1>2, <1>4, <1>7 DEF WorkInv, LikeWithLike, FilesAgree, Summaries, fileVars, scanVars
<1> QED
  BY <1>5, <1>8, <1>9

(* The runs have modes, and measure services there are. *)
LEMMA MetasAreOfRuns ==
    ASSUME NEW m \in Metas
    PROVE  m.mode \in DeliveryModes /\ m.setup.services \in Seq(Services)
<1>1. PICK env \in Callers, dirty \in {"true", "false", "absent"}, zoned \in BOOLEAN,
           checkout \in Checkouts : m = MetaOf(Effective(env), dirty, zoned, checkout)
  BY DEF Metas
<1>2. env \in Environments
  BY CollatorAssumption DEF CollatorAssumption
<1>3. Effective(env).mode \in DeliveryModes
  BY <1>2 DEF Effective, Environments, OrElse, Unset, DeliveryModes
<1>4. Effective(env).services \in Seq(Services)
  <2>1. DefaultServices(DerivedPreset(env)) \in Seq(Services)
    BY MatrixConfigAssumption DEF MatrixConfigAssumption, DefaultServices
  <2>2. env.services # <<>> => env.services \in Seq(Services)
    BY <1>2, MatrixConfigAssumption DEF MatrixConfigAssumption, Environments
  <2> QED
    BY <2>1, <2>2 DEF Effective
<1> QED
  BY <1>1, <1>3, <1>4 DEF MetaOf

(* The elements of a sequence over S are in S. *)
LEMMA ElementOfSequence ==
    ASSUME NEW S, NEW q \in Seq(S), NEW i \in DOMAIN q
    PROVE  q[i] \in S
OBVIOUS

(* One more measured run leaves a sequence of measurements. *)
LEMMA AppendIsSequence ==
    ASSUME NEW S, NEW q \in Seq(S), NEW e \in S
    PROVE  Append(q, e) \in Seq(S)
OBVIOUS

(* Where metadata, files and the scan stay as they are, the invariant is   *)
(* a matter of types.                                                      *)
LEMMA OnlyRunsChange ==
    ASSUME NearestWins, WorkInv, LikeWithLike, FilesAgree,
           UNCHANGED <<meta, fileVars, scanVars, pc>>
    PROVE  NearestWins' /\ WorkInv' /\ LikeWithLike' /\ FilesAgree'
<1> USE DEF fileVars, scanVars
<1>1. NearestWins'
  BY DEF NearestWins, Comparable, CandidateKey, Undated, TimestampDelta
<1>2. WorkInv' /\ LikeWithLike'
  BY DEF WorkInv, LikeWithLike, Summaries, Alike, Present
<1>3. FilesAgree'
  BY DEF FilesAgree, Summaries
<1> QED
  BY <1>1, <1>2, <1>3

(* The files of a run are no concern of a collation that has read its own. *)
LEMMA MeasureKeeps ==
    ASSUME CollatorInv, NEW d \in Dirs, Measure(d)
    PROVE  CollatorInv'
<1> USE DEF CollatorInv
<1>1. d \in Present /\ UNCHANGED <<meta, fileVars, scanVars, pc, collations>>
  BY DEF Measure
<1>2. PICK i \in DOMAIN meta[d].setup.services :
          \E m \in Outcomes[meta[d].mode, meta[d].setup.services[i]] :
              raw' = [raw EXCEPT ![d][meta[d].setup.services[i]] = Append(@, m)]
  BY DEF Measure
<1> DEFINE s == meta[d].setup.services[i]
<1>3. PICK m \in Outcomes[meta[d].mode, s] : raw' = [raw EXCEPT ![d][s] = Append(@, m)]
  BY <1>2
<1>4. TypeOK'
  <2>1. raw' \in [Dirs -> [Services -> Seq(Measurements)]]
    <3>1. meta[d].mode \in DeliveryModes /\ s \in Services
      <4>1. meta[d] \in Metas
        BY <1>1 DEF TypeOK
      <4>2. meta[d].mode \in DeliveryModes /\ meta[d].setup.services \in Seq(Services)
        BY <4>1, MetasAreOfRuns
      <4> DEFINE list == meta[d].setup.services
      <4>3. i \in DOMAIN list
        BY <1>2
      <4> HIDE DEF list
      <4>4. list \in Seq(Services)
        BY <4>2 DEF list
      <4>5. list[i] \in Services
        BY <4>3, <4>4, ElementOfSequence
      <4> QED
        BY <4>2, <4>5 DEF list
    <3>2. m \in Measurements
      BY <1>3, <3>1, CollatorAssumption DEF CollatorAssumption
    <3>3. raw \in [Dirs -> [Services -> Seq(Measurements)]]
      BY DEF TypeOK
    <3> HIDE DEF s
    <3>4. raw[d][s] \in Seq(Measurements)
      BY <3>1, <3>3
    <3>5. Append(raw[d][s], m) \in Seq(Measurements)
      BY ONLY <3>2, <3>4, AppendIsSequence
    <3> QED
      BY <1>3, <3>1, <3>3, <3>5
  <2>2. \A e \in Dirs \ Present : raw'[e] = NoRuns
    BY <1>1, <1>3 DEF TypeOK
  <2> QED
    BY <1>1, <2>1, <2>2 DEF TypeOK, fileVars, scanVars, Present
<1> QED
  BY <1>1, <1>4, OnlyRunsChange

-----------------------------------------------------------------------------
(* A collation begins with nothing found. *)
LEMMA BeginKeeps ==
    ASSUME CollatorInv, NEW d \in Dirs, Begin(d)
    PROVE  CollatorInv'
<1> USE DEF CollatorInv
<1>1. /\ pc = "idle" /\ collations < MaxCollations /\ d \in Present
      /\ collations' = collations + 1 /\ dir' = d /\ rows' = raw[d]
      /\ best' = NoDir /\ comparison' = {} /\ settled' = settled \ {d}
      /\ pc' \in {"scanning", "writing"}
      /\ listed' \in {{}, Present \ {d}} /\ todo' = listed'
      /\ UNCHANGED <<meta, raw, files, torn>>
  BY DEF Begin, dirVars
<1>2. TypeOK'
  <2>1. collations' \in 0..MaxCollations
    <3>1. collations \in 0..MaxCollations /\ MaxCollations \in Nat
      BY CollatorAssumption DEF CollatorAssumption, TypeOK
    <3> QED
      BY ONLY <1>1, <3>1
  <2>2. rows' \in [Services -> Seq(Measurements)]
    BY <1>1 DEF TypeOK
  <2>3. dir' \in Dirs /\ dir' # NoDir
    BY <1>1, CollatorAssumption DEF CollatorAssumption, NoDir
  <2>4. Present' = Present
    BY <1>1 DEF Present
  <2> QED
    BY <1>1, <2>1, <2>2, <2>3, <2>4 DEF TypeOK
<1>3. NearestWins' /\ WorkInv'
  BY <1>1 DEF NearestWins, WorkInv, Present
<1>4. LikeWithLike' /\ FilesAgree'
  BY <1>1 DEF LikeWithLike, FilesAgree, Summaries, Alike, Present
<1> QED
  BY <1>2, <1>3, <1>4

(* The best of those looked at stays the best when one more is. *)
LEMMA LookKeeps ==
    ASSUME CollatorInv, NEW c \in Dirs, Look(c)
    PROVE  CollatorInv'
<1> USE DEF CollatorInv
<1>1. /\ pc = "scanning" /\ c \in todo /\ todo' = todo \ {c}
      /\ best' = IF Comparable(dir, c) /\ (best = NoDir \/ Closer(dir, c, best))
                 THEN c ELSE best
      /\ UNCHANGED <<meta, raw, files, torn, settled, dir, rows, listed, comparison, pc,
                     collations>>
  BY DEF Look, dirVars, fileVars
<1>2. TypeOK'
  BY <1>1 DEF TypeOK, Present
<1>3. NearestWins'
  <2> DEFINE Key(e) == CandidateKey(dir, e)
  <2>1. dir \in Dirs /\ listed \subseteq Dirs /\ (best # NoDir => best \in listed) /\ c # NoDir
    BY <1>1, CollatorAssumption DEF CollatorAssumption, TypeOK, NoDir
  <2>2. \A e \in listed : Key(e) \in Keys
    BY <2>1, CandidateKeysAreKeys
  <2>3. \A e \in Dirs : Comparable(dir, e)' = Comparable(dir, e)
    BY <1>1 DEF Comparable
  <2>4. \A e \in Dirs : CandidateKey(dir, e)' = Key(e)
    BY <1>1 DEF CandidateKey, Undated, TimestampDelta
  <2>5. best' # NoDir => Comparable(dir, best')
    BY <1>1 DEF NearestWins
  <2>6. ASSUME NEW e \in listed \ todo', Comparable(dir, e)
        PROVE  best' # NoDir /\ ~Before(Key(e), Key(best'))
    <3> HIDE DEF Key
    <3>1. e # c => best # NoDir /\ ~Before(Key(e), Key(best))
      BY <1>1, <2>6 DEF NearestWins, Key
    <3>2. CASE Comparable(dir, c) /\ (best = NoDir \/ Closer(dir, c, best))
      <4>1. best' = c
        BY <1>1, <3>2
      <4>2. ~Before(Key(c), Key(c))
        BY <1>1, <2>2, BeforeIsIrreflexive DEF TypeOK
      <4>3. e # c => ~Before(Key(e), Key(c))
        <5>1. e # c => Before(Key(c), Key(best))
          BY <3>1, <3>2 DEF Closer, Key
        <5>2. e \in listed /\ c \in listed
          BY <1>1, <2>6 DEF TypeOK
        <5> QED
          BY <2>1, <2>2, <3>1, <5>1, <5>2, BeforeIsTransitive
      <4> QED
        BY <2>1, <4>1, <4>2, <4>3
    <3>3. CASE ~(Comparable(dir, c) /\ (best = NoDir \/ Closer(dir, c, best)))
      BY <1>1, <2>6, <3>1, <3>3 DEF Closer, Key
    <3> QED
      BY <3>2, <3>3
  <2>7. best' # NoDir => best' \in Dirs
    BY <1>1, <2>1
  <2> HIDE DEF Key
  <2> QED
    BY <1>1, <2>1, <2>3, <2>4, <2>5, <2>6, <2>7 DEF NearestWins
<1>4. WorkInv' /\ LikeWithLike' /\ FilesAgree'
  BY <1>1 DEF WorkInv, LikeWithLike, FilesAgree, Summaries, Alike, Present
<1> QED
  BY <1>2, <1>3, <1>4

(* The end of the scan: the two sides of a comparison are alike, for one   *)
(* was comparable with the other.                                          *)
LEMMA EndScanKeeps ==
    ASSUME CollatorInv, EndScan
    PROVE  CollatorInv'
<1> USE DEF CollatorInv
<1>1. /\ pc = "scanning" /\ pc' = "writing" /\ todo = {}
      /\ comparison' = IF best = NoDir THEN {}
                       ELSE Compare(dir, best, AggregateRows(rows, Limit))
      /\ UNCHANGED <<meta, raw, files, torn, settled, dir, rows, listed, todo, best, collations>>
  BY DEF EndScan, dirVars, fileVars
<1>2. TypeOK'
  BY <1>1 DEF TypeOK, Present
<1>3. NearestWins'
  BY <1>1 DEF NearestWins, Comparable, CandidateKey, Undated, TimestampDelta
<1>4. dir \in Present /\ dir \notin settled
  BY <1>1 DEF WorkInv
<1>5. ASSUME NEW c \in comparison'
      PROVE  /\ Alike(dir, c) /\ DOMAIN c.rows # {}
             /\ DOMAIN c.rows \subseteq DOMAIN AggregateRows(rows, Limit)
  <2> DEFINE current == AggregateRows(rows, Limit)
             shared == DOMAIN current \intersect DOMAIN SummaryOf(best)
             httpFirst == meta[dir].mode = "http-only"
  <2>1. best # NoDir /\ c \in Compare(dir, best, current)
    BY <1>1, <1>5
  <2>2. /\ shared # {} /\ DOMAIN c.rows = shared
        /\ c.http_only = IF httpFirst THEN dir ELSE best
        /\ c.kafka = IF httpFirst THEN best ELSE dir
    BY <2>1 DEF Compare
  <2>3. best \in Present /\ Comparable(dir, best)
    BY <1>1, <2>1 DEF TypeOK, NearestWins
  <2>4. /\ meta[dir].mode = "http-only" <=> meta[best].mode # "http-only"
        /\ meta[dir].dirty = "false" /\ meta[best].dirty = "false"
        /\ meta[dir].setup = meta[best].setup
    BY <2>3 DEF Comparable, ModePriority, NotComparable, MetaMatches
  <2>5. Alike(dir, c)
    BY <1>4, <2>2, <2>3, <2>4 DEF Alike
  <2> QED
    BY <2>2, <2>5
<1>6. WorkInv'
  BY <1>1, <1>4, <1>5 DEF WorkInv, Alike, Present
<1>7. LikeWithLike' /\ FilesAgree'
  BY <1>1 DEF LikeWithLike, FilesAgree, Summaries, Alike, Present
<1> QED
  BY <1>2, <1>3, <1>6, <1>7

-----------------------------------------------------------------------------
(* A collator that has ended has nothing to account for. *)
LEMMA ExitKeeps ==
    ASSUME TypeOK, Exit, UNCHANGED <<meta, raw, collations>>,
           DOMAIN files' = DOMAIN files, torn' \subseteq Present, settled' \subseteq Present
    PROVE  TypeOK' /\ NearestWins' /\ WorkInv'
<1>1. NoRuns \in [Services -> Seq(Measurements)]
  BY DEF NoRuns
<1>2. Present' = Present
  BY DEF Present
<1>3. TypeOK'
  BY <1>1, <1>2 DEF TypeOK, Exit
<1> QED
  BY <1>3 DEF Exit, NearestWins, WorkInv

(* The scan fails, or the collator dies before it writes. *)
LEMMA GivingUpKeeps ==
    ASSUME CollatorInv, FailToLoad \/ Die \/ (\E c \in Dirs : FailToLook(c))
    PROVE  CollatorInv'
<1> USE DEF CollatorInv
<1>1. Exit /\ UNCHANGED <<meta, raw, files, torn, settled, collations>>
  BY DEF FailToLook, FailToLoad, Die, dirVars, fileVars
<1>2. torn \subseteq Present /\ settled \subseteq Present
  BY DEF TypeOK
<1>3. TypeOK' /\ NearestWins' /\ WorkInv'
  BY <1>1, <1>2, ExitKeeps
<1>4. LikeWithLike' /\ FilesAgree'
  BY <1>1 DEF LikeWithLike, FilesAgree, Summaries, Alike, Present
<1> QED
  BY <1>3, <1>4

(* What the first n of the five files hold. *)
LEMMA WhatIsWritten ==
    ASSUME NEW n \in 0..5, NEW k \in 1..5
    PROVE  Written(n)[Artifacts[k]] =
               IF k <= n THEN Content(Artifacts[k], AggregateRows(rows, Limit),
                                      files[dir][Artifacts[k]])
               ELSE files[dir][Artifacts[k]]
<1>1. DOMAIN Artifacts = 1..5 /\ 1..5 = {1, 2, 3, 4, 5}
  BY DEF Artifacts
<1>2. Artifacts[k] \in ToSet(Artifacts)
  BY <1>1 DEF ToSet
<1>3. \A i \in 1..5 : Artifacts[i] = Artifacts[k] => i = k
  BY <1>1 DEF Artifacts
<1>4. (\E i \in 1..n : Artifacts[i] = Artifacts[k]) <=> k <= n
  <2>1. \A i \in 1..n : i \in 1..5
    OBVIOUS
  <2>2. k <= n => k \in 1..n
    OBVIOUS
  <2> QED
    BY <1>3, <2>1, <2>2
<1> QED
  BY <1>2, <1>4 DEF Written

(* What summary.json has of the collation that wrote it. *)
Own == [meta |-> meta[dir], runs |-> rows, summary |-> AggregateRows(rows, Limit),
        comparison |-> comparison]

(* The five files of a collation that came to its end. *)
LEMMA WriteLeaves ==
    ASSUME TypeOK, WorkInv, Write
    PROVE  /\ \A d \in Dirs : d # dir => files'[d] = files[d]
           /\ files'[dir]["summary.json"] = {Own}
           /\ files'[dir]["mode-comparison.csv"] = comparison
           /\ rows # NoRuns =>
                  /\ files'[dir]["runs.csv"] = {rows}
                  /\ files'[dir]["summary.csv"] = {AggregateRows(rows, Limit)}
                  /\ files'[dir]["summary.md"] = {<<AggregateRows(rows, Limit), comparison>>}
<1> DEFINE summary == AggregateRows(rows, Limit)
<1>1. pc = "writing" /\ files' = [files EXCEPT ![dir] = Written(Len(Artifacts))]
  BY DEF Write
<1>2. dir \in Dirs /\ DOMAIN files = Dirs
  BY <1>1 DEF TypeOK, WorkInv
<1>3. /\ files'[dir] = Written(5)
      /\ \A d \in Dirs : d # dir => files'[d] = files[d]
  BY <1>1, <1>2 DEF Artifacts
<1>4. \A k \in 1..5 : Written(5)[Artifacts[k]] =
                         Content(Artifacts[k], summary, files[dir][Artifacts[k]])
  BY WhatIsWritten
<1>5. Own = [meta |-> meta[dir], runs |-> rows, summary |-> summary, comparison |-> comparison]
  BY DEF Own
<1> HIDE DEF summary
<1>6. /\ Artifacts[1] = "runs.csv" /\ Artifacts[2] = "summary.csv"
      /\ Artifacts[3] = "mode-comparison.csv" /\ Artifacts[4] = "summary.md"
      /\ Artifacts[5] = "summary.json"
  BY DEF Artifacts
<1>7. \A k \in 1..5 : files'[dir][Artifacts[k]] =
                         Content(Artifacts[k], summary, files[dir][Artifacts[k]])
  BY <1>3, <1>4
<1>8. /\ files'[dir]["summary.json"] = {Own}
      /\ files'[dir]["mode-comparison.csv"] = comparison
      /\ rows # NoRuns =>
             /\ files'[dir]["runs.csv"] = {rows} /\ files'[dir]["summary.csv"] = {summary}
             /\ files'[dir]["summary.md"] = {<<summary, comparison>>}
  BY <1>5, <1>6, <1>7 DEF Content, WriteCsv, WriteSummaryMarkdown
<1> QED
  BY <1>3, <1>8 DEF summary

(* It leaves the invariant as it was. *)
LEMMA WriteKeeps ==
    ASSUME CollatorInv, Write
    PROVE  CollatorInv'
<1> USE DEF CollatorInv
<1> DEFINE summary == AggregateRows(rows, Limit)
           j == Own
<1>1. /\ pc = "writing" /\ files' = [files EXCEPT ![dir] = Written(Len(Artifacts))]
      /\ settled' = settled \union {dir} /\ torn' = torn \ {dir}
      /\ Exit /\ UNCHANGED <<meta, raw, collations>>
  BY DEF Write, dirVars
<1>2. dir \in Present /\ dir \in Dirs /\ DOMAIN files = Dirs
  BY <1>1 DEF TypeOK, WorkInv
<1>3. TypeOK' /\ NearestWins' /\ WorkInv'
  <2>1. torn' \subseteq Present /\ settled' \subseteq Present /\ DOMAIN files' = DOMAIN files
    BY <1>1, <1>2 DEF TypeOK
  <2> QED
    BY <1>1, <2>1, ExitKeeps
<1>4. \A d \in Dirs : d # dir => files'[d] = files[d]
  BY WriteLeaves
<1>5. /\ files'[dir]["summary.json"] = {j}
      /\ files'[dir]["mode-comparison.csv"] = comparison
      /\ rows # NoRuns =>
             /\ files'[dir]["runs.csv"] = {rows} /\ files'[dir]["summary.csv"] = {summary}
             /\ files'[dir]["summary.md"] = {<<summary, comparison>>}
  BY WriteLeaves
<1> HIDE DEF summary
<1>6. Present' = Present /\ meta' = meta
  BY <1>1 DEF Present
<1>7. LikeWithLike'
  <2>1. \A c \in comparison : Alike(dir, c) /\ DOMAIN c.rows # {}
                                  /\ DOMAIN c.rows \subseteq DOMAIN summary
    BY <1>1 DEF WorkInv, summary
  <2> QED
    BY <1>2, <1>4, <1>5, <1>6, <2>1 DEF LikeWithLike, Summaries, Alike, Own, summary
<1>8. FilesAgree'
  <2> SUFFICES ASSUME NEW d \in settled'
               PROVE  /\ d \notin torn'
                      /\ \E k \in Summaries(d)' :
                             /\ Summaries(d)' = {k}
                             /\ files'[d]["mode-comparison.csv"] = k.comparison
                             /\ k.runs # NoRuns =>
                                    /\ files'[d]["runs.csv"] = {k.runs}
                                    /\ files'[d]["summary.csv"] = {k.summary}
                                    /\ files'[d]["summary.md"] = {<<k.summary, k.comparison>>}
    BY DEF FilesAgree
  <2>1. CASE d = dir
    <3>1. j.comparison = comparison /\ j.runs = rows /\ j.summary = summary
      BY DEF Own, summary
    <3> HIDE DEF j
    <3> QED
      BY <1>1, <1>5, <2>1, <3>1 DEF Summaries
  <2>2. CASE d # dir
    <3>1. d \in settled /\ d \in Dirs
      BY <1>1, <2>2 DEF TypeOK
    <3> QED
      BY <1>1, <1>4, <2>2, <3>1 DEF FilesAgree, Summaries
  <2> QED
    BY <2>1, <2>2
<1> QED
  BY <1>3, <1>7, <1>8

(* What a collation that was cut short leaves is no summary. *)
LEMMA DieWritingLeaves ==
    ASSUME TypeOK, WorkInv, DieWriting
    PROVE  /\ \A d \in Dirs : d # dir => files'[d] = files[d]
           /\ files'[dir]["summary.json"] \subseteq files[dir]["summary.json"]
<1>1. PICK i \in DOMAIN Artifacts :
          files' = [files EXCEPT ![dir] = [Written(i - 1) EXCEPT ![Artifacts[i]] = {}]]
  BY DEF DieWriting
<1>2. dir \in Dirs /\ DOMAIN files = Dirs
  BY DEF DieWriting, TypeOK, WorkInv
<1>3. i \in 1..5
  BY <1>1 DEF Artifacts
<1>4. files'[dir] = [Written(i - 1) EXCEPT ![Artifacts[i]] = {}]
  BY <1>1, <1>2
<1>5. Artifacts[5] = "summary.json" /\ "summary.json" \in ToSet(Artifacts)
  BY DEF Artifacts, ToSet
<1>6. Written(i - 1)["summary.json"] = files[dir]["summary.json"]
  <2>1. i - 1 \in 0..5 /\ 5 \in 1..5 /\ ~(5 <= i - 1)
    BY <1>3
  <2> QED
    BY <1>5, <2>1, WhatIsWritten
<1>7. DOMAIN Written(i - 1) = ToSet(Artifacts)
  BY DEF Written
<1> QED
  BY <1>1, <1>2, <1>4, <1>5, <1>6, <1>7

(* The invariant does not mind it. *)
LEMMA DieWritingKeeps ==
    ASSUME CollatorInv, DieWriting
    PROVE  CollatorInv'
<1> USE DEF CollatorInv
<1>1. PICK i \in DOMAIN Artifacts :
          /\ files' = [files EXCEPT ![dir] = [Written(i - 1) EXCEPT ![Artifacts[i]] = {}]]
          /\ torn' = IF Artifacts[i] = "summary.json" THEN torn \union {dir} ELSE torn
  BY DEF DieWriting
<1>2. pc = "writing" /\ Exit /\ UNCHANGED <<meta, raw, settled, collations>>
  BY DEF DieWriting, dirVars
<1>3. dir \in Present /\ dir \in Dirs /\ DOMAIN files = Dirs /\ dir \notin settled
  BY <1>2 DEF TypeOK, WorkInv
<1>4. TypeOK' /\ NearestWins' /\ WorkInv'
  <2>1. torn' \subseteq Present /\ settled' \subseteq Present /\ DOMAIN files' = DOMAIN files
    BY <1>1, <1>2, <1>3 DEF TypeOK
  <2> QED
    BY <1>2, <2>1, ExitKeeps
<1>6. \A d \in Dirs : d # dir => files'[d] = files[d]
  BY DieWritingLeaves
<1>7. files'[dir]["summary.json"] \subseteq files[dir]["summary.json"]
  BY DieWritingLeaves
<1>8. Present' = Present /\ meta' = meta
  BY <1>2 DEF Present
<1>9. LikeWithLike'
  BY <1>6, <1>7, <1>8, <1>3 DEF LikeWithLike, Summaries, Alike
<1>10. FilesAgree'
  <2>1. settled' = settled /\ \A d \in settled : d \in Dirs /\ d # dir /\ (d \in torn' => d \in torn)
    BY <1>1, <1>2, <1>3 DEF TypeOK
  <2> QED
    BY <1>6, <2>1 DEF FilesAgree, Summaries
<1> QED
  BY <1>4, <1>9, <1>10

-----------------------------------------------------------------------------
(* The invariant is inductive: it does not matter when runs appear and     *)
(* fill, how the siblings are listed, or where a collation dies.           *)
THEOREM CollatorInvariant == Spec => []CollatorInv
<1>1. Init => CollatorInv
  BY InitHolds
<1>2. CollatorInv /\ [Next]_vars => CollatorInv'
  <2> SUFFICES ASSUME CollatorInv, [Next]_vars PROVE CollatorInv'
    OBVIOUS
  <2>1. ASSUME NEW d \in Dirs, StartRun(d) \/ Measure(d) \/ Begin(d) \/ Look(d)
        PROVE  CollatorInv'
    BY <2>1, StartRunKeeps, MeasureKeeps, BeginKeeps, LookKeeps
  <2>2. CASE EndScan
    BY <2>2, EndScanKeeps
  <2>3. CASE FailToLoad \/ Die \/ (\E c \in Dirs : FailToLook(c))
    BY <2>3, GivingUpKeeps
  <2>4. CASE Write
    BY <2>4, WriteKeeps
  <2>5. CASE DieWriting
    BY <2>5, DieWritingKeeps
  <2>6. CASE UNCHANGED vars
    <3>1. TypeOK'
      BY <2>6 DEF CollatorInv, TypeOK, Present, vars, dirVars, fileVars, scanVars
    <3>2. NearestWins' /\ WorkInv' /\ LikeWithLike' /\ FilesAgree'
      BY <2>6, OnlyRunsChange DEF CollatorInv, vars, dirVars
    <3> QED
      BY <3>1, <3>2 DEF CollatorInv
  <2> QED
    BY <2>1, <2>2, <2>3, <2>4, <2>5, <2>6 DEF Next
<1> QED
  BY <1>1, <1>2, PTL DEF Spec

(* Every state of the collator is well formed: it is never its own         *)
(* candidate.                                                              *)
THEOREM TypeCorrect == Spec => []TypeOK
BY CollatorInvariant, PTL DEF CollatorInv

(* However the file system lists them, the closest comparable sibling is   *)
(* the one a run is compared with.                                         *)
THEOREM NearestRunWins == Spec => []NearestWins
BY CollatorInvariant, PTL DEF CollatorInv

(* Every published delta is one between like and like. *)
THEOREM OnlyLikeIsCompared == Spec => []LikeWithLike
BY CollatorInvariant, PTL DEF CollatorInv

(* Whatever earlier collations left, a finished one leaves five files that *)
(* agree.                                                                  *)
THEOREM FilesOfACollationAgree == Spec => []FilesAgree
BY CollatorInvariant, PTL DEF CollatorInv

-----------------------------------------------------------------------------
(* A comparison is missed only behind an aborted run: the choice is by key *)
(* alone, and keys are totally ordered.                                    *)
THEOREM OnlyAbortedRunsHide == Spec => MissedOnlyBehindAborted
<1>1. CollatorInv /\ [Next]_vars => [GivesUpBehindAborted]_vars
  <2> SUFFICES ASSUME CollatorInv, Next, pc = "scanning", pc' = "writing", comparison' = {},
                      NEW c \in listed, Comparable(dir, c), Shares(c)
               PROVE  ~Shares(best) /\ Before(CandidateKey(dir, best), CandidateKey(dir, c))
    BY DEF GivesUpBehindAborted
  <2> USE DEF CollatorInv
  <2>1. EndScan
    BY DEF Next, StartRun, Measure, Begin, Look, FailToLook, FailToLoad, Write, Die, DieWriting,
           Exit
  <2>2. todo = {} /\ best # NoDir /\ ~Before(CandidateKey(dir, c), CandidateKey(dir, best))
    BY <2>1 DEF EndScan, NearestWins
  <2>3. Compare(dir, best, AggregateRows(rows, Limit)) = {}
    BY <2>1, <2>2 DEF EndScan
  <2>4. ~Shares(best)
    BY <2>3 DEF Compare, Shares
  <2>5. dir \in Dirs /\ c \in Dirs /\ best \in Dirs /\ best # c
    BY <2>2, <2>4 DEF TypeOK, WorkInv
  <2>6. Before(CandidateKey(dir, best), CandidateKey(dir, c))
    BY <2>2, <2>5, CandidateKeysAreKeys, BeforeIsTotal
  <2> QED
    BY <2>4, <2>6
<1> QED
  BY <1>1, CollatorInvariant, PTL DEF Spec, MissedOnlyBehindAborted

-----------------------------------------------------------------------------
(***************************************************************************)
(* The ranking.                                                            *)
(***************************************************************************)
(* What summary.json says of a run is computed from the runs it lists.     *)
SummaryInv ==
    \A d \in Dirs : \A j \in Summaries(d) :
        j.runs \in [Services -> Seq(Measurements)] /\ j.summary = AggregateRows(j.runs, Limit)

(* However a collation ends, whatever others do to its directory. *)
LEMMA SummaryKeeps ==
    ASSUME CollatorInv, SummaryInv, [Next]_vars
    PROVE  SummaryInv'
<1> USE DEF CollatorInv
<1>1. CASE Write
  <2>1. /\ \A d \in Dirs : d # dir => files'[d] = files[d]
        /\ files'[dir]["summary.json"] = {Own}
    BY <1>1, WriteLeaves
  <2>2. Own.runs \in [Services -> Seq(Measurements)] /\ Own.summary = AggregateRows(Own.runs, Limit)
    BY DEF Own, TypeOK
  <2> QED
    BY <2>1, <2>2 DEF SummaryInv, Summaries
<1>2. CASE DieWriting
  <2>1. /\ \A d \in Dirs : d # dir => files'[d] = files[d]
        /\ files'[dir]["summary.json"] \subseteq files[dir]["summary.json"]
    BY <1>2, DieWritingLeaves
  <2> QED
    BY <2>1 DEF SummaryInv, Summaries
<1>3. CASE UNCHANGED files
  BY <1>3 DEF SummaryInv, Summaries
<1>4. Write \/ DieWriting \/ UNCHANGED files
  BY DEF Next, vars, fileVars, StartRun, Measure, Begin, Look, FailToLook, EndScan, FailToLoad,
         Die
<1> QED
  BY <1>1, <1>2, <1>3, <1>4

(* What summary.json says is always what its runs add up to. *)
LEMMA SummaryInvariant == Spec => []SummaryInv
<1>1. Init => SummaryInv
  <2>1. "summary.json" \in ToSet(Artifacts)
    BY DEF Artifacts, ToSet
  <2> QED
    BY <2>1 DEF Init, SummaryInv, Summaries
<1> QED
  BY <1>1, SummaryKeeps, CollatorInvariant, PTL DEF Spec

(* CPU as the collator averages it is what the container used. *)
LEMMA LoadIsAverage ==
    ASSUME NEW lines \in Seq(Samples)
    PROVE  Load(lines) = OrZero(SummarizeStats(lines).cpu) /\ Load(lines) \in Nat
<1> DEFINE whole == {i \in DOMAIN lines : lines[i].whole}
           cpu == [i \in DOMAIN lines |-> lines[i].cpu]
<1>1. Load(lines) = IF whole = {} THEN 0 ELSE SumFunctionOnSet(cpu, whole) \div Cardinality(whole)
  BY DEF Load
<1>2. SummarizeStats(lines).cpu = Mean(cpu, whole)
  BY DEF SummarizeStats
<1>3. Quantity(SummarizeStats(lines).cpu)
  BY StatsAreQuantities
<1>4. IsFiniteSet(whole)
  <2>1. whole \in SUBSET DOMAIN lines
    OBVIOUS
  <2> QED
    BY <2>1, PlacesAreFinite, FS_Subset
<1>5. \A i \in whole : cpu[i] \in Nat
  <2>1. \A i \in DOMAIN lines : lines[i] \in Samples
    BY PlacesAreFinite
  <2> QED
    BY <2>1 DEF Samples
<1> HIDE DEF whole, cpu
<1>6. whole # {} => Mean(cpu, whole) \in Nat
  BY <1>4, <1>5, MeanIsQuantity
<1> QED
  BY <1>1, <1>2, <1>6 DEF Mean, OrZero, Missing

(* The efficiency of a run whose stack was measured. *)
LEMMA EfficiencyOfRun ==
    ASSUME NEW m \in Measurements, NEW limit, Used(m) > 0
    PROVE  /\ Used(m) \in Nat /\ m.rate \in Nat
           /\ RunRow(m, limit).per_stack_core = (100 * m.rate) \div Used(m)
<1>1. m.rate \in Nat /\ m.receiver \in Seq(Samples) /\ m.kafka \in Seq(Samples)
  BY DEF Measurements
<1>2. /\ Load(m.receiver) = OrZero(SummarizeStats(m.receiver).cpu) /\ Load(m.receiver) \in Nat
      /\ Load(m.kafka) = OrZero(SummarizeStats(m.kafka).cpu) /\ Load(m.kafka) \in Nat
  BY <1>1, LoadIsAverage
<1>3. RunRow(m, limit).per_stack_core = SafeRatio(100 * m.rate, Used(m))
  BY <1>2 DEF RunRow, Used
<1>4. Used(m) \in Nat
  BY <1>2 DEF Used
<1> QED
  BY <1>1, <1>3, <1>4 DEF SafeRatio

(* The services are listed in the order of their names, each once. *)
LEMMA NamesAreListed ==
    ASSUME NEW S \in SUBSET Services
    PROVE  IsFiniteSet(S) /\ Listing(NameOrder, S)
<1>1. NameOrder \in Seq(Services) /\ IsInjective(NameOrder) /\ ToSet(NameOrder) = Services
  BY CollatorAssumption DEF CollatorAssumption
<1>2. IsFiniteSet(DOMAIN NameOrder)
  BY <1>1, PlacesAreFinite
<1>3. Services = {NameOrder[i] : i \in DOMAIN NameOrder}
  BY <1>1 DEF ToSet
<1>4. NameOrder \in Surjection(DOMAIN NameOrder, Services)
  BY <1>1, <1>3 DEF Surjection
<1>5. IsFiniteSet(S)
  <2>1. IsFiniteSet(Services)
    BY <1>2, <1>4, FS_Surjection
  <2> QED
    BY <2>1, FS_Subset
<1>6. DOMAIN NameOrder \subseteq Nat
  BY <1>1
<1>7. \A i, j \in DOMAIN NameOrder : NameOrder[i] = NameOrder[j] => i = j
  BY <1>1 DEF IsInjective
<1> QED
  BY <1>3, <1>5, <1>6, <1>7 DEF Listing

(* The figures of a summary that services are ranked by. *)
LEMMA SummaryIsRanked ==
    ASSUME NEW runs \in [Services -> Seq(Measurements)], NEW limit,
           NEW s \in DOMAIN AggregateRows(runs, limit)
    PROVE  /\ s \in Services
           /\ IsRanked(AggregateRows(runs, limit)[s])
           /\ Len(runs[s]) = 1 /\ Used(runs[s][1]) > 0 =>
                  AggregateRows(runs, limit)[s].per_stack_core =
                      (100 * runs[s][1].rate) \div Used(runs[s][1])
<1> DEFINE q == runs[s]
           row == Aggregate([i \in DOMAIN q |-> RunRow(q[i], limit)])
<1>1. s \in Services /\ AggregateRows(runs, limit)[s] = row
  BY DEF AggregateRows
<1>2. q \in Seq(Measurements)
  BY <1>1
<1>3. row.per_stack_core = row["per_stack_core"] /\ row.rate = row["rate"]
  OBVIOUS
<1>4. {"per_stack_core", "rate"} \subseteq RowKeys \ {"per_cpu_limit"}
  BY DEF RowKeys
<1> HIDE DEF q
<1>5. Quantity(row["per_stack_core"]) /\ Quantity(row["rate"])
  BY <1>2, <1>4, AggregateIsBetween
<1>6. ASSUME Len(q) = 1, Used(q[1]) > 0
      PROVE  row["per_stack_core"] = (100 * q[1].rate) \div Used(q[1])
  <2> DEFINE m == q[1]
  <2>1. m \in Measurements
    <3>1. 1 \in DOMAIN q
      BY <1>2, <1>6
    <3> QED
      BY <1>2, <3>1, ElementOfSequence
  <2>2. /\ Used(m) \in Nat /\ m.rate \in Nat
        /\ RunRow(m, limit)["per_stack_core"] = (100 * m.rate) \div Used(m)
    BY <1>6, <2>1, EfficiencyOfRun
  <2>3. RunRow(m, limit)["per_stack_core"] \in Int
    BY <1>6, <2>2
  <2> QED
    BY <1>2, <1>4, <1>6, <2>2, <2>3, AggregateOfOne
<1> HIDE DEF row
<1> QED
  BY <1>1, <1>3, <1>5, <1>6 DEF IsRanked, Quantity, Missing, q

(* A summary that is computed from its runs ranks them by what they earn.  *)
LEMMA RankingFollows ==
    ASSUME SummaryInv
    PROVE  RankingIsEarned
<1> SUFFICES ASSUME NEW d \in Dirs, NEW j \in Summaries(d),
                    NEW s \in DOMAIN j.summary, NEW t \in DOMAIN j.summary,
                    Len(j.runs[s]) = 1, Len(j.runs[t]) = 1,
                    ComesOutEven(j.runs[s][1]), ComesOutEven(j.runs[t][1]),
                    j.runs[s][1].rate * Used(j.runs[t][1]) > j.runs[t][1].rate * Used(j.runs[s][1])
             PROVE  Rank(j.summary, NameOrder, s) < Rank(j.summary, NameOrder, t)
  BY DEF RankingIsEarned
<1> DEFINE runs == j.runs
           summary == j.summary
           m == runs[s][1]
           n == runs[t][1]
<1>1. runs \in [Services -> Seq(Measurements)] /\ summary = AggregateRows(runs, Limit)
  BY DEF SummaryInv
<1>2. Used(m) > 0 /\ (100 * m.rate) % Used(m) = 0 /\ Used(n) > 0 /\ (100 * n.rate) % Used(n) = 0
  BY DEF ComesOutEven
<1>3. \A x \in DOMAIN summary : x \in Services /\ IsRanked(summary[x])
  BY <1>1, SummaryIsRanked
<1>4. m \in Measurements /\ n \in Measurements
  <2>1. runs[s] \in Seq(Measurements) /\ runs[t] \in Seq(Measurements)
    BY <1>1, <1>3
  <2> QED
    BY <2>1
<1>5. /\ summary[s].per_stack_core = (100 * m.rate) \div Used(m)
      /\ summary[t].per_stack_core = (100 * n.rate) \div Used(n)
  BY <1>1, <1>2, SummaryIsRanked
<1>6. Used(m) \in Nat /\ Used(n) \in Nat /\ m.rate \in Nat /\ n.rate \in Nat
  BY <1>2, <1>4, EfficiencyOfRun
<1>7. m.rate * Used(n) > n.rate * Used(m)
  OBVIOUS
<1> DEFINE p == (100 * m.rate) \div Used(m)
           q == (100 * n.rate) \div Used(n)
<1>8. p > q
  BY ONLY <1>2, <1>6, <1>7, GreaterFraction
<1>9. p \in Nat /\ q \in Nat
  <2>1. 100 * m.rate \in Nat /\ 100 * n.rate \in Nat
    BY <1>6
  <2> QED
    BY <1>2, <1>6, <2>1, DivisionBounds
<1> HIDE DEF p, q
<1>10. summary[s].per_stack_core = p /\ summary[t].per_stack_core = q
  BY <1>5 DEF p, q
<1>11. Outranks(summary[s], summary[t])
  BY <1>8, <1>9, <1>10 DEF Outranks, OrZero, Missing
<1> HIDE DEF summary
<1>12. DOMAIN summary \in SUBSET Services
  BY <1>3
<1>13. IsFiniteSet(DOMAIN summary) /\ Listing(NameOrder, DOMAIN summary)
  BY <1>12, NamesAreListed
<1>14. s \in DOMAIN summary /\ t \in DOMAIN summary
  BY DEF summary
<1>15. Rank(summary, NameOrder, s) < Rank(summary, NameOrder, t)
  BY <1>3, <1>11, <1>13, <1>14, RanksArePlaces
<1> QED
  BY <1>15 DEF summary

(* Whatever else was measured, and however often it was collated: of two   *)
(* services the one that answered more for what it used of the stack is    *)
(* ranked first.                                                           *)
THEOREM RanksAreEarned == Spec => []RankingIsEarned
BY SummaryInvariant, RankingFollows, PTL

-----------------------------------------------------------------------------
(***************************************************************************)
(* The guardrails of the matrix runner and the collator's comparison,      *)
(* together.                                                               *)
(***************************************************************************)
(* A delta over http-only: no strict-1 run has one, and where the Kafka    *)
(* side confirms under the strict profile, the http-only side had the      *)
(* pinned topology, too, which no guardrail asks of it.                    *)
GuardedDelta(http, kafka) ==
    /\ http.setup.preset = "custom" /\ kafka.setup.preset = "custom"
    /\ kafka.mode = "confirm" /\ http.setup.profile = "strict-1" =>
           http.setup.partitions = 1 /\ http.setup.knobs = "pinned"

DeltasAreGuarded ==
    \A d \in Dirs : \A j \in Summaries(d) : \A c \in j.comparison :
        GuardedDelta(meta[c.http_only], meta[c.kafka])

(* What the guardrails let through says of a run's metadata. *)
LEMMA MetasAreGuarded ==
    ASSUME NEW m \in Metas
    PROVE  /\ m.setup.preset \in Presets
           /\ m.setup.preset = "strict-1" => m.mode = "confirm"
           /\ m.mode = "confirm" /\ m.setup.profile = "strict-1" =>
                  m.setup.partitions = 1 /\ m.setup.knobs = "pinned"
<1>1. PICK env \in {e \in Callers : Accepted(e)}, dirty \in {"true", "false", "absent"},
           zoned \in BOOLEAN, checkout \in Checkouts :
               m = MetaOf(Effective(env), dirty, zoned, checkout)
  BY DEF Metas
<1> DEFINE config == Effective(env)
<1>2. env \in Environments /\ ConfirmAccepted(config)
  BY CollatorAssumption DEF CollatorAssumption, Accepted
<1>3. config.preset \in Presets /\ (config.preset = "strict-1" => config.mode = "confirm")
  BY <1>2 DEF Effective, DerivedPreset, Environments, Presets, Unset
<1>4. /\ m.mode = config.mode /\ m.setup.preset = config.preset
      /\ m.setup.profile = config.profile /\ m.setup.partitions = config.partitions
      /\ m.setup.knobs = config.knobs
  BY <1>1 DEF MetaOf
<1> HIDE DEF config
<1> QED
  BY <1>2, <1>3, <1>4 DEF ConfirmAccepted

(* The default preset never gets a delta over http-only, and a strict      *)
(* confirm profile only one over a run of the same pinned topology.        *)
THEOREM DeltasStayWithinTheGuardrails == Spec => []DeltasAreGuarded
<1>1. CollatorInv => DeltasAreGuarded
  <2> SUFFICES ASSUME CollatorInv, NEW d \in Dirs, NEW j \in Summaries(d), NEW c \in j.comparison
               PROVE  GuardedDelta(meta[c.http_only], meta[c.kafka])
    BY DEF DeltasAreGuarded
  <2> DEFINE http == meta[c.http_only]
             kafka == meta[c.kafka]
  <2>1. Alike(d, c)
    BY DEF CollatorInv, LikeWithLike
  <2>2. http \in Metas /\ kafka \in Metas
    BY <2>1 DEF Alike, CollatorInv, TypeOK
  <2>3. http.mode = "http-only" /\ http.setup = kafka.setup
    BY <2>1 DEF Alike
  <2> HIDE DEF http, kafka
  <2>4. http.setup.preset = "custom"
    BY <2>2, <2>3, MetasAreGuarded DEF Presets
  <2>5. GuardedDelta(http, kafka)
    BY <2>2, <2>3, <2>4, MetasAreGuarded DEF GuardedDelta
  <2> QED
    BY <2>5 DEF http, kafka
<1> QED
  BY <1>1, CollatorInvariant, PTL
=============================================================================
