--------------------------- MODULE SitePublisher ---------------------------
(***************************************************************************)
(* scripts/build_benchmark_site.py: the dashboard is built from committed  *)
(* data, or that data is first refreshed from the result directories whose *)
(* IDs the manifest lists.  Results come and go, the manifest is edited    *)
(* and builds run one after the other, with any flags; a build may be      *)
(* refused, and may die at any point, while it removes the old site too.   *)
(*                                                                         *)
(* results[id] holds what the collator wrote: a summary.json has the       *)
(* fields Collator gives it, and parses or not (cut short, or without a    *)
(* date in it or in the name of its directory).  A snapshot keeps what the publication rules  *)
(* look at: of the cards the best by the primary metric, whose choice the  *)
(* others repeat on other columns.                                         *)
(***************************************************************************)
EXTENDS RunMetrics

CONSTANTS Ids,       \* result directory IDs
          StampOf,   \* StampOf[id]: the snapshot's timestamp, a text: its rank among texts
          TimeOf,    \* TimeOf[id]: when it was taken
          OffsetOf,  \* OffsetOf[id]: how far the clock it was taken by was ahead of UTC
          NameOrder, \* the services in the order of their names
          Captures,  \* Captures[id]: the summaries id may have
          Manifests, \* what published-snapshots.json may list
          Overrides, \* what BENCHMARK_SITE_PUBLISHED_SNAPSHOT_IDS may be; <<>>: not set
          Committed, \* the snapshots of the committed site data at first
          MaxBuilds  \* bound on the number of builds

DirtyStates == {"true", "false", "absent"}

SnapshotFields == {"id", "mode", "dirty", "state", "source", "rows", "primary", "best"}

IsSnapshot(s) ==
    s = [field \in SnapshotFields |-> s[field]] /\ s.id \in Ids /\ s.dirty \in DirtyStates

ASSUME PublisherAssumption ==
    /\ StampOf \in [Ids -> Nat] /\ TimeOf \in [Ids -> Nat] /\ OffsetOf \in [Ids -> Int]
    /\ \A a, b \in Ids :  \* a text starts with what the clock on the wall said
           TimeOf[a] + OffsetOf[a] > TimeOf[b] + OffsetOf[b] => StampOf[a] > StampOf[b]
    /\ Manifests \subseteq Seq(Ids)
    /\ Overrides \subseteq Seq(Ids) /\ <<>> \in Overrides
    /\ DOMAIN Captures = Ids /\ \A id \in Ids : \A j \in Captures[id] :
           j.parses \in BOOLEAN /\ j.meta.dirty \in DirtyStates
    /\ Committed \in Seq(ToSet(Committed)) /\ \A s \in ToSet(Committed) : IsSnapshot(s)
    /\ MaxBuilds \in Nat

Modes == {"confirm", "http-only", "enqueue"}

(* The environment of a build; what is allowed is asked by a refresh only. *)
Flags ==
    {f \in [refresh : BOOLEAN, allowDirty : BOOLEAN, allowLegacy : BOOLEAN, ids : Overrides] :
        f.allowDirty \/ f.allowLegacy => f.refresh}

NoFlags == [refresh |-> FALSE, allowDirty |-> FALSE, allowLegacy |-> FALSE, ids |-> <<>>]

VARIABLES
    results,   \* results[id]: {} or the summary.json of results/id
    manifest,  \* published-snapshots.json
    data,      \* site/src/data/site-data.json: {} or its content
    tornData,  \* it was cut short
    dist,      \* the built site: {} or its data
    complete,  \* the site is whole: it was built to the end, and nothing of it is removed
    pc,        \* the builder: "idle", "clearing", "cleared", "copied", "saving", "writing"
    flags,     \* the flags it runs with
    loaded,    \* {} or the data it has loaded
    builds,    \* history: the number of builds started
    consented, \* history: <<id, git_dirty>> that is not clean and was let in: committed
               \* from the start, or refreshed under the flag that allows it
    savedFor,  \* history: the IDs for which data was last refreshed, <<>> if never
    shownFor   \* history: the IDs for which dist was built

inputVars == <<results, manifest>>
dataVars == <<data, tornData, savedFor>>
distVars == <<dist, complete, shownFor>>
vars == <<inputVars, dataVars, distVars, pc, flags, loaded, builds, consented>>

-----------------------------------------------------------------------------
(* Snapshots. *)

SimplifyRow(row) ==
    [req_s |-> OrZero(row.rate), per_cpu_limit |-> OrZero(row.per_cpu_limit),
     per_core |-> row.per_stack_core]

SelectPrimaryMetricKey(rows) ==
    IF \E s \in DOMAIN rows : OrZero(rows[s].per_core) > 0 THEN "per_core" ELSE "per_cpu_limit"

(* The first of the largest; the rows are sorted by req_s, and by name     *)
(* where that is equal.                                                    *)
BestBy(rows, key) ==
    LET place(s) == CHOOSE i \in DOMAIN NameOrder : NameOrder[i] = s
        value(s) == OrZero(rows[s][key])
    IN  CHOOSE s \in DOMAIN rows : \A t \in DOMAIN rows :
            \/ value(s) > value(t)
            \/ value(s) = value(t) /\ rows[s].req_s > rows[t].req_s
            \/ value(s) = value(t) /\ rows[s].req_s = rows[t].req_s /\ place(s) <= place(t)

(* build_snapshot raises on a summary that does not parse or has no rows,  *)
(* and on a delta whose ratio the collator left out because http-only      *)
(* answered nothing.                                                       *)
Buildable(j) ==
    /\ j.parses
    /\ DOMAIN j.summary # {}
    /\ \A c \in j.comparison : \A s \in DOMAIN c.rows : c.rows[s].retained # Missing

BuildSnapshot(id, j) ==
    LET rows == [s \in DOMAIN j.summary |-> SimplifyRow(j.summary[s])]
        primary == SelectPrimaryMetricKey(rows)
    IN  [id |-> id, mode |-> j.meta.mode, dirty |-> j.meta.dirty, state |-> "published",
         source |-> "result-summary", rows |-> rows, primary |-> primary,
         best |-> BestBy(rows, primary)]

(* Mutant: the headline of the committed snapshot is left as it is. *)
NormalizeSnapshotKeepingBest(snapshot) ==
    [snapshot EXCEPT
        !.primary = IF @ = "" THEN SelectPrimaryMetricKey(snapshot.rows) ELSE @]

(* What older data lacks is filled in, and the headline is chosen again. *)
NormalizeSnapshot(snapshot) ==
    LET primary == IF snapshot.primary = "" THEN SelectPrimaryMetricKey(snapshot.rows)
                   ELSE snapshot.primary
    IN  [snapshot EXCEPT !.primary = primary, !.best = BestBy(snapshot.rows, primary)]

(* i goes before j where the greatest text comes first. *)
Precedes(stamps, i, j) == stamps[i] > stamps[j] \/ (stamps[i] = stamps[j] /\ i < j)

(* snapshots.sort(str(timestamp), reverse=True), which is stable.          *)
LatestStampFirst(snapshots) ==
    LET places == DOMAIN snapshots
        stamps == [i \in places |-> StampOf[snapshots[i].id]]
        order == CHOOSE f \in [places -> places] :
                     \A i, j \in places : i < j => Precedes(stamps, f[i], f[j])
    IN  [i \in places |-> snapshots[order[i]]]

PublishedOf(snapshots, mode) ==
    {i \in DOMAIN snapshots : snapshots[i].state = "published" /\ snapshots[i].mode = mode}

(* build_latest_by_mode: the first published snapshot of each mode. *)
LatestByMode(snapshots) ==
    [mode \in {m \in Modes : PublishedOf(snapshots, m) # {}} |->
        LET first == CHOOSE i \in PublishedOf(snapshots, mode) :
                         \A j \in PublishedOf(snapshots, mode) : i <= j
        IN  snapshots[first].id]

(* Mutant: the site keeps the order of the manifest. *)
SiteDataUnsorted(generated, snapshots) ==
    [generated |-> generated, snapshots |-> snapshots, latest |-> LatestByMode(snapshots)]

SiteData(generated, snapshots) ==
    LET sorted == LatestStampFirst(snapshots)
    IN  [generated |-> generated, snapshots |-> sorted, latest |-> LatestByMode(sorted)]

(* What the figures of a summary are: numbers, of services that have names *)
(* to sort them by, and all lanes have the one CPU limit rates are divided *)
(* by, so that who answers more does not answer less per CPU of it.        *)
Quantities == Nat \union {Missing}

AreRows(rows) ==
    /\ DOMAIN rows \subseteq ToSet(NameOrder)
    /\ \A s \in DOMAIN rows :
           rows[s] \in [req_s : Nat, per_cpu_limit : Quantities, per_core : Quantities]

HaveOneLimit(rows) ==
    \A s, t \in DOMAIN rows :
        rows[s].req_s > rows[t].req_s =>
            OrZero(rows[s].per_cpu_limit) >= OrZero(rows[t].per_cpu_limit)

(* A committed snapshot that says it was built from results was. *)
HasFigures(s) ==
    /\ AreRows(s.rows)
    /\ s.primary \in {"", "per_core", "per_cpu_limit"}
    /\ s.source = "result-summary" =>
           HaveOneLimit(s.rows) /\ s.primary \in {"", SelectPrimaryMetricKey(s.rows)}

ASSUME FiguresAssumption ==
    /\ NameOrder \in Seq(ToSet(NameOrder))
    /\ \A s \in ToSet(Committed) : HasFigures(s)
    /\ \A id \in Ids : \A j \in Captures[id] :
           LET rows == [s \in DOMAIN j.summary |-> SimplifyRow(j.summary[s])]
           IN  AreRows(rows) /\ HaveOneLimit(rows)

Content(file) == CHOOSE content \in file : TRUE

Find(snapshots, id) == snapshots[CHOOSE i \in DOMAIN snapshots : snapshots[i].id = id]

IdsIn(snapshots) == {snapshots[i].id : i \in DOMAIN snapshots}

-----------------------------------------------------------------------------
Init ==
    /\ results = [id \in Ids |-> {}]
    /\ data = {SiteData(0, Committed)}
    /\ tornData = FALSE
    /\ manifest \in Manifests
    /\ dist = {} /\ complete = FALSE
    /\ pc = "idle" /\ flags = NoFlags /\ loaded = {} /\ builds = 0
    /\ consented = {<<Committed[i].id, Committed[i].dirty>> : i \in DOMAIN Committed}
                       \ (Ids \X {"false"})
    /\ savedFor = <<>> /\ shownFor = <<>>

(* Between two builds; what comes after the last one is of no interest. *)
Between == pc = "idle" /\ builds < MaxBuilds

(* A run is collated, again perhaps. *)
Capture(id) ==
    /\ Between
    /\ \E j \in Captures[id] : results' = [results EXCEPT ![id] = {j}]
    /\ UNCHANGED <<manifest, dataVars, distVars, pc, flags, loaded, builds, consented>>

(* results/ is not committed: another clone has none of it. *)
Discard(id) ==
    /\ Between
    /\ results' = [results EXCEPT ![id] = {}]
    /\ UNCHANGED <<manifest, dataVars, distVars, pc, flags, loaded, builds, consented>>

(* An ID is promoted or taken back. *)
EditManifest ==
    /\ Between
    /\ manifest' \in Manifests
    /\ UNCHANGED <<results, dataVars, distVars, pc, flags, loaded, builds, consented>>

(* The committed data is checked out again. *)
Restore ==
    /\ Between
    /\ data' = {SiteData(0, Committed)} /\ tornData' = FALSE /\ savedFor' = <<>>
    /\ UNCHANGED <<inputVars, distVars, pc, flags, loaded, builds, consented>>

-----------------------------------------------------------------------------
(* load_published_snapshot_ids *)
Asked == IF flags.ids # <<>> THEN flags.ids ELSE manifest

(* Mutant: metadata that says nothing passes for clean. *)
RequireCleanLenient(state) == state = "true" => flags.allowDirty

(* require_clean_published_snapshot *)
RequireClean(state) ==
    /\ state = "true" => flags.allowDirty
    /\ state = "absent" => flags.allowLegacy

Existing == IF data = {} THEN <<>> ELSE Content(data).snapshots

(* Mutant: results are preferred also where they do not say if the         *)
(* worktree was clean.                                                     *)
KeepsExistingOnlyWithoutResults(id) == id \in IdsIn(Existing) /\ results[id] = {}

(* The committed snapshot stands in for results that are not there, or     *)
(* that predate git_dirty.                                                 *)
KeepsExisting(id) ==
    /\ id \in IdsIn(Existing)
    /\ results[id] = {} \/ Content(results[id]).meta.dirty = "absent"

Refreshable(id) ==
    /\ results[id] # {} => Buildable(Content(results[id]))
    /\ IF KeepsExisting(id)
       THEN Find(Existing, id).dirty = "true" => flags.allowDirty
       ELSE results[id] # {} /\ RequireClean(Content(results[id]).meta.dirty)

Refreshed(id) ==
    IF KeepsExisting(id)
    THEN [NormalizeSnapshot(Find(Existing, id)) EXCEPT !.state = "published"]
    ELSE BuildSnapshot(id, Content(results[id]))

(* build_published_site_data raises unless there are IDs, each of them has *)
(* results or a committed snapshot, and all are fit to publish.            *)
CanRefresh == ~tornData /\ Asked # <<>> /\ \A id \in ToSet(Asked) : Refreshable(id)

PublishedSiteData ==
    LET rebuilt == \E id \in ToSet(Asked) : ~KeepsExisting(id)
    IN  SiteData(IF rebuilt \/ data = {} THEN builds ELSE Content(data).generated,
                 [i \in DOMAIN Asked |-> Refreshed(Asked[i])])

(* Mutant: published snapshots the manifest does not list are let through. *)
CanNormalizeWithExtras(content, ids) == ToSet(ids) \subseteq IdsIn(content.snapshots)

(* normalize_site_data raises when an ID is missing from the committed     *)
(* data, or a published snapshot of it is not listed.                      *)
CanNormalize(content, ids) ==
    /\ ToSet(ids) \subseteq IdsIn(content.snapshots)
    /\ \A i \in DOMAIN content.snapshots :
           content.snapshots[i].state = "published" => content.snapshots[i].id \in ToSet(ids)

NormalizeSiteData(content, ids) ==
    SiteData(content.generated,
             [i \in DOMAIN ids |-> NormalizeSnapshot(Find(content.snapshots, ids[i]))])

-----------------------------------------------------------------------------
(* Mutant: the new site is built over the old one. *)
StartBuildKeepingSite ==
    /\ Between
    /\ flags' \in Flags /\ builds' = builds + 1 /\ pc' = "cleared"
    /\ UNCHANGED <<inputVars, dataVars, distVars, loaded, consented>>

(* build_site: the old site goes first, file by file and in any order ...  *)
StartBuild ==
    /\ Between
    /\ flags' \in Flags
    /\ builds' = builds + 1
    /\ dist' \in {dist, {}} /\ complete' = FALSE /\ shownFor' = <<>>
    /\ pc' = "clearing"
    /\ UNCHANGED <<inputVars, dataVars, loaded, consented>>

FinishClearing ==
    /\ pc = "clearing"
    /\ dist' = {}
    /\ pc' = "cleared"
    /\ UNCHANGED <<inputVars, dataVars, complete, shownFor, flags, loaded, builds, consented>>

(* ... then the sources are copied, the committed data among them as it is. *)
CopySources ==
    /\ pc = "cleared"
    /\ dist' = data
    /\ pc' = "copied"
    /\ UNCHANGED <<inputVars, dataVars, complete, shownFor, flags, loaded, builds, consented>>

(* load_site_data without refresh. *)
LoadCommitted ==
    /\ pc = "copied" /\ ~flags.refresh
    /\ data # {} /\ CanNormalize(Content(data), Asked)
    /\ loaded' = {NormalizeSiteData(Content(data), Asked)}
    /\ pc' = "writing"
    /\ UNCHANGED <<inputVars, dataVars, distVars, flags, builds, consented>>

(* load_site_data with refresh, up to the point where it writes. *)
LoadRefreshed ==
    /\ pc = "copied" /\ flags.refresh
    /\ CanRefresh
    /\ loaded' = {PublishedSiteData}
    /\ LET allowed == {state \in {"true", "absent"} :
                          IF state = "true" THEN flags.allowDirty ELSE flags.allowLegacy}
       IN  consented' = consented \union
               {<<s.id, s.dirty>> : s \in {t \in ToSet(PublishedSiteData.snapshots) :
                                               t.dirty \in allowed}}
    /\ pc' = "saving"
    /\ UNCHANGED <<inputVars, dataVars, distVars, flags, builds>>

(* The builder's process ends. *)
Exit == pc' = "idle" /\ flags' = NoFlags /\ loaded' = {}

(* A build that raises: the site it cleared and half filled stays so. *)
Refuse ==
    /\ pc = "copied"
    /\ IF flags.refresh THEN ~CanRefresh
       ELSE ~(data # {} /\ CanNormalize(Content(data), Asked))
    /\ Exit
    /\ UNCHANGED <<inputVars, dataVars, distVars, builds, consented>>

(* The refreshed data replaces the committed one. *)
SaveData ==
    /\ pc = "saving"
    /\ data' = loaded /\ tornData' = FALSE /\ savedFor' = Asked
    /\ pc' = "writing"
    /\ UNCHANGED <<inputVars, distVars, flags, loaded, builds, consented>>

(* The site gets its data and its last file. *)
WriteSite ==
    /\ pc = "writing"
    /\ dist' = loaded /\ complete' = TRUE /\ shownFor' = Asked
    /\ Exit
    /\ UNCHANGED <<inputVars, dataVars, builds, consented>>

(* The builder is killed, perhaps while it writes one of the two files. *)
Die ==
    /\ pc # "idle"
    /\ Exit
    /\ \/ UNCHANGED <<dataVars, dist>>
       \/ pc = "saving" /\ data' = {} /\ tornData' = TRUE /\ savedFor' = <<>> /\ UNCHANGED dist
       \/ pc = "writing" /\ dist' \in {{}, loaded} /\ UNCHANGED dataVars
    /\ UNCHANGED <<inputVars, complete, shownFor, builds, consented>>

Next ==
    \/ \E id \in Ids : Capture(id) \/ Discard(id)
    \/ EditManifest \/ Restore \/ StartBuild \/ FinishClearing \/ CopySources
    \/ LoadCommitted \/ LoadRefreshed \/ Refuse \/ SaveData \/ WriteSite \/ Die

Spec == Init /\ [][Next]_vars

-----------------------------------------------------------------------------
(* The data a reader can see: the committed one, and that of a whole site. *)
Visible == data \union (IF complete THEN dist ELSE {})

TypeOK ==
    /\ results \in [Ids -> SUBSET UNION {Captures[id] : id \in Ids}]
    /\ \A id \in Ids : results[id] \subseteq Captures[id]
    /\ manifest \in Manifests /\ flags \in Flags
    /\ pc \in {"idle", "clearing", "cleared", "copied", "saving", "writing"}
    /\ builds \in 0..MaxBuilds
    /\ tornData \in BOOLEAN /\ (tornData <=> data = {})
    /\ loaded # {} <=> pc \in {"saving", "writing"}
    /\ \A content \in data \union dist \union loaded : IdsIn(content.snapshots) \subseteq Ids
    /\ complete => dist # {} /\ pc = "idle"

(* "Refusing to publish dirty benchmark snapshot": whatever was collated,  *)
(* committed, kept or rebuilt before, a published snapshot that is not     *)
(* known to be clean was let in for what it is.                            *)
OnlyCleanIsPromoted ==
    \A content \in Visible : \A i \in DOMAIN content.snapshots :
        LET s == content.snapshots[i]
        IN  s.state = "published" /\ s.dirty # "false" => <<s.id, s.dirty>> \in consented

(* The run a is no older than b, or older by no more than its clock was    *)
(* ahead of the clock of b.                                                *)
NoOlder(a, b) ==
    \/ TimeOf[a] >= TimeOf[b]
    \/ TimeOf[b] - TimeOf[a] <= OffsetOf[a] - OffsetOf[b]

(* What a site built for ids shows: them, none behind an older one, and on *)
(* its front page, of each mode, a published run that none is newer than;  *)
(* but for the clocks, which the order of timestamps does not see through. *)
Shows(content, ids) ==
    LET shown == content.snapshots
        published(mode) == PublishedOf(shown, mode)
    IN  /\ Len(shown) = Len(ids) /\ IdsIn(shown) = ToSet(ids)
        /\ \A i, j \in DOMAIN shown : i < j => NoOlder(shown[i].id, shown[j].id)
        /\ \A mode \in Modes : published(mode) # {} =>
               \E i \in published(mode) :
                   /\ content.latest[mode] = shown[i].id
                   /\ \A j \in published(mode) : NoOlder(shown[i].id, shown[j].id)

(* A whole site shows the IDs it was built for, no more and no fewer, and  *)
(* lists no run behind an older one; its front page names the newest       *)
(* published run of each mode.  Both but for the clocks: where the UTC     *)
(* offset has changed (the committed runs have two), a run may stand       *)
(* before, or for, one that is newer by less than the difference.          *)
SiteIsTheManifest == complete => \A content \in dist : Shows(content, shownFor)

(* A build without refresh for these IDs would change nothing. *)
Reproduced(content, ids) ==
    CanNormalize(content, ids) /\ NormalizeSiteData(content, ids) = content

(* The two ways to the site agree: a build without refresh republishes to  *)
(* the letter what a refresh for the same IDs has saved, and for whatever  *)
(* IDs it succeeds, no published snapshot is lost on the way.              *)
PathsAgree ==
    \A content \in data :
        /\ (savedFor # <<>> /\ savedFor = manifest) => Reproduced(content, manifest)
        /\ CanNormalize(content, manifest) =>
               \A i \in DOMAIN content.snapshots :
                   content.snapshots[i].state = "published" =>
                       content.snapshots[i].id \in
                           IdsIn(NormalizeSiteData(content, manifest).snapshots)

(* What a step that loads refreshed data does. *)
RefreshesOnlyResults ==
    (pc = "copied" /\ pc' = "saving") =>
        LET kept == {id \in ToSet(Asked) \intersect IdsIn(Existing) :
                         \A j \in results[id] : j.meta.dirty = "absent"}
            fresh == Content(loaded')
        IN  /\ \A i \in DOMAIN fresh.snapshots :
                   fresh.snapshots[i].id \in kept =>
                       \E old \in ToSet(Existing) :
                           /\ old.id = fresh.snapshots[i].id
                           /\ old.rows = fresh.snapshots[i].rows
                           /\ old.dirty = fresh.snapshots[i].dirty
            /\ (data # {} /\ ToSet(Asked) \subseteq kept) =>
                   fresh.generated = Content(data).generated

(* "use the committed site-data fallback for legacy baselines": a refresh  *)
(* changes no figure of a committed snapshot whose results are gone or     *)
(* from before git_dirty, and dates the data anew only for a rebuilt one.  *)
RefreshKeepsTheRest == [][RefreshesOnlyResults]_vars

(* The headline of a snapshot is earned: no service beats the one it names *)
(* by the snapshot's own metric, nor, in a snapshot built from results, in *)
(* the ranking the collator gave them.                                     *)
HeadlineIsBest ==
    complete => \A content \in dist : \A i \in DOMAIN content.snapshots :
        LET s == content.snapshots[i]
            AsCollated(row) == [per_stack_core |-> row.per_core, rate |-> row.req_s]
        IN  \A t \in DOMAIN s.rows :
                /\ OrZero(s.rows[t][s.primary]) <= OrZero(s.rows[s.best][s.primary])
                /\ s.source = "result-summary" =>
                       ~Outranks(AsCollated(s.rows[t]), AsCollated(s.rows[s.best]))
=============================================================================
