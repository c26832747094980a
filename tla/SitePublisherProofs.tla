------------------------ MODULE SitePublisherProofs ------------------------
(***************************************************************************)
(* Proofs about SitePublisher, for every set of IDs, times, manifests,     *)
(* committed data, results and flags.                                      *)
(***************************************************************************)
EXTENDS SitePublisher, RunMetricsProofs, TLAPS

(***************************************************************************)
(* Sorting.  A place's rank is the number of places that do not come after *)
(* it; ranks are an injection of the places into themselves, and so, there *)
(* being finitely many, a permutation.                                     *)
(***************************************************************************)
LEMMA PrecedesIsStrictOrder ==
    ASSUME NEW n \in Nat, NEW stamps \in [1..n -> Nat]
    PROVE  /\ \A i \in 1..n : ~Precedes(stamps, i, i)
           /\ \A i, j \in 1..n : i # j => Precedes(stamps, i, j) \/ Precedes(stamps, j, i)
           /\ \A i, j, k \in 1..n :
                  Precedes(stamps, i, j) /\ Precedes(stamps, j, k) => Precedes(stamps, i, k)
BY DEF Precedes

(* There are only so many places: who hits none twice hits them all. *)
LEMMA InjectionIsOnto ==
    ASSUME NEW n \in Nat, NEW f \in [1..n -> 1..n],
           \A i, j \in 1..n : f[i] = f[j] => i = j
    PROVE  \A k \in 1..n : \E i \in 1..n : f[i] = k
<1>1. f \in Injection(1..n, 1..n)
  BY DEF Injection, IsInjective
<1>2. IsFiniteSet(1..n)
  BY FS_Interval
<1>3. f \in Surjection(1..n, 1..n)
  BY <1>1, <1>2, FS_Injection
<1> QED
  BY <1>3 DEF Surjection

(* A sorting order exists: i goes to the place given by how many come      *)
(* before it, and places are never shared.                                 *)
LEMMA SortingOrderExists ==
    ASSUME NEW n \in Nat, NEW stamps \in [1..n -> Nat]
    PROVE  \E f \in [1..n -> 1..n] :
               \A i, j \in 1..n : i < j => Precedes(stamps, f[i], f[j])
<1> DEFINE Before(i, j) == Precedes(stamps, i, j)
           UpTo(i) == {j \in 1..n : j = i \/ Before(j, i)}
           rank == [i \in 1..n |-> Cardinality(UpTo(i))]
<1>1. /\ \A i \in 1..n : ~Before(i, i)
      /\ \A i, j \in 1..n : i # j => Before(i, j) \/ Before(j, i)
      /\ \A i, j, k \in 1..n : Before(i, j) /\ Before(j, k) => Before(i, k)
  BY PrecedesIsStrictOrder
<1> HIDE DEF Before
<1>2. IsFiniteSet(1..n) /\ Cardinality(1..n) = n
  BY FS_Interval
<1>3. ASSUME NEW i \in 1..n
      PROVE  IsFiniteSet(UpTo(i)) /\ Cardinality(UpTo(i)) \in 1..n
  <2>1. UpTo(i) \in SUBSET (1..n) /\ UpTo(i) # {}
    OBVIOUS
  <2>2. IsFiniteSet(UpTo(i)) /\ Cardinality(UpTo(i)) <= n
    BY <1>2, <2>1, FS_Subset
  <2>3. Cardinality(UpTo(i)) \in Nat /\ Cardinality(UpTo(i)) # 0
    BY <2>1, <2>2, FS_CardinalityType, FS_EmptySet
  <2> QED
    BY <2>2, <2>3
<1>4. ASSUME NEW i \in 1..n, NEW j \in 1..n, Before(i, j)
      PROVE  rank[i] < rank[j]
  <2>1. UpTo(i) \in SUBSET UpTo(j)
    BY <1>1, <1>4
  <2>2. j \in UpTo(j) /\ j \notin UpTo(i)
    BY <1>1, <1>4
  <2> HIDE DEF UpTo
  <2>3. Cardinality(UpTo(i)) <= Cardinality(UpTo(j))
        /\ (Cardinality(UpTo(j)) = Cardinality(UpTo(i)) => UpTo(j) = UpTo(i))
    BY <1>3, <2>1, FS_Subset
  <2>4. Cardinality(UpTo(i)) \in Nat /\ Cardinality(UpTo(j)) \in Nat
    BY <1>3
  <2> QED
    BY <2>2, <2>3, <2>4
<1>5. rank \in [1..n -> 1..n]
  BY <1>3
<1> HIDE DEF UpTo, rank
<1>6. \A i, j \in 1..n : rank[i] = rank[j] => i = j
  <2> SUFFICES ASSUME NEW i \in 1..n, NEW j \in 1..n, i # j PROVE rank[i] # rank[j]
    OBVIOUS
  <2>1. rank[i] \in 1..n /\ rank[j] \in 1..n
    BY <1>5
  <2>2. rank[i] < rank[j] \/ rank[j] < rank[i]
    BY <1>1, <1>4
  <2> QED
    BY ONLY <2>1, <2>2
<1>7. \A k \in 1..n : \E i \in 1..n : rank[i] = k
  BY <1>5, <1>6, InjectionIsOnto
<1> DEFINE f == [k \in 1..n |-> CHOOSE i \in 1..n : rank[i] = k]
<1>8. \A k \in 1..n : f[k] \in 1..n /\ rank[f[k]] = k
  BY <1>7
<1>9. f \in [1..n -> 1..n]
  BY <1>8
<1> HIDE DEF f
<1>10. ASSUME NEW i \in 1..n, NEW j \in 1..n, i < j PROVE Before(f[i], f[j])
  <2>1. /\ f[i] \in 1..n /\ f[j] \in 1..n
        /\ rank[f[i]] = i /\ rank[f[j]] = j
    BY <1>8
  <2>2. Before(f[j], f[i]) => j < i
    BY <1>4, <2>1
  <2>3. ~Before(f[j], f[i]) /\ f[i] # f[j]
    BY <1>10, <2>1, <2>2
  <2> QED
    BY <1>1, <2>1, <2>3
<1> QED
  BY <1>9, <1>10 DEF Before

(* A strictly ordered listing of the places leaves none out. *)
LEMMA SortingOrderIsOnto ==
    ASSUME NEW n \in Nat, NEW stamps \in [1..n -> Nat], NEW f \in [1..n -> 1..n],
           \A i, j \in 1..n : i < j => Precedes(stamps, f[i], f[j])
    PROVE  \A k \in 1..n : \E i \in 1..n : f[i] = k
<1>1. \A i, j \in 1..n : f[i] = f[j] => i = j
  <2>1. \A i, j \in 1..n : i # j => i < j \/ j < i
    OBVIOUS
  <2> QED
    BY <2>1, PrecedesIsStrictOrder
<1> QED
  BY <1>1, InjectionIsOnto

-----------------------------------------------------------------------------
(* Lists of snapshots. *)
IsList(s) == s \in Seq(ToSet(s))

Snapshots(s) == IsList(s) /\ \A x \in ToSet(s) : IsSnapshot(x)

(* A list is the function of its places, *)
LEMMA ListFacts ==
    ASSUME NEW s, IsList(s)
    PROVE  Len(s) \in Nat /\ DOMAIN s = 1..Len(s) /\ s = [i \in 1..Len(s) |-> s[i]]
BY DEF IsList

(* and such a function is a list. *)
LEMMA FunctionIsList ==
    ASSUME NEW n \in Nat, NEW s, s = [i \in 1..n |-> s[i]]
    PROVE  IsList(s) /\ Len(s) = n /\ DOMAIN s = 1..n
<1>1. \A i \in 1..n : s[i] \in ToSet(s)
  BY DEF ToSet
<1>2. s \in [1..n -> ToSet(s)]
  BY <1>1
<1>3. s \in Seq(ToSet(s))
  BY ONLY <1>2
<1> QED
  BY <1>2, <1>3 DEF IsList

(* The IDs in a list are those of its elements. *)
LEMMA IdsOfElements ==
    ASSUME NEW s
    PROVE  IdsIn(s) = {x.id : x \in ToSet(s)}
BY DEF IdsIn, ToSet

(* Sorting loses, repeats and invents nothing. *)
LEMMA LatestStampFirstSorts ==
    ASSUME NEW s, IsList(s), \A i \in DOMAIN s : s[i].id \in Ids
    PROVE  LET t == LatestStampFirst(s)
           IN  /\ IsList(t) /\ Len(t) = Len(s) /\ ToSet(t) = ToSet(s)
               /\ \A i, j \in DOMAIN t : i < j => StampOf[t[i].id] >= StampOf[t[j].id]
<1> DEFINE n == Len(s)
           stamps == [i \in DOMAIN s |-> StampOf[s[i].id]]
           Sorts(f) == \A i, j \in DOMAIN s : i < j => Precedes(stamps, f[i], f[j])
           order == CHOOSE f \in [DOMAIN s -> DOMAIN s] : Sorts(f)
           t == LatestStampFirst(s)
<1>1. n \in Nat /\ DOMAIN s = 1..n
  BY ListFacts
<1>2. stamps \in [1..n -> Nat]
  BY <1>1, PublisherAssumption DEF PublisherAssumption
<1>3. t = [i \in 1..n |-> s[order[i]]]
  BY <1>1 DEF LatestStampFirst
<1> HIDE DEF stamps, t, n
<1>4. \E f \in [DOMAIN s -> DOMAIN s] : Sorts(f)
  BY <1>1, <1>2, SortingOrderExists
<1>5. order \in [1..n -> 1..n] /\ Sorts(order)
  BY <1>1, <1>4
<1> HIDE DEF order
<1>6. \A k \in 1..n : \E i \in 1..n : order[i] = k
  BY <1>1, <1>2, <1>5, SortingOrderIsOnto
<1>7. IsList(t) /\ Len(t) = n /\ DOMAIN t = 1..n
  BY <1>1, <1>3, FunctionIsList
<1>8. ToSet(t) = ToSet(s)
  BY <1>1, <1>3, <1>5, <1>6, <1>7 DEF ToSet
<1>9. ASSUME NEW i \in 1..n, NEW j \in 1..n, i < j
      PROVE  StampOf[t[i].id] >= StampOf[t[j].id]
  <2>1. order[i] \in 1..n /\ order[j] \in 1..n /\ Precedes(stamps, order[i], order[j])
    BY <1>1, <1>5, <1>9
  <2>2. stamps[order[i]] >= stamps[order[j]]
    BY <1>2, <2>1 DEF Precedes
  <2>3. /\ stamps[order[i]] = StampOf[s[order[i]].id]
        /\ stamps[order[j]] = StampOf[s[order[j]].id]
    BY <1>1, <2>1 DEF stamps
  <2> QED
    BY <1>3, <2>2, <2>3
<1> QED
  BY <1>7, <1>8, <1>9 DEF t, n

(* The front page names the first of a mode. *)
LEMMA LatestIsFirst ==
    ASSUME NEW s, IsList(s), NEW mode \in Modes, PublishedOf(s, mode) # {}
    PROVE  \E i \in PublishedOf(s, mode) :
               /\ LatestByMode(s)[mode] = s[i].id
               /\ \A j \in PublishedOf(s, mode) : i <= j
<1> DEFINE places == PublishedOf(s, mode)
           first == CHOOSE i \in places : \A j \in places : i <= j
<1>1. places \in SUBSET Nat
  BY ListFacts DEF PublishedOf
<1> HIDE DEF places
<1>2. \E i \in places : \A j \in places : i <= j
  BY <1>1, FirstExists DEF places
<1>3. first \in places /\ \A j \in places : first <= j
  BY <1>2
<1>4. LatestByMode(s)[mode] = s[first].id
  BY DEF LatestByMode, places
<1> QED
  BY <1>3, <1>4 DEF places

(* A run whose timestamp is the greater text, or the same, is no older but *)
(* for the clocks: otherwise the wall it was taken by would say so, and    *)
(* the text with it.                                                       *)
LEMMA StampsShowTime ==
    ASSUME NEW a \in Ids, NEW b \in Ids, StampOf[a] >= StampOf[b]
    PROVE  NoOlder(a, b)
<1>1. /\ StampOf[a] \in Nat /\ TimeOf[a] \in Nat /\ OffsetOf[a] \in Int
      /\ StampOf[b] \in Nat /\ TimeOf[b] \in Nat /\ OffsetOf[b] \in Int
      /\ TimeOf[b] + OffsetOf[b] > TimeOf[a] + OffsetOf[a] => StampOf[b] > StampOf[a]
  BY PublisherAssumption DEF PublisherAssumption
<1> QED
  BY <1>1 DEF NoOlder

(* Whatever snapshots it is made of, the site's data shows exactly them. *)
LEMMA SiteDataShows ==
    ASSUME NEW ids, IsList(ids), NEW g, NEW s, s = [i \in DOMAIN ids |-> s[i]],
           \A i \in DOMAIN ids : s[i].id = ids[i] /\ ids[i] \in Ids
    PROVE  /\ Shows(SiteData(g, s), ids)
           /\ IsList(s) /\ IsList(SiteData(g, s).snapshots)
           /\ ToSet(SiteData(g, s).snapshots) = ToSet(s)
<1> DEFINE t == LatestStampFirst(s)
<1>1. IsList(s) /\ Len(s) = Len(ids) /\ DOMAIN s = DOMAIN ids
  BY ListFacts, FunctionIsList
<1>2. /\ IsList(t) /\ Len(t) = Len(s) /\ ToSet(t) = ToSet(s)
      /\ \A i, j \in DOMAIN t : i < j => StampOf[t[i].id] >= StampOf[t[j].id]
  BY <1>1, LatestStampFirstSorts
<1>3. SiteData(g, s).snapshots = t /\ SiteData(g, s).latest = LatestByMode(t)
  BY DEF SiteData
<1> HIDE DEF t
<1>4. IdsIn(t) = ToSet(ids)
  <2>1. IdsIn(t) = IdsIn(s)
    BY <1>2, IdsOfElements
  <2> QED
    BY <1>1, <2>1 DEF IdsIn, ToSet
<1>5. \A i \in DOMAIN t : t[i].id \in Ids
  BY <1>4 DEF IdsIn, ToSet
<1>6. ASSUME NEW i \in DOMAIN t, NEW j \in DOMAIN t, i < j
       PROVE  NoOlder(t[i].id, t[j].id)
  BY <1>2, <1>5, <1>6, StampsShowTime
<1>7. ASSUME NEW mode \in Modes, PublishedOf(t, mode) # {}
      PROVE  \E i \in PublishedOf(t, mode) :
                 /\ LatestByMode(t)[mode] = t[i].id
                 /\ \A j \in PublishedOf(t, mode) : NoOlder(t[i].id, t[j].id)
  <2>1. PICK i \in PublishedOf(t, mode) :
            /\ LatestByMode(t)[mode] = t[i].id
            /\ \A j \in PublishedOf(t, mode) : i <= j
    BY <1>2, <1>7, LatestIsFirst
  <2>2. ASSUME NEW j \in PublishedOf(t, mode)
        PROVE  NoOlder(t[i].id, t[j].id)
    <3>1. i \in DOMAIN t /\ j \in DOMAIN t /\ i <= j
      BY <2>1 DEF PublishedOf
    <3>2. i \in Nat /\ j \in Nat
      BY <1>2, <3>1, ListFacts
    <3>3. t[j].id \in Ids
      BY <1>5, <3>1
    <3>4. NoOlder(t[j].id, t[j].id)
      BY <3>3, PublisherAssumption DEF PublisherAssumption, NoOlder
    <3>5. CASE i = j
      BY <3>4, <3>5
    <3>6. CASE i < j
      BY <1>6, <3>1, <3>6
    <3> QED
      BY <3>1, <3>2, <3>5, <3>6
  <2> QED
    BY <2>1, <2>2
<1> DEFINE content == SiteData(g, s)
<1> HIDE DEF content
<1>8. content.snapshots = t /\ content.latest = LatestByMode(t)
  BY <1>3 DEF content
<1>9. Len(t) = Len(ids)
  BY <1>1, <1>2
<1>10. Shows(content, ids)
  BY ONLY <1>4, <1>6, <1>7, <1>8, <1>9 DEF Shows
<1> QED
  BY <1>1, <1>2, <1>8, <1>10 DEF content
-----------------------------------------------------------------------------
(* What becomes of one snapshot. *)
LEMMA NormalizeKeeps ==
    ASSUME NEW x, IsSnapshot(x)
    PROVE  LET y == NormalizeSnapshot(x)
           IN  /\ IsSnapshot(y) /\ NormalizeSnapshot(y) = y
               /\ y.id = x.id /\ y.dirty = x.dirty /\ y.state = x.state /\ y.rows = x.rows
<1> DEFINE primary == IF x.primary = "" THEN SelectPrimaryMetricKey(x.rows) ELSE x.primary
           best == BestBy(x.rows, primary)
           y == NormalizeSnapshot(x)
<1>1. primary # ""
  BY DEF SelectPrimaryMetricKey
<1>2. y = [x EXCEPT !.primary = primary, !.best = best]
  BY DEF NormalizeSnapshot
<1>3. y = [field \in SnapshotFields |-> IF field = "primary" THEN primary
                                        ELSE IF field = "best" THEN best ELSE x[field]]
  BY <1>2 DEF IsSnapshot, SnapshotFields
<1> HIDE DEF primary, y
<1>4. /\ y.primary = primary /\ y.best = best
      /\ \A field \in SnapshotFields \ {"primary", "best"} : y[field] = x[field]
  BY <1>3 DEF SnapshotFields
<1>5. /\ y.id = x.id /\ y.dirty = x.dirty /\ y.state = x.state /\ y.rows = x.rows
  BY <1>4 DEF SnapshotFields
<1>6. y = [field \in SnapshotFields |-> y[field]]
  BY <1>3
<1>7. NormalizeSnapshot(y) = [y EXCEPT !.primary = y.primary, !.best = y.best]
  BY <1>1, <1>4, <1>5 DEF NormalizeSnapshot
<1>8. NormalizeSnapshot(y) = y
  BY <1>6, <1>7
<1> QED
  BY <1>5, <1>6, <1>8 DEF IsSnapshot, y

(* build_snapshot gives a snapshot that needs no normalisation. *)
LEMMA BuildIsSnapshot ==
    ASSUME NEW id \in Ids, NEW j, j.meta.dirty \in DirtyStates
    PROVE  LET b == BuildSnapshot(id, j)
           IN  /\ IsSnapshot(b) /\ NormalizeSnapshot(b) = b
               /\ b.id = id /\ b.dirty = j.meta.dirty /\ b.state = "published"
<1> DEFINE b == BuildSnapshot(id, j)
           rows == [s \in DOMAIN j.summary |-> SimplifyRow(j.summary[s])]
           primary == SelectPrimaryMetricKey(rows)
           best == BestBy(rows, primary)
<1>1. b = [id |-> id, mode |-> j.meta.mode, dirty |-> j.meta.dirty, state |-> "published",
           source |-> "result-summary", rows |-> rows, primary |-> primary, best |-> best]
  BY DEF BuildSnapshot
<1>2. primary # ""
  BY DEF SelectPrimaryMetricKey
<1> HIDE DEF b, rows, primary, best
<1>3. IsSnapshot(b) /\ b.id = id /\ b.dirty = j.meta.dirty /\ b.state = "published"
  BY <1>1 DEF IsSnapshot, SnapshotFields
<1>4. b.rows = rows /\ b.primary = primary /\ b.best = best
  BY <1>1
<1>5. best = BestBy(rows, primary)
  BY DEF best
<1>6. NormalizeSnapshot(b) = [b EXCEPT !.primary = b.primary, !.best = b.best]
  BY <1>2, <1>4, <1>5 DEF NormalizeSnapshot
<1>7. NormalizeSnapshot(b) = b
  BY <1>1, <1>6
<1> QED
  BY <1>3, <1>7 DEF b

(* Publishing a normalised snapshot changes its state only. *)
LEMMA PublishKeeps ==
    ASSUME NEW x, IsSnapshot(x), NormalizeSnapshot(x) = x
    PROVE  LET y == [x EXCEPT !.state = "published"]
           IN  /\ IsSnapshot(y) /\ NormalizeSnapshot(y) = y
               /\ y.id = x.id /\ y.dirty = x.dirty /\ y.rows = x.rows /\ y.state = "published"
<1> DEFINE y == [x EXCEPT !.state = "published"]
<1>1. y = [field \in SnapshotFields |-> IF field = "state" THEN "published" ELSE x[field]]
  BY DEF IsSnapshot, SnapshotFields
<1> HIDE DEF y
<1>2. /\ y.id = x.id /\ y.dirty = x.dirty /\ y.rows = x.rows /\ y.state = "published"
      /\ y.primary = x.primary /\ y.best = x.best
  BY <1>1 DEF SnapshotFields
<1>3. y = [field \in SnapshotFields |-> y[field]]
  BY <1>1
<1> DEFINE primary == IF x.primary = "" THEN SelectPrimaryMetricKey(x.rows) ELSE x.primary
           best == BestBy(x.rows, primary)
<1>4. x = [x EXCEPT !.primary = primary, !.best = best]
  BY DEF NormalizeSnapshot
<1>5. x = [field \in SnapshotFields |-> x[field]]
  BY DEF IsSnapshot
<1> HIDE DEF primary, best
<1>6. x.primary = primary /\ x.best = best
  BY <1>4, <1>5 DEF SnapshotFields
<1>7. NormalizeSnapshot(y) = [y EXCEPT !.primary = primary, !.best = best]
  BY <1>2 DEF NormalizeSnapshot, primary, best
<1>8. NormalizeSnapshot(y) = y
  BY <1>2, <1>3, <1>6, <1>7
<1> QED
  BY <1>2, <1>3, <1>8 DEF IsSnapshot, y

(* Find returns a snapshot that has the ID. *)
LEMMA FindFinds ==
    ASSUME NEW s, NEW id \in IdsIn(s)
    PROVE  Find(s, id).id = id /\ Find(s, id) \in ToSet(s)
<1>1. \E i \in DOMAIN s : s[i].id = id
  BY DEF IdsIn
<1> QED
  BY <1>1 DEF Find, ToSet
-----------------------------------------------------------------------------
(* What becomes of all of them. *)
LEMMA IdListFacts ==
    ASSUME NEW ids \in Seq(Ids)
    PROVE  IsList(ids) /\ \A i \in DOMAIN ids : ids[i] \in Ids
<1>1. /\ Len(ids) \in Nat /\ ids = [i \in 1..Len(ids) |-> ids[i]] /\ DOMAIN ids = 1..Len(ids)
      /\ \A i \in DOMAIN ids : ids[i] \in Ids
  OBVIOUS
<1> QED
  BY <1>1, FunctionIsList

(* A build without refresh. *)
LEMMA NormalizedData ==
    ASSUME NEW content, Snapshots(content.snapshots), NEW ids \in Seq(Ids),
           ToSet(ids) \subseteq IdsIn(content.snapshots)
    PROVE  LET fresh == NormalizeSiteData(content, ids)
           IN  /\ Snapshots(fresh.snapshots) /\ Shows(fresh, ids)
               /\ \A x \in ToSet(fresh.snapshots) :
                      \E y \in ToSet(content.snapshots) :
                          x = NormalizeSnapshot(y) /\ x.id = y.id /\ x.dirty = y.dirty
<1> DEFINE One(i) == NormalizeSnapshot(Find(content.snapshots, ids[i]))
           s == [i \in DOMAIN ids |-> One(i)]
           fresh == NormalizeSiteData(content, ids)
<1>1. fresh = SiteData(content.generated, s)
  BY DEF NormalizeSiteData
<1>2. ASSUME NEW i \in DOMAIN ids
      PROVE  /\ IsSnapshot(One(i)) /\ One(i).id = ids[i]
             /\ \E y \in ToSet(content.snapshots) :
                    One(i) = NormalizeSnapshot(y) /\ One(i).id = y.id /\ One(i).dirty = y.dirty
  <2> DEFINE y == Find(content.snapshots, ids[i])
  <2>1. ids[i] \in IdsIn(content.snapshots)
    BY DEF ToSet
  <2>2. y.id = ids[i] /\ y \in ToSet(content.snapshots)
    BY <2>1, FindFinds
  <2>3. IsSnapshot(y)
    BY <2>2 DEF Snapshots
  <2> HIDE DEF y
  <2>4. /\ IsSnapshot(NormalizeSnapshot(y)) /\ NormalizeSnapshot(y).id = y.id
        /\ NormalizeSnapshot(y).dirty = y.dirty
    BY <2>3, NormalizeKeeps
  <2> QED
    BY <2>2, <2>4 DEF y
<1> HIDE DEF One, fresh
<1>3. s = [i \in DOMAIN ids |-> s[i]] /\ \A i \in DOMAIN ids : s[i] = One(i)
  OBVIOUS
<1> HIDE DEF s
<1>4. IsList(ids) /\ \A i \in DOMAIN ids : ids[i] \in Ids
  BY IdListFacts
<1>5. \A i \in DOMAIN ids : s[i].id = ids[i] /\ ids[i] \in Ids
  BY <1>2, <1>3, <1>4
<1>6. /\ Shows(fresh, ids) /\ IsList(fresh.snapshots)
      /\ ToSet(fresh.snapshots) = ToSet(s)
  BY <1>1, <1>3, <1>4, <1>5, SiteDataShows
<1>7. \A x \in ToSet(s) : \E i \in DOMAIN ids : x = One(i)
  BY <1>3 DEF ToSet
<1> QED
  BY <1>2, <1>6, <1>7 DEF Snapshots, fresh

(* The committed snapshots there are. *)
DataIsTyped ==
    /\ \A id \in Ids : results[id] \subseteq Captures[id]
    /\ \A content \in data : Snapshots(content.snapshots)

(* What the builder reads of the committed data. *)
LEMMA ExistingFacts ==
    ASSUME DataIsTyped
    PROVE  /\ Snapshots(Existing)
           /\ data # {} => Content(data) \in data /\ Existing = Content(data).snapshots
           /\ data = {} => IdsIn(Existing) = {}
<1>1. CASE data = {}
  <2>1. Existing = <<>>
    BY <1>1 DEF Existing
  <2>2. ToSet(<<>>) = {} /\ IdsIn(<<>>) = {}
    BY DEF ToSet, IdsIn
  <2>3. Snapshots(<<>>)
    BY <2>2 DEF Snapshots, IsList
  <2> QED
    BY <1>1, <2>1, <2>2, <2>3
<1>2. CASE data # {}
  <2>1. Content(data) \in data /\ Existing = Content(data).snapshots
    BY <1>2 DEF Content, Existing
  <2> QED
    BY <1>2, <2>1 DEF DataIsTyped
<1> QED
  BY <1>1, <1>2

(* A refreshed snapshot: the committed one but for its headline, or one    *)
(* built from results that say they are clean, or are allowed not to.      *)
LEMMA RefreshedFacts ==
    ASSUME DataIsTyped, NEW id \in Ids, Refreshable(id)
    PROVE  LET x == Refreshed(id)
           IN  /\ IsSnapshot(x) /\ NormalizeSnapshot(x) = x /\ x.id = id
               /\ KeepsExisting(id) =>
                      \E old \in ToSet(Existing) :
                          old.id = id /\ old.rows = x.rows /\ old.dirty = x.dirty
               /\ ~KeepsExisting(id) =>
                      \/ x.dirty = "false"
                      \/ x.dirty = "true" /\ flags.allowDirty
                      \/ x.dirty = "absent" /\ flags.allowLegacy
<1> DEFINE x == Refreshed(id)
<1>1. CASE KeepsExisting(id)
  <2> DEFINE old == Find(Existing, id)
             y == NormalizeSnapshot(old)
  <2>1. id \in IdsIn(Existing)
    BY <1>1 DEF KeepsExisting
  <2>2. old.id = id /\ old \in ToSet(Existing)
    BY <2>1, FindFinds
  <2>3. IsSnapshot(old)
    BY <2>2, ExistingFacts DEF Snapshots
  <2>4. x = [y EXCEPT !.state = "published"]
    BY <1>1 DEF Refreshed
  <2> HIDE DEF old, x
  <2>5. /\ IsSnapshot(y) /\ NormalizeSnapshot(y) = y
        /\ y.id = old.id /\ y.dirty = old.dirty /\ y.rows = old.rows
    BY <2>3, NormalizeKeeps
  <2> HIDE DEF y
  <2>6. /\ IsSnapshot(x) /\ NormalizeSnapshot(x) = x
        /\ x.id = y.id /\ x.dirty = y.dirty /\ x.rows = y.rows
    BY <2>4, <2>5, PublishKeeps
  <2> QED
    BY <1>1, <2>2, <2>5, <2>6 DEF x
<1>2. CASE ~KeepsExisting(id)
  <2> DEFINE j == Content(results[id])
  <2>1. results[id] # {} /\ RequireClean(j.meta.dirty)
    BY <1>2 DEF Refreshable
  <2>2. j \in Captures[id]
    BY <2>1 DEF Content, DataIsTyped
  <2>3. j.meta.dirty \in DirtyStates
    BY <2>2, PublisherAssumption DEF PublisherAssumption
  <2>4. x = BuildSnapshot(id, j)
    BY <1>2 DEF Refreshed
  <2> HIDE DEF j, x
  <2>5. IsSnapshot(x) /\ NormalizeSnapshot(x) = x /\ x.id = id /\ x.dirty = j.meta.dirty
    BY <2>3, <2>4, BuildIsSnapshot
  <2> QED
    BY <1>2, <2>1, <2>3, <2>5 DEF RequireClean, DirtyStates, x
<1> QED
  BY <1>1, <1>2

(* A build with refresh; and a build without that follows it changes       *)
(* nothing.                                                                *)
LEMMA RefreshedData ==
    ASSUME DataIsTyped, Asked \in Seq(Ids), CanRefresh
    PROVE  LET fresh == PublishedSiteData
           IN  /\ Snapshots(fresh.snapshots) /\ Shows(fresh, Asked) /\ Reproduced(fresh, Asked)
               /\ \A x \in ToSet(fresh.snapshots) : \E id \in ToSet(Asked) : x = Refreshed(id)
<1> DEFINE ids == Asked
           s == [i \in DOMAIN ids |-> Refreshed(ids[i])]
           fresh == PublishedSiteData
<1>1. PICK g : fresh = SiteData(g, s)
  BY DEF PublishedSiteData
<1> HIDE DEF ids, fresh
<1>2. IsList(ids) /\ \A i \in DOMAIN ids : ids[i] \in Ids
  BY IdListFacts DEF ids
<1>3. \A id \in ToSet(ids) : id \in Ids /\ Refreshable(id)
  BY <1>2 DEF CanRefresh, ids, ToSet
<1>4. \A id \in ToSet(ids) :
          /\ IsSnapshot(Refreshed(id)) /\ NormalizeSnapshot(Refreshed(id)) = Refreshed(id)
          /\ Refreshed(id).id = id
  BY <1>3, RefreshedFacts
<1>5. s = [i \in DOMAIN ids |-> s[i]] /\ \A i \in DOMAIN ids : s[i] = Refreshed(ids[i])
  OBVIOUS
<1>6. \A i \in DOMAIN ids : ids[i] \in ToSet(ids)
  BY DEF ToSet
<1>7. \A i \in DOMAIN ids : s[i].id = ids[i] /\ ids[i] \in Ids
  BY <1>2, <1>4, <1>5, <1>6
<1> HIDE DEF s
<1>8. /\ Shows(fresh, ids) /\ IsList(fresh.snapshots)
      /\ ToSet(fresh.snapshots) = ToSet(s)
  BY <1>1, <1>2, <1>5, <1>7, SiteDataShows
<1>9. \A x \in ToSet(fresh.snapshots) : \E id \in ToSet(ids) : x = Refreshed(id)
  BY <1>5, <1>6, <1>8 DEF ToSet
<1>10. Snapshots(fresh.snapshots)
  BY <1>4, <1>8, <1>9 DEF Snapshots
<1>11. IdsIn(fresh.snapshots) = ToSet(ids)
  BY <1>8 DEF Shows
<1>12. CanNormalize(fresh, ids)
  BY <1>11 DEF CanNormalize, IdsIn
<1>13. ASSUME NEW i \in DOMAIN ids
       PROVE  NormalizeSnapshot(Find(fresh.snapshots, ids[i])) = s[i]
  <2>1. /\ Find(fresh.snapshots, ids[i]) \in ToSet(fresh.snapshots)
        /\ Find(fresh.snapshots, ids[i]).id = ids[i]
    BY <1>6, <1>11, FindFinds
  <2>2. Find(fresh.snapshots, ids[i]) = Refreshed(ids[i])
    BY <1>4, <1>9, <2>1
  <2> QED
    BY <1>4, <1>5, <1>6, <2>2
<1>14. NormalizeSiteData(fresh, ids) = SiteData(fresh.generated, s)
  BY <1>5, <1>13 DEF NormalizeSiteData
<1>15. fresh.generated = g
  BY <1>1 DEF SiteData
<1> QED
  BY <1>1, <1>8, <1>9, <1>10, <1>12, <1>14, <1>15 DEF Reproduced, fresh, ids
-----------------------------------------------------------------------------
(* Whatever is committed, loaded or on the site is made of snapshots, and  *)
(* one that is not known to be clean was let in for what it is, published  *)
(* or not: a preview that is promoted later needs no second look.          *)
Accounted(content) ==
    /\ Snapshots(content.snapshots)
    /\ \A x \in ToSet(content.snapshots) :
           x.dirty # "false" => <<x.id, x.dirty>> \in consented

First == SiteData(0, Committed)

ContentInv == \A content \in data \union dist \union loaded \union {First} : Accounted(content)

(* What a build has loaded shows the IDs it was asked for, and so does the *)
(* site once it is whole.                                                  *)
ShownInv ==
    /\ \A content \in loaded : Shows(content, Asked)
    /\ complete => \A content \in dist : Shows(content, shownFor)

(* Refreshed data is a fixed point of a build without refresh.             *)
SavedInv ==
    /\ pc = "saving" => \A content \in loaded : Reproduced(content, Asked)
    /\ savedFor # <<>> => \A content \in data : Reproduced(content, savedFor)

(* The inductive invariant. *)
PublisherInv == TypeOK /\ ContentInv /\ ShownInv /\ SavedInv

(* Snapshots have IDs that can be asked for. *)
LEMMA ContentIdsAreIds ==
    ASSUME NEW content, Snapshots(content.snapshots)
    PROVE  IdsIn(content.snapshots) \subseteq Ids
BY IdsOfElements DEF Snapshots, IsSnapshot

(* What is accounted for stays so. *)
LEMMA ConsentOnlyGrows ==
    ASSUME NEW content, Accounted(content), consented \subseteq consented'
    PROVE  Accounted(content)'
BY DEF Accounted, Snapshots, IsList, IsSnapshot

(* The committed data at first. *)
LEMMA CommittedData ==
    Snapshots(First.snapshots) /\ ToSet(First.snapshots) = ToSet(Committed)
<1>1. IsList(Committed) /\ \A s \in ToSet(Committed) : IsSnapshot(s)
  BY PublisherAssumption DEF PublisherAssumption, IsList
<1>2. \A i \in DOMAIN Committed : Committed[i].id \in Ids
  BY <1>1 DEF IsSnapshot, ToSet
<1>3. First.snapshots = LatestStampFirst(Committed)
  BY DEF SiteData, First
<1> QED
  BY <1>1, <1>2, <1>3, LatestStampFirstSorts DEF Snapshots

(* The committed data is accounted for, and no site is there. *)
LEMMA InitHolds == ASSUME Init PROVE PublisherInv
<1>1. Snapshots(First.snapshots) /\ ToSet(First.snapshots) = ToSet(Committed)
  BY CommittedData
<1>2. data = {First} /\ dist = {} /\ loaded = {}
  BY DEF Init, First
<1>3. ContentInv
  <2>1. ASSUME NEW x \in ToSet(Committed), x.dirty # "false"
        PROVE  <<x.id, x.dirty>> \in consented
    BY <2>1 DEF Init, ToSet
  <2> QED
    BY <1>1, <1>2, <2>1 DEF ContentInv, Accounted
<1>4. TypeOK
  <2>1. NoFlags \in Flags /\ MaxBuilds \in Nat
    BY PublisherAssumption DEF PublisherAssumption, NoFlags, Flags
  <2>2. 0 \in 0..MaxBuilds
    BY <2>1
  <2>3. IdsIn(First.snapshots) \subseteq Ids
    BY <1>1, ContentIdsAreIds
  <2>4. manifest \in Manifests /\ results = [id \in Ids |-> {}]
    BY DEF Init
  <2>5. /\ flags = NoFlags /\ pc = "idle" /\ builds = 0 /\ tornData = FALSE /\ complete = FALSE
    BY DEF Init
  <2>6. /\ tornData \in BOOLEAN /\ (tornData <=> data = {})
        /\ loaded # {} <=> pc \in {"saving", "writing"}
    BY <1>2, <2>5
  <2>7. \A content \in data \union dist \union loaded : IdsIn(content.snapshots) \subseteq Ids
    BY <1>2, <2>3
  <2>8. /\ results \in [Ids -> SUBSET UNION {Captures[id] : id \in Ids}]
        /\ \A id \in Ids : results[id] \subseteq Captures[id]
    BY <2>4
  <2> QED
    BY <2>1, <2>2, <2>4, <2>5, <2>6, <2>7, <2>8 DEF TypeOK
<1>5. ShownInv /\ SavedInv
  BY <1>2 DEF Init, ShownInv, SavedInv
<1> QED
  BY <1>3, <1>4, <1>5 DEF PublisherInv

(* What the rest of the proof needs of the types. *)
LEMMA InvFacts ==
    ASSUME PublisherInv
    PROVE  /\ DataIsTyped
           /\ Asked \in Seq(Ids)
           /\ (pc \notin {"saving", "writing"} => loaded = {})
           /\ (complete => pc = "idle")
<1>1. manifest \in Seq(Ids) /\ flags.ids \in Seq(Ids)
  BY PublisherAssumption DEF PublisherAssumption, PublisherInv, TypeOK, Flags
<1>2. Asked \in Seq(Ids)
  BY <1>1 DEF Asked
<1> QED
  BY <1>2 DEF PublisherInv, TypeOK, ContentInv, Accounted, DataIsTyped

-----------------------------------------------------------------------------
(* Between two builds. *)
LEMMA InputsKeep ==
    ASSUME PublisherInv, \/ \E id \in Ids : Capture(id) \/ Discard(id)
                         \/ EditManifest
    PROVE  PublisherInv'
<1>1. pc = "idle" /\ UNCHANGED <<data, tornData, savedFor, dist, complete, shownFor, pc, flags,
                                 loaded, builds, consented>>
  BY DEF Capture, Discard, EditManifest, Between, dataVars, distVars
<1>2. loaded = {} /\ loaded' = {}
  BY <1>1, InvFacts
<1>3. TypeOK'
  <2>1. manifest' \in Manifests
    BY DEF PublisherInv, TypeOK, Capture, Discard, EditManifest
  <2>2. /\ results' \in [Ids -> SUBSET UNION {Captures[id] : id \in Ids}]
        /\ \A id \in Ids : results'[id] \subseteq Captures[id]
    BY DEF PublisherInv, TypeOK, Capture, Discard, EditManifest
  <2> QED
    BY <1>1, <2>1, <2>2 DEF PublisherInv, TypeOK
<1>4. ContentInv'
  BY <1>1, ConsentOnlyGrows DEF PublisherInv, ContentInv
<1>5. ShownInv'
  BY <1>1, <1>2 DEF PublisherInv, ShownInv
<1>6. SavedInv'
  BY <1>1 DEF PublisherInv, SavedInv
<1> QED
  BY <1>3, <1>4, <1>5, <1>6 DEF PublisherInv

(* A fresh checkout is the committed data again. *)
LEMMA RestoreKeeps ==
    ASSUME PublisherInv, Restore
    PROVE  PublisherInv'
<1>1. /\ pc = "idle" /\ savedFor' = <<>> /\ tornData' = FALSE /\ data' = {First}
      /\ UNCHANGED <<results, manifest, dist, complete, shownFor, pc, flags, loaded, builds,
                     consented>>
  BY DEF Restore, Between, inputVars, distVars, First
<1>2. loaded = {} /\ loaded' = {}
  BY <1>1, InvFacts
<1>3. ContentInv'
  BY <1>1, ConsentOnlyGrows DEF PublisherInv, ContentInv
<1>4. TypeOK'
  <2>1. IdsIn(First.snapshots) \subseteq Ids
    BY CommittedData, ContentIdsAreIds
  <2> QED
    BY <1>1, <2>1 DEF PublisherInv, TypeOK
<1>5. ShownInv' /\ SavedInv'
  BY <1>1, <1>2 DEF PublisherInv, ShownInv, SavedInv
<1> QED
  BY <1>3, <1>4, <1>5 DEF PublisherInv
-----------------------------------------------------------------------------
(* A build.  While the old site is removed, what is left of it shows       *)
(* nothing new, and does not count as a whole site.                        *)
LEMMA StartBuildKeeps ==
    ASSUME PublisherInv, StartBuild
    PROVE  PublisherInv'
<1>1. /\ pc = "idle" /\ pc' = "clearing" /\ flags' \in Flags
      /\ builds < MaxBuilds /\ builds' = builds + 1
      /\ dist' \subseteq dist /\ complete' = FALSE
      /\ UNCHANGED <<results, manifest, data, tornData, savedFor, loaded, consented>>
  BY DEF StartBuild, Between, inputVars, dataVars
<1>2. loaded = {} /\ loaded' = {}
  BY <1>1, InvFacts
<1>3. builds' \in 0..MaxBuilds
  <2>1. builds \in 0..MaxBuilds /\ MaxBuilds \in Nat
    BY PublisherAssumption DEF PublisherAssumption, PublisherInv, TypeOK
  <2> QED
    BY ONLY <1>1, <2>1
<1>4. TypeOK'
  BY <1>1, <1>2, <1>3 DEF PublisherInv, TypeOK
<1>5. ContentInv'
  BY <1>1, ConsentOnlyGrows DEF PublisherInv, ContentInv
<1>6. ShownInv' /\ SavedInv'
  BY <1>1, <1>2 DEF PublisherInv, ShownInv, SavedInv
<1> QED
  BY <1>4, <1>5, <1>6 DEF PublisherInv

LEMMA FinishClearingKeeps ==
    ASSUME PublisherInv, FinishClearing
    PROVE  PublisherInv'
<1>1. /\ pc = "clearing" /\ pc' = "cleared" /\ dist' = {}
      /\ UNCHANGED <<results, manifest, data, tornData, savedFor, complete, shownFor, flags,
                     loaded, builds, consented>>
  BY DEF FinishClearing, inputVars, dataVars
<1>2. loaded = {} /\ ~complete
  BY <1>1, InvFacts
<1>3. TypeOK'
  BY <1>1, <1>2 DEF PublisherInv, TypeOK
<1>4. ContentInv'
  BY <1>1, ConsentOnlyGrows DEF PublisherInv, ContentInv
<1>5. ShownInv' /\ SavedInv'
  BY <1>1, <1>2 DEF PublisherInv, ShownInv, SavedInv
<1> QED
  BY <1>3, <1>4, <1>5 DEF PublisherInv

(* The copy shows what the data shows, and does not count as a whole site. *)
LEMMA CopySourcesKeeps ==
    ASSUME PublisherInv, CopySources
    PROVE  PublisherInv'
<1>1. /\ pc = "cleared" /\ pc' = "copied" /\ dist' = data
      /\ UNCHANGED <<results, manifest, data, tornData, savedFor, complete, shownFor, flags,
                     loaded, builds, consented>>
  BY DEF CopySources, inputVars, dataVars
<1>2. loaded = {} /\ ~complete
  BY <1>1, InvFacts
<1>3. TypeOK'
  BY <1>1, <1>2 DEF PublisherInv, TypeOK
<1>4. ContentInv'
  BY <1>1, ConsentOnlyGrows DEF PublisherInv, ContentInv
<1>5. ShownInv' /\ SavedInv'
  BY <1>1, <1>2 DEF PublisherInv, ShownInv, SavedInv
<1> QED
  BY <1>3, <1>4, <1>5 DEF PublisherInv

(* Normalised data has no snapshot the committed data has not. *)
LEMMA LoadCommittedKeeps ==
    ASSUME PublisherInv, LoadCommitted
    PROVE  PublisherInv'
<1> DEFINE content == Content(data)
           fresh == NormalizeSiteData(content, Asked)
<1>1. /\ pc = "copied" /\ pc' = "writing" /\ loaded' = {fresh}
      /\ data # {} /\ CanNormalize(content, Asked)
      /\ UNCHANGED <<results, manifest, data, tornData, savedFor, dist, complete, shownFor,
                     flags, builds, consented>>
  BY DEF LoadCommitted, inputVars, dataVars, distVars
<1>2. ~complete /\ Asked \in Seq(Ids)
  BY <1>1, InvFacts
<1>3. content \in data /\ Accounted(content)
  BY <1>1 DEF Content, PublisherInv, ContentInv
<1> HIDE DEF content
<1>4. /\ Snapshots(fresh.snapshots) /\ Shows(fresh, Asked)
      /\ \A x \in ToSet(fresh.snapshots) :
             \E y \in ToSet(content.snapshots) : x.id = y.id /\ x.dirty = y.dirty
  BY <1>1, <1>2, <1>3, NormalizedData DEF CanNormalize, Accounted
<1> HIDE DEF fresh
<1>5. Accounted(fresh)
  BY <1>3, <1>4 DEF Accounted
<1>6. ContentInv'
  BY <1>1, <1>5, ConsentOnlyGrows DEF PublisherInv, ContentInv
<1>7. TypeOK'
  <2>1. IdsIn(fresh.snapshots) \subseteq Ids
    BY <1>4, ContentIdsAreIds
  <2> QED
    BY <1>1, <1>2, <2>1 DEF PublisherInv, TypeOK
<1>8. Asked' = Asked
  BY <1>1 DEF Asked
<1>9. ShownInv' /\ SavedInv'
  BY <1>1, <1>2, <1>4, <1>8 DEF PublisherInv, ShownInv, SavedInv
<1> QED
  BY <1>6, <1>7, <1>9 DEF PublisherInv

(* Every refreshed snapshot is clean, was accounted for before, or is      *)
(* allowed now.                                                            *)
LEMMA LoadRefreshedKeeps ==
    ASSUME PublisherInv, LoadRefreshed
    PROVE  PublisherInv'
<1> DEFINE fresh == PublishedSiteData
           allowed == {state \in {"true", "absent"} :
                          IF state = "true" THEN flags.allowDirty ELSE flags.allowLegacy}
<1>1. /\ pc = "copied" /\ pc' = "saving" /\ CanRefresh /\ loaded' = {fresh}
      /\ consented' = consented \union
             {<<s.id, s.dirty>> : s \in {t \in ToSet(fresh.snapshots) : t.dirty \in allowed}}
      /\ UNCHANGED <<results, manifest, data, tornData, savedFor, dist, complete, shownFor,
                     flags, builds>>
  BY DEF LoadRefreshed, inputVars, dataVars, distVars
<1>2. ~complete /\ Asked \in Seq(Ids) /\ DataIsTyped
  BY <1>1, InvFacts
<1>3. /\ Snapshots(fresh.snapshots) /\ Shows(fresh, Asked) /\ Reproduced(fresh, Asked)
      /\ \A x \in ToSet(fresh.snapshots) : \E id \in ToSet(Asked) : x = Refreshed(id)
  BY <1>1, <1>2, RefreshedData
<1> HIDE DEF fresh
<1>4. ASSUME NEW x \in ToSet(fresh.snapshots), x.dirty # "false"
      PROVE  <<x.id, x.dirty>> \in consented'
  <2>1. PICK id \in ToSet(Asked) : x = Refreshed(id)
    BY <1>3
  <2>2. id \in Ids /\ Refreshable(id)
    BY <1>1, <1>2 DEF CanRefresh, ToSet
  <2>3. CASE KeepsExisting(id)
    <3>1. PICK old \in ToSet(Existing) : old.id = x.id /\ old.dirty = x.dirty
      BY <1>2, <2>1, <2>2, <2>3, RefreshedFacts
    <3>2. data # {}
      BY <2>3, <1>2, ExistingFacts DEF KeepsExisting
    <3>3. Existing = Content(data).snapshots /\ Content(data) \in data
      BY <1>2, <3>2, ExistingFacts
    <3>4. Accounted(Content(data))
      BY <3>3 DEF PublisherInv, ContentInv
    <3>5. <<old.id, old.dirty>> \in consented
      BY <1>4, <3>1, <3>3, <3>4 DEF Accounted
    <3> QED
      BY <1>1, <3>1, <3>5
  <2>4. CASE ~KeepsExisting(id)
    <3>1. x.dirty \in allowed
      BY <1>2, <1>4, <2>1, <2>2, <2>4, RefreshedFacts
    <3> HIDE DEF allowed
    <3> QED
      BY <1>1, <3>1
  <2> QED
    BY <2>3, <2>4
<1>5. consented \subseteq consented'
  BY <1>1
<1>6. ASSUME NEW content \in (data \union dist \union loaded \union {First})'
      PROVE  Accounted(content)'
  <2>1. CASE content \in data \union dist \union {First}
    BY <1>5, <2>1, ConsentOnlyGrows DEF PublisherInv, ContentInv
  <2>2. CASE content = fresh
    BY <1>3, <1>4, <2>2 DEF Accounted, Snapshots, IsList, IsSnapshot
  <2>3. First' = First
    BY DEF First
  <2> QED
    BY <1>1, <1>6, <2>1, <2>2, <2>3
<1>7. ContentInv'
  BY <1>6 DEF ContentInv
<1>8. TypeOK'
  <2>1. IdsIn(fresh.snapshots) \subseteq Ids
    BY <1>3, ContentIdsAreIds
  <2> QED
    BY <1>1, <1>2, <2>1 DEF PublisherInv, TypeOK
<1>9. Asked' = Asked
  BY <1>1 DEF Asked
<1>10. ShownInv' /\ SavedInv'
  <2>1. \A content \in loaded' : Shows(content, Asked') /\ Reproduced(content, Asked')
    BY <1>1, <1>3, <1>9
  <2> QED
    BY <1>1, <1>2, <2>1 DEF PublisherInv, ShownInv, SavedInv
<1> QED
  BY <1>7, <1>8, <1>10 DEF PublisherInv

(* The data that is saved, or shown, is the data that was loaded. *)
LEMMA SaveDataKeeps ==
    ASSUME PublisherInv, SaveData
    PROVE  PublisherInv'
<1>1. /\ pc = "saving" /\ pc' = "writing" /\ data' = loaded /\ tornData' = FALSE /\ savedFor' = Asked
      /\ UNCHANGED <<results, manifest, dist, complete, shownFor, flags, loaded, builds, consented>>
  BY DEF SaveData, inputVars, distVars
<1>2. ~complete /\ loaded # {}
  BY <1>1, InvFacts DEF PublisherInv, TypeOK
<1>3. TypeOK'
  BY <1>1, <1>2 DEF PublisherInv, TypeOK
<1>4. ContentInv'
  BY <1>1, ConsentOnlyGrows DEF PublisherInv, ContentInv
<1>5. Asked' = Asked
  BY <1>1 DEF Asked
<1>6. ShownInv' /\ SavedInv'
  BY <1>1, <1>2, <1>5 DEF PublisherInv, ShownInv, SavedInv
<1> QED
  BY <1>3, <1>4, <1>6 DEF PublisherInv

(* What is written is what was loaded for the IDs asked for. *)
LEMMA WriteSiteKeeps ==
    ASSUME PublisherInv, WriteSite
    PROVE  PublisherInv'
<1>1. /\ pc = "writing" /\ dist' = loaded /\ complete' = TRUE /\ shownFor' = Asked
      /\ pc' = "idle" /\ flags' = NoFlags /\ loaded' = {}
      /\ UNCHANGED <<results, manifest, data, tornData, savedFor, builds, consented>>
  BY DEF WriteSite, Exit, inputVars, dataVars
<1>2. loaded # {} /\ NoFlags \in Flags
  BY <1>1, PublisherAssumption DEF PublisherInv, TypeOK, PublisherAssumption, NoFlags, Flags
<1>3. TypeOK'
  BY <1>1, <1>2 DEF PublisherInv, TypeOK
<1>4. ContentInv'
  BY <1>1, ConsentOnlyGrows DEF PublisherInv, ContentInv
<1>5. ShownInv' /\ SavedInv'
  BY <1>1 DEF PublisherInv, ShownInv, SavedInv
<1> QED
  BY <1>3, <1>4, <1>5 DEF PublisherInv

(* A build that is refused, or dies, leaves no whole site. *)
LEMMA GivingUpKeeps ==
    ASSUME PublisherInv, Refuse \/ Die
    PROVE  PublisherInv'
<1>1. /\ pc # "idle" /\ pc' = "idle" /\ flags' = NoFlags /\ loaded' = {}
      /\ \/ UNCHANGED <<data, tornData, savedFor>>
         \/ data' = {} /\ tornData' = TRUE /\ savedFor' = <<>>
      /\ dist' = dist \/ dist' \in {{}, loaded}
      /\ UNCHANGED <<results, manifest, complete, shownFor, builds, consented>>
  BY DEF Refuse, Die, Exit, inputVars, dataVars, distVars
<1>2. ~complete /\ NoFlags \in Flags
  BY <1>1, InvFacts, PublisherAssumption DEF PublisherAssumption, NoFlags, Flags
<1>3. data' \subseteq data /\ dist' \subseteq dist \union loaded
  BY <1>1
<1>4. TypeOK'
  <2>1. tornData' \in BOOLEAN /\ (tornData' <=> data' = {})
    <3>1. tornData \in BOOLEAN /\ (tornData <=> data = {})
      BY DEF PublisherInv, TypeOK
    <3>2. CASE UNCHANGED <<data, tornData>>
      BY ONLY <3>1, <3>2
    <3>3. CASE data' = {} /\ tornData' = TRUE
      BY ONLY <3>3
    <3> QED
      BY <1>1, <3>2, <3>3
  <2> QED
    BY <1>1, <1>2, <1>3, <2>1 DEF PublisherInv, TypeOK
<1>5. ContentInv'
  BY <1>1, <1>3, ConsentOnlyGrows DEF PublisherInv, ContentInv
<1>6. ShownInv' /\ SavedInv'
  BY <1>1, <1>2, <1>3 DEF PublisherInv, ShownInv, SavedInv
<1> QED
  BY <1>4, <1>5, <1>6 DEF PublisherInv

-----------------------------------------------------------------------------
(* A step of nobody. *)
LEMMA StutterKeeps ==
    ASSUME PublisherInv, UNCHANGED vars
    PROVE  PublisherInv'
<1> USE DEF vars, inputVars, dataVars, distVars
<1>1. TypeOK'
  BY DEF PublisherInv, TypeOK
<1>2. ContentInv'
  BY ConsentOnlyGrows DEF PublisherInv, ContentInv
<1>3. Asked' = Asked
  BY DEF Asked
<1>4. ShownInv' /\ SavedInv'
  BY <1>3 DEF PublisherInv, ShownInv, SavedInv
<1> QED
  BY <1>1, <1>2, <1>4 DEF PublisherInv

(* The invariant is inductive: it does not matter in what order results    *)
(* come and go, the manifest changes and builds run, fail and die.         *)
THEOREM PublisherInvariant == Spec => []PublisherInv
<1>1. Init => PublisherInv
  BY InitHolds
<1>2. PublisherInv /\ [Next]_vars => PublisherInv'
  BY InputsKeep, RestoreKeeps, StartBuildKeeps, FinishClearingKeeps, CopySourcesKeeps,
     LoadCommittedKeeps, LoadRefreshedKeeps, SaveDataKeeps, WriteSiteKeeps, GivingUpKeeps, StutterKeeps
  DEF Next
<1> QED
  BY <1>1, <1>2, PTL DEF Spec

(* Every state of the publisher is well formed. *)
THEOREM TypeCorrect == Spec => []TypeOK
BY PublisherInvariant, PTL DEF PublisherInv

(* No snapshot that is not known to be clean is published, in the data or  *)
(* on a whole site, that was not let in for what it is.                    *)
THEOREM PublishedIsAccountedFor == Spec => []OnlyCleanIsPromoted
<1>1. PublisherInv => OnlyCleanIsPromoted
  BY DEF PublisherInv, ContentInv, Accounted, OnlyCleanIsPromoted, Visible, ToSet
<1> QED
  BY <1>1, PublisherInvariant, PTL

(* A whole site shows what it was built for, no run behind an older one    *)
(* and the newest of each mode on its front page: but for the clocks they  *)
(* were taken by.                                                          *)
THEOREM WholeSiteIsTheManifest == Spec => []SiteIsTheManifest
<1>1. PublisherInv => SiteIsTheManifest
  BY DEF PublisherInv, ShownInv, SiteIsTheManifest
<1> QED
  BY <1>1, PublisherInvariant, PTL

(* A build without refresh reproduces a refresh for the same IDs, and      *)
(* loses no published snapshot for any.                                    *)
THEOREM BothPathsAgree == Spec => []PathsAgree
<1>1. ASSUME PublisherInv, NEW content \in data, CanNormalize(content, manifest),
             NEW i \in DOMAIN content.snapshots, content.snapshots[i].state = "published"
      PROVE  content.snapshots[i].id \in
                 IdsIn(NormalizeSiteData(content, manifest).snapshots)
  <2>1. Snapshots(content.snapshots)
    BY <1>1 DEF PublisherInv, ContentInv, Accounted
  <2>2. manifest \in Seq(Ids)
    BY <1>1, PublisherAssumption DEF PublisherAssumption, PublisherInv, TypeOK
  <2>3. Shows(NormalizeSiteData(content, manifest), manifest)
    BY <1>1, <2>1, <2>2, NormalizedData DEF CanNormalize
  <2>4. IdsIn(NormalizeSiteData(content, manifest).snapshots) = ToSet(manifest)
    BY <2>3 DEF Shows
  <2> QED
    BY <1>1, <2>4 DEF CanNormalize
<1>2. PublisherInv => PathsAgree
  BY <1>1 DEF PublisherInv, SavedInv, PathsAgree
<1> QED
  BY <1>2, PublisherInvariant, PTL

(* A refresh leaves the figures of the snapshots it has no fit results of. *)
THEOREM RefreshLeavesTheRest == Spec => RefreshKeepsTheRest
<1>1. ASSUME PublisherInv, [Next]_vars, pc = "copied", pc' = "saving"
      PROVE  RefreshesOnlyResults
  <2> DEFINE fresh == PublishedSiteData
             kept == {id \in ToSet(Asked) \intersect IdsIn(Existing) :
                          \A j \in results[id] : j.meta.dirty = "absent"}
  <2>1. LoadRefreshed
    BY <1>1 DEF Next, vars, Capture, Discard, EditManifest, Restore, StartBuild, FinishClearing,
               CopySources, LoadCommitted, Refuse, SaveData, WriteSite, Die, Exit, Between
  <2>2. CanRefresh /\ loaded' = {fresh} /\ Content(loaded') = fresh
    BY <2>1 DEF LoadRefreshed, Content
  <2>3. DataIsTyped /\ Asked \in Seq(Ids)
    BY <1>1, InvFacts
  <2>4. \A id \in ToSet(Asked) : id \in Ids /\ Refreshable(id)
    BY <2>2, <2>3 DEF CanRefresh, ToSet
  <2>5. \A id \in kept : KeepsExisting(id)
    BY DEF KeepsExisting, Content
  <2>6. ASSUME NEW i \in DOMAIN fresh.snapshots, fresh.snapshots[i].id \in kept
        PROVE  \E old \in ToSet(Existing) :
                   /\ old.id = fresh.snapshots[i].id
                   /\ old.rows = fresh.snapshots[i].rows
                   /\ old.dirty = fresh.snapshots[i].dirty
    <3> DEFINE x == fresh.snapshots[i]
    <3>1. x \in ToSet(fresh.snapshots)
      BY DEF ToSet
    <3>2. PICK id \in ToSet(Asked) : x = Refreshed(id)
      BY <2>2, <2>3, <3>1, RefreshedData
    <3>3. x.id = id
      BY <2>3, <2>4, <3>2, RefreshedFacts
    <3>4. KeepsExisting(id)
      BY <2>5, <2>6, <3>3
    <3> QED
      BY <2>3, <2>4, <3>2, <3>4, RefreshedFacts
  <2>7. ASSUME data # {}, ToSet(Asked) \subseteq kept
        PROVE  fresh.generated = Content(data).generated
    BY <2>5, <2>7 DEF PublishedSiteData, SiteData
  <2> HIDE DEF fresh, kept
  <2>8. \A i \in DOMAIN fresh.snapshots :
            fresh.snapshots[i].id \in kept =>
                \E old \in ToSet(Existing) :
                    /\ old.id = fresh.snapshots[i].id
                    /\ old.rows = fresh.snapshots[i].rows
                    /\ old.dirty = fresh.snapshots[i].dirty
    BY <2>6
  <2>9. (data # {} /\ ToSet(Asked) \subseteq kept) => fresh.generated = Content(data).generated
    BY <2>7
  <2>10. \A i \in DOMAIN Content(loaded').snapshots :
            Content(loaded').snapshots[i].id \in kept =>
                \E old \in ToSet(Existing) :
                    /\ old.id = Content(loaded').snapshots[i].id
                    /\ old.rows = Content(loaded').snapshots[i].rows
                    /\ old.dirty = Content(loaded').snapshots[i].dirty
    BY ONLY <2>2, <2>8
  <2>11. (data # {} /\ ToSet(Asked) \subseteq kept) =>
             Content(loaded').generated = Content(data).generated
    BY ONLY <2>2, <2>9
  <2> QED
    BY ONLY <2>10, <2>11 DEF RefreshesOnlyResults, kept
<1>2. PublisherInv /\ [Next]_vars => [RefreshesOnlyResults]_vars
  BY <1>1 DEF RefreshesOnlyResults
<1> QED
  BY <1>2, PublisherInvariant, PTL DEF Spec, RefreshKeepsTheRest
-----------------------------------------------------------------------------
(***************************************************************************)
(* The headline.  BestBy takes the greatest by value, requests per second  *)
(* and name; among finitely many rows there is one that none exceeds.      *)
(***************************************************************************)
Value(rows, key, s) == OrZero(rows[s][key])

(* A summary has finitely many rows, for there are finitely many names. *)
LEMMA RowsAreFinite ==
    ASSUME NEW rows, AreRows(rows)
    PROVE  IsFiniteSet(DOMAIN rows)
<1> DEFINE n == Len(NameOrder)
           place == [s \in DOMAIN rows |-> CHOOSE i \in 1..n : NameOrder[i] = s]
<1>1. n \in Nat /\ DOMAIN NameOrder = 1..n
  BY FiguresAssumption, ListFacts DEF FiguresAssumption, IsList
<1>2. \A s \in DOMAIN rows : \E i \in 1..n : NameOrder[i] = s
  BY <1>1 DEF AreRows, ToSet
<1>3. \A s \in DOMAIN rows : place[s] \in 1..n /\ NameOrder[place[s]] = s
  BY <1>2
<1> HIDE DEF place, n
<1>4. place \in Injection(DOMAIN rows, 1..n)
  BY <1>3 DEF Injection, IsInjective, place
<1>5. IsFiniteSet(1..n)
  BY <1>1, FS_Interval
<1> QED
  BY <1>4, <1>5, FS_Injection

(* The choice is among the rows, and none has a greater value, nor more    *)
(* requests per second at the same value.                                  *)
LEMMA BestByIsBest ==
    ASSUME NEW rows, AreRows(rows), DOMAIN rows # {}, NEW key \in {"per_core", "per_cpu_limit"}
    PROVE  LET b == BestBy(rows, key)
           IN  /\ b \in DOMAIN rows
               /\ \A t \in DOMAIN rows :
                      \/ Value(rows, key, b) > Value(rows, key, t)
                      \/ /\ Value(rows, key, b) = Value(rows, key, t)
                         /\ rows[b].req_s >= rows[t].req_s
<1> DEFINE S == DOMAIN rows
           v(s) == Value(rows, key, s)
           w(s) == rows[s].req_s
           p(s) == CHOOSE i \in DOMAIN NameOrder : NameOrder[i] = s
           R == {x \in S \X S :
                     \/ v(x[1]) > v(x[2])
                     \/ v(x[1]) = v(x[2]) /\ w(x[1]) > w(x[2])
                     \/ v(x[1]) = v(x[2]) /\ w(x[1]) = w(x[2]) /\ p(x[1]) < p(x[2])}
           Wins(s) == \A t \in S :
                          \/ v(s) > v(t)
                          \/ v(s) = v(t) /\ w(s) > w(t)
                          \/ v(s) = v(t) /\ w(s) = w(t) /\ p(s) <= p(t)
<1>1. \A s \in S : v(s) \in Int /\ w(s) \in Int
  BY DEF AreRows, Quantities, Value, OrZero, Missing
<1>2. \A s \in S : p(s) \in Int
  <2>1. DOMAIN NameOrder \subseteq Int
    BY FiguresAssumption, ListFacts DEF FiguresAssumption, IsList
  <2>2. \A s \in S : \E i \in DOMAIN NameOrder : NameOrder[i] = s
    BY DEF AreRows, ToSet
  <2> QED
    BY <2>1, <2>2
<1>3. IsFiniteSet(S)
  BY RowsAreFinite
<1>4. BestBy(rows, key) = CHOOSE s \in S : Wins(s)
  BY DEF BestBy, Value
<1> HIDE DEF v, w, p
<1>5. \A s, t \in S : <<s, t>> \in R <=>
          \/ v(s) > v(t)
          \/ v(s) = v(t) /\ w(s) > w(t)
          \/ v(s) = v(t) /\ w(s) = w(t) /\ p(s) < p(t)
  OBVIOUS
<1> HIDE DEF R
<1>6. \A s \in S : <<s, s>> \notin R
  BY <1>1, <1>2, <1>5
<1>7. \A s, t, u \in S : <<s, t>> \in R /\ <<t, u>> \in R => <<s, u>> \in R
  BY <1>1, <1>2, <1>5
<1>8. PICK s \in S : \A t \in S : <<t, s>> \notin R
  BY <1>3, <1>6, <1>7, UnbeatenExists
<1>9. Wins(s)
  <2> SUFFICES ASSUME NEW t \in S
               PROVE  \/ v(s) > v(t)
                      \/ v(s) = v(t) /\ w(s) > w(t)
                      \/ v(s) = v(t) /\ w(s) = w(t) /\ p(s) <= p(t)
    OBVIOUS
  <2>1. /\ v(s) \in Int /\ w(s) \in Int /\ p(s) \in Int
        /\ v(t) \in Int /\ w(t) \in Int /\ p(t) \in Int
    BY <1>1, <1>2
  <2>2. ~(\/ v(t) > v(s)
          \/ v(t) = v(s) /\ w(t) > w(s)
          \/ v(t) = v(s) /\ w(t) = w(s) /\ p(t) < p(s))
    BY <1>5, <1>8
  <2> QED
    BY ONLY <2>1, <2>2
<1>10. BestBy(rows, key) \in S /\ Wins(BestBy(rows, key))
  BY <1>4, <1>9
<1>11. \A t \in S :
           \/ v(BestBy(rows, key)) > v(t)
           \/ v(BestBy(rows, key)) = v(t) /\ w(BestBy(rows, key)) >= w(t)
  BY <1>1, <1>10
<1> QED
  BY <1>10, <1>11 DEF v, w

(* The headline of a snapshot was chosen from its rows by its metric. *)
Chosen(x) == HasFigures(x) /\ x.primary # "" /\ x.best = BestBy(x.rows, x.primary)

AsCollated(row) == [per_stack_core |-> row.per_core, rate |-> row.req_s]

(* Such a headline is earned: where some service has a figure per stack    *)
(* core the metric is the collator's own first key, and where none has,    *)
(* all are equal by it and the requests per second decide.                 *)
LEMMA ChosenIsEarned ==
    ASSUME NEW x, Chosen(x), NEW t \in DOMAIN x.rows
    PROVE  /\ OrZero(x.rows[t][x.primary]) <= OrZero(x.rows[x.best][x.primary])
           /\ x.source = "result-summary" =>
                  ~Outranks(AsCollated(x.rows[t]), AsCollated(x.rows[x.best]))
<1> DEFINE rows == x.rows
           b == x.best
<1>1. AreRows(rows) /\ x.primary \in {"per_core", "per_cpu_limit"}
  BY DEF Chosen, HasFigures
<1>2. /\ b \in DOMAIN rows
      /\ \/ Value(rows, x.primary, b) > Value(rows, x.primary, t)
         \/ /\ Value(rows, x.primary, b) = Value(rows, x.primary, t)
            /\ rows[b].req_s >= rows[t].req_s
  BY <1>1, BestByIsBest DEF Chosen
<1>3. \A s \in {b, t} :
          /\ rows[s].req_s \in Nat
          /\ OrZero(rows[s].per_core) \in Nat /\ OrZero(rows[s].per_cpu_limit) \in Nat
  BY <1>1, <1>2 DEF AreRows, Quantities, OrZero, Missing
<1>4. OrZero(rows[t][x.primary]) <= OrZero(rows[b][x.primary])
  BY <1>1, <1>2, <1>3 DEF Value
<1>5. ASSUME x.source = "result-summary"
      PROVE  ~Outranks(AsCollated(rows[t]), AsCollated(rows[b]))
  <2>1. HaveOneLimit(rows) /\ x.primary = SelectPrimaryMetricKey(rows)
    BY <1>5 DEF Chosen, HasFigures
  <2> DEFINE core(s) == OrZero(rows[s].per_core)
             limit(s) == OrZero(rows[s].per_cpu_limit)
             w(s) == rows[s].req_s
  <2>2. Outranks(AsCollated(rows[t]), AsCollated(rows[b])) <=>
            core(t) > core(b) \/ (core(t) = core(b) /\ w(t) > w(b))
    <3>1. OrZero(w(t)) = w(t) /\ OrZero(w(b)) = w(b)
      BY <1>3 DEF OrZero, Missing
    <3> QED
      BY <3>1 DEF Outranks, AsCollated
  <2>3. CASE x.primary = "per_core"
    <3>1. core(b) > core(t) \/ (core(b) = core(t) /\ w(b) >= w(t))
      BY <1>2, <2>3 DEF Value
    <3> QED
      BY <1>3, <2>2, <3>1
  <2>4. CASE x.primary = "per_cpu_limit"
    <3>1. core(t) = 0 /\ core(b) = 0
      BY <1>2, <1>3, <2>1, <2>4 DEF SelectPrimaryMetricKey
    <3>2. limit(b) > limit(t) \/ (limit(b) = limit(t) /\ w(b) >= w(t))
      BY <1>2, <2>4 DEF Value
    <3>3. w(t) > w(b) => limit(t) >= limit(b)
      BY <1>2, <2>1 DEF HaveOneLimit
    <3>4. limit(t) \in Nat /\ limit(b) \in Nat /\ w(t) \in Nat /\ w(b) \in Nat
      BY <1>3
    <3> HIDE DEF core, limit, w
    <3>5. ~(w(t) > w(b))
      BY ONLY <3>2, <3>3, <3>4
    <3> QED
      BY <2>2, <3>1, <3>5
  <2> QED
    BY <1>1, <2>3, <2>4
<1> QED
  BY <1>4, <1>5

-----------------------------------------------------------------------------
(* Normalising chooses, *)
LEMMA NormalizeChooses ==
    ASSUME NEW x, IsSnapshot(x), HasFigures(x)
    PROVE  Chosen(NormalizeSnapshot(x))
<1> DEFINE primary == IF x.primary = "" THEN SelectPrimaryMetricKey(x.rows) ELSE x.primary
           best == BestBy(x.rows, primary)
           y == NormalizeSnapshot(x)
<1>1. y = [x EXCEPT !.primary = primary, !.best = best]
  BY DEF NormalizeSnapshot
<1>2. primary \in {"per_core", "per_cpu_limit"}
  BY DEF SelectPrimaryMetricKey, HasFigures
<1>3. x.source = "result-summary" => primary = SelectPrimaryMetricKey(x.rows)
  BY DEF HasFigures
<1>4. best = BestBy(x.rows, primary)
  OBVIOUS
<1> HIDE DEF primary, best, y
<1>5. y.primary = primary /\ y.best = best /\ y.rows = x.rows /\ y.source = x.source
  BY <1>1 DEF IsSnapshot, SnapshotFields
<1> QED
  BY <1>2, <1>3, <1>4, <1>5 DEF Chosen, HasFigures, y

(* publishing leaves the choice, *)
LEMMA PublishChooses ==
    ASSUME NEW x, IsSnapshot(x), Chosen(x)
    PROVE  Chosen([x EXCEPT !.state = "published"])
<1> DEFINE y == [x EXCEPT !.state = "published"]
<1>1. y.primary = x.primary /\ y.best = x.best /\ y.rows = x.rows /\ y.source = x.source
  BY DEF IsSnapshot, SnapshotFields
<1> HIDE DEF y
<1>2. Chosen(y)
  BY <1>1 DEF Chosen, HasFigures
<1> QED
  BY <1>2 DEF y

(* and building chooses, too. *)
LEMMA BuildChooses ==
    ASSUME NEW id \in Ids, NEW j \in Captures[id]
    PROVE  Chosen(BuildSnapshot(id, j))
<1> DEFINE b == BuildSnapshot(id, j)
           rows == [s \in DOMAIN j.summary |-> SimplifyRow(j.summary[s])]
           primary == SelectPrimaryMetricKey(rows)
<1>1. AreRows(rows) /\ HaveOneLimit(rows)
  BY FiguresAssumption DEF FiguresAssumption
<1>2. b.rows = rows /\ b.primary = primary /\ b.best = BestBy(rows, primary)
  BY DEF BuildSnapshot
<1>3. primary \in {"per_core", "per_cpu_limit"}
  BY DEF SelectPrimaryMetricKey
<1> HIDE DEF b, rows
<1>4. Chosen(b)
  BY <1>1, <1>2, <1>3 DEF Chosen, HasFigures
<1> QED
  BY <1>4 DEF b

(* All snapshots have figures, and those of a build, and of a whole site,  *)
(* a headline that was chosen from them.                                   *)
HeadlineInv ==
    /\ \A content \in data \union dist \union loaded \union {First} :
           \A x \in ToSet(content.snapshots) : HasFigures(x)
    /\ \A content \in loaded : \A x \in ToSet(content.snapshots) : Chosen(x)
    /\ complete => \A content \in dist : \A x \in ToSet(content.snapshots) : Chosen(x)

(* What a build loads without refresh, *)
LEMMA NormalizedIsChosen ==
    ASSUME PublisherInv, HeadlineInv, LoadCommitted
    PROVE  \A content \in loaded' : \A x \in ToSet(content.snapshots) : Chosen(x)
<1> DEFINE content == Content(data)
           fresh == NormalizeSiteData(content, Asked)
<1>1. pc = "copied" /\ loaded' = {fresh} /\ data # {} /\ CanNormalize(content, Asked)
  BY DEF LoadCommitted
<1>2. Asked \in Seq(Ids)
  BY <1>1, InvFacts
<1>3. content \in data
  BY <1>1 DEF Content
<1> HIDE DEF content
<1>4. Snapshots(content.snapshots) /\ \A y \in ToSet(content.snapshots) : HasFigures(y)
  BY <1>3 DEF PublisherInv, ContentInv, Accounted, HeadlineInv
<1>5. \A x \in ToSet(fresh.snapshots) :
          \E y \in ToSet(content.snapshots) : x = NormalizeSnapshot(y)
  BY <1>1, <1>2, <1>4, NormalizedData DEF CanNormalize
<1> HIDE DEF fresh
<1>6. \A x \in ToSet(fresh.snapshots) : Chosen(x)
  BY <1>4, <1>5, NormalizeChooses DEF Snapshots
<1> QED
  BY <1>1, <1>6

(* and with it. *)
LEMMA RefreshedIsChosen ==
    ASSUME PublisherInv, HeadlineInv, LoadRefreshed
    PROVE  \A content \in loaded' : \A x \in ToSet(content.snapshots) : Chosen(x)
<1> DEFINE fresh == PublishedSiteData
<1>1. CanRefresh /\ loaded' = {fresh}
  BY DEF LoadRefreshed
<1>2. Asked \in Seq(Ids) /\ DataIsTyped
  BY InvFacts
<1>3. \A x \in ToSet(fresh.snapshots) : \E id \in ToSet(Asked) : x = Refreshed(id)
  BY <1>1, <1>2, RefreshedData
<1> HIDE DEF fresh
<1>4. ASSUME NEW id \in ToSet(Asked)
      PROVE  Chosen(Refreshed(id))
  <2>1. id \in Ids /\ Refreshable(id)
    BY <1>1, <1>2 DEF CanRefresh, ToSet
  <2>2. CASE KeepsExisting(id)
    <3> DEFINE old == Find(Existing, id)
    <3>1. old \in ToSet(Existing)
      BY <2>2, FindFinds DEF KeepsExisting
    <3>2. Snapshots(Existing) /\ data # {}
      BY <1>2, <2>2, ExistingFacts DEF KeepsExisting
    <3>3. Content(data) \in data /\ Existing = Content(data).snapshots
      BY <1>2, <3>2, ExistingFacts
    <3> HIDE DEF old
    <3>4. IsSnapshot(old) /\ HasFigures(old)
      BY <3>1, <3>2, <3>3 DEF Snapshots, HeadlineInv
    <3>5. IsSnapshot(NormalizeSnapshot(old)) /\ Chosen(NormalizeSnapshot(old))
      BY <3>4, NormalizeKeeps, NormalizeChooses
    <3>6. Refreshed(id) = [NormalizeSnapshot(old) EXCEPT !.state = "published"]
      BY <2>2 DEF Refreshed, old
    <3> QED
      BY <3>5, <3>6, PublishChooses
  <2>3. CASE ~KeepsExisting(id)
    <3>1. Content(results[id]) \in Captures[id]
      BY <1>2, <2>1, <2>3 DEF Refreshable, Content, DataIsTyped
    <3> QED
      BY <2>1, <2>3, <3>1, BuildChooses DEF Refreshed
  <2> QED
    BY <2>2, <2>3
<1> QED
  BY <1>1, <1>3, <1>4

(* Nothing but a build that loads makes a headline. *)
LEMMA HeadlineKeeps ==
    ASSUME PublisherInv, HeadlineInv, [Next]_vars
    PROVE  HeadlineInv'
<1>1. First' = First
  BY DEF First
<1>2. ASSUME loaded' = loaded \/ loaded' = {},
             data' \subseteq data \union loaded \union {First},
             dist' \subseteq data \union dist \union loaded,
             complete' => (complete /\ dist' = dist) \/ dist' = loaded
      PROVE  HeadlineInv'
  BY <1>1, <1>2 DEF HeadlineInv
<1>3. CASE LoadCommitted \/ LoadRefreshed
  <2>1. UNCHANGED <<data, dist, complete>>
    BY <1>3 DEF LoadCommitted, LoadRefreshed, dataVars, distVars
  <2>2. \A content \in loaded' : \A x \in ToSet(content.snapshots) : Chosen(x)
    BY <1>3, NormalizedIsChosen, RefreshedIsChosen
  <2> QED
    BY <1>1, <2>1, <2>2 DEF HeadlineInv, Chosen
<1>4. CASE Refuse \/ Die
  <2>1. pc # "idle"
    BY <1>4 DEF Refuse, Die
  <2>2. ~complete
    BY <2>1, InvFacts
  <2> QED
    BY <1>2, <1>4, <2>2 DEF Refuse, Die, Exit, dataVars, distVars
<1>5. CASE SaveData \/ WriteSite
  BY <1>2, <1>5 DEF SaveData, WriteSite, Exit, dataVars, distVars
<1>6. CASE StartBuild \/ FinishClearing \/ CopySources
  <2>1. complete' = FALSE \/ (complete' = complete /\ pc \in {"clearing", "cleared"})
    BY <1>6 DEF StartBuild, FinishClearing, CopySources
  <2>2. pc \in {"clearing", "cleared"} => ~complete
    BY InvFacts
  <2> QED
    BY <1>2, <1>6, <2>1, <2>2
    DEF StartBuild, FinishClearing, CopySources, dataVars, distVars
<1>7. CASE Restore
  BY <1>2, <1>7 DEF Restore, First, distVars
<1>8. CASE EditManifest \/ (\E id \in Ids : Capture(id) \/ Discard(id)) \/ UNCHANGED vars
  BY <1>2, <1>8 DEF EditManifest, Capture, Discard, vars, dataVars, distVars
<1> QED
  BY <1>3, <1>4, <1>5, <1>6, <1>7, <1>8 DEF Next

(* Whatever was committed with whatever headline, a whole site names for   *)
(* each snapshot a service that none beats, by the metric shown and, for a *)
(* snapshot built from results, in the collator's ranking.                 *)
THEOREM HeadlineIsEarned == Spec => []HeadlineIsBest
<1>1. Init => HeadlineInv
  <2> SUFFICES ASSUME Init PROVE HeadlineInv
    OBVIOUS
  <2>1. \A x \in ToSet(First.snapshots) : HasFigures(x)
    BY CommittedData, FiguresAssumption DEF FiguresAssumption
  <2>2. data = {First} /\ dist = {} /\ loaded = {}
    BY DEF Init, First
  <2> QED
    BY <2>1, <2>2 DEF HeadlineInv
<1>2. PublisherInv /\ HeadlineInv /\ [Next]_vars => HeadlineInv'
  BY HeadlineKeeps
<1>3. HeadlineInv => HeadlineIsBest
  <2> SUFFICES ASSUME HeadlineInv, complete, NEW content \in dist,
                      NEW i \in DOMAIN content.snapshots,
                      NEW t \in DOMAIN content.snapshots[i].rows
               PROVE  LET s == content.snapshots[i]
                      IN  /\ OrZero(s.rows[t][s.primary]) <= OrZero(s.rows[s.best][s.primary])
                          /\ s.source = "result-summary" =>
                                 ~Outranks(AsCollated(s.rows[t]), AsCollated(s.rows[s.best]))
    BY DEF HeadlineIsBest, AsCollated
  <2>1. Chosen(content.snapshots[i])
    BY DEF HeadlineInv, ToSet
  <2> QED
    BY <2>1, ChosenIsEarned
<1> QED
  BY <1>1, <1>2, <1>3, PublisherInvariant, PTL DEF Spec
=============================================================================
