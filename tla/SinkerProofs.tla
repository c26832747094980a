---------------------------- MODULE SinkerProofs ----------------------------
(***************************************************************************)
(* Safety of the sinker for every set of partitions, every number of       *)
(* records, lost partitions, restarts and dead letters.                    *)
(***************************************************************************)
EXTENDS Sinker, TLAPS

(* The places a record can have. *)
LEMMA RecordsDef ==
    ASSUME SinkerAssumption
    PROVE  /\ \A p \in Partitions : \A i \in 1..MaxRecords[p] : <<p, i>> \in Records
           /\ \A m \in Records :
                  \E p \in Partitions : \E i \in 1..MaxRecords[p] : m = <<p, i>>
  BY DEF Records

(* The record in hand is a record of the topic. *)
LEMMA NextIsRecord ==
    ASSUME SinkerAssumption, TypeOK, NEW p \in Partitions, HasNext(p)
    PROVE  /\ NextRecord(p) \in Records
           /\ position[p] + 1 \in 1..MaxRecords[p]
           /\ position[p] + 1 <= Len(topic[p])
<1>1. /\ position[p] \in Nat /\ Len(topic[p]) \in Nat /\ MaxRecords[p] \in Nat
      /\ position[p] < Len(topic[p]) /\ Len(topic[p]) <= MaxRecords[p]
  BY DEF SinkerAssumption, TypeOK, HasNext
<1> QED
  BY <1>1, RecordsDef DEF NextRecord

(* The offsets of a partition are in order. *)
LEMMA Offsets ==
    ASSUME SinkerAssumption, TypeOK, NEW p \in Partitions
    PROVE  /\ committed[p] \in Nat /\ position[p] \in Nat /\ MaxRecords[p] \in Nat
           /\ committed[p] <= position[p] /\ position[p] <= MaxRecords[p]
           /\ \A i \in 1..committed[p] : i \in 1..position[p]
           /\ \A i \in 1..position[p] : i \in 1..MaxRecords[p]
           /\ \A i \in 1..position[p] : <<p, i>> \in Records
<1>1. /\ committed[p] \in Nat /\ position[p] \in Nat /\ MaxRecords[p] \in Nat
      /\ Len(topic[p]) \in Nat
      /\ committed[p] <= position[p] /\ position[p] <= Len(topic[p])
      /\ Len(topic[p]) <= MaxRecords[p]
  BY DEF SinkerAssumption, TypeOK
<1>2. \A i \in 1..position[p] : i \in 1..MaxRecords[p]
  BY <1>1
<1> QED
  BY <1>1, <1>2, RecordsDef

(* Both ways to take partitions up, and what they leave alone. *)
Resumes ==
    \E ps \in SUBSET Partitions :
        Resume(ps) /\ UNCHANGED <<dlqEnabled, topic, committed, rows, errors, buffer, dlq>>

(* A restart takes every partition up, a rejoin some. *)
LEMMA RestartOrRejoin ==
    Restart \/ (\E ps \in SUBSET Partitions : Rejoin(ps)) => Resumes
BY DEF Restart, Rejoin, Resumes, dlqVars

(* A partition goes back to its committed offset or stays. *)
LEMMA ResumeMoves ==
    ASSUME TypeOK, Resumes
    PROVE  /\ position' \in [Partitions -> Nat] /\ resumed' \in [Partitions -> Nat \ {0}]
           /\ \A p \in Partitions :
                  \/ position'[p] = committed[p] /\ resumed'[p] = resumed[p] + 1
                  \/ position'[p] = position[p] /\ resumed'[p] = resumed[p]
<1>1. PICK ps \in SUBSET Partitions : Resume(ps)
  BY DEF Resumes
<1>2. /\ position \in [Partitions -> Nat] /\ committed \in [Partitions -> Nat]
      /\ resumed \in [Partitions -> Nat \ {0}]
  BY DEF TypeOK
<1> QED
  BY <1>1, <1>2 DEF Resume

(* The first start is well formed. *)
LEMMA InitType == ASSUME SinkerAssumption, Init PROVE TypeOK
  BY DEF SinkerAssumption, Init, TypeOK

(* Every step keeps the types. *)
LEMMA StepType == ASSUME SinkerAssumption, TypeOK, [Next]_vars PROVE TypeOK'
<1> USE DEF SinkerAssumption, TypeOK, dlqVars, lifeVars
<1>1. ASSUME NEW p \in Partitions, Process(p) PROVE TypeOK'
  <2>1. CASE Store(p)
    <3>1. NextRecord(p) \in Records /\ position[p] + 1 <= Len(topic[p])
      BY <2>1, NextIsRecord DEF Store
    <3> QED
      BY <2>1, <3>1 DEF Store, AddRow, Advance
  <2>2. CASE FailToStore(p)
    <3>1. NextRecord(p) \in Records /\ position[p] + 1 <= Len(topic[p])
      BY <2>2, NextIsRecord DEF FailToStore
    <3>2. rows' \in [Records -> Nat]
      <4>1. rows' = rows \/ rows' = [rows EXCEPT ![NextRecord(p)] = @ + 1]
        BY <2>2 DEF FailToStore, AddRow
      <4>2. rows \in [Records -> Nat] /\ rows[NextRecord(p)] + 1 \in Nat
        BY <3>1
      <4> QED
        BY ONLY <4>1, <4>2
    <3>3. buffer' \in Seq(Records) /\ errors' \subseteq Records /\ UNCHANGED dlq
      BY <2>2, <3>1 DEF FailToStore, SendToDeadLetterQueue
    <3> QED
      BY <2>2, <3>1, <3>2, <3>3 DEF FailToStore, Advance
  <2>3. CASE Halt(p)
    BY <2>3 DEF Halt
  <2> QED
    BY <1>1, <2>1, <2>2, <2>3 DEF Process
<1>2. ASSUME NEW p \in Partitions, NEW kind \in Kinds, Produce(p, kind) PROVE TypeOK'
  <2>1. /\ topic' \in [Partitions -> Seq(Kinds)]
        /\ Len(topic'[p]) = Len(topic[p]) + 1
        /\ \A q \in Partitions : q # p => topic'[q] = topic[q]
    BY <1>2 DEF Produce
  <2>2. ASSUME NEW q \in Partitions
        PROVE  position[q] <= Len(topic'[q]) /\ Len(topic'[q]) <= MaxRecords[q]
    <3>1. Len(topic[q]) \in Nat /\ Len(topic[p]) \in Nat
      OBVIOUS
    <3> QED
      BY <1>2, <2>1, <3>1 DEF Produce
  <2> QED
    BY <1>2, <2>1, <2>2 DEF Produce
<1>3. CASE Commit
  BY <1>3 DEF Commit
<1>4. CASE DeliverDeadLetter \/ LoseDeadLetter
  <2>1. buffer # <<>> => Head(buffer) \in Records /\ Tail(buffer) \in Seq(Records)
    OBVIOUS
  <2> QED
    BY <1>4, <2>1 DEF DeliverDeadLetter, LoseDeadLetter
<1>5. CASE Crash
  BY <1>5 DEF Crash
<1>6. CASE Restart \/ \E ps \in SUBSET Partitions : Rejoin(ps)
  <2>1. Resumes /\ process' = "running"
    BY <1>6, RestartOrRejoin DEF Restart, Rejoin
  <2>2. UNCHANGED <<dlqEnabled, topic, committed, rows, errors, buffer, dlq>>
    BY <2>1 DEF Resumes
  <2>3. /\ position' \in [Partitions -> Nat] /\ resumed' \in [Partitions -> Nat \ {0}]
        /\ \A p \in Partitions : position'[p] \in {committed[p], position[p]}
    BY <2>1, ResumeMoves
  <2>4. ASSUME NEW p \in Partitions
        PROVE  committed[p] <= position'[p] /\ position'[p] <= Len(topic[p])
    <3>1. /\ committed[p] \in Nat /\ position[p] \in Nat /\ Len(topic[p]) \in Nat
          /\ committed[p] <= position[p] /\ position[p] <= Len(topic[p])
      OBVIOUS
    <3> QED
      BY ONLY <2>3, <3>1
  <2> QED
    BY <2>1, <2>2, <2>3, <2>4
<1>7. CASE UNCHANGED vars
  BY <1>7 DEF vars
<1> QED
  BY <1>1, <1>2, <1>3, <1>4, <1>5, <1>6, <1>7 DEF Next

(* Every state of the sinker is well formed: in particular no offset is    *)
(* committed ahead of the thread, in any run of crashes and replays.       *)
THEOREM TypeCorrect == Spec => []TypeOK
<1>1. Init => TypeOK
  BY InitType, SinkerAssumption
<1>2. TypeOK /\ [Next]_vars => TypeOK'
  BY StepType, SinkerAssumption
<1> QED
  BY <1>1, <1>2, PTL DEF Spec

-----------------------------------------------------------------------------
(* At the first start nothing was taken, stored or dead-lettered. *)
LEMMA InitSafety == ASSUME SinkerAssumption, Init PROVE SafetyInv
  BY RecordsDef
  DEF SinkerAssumption, Init, SafetyInv, Accounted, RowsPerResume, BufferedFailed,
      DeadLettersFailed

(* What the thread is done with stays accounted for: rows and errors only  *)
(* grow, and a replay starts from what was accounted for before.           *)
LEMMA StepAccounted ==
    ASSUME SinkerAssumption, TypeOK, Accounted, [Next]_vars PROVE Accounted'
<1> USE DEF SinkerAssumption, TypeOK, Accounted, dlqVars, lifeVars
<1>a. \A p \in Partitions : \A i \in 1..position[p] : <<p, i>> \in Records
  BY Offsets
<1>1. ASSUME NEW p \in Partitions, Process(p) PROVE Accounted'
  <2>1. CASE Store(p) \/ FailToStore(p)
    <3>1. NextRecord(p) \in Records /\ NextRecord(p) = <<p, position[p] + 1>>
      BY <2>1, NextIsRecord DEF Store, FailToStore, NextRecord
    <3>2. /\ \A m \in Records : rows'[m] >= rows[m] /\ rows'[m] \in Nat
          /\ errors \subseteq errors'
          /\ rows'[NextRecord(p)] > 0 \/ NextRecord(p) \in errors'
      <4>1. CASE Store(p)
        <5>1. rows' = [rows EXCEPT ![NextRecord(p)] = @ + 1] /\ errors' = errors
          BY <4>1 DEF Store, AddRow
        <5>2. rows \in [Records -> Nat]
          OBVIOUS
        <5> QED
          BY ONLY <3>1, <5>1, <5>2
      <4>2. CASE FailToStore(p)
        <5>1. rows' = rows \/ rows' = [rows EXCEPT ![NextRecord(p)] = @ + 1]
          BY <4>2 DEF FailToStore, AddRow
        <5>2. rows \in [Records -> Nat]
          OBVIOUS
        <5>3. \A m \in Records : rows'[m] >= rows[m] /\ rows'[m] \in Nat
          BY ONLY <3>1, <5>1, <5>2
        <5>4. errors' = errors \union {NextRecord(p)}
          BY <4>2 DEF FailToStore, SendToDeadLetterQueue
        <5> QED
          BY ONLY <5>3, <5>4
      <4> QED
        BY <2>1, <4>1, <4>2
    <3>3. position' = [position EXCEPT ![p] = @ + 1]
      BY <2>1 DEF Store, FailToStore, Advance
    <3>4. ASSUME NEW q \in Partitions, NEW i \in 1..position'[q]
          PROVE  rows'[<<q, i>>] > 0 \/ <<q, i>> \in errors'
      <4>1. CASE i \in 1..position[q]
        <5>1. rows[<<q, i>>] > 0 \/ <<q, i>> \in errors
          BY <4>1
        <5>2. <<q, i>> \in Records /\ rows[<<q, i>>] \in Nat
          BY <4>1, <1>a
        <5>3. rows'[<<q, i>>] >= rows[<<q, i>>] /\ rows'[<<q, i>>] \in Nat
          BY <3>2, <5>2
        <5> QED
          BY ONLY <3>2, <5>1, <5>2, <5>3
      <4>2. CASE i \notin 1..position[q]
        <5>1. q = p /\ i = position[p] + 1
          <6>1. position \in [Partitions -> Nat]
            OBVIOUS
          <6> QED
            BY ONLY <3>3, <3>4, <4>2, <6>1
        <5> QED
          BY <3>1, <3>2, <5>1
      <4> QED
        BY <4>1, <4>2
    <3> QED
      BY <3>4
  <2>2. CASE Halt(p)
    BY <2>2 DEF Halt
  <2> QED
    BY <1>1, <2>1, <2>2 DEF Process
<1>2. ASSUME NEW p \in Partitions, NEW kind \in Kinds, Produce(p, kind) PROVE Accounted'
  BY <1>2 DEF Produce
<1>3. CASE Commit \/ DeliverDeadLetter \/ LoseDeadLetter \/ Crash
  BY <1>3 DEF Commit, DeliverDeadLetter, LoseDeadLetter, Crash
<1>4. CASE Restart \/ \E ps \in SUBSET Partitions : Rejoin(ps)
  <2>1. /\ \A p \in Partitions : position'[p] \in {committed[p], position[p]}
        /\ UNCHANGED <<rows, errors>>
    BY <1>4, RestartOrRejoin, ResumeMoves DEF Resumes
  <2>2. ASSUME NEW p \in Partitions, NEW i \in 1..position'[p]
        PROVE  i \in 1..position[p]
    <3>1. committed[p] \in Nat /\ position[p] \in Nat /\ committed[p] <= position[p]
      OBVIOUS
    <3> QED
      BY ONLY <2>1, <3>1
  <2> QED
    BY <2>1, <2>2
<1>5. CASE UNCHANGED vars
  BY <1>5 DEF vars
<1> QED
  BY <1>1, <1>2, <1>3, <1>4, <1>5 DEF Next

(* A record gets at most one row each time its partition is taken up,      *)
(* because the thread moves on whether the save succeeded, failed or only  *)
(* seemed to fail.                                                         *)
LEMMA StepRows ==
    ASSUME SinkerAssumption, TypeOK, RowsPerResume, [Next]_vars PROVE RowsPerResume'
<1> USE DEF SinkerAssumption, TypeOK, RowsPerResume, dlqVars, lifeVars
<1>a. \A p \in Partitions : \A i \in 1..MaxRecords[p] : rows[<<p, i>>] \in Nat
  BY RecordsDef
<1>1. ASSUME NEW p \in Partitions, Process(p) PROVE RowsPerResume'
  <2>1. CASE Store(p) \/ FailToStore(p)
    <3> DEFINE m == <<p, position[p] + 1>>
    <3>1. m \in Records /\ position[p] + 1 \in 1..MaxRecords[p]
      BY <2>1, NextIsRecord DEF Store, FailToStore, NextRecord
    <3>2. rows' = rows \/ rows' = [rows EXCEPT ![m] = @ + 1]
      BY <2>1 DEF Store, FailToStore, AddRow, NextRecord
    <3>3. /\ position' = [position EXCEPT ![p] = @ + 1]
          /\ UNCHANGED lifeVars
      BY <2>1 DEF Store, FailToStore, Advance
    <3>4. rows[m] < resumed[p]
      BY <3>1
    <3>5. ASSUME NEW q \in Partitions, NEW i \in 1..MaxRecords[q]
          PROVE  /\ rows'[<<q, i>>] <= resumed[q]
                 /\ position'[q] < i => rows'[<<q, i>>] < resumed[q]
      <4>1. rows[<<q, i>>] <= resumed[q] /\ (position[q] < i => rows[<<q, i>>] < resumed[q])
        BY <3>1
      <4>2. CASE <<q, i>> = m
        BY <1>a, <3>1, <3>2, <3>3, <3>4, <4>1, <4>2
      <4>3. CASE <<q, i>> # m
        <5>1. rows'[<<q, i>>] = rows[<<q, i>>]
          <6>1. <<q, i>> \in Records /\ rows \in [Records -> Nat]
            BY RecordsDef
          <6> QED
            BY ONLY <3>2, <4>3, <6>1
        <5>2. position'[q] < i => position[q] < i
          BY <3>3
        <5> QED
          BY <4>1, <5>1, <5>2
      <4> QED
        BY <4>2, <4>3
    <3> QED
      BY <3>1, <3>3, <3>5
  <2>2. CASE Halt(p)
    BY <2>2 DEF Halt
  <2> QED
    BY <1>1, <2>1, <2>2 DEF Process
<1>2. ASSUME NEW p \in Partitions, NEW kind \in Kinds, Produce(p, kind) PROVE RowsPerResume'
  BY <1>2 DEF Produce
<1>3. CASE Commit \/ DeliverDeadLetter \/ LoseDeadLetter \/ Crash
  BY <1>3 DEF Commit, DeliverDeadLetter, LoseDeadLetter, Crash
<1>4. CASE Restart \/ \E ps \in SUBSET Partitions : Rejoin(ps)
  <2>1. /\ \A p \in Partitions :
              \/ position'[p] = committed[p] /\ resumed'[p] = resumed[p] + 1
              \/ position'[p] = position[p] /\ resumed'[p] = resumed[p]
        /\ rows' = rows
    BY <1>4, RestartOrRejoin, ResumeMoves DEF Resumes
  <2>2. ASSUME NEW p \in Partitions, NEW i \in 1..MaxRecords[p]
        PROVE  /\ rows'[<<p, i>>] <= resumed'[p]
               /\ position'[p] < i => rows'[<<p, i>>] < resumed'[p]
    <3>1. /\ rows[<<p, i>>] <= resumed[p] /\ rows[<<p, i>>] \in Nat /\ resumed[p] \in Nat
          /\ position[p] < i => rows[<<p, i>>] < resumed[p]
      BY <1>a
    <3> QED
      BY ONLY <2>1, <3>1
  <2> QED
    BY <2>2
<1>5. CASE UNCHANGED vars
  BY <1>5 DEF vars
<1> QED
  BY <1>1, <1>2, <1>3, <1>4, <1>5 DEF Next

(* A dead letter comes from a failed save, through an enabled emitter.     *)
LEMMA StepDeadLetters ==
    ASSUME SinkerAssumption, TypeOK, BufferedFailed, DeadLettersFailed, [Next]_vars
    PROVE  BufferedFailed' /\ DeadLettersFailed'
<1> USE DEF TypeOK, BufferedFailed, DeadLettersFailed, dlqVars, lifeVars
<1>1. ASSUME NEW p \in Partitions, Process(p) PROVE BufferedFailed' /\ DeadLettersFailed'
  <2>1. CASE FailToStore(p)
    <3>1. NextRecord(p) \in Records
      BY <2>1, NextIsRecord DEF FailToStore
    <3>2. /\ errors' = errors \union {NextRecord(p)}
          /\ buffer' = buffer \/ (dlqEnabled /\ buffer' = Append(buffer, NextRecord(p)))
          /\ UNCHANGED <<dlq, dlqEnabled>>
      BY <2>1 DEF FailToStore, SendToDeadLetterQueue
    <3>3. \A k \in 1..Len(buffer') : buffer'[k] \in errors'
      <4>1. \A k \in 1..Len(buffer) : buffer[k] \in errors
        OBVIOUS
      <4>2. CASE buffer' = buffer
        BY ONLY <3>2, <4>1, <4>2
      <4>3. CASE buffer' = Append(buffer, NextRecord(p))
        <5>1. buffer \in Seq(Records)
          OBVIOUS
        <5>2. /\ \A k \in 1..Len(buffer) : buffer'[k] = buffer[k]
              /\ \A k \in 1..Len(buffer') : k \in 1..Len(buffer) \/ buffer'[k] = NextRecord(p)
          BY ONLY <3>1, <4>3, <5>1
        <5> QED
          BY ONLY <3>2, <4>1, <5>2
      <4> QED
        BY <3>2, <4>2, <4>3
    <3> QED
      BY <3>2, <3>3
  <2>2. CASE Store(p) \/ Halt(p)
    BY <2>2 DEF Store, Halt
  <2> QED
    BY <1>1, <2>1, <2>2 DEF Process
<1>2. ASSUME NEW p \in Partitions, NEW kind \in Kinds, Produce(p, kind)
      PROVE  BufferedFailed' /\ DeadLettersFailed'
  BY <1>2 DEF Produce
<1>3. CASE Commit \/ Restart \/ \E ps \in SUBSET Partitions : Rejoin(ps)
  BY <1>3 DEF Commit, Restart, Rejoin
<1>4. CASE DeliverDeadLetter \/ LoseDeadLetter
  <2>1. /\ buffer # <<>> /\ buffer' = Tail(buffer)
        /\ dlq' \subseteq dlq \union {Head(buffer)}
        /\ UNCHANGED <<dlqEnabled, errors>>
    BY <1>4 DEF DeliverDeadLetter, LoseDeadLetter
  <2>2. Head(buffer) \in errors /\ dlqEnabled
    BY <2>1
  <2>3. \A k \in 1..Len(buffer') : buffer'[k] \in errors
    BY <2>1
  <2> QED
    BY <2>1, <2>2, <2>3
<1>5. CASE Crash
  BY <1>5 DEF Crash
<1>6. CASE UNCHANGED vars
  BY <1>6 DEF vars
<1> QED
  BY <1>1, <1>2, <1>3, <1>4, <1>5, <1>6 DEF Next

(* The conjuncts together are inductive on top of the types. *)
THEOREM SafetyInvariant == Spec => [](TypeOK /\ SafetyInv)
<1>1. Init => TypeOK /\ SafetyInv
  BY InitType, InitSafety, SinkerAssumption
<1>2. TypeOK /\ SafetyInv /\ [Next]_vars => TypeOK' /\ SafetyInv'
  BY StepType, StepAccounted, StepRows, StepDeadLetters, SinkerAssumption DEF SafetyInv
<1> QED
  BY <1>1, <1>2, PTL DEF Spec

(* No commit, crash or replay steps over a record that was never tried.    *)
THEOREM NoRecordIsSkipped == Spec => []NothingIsSkipped
<1>1. TypeOK /\ SafetyInv => NothingIsSkipped
  BY Offsets, SinkerAssumption DEF SafetyInv, Accounted, NothingIsSkipped
<1> QED
  BY <1>1, SafetyInvariant, PTL

(* A record has at most one row for each time its partition was taken up   *)
(* at the committed offset, by a new process or after it was lost.         *)
THEOREM DuplicatesComeFromReplay == Spec => []OneRowPerResume
<1>1. SafetyInv => OneRowPerResume
  BY RecordsDef, SinkerAssumption DEF SafetyInv, RowsPerResume, OneRowPerResume
<1> QED
  BY <1>1, SafetyInvariant, PTL

(* Only failed saves reach the dead-letter topic, whatever the emitter     *)
(* loses and whenever it drains.                                           *)
THEOREM OnlyFailedAreDeadLettered == Spec => []DeadLettersFailed
BY SafetyInvariant, PTL DEF SafetyInv

(* Neither a crash, a restart nor a rejoin takes back an offset or a row.  *)
THEOREM OffsetsAndRowsAreKept == Spec => ProgressIsKept
<1> DEFINE Kept == /\ \A p \in Partitions : committed'[p] >= committed[p]
                   /\ \A m \in Records : rows'[m] >= rows[m]
<1>1. ASSUME SinkerAssumption, TypeOK, [Next]_vars PROVE Kept
  <2> USE DEF TypeOK, dlqVars, lifeVars
  <2>1. ASSUME NEW p \in Partitions, Process(p) PROVE Kept
    <3>1. HasNext(p) => NextRecord(p) \in Records
      BY <1>1, NextIsRecord
    <3>2. /\ UNCHANGED committed
          /\ rows' = rows \/ rows' = [rows EXCEPT ![NextRecord(p)] = @ + 1]
          /\ HasNext(p)
      BY <2>1 DEF Process, Store, FailToStore, Halt, AddRow
    <3>3. rows \in [Records -> Nat] /\ \A q \in Partitions : committed[q] \in Nat
      BY <1>1
    <3> QED
      BY ONLY <3>1, <3>2, <3>3
  <2>2. ASSUME NEW p \in Partitions, NEW kind \in Kinds, Produce(p, kind) PROVE Kept
    BY <1>1, <2>2 DEF Produce
  <2>3. CASE Commit
    BY <1>1, <2>3 DEF Commit
  <2>4. CASE \/ DeliverDeadLetter \/ LoseDeadLetter \/ Crash \/ Restart \/ UNCHANGED vars
             \/ \E ps \in SUBSET Partitions : Rejoin(ps)
    BY <1>1, <2>4 DEF DeliverDeadLetter, LoseDeadLetter, Crash, Restart, Rejoin, vars
  <2> QED
    BY <1>1, <2>1, <2>2, <2>3, <2>4 DEF Next
<1>2. TypeOK /\ [Next]_vars => [Kept]_vars
  BY <1>1, SinkerAssumption
<1> QED
  BY <1>2, TypeCorrect, PTL DEF Spec, ProgressIsKept

-----------------------------------------------------------------------------
(* The promise.  Its variables are functions of the sinker's, and each     *)
(* step of the sinker is one step of the promise or none at all.           *)
Content == [m \in Upto([p \in Partitions |-> Len(topic[p])]) |-> topic[m[1]][m[2]]]

(* A place is a partition and a number. *)
LEMMA PlaceDef ==
    ASSUME SinkerAssumption, NEW m \in Records
    PROVE  m[1] \in Partitions /\ m[2] \in Nat /\ m[2] >= 1 /\ m = <<m[1], m[2]>>
<1>1. PICK p \in Partitions : \E i \in 1..MaxRecords[p] : m = <<p, i>>
  BY RecordsDef
<1>2. PICK i \in 1..MaxRecords[p] : m = <<p, i>>
  BY <1>1
<1>3. MaxRecords[p] \in Nat
  BY DEF SinkerAssumption
<1>4. i \in Nat /\ i >= 1
  BY <1>3
<1> QED
  BY <1>2, <1>4

(* The places of the topic that have a record. *)
LEMMA ContentDef ==
    ASSUME SinkerAssumption
    PROVE  /\ DOMAIN Content = {m \in Records : m[2] <= Len(topic[m[1]])}
           /\ \A m \in DOMAIN Content : Content[m] = topic[m[1]][m[2]]
<1>1. \A m \in Records : m[1] \in Partitions
  BY PlaceDef
<1> QED
  BY <1>1 DEF Content, Upto

(* The record in hand is there, and was not tried since the last replay;   *)
(* once the thread is done with it, it was.                                *)
LEMMA NextIsUntried ==
    ASSUME SinkerAssumption, TypeOK, NEW p \in Partitions, HasNext(p)
    PROVE  /\ NextRecord(p) \in DOMAIN Content \ Upto(position)
           /\ Content[NextRecord(p)] = NextKind(p)
           /\ Advance(p) => Upto(position)' = Upto(position) \union {NextRecord(p)}
<1> DEFINE n == position[p] + 1
<1>1. NextRecord(p) \in Records /\ NextRecord(p) = <<p, n>> /\ n <= Len(topic[p])
  BY NextIsRecord DEF NextRecord
<1>2. position \in [Partitions -> Nat]
  BY DEF TypeOK
<1>3. NextRecord(p) \in DOMAIN Content /\ Content[NextRecord(p)] = NextKind(p)
  BY <1>1, ContentDef DEF NextKind
<1>4. ~(n <= position[p])
  BY <1>2
<1>5. NextRecord(p) \notin Upto(position)
  BY <1>1, <1>4 DEF Upto
<1>6. ASSUME Advance(p)
      PROVE  Upto(position)' = Upto(position) \union {NextRecord(p)}
  <2>1. position' = [position EXCEPT ![p] = n]
    BY <1>6 DEF Advance
  <2> HIDE DEF n
  <2>2. ASSUME NEW m \in Records
        PROVE  m[2] <= position'[m[1]] <=> m[2] <= position[m[1]] \/ m = NextRecord(p)
    <3> DEFINE q == m[1]
               i == m[2]
    <3>1. q \in Partitions /\ i \in Nat /\ m = <<q, i>>
      BY PlaceDef
    <3> HIDE DEF q, i
    <3>2. m[1] = q /\ m[2] = i /\ i \in Nat /\ position[q] \in Nat /\ position[p] \in Nat
      BY <1>2, <3>1
    <3>3. CASE q = p
      <4>1. position'[q] = position[p] + 1 /\ (m = NextRecord(p) <=> i = position[p] + 1)
        BY <1>1, <1>2, <2>1, <3>1, <3>3 DEF n
      <4> QED
        BY <3>2, <3>3, <4>1
    <3>4. CASE q # p
      BY <1>1, <1>2, <2>1, <3>1, <3>2, <3>4
    <3> QED
      BY <3>3, <3>4
  <2> QED
    BY <1>1, <2>2 DEF Upto
<1> QED
  BY <1>3, <1>5, <1>6

(* A started sinker has promised nothing yet. *)
LEMMA PromiseInit ==
    ASSUME SinkerAssumption, Init PROVE Promise!Init
<1>1. \A m \in Records : m[1] \in Partitions /\ m[2] \in Nat /\ m[2] >= 1
  BY PlaceDef
<1>2. Upto([p \in Partitions |-> Len(topic[p])]) = {}
  <2> DEFINE length == [p \in Partitions |-> Len(topic[p])]
  <2>1. \A p \in Partitions : Len(topic[p]) = 0
    BY DEF Init
  <2>2. \A p \in Partitions : length[p] = 0
    BY <2>1
  <2> HIDE DEF length
  <2>3. \A m \in Records : ~(m[2] <= length[m[1]])
    BY <1>1, <2>2
  <2>4. Upto(length) = {}
    BY <2>3 DEF Upto
  <2> QED
    BY <2>4 DEF length
<1>3. Upto(position) = {} /\ Upto(committed) = {}
  BY <1>1 DEF Init, Upto
<1> QED
  BY <1>2, <1>3 DEF Init, Promise!Init

(* Every step of thread, transaction, emitter and process is one of the    *)
(* promise or none.                                                        *)
LEMMA PromiseStep ==
    ASSUME SinkerAssumption, TypeOK, SafetyInv, [Next]_vars
    PROVE  [Promise!Next]_(Promise!vars)
<1> USE DEF dlqVars, lifeVars
<1>1. ASSUME NEW p \in Partitions, Store(p) \/ FailToStore(p)
      PROVE  Promise!Next
  <2> DEFINE m == NextRecord(p)
  <2>1. HasNext(p) /\ Advance(p) /\ UNCHANGED <<dlqEnabled, topic, committed, dlq>>
    BY <1>1 DEF Store, FailToStore, SendToDeadLetterQueue
  <2>2. /\ m \in Records /\ m \in DOMAIN Content \ Upto(position) /\ Content[m] = NextKind(p)
        /\ Upto(position)' = Upto(position) \union {m}
    BY <2>1, NextIsRecord, NextIsUntried
  <2>3. Content' = Content /\ Upto(committed)' = Upto(committed)
    BY <2>1 DEF Content, Upto
  <2>4. /\ NextKind(p) # "unreadable"
        /\ rows' = [rows EXCEPT ![m] = @ + 1] \/ UNCHANGED rows
        /\ rows' # rows => NextKind(p) = "fitting"
        /\ errors' \in {errors, errors \union {m}}
    BY <1>1 DEF Store, FailToStore, AddRow, SendToDeadLetterQueue
  <2>5. rows' # rows \/ m \in errors'
    <3>1. CASE Store(p)
      <4>1. rows' = [rows EXCEPT ![m] = @ + 1]
        BY <3>1 DEF Store, AddRow
      <4>2. rows \in [Records -> Nat]
        BY DEF TypeOK
      <4>3. rows'[m] = rows[m] + 1 /\ rows[m] \in Nat
        BY <2>2, <4>1, <4>2
      <4>4. rows'[m] # rows[m]
        BY ONLY <4>3
      <4> QED
        BY <4>4
    <3>2. CASE FailToStore(p)
      BY <3>2 DEF FailToStore, SendToDeadLetterQueue
    <3> QED
      BY <1>1, <3>1, <3>2
  <2> HIDE DEF m
  <2>6. Promise!Try(m)
    BY <2>1, <2>2, <2>3, <2>4, <2>5 DEF Promise!Try, Content
  <2> QED
    BY <2>2, <2>6 DEF Promise!Next
<1>2. ASSUME NEW p \in Partitions, NEW kind \in Kinds, Produce(p, kind)
      PROVE  Promise!Next
  <2> DEFINE n == Len(topic[p]) + 1
             m == <<p, n>>
  <2>1. /\ topic' = [topic EXCEPT ![p] = Append(@, kind)]
        /\ Len(topic[p]) < MaxRecords[p]
        /\ UNCHANGED <<dlqEnabled, position, committed, rows, errors, dlq>>
    BY <1>2 DEF Produce
  <2>2. topic \in [Partitions -> Seq(Kinds)] /\ topic[p] \in Seq(Kinds)
    BY DEF TypeOK
  <2>3. m \in Records /\ n \in Nat /\ Len(topic[p]) \in Nat
    <3>1. n \in 1..MaxRecords[p]
      BY <2>1, <2>2 DEF SinkerAssumption
    <3> QED
      BY <2>2, <3>1, RecordsDef
  <2>4. /\ topic'[p] = Append(topic[p], kind)
        /\ \A q \in Partitions : q # p => topic'[q] = topic[q]
    BY <2>1, <2>2
  <2>5. /\ Len(topic'[p]) = n /\ topic'[p][n] = kind
        /\ \A i \in 1..Len(topic[p]) : topic'[p][i] = topic[p][i]
    BY <2>2, <2>4
  <2>6. ASSUME NEW r \in Records
        PROVE  /\ r[2] <= Len(topic'[r[1]]) <=> r[2] <= Len(topic[r[1]]) \/ r = m
               /\ r[2] <= Len(topic[r[1]]) => r # m /\ topic'[r[1]][r[2]] = topic[r[1]][r[2]]
    <3> DEFINE q == r[1]
               i == r[2]
    <3>1. q \in Partitions /\ i \in Nat /\ i >= 1 /\ r = <<q, i>>
      BY PlaceDef
    <3> HIDE DEF q, i
    <3>2. r[1] = q /\ r[2] = i /\ i \in Nat /\ i >= 1
      BY <3>1
    <3>3. CASE q = p
      <4>1. r = m <=> i = n
        BY <3>1, <3>3
      <4> HIDE DEF m
      <4>2. i <= Len(topic[p]) => i \in 1..Len(topic[p])
        BY <2>3, <3>2
      <4>3. i <= n <=> i <= Len(topic[p]) \/ i = n
        BY <2>3, <3>2
      <4>4. i <= Len(topic[p]) => i # n
        BY <2>3, <3>2
      <4> HIDE DEF n
      <4> QED
        BY <2>5, <3>2, <3>3, <4>1, <4>2, <4>3, <4>4
    <3>4. CASE q # p
      <4>1. r # m /\ topic'[q] = topic[q]
        BY <2>4, <3>1, <3>4
      <4> QED
        BY <3>2, <4>1
    <3> QED
      BY <3>3, <3>4
  <2>7. \A r \in Records : r[1] \in Partitions
    BY PlaceDef
  <2>8. /\ DOMAIN Content = {r \in Records : r[2] <= Len(topic[r[1]])}
        /\ \A r \in DOMAIN Content : Content[r] = topic[r[1]][r[2]]
    BY ContentDef
  <2>9. /\ DOMAIN Content' = {r \in Records : r[2] <= Len(topic'[r[1]])}
        /\ \A r \in DOMAIN Content' : Content'[r] = topic'[r[1]][r[2]]
        /\ Content' = [r \in DOMAIN Content' |-> Content'[r]]
    BY <2>7 DEF Content, Upto
  <2>10. m[1] = p /\ m[2] = n
    OBVIOUS
  <2> HIDE DEF m, n
  <2>11. DOMAIN Content' = DOMAIN Content \union {m} /\ m \notin DOMAIN Content
    BY <2>3, <2>6, <2>8, <2>9
  <2>12. \A r \in DOMAIN Content' : Content'[r] = IF r = m THEN kind ELSE Content[r]
    <3> SUFFICES ASSUME NEW r \in DOMAIN Content'
                 PROVE  Content'[r] = IF r = m THEN kind ELSE Content[r]
      OBVIOUS
    <3>1. Content'[r] = topic'[r[1]][r[2]]
      BY <2>9
    <3>2. CASE r = m
      BY <2>5, <2>10, <3>1, <3>2
    <3>3. CASE r # m
      <4>1. r \in DOMAIN Content
        BY <2>11, <3>3
      <4>2. r \in Records /\ r[2] <= Len(topic[r[1]]) /\ Content[r] = topic[r[1]][r[2]]
        BY <2>8, <4>1
      <4>3. topic'[r[1]][r[2]] = topic[r[1]][r[2]]
        BY <2>6, <4>2
      <4> QED
        BY <3>1, <3>3, <4>2, <4>3
    <3> QED
      BY <3>2, <3>3
  <2>13. Content' = [r \in DOMAIN Content \union {m} |-> IF r = m THEN kind ELSE Content[r]]
    BY <2>9, <2>11, <2>12
  <2>14. UNCHANGED <<Upto(position), Upto(committed)>>
    BY <2>1 DEF Upto
  <2>15. Promise!Arrive(m, kind)
    BY <2>1, <2>11, <2>13, <2>14 DEF Promise!Arrive, Content
  <2> QED
    BY <2>3, <2>15 DEF Promise!Next
<1>3. CASE Commit
  <2>1. committed' = position /\ UNCHANGED <<dlqEnabled, topic, position, rows, errors, dlq>>
    BY <1>3 DEF Commit
  <2>2. Upto(committed)' = Upto(position) /\ Upto(position)' = Upto(position) /\ Content' = Content
    BY <2>1 DEF Upto, Content
  <2>3. Upto(committed) \subseteq Upto(position)
    <3> SUFFICES ASSUME NEW m \in Records, m[2] <= committed[m[1]] PROVE m[2] <= position[m[1]]
      BY DEF Upto
    <3>1. m[1] \in Partitions /\ m[2] \in Nat
      BY PlaceDef
    <3>2. /\ committed[m[1]] \in Nat /\ position[m[1]] \in Nat
          /\ committed[m[1]] <= position[m[1]]
      BY <3>1, Offsets
    <3> QED
      BY <3>1, <3>2
  <2>4. Promise!Release
    BY <2>1, <2>2, <2>3 DEF Promise!Release, Content
  <2> QED
    BY <2>4 DEF Promise!Next
<1>4. CASE Restart \/ \E ps \in SUBSET Partitions : Rejoin(ps)
  <2>1. /\ \A p \in Partitions : position'[p] \in {committed[p], position[p]}
        /\ UNCHANGED <<dlqEnabled, topic, committed, rows, errors, dlq>>
    BY <1>4, RestartOrRejoin, ResumeMoves DEF Resumes
  <2>2. ASSUME NEW m \in Records
        PROVE  /\ m[2] <= position'[m[1]] => m[2] <= position[m[1]]
               /\ m[2] <= committed[m[1]] => m[2] <= position'[m[1]]
    <3>1. m[1] \in Partitions /\ m[2] \in Nat
      BY PlaceDef
    <3>2. /\ committed[m[1]] \in Nat /\ position[m[1]] \in Nat
          /\ committed[m[1]] <= position[m[1]]
      BY <3>1, Offsets
    <3> QED
      BY <2>1, <3>1, <3>2
  <2>3. Upto(position)' \subseteq Upto(position) /\ Upto(committed) \subseteq Upto(position)'
    BY <2>2 DEF Upto
  <2>4. Upto(committed)' = Upto(committed) /\ Content' = Content
    BY <2>1 DEF Upto, Content
  <2>5. Promise!Replay
    BY <2>1, <2>3, <2>4 DEF Promise!Replay, Content
  <2> QED
    BY <2>5 DEF Promise!Next
<1>5. CASE DeliverDeadLetter
  <2> DEFINE m == Head(buffer)
  <2>1. /\ buffer # <<>> /\ dlq' = dlq \union {m}
        /\ UNCHANGED <<dlqEnabled, topic, position, committed, rows, errors>>
    BY <1>5 DEF DeliverDeadLetter
  <2>2. m \in Records /\ m = buffer[1] /\ 1 \in 1..Len(buffer)
    BY <2>1 DEF TypeOK
  <2>3. m \in errors /\ dlqEnabled
    BY <2>1, <2>2 DEF SafetyInv, BufferedFailed, TypeOK
  <2>4. Promise!DeadLetter(m)
    BY <2>1, <2>3 DEF Promise!DeadLetter, Upto
  <2> QED
    BY <2>2, <2>4 DEF Promise!Next
<1>6. ASSUME UNCHANGED <<dlqEnabled, topic, position, committed, rows, errors, dlq>>
      PROVE  UNCHANGED Promise!vars
  BY <1>6 DEF Promise!vars, Upto
<1>7. CASE LoseDeadLetter \/ Crash \/ UNCHANGED vars \/ \E p \in Partitions : Halt(p)
  BY <1>6, <1>7 DEF LoseDeadLetter, Crash, Halt, vars
<1> QED
  BY <1>1, <1>2, <1>3, <1>4, <1>5, <1>7 DEF Next, Process

(* For any number of partitions, records, restarts and dead letters, the   *)
(* sinker is a consumer that tries every record at least once, and once    *)
(* between replays: no commit runs ahead of what was tried, and no replay  *)
(* starts before it.                                                       *)
THEOREM SinkerDeliversAtLeastOnce == Spec => DeliversAtLeastOnce
<1>1. Init => Promise!Init
  BY PromiseInit, SinkerAssumption
<1>2. TypeOK /\ SafetyInv /\ [Next]_vars => [Promise!Next]_(Promise!vars)
  BY PromiseStep, SinkerAssumption
<1> QED
  BY <1>1, <1>2, SafetyInvariant, PTL DEF Spec, DeliversAtLeastOnce, Promise!Spec

-----------------------------------------------------------------------------
(* "Failed messages are sent to a separate Kafka topic" does not hold of   *)
(* every run (FailedBidsReachTheDlq).  These are the steps it fails by.    *)
LosesDeadLetter ==
    \/ LoseDeadLetter
    \/ Crash /\ buffer # <<>>
    \/ Len(buffer) >= DlqCapacity /\ \E p \in Partitions : FailToStore(p)

Buffered(m) == \E k \in 1..Len(buffer) : buffer[k] = m

DeadLettersAreKept ==
    dlqEnabled => \A p \in Partitions : \A i \in 1..position[p] :
                      rows[<<p, i>>] > 0 \/ <<p, i>> \in dlq \/ Buffered(<<p, i>>)

(* A dead letter that fits is on its way, behind those that were. *)
LEMMA BufferGrows ==
    ASSUME TypeOK, NEW m \in Records, buffer' = Append(buffer, m)
    PROVE  Buffered(m)' /\ \A n \in Records : Buffered(n) => Buffered(n)'
<1>1. /\ Len(buffer) \in Nat /\ Len(buffer') = Len(buffer) + 1
      /\ buffer'[Len(buffer) + 1] = m
      /\ \A k \in 1..Len(buffer) : buffer'[k] = buffer[k]
  BY DEF TypeOK
<1>2. /\ Len(buffer) + 1 \in 1..Len(buffer')
      /\ \A k \in 1..Len(buffer) : k \in 1..Len(buffer')
  BY ONLY <1>1
<1> QED
  BY <1>1, <1>2 DEF Buffered

(* The first dead letter leaves, the others stay. *)
LEMMA BufferShrinks ==
    ASSUME TypeOK, buffer # <<>>, buffer' = Tail(buffer)
    PROVE  \A n \in Records : Buffered(n) => n = Head(buffer) \/ Buffered(n)'
<1>1. /\ Len(buffer) \in Nat /\ Len(buffer') = Len(buffer) - 1
      /\ Head(buffer) = buffer[1]
      /\ \A k \in 1..Len(buffer') : buffer'[k] = buffer[k + 1]
  BY DEF TypeOK
<1>2. ASSUME NEW k \in 1..Len(buffer), k # 1
      PROVE  k - 1 \in 1..Len(buffer') /\ (k - 1) + 1 = k
  BY <1>1, <1>2
<1>3. ASSUME NEW k \in 1..Len(buffer), k # 1
      PROVE  \E l \in 1..Len(buffer') : buffer'[l] = buffer[k]
  BY <1>1, <1>2, <1>3
<1> QED
  BY <1>1, <1>3 DEF Buffered

(* Every other step keeps what failed in the queue or on its way there. *)
LEMMA StepKeepsDeadLetters ==
    ASSUME SinkerAssumption, TypeOK, DeadLettersAreKept, [Next]_vars, [~LosesDeadLetter]_vars
    PROVE  DeadLettersAreKept'
<1> USE DEF dlqVars, lifeVars
<1>1. dlqEnabled' = dlqEnabled
  BY DEF Next, Process, Store, FailToStore, Halt, Produce, Commit, DeliverDeadLetter,
     LoseDeadLetter, Crash, Restart, Rejoin, vars
<1> SUFFICES ASSUME dlqEnabled, NEW p \in Partitions, NEW i \in 1..position'[p]
             PROVE  rows'[<<p, i>>] > 0 \/ <<p, i>> \in dlq' \/ Buffered(<<p, i>>)'
  BY <1>1 DEF DeadLettersAreKept
<1> DEFINE m == <<p, i>>
           Reached == rows[m] > 0 \/ m \in dlq \/ Buffered(m)
<1>2. i \in 1..position[p] => m \in Records /\ Reached
  BY Offsets DEF DeadLettersAreKept
<1>3. rows \in [Records -> Nat]
  BY DEF TypeOK
<1>4. ASSUME NEW q \in Partitions, Store(q) \/ FailToStore(q)
      PROVE  rows'[m] > 0 \/ m \in dlq' \/ Buffered(m)'
  <2> DEFINE next == NextRecord(q)
  <2>1. /\ next \in Records /\ dlq' = dlq
        /\ position' = [position EXCEPT ![q] = @ + 1]
        /\ rows' = rows \/ rows' = [rows EXCEPT ![next] = @ + 1]
    BY <1>4, NextIsRecord DEF Store, FailToStore, Advance, AddRow, SendToDeadLetterQueue
  <2>2. i \in 1..position[p] \/ m = next
    <3>1. position[p] \in Nat /\ position \in [Partitions -> Nat]
      BY DEF TypeOK
    <3>2. CASE p # q
      BY <2>1, <3>1, <3>2
    <3>3. CASE p = q
      <4>1. position'[p] = position[p] + 1
        BY <2>1, <3>1, <3>3
      <4>2. i \in 1..position[p] \/ i = position[p] + 1
        BY <3>1, <4>1
      <4> QED
        BY <3>3, <4>2 DEF NextRecord
    <3> QED
      BY <3>2, <3>3
  <2>3. \A n \in Records : rows[n] > 0 => rows'[n] > 0
    BY <1>3, <2>1
  <2>4. CASE Store(q)
    <3>1. rows'[next] > 0 /\ buffer' = buffer
      BY <1>3, <2>1, <2>4 DEF Store, AddRow
    <3> QED
      BY <1>2, <2>1, <2>2, <2>3, <3>1 DEF Buffered
  <2>5. CASE FailToStore(q) /\ ~LosesDeadLetter
    <3>1. Len(buffer) < DlqCapacity
      BY <2>5 DEF LosesDeadLetter, TypeOK, SinkerAssumption
    <3>2. buffer' = Append(buffer, next)
      BY <2>5, <3>1 DEF FailToStore, SendToDeadLetterQueue
    <3> HIDE DEF next
    <3> QED
      BY <1>2, <2>1, <2>2, <2>3, <3>2, BufferGrows
  <2>6. CASE UNCHANGED vars
    <3>1. position' = position /\ UNCHANGED <<rows, dlq, buffer>>
      BY <2>6 DEF vars
    <3> QED
      BY <1>2, <3>1 DEF Buffered
  <2> QED
    BY <1>4, <2>4, <2>5, <2>6
<1>5. CASE DeliverDeadLetter
  <2>1. /\ UNCHANGED <<rows, position>> /\ buffer # <<>>
        /\ dlq' = dlq \union {Head(buffer)} /\ buffer' = Tail(buffer)
    BY <1>5 DEF DeliverDeadLetter
  <2> QED
    BY <1>2, <2>1, BufferShrinks
<1>6. ASSUME UNCHANGED <<rows, dlq, buffer>>, i \in 1..position[p]
      PROVE  rows'[m] > 0 \/ m \in dlq' \/ Buffered(m)'
  BY <1>2, <1>6 DEF Buffered
<1>7. CASE Restart \/ \E ps \in SUBSET Partitions : Rejoin(ps)
  <2>1. /\ position'[p] \in {committed[p], position[p]}
        /\ UNCHANGED <<rows, dlq, buffer>>
    BY <1>7, RestartOrRejoin, ResumeMoves DEF Resumes
  <2>2. i \in 1..position[p]
    BY <2>1, Offsets
  <2> QED
    BY <1>6, <2>1, <2>2
<1>8. CASE Crash
  <2>1. UNCHANGED <<rows, dlq, position>> /\ buffer' = <<>>
    BY <1>8 DEF Crash
  <2>2. buffer = <<>> \/ UNCHANGED vars
    BY <1>8 DEF LosesDeadLetter
  <2>3. buffer' = buffer
    BY <2>1, <2>2 DEF vars
  <2> QED
    BY <1>6, <2>1, <2>3
<1>9. CASE LoseDeadLetter
  <2>1. UNCHANGED vars
    BY <1>9 DEF LosesDeadLetter
  <2> QED
    BY <1>6, <2>1 DEF vars
<1>10. CASE \/ \E q \in Partitions : Halt(q) \/ \E kind \in Kinds : Produce(q, kind)
            \/ Commit \/ UNCHANGED vars
  BY <1>6, <1>10 DEF Halt, Produce, Commit, vars
<1> QED
  BY <1>4, <1>5, <1>7, <1>8, <1>9, <1>10 DEF Next, Process

(* With the queue enabled, a failed bid that is committed reaches the      *)
(* dead-letter topic or is on its way there, unless the emitter's buffer   *)
(* was full, its producer gave up, or the process died before it was sent: *)
(* these three, and neither replays nor other partitions, lose one.        *)
THEOREM FailedBidsAreLostInThreeWays ==
    Spec /\ [][~LosesDeadLetter]_vars => []FailedBidsReachTheDlq
<1>1. Init => DeadLettersAreKept
  <2> SUFFICES ASSUME Init, NEW p \in Partitions, NEW i \in 1..position[p] PROVE FALSE
    BY DEF DeadLettersAreKept
  <2>1. position[p] = 0
    BY DEF Init
  <2> QED
    BY <2>1
<1>2. TypeOK /\ DeadLettersAreKept /\ [Next]_vars /\ [~LosesDeadLetter]_vars
          => DeadLettersAreKept'
  BY StepKeepsDeadLetters, SinkerAssumption
<1>3. TypeOK /\ DeadLettersAreKept => FailedBidsReachTheDlq
  BY Offsets, SinkerAssumption DEF DeadLettersAreKept, FailedBidsReachTheDlq, Buffered
<1> QED
  BY <1>1, <1>2, <1>3, TypeCorrect, PTL DEF Spec

=============================================================================
