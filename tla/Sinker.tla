------------------------------- MODULE Sinker -------------------------------
(***************************************************************************)
(* The sinker: one Kafka Streams thread that reads the bids topic, stores  *)
(* each record in its own transaction and dead-letters what it could not   *)
(* store, in a process that crashes and is started again, and that may     *)
(* lose its partitions and get them back while it lives.                   *)
(*                                                                         *)
(* Offsets are committed by the Streams client on its own schedule, so     *)
(* whoever takes a partition up, a new process or the old one, replays     *)
(* what was stored since.  A graceful stop, or a rebalance the thread      *)
(* takes part in, commits first.                                           *)
(***************************************************************************)
EXTENDS Naturals, Sequences

CONSTANTS Partitions,   \* the partitions of the topic
          MaxRecords,   \* bound: MaxRecords[p] records are produced to p
          DlqCapacity,  \* dead letters the emitter holds before it overflows
          MaxResumes    \* bound: MaxResumes[p] times p is taken up

(* What a receiver may have published: a record that fits the table, one   *)
(* with a value too long for its column, or one that does not bind to the  *)
(* sinker's BidRequest.                                                    *)
Kinds == {"fitting", "oversized", "unreadable"}

ASSUME SinkerAssumption ==
    /\ MaxRecords \in [Partitions -> Nat]
    /\ DlqCapacity \in Nat
    /\ MaxResumes \in [Partitions -> Nat \ {0}]

(* A record is named by its place in the topic. *)
Records == UNION {{p} \X (1..MaxRecords[p]) : p \in Partitions}

VARIABLES
    dlqEnabled, \* sinker.dlq.enabled
    topic,      \* topic[p]: the kinds of the records in p, in order
    position,   \* position[p]: how many records of p this process is done with
    committed,  \* committed[p]: the group's committed offset
    rows,       \* rows[m]: rows of the table that came from record m
    errors,     \* the records the error log names
    buffer,     \* dead letters the emitter has not delivered
    dlq,        \* the records in the dead-letter topic
    process,    \* "running", "halted" (the stream is dead) or "down"
    resumed     \* resumed[p]: how often p was taken up at its committed offset

dlqVars == <<buffer, dlq>>
lifeVars == <<process, resumed>>
vars == <<dlqEnabled, topic, position, committed, rows, errors, buffer, dlq,
          process, resumed>>

TypeOK ==
    /\ dlqEnabled \in BOOLEAN
    /\ topic \in [Partitions -> Seq(Kinds)]
    /\ position \in [Partitions -> Nat]
    /\ committed \in [Partitions -> Nat]
    /\ \A p \in Partitions :
           /\ committed[p] <= position[p]
           /\ position[p] <= Len(topic[p])
           /\ Len(topic[p]) <= MaxRecords[p]
    /\ rows \in [Records -> Nat]
    /\ errors \subseteq Records
    /\ buffer \in Seq(Records)
    /\ dlq \subseteq Records
    /\ process \in {"running", "halted", "down"}
    /\ resumed \in [Partitions -> Nat \ {0}]

Init ==
    /\ dlqEnabled \in BOOLEAN
    /\ topic = [p \in Partitions |-> <<>>]
    /\ position = [p \in Partitions |-> 0]
    /\ committed = [p \in Partitions |-> 0]
    /\ rows = [m \in Records |-> 0]
    /\ errors = {}
    /\ buffer = <<>>
    /\ dlq = {}
    /\ process = "running"
    /\ resumed = [p \in Partitions |-> 1]

-----------------------------------------------------------------------------
(* A receiver's record is appended. *)
Produce(p, kind) ==
    /\ Len(topic[p]) < MaxRecords[p]
    /\ topic' = [topic EXCEPT ![p] = Append(@, kind)]
    /\ UNCHANGED <<dlqEnabled, position, committed, rows, errors, dlqVars, lifeVars>>

(* The record the thread takes next from p. *)
NextRecord(p) == <<p, position[p] + 1>>
HasNext(p) == process = "running" /\ position[p] < Len(topic[p])
NextKind(p) == topic[p][position[p] + 1]

Advance(p) == position' = [position EXCEPT ![p] = @ + 1]

AddRow(m) == rows' = [rows EXCEPT ![m] = @ + 1]

(* The transaction commits. *)
Store(p) ==
    /\ HasNext(p)
    /\ NextKind(p) = "fitting"
    /\ AddRow(NextRecord(p))
    /\ Advance(p)
    /\ UNCHANGED <<dlqEnabled, topic, committed, errors, dlqVars, lifeVars>>

(* Mutant: the switch is not looked at. *)
SendToDeadLetterQueueAlways(m) ==
    /\ errors' = errors \union {m}
    /\ buffer' = IF Len(buffer) < DlqCapacity THEN Append(buffer, m) ELSE buffer
    /\ UNCHANGED dlq

(* sendToDeadLetterQueue: the emitter throws when its buffer is full; that *)
(* is caught and logged.                                                   *)
SendToDeadLetterQueue(m) ==
    /\ errors' = errors \union {m}
    /\ buffer' = IF dlqEnabled /\ Len(buffer) < DlqCapacity
                 THEN Append(buffer, m) ELSE buffer
    /\ UNCHANGED dlq

(* Mutant: a save that fails is tried again at once. *)
FailToStoreAndSaveAgain(p) ==
    /\ HasNext(p)
    /\ NextKind(p) \in {"fitting", "oversized"}
    /\ \/ UNCHANGED rows
       \/ NextKind(p) = "fitting" /\ rows' = [rows EXCEPT ![NextRecord(p)] = @ + 2]
    /\ SendToDeadLetterQueue(NextRecord(p))
    /\ Advance(p)
    /\ UNCHANGED <<dlqEnabled, topic, committed, lifeVars>>


(* Mutant: the exception is swallowed. *)
FailToStoreSilently(p) ==
    /\ HasNext(p)
    /\ NextKind(p) \in {"fitting", "oversized"}
    /\ Advance(p)
    /\ UNCHANGED <<dlqEnabled, topic, rows, committed, errors, dlqVars, lifeVars>>

(* The save throws: the row does not fit, the database is away, or only    *)
(* the answer to the commit is lost and the row is there after all.        *)
FailToStore(p) ==
    /\ HasNext(p)
    /\ NextKind(p) \in {"fitting", "oversized"}
    /\ \/ UNCHANGED rows
       \/ NextKind(p) = "fitting" /\ AddRow(NextRecord(p))
    /\ SendToDeadLetterQueue(NextRecord(p))
    /\ Advance(p)
    /\ UNCHANGED <<dlqEnabled, topic, committed, lifeVars>>

(* The record does not deserialise (or peek, outside the try block, throws *)
(* on it): the stream thread dies without committing, and no partition is  *)
(* read any more.                                                          *)
Halt(p) ==
    /\ HasNext(p)
    /\ NextKind(p) = "unreadable"
    /\ process' = "halted"
    /\ UNCHANGED <<dlqEnabled, topic, position, committed, rows, errors, dlqVars, resumed>>

(* Mutant: the offsets of what was fetched are committed. *)
CommitFetched ==
    /\ process = "running"
    /\ committed # position
    /\ committed' = [p \in Partitions |-> Len(topic[p])]
    /\ UNCHANGED <<dlqEnabled, topic, position, rows, errors, dlqVars, lifeVars>>

(* The Streams client commits what the thread is done with. *)
Commit ==
    /\ process = "running"
    /\ committed # position
    /\ committed' = position
    /\ UNCHANGED <<dlqEnabled, topic, position, rows, errors, dlqVars, lifeVars>>

-----------------------------------------------------------------------------
(* The emitter's channel lives in the process, not in the stream thread. *)
DeliverDeadLetter ==
    /\ process # "down"
    /\ buffer # <<>>
    /\ dlq' = dlq \union {Head(buffer)}
    /\ buffer' = Tail(buffer)
    /\ UNCHANGED <<dlqEnabled, topic, position, committed, rows, errors, lifeVars>>

(* The dead-letter producer times out; nobody looks at the result of send. *)
LoseDeadLetter ==
    /\ process # "down"
    /\ buffer # <<>>
    /\ buffer' = Tail(buffer)
    /\ UNCHANGED <<dlqEnabled, topic, position, committed, rows, errors, dlq, lifeVars>>

Crash ==
    /\ process # "down"
    /\ process' = "down"
    /\ buffer' = <<>>
    /\ UNCHANGED <<dlqEnabled, topic, position, committed, rows, errors, dlq, resumed>>

(* Partitions are taken up at their committed offsets; auto.offset.reset   *)
(* only speaks where there is none.                                        *)
Resume(ps) ==
    /\ \A p \in ps : resumed[p] < MaxResumes[p]
    /\ resumed' = [p \in Partitions |-> IF p \in ps THEN resumed[p] + 1 ELSE resumed[p]]
    /\ position' = [p \in Partitions |-> IF p \in ps THEN committed[p] ELSE position[p]]

(* Mutant: the committed offsets are ignored. *)
RestartFromEarliest ==
    /\ process = "down"
    /\ process' = "running"
    /\ \A p \in Partitions : resumed[p] < MaxResumes[p]
    /\ resumed' = [p \in Partitions |-> resumed[p] + 1]
    /\ position' = [p \in Partitions |-> 0]
    /\ UNCHANGED <<dlqEnabled, topic, committed, rows, errors, dlqVars>>

(* A new process. *)
Restart ==
    /\ process = "down"
    /\ process' = "running"
    /\ Resume(Partitions)
    /\ UNCHANGED <<dlqEnabled, topic, committed, rows, errors, dlqVars>>

(* Mutant: the offsets of the group are rewound with the positions. *)
RejoinAndRewind(ps) ==
    /\ process = "running"
    /\ Resume(ps)
    /\ committed' = [p \in Partitions |-> IF p \in ps THEN 0 ELSE committed[p]]
    /\ UNCHANGED <<dlqEnabled, topic, rows, errors, dlqVars, process>>

(* The same process, whose session or poll interval ran out during a slow  *)
(* save, or whose tasks were migrated: the group took its partitions away, *)
(* no offset can be committed for them, and they come back.  The emitter   *)
(* and its buffer stay.                                                    *)
Rejoin(ps) ==
    /\ process = "running"
    /\ Resume(ps)
    /\ UNCHANGED <<dlqEnabled, topic, committed, rows, errors, dlqVars, process>>

-----------------------------------------------------------------------------
Process(p) == Store(p) \/ FailToStore(p) \/ Halt(p)

Next ==
    \/ \E p \in Partitions : Process(p) \/ \E kind \in Kinds : Produce(p, kind)
    \/ \E ps \in SUBSET Partitions \ {{}} : Rejoin(ps)
    \/ Commit \/ DeliverDeadLetter \/ LoseDeadLetter \/ Crash \/ Restart

Spec == Init /\ [][Next]_vars

(* The stream thread polls every partition and commits on its interval     *)
(* while it lives.  Producers, crashes, lost partitions and restarts get   *)
(* no fairness.                                                            *)
FairSpec ==
    /\ Spec
    /\ \A p \in Partitions : WF_vars(Process(p))
    /\ WF_vars(Commit)

-----------------------------------------------------------------------------
(* Nothing is skipped: a record behind the committed offset has a row, or  *)
(* the error log names it.  In particular no commit, crash or replay ever  *)
(* steps over a record that was never tried, or over an unreadable one.    *)
NothingIsSkipped ==
    \A p \in Partitions : \A i \in 1..committed[p] :
        rows[<<p, i>>] > 0 \/ <<p, i>> \in errors

(* Replay is the only source of duplicates: a partition taken up at its    *)
(* committed offset, by a new process or by the one that lost it, stores a *)
(* record at most once, although the table has no key that would refuse a  *)
(* second row, although a failed save may have stored it, and whatever the *)
(* other partitions replay.                                                *)
OneRowPerResume ==
    \A p \in Partitions : \A i \in 1..MaxRecords[p] : rows[<<p, i>>] <= resumed[p]

(* Only a failed save is dead-lettered: the dead-letter topic never holds  *)
(* a record the error log does not name, and nothing when it is disabled.  *)
DeadLettersFailed ==
    /\ dlq \subseteq errors
    /\ ~dlqEnabled => dlq = {}

(* Committed offsets and stored rows never go back, in a crash, a restart  *)
(* or a rejoin.                                                            *)
ProgressIsKept ==
    [][/\ \A p \in Partitions : committed'[p] >= committed[p]
       /\ \A m \in Records : rows'[m] >= rows[m]]_vars

(* "Failed messages are sent to a separate Kafka topic": with the queue    *)
(* enabled, a record that is behind the committed offset and has no row is *)
(* in the dead-letter topic or on its way there.                           *)
FailedBidsReachTheDlq ==
    dlqEnabled =>
        \A p \in Partitions : \A i \in 1..committed[p] :
            \/ rows[<<p, i>>] > 0
            \/ <<p, i>> \in dlq
            \/ \E k \in 1..Len(buffer) : buffer[k] = <<p, i>>


-----------------------------------------------------------------------------
(* What makes NothingIsSkipped and OneRowPerResume inductive: a record     *)
(* that the thread is done with is accounted for, and one it has yet to    *)
(* take has at most one row from each earlier time it was taken up.        *)
Accounted ==
    \A p \in Partitions : \A i \in 1..position[p] :
        rows[<<p, i>>] > 0 \/ <<p, i>> \in errors

RowsPerResume ==
    \A p \in Partitions : \A i \in 1..MaxRecords[p] :
        /\ rows[<<p, i>>] <= resumed[p]
        /\ position[p] < i => rows[<<p, i>>] < resumed[p]

BufferedFailed ==
    /\ \A k \in 1..Len(buffer) : buffer[k] \in errors
    /\ ~dlqEnabled => buffer = <<>>

SafetyInv == Accounted /\ RowsPerResume /\ BufferedFailed /\ DeadLettersFailed

-----------------------------------------------------------------------------
(* The places of the topic before an offset of each partition. *)
Upto(offset) == {m \in Records : m[2] <= offset[m[1]]}

Promise == INSTANCE AtLeastOnce
    WITH content  <- [m \in Upto([p \in Partitions |-> Len(topic[p])]) |-> topic[m[1]][m[2]]],
         tried    <- Upto(position),
         released <- Upto(committed),
         named    <- errors,
         queue    <- dlqEnabled,
         dead     <- dlq

(* Whatever crashes, is replayed, lost or overflows: what the sinker does  *)
(* to its table, its log and the dead-letter topic is what a consumer does *)
(* that tries every record at least once, and once between replays.        *)
DeliversAtLeastOnce == Promise!Spec

=============================================================================
