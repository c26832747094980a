---------------------------- MODULE AtLeastOnce ----------------------------
(***************************************************************************)
(* What the sinker promises whoever reads its table, its error log and the *)
(* dead-letter topic, with no thread, offset, buffer or process in sight:  *)
(* every record that is released was tried, and none is tried twice        *)
(* without a replay in between.                                            *)
(***************************************************************************)
EXTENDS Naturals

CONSTANTS Records, \* the places of the topic
          Kinds    \* what a record can be: "fitting", "unreadable", ...

VARIABLES content, \* content[m]: what record m is, of those that are there
          tried,   \* the records that are not tried again without a replay
          released,\* the records that will never be tried again
          rows,    \* rows[m]: rows of the table that came from m
          named,   \* the records the error log names
          queue,   \* whether there is a dead-letter queue
          dead     \* the records in it

vars == <<content, tried, released, rows, named, queue, dead>>

Init ==
    /\ content = [m \in {} |-> ""]
    /\ tried = {} /\ released = {} /\ named = {} /\ dead = {}
    /\ rows = [m \in Records |-> 0]
    /\ queue \in BOOLEAN

Arrive(m, kind) ==
    /\ m \notin DOMAIN content
    /\ content' = [n \in DOMAIN content \union {m} |-> IF n = m THEN kind ELSE content[n]]
    /\ UNCHANGED <<tried, released, rows, named, queue, dead>>

(* A record that can be read is tried: it is stored, or the error log      *)
(* names it.  A record the log names may be stored all the same, but only  *)
(* a fitting one is ever stored.                                           *)
Try(m) ==
    /\ m \in DOMAIN content \ tried
    /\ content[m] # "unreadable"
    /\ tried' = tried \union {m}
    /\ \/ rows' = [rows EXCEPT ![m] = @ + 1]
       \/ UNCHANGED rows
    /\ rows' # rows => content[m] = "fitting"
    /\ named' \in {named, named \union {m}}
    /\ rows' # rows \/ m \in named'
    /\ UNCHANGED <<content, released, queue, dead>>

(* Only what was tried is released, ... *)
Release ==
    /\ released' \in SUBSET tried /\ released \subseteq released'
    /\ UNCHANGED <<content, tried, rows, named, queue, dead>>

(* ... and of the rest any may be tried again. *)
Replay ==
    /\ tried' \in SUBSET tried /\ released \subseteq tried'
    /\ UNCHANGED <<content, released, rows, named, queue, dead>>

DeadLetter(m) ==
    /\ queue /\ m \in named
    /\ dead' = dead \union {m}
    /\ UNCHANGED <<content, tried, released, rows, named, queue>>

Next ==
    \/ \E m \in Records : Try(m) \/ DeadLetter(m) \/ \E kind \in Kinds : Arrive(m, kind)
    \/ Release \/ Replay

Spec == Init /\ [][Next]_vars

=============================================================================
