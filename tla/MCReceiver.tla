----------------------------- MODULE MCReceiver -----------------------------
(***************************************************************************)
(* Small instances of Receiver for TLC.                                    *)
(***************************************************************************)
EXTENDS Receiver, TLC

(* A body every lane bids on, and what can be wrong with it. *)
PlainBid ==
    [body |-> "object", id |-> "text", device |-> TRUE, site |-> TRUE, app |-> FALSE,
     lmt |-> "0", ip |-> "other", odd |-> "none", at |-> "all", encodable |-> TRUE]
NoDeviceBid == [PlainBid EXCEPT !.device = FALSE]
LimitedBid == [PlainBid EXCEPT !.lmt = "1"]
NullBid == [PlainBid EXCEPT !.body = "null"]
UnencodableBid == [PlainBid EXCEPT !.encodable = FALSE]

MCOneBid == {PlainBid}
MCContractBids == {PlainBid, NoDeviceBid, LimitedBid, UnencodableBid}
MCBids == MCContractBids \union {NullBid}

Deployments(lanes, modes, acks) == [lane : lanes, mode : modes, acks : acks]

MCAllLanes == Deployments(Lanes, Modes, AckLevels)
(* acks=all differs from 1 where the client is idempotent for it. *)
MCReporting ==
    {c \in MCAllLanes : /\ ReportsRefusals(c)
                        /\ c.acks = "all" => c.lane \in JavaLanes /\ c.mode = "confirm"}
MCQuarkusEnqueue == Deployments({"quarkus"}, {"enqueue"}, {"0"})

RequestSymmetry == Permutations(Requests)
=============================================================================
