------------------------------ MODULE MCSinker ------------------------------
(***************************************************************************)
(* A small instance of Sinker for TLC: two partitions, one of which can    *)
(* have a record behind another.                                           *)
(***************************************************************************)
EXTENDS Sinker, TLC

CONSTANTS p1, p2

MCMaxRecords == (p1 :> 2) @@ (p2 :> 1)
MCMaxResumes == (p1 :> 3) @@ (p2 :> 2)
MCOnePartition == (p1 :> 2)
MCOneStart == (p1 :> 1)
=============================================================================
