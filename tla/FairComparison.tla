--------------------------- MODULE FairComparison ---------------------------
(***************************************************************************)
(* What a matrix run promises whoever compares its lanes, with no script,  *)
(* broker or topic in sight: the lanes have their turns in the order of    *)
(* the list, each is started once in its turn and alone on the machine,    *)
(* its runs are taken one by one, the first that fails ends the matter,    *)
(* and a report is one of a list that was gone through.                    *)
(***************************************************************************)
EXTENDS Naturals, Sequences

CONSTANTS Lanes,   \* the lanes there are
          Repeats  \* how many runs each is to pass in its turn

VARIABLES plan,   \* the lanes to compare, in order; one may be there twice
          turn,   \* whose turn it is
          stage,  \* of the lane whose turn it is: "waiting", "started", "loaded"
          runs,   \* how many runs it has passed in this turn
          alive,  \* the lanes that live
          result, \* result[s, r]: what run r of s came to
          report, \* the results are published
          over    \* nothing is measured any more

vars == <<plan, turn, stage, runs, alive, result, report, over>>

Init ==
    /\ plan \in Seq(Lanes) /\ plan # <<>>
    /\ turn = 1 /\ stage = "waiting" /\ runs = 0
    /\ alive = {}
    /\ result = [x \in Lanes \X (1..Repeats) |-> "none"]
    /\ report = FALSE /\ over = FALSE

Start ==
    /\ ~over /\ stage = "waiting" /\ turn <= Len(plan)
    /\ alive = {} /\ alive' = {plan[turn]}
    /\ stage' = "started"
    /\ UNCHANGED <<plan, turn, runs, result, report, over>>

Die(s) ==
    /\ alive' = alive \ {s}
    /\ UNCHANGED <<plan, turn, stage, runs, result, report, over>>

Load ==
    /\ stage = "started" /\ runs < Repeats
    /\ alive \subseteq {plan[turn]}
    /\ stage' = "loaded"
    /\ UNCHANGED <<plan, turn, runs, alive, result, report, over>>

End ==
    /\ stage' = "waiting" /\ runs' = 0 /\ over' = TRUE

Pass ==
    /\ stage = "loaded" /\ stage' = "started"
    /\ runs' = runs + 1
    /\ result' = [result EXCEPT ![<<plan[turn], runs + 1>>] = "passed"]
    /\ UNCHANGED <<plan, turn, alive, report, over>>

Fail ==
    /\ stage = "loaded"
    /\ result' = [result EXCEPT ![<<plan[turn], runs + 1>>] = "failed"]
    /\ End
    /\ UNCHANGED <<plan, turn, alive, report>>

NextTurn ==
    /\ stage = "started" /\ runs = Repeats
    /\ turn' = turn + 1 /\ stage' = "waiting" /\ runs' = 0
    /\ alive' = {}
    /\ UNCHANGED <<plan, result, report, over>>

Report ==
    /\ ~over /\ turn > Len(plan)
    /\ report' = TRUE
    /\ End
    /\ UNCHANGED <<plan, turn, alive, result>>

GiveUp ==
    /\ ~over
    /\ End
    /\ UNCHANGED <<plan, turn, alive, result, report>>

CleanUp ==
    /\ over /\ alive' \subseteq alive
    /\ UNCHANGED <<plan, turn, stage, runs, result, report, over>>

Next ==
    \/ Start \/ Load \/ Pass \/ Fail \/ NextTurn \/ Report \/ GiveUp \/ CleanUp
    \/ \E s \in Lanes : Die(s)

Spec == Init /\ [][Next]_vars

=============================================================================
