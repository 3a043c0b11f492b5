------------------------------ MODULE MCResume ------------------------------
(* Opinions that move twice and then rest, others that move once and then come back
   every second step, and draws that stop the run in step 4. *)
EXTENDS Resume

Ops == 0..5
Settle == [o \in Ops |-> CASE o < 2 -> o + 1 [] o = 2 -> 2 [] o = 5 -> 4 [] OTHER -> o + 1]
BothWorlds == {0, 3}
Settling == {0}
AtFour == {4, 5}
EachAndBoth == SUBSET {"continuation", "convergence"}
ConvergenceOnly == {{"convergence"}}
=============================================================================
