-------------------------------- MODULE Batch --------------------------------
(***************************************************************************)
(* What LlmExecutor::execute promises its caller (socsim-games/src/llm/    *)
(* executor.rs): every request of the batch gets exactly one outcome, and  *)
(* the batch ends.                                                         *)
(***************************************************************************)
CONSTANTS Keys,     \* the requests of the batch, in key order
          Outcomes, \* how a request can end
          NoAnswer

VARIABLE answer     \* the result map under construction

Init == answer = [k \in Keys |-> NoAnswer]

Open == {k \in Keys : answer[k] = NoAnswer}

(* Some requests get their outcome: one that finished, or all those whose
   deadline a sweep finds expired. *)
Answer(S) ==
    /\ S # {}
    /\ \E o \in [S -> Outcomes] :
         answer' = [k \in Keys |-> IF k \in S THEN o[k] ELSE answer[k]]

Next == \E S \in SUBSET Open : Answer(S)

Spec == Init /\ [][Next]_answer /\ WF_answer(Next)
=============================================================================
