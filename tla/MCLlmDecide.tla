----------------------------- MODULE MCLlmDecide -----------------------------
(* LLM agents 1 and 2 play role 0 against agent 3, which holds its action: the
   requests of 1 and 2 coincide while their own actions do.  Agent 1 remembers
   one turn, agent 2 two. *)
EXTENDS LlmDecide

Roles  == [a \in Agents |-> 0]
Facing == [a \in Agents |-> {3}]
Turns  == [a \in Agents |-> a]
=============================================================================
