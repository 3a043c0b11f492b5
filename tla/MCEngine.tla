------------------------------ MODULE MCEngine ------------------------------
(* Two mechanisms: the first in three phases, the second in two, one phase
   shared, so that both insertion order and phase order matter. *)
EXTENDS Engine

Reg == <<{1, 3, 6}, {3, 5}>>
=============================================================================
