--------------------------- MODULE MCResponseStore ---------------------------
(* Two runs with a shard each; keys 1 and 3 have the same FNV-1a digest. *)
EXTENDS ResponseStore

OwnTag    == [p \in Runs |-> p]
Colliding == [k \in Keys |-> k % 2]
=============================================================================
