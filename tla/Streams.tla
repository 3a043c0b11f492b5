------------------------------- MODULE Streams -------------------------------
(***************************************************************************)
(* SimRng: a stream of random numbers with a seed and a position, and the  *)
(* child streams derived from it by labels.  Mixing (derive_seed) loses no *)
(* difference of what goes in here: a derived seed is the pair of them.    *)
(***************************************************************************)
EXTENDS Integers
CONSTANTS Seed,         \* seeds a program is given
          Label,        \* labels of agents, phases or trials
          MaxDraws      \* bound: numbers drawn from a root stream

VARIABLES root,       \* a root stream: [seed, pos]
          children    \* ghost: children derived: [seed of the root, label, the child]
tvars == <<root, children>>

FromSeed(seed) == [seed |-> seed, pos |-> 0]
DeriveSeed(parent, label) == <<parent, label>>
\* The root of the derivation is the word position of the parent.
Derived(parent, label) == FromSeed(DeriveSeed(parent.pos, label))

Init == root \in {FromSeed(s) : s \in Seed} /\ children = {}
Reseed(s) == root' = FromSeed(s) /\ UNCHANGED children
Draw == root.pos < MaxDraws /\ root' = [root EXCEPT !.pos = root.pos + 1] /\ UNCHANGED children
Derive(label) == /\ children' = children \cup {[of |-> root.seed, label |-> label, child |-> Derived(root, label)]}
                 /\ UNCHANGED root
Next == Draw \/ (\E s \in Seed : Reseed(s)) \/ (\E label \in Label : Derive(label))
Spec == Init /\ [][Next]_tvars

\* "Child RNGs are fully determined by the label and the root seed", and distinct pairs
\* have distinct children, as the comments on derive and derive_seed say.
ChildFromSeedAndLabel ==
  \A c, d \in children : c.child = d.child <=> (c.of = d.of /\ c.label = d.label)
=============================================================================
