------------------------------ MODULE Contagion ------------------------------
(***************************************************************************)
(* What spreads over ties: an activity, by infection or by threshold, and  *)
(* culture, by Axelrod's rule.  A world answers who the neighbours of an   *)
(* agent are (one way, itself among them if it likes); a round reads the   *)
(* activity at its start and writes when everybody has been looked at.     *)
(***************************************************************************)
EXTENDS Integers, FiniteSets, FiniteSetsExt, Functions
CONSTANTS Person,           \* numbers: the roster is in their order
          Acquaintances,    \* the relations looked at: person -> set of persons
          Fractions,        \* thresholds, <<numerator, denominator>>
          Feature, Trait,   \* an agent's culture gives every feature a trait
          MaxRounds         \* bound: rounds or events

ASSUME CrowdAssumption ==
  /\ IsFiniteSet(Person) /\ Acquaintances \subseteq [Person -> SUBSET Person]
  /\ Fractions \subseteq Int \X Nat /\ MaxRounds \in Nat

VARIABLES crowd,    \* [rule, near, theta, active, culture, stopped]
          since     \* ghost: how it began, rounds since, the culture found absorbing
dvars == <<crowd, since>>

Rules == {"si_never", "si", "si_always", "threshold", "per_agent_threshold"}
NotYet == << >>

CrowdInit ==
  \E near \in Acquaintances :
    /\ \/ \E rule \in Rules, seeds \in SUBSET Person :
            \E theta \in IF rule = "per_agent_threshold" THEN [Person -> Fractions]
                         ELSE {[p \in Person |-> f] : f \in IF rule = "threshold" THEN Fractions ELSE {<<0, 1>>}} :
              crowd = [rule |-> rule, near |-> near, theta |-> theta, active |-> seeds, culture |-> NotYet, stopped |-> FALSE]
       \/ \E culture \in [Person -> [Feature -> Trait]] :
            crowd = [rule |-> "axelrod", near |-> near, theta |-> NotYet, active |-> {}, culture |-> culture, stopped |-> FALSE]
    /\ since = [active |-> crowd.active, culture |-> crowd.culture, rounds |-> 0, settled |-> NotYet]

Round == since.rounds < MaxRounds /\ since' = [since EXCEPT !.rounds = since.rounds + 1]

\* The run is asked to stop when nobody was added or nobody is left.
Activate(newly) ==
  crowd' = [crowd EXCEPT !.active = crowd.active \cup newly,
                         !.stopped = crowd.stopped \/ newly = {} \/ crowd.active \cup newly = Person]

\* si_contagion: every active neighbour has an independent chance, so any of those who
\* have one may catch it, all of them if the chance is one and nobody if it is zero.
LiveExposed ==    \* mutant: who caught it in this round passes it on in this round
  {p \in Person \ crowd.active :
     \E q \in crowd.near[p] : q \in crowd.active \/ (q < p /\ crowd.near[q] \cap crowd.active # {})}
Exposed == {p \in Person \ crowd.active : crowd.near[p] \cap crowd.active # {}}
SiRound == /\ Round /\ crowd.rule \in {"si_never", "si", "si_always"}
           /\ \E newly \in SUBSET Exposed : /\ crowd.rule = "si_never" => newly = {}
                                            /\ crowd.rule = "si_always" => newly = Exposed
                                            /\ Activate(newly)

\* threshold_round: active / max(degree, 1) >= theta.
Persuaded(p) == Cardinality(crowd.near[p] \cap crowd.active) * crowd.theta[p][2]
                  >= crowd.theta[p][1] * Max({Cardinality(crowd.near[p]), 1})
ThresholdRound == /\ Round /\ crowd.rule \in {"threshold", "per_agent_threshold"}
                  /\ Activate({p \in Person \ crowd.active : Persuaded(p)})

\* axelrod_event: copy a feature in which a neighbour differs that shares another one.
SharedFeatures(p, q) == {f \in Feature : crowd.culture[p][f] = crowd.culture[q][f]}
MayInteract(p, q) == SharedFeatures(p, q) \notin {{}, Feature}
AxelrodEvent ==
  /\ Round /\ crowd.rule = "axelrod"
  /\ \E p \in Person : \E q \in crowd.near[p] \ {p} : \E f \in Feature \ SharedFeatures(p, q) :
       MayInteract(p, q) /\ crowd' = [crowd EXCEPT !.culture[p][f] = crowd.culture[q][f]]
IsAbsorbing == \A p \in Person : \A q \in crowd.near[p] \ {p} : ~MayInteract(p, q)

\* A caller that asks is_absorbing and remembers what it saw.
FindSettled == /\ crowd.rule = "axelrod" /\ since.settled = NotYet /\ IsAbsorbing
               /\ since' = [since EXCEPT !.settled = crowd.culture] /\ UNCHANGED crowd

CrowdNext == SiRound \/ ThresholdRound \/ AxelrodEvent \/ FindSettled
CrowdSpec == CrowdInit /\ [][CrowdNext]_dvars

-----------------------------------------------------------------------------
(* Properties *)

Within(S, hops) ==
  LET ball[k \in 0 .. MaxRounds] == IF k = 0 THEN S
        ELSE LET inner == ball[k - 1] IN inner \cup {p \in Person : crowd.near[p] \cap inner # {}}
  IN  ball[hops]
\* Closed under a threshold, in the words of the definition.
Enough(p, S) == LET degree == Cardinality(crowd.near[p])
                    share  == IF degree = 0 THEN 0 ELSE Cardinality(crowd.near[p] \cap S)
                IN  share * crowd.theta[p][2] >= crowd.theta[p][1] * (IF degree = 0 THEN 1 ELSE degree)
Closed(S) == \A p \in Person : Enough(p, S) => p \in S

\* An activity travels one tie a round and no further, with a chance of one exactly so.
\* A threshold cascade that asked to stop has reached the least set of agents that holds
\* the first ones and persuades nobody else, whatever the order it came about in, and
\* never leaves it; before, it is inside.  A culture that was called absorbing never
\* changes again, and no agent has a trait that nobody it is connected to began with.
DiffusionExact ==
  /\ crowd.rule \in {"si_never", "si", "si_always"} =>
       /\ since.active \subseteq crowd.active
       /\ crowd.active \subseteq Within(since.active, since.rounds)
       /\ crowd.rule = "si_always" => crowd.active = Within(since.active, since.rounds)
       /\ crowd.stopped /\ crowd.rule = "si_always" => Exposed = {}
  /\ crowd.rule \in {"threshold", "per_agent_threshold"} =>
       LET closed == {S \in SUBSET Person : since.active \subseteq S /\ Closed(S)}
       IN  /\ \A S \in closed : crowd.active \subseteq S
           /\ crowd.stopped => crowd.active \in closed
  /\ crowd.rule = "axelrod" =>
       /\ since.settled # NotYet => crowd.culture = since.settled
       /\ \A p \in Person : \A f \in Feature :
            \E q \in Person : p \in Within({q}, since.rounds) /\ crowd.culture[p][f] = since.culture[q][f]
=============================================================================
