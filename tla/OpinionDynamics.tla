--------------------------- MODULE OpinionDynamics ---------------------------
(***************************************************************************)
(* The mechanisms that move opinions: Hegselmann-Krause, Deffuant, social  *)
(* judgement, Lorenz and group conformity.  Opinions are multiples of the  *)
(* unit 1 / One; the first ones are multiples of Fineness[MaxSteps], so that  *)
(* what pairs and groups divide, step after step, leaves no remainder.     *)
(***************************************************************************)
EXTENDS Integers, FiniteSets, FiniteSetsExt, Functions
CONSTANTS Speaker, One, Divisor,   \* what one step divides by divides Divisor
          Profiles,     \* first opinions looked at: speaker -> opinion
          Circles,      \* neighbourhoods looked at: speaker -> set of speakers
          Groupings,    \* speaker -> group; one with everybody in group 0 among them
          Windows,      \* the epsilons, <<left, right>>
          MaxSteps      \* bound: steps, or pairs drawn

\* What opinions are multiples of when there are as many steps to come.
Fineness[steps \in 0 .. MaxSteps] == IF steps = 0 THEN 1 ELSE Divisor * Fineness[steps - 1]

ASSUME TalkAssumption ==
  /\ IsFiniteSet(Speaker) /\ One \in Nat /\ MaxSteps \in Nat /\ Divisor \in Nat \ {0}
  /\ \E d \in 1 .. Divisor : Divisor = 4 * d
  /\ \A size \in 1 .. Cardinality(Speaker) : \E d \in 1 .. Divisor : Divisor = 2 * size * d
  /\ Profiles \subseteq [Speaker -> {Fineness[MaxSteps] * k : k \in -One .. One} \cap (-One .. One)]
  /\ Circles \subseteq [Speaker -> SUBSET Speaker] /\ Windows \subseteq Nat \X Nat

VARIABLES talk,     \* [rule, circle, group, window, x]
          talked    \* ghost: the first opinions and the number of steps
ovars == <<talk, talked>>

TalkInit ==
  /\ \E rule \in {"hk", "hk_random", "deffuant", "social_judgement", "lorenz", "group"}, x \in Profiles,
        circle \in Circles, group \in Groupings, window \in Windows :
       /\ rule # "group" => group = [i \in Speaker |-> 0]
       /\ rule = "group" => \A i \in Speaker : circle[i] = Speaker
       /\ talk = [rule |-> rule, circle |-> circle, group |-> group, window |-> window, x |-> x]
  /\ talked = [x |-> talk.x, steps |-> 0]
Talk(x) == /\ talked.steps < MaxSteps /\ talked' = [talked EXCEPT !.steps = talked.steps + 1]
           /\ talk' = [talk EXCEPT !.x = x]

Gap(i, j) == talk.x[j] - talk.x[i]
Size(d) == IF d < 0 THEN -d ELSE d
Sign(a) == IF a < 0 THEN -1 ELSE 1     \* signum of a float is never 0
ClampAttitude(a) == Max({-One, Min({a, One})})
SumOver(S, f(_)) == MapThenSumSet(f, S)

\* hegselmann_krause: the mean of the opinions in the window, one's own among them; the
\* random mean is somewhere between the least and the greatest.
Confidence(i) == {j \in talk.circle[i] \cup {i} : Gap(i, j) >= -talk.window[1] /\ Gap(i, j) <= talk.window[2]}
MeanOver(S) == SumOver(S, LAMBDA j : talk.x[j]) \div Cardinality(S)
HegselmannKrause == talk.rule = "hk" /\ Talk([i \in Speaker |-> MeanOver(Confidence(i))])
HegselmannKrauseRandom ==
  /\ talk.rule = "hk_random"
  /\ \E low \in SUBSET Speaker :
       Talk([i \in Speaker |-> LET heard == {talk.x[j] : j \in Confidence(i)}
                               IN  IF i \in low THEN Min(heard) ELSE Max(heard)])

\* deffuant: a drawn pair within epsilon moves towards each other by mu = 1/2 or 1/4,
\* both by the opinions before.
MovedInTurn(i, j, mu) ==    \* mutant: the second moves towards where the first has got to
  LET xi == talk.x[i] + Gap(i, j) \div mu
  IN  [talk.x EXCEPT ![i] = xi, ![j] = talk.x[j] + (xi - talk.x[j]) \div mu]
Moved(i, j, mu) == [talk.x EXCEPT ![i] = talk.x[i] + Gap(i, j) \div mu, ![j] = talk.x[j] + Gap(j, i) \div mu]
Deffuant ==
  /\ talk.rule = "deffuant"
  /\ \E i \in Speaker, mu \in {2, 4} : \E j \in talk.circle[i] \ {i} :
       Talk(IF Size(Gap(i, j)) <= talk.window[1] THEN Moved(i, j, mu) ELSE talk.x)

\* social_judgement_update: towards the messages closer than epsilon, away from those
\* beyond the rejection, on average over both; lorenz_update: towards the close ones on
\* average, and further out.  alpha = 1/2, repulsion = 1/4, rejection = right of window.
Others(i) == talk.circle[i] \ {i}
Near(i) == {j \in Others(i) : Size(Gap(i, j)) < talk.window[1]}
Far(i) == {j \in Others(i) : Size(Gap(i, j)) >= talk.window[1] /\ Size(Gap(i, j)) > talk.window[2]}
SocialJudgement ==
  /\ talk.rule = "social_judgement"
  /\ Talk([i \in Speaker |->
       LET count == Cardinality(Near(i) \cup Far(i))
           pull == SumOver(Near(i), LAMBDA j : Gap(i, j) \div 2)
           push == SumOver(Far(i), LAMBDA j : Sign(Gap(i, j)) * (One \div 4))
       IN  ClampAttitude(talk.x[i] + (IF count = 0 THEN 0 ELSE (pull - push) \div count))])
Lorenz ==
  /\ talk.rule = "lorenz"
  /\ Talk([i \in Speaker |->
       LET pull == SumOver(Near(i), LAMBDA j : Gap(i, j) \div 2)
           polarization == IF Others(i) = {} THEN 0 ELSE Sign(talk.x[i]) * (Size(talk.x[i]) \div 4)
       IN  ClampAttitude(talk.x[i] + (IF Near(i) = {} THEN 0 ELSE pull \div Cardinality(Near(i))) + polarization)])

\* group_conformity: halfway to the mean of the group, by the opinions before.
GroupConformity ==
  /\ talk.rule = "group"
  /\ Talk([i \in Speaker |-> talk.x[i] + (MeanOver({j \in Speaker : talk.group[j] = talk.group[i]}) - talk.x[i]) \div 2])

TalkNext == HegselmannKrause \/ HegselmannKrauseRandom \/ Deffuant \/ SocialJudgement \/ Lorenz \/ GroupConformity
TalkSpec == TalkInit /\ [][TalkNext]_ovars

-----------------------------------------------------------------------------
(* Properties *)

OpinionSum(x, S) == SumOver(S, LAMBDA i : x[i])
Everybody == \A i \in Speaker : talk.circle[i] \cup {i} = Speaker

\* What averaging promises, over any number of steps.  Nobody leaves the range of the
\* first opinions (of the attitude scale where repulsion is at work).  A pair and a group
\* keep their sum.  Nobody overtakes anybody where all hear all, also in a lopsided
\* window, nor within a group; and a group hears nothing from another.
OpinionsAsPromised ==
  /\ talk.rule \in {"hk", "hk_random", "deffuant", "group"} =>
       \A i \in Speaker : talk.x[i] \in Min(Range(talked.x)) .. Max(Range(talked.x))
  /\ \A i \in Speaker : talk.x[i] \in -One .. One
  /\ talk.rule = "deffuant" => OpinionSum(talk.x, Speaker) = OpinionSum(talked.x, Speaker)
  /\ talk.rule = "hk" /\ Everybody =>
       \A i, j \in Speaker : talked.x[i] <= talked.x[j] => talk.x[i] <= talk.x[j]
  /\ talk.rule = "lorenz" =>
       \A i \in Speaker : (\A j \in Speaker : talked.x[j] >= 0) => talk.x[i] >= 0
  /\ talk.rule = "group" =>
       LET members(i) == {j \in Speaker : talk.group[j] = talk.group[i]}
       IN  \A i \in Speaker :
             /\ OpinionSum(talk.x, members(i)) = OpinionSum(talked.x, members(i))
             /\ \A j \in members(i) : talked.x[i] <= talked.x[j] => talk.x[i] <= talk.x[j]
             /\ talk.x[i] \in Min({talked.x[j] : j \in members(i)}) .. Max({talked.x[j] : j \in members(i)})
=============================================================================
