---------------------------- MODULE WorldProofs -----------------------------
(***************************************************************************)
(* What agents live in, for any agents and any size of their world: on a   *)
(* grid who sits where, in a crowd whom an idea has reached, in an office  *)
(* who speaks up, in a firm who is employed and who left, and in a market  *)
(* what is traded after what was traded before.                            *)
(***************************************************************************)
EXTENDS Contagion, OrgSilence, Lattice, HrLifecycle, Markets, WellFoundedInduction, FiniteSetTheorems, TLAPS

(***************************************************************************)
(* Induction, in sets: the natural numbers are well founded, so a set of   *)
(* them has a least one.                                                   *)
(***************************************************************************)
(* A set of numbers that is not empty has a least one. *)
LEMMA Least ==
  ASSUME NEW T, T \subseteq Nat, T # {}
  PROVE  \E x \in T : \A y \in T : x <= y
<1>1. \E x \in T : \A y \in T : ~ (<<y, x>> \in OpToRel(<, Nat))
  BY NatLessThanWellFounded, WFMin, Zenon
<1>2. OpToRel(<, Nat) = {ss \in Nat \X Nat : ss[1] < ss[2]}
  BY Zenon DEF OpToRel
<1>3. \E x \in T : \A y \in T : ~ (<<y, x>> \in {ss \in Nat \X Nat : ss[1] < ss[2]})
  BY <1>1, <1>2, Zenon
<1>4. PICK x \in T : \A y \in T : ~ (<<y, x>> \in {ss \in Nat \X Nat : ss[1] < ss[2]})
  BY <1>3
<1>5. ASSUME NEW y \in T PROVE x <= y
  <2>1. x \in Nat /\ y \in Nat
    OBVIOUS
  <2>2. <<y, x>> \in Nat \X Nat /\ <<y, x>>[1] = y /\ <<y, x>>[2] = x
    BY <2>1
  <2>3. ~ (y < x)
    BY <1>4, <2>2, Zenon
  <2>4. QED
    BY <2>1, <2>3
<1>6. QED
  BY <1>5

(* A set that holds 0 and with a number the next one holds them all. *)
LEMMA Induct ==
  ASSUME NEW T, 0 \in T, \A n \in Nat : n \in T => n + 1 \in T
  PROVE  Nat \subseteq T
<1> DEFINE U == Nat \ T
<1>1. SUFFICES ASSUME U # {} PROVE FALSE
  OBVIOUS
<1>2. PICK x \in U : \A y \in U : x <= y
  BY <1>1, Least
<1>3. x # 0 /\ x - 1 \in Nat /\ x - 1 \notin U
  BY <1>2
<1>4. QED
  BY <1>2, <1>3

(* Steps one after the other, each a function on a set, have a run. *)
Machine(N, V, x, F)  == N \in Nat /\ x \in V /\ F \in [1 .. N -> [V -> V]]
RunOf(f, N, V, x, F) == f \in [0 .. N -> V] /\ f[0] = x /\ \A k \in 1 .. N : f[k] = F[k][f[k - 1]]
LEMMA Recursion ==
  ASSUME NEW N, NEW V, NEW x, NEW F, Machine(N, V, x, F)
  PROVE  \E f : RunOf(f, N, V, x, F)
<1> DEFINE RunsTo(f, n) == f \in [0 .. n -> V] /\ f[0] = x /\ \A k \in 1 .. n : f[k] = F[k][f[k - 1]]
           T == {n \in Nat : n <= N => \E f : RunsTo(f, n)}
<1>0. N \in Nat /\ x \in V /\ F \in [1 .. N -> [V -> V]]
  BY DEF Machine
<1>1. 0 \in T
  <2>1. RunsTo([k \in 0 .. 0 |-> x], 0)
    BY <1>0
  <2>2. QED
    BY <2>1
<1>2. ASSUME NEW n \in Nat, n \in T PROVE n + 1 \in T
  <2>1. SUFFICES ASSUME n + 1 <= N PROVE \E f : RunsTo(f, n + 1)
    OBVIOUS
  <2>2. PICK f : RunsTo(f, n)
    BY <1>0, <1>2, <2>1
  <2>3. f[n] \in V /\ F[n + 1] \in [V -> V] /\ F[n + 1][f[n]] \in V
    BY <1>0, <2>1, <2>2
  <2> DEFINE g == [k \in 0 .. n + 1 |-> IF k = n + 1 THEN F[n + 1][f[n]] ELSE f[k]]
  <2>4. g \in [0 .. n + 1 -> V] /\ g[0] = x
    BY <2>2, <2>3
  <2>5. ASSUME NEW k \in 1 .. n + 1 PROVE g[k] = F[k][g[k - 1]]
    <3>1. k - 1 \in 0 .. n + 1 /\ k - 1 # n + 1 /\ g[k - 1] = f[k - 1]
      OBVIOUS
    <3>2. CASE k = n + 1
      <4>1. g[k] = F[n + 1][f[n]] /\ k - 1 = n
        BY <3>2
      <4>2. QED
        BY <3>1, <3>2, <4>1
    <3>3. CASE k # n + 1
      <4>1. k \in 1 .. n /\ g[k] = f[k]
        BY <3>3
      <4>2. f[k] = F[k][f[k - 1]]
        BY <2>2, <4>1
      <4>3. QED
        BY <3>1, <4>1, <4>2
    <3>4. QED
      BY <3>2, <3>3
  <2>6. RunsTo(g, n + 1)
    <3> HIDE DEF g
    <3>1. QED
      BY <2>4, <2>5
  <2> HIDE DEF RunsTo
  <2>7. QED
    BY <2>6
<1>3. N \in T
  <2> HIDE DEF T
  <2>1. QED
    BY <1>0, <1>1, <1>2, Induct
<1>4. QED
  BY <1>3 DEF RunOf

-----------------------------------------------------------------------------
(***************************************************************************)
(* What spreads over ties.                                                 *)
(***************************************************************************)
SiRules        == {"si_never", "si", "si_always"}
ThresholdRules == {"threshold", "per_agent_threshold"}
Cultures       == [Person -> [Feature -> Trait]]

CrowdTypeOK ==
  /\ crowd \in [rule : Rules \cup {"axelrod"}, near : Acquaintances,
                theta : [Person -> Fractions \cup {<<0, 1>>}] \cup {NotYet}, active : SUBSET Person,
                culture : Cultures \cup {NotYet}, stopped : BOOLEAN]
  /\ since \in [active : SUBSET Person, culture : Cultures \cup {NotYet},
                rounds : 0 .. MaxRounds, settled : Cultures \cup {NotYet}]

(* The words of the property, of the relation and the thresholds they are about. *)
Ball(near, S, hops) ==
  LET ball[k \in 0 .. MaxRounds] == IF k = 0 THEN S
        ELSE LET inner == ball[k - 1] IN inner \cup {p \in Person : near[p] \cap inner # {}}
  IN  ball[hops]
Touching(near, inner) == {p \in Person : near[p] \cap inner # {}}
EnoughOf(near, theta, p, S) ==
  LET degree == Cardinality(near[p])
      share  == IF degree = 0 THEN 0 ELSE Cardinality(near[p] \cap S)
  IN  share * theta[p][2] >= theta[p][1] * (IF degree = 0 THEN 1 ELSE degree)
ClosedOf(near, theta, S) == \A p \in Person : EnoughOf(near, theta, p, S) => p \in S
ExposedOf(near, active)  == {p \in Person \ active : near[p] \cap active # {}}

SiInv ==
  crowd.rule \in SiRules =>
    /\ since.active \subseteq crowd.active
    /\ crowd.active \subseteq Ball(crowd.near, since.active, since.rounds)
    /\ crowd.rule = "si_always" => crowd.active = Ball(crowd.near, since.active, since.rounds)
    /\ crowd.stopped /\ crowd.rule = "si_always" => ExposedOf(crowd.near, crowd.active) = {}

ThresholdInv ==
  crowd.rule \in ThresholdRules =>
    /\ crowd.theta \in [Person -> Fractions] /\ since.active \subseteq crowd.active
    /\ \A S \in SUBSET Person :
         since.active \subseteq S /\ ClosedOf(crowd.near, crowd.theta, S) => crowd.active \subseteq S
    /\ crowd.stopped => ClosedOf(crowd.near, crowd.theta, crowd.active)

(* A culture that was found absorbing is the one there is, and is absorbing still. *)
AxelrodInv ==
  crowd.rule = "axelrod" =>
    /\ crowd.culture \in Cultures /\ since.culture \in Cultures
    /\ since.settled # NotYet => crowd.culture = since.settled /\ IsAbsorbing
    /\ \A p \in Person : \A f \in Feature :
         \E q \in Person : /\ p \in Ball(crowd.near, {q}, since.rounds)
                           /\ crowd.culture[p][f] = since.culture[q][f]

CrowdInv == CrowdTypeOK /\ SiInv /\ ThresholdInv /\ AxelrodInv

-----------------------------------------------------------------------------
(* Facts about balls and shares *)

(* The ball of no hops is the set, and each hop adds those who are near it. *)
LEMMA BallGrows ==
  ASSUME NEW near, NEW S
  PROVE  /\ Ball(near, S, 0) = S
         /\ \A k \in 0 .. MaxRounds - 1 :
              Ball(near, S, k + 1) = Ball(near, S, k) \cup Touching(near, Ball(near, S, k))
<1> DEFINE Add(inner) == inner \cup Touching(near, inner)
           Is(f, n) == f = [k \in 0 .. n |-> IF k = 0 THEN S ELSE Add(f[k - 1])]
           T == {n \in Nat : \E f : Is(f, n)}
           ball == CHOOSE f : Is(f, MaxRounds)
<1>1. 0 \in T
  <2>1. Is([k \in 0 .. 0 |-> S], 0)
    OBVIOUS
  <2>2. QED
    BY <2>1
<1>2. ASSUME NEW n \in Nat, n \in T PROVE n + 1 \in T
  <2>1. PICK f : Is(f, n)
    BY <1>2
  <2> DEFINE g == [k \in 0 .. n + 1 |-> IF k = n + 1 THEN Add(f[n]) ELSE f[k]]
  <2>2. ASSUME NEW k \in 0 .. n + 1 PROVE g[k] = IF k = 0 THEN S ELSE Add(g[k - 1])
    <3>1. f = [j \in 0 .. n |-> IF j = 0 THEN S ELSE Add(f[j - 1])]
      BY <2>1
    <3> HIDE DEF Add
    <3>2. CASE k = n + 1
      <4>1. k # 0 /\ k - 1 = n /\ n # n + 1 /\ n \in 0 .. n + 1
        BY <3>2
      <4>2. g[k] = Add(f[n]) /\ g[n] = f[n]
        BY <3>2, <4>1
      <4>3. QED
        BY <4>1, <4>2
    <3>3. CASE k # n + 1 /\ k # 0
      <4>1. k \in 0 .. n /\ k - 1 \in 0 .. n /\ k - 1 # n + 1
        BY <3>3
      <4>2. g[k] = f[k] /\ g[k - 1] = f[k - 1]
        BY <3>3, <4>1
      <4>3. f[k] = Add(f[k - 1])
        BY <3>1, <3>3, <4>1
      <4>4. QED
        BY <3>3, <4>2, <4>3
    <3>4. CASE k = 0
      <4>1. k \in 0 .. n /\ k # n + 1
        BY <3>4
      <4>2. g[k] = f[k] /\ f[k] = S
        BY <3>1, <3>4, <4>1
      <4>3. QED
        BY <3>4, <4>2
    <3>5. QED
      BY <3>2, <3>3, <3>4
  <2>3. g = [k \in 0 .. n + 1 |-> g[k]]
    OBVIOUS
  <2> HIDE DEF g
  <2>4. Is(g, n + 1)
    BY <2>2, <2>3
  <2> HIDE DEF Is
  <2>5. \E h : Is(h, n + 1)
    BY <2>4
  <2>6. QED
    BY <2>5
<1>3. \E f : Is(f, MaxRounds)
  <2> HIDE DEF T
  <2>1. Nat \subseteq T
    BY <1>1, <1>2, Induct
  <2>2. QED
    BY <2>1, CrowdAssumption DEF T
<1>4. Is(ball, MaxRounds)
  <2> HIDE DEF Is
  <2>1. QED
    BY <1>3, Zenon
<1>5. ball = [k \in 0 .. MaxRounds |-> IF k = 0 THEN S ELSE Add(ball[k - 1])]
  BY <1>4
<1>6. \A k : Ball(near, S, k) = ball[k]
  BY DEF Ball, Touching
<1> HIDE DEF ball, Add
<1>7. \A k \in 0 .. MaxRounds : ball[k] = IF k = 0 THEN S ELSE Add(ball[k - 1])
  BY <1>5
<1>8. ball[0] = S
  BY <1>7, CrowdAssumption
<1>9. ASSUME NEW k \in 0 .. MaxRounds - 1 PROVE ball[k + 1] = Add(ball[k])
  <2>1. k + 1 \in 0 .. MaxRounds /\ k + 1 # 0 /\ (k + 1) - 1 = k
    BY CrowdAssumption
  <2>2. QED
    BY <1>7, <2>1
<1>10. QED
  BY <1>6, <1>8, <1>9 DEF Add

LEMMA BallStep ==
  ASSUME NEW near, NEW S, NEW k \in 0 .. MaxRounds - 1
  PROVE  Ball(near, S, k + 1) = Ball(near, S, k) \cup Touching(near, Ball(near, S, k))
<1>1. \A j \in 0 .. MaxRounds - 1 : Ball(near, S, j + 1) = Ball(near, S, j) \cup Touching(near, Ball(near, S, j))
  BY BallGrows, Zenon
<1>2. QED
  BY <1>1, CrowdAssumption

(* A larger of one and a degree. *)
LEMMA AtLeastOne ==
  ASSUME NEW d \in Nat
  PROVE  Max({d, 1}) = IF d = 0 THEN 1 ELSE d
BY DEF Max

(* Cardinalities of neighbourhoods, and of what is active in them. *)
LEMMA Shares ==
  ASSUME NEW near \in Acquaintances, NEW p \in Person, NEW S \in SUBSET Person, NEW A \in SUBSET S
  PROVE  /\ Cardinality(near[p]) \in Nat
         /\ Cardinality(near[p] \cap A) \in Nat /\ Cardinality(near[p] \cap S) \in Nat
         /\ Cardinality(near[p] \cap A) <= Cardinality(near[p] \cap S)
         /\ Cardinality(near[p]) = 0 => Cardinality(near[p] \cap A) = 0
<1>1. near[p] \in SUBSET Person
  BY CrowdAssumption
<1>2. IsFiniteSet(near[p]) /\ IsFiniteSet(near[p] \cap S)
  BY <1>1, CrowdAssumption, FS_Subset
<1>3. near[p] \cap A \subseteq near[p] \cap S /\ near[p] \cap A \subseteq near[p]
  OBVIOUS
<1>4. IsFiniteSet(near[p] \cap A) /\ Cardinality(near[p] \cap A) <= Cardinality(near[p] \cap S)
      /\ Cardinality(near[p] \cap A) <= Cardinality(near[p])
  BY <1>2, <1>3, FS_Subset
<1>5. QED
  BY <1>2, <1>4, FS_CardinalityType

LEMMA ProductGrows ==
  ASSUME NEW a \in Nat, NEW b \in Nat, NEW t \in Nat, a <= b
  PROVE  a * t \in Int /\ b * t \in Int /\ a * t <= b * t
OBVIOUS

(* Who is persuaded by some is persuaded by more. *)
LEMMA EnoughGrows ==
  ASSUME NEW near \in Acquaintances, NEW theta \in [Person -> Fractions], NEW p \in Person,
         NEW S \in SUBSET Person, NEW A \in SUBSET S, EnoughOf(near, theta, p, A)
  PROVE  EnoughOf(near, theta, p, S)
<1>1. theta[p] \in Int \X Nat
  BY CrowdAssumption
<1>2. PICK n \in Int, t \in Nat : theta[p][1] = n /\ theta[p][2] = t
  BY <1>1
<1>3. PICK d \in Nat, a \in Nat, b \in Nat :
        /\ d = Cardinality(near[p]) /\ a = Cardinality(near[p] \cap A) /\ b = Cardinality(near[p] \cap S) /\ a <= b
  BY Shares
<1>4. a * t \in Int /\ b * t \in Int /\ a * t <= b * t
  BY <1>3, ProductGrows
<1>5. PICK bar \in Int : bar = n * (IF d = 0 THEN 1 ELSE d)
  OBVIOUS
<1>6. (IF d = 0 THEN 0 ELSE a) * t >= bar
  BY <1>2, <1>3, <1>5 DEF EnoughOf
<1>7. (IF d = 0 THEN 0 ELSE b) * t >= bar
  BY <1>4, <1>6
<1>8. QED
  BY <1>2, <1>3, <1>5, <1>7 DEF EnoughOf

(* The code's comparison is that of the definition. *)
LEMMA PersuadedIsEnough ==
  ASSUME CrowdTypeOK, crowd.theta \in [Person -> Fractions], NEW p \in Person
  PROVE  Persuaded(p) <=> EnoughOf(crowd.near, crowd.theta, p, crowd.active)
<1>1. crowd.near \in Acquaintances /\ crowd.active \in SUBSET Person
  BY DEF CrowdTypeOK
<1>2. PICK d \in Nat, a \in Nat :
        d = Cardinality(crowd.near[p]) /\ a = Cardinality(crowd.near[p] \cap crowd.active) /\ (d = 0 => a = 0)
  BY <1>1, Shares
<1>3. Max({d, 1}) = IF d = 0 THEN 1 ELSE d
  BY AtLeastOne
<1>4. Persuaded(p) <=> a * crowd.theta[p][2] >= crowd.theta[p][1] * Max({d, 1})
  BY <1>2 DEF Persuaded
<1>5. EnoughOf(crowd.near, crowd.theta, p, crowd.active)
        <=> (IF d = 0 THEN 0 ELSE a) * crowd.theta[p][2] >= crowd.theta[p][1] * (IF d = 0 THEN 1 ELSE d)
  BY <1>2 DEF EnoughOf
<1>6. (IF d = 0 THEN 0 ELSE a) = a
  BY <1>2
<1>7. QED
  BY <1>3, <1>4, <1>5, <1>6, Zenon

-----------------------------------------------------------------------------
(* The invariant *)

LEMMA InitCrowdInv == CrowdInit => CrowdInv
<1>1. SUFFICES ASSUME CrowdInit PROVE CrowdInv
  OBVIOUS
<1>2. /\ since = [active |-> crowd.active, culture |-> crowd.culture, rounds |-> 0, settled |-> NotYet]
      /\ 0 \in 0 .. MaxRounds
  BY <1>1, CrowdAssumption DEF CrowdInit
<1>3. PICK near \in Acquaintances :
        \/ \E rule \in Rules, seeds \in SUBSET Person :
             \E theta \in IF rule = "per_agent_threshold" THEN [Person -> Fractions]
                          ELSE {[p \in Person |-> f] : f \in IF rule = "threshold" THEN Fractions ELSE {<<0, 1>>}} :
               crowd = [rule |-> rule, near |-> near, theta |-> theta, active |-> seeds, culture |-> NotYet, stopped |-> FALSE]
        \/ \E culture \in [Person -> [Feature -> Trait]] :
             crowd = [rule |-> "axelrod", near |-> near, theta |-> NotYet, active |-> {}, culture |-> culture, stopped |-> FALSE]
  BY <1>1 DEF CrowdInit
<1>4. \A S : Ball(near, S, 0) = S
  BY BallGrows
<1>5. CASE \E rule \in Rules, seeds \in SUBSET Person :
             \E theta \in IF rule = "per_agent_threshold" THEN [Person -> Fractions]
                          ELSE {[p \in Person |-> f] : f \in IF rule = "threshold" THEN Fractions ELSE {<<0, 1>>}} :
               crowd = [rule |-> rule, near |-> near, theta |-> theta, active |-> seeds, culture |-> NotYet, stopped |-> FALSE]
  <2>1. PICK rule \in Rules, seeds \in SUBSET Person :
             \E theta \in IF rule = "per_agent_threshold" THEN [Person -> Fractions]
                          ELSE {[p \in Person |-> f] : f \in IF rule = "threshold" THEN Fractions ELSE {<<0, 1>>}} :
               crowd = [rule |-> rule, near |-> near, theta |-> theta, active |-> seeds, culture |-> NotYet, stopped |-> FALSE]
    BY <1>5
  <2>2. PICK theta \in IF rule = "per_agent_threshold" THEN [Person -> Fractions]
                       ELSE {[p \in Person |-> f] : f \in IF rule = "threshold" THEN Fractions ELSE {<<0, 1>>}} :
               crowd = [rule |-> rule, near |-> near, theta |-> theta, active |-> seeds, culture |-> NotYet, stopped |-> FALSE]
    BY <2>1
  <2>3. theta \in [Person -> Fractions \cup {<<0, 1>>}] /\ (rule \in ThresholdRules => theta \in [Person -> Fractions])
    <3>1. CASE rule = "per_agent_threshold"
      BY <2>2, <3>1 DEF ThresholdRules
    <3>2. CASE rule = "threshold"
      BY <2>2, <3>2 DEF ThresholdRules
    <3>3. CASE rule \notin ThresholdRules
      BY <2>2, <3>3 DEF ThresholdRules
    <3>4. QED
      BY <3>1, <3>2, <3>3 DEF ThresholdRules
  <2>4. /\ crowd.rule = rule /\ crowd.near = near /\ crowd.theta = theta /\ crowd.active = seeds
        /\ crowd.culture = NotYet /\ crowd.stopped = FALSE /\ rule # "axelrod"
    BY <2>2 DEF Rules
  <2>5. CrowdTypeOK
    BY <1>2, <2>2, <2>3, <2>4 DEF CrowdTypeOK
  <2>6. SiInv /\ ThresholdInv /\ AxelrodInv
    BY <1>2, <1>4, <2>3, <2>4 DEF SiInv, ThresholdInv, AxelrodInv
  <2>7. QED
    BY <2>5, <2>6 DEF CrowdInv
<1>6. CASE \E culture \in [Person -> [Feature -> Trait]] :
             crowd = [rule |-> "axelrod", near |-> near, theta |-> NotYet, active |-> {}, culture |-> culture, stopped |-> FALSE]
  <2>1. PICK culture \in Cultures :
             crowd = [rule |-> "axelrod", near |-> near, theta |-> NotYet, active |-> {}, culture |-> culture, stopped |-> FALSE]
    BY <1>6 DEF Cultures
  <2>2. crowd.rule = "axelrod" /\ crowd.near = near /\ crowd.culture = culture
        /\ since.culture = culture /\ since.settled = NotYet /\ since.rounds = 0
    BY <1>2, <2>1
  <2>3. CrowdTypeOK
    BY <1>2, <2>1 DEF CrowdTypeOK
  <2>4. SiInv /\ ThresholdInv /\ AxelrodInv
    BY <1>4, <2>1, <2>2 DEF SiInv, ThresholdInv, AxelrodInv, SiRules, ThresholdRules
  <2>5. QED
    BY <2>3, <2>4 DEF CrowdInv
<1>7. QED
  BY <1>3, <1>5, <1>6

(* What a round of any rule does to the clock. *)
LEMMA RoundCounts ==
  ASSUME CrowdTypeOK, Round
  PROVE  /\ since'.active = since.active /\ since'.culture = since.culture /\ since'.settled = since.settled
         /\ since'.rounds = since.rounds + 1 /\ since.rounds \in 0 .. MaxRounds - 1
         /\ since' \in [active : SUBSET Person, culture : Cultures \cup {NotYet},
                        rounds : 0 .. MaxRounds, settled : Cultures \cup {NotYet}]
BY CrowdAssumption DEF CrowdTypeOK, Round

(* What activating some does to the crowd. *)
LEMMA ActivateAdds ==
  ASSUME CrowdTypeOK, NEW newly \in SUBSET Person, Activate(newly)
  PROVE  /\ crowd'.rule = crowd.rule /\ crowd'.near = crowd.near /\ crowd'.theta = crowd.theta
         /\ crowd'.active = crowd.active \cup newly /\ crowd'.active \in SUBSET Person
         /\ crowd'.stopped => crowd.stopped \/ newly = {} \/ crowd'.active = Person
         /\ crowd' \in [rule : Rules \cup {"axelrod"}, near : Acquaintances,
                        theta : [Person -> Fractions \cup {<<0, 1>>}] \cup {NotYet}, active : SUBSET Person,
                        culture : Cultures \cup {NotYet}, stopped : BOOLEAN]
<1> DEFINE Th == [Person -> Fractions \cup {<<0, 1>>}] \cup {NotYet}
           Cu == Cultures \cup {NotYet}
<1>1. crowd \in [rule : Rules \cup {"axelrod"}, near : Acquaintances, theta : Th, active : SUBSET Person,
                 culture : Cu, stopped : BOOLEAN]
  BY DEF CrowdTypeOK
<1>2. crowd' = [crowd EXCEPT !.active = crowd.active \cup newly,
                             !.stopped = crowd.stopped \/ newly = {} \/ crowd.active \cup newly = Person]
  BY DEF Activate
<1> HIDE DEF Th, Cu
<1>3. PICK b \in BOOLEAN : b = (crowd.stopped \/ newly = {} \/ crowd.active \cup newly = Person)
  OBVIOUS
<1>4. crowd' = [crowd EXCEPT !.active = crowd.active \cup newly, !.stopped = b]
  BY <1>2, <1>3, Zenon
<1>5. crowd' \in [rule : Rules \cup {"axelrod"}, near : Acquaintances, theta : Th, active : SUBSET Person,
                  culture : Cu, stopped : BOOLEAN]
  BY <1>1, <1>4
<1>6. /\ crowd'.rule = crowd.rule /\ crowd'.near = crowd.near /\ crowd'.theta = crowd.theta
      /\ crowd'.active = crowd.active \cup newly /\ crowd'.stopped = b
  BY <1>1, <1>4
<1>7. crowd'.active \in SUBSET Person
  BY <1>1, <1>6
<1>8. crowd'.stopped => crowd.stopped \/ newly = {} \/ crowd'.active = Person
  BY <1>3, <1>6
<1>9. QED
  BY <1>5, <1>6, <1>7, <1>8 DEF Th, Cu

LEMMA SiRoundCrowdInv == ASSUME CrowdInv, SiRound PROVE CrowdInv'
<1>1. CrowdTypeOK /\ SiInv /\ Round /\ crowd.rule \in SiRules
  BY DEF CrowdInv, SiRound, SiRules
<1>2. PICK newly \in SUBSET Exposed : /\ crowd.rule = "si_never" => newly = {}
                                      /\ crowd.rule = "si_always" => newly = Exposed
                                      /\ Activate(newly)
  BY DEF SiRound
<1>3. Exposed = ExposedOf(crowd.near, crowd.active) /\ newly \in SUBSET Person
  BY DEF Exposed, ExposedOf
<1>4. /\ crowd'.rule = crowd.rule /\ crowd'.near = crowd.near
      /\ crowd'.active = crowd.active \cup newly /\ crowd'.active \in SUBSET Person
      /\ crowd'.stopped => crowd.stopped \/ newly = {} \/ crowd'.active = Person
  BY <1>1, <1>2, <1>3, ActivateAdds
<1>5. CrowdTypeOK'
  BY <1>1, <1>2, <1>3, ActivateAdds, RoundCounts DEF CrowdTypeOK
<1>6. since'.active = since.active /\ since'.rounds = since.rounds + 1 /\ since.rounds \in 0 .. MaxRounds - 1
  BY <1>1, RoundCounts
<1>7. PICK near, B, B2 : /\ near = crowd.near /\ B = Ball(crowd.near, since.active, since.rounds)
                         /\ B2 = Ball(crowd.near, since.active, since.rounds + 1)
  OBVIOUS
<1>8. B2 = B \cup {p \in Person : near[p] \cap B # {}}
  <2>1. PICK k \in 0 .. MaxRounds - 1 : k = since.rounds
    BY <1>6
  <2>2. Ball(near, since.active, k + 1)
          = Ball(near, since.active, k) \cup Touching(near, Ball(near, since.active, k))
    BY BallStep
  <2>3. QED
    BY <1>7, <2>1, <2>2 DEF Touching
<1>9. SiInv'
  <2>1. /\ since.active \subseteq crowd.active /\ crowd.active \subseteq B
        /\ crowd.rule = "si_always" => crowd.active = B
        /\ crowd.stopped /\ crowd.rule = "si_always" => ExposedOf(near, crowd.active) = {}
    BY <1>1, <1>7 DEF SiInv
  <2>2. newly \subseteq {p \in Person \ crowd.active : near[p] \cap crowd.active # {}}
        /\ (crowd.rule = "si_always" => newly = {p \in Person \ crowd.active : near[p] \cap crowd.active # {}})
    BY <1>2, <1>3, <1>7 DEF ExposedOf
  <2>3. crowd'.active \subseteq B2
    BY <1>4, <1>8, <2>1, <2>2
  <2>4. crowd.rule = "si_always" => crowd'.active = B2
    BY <1>4, <1>8, <2>1, <2>2
  <2>5. ASSUME crowd'.stopped, crowd.rule = "si_always" PROVE ExposedOf(near, crowd'.active) = {}
    <3>1. CASE crowd'.active = Person
      BY <3>1 DEF ExposedOf
    <3>2. CASE newly = {}
      <4>1. crowd'.active = crowd.active
        BY <1>4, <3>2
      <4>2. QED
        BY <2>2, <2>5, <3>2, <4>1 DEF ExposedOf
    <3>3. CASE crowd.stopped
      <4>1. newly = {}
        BY <2>1, <2>2, <2>5, <3>3 DEF ExposedOf
      <4>2. crowd'.active = crowd.active
        BY <1>4, <4>1
      <4>3. QED
        BY <2>1, <2>5, <3>3, <4>2
    <3>4. QED
      BY <1>4, <2>5, <3>1, <3>2, <3>3
  <2>6. since'.active \subseteq crowd'.active
    BY <1>4, <1>6, <2>1
  <2>7. QED
    BY <1>4, <1>6, <1>7, <2>3, <2>4, <2>5, <2>6 DEF SiInv
<1>10. ThresholdInv' /\ AxelrodInv'
  BY <1>1, <1>4 DEF ThresholdInv, AxelrodInv, SiRules, ThresholdRules
<1>11. QED
  BY <1>5, <1>9, <1>10 DEF CrowdInv

LEMMA ThresholdRoundCrowdInv == ASSUME CrowdInv, ThresholdRound PROVE CrowdInv'
<1>1. CrowdTypeOK /\ ThresholdInv /\ Round /\ crowd.rule \in ThresholdRules
  BY DEF CrowdInv, ThresholdRound, ThresholdRules
<1>2. PICK newly \in SUBSET Person : newly = {p \in Person \ crowd.active : Persuaded(p)}
  OBVIOUS
<1>3. Activate(newly)
  BY <1>2 DEF ThresholdRound
<1>4. /\ crowd'.rule = crowd.rule /\ crowd'.near = crowd.near /\ crowd'.theta = crowd.theta
      /\ crowd'.active = crowd.active \cup newly /\ crowd'.active \in SUBSET Person
      /\ crowd'.stopped => crowd.stopped \/ newly = {} \/ crowd'.active = Person
  BY <1>1, <1>3, ActivateAdds
<1>5. CrowdTypeOK'
  BY <1>1, <1>3, ActivateAdds, RoundCounts DEF CrowdTypeOK
<1>6. since'.active = since.active
  BY <1>1, RoundCounts
<1>7. PICK near, theta, A : near = crowd.near /\ theta = crowd.theta /\ A = crowd.active
  OBVIOUS
<1>8. /\ near \in Acquaintances /\ theta \in [Person -> Fractions] /\ A \in SUBSET Person
      /\ since.active \subseteq A
  BY <1>1, <1>7 DEF CrowdTypeOK, ThresholdInv
<1>9. newly = {p \in Person \ A : EnoughOf(near, theta, p, A)}
  BY <1>1, <1>2, <1>7, <1>8, PersuadedIsEnough
<1>10. \A S \in SUBSET Person : since.active \subseteq S /\ ClosedOf(near, theta, S) => A \cup newly \subseteq S
  <2>1. SUFFICES ASSUME NEW S \in SUBSET Person, since.active \subseteq S, ClosedOf(near, theta, S),
                        NEW p \in newly
                 PROVE  p \in S
    BY <1>1, <1>7 DEF ThresholdInv
  <2>2. A \subseteq S
    BY <1>1, <1>7, <2>1 DEF ThresholdInv
  <2>3. p \in Person /\ EnoughOf(near, theta, p, A)
    BY <1>9
  <2>4. EnoughOf(near, theta, p, S)
    BY <1>8, <2>2, <2>3, EnoughGrows
  <2>5. QED
    BY <2>1, <2>3, <2>4 DEF ClosedOf
<1>11. ASSUME crowd'.stopped PROVE ClosedOf(near, theta, A \cup newly)
  <2>1. CASE A \cup newly = Person
    BY <2>1 DEF ClosedOf
  <2>2. CASE newly = {}
    BY <1>9, <2>2 DEF ClosedOf
  <2>3. CASE crowd.stopped
    <3>1. ClosedOf(near, theta, A)
      BY <1>1, <1>7, <2>3 DEF ThresholdInv
    <3>2. newly = {}
      BY <1>9, <3>1 DEF ClosedOf
    <3>3. QED
      BY <2>2, <3>2
  <2>4. QED
    BY <1>4, <1>7, <1>11, <2>1, <2>2, <2>3
<1>12. ThresholdInv'
  BY <1>4, <1>6, <1>7, <1>8, <1>10, <1>11 DEF ThresholdInv
<1>13. SiInv' /\ AxelrodInv'
  BY <1>1, <1>4 DEF SiInv, AxelrodInv, SiRules, ThresholdRules
<1>14. QED
  BY <1>5, <1>12, <1>13 DEF CrowdInv

LEMMA AxelrodEventCrowdInv == ASSUME CrowdInv, AxelrodEvent PROVE CrowdInv'
<1>1. CrowdTypeOK /\ AxelrodInv /\ Round /\ crowd.rule = "axelrod"
  BY DEF CrowdInv, AxelrodEvent
<1>p. PICK p \in Person : \E q \in crowd.near[p] \ {p} : \E f \in Feature \ SharedFeatures(p, q) :
        MayInteract(p, q) /\ crowd' = [crowd EXCEPT !.culture[p][f] = crowd.culture[q][f]]
  BY Zenon DEF AxelrodEvent
<1>a. PICK q \in crowd.near[p] \ {p} : \E f \in Feature \ SharedFeatures(p, q) :
        MayInteract(p, q) /\ crowd' = [crowd EXCEPT !.culture[p][f] = crowd.culture[q][f]]
  BY <1>p, Zenon
<1>2. PICK f \in Feature : MayInteract(p, q) /\ crowd' = [crowd EXCEPT !.culture[p][f] = crowd.culture[q][f]]
  BY <1>a, Zenon
<1>3. crowd.near \in Acquaintances /\ crowd.culture \in Cultures /\ since.culture \in Cultures
  BY <1>1 DEF CrowdTypeOK, AxelrodInv
<1>4. q \in Person
  BY <1>a, <1>3, CrowdAssumption
<1>5. PICK c : c = [crowd.culture EXCEPT ![p][f] = crowd.culture[q][f]]
  OBVIOUS
<1>6. /\ c \in Cultures
      /\ \A x \in Person, g \in Feature :
           c[x][g] = IF x = p /\ g = f THEN crowd.culture[q][f] ELSE crowd.culture[x][g]
  BY <1>3, <1>4, <1>5 DEF Cultures
<1>7. crowd' = [crowd EXCEPT !.culture = c]
  BY <1>2, <1>5
<1>8. /\ crowd'.rule = crowd.rule /\ crowd'.near = crowd.near /\ crowd'.culture = c
      /\ crowd' \in [rule : Rules \cup {"axelrod"}, near : Acquaintances,
                     theta : [Person -> Fractions \cup {<<0, 1>>}] \cup {NotYet}, active : SUBSET Person,
                     culture : Cultures \cup {NotYet}, stopped : BOOLEAN]
  BY <1>1, <1>6, <1>7 DEF CrowdTypeOK
<1>9. CrowdTypeOK'
  BY <1>1, <1>8, RoundCounts DEF CrowdTypeOK
<1>10. /\ since'.culture = since.culture /\ since'.settled = since.settled
       /\ since'.rounds = since.rounds + 1 /\ since.rounds \in 0 .. MaxRounds - 1
  BY <1>1, RoundCounts
<1>11. since.settled = NotYet
  BY <1>1, <1>2, <1>a DEF AxelrodInv, IsAbsorbing
<1>12. ASSUME NEW x \in Person, NEW g \in Feature
       PROVE  \E o \in Person : x \in Ball(crowd.near, {o}, since.rounds + 1) /\ c[x][g] = since.culture[o][g]
  <2>1. PICK y \in Person : c[x][g] = crowd.culture[y][g] /\ (y = x \/ y \in crowd.near[x])
    BY <1>a, <1>4, <1>6
  <2>2. PICK o \in Person : y \in Ball(crowd.near, {o}, since.rounds) /\ crowd.culture[y][g] = since.culture[o][g]
    BY <1>1 DEF AxelrodInv
  <2>3. Ball(crowd.near, {o}, since.rounds + 1)
          = Ball(crowd.near, {o}, since.rounds)
            \cup {z \in Person : crowd.near[z] \cap Ball(crowd.near, {o}, since.rounds) # {}}
    <3>1. PICK k \in 0 .. MaxRounds - 1 : k = since.rounds
      BY <1>10
    <3>2. Ball(crowd.near, {o}, k + 1)
            = Ball(crowd.near, {o}, k) \cup Touching(crowd.near, Ball(crowd.near, {o}, k))
      BY BallStep
    <3>3. QED
      BY <3>1, <3>2 DEF Touching
  <2>4. x \in Ball(crowd.near, {o}, since.rounds + 1)
    BY <2>1, <2>2, <2>3
  <2>5. QED
    BY <2>1, <2>2, <2>4
<1>13. AxelrodInv'
  <2>1. c \in Cultures /\ crowd'.culture = c /\ crowd'.near = crowd.near
    BY <1>6, <1>8
  <2>2. \A x \in Person : \A g \in Feature :
          \E o \in Person : x \in Ball(crowd'.near, {o}, since'.rounds) /\ crowd'.culture[x][g] = since'.culture[o][g]
    <3>1. crowd'.near = crowd.near /\ since'.rounds = since.rounds + 1
      BY <1>8, <1>10
    <3>2. SUFFICES ASSUME NEW x \in Person, NEW g \in Feature
                   PROVE  \E o \in Person : x \in Ball(crowd'.near, {o}, since'.rounds) /\ crowd'.culture[x][g] = since'.culture[o][g]
      OBVIOUS
    <3>3. PICK o \in Person : x \in Ball(crowd.near, {o}, since.rounds + 1) /\ c[x][g] = since.culture[o][g]
      BY <1>12
    <3>4. QED
      BY <1>10, <2>1, <3>1, <3>3
  <2>3. since'.settled = NotYet /\ since'.culture \in Cultures
    BY <1>3, <1>10, <1>11
  <2>4. QED
    BY <2>1, <2>2, <2>3 DEF AxelrodInv
<1>14. SiInv' /\ ThresholdInv'
  BY <1>1, <1>8 DEF SiInv, ThresholdInv, SiRules, ThresholdRules
<1>15. QED
  BY <1>9, <1>13, <1>14 DEF CrowdInv

LEMMA FindSettledCrowdInv == ASSUME CrowdInv, FindSettled PROVE CrowdInv'
<1>1. /\ crowd.rule = "axelrod" /\ crowd' = crowd /\ IsAbsorbing
      /\ since' = [since EXCEPT !.settled = crowd.culture]
  BY DEF FindSettled
<1>2. CrowdTypeOK /\ AxelrodInv /\ crowd.culture \in Cultures
  BY <1>1 DEF CrowdInv, AxelrodInv
<1>3. /\ since'.settled = crowd.culture /\ since'.rounds = since.rounds
      /\ since'.culture = since.culture /\ CrowdTypeOK'
  BY <1>1, <1>2 DEF CrowdTypeOK
<1>4. IsAbsorbing'
  BY <1>1 DEF IsAbsorbing, MayInteract, SharedFeatures
<1>5. AxelrodInv'
  BY <1>1, <1>2, <1>3, <1>4 DEF AxelrodInv
<1>6. SiInv' /\ ThresholdInv'
  BY <1>1 DEF SiInv, ThresholdInv, SiRules, ThresholdRules
<1>7. QED
  BY <1>3, <1>5, <1>6 DEF CrowdInv

LEMMA NextCrowdInv == CrowdInv /\ [CrowdNext]_dvars => CrowdInv'
<1>1. SUFFICES ASSUME CrowdInv, [CrowdNext]_dvars PROVE CrowdInv'
  OBVIOUS
<1>2. CASE UNCHANGED dvars
  <2>1. crowd' = crowd /\ since' = since
    BY <1>2 DEF dvars
  <2>2. CrowdTypeOK' /\ SiInv' /\ ThresholdInv'
    BY <1>1, <2>1 DEF CrowdInv, CrowdTypeOK, SiInv, ThresholdInv
  <2>3. IsAbsorbing' <=> IsAbsorbing
    BY <2>1 DEF IsAbsorbing, MayInteract, SharedFeatures
  <2>4. AxelrodInv'
    BY <1>1, <2>1, <2>3 DEF CrowdInv, AxelrodInv
  <2>5. QED
    BY <2>2, <2>4 DEF CrowdInv
<1>3. QED
  BY <1>1, <1>2, SiRoundCrowdInv, ThresholdRoundCrowdInv, AxelrodEventCrowdInv, FindSettledCrowdInv DEF CrowdNext

(* The inductive invariant holds in every reachable state. *)
THEOREM CrowdKeeps == CrowdSpec => []CrowdInv
BY InitCrowdInv, NextCrowdInv, PTL DEF CrowdSpec

(* Activity travels one tie a round and no further, a threshold cascade that has
   stopped is the least closed set that holds the first ones, an absorbing culture
   stays, and a trait comes from somebody connected: for any set of persons,
   relation, thresholds, features and traits. *)
THEOREM CrowdDiffusionExact == CrowdSpec => []DiffusionExact
<1>1. ASSUME CrowdInv PROVE DiffusionExact
  <2>1. CrowdTypeOK /\ SiInv /\ ThresholdInv /\ AxelrodInv
    BY <1>1 DEF CrowdInv
  <2>2. \A S, k : Within(S, k) = Ball(crowd.near, S, k)
    BY DEF Within, Ball
  <2>3. ASSUME NEW S PROVE Closed(S) <=> ClosedOf(crowd.near, crowd.theta, S)
    BY DEF Closed, ClosedOf, Enough, EnoughOf
  <2>4. Exposed = ExposedOf(crowd.near, crowd.active)
    BY DEF Exposed, ExposedOf
  <2>5. crowd.rule \in SiRules =>
          /\ since.active \subseteq crowd.active
          /\ crowd.active \subseteq Within(since.active, since.rounds)
          /\ crowd.rule = "si_always" => crowd.active = Within(since.active, since.rounds)
          /\ crowd.stopped /\ crowd.rule = "si_always" => Exposed = {}
    BY <2>1, <2>2, <2>4 DEF SiInv
  <2> DEFINE closed == {S \in SUBSET Person : since.active \subseteq S /\ Closed(S)}
  <2>6. crowd.rule \in ThresholdRules =>
          /\ \A S \in closed : crowd.active \subseteq S
          /\ crowd.stopped => crowd.active \in closed
    <3>1. \A S \in SUBSET Person : S \in closed <=> since.active \subseteq S /\ ClosedOf(crowd.near, crowd.theta, S)
      BY <2>3
    <3>2. crowd.active \in SUBSET Person
      BY <2>1 DEF CrowdTypeOK
    <3>3. closed \subseteq SUBSET Person
      OBVIOUS
    <3> HIDE DEF closed
    <3>4. QED
      BY <2>1, <3>1, <3>2, <3>3 DEF ThresholdInv
  <2>7. crowd.rule = "axelrod" =>
          /\ since.settled # NotYet => crowd.culture = since.settled
          /\ \A p \in Person : \A f \in Feature :
               \E q \in Person : p \in Within({q}, since.rounds) /\ crowd.culture[p][f] = since.culture[q][f]
    BY <2>1, <2>2 DEF AxelrodInv
  <2>8. QED
    BY <2>5, <2>6, <2>7 DEF DiffusionExact, SiRules, ThresholdRules
<1>2. QED
  BY CrowdKeeps, <1>1, PTL

-----------------------------------------------------------------------------
(***************************************************************************)
(* Voice and silence in an organization.                                   *)
(***************************************************************************)
Voices  == {"neutral", "voice", "silence"}
Motives == {"none", "prosocial", "defensive", "acquiescent"}
Reports == {"org_performance", "climate_silence"}

OfficeTypeOK ==
  /\ office \in [ties : Ties, cast : Casts, voice : [Worker -> Voices], motive : [Worker -> Motives],
                 fear : [Worker -> Int], targets : SUBSET Worker, ratio : [Worker -> Nat],
                 climate : Nat, volume : Nat]
  /\ session \in [agenda : Agendas, at : Nat, count : Nat, failed : BOOLEAN]
  /\ session.at \in 0 .. Len(session.agenda)
  /\ minutes \in [start : SUBSET Worker, voiced : SUBSET Worker, done : BOOLEAN]

(* The words of the property, of the ties and the cast they are about. *)
ShareOf(ties, w, S) == Cardinality({v \in Worker : {v, w} \in ties /\ v \in S})
UrgedOf(ties, cast, w, S) == ShareOf(ties, w, S) * cast[w].theta[2] > cast[w].theta[1] * ShareOf(ties, w, Worker)
SettledOf(ties, cast, start, voiced, S) == \A w \in start \ S : ~UrgedOf(ties, cast, w, voiced \cup S)
LeastRaised(ties, cast, start, voiced, raised) ==
  /\ raised \subseteq start /\ SettledOf(ties, cast, start, voiced, raised)
  /\ \A S \in SUBSET start : SettledOf(ties, cast, start, voiced, S) => raised \subseteq S

(* Mechanisms of a set have run in this step, or in the whole one that ended well. *)
Ran(names) ==
  \E i \in DOMAIN session.agenda :
    session.agenda[i] \in names /\ (i < session.at \/ (session.at = 0 /\ ~session.failed /\ session.count > 0))

SilentAround(w) == Cardinality({v \in Contacts(w) : office.voice[v] = "silence"})

(* A motive is of the silent; a cascade that was written down has found its least
   set; what was reported or counted in a step stands till its end, since whoever
   decides about voice does so before. *)
OfficeInv ==
  /\ OfficeTypeOK
  /\ \A w \in Worker : (office.motive[w] # "none") <=> (office.voice[w] = "silence")
  /\ minutes.done =>
       /\ LeastRaised(office.ties, office.cast, minutes.start, minutes.voiced, Voicing(office.voice) \ minutes.voiced)
       /\ session.at # 0 => Ran({"prefalse_cascade"})
  /\ Ran(Reports) => office.climate = Cardinality(Concealing(office.voice)) /\ office.volume = Cardinality(Voicing(office.voice))
  /\ Ran({"silence_spiral"}) => \A w \in Worker : office.ratio[w] >= SilentAround(w)

(* More who voice make a larger share. *)
LEMMA SharesGrow ==
  ASSUME NEW ties, NEW w, NEW S \in SUBSET Worker, NEW A \in SUBSET S
  PROVE  /\ ShareOf(ties, w, A) \in Nat /\ ShareOf(ties, w, S) \in Nat
         /\ ShareOf(ties, w, A) <= ShareOf(ties, w, S)
<1> DEFINE a == {v \in Worker : {v, w} \in ties /\ v \in A}
           s == {v \in Worker : {v, w} \in ties /\ v \in S}
<1>1. a \subseteq s /\ s \subseteq Worker /\ a \subseteq Worker
  OBVIOUS
<1> HIDE DEF a, s
<1>2. IsFiniteSet(s) /\ IsFiniteSet(a) /\ Cardinality(a) <= Cardinality(s)
  BY <1>1, FS_Subset, OfficeAssumption
<1>3. Cardinality(a) \in Nat /\ Cardinality(s) \in Nat
  BY <1>2, FS_CardinalityType
<1>4. ShareOf(ties, w, A) = Cardinality(a) /\ ShareOf(ties, w, S) = Cardinality(s)
  BY DEF ShareOf, a, s
<1>5. QED
  BY <1>2, <1>3, <1>4

LEMMA UrgedGrows ==
  ASSUME NEW ties, NEW cast \in Casts, NEW w \in Worker, NEW S \in SUBSET Worker, NEW A \in SUBSET S,
         UrgedOf(ties, cast, w, A)
  PROVE  UrgedOf(ties, cast, w, S)
<1>1. cast[w] \in [dissents : BOOLEAN, open : BOOLEAN, ivt : Int, theta : Int \X Nat]
  BY OfficeAssumption
<1>2. PICK n \in Int, t \in Nat : cast[w].theta[1] = n /\ cast[w].theta[2] = t
  BY <1>1
<1>3. PICK a \in Nat, s \in Nat, d \in Nat :
        a = ShareOf(ties, w, A) /\ s = ShareOf(ties, w, S) /\ d = ShareOf(ties, w, Worker) /\ a <= s
  BY SharesGrow
<1>4. a * t \in Int /\ s * t \in Int /\ a * t <= s * t
  BY <1>3, ProductGrows
<1>5. PICK bar \in Int : bar = n * d
  OBVIOUS
<1>6. a * t > bar
  BY <1>2, <1>3, <1>5 DEF UrgedOf
<1>7. s * t > bar
  BY <1>4, <1>6
<1>8. QED
  BY <1>2, <1>3, <1>5, <1>7 DEF UrgedOf

(* Who has some contacts that voice above its threshold is urged by them. *)
LEMMA EmboldenedIsUrged ==
  ASSUME OfficeTypeOK, NEW voice \in [Worker -> Voices]
  PROVE  Emboldened(voice) = {w \in Concealing(voice) : UrgedOf(office.ties, office.cast, w, Voicing(voice))}
<1>1. SUFFICES ASSUME NEW w \in Concealing(voice)
               PROVE w \in Emboldened(voice) <=> UrgedOf(office.ties, office.cast, w, Voicing(voice))
  BY DEF Emboldened
<1>2. w \in Worker /\ office.cast \in Casts /\ Voicing(voice) \in SUBSET Worker
  BY DEF Concealing, OfficeTypeOK, Voicing
<1>3. office.cast[w] \in [dissents : BOOLEAN, open : BOOLEAN, ivt : Int, theta : Int \X Nat]
  BY <1>2, OfficeAssumption
<1>4. PICK b \in Int, t \in Nat : office.cast[w].theta[1] = b /\ office.cast[w].theta[2] = t
  BY <1>3
<1>5. /\ Contacts(w) = {v \in Worker : {v, w} \in office.ties /\ v \in Worker}
      /\ Contacts(w) \cap Voicing(voice) = {v \in Worker : {v, w} \in office.ties /\ v \in Voicing(voice)}
  BY <1>2 DEF Contacts
<1>6. PICK n \in Nat, a \in Nat : n = Cardinality(Contacts(w)) /\ a = Cardinality(Contacts(w) \cap Voicing(voice)) /\ a <= n
  <2>1. ShareOf(office.ties, w, Worker) \in Nat /\ ShareOf(office.ties, w, Voicing(voice)) \in Nat
        /\ ShareOf(office.ties, w, Voicing(voice)) <= ShareOf(office.ties, w, Worker)
    BY <1>2, SharesGrow
  <2>2. /\ ShareOf(office.ties, w, Worker) = Cardinality(Contacts(w))
        /\ ShareOf(office.ties, w, Voicing(voice)) = Cardinality(Contacts(w) \cap Voicing(voice))
    BY <1>5 DEF ShareOf
  <2>3. QED
    BY <2>1, <2>2
<1>7. w \in Emboldened(voice) <=> n > 0 /\ a * t > b * n
  BY <1>1, <1>4, <1>6 DEF Emboldened
<1>8. UrgedOf(office.ties, office.cast, w, Voicing(voice)) <=> a * t > b * n
  BY <1>4, <1>5, <1>6 DEF UrgedOf, ShareOf
<1>9. n = 0 => ~(a * t > b * n)
  BY <1>6
<1>10. QED
  BY <1>7, <1>8, <1>9

(* A round gives voice to concealed dissenters, and to nobody else. *)
LEMMA RoundRaises ==
  ASSUME NEW voice \in [Worker -> Voices]
  PROVE  /\ Raised(voice, Emboldened(voice)) \in [Worker -> Voices]
         /\ Emboldened(voice) \subseteq Concealing(voice)
         /\ Concealing(voice) \subseteq Worker
         /\ Voicing(Raised(voice, Emboldened(voice))) = Voicing(voice) \cup Emboldened(voice)
         /\ Concealing(Raised(voice, Emboldened(voice))) = Concealing(voice) \ Emboldened(voice)
<1>1. Emboldened(voice) \subseteq Concealing(voice) /\ Concealing(voice) \subseteq Worker
  BY DEF Emboldened, Concealing
<1>2. PICK E \in SUBSET Worker : E = Emboldened(voice)
  BY <1>1
<1>3. \A w \in Worker : Raised(voice, E)[w] = IF w \in E THEN "voice" ELSE voice[w]
  BY DEF Raised
<1>4. Raised(voice, E) \in [Worker -> Voices]
  BY DEF Raised, Voices
<1>5. Voicing(Raised(voice, E)) = Voicing(voice) \cup E
  BY <1>3 DEF Voicing
<1>6. Concealing(Raised(voice, E)) = Concealing(voice) \ E
  BY <1>3 DEF Concealing
<1>7. QED
  BY <1>1, <1>2, <1>4, <1>5, <1>6

(* The rounds of the cascade. *)
LEMMA CascadeRounds ==
  ASSUME NEW voice \in [Worker -> Voices]
  PROVE  \E f \in [0 .. Cardinality(Worker) -> [Worker -> Voices]] :
           /\ f[0] = voice /\ Cascaded(voice) = f[Cardinality(Worker)]
           /\ \A k \in 1 .. Cardinality(Worker) : f[k] = Raised(f[k - 1], Emboldened(f[k - 1]))
<1> DEFINE V == [Worker -> Voices]
           next(v) == Raised(v, Emboldened(v))
           Is(f) == f = [k \in 0 .. Cardinality(Worker) |-> IF k = 0 THEN voice ELSE next(f[k - 1])]
           round == CHOOSE f : Is(f)
<1>1. PICK N \in Nat : N = Cardinality(Worker)
  BY OfficeAssumption, FS_CardinalityType
<1>2. PICK F : F = [k \in 1 .. N |-> [v \in V |-> next(v)]]
  OBVIOUS
<1>3. F \in [1 .. N -> [V -> V]] /\ \A k \in 1 .. N : \A v \in V : F[k][v] = next(v)
  <2>1. \A v \in V : next(v) \in V
    BY RoundRaises
  <2> HIDE DEF V, next
  <2>2. QED
    BY <1>2, <2>1
<1>4. PICK f \in [0 .. N -> V] : f[0] = voice /\ \A k \in 1 .. N : f[k] = next(f[k - 1])
  <2>1. voice \in V
    OBVIOUS
  <2> HIDE DEF V, next
  <2>2. PICK f \in [0 .. N -> V] : f[0] = voice /\ \A k \in 1 .. N : f[k] = F[k][f[k - 1]]
    <3>1. Machine(N, V, voice, F)
      BY <1>3, <2>1 DEF Machine
    <3>2. PICK f : RunOf(f, N, V, voice, F)
      BY <3>1, Recursion, Zenon
    <3>3. QED
      BY <3>2 DEF RunOf
  <2>3. \A k \in 1 .. N : f[k - 1] \in V
    BY <2>2
  <2>4. QED
    BY <1>3, <2>2, <2>3
<1> HIDE DEF next
<1>5. Is(f)
  <2>1. f = [k \in 0 .. N |-> f[k]]
    BY <1>4
  <2>2. \A k \in 0 .. N : f[k] = IF k = 0 THEN voice ELSE next(f[k - 1])
    BY <1>4
  <2>3. QED
    BY <1>1, <2>1, <2>2
<1>6. Is(round)
  <2> HIDE DEF Is
  <2>1. QED
    BY <1>5, Zenon
<1>7. Cascaded(voice) = round[Cardinality(Worker)]
  BY DEF Cascaded, next
<1> HIDE DEF round
<1>8. \A k \in 0 .. N : round[k] = IF k = 0 THEN voice ELSE next(round[k - 1])
  BY <1>1, <1>6
<1>9. \A k \in 0 .. N : round[k] \in V
  <2> DEFINE T == {k \in Nat : k <= N => round[k] \in V}
  <2>1. 0 \in T
    BY <1>8
  <2>2. ASSUME NEW k \in Nat, k \in T PROVE k + 1 \in T
    <3>1. SUFFICES ASSUME k + 1 <= N PROVE round[k + 1] \in V
      OBVIOUS
    <3>2. round[k] \in V /\ round[k + 1] = next(round[k])
      BY <1>8, <2>2, <3>1
    <3>3. QED
      BY <3>2, RoundRaises DEF next
  <2> HIDE DEF T
  <2>3. Nat \subseteq T
    BY <2>1, <2>2, Induct
  <2>4. QED
    BY <2>3 DEF T
<1>10. round \in [0 .. N -> V]
  BY <1>1, <1>6, <1>9
<1>11. QED
  <2>1. round[0] = voice
    BY <1>8
  <2>2. \A k \in 1 .. N : round[k] = next(round[k - 1])
    BY <1>8
  <2>3. QED
    BY <1>1, <1>7, <1>10, <2>1, <2>2 DEF next

(* A cascade ends with the least set of dissenters that urges nobody else. *)
LEMMA CascadeIsLeast ==
  ASSUME OfficeTypeOK, NEW voice \in [Worker -> Voices]
  PROVE  /\ Cascaded(voice) \in [Worker -> Voices]
         /\ \A w \in Worker : Cascaded(voice)[w] = voice[w] \/ (voice[w] = "silence" /\ Cascaded(voice)[w] = "voice")
         /\ LeastRaised(office.ties, office.cast, Concealing(voice), Voicing(voice),
                        Voicing(Cascaded(voice)) \ Voicing(voice))
<1>1. PICK N \in Nat : N = Cardinality(Worker)
  BY OfficeAssumption, FS_CardinalityType
<1>2. PICK f \in [0 .. N -> [Worker -> Voices]] :
        /\ f[0] = voice /\ Cascaded(voice) = f[N]
        /\ \A k \in 1 .. N : f[k] = Raised(f[k - 1], Emboldened(f[k - 1]))
  BY <1>1, CascadeRounds
<1>3. PICK ties, cast, start, voiced :
        ties = office.ties /\ cast = office.cast /\ start = Concealing(voice) /\ voiced = Voicing(voice)
  OBVIOUS
<1>4. cast \in Casts /\ start \in SUBSET Worker /\ voiced \in SUBSET Worker /\ start \cap voiced = {}
  BY <1>3 DEF OfficeTypeOK, Concealing, Voicing
<1> DEFINE R(k) == Voicing(f[k]) \ voiced
           Good(k) == /\ Voicing(f[k]) = voiced \cup R(k) /\ R(k) \subseteq start
                      /\ Concealing(f[k]) = start \ R(k)
                      /\ \A w \in Worker : f[k][w] = voice[w] \/ (voice[w] = "silence" /\ f[k][w] = "voice")
                      /\ \A S \in SUBSET start : SettledOf(ties, cast, start, voiced, S) => R(k) \subseteq S
                      /\ Emboldened(f[k]) = {} \/ Cardinality(R(k)) >= k
           T == {k \in Nat : k <= N => Good(k)}
<1>5. \A k \in 0 .. N : Emboldened(f[k]) = {w \in Concealing(f[k]) : UrgedOf(ties, cast, w, Voicing(f[k]))}
  BY <1>2, <1>3, EmboldenedIsUrged
<1>6. 0 \in T
  <2>1. Voicing(f[0]) = voiced /\ Concealing(f[0]) = start /\ R(0) = {} /\ f[0] = voice
    BY <1>2, <1>3
  <2>2. Cardinality({}) = 0
    BY FS_EmptySet
  <2>4. \A w \in Worker : f[0][w] = voice[w]
    BY <2>1
  <2> HIDE DEF R
  <2>3. R(0) = {} /\ Cardinality(R(0)) >= 0
    <3>1. R(0) = {}
      BY <2>1
    <3>2. Cardinality(R(0)) = 0
      BY <2>2, <3>1, Zenon
    <3>3. QED
      BY <3>1, <3>2
  <2>5. Good(0)
    BY <2>1, <2>3, <2>4
  <2> HIDE DEF Good
  <2>6. QED
    BY <2>5
<1>7. ASSUME NEW k \in Nat, k \in T PROVE k + 1 \in T
  <2>1. SUFFICES ASSUME k + 1 <= N PROVE Good(k + 1)
    OBVIOUS
  <2>2. Good(k) /\ k \in 0 .. N /\ k + 1 \in 1 .. N /\ (k + 1) - 1 = k /\ k + 1 \in 0 .. N
    BY <1>7, <2>1
  <2>3. PICK E : E = Emboldened(f[k])
    OBVIOUS
  <2>4. f[k + 1] = Raised(f[k], E) /\ f[k] \in [Worker -> Voices]
    BY <1>2, <2>2, <2>3
  <2>5. /\ Voicing(f[k + 1]) = Voicing(f[k]) \cup E
        /\ Concealing(f[k + 1]) = Concealing(f[k]) \ E
        /\ E \subseteq Concealing(f[k]) /\ E \subseteq Worker
    BY <2>3, <2>4, RoundRaises
  <2>6. R(k + 1) = R(k) \cup E /\ E \cap R(k) = {} /\ R(k) \subseteq start /\ E \subseteq start
    BY <1>4, <2>2, <2>5
  <2>7. Voicing(f[k + 1]) = voiced \cup R(k + 1) /\ R(k + 1) \subseteq start /\ Concealing(f[k + 1]) = start \ R(k + 1)
    BY <2>2, <2>5, <2>6
  <2>8. \A w \in Worker : f[k + 1][w] = voice[w] \/ (voice[w] = "silence" /\ f[k + 1][w] = "voice")
    <3>1. SUFFICES ASSUME NEW w \in Worker
                   PROVE f[k + 1][w] = voice[w] \/ (voice[w] = "silence" /\ f[k + 1][w] = "voice")
      OBVIOUS
    <3>2. f[k + 1][w] = IF w \in E THEN "voice" ELSE f[k][w]
      BY <2>4 DEF Raised
    <3>3. w \in E => voice[w] = "silence"
      BY <1>3, <2>6 DEF Concealing
    <3>4. f[k][w] = voice[w] \/ (voice[w] = "silence" /\ f[k][w] = "voice")
      BY <2>2
    <3>5. QED
      BY <3>2, <3>3, <3>4
  <2>9. ASSUME NEW S \in SUBSET start, SettledOf(ties, cast, start, voiced, S) PROVE R(k + 1) \subseteq S
    <3>1. R(k) \subseteq S
      BY <2>2, <2>9
    <3>2. SUFFICES ASSUME NEW w \in E, w \notin S PROVE FALSE
      BY <2>6, <3>1
    <3>3. UrgedOf(ties, cast, w, voiced \cup R(k)) /\ w \in start
      BY <1>5, <2>2, <2>3, <2>6
    <3>4. UrgedOf(ties, cast, w, voiced \cup S)
      <4>1. w \in Worker /\ voiced \cup S \in SUBSET Worker /\ voiced \cup R(k) \in SUBSET (voiced \cup S)
        BY <1>4, <2>5, <3>1
      <4> HIDE DEF R
      <4>2. QED
        BY <1>4, <3>3, <4>1, UrgedGrows
    <3>5. QED
      BY <2>9, <3>2, <3>3, <3>4 DEF SettledOf
  <2>10. Emboldened(f[k + 1]) = {} \/ Cardinality(R(k + 1)) >= k + 1
    <3>1. CASE E = {}
      <4>1. f[k + 1] = f[k]
        <5>1. \A w \in Worker : f[k + 1][w] = f[k][w]
          BY <2>4, <3>1 DEF Raised
        <5>2. f[k + 1] \in [Worker -> Voices]
          BY <1>2, <2>2
        <5>3. QED
          BY <2>4, <5>1, <5>2
      <4>2. QED
        BY <2>3, <3>1, <4>1
    <3>2. CASE E # {}
      <4>1. PICK w : w \in E
        BY <3>2
      <4>2. Cardinality(R(k)) >= k
        BY <2>2, <2>3, <3>2
      <4>3. R(k + 1) \subseteq Worker /\ R(k) \cup {w} \subseteq R(k + 1) /\ w \notin R(k) /\ R(k) \subseteq Worker
        BY <1>4, <2>6, <4>1
      <4> HIDE DEF R
      <4>4. IsFiniteSet(R(k + 1)) /\ IsFiniteSet(R(k)) /\ Cardinality(R(k)) \in Nat
        BY <4>3, OfficeAssumption, FS_Subset, FS_CardinalityType
      <4>5. Cardinality(R(k) \cup {w}) = Cardinality(R(k)) + 1
        BY <4>3, <4>4, FS_AddElement
      <4>6. Cardinality(R(k) \cup {w}) <= Cardinality(R(k + 1)) /\ Cardinality(R(k + 1)) \in Nat
        BY <4>3, <4>4, FS_Subset, FS_CardinalityType
      <4>7. QED
        BY <4>2, <4>4, <4>5, <4>6
    <3>3. QED
      BY <3>1, <3>2
  <2> HIDE DEF R
  <2>11. QED
    BY <2>7, <2>8, <2>9, <2>10
<1>8. Good(N)
  <2> HIDE DEF Good
  <2>1. N \in T
    <3> HIDE DEF T
    <3>1. QED
      BY <1>6, <1>7, Induct
  <2>2. QED
    BY <2>1
<1>9. Emboldened(f[N]) = {}
  <2>1. SUFFICES ASSUME NEW w \in Emboldened(f[N]) PROVE FALSE
    OBVIOUS
  <2>2. Cardinality(R(N)) >= N
    BY <1>8, <2>1
  <2>3. w \in start \ R(N) /\ R(N) \subseteq Worker \ {w} /\ w \in Worker
    BY <1>4, <1>5, <1>8, <2>1
  <2> HIDE DEF R
  <2>4. IsFiniteSet(Worker \ {w}) /\ Cardinality(Worker \ {w}) = N - 1
    BY <1>1, <2>3, OfficeAssumption, FS_RemoveElement
  <2>5. Cardinality(R(N)) <= N - 1 /\ Cardinality(R(N)) \in Nat
    BY <2>3, <2>4, FS_Subset, FS_CardinalityType
  <2>6. QED
    BY <2>2, <2>5
<1>10. SettledOf(ties, cast, start, voiced, R(N))
  <2>1. N \in 0 .. N
    OBVIOUS
  <2>2. Voicing(f[N]) = voiced \cup R(N) /\ Concealing(f[N]) = start \ R(N)
    BY <1>8
  <2> HIDE DEF R
  <2>3. ASSUME NEW w \in start \ R(N) PROVE ~UrgedOf(ties, cast, w, voiced \cup R(N))
    <3>1. w \in Concealing(f[N]) /\ w \notin Emboldened(f[N])
      BY <1>9, <2>2
    <3>2. ~UrgedOf(ties, cast, w, Voicing(f[N]))
      BY <1>5, <2>1, <3>1
    <3>3. QED
      BY <2>2, <3>2
  <2>4. QED
    BY <2>3 DEF SettledOf
<1>11. LeastRaised(ties, cast, start, voiced, R(N))
  BY <1>8, <1>10 DEF LeastRaised
<1>12. f[N] \in [Worker -> Voices]
  BY <1>2
<1>13. QED
  BY <1>2, <1>3, <1>8, <1>11, <1>12

-----------------------------------------------------------------------------
(* The invariant of the office *)

LEMMA InitOfficeInv == OfficeInit => OfficeInv
<1>1. SUFFICES ASSUME OfficeInit PROVE OfficeInv
  OBVIOUS
<1>2. PICK ties \in Ties, cast \in Casts, agenda \in Agendas :
       /\ office = [ties |-> ties, cast |-> cast, voice |-> [w \in Worker |-> "neutral"],
                    motive |-> [w \in Worker |-> "none"], fear |-> [w \in Worker |-> 1], targets |-> {},
                    ratio |-> [w \in Worker |-> 0], climate |-> 0, volume |-> 0]
       /\ session = [agenda |-> agenda, at |-> 0, count |-> 0, failed |-> FALSE]
  BY <1>1 DEF OfficeInit
<1>3. minutes = [start |-> {}, voiced |-> {}, done |-> FALSE]
  BY <1>1 DEF OfficeInit
<1>4. agenda \in Seq(Mechanisms) /\ 0 \in 0 .. Len(agenda)
  BY OfficeAssumption
<1>5. OfficeTypeOK
  <2>1. office \in [ties : Ties, cast : Casts, voice : [Worker -> Voices], motive : [Worker -> Motives],
                    fear : [Worker -> Int], targets : SUBSET Worker, ratio : [Worker -> Nat],
                    climate : Nat, volume : Nat]
    BY <1>2 DEF Voices, Motives
  <2>2. /\ session \in [agenda : Agendas, at : Nat, count : Nat, failed : BOOLEAN]
        /\ session.at \in 0 .. Len(session.agenda)
        /\ minutes \in [start : SUBSET Worker, voiced : SUBSET Worker, done : BOOLEAN]
    BY <1>2, <1>3, <1>4
  <2>3. QED
    BY <2>1, <2>2 DEF OfficeTypeOK
<1>6. \A names : ~Ran(names)
  <2>1. session.at = 0 /\ session.count = 0 /\ session.agenda = agenda
    BY <1>2
  <2>2. DOMAIN agenda = 1 .. Len(agenda) /\ Len(agenda) \in Nat
    BY <1>4
  <2>3. QED
    BY <2>1, <2>2 DEF Ran
<1>7. ~minutes.done /\ \A w \in Worker : office.motive[w] = "none" /\ office.voice[w] = "neutral"
  BY <1>2, <1>3
<1>8. QED
  BY <1>5, <1>6, <1>7 DEF OfficeInv

(* What the turn of a mechanism does to the step of the engine. *)
LEMMA DoneRan ==
  ASSUME OfficeTypeOK, NEW name, Item(name), Done
  PROVE  /\ session' \in [agenda : Agendas, at : Nat, count : Nat, failed : BOOLEAN]
         /\ session'.at \in 0 .. Len(session'.agenda) /\ session.at # 0
         /\ \A names : Ran(names)' => Ran(names) \/ name \in names
         /\ \A names : session'.at # 0 /\ (Ran(names) \/ name \in names) => Ran(names)'
<1>1. PICK agenda \in Agendas, at \in Nat, n \in Nat :
        /\ agenda = session.agenda /\ at = session.at /\ n = Len(agenda) /\ at \in 1 .. n
        /\ DOMAIN agenda = 1 .. n /\ agenda[at] = name
  <2>1. session.agenda \in Agendas /\ session.at \in Nat /\ session.at \in 0 .. Len(session.agenda) /\ session.at > 0
        /\ session.agenda[session.at] = name
    BY DEF OfficeTypeOK, Item
  <2>2. session.agenda \in Seq(Mechanisms)
    BY <2>1, OfficeAssumption
  <2>3. Len(session.agenda) \in Nat /\ DOMAIN session.agenda = 1 .. Len(session.agenda)
    BY <2>2
  <2>4. session.at \in 1 .. Len(session.agenda)
    BY <2>1
  <2>5. QED
    BY <2>1, <2>3, <2>4
<1>2. PICK at2 \in 0 .. n : at2 = IF at = n THEN 0 ELSE at + 1
  BY <1>1
<1>3. session' = [session EXCEPT !.at = at2]
  BY <1>1, <1>2 DEF Done
<1>4. /\ session'.agenda = agenda /\ session'.at = at2 /\ session'.count = session.count /\ session'.failed = session.failed
      /\ session' \in [agenda : Agendas, at : Nat, count : Nat, failed : BOOLEAN]
  <2>1. session \in [agenda : Agendas, at : Nat, count : Nat, failed : BOOLEAN]
    BY DEF OfficeTypeOK
  <2>2. at2 \in Nat
    BY <1>1, <1>2
  <2>3. QED
    BY <1>1, <1>3, <2>1, <2>2
<1>5. ASSUME NEW names, Ran(names)' PROVE Ran(names) \/ name \in names
  <2>1. PICK i \in 1 .. n : /\ agenda[i] \in names
                            /\ i < at2 \/ (at2 = 0 /\ ~session.failed /\ session.count > 0)
    BY <1>1, <1>4, <1>5 DEF Ran
  <2>2. i = at \/ i < at
    BY <1>1, <1>2, <2>1
  <2>3. QED
    BY <1>1, <2>1, <2>2 DEF Ran
<1>6. ASSUME NEW names, session'.at # 0, Ran(names) \/ name \in names PROVE Ran(names)'
  <2>1. PICK i \in 1 .. n : agenda[i] \in names /\ i <= at
    <3>1. CASE Ran(names)
      BY <1>1, <3>1 DEF Ran
    <3>2. CASE name \in names
      BY <1>1, <3>2
    <3>3. QED
      BY <1>6, <3>1, <3>2
  <2>2. i < at2
    BY <1>1, <1>2, <1>4, <1>6, <2>1
  <2>3. QED
    BY <1>1, <1>4, <2>1, <2>2 DEF Ran
<1>7. QED
  BY <1>1, <1>2, <1>4, <1>5, <1>6

(* Nothing of a later phase has run when a mechanism's turn comes. *)
LEMMA InPhases ==
  ASSUME OfficeTypeOK, NEW name, Item(name), NEW names, Ran(names)
  PROVE  \E other \in names : PhaseOf(other) <= PhaseOf(name)
<1>1. /\ session.agenda \in Agendas /\ session.at \in Nat /\ session.at > 0 /\ session.at \in 0 .. Len(session.agenda)
      /\ session.agenda[session.at] = name
  BY DEF OfficeTypeOK, Item
<1>2. /\ session.agenda \in Seq(Mechanisms)
      /\ \A i, j \in DOMAIN session.agenda : i <= j => PhaseOf(session.agenda[i]) <= PhaseOf(session.agenda[j])
  BY <1>1, OfficeAssumption
<1>3. Len(session.agenda) \in Nat /\ DOMAIN session.agenda = 1 .. Len(session.agenda)
  BY <1>2
<1>4. PICK i \in DOMAIN session.agenda : session.agenda[i] \in names /\ i < session.at
  BY <1>1 DEF Ran
<1>5. session.at \in DOMAIN session.agenda /\ i <= session.at
  BY <1>1, <1>3, <1>4
<1>6. PhaseOf(session.agenda[i]) <= PhaseOf(session.agenda[session.at])
  BY <1>2, <1>4, <1>5
<1>7. QED
  BY <1>1, <1>4, <1>6

(* A mechanism that leaves voices and motives alone, and the counts or their report right. *)
LEMMA QuietStep ==
  ASSUME OfficeInv, NEW name, Item(name), Done, minutes' = minutes,
         office' \in [ties : Ties, cast : Casts, voice : [Worker -> Voices], motive : [Worker -> Motives],
                      fear : [Worker -> Int], targets : SUBSET Worker, ratio : [Worker -> Nat],
                      climate : Nat, volume : Nat],
         office'.ties = office.ties, office'.cast = office.cast,
         office'.voice = office.voice, office'.motive = office.motive,
         \/ name \notin Reports /\ office'.climate = office.climate /\ office'.volume = office.volume
         \/ office'.climate = Cardinality(Concealing(office.voice)) /\ office'.volume = Cardinality(Voicing(office.voice)),
         \/ name # "silence_spiral" /\ office'.ratio = office.ratio
         \/ \A w \in Worker : office'.ratio[w] = SilentAround(w)
  PROVE  OfficeInv'
<1>1. OfficeTypeOK
  BY DEF OfficeInv
<1>2. /\ session' \in [agenda : Agendas, at : Nat, count : Nat, failed : BOOLEAN]
      /\ session'.at \in 0 .. Len(session'.agenda) /\ session.at # 0
      /\ \A names : Ran(names)' => Ran(names) \/ name \in names
      /\ \A names : session'.at # 0 /\ (Ran(names) \/ name \in names) => Ran(names)'
  BY <1>1, DoneRan
<1>3. OfficeTypeOK'
  BY <1>1, <1>2 DEF OfficeTypeOK
<1>4. \A w \in Worker : (office'.motive[w] # "none") <=> (office'.voice[w] = "silence")
  BY DEF OfficeInv
<1>5. minutes'.done =>
       /\ LeastRaised(office'.ties, office'.cast, minutes'.start, minutes'.voiced, Voicing(office'.voice) \ minutes'.voiced)
       /\ session'.at # 0 => Ran({"prefalse_cascade"})'
  BY <1>2 DEF OfficeInv
<1>6. Concealing(office.voice)' = Concealing(office.voice)
  BY DEF Concealing
<1>7. Ran(Reports)' => office'.climate = Cardinality(Concealing(office.voice)') /\ office'.volume = Cardinality(Voicing(office'.voice))
  <2>1. CASE name \notin Reports /\ office'.climate = office.climate /\ office'.volume = office.volume
    BY <1>2, <1>6, <2>1 DEF OfficeInv
  <2>2. CASE office'.climate = Cardinality(Concealing(office.voice)) /\ office'.volume = Cardinality(Voicing(office.voice))
    BY <1>6, <2>2
  <2>3. QED
    BY <2>1, <2>2
<1>8. \A w : SilentAround(w)' = SilentAround(w)
  BY DEF SilentAround, Contacts
<1>9. Ran({"silence_spiral"})' => \A w \in Worker : office'.ratio[w] >= SilentAround(w)'
  <2>1. CASE name # "silence_spiral" /\ office'.ratio = office.ratio
    BY <1>2, <1>8, <2>1 DEF OfficeInv
  <2>2. CASE \A w \in Worker : office'.ratio[w] = SilentAround(w)
    <3>1. \A w \in Worker : office'.ratio[w] \in Nat
      OBVIOUS
    <3>2. QED
      BY <1>8, <2>2, <3>1
  <2>3. QED
    BY <2>1, <2>2
<1>10. QED
  BY <1>3, <1>4, <1>5, <1>6, <1>7, <1>9 DEF OfficeInv

(* Who has a voice or keeps silent is decided before anything that depends on it runs. *)
LEMMA DecidesFirst ==
  ASSUME OfficeInv, NEW name \in {"voice_decision", "voice_decision_rule"}, Item(name)
  PROVE  ~Ran(Reports) /\ ~Ran({"silence_spiral"}) /\ ~minutes.done /\ session.at # 0
<1>1. OfficeTypeOK /\ session.at # 0
  BY DEF OfficeInv, OfficeTypeOK, Item
<1>2. PhaseOf(name) = 2
  BY DEF PhaseOf
<1>3. \A other \in Reports \cup {"silence_spiral", "prefalse_cascade"} : PhaseOf(other) \in {3, 4, 5}
  BY DEF PhaseOf, Reports
<1>4. ASSUME NEW names \in SUBSET (Reports \cup {"silence_spiral", "prefalse_cascade"}) PROVE ~Ran(names)
  <2>1. SUFFICES ASSUME Ran(names) PROVE FALSE
    OBVIOUS
  <2>2. PICK other \in names : PhaseOf(other) <= PhaseOf(name)
    BY <1>1, <2>1, InPhases
  <2>3. QED
    BY <1>2, <1>3, <2>2
<1>5. QED
  BY <1>1, <1>4 DEF OfficeInv

(* What a decision writes. *)
LEMMA SpeaksWrites ==
  ASSUME OfficeInv, NEW asked \in SUBSET Worker, NEW voices \in SUBSET asked, NEW motive,
         \A w \in asked \ voices : motive[w] \in Motives \ {"none"}, Speaks(voices, asked, motive)
  PROVE  /\ office' \in [ties : Ties, cast : Casts, voice : [Worker -> Voices], motive : [Worker -> Motives],
                         fear : [Worker -> Int], targets : SUBSET Worker, ratio : [Worker -> Nat],
                         climate : Nat, volume : Nat]
         /\ \A w \in Worker : (office'.motive[w] # "none") <=> (office'.voice[w] = "silence")
<1>1. office \in [ties : Ties, cast : Casts, voice : [Worker -> Voices], motive : [Worker -> Motives],
                  fear : [Worker -> Int], targets : SUBSET Worker, ratio : [Worker -> Nat],
                  climate : Nat, volume : Nat]
  BY DEF OfficeInv, OfficeTypeOK
<1>2. \A w \in Worker : (office.motive[w] # "none") <=> (office.voice[w] = "silence")
  BY DEF OfficeInv
<1>3. PICK v, m :
        /\ v = [w \in Worker |-> IF w \notin asked THEN office.voice[w] ELSE IF w \in voices THEN "voice" ELSE "silence"]
        /\ m = [w \in Worker |-> IF w \notin asked THEN office.motive[w] ELSE IF w \in voices THEN "none" ELSE motive[w]]
  OBVIOUS
<1>4. office' = [office EXCEPT !.voice = v, !.motive = m]
  BY <1>3 DEF Speaks
<1>5. v \in [Worker -> Voices]
  BY <1>1, <1>3 DEF Voices
<1>6. m \in [Worker -> Motives]
  BY <1>1, <1>3 DEF Motives
<1>7. \A w \in Worker : (m[w] # "none") <=> (v[w] = "silence")
  BY <1>2, <1>3
<1> HIDE DEF Voices, Motives
<1>8. office'.voice = v /\ office'.motive = m
  BY <1>1, <1>4
<1>9. QED
  BY <1>1, <1>4, <1>5, <1>6, <1>7, <1>8

(* A mechanism that decides, at its turn, whether the roster was gone through or not. *)
LEMMA DecisionStep ==
  ASSUME OfficeInv, NEW name \in {"voice_decision", "voice_decision_rule"}, Item(name), minutes' = minutes,
         Done \/ session' = [session EXCEPT !.at = 0, !.failed = TRUE],
         office' \in [ties : Ties, cast : Casts, voice : [Worker -> Voices], motive : [Worker -> Motives],
                      fear : [Worker -> Int], targets : SUBSET Worker, ratio : [Worker -> Nat],
                      climate : Nat, volume : Nat],
         \A w \in Worker : (office'.motive[w] # "none") <=> (office'.voice[w] = "silence")
  PROVE  OfficeInv'
<1>1. OfficeTypeOK /\ ~Ran(Reports) /\ ~Ran({"silence_spiral"}) /\ ~minutes.done /\ session.at # 0
  BY DecidesFirst DEF OfficeInv
<1>2. name \notin Reports \cup {"silence_spiral", "prefalse_cascade"}
  BY DEF Reports
<1>3. ~Ran(Reports)' /\ ~Ran({"silence_spiral"})'
      /\ session' \in [agenda : Agendas, at : Nat, count : Nat, failed : BOOLEAN]
      /\ session'.at \in 0 .. Len(session'.agenda)
  <2>1. CASE Done
    BY <1>1, <1>2, <2>1, DoneRan
  <2>2. CASE session' = [session EXCEPT !.at = 0, !.failed = TRUE]
    <3>1. session \in [agenda : Agendas, at : Nat, count : Nat, failed : BOOLEAN]
      BY <1>1 DEF OfficeTypeOK
    <3>2. /\ session' \in [agenda : Agendas, at : Nat, count : Nat, failed : BOOLEAN]
          /\ session'.at = 0 /\ session'.failed = TRUE /\ session'.agenda = session.agenda
      BY <2>2, <3>1
    <3>3. session.agenda \in Seq(Mechanisms)
      BY <3>1, OfficeAssumption
    <3>4. Len(session.agenda) \in Nat /\ DOMAIN session.agenda = 1 .. Len(session.agenda)
      BY <3>3
    <3>5. \A names : ~Ran(names)'
      BY <3>2, <3>4 DEF Ran
    <3>6. QED
      BY <3>2, <3>4, <3>5
  <2>3. QED
    BY <2>1, <2>2
<1>4. OfficeTypeOK'
  BY <1>1, <1>3 DEF OfficeTypeOK
<1>5. QED
  BY <1>1, <1>3, <1>4 DEF OfficeInv

LEMMA VoiceOfficeInv == ASSUME OfficeInv, VoiceRule \/ VoiceLlm PROVE OfficeInv'
<1>1. CASE VoiceRule
  <2>1. PICK voices \in SUBSET Worker : Speaks(voices, Worker, [w \in Worker |-> ClassifyMotive(w)])
    BY <1>1 DEF VoiceRule
  <2>2. PICK motive : motive = [w \in Worker |-> ClassifyMotive(w)]
    OBVIOUS
  <2>3. \A w \in Worker : motive[w] \in Motives \ {"none"}
    BY <2>2 DEF ClassifyMotive, Motives
  <2>4. Speaks(voices, Worker, motive)
    BY <2>1, <2>2
  <2>5. QED
    BY <1>1, <2>3, <2>4, SpeaksWrites, DecisionStep DEF VoiceRule
<1>2. CASE VoiceLlm
  <2>1. PICK asked \in SUBSET Worker : \E voices \in SUBSET asked :
          \E motive \in [asked \ voices -> {"acquiescent", "defensive", "prosocial"}] :
            /\ Speaks(voices, asked, motive)
            /\ IF asked = Worker THEN Done /\ UNCHANGED minutes
               ELSE /\ session' = [session EXCEPT !.at = 0, !.failed = TRUE] /\ UNCHANGED minutes
    BY <1>2 DEF VoiceLlm
  <2>2. PICK voices \in SUBSET asked : \E motive \in [asked \ voices -> {"acquiescent", "defensive", "prosocial"}] :
            /\ Speaks(voices, asked, motive)
            /\ IF asked = Worker THEN Done /\ UNCHANGED minutes
               ELSE /\ session' = [session EXCEPT !.at = 0, !.failed = TRUE] /\ UNCHANGED minutes
    BY <2>1
  <2>3. PICK motive \in [asked \ voices -> {"acquiescent", "defensive", "prosocial"}] :
            /\ Speaks(voices, asked, motive)
            /\ IF asked = Worker THEN Done /\ UNCHANGED minutes
               ELSE /\ session' = [session EXCEPT !.at = 0, !.failed = TRUE] /\ UNCHANGED minutes
    BY <2>2
  <2>4. \A w \in asked \ voices : motive[w] \in Motives \ {"none"}
    BY DEF Motives
  <2>5. (Done \/ session' = [session EXCEPT !.at = 0, !.failed = TRUE]) /\ minutes' = minutes /\ Item("voice_decision")
    BY <1>2, <2>3 DEF VoiceLlm
  <2>6. QED
    BY <2>3, <2>4, <2>5, SpeaksWrites, DecisionStep
<1>3. QED
  BY <1>1, <1>2

LEMMA CascadeOfficeInv == ASSUME OfficeInv, PrefalseCascade PROVE OfficeInv'
<1>1. OfficeTypeOK /\ Item("prefalse_cascade") /\ Done
  BY DEF OfficeInv, PrefalseCascade
<1>2. office \in [ties : Ties, cast : Casts, voice : [Worker -> Voices], motive : [Worker -> Motives],
                  fear : [Worker -> Int], targets : SUBSET Worker, ratio : [Worker -> Nat],
                  climate : Nat, volume : Nat]
  BY <1>1 DEF OfficeTypeOK
<1>3. PICK after, m :
        /\ after = Cascaded(office.voice)
        /\ m = [w \in Worker |-> IF after[w] = "voice" THEN "none" ELSE office.motive[w]]
  OBVIOUS
<1>4. /\ office' = [office EXCEPT !.voice = after, !.motive = m]
      /\ minutes' = [start |-> Concealing(office.voice), voiced |-> Voicing(office.voice), done |-> TRUE]
  BY <1>3 DEF PrefalseCascade
<1>5. /\ after \in [Worker -> Voices]
      /\ \A w \in Worker : after[w] = office.voice[w] \/ (office.voice[w] = "silence" /\ after[w] = "voice")
      /\ LeastRaised(office.ties, office.cast, Concealing(office.voice), Voicing(office.voice),
                     Voicing(after) \ Voicing(office.voice))
  BY <1>1, <1>2, <1>3, CascadeIsLeast
<1>6. m \in [Worker -> Motives]
  BY <1>2, <1>3 DEF Motives
<1>7. /\ office' \in [ties : Ties, cast : Casts, voice : [Worker -> Voices], motive : [Worker -> Motives],
                      fear : [Worker -> Int], targets : SUBSET Worker, ratio : [Worker -> Nat],
                      climate : Nat, volume : Nat]
      /\ office'.ties = office.ties /\ office'.cast = office.cast /\ office'.ratio = office.ratio
      /\ office'.voice = after /\ office'.motive = m
  BY <1>2, <1>4, <1>5, <1>6
<1>8. /\ session' \in [agenda : Agendas, at : Nat, count : Nat, failed : BOOLEAN]
      /\ session'.at \in 0 .. Len(session'.agenda)
      /\ Ran({"silence_spiral"})' => Ran({"silence_spiral"})
      /\ Ran(Reports)' => Ran(Reports)
      /\ session'.at # 0 => Ran({"prefalse_cascade"})'
  <2>1. /\ session' \in [agenda : Agendas, at : Nat, count : Nat, failed : BOOLEAN]
        /\ session'.at \in 0 .. Len(session'.agenda)
        /\ \A names : Ran(names)' => Ran(names) \/ "prefalse_cascade" \in names
        /\ \A names : session'.at # 0 /\ (Ran(names) \/ "prefalse_cascade" \in names) => Ran(names)'
    BY <1>1, DoneRan
  <2>2. "prefalse_cascade" \notin {"silence_spiral"} /\ "prefalse_cascade" \notin Reports
        /\ "prefalse_cascade" \in {"prefalse_cascade"}
    BY DEF Reports
  <2>3. QED
    BY <2>1, <2>2, Zenon
<1>9. Concealing(office.voice) \in SUBSET Worker /\ Voicing(office.voice) \in SUBSET Worker
  BY DEF Concealing, Voicing
<1>10. OfficeTypeOK'
  BY <1>4, <1>7, <1>8, <1>9 DEF OfficeTypeOK
<1>11. \A w \in Worker : (office'.motive[w] # "none") <=> (office'.voice[w] = "silence")
  <2>1. \A w \in Worker : (office.motive[w] # "none") <=> (office.voice[w] = "silence")
    BY DEF OfficeInv
  <2>2. QED
    BY <1>3, <1>5, <1>7, <2>1
<1>12. LeastRaised(office'.ties, office'.cast, minutes'.start, minutes'.voiced, Voicing(office'.voice) \ minutes'.voiced)
  BY <1>4, <1>5, <1>7
<1>13. ~Ran(Reports)
  <2>1. SUFFICES ASSUME Ran(Reports) PROVE FALSE
    OBVIOUS
  <2>2. PICK other \in Reports : PhaseOf(other) <= PhaseOf("prefalse_cascade")
    BY <1>1, <2>1, InPhases
  <2>3. QED
    BY <2>2 DEF PhaseOf, Reports
<1>14. Ran({"silence_spiral"})' => \A w \in Worker : office'.ratio[w] >= SilentAround(w)'
  <2>1. SUFFICES ASSUME Ran({"silence_spiral"}), NEW w \in Worker PROVE office'.ratio[w] >= SilentAround(w)'
    BY <1>8
  <2>2. office.ratio[w] >= SilentAround(w) /\ office.ratio[w] \in Nat
    BY <1>2, <2>1 DEF OfficeInv
  <2>3. PICK s, s2 : s = {v \in Contacts(w) : office.voice[v] = "silence"} /\ s2 = {v \in Contacts(w) : after[v] = "silence"}
    OBVIOUS
  <2>4. s2 \subseteq s /\ s \subseteq Worker
    BY <1>5, <2>3 DEF Contacts
  <2>5. IsFiniteSet(s) /\ IsFiniteSet(s2) /\ Cardinality(s2) <= Cardinality(s)
        /\ Cardinality(s2) \in Nat /\ Cardinality(s) \in Nat
    BY <2>4, OfficeAssumption, FS_Subset, FS_CardinalityType
  <2>6. SilentAround(w) = Cardinality(s) /\ SilentAround(w)' = Cardinality(s2)
    BY <1>7, <2>3 DEF SilentAround, Contacts
  <2>7. QED
    BY <1>7, <2>2, <2>5, <2>6
<1>15. QED
  BY <1>8, <1>10, <1>11, <1>12, <1>13, <1>14 DEF OfficeInv

(* Fear stays a number of its range. *)
LEMMA BoundedFear ==
  ASSUME NEW x \in Int
  PROVE  Bounded(x) \in Int
<1>1. Min({Fear, x}) = IF Fear <= x THEN Fear ELSE x
  BY OfficeAssumption DEF Min
<1>2. PICK y \in Int : y = Min({Fear, x})
  BY <1>1, OfficeAssumption
<1>3. Max({0, y}) = IF y <= 0 THEN 0 ELSE y
  BY DEF Max
<1>4. QED
  BY <1>2, <1>3 DEF Bounded

LEMMA QuietOfficeInv ==
  ASSUME OfficeInv, Retaliation \/ FearAppraisal \/ SilenceSpiral \/ Aggregate
  PROVE  OfficeInv'
<1>1. office \in [ties : Ties, cast : Casts, voice : [Worker -> Voices], motive : [Worker -> Motives],
                  fear : [Worker -> Int], targets : SUBSET Worker, ratio : [Worker -> Nat],
                  climate : Nat, volume : Nat]
  BY DEF OfficeInv, OfficeTypeOK
<1>2. CASE Retaliation
  <2>1. PICK t \in SUBSET Worker : office' = [office EXCEPT !.targets = t]
    <3>1. CASE office' = [office EXCEPT !.targets = {}]
      BY <3>1
    <3>2. CASE \E w \in IF Voicing(office.voice) = {} THEN Worker ELSE Voicing(office.voice) :
                 office' = [office EXCEPT !.targets = Contacts(w) \cup {w}]
      BY <3>2 DEF Voicing, Contacts
    <3>3. QED
      BY <1>2, <3>1, <3>2 DEF Retaliation
  <2>2. /\ office' \in [ties : Ties, cast : Casts, voice : [Worker -> Voices], motive : [Worker -> Motives],
                        fear : [Worker -> Int], targets : SUBSET Worker, ratio : [Worker -> Nat],
                        climate : Nat, volume : Nat]
        /\ office'.ties = office.ties /\ office'.cast = office.cast
        /\ office'.voice = office.voice /\ office'.motive = office.motive
        /\ office'.climate = office.climate /\ office'.volume = office.volume /\ office'.ratio = office.ratio
    BY <1>1, <2>1
  <2>3. "retaliation_event" \notin Reports
    BY DEF Reports
  <2>4. QED
    BY <1>2, <2>2, <2>3, QuietStep DEF Retaliation
<1>3. CASE FearAppraisal
  <2>1. PICK f : f = [w \in Worker |-> Bounded(office.fear[w] + (IF w \in office.targets THEN Sensitivity ELSE 0) - 1)]
    OBVIOUS
  <2>2. f \in [Worker -> Int]
    <3>1. \A w \in Worker : office.fear[w] + (IF w \in office.targets THEN Sensitivity ELSE 0) - 1 \in Int
      BY <1>1, OfficeAssumption
    <3>2. QED
      BY <2>1, <3>1, BoundedFear
  <2>3. office' = [office EXCEPT !.fear = f]
    BY <1>3, <2>1 DEF FearAppraisal
  <2>4. /\ office' \in [ties : Ties, cast : Casts, voice : [Worker -> Voices], motive : [Worker -> Motives],
                        fear : [Worker -> Int], targets : SUBSET Worker, ratio : [Worker -> Nat],
                        climate : Nat, volume : Nat]
        /\ office'.ties = office.ties /\ office'.cast = office.cast
        /\ office'.voice = office.voice /\ office'.motive = office.motive
        /\ office'.climate = office.climate /\ office'.volume = office.volume /\ office'.ratio = office.ratio
    BY <1>1, <2>2, <2>3
  <2>5. "fear_appraisal" \notin Reports
    BY DEF Reports
  <2>6. QED
    BY <1>3, <2>4, <2>5, QuietStep DEF FearAppraisal
<1>4. CASE SilenceSpiral
  <2>1. PICK r : r = [w \in Worker |-> SilentAround(w)]
    OBVIOUS
  <2>2. r \in [Worker -> Nat]
    <3>1. ASSUME NEW w \in Worker PROVE SilentAround(w) \in Nat
      <4>1. PICK s : s = {v \in Contacts(w) : office.voice[v] = "silence"}
        OBVIOUS
      <4>2. s \subseteq Worker
        BY <4>1 DEF Contacts
      <4>3. IsFiniteSet(s) /\ Cardinality(s) \in Nat
        BY <4>2, OfficeAssumption, FS_Subset, FS_CardinalityType
      <4>4. QED
        BY <4>1, <4>3 DEF SilentAround
    <3>2. QED
      BY <2>1, <3>1
  <2>3. office' = [office EXCEPT !.ratio = r]
    BY <1>4, <2>1 DEF SilenceSpiral, SilentAround
  <2>4. /\ office' \in [ties : Ties, cast : Casts, voice : [Worker -> Voices], motive : [Worker -> Motives],
                        fear : [Worker -> Int], targets : SUBSET Worker, ratio : [Worker -> Nat],
                        climate : Nat, volume : Nat]
        /\ office'.ties = office.ties /\ office'.cast = office.cast
        /\ office'.voice = office.voice /\ office'.motive = office.motive
        /\ office'.climate = office.climate /\ office'.volume = office.volume /\ office'.ratio = r
    BY <1>1, <2>2, <2>3
  <2>5. \A w \in Worker : office'.ratio[w] = SilentAround(w)
    BY <2>1, <2>4
  <2>6. "silence_spiral" \notin Reports /\ Item("silence_spiral") /\ Done /\ minutes' = minutes
    BY <1>4 DEF Reports, SilenceSpiral
  <2>7. QED
    BY <2>4, <2>5, <2>6, QuietStep
<1>5. CASE Aggregate
  <2>1. PICK c, v : c = Cardinality(Concealing(office.voice)) /\ v = Cardinality(Voicing(office.voice))
    OBVIOUS
  <2>2. c \in Nat /\ v \in Nat
    <3>1. Concealing(office.voice) \subseteq Worker /\ Voicing(office.voice) \subseteq Worker
      BY DEF Concealing, Voicing
    <3>2. QED
      BY <2>1, <3>1, OfficeAssumption, FS_Subset, FS_CardinalityType
  <2>3. office' = [office EXCEPT !.climate = c, !.volume = v]
    BY <1>5, <2>1 DEF Aggregate
  <2>4. /\ office' \in [ties : Ties, cast : Casts, voice : [Worker -> Voices], motive : [Worker -> Motives],
                        fear : [Worker -> Int], targets : SUBSET Worker, ratio : [Worker -> Nat],
                        climate : Nat, volume : Nat]
        /\ office'.ties = office.ties /\ office'.cast = office.cast
        /\ office'.voice = office.voice /\ office'.motive = office.motive
        /\ office'.climate = c /\ office'.volume = v /\ office'.ratio = office.ratio
    BY <1>1, <2>2, <2>3
  <2>5. Done /\ minutes' = minutes
    BY <1>5 DEF Aggregate
  <2>6. PICK name \in Reports : Item(name)
    BY <1>5 DEF Aggregate, Reports
  <2>7. name # "silence_spiral"
    BY <2>6 DEF Reports
  <2>8. QED
    BY <2>1, <2>4, <2>5, <2>6, <2>7, QuietStep
<1>6. QED
  BY <1>2, <1>3, <1>4, <1>5

LEMMA OpenSessionOfficeInv == ASSUME OfficeInv, OpenSession PROVE OfficeInv'
<1>1. OfficeTypeOK /\ office' = office
  BY DEF OfficeInv, OpenSession
<1>2. /\ session' \in [agenda : Agendas, at : Nat, count : Nat, failed : BOOLEAN]
      /\ session'.at = 1 /\ session'.agenda = session.agenda
  <2>1. session \in [agenda : Agendas, at : Nat, count : Nat, failed : BOOLEAN]
    BY <1>1 DEF OfficeTypeOK
  <2>2. PICK n \in Nat : n = session.count + 1
    BY <2>1
  <2>3. session' = [session EXCEPT !.at = 1, !.count = n, !.failed = FALSE]
    BY <2>2 DEF OpenSession
  <2>4. QED
    BY <2>1, <2>3
<1>3. session.agenda \in Seq(Mechanisms) /\ session.agenda # <<>>
  BY <1>2, OfficeAssumption
<1>4. /\ Len(session.agenda) \in Nat /\ Len(session.agenda) >= 1 /\ DOMAIN session.agenda = 1 .. Len(session.agenda)
  BY <1>3
<1>5. minutes' \in [start : SUBSET Worker, voiced : SUBSET Worker, done : BOOLEAN] /\ minutes'.done = FALSE
  BY <1>1 DEF OfficeTypeOK, OpenSession
<1>6. \A names : ~Ran(names)'
  BY <1>2, <1>4 DEF Ran
<1>7. OfficeTypeOK'
  BY <1>1, <1>2, <1>4, <1>5 DEF OfficeTypeOK
<1>8. QED
  BY <1>1, <1>5, <1>6, <1>7 DEF OfficeInv

LEMMA NextOfficeInv == OfficeInv /\ [OfficeNext]_wvars => OfficeInv'
<1>1. SUFFICES ASSUME OfficeInv, [OfficeNext]_wvars PROVE OfficeInv'
  OBVIOUS
<1>2. CASE UNCHANGED wvars
  BY <1>1, <1>2 DEF wvars, OfficeInv, OfficeTypeOK, Ran, SilentAround, Contacts, Concealing
<1>3. QED
  BY <1>1, <1>2, OpenSessionOfficeInv, QuietOfficeInv, VoiceOfficeInv, CascadeOfficeInv DEF OfficeNext

(* The inductive invariant holds in every reachable state. *)
THEOREM OfficeKeeps == OfficeSpec => []OfficeInv
BY InitOfficeInv, NextOfficeInv, PTL DEF OfficeSpec

(* Motives are of the silent, a cascade gives voice to the least set, and what a step
   reports and remembers is what there is: for any workers, ties, casts and agendas. *)
THEOREM OfficeIsCoherent == OfficeSpec => []OfficeCoherent
<1>1. ASSUME OfficeInv PROVE OfficeCoherent
  <2>1. OfficeTypeOK
    BY <1>1 DEF OfficeInv
  <2>2. ASSUME minutes.done
        PROVE  LET raised == Voicing(office.voice) \ minutes.voiced
                   share(w, S) == Cardinality({v \in Worker : {v, w} \in office.ties /\ v \in S})
                   urged(w, S) == share(w, S) * office.cast[w].theta[2] > office.cast[w].theta[1] * share(w, Worker)
                   closed(S) == \A w \in minutes.start \ S : ~urged(w, minutes.voiced \cup S)
               IN  /\ raised \subseteq minutes.start /\ closed(raised)
                   /\ \A S \in SUBSET minutes.start : closed(S) => raised \subseteq S
    BY <1>1, <2>2 DEF OfficeInv, LeastRaised, SettledOf, UrgedOf, ShareOf
  <2>3. ASSUME session.at = 0, ~session.failed, session.count > 0, NEW name, OnAgenda(name)
        PROVE  \A names : name \in names => Ran(names)
    BY <2>3 DEF OnAgenda, Ran
  <2>4. session.at = 0 /\ ~session.failed /\ session.count > 0 /\ (OnAgenda("org_performance") \/ OnAgenda("climate_silence")) =>
          office.climate = Cardinality(Concealing(office.voice)) /\ office.volume = Cardinality(Voicing(office.voice))
    BY <1>1, <2>3 DEF OfficeInv, Reports
  <2>5. session.at = 0 /\ ~session.failed /\ session.count > 0 /\ OnAgenda("silence_spiral") =>
          \A w \in Worker : office.ratio[w] >= Cardinality({v \in Contacts(w) : office.voice[v] = "silence"})
    BY <1>1, <2>3 DEF OfficeInv, SilentAround
  <2>6. \A w \in Worker : (office.motive[w] # "none") <=> (office.voice[w] = "silence")
    BY <1>1 DEF OfficeInv
  <2>7. QED
    BY <2>2, <2>4, <2>5, <2>6 DEF OfficeCoherent
<1>2. QED
  BY OfficeKeeps, <1>1, PTL

-----------------------------------------------------------------------------
(***************************************************************************)
(* The lattice.  Along one side of a torus the distance of two places is   *)
(* the length of the shortest offset that leads from one to the other.     *)
(***************************************************************************)
LEMMA PairMin ==
  ASSUME NEW a \in Int, NEW b \in Int
  PROVE  Min({a, b}) = IF a <= b THEN a ELSE b
<1> DEFINE m == IF a <= b THEN a ELSE b
<1>1. m \in {a, b} /\ \A y \in {a, b} : m <= y
  OBVIOUS
<1>2. \A x \in {a, b} : (\A y \in {a, b} : x <= y) => x = m
  OBVIOUS
<1> QED BY <1>1, <1>2 DEF Min

LEMMA PairMax ==
  ASSUME NEW a \in Int, NEW b \in Int
  PROVE  Max({a, b}) = IF a >= b THEN a ELSE b
<1> DEFINE m == IF a >= b THEN a ELSE b
<1>1. m \in {a, b} /\ \A y \in {a, b} : m >= y
  OBVIOUS
<1>2. \A x \in {a, b} : (\A y \in {a, b} : x >= y) => x = m
  OBVIOUS
<1> QED BY <1>1, <1>2 DEF Max

(* Multiples of a number that differ are that number apart. *)
LEMMA MultiplesApart ==
  ASSUME NEW a \in Nat, NEW q \in Int
  PROVE  /\ q = 0 => a * q = 0
         /\ q >= 1 => a * q >= a
         /\ q <= -1 => a * q <= -a
<1> DEFINE T == {k \in Nat : k * q \in Int /\ (q >= 1 => k * q >= k) /\ (q <= -1 => k * q <= -k)}
<1>1. 0 \in T
  OBVIOUS
<1>2. ASSUME NEW k \in Nat, k \in T PROVE k + 1 \in T
  <2>1. PICK u \in Int : u = k * q
    OBVIOUS
  <2>2. (k + 1) * q = u + q
    BY <2>1
  <2>3. (q >= 1 => u >= k) /\ (q <= -1 => u <= -k)
    BY <1>2, <2>1
  <2> QED BY <2>2, <2>3
<1>3. a \in T
  <2> HIDE DEF T
  <2> QED BY <1>1, <1>2, Induct
<1>4. q = 0 => a * q = 0
  OBVIOUS
<1> QED BY <1>3, <1>4

LEMMA Widens ==
  ASSUME NEW a \in Nat, NEW x \in Int, NEW y \in Int, x <= y
  PROVE  a * x <= a * y
<1>1. PICK d \in Nat : y = x + d
  <2>1. y - x \in Nat /\ y = x + (y - x)
    OBVIOUS
  <2> QED BY <2>1
<1>2. PICK u \in Int, w \in Int : u = a * x /\ w = a * d
  BY <1>1
<1>3. a * y = u + w
  BY <1>1, <1>2
<1>4. w >= 0
  <2>1. (d = 0 => w = 0) /\ (d >= 1 => w >= a)
    BY <1>1, <1>2, MultiplesApart
  <2> QED BY <1>1, <2>1
<1> QED BY <1>2, <1>3, <1>4

(* What a whole number is modulo a. *)
Rest(x, a, q, r) == q \in Int /\ r \in Nat /\ r < a /\ x = a * q + r
LEMMA Divides ==
  ASSUME NEW x \in Int, NEW a \in Nat, a # 0
  PROVE  Rest(x, a, x \div a, x % a)
<1>1. x \div a \in Int /\ x % a \in Int
  OBVIOUS
<1>2. 0 <= x % a
  OBVIOUS
<1>3. x % a < a
  OBVIOUS
<1>4. x = (a * (x \div a)) + (x % a)
  OBVIOUS
<1>5. PICK q \in Int, r \in Int : q = x \div a /\ r = x % a
  BY <1>1
<1>6. 0 <= r /\ r < a /\ x = (a * q) + r
  BY <1>2, <1>3, <1>4, <1>5
<1>7. Rest(x, a, q, r)
  BY <1>6 DEF Rest
<1> QED BY <1>5, <1>7

LEMMA Wrapped ==
  ASSUME NEW x \in Int, NEW a \in Nat, a # 0
  PROVE  x % a \in 0 .. a - 1
<1>1. Rest(x, a, x \div a, x % a)
  BY Divides
<1>2. x % a \in Nat /\ x % a < a
  BY <1>1, Zenon DEF Rest
<1> QED BY <1>2

LEMMA QuotientIs ==
  ASSUME NEW x \in Int, NEW a \in Nat, NEW q, NEW r, Rest(x, a, q, r)
  PROVE  x \div a = q /\ x % a = r
<1>1. /\ q \in Int /\ r \in Nat /\ r < a /\ x = a * q + r
  BY DEF Rest
<1>2. a # 0
  BY <1>1
<1>3. Rest(x, a, x \div a, x % a)
  BY <1>2, Divides
<1>4. PICK p \in Int, s \in Nat : p = x \div a /\ s = x % a /\ s < a /\ x = a * p + s
  BY <1>3, Zenon DEF Rest
<1>5. PICK d \in Int : d = q - p
  BY <1>1
<1>6. a * q = a * p + a * d
  BY <1>1, <1>5
<1>7. PICK u \in Int, v \in Int, w \in Int : u = a * q /\ v = a * p /\ w = a * d
  BY <1>1
<1>8. u = v + w /\ x = u + r /\ x = v + s
  BY <1>1, <1>4, <1>6, <1>7
<1>9. (d = 0 => w = 0) /\ (d >= 1 => w >= a) /\ (d <= -1 => w <= -a)
  BY <1>7, MultiplesApart
<1>10. d = 0 /\ w = 0
  BY <1>1, <1>4, <1>8, <1>9
<1>11. q = p /\ r = s
  BY <1>1, <1>5, <1>8, <1>10
<1> QED BY <1>4, <1>11

LEMMA HowFar ==
  ASSUME NEW a \in Int, NEW b \in Int
  PROVE  AbsDiff(a, b) \in Nat /\ (AbsDiff(a, b) = 0 <=> a = b)
<1>1. a > b => AbsDiff(a, b) = a - b
  BY DEF AbsDiff
<1>2. ~ (a > b) => AbsDiff(a, b) = b - a
  BY DEF AbsDiff
<1> QED BY <1>1, <1>2

(* The three ways around a circle. *)
LEMMA Circle ==
  ASSUME NEW len \in Nat, NEW a \in 0 .. len - 1, NEW b \in 0 .. len - 1
  PROVE  /\ ToroidalDiff(a, b, len) \in Nat
         /\ ToroidalDiff(a, b, len) = IF AbsDiff(a, b) <= len - AbsDiff(a, b) THEN AbsDiff(a, b) ELSE len - AbsDiff(a, b)
         /\ ToroidalDiff(a, b, len) = 0 <=> a = b
<1>1. len # 0 /\ a \in Int /\ b \in Int /\ 0 <= a /\ a < len /\ 0 <= b /\ b < len
  OBVIOUS
<1>2. PICK e \in Int : e = AbsDiff(a, b)
  BY <1>1, HowFar
<1>3. 0 <= e /\ e < len /\ (e = 0 <=> a = b)
  BY <1>1, <1>2 DEF AbsDiff
<1>4. ToroidalDiff(a, b, len) = Min({e, len - e})
  BY <1>1, <1>2 DEF ToroidalDiff
<1>5. ToroidalDiff(a, b, len) = IF e <= len - e THEN e ELSE len - e
  BY <1>4, PairMin
<1> QED BY <1>2, <1>3, <1>5

LEMMA NoShorter ==
  ASSUME NEW len \in Nat, NEW a \in 0 .. len - 1, NEW b \in 0 .. len - 1, NEW o \in Int, (a + o) % len = b
  PROVE  ToroidalDiff(a, b, len) <= AbsDiff(o, 0)
<1>1. len # 0 /\ a \in Int /\ b \in Int /\ 0 <= a /\ a < len /\ 0 <= b /\ b < len
  OBVIOUS
<1>2. PICK x \in Int : x = a + o
  BY <1>1
<1>3. Rest(x, len, x \div len, x % len)
  BY <1>1, Divides
<1>4. PICK q \in Int : x = len * q + b
  BY <1>2, <1>3 DEF Rest
<1>5. PICK u \in Int : u = len * q
  BY <1>4
<1>6. (q = 0 => u = 0) /\ (q >= 1 => u >= len) /\ (q <= -1 => u <= -len)
  BY <1>5, MultiplesApart
<1>7. o = u + b - a
  BY <1>1, <1>2, <1>4, <1>5
<1>8. PICK e \in Int, t \in Int : e = AbsDiff(a, b) /\ t = ToroidalDiff(a, b, len)
  <2>1. AbsDiff(a, b) \in Int
    BY <1>1, HowFar
  <2>2. ToroidalDiff(a, b, len) \in Int
    BY Circle
  <2> QED BY <2>1, <2>2
<1>9. t <= e /\ t <= len - e
  BY <1>1, <1>8, Circle
<1>10. e = IF a > b THEN a - b ELSE b - a
  BY <1>8 DEF AbsDiff
<1>11. t <= IF o > 0 THEN o ELSE 0 - o
  <2>1. CASE q = 0
    BY <1>1, <1>6, <1>7, <1>9, <1>10, <2>1
  <2>2. CASE q >= 1
    BY <1>1, <1>6, <1>7, <1>9, <1>10, <2>2
  <2>3. CASE q <= -1
    BY <1>1, <1>6, <1>7, <1>9, <1>10, <2>3
  <2> QED BY <1>4, <2>1, <2>2, <2>3
<1> QED BY <1>8, <1>11 DEF AbsDiff

LEMMA OneAsShort ==
  ASSUME NEW len \in Nat, NEW a \in 0 .. len - 1, NEW b \in 0 .. len - 1
  PROVE  \E o \in Int : AbsDiff(o, 0) = ToroidalDiff(a, b, len) /\ (a + o) % len = b
<1>1. len # 0 /\ a \in Int /\ b \in Nat /\ 0 <= a /\ a < len /\ b < len
  OBVIOUS
<1>2. PICK e \in Int, t \in Int : e = AbsDiff(a, b) /\ t = ToroidalDiff(a, b, len)
  <2>1. AbsDiff(a, b) \in Int
    BY <1>1, HowFar
  <2>2. ToroidalDiff(a, b, len) \in Int
    BY Circle
  <2> QED BY <2>1, <2>2
<1>3. (t = IF e <= len - e THEN e ELSE len - e) /\ e = IF a > b THEN a - b ELSE b - a
  BY <1>2, Circle DEF AbsDiff
<1>4. ASSUME NEW q \in {0, 1, -1} PROVE Rest((len * q) + b, len, q, b)
  BY <1>1 DEF Rest
<1>5. len * 0 = 0 /\ len * 1 = len /\ len * (-1) = -len
  OBVIOUS
<1>6. ASSUME NEW o \in Int, NEW q \in {0, 1, -1}, a + o = (len * q) + b PROVE (a + o) % len = b
  BY <1>1, <1>4, <1>6, QuotientIs
<1>7. CASE e <= len - e
  <2>1. PICK o \in Int : o = b - a
    BY <1>1
  <2>2. a + o = (len * 0) + b
    BY <1>1, <1>5, <2>1
  <2>3. AbsDiff(o, 0) = t
    BY <1>1, <1>3, <1>7, <2>1 DEF AbsDiff
  <2> QED BY <1>2, <1>6, <2>2, <2>3
<1>8. CASE ~ (e <= len - e) /\ a > b
  <2>1. PICK o \in Int : o = len + b - a
    BY <1>1
  <2>2. a + o = (len * 1) + b
    BY <1>1, <1>5, <2>1
  <2>3. AbsDiff(o, 0) = t
    BY <1>1, <1>3, <1>8, <2>1 DEF AbsDiff
  <2> QED BY <1>2, <1>6, <2>2, <2>3
<1>9. CASE ~ (e <= len - e) /\ ~ (a > b)
  <2>1. PICK o \in Int : o = b - a - len
    BY <1>1
  <2>2. a + o = (len * (-1)) + b
    BY <1>1, <1>5, <2>1
  <2>3. AbsDiff(o, 0) = t
    BY <1>1, <1>3, <1>9, <2>1 DEF AbsDiff
  <2> QED BY <1>2, <1>6, <2>2, <2>3
<1> QED BY <1>7, <1>8, <1>9

(***************************************************************************)
(* Cells.  Across and Down are the two parts of a distance, with or        *)
(* without wrapping; Resolve reaches a cell with offsets of these lengths  *)
(* and with none that is shorter.                                          *)
(***************************************************************************)
IsGrid(g) == g \in [rows : Nat, cols : Nat, toroidal : BOOLEAN]
Down(g, c, d) == IF g.toroidal THEN ToroidalDiff(c[1], d[1], g.rows) ELSE AbsDiff(c[1], d[1])
Across(g, c, d) == IF g.toroidal THEN ToroidalDiff(c[2], d[2], g.cols) ELSE AbsDiff(c[2], d[2])

LEMMA CellIs ==
  ASSUME NEW g, IsGrid(g), NEW c \in CellsOf(g)
  PROVE  /\ g.rows \in Nat /\ g.cols \in Nat /\ g.rows # 0 /\ g.cols # 0 /\ g.toroidal \in BOOLEAN
         /\ c = <<c[1], c[2]>> /\ c[1] \in 0 .. g.rows - 1 /\ c[2] \in 0 .. g.cols - 1
<1>1. g.rows \in Nat /\ g.cols \in Nat /\ g.toroidal \in BOOLEAN
  BY DEF IsGrid
<1>2. c = <<c[1], c[2]>> /\ c[1] \in 0 .. g.rows - 1 /\ c[2] \in 0 .. g.cols - 1
  BY DEF CellsOf
<1> QED BY <1>1, <1>2

LEMMA TwoWays ==
  ASSUME NEW g, IsGrid(g), NEW c \in CellsOf(g), NEW d \in CellsOf(g)
  PROVE  Down(g, c, d) \in Nat /\ Across(g, c, d) \in Nat /\ (Down(g, c, d) = 0 /\ Across(g, c, d) = 0 <=> c = d)
<1>1. /\ g.rows \in Nat /\ g.cols \in Nat
      /\ c = <<c[1], c[2]>> /\ c[1] \in 0 .. g.rows - 1 /\ c[2] \in 0 .. g.cols - 1
      /\ d = <<d[1], d[2]>> /\ d[1] \in 0 .. g.rows - 1 /\ d[2] \in 0 .. g.cols - 1
  BY CellIs
<1>2. Down(g, c, d) \in Nat /\ (Down(g, c, d) = 0 <=> c[1] = d[1])
  <2>1. ToroidalDiff(c[1], d[1], g.rows) \in Nat /\ (ToroidalDiff(c[1], d[1], g.rows) = 0 <=> c[1] = d[1])
    BY <1>1, Circle
  <2>2. AbsDiff(c[1], d[1]) \in Nat /\ (AbsDiff(c[1], d[1]) = 0 <=> c[1] = d[1])
    BY <1>1, HowFar
  <2> QED BY <2>1, <2>2 DEF Down
<1>3. Across(g, c, d) \in Nat /\ (Across(g, c, d) = 0 <=> c[2] = d[2])
  <2>1. ToroidalDiff(c[2], d[2], g.cols) \in Nat /\ (ToroidalDiff(c[2], d[2], g.cols) = 0 <=> c[2] = d[2])
    BY <1>1, Circle
  <2>2. AbsDiff(c[2], d[2]) \in Nat /\ (AbsDiff(c[2], d[2]) = 0 <=> c[2] = d[2])
    BY <1>1, HowFar
  <2> QED BY <2>1, <2>2 DEF Across
<1>4. c[1] = d[1] /\ c[2] = d[2] <=> c = d
  BY <1>1
<1> QED BY <1>2, <1>3, <1>4

LEMMA NoneBelow ==
  ASSUME NEW g, IsGrid(g), NEW c \in CellsOf(g), NEW o \in Int, NEW p \in Int,
         NEW d \in Resolve(g, c[1] + o, c[2] + p)
  PROVE  d \in CellsOf(g) /\ Down(g, c, d) <= AbsDiff(o, 0) /\ Across(g, c, d) <= AbsDiff(p, 0)
<1>1. /\ g.rows \in Nat /\ g.cols \in Nat /\ g.rows # 0 /\ g.cols # 0 /\ g.toroidal \in BOOLEAN
      /\ c[1] \in 0 .. g.rows - 1 /\ c[2] \in 0 .. g.cols - 1
  BY CellIs
<1>2. CellsOf(g) # {}
  OBVIOUS
<1>3. PICK x \in Int, y \in Int : x = c[1] + o /\ y = c[2] + p
  BY <1>1
<1>4. CASE g.toroidal
  <2>1. d = <<x % g.rows, y % g.cols>>
    BY <1>2, <1>3, <1>4, Zenon DEF Resolve
  <2>2. x % g.rows \in 0 .. g.rows - 1
    BY <1>1, Wrapped
  <2>3. y % g.cols \in 0 .. g.cols - 1
    BY <1>1, Wrapped
  <2>4. d[1] = x % g.rows /\ d[2] = y % g.cols
    BY <2>1
  <2>5. d \in CellsOf(g)
    BY <2>1, <2>2, <2>3 DEF CellsOf
  <2>6. d[1] \in 0 .. g.rows - 1 /\ d[2] \in 0 .. g.cols - 1
    BY <2>2, <2>3, <2>4
  <2>7. (c[1] + o) % g.rows = d[1] /\ (c[2] + p) % g.cols = d[2]
    BY <1>3, <2>4, Zenon
  <2>8. ToroidalDiff(c[1], d[1], g.rows) <= AbsDiff(o, 0)
    BY <1>1, <2>6, <2>7, NoShorter
  <2>9. ToroidalDiff(c[2], d[2], g.cols) <= AbsDiff(p, 0)
    BY <1>1, <2>6, <2>7, NoShorter
  <2> QED BY <1>4, <2>5, <2>8, <2>9 DEF Down, Across
<1>5. CASE ~ g.toroidal
  <2>1. d = <<x, y>> /\ d \in CellsOf(g)
    BY <1>2, <1>3, <1>5, Zenon DEF Resolve
  <2>2. d[1] = c[1] + o /\ d[2] = c[2] + p
    BY <1>3, <2>1
  <2>3. AbsDiff(c[1], d[1]) <= AbsDiff(o, 0)
    BY <1>1, <2>2 DEF AbsDiff
  <2>4. AbsDiff(c[2], d[2]) <= AbsDiff(p, 0)
    BY <1>1, <2>2 DEF AbsDiff
  <2> QED BY <1>5, <2>1, <2>3, <2>4 DEF Down, Across
<1> QED BY <1>1, <1>4, <1>5

LEMMA OneReaches ==
  ASSUME NEW g, IsGrid(g), NEW c \in CellsOf(g), NEW d \in CellsOf(g)
  PROVE  \E o \in Int : \E p \in Int : /\ AbsDiff(o, 0) = Down(g, c, d) /\ AbsDiff(p, 0) = Across(g, c, d)
                                       /\ d \in Resolve(g, c[1] + o, c[2] + p)
<1>1. /\ g.rows \in Nat /\ g.cols \in Nat /\ g.rows # 0 /\ g.cols # 0 /\ g.toroidal \in BOOLEAN
      /\ c[1] \in 0 .. g.rows - 1 /\ c[2] \in 0 .. g.cols - 1
      /\ d = <<d[1], d[2]>> /\ d[1] \in 0 .. g.rows - 1 /\ d[2] \in 0 .. g.cols - 1
  BY CellIs
<1>2. CellsOf(g) # {}
  OBVIOUS
<1>3. CASE g.toroidal
  <2>1. PICK o \in Int : AbsDiff(o, 0) = ToroidalDiff(c[1], d[1], g.rows) /\ (c[1] + o) % g.rows = d[1]
    BY <1>1, OneAsShort
  <2>2. PICK p \in Int : AbsDiff(p, 0) = ToroidalDiff(c[2], d[2], g.cols) /\ (c[2] + p) % g.cols = d[2]
    BY <1>1, OneAsShort
  <2>3. Resolve(g, c[1] + o, c[2] + p) = {<<d[1], d[2]>>}
    BY <1>2, <1>3, <2>1, <2>2, Zenon DEF Resolve
  <2> QED BY <1>1, <1>3, <2>1, <2>2, <2>3, Zenon DEF Down, Across
<1>4. CASE ~ g.toroidal
  <2>1. PICK o \in Int : o = d[1] - c[1]
    BY <1>1
  <2>2. PICK p \in Int : p = d[2] - c[2]
    BY <1>1
  <2>3. c[1] + o = d[1] /\ c[2] + p = d[2]
    BY <1>1, <2>1, <2>2
  <2>4. AbsDiff(o, 0) = AbsDiff(c[1], d[1])
    BY <1>1, <2>1 DEF AbsDiff
  <2>5. AbsDiff(p, 0) = AbsDiff(c[2], d[2])
    BY <1>1, <2>2 DEF AbsDiff
  <2>6. d \in Resolve(g, c[1] + o, c[2] + p)
    BY <1>1, <1>2, <1>4, <2>3, Zenon DEF Resolve
  <2> QED BY <1>4, <2>4, <2>5, <2>6, Zenon DEF Down, Across
<1> QED BY <1>1, <1>3, <1>4

(* The two distances that belong to the neighbourhoods. *)
Metric(nbhd) == IF nbhd = "moore" THEN "chebyshev" ELSE "manhattan"
LEMMA DistanceIs ==
  ASSUME NEW g, IsGrid(g), NEW c \in CellsOf(g), NEW d \in CellsOf(g)
  PROVE  /\ Distance(g, "chebyshev", c, d) = IF Down(g, c, d) >= Across(g, c, d) THEN Down(g, c, d) ELSE Across(g, c, d)
         /\ Distance(g, "manhattan", c, d) = Down(g, c, d) + Across(g, c, d)
         /\ \A metric \in Metrics : Distance(g, metric, c, d) \in Int
<1>1. Down(g, c, d) \in Nat /\ Across(g, c, d) \in Nat
  BY TwoWays
<1>2. \A metric : Distance(g, metric, c, d) = Combine(metric, Down(g, c, d), Across(g, c, d))
  BY Zenon DEF Distance, Down, Across
<1>3. Combine("chebyshev", Down(g, c, d), Across(g, c, d)) = Max({Down(g, c, d), Across(g, c, d)})
  BY DEF Combine
<1>4. Combine("manhattan", Down(g, c, d), Across(g, c, d)) = Down(g, c, d) + Across(g, c, d)
  BY DEF Combine
<1>5. Combine("euclidean", Down(g, c, d), Across(g, c, d)) = Down(g, c, d) * Down(g, c, d) + Across(g, c, d) * Across(g, c, d)
  BY DEF Combine
<1>6. Max({Down(g, c, d), Across(g, c, d)}) = IF Down(g, c, d) >= Across(g, c, d) THEN Down(g, c, d) ELSE Across(g, c, d)
  BY <1>1, PairMax
<1>7. PICK x \in Nat, y \in Nat : x = Down(g, c, d) /\ y = Across(g, c, d)
  BY <1>1
<1>8. Distance(g, "chebyshev", c, d) = IF x >= y THEN x ELSE y
  BY <1>2, <1>3, <1>6, <1>7, Zenon
<1>9. Distance(g, "manhattan", c, d) = x + y
  BY <1>2, <1>4, <1>7, Zenon
<1>10. Distance(g, "euclidean", c, d) \in Int
  BY <1>2, <1>5, <1>7
<1>11. \A metric \in Metrics : Distance(g, metric, c, d) \in Int
  BY <1>8, <1>9, <1>10 DEF Metrics
<1> QED BY <1>7, <1>8, <1>9, <1>11, Zenon

(* The neighbourhood of every radius is a ball, on a torus too. *)
Around(g, c, nbhd, radius) == {d \in CellsOf(g) : Distance(g, Metric(nbhd), c, d) \in 1 .. radius}

LEMMA NeighborsAreBall ==
  ASSUME NEW g, IsGrid(g), NEW c \in CellsOf(g), NEW nbhd \in Neighborhoods, NEW radius \in Nat
  PROVE  NeighborsRadius(g, c, nbhd, radius) = Around(g, c, nbhd, radius)
<1>1. ASSUME NEW d, d \in NeighborsRadius(g, c, nbhd, radius) PROVE d \in Around(g, c, nbhd, radius)
  <2>1. PICK e \in Offsets(nbhd, radius) : d \in Resolve(g, c[1] + e[1], c[2] + e[2]) /\ d # c
    <3>1. d # c /\ d \in UNION {Resolve(g, c[1] + e[1], c[2] + e[2]) : e \in Offsets(nbhd, radius)}
      BY <1>1, Zenon DEF NeighborsRadius
    <3> QED BY <3>1, Zenon
  <2>2. /\ e[1] \in -radius .. radius /\ e[2] \in -radius .. radius
        /\ nbhd = "von_neumann" => AbsDiff(e[1], 0) + AbsDiff(e[2], 0) <= radius
    BY <2>1 DEF Offsets
  <2>3. PICK o \in Int, p \in Int : o = e[1] /\ p = e[2]
    BY <2>2
  <2>4. d \in CellsOf(g) /\ Down(g, c, d) <= AbsDiff(o, 0) /\ Across(g, c, d) <= AbsDiff(p, 0)
    BY <2>1, <2>3, NoneBelow
  <2>5. PICK x \in Nat, y \in Nat : x = Down(g, c, d) /\ y = Across(g, c, d)
    BY <2>4, TwoWays
  <2>6. ~ (x = 0 /\ y = 0)
    BY <2>1, <2>4, <2>5, TwoWays
  <2>7. PICK s \in Nat, t \in Nat : s = AbsDiff(o, 0) /\ t = AbsDiff(p, 0)
    <3>1. AbsDiff(o, 0) \in Nat
      BY DEF AbsDiff
    <3>2. AbsDiff(p, 0) \in Nat
      BY DEF AbsDiff
    <3> QED BY <3>1, <3>2
  <2>8. s <= radius /\ t <= radius
    BY <2>2, <2>3, <2>7 DEF AbsDiff
  <2>9. Distance(g, "chebyshev", c, d) = (IF x >= y THEN x ELSE y) /\ Distance(g, "manhattan", c, d) = x + y
    BY <2>4, <2>5, DistanceIs
  <2>10. x <= s /\ y <= t
    BY <2>4, <2>5, <2>7
  <2>11. CASE nbhd = "moore"
    <3>1. Distance(g, "chebyshev", c, d) \in 1 .. radius
      BY <2>6, <2>8, <2>9, <2>10
    <3> QED BY <2>4, <2>11, <3>1 DEF Around, Metric
  <2>12. CASE nbhd = "von_neumann"
    <3>1. s + t <= radius
      BY <2>2, <2>3, <2>7, <2>12
    <3>2. Distance(g, "manhattan", c, d) \in 1 .. radius
      BY <2>6, <2>9, <2>10, <3>1
    <3> QED BY <2>4, <2>12, <3>2 DEF Around, Metric
  <2> QED BY <2>11, <2>12 DEF Neighborhoods
<1>2. ASSUME NEW d, d \in Around(g, c, nbhd, radius) PROVE d \in NeighborsRadius(g, c, nbhd, radius)
  <2>1. d \in CellsOf(g) /\ Distance(g, Metric(nbhd), c, d) \in 1 .. radius
    BY <1>2 DEF Around
  <2>2. PICK o \in Int : \E p \in Int : /\ AbsDiff(o, 0) = Down(g, c, d) /\ AbsDiff(p, 0) = Across(g, c, d)
                                        /\ d \in Resolve(g, c[1] + o, c[2] + p)
    BY <2>1, OneReaches
  <2>3. PICK p \in Int : /\ AbsDiff(o, 0) = Down(g, c, d) /\ AbsDiff(p, 0) = Across(g, c, d)
                         /\ d \in Resolve(g, c[1] + o, c[2] + p)
    BY <2>2
  <2>4. PICK x \in Nat, y \in Nat : x = Down(g, c, d) /\ y = Across(g, c, d)
    BY <2>1, TwoWays
  <2>5. Distance(g, "chebyshev", c, d) = (IF x >= y THEN x ELSE y) /\ Distance(g, "manhattan", c, d) = x + y
    BY <2>1, <2>4, DistanceIs
  <2>6. /\ ~ (x = 0 /\ y = 0) /\ x <= radius /\ y <= radius
        /\ nbhd = "von_neumann" => x + y <= radius
    <3>1. CASE nbhd = "moore"
      <4>1. (IF x >= y THEN x ELSE y) \in 1 .. radius
        BY <2>1, <2>5, <3>1 DEF Metric
      <4> QED BY <3>1, <4>1
    <3>2. CASE nbhd = "von_neumann"
      <4>1. x + y \in 1 .. radius
        BY <2>1, <2>5, <3>2 DEF Metric
      <4> QED BY <4>1
    <3> QED BY <3>1, <3>2 DEF Neighborhoods
  <2>7. d # c
    BY <2>1, <2>4, <2>6, TwoWays
  <2>8. AbsDiff(o, 0) = x /\ AbsDiff(p, 0) = y
    BY <2>3, <2>4
  <2>9. o \in -radius .. radius /\ p \in -radius .. radius /\ ~ (o = 0 /\ p = 0)
    BY <2>6, <2>8 DEF AbsDiff
  <2>10. PICK e : e = <<o, p>>
    OBVIOUS
  <2>11. e[1] = o /\ e[2] = p /\ e # <<0, 0>> /\ e \in (-radius .. radius) \X (-radius .. radius)
    BY <2>9, <2>10
  <2>12. nbhd = "von_neumann" => AbsDiff(e[1], 0) + AbsDiff(e[2], 0) <= radius
    BY <2>6, <2>8, <2>11
  <2>13. e \in Offsets(nbhd, radius)
    BY <2>11, <2>12 DEF Offsets
  <2>14. d \in Resolve(g, c[1] + e[1], c[2] + e[2])
    BY <2>3, <2>11
  <2>15. d \in UNION {Resolve(g, c[1] + f[1], c[2] + f[2]) : f \in Offsets(nbhd, radius)}
    BY <2>13, <2>14, Zenon
  <2> QED BY <2>7, <2>15, Zenon DEF NeighborsRadius
<1> QED BY <1>1, <1>2

(***************************************************************************)
(* Cells are numbered row by row.                                          *)
(***************************************************************************)
LEMMA CellNumbered ==
  ASSUME NEW g, IsGrid(g), NEW c \in CellsOf(g)
  PROVE  Linear(g, c) \in 0 .. g.rows * g.cols - 1 /\ CellAt(g, Linear(g, c)) = c
<1>1. /\ g.rows \in Nat /\ g.cols \in Nat /\ g.rows # 0 /\ g.cols # 0
      /\ c = <<c[1], c[2]>> /\ c[1] \in 0 .. g.rows - 1 /\ c[2] \in 0 .. g.cols - 1
  BY CellIs
<1>2. PICK a \in Nat, x \in Nat, y \in Nat, n \in Nat : a = g.cols /\ x = c[1] /\ y = c[2] /\ n = g.rows
  BY <1>1
<1>3. a # 0 /\ x + 1 <= n /\ y < a
  BY <1>1, <1>2
<1>4. PICK i \in Nat : i = (x * a) + y
  BY <1>2
<1>5. i = Linear(g, c)
  BY <1>2, <1>4 DEF Linear
<1>6. i < n * a
  <2>1. a * (x + 1) <= a * n
    BY <1>3, Widens
  <2>2. PICK u \in Int, v \in Int : u = x * a /\ v = n * a
    BY <1>2
  <2>3. a * (x + 1) = a * x + a
    BY <1>2
  <2>4. a * x = u
    BY <1>2, <2>2
  <2>5. a * n = v
    BY <1>2, <2>2
  <2>6. PICK t \in Int : t = a * (x + 1)
    BY <1>2
  <2>7. t = u + a
    BY <2>3, <2>4, <2>6
  <2> QED BY <1>3, <1>4, <2>1, <2>2, <2>5, <2>6, <2>7
<1>7. Rest(i, a, x, y)
  <2>1. i = (a * x) + y
    BY <1>2, <1>4
  <2> QED BY <1>2, <1>3, <2>1 DEF Rest
<1>8. i \div a = x /\ i % a = y
  BY <1>7, QuotientIs
<1>9. CellAt(g, i) = c
  BY <1>1, <1>2, <1>8, Zenon DEF CellAt
<1>10. i \in 0 .. (n * a) - 1
  <2>1. PICK v \in Int : v = n * a
    BY <1>2
  <2> QED BY <1>6, <2>1
<1> QED BY <1>2, <1>5, <1>9, <1>10, Zenon

LEMMA NumberedCell ==
  ASSUME NEW g, IsGrid(g), NEW i \in 0 .. g.rows * g.cols - 1
  PROVE  CellAt(g, i) \in CellsOf(g) /\ Linear(g, CellAt(g, i)) = i
<1>1. g.rows \in Nat /\ g.cols \in Nat
  BY DEF IsGrid
<1>2. PICK n \in Nat, a \in Nat : n = g.rows /\ a = g.cols
  BY <1>1
<1>3. PICK v \in Nat : v = n * a
  BY <1>2
<1>4. i \in Nat /\ i < v
  BY <1>2, <1>3
<1>5. a # 0
  <2>1. a = 0 => v = 0
    BY <1>3
  <2> QED BY <1>4, <2>1
<1>6. Rest(i, a, i \div a, i % a)
  <2>1. i \in Int
    BY <1>4
  <2> QED BY <1>5, <2>1, Divides
<1>7. PICK q \in Int, r \in Nat : q = i \div a /\ r = i % a /\ r < a /\ i = (a * q) + r
  BY <1>6, Zenon DEF Rest
<1>8. PICK u \in Int : u = a * q
  BY <1>7
<1>14. q \in Int /\ r \in Nat /\ r < a /\ i = u + r
  BY <1>7, <1>8, Zenon
<1>9. q >= 0
  <2>1. q <= -1 => u <= -a
    BY <1>8, MultiplesApart
  <2> QED BY <1>4, <1>7, <1>8, <2>1
<1>10. q < n
  <2>1. n <= q => a * n <= a * q
    BY <1>7, <1>9, Widens
  <2>2. a * n = v
    BY <1>3
  <2>3. n <= q => v <= u
    BY <1>8, <2>1, <2>2
  <2>4. v \in Nat /\ u \in Int /\ i < v /\ i \in Nat /\ i >= u
    BY <1>3, <1>4, <1>8, <1>14
  <2> QED BY <1>2, <1>14, <2>3, <2>4
<1>11. CellAt(g, i) = <<q, r>>
  BY <1>2, <1>7, Zenon DEF CellAt
<1>12. q \in 0 .. g.rows - 1 /\ r \in 0 .. g.cols - 1
  <2>1. q \in Nat /\ q <= n - 1 /\ r <= a - 1
    BY <1>2, <1>9, <1>10, <1>14
  <2> QED BY <1>2, <1>14, <2>1
<1>13. Linear(g, <<q, r>>) = i
  <2>1. Linear(g, <<q, r>>) = (q * a) + r
    BY <1>2 DEF Linear
  <2>2. q * a = a * q
    BY <1>2, <1>7
  <2> QED BY <1>7, <2>1, <2>2
<1> QED BY <1>11, <1>12, <1>13 DEF CellsOf

LEMMA TableRow ==
  ASSUME NEW g, IsGrid(g), NEW c \in CellsOf(g), NEW nbhd \in Neighborhoods, NEW radius \in Nat
  PROVE  Adjacency(g, nbhd, radius)[Linear(g, c)] = {Linear(g, d) : d \in Around(g, c, nbhd, radius)}
<1>1. Linear(g, c) \in 0 .. g.rows * g.cols - 1 /\ CellAt(g, Linear(g, c)) = c
  BY CellNumbered
<1>2. NeighborsRadius(g, c, nbhd, radius) = Around(g, c, nbhd, radius)
  BY NeighborsAreBall
<1> QED BY <1>1, <1>2, Zenon DEF Adjacency

(***************************************************************************)
(* The nearest vacant cell: the best of the first n cells is vacant and    *)
(* the first of the nearest among them.                                    *)
(***************************************************************************)
Located == IsGrid(grid) /\ VacantCells \subseteq CellsOf(grid)
Beats(from, metric, v, d) ==
  \/ Distance(grid, metric, from, v) < Distance(grid, metric, from, d)
  \/ Distance(grid, metric, from, v) = Distance(grid, metric, from, d) /\ Linear(grid, v) < Linear(grid, d)
Best(from, metric, n, S) ==
  /\ S \subseteq VacantCells /\ \A b \in S : Linear(grid, b) < n /\ \A e \in S : e = b
  /\ S = {} => \A d \in VacantCells : Linear(grid, d) >= n
  /\ \A b \in S : \A d \in VacantCells \ {b} : Linear(grid, d) < n => Beats(from, metric, b, d)

LEMMA BestOne ==
  ASSUME Located, NEW from \in CellsOf(grid), NEW metric \in Metrics,
         NEW n \in Nat, n \in 0 .. grid.rows * grid.cols - 1,
         NEW S, NEW T, Best(from, metric, n, S),
         T = IF \/ CellAt(grid, n) \notin VacantCells
                \/ \E b \in S : ~Closer(Distance(grid, metric, from, CellAt(grid, n)), Distance(grid, metric, from, b))
             THEN S ELSE {CellAt(grid, n)}
  PROVE  Best(from, metric, n + 1, T)
<1>1. IsGrid(grid) /\ VacantCells \subseteq CellsOf(grid)
  BY DEF Located
<1>2. PICK c : c = CellAt(grid, n)
  OBVIOUS
<1>3. c \in CellsOf(grid) /\ Linear(grid, c) = n
  BY <1>1, <1>2, NumberedCell
<1>4. \A d \in CellsOf(grid) : Linear(grid, d) \in Int /\ CellAt(grid, Linear(grid, d)) = d
  BY <1>1, CellNumbered
<1>5. \A d \in CellsOf(grid) : Distance(grid, metric, from, d) \in Int
  BY <1>1, DistanceIs
<1>6. /\ S \subseteq VacantCells /\ \A b \in S : Linear(grid, b) < n /\ \A e \in S : e = b
      /\ S = {} => \A d \in VacantCells : Linear(grid, d) >= n
      /\ \A b \in S : \A d \in VacantCells \ {b} : Linear(grid, d) < n => Beats(from, metric, b, d)
  BY DEF Best
<1>7. \A d \in VacantCells : Linear(grid, d) < n + 1 => Linear(grid, d) < n \/ d = c
  BY <1>1, <1>2, <1>4
<1>8. CASE c \notin VacantCells
  <2>1. T = S
    BY <1>2, <1>8
  <2>2. \A b \in S : Linear(grid, b) < n + 1
    BY <1>1, <1>4, <1>6
  <2>3. S = {} => \A d \in VacantCells : Linear(grid, d) >= n + 1
    BY <1>1, <1>4, <1>6, <1>7, <1>8
  <2>4. \A b \in S : \A d \in VacantCells \ {b} : Linear(grid, d) < n + 1 => Beats(from, metric, b, d)
    BY <1>6, <1>7, <1>8
  <2> QED BY <1>6, <2>1, <2>2, <2>3, <2>4 DEF Best
<1>9. CASE c \in VacantCells /\ \E b \in S : ~Closer(Distance(grid, metric, from, c), Distance(grid, metric, from, b))
  <2>1. T = S
    BY <1>2, <1>9
  <2>2. \A b \in S : Linear(grid, b) < n + 1
    BY <1>1, <1>4, <1>6
  <2>3. PICK b \in S : ~Closer(Distance(grid, metric, from, c), Distance(grid, metric, from, b))
    BY <1>9
  <2>4. b \in CellsOf(grid) /\ \A e \in S : e = b
    BY <1>1, <1>6, <2>3
  <2>5. Distance(grid, metric, from, b) <= Distance(grid, metric, from, c)
    BY <1>3, <1>5, <2>3, <2>4 DEF Closer
  <2>6. Beats(from, metric, b, c)
    <3>1. Linear(grid, b) < Linear(grid, c)
      BY <1>3, <1>6, <2>3
    <3> QED BY <1>3, <1>5, <2>4, <2>5, <3>1 DEF Beats
  <2>7. \A e \in S : \A d \in VacantCells \ {e} : Linear(grid, d) < n + 1 => Beats(from, metric, e, d)
    BY <1>6, <1>7, <2>4, <2>6
  <2> QED BY <1>6, <2>1, <2>2, <2>3, <2>7 DEF Best
<1>10. CASE c \in VacantCells /\ \A b \in S : Closer(Distance(grid, metric, from, c), Distance(grid, metric, from, b))
  <2>1. T = {c}
    BY <1>2, <1>10
  <2>2. ASSUME NEW d \in VacantCells, d # c, Linear(grid, d) < n PROVE Beats(from, metric, c, d)
    <3>1. PICK b \in S : TRUE
      BY <1>1, <1>4, <1>6, <2>2
    <3>2. b \in CellsOf(grid) /\ d \in CellsOf(grid)
      BY <1>1, <1>6, <3>1
    <3>3. Distance(grid, metric, from, c) < Distance(grid, metric, from, b)
      BY <1>10, <3>1 DEF Closer
    <3>4. d = b \/ Beats(from, metric, b, d)
      BY <1>6, <2>2, <3>1
    <3>5. Distance(grid, metric, from, b) <= Distance(grid, metric, from, d)
      BY <1>5, <3>2, <3>4 DEF Beats
    <3>6. Distance(grid, metric, from, c) < Distance(grid, metric, from, d)
      BY <1>3, <1>5, <3>2, <3>3, <3>5
    <3> QED BY <3>6 DEF Beats
  <2>3. Linear(grid, c) < n + 1
    BY <1>3
  <2>4. \A d \in VacantCells \ {c} : Linear(grid, d) < n + 1 => Beats(from, metric, c, d)
    BY <1>7, <2>2
  <2> QED BY <1>10, <2>1, <2>3, <2>4 DEF Best
<1> QED BY <1>8, <1>9, <1>10

LEMMA NearestIs ==
  ASSUME Located, NEW from \in CellsOf(grid), NEW metric \in Metrics
  PROVE  Best(from, metric, grid.rows * grid.cols, NearestVacant(from, metric))
<1> DEFINE N == grid.rows * grid.cols
           V == SUBSET CellsOf(grid)
           Next1(n, S) == IF \/ CellAt(grid, n - 1) \notin VacantCells
                             \/ \E b \in S : ~Closer(Distance(grid, metric, from, CellAt(grid, n - 1)), Distance(grid, metric, from, b))
                          THEN S ELSE {CellAt(grid, n - 1)}
           F == [n \in 1 .. N |-> [S \in V |-> Next1(n, S)]]
           Is(f) == f = [n \in 0 .. N |-> IF n = 0 THEN {} ELSE Next1(n, f[n - 1])]
           run == CHOOSE f : Is(f)
<1>0. IsGrid(grid) /\ VacantCells \subseteq CellsOf(grid)
  BY DEF Located
<1>1. N \in Nat
  BY <1>0 DEF IsGrid
<1>2. NearestVacant(from, metric) = run[N]
  BY Zenon DEF NearestVacant
<1>3. ASSUME NEW n \in 1 .. N, NEW S \in V PROVE Next1(n, S) \in V
  <2>1. n - 1 \in 0 .. grid.rows * grid.cols - 1
    BY <1>1
  <2>2. CellAt(grid, n - 1) \in CellsOf(grid)
    BY <1>0, <2>1, NumberedCell
  <2> QED BY <2>2
<1>12. \A n \in Nat : \A S : Next1(n + 1, S) =
         IF \/ CellAt(grid, n) \notin VacantCells
            \/ \E b \in S : ~Closer(Distance(grid, metric, from, CellAt(grid, n)), Distance(grid, metric, from, b))
         THEN S ELSE {CellAt(grid, n)}
  <2>1. \A n \in Nat : (n + 1) - 1 = n
    OBVIOUS
  <2> QED BY <2>1, Zenon
<1>13. N = grid.rows * grid.cols
  OBVIOUS
<1> HIDE DEF N, V, Next1
<1>4. Machine(N, V, {}, F)
  <2>1. ASSUME NEW n \in 1 .. N PROVE F[n] \in [V -> V]
    BY <1>3
  <2>2. {} \in V
    BY DEF V
  <2> QED BY <1>1, <2>1, <2>2 DEF Machine
<1>5. PICK g : RunOf(g, N, V, {}, F)
  <2> HIDE DEF F
  <2> QED BY <1>4, Recursion
<1>6. g \in [0 .. N -> V] /\ g[0] = {} /\ \A n \in 1 .. N : g[n] = Next1(n, g[n - 1])
  <2>1. g \in [0 .. N -> V] /\ g[0] = {} /\ \A n \in 1 .. N : g[n] = F[n][g[n - 1]]
    BY <1>5 DEF RunOf
  <2>2. ASSUME NEW n \in 1 .. N PROVE g[n] = Next1(n, g[n - 1])
    <3>1. g[n - 1] \in V
      BY <1>1, <2>1
    <3> QED BY <2>1, <3>1
  <2> QED BY <2>1, <2>2
<1>7. Is(g)
  BY <1>1, <1>6
<1>8. Is(run)
  <2> HIDE DEF Is
  <2> QED BY <1>7, Zenon
<1> HIDE DEF run
<1>9. run[0] = {} /\ \A n \in 1 .. N : run[n] = Next1(n, run[n - 1])
  BY <1>1, <1>8
<1> DEFINE T == {n \in Nat : n <= N => Best(from, metric, n, run[n])}
<1>10. 0 \in T
  <2>1. \A d \in VacantCells : Linear(grid, d) \in Nat
    <3>1. \A d \in CellsOf(grid) : Linear(grid, d) \in 0 .. grid.rows * grid.cols - 1
      BY <1>0, CellNumbered
    <3> QED BY <1>0, <1>1, <1>13, <3>1
  <2>2. Best(from, metric, 0, {})
    BY <2>1 DEF Best
  <2> QED BY <1>9, <2>2
<1>11. ASSUME NEW n \in Nat, n \in T PROVE n + 1 \in T
  <2>1. (n + 1) - 1 = n
    OBVIOUS
  <2>2. ASSUME n + 1 <= N PROVE Best(from, metric, n + 1, run[n + 1])
    <3>1. n + 1 \in 1 .. N /\ n <= N /\ n \in 0 .. N - 1
      BY <1>1, <2>2
    <3>2. Best(from, metric, n, run[n])
      BY <1>11, <3>1
    <3>3. run[n + 1] = Next1(n + 1, run[n])
      BY <1>9, <2>1, <3>1
    <3>4. n \in 0 .. grid.rows * grid.cols - 1
      BY <1>13, <3>1
    <3>5. PICK S : S = run[n]
      OBVIOUS
    <3>6. PICK R : R = run[n + 1]
      OBVIOUS
    <3>7. R = IF \/ CellAt(grid, n) \notin VacantCells
                 \/ \E b \in S : ~Closer(Distance(grid, metric, from, CellAt(grid, n)), Distance(grid, metric, from, b))
              THEN S ELSE {CellAt(grid, n)}
      BY <1>12, <3>3, <3>5, <3>6, Zenon
    <3>8. Best(from, metric, n, S)
      BY <3>2, <3>5
    <3>9. Best(from, metric, n + 1, R)
      BY <3>4, <3>7, <3>8, BestOne
    <3> QED BY <3>6, <3>9
  <2> QED BY <2>2
<1>14. Best(from, metric, N, run[N])
  <2>1. Nat \subseteq T
    <3> HIDE DEF T
    <3> QED BY <1>10, <1>11, Induct
  <2> QED BY <1>1, <2>1
<1> QED BY <1>2, <1>13, <1>14

LEMMA NearestIsFirst ==
  ASSUME Located, NEW from \in CellsOf(grid), NEW metric \in Metrics
  PROVE  /\ NearestVacant(from, metric) = {} <=> VacantCells = {}
         /\ \A v \in NearestVacant(from, metric) : v \in VacantCells /\ \A d \in VacantCells \ {v} : Beats(from, metric, v, d)
<1>1. Best(from, metric, grid.rows * grid.cols, NearestVacant(from, metric))
  BY NearestIs
<1>2. IsGrid(grid) /\ VacantCells \subseteq CellsOf(grid)
  BY DEF Located
<1>3. PICK n \in Nat : n = grid.rows * grid.cols
  BY <1>2 DEF IsGrid
<1>4. \A d \in VacantCells : Linear(grid, d) \in 0 .. n - 1
  BY <1>2, <1>3, CellNumbered
<1>5. \A d \in VacantCells : Linear(grid, d) < n /\ ~ (Linear(grid, d) >= n)
  BY <1>4
<1>6. PICK S : S = NearestVacant(from, metric)
  OBVIOUS
<1>7. Best(from, metric, n, S)
  BY <1>1, <1>3, <1>6
<1>8. (S = {} <=> VacantCells = {}) /\ \A v \in S : v \in VacantCells /\ \A d \in VacantCells \ {v} : Beats(from, metric, v, d)
  BY <1>5, <1>7 DEF Best
<1> QED BY <1>6, <1>8

(***************************************************************************)
(* The index.  Both directions are kept by every call: only an agent that  *)
(* was placed a second time is left behind in a cell.                      *)
(***************************************************************************)
Seated(g, cs, ps, twice) ==
  /\ cs \in [CellsOf(g) -> Agents \cup {Vacant}]
  /\ DOMAIN ps \subseteq Agents /\ ps \in [DOMAIN ps -> CellsOf(g)]
  /\ \A a \in DOMAIN ps : cs[ps[a]] = a
  /\ \A c \in CellsOf(g) : cs[c] # Vacant => cs[c] \in DOMAIN ps /\ (cs[c] \notin twice => ps[cs[c]] = c)
LatticeInv == grid \in Grids /\ Seated(grid, cells, positions, moves.twice)

SitsDown(g, cs, ps, twice, a, c, ds, qs, more) ==
  /\ a \in Agents /\ c \in CellsOf(g) /\ cs[c] = Vacant
  /\ ds = [cs EXCEPT ![c] = a]
  /\ qs = [b \in DOMAIN ps \cup {a} |-> IF b = a THEN c ELSE ps[b]]
  /\ twice \subseteq more /\ (a \in DOMAIN ps => a \in more)
LEMMA Placed ==
  ASSUME NEW g, NEW cs, NEW ps, NEW twice, Seated(g, cs, ps, twice),
         NEW a, NEW c, NEW ds, NEW qs, NEW more, SitsDown(g, cs, ps, twice, a, c, ds, qs, more)
  PROVE  Seated(g, ds, qs, more)
<1> a \in Agents /\ c \in CellsOf(g) /\ cs[c] = Vacant
  BY DEF SitsDown
<1> /\ ds = [cs EXCEPT ![c] = a]
    /\ qs = [b \in DOMAIN ps \cup {a} |-> IF b = a THEN c ELSE ps[b]]
    /\ twice \subseteq more /\ (a \in DOMAIN ps => a \in more)
  BY DEF SitsDown
<1>1. /\ cs \in [CellsOf(g) -> Agents \cup {Vacant}]
      /\ DOMAIN ps \subseteq Agents /\ ps \in [DOMAIN ps -> CellsOf(g)]
      /\ \A b \in DOMAIN ps : cs[ps[b]] = b
      /\ \A e \in CellsOf(g) : cs[e] # Vacant => cs[e] \in DOMAIN ps /\ (cs[e] \notin twice => ps[cs[e]] = e)
  BY DEF Seated
<1>2. Vacant \notin Agents
  BY LatticeAssumption DEF Vacant
<1>3. ds \in [CellsOf(g) -> Agents \cup {Vacant}] /\ ds[c] = a /\ \A e \in CellsOf(g) \ {c} : ds[e] = cs[e]
  BY <1>1
<1>4. DOMAIN qs = DOMAIN ps \cup {a} /\ qs[a] = c /\ \A b \in DOMAIN ps \ {a} : qs[b] = ps[b]
  OBVIOUS
<1>5. DOMAIN qs \subseteq Agents /\ qs \in [DOMAIN qs -> CellsOf(g)]
  BY <1>1
<1>6. ASSUME NEW b \in DOMAIN qs PROVE ds[qs[b]] = b
  <2>1. CASE b = a
    BY <1>3, <1>4, <2>1
  <2>2. CASE b # a
    <3>1. b \in DOMAIN ps /\ qs[b] = ps[b] /\ cs[ps[b]] = b /\ ps[b] \in CellsOf(g) /\ b # Vacant
      BY <1>1, <1>2, <1>4, <2>2
    <3>2. ps[b] # c
      BY <3>1
    <3> QED BY <1>3, <3>1, <3>2
  <2> QED BY <2>1, <2>2
<1>7. ASSUME NEW e \in CellsOf(g), ds[e] # Vacant PROVE ds[e] \in DOMAIN qs /\ (ds[e] \notin more => qs[ds[e]] = e)
  <2>1. CASE e = c
    BY <1>3, <1>4, <2>1
  <2>2. CASE e # c
    <3>1. PICK x : x = cs[e]
      OBVIOUS
    <3>2. ds[e] = x /\ x # Vacant
      BY <1>3, <1>7, <2>2, <3>1
    <3>3. x \in DOMAIN ps /\ (x \notin twice => ps[x] = e)
      BY <1>1, <3>1, <3>2
    <3>4. x = a => x \in more
      BY <3>3
    <3>5. x # a => qs[x] = ps[x]
      BY <1>4, <3>3
    <3> QED BY <1>4, <3>2, <3>3, <3>4, <3>5
  <2> QED BY <2>1, <2>2
<1> QED BY <1>3, <1>5, <1>6, <1>7 DEF Seated

LEMMA Moved1 ==
  ASSUME NEW g, NEW cs, NEW ps, NEW twice, Seated(g, cs, ps, twice),
         NEW a \in DOMAIN ps, NEW c \in CellsOf(g), cs[c] = Vacant,
         NEW qs, qs = [b \in DOMAIN ps \cup {a} |-> IF b = a THEN c ELSE ps[b]],
         NEW ds, ds = [cs EXCEPT ![ps[a]] = Vacant, ![c] = a]
  PROVE  Seated(g, ds, qs, twice)
<1>1. /\ cs \in [CellsOf(g) -> Agents \cup {Vacant}]
      /\ DOMAIN ps \subseteq Agents /\ ps \in [DOMAIN ps -> CellsOf(g)]
      /\ \A b \in DOMAIN ps : cs[ps[b]] = b
      /\ \A e \in CellsOf(g) : cs[e] # Vacant => cs[e] \in DOMAIN ps /\ (cs[e] \notin twice => ps[cs[e]] = e)
  BY DEF Seated
<1>2. Vacant \notin Agents
  BY LatticeAssumption DEF Vacant
<1>3. PICK o \in CellsOf(g) : o = ps[a]
  BY <1>1
<1>4. a \in Agents /\ cs[o] = a /\ o # c
  BY <1>1, <1>2, <1>3
<1>5. /\ ds \in [CellsOf(g) -> Agents \cup {Vacant}] /\ ds[c] = a /\ ds[o] = Vacant
      /\ \A e \in CellsOf(g) \ {c, o} : ds[e] = cs[e]
  BY <1>1, <1>3, <1>4
<1>6. DOMAIN qs = DOMAIN ps /\ qs[a] = c /\ \A b \in DOMAIN ps \ {a} : qs[b] = ps[b]
  OBVIOUS
<1>7. DOMAIN qs \subseteq Agents /\ qs \in [DOMAIN qs -> CellsOf(g)]
  BY <1>1, <1>6
<1>8. ASSUME NEW b \in DOMAIN qs PROVE ds[qs[b]] = b
  <2>1. CASE b = a
    BY <1>5, <1>6, <2>1
  <2>2. CASE b # a
    <3>1. b \in DOMAIN ps /\ qs[b] = ps[b] /\ cs[ps[b]] = b /\ ps[b] \in CellsOf(g) /\ b # Vacant
      BY <1>1, <1>2, <1>6, <2>2
    <3>2. ps[b] # c /\ ps[b] # o
      BY <1>4, <2>2, <3>1
    <3> QED BY <1>5, <3>1, <3>2
  <2> QED BY <2>1, <2>2
<1>9. ASSUME NEW e \in CellsOf(g), ds[e] # Vacant PROVE ds[e] \in DOMAIN qs /\ (ds[e] \notin twice => qs[ds[e]] = e)
  <2>1. CASE e = c
    BY <1>5, <1>6, <2>1
  <2>2. CASE e # c
    <3>1. e # o
      BY <1>5, <1>9
    <3>2. PICK x : x = cs[e]
      OBVIOUS
    <3>3. ds[e] = x /\ x # Vacant
      BY <1>5, <1>9, <2>2, <3>1, <3>2
    <3>4. x \in DOMAIN ps /\ (x \notin twice => ps[x] = e)
      BY <1>1, <3>2, <3>3
    <3>5. x = a => x \in twice
      BY <1>3, <3>1, <3>4
    <3>6. x # a => qs[x] = ps[x]
      BY <1>6, <3>4
    <3> QED BY <1>6, <3>3, <3>4, <3>5, <3>6
  <2> QED BY <2>1, <2>2
<1> QED BY <1>5, <1>7, <1>8, <1>9 DEF Seated

LEMMA PlaceKeeps ==
  ASSUME LatticeInv, NEW a \in Agents, NEW c, Place(a, c)
  PROVE  LatticeInv'
<1>1. grid \in Grids /\ Seated(grid, cells, positions, moves.twice) /\ grid' = grid
  BY DEF LatticeInv, Place, Called
<1>2. moves'.twice = moves.twice \cup
        IF c \in CellsOf(grid) /\ cells[c] = Vacant /\ a \in DOMAIN positions THEN {a} ELSE {}
  BY DEF Place, Called
<1>3. CASE c \in CellsOf(grid) /\ cells[c] = Vacant
  <2>1. /\ cells' = [cells EXCEPT ![c] = a]
        /\ positions' = [b \in DOMAIN positions \cup {a} |-> IF b = a THEN c ELSE positions[b]]
    BY <1>3 DEF Place, Sit
  <2>2. moves.twice \subseteq moves'.twice /\ (a \in DOMAIN positions => a \in moves'.twice)
    BY <1>2, <1>3
  <2>3. SitsDown(grid, cells, positions, moves.twice, a, c, cells', positions', moves'.twice)
    BY <1>3, <2>1, <2>2 DEF SitsDown
  <2>4. Seated(grid, cells', positions', moves'.twice)
    BY <1>1, <2>3, Placed
  <2> QED BY <1>1, <2>4 DEF LatticeInv
<1>4. CASE ~ (c \in CellsOf(grid) /\ cells[c] = Vacant)
  <2>1. cells' = cells /\ positions' = positions
    BY <1>4 DEF Place
  <2>2. moves'.twice = moves.twice
    BY <1>2, <1>4
  <2> QED BY <1>1, <2>1, <2>2 DEF LatticeInv
<1> QED BY <1>3, <1>4

LEMMA MoveKeeps ==
  ASSUME LatticeInv, NEW a, NEW c, MoveTo(a, c)
  PROVE  LatticeInv'
<1>1. grid \in Grids /\ Seated(grid, cells, positions, moves.twice) /\ grid' = grid
  BY DEF LatticeInv, MoveTo, Called
<1>2. moves'.twice = moves.twice
  BY DEF MoveTo, Called
<1>3. CASE a \in DOMAIN positions /\ c \in CellsOf(grid) /\ cells[c] = Vacant
  <2>1. /\ cells' = [cells EXCEPT ![positions[a]] = Vacant, ![c] = a]
        /\ positions' = [b \in DOMAIN positions \cup {a} |-> IF b = a THEN c ELSE positions[b]]
    BY <1>3 DEF MoveTo, Sit
  <2>2. Seated(grid, cells', positions', moves.twice)
    BY <1>1, <1>3, <2>1, Moved1
  <2> QED BY <1>1, <1>2, <2>2 DEF LatticeInv
<1>4. CASE ~ (a \in DOMAIN positions /\ c \in CellsOf(grid) /\ cells[c] = Vacant)
  <2>1. cells' = cells /\ positions' = positions
    BY <1>4 DEF MoveTo
  <2> QED BY <1>1, <1>2, <2>1 DEF LatticeInv
<1> QED BY <1>3, <1>4

LEMMA LatticeKeeps == LatticeInv /\ [LatticeNext]_lvars => LatticeInv'
<1> SUFFICES ASSUME LatticeInv, [LatticeNext]_lvars PROVE LatticeInv'
  OBVIOUS
<1>1. CASE UNCHANGED lvars
  BY <1>1 DEF lvars, LatticeInv
<1>2. ASSUME NEW a \in Agents, NEW c, Place(a, c) PROVE LatticeInv'
  BY <1>2, PlaceKeeps
<1>3. ASSUME NEW a \in Agents, NEW c, MoveTo(a, c) PROVE LatticeInv'
  BY <1>3, MoveKeeps
<1>4. ASSUME NEW a \in Agents, NEW metric \in Metrics, Relocate(a, metric) PROVE LatticeInv'
  <2>1. PICK c : MoveTo(a, c)
    BY <1>4 DEF Relocate
  <2> QED BY <2>1, <1>3
<1> QED BY <1>1, <1>2, <1>3, <1>4 DEF LatticeNext

(* Whom an agent sees from a cell. *)
LEMMA SeesNeighbors ==
  ASSUME LatticeInv, NEW c \in CellsOf(grid), NEW nbhd \in Neighborhoods
  PROVE  OccupantNeighbors(c, nbhd) \ moves.twice
           = {a \in DOMAIN positions : positions[a] \in Around(grid, c, nbhd, 1)} \ moves.twice
<1>1. /\ DOMAIN positions \subseteq Agents
      /\ \A a \in DOMAIN positions : cells[positions[a]] = a
      /\ \A d \in CellsOf(grid) : cells[d] # Vacant =>
           cells[d] \in DOMAIN positions /\ (cells[d] \notin moves.twice => positions[cells[d]] = d)
  BY DEF LatticeInv, Seated
<1>2. IsGrid(grid)
  BY LatticeAssumption DEF LatticeInv, IsGrid
<1>3. NeighborsRadius(grid, c, nbhd, 1) = Around(grid, c, nbhd, 1)
  BY <1>2, NeighborsAreBall
<1>4. Vacant \notin Agents
  BY LatticeAssumption DEF Vacant
<1>5. Around(grid, c, nbhd, 1) \subseteq CellsOf(grid)
  BY DEF Around
<1>6. \A d \in CellsOf(grid) : Occupant(d) = cells[d]
  BY DEF Occupant
<1>7. ASSUME NEW x, x \in OccupantNeighbors(c, nbhd), x \notin moves.twice
      PROVE  x \in DOMAIN positions /\ positions[x] \in Around(grid, c, nbhd, 1)
  <2>1. PICK d \in Around(grid, c, nbhd, 1) : x = Occupant(d) /\ x # Vacant
    BY <1>3, <1>7, Zenon DEF OccupantNeighbors
  <2> QED BY <1>1, <1>5, <1>6, <1>7, <2>1
<1>8. ASSUME NEW a \in DOMAIN positions, positions[a] \in Around(grid, c, nbhd, 1)
      PROVE  a \in OccupantNeighbors(c, nbhd)
  <2>1. Occupant(positions[a]) = a /\ a # Vacant
    BY <1>1, <1>4, <1>5, <1>6, <1>8
  <2>2. a \in {Occupant(d) : d \in NeighborsRadius(grid, c, nbhd, 1)}
    BY <1>3, <1>8, <2>1, Zenon
  <2> QED BY <2>1, <2>2, Zenon DEF OccupantNeighbors
<1> QED BY <1>7, <1>8

LEMMA IndexAgrees == LatticeInv => OccupancyAgrees
<1> SUFFICES ASSUME LatticeInv PROVE OccupancyAgrees
  OBVIOUS
<1>1. /\ DOMAIN cells = CellsOf(grid)
      /\ \A a \in DOMAIN positions : cells[positions[a]] = a
      /\ \A d \in CellsOf(grid) : cells[d] # Vacant =>
           cells[d] \in DOMAIN positions /\ (cells[d] \notin moves.twice => positions[cells[d]] = d)
  BY DEF LatticeInv, Seated
<1>2. IsGrid(grid) /\ Radii \subseteq Nat
  BY LatticeAssumption DEF LatticeInv, IsGrid
<1>3. Located
  BY <1>1, <1>2 DEF Located, VacantCells
<1> DEFINE ball(c, nbhd, radius) ==
             {d \in CellsOf(grid) : Distance(grid, IF nbhd = "moore" THEN "chebyshev" ELSE "manhattan", c, d) \in 1 .. radius}
<1>4. \A c, nbhd, radius : ball(c, nbhd, radius) = Around(grid, c, nbhd, radius)
  BY Zenon DEF Around, Metric
<1>5. ASSUME NEW nbhd \in Neighborhoods, NEW radius \in Radii, NEW c \in CellsOf(grid)
      PROVE  /\ NeighborsRadius(grid, c, nbhd, radius) = ball(c, nbhd, radius)
             /\ Adjacency(grid, nbhd, radius)[Linear(grid, c)] = {Linear(grid, d) : d \in ball(c, nbhd, radius)}
  <2>1. radius \in Nat
    BY <1>2
  <2>2. NeighborsRadius(grid, c, nbhd, radius) = Around(grid, c, nbhd, radius)
    BY <1>2, <2>1, NeighborsAreBall
  <2>3. Adjacency(grid, nbhd, radius)[Linear(grid, c)] = {Linear(grid, d) : d \in Around(grid, c, nbhd, radius)}
    BY <1>2, <2>1, TableRow
  <2> HIDE DEF ball
  <2> QED BY <1>4, <2>2, <2>3, Zenon
<1>6. ASSUME NEW nbhd \in Neighborhoods, NEW c \in CellsOf(grid)
      PROVE  OccupantNeighbors(c, nbhd) \ moves.twice
               = {a \in DOMAIN positions : positions[a] \in ball(c, nbhd, 1)} \ moves.twice
  <2>1. ball(c, nbhd, 1) = Around(grid, c, nbhd, 1)
    BY Zenon DEF Around, Metric
  <2>2. OccupantNeighbors(c, nbhd) \ moves.twice
          = {a \in DOMAIN positions : positions[a] \in Around(grid, c, nbhd, 1)} \ moves.twice
    BY SeesNeighbors
  <2> HIDE DEF ball
  <2> QED BY <2>1, <2>2, Zenon
<1>7. ASSUME NEW metric \in Metrics, NEW c \in CellsOf(grid)
      PROVE  /\ NearestVacant(c, metric) = {} <=> VacantCells = {}
             /\ \A v \in NearestVacant(c, metric) : \A d \in VacantCells \ {v} :
                  \/ Distance(grid, metric, c, v) < Distance(grid, metric, c, d)
                  \/ Distance(grid, metric, c, v) = Distance(grid, metric, c, d) /\ Linear(grid, v) < Linear(grid, d)
  <2>1. /\ NearestVacant(c, metric) = {} <=> VacantCells = {}
        /\ \A v \in NearestVacant(c, metric) : v \in VacantCells /\ \A d \in VacantCells \ {v} : Beats(c, metric, v, d)
    BY <1>3, NearestIsFirst
  <2> QED BY <2>1, Zenon DEF Beats
<1>8. \A c \in DOMAIN cells : cells[c] # Vacant /\ cells[c] \notin moves.twice => positions[cells[c]] = c
  BY <1>1
<1> QED BY <1>1, <1>5, <1>6, <1>7, <1>8, Zenon DEF OccupancyAgrees

(* OccupancyAgrees: for any grid, agents and radii, through any calls of place and move_to. *)
THEOREM LatticeOccupancyAgrees == LatticeSpec => []OccupancyAgrees
<1>1. LatticeInit => LatticeInv
  <2> SUFFICES ASSUME LatticeInit PROVE LatticeInv
    OBVIOUS
  <2>1. /\ grid \in Grids /\ cells = [c \in CellsOf(grid) |-> Vacant] /\ positions = << >>
        /\ DOMAIN positions = {}
    BY DEF LatticeInit
  <2> QED BY <2>1 DEF LatticeInv, Seated
<1> QED BY <1>1, LatticeKeeps, IndexAgrees, PTL DEF LatticeSpec

-----------------------------------------------------------------------------
(***************************************************************************)
(* Who is employed, who has left, and which list each of them is on.       *)
(***************************************************************************)
Posts   == 0 .. Teams - 1
Staffer == [team : Posts, tenure : Nat, toxic : BOOLEAN, quitNear : Nat, socialized : BOOLEAN]
Leaver  == [id : Nat, team : Posts, tenure : Nat]

(* A firm: its employees have numbers already given out, its ties are between them. *)
IsFirm(f) ==
  /\ f = [staff |-> f.staff, ties |-> f.ties, next |-> f.next, newHires |-> f.newHires, departed |-> f.departed,
          headcount |-> f.headcount, charged |-> f.charged, charges |-> f.charges]
  /\ f.next \in Nat /\ f.headcount \in Nat /\ f.charges \in Nat
  /\ DOMAIN f.staff \subseteq 0 .. f.next - 1 /\ f.staff \in [DOMAIN f.staff -> Staffer]
  /\ f.newHires \in Seq(Nat) /\ f.departed \in Seq(Leaver)
Tied(f) == \A t \in f.ties : t \subseteq DOMAIN f.staff /\ Cardinality(t) \in {1, 2}

(* Everybody numbered is employed or has left. *)
Rolled(f, b) ==
  /\ DOMAIN f.staff \cap DOMAIN b.left = {} /\ DOMAIN f.staff \cup DOMAIN b.left = 0 .. f.next - 1
  /\ b.quits \subseteq DOMAIN b.left
  /\ \A id \in DOMAIN b.left : b.left[id].team \in Posts /\ b.left[id].near \subseteq 0 .. f.next - 1

Feels(f, b) ==
  \A id \in DOMAIN f.staff : f.staff[id].quitNear = Cardinality({q \in b.quits : id \in b.left[q].near})

(* A list of leavers, each once and with its team, and what was taken from the teams. *)
Lists(list, left, S) ==
  /\ \A i \in DOMAIN list : list[i].id \in S /\ list[i].team = left[list[i].id].team
  /\ \A id \in S : \E i \in DOMAIN list : list[i].id = id
  /\ Len(list) = Cardinality(S)
Charged(f, left, S) ==
  /\ f.charges = Cardinality(S)
  /\ f.charged = {[id |-> id, team |-> left[id].team] : id \in S}

(* Mechanisms of the wiring, those that have run in this month, or in the whole of it. *)
WiredIn(w, name) == \E i \in DOMAIN w : w[i] = name
Passed(w, at, name) == \E i \in DOMAIN w : w[i] = name /\ (at = 0 \/ i < at)
Refills(w) == \E i, j \in DOMAIN w : i < j /\ w[i] = "turnover" /\ w[j] = "hiring"
RefillsAlone(w) == WiredIn(w, "hiring") /\ ~WiredIn(w, "turnover")

(* Who left and has not been charged yet. *)
Pending(w, at, b) ==
  IF ~WiredIn(w, "knowledge_loss") THEN DOMAIN b.left
  ELSE IF Passed(w, at, "knowledge_loss") THEN {} ELSE b.quits

Unsettled(w, at, f, b) ==
  /\ ~Passed(w, at, "turnover") => b.quits = {}
  /\ Passed(w, at, "turnover") => Feels(f, b)
Accounted(w, at, f, b) ==
  /\ Lists(f.departed, b.left, Pending(w, at, b))
  /\ WiredIn(w, "knowledge_loss") => Charged(f, b.left, DOMAIN b.left \ Pending(w, at, b))
  /\ Cardinality(b.quits) <= f.headcount
Announced(w, at, b) ==
  b.reported # -1 =>
    /\ Passed(w, at, "org_performance")
    /\ b.reported = IF WiredIn(w, "knowledge_loss") THEN Cardinality(b.quits) ELSE Cardinality(DOMAIN b.left)

Small(f) == \A team \in Posts : Cardinality(Members(f.staff, team)) <= TeamSize
AllStaffed(f)  == \A team \in Posts : Cardinality(Members(f.staff, team)) = TeamSize
Refilled(w, at, f) == Passed(w, at, "hiring") /\ (Refills(w) \/ RefillsAlone(w)) => AllStaffed(f)
Welcomed(w, at, f, b) ==
  /\ Passed(w, at, "socialization") => f.newHires = <<>>
  /\ \A id \in b.hired \cap DOMAIN f.staff : f.staff[id].socialized \/ \E i \in DOMAIN f.newHires : f.newHires[i] = id

MonthOK == /\ month = [wiring |-> month.wiring, at |-> month.at, order |-> month.order, count |-> month.count]
           /\ month.wiring \in Wirings /\ month.at \in 0 .. Len(month.wiring) /\ month.count \in Nat
BooksOK == books = [quits |-> books.quits, left |-> books.left, hired |-> books.hired, reported |-> books.reported]
HrInv ==
  /\ MonthOK /\ BooksOK /\ IsFirm(firm) /\ Tied(firm) /\ Rolled(firm, books)
  /\ Unsettled(month.wiring, month.at, firm, books)
  /\ Accounted(month.wiring, month.at, firm, books)
  /\ Announced(month.wiring, month.at, books)
  /\ Small(firm) /\ (month.count > 0 => Refilled(month.wiring, month.at, firm))
  /\ Welcomed(month.wiring, month.at, firm, books)

(* One leaves: those tied to it feel it, its ties go, the list grows. *)
Without(f, id, g) ==
  /\ IsFirm(g)
  /\ DOMAIN g.staff = DOMAIN f.staff \ {id}
  /\ \A b \in DOMAIN g.staff :
       /\ g.staff[b].team = f.staff[b].team /\ g.staff[b].socialized = f.staff[b].socialized
       /\ g.staff[b].quitNear = f.staff[b].quitNear + (IF {id, b} \in f.ties THEN 1 ELSE 0)
  /\ g.ties = {t \in f.ties : id \notin t}
  /\ Len(g.departed) = Len(f.departed) + 1
  /\ \A i \in 1 .. Len(f.departed) : g.departed[i] = f.departed[i]
  /\ g.departed[Len(f.departed) + 1].id = id /\ g.departed[Len(f.departed) + 1].team = f.staff[id].team
Aside(f, g) ==
  /\ g.next = f.next /\ g.newHires = f.newHires /\ g.headcount = f.headcount
  /\ g.charged = f.charged /\ g.charges = f.charges

LEMMA LeaveIs ==
  ASSUME NEW f, IsFirm(f), NEW id \in DOMAIN f.staff
  PROVE  Without(f, id, Leave(f, id)) /\ Aside(f, Leave(f, id))
<1> DEFINE shaken == [b \in DOMAIN f.staff |->
               IF {id, b} \in f.ties THEN [f.staff[b] EXCEPT !.quitNear = f.staff[b].quitNear + 1] ELSE f.staff[b]]
           staff == [b \in DOMAIN f.staff \ {id} |-> shaken[b]]
           ties == {t \in f.ties : id \notin t}
           rec == [id |-> id, team |-> f.staff[id].team, tenure |-> f.staff[id].tenure]
           dep == Append(f.departed, rec)
           g == Leave(f, id)
<1>1. f = [staff |-> f.staff, ties |-> f.ties, next |-> f.next, newHires |-> f.newHires, departed |-> f.departed,
           headcount |-> f.headcount, charged |-> f.charged, charges |-> f.charges]
  BY DEF IsFirm
<1>2. g = [f EXCEPT !.staff = staff, !.ties = ties, !.departed = dep]
  BY DEF Leave, Restrict
<1>3. g = [staff |-> staff, ties |-> ties, next |-> f.next, newHires |-> f.newHires, departed |-> dep,
           headcount |-> f.headcount, charged |-> f.charged, charges |-> f.charges]
  <2> HIDE DEF staff, ties, dep, g
  <2> QED BY <1>1, <1>2
<1>4. f.staff \in [DOMAIN f.staff -> Staffer] /\ f.departed \in Seq(Leaver) /\ DOMAIN f.staff \subseteq 0 .. f.next - 1 /\ f.next \in Nat
  BY DEF IsFirm
<1>5. rec \in Leaver
  <2>1. f.staff[id] \in Staffer /\ id \in Nat
    BY <1>4
  <2> QED BY <2>1 DEF Leaver, Staffer
<1>6. dep \in Seq(Leaver) /\ Len(dep) = Len(f.departed) + 1 /\ dep[Len(f.departed) + 1] = rec
      /\ \A i \in 1 .. Len(f.departed) : dep[i] = f.departed[i]
  <2> HIDE DEF rec
  <2> QED BY <1>4, <1>5
<1>7. ASSUME NEW b \in DOMAIN f.staff
      PROVE  /\ shaken[b] \in Staffer
             /\ shaken[b].team = f.staff[b].team /\ shaken[b].socialized = f.staff[b].socialized
             /\ shaken[b].quitNear = f.staff[b].quitNear + (IF {id, b} \in f.ties THEN 1 ELSE 0)
  <2>1. PICK e \in Staffer : e = f.staff[b]
    BY <1>4
  <2>2. [e EXCEPT !.quitNear = e.quitNear + 1] \in Staffer /\ [e EXCEPT !.quitNear = e.quitNear + 1].team = e.team
        /\ [e EXCEPT !.quitNear = e.quitNear + 1].socialized = e.socialized
        /\ [e EXCEPT !.quitNear = e.quitNear + 1].quitNear = e.quitNear + 1
        /\ e.quitNear \in Nat
    BY DEF Staffer
  <2>3. shaken[b] = IF {id, b} \in f.ties THEN [e EXCEPT !.quitNear = e.quitNear + 1] ELSE e
    BY <2>1
  <2> QED BY <2>1, <2>2, <2>3
<1>8. /\ DOMAIN staff = DOMAIN f.staff \ {id} /\ staff \in [DOMAIN staff -> Staffer]
      /\ \A b \in DOMAIN staff : staff[b] = shaken[b]
  <2> HIDE DEF shaken
  <2> QED BY <1>7
<1>9. g.staff = staff /\ g.ties = ties /\ g.next = f.next /\ g.newHires = f.newHires /\ g.departed = dep
      /\ g.headcount = f.headcount /\ g.charged = f.charged /\ g.charges = f.charges
  <2> HIDE DEF g, staff, ties, dep
  <2> QED BY <1>3
<1>10. rec.id = id /\ rec.team = f.staff[id].team
  OBVIOUS
<1>11. ties = {t \in f.ties : id \notin t}
  OBVIOUS
<1> HIDE DEF g, staff, ties, dep, rec, shaken
<1>12. IsFirm(g)
  <2>1. g = [staff |-> g.staff, ties |-> g.ties, next |-> g.next, newHires |-> g.newHires, departed |-> g.departed,
             headcount |-> g.headcount, charged |-> g.charged, charges |-> g.charges]
    BY <1>3, <1>9
  <2>2. DOMAIN g.staff \subseteq 0 .. g.next - 1 /\ g.staff \in [DOMAIN g.staff -> Staffer]
    BY <1>4, <1>8, <1>9
  <2> QED BY <1>6, <1>9, <2>1, <2>2 DEF IsFirm
<1>13. \A b \in DOMAIN g.staff :
         /\ g.staff[b].team = f.staff[b].team /\ g.staff[b].socialized = f.staff[b].socialized
         /\ g.staff[b].quitNear = f.staff[b].quitNear + (IF {id, b} \in f.ties THEN 1 ELSE 0)
  BY <1>7, <1>8, <1>9
<1>14. Without(f, id, g)
  BY <1>6, <1>8, <1>9, <1>10, <1>11, <1>12, <1>13 DEF Without
<1>15. Aside(f, g)
  BY <1>9 DEF Aside
<1> QED BY <1>14, <1>15 DEF g

(* The first k of a list are gone. *)
Leading(s, k) == {s[i] : i \in 1 .. k}
TiedAmong(f, b, S) == {q \in S : {q, b} \in f.ties}
GoneAt(f, s, k, g) ==
  /\ IsFirm(g)
  /\ DOMAIN g.staff = DOMAIN f.staff \ Leading(s, k)
  /\ \A b \in DOMAIN g.staff :
       /\ g.staff[b].team = f.staff[b].team /\ g.staff[b].socialized = f.staff[b].socialized
       /\ g.staff[b].quitNear = f.staff[b].quitNear + Cardinality(TiedAmong(f, b, Leading(s, k)))
  /\ g.ties = {t \in f.ties : t \cap Leading(s, k) = {}}
  /\ Len(g.departed) = Len(f.departed) + k
  /\ \A i \in 1 .. Len(f.departed) : g.departed[i] = f.departed[i]
  /\ \A i \in 1 .. k : g.departed[Len(f.departed) + i].id = s[i] /\ g.departed[Len(f.departed) + i].team = f.staff[s[i]].team
  /\ IsFiniteSet(Leading(s, k)) /\ Cardinality(Leading(s, k)) = k
StaffList(s, n, S) == n \in Nat /\ s \in [1 .. n -> S] /\ \A i, j \in 1 .. n : s[i] = s[j] => i = j

LEMMA GoneNone ==
  ASSUME NEW f, IsFirm(f), NEW s
  PROVE  GoneAt(f, s, 0, f)
<1>1. Leading(s, 0) = {}
  BY DEF Leading
<1>2. \A b : TiedAmong(f, b, Leading(s, 0)) = {}
  BY <1>1 DEF TiedAmong
<1>3. \A b \in DOMAIN f.staff : f.staff[b].quitNear \in Nat
  BY DEF IsFirm, Staffer
<1>4. Len(f.departed) \in Nat
  BY DEF IsFirm
<1>5. \A b \in DOMAIN f.staff : f.staff[b].quitNear = f.staff[b].quitNear + Cardinality(TiedAmong(f, b, Leading(s, 0)))
  BY <1>2, <1>3, FS_EmptySet
<1>6. f.ties = {t \in f.ties : t \cap Leading(s, 0) = {}}
  BY <1>1
<1>7. IsFiniteSet(Leading(s, 0)) /\ Cardinality(Leading(s, 0)) = 0
  BY <1>1, FS_EmptySet
<1>8. DOMAIN f.staff = DOMAIN f.staff \ Leading(s, 0)
  BY <1>1
<1>9. Len(f.departed) = Len(f.departed) + 0
  BY <1>4
<1> QED BY <1>5, <1>6, <1>7, <1>8, <1>9 DEF GoneAt

LEMMA GoneOne ==
  ASSUME NEW f, IsFirm(f), NEW n, NEW s, StaffList(s, n, DOMAIN f.staff), NEW k \in 0 .. n - 1,
         NEW h, GoneAt(f, s, k, h), NEW g, Without(h, s[k + 1], g)
  PROVE  GoneAt(f, s, k + 1, g)
<1> DEFINE id == s[k + 1]
           P == Leading(s, k)
           Q == Leading(s, k + 1)
<1>1. n \in Nat /\ s \in [1 .. n -> DOMAIN f.staff] /\ k + 1 \in 1 .. n /\ id \in DOMAIN f.staff
      /\ \A i, j \in 1 .. n : s[i] = s[j] => i = j
  BY DEF StaffList
<1>2. Q = P \cup {id}
  <2>1. 1 .. k + 1 = 1 .. k \cup {k + 1}
    BY <1>1
  <2> QED BY <2>1 DEF Leading
<1>3. id \notin P
  <2>1. ASSUME NEW i \in 1 .. k PROVE s[i] # s[k + 1]
    <3>1. i \in 1 .. n /\ i # k + 1
      BY <1>1
    <3> QED BY <1>1, <3>1
  <2> QED BY <2>1 DEF Leading
<1>4. /\ IsFirm(h) /\ DOMAIN h.staff = DOMAIN f.staff \ P
      /\ \A b \in DOMAIN h.staff :
           /\ h.staff[b].team = f.staff[b].team /\ h.staff[b].socialized = f.staff[b].socialized
           /\ h.staff[b].quitNear = f.staff[b].quitNear + Cardinality(TiedAmong(f, b, P))
      /\ h.ties = {t \in f.ties : t \cap P = {}}
      /\ IsFiniteSet(P) /\ Cardinality(P) = k
  BY DEF GoneAt
<1>5. /\ Len(h.departed) = Len(f.departed) + k
      /\ \A i \in 1 .. Len(f.departed) : h.departed[i] = f.departed[i]
      /\ \A i \in 1 .. k : h.departed[Len(f.departed) + i].id = s[i] /\ h.departed[Len(f.departed) + i].team = f.staff[s[i]].team
  BY DEF GoneAt
<1>6. /\ IsFirm(g) /\ DOMAIN g.staff = DOMAIN h.staff \ {id}
      /\ \A b \in DOMAIN g.staff :
           /\ g.staff[b].team = h.staff[b].team /\ g.staff[b].socialized = h.staff[b].socialized
           /\ g.staff[b].quitNear = h.staff[b].quitNear + (IF {id, b} \in h.ties THEN 1 ELSE 0)
      /\ g.ties = {t \in h.ties : id \notin t}
  BY DEF Without
<1>7. /\ Len(g.departed) = Len(h.departed) + 1
      /\ \A i \in 1 .. Len(h.departed) : g.departed[i] = h.departed[i]
      /\ g.departed[Len(h.departed) + 1].id = id /\ g.departed[Len(h.departed) + 1].team = h.staff[id].team
  BY DEF Without
<1>8. id \in DOMAIN h.staff /\ h.staff[id].team = f.staff[id].team
  BY <1>1, <1>3, <1>4
<1>9. Len(f.departed) \in Nat /\ \A b \in DOMAIN f.staff : f.staff[b].quitNear \in Nat
  BY DEF IsFirm, Staffer
<1> HIDE DEF P, Q
<1>10. IsFiniteSet(Q) /\ Cardinality(Q) = k + 1
  BY <1>2, <1>3, <1>4, FS_AddElement
<1>11. DOMAIN g.staff = DOMAIN f.staff \ Q
  BY <1>2, <1>4, <1>6
<1>12. g.ties = {t \in f.ties : t \cap Q = {}}
  BY <1>2, <1>4, <1>6
<1>13. ASSUME NEW b \in DOMAIN g.staff
       PROVE  /\ g.staff[b].team = f.staff[b].team /\ g.staff[b].socialized = f.staff[b].socialized
              /\ g.staff[b].quitNear = f.staff[b].quitNear + Cardinality(TiedAmong(f, b, Q))
  <2>1. b \in DOMAIN h.staff /\ b \in DOMAIN f.staff /\ b \notin P /\ b # id
    BY <1>2, <1>4, <1>6, <1>11
  <2>2. g.staff[b].team = f.staff[b].team /\ g.staff[b].socialized = f.staff[b].socialized
    BY <1>4, <1>6, <2>1
  <2>3. {id, b} \in h.ties <=> {id, b} \in f.ties
    <3>1. {id, b} \cap P = {}
      BY <1>3, <2>1
    <3> QED BY <1>4, <3>1
  <2>4. PICK A : A = TiedAmong(f, b, P)
    OBVIOUS
  <2>5. TiedAmong(f, b, Q) = IF {id, b} \in f.ties THEN A \cup {id} ELSE A
    BY <1>2, <2>4 DEF TiedAmong
  <2>6. A \in SUBSET P /\ id \notin A
    BY <1>3, <2>4 DEF TiedAmong
  <2>7. IsFiniteSet(A)
    BY <1>4, <2>6, FS_Subset
  <2>8. Cardinality(A) \in Nat
    BY <2>7, FS_CardinalityType
  <2>9. Cardinality(A \cup {id}) = Cardinality(A) + 1
    BY <2>6, <2>7, FS_AddElement
  <2>10. Cardinality(TiedAmong(f, b, Q)) = Cardinality(A) + (IF {id, b} \in f.ties THEN 1 ELSE 0)
    BY <2>5, <2>8, <2>9
  <2>11. g.staff[b].quitNear = h.staff[b].quitNear + (IF {id, b} \in f.ties THEN 1 ELSE 0)
    BY <1>6, <2>3
  <2>12. h.staff[b].quitNear = f.staff[b].quitNear + Cardinality(A)
    BY <1>4, <2>1, <2>4
  <2>13. f.staff[b].quitNear \in Nat
    BY <1>9, <2>1
  <2> HIDE DEF id
  <2>14. g.staff[b].quitNear = f.staff[b].quitNear + Cardinality(TiedAmong(f, b, Q))
    BY <2>8, <2>10, <2>11, <2>12, <2>13
  <2> QED BY <2>2, <2>14
<1>17. k \in Nat /\ Len(h.departed) = Len(f.departed) + k /\ Len(g.departed) = Len(h.departed) + 1
  BY <1>1, <1>5, <1>7
<1>14. Len(g.departed) = Len(f.departed) + (k + 1)
  <2>1. PICK d, e, c : d = Len(f.departed) /\ e = Len(h.departed) /\ c = Len(g.departed)
    OBVIOUS
  <2>2. d \in Nat /\ e = d + k /\ c = e + 1
    BY <1>9, <1>17, <2>1
  <2>3. c = d + (k + 1)
    BY <1>17, <2>2
  <2> QED BY <2>1, <2>3
<1>15. \A i \in 1 .. Len(f.departed) : g.departed[i] = f.departed[i]
  BY <1>5, <1>7, <1>9
<1>16. ASSUME NEW i \in 1 .. k + 1
       PROVE  g.departed[Len(f.departed) + i].id = s[i] /\ g.departed[Len(f.departed) + i].team = f.staff[s[i]].team
  <2>1. CASE i = k + 1
    <3>1. Len(f.departed) + i = Len(h.departed) + 1
      <4>1. PICK d, e : d = Len(f.departed) /\ e = Len(h.departed)
        OBVIOUS
      <4>2. d \in Nat /\ e = d + k
        BY <1>9, <1>17, <4>1
      <4>3. d + i = e + 1
        BY <1>17, <2>1, <4>2
      <4> QED BY <4>1, <4>3
    <3> QED BY <1>7, <1>8, <2>1, <3>1
  <2>2. CASE i # k + 1
    <3>1. i \in 1 .. k /\ Len(f.departed) + i \in 1 .. Len(h.departed)
      BY <1>5, <1>9, <2>2
    <3> QED BY <1>5, <1>7, <3>1
  <2> QED BY <2>1, <2>2
<1> QED BY <1>6, <1>10, <1>11, <1>12, <1>13, <1>14, <1>15, <1>16 DEF GoneAt, Q

LEMMA GoneRuns ==
  ASSUME NEW f, NEW s, NEW N \in Nat, Len(s) = N
  PROVE  \E run : run[0] = f /\ (\A n \in 1 .. N : run[n] = Leave(run[n - 1], s[n])) /\ Gone(f, s) = run[N]
<1> DEFINE Runs(g, m) == g = [n \in 0 .. m |-> IF n = 0 THEN f ELSE Leave(g[n - 1], s[n])]
           T == {m \in Nat : \E g : Runs(g, m)}
           run == CHOOSE g : Runs(g, N)
<1>1. 0 \in T
  <2>1. Runs([n \in 0 .. 0 |-> f], 0)
    OBVIOUS
  <2> QED BY <2>1
<1>2. ASSUME NEW m \in Nat, m \in T PROVE m + 1 \in T
  <2>1. PICK g : Runs(g, m)
    BY <1>2
  <2> DEFINE h == [n \in 0 .. m + 1 |-> IF n = m + 1 THEN Leave(g[m], s[m + 1]) ELSE g[n]]
  <2>2. ASSUME NEW n \in 0 .. m + 1 PROVE h[n] = IF n = 0 THEN f ELSE Leave(h[n - 1], s[n])
    <3>1. CASE n = 0
      BY <2>1, <3>1
    <3>2. CASE n = m + 1
      <4>1. n # 0 /\ n - 1 = m /\ m \in 0 .. m + 1 /\ m # m + 1
        BY <3>2
      <4>2. h[m] = g[m] /\ h[n] = Leave(g[m], s[n])
        BY <3>2, <4>1
      <4> HIDE DEF h
      <4> QED BY <4>1, <4>2
    <3>3. CASE n \in 1 .. m
      <4>1. n # 0 /\ n - 1 \in 0 .. m /\ n - 1 # m + 1 /\ n # m + 1 /\ n \in 0 .. m
        BY <3>3
      <4>2. h[n - 1] = g[n - 1] /\ h[n] = g[n]
        BY <4>1
      <4>3. g[n] = Leave(g[n - 1], s[n])
        BY <2>1, <4>1
      <4> HIDE DEF h
      <4> QED BY <4>1, <4>2, <4>3
    <3> QED BY <3>1, <3>2, <3>3
  <2>3. h = [n \in 0 .. m + 1 |-> h[n]]
    OBVIOUS
  <2> HIDE DEF h
  <2>4. Runs(h, m + 1)
    BY <2>2, <2>3
  <2> QED BY <2>4
<1>3. \E g : Runs(g, N)
  <2>1. Nat \subseteq T
    <3> HIDE DEF T
    <3> QED BY <1>1, <1>2, Induct
  <2> QED BY <2>1
<1>4. Runs(run, N)
  <2> HIDE DEF Runs
  <2> QED BY <1>3, Zenon
<1>5. Gone(f, s) = run[N]
  BY Zenon DEF Gone
<1> HIDE DEF run
<1>6. run[0] = f /\ \A n \in 1 .. N : run[n] = Leave(run[n - 1], s[n])
  BY <1>4
<1> QED BY <1>5, <1>6

LEMMA GoneIs ==
  ASSUME NEW f, IsFirm(f), NEW n, NEW s, StaffList(s, n, DOMAIN f.staff)
  PROVE  GoneAt(f, s, n, Gone(f, s)) /\ Aside(f, Gone(f, s))
<1>1. n \in Nat /\ s \in [1 .. n -> DOMAIN f.staff]
  BY DEF StaffList
<1>2. Len(s) = n
  <2>1. s \in Seq(DOMAIN f.staff) /\ DOMAIN s = 1 .. n
    BY <1>1
  <2> QED BY <1>1, <2>1
<1>3. PICK run : run[0] = f /\ (\A k \in 1 .. n : run[k] = Leave(run[k - 1], s[k])) /\ Gone(f, s) = run[n]
  BY <1>1, <1>2, GoneRuns
<1> DEFINE T == {k \in Nat : k <= n => GoneAt(f, s, k, run[k]) /\ Aside(f, run[k])}
<1>4. 0 \in T
  <2>1. Aside(f, f)
    BY DEF Aside
  <2> QED BY <1>3, <2>1, GoneNone
<1>5. ASSUME NEW k \in Nat, k \in T PROVE k + 1 \in T
  <2>1. ASSUME k + 1 <= n PROVE GoneAt(f, s, k + 1, run[k + 1]) /\ Aside(f, run[k + 1])
    <3>1. k \in 0 .. n - 1 /\ k + 1 \in 1 .. n /\ (k + 1) - 1 = k
      BY <1>1, <2>1
    <3>2. PICK h : h = run[k]
      OBVIOUS
    <3>3. GoneAt(f, s, k, h) /\ Aside(f, h)
      <4>1. GoneAt(f, s, k, run[k]) /\ Aside(f, run[k])
        BY <1>1, <1>5, <3>1
      <4> QED BY <3>2, <4>1
    <3>4. PICK g : g = Leave(h, s[k + 1])
      OBVIOUS
    <3>5. run[k + 1] = g
      BY <1>3, <3>1, <3>2, <3>4
    <3>6. IsFirm(h) /\ s[k + 1] \in DOMAIN h.staff
      <4>1. s[k + 1] \in DOMAIN f.staff /\ s[k + 1] \notin Leading(s, k)
        <5>1. \A i \in 1 .. k : i \in 1 .. n /\ i # k + 1
          BY <1>1, <3>1
        <5> QED BY <1>1, <3>1, <5>1 DEF Leading, StaffList
      <4> QED BY <3>3, <4>1 DEF GoneAt
    <3>7. Without(h, s[k + 1], g) /\ Aside(h, g)
      BY <3>4, <3>6, LeaveIs
    <3>8. GoneAt(f, s, k + 1, g)
      BY <3>1, <3>3, <3>7, GoneOne
    <3>9. Aside(f, g)
      BY <3>3, <3>7 DEF Aside
    <3> QED BY <3>5, <3>8, <3>9
  <2> QED BY <2>1
<1>6. n \in T
  <2>1. Nat \subseteq T
    <3> HIDE DEF T
    <3> QED BY <1>4, <1>5, Induct
  <2> QED BY <1>1, <2>1
<1> QED BY <1>1, <1>3, <1>6

(* A mechanism's turn: from then on it has run, and those before it are of no later phase. *)
Moves(w, at, next, name) ==
  /\ WiredIn(w, name) /\ ~Passed(w, at, name) /\ Passed(w, next, name)
  /\ \A m : m # name => (Passed(w, next, m) <=> Passed(w, at, m))
  /\ \A m : Passed(w, at, m) => StageOf[m] <= StageOf[name]
  /\ \A m : WiredIn(w, m) /\ ~Passed(w, at, m) /\ m # name => StageOf[name] <= StageOf[m]

LEMMA OnTurn ==
  ASSUME MonthOK, NEW name, Turn(name)
  PROVE  /\ MonthOK' /\ month'.wiring = month.wiring /\ month'.count = month.count
         /\ Moves(month.wiring, month.at, month'.at, name)
         /\ \A i \in DOMAIN month.wiring : month.wiring[i] = name => i = month.at
         /\ month.at \in DOMAIN month.wiring /\ month.wiring[month.at] = name
         /\ month'.at = IF month.at = Len(month.wiring) THEN 0 ELSE month.at + 1
<1> DEFINE next == IF month.at = Len(month.wiring) THEN 0 ELSE month.at + 1
<1>1. PICK w, at : w = month.wiring /\ at = month.at
  OBVIOUS
<1>2. month = [wiring |-> w, at |-> at, order |-> month.order, count |-> month.count]
      /\ w \in Wirings /\ at \in 0 .. Len(w) /\ month.count \in Nat
  BY <1>1 DEF MonthOK
<1>3. at > 0 /\ w[at] = name /\ month' = [month EXCEPT !.at = next]
  BY <1>1 DEF Turn
<1>4. month' = [wiring |-> w, at |-> next, order |-> month.order, count |-> month.count]
  <2> HIDE DEF next
  <2> QED BY <1>2, <1>3
<1>5. month'.wiring = w /\ month'.at = next /\ month'.count = month.count /\ month'.order = month.order
  <2> HIDE DEF next
  <2> QED BY <1>4
<1>6. w \in Seq(DOMAIN StageOf) /\ \A i, j \in DOMAIN w : i < j => w[i] # w[j] /\ StageOf[w[i]] <= StageOf[w[j]]
  BY <1>2, HrAssumption
<1>7. DOMAIN w = 1 .. Len(w) /\ Len(w) \in Nat /\ at \in 1 .. Len(w)
  BY <1>2, <1>3, <1>6
<1>8. next = (IF at = Len(w) THEN 0 ELSE at + 1) /\ next \in 0 .. Len(w)
  BY <1>1, <1>7
<1> HIDE DEF next
<1>9. MonthOK'
  BY <1>2, <1>4, <1>5, <1>8 DEF MonthOK
<1>10. \A i \in DOMAIN w : w[i] = name => i = at
  BY <1>3, <1>6, <1>7
<1>11. ASSUME NEW i \in DOMAIN w PROVE (next = 0 \/ i < next) <=> (i < at \/ i = at)
  <2>1. PICK l \in Nat : l = Len(w)
    BY <1>7
  <2>2. i \in 1 .. l /\ at \in 1 .. l /\ next = IF at = l THEN 0 ELSE at + 1
    BY <1>7, <1>8, <2>1
  <2>3. CASE at = l
    BY <2>2, <2>3
  <2>4. CASE at # l
    BY <2>2, <2>4
  <2> QED BY <2>3, <2>4
<1>12. \A i \in DOMAIN w : (at = 0 \/ i < at) <=> i < at
  BY <1>7
<1>13. WiredIn(w, name)
  BY <1>3, <1>7 DEF WiredIn
<1>14. ~Passed(w, at, name)
  BY <1>7, <1>10, <1>12 DEF Passed
<1>15. \A m : Passed(w, next, m) <=> Passed(w, at, m) \/ m = name
  BY <1>3, <1>7, <1>11, <1>12 DEF Passed
<1>16. ASSUME NEW m, Passed(w, at, m) PROVE StageOf[m] <= StageOf[name]
  <2>1. PICK i \in DOMAIN w : w[i] = m /\ i < at
    BY <1>12, <1>16 DEF Passed
  <2> QED BY <1>3, <1>6, <1>7, <2>1
<1>17. ASSUME NEW m, WiredIn(w, m), ~Passed(w, at, m), m # name PROVE StageOf[name] <= StageOf[m]
  <2>1. PICK i \in DOMAIN w : w[i] = m
    BY <1>17 DEF WiredIn
  <2>2. ~(i < at)
    BY <1>12, <1>17, <2>1 DEF Passed
  <2>3. i # at
    BY <1>3, <1>17, <2>1
  <2>4. at < i
    BY <1>7, <2>2, <2>3
  <2> QED BY <1>3, <1>6, <1>7, <2>1, <2>4
<1>18. Moves(w, at, next, name)
  BY <1>13, <1>14, <1>15, <1>16, <1>17 DEF Moves
<1>19. month'.at = IF month.at = Len(month.wiring) THEN 0 ELSE month.at + 1
  BY <1>1, <1>5, <1>8
<1> QED BY <1>1, <1>3, <1>5, <1>7, <1>9, <1>10, <1>18, <1>19

(* A month begins: nothing of it has run. *)
LEMMA NoneYet ==
  ASSUME NEW w \in Wirings, NEW name
  PROVE  ~Passed(w, 1, name) /\ (Passed(w, 0, name) <=> WiredIn(w, name))
<1>1. w \in Seq(DOMAIN StageOf)
  BY HrAssumption
<1>2. DOMAIN w = 1 .. Len(w) /\ Len(w) \in Nat
  BY <1>1
<1>3. \A i \in DOMAIN w : ~(1 = 0 \/ i < 1)
  BY <1>2
<1> QED BY <1>3 DEF Passed, WiredIn

(* The quitters of a month leave the firm and enter the books. *)
Quit(f, b, Q, g, c) ==
  /\ Q \subseteq DOMAIN f.staff /\ DOMAIN g.staff = DOMAIN f.staff \ Q
  /\ \A x \in DOMAIN g.staff :
       /\ g.staff[x].team = f.staff[x].team /\ g.staff[x].socialized = f.staff[x].socialized
       /\ g.staff[x].quitNear = Cardinality(TiedAmong(f, x, Q))
  /\ g.ties = {t \in f.ties : t \cap Q = {}}
  /\ Len(g.departed) = Len(f.departed) + Cardinality(Q)
  /\ \A i \in 1 .. Len(f.departed) : g.departed[i] = f.departed[i]
  /\ \A i \in 1 .. Cardinality(Q) :
       /\ g.departed[Len(f.departed) + i].id \in Q
       /\ g.departed[Len(f.departed) + i].team = f.staff[g.departed[Len(f.departed) + i].id].team
  /\ \A q \in Q : \E i \in 1 .. Cardinality(Q) : g.departed[Len(f.departed) + i].id = q
  /\ g.next = f.next /\ g.newHires = f.newHires /\ g.headcount = Cardinality(DOMAIN f.staff)
  /\ g.charged = f.charged /\ g.charges = f.charges
  /\ c.quits = Q /\ c.hired = b.hired /\ c.reported = b.reported
  /\ DOMAIN c.left = DOMAIN b.left \cup Q
  /\ \A id \in DOMAIN b.left \ Q : c.left[id] = b.left[id]
  /\ \A id \in Q : c.left[id] = [team |-> f.staff[id].team, near |-> {x \in DOMAIN f.staff : {id, x} \in f.ties}]

LEMMA StaffFinite ==
  ASSUME NEW f, IsFirm(f)
  PROVE  /\ IsFiniteSet(DOMAIN f.staff) /\ Cardinality(DOMAIN f.staff) \in Nat
         /\ \A team : IsFiniteSet(Members(f.staff, team)) /\ Cardinality(Members(f.staff, team)) \in Nat
<1>1. IsFiniteSet(0 .. f.next - 1)
  <2>1. 0 \in Int /\ f.next - 1 \in Int
    BY DEF IsFirm
  <2> QED BY <2>1, FS_Interval
<1>2. IsFiniteSet(DOMAIN f.staff)
  BY <1>1, FS_Subset DEF IsFirm
<1>3. ASSUME NEW team PROVE IsFiniteSet(Members(f.staff, team)) /\ Cardinality(Members(f.staff, team)) \in Nat
  <2>1. Members(f.staff, team) \in SUBSET DOMAIN f.staff
    BY DEF Members
  <2>2. IsFiniteSet(Members(f.staff, team))
    BY <1>2, <2>1, FS_Subset
  <2> QED BY <2>2, FS_CardinalityType
<1> QED BY <1>2, <1>3, FS_CardinalityType

(* The reset before the quitters leave. *)
Reset(f, g) ==
  /\ IsFirm(g) /\ DOMAIN g.staff = DOMAIN f.staff
  /\ \A x \in DOMAIN f.staff :
       g.staff[x].team = f.staff[x].team /\ g.staff[x].socialized = f.staff[x].socialized /\ g.staff[x].quitNear = 0
  /\ g.ties = f.ties /\ g.departed = f.departed /\ g.next = f.next /\ g.newHires = f.newHires
  /\ g.headcount = Cardinality(DOMAIN f.staff) /\ g.charged = f.charged /\ g.charges = f.charges
LEMMA ForgetIs ==
  ASSUME NEW f, IsFirm(f)
  PROVE  Reset(f, [f EXCEPT !.headcount = Cardinality(DOMAIN f.staff), !.staff = Forget(f.staff)])
<1> DEFINE staff == Forget(f.staff)
           n == Cardinality(DOMAIN f.staff)
           g == [f EXCEPT !.headcount = n, !.staff = staff]
<1>1. f = [staff |-> f.staff, ties |-> f.ties, next |-> f.next, newHires |-> f.newHires, departed |-> f.departed,
           headcount |-> f.headcount, charged |-> f.charged, charges |-> f.charges]
  BY DEF IsFirm
<1>2. f.staff \in [DOMAIN f.staff -> Staffer] /\ DOMAIN f.staff \subseteq 0 .. f.next - 1 /\ f.next \in Nat /\ f.charges \in Nat
      /\ f.newHires \in Seq(Nat) /\ f.departed \in Seq(Leaver)
  BY DEF IsFirm
<1>3. n \in Nat
  BY StaffFinite
<1>4. /\ DOMAIN staff = DOMAIN f.staff /\ staff \in [DOMAIN f.staff -> Staffer]
      /\ \A x \in DOMAIN f.staff : staff[x].team = f.staff[x].team /\ staff[x].socialized = f.staff[x].socialized /\ staff[x].quitNear = 0
  <2>1. ASSUME NEW x \in DOMAIN f.staff
        PROVE  /\ staff[x] \in Staffer
               /\ staff[x].team = f.staff[x].team /\ staff[x].socialized = f.staff[x].socialized /\ staff[x].quitNear = 0
    <3>1. PICK e \in Staffer : e = f.staff[x]
      BY <1>2
    <3>2. staff[x] = [e EXCEPT !.quitNear = 0]
      BY <3>1 DEF Forget
    <3> QED BY <3>1, <3>2 DEF Staffer
  <2>2. DOMAIN staff = DOMAIN f.staff /\ staff = [x \in DOMAIN f.staff |-> staff[x]]
    BY DEF Forget
  <2> HIDE DEF staff
  <2> QED BY <2>1, <2>2
<1> HIDE DEF staff, n
<1>10. g = [f EXCEPT !.headcount = n, !.staff = staff]
  BY DEF n, staff
<1> HIDE DEF g
<1>5. g = [staff |-> staff, ties |-> f.ties, next |-> f.next, newHires |-> f.newHires, departed |-> f.departed,
           headcount |-> n, charged |-> f.charged, charges |-> f.charges]
  BY <1>1, <1>10
<1>6. g.staff = staff /\ g.ties = f.ties /\ g.next = f.next /\ g.newHires = f.newHires /\ g.departed = f.departed
      /\ g.headcount = n /\ g.charged = f.charged /\ g.charges = f.charges
  BY <1>5
<1>7. IsFirm(g)
  <2>1. g = [staff |-> g.staff, ties |-> g.ties, next |-> g.next, newHires |-> g.newHires, departed |-> g.departed,
             headcount |-> g.headcount, charged |-> g.charged, charges |-> g.charges]
    BY <1>5, <1>6
  <2>2. DOMAIN g.staff \subseteq 0 .. g.next - 1 /\ g.staff \in [DOMAIN g.staff -> Staffer]
    BY <1>2, <1>4, <1>6
  <2> QED BY <1>2, <1>3, <1>6, <2>1, <2>2 DEF IsFirm
<1>8. Reset(f, g)
  BY <1>4, <1>6, <1>7 DEF Reset, n
<1> QED BY <1>8 DEF g, n, staff

LEMMA TurnoverQuit ==
  ASSUME IsFirm(firm), BooksOK, Turnover
  PROVE  IsFirm(firm') /\ BooksOK' /\ \E Q : Quit(firm, books, Q, firm', books')
<1> DEFINE f == [firm EXCEPT !.headcount = Cardinality(DOMAIN firm.staff), !.staff = Forget(firm.staff)]
<1>1. PICK n \in 0 .. Cardinality(DOMAIN firm.staff) : \E s \in Injection(1 .. n, month.order \cap DOMAIN firm.staff) :
        /\ firm' = Gone(f, s)
        /\ books' = [books EXCEPT !.quits = ToSet(s),
             !.left = [id \in DOMAIN books.left \cup ToSet(s) |->
                         IF id \in ToSet(s)
                         THEN [team |-> firm.staff[id].team, near |-> {b \in DOMAIN firm.staff : {id, b} \in firm.ties}]
                         ELSE books.left[id]]]
  BY DEF Turnover
<1>2. PICK s \in Injection(1 .. n, month.order \cap DOMAIN firm.staff) :
        /\ firm' = Gone(f, s)
        /\ books' = [books EXCEPT !.quits = ToSet(s),
             !.left = [id \in DOMAIN books.left \cup ToSet(s) |->
                         IF id \in ToSet(s)
                         THEN [team |-> firm.staff[id].team, near |-> {b \in DOMAIN firm.staff : {id, b} \in firm.ties}]
                         ELSE books.left[id]]]
  BY <1>1
<1>3. Reset(firm, f)
  BY ForgetIs
<1>4. n \in Nat
  BY <1>1, StaffFinite
<1>5. s \in [1 .. n -> DOMAIN firm.staff] /\ \A i, j \in 1 .. n : s[i] = s[j] => i = j
  <2>1. s \in [1 .. n -> month.order \cap DOMAIN firm.staff] /\ IsInjective(s)
    BY <1>2 DEF Injection
  <2> QED BY <2>1 DEF IsInjective
<1>6. PICK h : h = f
  OBVIOUS
<1>7. Reset(firm, h) /\ firm' = Gone(h, s)
  BY <1>2, <1>3, <1>6
<1>8. IsFirm(h) /\ StaffList(s, n, DOMAIN h.staff)
  BY <1>4, <1>5, <1>7 DEF Reset, StaffList
<1>9. PICK g : g = firm'
  OBVIOUS
<1>10. GoneAt(h, s, n, g) /\ Aside(h, g)
  BY <1>7, <1>8, <1>9, GoneIs
<1> DEFINE Q == Leading(s, n)
<1>11. ToSet(s) = Q
  BY <1>5 DEF ToSet, Leading
<1>12. Q \subseteq DOMAIN firm.staff
  BY <1>5 DEF Leading
<1> HIDE DEF f
<1>13. /\ IsFirm(g) /\ DOMAIN g.staff = DOMAIN h.staff \ Q
       /\ \A b \in DOMAIN g.staff :
            /\ g.staff[b].team = h.staff[b].team /\ g.staff[b].socialized = h.staff[b].socialized
            /\ g.staff[b].quitNear = h.staff[b].quitNear + Cardinality(TiedAmong(h, b, Q))
       /\ g.ties = {t \in h.ties : t \cap Q = {}}
       /\ IsFiniteSet(Q) /\ Cardinality(Q) = n
  BY <1>10 DEF GoneAt
<1>14. /\ Len(g.departed) = Len(h.departed) + n
       /\ \A i \in 1 .. Len(h.departed) : g.departed[i] = h.departed[i]
       /\ \A i \in 1 .. n : g.departed[Len(h.departed) + i].id = s[i] /\ g.departed[Len(h.departed) + i].team = h.staff[s[i]].team
  BY <1>10 DEF GoneAt
<1>15. /\ DOMAIN h.staff = DOMAIN firm.staff
       /\ \A x \in DOMAIN firm.staff :
            h.staff[x].team = firm.staff[x].team /\ h.staff[x].socialized = firm.staff[x].socialized /\ h.staff[x].quitNear = 0
       /\ h.ties = firm.ties /\ h.departed = firm.departed /\ h.next = firm.next /\ h.newHires = firm.newHires
       /\ h.headcount = Cardinality(DOMAIN firm.staff) /\ h.charged = firm.charged /\ h.charges = firm.charges
  BY <1>7 DEF Reset
<1>16. \A i \in 1 .. n : s[i] \in Q /\ s[i] \in DOMAIN firm.staff
  BY <1>5 DEF Leading
<1>17. \A q \in Q : \E i \in 1 .. n : s[i] = q
  BY DEF Leading
<1> HIDE DEF Q
<1>18. \A x : TiedAmong(h, x, Q) = TiedAmong(firm, x, Q)
  BY <1>15 DEF TiedAmong
<1>19. ASSUME NEW x \in DOMAIN g.staff
       PROVE  /\ g.staff[x].team = firm.staff[x].team /\ g.staff[x].socialized = firm.staff[x].socialized
              /\ g.staff[x].quitNear = Cardinality(TiedAmong(firm, x, Q))
  <2>1. x \in DOMAIN firm.staff
    BY <1>13, <1>15
  <2>2. Cardinality(TiedAmong(firm, x, Q)) \in Nat
    <3>1. TiedAmong(firm, x, Q) \in SUBSET Q
      BY DEF TiedAmong
    <3>2. IsFiniteSet(TiedAmong(firm, x, Q))
      BY <1>13, <3>1, FS_Subset
    <3> QED BY <3>2, FS_CardinalityType
  <2>3. g.staff[x].quitNear = 0 + Cardinality(TiedAmong(firm, x, Q))
    BY <1>13, <1>15, <1>18, <2>1
  <2> QED BY <1>13, <1>15, <2>1, <2>2, <2>3
<1>20. ASSUME NEW i \in 1 .. n
       PROVE  /\ g.departed[Len(firm.departed) + i].id \in Q
              /\ g.departed[Len(firm.departed) + i].team = firm.staff[g.departed[Len(firm.departed) + i].id].team
  <2>1. g.departed[Len(firm.departed) + i].id = s[i] /\ g.departed[Len(firm.departed) + i].team = h.staff[s[i]].team
    BY <1>14, <1>15
  <2>2. s[i] \in Q /\ h.staff[s[i]].team = firm.staff[s[i]].team
    BY <1>15, <1>16
  <2> QED BY <2>1, <2>2
<1>21. ASSUME NEW q \in Q PROVE \E i \in 1 .. n : g.departed[Len(firm.departed) + i].id = q
  <2>1. PICK i \in 1 .. n : s[i] = q
    BY <1>17
  <2>2. g.departed[Len(firm.departed) + i].id = s[i]
    BY <1>14, <1>15
  <2> QED BY <2>1, <2>2
<1>22. g.next = firm.next /\ g.newHires = firm.newHires /\ g.headcount = Cardinality(DOMAIN firm.staff)
       /\ g.charged = firm.charged /\ g.charges = firm.charges
  BY <1>10, <1>15 DEF Aside
<1> DEFINE left == [id \in DOMAIN books.left \cup Q |->
                      IF id \in Q THEN [team |-> firm.staff[id].team, near |-> {b \in DOMAIN firm.staff : {id, b} \in firm.ties}]
                      ELSE books.left[id]]
<1>23. books' = [books EXCEPT !.quits = Q, !.left = left]
  BY <1>2, <1>11
<1>24. /\ DOMAIN left = DOMAIN books.left \cup Q
       /\ \A id \in DOMAIN books.left \ Q : left[id] = books.left[id]
       /\ \A id \in Q : left[id] = [team |-> firm.staff[id].team, near |-> {x \in DOMAIN firm.staff : {id, x} \in firm.ties}]
  OBVIOUS
<1> HIDE DEF left
<1>25. books' = [quits |-> Q, left |-> left, hired |-> books.hired, reported |-> books.reported]
  BY <1>23 DEF BooksOK
<1>26. books'.quits = Q /\ books'.left = left /\ books'.hired = books.hired /\ books'.reported = books.reported
  BY <1>25
<1>27. BooksOK'
  BY <1>25, <1>26 DEF BooksOK
<1>28. Quit(firm, books, Q, g, books')
  <2>1. /\ DOMAIN g.staff = DOMAIN firm.staff \ Q /\ g.ties = {t \in firm.ties : t \cap Q = {}}
        /\ Len(g.departed) = Len(firm.departed) + Cardinality(Q)
        /\ \A i \in 1 .. Len(firm.departed) : g.departed[i] = firm.departed[i]
    BY <1>13, <1>14, <1>15
  <2>2. PICK c : c = books'
    OBVIOUS
  <2>3. c.quits = Q /\ c.left = left /\ c.hired = books.hired /\ c.reported = books.reported
    BY <1>26, <2>2
  <2>4. Quit(firm, books, Q, g, c)
    BY <1>12, <1>13, <1>19, <1>20, <1>21, <1>22, <1>24, <2>1, <2>3 DEF Quit
  <2> QED BY <2>2, <2>4
<1> QED BY <1>9, <1>13, <1>27, <1>28

LEMMA QuitKept ==
  ASSUME NEW f, NEW b, NEW Q, NEW g, NEW c, IsFirm(f), IsFirm(g), Tied(f), Rolled(f, b), Quit(f, b, Q, g, c)
  PROVE  /\ Tied(g) /\ Rolled(g, c) /\ Feels(g, c)
         /\ Small(f) => Small(g)
         /\ IsFiniteSet(Q) /\ IsFiniteSet(DOMAIN b.left) /\ Q \cap DOMAIN b.left = {}
<1>1. /\ Q \subseteq DOMAIN f.staff /\ DOMAIN g.staff = DOMAIN f.staff \ Q /\ g.next = f.next
      /\ \A x \in DOMAIN g.staff : g.staff[x].team = f.staff[x].team /\ g.staff[x].quitNear = Cardinality(TiedAmong(f, x, Q))
      /\ g.ties = {t \in f.ties : t \cap Q = {}}
      /\ c.quits = Q /\ DOMAIN c.left = DOMAIN b.left \cup Q
      /\ \A id \in DOMAIN b.left \ Q : c.left[id] = b.left[id]
      /\ \A id \in Q : c.left[id] = [team |-> f.staff[id].team, near |-> {x \in DOMAIN f.staff : {id, x} \in f.ties}]
  BY DEF Quit
<1>2. /\ DOMAIN f.staff \cap DOMAIN b.left = {} /\ DOMAIN f.staff \cup DOMAIN b.left = 0 .. f.next - 1
      /\ \A id \in DOMAIN b.left : b.left[id].team \in Posts /\ b.left[id].near \subseteq 0 .. f.next - 1
  BY DEF Rolled
<1>3. Q \cap DOMAIN b.left = {}
  BY <1>1, <1>2
<1>4. Tied(g)
  <2>1. ASSUME NEW t \in g.ties PROVE t \subseteq DOMAIN g.staff /\ Cardinality(t) \in {1, 2}
    <3>1. t \in f.ties /\ t \cap Q = {}
      BY <1>1
    <3>2. t \subseteq DOMAIN f.staff /\ Cardinality(t) \in {1, 2}
      BY <3>1 DEF Tied
    <3> QED BY <1>1, <3>1, <3>2
  <2> QED BY <2>1 DEF Tied
<1>5. ASSUME NEW id \in Q PROVE c.left[id].team \in Posts /\ c.left[id].near = {x \in DOMAIN f.staff : {id, x} \in f.ties}
  <2>1. f.staff[id].team \in Posts
    BY <1>1 DEF IsFirm, Staffer
  <2>2. PICK m, N : m = f.staff[id].team /\ N = {x \in DOMAIN f.staff : {id, x} \in f.ties}
    OBVIOUS
  <2>3. c.left[id] = [team |-> m, near |-> N]
    BY <1>1, <2>2
  <2>4. c.left[id].team = m /\ c.left[id].near = N
    BY <2>3
  <2> QED BY <2>1, <2>2, <2>4
<1>6. Rolled(g, c)
  <2>1. DOMAIN g.staff \cap DOMAIN c.left = {} /\ DOMAIN g.staff \cup DOMAIN c.left = 0 .. g.next - 1
    BY <1>1, <1>2
  <2>2. ASSUME NEW id \in DOMAIN c.left PROVE c.left[id].team \in Posts /\ c.left[id].near \subseteq 0 .. g.next - 1
    <3>1. CASE id \in Q
      <4>1. c.left[id].near \subseteq DOMAIN f.staff /\ DOMAIN f.staff \subseteq 0 .. g.next - 1
        <5>1. c.left[id].near \subseteq DOMAIN f.staff
          BY <1>5, <3>1
        <5>2. DOMAIN f.staff \subseteq 0 .. g.next - 1
          BY <1>1, <1>2
        <5> QED BY <5>1, <5>2
      <4> QED BY <1>5, <3>1, <4>1
    <3>2. CASE id \notin Q
      BY <1>1, <1>2, <3>2
    <3> QED BY <3>1, <3>2
  <2> QED BY <1>1, <2>1, <2>2 DEF Rolled
<1>7. Feels(g, c)
  <2>1. ASSUME NEW x \in DOMAIN g.staff PROVE g.staff[x].quitNear = Cardinality({q \in c.quits : x \in c.left[q].near})
    <3>1. {q \in c.quits : x \in c.left[q].near} = TiedAmong(f, x, Q)
      <4>1. x \in DOMAIN f.staff /\ c.quits = Q
        BY <1>1, <2>1
      <4>2. \A q \in Q : x \in c.left[q].near <=> {q, x} \in f.ties
        BY <1>5, <4>1
      <4> QED BY <4>1, <4>2 DEF TiedAmong
    <3> QED BY <1>1, <3>1
  <2> QED BY <2>1 DEF Feels
<1>8. ASSUME Small(f) PROVE Small(g)
  <2>1. ASSUME NEW team \in Posts PROVE Cardinality(Members(g.staff, team)) <= TeamSize
    <3>1. Members(g.staff, team) \in SUBSET Members(f.staff, team)
      BY <1>1 DEF Members
    <3>2. PICK A, B : A = Members(g.staff, team) /\ B = Members(f.staff, team)
      OBVIOUS
    <3>3. IsFiniteSet(B) /\ Cardinality(B) \in Nat /\ A \in SUBSET B
      BY <3>1, <3>2, StaffFinite
    <3>4. Cardinality(A) <= Cardinality(B)
      BY <3>3, FS_Subset
    <3>5. IsFiniteSet(A)
      BY <3>3, FS_Subset
    <3>6. Cardinality(A) \in Nat
      BY <3>5, FS_CardinalityType
    <3>7. Cardinality(B) <= TeamSize
      BY <1>8, <3>2 DEF Small
    <3> QED BY <3>2, <3>3, <3>4, <3>6, <3>7, HrAssumption
  <2> QED BY <2>1 DEF Small
<1>9. IsFiniteSet(Q)
  BY <1>1, StaffFinite, FS_Subset
<1>10. IsFiniteSet(DOMAIN b.left)
  <2>1. 0 \in Int /\ f.next - 1 \in Int
    BY DEF IsFirm
  <2>2. IsFiniteSet(0 .. f.next - 1) /\ DOMAIN b.left \in SUBSET (0 .. f.next - 1)
    BY <1>2, <2>1, FS_Interval
  <2> QED BY <2>2, FS_Subset
<1> QED BY <1>3, <1>4, <1>6, <1>7, <1>8, <1>9, <1>10

LEMMA ListGrows ==
  ASSUME NEW f, NEW b, NEW Q, NEW g, NEW c, IsFirm(f), IsFirm(g), Rolled(f, b), Quit(f, b, Q, g, c),
         IsFiniteSet(Q), IsFiniteSet(DOMAIN b.left), Q \cap DOMAIN b.left = {},
         NEW S \in SUBSET DOMAIN b.left, Lists(f.departed, b.left, S)
  PROVE  Lists(g.departed, c.left, S \cup Q)
<1> DEFINE l == Len(f.departed)
           n == Cardinality(Q)
<1>1. /\ Len(g.departed) = l + n
      /\ \A i \in 1 .. l : g.departed[i] = f.departed[i]
      /\ \A i \in 1 .. n : g.departed[l + i].id \in Q /\ g.departed[l + i].team = f.staff[g.departed[l + i].id].team
      /\ \A q \in Q : \E i \in 1 .. n : g.departed[l + i].id = q
  BY DEF Quit
<1>2. /\ \A id \in DOMAIN b.left \ Q : c.left[id] = b.left[id]
      /\ \A id \in Q : c.left[id] = [team |-> f.staff[id].team, near |-> {x \in DOMAIN f.staff : {id, x} \in f.ties}]
  BY DEF Quit
<1>3. l \in Nat /\ n \in Nat /\ DOMAIN f.departed = 1 .. l /\ DOMAIN g.departed = 1 .. l + n
  <2>1. f.departed \in Seq(Leaver) /\ g.departed \in Seq(Leaver)
    BY DEF IsFirm
  <2> QED BY <1>1, <2>1, FS_CardinalityType
<1>4. /\ \A i \in 1 .. l : f.departed[i].id \in S /\ f.departed[i].team = b.left[f.departed[i].id].team
      /\ \A id \in S : \E i \in 1 .. l : f.departed[i].id = id
      /\ l = Cardinality(S)
  BY <1>3 DEF Lists
<1>5. \A id \in S : c.left[id] = b.left[id] /\ id \notin Q
  BY <1>2
<1>6. ASSUME NEW id \in Q PROVE c.left[id].team = f.staff[id].team
  <2>1. PICK m, N : m = f.staff[id].team /\ N = {x \in DOMAIN f.staff : {id, x} \in f.ties}
    OBVIOUS
  <2>2. c.left[id] = [team |-> m, near |-> N]
    BY <1>2, <2>1
  <2> QED BY <2>1, <2>2
<1> HIDE DEF l, n
<1>7. ASSUME NEW i \in 1 .. l + n
      PROVE  g.departed[i].id \in S \cup Q /\ g.departed[i].team = c.left[g.departed[i].id].team
  <2>1. CASE i \in 1 .. l
    BY <1>1, <1>4, <1>5, <2>1
  <2>2. CASE i \notin 1 .. l
    <3>1. i - l \in 1 .. n /\ l + (i - l) = i
      BY <1>3, <2>2
    <3>2. g.departed[i].id \in Q /\ g.departed[i].team = f.staff[g.departed[i].id].team
      <4>1. PICK j \in 1 .. n : l + j = i
        BY <3>1
      <4> QED BY <1>1, <4>1
    <3> QED BY <1>6, <3>2
  <2> QED BY <2>1, <2>2
<1>8. ASSUME NEW id \in S \cup Q PROVE \E i \in 1 .. l + n : g.departed[i].id = id
  <2>1. CASE id \in S
    <3>1. PICK i \in 1 .. l : f.departed[i].id = id
      BY <1>4, <2>1
    <3>2. i \in 1 .. l + n /\ g.departed[i].id = id
      BY <1>1, <1>3, <3>1
    <3> QED BY <3>2
  <2>2. CASE id \in Q
    <3>1. PICK i \in 1 .. n : g.departed[l + i].id = id
      BY <1>1, <2>2
    <3>2. l + i \in 1 .. l + n
      BY <1>3
    <3> QED BY <3>1, <3>2
  <2> QED BY <2>1, <2>2
<1>9. Len(g.departed) = Cardinality(S \cup Q)
  <2>1. IsFiniteSet(S)
    BY FS_Subset
  <2>2. S \cap Q = {}
    BY <1>5
  <2>3. Cardinality(S \cup Q) = Cardinality(S) + Cardinality(Q) - Cardinality(S \cap Q)
    BY <2>1, FS_Union
  <2>4. Cardinality(S \cap Q) = 0
    BY <2>2, FS_EmptySet
  <2>5. Cardinality(S) = l /\ Cardinality(Q) = n
    BY <1>4 DEF n
  <2> QED BY <1>1, <1>3, <2>3, <2>4, <2>5
<1> QED BY <1>3, <1>7, <1>8, <1>9 DEF Lists

LEMMA Stages ==
  /\ StageOf["learning_curve"] = 1 /\ StageOf["turnover"] = 2 /\ StageOf["hiring"] = 2 /\ StageOf["toxic_spread"] = 3
  /\ StageOf["org_performance"] = 4 /\ StageOf["socialization"] = 5 /\ StageOf["knowledge_loss"] = 5
BY DEF StageOf

LEMMA QuitAccounted ==
  ASSUME NEW f, NEW b, NEW Q, NEW g, NEW c, IsFirm(f), IsFirm(g), Tied(f), Rolled(f, b), Quit(f, b, Q, g, c),
         NEW w, NEW at, NEW next, Moves(w, at, next, "turnover"), Unsettled(w, at, f, b), Accounted(w, at, f, b)
  PROVE  Accounted(w, next, g, c)
<1>1. b.quits = {} /\ ~Passed(w, at, "knowledge_loss") /\ ~Passed(w, next, "knowledge_loss")
  BY Stages DEF Moves, Unsettled
<1>2. /\ c.quits = Q /\ DOMAIN c.left = DOMAIN b.left \cup Q
      /\ \A id \in DOMAIN b.left \ Q : c.left[id] = b.left[id]
      /\ g.charged = f.charged /\ g.charges = f.charges /\ g.headcount = Cardinality(DOMAIN f.staff) /\ Q \subseteq DOMAIN f.staff
  BY DEF Quit
<1>3. IsFiniteSet(Q) /\ IsFiniteSet(DOMAIN b.left) /\ Q \cap DOMAIN b.left = {}
  BY QuitKept
<1>4. Pending(w, at, b) = (IF ~WiredIn(w, "knowledge_loss") THEN DOMAIN b.left ELSE {})
      /\ Pending(w, next, c) = (IF ~WiredIn(w, "knowledge_loss") THEN DOMAIN b.left \cup Q ELSE Q)
  BY <1>1, <1>2 DEF Pending
<1>5. Pending(w, at, b) \in SUBSET DOMAIN b.left /\ Pending(w, next, c) = Pending(w, at, b) \cup Q
  BY <1>4
<1>6. Lists(f.departed, b.left, Pending(w, at, b))
  BY DEF Accounted
<1>7. Lists(g.departed, c.left, Pending(w, next, c))
  <2>1. PICK S : S = Pending(w, at, b)
    OBVIOUS
  <2>2. Lists(g.departed, c.left, S \cup Q)
    BY <1>3, <1>5, <1>6, <2>1, ListGrows
  <2> QED BY <1>5, <2>1, <2>2
<1>8. ASSUME WiredIn(w, "knowledge_loss") PROVE Charged(g, c.left, DOMAIN c.left \ Pending(w, next, c))
  <2>1. DOMAIN c.left \ Pending(w, next, c) = DOMAIN b.left /\ DOMAIN b.left \ Pending(w, at, b) = DOMAIN b.left
    BY <1>2, <1>3, <1>4, <1>8
  <2>2. Charged(f, b.left, DOMAIN b.left)
    BY <1>8, <2>1 DEF Accounted
  <2>3. \A id \in DOMAIN b.left : c.left[id] = b.left[id]
    BY <1>2, <1>3
  <2>4. {[id |-> id, team |-> c.left[id].team] : id \in DOMAIN b.left} = {[id |-> id, team |-> b.left[id].team] : id \in DOMAIN b.left}
    BY <2>3
  <2> QED BY <1>2, <2>1, <2>2, <2>4 DEF Charged
<1>9. Cardinality(c.quits) <= g.headcount
  <2>1. IsFiniteSet(DOMAIN f.staff)
    BY StaffFinite
  <2> QED BY <1>2, <2>1, FS_Subset
<1> QED BY <1>7, <1>8, <1>9 DEF Accounted

LEMMA TurnoverKeeps == ASSUME HrInv, Turnover PROVE HrInv'
<1> DEFINE w == month.wiring
           at == month.at
           next == month'.at
<1>1. /\ MonthOK /\ BooksOK /\ IsFirm(firm) /\ Tied(firm) /\ Rolled(firm, books) /\ Small(firm)
      /\ Unsettled(w, at, firm, books) /\ Accounted(w, at, firm, books) /\ Announced(w, at, books)
      /\ Welcomed(w, at, firm, books)
  BY DEF HrInv
<1>2. Turn("turnover")
  BY DEF Turnover
<1>3. /\ MonthOK' /\ month'.wiring = w /\ Moves(w, at, next, "turnover")
      /\ \A i \in DOMAIN w : w[i] = "turnover" => i = at
      /\ at \in DOMAIN w
  BY <1>1, <1>2, OnTurn
<1>4. IsFirm(firm') /\ BooksOK' /\ \E Q : Quit(firm, books, Q, firm', books')
  BY <1>1, TurnoverQuit
<1>5. PICK Q : Quit(firm, books, Q, firm', books')
  BY <1>4
<1>6. PICK g, c : g = firm' /\ c = books'
  OBVIOUS
<1>7. IsFirm(g) /\ Quit(firm, books, Q, g, c)
  BY <1>4, <1>5, <1>6
<1>8. Tied(g) /\ Rolled(g, c) /\ Feels(g, c) /\ Small(g)
  BY <1>1, <1>7, QuitKept
<1>9. Accounted(w, next, g, c)
  BY <1>1, <1>3, <1>7, QuitAccounted
<1>10. Unsettled(w, next, g, c)
  <2>1. Passed(w, next, "turnover")
    BY <1>3 DEF Moves
  <2> QED BY <1>8, <2>1 DEF Unsettled
<1>11. Announced(w, next, c)
  <2>1. ~Passed(w, at, "org_performance")
    BY <1>3, Stages DEF Moves
  <2>2. c.reported = books.reported
    BY <1>7 DEF Quit
  <2> QED BY <1>1, <2>1, <2>2 DEF Announced
<1>12. Refilled(w, next, g)
  <2>1. w \in Seq(DOMAIN StageOf) /\ \A i, j \in DOMAIN w : i < j => w[i] # w[j]
    BY <1>1, HrAssumption DEF MonthOK
  <2>2. DOMAIN w = 1 .. Len(w) /\ Len(w) \in Nat
    BY <2>1
  <2>3. ~RefillsAlone(w)
    BY <1>3 DEF RefillsAlone, Moves
  <2>4. ASSUME Passed(w, next, "hiring"), Refills(w) PROVE FALSE
    <3>1. Passed(w, at, "hiring")
      BY <1>3, <2>4 DEF Moves
    <3>2. PICK j \in DOMAIN w : at < j /\ w[j] = "hiring"
      BY <1>3, <2>4 DEF Refills
    <3>3. PICK k \in DOMAIN w : w[k] = "hiring" /\ (at = 0 \/ k < at)
      BY <3>1 DEF Passed
    <3>4. k < j
      BY <1>3, <2>2, <3>2, <3>3
    <3> QED BY <2>1, <3>2, <3>3, <3>4
  <2> QED BY <2>3, <2>4 DEF Refilled
<1>13. Welcomed(w, next, g, c)
  <2>1. ~Passed(w, next, "socialization")
    BY <1>3, Stages DEF Moves
  <2>2. g.newHires = firm.newHires /\ c.hired = books.hired /\ DOMAIN g.staff \subseteq DOMAIN firm.staff
        /\ \A x \in DOMAIN g.staff : g.staff[x].socialized = firm.staff[x].socialized
    BY <1>7 DEF Quit
  <2> QED BY <1>1, <2>1, <2>2 DEF Welcomed
<1> QED BY <1>3, <1>4, <1>6, <1>7, <1>8, <1>9, <1>10, <1>11, <1>12, <1>13 DEF HrInv

(* Newcomers only add to a firm. *)
OnList(list, x) == \E i \in DOMAIN list : list[i] = x
Grown(f, g) ==
  /\ IsFirm(g) /\ Tied(g)
  /\ f.next <= g.next /\ DOMAIN g.staff = DOMAIN f.staff \cup (f.next .. g.next - 1)
  /\ \A x \in DOMAIN f.staff : g.staff[x] = f.staff[x]
  /\ \A x \in f.next .. g.next - 1 : g.staff[x].quitNear = 0 /\ OnList(g.newHires, x)
  /\ \A x : OnList(f.newHires, x) => OnList(g.newHires, x)
  /\ g.departed = f.departed /\ g.headcount = f.headcount /\ g.charged = f.charged /\ g.charges = f.charges

LEMMA PairOf ==
  ASSUME NEW x, NEW y, x # y
  PROVE  Cardinality({x, y}) = 2
<1>1. IsFiniteSet({x}) /\ Cardinality({x}) = 1
  BY FS_Singleton
<1>2. {x, y} = {x} \cup {y} /\ y \notin {x}
  OBVIOUS
<1>3. Cardinality({x} \cup {y}) = 1 + 1
  BY <1>1, <1>2, FS_AddElement
<1> QED BY <1>2, <1>3

LEMMA HireIs ==
  ASSUME NEW f, IsFirm(f), Tied(f), NEW team \in Posts, NEW toxic
  PROVE  /\ Grown(f, Hire(f, team, toxic))
         /\ Members(Hire(f, team, toxic).staff, team) = Members(f.staff, team) \cup {f.next}
         /\ f.next \notin Members(f.staff, team)
         /\ \A other : other # team => Members(Hire(f, team, toxic).staff, other) = Members(f.staff, other)
<1> DEFINE mates == {b \in Members(f.staff, team) : Cardinality({c \in Members(f.staff, team) : c < b}) < 2}
           staff == [id \in DOMAIN f.staff \cup {f.next} |-> IF id = f.next THEN Employee(team, id \in toxic) ELSE f.staff[id]]
           ties == f.ties \cup {{f.next, b} : b \in mates}
           fresh == Append(f.newHires, f.next)
           n == f.next + 1
           g == Hire(f, team, toxic)
<1>1. f = [staff |-> f.staff, ties |-> f.ties, next |-> f.next, newHires |-> f.newHires, departed |-> f.departed,
           headcount |-> f.headcount, charged |-> f.charged, charges |-> f.charges]
  BY DEF IsFirm
<1>2. g = [f EXCEPT !.staff = staff, !.ties = ties, !.newHires = fresh, !.next = n]
  BY DEF Hire
<1>3. f.staff \in [DOMAIN f.staff -> Staffer] /\ DOMAIN f.staff \subseteq 0 .. f.next - 1 /\ f.next \in Nat
      /\ f.newHires \in Seq(Nat)
  BY DEF IsFirm
<1>4. f.next \notin DOMAIN f.staff
  BY <1>3
<1>5. /\ DOMAIN staff = DOMAIN f.staff \cup {f.next} /\ staff[f.next] = Employee(team, f.next \in toxic)
      /\ \A x \in DOMAIN f.staff : staff[x] = f.staff[x]
  BY <1>4
<1>6. /\ Employee(team, f.next \in toxic) \in Staffer
      /\ Employee(team, f.next \in toxic).team = team /\ Employee(team, f.next \in toxic).quitNear = 0
  <2>1. PICK t \in BOOLEAN : t = (f.next \in toxic)
    <3>1. CASE f.next \in toxic
      <4>1. TRUE = (f.next \in toxic)
        BY <3>1
      <4> QED BY <4>1
    <3>2. CASE f.next \notin toxic
      <4>1. FALSE = (f.next \in toxic)
        BY <3>2
      <4> QED BY <4>1
    <3> QED BY <3>1, <3>2
  <2>2. [team |-> team, tenure |-> 0, toxic |-> t, quitNear |-> 0, socialized |-> FALSE] \in Staffer
    BY DEF Staffer
  <2> QED BY <2>1, <2>2 DEF Employee
<1>7. staff = [x \in DOMAIN staff |-> staff[x]]
  OBVIOUS
<1>8. ties = f.ties \cup {{f.next, b} : b \in mates} /\ mates \subseteq DOMAIN f.staff
  BY DEF Members
<1>9. n = f.next + 1
  OBVIOUS
<1> HIDE DEF staff, ties, fresh, n, g, mates
<1>10. g = [staff |-> staff, ties |-> ties, next |-> n, newHires |-> fresh, departed |-> f.departed,
            headcount |-> f.headcount, charged |-> f.charged, charges |-> f.charges]
  BY <1>1, <1>2
<1>11. g.staff = staff /\ g.ties = ties /\ g.next = n /\ g.newHires = fresh /\ g.departed = f.departed
       /\ g.headcount = f.headcount /\ g.charged = f.charged /\ g.charges = f.charges
  BY <1>10
<1>12. staff \in [DOMAIN staff -> Staffer]
  BY <1>3, <1>5, <1>6, <1>7
<1>13. fresh \in Seq(Nat) /\ OnList(fresh, f.next) /\ \A x : OnList(f.newHires, x) => OnList(fresh, x)
  <2>1. PICK l, x : l = f.newHires /\ x = f.next
    OBVIOUS
  <2>2. l \in Seq(Nat) /\ x \in Nat /\ fresh = Append(l, x)
    BY <1>3, <2>1 DEF fresh
  <2>3. fresh \in Seq(Nat) /\ Len(fresh) = Len(l) + 1 /\ Len(l) \in Nat
    BY <2>2
  <2>4. DOMAIN l = 1 .. Len(l) /\ DOMAIN fresh = 1 .. Len(l) + 1
    BY <2>2, <2>3
  <2>5. fresh[Len(l) + 1] = x /\ \A i \in 1 .. Len(l) : fresh[i] = l[i]
    BY <2>2
  <2>6. OnList(fresh, x)
    <3>1. Len(l) + 1 \in 1 .. Len(l) + 1
      BY <2>3
    <3> QED BY <2>4, <2>5, <3>1 DEF OnList
  <2>7. ASSUME NEW y, OnList(l, y) PROVE OnList(fresh, y)
    <3>1. PICK i \in 1 .. Len(l) : l[i] = y
      BY <2>4, <2>7 DEF OnList
    <3>2. i \in 1 .. Len(l) + 1 /\ fresh[i] = y
      BY <2>3, <2>5, <3>1
    <3> QED BY <2>4, <3>2 DEF OnList
  <2> QED BY <2>1, <2>3, <2>6, <2>7
<1>14. DOMAIN staff \subseteq 0 .. n - 1 /\ n \in Nat
  BY <1>3, <1>5, <1>9
<1>15. IsFirm(g)
  <2>1. g = [staff |-> g.staff, ties |-> g.ties, next |-> g.next, newHires |-> g.newHires, departed |-> g.departed,
             headcount |-> g.headcount, charged |-> g.charged, charges |-> g.charges]
    BY <1>10, <1>11
  <2>2. g.headcount \in Nat /\ g.charges \in Nat /\ g.departed \in Seq(Leaver)
    BY <1>11 DEF IsFirm
  <2> QED BY <1>11, <1>12, <1>13, <1>14, <2>1, <2>2 DEF IsFirm
<1>16. Tied(g)
  <2>1. ASSUME NEW t \in f.ties PROVE t \subseteq DOMAIN staff /\ Cardinality(t) \in {1, 2}
    <3>1. t \subseteq DOMAIN f.staff /\ Cardinality(t) \in {1, 2}
      BY DEF Tied
    <3> QED BY <1>5, <3>1
  <2>2. ASSUME NEW b \in mates PROVE {f.next, b} \subseteq DOMAIN staff /\ Cardinality({f.next, b}) \in {1, 2}
    <3>1. b \in DOMAIN f.staff /\ f.next # b
      BY <1>4, <1>8
    <3>2. Cardinality({f.next, b}) = 2
      BY <3>1, PairOf
    <3> QED BY <1>5, <3>1, <3>2
  <2>3. ASSUME NEW t \in ties PROVE t \subseteq DOMAIN staff /\ Cardinality(t) \in {1, 2}
    <3>1. CASE t \in f.ties
      BY <2>1, <3>1
    <3>2. CASE t \notin f.ties
      <4>1. PICK b \in mates : t = {f.next, b}
        BY <1>8, <3>2
      <4> QED BY <2>2, <4>1
    <3> QED BY <3>1, <3>2
  <2> QED BY <1>11, <2>3 DEF Tied
<1>17. f.next .. n - 1 = {f.next}
  BY <1>3, <1>9
<1>18. Grown(f, g)
  <2>1. DOMAIN g.staff = DOMAIN f.staff \cup (f.next .. g.next - 1) /\ f.next <= g.next
    BY <1>3, <1>5, <1>9, <1>11, <1>17
  <2>2. \A x \in f.next .. g.next - 1 : g.staff[x].quitNear = 0 /\ OnList(g.newHires, x)
    <3>1. \A x \in f.next .. g.next - 1 : x = f.next
      BY <1>11, <1>17
    <3>2. g.staff[f.next].quitNear = 0 /\ OnList(g.newHires, f.next)
      BY <1>5, <1>6, <1>11, <1>13
    <3> QED BY <3>1, <3>2
  <2>3. \A x \in DOMAIN f.staff : g.staff[x] = f.staff[x]
    BY <1>5, <1>11
  <2>4. \A x : OnList(f.newHires, x) => OnList(g.newHires, x)
    BY <1>11, <1>13
  <2> QED BY <1>11, <1>15, <1>16, <2>1, <2>2, <2>3, <2>4 DEF Grown
<1>19. Members(staff, team) = Members(f.staff, team) \cup {f.next} /\ f.next \notin Members(f.staff, team)
  BY <1>4, <1>5, <1>6 DEF Members
<1>20. ASSUME NEW other, other # team PROVE Members(staff, other) = Members(f.staff, other)
  BY <1>4, <1>5, <1>6, <1>20 DEF Members
<1> QED BY <1>11, <1>18, <1>19, <1>20 DEF g

LEMMA GrownGrown ==
  ASSUME NEW f, NEW h, NEW g, IsFirm(f), Grown(f, h), Grown(h, g)
  PROVE  Grown(f, g)
<1>1. f.next \in Nat /\ h.next \in Nat /\ g.next \in Nat /\ f.next <= h.next /\ h.next <= g.next
  BY DEF Grown, IsFirm
<1>2. \A x : x \in f.next .. g.next - 1 <=> (x \in f.next .. h.next - 1 \/ x \in h.next .. g.next - 1)
  BY <1>1
<1>3. DOMAIN h.staff = DOMAIN f.staff \cup (f.next .. h.next - 1) /\ DOMAIN g.staff = DOMAIN h.staff \cup (h.next .. g.next - 1)
      /\ (\A x \in DOMAIN f.staff : h.staff[x] = f.staff[x]) /\ (\A x \in DOMAIN h.staff : g.staff[x] = h.staff[x])
  BY DEF Grown
<1>4. /\ \A x \in f.next .. h.next - 1 : h.staff[x].quitNear = 0 /\ OnList(h.newHires, x)
      /\ \A x \in h.next .. g.next - 1 : g.staff[x].quitNear = 0 /\ OnList(g.newHires, x)
      /\ \A x : OnList(f.newHires, x) => OnList(h.newHires, x)
      /\ \A x : OnList(h.newHires, x) => OnList(g.newHires, x)
  BY DEF Grown
<1>5. DOMAIN g.staff = DOMAIN f.staff \cup (f.next .. g.next - 1)
  BY <1>2, <1>3
<1>6. \A x \in DOMAIN f.staff : g.staff[x] = f.staff[x]
  BY <1>3
<1>7. \A x \in f.next .. g.next - 1 : g.staff[x].quitNear = 0 /\ OnList(g.newHires, x)
  BY <1>2, <1>3, <1>4
<1>8. \A x : OnList(f.newHires, x) => OnList(g.newHires, x)
  BY <1>4
<1>9. IsFirm(g) /\ Tied(g) /\ g.departed = f.departed /\ g.headcount = f.headcount /\ g.charged = f.charged /\ g.charges = f.charges
  BY DEF Grown
<1>10. f.next <= g.next
  BY <1>1
<1> QED BY <1>5, <1>6, <1>7, <1>8, <1>9, <1>10 DEF Grown

LEMMA GrownSelf ==
  ASSUME NEW f, IsFirm(f), Tied(f)
  PROVE  Grown(f, f)
<1>1. f.next \in Nat
  BY DEF IsFirm
<1>2. f.next .. f.next - 1 = {}
  BY <1>1
<1> QED BY <1>1, <1>2 DEF Grown

LEMMA FilledRuns ==
  ASSUME NEW f, NEW team, NEW toxic
  PROVE  \E run : run[0] = f /\ (\A n \in 1 .. TeamSize : run[n] = (IF Cardinality(Members(run[n - 1].staff, team)) < TeamSize THEN Hire(run[n - 1], team, toxic) ELSE run[n - 1])) /\ Filled(f, team, toxic) = run[TeamSize]
<1> DEFINE Runs(g, m) == g = [n \in 0 .. m |-> IF n = 0 THEN f ELSE (IF Cardinality(Members(g[n - 1].staff, team)) < TeamSize THEN Hire(g[n - 1], team, toxic) ELSE g[n - 1])]
           T == {m \in Nat : \E g : Runs(g, m)}
           run == CHOOSE g : Runs(g, TeamSize)
<1>0. TeamSize \in Nat
  BY HrAssumption
<1>1. 0 \in T
  <2>1. Runs([n \in 0 .. 0 |-> f], 0)
    OBVIOUS
  <2> QED BY <2>1
<1>2. ASSUME NEW m \in Nat, m \in T PROVE m + 1 \in T
  <2>1. PICK g : Runs(g, m)
    BY <1>2
  <2>5. PICK x : x = g[m]
    OBVIOUS
  <2>6. PICK y : y = (IF Cardinality(Members(x.staff, team)) < TeamSize THEN Hire(x, team, toxic) ELSE x)
    OBVIOUS
  <2> DEFINE h == [n \in 0 .. m + 1 |-> IF n = m + 1 THEN y ELSE g[n]]
  <2>2. ASSUME NEW n \in 0 .. m + 1 PROVE h[n] = IF n = 0 THEN f ELSE (IF Cardinality(Members(h[n - 1].staff, team)) < TeamSize THEN Hire(h[n - 1], team, toxic) ELSE h[n - 1])
    <3>1. CASE n = 0
      BY <2>1, <3>1
    <3>2. CASE n = m + 1
      <4>1. n # 0 /\ n - 1 = m /\ m \in 0 .. m + 1 /\ m # m + 1
        BY <3>2
      <4>2. h[m] = x /\ h[n] = y
        BY <2>5, <3>2, <4>1
      <4> HIDE DEF h
      <4>3. h[n - 1] = x /\ n - 1 = m
        BY <4>1, <4>2
      <4>4. (m + 1) - 1 = m
        OBVIOUS
      <4>5. y = (IF Cardinality(Members(h[n - 1].staff, team)) < TeamSize THEN Hire(h[n - 1], team, toxic) ELSE h[n - 1])
        BY <2>6, <4>3, <4>4
      <4> QED BY <4>1, <4>2, <4>5
    <3>3. CASE n \in 1 .. m
      <4>1. n # 0 /\ n - 1 \in 0 .. m /\ n - 1 # m + 1 /\ n # m + 1 /\ n \in 0 .. m
        BY <3>3
      <4>2. h[n - 1] = g[n - 1] /\ h[n] = g[n]
        BY <4>1
      <4>3. g[n] = (IF Cardinality(Members(g[n - 1].staff, team)) < TeamSize THEN Hire(g[n - 1], team, toxic) ELSE g[n - 1])
        BY <2>1, <4>1
      <4> HIDE DEF h
      <4> QED BY <4>1, <4>2, <4>3
    <3> QED BY <3>1, <3>2, <3>3
  <2>3. h = [n \in 0 .. m + 1 |-> h[n]]
    OBVIOUS
  <2> HIDE DEF h
  <2>4. Runs(h, m + 1)
    BY <2>2, <2>3
  <2> QED BY <2>4
<1>3. \E g : Runs(g, TeamSize)
  <2>1. Nat \subseteq T
    <3> HIDE DEF T
    <3> QED BY <1>1, <1>2, Induct
  <2> QED BY <1>0, <2>1
<1>4. Runs(run, TeamSize)
  <2> HIDE DEF Runs
  <2> QED BY <1>3, Zenon
<1>5. Filled(f, team, toxic) = run[TeamSize]
  BY Zenon DEF Filled
<1> HIDE DEF run
<1>6. run[0] = f /\ \A n \in 1 .. TeamSize : run[n] = (IF Cardinality(Members(run[n - 1].staff, team)) < TeamSize THEN Hire(run[n - 1], team, toxic) ELSE run[n - 1])
  BY <1>0, <1>4
<1> QED BY <1>5, <1>6

LEMMA StaffedRuns ==
  ASSUME NEW f, NEW toxic
  PROVE  \E run : run[0] = f /\ (\A n \in 1 .. Teams : run[n] = Filled(run[n - 1], n - 1, toxic)) /\ Staffed(f, toxic) = run[Teams]
<1> DEFINE Runs(g, m) == g = [n \in 0 .. m |-> IF n = 0 THEN f ELSE Filled(g[n - 1], n - 1, toxic)]
           T == {m \in Nat : \E g : Runs(g, m)}
           run == CHOOSE g : Runs(g, Teams)
<1>0. Teams \in Nat
  BY HrAssumption
<1>1. 0 \in T
  <2>1. Runs([n \in 0 .. 0 |-> f], 0)
    OBVIOUS
  <2> QED BY <2>1
<1>2. ASSUME NEW m \in Nat, m \in T PROVE m + 1 \in T
  <2>1. PICK g : Runs(g, m)
    BY <1>2
  <2>5. PICK x : x = g[m]
    OBVIOUS
  <2>6. PICK y : y = Filled(x, (m + 1) - 1, toxic)
    OBVIOUS
  <2> DEFINE h == [n \in 0 .. m + 1 |-> IF n = m + 1 THEN y ELSE g[n]]
  <2>2. ASSUME NEW n \in 0 .. m + 1 PROVE h[n] = IF n = 0 THEN f ELSE Filled(h[n - 1], n - 1, toxic)
    <3>1. CASE n = 0
      BY <2>1, <3>1
    <3>2. CASE n = m + 1
      <4>1. n # 0 /\ n - 1 = m /\ m \in 0 .. m + 1 /\ m # m + 1
        BY <3>2
      <4>2. h[m] = x /\ h[n] = y
        BY <2>5, <3>2, <4>1
      <4> HIDE DEF h
      <4>3. h[n - 1] = x /\ n - 1 = m
        BY <4>1, <4>2
      <4>4. (m + 1) - 1 = m
        OBVIOUS
      <4>5. y = Filled(h[n - 1], n - 1, toxic)
        BY <2>6, <4>3, <4>4
      <4> QED BY <4>1, <4>2, <4>5
    <3>3. CASE n \in 1 .. m
      <4>1. n # 0 /\ n - 1 \in 0 .. m /\ n - 1 # m + 1 /\ n # m + 1 /\ n \in 0 .. m
        BY <3>3
      <4>2. h[n - 1] = g[n - 1] /\ h[n] = g[n]
        BY <4>1
      <4>3. g[n] = Filled(g[n - 1], n - 1, toxic)
        BY <2>1, <4>1
      <4> HIDE DEF h
      <4> QED BY <4>1, <4>2, <4>3
    <3> QED BY <3>1, <3>2, <3>3
  <2>3. h = [n \in 0 .. m + 1 |-> h[n]]
    OBVIOUS
  <2> HIDE DEF h
  <2>4. Runs(h, m + 1)
    BY <2>2, <2>3
  <2> QED BY <2>4
<1>3. \E g : Runs(g, Teams)
  <2>1. Nat \subseteq T
    <3> HIDE DEF T
    <3> QED BY <1>1, <1>2, Induct
  <2> QED BY <1>0, <2>1
<1>4. Runs(run, Teams)
  <2> HIDE DEF Runs
  <2> QED BY <1>3, Zenon
<1>5. Staffed(f, toxic) = run[Teams]
  BY Zenon DEF Staffed
<1> HIDE DEF run
<1>6. run[0] = f /\ \A n \in 1 .. Teams : run[n] = Filled(run[n - 1], n - 1, toxic)
  BY <1>0, <1>4
<1> QED BY <1>5, <1>6

(* A team that is not too large is full after as many rounds as it has places. *)
FilledAt(f, team, k, h) ==
  /\ Grown(f, h)
  /\ k <= Cardinality(Members(h.staff, team)) /\ Cardinality(Members(h.staff, team)) <= TeamSize
  /\ \A other : other # team => Members(h.staff, other) = Members(f.staff, other)

LEMMA FilledOne ==
  ASSUME NEW f, IsFirm(f), NEW team \in Posts, NEW toxic, NEW k \in Nat, k + 1 <= TeamSize, NEW h, FilledAt(f, team, k, h),
         NEW g, g = IF Cardinality(Members(h.staff, team)) < TeamSize THEN Hire(h, team, toxic) ELSE h
  PROVE  FilledAt(f, team, k + 1, g)
<1>1. IsFirm(h) /\ Tied(h) /\ Grown(f, h)
  BY DEF FilledAt, Grown
<1>2. PICK M : M = Members(h.staff, team)
  OBVIOUS
<1>3. IsFiniteSet(M) /\ Cardinality(M) \in Nat
  BY <1>1, <1>2, StaffFinite
<1>4. k <= Cardinality(M) /\ Cardinality(M) <= TeamSize
      /\ \A other : other # team => Members(h.staff, other) = Members(f.staff, other)
  BY <1>2 DEF FilledAt
<1>5. TeamSize \in Nat
  BY HrAssumption
<1>6. CASE Cardinality(M) < TeamSize
  <2>1. g = Hire(h, team, toxic)
    BY <1>2, <1>6
  <2>2. /\ Grown(h, g) /\ Members(g.staff, team) = M \cup {h.next} /\ h.next \notin M
        /\ \A other : other # team => Members(g.staff, other) = Members(h.staff, other)
    BY <1>1, <1>2, <2>1, HireIs
  <2>3. Cardinality(M \cup {h.next}) = Cardinality(M) + 1
    BY <1>3, <2>2, FS_AddElement
  <2>4. Grown(f, g)
    BY <1>1, <2>2, GrownGrown
  <2>5. k + 1 <= Cardinality(M) + 1 /\ Cardinality(M) + 1 <= TeamSize
    BY <1>3, <1>4, <1>5, <1>6
  <2> QED BY <1>4, <2>2, <2>3, <2>4, <2>5 DEF FilledAt
<1>7. CASE ~(Cardinality(M) < TeamSize)
  <2>1. g = h
    BY <1>2, <1>7
  <2>2. k + 1 <= Cardinality(M)
    BY <1>3, <1>4, <1>5, <1>7
  <2> QED BY <1>1, <1>2, <1>4, <2>1, <2>2 DEF FilledAt
<1> QED BY <1>6, <1>7

LEMMA FilledIs ==
  ASSUME NEW f, IsFirm(f), Tied(f), NEW team \in Posts, NEW toxic, Cardinality(Members(f.staff, team)) <= TeamSize
  PROVE  /\ Grown(f, Filled(f, team, toxic))
         /\ Cardinality(Members(Filled(f, team, toxic).staff, team)) = TeamSize
         /\ \A other : other # team => Members(Filled(f, team, toxic).staff, other) = Members(f.staff, other)
<1>1. PICK run : /\ run[0] = f
                 /\ \A n \in 1 .. TeamSize : run[n] = (IF Cardinality(Members(run[n - 1].staff, team)) < TeamSize
                                                       THEN Hire(run[n - 1], team, toxic) ELSE run[n - 1])
                 /\ Filled(f, team, toxic) = run[TeamSize]
  BY FilledRuns
<1>2. TeamSize \in Nat
  BY HrAssumption
<1> DEFINE T == {k \in Nat : k <= TeamSize => FilledAt(f, team, k, run[k])}
<1>3. 0 \in T
  <2>1. Cardinality(Members(f.staff, team)) \in Nat
    BY StaffFinite
  <2>2. FilledAt(f, team, 0, f)
    BY <2>1, GrownSelf DEF FilledAt
  <2> QED BY <1>1, <2>2
<1>4. ASSUME NEW k \in Nat, k \in T PROVE k + 1 \in T
  <2>1. ASSUME k + 1 <= TeamSize PROVE FilledAt(f, team, k + 1, run[k + 1])
    <3>1. k + 1 \in 1 .. TeamSize /\ (k + 1) - 1 = k /\ k <= TeamSize
      BY <1>2, <2>1
    <3>2. PICK h, g : h = run[k] /\ g = run[k + 1]
      OBVIOUS
    <3>3. FilledAt(f, team, k, h)
      BY <1>4, <3>1, <3>2
    <3>4. g = IF Cardinality(Members(h.staff, team)) < TeamSize THEN Hire(h, team, toxic) ELSE h
      BY <1>1, <3>1, <3>2
    <3>5. FilledAt(f, team, k + 1, g)
      BY <2>1, <3>3, <3>4, FilledOne
    <3> QED BY <3>2, <3>5
  <2> QED BY <2>1
<1>5. FilledAt(f, team, TeamSize, run[TeamSize])
  <2>1. Nat \subseteq T
    <3> HIDE DEF T
    <3> QED BY <1>3, <1>4, Induct
  <2> QED BY <1>2, <2>1
<1>6. PICK g : g = run[TeamSize]
  OBVIOUS
<1>7. FilledAt(f, team, TeamSize, g) /\ Filled(f, team, toxic) = g
  BY <1>1, <1>5, <1>6
<1>8. Cardinality(Members(g.staff, team)) \in Nat
  BY <1>7, StaffFinite DEF FilledAt, Grown
<1>9. Cardinality(Members(g.staff, team)) = TeamSize
  BY <1>2, <1>7, <1>8 DEF FilledAt
<1> QED BY <1>7, <1>9 DEF FilledAt

StaffedAt(f, k, h) ==
  /\ Grown(f, h) /\ Small(h)
  /\ \A team \in Posts : team < k => Cardinality(Members(h.staff, team)) = TeamSize

LEMMA StaffedOne ==
  ASSUME NEW f, IsFirm(f), NEW toxic, NEW k \in Posts, NEW h, StaffedAt(f, k, h), NEW g, g = Filled(h, k, toxic)
  PROVE  StaffedAt(f, k + 1, g)
<1>1. IsFirm(h) /\ Tied(h) /\ Grown(f, h) /\ Small(h)
  BY DEF StaffedAt, Grown
<1>2. /\ Grown(h, g) /\ Cardinality(Members(g.staff, k)) = TeamSize
      /\ \A other : other # k => Members(g.staff, other) = Members(h.staff, other)
  BY <1>1, FilledIs DEF Small
<1>3. Grown(f, g)
  BY <1>1, <1>2, GrownGrown
<1>4. TeamSize \in Nat /\ Teams \in Nat
  BY HrAssumption
<1>5. Small(g)
  <2>1. ASSUME NEW team \in Posts PROVE Cardinality(Members(g.staff, team)) <= TeamSize
    <3>1. CASE team = k
      BY <1>2, <1>4, <3>1
    <3>2. CASE team # k
      BY <1>1, <1>2, <3>2 DEF Small
    <3> QED BY <3>1, <3>2
  <2> QED BY <2>1 DEF Small
<1>6. ASSUME NEW team \in Posts, team < k + 1 PROVE Cardinality(Members(g.staff, team)) = TeamSize
  <2>1. CASE team = k
    BY <1>2, <2>1
  <2>2. CASE team # k
    <3>1. team < k
      BY <1>4, <1>6, <2>2 DEF Posts
    <3> QED BY <1>2, <2>2, <3>1 DEF StaffedAt
  <2> QED BY <2>1, <2>2
<1> QED BY <1>3, <1>5, <1>6 DEF StaffedAt

LEMMA StaffedIs ==
  ASSUME NEW f, IsFirm(f), Tied(f), Small(f), NEW toxic
  PROVE  Grown(f, Staffed(f, toxic)) /\ AllStaffed(Staffed(f, toxic))
<1>1. PICK run : /\ run[0] = f
                 /\ \A n \in 1 .. Teams : run[n] = Filled(run[n - 1], n - 1, toxic)
                 /\ Staffed(f, toxic) = run[Teams]
  BY StaffedRuns
<1>2. Teams \in Nat
  BY HrAssumption
<1> DEFINE T == {k \in Nat : k <= Teams => StaffedAt(f, k, run[k])}
<1>3. 0 \in T
  <2>1. \A team \in Posts : ~(team < 0)
    BY <1>2 DEF Posts
  <2>2. StaffedAt(f, 0, f)
    BY <2>1, GrownSelf DEF StaffedAt
  <2> QED BY <1>1, <2>2
<1>4. ASSUME NEW k \in Nat, k \in T PROVE k + 1 \in T
  <2>1. ASSUME k + 1 <= Teams PROVE StaffedAt(f, k + 1, run[k + 1])
    <3>1. k + 1 \in 1 .. Teams /\ (k + 1) - 1 = k /\ k <= Teams /\ k \in Posts
      BY <1>2, <2>1 DEF Posts
    <3>2. PICK h, g : h = run[k] /\ g = run[k + 1]
      OBVIOUS
    <3>3. StaffedAt(f, k, h)
      BY <1>4, <3>1, <3>2
    <3>4. g = Filled(h, k, toxic)
      BY <1>1, <3>1, <3>2
    <3>5. StaffedAt(f, k + 1, g)
      BY <3>1, <3>3, <3>4, StaffedOne
    <3> QED BY <3>2, <3>5
  <2> QED BY <2>1
<1>5. StaffedAt(f, Teams, run[Teams])
  <2>1. Nat \subseteq T
    <3> HIDE DEF T
    <3> QED BY <1>3, <1>4, Induct
  <2> QED BY <1>2, <2>1
<1>6. \A team \in Posts : team < Teams
  BY <1>2 DEF Posts
<1>7. PICK g : g = run[Teams]
  OBVIOUS
<1>8. StaffedAt(f, Teams, g) /\ Staffed(f, toxic) = g
  BY <1>1, <1>5, <1>7
<1> QED BY <1>6, <1>8 DEF StaffedAt, AllStaffed

LEMMA PendingSame ==
  ASSUME NEW w, NEW at, NEW next, NEW name, Moves(w, at, next, name), name # "knowledge_loss",
         NEW b, NEW c, c.quits = b.quits, c.left = b.left
  PROVE  Pending(w, next, c) = Pending(w, at, b)
<1>1. Passed(w, next, "knowledge_loss") <=> Passed(w, at, "knowledge_loss")
  BY DEF Moves
<1> QED BY <1>1 DEF Pending

LEMMA AccountedSame ==
  ASSUME NEW w, NEW at, NEW next, NEW name, Moves(w, at, next, name), name # "knowledge_loss",
         NEW f, NEW b, NEW g, NEW c, c.quits = b.quits, c.left = b.left, Accounted(w, at, f, b),
         g.departed = f.departed /\ g.headcount = f.headcount /\ g.charged = f.charged /\ g.charges = f.charges
  PROVE  Accounted(w, next, g, c)
<1>1. Pending(w, next, c) = Pending(w, at, b)
  BY PendingSame
<1>2. Lists(g.departed, c.left, Pending(w, next, c)) /\ Cardinality(c.quits) <= g.headcount
  BY <1>1 DEF Accounted
<1>3. WiredIn(w, "knowledge_loss") => Charged(g, c.left, DOMAIN c.left \ Pending(w, next, c))
  BY <1>1 DEF Accounted, Charged
<1> QED BY <1>2, <1>3 DEF Accounted

LEMMA AnnouncedSame ==
  ASSUME NEW w, NEW at, NEW next, NEW name, Moves(w, at, next, name),
         NEW b, NEW c, c.quits = b.quits, c.left = b.left, c.reported = b.reported, Announced(w, at, b)
  PROVE  Announced(w, next, c)
<1>1. Passed(w, at, "org_performance") => Passed(w, next, "org_performance")
  BY DEF Moves
<1> QED BY <1>1 DEF Announced

LEMMA HiringKeeps == ASSUME HrInv, Hiring PROVE HrInv'
<1> DEFINE w == month.wiring
           at == month.at
           next == month'.at
<1>1. /\ MonthOK /\ BooksOK /\ IsFirm(firm) /\ Tied(firm) /\ Rolled(firm, books) /\ Small(firm)
      /\ Unsettled(w, at, firm, books) /\ Accounted(w, at, firm, books) /\ Announced(w, at, books)
      /\ Welcomed(w, at, firm, books)
  BY DEF HrInv
<1>2. Turn("hiring")
  BY DEF Hiring
<1>3. MonthOK' /\ month'.wiring = w /\ Moves(w, at, next, "hiring")
  BY <1>1, <1>2, OnTurn
<1>4. PICK toxic : firm' = Staffed(firm, toxic) /\ books' = [books EXCEPT !.hired = firm.next .. firm'.next - 1]
  BY DEF Hiring
<1>5. PICK g, c : g = firm' /\ c = books'
  OBVIOUS
<1>6. Grown(firm, g) /\ AllStaffed(g)
  BY <1>1, <1>4, <1>5, StaffedIs
<1>7. c = [quits |-> books.quits, left |-> books.left, hired |-> firm.next .. g.next - 1, reported |-> books.reported]
  BY <1>1, <1>4, <1>5 DEF BooksOK
<1>8. c.quits = books.quits /\ c.left = books.left /\ c.hired = firm.next .. g.next - 1 /\ c.reported = books.reported
  BY <1>7
<1>9. BooksOK'
  <2>1. c = [quits |-> c.quits, left |-> c.left, hired |-> c.hired, reported |-> c.reported]
    BY <1>7, <1>8
  <2> QED BY <1>5, <2>1 DEF BooksOK
<1>10. /\ IsFirm(g) /\ Tied(g) /\ firm.next <= g.next /\ DOMAIN g.staff = DOMAIN firm.staff \cup (firm.next .. g.next - 1)
       /\ \A x \in DOMAIN firm.staff : g.staff[x] = firm.staff[x]
       /\ \A x \in firm.next .. g.next - 1 : g.staff[x].quitNear = 0 /\ OnList(g.newHires, x)
       /\ g.departed = firm.departed /\ g.headcount = firm.headcount /\ g.charged = firm.charged /\ g.charges = firm.charges
  BY <1>6 DEF Grown
<1>11. firm.next \in Nat /\ g.next \in Nat
  BY <1>1, <1>10 DEF IsFirm
<1>12. /\ DOMAIN firm.staff \cap DOMAIN books.left = {} /\ DOMAIN firm.staff \cup DOMAIN books.left = 0 .. firm.next - 1
       /\ books.quits \subseteq DOMAIN books.left
       /\ \A id \in DOMAIN books.left : books.left[id].team \in Posts /\ books.left[id].near \subseteq 0 .. firm.next - 1
  BY <1>1 DEF Rolled
<1>13. \A x : x \in 0 .. g.next - 1 <=> x \in 0 .. firm.next - 1 \/ x \in firm.next .. g.next - 1
  BY <1>10, <1>11
<1>14. \A x : ~(x \in 0 .. firm.next - 1 /\ x \in firm.next .. g.next - 1)
  BY <1>11
<1>15. Rolled(g, c)
  <2>1. DOMAIN g.staff \cap DOMAIN c.left = {} /\ DOMAIN g.staff \cup DOMAIN c.left = 0 .. g.next - 1
    BY <1>8, <1>10, <1>12, <1>13, <1>14
  <2>2. \A id \in DOMAIN c.left : c.left[id].team \in Posts /\ c.left[id].near \subseteq 0 .. g.next - 1
    BY <1>8, <1>12, <1>13
  <2> QED BY <1>8, <1>12, <2>1, <2>2 DEF Rolled
<1>16. Unsettled(w, next, g, c)
  <2>1. Passed(w, next, "turnover") <=> Passed(w, at, "turnover")
    BY <1>3 DEF Moves
  <2>2. ASSUME Feels(firm, books) PROVE Feels(g, c)
    <3>1. ASSUME NEW x \in DOMAIN g.staff PROVE g.staff[x].quitNear = Cardinality({q \in books.quits : x \in books.left[q].near})
      <4>1. CASE x \in DOMAIN firm.staff
        BY <1>10, <2>2, <4>1 DEF Feels
      <4>2. CASE x \notin DOMAIN firm.staff
        <5>1. x \in firm.next .. g.next - 1
          BY <1>10, <4>2
        <5>2. \A q \in books.quits : x \notin books.left[q].near
          BY <1>12, <1>14, <5>1
        <5>3. {q \in books.quits : x \in books.left[q].near} = {}
          BY <5>2
        <5>4. Cardinality({q \in books.quits : x \in books.left[q].near}) = 0
          BY <5>3, FS_EmptySet
        <5> QED BY <1>10, <5>1, <5>4
      <4> QED BY <4>1, <4>2
    <3> QED BY <1>8, <3>1 DEF Feels
  <2> QED BY <1>1, <1>8, <2>1, <2>2 DEF Unsettled
<1>17. Accounted(w, next, g, c)
  BY <1>1, <1>3, <1>8, <1>10, AccountedSame
<1>18. Announced(w, next, c)
  BY <1>1, <1>3, <1>8, AnnouncedSame
<1>19. Small(g) /\ Refilled(w, next, g)
  BY <1>6, HrAssumption DEF AllStaffed, Small, Refilled
<1>20. Welcomed(w, next, g, c)
  <2>1. ~Passed(w, next, "socialization")
    BY <1>3, Stages DEF Moves
  <2>2. \A id \in c.hired : \E i \in DOMAIN g.newHires : g.newHires[i] = id
    BY <1>8, <1>10 DEF OnList
  <2> QED BY <2>1, <2>2 DEF Welcomed
<1> QED BY <1>3, <1>5, <1>9, <1>10, <1>15, <1>16, <1>17, <1>18, <1>19, <1>20 DEF HrInv

(* The same people in the same teams, feeling the same quits. *)
SameFolk(f, g) ==
  /\ IsFirm(g) /\ DOMAIN g.staff = DOMAIN f.staff /\ g.ties = f.ties /\ g.next = f.next
  /\ \A x \in DOMAIN f.staff : g.staff[x].team = f.staff[x].team /\ g.staff[x].quitNear = f.staff[x].quitNear

LEMMA FolkKept ==
  ASSUME NEW f, NEW b, NEW g, NEW c, Tied(f), Rolled(f, b), Small(f), SameFolk(f, g), c.quits = b.quits, c.left = b.left
  PROVE  /\ Tied(g) /\ Rolled(g, c) /\ Small(g)
         /\ Feels(f, b) => Feels(g, c)
         /\ AllStaffed(f) => AllStaffed(g)
<1>1. /\ DOMAIN g.staff = DOMAIN f.staff /\ g.ties = f.ties /\ g.next = f.next
      /\ \A x \in DOMAIN f.staff : g.staff[x].team = f.staff[x].team /\ g.staff[x].quitNear = f.staff[x].quitNear
  BY DEF SameFolk
<1>2. \A team : Members(g.staff, team) = Members(f.staff, team)
  BY <1>1 DEF Members
<1>3. Small(g) /\ (AllStaffed(f) => AllStaffed(g))
  BY <1>2 DEF Small, AllStaffed
<1>4. Tied(g) /\ Rolled(g, c)
  BY <1>1 DEF Tied, Rolled
<1>5. Feels(f, b) => Feels(g, c)
  BY <1>1 DEF Feels
<1> QED BY <1>3, <1>4, <1>5

LEMMA CarriesOn ==
  ASSUME HrInv, NEW name, Turn(name), name # "turnover", name # "hiring",
         NEW g, g = firm', NEW c, c = books', SameFolk(firm, g), c.quits = books.quits, c.left = books.left
  PROVE  /\ MonthOK' /\ month'.wiring = month.wiring /\ month'.count = month.count
         /\ Moves(month.wiring, month.at, month'.at, name)
         /\ IsFirm(g) /\ Tied(g) /\ Rolled(g, c) /\ Small(g) /\ Unsettled(month.wiring, month'.at, g, c)
         /\ (month.count > 0 => Refilled(month.wiring, month'.at, g))
<1> DEFINE w == month.wiring
           at == month.at
           next == month'.at
<1>1. /\ MonthOK /\ Tied(firm) /\ Rolled(firm, books) /\ Small(firm) /\ Unsettled(w, at, firm, books)
      /\ (month.count > 0 => Refilled(w, at, firm))
  BY DEF HrInv
<1>2. MonthOK' /\ month'.wiring = w /\ month'.count = month.count /\ Moves(w, at, next, name)
  BY <1>1, OnTurn
<1>3. /\ Tied(g) /\ Rolled(g, c) /\ Small(g)
      /\ Feels(firm, books) => Feels(g, c)
      /\ AllStaffed(firm) => AllStaffed(g)
  BY <1>1, FolkKept
<1>4. (Passed(w, next, "turnover") <=> Passed(w, at, "turnover")) /\ (Passed(w, next, "hiring") <=> Passed(w, at, "hiring"))
  BY <1>2 DEF Moves
<1>5. Unsettled(w, next, g, c)
  BY <1>1, <1>3, <1>4 DEF Unsettled
<1>6. month.count > 0 => Refilled(w, next, g)
  BY <1>1, <1>3, <1>4 DEF Refilled
<1>7. IsFirm(g)
  BY DEF SameFolk
<1> QED BY <1>2, <1>3, <1>5, <1>6, <1>7

LEMMA WelcomedSame ==
  ASSUME NEW w, NEW at, NEW next, NEW name, Moves(w, at, next, name), name # "socialization",
         NEW f, NEW b, NEW g, NEW c, Welcomed(w, at, f, b), g.newHires = f.newHires, c.hired = b.hired,
         DOMAIN g.staff = DOMAIN f.staff, \A x \in DOMAIN f.staff : g.staff[x].socialized = f.staff[x].socialized
  PROVE  Welcomed(w, next, g, c)
<1>1. Passed(w, next, "socialization") <=> Passed(w, at, "socialization")
  BY DEF Moves
<1> QED BY <1>1 DEF Welcomed

(* A mechanism that rewrites employees one by one. *)
Rewrite(f, staff, list, g) ==
  /\ list \in Seq(Nat) /\ DOMAIN staff = DOMAIN f.staff /\ staff \in [DOMAIN f.staff -> Staffer]
  /\ \A x \in DOMAIN f.staff : staff[x].team = f.staff[x].team /\ staff[x].quitNear = f.staff[x].quitNear
  /\ g = [f EXCEPT !.staff = staff, !.newHires = list]
LEMMA Rewrites ==
  ASSUME NEW f, IsFirm(f), NEW staff, NEW list, NEW g, Rewrite(f, staff, list, g)
  PROVE  /\ SameFolk(f, g) /\ g.staff = staff /\ g.newHires = list
         /\ g.departed = f.departed /\ g.headcount = f.headcount /\ g.charged = f.charged /\ g.charges = f.charges
<1> list \in Seq(Nat) /\ DOMAIN staff = DOMAIN f.staff /\ staff \in [DOMAIN f.staff -> Staffer]
  BY DEF Rewrite
<1> \A x \in DOMAIN f.staff : staff[x].team = f.staff[x].team /\ staff[x].quitNear = f.staff[x].quitNear
  BY DEF Rewrite
<1> g = [f EXCEPT !.staff = staff, !.newHires = list]
  BY DEF Rewrite
<1>1. f = [staff |-> f.staff, ties |-> f.ties, next |-> f.next, newHires |-> f.newHires, departed |-> f.departed,
           headcount |-> f.headcount, charged |-> f.charged, charges |-> f.charges]
  BY DEF IsFirm
<1>2. g = [staff |-> staff, ties |-> f.ties, next |-> f.next, newHires |-> list, departed |-> f.departed,
           headcount |-> f.headcount, charged |-> f.charged, charges |-> f.charges]
  BY <1>1
<1>3. g.staff = staff /\ g.ties = f.ties /\ g.next = f.next /\ g.newHires = list /\ g.departed = f.departed
      /\ g.headcount = f.headcount /\ g.charged = f.charged /\ g.charges = f.charges
  BY <1>2
<1>4. g = [staff |-> g.staff, ties |-> g.ties, next |-> g.next, newHires |-> g.newHires, departed |-> g.departed,
           headcount |-> g.headcount, charged |-> g.charged, charges |-> g.charges]
  BY <1>2, <1>3
<1>5. f.next \in Nat /\ f.headcount \in Nat /\ f.charges \in Nat /\ DOMAIN f.staff \subseteq 0 .. f.next - 1
      /\ f.departed \in Seq(Leaver)
  BY DEF IsFirm
<1>6. IsFirm(g)
  BY <1>3, <1>4, <1>5 DEF IsFirm
<1>7. SameFolk(f, g)
  BY <1>3, <1>6 DEF SameFolk
<1> QED BY <1>3, <1>7

LEMMA LearningKeeps == ASSUME HrInv, LearningCurve PROVE HrInv'
<1> DEFINE staff == [id \in DOMAIN firm.staff |-> [firm.staff[id] EXCEPT !.tenure = firm.staff[id].tenure + 1]]
<1>1. IsFirm(firm) /\ BooksOK
  BY DEF HrInv
<1>2. Turn("learning_curve") /\ books' = books /\ firm' = [firm EXCEPT !.staff = staff]
  BY DEF LearningCurve
<1>3. ASSUME NEW x \in DOMAIN firm.staff
      PROVE  staff[x] \in Staffer /\ staff[x].team = firm.staff[x].team /\ staff[x].quitNear = firm.staff[x].quitNear
             /\ staff[x].socialized = firm.staff[x].socialized
  <2>1. PICK e \in Staffer : e = firm.staff[x]
    BY <1>1 DEF IsFirm
  <2>2. staff[x] = [e EXCEPT !.tenure = e.tenure + 1] /\ e.tenure \in Nat
    BY <2>1 DEF Staffer
  <2> QED BY <2>1, <2>2 DEF Staffer
<1>4. DOMAIN staff = DOMAIN firm.staff /\ staff = [x \in DOMAIN firm.staff |-> staff[x]]
  OBVIOUS
<1> HIDE DEF staff
<1>5. staff \in [DOMAIN firm.staff -> Staffer]
  BY <1>3, <1>4
<1>6. PICK g, c : g = firm' /\ c = books'
  OBVIOUS
<1>7. g = [firm EXCEPT !.staff = staff, !.newHires = firm.newHires]
  <2>1. [firm EXCEPT !.staff = staff, !.newHires = firm.newHires] = [firm EXCEPT !.staff = staff]
    <3>1. firm = [staff |-> firm.staff, ties |-> firm.ties, next |-> firm.next, newHires |-> firm.newHires,
                  departed |-> firm.departed, headcount |-> firm.headcount, charged |-> firm.charged, charges |-> firm.charges]
      BY <1>1 DEF IsFirm
    <3> QED BY <3>1
  <2> QED BY <1>2, <1>6, <2>1
<1>8. firm.newHires \in Seq(Nat)
  BY <1>1 DEF IsFirm
<1>9. /\ SameFolk(firm, g) /\ g.staff = staff /\ g.newHires = firm.newHires
      /\ g.departed = firm.departed /\ g.headcount = firm.headcount /\ g.charged = firm.charged /\ g.charges = firm.charges
  <2>1. Rewrite(firm, staff, firm.newHires, g)
    BY <1>3, <1>4, <1>5, <1>7, <1>8 DEF Rewrite
  <2> QED BY <1>1, <2>1, Rewrites
<1>10. c = books
  BY <1>2, <1>6
<1> DEFINE w == month.wiring
           at == month.at
           next == month'.at
<1>11. /\ MonthOK' /\ month'.wiring = w /\ month'.count = month.count /\ Moves(w, at, next, "learning_curve")
       /\ IsFirm(g) /\ Tied(g) /\ Rolled(g, c) /\ Small(g) /\ Unsettled(w, next, g, c)
       /\ (month.count > 0 => Refilled(w, next, g))
  BY <1>2, <1>6, <1>9, <1>10, CarriesOn
<1>12. Accounted(w, next, g, c)
  BY <1>9, <1>10, <1>11, AccountedSame DEF HrInv
<1>13. Announced(w, next, c)
  BY <1>10, <1>11, AnnouncedSame DEF HrInv
<1>14. Welcomed(w, next, g, c)
  BY <1>3, <1>4, <1>9, <1>10, <1>11, WelcomedSame DEF HrInv
<1>15. BooksOK'
  BY <1>1, <1>2 DEF BooksOK
<1> QED BY <1>6, <1>11, <1>12, <1>13, <1>14, <1>15 DEF HrInv

LEMMA ToxicKeeps == ASSUME HrInv, ToxicSpread PROVE HrInv'
<1>1. IsFirm(firm) /\ BooksOK
  BY DEF HrInv
<1>16. PICK hit : firm' = [firm EXCEPT !.staff = [id \in DOMAIN firm.staff |->
                      [firm.staff[id] EXCEPT !.toxic = firm.staff[id].toxic \/ id \in hit]]]
  BY DEF ToxicSpread
<1> DEFINE staff == [id \in DOMAIN firm.staff |-> [firm.staff[id] EXCEPT !.toxic = firm.staff[id].toxic \/ id \in hit]]
<1>2. Turn("toxic_spread") /\ books' = books /\ firm' = [firm EXCEPT !.staff = staff]
  BY <1>16 DEF ToxicSpread
<1>3. ASSUME NEW x \in DOMAIN firm.staff
      PROVE  staff[x] \in Staffer /\ staff[x].team = firm.staff[x].team /\ staff[x].quitNear = firm.staff[x].quitNear
             /\ staff[x].socialized = firm.staff[x].socialized
  <2>1. PICK e \in Staffer : e = firm.staff[x]
    BY <1>1 DEF IsFirm
  <2>2. PICK t \in BOOLEAN : t = (e.toxic \/ x \in hit)
    <3>1. CASE e.toxic \/ x \in hit
      <4>1. TRUE = (e.toxic \/ x \in hit)
        BY <3>1
      <4> QED BY <4>1
    <3>2. CASE ~(e.toxic \/ x \in hit)
      <4>1. FALSE = (e.toxic \/ x \in hit)
        BY <3>2
      <4> QED BY <4>1
    <3> QED BY <3>1, <3>2
  <2>3. staff[x] = [e EXCEPT !.toxic = t]
    BY <2>1, <2>2
  <2> QED BY <2>1, <2>3 DEF Staffer
<1>4. DOMAIN staff = DOMAIN firm.staff /\ staff = [x \in DOMAIN firm.staff |-> staff[x]]
  OBVIOUS
<1> HIDE DEF staff
<1>5. staff \in [DOMAIN firm.staff -> Staffer]
  BY <1>3, <1>4
<1>6. PICK g, c : g = firm' /\ c = books'
  OBVIOUS
<1>7. g = [firm EXCEPT !.staff = staff, !.newHires = firm.newHires]
  <2>1. [firm EXCEPT !.staff = staff, !.newHires = firm.newHires] = [firm EXCEPT !.staff = staff]
    <3>1. firm = [staff |-> firm.staff, ties |-> firm.ties, next |-> firm.next, newHires |-> firm.newHires,
                  departed |-> firm.departed, headcount |-> firm.headcount, charged |-> firm.charged, charges |-> firm.charges]
      BY <1>1 DEF IsFirm
    <3> QED BY <3>1
  <2> QED BY <1>2, <1>6, <2>1
<1>8. firm.newHires \in Seq(Nat)
  BY <1>1 DEF IsFirm
<1>9. /\ SameFolk(firm, g) /\ g.staff = staff /\ g.newHires = firm.newHires
      /\ g.departed = firm.departed /\ g.headcount = firm.headcount /\ g.charged = firm.charged /\ g.charges = firm.charges
  <2>1. Rewrite(firm, staff, firm.newHires, g)
    BY <1>3, <1>4, <1>5, <1>7, <1>8 DEF Rewrite
  <2> QED BY <1>1, <2>1, Rewrites
<1>10. c = books
  BY <1>2, <1>6
<1> DEFINE w == month.wiring
           at == month.at
           next == month'.at
<1>11. /\ MonthOK' /\ month'.wiring = w /\ month'.count = month.count /\ Moves(w, at, next, "toxic_spread")
       /\ IsFirm(g) /\ Tied(g) /\ Rolled(g, c) /\ Small(g) /\ Unsettled(w, next, g, c)
       /\ (month.count > 0 => Refilled(w, next, g))
  BY <1>2, <1>6, <1>9, <1>10, CarriesOn
<1>12. Accounted(w, next, g, c)
  BY <1>9, <1>10, <1>11, AccountedSame DEF HrInv
<1>13. Announced(w, next, c)
  BY <1>10, <1>11, AnnouncedSame DEF HrInv
<1>14. Welcomed(w, next, g, c)
  BY <1>3, <1>4, <1>9, <1>10, <1>11, WelcomedSame DEF HrInv
<1>15. BooksOK'
  BY <1>1, <1>2 DEF BooksOK
<1> QED BY <1>6, <1>11, <1>12, <1>13, <1>14, <1>15 DEF HrInv

LEMMA SocializationKeeps == ASSUME HrInv, Socialization PROVE HrInv'
<1> DEFINE new(id) == firm.staff[id].socialized \/ id \in ToSet(firm.newHires)
           staff == [id \in DOMAIN firm.staff |-> [firm.staff[id] EXCEPT !.socialized = new(id)]]
<1>1. IsFirm(firm) /\ BooksOK
  BY DEF HrInv
<1>2. Turn("socialization") /\ books' = books /\ firm' = [firm EXCEPT !.newHires = <<>>, !.staff = staff]
  BY DEF Socialization
<1>3. ASSUME NEW x \in DOMAIN firm.staff
      PROVE  staff[x] \in Staffer /\ staff[x].team = firm.staff[x].team /\ staff[x].quitNear = firm.staff[x].quitNear
             /\ (new(x) => staff[x].socialized)
  <2>1. PICK e \in Staffer : e = firm.staff[x]
    BY <1>1 DEF IsFirm
  <2>2. PICK t \in BOOLEAN : t = new(x)
    <3> HIDE DEF staff
    <3>1. CASE new(x)
      <4>1. TRUE = new(x)
        BY <3>1
      <4> QED BY <4>1
    <3>2. CASE ~new(x)
      <4>1. FALSE = new(x)
        BY <3>2
      <4> QED BY <4>1
    <3> QED BY <3>1, <3>2
  <2> HIDE DEF new
  <2>3. staff[x] = [e EXCEPT !.socialized = t]
    BY <2>1, <2>2
  <2> QED BY <2>1, <2>2, <2>3 DEF Staffer
<1>4. DOMAIN staff = DOMAIN firm.staff /\ staff = [x \in DOMAIN firm.staff |-> staff[x]]
  OBVIOUS
<1>16. \A x : OnList(firm.newHires, x) => new(x)
  BY DEF OnList, ToSet
<1>17. \A x : firm.staff[x].socialized => new(x)
  OBVIOUS
<1> HIDE DEF staff, new
<1>5. staff \in [DOMAIN firm.staff -> Staffer]
  BY <1>3, <1>4
<1>6. PICK g, c : g = firm' /\ c = books'
  OBVIOUS
<1>7. g = [firm EXCEPT !.staff = staff, !.newHires = <<>>]
  <2>1. [firm EXCEPT !.staff = staff, !.newHires = <<>>] = [firm EXCEPT !.newHires = <<>>, !.staff = staff]
    <3>1. firm = [staff |-> firm.staff, ties |-> firm.ties, next |-> firm.next, newHires |-> firm.newHires,
                  departed |-> firm.departed, headcount |-> firm.headcount, charged |-> firm.charged, charges |-> firm.charges]
      BY <1>1 DEF IsFirm
    <3> QED BY <3>1
  <2> QED BY <1>2, <1>6, <2>1
<1>8. PICK list : list = <<>>
  OBVIOUS
<1>9. /\ SameFolk(firm, g) /\ g.staff = staff /\ g.newHires = list
      /\ g.departed = firm.departed /\ g.headcount = firm.headcount /\ g.charged = firm.charged /\ g.charges = firm.charges
  <2>1. list \in Seq(Nat)
    BY <1>8
  <2>2. g = [firm EXCEPT !.staff = staff, !.newHires = list]
    BY <1>7, <1>8
  <2>3. Rewrite(firm, staff, list, g)
    BY <1>3, <1>4, <1>5, <2>1, <2>2 DEF Rewrite
  <2> QED BY <1>1, <2>3, Rewrites
<1>10. c = books
  BY <1>2, <1>6
<1> DEFINE w == month.wiring
           at == month.at
           next == month'.at
<1>11. /\ MonthOK' /\ month'.wiring = w /\ month'.count = month.count /\ Moves(w, at, next, "socialization")
       /\ IsFirm(g) /\ Tied(g) /\ Rolled(g, c) /\ Small(g) /\ Unsettled(w, next, g, c)
       /\ (month.count > 0 => Refilled(w, next, g))
  BY <1>2, <1>6, <1>9, <1>10, CarriesOn
<1>12. Accounted(w, next, g, c)
  BY <1>9, <1>10, <1>11, AccountedSame DEF HrInv
<1>13. Announced(w, next, c)
  BY <1>10, <1>11, AnnouncedSame DEF HrInv
<1>14. Welcomed(w, next, g, c)
  <2>1. \A id \in books.hired \cap DOMAIN firm.staff : firm.staff[id].socialized \/ OnList(firm.newHires, id)
    BY DEF HrInv, Welcomed, OnList
  <2>2. \A id \in books.hired \cap DOMAIN firm.staff : staff[id].socialized
    BY <1>3, <1>16, <1>17, <2>1
  <2> QED BY <1>4, <1>8, <1>9, <1>10, <2>2 DEF Welcomed
<1>15. BooksOK'
  BY <1>1, <1>2 DEF BooksOK
<1> QED BY <1>6, <1>11, <1>12, <1>13, <1>14, <1>15 DEF HrInv

LEMMA PerformanceKeeps == ASSUME HrInv, OrgPerformance PROVE HrInv'
<1>1. IsFirm(firm) /\ BooksOK
  BY DEF HrInv
<1>2. Turn("org_performance") /\ firm' = firm /\ books' = [books EXCEPT !.reported = Len(firm.departed)]
  BY DEF OrgPerformance
<1>3. PICK g, c : g = firm' /\ c = books'
  OBVIOUS
<1>4. g = firm
  BY <1>2, <1>3
<1>5. c = [quits |-> books.quits, left |-> books.left, hired |-> books.hired, reported |-> Len(firm.departed)]
  BY <1>1, <1>2, <1>3 DEF BooksOK
<1>6. c.quits = books.quits /\ c.left = books.left /\ c.hired = books.hired /\ c.reported = Len(firm.departed)
  BY <1>5
<1>7. BooksOK'
  <2>1. c = [quits |-> c.quits, left |-> c.left, hired |-> c.hired, reported |-> c.reported]
    BY <1>5, <1>6
  <2> QED BY <1>3, <2>1 DEF BooksOK
<1>8. SameFolk(firm, g)
  BY <1>1, <1>4 DEF SameFolk
<1> DEFINE w == month.wiring
           at == month.at
           next == month'.at
<1>9. /\ MonthOK' /\ month'.wiring = w /\ month'.count = month.count /\ Moves(w, at, next, "org_performance")
      /\ IsFirm(g) /\ Tied(g) /\ Rolled(g, c) /\ Small(g) /\ Unsettled(w, next, g, c)
      /\ (month.count > 0 => Refilled(w, next, g))
  BY <1>2, <1>3, <1>6, <1>8, CarriesOn
<1>10. Accounted(w, next, g, c)
  BY <1>4, <1>6, <1>9, AccountedSame DEF HrInv
<1>11. Announced(w, next, c)
  <2>1. Passed(w, next, "org_performance") /\ ~Passed(w, at, "knowledge_loss")
    BY <1>9, Stages DEF Moves
  <2>2. Len(firm.departed) = Cardinality(Pending(w, at, books))
    BY DEF HrInv, Accounted, Lists
  <2>3. Pending(w, at, books) = IF WiredIn(w, "knowledge_loss") THEN books.quits ELSE DOMAIN books.left
    BY <2>1 DEF Pending
  <2> QED BY <1>6, <2>1, <2>2, <2>3 DEF Announced
<1>12. Welcomed(w, next, g, c)
  BY <1>4, <1>6, <1>9, WelcomedSame DEF HrInv
<1> QED BY <1>3, <1>7, <1>9, <1>10, <1>11, <1>12 DEF HrInv

LEMMA LossKeeps == ASSUME HrInv, KnowledgeLoss PROVE HrInv'
<1> DEFINE more == firm.charged \cup {[id |-> d.id, team |-> d.team] : d \in ToSet(firm.departed)}
           n == firm.charges + Len(firm.departed)
<1>1. IsFirm(firm) /\ BooksOK
  BY DEF HrInv
<1>2. Turn("knowledge_loss") /\ books' = books /\ firm' = [firm EXCEPT !.departed = <<>>, !.charges = n, !.charged = more]
  BY DEF KnowledgeLoss
<1>3. more = firm.charged \cup {[id |-> d.id, team |-> d.team] : d \in ToSet(firm.departed)} /\ n = firm.charges + Len(firm.departed)
  OBVIOUS
<1> HIDE DEF more, n
<1>4. PICK g, c : g = firm' /\ c = books'
  OBVIOUS
<1>5. g = [staff |-> firm.staff, ties |-> firm.ties, next |-> firm.next, newHires |-> firm.newHires, departed |-> <<>>,
           headcount |-> firm.headcount, charged |-> more, charges |-> n]
  BY <1>1, <1>2, <1>4 DEF IsFirm
<1>6. g.staff = firm.staff /\ g.ties = firm.ties /\ g.next = firm.next /\ g.newHires = firm.newHires /\ g.departed = <<>>
      /\ g.headcount = firm.headcount /\ g.charged = more /\ g.charges = n
  BY <1>5
<1>7. n \in Nat
  BY <1>1, <1>3 DEF IsFirm
<1>8. IsFirm(g)
  <2>1. g = [staff |-> g.staff, ties |-> g.ties, next |-> g.next, newHires |-> g.newHires, departed |-> g.departed,
             headcount |-> g.headcount, charged |-> g.charged, charges |-> g.charges]
    BY <1>5, <1>6
  <2>2. g.departed \in Seq(Leaver)
    BY <1>6
  <2> QED BY <1>1, <1>6, <1>7, <2>1, <2>2 DEF IsFirm
<1>9. SameFolk(firm, g)
  BY <1>6, <1>8 DEF SameFolk
<1>10. c = books
  BY <1>2, <1>4
<1> DEFINE w == month.wiring
           at == month.at
           next == month'.at
<1>11. /\ MonthOK' /\ month'.wiring = w /\ month'.count = month.count /\ Moves(w, at, next, "knowledge_loss")
       /\ IsFirm(g) /\ Tied(g) /\ Rolled(g, c) /\ Small(g) /\ Unsettled(w, next, g, c)
       /\ (month.count > 0 => Refilled(w, next, g))
  BY <1>2, <1>4, <1>9, <1>10, CarriesOn
<1>12. WiredIn(w, "knowledge_loss") /\ ~Passed(w, at, "knowledge_loss") /\ Passed(w, next, "knowledge_loss")
  BY <1>11 DEF Moves
<1>13. Pending(w, at, books) = books.quits /\ Pending(w, next, c) = {}
  BY <1>12 DEF Pending
<1> DEFINE L == DOMAIN books.left
           Q == books.quits
<1>14. Lists(firm.departed, books.left, Q) /\ Charged(firm, books.left, L \ Q) /\ Cardinality(Q) <= firm.headcount
  BY <1>12, <1>13 DEF HrInv, Accounted
<1>15. Q \subseteq L /\ IsFiniteSet(L)
  <2>1. Q \subseteq L /\ L \subseteq 0 .. firm.next - 1
    BY DEF HrInv, Rolled
  <2>2. 0 \in Int /\ firm.next - 1 \in Int
    BY <1>1 DEF IsFirm
  <2>3. IsFiniteSet(0 .. firm.next - 1)
    BY <2>2, FS_Interval
  <2> QED BY <2>1, <2>3, FS_Subset
<1>16. n = Cardinality(L)
  <2>1. firm.charges = Cardinality(L \ Q) /\ Len(firm.departed) = Cardinality(Q)
    BY <1>14 DEF Charged, Lists
  <2>2. L \cap Q = Q
    BY <1>15
  <2>3. Cardinality(L \ Q) = Cardinality(L) - Cardinality(L \cap Q)
    BY <1>15, FS_Difference
  <2>4. Cardinality(L) \in Nat
    BY <1>15, FS_CardinalityType
  <2>5. Cardinality(Q) \in Nat
    <3>1. IsFiniteSet(Q)
      BY <1>15, FS_Subset
    <3> QED BY <3>1, FS_CardinalityType
  <2>6. PICK l, q : l = Cardinality(L) /\ q = Cardinality(Q)
    OBVIOUS
  <2>7. n = (l - q) + q
    BY <1>3, <2>1, <2>2, <2>3, <2>6
  <2> QED BY <2>4, <2>5, <2>6, <2>7
<1>17. more = {[id |-> id, team |-> books.left[id].team] : id \in L}
  <2>1. DOMAIN firm.departed = 1 .. Len(firm.departed) /\ ToSet(firm.departed) = {firm.departed[i] : i \in DOMAIN firm.departed}
    BY <1>1 DEF IsFirm, ToSet
  <2>2. \A d \in ToSet(firm.departed) : d.id \in Q /\ d.team = books.left[d.id].team
    BY <1>14, <2>1 DEF Lists
  <2>3. \A id \in Q : \E d \in ToSet(firm.departed) : d.id = id
    BY <1>14, <2>1 DEF Lists
  <2>4. firm.charged = {[id |-> id, team |-> books.left[id].team] : id \in L \ Q}
    BY <1>14 DEF Charged
  <2>5. ASSUME NEW x \in more PROVE x \in {[id |-> id, team |-> books.left[id].team] : id \in L}
    <3>1. CASE x \in firm.charged
      BY <2>4, <3>1
    <3>2. CASE x \notin firm.charged
      <4>1. PICK d \in ToSet(firm.departed) : x = [id |-> d.id, team |-> d.team]
        BY <1>3, <3>2
      <4> QED BY <1>15, <2>2, <4>1
    <3> QED BY <3>1, <3>2
  <2>6. ASSUME NEW id \in L PROVE [id |-> id, team |-> books.left[id].team] \in more
    <3>1. CASE id \in Q
      <4>1. PICK d \in ToSet(firm.departed) : d.id = id
        BY <2>3, <3>1
      <4>2. d.team = books.left[id].team
        BY <2>2, <4>1
      <4>3. [id |-> d.id, team |-> d.team] \in more
        BY <1>3
      <4> QED BY <4>1, <4>2, <4>3
    <3>2. CASE id \notin Q
      BY <1>3, <2>4, <3>2
    <3> QED BY <3>1, <3>2
  <2> QED BY <2>5, <2>6
<1>18. Accounted(w, next, g, c)
  <2>1. Lists(g.departed, c.left, {})
    <3>1. DOMAIN g.departed = {} /\ Len(g.departed) = 0
      BY <1>6
    <3>2. Cardinality({}) = 0
      BY FS_EmptySet
    <3> QED BY <3>1, <3>2 DEF Lists
  <2>2. Charged(g, c.left, DOMAIN c.left \ {})
    <3>1. DOMAIN c.left \ {} = L /\ c.left = books.left
      BY <1>10
    <3> QED BY <1>6, <1>16, <1>17, <3>1 DEF Charged
  <2> QED BY <1>6, <1>10, <1>13, <1>14, <2>1, <2>2 DEF Accounted
<1>19. Announced(w, next, c)
  BY <1>10, <1>11, AnnouncedSame DEF HrInv
<1>20. Welcomed(w, next, g, c)
  BY <1>6, <1>10, <1>11, WelcomedSame DEF HrInv
<1>21. BooksOK'
  BY <1>1, <1>2 DEF BooksOK
<1> QED BY <1>4, <1>11, <1>18, <1>19, <1>20, <1>21 DEF HrInv

LEMMA BeginMonthKeeps == ASSUME HrInv, BeginMonth PROVE HrInv'
<1>1. IsFirm(firm) /\ BooksOK /\ MonthOK
  BY DEF HrInv
<1>2. month.at = 0 /\ firm' = firm /\ books' = [books EXCEPT !.quits = {}, !.hired = {}, !.reported = -1]
      /\ month' = [month EXCEPT !.at = 1, !.order = DOMAIN firm.staff, !.count = month.count + 1]
  BY DEF BeginMonth
<1> DEFINE w == month.wiring
<1>3. month' = [wiring |-> w, at |-> 1, order |-> DOMAIN firm.staff, count |-> month.count + 1]
  BY <1>1, <1>2 DEF MonthOK
<1>4. month'.wiring = w /\ month'.at = 1 /\ month'.order = DOMAIN firm.staff /\ month'.count = month.count + 1
  BY <1>3
<1>5. w \in Wirings /\ 1 \in 0 .. Len(w)
  <2>1. w \in Wirings /\ w \in Seq(DOMAIN StageOf) /\ w # <<>>
    BY <1>1, HrAssumption DEF MonthOK
  <2> QED BY <2>1
<1>6. MonthOK'
  BY <1>1, <1>3, <1>4, <1>5 DEF MonthOK
<1>7. PICK c : c = books'
  OBVIOUS
<1>8. c = [quits |-> {}, left |-> books.left, hired |-> {}, reported |-> -1]
  BY <1>1, <1>2, <1>7 DEF BooksOK
<1>9. c.quits = {} /\ c.left = books.left /\ c.hired = {} /\ c.reported = -1
  BY <1>8
<1>10. BooksOK'
  <2>1. c = [quits |-> c.quits, left |-> c.left, hired |-> c.hired, reported |-> c.reported]
    BY <1>8, <1>9
  <2> QED BY <1>7, <2>1 DEF BooksOK
<1>11. \A name : ~Passed(w, 1, name) /\ (Passed(w, 0, name) <=> WiredIn(w, name))
  BY <1>5, NoneYet
<1>12. Rolled(firm, c)
  BY <1>9 DEF HrInv, Rolled
<1>13. Unsettled(w, 1, firm, c)
  BY <1>9, <1>11 DEF Unsettled
<1>14. Accounted(w, 1, firm, c)
  <2>1. Pending(w, 1, c) = Pending(w, 0, books)
    BY <1>9, <1>11 DEF Pending
  <2>2. Accounted(w, 0, firm, books)
    BY <1>2 DEF HrInv
  <2>3. Cardinality(c.quits) <= firm.headcount
    <3>1. Cardinality({}) = 0
      BY FS_EmptySet
    <3> QED BY <1>1, <1>9, <3>1 DEF IsFirm
  <2> QED BY <1>9, <2>1, <2>2, <2>3 DEF Accounted
<1>15. Announced(w, 1, c)
  BY <1>9 DEF Announced
<1>16. Refilled(w, 1, firm)
  BY <1>11 DEF Refilled
<1>17. Welcomed(w, 1, firm, c)
  BY <1>9, <1>11 DEF Welcomed
<1>18. Tied(firm) /\ Small(firm)
  BY DEF HrInv
<1> QED BY <1>1, <1>2, <1>4, <1>6, <1>7, <1>10, <1>12, <1>13, <1>14, <1>15, <1>16, <1>17, <1>18 DEF HrInv

(* At the start: teams of equal size, numbered one after the other. *)
LEMMA TeamByTeam ==
  ASSUME NEW id \in 0 .. Teams * TeamSize - 1
  PROVE  id \div TeamSize \in Posts /\ \E a \in Int : a = TeamSize * (id \div TeamSize) /\ id \in a .. a + TeamSize - 1
<1> DEFINE g == [rows |-> Teams, cols |-> TeamSize, toroidal |-> FALSE]
<1>1. Teams \in Nat /\ TeamSize \in Nat
  BY HrAssumption
<1>2. g.rows = Teams /\ g.cols = TeamSize /\ IsGrid(g)
  BY <1>1 DEF IsGrid
<1> HIDE DEF g
<1>3. id \in 0 .. g.rows * g.cols - 1
  BY <1>2
<1>4. CellAt(g, id) \in CellsOf(g)
  BY <1>2, <1>3, NumberedCell
<1>5. id \div TeamSize \in 0 .. Teams - 1
  BY <1>2, <1>4 DEF CellAt, CellsOf
<1>6. PICK v \in Int : v = Teams * TeamSize
  BY <1>1
<1>7. TeamSize # 0 /\ id \in Int
  <2>1. TeamSize = 0 => v = 0
    BY <1>1, <1>6
  <2> QED BY <1>6, <2>1
<1>8. Rest(id, TeamSize, id \div TeamSize, id % TeamSize)
  BY <1>1, <1>7, Divides
<1>9. PICK q \in Int, r \in Nat : q = id \div TeamSize /\ r < TeamSize /\ id = TeamSize * q + r
  BY <1>8, Zenon DEF Rest
<1>10. PICK a \in Int : a = TeamSize * q
  BY <1>1, <1>9
<1>11. id = a + r /\ a = TeamSize * (id \div TeamSize)
  BY <1>9, <1>10
<1>12. id \in a .. a + TeamSize - 1
  BY <1>1, <1>9, <1>11
<1> QED BY <1>5, <1>11, <1>12 DEF Posts

LEMMA InitHrInv == HrInit => HrInv
<1> SUFFICES ASSUME HrInit PROVE HrInv
  OBVIOUS
<1> DEFINE ids == 0 .. Teams * TeamSize - 1
<1>1. PICK size \in Nat : size = Teams * TeamSize
  BY HrAssumption
<1>2. PICK toxic \in {{}, {0}} :
        firm = [staff |-> [id \in 0 .. size - 1 |-> Employee(id \div TeamSize, id \in toxic)],
                ties |-> {{id, (id + 1) % size} : id \in 0 .. size - 1}, next |-> size,
                newHires |-> <<>>, departed |-> <<>>, headcount |-> size, charged |-> {}, charges |-> 0]
  BY <1>1 DEF HrInit
<1>3. PICK w \in Wirings : month = [wiring |-> w, at |-> 0, order |-> {}, count |-> 0]
  BY DEF HrInit
<1>4. books = [quits |-> {}, left |-> << >>, hired |-> {}, reported |-> -1]
  BY DEF HrInit
<1>5. PICK staff : staff = [id \in 0 .. size - 1 |-> Employee(id \div TeamSize, id \in toxic)]
  OBVIOUS
<1>6. PICK ties : ties = {{id, (id + 1) % size} : id \in 0 .. size - 1}
  OBVIOUS
<1>7. firm = [staff |-> staff, ties |-> ties, next |-> size, newHires |-> <<>>, departed |-> <<>>, headcount |-> size,
              charged |-> {}, charges |-> 0]
  BY <1>2, <1>5, <1>6
<1>8. firm.staff = staff /\ firm.ties = ties /\ firm.next = size /\ firm.newHires = <<>> /\ firm.departed = <<>>
      /\ firm.headcount = size /\ firm.charged = {} /\ firm.charges = 0
  BY <1>7
<1>9. ASSUME NEW id \in 0 .. size - 1
      PROVE  staff[id] \in Staffer /\ staff[id].team = id \div TeamSize /\ staff[id].quitNear = 0
  <2>1. PICK t \in BOOLEAN : t = (id \in toxic)
    <3>1. CASE id \in toxic
      <4>1. TRUE = (id \in toxic)
        BY <3>1
      <4> QED BY <4>1
    <3>2. CASE id \notin toxic
      <4>1. FALSE = (id \in toxic)
        BY <3>2
      <4> QED BY <4>1
    <3> QED BY <3>1, <3>2
  <2>2. PICK team : team = id \div TeamSize
    OBVIOUS
  <2>3. team \in Posts
    BY <1>1, <2>2, TeamByTeam
  <2>4. staff[id] = [team |-> team, tenure |-> 0, toxic |-> t, quitNear |-> 0, socialized |-> FALSE]
    BY <1>5, <2>1, <2>2 DEF Employee
  <2>5. staff[id] \in Staffer /\ staff[id].team = team /\ staff[id].quitNear = 0
    BY <2>3, <2>4 DEF Staffer
  <2> QED BY <2>2, <2>5
<1>10. DOMAIN staff = 0 .. size - 1 /\ staff = [id \in 0 .. size - 1 |-> staff[id]]
  BY <1>5
<1>11. IsFirm(firm)
  <2>1. firm = [staff |-> firm.staff, ties |-> firm.ties, next |-> firm.next, newHires |-> firm.newHires,
                departed |-> firm.departed, headcount |-> firm.headcount, charged |-> firm.charged, charges |-> firm.charges]
    BY <1>7, <1>8
  <2>2. staff \in [DOMAIN staff -> Staffer]
    BY <1>9, <1>10
  <2>3. firm.newHires \in Seq(Nat) /\ firm.departed \in Seq(Leaver)
    BY <1>8
  <2>4. DOMAIN firm.staff \subseteq 0 .. firm.next - 1
    BY <1>8, <1>10
  <2> QED BY <1>8, <2>1, <2>2, <2>3, <2>4 DEF IsFirm
<1>12. Tied(firm)
  <2>1. ASSUME NEW t \in ties PROVE t \subseteq DOMAIN staff /\ Cardinality(t) \in {1, 2}
    <3>1. PICK id \in 0 .. size - 1 : t = {id, (id + 1) % size}
      BY <1>6
    <3>2. PICK next : next = (id + 1) % size
      OBVIOUS
    <3>3. next \in 0 .. size - 1
      <4>1. id + 1 \in Int /\ size # 0
        OBVIOUS
      <4> QED BY <3>2, <4>1, Wrapped
    <3>4. Cardinality({id, next}) \in {1, 2}
      <4>1. CASE id = next
        <5>1. {id, next} = {id}
          BY <4>1
        <5> QED BY <5>1, FS_Singleton
      <4>2. CASE id # next
        BY <4>2, PairOf
      <4> QED BY <4>1, <4>2
    <3> QED BY <1>10, <3>1, <3>2, <3>3, <3>4
  <2> QED BY <1>8, <2>1 DEF Tied
<1>13. month.wiring = w /\ month.at = 0 /\ month.order = {} /\ month.count = 0
  BY <1>3
<1>14. books.quits = {} /\ books.left = << >> /\ books.hired = {} /\ books.reported = -1
  BY <1>4
<1>15. MonthOK
  <2>1. Len(w) \in Nat
    BY HrAssumption
  <2> QED BY <1>3, <1>13, <2>1 DEF MonthOK
<1>16. BooksOK
  BY <1>4, <1>14 DEF BooksOK
<1>17. DOMAIN books.left = {}
  BY <1>14
<1>18. Rolled(firm, books)
  BY <1>8, <1>10, <1>14, <1>17 DEF Rolled
<1>19. Cardinality({}) = 0
  BY FS_EmptySet
<1>20. Unsettled(w, 0, firm, books)
  <2>1. \A id : {q \in books.quits : id \in books.left[q].near} = {}
    BY <1>14
  <2>2. Feels(firm, books)
    BY <1>8, <1>9, <1>10, <1>19, <2>1 DEF Feels
  <2> QED BY <1>14, <2>2 DEF Unsettled
<1>21. Accounted(w, 0, firm, books)
  <2>1. Pending(w, 0, books) = {}
    BY <1>14, <1>17 DEF Pending
  <2>2. DOMAIN books.left \ {} = {}
    BY <1>17
  <2>3. Charged(firm, books.left, {})
    BY <1>8, <1>19 DEF Charged
  <2>4. DOMAIN firm.departed = {} /\ Len(firm.departed) = 0
    BY <1>8
  <2>5. Lists(firm.departed, books.left, {})
    BY <1>19, <2>4 DEF Lists
  <2>6. Cardinality(books.quits) <= firm.headcount
    BY <1>1, <1>8, <1>14, <1>19
  <2> QED BY <2>1, <2>2, <2>3, <2>5, <2>6 DEF Accounted
<1>22. Announced(w, 0, books)
  BY <1>14 DEF Announced
<1>23. Welcomed(w, 0, firm, books)
  BY <1>8, <1>14 DEF Welcomed
<1>24. Small(firm)
  <2>1. ASSUME NEW team \in Posts PROVE Cardinality(Members(firm.staff, team)) <= TeamSize
    <3>1. PICK a : a = TeamSize * team
      OBVIOUS
    <3>2. a \in Int /\ TeamSize \in Nat
      <4>1. team \in Int /\ TeamSize \in Nat
        BY HrAssumption DEF Posts
      <4> QED BY <3>1, <4>1
    <3>3. Members(firm.staff, team) \in SUBSET (a .. a + TeamSize - 1)
      <4>1. ASSUME NEW id \in Members(firm.staff, team) PROVE id \in a .. a + TeamSize - 1
        <5>1. id \in 0 .. size - 1 /\ id \div TeamSize = team
          BY <1>8, <1>9, <1>10 DEF Members
        <5>2. PICK e \in Int : e = TeamSize * (id \div TeamSize) /\ id \in e .. e + TeamSize - 1
          BY <1>1, <5>1, TeamByTeam
        <5>3. e = a
          BY <3>1, <5>1, <5>2
        <5> QED BY <5>2, <5>3
      <4> QED BY <4>1
    <3>4. a + TeamSize - 1 \in Int
      BY <3>2
    <3>5. IsFiniteSet(a .. a + TeamSize - 1)
      BY <3>2, <3>4, FS_Interval
    <3>6. Cardinality(a .. a + TeamSize - 1) = IF a > a + TeamSize - 1 THEN 0 ELSE (a + TeamSize - 1) - a + 1
      BY <3>2, <3>4, FS_Interval
    <3>7. Cardinality(a .. a + TeamSize - 1) = TeamSize
      BY <3>2, <3>6
    <3>8. Cardinality(Members(firm.staff, team)) <= Cardinality(a .. a + TeamSize - 1)
      BY <3>3, <3>5, FS_Subset
    <3> QED BY <3>7, <3>8
  <2> QED BY <2>1 DEF Small
<1> QED BY <1>11, <1>12, <1>13, <1>15, <1>16, <1>18, <1>20, <1>21, <1>22, <1>23, <1>24 DEF HrInv

LEMMA NextHrInv == HrInv /\ [HrNext]_hvars => HrInv'
<1> SUFFICES ASSUME HrInv, [HrNext]_hvars PROVE HrInv'
  OBVIOUS
<1>1. CASE UNCHANGED hvars
  BY <1>1 DEF hvars, HrInv, MonthOK, BooksOK
<1>2. CASE HrNext
  BY <1>2, BeginMonthKeeps, LearningKeeps, TurnoverKeeps, HiringKeeps, ToxicKeeps, PerformanceKeeps, LossKeeps,
     SocializationKeeps DEF HrNext
<1> QED BY <1>1, <1>2

LEMMA HrInvBooks == HrInv => LifecycleBooks
<1> SUFFICES ASSUME HrInv PROVE LifecycleBooks
  OBVIOUS
<1> DEFINE w == month.wiring
           at == month.at
<1>1. /\ MonthOK /\ IsFirm(firm) /\ Tied(firm) /\ Rolled(firm, books) /\ Unsettled(w, at, firm, books)
      /\ Accounted(w, at, firm, books) /\ Announced(w, at, books) /\ (month.count > 0 => Refilled(w, at, firm))
      /\ Welcomed(w, at, firm, books)
  BY DEF HrInv
<1>2. w \in Wirings /\ w \in Seq(DOMAIN StageOf)
  BY <1>1, HrAssumption DEF MonthOK
<1>3. \A name : Wired(name) <=> WiredIn(w, name)
  BY DEF Wired, WiredIn, ToSet
<1>4. ASSUME at = 0 PROVE \A name : Passed(w, at, name) <=> Wired(name)
  BY <1>2, <1>3, <1>4, NoneYet
<1>5. month.at = 0 /\ Wired("turnover") =>
        \A id \in DOMAIN firm.staff :
          firm.staff[id].quitNear = Cardinality({q \in books.quits : id \in books.left[q].near})
  BY <1>1, <1>4 DEF Unsettled, Feels
<1>6. books.reported # -1 =>
        books.reported = IF Wired("knowledge_loss") THEN Cardinality(books.quits) ELSE Cardinality(DOMAIN books.left)
  BY <1>1, <1>3 DEF Announced
<1>7. Wired("knowledge_loss") /\ books.reported # -1 => books.reported <= firm.headcount
  BY <1>1, <1>6 DEF Accounted
<1>8. ASSUME month.at = 0, Wired("knowledge_loss")
      PROVE  /\ firm.departed = <<>> /\ firm.charges = Cardinality(DOMAIN books.left)
             /\ firm.charged = {[id |-> id, team |-> books.left[id].team] : id \in DOMAIN books.left}
  <2>1. Pending(w, at, books) = {} /\ WiredIn(w, "knowledge_loss")
    BY <1>3, <1>4, <1>8 DEF Pending
  <2>2. Lists(firm.departed, books.left, {}) /\ Charged(firm, books.left, DOMAIN books.left)
    BY <1>1, <2>1 DEF Accounted
  <2>3. Len(firm.departed) = 0
    BY <2>2, FS_EmptySet DEF Lists
  <2>4. firm.departed = <<>>
    BY <1>1, <2>3 DEF IsFirm
  <2> QED BY <2>2, <2>4 DEF Charged
<1>9. ASSUME month.at = 0, month.count > 0, Rank("hiring") > Rank("turnover")
      PROVE  \A team \in 0 .. Teams - 1 : Cardinality(Members(firm.staff, team)) = TeamSize
  <2>1. DOMAIN w = 1 .. Len(w) /\ Len(w) \in Nat
    BY <1>2
  <2>2. \A name : Wired(name) => Rank(name) \in DOMAIN w /\ w[Rank(name)] = name
    BY <1>3 DEF Rank, WiredIn
  <2>3. \A name : ~Wired(name) => Rank(name) = 0
    BY DEF Rank
  <2>4. Wired("hiring")
    <3>1. ASSUME ~Wired("hiring") PROVE FALSE
      <4>1. Rank("hiring") = 0
        BY <2>3, <3>1
      <4>2. Rank("turnover") = 0 \/ Rank("turnover") \in 1 .. Len(w)
        BY <2>1, <2>2, <2>3
      <4> QED BY <1>9, <2>1, <4>1, <4>2
    <3> QED BY <3>1
  <2>5. Refills(w) \/ RefillsAlone(w)
    <3>1. CASE Wired("turnover")
      <4>1. PICK i, j : i = Rank("turnover") /\ j = Rank("hiring")
        OBVIOUS
      <4>2. i \in DOMAIN w /\ j \in DOMAIN w /\ i < j /\ w[i] = "turnover" /\ w[j] = "hiring"
        BY <1>9, <2>1, <2>2, <2>4, <3>1, <4>1
      <4> QED BY <4>2 DEF Refills
    <3>2. CASE ~Wired("turnover")
      BY <1>3, <2>4, <3>2 DEF RefillsAlone
    <3> QED BY <3>1, <3>2
  <2>6. Passed(w, at, "hiring")
    BY <1>4, <1>9, <2>4
  <2> QED BY <1>1, <1>9, <2>5, <2>6 DEF Refilled, AllStaffed, Posts
<1>10. ASSUME month.at = 0, Wired("socialization")
       PROVE  firm.newHires = <<>> /\ \A id \in books.hired \cap DOMAIN firm.staff : firm.staff[id].socialized
  <2>1. Passed(w, at, "socialization")
    BY <1>4, <1>10
  <2>2. firm.newHires = <<>> /\ DOMAIN firm.newHires = {}
    BY <1>1, <2>1 DEF Welcomed
  <2> QED BY <1>1, <2>2 DEF Welcomed
<1>11. \A t \in firm.ties : t \subseteq DOMAIN firm.staff /\ Cardinality(t) \in {1, 2}
  BY <1>1 DEF Tied
<1>12. DOMAIN firm.staff \cap DOMAIN books.left = {} /\ DOMAIN firm.staff \cup DOMAIN books.left = 0 .. firm.next - 1
  BY <1>1 DEF Rolled
<1> QED BY <1>5, <1>6, <1>7, <1>8, <1>9, <1>10, <1>11, <1>12 DEF LifecycleBooks

\* The inductive invariant of the firm, between any two mechanisms of a month: who left is on
\* the list of leavers or has been charged to its team, once; ties and hires are of employees.
THEOREM FirmKeeps == HrSpec => []HrInv
<1>1. HrInit => HrInv
  BY InitHrInv
<1>2. HrInv /\ [HrNext]_hvars => HrInv'
  BY NextHrInv
<1> QED BY <1>1, <1>2, PTL DEF HrSpec

\* The books of the firm, for any number of teams of any size, any wiring in phase order and
\* whoever quits: every leaver is charged once to its own team, the reported number is that of
\* the month's quits (where leavers are charged), those who stay feel exactly the quits of those
\* they were tied to, and teams are full again and newcomers socialized at the end of a month.
THEOREM FirmsBooks == HrSpec => []LifecycleBooks
<1>1. HrInv => LifecycleBooks
  BY HrInvBooks
<1> QED BY <1>1, FirmKeeps, PTL

-----------------------------------------------------------------------------
(***************************************************************************)
(* Markets.  The histories are rings, which hold the end of what was       *)
(* written to them.                                                        *)
(***************************************************************************)

\* The slot that lies x places after slot 0, for x below twice the length.
RingSlot(n, x) == IF x < n THEN x ELSE x - n

\* Counting around a ring at most once is one subtraction.
LEMMA Wrap ==
  ASSUME NEW n \in Nat \ {0}, NEW x \in Nat, x < 2 * n
  PROVE x % n = RingSlot(n, x)
<1>1. x = n * (x \div n) + (x % n) /\ x % n \in 0 .. n - 1 /\ x \div n \in Int
  BY SMT
<1> QED BY <1>1, SMT DEF RingSlot

\* One slot further on, a ring shows its entries in the same order, the oldest last.
LEMMA OneOn ==
  ASSUME NEW n \in Nat \ {0}, NEW h \in 0 .. n - 1, NEW j \in 0 .. n - 1
  PROVE /\ j = n - 1 => RingSlot(n, RingSlot(n, h + 1) + j) = h
        /\ j < n - 1 => /\ RingSlot(n, RingSlot(n, h + 1) + j) = RingSlot(n, h + (j + 1))
                        /\ RingSlot(n, h + (j + 1)) \in (0 .. n - 1) \ {h}
<1>1. CASE h + 1 < n
  BY <1>1, SMT DEF RingSlot
<1>2. CASE h + 1 = n
  BY <1>2, SMT DEF RingSlot
<1> QED BY <1>1, <1>2, SMT

\* A ring of n slots holds the end of s.
Holds(n, r, s) ==
  /\ r = [head |-> r.head, filled |-> r.filled, data |-> r.data]
  /\ r.filled = Smaller(Len(s), n) /\ r.head \in 0 .. n - 1
  /\ DOMAIN r.data = 0 .. n - 1
  /\ Len(s) < n => r.head = Len(s) /\ \A i \in 0 .. Len(s) - 1 : r.data[i] = s[i + 1]
  /\ Len(s) >= n => \A j \in 0 .. n - 1 : r.data[RingSlot(n, r.head + j)] = s[Len(s) - n + 1 + j]

\* A new ring holds nothing.
LEMMA NewHolds ==
  ASSUME NEW n \in Nat \ {0}, NEW x
  PROVE Holds(n, NewRing(n, x), <<>>)
BY SMT DEF Holds, NewRing, Smaller

\* Pushing appends: head moves on, and every kept entry is one place older.
LEMMA PushHolds ==
  ASSUME NEW n \in Nat \ {0}, NEW S, NEW s \in Seq(S), NEW x \in S, NEW r, Holds(n, r, s)
  PROVE Holds(n, PushRing(n, r, x), Append(s, x))
<1> DEFINE q == PushRing(n, r, x)
           s2 == Append(s, x)
           h == r.head
<1>1. /\ q = [head |-> q.head, filled |-> q.filled, data |-> q.data]
      /\ q.head = (h + 1) % n /\ q.filled = Smaller(r.filled + 1, n)
      /\ q.data = [r.data EXCEPT ![h] = x]
  BY SMT DEF PushRing
<1>2. s2 \in Seq(S) /\ Len(s2) = Len(s) + 1 /\ Len(s) \in Nat /\ s2[Len(s) + 1] = x
      /\ \A i \in 1 .. Len(s) : s2[i] = s[i]
  OBVIOUS
<1>3. h \in 0 .. n - 1 /\ q.head = RingSlot(n, h + 1) /\ q.head \in 0 .. n - 1
  <2>1. h \in 0 .. n - 1
    BY DEF Holds
  <2>2. q.head = RingSlot(n, h + 1)
    BY <1>1, <2>1, Wrap, SMT
  <2> QED BY <2>1, <2>2, SMT DEF RingSlot
<1>4. q.filled = Smaller(Len(s2), n)
  BY <1>1, <1>2, SMT DEF Smaller, Holds
<1>5. DOMAIN q.data = 0 .. n - 1 /\ q.data[h] = x
      /\ \A i \in (0 .. n - 1) \ {h} : q.data[i] = r.data[i]
  BY <1>1, <1>3 DEF Holds
<1> HIDE DEF q, s2
<1>6. ASSUME Len(s2) < n
      PROVE q.head = Len(s2) /\ \A i \in 0 .. Len(s2) - 1 : q.data[i] = s2[i + 1]
  <2>1. h = Len(s) /\ \A i \in 0 .. Len(s) - 1 : r.data[i] = s[i + 1]
    BY <1>2, <1>6, SMT DEF Holds
  <2>2. q.head = Len(s2)
    BY <1>2, <1>3, <1>6, <2>1, SMT DEF RingSlot
  <2> QED BY <1>2, <1>5, <1>6, <2>1, <2>2, SMT
<1>7. ASSUME Len(s2) >= n, NEW j \in 0 .. n - 1
      PROVE q.data[RingSlot(n, q.head + j)] = s2[Len(s2) - n + 1 + j]
  <2>1. CASE j = n - 1
    <3>1. RingSlot(n, q.head + j) = h
      BY <1>3, <2>1, OneOn
    <3> QED BY <1>2, <1>5, <2>1, <3>1, SMT
  <2>2. CASE j < n - 1
    <3>1. /\ RingSlot(n, q.head + j) = RingSlot(n, h + (j + 1))
          /\ RingSlot(n, h + (j + 1)) \in (0 .. n - 1) \ {h}
      <4>1. h \in 0 .. n - 1 /\ q.head = RingSlot(n, h + 1)
        BY <1>3
      <4> HIDE DEF h
      <4>2. /\ RingSlot(n, RingSlot(n, h + 1) + j) = RingSlot(n, h + (j + 1))
            /\ RingSlot(n, h + (j + 1)) \in (0 .. n - 1) \ {h}
        BY <2>2, <4>1, OneOn
      <4> QED BY <4>1, <4>2
    <3>2. q.data[RingSlot(n, q.head + j)] = r.data[RingSlot(n, h + (j + 1))]
      BY <1>5, <3>1
    <3>3. CASE Len(s) >= n
      <4>1. \A k \in 0 .. n - 1 : r.data[RingSlot(n, h + k)] = s[Len(s) - n + 1 + k]
        BY <3>3 DEF Holds
      <4>2. j + 1 \in 0 .. n - 1
        BY <2>2, SMT
      <4>3. r.data[RingSlot(n, h + (j + 1))] = s[Len(s) - n + 1 + (j + 1)]
        BY <4>1, <4>2
      <4>4. /\ Len(s) - n + 1 + (j + 1) = Len(s2) - n + 1 + j
            /\ Len(s) - n + 1 + (j + 1) \in 1 .. Len(s)
        BY <1>2, <2>2, <3>3, SMT
      <4> QED BY <1>2, <3>2, <4>3, <4>4
    <3>4. CASE Len(s) < n
      <4>1. h = Len(s) /\ Len(s) = n - 1 /\ \A i \in 0 .. Len(s) - 1 : r.data[i] = s[i + 1]
        BY <1>2, <1>7, <3>4, SMT DEF Holds
      <4>2. RingSlot(n, h + (j + 1)) = j
        BY <4>1, <2>2, SMT DEF RingSlot
      <4>3. r.data[j] = s[j + 1]
        BY <4>1, <2>2, SMT
      <4>4. Len(s2) - n + 1 + j = j + 1 /\ j + 1 \in 1 .. Len(s)
        BY <1>2, <2>2, <4>1, SMT
      <4> QED BY <1>2, <3>2, <4>2, <4>3, <4>4
    <3> QED BY <1>2, <3>3, <3>4, SMT
  <2> QED BY <2>1, <2>2, SMT
<1> QED BY <1>1, <1>3, <1>4, <1>5, <1>6, <1>7 DEF Holds, q, s2

\* InSecond the first of two sequences comes the second.
LEMMA InSecond ==
  ASSUME NEW S, NEW a \in Seq(S), NEW b \in Seq(S), NEW i \in 1 .. Len(a) + Len(b), i > Len(a)
  PROVE (a \o b)[i] = b[i - Len(a)]
OBVIOUS

\* The last entries of a sequence, by index.
LEMMA Newest ==
  ASSUME NEW n \in Nat \ {0}, NEW S, NEW s \in Seq(S)
  PROVE /\ LastOf(n, s) \in Seq(S) /\ Len(LastOf(n, s)) = Smaller(Len(s), n)
        /\ Len(s) <= n => LastOf(n, s) = s
        /\ Len(s) > n => \A i \in 1 .. n : LastOf(n, s)[i] = s[Len(s) - n + i]
BY SMT DEF LastOf, Smaller

\* Sequences with the same entries are the same.
LEMMA SameEntries ==
  ASSUME NEW n \in Nat, NEW S, NEW a \in Seq(S), NEW b \in Seq(S), Len(a) = n, Len(b) = n,
         \A i \in 1 .. n : a[i] = b[i]
  PROVE  a = b
<1>1. a = [i \in 1 .. n |-> a[i]] /\ b = [i \in 1 .. n |-> b[i]]
  OBVIOUS
<1> QED BY <1>1, Zenon

\* What StepHistory.view shows is the end of what was pushed, oldest first.
LEMMA ViewOfRing ==
  ASSUME NEW n \in Nat \ {0}, NEW S, NEW s \in Seq(S), NEW r, Holds(n, r, s)
  PROVE StepView(n, r) = LastOf(n, s)
<1>1. CASE Len(s) < n
  <2>1. r.filled = Len(s) /\ \A i \in 0 .. Len(s) - 1 : r.data[i] = s[i + 1]
    BY <1>1, SMT DEF Holds, Smaller
  <2>2. StepView(n, r) = [i \in 1 .. Len(s) |-> s[i]]
    BY <1>1, <2>1, SMT DEF StepView
  <2>3. LastOf(n, s) = s /\ s = [i \in 1 .. Len(s) |-> s[i]]
    BY <1>1, SMT DEF LastOf
  <2> QED BY <2>2, <2>3
<1>2. CASE Len(s) >= n
  <2> DEFINE h == r.head
             old == [i \in 1 .. n - h |-> r.data[h + i - 1]]
             new == [i \in 1 .. h |-> r.data[i - 1]]
             d(i) == s[Len(s) - n + i]
  <2>1. h \in 0 .. n - 1 /\ r.filled = n
        /\ \A j \in 0 .. n - 1 : r.data[RingSlot(n, h + j)] = s[Len(s) - n + 1 + j]
    BY <1>2, SMT DEF Holds, Smaller
  <2>2. StepView(n, r) = old \o new
    <3>1. ~(r.filled < n)
      BY <2>1, SMT
    <3> QED BY <3>1 DEF StepView
  <2>3. \A i \in 1 .. n - h : r.data[h + i - 1] = d(i) /\ d(i) \in S
    <3> SUFFICES ASSUME NEW i \in 1 .. n - h PROVE r.data[h + i - 1] = d(i) /\ d(i) \in S
      OBVIOUS
    <3>1. i - 1 \in 0 .. n - 1 /\ RingSlot(n, h + (i - 1)) = h + i - 1
      <4>1. h \in 0 .. n - 1
        BY <2>1
      <4> HIDE DEF h
      <4> QED BY <4>1, SMT DEF RingSlot
    <3>2. r.data[h + i - 1] = s[Len(s) - n + 1 + (i - 1)]
      BY <2>1, <3>1
    <3>3. Len(s) - n + 1 + (i - 1) = Len(s) - n + i /\ Len(s) - n + i \in 1 .. Len(s)
      <4>1. h \in 0 .. n - 1 /\ Len(s) \in Nat
        BY <2>1
      <4> HIDE DEF h
      <4> QED BY <1>2, <4>1, SMT
    <3> QED BY <3>2, <3>3
  <2>4. \A i \in 1 .. h : r.data[i - 1] = d(n - h + i) /\ d(n - h + i) \in S
    <3> SUFFICES ASSUME NEW i \in 1 .. h PROVE r.data[i - 1] = d(n - h + i) /\ d(n - h + i) \in S
      OBVIOUS
    <3>1. n - h + i - 1 \in 0 .. n - 1 /\ RingSlot(n, h + (n - h + i - 1)) = i - 1
      <4>1. h \in 0 .. n - 1
        BY <2>1
      <4> HIDE DEF h
      <4> QED BY <4>1, SMT DEF RingSlot
    <3>2. r.data[i - 1] = s[Len(s) - n + 1 + (n - h + i - 1)]
      BY <2>1, <3>1
    <3>3. Len(s) - n + 1 + (n - h + i - 1) = Len(s) - n + (n - h + i)
          /\ Len(s) - n + (n - h + i) \in 1 .. Len(s)
      <4>1. h \in Nat /\ h < n /\ Len(s) \in Nat /\ i \in Nat /\ 1 <= i /\ i <= h
        BY <2>1
      <4> HIDE DEF h
      <4> QED BY <1>2, <4>1, SMT
    <3> QED BY <3>2, <3>3
  <2>5. old \in Seq(S) /\ new \in Seq(S) /\ Len(old) = n - h /\ Len(new) = h
    <3>1. h \in Nat /\ n - h \in Nat
      BY <2>1, SMT
    <3>2. old \in [1 .. n - h -> S] /\ new \in [1 .. h -> S]
      BY <2>3, <2>4
    <3> HIDE DEF h, old, new
    <3> QED BY <3>1, <3>2, SMT
  <2>6. old \o new \in Seq(S) /\ Len(old \o new) = n
    BY <2>1, <2>5, SMT
  <2>7. \A i \in 1 .. n : (old \o new)[i] = d(i)
    <3> SUFFICES ASSUME NEW i \in 1 .. n PROVE (old \o new)[i] = d(i)
      OBVIOUS
    <3>1. CASE i <= n - h
      <4>1. (old \o new)[i] = old[i]
        BY <2>5, <3>1, <2>1
      <4>2. i \in 1 .. n - h
        BY <3>1, <2>1
      <4>3. old[i] = r.data[h + i - 1]
        BY <4>2
      <4>4. r.data[h + i - 1] = d(i)
        BY <4>2, <2>3
      <4> HIDE DEF h, old, new, d
      <4> QED BY <4>1, <4>3, <4>4
    <3>2. CASE i > n - h
      <4>1. (old \o new)[i] = new[i - (n - h)]
        <5>1. h \in Nat /\ n - h \in Nat
          BY <2>1, SMT
        <5> HIDE DEF h, old, new
        <5>2. i \in 1 .. Len(old) + Len(new) /\ i > Len(old)
          BY <2>5, <3>2, <5>1, SMT
        <5> QED BY <2>5, <5>2, InSecond
      <4>2. i - (n - h) \in 1 .. h /\ n - h + (i - (n - h)) = i
        BY <3>2, <2>1, SMT
      <4>3. new[i - (n - h)] = r.data[(i - (n - h)) - 1]
        BY <4>2
      <4>4. r.data[(i - (n - h)) - 1] = d(n - h + (i - (n - h)))
        BY <4>2, <2>4
      <4>5. d(n - h + (i - (n - h))) = d(i)
        BY <4>2
      <4> HIDE DEF h, old, new, d
      <4> QED BY <4>1, <4>3, <4>4, <4>5
    <3>3. i <= n - h \/ i > n - h
      BY <2>1, SMT
    <3> QED BY <3>1, <3>2, <3>3
  <2>8. LastOf(n, s) \in Seq(S) /\ Len(LastOf(n, s)) = n /\ \A i \in 1 .. n : LastOf(n, s)[i] = d(i)
    BY <1>2, Newest, SMT DEF Smaller
  <2> HIDE DEF old, new, d
  <2>9. old \o new = LastOf(n, s)
    BY <2>6, <2>7, <2>8, SameEntries
  <2> QED BY <2>2, <2>9
<1> QED BY <1>1, <1>2, SMT

-----------------------------------------------------------------------------
(***************************************************************************)
(* Whatever agents know, they move within the bounds of the game.          *)
(***************************************************************************)
LEMMA Added ==
  ASSUME NEW x \in Seq(Int)
  PROVE  SumOf(x) \in Int
<1> DEFINE N == Len(x)
           F == [k \in 1 .. N |-> [v \in Int |-> v + x[k]]]
           Is(f) == f = [k \in 0 .. N |-> IF k = 0 THEN 0 ELSE f[k - 1] + x[k]]
           run == CHOOSE f : Is(f)
<1>1. N \in Nat /\ \A k \in 1 .. N : x[k] \in Int
  OBVIOUS
<1>2. SumOf(x) = run[N]
  BY DEF SumOf
<1> HIDE DEF N
<1>3. Machine(N, Int, 0, F)
  BY <1>1 DEF Machine
<1>4. PICK g : RunOf(g, N, Int, 0, F)
  <2> HIDE DEF F
  <2> QED BY <1>3, Recursion
<1>5. g \in [0 .. N -> Int] /\ g[0] = 0 /\ \A k \in 1 .. N : g[k] = g[k - 1] + x[k]
  <2>1. g \in [0 .. N -> Int] /\ g[0] = 0 /\ \A k \in 1 .. N : g[k] = F[k][g[k - 1]]
    BY <1>4 DEF RunOf
  <2>2. ASSUME NEW k \in 1 .. N PROVE g[k] = g[k - 1] + x[k]
    <3>1. g[k - 1] \in Int
      BY <1>1, <2>1
    <3> QED BY <2>1, <3>1
  <2> QED BY <2>1, <2>2
<1>6. Is(g)
  BY <1>1, <1>5
<1>7. Is(run)
  <2> HIDE DEF Is
  <2> QED BY <1>6, Zenon
<1> HIDE DEF run
<1>8. run[0] = 0 /\ \A k \in 1 .. N : run[k] = run[k - 1] + x[k]
  BY <1>1, <1>7
<1> DEFINE T == {n \in Nat : n <= N => run[n] \in Int}
<1>9. 0 \in T
  BY <1>8
<1>10. ASSUME NEW n \in Nat, n \in T PROVE n + 1 \in T
  <2>1. ASSUME n + 1 <= N PROVE run[n + 1] \in Int
    <3>1. n + 1 \in 1 .. N /\ (n + 1) - 1 = n /\ run[n] \in Int
      BY <1>1, <1>10, <2>1
    <3>2. run[n + 1] = run[n] + x[n + 1] /\ x[n + 1] \in Int
      BY <1>1, <1>8, <3>1
    <3> QED BY <3>1, <3>2
  <2> QED BY <2>1
<1>11. N \in T
  <2> HIDE DEF T
  <2> QED BY <1>1, <1>9, <1>10, Induct
<1> QED BY <1>1, <1>2, <1>11

LEMMA Clamped ==
  ASSUME NEW v \in Int, NEW hi \in Nat
  PROVE  Clamp(v, 0, hi) \in 0 .. hi
BY DEF Clamp

LEMMA Quotient ==
  ASSUME NEW v \in Int, NEW d \in Nat \ {0}
  PROVE  v \div d \in Int
OBVIOUS

LEMMA Product ==
  ASSUME NEW a \in Nat, NEW b \in Nat
  PROVE  a * b \in Nat
OBVIOUS

LEMMA Multiple ==
  ASSUME NEW a \in Int, NEW b \in Int
  PROVE  a * b \in Int
OBVIOUS

LEMMA ReplyIn ==
  ASSUME NEW g, InUnits(g), NEW u \in Nat \ {0}, NEW role \in 1 .. g.n, NEW x \in [1 .. g.n -> Int]
  PROVE  BestReply(g, role, x, u) \in 0 .. g.max * u /\ Slope(g, role, x, u) \in Int /\ g.max * u \in Nat
<1>1. /\ g.n \in Nat /\ g.max \in Nat /\ g.a \in Int /\ g.b \in Int /\ g.c \in Int /\ g.d \in Int
      /\ g.kind \in {"cournot", "bertrand", "public_goods"} /\ Possible(g)
  BY DEF InUnits
<1>2. SumOf(x) \in Int /\ x[role] \in Int
  <2>1. x \in Seq(Int)
    BY <1>1
  <2>2. QED
    BY <2>1, Added
<1>3. OthersOf(role, x) \in Int
  BY <1>2 DEF OthersOf
<1>4. g.max * u \in Nat
  BY <1>1, Product
<1>5. CASE g.kind = "cournot"
  <2>1. g.b \in Nat \ {0} /\ 2 * g.b \in Nat \ {0}
    BY <1>1, <1>5 DEF Possible, Cournot
  <2>2. (g.a - g.c) * u \in Int /\ g.b * OthersOf(role, x) \in Int /\ g.b * SumOf(x) \in Int /\ g.b * x[role] \in Int
    <3>1. g.a - g.c \in Int /\ u \in Int
      BY <1>1
    <3>2. QED
      BY <1>1, <1>2, <1>3, <3>1, Multiple
  <2>3. ((g.a - g.c) * u - g.b * OthersOf(role, x)) \div (2 * g.b) \in Int
    BY <2>1, <2>2, Quotient
  <2>4. CournotReply(g, OthersOf(role, x), u) \in Int
    BY <2>3 DEF CournotReply
  <2>5. QED
    BY <1>4, <1>5, <2>2, <2>4, Clamped DEF BestReply, Slope
<1>6. CASE g.kind = "bertrand"
  <2>1. g.b \in Nat \ {0} /\ 2 * g.b \in Nat \ {0}
    <3>1. Bertrand(g)
      BY <1>1, <1>6 DEF Possible
    <3>2. g.b > 0
      BY <3>1, Zenon DEF Bertrand
    <3>3. QED
      BY <1>1, <3>2
  <2>2. g.a * u \in Int /\ g.b * g.c * u \in Int /\ g.d * OthersOf(role, x) \in Int /\ 2 * g.b * x[role] \in Int
    <3>1. g.b * g.c \in Int /\ 2 * g.b \in Int /\ u \in Int
      BY <1>1, Multiple
    <3>2. g.a * u \in Int /\ g.d * OthersOf(role, x) \in Int
      BY <1>1, <1>3, <3>1, Multiple
    <3>3. (g.b * g.c) * u \in Int /\ (2 * g.b) * x[role] \in Int
      BY <1>2, <3>1, Multiple
    <3>4. QED
      BY <3>2, <3>3
  <2>3. (g.a * u + g.b * g.c * u + g.d * OthersOf(role, x)) \div (2 * g.b) \in Int
    BY <2>1, <2>2, Quotient
  <2>4. BertrandReply(g, OthersOf(role, x), u) \in Int
    BY <2>3 DEF BertrandReply
  <2>5. Slope(g, role, x, u) = g.a * u - 2 * g.b * x[role] + g.b * g.c * u + g.d * OthersOf(role, x)
    BY <1>6 DEF Slope
  <2>6. Slope(g, role, x, u) \in Int
    BY <2>2, <2>5
  <2>7. QED
    BY <1>4, <1>6, <2>4, <2>6, Clamped DEF BestReply
<1>7. CASE g.kind = "public_goods"
  BY <1>1, <1>4, <1>7 DEF BestReply, PublicGoodsReply, Slope
<1>8. QED
  BY <1>1, <1>5, <1>6, <1>7

(* Damped or along the gradient, a move ends within the bounds. *)
LEMMA MovedIn ==
  ASSUME NEW g, InUnits(g), Unit \in Nat \ {0}, NEW r, r.rate \in Nat, NEW role \in 1 .. g.n, NEW x \in [1 .. g.n -> Int]
  PROVE  Moved(g, r, role, x) \in 0 .. g.max * Unit
<1> DEFINE top == g.max * Unit
           b == BestReply(g, role, x, Unit)
           v == (Full - r.rate) * x[role] + r.rate * b
           w == r.rate * Along(g, role, x)
<1>1. b \in Int /\ Slope(g, role, x, Unit) \in Int /\ top \in Nat /\ x[role] \in Int /\ g.n \in Nat /\ g.n >= 2
  <2>1. b \in 0 .. top /\ Slope(g, role, x, Unit) \in Int /\ top \in Nat
    BY ReplyIn
  <2>2. QED
    BY <2>1 DEF InUnits, Possible
<1>2. Along(g, role, x) \in Int
  <2>1. Slope(g, role, x, Unit) * Unit \in Int
    BY <1>1, Multiple
  <2>2. (Slope(g, role, x, Unit) * Unit) \div g.n \in Int
    BY <1>1, <2>1, Quotient
  <2>3. QED
    BY <1>1, <2>2 DEF Along
<1>3. v \in Int /\ w \in Int
  <2>1. Full - r.rate \in Int
    BY DEF Full
  <2>2. (Full - r.rate) * x[role] \in Int /\ r.rate * b \in Int
    <3> HIDE DEF b
    <3>1. QED
      BY <1>1, <2>1, Multiple
  <2>3. w \in Int
    BY <1>2, Multiple
  <2>4. QED
    BY <2>2, <2>3
<1>4. v \div Full \in Int /\ x[role] + w \div Full \in Int
  <2> HIDE DEF v, w
  <2>1. Full \in Nat \ {0}
    BY DEF Full
  <2>2. v \div Full \in Int /\ w \div Full \in Int
    BY <1>3, <2>1, Quotient
  <2>3. QED
    BY <1>1, <2>2
<1>5. Clamp(v \div Full, 0, top) \in 0 .. top /\ Clamp(x[role] + w \div Full, 0, top) \in 0 .. top
  <2> HIDE DEF v, w, top
  <2>1. QED
    BY <1>1, <1>4, Clamped
<1>6. QED
  BY <1>5 DEF Moved

-----------------------------------------------------------------------------
(***************************************************************************)
(* Days: who sits where, and what was played last.                         *)
(***************************************************************************)
Plays(h, A) == Seq([seats : [1 .. h.game.n -> DOMAIN h.rules], acts : [1 .. h.game.n -> A]])
Amounts(h) == 0 .. h.game.max * Unit
Hall(h) == Assembled(h) /\ Unit \in Nat \ {0}
Tape(h) == Seq(Plays(h, Amounts(h)))

LEMMA HallIs ==
  ASSUME NEW h, Hall(h)
  PROVE  /\ InUnits(h.game) /\ Unit \in Nat \ {0} /\ h.depth \in Nat \ {0} /\ h.window \in Nat /\ h.tol \in Nat
         /\ DOMAIN h.rules = 1 .. Len(h.rules) /\ Len(h.rules) \in Nat \ {0}
         /\ \A a \in DOMAIN h.rules : h.rules[a].kind \in {"damped", "gradient", "held"} /\ h.rules[a].rate \in Nat
         /\ h.start \in [DOMAIN h.rules -> Amounts(h)]
         /\ h.game.n \in Nat /\ h.game.n >= 2 /\ h.game.max \in Nat /\ h.game.max * Unit \in Nat
<1>1. h.rules \in Seq([kind : {"damped", "gradient", "held"}, rate : Nat]) /\ h.rules # <<>>
  BY DEF Hall, Assembled
<1>2. DOMAIN h.rules = 1 .. Len(h.rules) /\ Len(h.rules) \in Nat \ {0}
  BY <1>1
<1>3. \A a \in DOMAIN h.rules : h.rules[a] \in [kind : {"damped", "gradient", "held"}, rate : Nat]
  <2> DEFINE R == [kind : {"damped", "gradient", "held"}, rate : Nat]
  <2>1. h.rules \in Seq(R)
    BY <1>1
  <2> HIDE DEF R
  <2>2. \A a \in 1 .. Len(h.rules) : h.rules[a] \in R
    BY <2>1
  <2>3. QED
    BY <1>2, <2>2 DEF R
<1>4. InUnits(h.game) /\ h.game.n \in Nat /\ h.game.n >= 2 /\ h.game.max \in Nat /\ Unit \in Nat
  BY DEF Hall, Assembled, InUnits, Possible
<1>5. h.game.max * Unit \in Nat
  BY <1>4, Product
<1>6. QED
  BY <1>2, <1>3, <1>4, <1>5 DEF Hall, Assembled, Amounts

LEMMA PlayIs ==
  ASSUME NEW h, NEW A, NEW p \in Plays(h, A)
  PROVE  /\ DOMAIN p = 1 .. Len(p) /\ Len(p) \in Nat
         /\ \A e \in 1 .. Len(p) : /\ p[e] = [seats |-> p[e].seats, acts |-> p[e].acts]
                                   /\ p[e].seats \in [1 .. h.game.n -> DOMAIN h.rules]
                                   /\ p[e].acts \in [1 .. h.game.n -> A]
<1> DEFINE R == [seats : [1 .. h.game.n -> DOMAIN h.rules], acts : [1 .. h.game.n -> A]]
<1>1. p \in Seq(R)
  BY DEF Plays
<1>2. \A x \in R : /\ x = [seats |-> x.seats, acts |-> x.acts]
                   /\ x.seats \in [1 .. h.game.n -> DOMAIN h.rules] /\ x.acts \in [1 .. h.game.n -> A]
  OBVIOUS
<1> HIDE DEF R
<1>3. DOMAIN p = 1 .. Len(p) /\ Len(p) \in Nat /\ \A e \in 1 .. Len(p) : p[e] \in R
  BY <1>1
<1>4. QED
  BY <1>2, <1>3

(* The seats of an agent: where it sits in an encounter. *)
LEMMA SeatsAre ==
  ASSUME NEW h, NEW A, NEW p \in Plays(h, A), NEW a, h.game.n \in Nat
  PROVE  SeatsOf(p, a) = {s \in (1 .. Len(p)) \X (1 .. h.game.n) : p[s[1]].seats[s[2]] = a}
<1>1. DOMAIN p = 1 .. Len(p) /\ Len(p) \in Nat
  BY PlayIs
<1>2. CASE p = <<>>
  <2>1. Len(p) = 0 /\ 1 .. Len(p) = {}
    BY <1>2
  <2>2. QED
    BY <1>1, <2>1 DEF SeatsOf
<1>3. CASE p # <<>>
  <2>1. 1 \in 1 .. Len(p)
    <3>1. p \in Seq([seats : [1 .. h.game.n -> DOMAIN h.rules], acts : [1 .. h.game.n -> A]])
      BY DEF Plays
    <3>2. QED
      BY <1>1, <1>3, <3>1
  <2>2. p[1].seats \in [1 .. h.game.n -> DOMAIN h.rules]
    BY <2>1, PlayIs
  <2>3. Len(p[1].seats) = h.game.n
    BY <2>2
  <2>4. QED
    BY <1>1, <1>3, <2>3 DEF SeatsOf
<1>4. QED
  BY <1>2, <1>3

LEMMA SeatsSame ==
  ASSUME NEW h, NEW A, NEW B, NEW p \in Plays(h, A), NEW q \in Plays(h, B), NEW a, h.game.n \in Nat,
         Len(p) = Len(q), \A e \in 1 .. Len(p) : p[e].seats = q[e].seats
  PROVE  SeatsOf(p, a) = SeatsOf(q, a)
<1>1. SeatsOf(p, a) = {s \in (1 .. Len(p)) \X (1 .. h.game.n) : p[s[1]].seats[s[2]] = a}
  BY SeatsAre
<1>2. SeatsOf(q, a) = {s \in (1 .. Len(q)) \X (1 .. h.game.n) : q[s[1]].seats[s[2]] = a}
  BY SeatsAre
<1>3. \A s \in (1 .. Len(p)) \X (1 .. h.game.n) : s[1] \in 1 .. Len(p)
  OBVIOUS
<1>4. QED
  BY <1>1, <1>2, <1>3

(* The first and the last of them are some of them. *)
LEMMA EndSeats ==
  ASSUME NEW L \in Nat, NEW n, NEW S, S \subseteq (1 .. L) \X (1 .. n), S # {}
  PROVE  FirstOf(S) \in S /\ LastSeatOf(S) \in S
<1>1. \A s \in S : s[1] \in 1 .. L
  OBVIOUS
<1>2. \E s \in S : \A o \in S : s[1] <= o[1]
  <2> DEFINE T == {s[1] : s \in S}
  <2>1. T \subseteq Nat /\ T # {}
    BY <1>1
  <2>2. PICK x \in T : \A y \in T : x <= y
    <3> HIDE DEF T
    <3>1. QED
      BY <2>1, Least
  <2>3. QED
    BY <2>2
<1>3. \E s \in S : \A o \in S : s[1] >= o[1]
  <2> DEFINE T == {L - s[1] : s \in S}
  <2>1. T \subseteq Nat /\ T # {}
    BY <1>1
  <2>2. PICK x \in T : \A y \in T : x <= y
    <3> HIDE DEF T
    <3>1. QED
      BY <2>1, Least
  <2>3. PICK s \in S : x = L - s[1]
    BY <2>2
  <2>4. ASSUME NEW o \in S PROVE s[1] >= o[1]
    <3>1. L - o[1] \in T
      OBVIOUS
    <3>2. L - s[1] <= L - o[1]
      BY <2>2, <2>3, <3>1
    <3>3. QED
      BY <1>1, <3>2
  <2>5. QED
    BY <2>3, <2>4
<1>4. QED
  BY <1>2, <1>3 DEF FirstOf, LastSeatOf

LEMMA Sitting ==
  ASSUME NEW h, NEW A, NEW p \in Plays(h, A), NEW a, h.game.n \in Nat, SeatsOf(p, a) # {}
  PROVE  /\ FirstOf(SeatsOf(p, a)) \in SeatsOf(p, a) /\ LastSeatOf(SeatsOf(p, a)) \in SeatsOf(p, a)
         /\ \A s \in SeatsOf(p, a) : /\ s = <<s[1], s[2]>> /\ s[1] \in 1 .. Len(p) /\ s[2] \in 1 .. h.game.n
                                     /\ p[s[1]].seats[s[2]] = a /\ p[s[1]].acts[s[2]] \in A
<1>1. SeatsOf(p, a) = {s \in (1 .. Len(p)) \X (1 .. h.game.n) : p[s[1]].seats[s[2]] = a}
  BY SeatsAre
<1>2. Len(p) \in Nat /\ \A e \in 1 .. Len(p) : p[e].acts \in [1 .. h.game.n -> A]
  BY PlayIs
<1>3. SeatsOf(p, a) \subseteq (1 .. Len(p)) \X (1 .. h.game.n)
  BY <1>1
<1>4. FirstOf(SeatsOf(p, a)) \in SeatsOf(p, a) /\ LastSeatOf(SeatsOf(p, a)) \in SeatsOf(p, a)
  BY <1>2, <1>3, EndSeats
<1>5. \A s \in SeatsOf(p, a) : /\ s = <<s[1], s[2]>> /\ s[1] \in 1 .. Len(p) /\ s[2] \in 1 .. h.game.n
                               /\ p[s[1]].seats[s[2]] = a
  BY <1>1
<1>6. QED
  BY <1>2, <1>4, <1>5

(* What was played last: on the greatest day, among those that count, with a seat. *)
Topmost(S, x) == x \in S /\ \A y \in S : y <= x
LEMMA TopmostIs ==
  ASSUME NEW S, S \subseteq Int, NEW x, Topmost(S, x)
  PROVE  Max(S) = x
<1>1. \A z \in S : (\A y \in S : z >= y) => z = x
  BY DEF Topmost
<1>2. x \in S /\ \A y \in S : x >= y
  BY DEF Topmost
<1>3. QED
  BY <1>1, <1>2 DEF Max

LEMMA TopmostOf ==
  ASSUME NEW L \in Nat, NEW S, S \subseteq 1 .. L, S # {}
  PROVE  \E x : Topmost(S, x)
<1> DEFINE T == {L - s : s \in S}
<1>1. T \subseteq Nat /\ T # {}
  <2>1. \A s \in S : s \in 1 .. L
    OBVIOUS
  <2>2. \A s \in 1 .. L : L - s \in Nat
    OBVIOUS
  <2>3. QED
    BY <2>1, <2>2
<1>2. PICK x \in T : \A y \in T : x <= y
  <2> HIDE DEF T
  <2>1. QED
    BY <1>1, Least
<1>3. PICK s \in S : x = L - s
  BY <1>2
<1>4. ASSUME NEW o \in S PROVE o <= s
  <2>1. L - o \in T
    OBVIOUS
  <2>2. L - s <= L - o
    BY <1>2, <1>3, <2>1
  <2>3. o \in 1 .. L /\ s \in 1 .. L
    OBVIOUS
  <2>4. QED
    BY <2>2, <2>3
<1>5. QED
  BY <1>4 DEF Topmost

(* What an agent played on a day, and the days, among those that count, on which it did. *)
PlayedOn(p, a) == LET s == FirstOf(SeatsOf(p, a)) IN p[s[1]].acts[s[2]]
SatDays(T, a, days) == {k \in days : SeatsOf(T[k], a) # {}}
LEMMA LatestIs ==
  ASSUME NEW h, Hall(h), NEW T \in Tape(h), NEW a, NEW days, days \subseteq 1 .. Len(T)
  PROVE  \/ SatDays(T, a, days) = {} /\ Latest(T, a, days) = NotPlayed
         \/ \E x : /\ Topmost(SatDays(T, a, days), x) /\ x \in days
                   /\ Latest(T, a, days) = PlayedOn(T[x], a) /\ PlayedOn(T[x], a) \in Amounts(h)
<1> DEFINE S == SatDays(T, a, days)
<1>1. Len(T) \in Nat /\ \A k \in 1 .. Len(T) : T[k] \in Plays(h, Amounts(h))
  BY DEF Tape
<1>2. S \subseteq days /\ S \subseteq 1 .. Len(T) /\ S \subseteq Int
  <2>1. S \subseteq days
    BY DEF SatDays
  <2> HIDE DEF S
  <2>2. 1 .. Len(T) \subseteq Int
    OBVIOUS
  <2>3. QED
    BY <2>1, <2>2
<1>3. CASE S = {}
  BY <1>3 DEF Latest, SatDays
<1>4. CASE S # {}
  <2>1. PICK x : Topmost(S, x)
    <3> HIDE DEF S
    <3>1. QED
      BY <1>1, <1>2, <1>4, TopmostOf
  <2>2. x \in S /\ Max(S) = x
    <3> HIDE DEF S
    <3>1. QED
      BY <1>2, <2>1, TopmostIs DEF Topmost
  <2>3. Latest(T, a, days) = PlayedOn(T[x], a)
    BY <1>4, <2>2 DEF Latest, SatDays, PlayedOn
  <2>4. SeatsOf(T[x], a) # {} /\ T[x] \in Plays(h, Amounts(h)) /\ x \in days
    BY <1>1, <1>2, <2>2 DEF SatDays
  <2>5. PlayedOn(T[x], a) \in Amounts(h)
    <3>1. h.game.n \in Nat
      BY HallIs
    <3>2. QED
      BY <2>4, <3>1, Sitting DEF PlayedOn
  <2>6. QED
    BY <2>1, <2>3, <2>4, <2>5
<1>5. QED
  BY <1>3, <1>4

LEMMA NotedTyped ==
  ASSUME NEW h, Hall(h), NEW T \in Tape(h), NEW a \in DOMAIN h.rules, NEW days, days \subseteq 1 .. Len(T)
  PROVE  /\ Latest(T, a, days) \in Amounts(h) \cup {NotPlayed} /\ Noted(h, T, a, days) \in Amounts(h) \cup {NotPlayed}
         /\ OrStart(h, a, Latest(T, a, days)) \in Amounts(h) /\ OrStart(h, a, Noted(h, T, a, days)) \in Amounts(h)
<1>1. Latest(T, a, days) \in Amounts(h) \cup {NotPlayed}
  <2>1. CASE SatDays(T, a, days) = {} /\ Latest(T, a, days) = NotPlayed
    BY <2>1
  <2>2. CASE \E x : /\ Topmost(SatDays(T, a, days), x) /\ x \in days
                   /\ Latest(T, a, days) = PlayedOn(T[x], a) /\ PlayedOn(T[x], a) \in Amounts(h)
    <3>1. PICK x : Latest(T, a, days) = PlayedOn(T[x], a) /\ PlayedOn(T[x], a) \in Amounts(h)
      BY <2>2
    <3> QED
      BY <3>1
  <2>3. QED
    BY <2>1, <2>2, LatestIs
<1>2. Noted(h, T, a, days) \in Amounts(h) \cup {NotPlayed}
  BY <1>1 DEF Noted
<1>3. h.start[a] \in Amounts(h)
  BY HallIs
<1>4. QED
  BY <1>1, <1>2, <1>3 DEF OrStart

(* Another day changes nothing of what was, and is the latest for those who sat. *)
LEMMA Extends ==
  ASSUME NEW h, NEW T \in Tape(h), NEW p \in Plays(h, Amounts(h))
  PROVE  /\ Append(T, p) \in Tape(h) /\ Len(Append(T, p)) = Len(T) + 1 /\ Append(T, p)[Len(T) + 1] = p /\ Len(T) \in Nat
         /\ \A k \in 1 .. Len(T) : Append(T, p)[k] = T[k]
BY DEF Tape

\* A day more changes nothing of what was played before it.
SameBefore(h, U, T) ==
  \A days, a : days \subseteq 1 .. Len(T) => Latest(U, a, days) = Latest(T, a, days) /\ Noted(h, U, a, days) = Noted(h, T, a, days)

LEMMA LatestBefore ==
  ASSUME NEW h, NEW T \in Tape(h), NEW p \in Plays(h, Amounts(h))
  PROVE  SameBefore(h, Append(T, p), T)
<1>0. Len(T) \in Nat /\ \A k \in 1 .. Len(T) : Append(T, p)[k] = T[k]
  BY Extends
<1>1. SUFFICES ASSUME NEW days, days \subseteq 1 .. Len(T), NEW a PROVE Latest(Append(T, p), a, days) = Latest(T, a, days)
  BY DEF Noted, SameBefore
<1> DEFINE U == Append(T, p)
<1>2. \A k \in days : U[k] = T[k]
  BY <1>0, <1>1
<1>3. SatDays(U, a, days) = SatDays(T, a, days)
  <2> HIDE DEF U
  <2>1. QED
    BY <1>2 DEF SatDays
<1>4. Len(T) \in Nat /\ SatDays(T, a, days) \subseteq 1 .. Len(T) /\ SatDays(T, a, days) \subseteq days
  BY <1>0, <1>1 DEF SatDays
<1>5. CASE SatDays(T, a, days) = {}
  BY <1>3, <1>5 DEF Latest, SatDays
<1>6. CASE SatDays(T, a, days) # {}
  <2>1. PICK x : Topmost(SatDays(T, a, days), x)
    BY <1>4, <1>6, TopmostOf
  <2>2. x \in days /\ Max(SatDays(T, a, days)) = x
    <3>1. SatDays(T, a, days) \subseteq Int
      BY <1>4
    <3>2. QED
      BY <1>4, <2>1, <3>1, TopmostIs DEF Topmost
  <2>3. Latest(T, a, days) = PlayedOn(T[x], a)
    BY <1>6, <2>2 DEF Latest, SatDays, PlayedOn
  <2>4. Latest(U, a, days) = PlayedOn(U[x], a)
    <3> HIDE DEF U
    <3>1. QED
      BY <1>3, <1>6, <2>2 DEF Latest, SatDays, PlayedOn
  <2>5. QED
    BY <1>2, <2>2, <2>3, <2>4
<1>7. QED
  BY <1>5, <1>6

LEMMA LatestNow ==
  ASSUME NEW h, Hall(h), NEW T \in Tape(h), NEW p \in Plays(h, Amounts(h)), NEW a
  PROVE  Latest(Append(T, p), a, 1 .. Len(T) + 1) = IF SeatsOf(p, a) = {} THEN Latest(T, a, 1 .. Len(T)) ELSE PlayedOn(p, a)
<1> DEFINE U == Append(T, p)
           L == Len(T)
           S == SatDays(U, a, 1 .. L + 1)
           R == SatDays(U, a, 1 .. L)
<1>1. U \in Tape(h) /\ Len(U) = L + 1 /\ U[L + 1] = p /\ L \in Nat
  BY Extends
<1> HIDE DEF U, L
<1>2. CASE SeatsOf(p, a) # {}
  <2>1. L + 1 \in S /\ \A k \in S : k \in 1 .. L + 1
    <3>1. L + 1 \in 1 .. L + 1
      BY <1>1
    <3>2. QED
      BY <1>1, <1>2, <3>1 DEF SatDays
  <2>2. S \subseteq Int /\ Topmost(S, L + 1)
    <3> HIDE DEF S
    <3>1. QED
      BY <1>1, <2>1 DEF Topmost
  <2>3. Max(S) = L + 1 /\ S # {}
    <3> HIDE DEF S
    <3>1. QED
      BY <2>1, <2>2, TopmostIs
  <2>4. Latest(U, a, 1 .. L + 1) = PlayedOn(U[L + 1], a)
    BY <2>3 DEF Latest, SatDays, PlayedOn
  <2>5. QED
    BY <1>1, <1>2, <2>4 DEF U, L
<1>3. CASE SeatsOf(p, a) = {}
  <2>1. S = R
    <3>1. \A k \in 1 .. L + 1 : k \in 1 .. L \/ k = L + 1
      BY <1>1
    <3>2. \A k \in 1 .. L : k \in 1 .. L + 1
      BY <1>1
    <3>3. QED
      BY <1>1, <1>3, <3>1, <3>2 DEF SatDays
  <2>2. Latest(U, a, 1 .. L + 1) = Latest(U, a, 1 .. L)
    BY <2>1 DEF Latest, SatDays
  <2>3. Latest(U, a, 1 .. L) = Latest(T, a, 1 .. L)
    <3>1. 1 .. L \subseteq 1 .. Len(T)
      BY DEF L
    <3>2. SameBefore(h, U, T)
      BY LatestBefore DEF U
    <3>3. QED
      BY <3>1, <3>2 DEF SameBefore
  <2>4. QED
    BY <1>3, <2>2, <2>3 DEF U, L
<1>4. QED
  BY <1>2, <1>3

LEMMA NotedNow ==
  ASSUME NEW h, Hall(h), NEW T \in Tape(h), NEW p \in Plays(h, Amounts(h)), NEW a
  PROVE  Noted(h, Append(T, p), a, 1 .. Len(T) + 1) =
           IF h.scope # "step" \/ SeatsOf(p, a) = {} THEN Noted(h, T, a, 1 .. Len(T)) ELSE PlayedOn(p, a)
BY LatestNow DEF Noted

(* What the histories hold: a record of each day. *)
Vectors(h) == [DOMAIN h.rules -> Amounts(h) \cup {NotPlayed}]
DayNote(h, p) == [a \in DOMAIN h.rules |-> IF h.scope # "step" \/ SeatsOf(p, a) = {} THEN NotPlayed ELSE PlayedOn(p, a)]
Notes(h, T) == [d \in 1 .. Len(T) |-> DayNote(h, T[d])]
Recent(h, k) == {d \in 1 .. k : d + h.depth > k}

LEMMA DayNoteIn ==
  ASSUME NEW h, Hall(h), NEW p \in Plays(h, Amounts(h))
  PROVE  DayNote(h, p) \in Vectors(h)
<1>1. ASSUME NEW a, SeatsOf(p, a) # {} PROVE PlayedOn(p, a) \in Amounts(h)
  <2>1. h.game.n \in Nat
    BY HallIs
  <2>2. QED
    BY <1>1, <2>1, Sitting DEF PlayedOn
<1>2. QED
  BY <1>1 DEF DayNote, Vectors

LEMMA NotesIn ==
  ASSUME NEW h, Hall(h), NEW T \in Tape(h)
  PROVE  Notes(h, T) \in Seq(Vectors(h)) /\ Len(Notes(h, T)) = Len(T) /\ Len(T) \in Nat
<1>1. Len(T) \in Nat /\ \A d \in 1 .. Len(T) : T[d] \in Plays(h, Amounts(h))
  BY DEF Tape
<1>2. \A d \in 1 .. Len(T) : DayNote(h, T[d]) \in Vectors(h)
  BY <1>1, DayNoteIn
<1>3. QED
  BY <1>1, <1>2 DEF Notes

LEMMA OneMore ==
  ASSUME NEW S, NEW x \in Seq(S), NEW v \in S
  PROVE  Append(x, v) = [d \in 1 .. Len(x) + 1 |-> IF d = Len(x) + 1 THEN v ELSE x[d]]
<1> DEFINE y == Append(x, v)
           z == [d \in 1 .. Len(x) + 1 |-> IF d = Len(x) + 1 THEN v ELSE x[d]]
<1>1. y \in Seq(S) /\ Len(y) = Len(x) + 1 /\ y[Len(x) + 1] = v /\ \A d \in 1 .. Len(x) : y[d] = x[d]
  OBVIOUS
<1>2. Len(x) \in Nat
  OBVIOUS
<1> HIDE DEF y
<1>3. y = [d \in 1 .. Len(y) |-> y[d]]
  BY <1>1
<1>4. \A d \in 1 .. Len(x) + 1 : y[d] = z[d]
  BY <1>1, <1>2
<1>5. y = z
  BY <1>1, <1>2, <1>3, <1>4
<1>6. QED
  BY <1>5 DEF y

LEMMA NotesOn ==
  ASSUME NEW h, Hall(h), NEW T \in Tape(h), NEW p \in Plays(h, Amounts(h))
  PROVE  Notes(h, Append(T, p)) = Append(Notes(h, T), DayNote(h, p))
<1> DEFINE U == Append(T, p)
           L == Len(T)
           X == Notes(h, T)
<1>1. Len(U) = L + 1 /\ U[L + 1] = p /\ L \in Nat /\ \A k \in 1 .. L : U[k] = T[k]
  BY Extends
<1>2. X \in Seq(Vectors(h)) /\ Len(X) = L /\ \A d \in 1 .. L : X[d] = DayNote(h, T[d])
  BY NotesIn DEF Notes
<1>3. Append(X, DayNote(h, p)) = [d \in 1 .. L + 1 |-> IF d = L + 1 THEN DayNote(h, p) ELSE X[d]]
  <2>1. DayNote(h, p) \in Vectors(h)
    BY DayNoteIn
  <2> HIDE DEF X, L
  <2>2. QED
    BY <1>1, <1>2, <2>1, OneMore
<1>4. Notes(h, U) = [d \in 1 .. L + 1 |-> DayNote(h, U[d])]
  BY <1>1 DEF Notes
<1>5. \A d \in 1 .. L + 1 : DayNote(h, U[d]) = IF d = L + 1 THEN DayNote(h, p) ELSE X[d]
  <2> HIDE DEF X, U, L
  <2>1. \A d \in 1 .. L + 1 : d = L + 1 \/ d \in 1 .. L
    BY <1>1
  <2>2. QED
    BY <1>1, <1>2, <2>1
<1>6. QED
  BY <1>3, <1>4, <1>5

(* A peer is seen as it was last noted on the days the histories go back to. *)
LEMMA PeerIs ==
  ASSUME NEW h, Hall(h), NEW T \in Tape(h), NEW m, m.hall = h, Holds(h.depth, m.ring, Notes(h, T)), NEW b \in DOMAIN h.rules
  PROVE  Peer(m, b) = Noted(h, T, b, Recent(h, Len(T)))
<1> DEFINE L == Len(T)
           n == h.depth
           view == StepView(n, m.ring)
           off == IF L <= n THEN 0 ELSE L - n
           D == {k \in DOMAIN view : view[k][b] # NotPlayed}
           W == Recent(h, L)
           S == SatDays(T, b, W)
<1>1. L \in Nat /\ n \in Nat \ {0} /\ Notes(h, T) \in Seq(Vectors(h)) /\ Len(Notes(h, T)) = L
  BY NotesIn, HallIs
<1>2. view = LastOf(n, Notes(h, T))
  BY <1>1, ViewOfRing
<1>3. DOMAIN view = 1 .. L - off /\ off \in Nat /\ off <= L /\ \A k \in 1 .. L - off : view[k] = Notes(h, T)[k + off]
  <2> DEFINE X == Notes(h, T)
  <2> HIDE DEF X, view, L, n
  <2>1. CASE L <= n
    <3>1. view = X
      BY <1>1, <1>2, <2>1 DEF LastOf, X
    <3>2. QED
      BY <1>1, <2>1, <3>1 DEF X
  <2>2. CASE L > n
    <3>1. view = SubSeq(X, L - n + 1, L)
      BY <1>1, <1>2, <2>2 DEF LastOf, X
    <3>2. X \in Seq(Vectors(h)) /\ Len(X) = L
      BY <1>1 DEF X
    <3>3. DOMAIN view = 1 .. n /\ \A k \in 1 .. n : view[k] = X[L - n + k]
      BY <1>1, <2>2, <3>1, <3>2
    <3>4. off = L - n /\ L - off = n /\ \A k \in 1 .. n : k + off = L - n + k
      BY <1>1, <2>2
    <3>5. QED
      BY <1>1, <2>2, <3>3, <3>4 DEF X
  <2>3. QED
    BY <1>1, <2>1, <2>2
<1>4. \A k \in 1 .. L - off : /\ k + off \in 1 .. L /\ k + off + n > L
                              /\ view[k][b] = IF h.scope # "step" \/ SeatsOf(T[k + off], b) = {} THEN NotPlayed ELSE PlayedOn(T[k + off], b)
  <2>1. ASSUME NEW k \in 1 .. L - off PROVE k + off \in 1 .. L /\ k + off + n > L
    <3> HIDE DEF L, n
    <3>1. QED
      BY <1>1, <1>3
  <2>2. \A d \in 1 .. L : Notes(h, T)[d][b] = IF h.scope # "step" \/ SeatsOf(T[d], b) = {} THEN NotPlayed ELSE PlayedOn(T[d], b)
    BY DEF Notes, DayNote
  <2> HIDE DEF view, L, off
  <2>3. QED
    BY <1>3, <2>1, <2>2
<1>5. W \subseteq 1 .. L /\ \A d \in W : d - off \in 1 .. L - off
  <2>1. \A d \in W : d \in 1 .. L /\ d + n > L
    BY DEF Recent
  <2> HIDE DEF W, L, n
  <2>2. QED
    BY <1>1, <2>1
<1>6. \A k \in 1 .. L - off : k + off \in W
  <2> HIDE DEF off
  <2>1. QED
    BY <1>4 DEF Recent
<1>7. CASE h.scope # "step"
  <2>1. D = {}
    <3> HIDE DEF view, off, L
    <3>1. QED
      BY <1>3, <1>4, <1>7
  <2>2. Peer(m, b) = NotPlayed
    BY <2>1 DEF Peer
  <2>3. QED
    BY <1>7, <2>2 DEF Noted
<1>8. CASE h.scope = "step"
  <2>1. Noted(h, T, b, W) = Latest(T, b, W)
    BY <1>8 DEF Noted
  <2>2. \A k \in 1 .. L - off : k \in D <=> SeatsOf(T[k + off], b) # {}
    <3>1. \A d \in 1 .. L : SeatsOf(T[d], b) # {} => PlayedOn(T[d], b) # NotPlayed
      <4>1. SUFFICES ASSUME NEW d \in 1 .. L, SeatsOf(T[d], b) # {} PROVE PlayedOn(T[d], b) # NotPlayed
        OBVIOUS
      <4>2. T[d] \in Plays(h, Amounts(h)) /\ h.game.n \in Nat /\ h.game.max * Unit \in Nat
        BY HallIs DEF Tape
      <4>3. PlayedOn(T[d], b) \in Amounts(h)
        BY <4>1, <4>2, Sitting DEF PlayedOn
      <4>4. QED
        BY <4>2, <4>3 DEF Amounts, NotPlayed
    <3> HIDE DEF view, off, L
    <3>2. QED
      BY <1>3, <1>4, <1>8, <3>1
  <2>3. CASE D = {}
    <3>1. Peer(m, b) = NotPlayed
      BY <2>3 DEF Peer
    <3>2. S = {}
      <4>1. SUFFICES ASSUME NEW d \in S PROVE FALSE
        OBVIOUS
      <4>2. d \in W /\ SeatsOf(T[d], b) # {}
        BY DEF SatDays
      <4>3. d - off \in 1 .. L - off /\ d - off + off = d
        <5>1. d \in 1 .. L
          BY <1>5, <4>2
        <5> HIDE DEF W, L, off
        <5>2. QED
          BY <1>3, <1>5, <4>2, <5>1
      <4>4. QED
        BY <2>2, <2>3, <4>2, <4>3
    <3>3. QED
      BY <2>1, <3>1, <3>2 DEF Latest, SatDays
  <2>4. CASE D # {}
    <3>1. D \subseteq 1 .. L - off /\ L - off \in Nat /\ D \subseteq Int
      <4>1. D \subseteq 1 .. L - off
        BY <1>3
      <4> HIDE DEF D, L, off
      <4>2. QED
        BY <1>1, <1>3, <4>1
    <3>2. PICK x : Topmost(D, x)
      <4> HIDE DEF D, L, off
      <4>1. QED
        BY <2>4, <3>1, TopmostOf
    <3>3. Max(D) = x /\ x \in D /\ \A y \in D : y <= x
      <4> HIDE DEF D, L, off
      <4>1. QED
        BY <3>1, <3>2, TopmostIs DEF Topmost
    <3>4. Topmost(S, x + off)
      <4>1. x + off \in S
        <5>1. x \in 1 .. L - off
          BY <3>1, <3>3
        <5>2. x + off \in W /\ SeatsOf(T[x + off], b) # {}
          BY <1>6, <2>2, <3>3, <5>1
        <5>3. QED
          BY <5>2 DEF SatDays
      <4>2. ASSUME NEW d \in S PROVE d <= x + off
        <5>1. d \in W /\ SeatsOf(T[d], b) # {}
          BY DEF SatDays
        <5>2. d - off \in 1 .. L - off /\ d - off + off = d /\ d \in Int
          <6>1. d \in 1 .. L
            BY <1>5, <5>1
          <6> HIDE DEF W, L, off
          <6>2. QED
            BY <1>3, <1>5, <5>1, <6>1
        <5>3. d - off \in D
          BY <2>2, <5>1, <5>2
        <5>4. d - off <= x /\ x \in Int
          BY <3>1, <3>3, <5>3
        <5> HIDE DEF L, off
        <5>5. QED
          BY <1>3, <5>2, <5>4
      <4>3. QED
        BY <4>1, <4>2 DEF Topmost
    <3>5. Max(S) = x + off /\ S # {}
      <4>1. S \subseteq W
        BY DEF SatDays
      <4> HIDE DEF S, W, L, off
      <4>2. S \subseteq Int
        BY <1>5, <4>1
      <4>3. QED
        BY <3>4, <4>2, TopmostIs DEF Topmost
    <3>6. Latest(T, b, W) = PlayedOn(T[x + off], b)
      BY <3>5 DEF Latest, SatDays, PlayedOn
    <3>7. Peer(m, b) = view[x][b]
      BY <2>4, <3>3 DEF Peer
    <3>8. view[x][b] = PlayedOn(T[x + off], b)
      <4>1. x \in 1 .. L - off /\ x \in D
        BY <3>1, <3>3
      <4>2. QED
        BY <1>4, <1>8, <2>2, <4>1
    <3>9. QED
      BY <2>1, <3>6, <3>7, <3>8
  <2>5. QED
    BY <2>3, <2>4
<1>9. QED
  BY <1>7, <1>8

(* What is due at a seat: an amount, and a matter of the seats and of the days before. *)
\* y is what the agents on seats remember, as the one on seat r sees it.
FacedAs(h, T, seats, r, y) ==
  /\ y \in [1 .. h.game.n -> Amounts(h) \cup {NotPlayed}]
  /\ y[r] = OrStart(h, seats[r], Noted(h, T, seats[r], 1 .. Len(T)))
  /\ y[r] \in Amounts(h)
  /\ \A q \in 1 .. h.game.n : q # r => y[q] = Noted(h, T, seats[q], Recent(h, Len(T)))

LEMMA FacedIs ==
  ASSUME NEW h, Hall(h), NEW T \in Tape(h), NEW A, NEW p \in Plays(h, A), NEW s, s[1] \in 1 .. Len(p), s[2] \in 1 .. h.game.n
  PROVE  FacedAs(h, T, p[s[1]].seats, s[2], Faced(h, T, p, s, Len(T)))
<1> DEFINE seats == p[s[1]].seats
           x == Faced(h, T, p, s, Len(T))
           own == OrStart(h, seats[s[2]], Noted(h, T, seats[s[2]], 1 .. Len(T)))
           other(r) == Noted(h, T, seats[r], Recent(h, Len(T)))
<1>1. seats \in [1 .. h.game.n -> DOMAIN h.rules]
  BY PlayIs
<1>2. x = [r \in 1 .. h.game.n |-> IF r = s[2] THEN own ELSE other(r)]
  BY <1>1 DEF Faced, Recent
<1>3. own \in Amounts(h)
  BY <1>1, NotedTyped
<1>4. \A r \in 1 .. h.game.n : other(r) \in Amounts(h) \cup {NotPlayed}
  <2>1. Recent(h, Len(T)) \subseteq 1 .. Len(T)
    BY DEF Recent
  <2>2. QED
    BY <1>1, <2>1, NotedTyped
<1> HIDE DEF x, own, other
<1>5. x \in [1 .. h.game.n -> Amounts(h) \cup {NotPlayed}] /\ x[s[2]] = own /\ \A r \in 1 .. h.game.n : r # s[2] => x[r] = other(r)
  BY <1>2, <1>3, <1>4
<1>6. FacedAs(h, T, seats, s[2], x)
  <2> HIDE DEF seats
  <2>1. QED
    BY <1>3, <1>5 DEF FacedAs, own, other
<1>7. QED
  BY <1>6 DEF x

LEMMA DueIn ==
  ASSUME NEW h, Hall(h), NEW T \in Tape(h), NEW A, NEW p \in Plays(h, A), NEW s, s[1] \in 1 .. Len(p), s[2] \in 1 .. h.game.n
  PROVE  Due(h, T, p, s, Len(T)) \in Amounts(h)
<1> DEFINE x == Faced(h, T, p, s, Len(T))
           me == p[s[1]].seats[s[2]]
<1>1. x \in [1 .. h.game.n -> Amounts(h) \cup {NotPlayed}] /\ x[s[2]] \in Amounts(h)
  <2>1. FacedAs(h, T, p[s[1]].seats, s[2], x)
    BY FacedIs
  <2> HIDE DEF x
  <2>2. QED
    BY <2>1 DEF FacedAs
<1>2. me \in DOMAIN h.rules
  <2>1. p[s[1]].seats \in [1 .. h.game.n -> DOMAIN h.rules]
    BY PlayIs
  <2>2. QED
    BY <2>1
<1>3. CASE \E r \in DOMAIN x : x[r] = NotPlayed
  BY <1>1, <1>3 DEF Due
<1>4. CASE ~ \E r \in DOMAIN x : x[r] = NotPlayed
  <2>1. Due(h, T, p, s, Len(T)) = Moved(h.game, h.rules[me], s[2], x)
    BY <1>4 DEF Due
  <2>2. x \in [1 .. h.game.n -> Int]
    <3>1. Amounts(h) \subseteq Int
      BY HallIs DEF Amounts
    <3> HIDE DEF x
    <3>2. QED
      BY <1>1, <1>4, <3>1
  <2>3. InUnits(h.game) /\ Unit \in Nat \ {0} /\ h.rules[me].rate \in Nat
    BY <1>2, HallIs
  <2>4. Moved(h.game, h.rules[me], s[2], x) \in 0 .. h.game.max * Unit
    <3> HIDE DEF x, me
    <3>1. QED
      BY <2>2, <2>3, MovedIn
  <2>5. QED
    BY <2>1, <2>4 DEF Amounts
<1>5. QED
  BY <1>3, <1>4

SameSeats(p, q) == Len(p) = Len(q) /\ \A e \in 1 .. Len(p) : p[e].seats = q[e].seats
LEMMA DueSame ==
  ASSUME NEW h, NEW T, NEW p, NEW q, SameSeats(p, q), NEW s, s[1] \in 1 .. Len(p), NEW k
  PROVE  Due(h, T, p, s, k) = Due(h, T, q, s, k)
<1>1. p[s[1]].seats = q[s[1]].seats
  BY DEF SameSeats
<1>2. QED
  BY <1>1 DEF Due, Faced

LEMMA DueBefore ==
  ASSUME NEW h, NEW T \in Tape(h), NEW p \in Plays(h, Amounts(h)), NEW s
  PROVE  Due(h, Append(T, p), p, s, Len(T)) = Due(h, T, p, s, Len(T))
<1> DEFINE U == Append(T, p)
           L == Len(T)
<1>0. SameBefore(h, U, T)
  BY LatestBefore
<1>1. \A a : Noted(h, U, a, 1 .. L) = Noted(h, T, a, 1 .. L)
  BY <1>0 DEF SameBefore
<1>2. \A a : Noted(h, U, a, {d \in 1 .. L : d + h.depth > L}) = Noted(h, T, a, {d \in 1 .. L : d + h.depth > L})
  <2>1. {d \in 1 .. L : d + h.depth > L} \subseteq 1 .. Len(T)
    OBVIOUS
  <2>2. QED
    BY <1>0, <2>1 DEF SameBefore
<1>3. Faced(h, U, p, s, L) = Faced(h, T, p, s, L)
  <2> HIDE DEF U, L
  <2>1. QED
    BY <1>1, <1>2 DEF Faced
<1>4. QED
  BY <1>3 DEF Due

(* The world between and during the days; what agents know and hold. *)
World(m) ==
  /\ m = [hall |-> m.hall, held |-> m.held, last |-> m.last, ring |-> m.ring, plays |-> m.plays, moved |-> m.moved,
          prev |-> m.prev, below |-> m.below, row |-> m.row, status |-> m.status, tape |-> m.tape]
  /\ Hall(m.hall) /\ m.tape \in Tape(m.hall)
Recalls(m) ==
  /\ Holds(m.hall.depth, m.ring, Notes(m.hall, m.tape))
  /\ m.last \in Vectors(m.hall)
  /\ \A a \in Traders(m) : m.last[a] = IF Follows(m, a) THEN Noted(m.hall, m.tape, a, 1 .. Today(m)) ELSE NotPlayed
\* What an agent holds when it has not moved on this day.
Keeps(m, a) == IF Follows(m, a) THEN OrStart(m.hall, a, Noted(m.hall, m.tape, a, 1 .. Today(m))) ELSE m.hall.start[a]

LEMMA AnswerIs ==
  ASSUME NEW m, World(m), Recalls(m), NEW A, m.plays \in Plays(m.hall, A), NEW s, s[1] \in 1 .. Len(m.plays), s[2] \in 1 .. m.hall.game.n,
         NEW a, a = m.plays[s[1]].seats[s[2]], Follows(m, a), m.held[a] = Keeps(m, a)
  PROVE  Answer(m, a, s) = Due(m.hall, m.tape, m.plays, s, Today(m))
<1> DEFINE h == m.hall
           T == m.tape
           x == Facing(m, a, s)
           y == Faced(h, T, m.plays, s, Len(T))
           seats == m.plays[s[1]].seats
<1>1. Hall(h) /\ T \in Tape(h) /\ m.hall = h
  BY DEF World
<1>2. seats \in [1 .. h.game.n -> DOMAIN h.rules] /\ a \in DOMAIN h.rules
  <2>1. m.plays \in Plays(h, A)
    OBVIOUS
  <2>2. seats \in [1 .. h.game.n -> DOMAIN h.rules]
    BY <2>1, PlayIs
  <2>3. QED
    BY <2>2
<1>3. /\ y \in [1 .. h.game.n -> Amounts(h) \cup {NotPlayed}]
      /\ y[s[2]] = OrStart(h, a, Noted(h, T, a, 1 .. Len(T)))
      /\ \A r \in 1 .. h.game.n : r # s[2] => y[r] = Noted(h, T, seats[r], Recent(h, Len(T)))
  <2>1. m.plays \in Plays(h, A)
    OBVIOUS
  <2>2. FacedAs(h, T, seats, s[2], y)
    BY <1>1, <2>1, FacedIs
  <2> HIDE DEF y, seats, T, h
  <2>3. a = seats[s[2]]
    BY DEF seats
  <2>4. QED
    BY <2>2, <2>3 DEF FacedAs
<1>4. OwnAmount(m, a) = OrStart(h, a, Noted(h, T, a, 1 .. Len(T))) /\ m.held[a] = OrStart(h, a, Noted(h, T, a, 1 .. Len(T)))
  <2>1. m.last[a] = Noted(h, T, a, 1 .. Len(T))
    BY <1>2 DEF Recalls, Traders, Today
  <2>2. m.held[a] = OrStart(h, a, Noted(h, T, a, 1 .. Len(T)))
    BY DEF Keeps, Today
  <2>3. QED
    BY <2>1, <2>2 DEF OwnAmount, OrStart
<1>5. \A b \in DOMAIN h.rules : Peer(m, b) = Noted(h, T, b, Recent(h, Len(T)))
  <2>1. Holds(h.depth, m.ring, Notes(h, T))
    BY DEF Recalls
  <2>2. QED
    BY <1>1, <2>1, PeerIs
<1>6. x = [r \in 1 .. h.game.n |-> IF r = s[2] THEN OwnAmount(m, a) ELSE Peer(m, seats[r])]
  BY <1>2 DEF Facing
<1>7. x = y
  <2>1. y = [r \in 1 .. h.game.n |-> y[r]]
    <3> HIDE DEF y
    <3>1. QED
      BY <1>3
  <2>2. \A r \in 1 .. h.game.n : y[r] = IF r = s[2] THEN OwnAmount(m, a) ELSE Peer(m, seats[r])
    <3> HIDE DEF y
    <3>1. QED
      BY <1>2, <1>3, <1>4, <1>5
  <2> HIDE DEF x, y
  <2>3. QED
    BY <1>6, <2>1, <2>2
<1>8. Due(h, T, m.plays, s, Today(m)) = IF \E r \in DOMAIN y : y[r] = NotPlayed THEN y[s[2]] ELSE Moved(h.game, h.rules[a], s[2], y)
  BY DEF Due, Today
<1>9. Answer(m, a, s) = IF \E r \in DOMAIN x : x[r] = NotPlayed THEN m.held[a] ELSE Moved(h.game, h.rules[a], s[2], x)
  BY DEF Answer
<1>10. QED
  <2> HIDE DEF x, y
  <2>1. QED
    BY <1>3, <1>4, <1>7, <1>8, <1>9

-----------------------------------------------------------------------------
(***************************************************************************)
(* The market, from its start through the steps of every day.              *)
(***************************************************************************)
(* A day's seats are those of the assembly; what is held and filled in while it is decided. *)
SeatedBy(h, p, k) ==
  LET seats == h.seatings[(k % Len(h.seatings)) + 1]
  IN  Len(p) = Len(seats) /\ \A e \in 1 .. Len(p) : p[e].seats = seats[e]
AtRest(m) == m.status \in {"between", "stopped"} /\ m.held = [a \in Traders(m) |-> Keeps(m, a)]
ActAt(m, e, r) ==
  LET me == m.plays[e].seats[r]
  IN  IF ~Follows(m, me) THEN m.hall.start[me]
      ELSE IF me \in m.moved THEN Due(m.hall, m.tape, m.plays, DecidedAt(m.hall, m.plays, me, <<e, r>>), Today(m))
      ELSE NotPlayed
HeldNow(m, a) ==
  IF a \in m.moved /\ Follows(m, a) /\ m.hall.scope = "step"
  THEN Due(m.hall, m.tape, m.plays, LastSeatOf(SeatsOf(m.plays, a)), Today(m)) ELSE Keeps(m, a)
InPlay(m) ==
  /\ m.status = "deciding" /\ m.plays \in Plays(m.hall, Amounts(m.hall) \cup {NotPlayed})
  /\ SeatedBy(m.hall, m.plays, Today(m))
  /\ \A a \in Traders(m) : ~Follows(m, a) => a \in m.moved
  /\ \A a \in m.moved : a \in Traders(m) /\ (Follows(m, a) => SeatsOf(m.plays, a) # {})
  /\ m.held = [a \in Traders(m) |-> HeldNow(m, a)]
  /\ \A e \in 1 .. Len(m.plays), r \in 1 .. m.hall.game.n : m.plays[e].acts[r] = ActAt(m, e, r)

(* Where agents were, and for how many days none of them moved. *)
QuietFor(h, T, k, b) == b \in 0 .. k /\ ~Quiet(h, T, k - b) /\ \A d \in k - b + 1 .. k : Quiet(h, T, d)
QuietDays(m) ==
  /\ QuietFor(m.hall, m.tape, Today(m), m.below)
  /\ m.prev = IF m.tape = <<>> THEN <<>> ELSE [a \in Traders(m) |-> Where(m.hall, m.tape, a, Today(m))]
\* RespondsToPast, of a tape.
AnsweredOn(h, T, day, k) ==
  \A e \in DOMAIN day : \A role \in DOMAIN day[e].seats :
    LET me == day[e].seats[role]
    IN  /\ day[e].acts[role] \in 0 .. h.game.max * Unit
        /\ day[e].acts[role] = IF h.rules[me].kind # "held"
             THEN Due(h, T, day, DecidedAt(h, day, me, <<e, role>>), k) ELSE h.start[me]
Answered(h, T) == AnsweredOn(h, T, T[Len(T)], Len(T) - 1)
Stops(m) == m.tape # <<>> /\ m.status # "deciding" => (m.status = "stopped" <=> m.below >= m.hall.window)
Kept(m) == (\A d \in 1 .. Today(m) : SeatedBy(m.hall, m.tape[d], d - 1)) /\ (m.tape # <<>> => Answered(m.hall, m.tape))
MarketInv(m) == World(m) /\ Recalls(m) /\ (AtRest(m) \/ InPlay(m)) /\ QuietDays(m) /\ Stops(m) /\ Kept(m)

(* It is so when the market opens. *)
LEMMA MarketBegins ==
  ASSUME NEW h, Hall(h), NEW m,
         m = [hall |-> h, held |-> h.start, last |-> [a \in DOMAIN h.rules |-> NotPlayed],
              ring |-> NewRing(h.depth, [a \in DOMAIN h.rules |-> NotPlayed]),
              plays |-> <<>>, moved |-> {}, prev |-> <<>>, below |-> 0, row |-> <<>>, status |-> "between", tape |-> <<>>]
  PROVE  MarketInv(m)
<1>1. /\ m.hall = h /\ m.held = h.start /\ m.last = [a \in DOMAIN h.rules |-> NotPlayed]
      /\ m.ring = NewRing(h.depth, [a \in DOMAIN h.rules |-> NotPlayed])
      /\ m.prev = <<>> /\ m.below = 0 /\ m.status = "between" /\ m.tape = <<>> /\ Today(m) = 0
  BY DEF Today
<1>2. World(m)
  <2>1. <<>> \in Tape(h)
    BY DEF Tape
  <2>2. QED
    BY <1>1, <2>1 DEF World
<1>3. \A a, days : Noted(h, <<>>, a, 1 .. 0) = NotPlayed
  <2>1. \A a : Latest(<<>>, a, 1 .. 0) = NotPlayed
    <3>1. \A a : {k \in 1 .. 0 : SeatsOf(<<>>[k], a) # {}} = {}
      BY SMT
    <3>2. QED
      BY <3>1 DEF Latest
  <2>2. QED
    BY <2>1 DEF Noted
<1>4. Recalls(m)
  <2>1. Notes(h, <<>>) = <<>>
    <3>1. <<>> \in Tape(h)
      BY DEF Tape
    <3>2. Notes(h, <<>>) \in Seq(Vectors(h)) /\ Len(Notes(h, <<>>)) = Len(<<>>)
      BY <3>1, NotesIn
    <3>3. QED
      BY <3>2
  <2>2. Holds(h.depth, m.ring, Notes(h, <<>>))
    <3>1. h.depth \in Nat \ {0}
      BY HallIs
    <3>2. QED
      BY <1>1, <2>1, <3>1, NewHolds
  <2>3. m.last \in Vectors(h)
    BY <1>1 DEF Vectors
  <2>4. QED
    BY <1>1, <1>3, <2>2, <2>3 DEF Recalls, Traders
<1>5. AtRest(m)
  <2>1. \A a \in DOMAIN h.rules : Keeps(m, a) = h.start[a]
    BY <1>1, <1>3 DEF Keeps, OrStart
  <2>2. h.start = [a \in DOMAIN h.rules |-> h.start[a]]
    BY HallIs
  <2>3. QED
    BY <1>1, <2>1, <2>2 DEF AtRest, Traders
<1>6. QuietDays(m)
  <2>1. ~Quiet(h, <<>>, 0 - 0)
    BY DEF Quiet
  <2>2. \A k \in 0 - 0 + 1 .. 0 : Quiet(h, <<>>, k)
    OBVIOUS
  <2>3. 0 \in 0 .. 0
    OBVIOUS
  <2>4. QuietFor(h, <<>>, 0, 0)
    BY <2>1, <2>2, <2>3 DEF QuietFor
  <2>5. QED
    BY <1>1, <2>4 DEF QuietDays
<1>7. Stops(m) /\ Kept(m)
  BY <1>1 DEF Stops, Kept
<1>8. QED
  BY <1>2, <1>4, <1>5, <1>6, <1>7 DEF MarketInv

(* While a day is decided, what was before it stays. *)
LEMMA StillSo ==
  ASSUME NEW m, NEW n, n.hall = m.hall, n.tape = m.tape, n.ring = m.ring, n.last = m.last, n.prev = m.prev, n.below = m.below,
         Recalls(m), QuietDays(m), Kept(m)
  PROVE  /\ Recalls(n) /\ QuietDays(n) /\ Kept(n) /\ Today(n) = Today(m) /\ Traders(n) = Traders(m)
         /\ \A a : Keeps(n, a) = Keeps(m, a) /\ (Follows(n, a) <=> Follows(m, a))
<1>1. Today(n) = Today(m) /\ Traders(n) = Traders(m) /\ \A a : (Follows(n, a) <=> Follows(m, a))
  BY DEF Today, Traders, Follows
<1>2. \A a : Keeps(n, a) = Keeps(m, a)
  BY <1>1 DEF Keeps
<1>3. Recalls(n)
  BY <1>1 DEF Recalls
<1>4. QuietDays(n)
  BY <1>1 DEF QuietDays
<1>5. QED
  BY <1>1, <1>2, <1>3, <1>4 DEF Kept

LEMMA SeatingIs ==
  ASSUME NEW h, Hall(h), NEW L \in Nat
  PROVE  h.seatings[(L % Len(h.seatings)) + 1] \in Seq([1 .. h.game.n -> DOMAIN h.rules])
<1>1. h.seatings \in Seq(Seq([1 .. h.game.n -> DOMAIN h.rules])) /\ h.seatings # <<>>
  BY DEF Hall, Assembled
<1> DEFINE S == Seq([1 .. h.game.n -> DOMAIN h.rules])
           q == h.seatings
<1> HIDE DEF S, q
<1>2. q \in Seq(S) /\ q # <<>>
  BY <1>1 DEF S, q
<1>3. Len(q) \in Nat \ {0}
  BY <1>2
<1>4. (L % Len(q)) + 1 \in 1 .. Len(q)
  BY <1>3
<1>5. q[(L % Len(q)) + 1] \in S
  BY <1>2, <1>4
<1>6. QED
  BY <1>5 DEF S, q

LEMMA FirstRole ==
  ASSUME NEW h, Hall(h)
  PROVE  1 \in 1 .. h.game.n
<1>1. h.game.n \in Nat /\ h.game.n >= 2
  BY HallIs
<1>2. QED
  BY <1>1

(* The agents meet: nobody has moved but those who hold. *)
MeetsTo(m, n) ==
  LET seats == m.hall.seatings[(Len(m.tape) % Len(m.hall.seatings)) + 1]
      fill(a) == IF Follows(m, a) THEN NotPlayed ELSE m.held[a]
  IN  n = [m EXCEPT !.status = "deciding", !.moved = {a \in Traders(m) : ~Follows(m, a)},
        !.plays = [e \in DOMAIN seats |-> [seats |-> seats[e], acts |-> [role \in DOMAIN seats[e] |-> fill(seats[e][role])]]]]
LEMMA MeetKeeps ==
  ASSUME NEW m, MarketInv(m), m.status = "between", NEW n, MeetsTo(m, n)
  PROVE  MarketInv(n)
<1> DEFINE h == m.hall
           seats == h.seatings[(Len(m.tape) % Len(h.seatings)) + 1]
           fill(a) == IF Follows(m, a) THEN NotPlayed ELSE m.held[a]
           P == [e \in DOMAIN seats |-> [seats |-> seats[e], acts |-> [role \in DOMAIN seats[e] |-> fill(seats[e][role])]]]
           M == {a \in Traders(m) : ~Follows(m, a)}
           L == Today(m)
<1>1. World(m) /\ Recalls(m) /\ QuietDays(m) /\ Kept(m) /\ Hall(h) /\ m.tape \in Tape(h) /\ L = Len(m.tape) /\ L \in Nat
  <2>1. World(m) /\ Recalls(m) /\ QuietDays(m) /\ Kept(m)
    BY DEF MarketInv
  <2>2. Hall(h) /\ m.tape \in Tape(h)
    BY <2>1 DEF World
  <2>3. Len(m.tape) \in Nat
    BY <2>2 DEF Tape
  <2>4. QED
    BY <2>1, <2>2, <2>3 DEF Today
<1>2. m.held = [a \in DOMAIN h.rules |-> Keeps(m, a)]
  <2>1. AtRest(m)
    BY DEF MarketInv, InPlay
  <2>2. QED
    BY <2>1 DEF AtRest, Traders
<1>3. /\ n = [hall |-> h, held |-> m.held, last |-> m.last, ring |-> m.ring, plays |-> P, moved |-> M,
              prev |-> m.prev, below |-> m.below, row |-> m.row, status |-> "deciding", tape |-> m.tape]
  <2>1. n = [m EXCEPT !.status = "deciding", !.moved = M, !.plays = P]
    BY DEF MeetsTo
  <2> HIDE DEF P, M
  <2>2. QED
    BY <1>1, <2>1 DEF World
<1>4. /\ n.hall = h /\ n.held = m.held /\ n.last = m.last /\ n.ring = m.ring /\ n.plays = P /\ n.moved = M
      /\ n.prev = m.prev /\ n.below = m.below /\ n.status = "deciding" /\ n.tape = m.tape
  <2> HIDE DEF P, M, h
  <2>1. QED
    BY <1>3
<1>5. World(n)
  <2> HIDE DEF P, M, h
  <2>1. QED
    BY <1>1, <1>3, <1>4 DEF World
<1>6. /\ Recalls(n) /\ QuietDays(n) /\ Kept(n) /\ Today(n) = L /\ Traders(n) = Traders(m)
      /\ \A a : Keeps(n, a) = Keeps(m, a) /\ (Follows(n, a) <=> Follows(m, a))
  <2> HIDE DEF P, M
  <2>1. QED
    BY <1>1, <1>4, StillSo
<1>7. seats \in Seq([1 .. h.game.n -> DOMAIN h.rules])
  BY <1>1, SeatingIs
<1>8. /\ P \in Plays(h, Amounts(h) \cup {NotPlayed}) /\ Len(P) = Len(seats)
      /\ \A e \in 1 .. Len(P) : P[e].seats = seats[e]
      /\ \A e \in 1 .. Len(P), r \in 1 .. h.game.n : P[e].acts[r] = fill(P[e].seats[r])
  <2> DEFINE D == [1 .. h.game.n -> DOMAIN h.rules]
             Q == [seats : D, acts : [1 .. h.game.n -> Amounts(h) \cup {NotPlayed}]]
  <2>1. DOMAIN seats = 1 .. Len(seats) /\ Len(seats) \in Nat /\ \A e \in 1 .. Len(seats) : seats[e] \in D
    <3> HIDE DEF D, seats
    <3>1. seats \in Seq(D)
      BY <1>7 DEF D
    <3>2. QED
      BY <3>1
  <2>2. \A a \in DOMAIN h.rules : fill(a) \in Amounts(h) \cup {NotPlayed}
    <3>1. \A a \in DOMAIN h.rules : ~Follows(m, a) => m.held[a] = h.start[a]
      BY <1>2 DEF Keeps
    <3>2. \A a \in DOMAIN h.rules : h.start[a] \in Amounts(h)
      BY <1>1, HallIs
    <3>3. QED
      BY <3>1, <3>2 DEF Traders
  <2>3. \A e \in 1 .. Len(seats) : P[e] = [seats |-> seats[e], acts |-> [role \in 1 .. h.game.n |-> fill(seats[e][role])]]
    BY <2>1
  <2>4. \A e \in 1 .. Len(seats) : P[e] \in Q
    <3>1. SUFFICES ASSUME NEW e \in 1 .. Len(seats) PROVE P[e] \in Q
      OBVIOUS
    <3>2. seats[e] \in D /\ \A r \in 1 .. h.game.n : seats[e][r] \in DOMAIN h.rules
      BY <2>1
    <3>3. [role \in 1 .. h.game.n |-> fill(seats[e][role])] \in [1 .. h.game.n -> Amounts(h) \cup {NotPlayed}]
      <4> HIDE DEF fill, seats
      <4>1. QED
        BY <2>2, <3>2
    <3>4. P[e] = [seats |-> seats[e], acts |-> [role \in 1 .. h.game.n |-> fill(seats[e][role])]]
      BY <2>3
    <3>5. \A x \in D, y \in [1 .. h.game.n -> Amounts(h) \cup {NotPlayed}] : [seats |-> x, acts |-> y] \in Q
      OBVIOUS
    <3> HIDE DEF P, D, Q, fill, seats
    <3>6. QED
      BY <3>2, <3>3, <3>4, <3>5
  <2>5. P \in Seq(Q) /\ Len(P) = Len(seats)
    <3>1. P = [e \in 1 .. Len(seats) |-> P[e]]
      BY <2>1
    <3> HIDE DEF P, Q, seats
    <3>2. QED
      BY <2>1, <2>4, <3>1
  <2>6. QED
    <3>1. P \in Plays(h, Amounts(h) \cup {NotPlayed})
      BY <2>5 DEF Plays
    <3>2. ASSUME NEW e \in 1 .. Len(P), NEW q \in 1 .. h.game.n PROVE P[e].seats = seats[e] /\ P[e].acts[q] = fill(seats[e][q])
      <4>1. P[e] = [seats |-> seats[e], acts |-> [role \in 1 .. h.game.n |-> fill(seats[e][role])]]
        BY <2>3, <2>5
      <4>2. P[e].seats = seats[e] /\ P[e].acts = [role \in 1 .. h.game.n |-> fill(seats[e][role])]
        <5> HIDE DEF P, seats, fill
        <5>1. QED
          BY <4>1
      <4> HIDE DEF P, seats, fill
      <4>3. QED
        BY <4>2
    <3>3. \A e \in 1 .. Len(P) : P[e].seats = seats[e]
      <4>1. SUFFICES ASSUME NEW e \in 1 .. Len(P) PROVE P[e].seats = seats[e]
        OBVIOUS
      <4>2. 1 \in 1 .. h.game.n
        BY <1>1, FirstRole
      <4> HIDE DEF P, seats, fill
      <4>3. QED
        BY <3>2, <4>2
    <3> HIDE DEF P, D, Q, seats, fill
    <3>4. \A e \in 1 .. Len(P), q \in 1 .. h.game.n : P[e].acts[q] = fill(P[e].seats[q])
      BY <3>2, <3>3
    <3>5. QED
      BY <2>5, <3>1, <3>3, <3>4
<1>9. InPlay(n)
  <2>1. SeatedBy(h, P, L)
    <3>1. seats = h.seatings[(L % Len(h.seatings)) + 1]
      BY <1>1
    <3> HIDE DEF seats, P
    <3>2. Len(P) = Len(seats) /\ \A e \in 1 .. Len(P) : P[e].seats = seats[e]
      BY <1>8
    <3>3. QED
      BY <3>1, <3>2 DEF SeatedBy
  <2>2. /\ \A a \in Traders(n) : ~Follows(n, a) => a \in n.moved
        /\ \A a \in n.moved : a \in Traders(n) /\ ~Follows(n, a)
    <3> HIDE DEF P
    <3>1. QED
      BY <1>4, <1>6
  <2>3. n.held = [a \in Traders(n) |-> HeldNow(n, a)]
    <3>1. \A a : HeldNow(n, a) = Keeps(m, a)
      BY <1>6, <2>2 DEF HeldNow
    <3> HIDE DEF P
    <3>2. QED
      BY <1>2, <1>4, <1>6, <3>1 DEF Traders
  <2>4. ASSUME NEW e \in 1 .. Len(n.plays), NEW r \in 1 .. n.hall.game.n PROVE n.plays[e].acts[r] = ActAt(n, e, r)
    <3> DEFINE me == P[e].seats[r]
    <3>1. me \in DOMAIN h.rules /\ P[e].acts[r] = fill(me)
      <4>1. e \in 1 .. Len(P) /\ r \in 1 .. h.game.n
        BY <1>4
      <4> HIDE DEF P
      <4>2. P[e].seats \in [1 .. h.game.n -> DOMAIN h.rules]
        BY <1>8, <4>1, PlayIs
      <4>3. QED
        BY <1>8, <4>1, <4>2
    <3> HIDE DEF P, me
    <3>2. n.plays[e].seats[r] = me /\ n.plays[e].acts[r] = fill(me)
      BY <1>4, <3>1 DEF me
    <3>3. fill(me) = IF Follows(n, me) THEN NotPlayed ELSE h.start[me]
      BY <1>2, <1>6, <3>1 DEF Traders, Keeps
    <3>4. ActAt(n, e, r) = IF ~Follows(n, me) THEN h.start[me] ELSE NotPlayed
      <4>1. Follows(n, me) => me \notin n.moved
        BY <2>2
      <4>2. n.hall.start[me] = h.start[me]
        BY <1>4
      <4>3. QED
        BY <3>2, <4>1, <4>2, Zenon DEF ActAt
    <3>5. QED
      BY <3>2, <3>3, <3>4
  <2> HIDE DEF P, M
  <2>5. QED
    BY <1>4, <1>6, <1>8, <2>1, <2>2, <2>3, <2>4 DEF InPlay
<1>10. Stops(n)
  BY <1>4 DEF Stops
<1>11. QED
  BY <1>5, <1>6, <1>9, <1>10 DEF MarketInv

LEMMA DecidedIn ==
  ASSUME NEW h, NEW A, NEW p \in Plays(h, A), h.game.n \in Nat, NEW a, NEW s \in SeatsOf(p, a)
  PROVE  /\ DecidedAt(h, p, a, s) \in SeatsOf(p, a)
         /\ DecidedAt(h, p, a, s)[1] \in 1 .. Len(p) /\ DecidedAt(h, p, a, s)[2] \in 1 .. h.game.n
         /\ p[DecidedAt(h, p, a, s)[1]].seats[DecidedAt(h, p, a, s)[2]] = a
<1> DEFINE S == SeatsOf(p, a)
           t == DecidedAt(h, p, a, s)
<1>1. S # {}
  OBVIOUS
<1>2. LastSeatOf(S) \in S /\ \A o \in S : o[1] \in 1 .. Len(p) /\ o[2] \in 1 .. h.game.n /\ p[o[1]].seats[o[2]] = a
  BY <1>1, Sitting
<1>3. t = LastSeatOf(S) \/ t = s
  BY DEF DecidedAt
<1>4. t \in S
  <2> HIDE DEF S, t
  <2>1. s \in S
    BY DEF S
  <2>2. QED
    BY <1>2, <1>3, <2>1
<1> HIDE DEF S, t
<1>5. t[1] \in 1 .. Len(p) /\ t[2] \in 1 .. h.game.n /\ p[t[1]].seats[t[2]] = a
  BY <1>2, <1>4
<1>6. QED
  BY <1>4, <1>5 DEF S, t

LEMMA SeatOf ==
  ASSUME NEW h, NEW A, NEW p \in Plays(h, A), h.game.n \in Nat, NEW e \in 1 .. Len(p), NEW r \in 1 .. h.game.n
  PROVE  /\ <<e, r>> \in SeatsOf(p, p[e].seats[r]) /\ p[e].seats[r] \in DOMAIN h.rules
         /\ \A a : <<e, r>> \in SeatsOf(p, a) <=> a = p[e].seats[r]
<1>1. \A a : SeatsOf(p, a) = {s \in (1 .. Len(p)) \X (1 .. h.game.n) : p[s[1]].seats[s[2]] = a}
  BY SeatsAre
<1>2. p[e].seats \in [1 .. h.game.n -> DOMAIN h.rules]
  BY PlayIs
<1>3. <<e, r>> \in (1 .. Len(p)) \X (1 .. h.game.n) /\ <<e, r>>[1] = e /\ <<e, r>>[2] = r
  OBVIOUS
<1>4. \A a : <<e, r>> \in SeatsOf(p, a) <=> a = p[e].seats[r]
  BY <1>1, <1>3
<1>5. QED
  BY <1>2, <1>4

(* An agent moves. *)
TradesTo(m, a, n) ==
  LET once == m.hall.scope = "step"
      act(s) == Answer(m, a, IF once THEN LastSeatOf(SeatsOf(m.plays, a)) ELSE s)
  IN  n = [m EXCEPT !.moved = @ \cup {a},
        !.held[a] = IF once THEN act(<<1, 1>>) ELSE @,
        !.plays = [e \in DOMAIN m.plays |-> [m.plays[e] EXCEPT !.acts = [role \in DOMAIN m.plays[e].acts |->
           IF <<e, role>> \in SeatsOf(m.plays, a) THEN act(<<e, role>>) ELSE m.plays[e].acts[role]]]]]

LEMMA MoveIs ==
  ASSUME NEW m, MarketInv(m), InPlay(m), NEW a \in Traders(m), a \notin m.moved, SeatsOf(m.plays, a) # {}
  PROVE  /\ Follows(m, a) /\ m.held[a] = Keeps(m, a)
         /\ \A s \in SeatsOf(m.plays, a) : /\ Answer(m, a, s) = Due(m.hall, m.tape, m.plays, s, Today(m))
                                           /\ Answer(m, a, s) \in Amounts(m.hall)
<1> DEFINE h == m.hall
<1>1. World(m) /\ Recalls(m) /\ Hall(h) /\ m.tape \in Tape(h) /\ h.game.n \in Nat
  <2>1. World(m) /\ Recalls(m)
    BY DEF MarketInv
  <2>2. Hall(h) /\ m.tape \in Tape(h)
    BY <2>1 DEF World
  <2>3. QED
    BY <2>1, <2>2, HallIs
<1>2. Follows(m, a) /\ m.held[a] = Keeps(m, a)
  BY DEF InPlay, HeldNow
<1>3. m.plays \in Plays(h, Amounts(h) \cup {NotPlayed})
  BY DEF InPlay
<1>4. ASSUME NEW s \in SeatsOf(m.plays, a)
      PROVE  Answer(m, a, s) = Due(h, m.tape, m.plays, s, Today(m)) /\ Answer(m, a, s) \in Amounts(h)
  <2>1. s[1] \in 1 .. Len(m.plays) /\ s[2] \in 1 .. h.game.n /\ m.plays[s[1]].seats[s[2]] = a
    BY <1>1, <1>3, Sitting
  <2>2. Answer(m, a, s) = Due(h, m.tape, m.plays, s, Today(m))
    BY <1>1, <1>2, <1>3, <2>1, AnswerIs
  <2>3. Due(h, m.tape, m.plays, s, Today(m)) \in Amounts(h)
    BY <1>1, <1>3, <2>1, DueIn DEF Today
  <2>4. QED
    BY <2>2, <2>3
<1>5. QED
  BY <1>2, <1>4

LEMMA TradeKeeps ==
  ASSUME NEW m, MarketInv(m), m.status = "deciding", NEW a \in Traders(m), a \notin m.moved, SeatsOf(m.plays, a) # {},
         NEW n, TradesTo(m, a, n)
  PROVE  MarketInv(n)
<1> DEFINE h == m.hall
           T == m.tape
           L == Today(m)
           p == m.plays
           B == Amounts(h) \cup {NotPlayed}
           at(s) == DecidedAt(h, p, a, s)
           val(s) == Due(h, T, p, at(s), L)
           once == h.scope = "step"
           act(s) == Answer(m, a, IF once THEN LastSeatOf(SeatsOf(p, a)) ELSE s)
           acts(e) == [role \in DOMAIN p[e].acts |-> IF <<e, role>> \in SeatsOf(p, a) THEN act(<<e, role>>) ELSE p[e].acts[role]]
           q == [e \in DOMAIN p |-> [p[e] EXCEPT !.acts = acts(e)]]
           mv == m.moved \cup {a}
           hd == [m.held EXCEPT ![a] = IF once THEN act(<<1, 1>>) ELSE m.held[a]]
<1>1. InPlay(m)
  BY DEF MarketInv, AtRest
<1>2. /\ World(m) /\ Recalls(m) /\ QuietDays(m) /\ Kept(m) /\ Hall(h) /\ T \in Tape(h) /\ h.game.n \in Nat
      /\ p \in Plays(h, B) /\ a \in DOMAIN h.rules
  <2>1. World(m) /\ Recalls(m) /\ QuietDays(m) /\ Kept(m)
    BY DEF MarketInv
  <2>2. Hall(h) /\ T \in Tape(h)
    BY <2>1 DEF World
  <2>3. p \in Plays(h, B)
    BY <1>1 DEF InPlay
  <2>4. QED
    BY <2>1, <2>2, <2>3, HallIs DEF Traders
<1>3. Follows(m, a) /\ m.held[a] = Keeps(m, a)
  BY <1>1, MoveIs
<1>4. \A s \in SeatsOf(p, a) : act(s) = val(s) /\ act(s) \in Amounts(h)
  <2>1. SUFFICES ASSUME NEW s \in SeatsOf(p, a) PROVE act(s) = val(s) /\ act(s) \in Amounts(h)
    OBVIOUS
  <2>2. act(s) = Answer(m, a, at(s))
    BY DEF DecidedAt
  <2>3. at(s) \in SeatsOf(p, a)
    BY <1>2, DecidedIn
  <2> HIDE DEF act, at
  <2>4. QED
    BY <1>1, <2>2, <2>3, MoveIs
<1>5. once => act(<<1, 1>>) = Due(h, T, p, LastSeatOf(SeatsOf(p, a)), L)
  <2>1. LastSeatOf(SeatsOf(p, a)) \in SeatsOf(p, a)
    BY <1>2, Sitting
  <2>2. once => act(<<1, 1>>) = Answer(m, a, LastSeatOf(SeatsOf(p, a)))
    OBVIOUS
  <2> HIDE DEF act
  <2>3. QED
    BY <1>1, <2>1, <2>2, MoveIs
<1>6. /\ n = [hall |-> h, held |-> hd, last |-> m.last, ring |-> m.ring, plays |-> q, moved |-> mv,
              prev |-> m.prev, below |-> m.below, row |-> m.row, status |-> m.status, tape |-> m.tape]
  <2>1. n = [m EXCEPT !.moved = mv, !.held = hd, !.plays = q]
    <3>1. m = [hall |-> m.hall, held |-> m.held, last |-> m.last, ring |-> m.ring, plays |-> m.plays, moved |-> m.moved,
               prev |-> m.prev, below |-> m.below, row |-> m.row, status |-> m.status, tape |-> m.tape]
      BY <1>2 DEF World
    <3>2. n = [m EXCEPT !.moved = @ \cup {a}, !.held[a] = IF once THEN act(<<1, 1>>) ELSE @, !.plays = q]
      BY DEF TradesTo
    <3> HIDE DEF act, q, once
    <3>3. QED
      BY <3>1, <3>2
  <2> HIDE DEF q, hd, mv
  <2>2. QED
    BY <1>2, <2>1 DEF World
<1>7. /\ n.hall = h /\ n.held = hd /\ n.last = m.last /\ n.ring = m.ring /\ n.plays = q /\ n.moved = mv
      /\ n.prev = m.prev /\ n.below = m.below /\ n.status = "deciding" /\ n.tape = T
  <2> HIDE DEF q, hd, mv, h, T
  <2>1. n.status = m.status
    BY <1>6
  <2>2. QED
    BY <1>6, <2>1 DEF h, T
<1>8. World(n)
  <2> HIDE DEF q, hd, mv, h, T
  <2>1. QED
    BY <1>2, <1>6, <1>7 DEF World
<1>9. /\ Recalls(n) /\ QuietDays(n) /\ Kept(n) /\ Today(n) = L /\ Traders(n) = Traders(m)
      /\ \A b : Keeps(n, b) = Keeps(m, b) /\ (Follows(n, b) <=> Follows(m, b))
  <2> HIDE DEF q, hd, mv
  <2>1. QED
    BY <1>2, <1>7, StillSo
<1>10. /\ q \in Plays(h, B) /\ Len(q) = Len(p) /\ \A e \in 1 .. Len(p) : q[e].seats = p[e].seats
       /\ \A e \in 1 .. Len(p), r \in 1 .. h.game.n :
            q[e].acts[r] = IF a = p[e].seats[r] THEN val(<<e, r>>) ELSE p[e].acts[r]
  <2> DEFINE D == [1 .. h.game.n -> DOMAIN h.rules]
             Q == [seats : D, acts : [1 .. h.game.n -> B]]
  <2>1. /\ DOMAIN p = 1 .. Len(p) /\ Len(p) \in Nat
        /\ \A e \in 1 .. Len(p) : /\ p[e] = [seats |-> p[e].seats, acts |-> p[e].acts]
                                  /\ p[e].seats \in D /\ p[e].acts \in [1 .. h.game.n -> B]
    BY <1>2, PlayIs
  <2>2. ASSUME NEW e \in 1 .. Len(p) PROVE q[e] \in Q /\ q[e].seats = p[e].seats /\ q[e].acts = acts(e)
    <3>1. q[e] = [p[e] EXCEPT !.acts = acts(e)]
      BY <2>1
    <3>2. acts(e) \in [1 .. h.game.n -> B]
      <4>1. DOMAIN p[e].acts = 1 .. h.game.n /\ \A r \in 1 .. h.game.n : p[e].acts[r] \in B
        BY <2>1
      <4>2. \A s \in SeatsOf(p, a) : act(s) \in B
        BY <1>4
      <4> HIDE DEF act, B, p
      <4>3. QED
        BY <4>1, <4>2
    <3>3. p[e] = [seats |-> p[e].seats, acts |-> p[e].acts] /\ p[e].seats \in D
      BY <2>1
    <3> HIDE DEF q, acts, p, D, B
    <3>4. q[e] = [seats |-> p[e].seats, acts |-> acts(e)]
      BY <3>1, <3>3
    <3>5. QED
      BY <3>2, <3>3, <3>4
  <2>3. q \in Seq(Q) /\ Len(q) = Len(p)
    <3>1. q = [e \in 1 .. Len(p) |-> q[e]]
      BY <2>1
    <3>2. \A e \in 1 .. Len(p) : q[e] \in Q
      BY <2>2
    <3> HIDE DEF q, Q, p
    <3>3. QED
      BY <2>1, <3>1, <3>2
  <2>4. ASSUME NEW e \in 1 .. Len(p), NEW r \in 1 .. h.game.n
        PROVE  q[e].acts[r] = IF a = p[e].seats[r] THEN val(<<e, r>>) ELSE p[e].acts[r]
    <3>1. q[e].acts = acts(e) /\ DOMAIN p[e].acts = 1 .. h.game.n
      BY <2>1, <2>2
    <3>2. acts(e)[r] = IF <<e, r>> \in SeatsOf(p, a) THEN act(<<e, r>>) ELSE p[e].acts[r]
      <4> HIDE DEF act, p
      <4>1. QED
        BY <3>1
    <3>3. <<e, r>> \in SeatsOf(p, a) <=> a = p[e].seats[r]
      BY <1>2, SeatOf
    <3> HIDE DEF act, acts, val, p, q
    <3>4. QED
      BY <1>4, <3>1, <3>2, <3>3
  <2>5. q \in Plays(h, B)
    BY <2>3 DEF Plays
  <2> HIDE DEF q, val, p, B
  <2>6. QED
    BY <2>2, <2>3, <2>4, <2>5
<1> HIDE DEF q, hd, mv, act, acts
<1>11. /\ SameSeats(p, q) /\ \A b : SeatsOf(q, b) = SeatsOf(p, b)
       /\ \A b, s : DecidedAt(h, q, b, s) = DecidedAt(h, p, b, s)
  <2>1. SameSeats(p, q)
    BY <1>10 DEF SameSeats
  <2>2. \A b : SeatsOf(q, b) = SeatsOf(p, b)
    BY <1>2, <1>10, SeatsSame
  <2>3. QED
    BY <2>1, <2>2 DEF DecidedAt
<1>12. \A s : s[1] \in 1 .. Len(p) => Due(h, T, q, s, L) = Due(h, T, p, s, L)
  BY <1>11, DueSame
<1>13. InPlay(n)
  <2>1. /\ n.status = "deciding" /\ n.plays \in Plays(n.hall, Amounts(n.hall) \cup {NotPlayed})
        /\ \A b \in Traders(n) : ~Follows(n, b) => b \in n.moved
        /\ \A b \in n.moved : b \in Traders(n) /\ (Follows(n, b) => SeatsOf(n.plays, b) # {})
    <3>1. n.plays \in Plays(n.hall, Amounts(n.hall) \cup {NotPlayed})
      BY <1>7, <1>10
    <3>2. /\ \A b \in Traders(m) : ~Follows(m, b) => b \in m.moved
          /\ \A b \in m.moved : b \in Traders(m) /\ (Follows(m, b) => SeatsOf(p, b) # {})
      BY <1>1 DEF InPlay
    <3>3. \A b : SeatsOf(n.plays, b) = SeatsOf(p, b)
      BY <1>7, <1>11
    <3>4. \A b : b \in n.moved <=> b \in m.moved \/ b = a
      BY <1>7 DEF mv
    <3> HIDE DEF p
    <3>5. QED
      BY <1>7, <1>9, <3>1, <3>2, <3>3, <3>4 DEF p
  <2>2. SeatedBy(n.hall, n.plays, Today(n))
    <3>1. SeatedBy(h, p, L)
      BY <1>1 DEF InPlay
    <3>2. SeatedBy(h, q, L)
      BY <1>10, <3>1 DEF SeatedBy
    <3>3. QED
      BY <1>7, <1>9, <3>2
  <2>3. ASSUME NEW b \in Traders(m) PROVE hd[b] = HeldNow(n, b)
    <3>1. m.held = [c \in Traders(m) |-> HeldNow(m, c)]
      BY <1>1 DEF InPlay
    <3>2. HeldNow(n, b) = IF b \in mv /\ Follows(m, b) /\ h.scope = "step" THEN Due(h, T, q, LastSeatOf(SeatsOf(p, b)), L) ELSE Keeps(m, b)
      BY <1>7, <1>9, <1>11 DEF HeldNow
    <3>3. HeldNow(m, b) = IF b \in m.moved /\ Follows(m, b) /\ h.scope = "step" THEN Due(h, T, p, LastSeatOf(SeatsOf(p, b)), L) ELSE Keeps(m, b)
      BY DEF HeldNow
    <3>4. b \in mv /\ Follows(m, b) => LastSeatOf(SeatsOf(p, b))[1] \in 1 .. Len(p)
      <4>1. b \in mv /\ Follows(m, b) => SeatsOf(p, b) # {}
        BY <1>1 DEF InPlay, mv
      <4>2. QED
        BY <1>2, <4>1, Sitting
    <3>5. b \in mv /\ Follows(m, b) => Due(h, T, q, LastSeatOf(SeatsOf(p, b)), L) = Due(h, T, p, LastSeatOf(SeatsOf(p, b)), L)
      BY <1>12, <3>4
    <3>6. hd[b] = IF b = a /\ once THEN act(<<1, 1>>) ELSE m.held[b]
      BY <3>1 DEF hd
    <3>7. b \in mv <=> b \in m.moved \/ b = a
      BY DEF mv
    <3>8. m.held[b] = HeldNow(m, b)
      BY <3>1
    <3> HIDE DEF h, T, p, L
    <3>9. QED
      BY <1>3, <1>5, <3>2, <3>3, <3>5, <3>6, <3>7, <3>8
  <2>4. n.held = [b \in Traders(n) |-> HeldNow(n, b)]
    <3>1. DOMAIN m.held = Traders(m)
      BY <1>1 DEF InPlay
    <3>2. hd = [b \in Traders(m) |-> hd[b]]
      BY <3>1 DEF hd
    <3>3. QED
      BY <1>7, <1>9, <2>3, <3>2
  <2>5. ASSUME NEW e \in 1 .. Len(p), NEW r \in 1 .. h.game.n PROVE q[e].acts[r] = ActAt(n, e, r)
    <3> DEFINE me == p[e].seats[r]
               v == Due(h, T, p, DecidedAt(h, p, me, <<e, r>>), L)
    <3>1. ActAt(n, e, r) = IF ~Follows(m, me) THEN h.start[me] ELSE IF me \in mv THEN Due(h, T, q, DecidedAt(h, p, me, <<e, r>>), L) ELSE NotPlayed
      <4>1. n.plays[e].seats[r] = me
        BY <1>7, <1>10
      <4> HIDE DEF me
      <4>2. QED
        BY <1>7, <1>9, <1>11, <4>1 DEF ActAt
    <3>2. p[e].acts[r] = ActAt(m, e, r)
      BY <1>1 DEF InPlay
    <3>3. ActAt(m, e, r) = IF ~Follows(m, me) THEN h.start[me] ELSE IF me \in m.moved THEN v ELSE NotPlayed
      BY DEF ActAt
    <3>4. Due(h, T, q, DecidedAt(h, p, me, <<e, r>>), L) = v
      <4>1. DecidedAt(h, p, me, <<e, r>>)[1] \in 1 .. Len(p)
        <5>1. <<e, r>> \in SeatsOf(p, me)
          BY <1>2, SeatOf
        <5> HIDE DEF me
        <5>2. QED
          BY <1>2, <5>1, DecidedIn
      <4>2. QED
        BY <1>12, <4>1
    <3>5. q[e].acts[r] = IF a = me THEN v ELSE p[e].acts[r]
      <4>1. q[e].acts[r] = IF a = me THEN val(<<e, r>>) ELSE p[e].acts[r]
        BY <1>10
      <4>2. a = me => val(<<e, r>>) = v
        OBVIOUS
      <4> HIDE DEF val, v, me
      <4>3. QED
        BY <4>1, <4>2
    <3>6. me \in mv <=> me \in m.moved \/ me = a
      BY DEF mv
    <3> HIDE DEF me, v, p, h
    <3>7. QED
      BY <1>3, <3>1, <3>2, <3>3, <3>4, <3>5, <3>6
  <2>6. \A e \in 1 .. Len(n.plays), r \in 1 .. n.hall.game.n : n.plays[e].acts[r] = ActAt(n, e, r)
    BY <1>7, <1>10, <2>5
  <2>7. QED
    BY <2>1, <2>2, <2>4, <2>6 DEF InPlay
<1>14. Stops(n)
  BY <1>7 DEF Stops
<1>15. QED
  BY <1>8, <1>9, <1>13, <1>14 DEF MarketInv

(* The day ends when all who sit somewhere have moved: it is a day of amounts. *)
DayOver(m) == m.status = "deciding" /\ \A a \in Traders(m) : SeatsOf(m.plays, a) # {} => a \in m.moved

LEMMA ClosingIn ==
  ASSUME NEW m, MarketInv(m), DayOver(m)
  PROVE  /\ World(m) /\ Recalls(m) /\ QuietDays(m) /\ Kept(m) /\ InPlay(m)
         /\ Hall(m.hall) /\ m.tape \in Tape(m.hall) /\ m.hall.game.n \in Nat /\ Today(m) = Len(m.tape) /\ Today(m) \in Nat
<1>1. World(m) /\ Recalls(m) /\ QuietDays(m) /\ Kept(m)
  BY DEF MarketInv
<1>2. Hall(m.hall) /\ m.tape \in Tape(m.hall)
  BY <1>1 DEF World
<1>3. InPlay(m)
  BY DEF MarketInv, AtRest, DayOver
<1>4. Len(m.tape) \in Nat
  BY <1>2 DEF Tape
<1>5. QED
  BY <1>1, <1>2, <1>3, <1>4, HallIs DEF Today

LEMMA DayIs ==
  ASSUME NEW m, MarketInv(m), DayOver(m)
  PROVE  /\ m.plays \in Plays(m.hall, Amounts(m.hall))
         /\ \A e \in 1 .. Len(m.plays), r \in 1 .. m.hall.game.n :
              LET me == m.plays[e].seats[r]
              IN  m.plays[e].acts[r] = IF Follows(m, me) THEN Due(m.hall, m.tape, m.plays, DecidedAt(m.hall, m.plays, me, <<e, r>>), Today(m))
                                       ELSE m.hall.start[me]
<1> DEFINE h == m.hall
           p == m.plays
           B == Amounts(h) \cup {NotPlayed}
<1>1. /\ InPlay(m) /\ Hall(h) /\ m.tape \in Tape(h) /\ h.game.n \in Nat /\ Today(m) = Len(m.tape)
      /\ p \in Plays(h, B)
  BY ClosingIn DEF InPlay
<1>2. ASSUME NEW e \in 1 .. Len(p), NEW r \in 1 .. h.game.n
      PROVE  /\ p[e].acts[r] = IF Follows(m, p[e].seats[r]) THEN Due(h, m.tape, p, DecidedAt(h, p, p[e].seats[r], <<e, r>>), Today(m))
                               ELSE h.start[p[e].seats[r]]
             /\ p[e].acts[r] \in Amounts(h)
  <2> DEFINE me == p[e].seats[r]
             at == DecidedAt(h, p, me, <<e, r>>)
  <2>1. <<e, r>> \in SeatsOf(p, me) /\ me \in DOMAIN h.rules
    BY <1>1, SeatOf
  <2>2. me \in m.moved
    BY <2>1 DEF DayOver, Traders
  <2>3. p[e].acts[r] = ActAt(m, e, r)
    BY <1>1 DEF InPlay
  <2>4. p[e].acts[r] = IF Follows(m, me) THEN Due(h, m.tape, p, at, Today(m)) ELSE h.start[me]
    BY <2>2, <2>3 DEF ActAt
  <2>5. Due(h, m.tape, p, at, Today(m)) \in Amounts(h)
    <3>1. at[1] \in 1 .. Len(p) /\ at[2] \in 1 .. h.game.n
      <4> HIDE DEF me
      <4>1. QED
        BY <1>1, <2>1, DecidedIn
    <3> HIDE DEF at
    <3>2. QED
      BY <1>1, <3>1, DueIn
  <2>6. h.start[me] \in Amounts(h)
    BY <1>1, <2>1, HallIs
  <2> HIDE DEF at
  <2>7. QED
    BY <2>4, <2>5, <2>6 DEF at
<1>3. p \in Plays(h, Amounts(h))
  <2> DEFINE D == [1 .. h.game.n -> DOMAIN h.rules]
             Q == [seats : D, acts : [1 .. h.game.n -> Amounts(h)]]
  <2>1. /\ DOMAIN p = 1 .. Len(p) /\ Len(p) \in Nat
        /\ \A e \in 1 .. Len(p) : /\ p[e] = [seats |-> p[e].seats, acts |-> p[e].acts]
                                  /\ p[e].seats \in D /\ p[e].acts \in [1 .. h.game.n -> B]
    BY <1>1, PlayIs
  <2>2. ASSUME NEW e \in 1 .. Len(p) PROVE p[e] \in Q
    <3>1. p[e].acts \in [1 .. h.game.n -> Amounts(h)]
      <4>1. p[e].acts \in [1 .. h.game.n -> B]
        BY <2>1
      <4> HIDE DEF p, B
      <4>2. QED
        BY <1>2, <4>1
    <3>2. p[e] = [seats |-> p[e].seats, acts |-> p[e].acts] /\ p[e].seats \in D
      BY <2>1
    <3> HIDE DEF D, p
    <3>3. QED
      BY <3>1, <3>2
  <2>3. p \in Seq(Q)
    <3>1. p = [e \in 1 .. Len(p) |-> p[e]]
      <4>1. p \in Seq([seats : D, acts : [1 .. h.game.n -> B]])
        BY <1>1 DEF Plays
      <4> HIDE DEF p, D, B
      <4>2. QED
        BY <2>1, <4>1
    <3> HIDE DEF p, Q
    <3>2. QED
      BY <2>1, <2>2, <3>1
  <2>4. QED
    BY <2>3 DEF Plays
<1>4. QED
  BY <1>2, <1>3

LEMMA PlayedIs ==
  ASSUME NEW m, MarketInv(m), DayOver(m), NEW a \in Traders(m), SeatsOf(m.plays, a) # {}
  PROVE  /\ PlayedOn(m.plays, a) \in Amounts(m.hall) /\ PlayedOn(m.plays, a) # NotPlayed
         /\ Follows(m, a) /\ m.hall.scope = "step" =>
              PlayedOn(m.plays, a) = Due(m.hall, m.tape, m.plays, LastSeatOf(SeatsOf(m.plays, a)), Today(m))
<1> DEFINE h == m.hall
           p == m.plays
           s == FirstOf(SeatsOf(p, a))
<1>1. Hall(h) /\ h.game.n \in Nat /\ p \in Plays(h, Amounts(h)) /\ h.game.max * Unit \in Nat
  BY ClosingIn, DayIs, HallIs
<1>2. s \in SeatsOf(p, a) /\ s = <<s[1], s[2]>> /\ s[1] \in 1 .. Len(p) /\ s[2] \in 1 .. h.game.n /\ p[s[1]].seats[s[2]] = a
      /\ p[s[1]].acts[s[2]] \in Amounts(h)
  <2>1. s \in SeatsOf(p, a)
    BY <1>1, Sitting
  <2> HIDE DEF s
  <2>2. QED
    BY <1>1, <2>1, Sitting
<1>3. PlayedOn(p, a) = p[s[1]].acts[s[2]]
  BY DEF PlayedOn
<1>4. PlayedOn(p, a) # NotPlayed
  BY <1>1, <1>2, <1>3 DEF Amounts, NotPlayed
<1>5. Follows(m, a) => p[s[1]].acts[s[2]] = Due(h, m.tape, p, DecidedAt(h, p, a, s), Today(m))
  <2> DEFINE me == p[s[1]].seats[s[2]]
  <2>1. p[s[1]].acts[s[2]] = IF Follows(m, me) THEN Due(h, m.tape, p, DecidedAt(h, p, me, <<s[1], s[2]>>), Today(m)) ELSE h.start[me]
    <3> HIDE DEF s
    <3>1. QED
      BY <1>2, DayIs
  <2>2. me = a /\ <<s[1], s[2]>> = s
    BY <1>2
  <2> HIDE DEF s, me
  <2>3. QED
    BY <2>1, <2>2
<1>6. h.scope = "step" => DecidedAt(h, p, a, s) = LastSeatOf(SeatsOf(p, a))
  BY DEF DecidedAt
<1> HIDE DEF s
<1>7. QED
  BY <1>2, <1>3, <1>4, <1>5, <1>6

(* What the day leaves: what is noted, held and seen of everybody is what was played last. *)
LEMMA NotedAfter ==
  ASSUME NEW m, MarketInv(m), DayOver(m), NEW a \in Traders(m)
  PROVE  /\ Noted(m.hall, Append(m.tape, m.plays), a, 1 .. Len(m.tape) + 1) =
              IF m.hall.scope # "step" \/ SeatsOf(m.plays, a) = {} THEN Noted(m.hall, m.tape, a, 1 .. Len(m.tape)) ELSE PlayedOn(m.plays, a)
         /\ Records(m)[a] = IF m.hall.scope # "step" \/ SeatsOf(m.plays, a) = {} THEN NotPlayed ELSE PlayedOn(m.plays, a)
         /\ HeldNow(m, a) = IF Follows(m, a) THEN OrStart(m.hall, a, Noted(m.hall, Append(m.tape, m.plays), a, 1 .. Len(m.tape) + 1))
                            ELSE m.hall.start[a]
<1> DEFINE h == m.hall
           T == m.tape
           p == m.plays
           U == Append(T, p)
<1>1. InPlay(m) /\ Hall(h) /\ T \in Tape(h) /\ p \in Plays(h, Amounts(h)) /\ Today(m) = Len(T)
  BY ClosingIn, DayIs
<1>2. Noted(h, U, a, 1 .. Len(T) + 1) = IF h.scope # "step" \/ SeatsOf(p, a) = {} THEN Noted(h, T, a, 1 .. Len(T)) ELSE PlayedOn(p, a)
  BY <1>1, NotedNow
<1>3. Records(m)[a] = IF h.scope # "step" \/ SeatsOf(p, a) = {} THEN NotPlayed ELSE PlayedOn(p, a)
  BY DEF Records, PlayedOn
<1>4. Keeps(m, a) = IF Follows(m, a) THEN OrStart(h, a, Noted(h, T, a, 1 .. Len(T))) ELSE h.start[a]
  BY <1>1 DEF Keeps
<1>5. HeldNow(m, a) = IF Follows(m, a) THEN OrStart(h, a, Noted(h, U, a, 1 .. Len(T) + 1)) ELSE h.start[a]
  <2>1. CASE ~Follows(m, a)
    BY <1>4, <2>1 DEF HeldNow
  <2>2. CASE Follows(m, a) /\ (h.scope # "step" \/ SeatsOf(p, a) = {})
    <3>1. h.scope # "step" \/ a \notin m.moved
      BY <1>1, <2>2 DEF InPlay
    <3>2. HeldNow(m, a) = Keeps(m, a)
      BY <2>2, <3>1 DEF HeldNow
    <3> HIDE DEF U
    <3>3. QED
      BY <1>2, <1>4, <2>2, <3>2
  <2>3. CASE Follows(m, a) /\ h.scope = "step" /\ SeatsOf(p, a) # {}
    <3>1. a \in m.moved
      BY <2>3 DEF DayOver
    <3>2. HeldNow(m, a) = PlayedOn(p, a) /\ PlayedOn(p, a) # NotPlayed
      BY <2>3, <3>1, PlayedIs DEF HeldNow
    <3> HIDE DEF U
    <3>3. QED
      BY <1>2, <2>3, <3>2 DEF OrStart
  <2>4. QED
    BY <2>1, <2>2, <2>3
<1>6. QED
  BY <1>2, <1>3, <1>5

LEMMA VectorIs ==
  ASSUME NEW m, MarketInv(m), DayOver(m)
  PROVE  /\ Vector(m) = [a \in Traders(m) |-> Where(m.hall, Append(m.tape, m.plays), a, Len(m.tape) + 1)]
         /\ \A a \in Traders(m) : m.tape # <<>> => m.prev[a] = Where(m.hall, Append(m.tape, m.plays), a, Len(m.tape))
         /\ m.prev = <<>> <=> m.tape = <<>>
<1> DEFINE h == m.hall
           T == m.tape
           p == m.plays
           U == Append(T, p)
           L == Len(T)
<1>1. /\ InPlay(m) /\ QuietDays(m) /\ Hall(h) /\ T \in Tape(h) /\ p \in Plays(h, Amounts(h)) /\ Today(m) = L /\ L \in Nat
  BY ClosingIn, DayIs
<1>2. m.prev = <<>> <=> T = <<>>
  <2>1. 1 \in Traders(m)
    <3>1. DOMAIN h.rules = 1 .. Len(h.rules) /\ Len(h.rules) \in Nat \ {0}
      BY <1>1, HallIs
    <3>2. 1 \in 1 .. Len(h.rules)
      BY <3>1
    <3>3. QED
      BY <3>1, <3>2 DEF Traders
  <2>2. DOMAIN [a \in Traders(m) |-> Where(h, T, a, L)] = Traders(m) /\ DOMAIN <<>> = {}
    BY SMT
  <2>3. m.prev = IF T = <<>> THEN <<>> ELSE [a \in Traders(m) |-> Where(h, T, a, L)]
    BY <1>1 DEF QuietDays
  <2>4. QED
    BY <2>1, <2>2, <2>3, Zenon
<1>3. ASSUME NEW a \in Traders(m)
      PROVE  /\ T # <<>> => m.prev[a] = Where(h, T, a, L)
             /\ Where(h, U, a, L) = Where(h, T, a, L)
             /\ Where(h, U, a, L + 1) = IF SeatsOf(p, a) = {} THEN Where(h, T, a, L) ELSE PlayedOn(p, a)
  <2>1. T # <<>> => m.prev[a] = Where(h, T, a, L)
    BY <1>1 DEF QuietDays
  <2>2. Where(h, U, a, L) = Where(h, T, a, L)
    <3>1. SameBefore(h, U, T)
      BY <1>1, LatestBefore
    <3>2. Latest(U, a, 1 .. L) = Latest(T, a, 1 .. L)
      BY <3>1 DEF SameBefore
    <3> HIDE DEF U, L
    <3>3. QED
      BY <3>2 DEF Where
  <2>3. Latest(U, a, 1 .. L + 1) = IF SeatsOf(p, a) = {} THEN Latest(T, a, 1 .. L) ELSE PlayedOn(p, a)
    BY <1>1, LatestNow
  <2>4. SeatsOf(p, a) # {} => PlayedOn(p, a) # NotPlayed
    BY PlayedIs
  <2> HIDE DEF U, L
  <2>5. Where(h, U, a, L + 1) = IF SeatsOf(p, a) = {} THEN Where(h, T, a, L) ELSE PlayedOn(p, a)
    BY <2>3, <2>4 DEF Where, OrStart
  <2>6. QED
    BY <2>1, <2>2, <2>5
<1>4. ASSUME NEW a \in Traders(m) PROVE Vector(m)[a] = Where(h, U, a, L + 1)
  <2>1. Vector(m)[a] = IF SeatsOf(p, a) # {} THEN PlayedOn(p, a) ELSE IF m.prev # <<>> THEN m.prev[a] ELSE m.held[a]
    BY DEF Vector, PlayedOn
  <2>2. SeatsOf(p, a) = {} /\ T = <<>> => m.held[a] = Where(h, T, a, L)
    <3>1. SUFFICES ASSUME SeatsOf(p, a) = {}, T = <<>> PROVE m.held[a] = Where(h, T, a, L)
      OBVIOUS
    <3>2. m.held[a] = HeldNow(m, a)
      BY <1>1 DEF InPlay
    <3>3. Follows(m, a) => a \notin m.moved
      BY <1>1, <3>1 DEF InPlay
    <3>4. HeldNow(m, a) = Keeps(m, a)
      BY <3>3 DEF HeldNow
    <3>5. L = 0
      BY <3>1
    <3>6. Latest(<<>>, a, 1 .. 0) = NotPlayed
      <4>1. {k \in 1 .. 0 : SeatsOf(<<>>[k], a) # {}} = {}
        BY SMT
      <4>2. QED
        BY <4>1 DEF Latest
    <3>7. Noted(h, T, a, 1 .. Today(m)) = NotPlayed /\ Latest(T, a, 1 .. L) = NotPlayed
      BY <1>1, <3>1, <3>5, <3>6 DEF Noted
    <3> HIDE DEF L, T
    <3>8. QED
      BY <3>2, <3>4, <3>7 DEF Keeps, Where, OrStart, T
  <2> HIDE DEF U, L, T, p
  <2>3. QED
    BY <1>2, <1>3, <2>1, <2>2 DEF T, p
<1>5. Vector(m) = [a \in Traders(m) |-> Vector(m)[a]]
  BY DEF Vector
<1>6. QED
  <2>1. Vector(m) = [a \in Traders(m) |-> Where(h, U, a, L + 1)]
    <3> HIDE DEF U, L
    <3>1. QED
      BY <1>4, <1>5
  <2>2. \A a \in Traders(m) : T # <<>> => m.prev[a] = Where(h, U, a, L)
    <3> HIDE DEF U, L
    <3>1. QED
      BY <1>3
  <2>3. QED
    BY <1>2, <2>1, <2>2

LEMMA QuietBefore ==
  ASSUME NEW h, NEW T \in Tape(h), NEW p \in Plays(h, Amounts(h)), NEW k \in 0 .. Len(T)
  PROVE  Quiet(h, Append(T, p), k) <=> Quiet(h, T, k)
<1> DEFINE U == Append(T, p)
<1>1. SameBefore(h, U, T)
  BY LatestBefore
<1>2. 1 .. k \subseteq 1 .. Len(T) /\ 1 .. k - 1 \subseteq 1 .. Len(T)
  <2>1. Len(T) \in Nat
    BY Extends
  <2>2. QED
    BY <2>1
<1>3. \A a : Where(h, U, a, k) = Where(h, T, a, k) /\ Where(h, U, a, k - 1) = Where(h, T, a, k - 1)
  <2> HIDE DEF U
  <2>1. QED
    BY <1>1, <1>2 DEF Where, SameBefore
<1> HIDE DEF U
<1>4. Quiet(h, U, k) <=> Quiet(h, T, k)
  BY <1>3 DEF Quiet
<1>5. QED
  BY <1>4 DEF U

LEMMA QuietIs ==
  ASSUME NEW h, NEW T, NEW k, k > 1
  PROVE  Quiet(h, T, k) <=> \A a \in DOMAIN h.rules : Apart(Where(h, T, a, k), Where(h, T, a, k - 1)) < h.tol
BY DEF Quiet

(* One more quiet day, or none. *)
LEMMA BelowIs ==
  ASSUME NEW m, MarketInv(m), DayOver(m)
  PROVE  Below(m) = IF Quiet(m.hall, Append(m.tape, m.plays), Len(m.tape) + 1) THEN m.below + 1 ELSE 0
<1> DEFINE h == m.hall
           U == Append(m.tape, m.plays)
           L == Len(m.tape)
<1>1. L \in Nat
  BY ClosingIn
<1>2. m.prev # <<>> <=> L + 1 > 1
  <2>1. m.prev = <<>> <=> m.tape = <<>>
    BY VectorIs
  <2>2. m.tape = <<>> <=> L = 0
    <3>1. m.tape \in Seq(Plays(h, Amounts(h)))
      BY ClosingIn DEF Tape
    <3>2. QED
      BY <3>1
  <2> HIDE DEF L
  <2>3. QED
    BY <1>1, <2>1, <2>2
<1>3. \A a \in Traders(m) : Vector(m)[a] = Where(h, U, a, L + 1)
  BY VectorIs
<1>4. m.prev # <<>> => \A a \in Traders(m) : m.prev[a] = Where(h, U, a, L)
  <2>1. m.tape # <<>> => \A a \in Traders(m) : m.prev[a] = Where(h, U, a, L)
    BY VectorIs
  <2>2. m.prev # <<>> => m.tape # <<>>
    BY VectorIs
  <2> HIDE DEF L, U
  <2>3. QED
    BY <2>1, <2>2
<1> HIDE DEF L, U
<1>5. Quiet(h, U, L + 1) <=> m.prev # <<>> /\ \A a \in Traders(m) : Apart(Vector(m)[a], m.prev[a]) < h.tol
  <2>1. CASE m.prev = <<>>
    BY <1>2, <2>1 DEF Quiet
  <2>2. CASE m.prev # <<>>
    <3>1. PICK k : k = L + 1 /\ k - 1 = L
      BY <1>1
    <3>2. \A a \in DOMAIN h.rules : Vector(m)[a] = Where(h, U, a, k) /\ m.prev[a] = Where(h, U, a, k - 1)
      BY <1>3, <1>4, <2>2, <3>1 DEF Traders
    <3>3. \A a \in DOMAIN h.rules : Apart(Vector(m)[a], m.prev[a]) = Apart(Where(h, U, a, k), Where(h, U, a, k - 1))
      BY <3>2
    <3>4. Quiet(h, U, k) <=> \A a \in DOMAIN h.rules : Apart(Where(h, U, a, k), Where(h, U, a, k - 1)) < h.tol
      BY <1>2, <2>2, <3>1, QuietIs
    <3> HIDE DEF h
    <3>5. QED
      BY <2>2, <3>1, <3>3, <3>4 DEF Traders, h
  <2>3. QED
    BY <2>1, <2>2
<1>6. QED
  BY <1>5 DEF Below, L, U

(* The day is played and put down. *)
ClosesTo(m, n) ==
  n = [m EXCEPT
       !.ring = PushRing(m.hall.depth, @, Records(m)),
       !.last = [a \in Traders(m) |-> IF Follows(m, a) /\ Records(m)[a] # NotPlayed THEN Records(m)[a] ELSE @[a]],
       !.prev = Vector(m), !.below = Below(m), !.row = [sums |-> RoleSums(m), distance |-> EqDistance(m)],
       !.status = IF Below(m) >= m.hall.window THEN "stopped" ELSE "between",
       !.tape = Append(@, m.plays)]

LEMMA CloseKeeps ==
  ASSUME NEW m, MarketInv(m), DayOver(m), NEW n, ClosesTo(m, n)
  PROVE  MarketInv(n)
<1> DEFINE h == m.hall
           T == m.tape
           p == m.plays
           L == Len(T)
           U == Append(T, p)
           rg == PushRing(h.depth, m.ring, Records(m))
           la == [a \in Traders(m) |-> IF Follows(m, a) /\ Records(m)[a] # NotPlayed THEN Records(m)[a] ELSE m.last[a]]
           ro == [sums |-> RoleSums(m), distance |-> EqDistance(m)]
           st == IF Below(m) >= h.window THEN "stopped" ELSE "between"
<1>1. /\ World(m) /\ Recalls(m) /\ QuietDays(m) /\ Kept(m) /\ InPlay(m)
      /\ Hall(h) /\ T \in Tape(h) /\ h.game.n \in Nat /\ Today(m) = L /\ L \in Nat
  BY ClosingIn
<1>2. p \in Plays(h, Amounts(h)) /\ U \in Tape(h) /\ Len(U) = L + 1 /\ U[L + 1] = p /\ \A k \in 1 .. L : U[k] = T[k]
  <2>1. p \in Plays(h, Amounts(h))
    BY DayIs
  <2>2. QED
    BY <1>1, <2>1, Extends
<1>3. /\ n = [hall |-> h, held |-> m.held, last |-> la, ring |-> rg, plays |-> p, moved |-> m.moved,
              prev |-> Vector(m), below |-> Below(m), row |-> ro, status |-> st, tape |-> U]
  <2>1. n = [m EXCEPT !.ring = rg, !.last = la, !.prev = Vector(m), !.below = Below(m), !.row = ro, !.status = st, !.tape = U]
    BY DEF ClosesTo
  <2>2. m = [hall |-> m.hall, held |-> m.held, last |-> m.last, ring |-> m.ring, plays |-> m.plays, moved |-> m.moved,
             prev |-> m.prev, below |-> m.below, row |-> m.row, status |-> m.status, tape |-> m.tape]
    BY <1>1 DEF World
  <2> HIDE DEF rg, la, ro, st, U
  <2>3. QED
    BY <2>1, <2>2
<1> HIDE DEF rg, la, ro, st, U
<1>4. /\ n.hall = h /\ n.held = m.held /\ n.last = la /\ n.ring = rg /\ n.prev = Vector(m) /\ n.below = Below(m)
      /\ n.status = st /\ n.tape = U /\ Today(n) = L + 1 /\ Traders(n) = Traders(m) /\ \A a : Follows(n, a) <=> Follows(m, a)
  <2>1. /\ n.hall = h /\ n.held = m.held /\ n.last = la /\ n.ring = rg /\ n.prev = Vector(m) /\ n.below = Below(m)
        /\ n.status = st /\ n.tape = U
    BY <1>3
  <2>2. QED
    BY <1>2, <2>1 DEF Today, Traders, Follows
<1>5. World(n)
  <2> HIDE DEF h, T, p, L
  <2>1. QED
    BY <1>1, <1>2, <1>3, <1>4 DEF World
<1>6. Recalls(n)
  <2>1. Holds(h.depth, rg, Notes(h, U))
    <3>1. Records(m) = DayNote(h, p)
      BY DEF Records, DayNote, PlayedOn, Traders
    <3>2. Notes(h, U) = Append(Notes(h, T), DayNote(h, p))
      BY <1>1, <1>2, NotesOn DEF U
    <3>3. Notes(h, T) \in Seq(Vectors(h)) /\ DayNote(h, p) \in Vectors(h) /\ h.depth \in Nat \ {0}
      BY <1>1, <1>2, NotesIn, DayNoteIn, HallIs
    <3>4. Holds(h.depth, m.ring, Notes(h, T))
      BY <1>1 DEF Recalls
    <3>5. Holds(h.depth, PushRing(h.depth, m.ring, DayNote(h, p)), Append(Notes(h, T), DayNote(h, p)))
      BY <3>3, <3>4, PushHolds
    <3>6. QED
      BY <3>1, <3>2, <3>5 DEF rg
  <2>2. ASSUME NEW a \in Traders(m)
        PROVE  la[a] = IF Follows(m, a) THEN Noted(h, U, a, 1 .. L + 1) ELSE NotPlayed
    <3>1. m.last[a] = IF Follows(m, a) THEN Noted(h, T, a, 1 .. L) ELSE NotPlayed
      BY <1>1 DEF Recalls
    <3>2. /\ Noted(h, U, a, 1 .. L + 1) = IF h.scope # "step" \/ SeatsOf(p, a) = {} THEN Noted(h, T, a, 1 .. L) ELSE PlayedOn(p, a)
          /\ Records(m)[a] = IF h.scope # "step" \/ SeatsOf(p, a) = {} THEN NotPlayed ELSE PlayedOn(p, a)
      BY NotedAfter DEF U
    <3>3. SeatsOf(p, a) # {} => PlayedOn(p, a) # NotPlayed
      BY PlayedIs
    <3>4. la[a] = IF Follows(m, a) /\ Records(m)[a] # NotPlayed THEN Records(m)[a] ELSE m.last[a]
      BY DEF la
    <3> HIDE DEF h, T, p, L
    <3>5. QED
      BY <3>1, <3>2, <3>3, <3>4
  <2>3. la \in Vectors(h)
    <3>1. \A a \in Traders(m) : Noted(h, U, a, 1 .. L + 1) \in Amounts(h) \cup {NotPlayed}
      <4>1. 1 .. L + 1 \subseteq 1 .. Len(U)
        BY <1>2
      <4>2. QED
        BY <1>1, <1>2, <4>1, NotedTyped DEF Traders
    <3>2. la = [a \in DOMAIN h.rules |-> la[a]]
      BY DEF la, Traders
    <3>3. \A a \in DOMAIN h.rules : la[a] \in Amounts(h) \cup {NotPlayed}
      <4> HIDE DEF L
      <4>1. QED
        BY <2>2, <3>1 DEF Traders
    <3>4. QED
      BY <3>2, <3>3 DEF Vectors
  <2> HIDE DEF h, T, p, L
  <2>4. QED
    BY <1>4, <2>1, <2>2, <2>3 DEF Recalls
<1>7. AtRest(n)
  <2>1. \A a \in Traders(m) : HeldNow(m, a) = IF Follows(m, a) THEN OrStart(h, a, Noted(h, U, a, 1 .. L + 1)) ELSE h.start[a]
    BY NotedAfter DEF U
  <2>2. m.held = [a \in Traders(m) |-> HeldNow(m, a)]
    BY <1>1 DEF InPlay
  <2>3. st \in {"between", "stopped"}
    BY DEF st
  <2> HIDE DEF h, T, p, L
  <2>4. \A a \in Traders(m) : HeldNow(m, a) = Keeps(n, a)
    BY <1>4, <2>1 DEF Keeps
  <2>5. QED
    BY <1>4, <2>2, <2>3, <2>4 DEF AtRest
<1>8. QuietDays(n)
  <2>1. Below(m) = IF Quiet(h, U, L + 1) THEN m.below + 1 ELSE 0
    BY BelowIs DEF U
  <2>2. /\ m.below \in 0 .. L /\ ~Quiet(h, T, L - m.below) /\ \A k \in L - m.below + 1 .. L : Quiet(h, T, k)
    BY <1>1 DEF QuietDays, QuietFor
  <2>3. \A k \in 0 .. L : Quiet(h, U, k) <=> Quiet(h, T, k)
    BY <1>1, <1>2, QuietBefore DEF U
  <2>4. n.prev = [a \in Traders(n) |-> Where(h, U, a, L + 1)]
    <3>1. Vector(m) = [a \in Traders(m) |-> Where(h, U, a, L + 1)]
      BY VectorIs DEF U
    <3> HIDE DEF L
    <3>2. QED
      BY <1>4, <3>1
  <2>5. U # <<>>
    <3>1. Len(U) # 0
      <4> HIDE DEF L
      <4>1. QED
        BY <1>1, <1>2
    <3>2. QED
      BY <3>1
  <2> HIDE DEF L, T, h
  <2>6. PICK K : K = L + 1
    OBVIOUS
  <2>7. /\ n.below \in 0 .. K /\ ~Quiet(h, U, K - n.below) /\ \A k \in K - n.below + 1 .. K : Quiet(h, U, k)
    <3>1. CASE Quiet(h, U, K)
      <4>1. n.below = m.below + 1
        BY <1>4, <2>6, <2>1, <3>1
      <4>2. n.below \in 0 .. K /\ K - n.below = L - m.below /\ L - m.below \in 0 .. L
        BY <1>1, <2>6, <2>2, <4>1
      <4>3. ASSUME NEW k \in K - n.below + 1 .. K PROVE Quiet(h, U, k)
        <5>1. k = K \/ (k \in L - m.below + 1 .. L /\ k \in 0 .. L)
          BY <1>1, <2>6, <2>2, <4>2
        <5>2. QED
          BY <2>2, <2>3, <3>1, <5>1
      <4>4. ~Quiet(h, U, K - n.below)
        BY <2>2, <2>3, <4>2
      <4>5. QED
        BY <4>2, <4>3, <4>4
    <3>2. CASE ~Quiet(h, U, K)
      <4>1. n.below = 0
        BY <1>4, <2>6, <2>1, <3>2
      <4>2. n.below \in 0 .. K /\ K - n.below = K
        BY <1>1, <2>6, <4>1
      <4>3. \A k \in K - n.below + 1 .. K : FALSE
        BY <1>1, <2>6, <4>2
      <4>4. QED
        BY <3>2, <4>2, <4>3
    <3>3. QED
      BY <3>1, <3>2
  <2>8. QuietFor(n.hall, n.tape, Today(n), n.below)
    <3>1. QuietFor(h, U, K, n.below)
      BY <2>7, Zenon DEF QuietFor
    <3>2. QED
      BY <1>4, <2>6, <3>1
  <2>9. n.prev = IF n.tape = <<>> THEN <<>> ELSE [a \in Traders(n) |-> Where(n.hall, n.tape, a, Today(n))]
    BY <1>4, <2>4, <2>5
  <2>10. QED
    BY <2>8, <2>9, Zenon DEF QuietDays
<1>9. Stops(n)
  BY <1>4 DEF Stops, st
<1>10. Kept(n)
  <2>1. \A d \in 1 .. L + 1 : SeatedBy(h, U[d], d - 1)
    <3>1. \A d \in 1 .. L : SeatedBy(h, T[d], d - 1)
      BY <1>1 DEF Kept
    <3>2. SeatedBy(h, p, L)
      BY <1>1 DEF InPlay
    <3>3. ASSUME NEW d \in 1 .. L + 1 PROVE SeatedBy(h, U[d], d - 1)
      <4> HIDE DEF L, T, p, h
      <4>1. d \in 1 .. L \/ (d = L + 1 /\ d - 1 = L)
        BY <1>1
      <4>2. CASE d \in 1 .. L
        BY <1>2, <3>1, <4>2
      <4>3. CASE d = L + 1 /\ d - 1 = L
        BY <1>2, <3>2, <4>3
      <4>4. QED
        BY <4>1, <4>2, <4>3
    <3>4. QED
      BY <3>3
  <2>2. Answered(h, U)
    <3>1. DOMAIN p = 1 .. Len(p) /\ \A e \in 1 .. Len(p) : DOMAIN p[e].seats = 1 .. h.game.n /\ p[e].acts \in [1 .. h.game.n -> Amounts(h)]
      <4>1. /\ DOMAIN p = 1 .. Len(p) /\ Len(p) \in Nat
            /\ \A e \in 1 .. Len(p) : /\ p[e] = [seats |-> p[e].seats, acts |-> p[e].acts]
                                      /\ p[e].seats \in [1 .. h.game.n -> DOMAIN h.rules]
                                      /\ p[e].acts \in [1 .. h.game.n -> Amounts(h)]
        <5>1. p \in Plays(h, Amounts(h))
          BY <1>2
        <5>2. QED
          BY <5>1, PlayIs, Zenon
      <4> HIDE DEF p, h
      <4>2. QED
        BY <4>1
    <3>2. ASSUME NEW e \in 1 .. Len(p), NEW r \in 1 .. h.game.n
          PROVE  LET me == p[e].seats[r]
                 IN  /\ p[e].acts[r] \in 0 .. h.game.max * Unit
                     /\ p[e].acts[r] = IF h.rules[me].kind # "held" THEN Due(h, U, p, DecidedAt(h, p, me, <<e, r>>), L) ELSE h.start[me]
      <4> DEFINE me == p[e].seats[r]
                 at == DecidedAt(h, p, me, <<e, r>>)
      <4>1. p[e].acts[r] = IF Follows(m, me) THEN Due(h, T, p, at, L) ELSE h.start[me]
        BY <1>1, DayIs
      <4>2. Due(h, U, p, at, L) = Due(h, T, p, at, L)
        BY <1>1, <1>2, DueBefore DEF U
      <4>3. p[e].acts[r] \in 0 .. h.game.max * Unit
        BY <3>1 DEF Amounts
      <4>4. Follows(m, me) <=> h.rules[me].kind # "held"
        BY DEF Follows
      <4> HIDE DEF me, at, T, p, h, L
      <4>5. p[e].acts[r] = IF h.rules[me].kind # "held" THEN Due(h, U, p, at, L) ELSE h.start[me]
        BY <4>1, <4>2, <4>4
      <4>6. QED
        BY <4>3, <4>5 DEF me, at
    <3>3. U[Len(U)] = p /\ Len(U) - 1 = L
      <4> HIDE DEF L, p
      <4>1. QED
        BY <1>1, <1>2
    <3> HIDE DEF L, p, T, h
    <3>4. AnsweredOn(h, U, p, L)
      BY <3>1, <3>2 DEF AnsweredOn
    <3>5. QED
      BY <3>3, <3>4 DEF Answered
  <2> HIDE DEF L, p, T, h
  <2>3. QED
    BY <1>4, <2>1, <2>2 DEF Kept
<1>11. QED
  BY <1>5, <1>6, <1>7, <1>8, <1>9, <1>10 DEF MarketInv

(* No step leaves what the market promises. *)
LEMMA MarketSteps ==
  ASSUME MarketInv(market), [MarketNext]_market
  PROVE  MarketInv(market')
<1>1. CASE Meet
  <2>1. MeetsTo(market, market')
    BY <1>1 DEF Meet, MeetsTo
  <2>2. market.status = "between"
    BY <1>1 DEF Meet
  <2>3. QED
    BY <2>1, <2>2, MeetKeeps
<1>2. ASSUME NEW a \in Traders(market), Trade(a) PROVE MarketInv(market')
  <2>1. TradesTo(market, a, market')
    BY <1>2 DEF Trade, TradesTo
  <2>2. market.status = "deciding" /\ a \notin market.moved /\ SeatsOf(market.plays, a) # {}
    BY <1>2 DEF Trade
  <2>3. QED
    BY <2>1, <2>2, TradeKeeps
<1>3. CASE Close
  <2>1. ClosesTo(market, market')
    BY <1>3 DEF Close, ClosesTo
  <2>2. DayOver(market)
    BY <1>3 DEF Close, DayOver
  <2>3. QED
    BY <2>1, <2>2, CloseKeeps
<1>4. CASE market' = market
  BY <1>4
<1>5. QED
  BY <1>1, <1>2, <1>3, <1>4 DEF MarketNext

(* What is promised follows. *)
LEMMA RespondsIs ==
  ASSUME NEW m, Answered(m.hall, m.tape)
  PROVE  RespondsToPast(m)
BY DEF Answered, AnsweredOn, RespondsToPast, Today, Follows

LEMMA StopsIs ==
  ASSUME NEW m, MarketInv(m), m.tape # <<>>, m.status # "deciding"
  PROVE  StopsWhenQuiet(m)
<1> DEFINE L == Today(m)
           w == m.hall.window
           quiet(k) == Quiet(m.hall, m.tape, k)
<1>1. World(m) /\ QuietDays(m) /\ Stops(m)
  BY DEF MarketInv
<1>2. w \in Nat /\ L \in Nat
  <2>1. Hall(m.hall) /\ m.tape \in Tape(m.hall)
    BY <1>1 DEF World
  <2>2. QED
    BY <2>1, HallIs DEF Today, Tape
<1>3. m.status = "stopped" <=> m.below >= w
  BY <1>1 DEF Stops
<1>4. m.below \in 0 .. L /\ ~quiet(L - m.below) /\ \A k \in L - m.below + 1 .. L : quiet(k)
  BY <1>1 DEF QuietDays, QuietFor
<1> HIDE DEF L, w, quiet
<1>5. m.below >= w <=> L >= w /\ \A k \in L - w + 1 .. L : quiet(k)
  <2>1. CASE m.below >= w
    <3>1. L >= w /\ \A k \in L - w + 1 .. L : k \in L - m.below + 1 .. L
      BY <1>2, <1>4, <2>1
    <3>2. QED
      BY <1>4, <2>1, <3>1
  <2>2. CASE ~(m.below >= w)
    <3>1. L - m.below \in L - w + 1 .. L
      BY <1>2, <1>4, <2>2
    <3>2. QED
      BY <1>4, <2>2, <3>1
  <2>3. QED
    BY <2>1, <2>2
<1>6. QED
  BY <1>3, <1>5 DEF StopsWhenQuiet, L, w, quiet

(* Where all sit together, everybody sits once, at the seat of its number. *)
AllIn(h, p) == Len(p) = 1 /\ p[1].seats = [role \in DOMAIN h.rules |-> role]
LEMMA OnceEach ==
  ASSUME NEW h, Hall(h), NEW p \in Plays(h, Amounts(h)), AllIn(h, p), NEW r \in 1 .. h.game.n
  PROVE  /\ SeatsOf(p, r) = {<<1, r>>} /\ LastSeatOf(SeatsOf(p, r)) = <<1, r>> /\ PlayedOn(p, r) = p[1].acts[r]
         /\ p[1].seats[r] = r
<1>1. h.game.n \in Nat /\ Len(p) = 1 /\ p[1].seats \in [1 .. h.game.n -> DOMAIN h.rules]
  <2>1. Len(p) = 1
    BY DEF AllIn
  <2>2. 1 \in 1 .. Len(p)
    BY <2>1
  <2>3. p[1].seats \in [1 .. h.game.n -> DOMAIN h.rules]
    BY <2>2, PlayIs
  <2>4. QED
    BY <2>1, <2>3, HallIs
<1>2. \A q \in 1 .. h.game.n : p[1].seats[q] = q
  BY <1>1 DEF AllIn
<1>3. SeatsOf(p, r) = {s \in (1 .. Len(p)) \X (1 .. h.game.n) : p[s[1]].seats[s[2]] = r}
  BY <1>1, SeatsAre
<1>4. SeatsOf(p, r) = {<<1, r>>}
  <2>1. ASSUME NEW s \in SeatsOf(p, r) PROVE s = <<1, r>>
    <3>1. s \in (1 .. 1) \X (1 .. h.game.n) /\ p[s[1]].seats[s[2]] = r
      BY <1>1, <1>3
    <3>2. s = <<s[1], s[2]>> /\ s[1] = 1 /\ s[2] \in 1 .. h.game.n
      BY <3>1
    <3>3. QED
      BY <1>2, <3>1, <3>2
  <2>2. <<1, r>> \in SeatsOf(p, r)
    <3>1. <<1, r>> \in (1 .. Len(p)) \X (1 .. h.game.n) /\ <<1, r>>[1] = 1 /\ <<1, r>>[2] = r
      BY <1>1
    <3>2. QED
      BY <1>2, <1>3, <3>1
  <2>3. QED
    BY <2>1, <2>2
<1>5. FirstOf({<<1, r>>}) = <<1, r>> /\ LastSeatOf({<<1, r>>}) = <<1, r>>
  BY DEF FirstOf, LastSeatOf
<1>6. QED
  BY <1>2, <1>4, <1>5 DEF PlayedOn

LastSat(h, T, a, days, k) == h.scope = "step" /\ days \subseteq Int /\ Topmost(days, k) /\ SeatsOf(T[k], a) # {}
LEMMA NotedOf ==
  ASSUME NEW h, NEW T, NEW a, NEW days, NEW k, LastSat(h, T, a, days, k)
  PROVE  Noted(h, T, a, days) = PlayedOn(T[k], a)
<1> DEFINE S == SatDays(T, a, days)
<1>1. S \subseteq Int /\ Topmost(S, k) /\ k \in S /\ h.scope = "step"
  BY DEF SatDays, Topmost, LastSat
<1>2. Max(S) = k
  <2> HIDE DEF S
  <2>1. QED
    BY <1>1, TopmostIs
<1>3. Latest(T, a, days) = PlayedOn(T[k], a)
  BY <1>1, <1>2 DEF Latest, SatDays, PlayedOn
<1>4. QED
  BY <1>1, <1>3 DEF Noted

LEMMA DampedIs ==
  ASSUME NEW h, Hall(h), NEW y \in [1 .. h.game.n -> Amounts(h)], NEW r \in 1 .. h.game.n, h.rules[r].kind = "damped"
  PROVE  Moved(h.game, h.rules[r], r, y) = Damped([game |-> h.game, profile |-> y], h.rules[r].rate)[r]
<1> DEFINE s == [game |-> h.game, profile |-> y]
<1>1. s.game = h.game /\ s.profile = y /\ DOMAIN y = 1 .. h.game.n
  OBVIOUS
<1> HIDE DEF s
<1>2. Responded(s)[r] = BestReply(h.game, r, y, Unit)
  BY <1>1 DEF Responded
<1>3. Damped(s, h.rules[r].rate)[r] =
        Clamp(((Full - h.rules[r].rate) * y[r] + h.rules[r].rate * Responded(s)[r]) \div Full, 0, h.game.max * Unit)
  BY <1>1 DEF Damped
<1>4. Moved(h.game, h.rules[r], r, y) =
        Clamp(((Full - h.rules[r].rate) * y[r] + h.rules[r].rate * BestReply(h.game, r, y, Unit)) \div Full, 0, h.game.max * Unit)
  BY DEF Moved
<1>5. QED
  BY <1>2, <1>3, <1>4 DEF s

(* Every day of a market where all sit together is such a day. *)
LEMMA AllInDays ==
  ASSUME NEW m, MarketInv(m), Together(m), NEW d \in 1 .. Today(m)
  PROVE  m.tape[d] \in Plays(m.hall, Amounts(m.hall)) /\ AllIn(m.hall, m.tape[d]) /\ 1 .. m.hall.game.n = DOMAIN m.hall.rules
<1> DEFINE h == m.hall
           T == m.tape
           q == h.seatings
           k == ((d - 1) % Len(q)) + 1
           p == T[d]
<1>1. World(m) /\ Kept(m) /\ Hall(h) /\ T \in Tape(h)
  <2>1. World(m) /\ Kept(m)
    BY DEF MarketInv
  <2>2. QED
    BY <2>1 DEF World
<1>2. p \in Plays(h, Amounts(h)) /\ SeatedBy(h, p, d - 1) /\ d - 1 \in Nat
  <2>1. Len(T) \in Nat /\ \A i \in 1 .. Len(T) : T[i] \in Plays(h, Amounts(h))
    BY <1>1 DEF Tape
  <2>2. d \in 1 .. Len(T)
    BY DEF Today
  <2>3. SeatedBy(h, p, d - 1)
    BY <1>1 DEF Kept
  <2>4. QED
    BY <2>1, <2>2, <2>3
<1>3. k \in DOMAIN q
  <2> DEFINE S == Seq([1 .. h.game.n -> DOMAIN h.rules])
  <2>1. q \in Seq(S) /\ q # <<>>
    BY <1>1 DEF Hall, Assembled
  <2> HIDE DEF S, q
  <2>2. Len(q) \in Nat \ {0} /\ DOMAIN q = 1 .. Len(q)
    BY <2>1
  <2>3. QED
    BY <1>2, <2>2
<1>4. q[k] = <<[role \in DOMAIN h.rules |-> role]>>
  BY <1>3 DEF Together, Traders
<1>5. Len(p) = Len(q[k]) /\ \A e \in 1 .. Len(p) : p[e].seats = q[k][e]
  BY <1>2 DEF SeatedBy
<1>6. AllIn(h, p)
  <2> DEFINE all == [role \in DOMAIN h.rules |-> role]
  <2>1. Len(<<all>>) = 1 /\ <<all>>[1] = all
    OBVIOUS
  <2> HIDE DEF all, q, k, p, h
  <2>2. q[k] = <<all>>
    BY <1>4 DEF all, h
  <2>3. Len(p) = 1 /\ p[1].seats = all
    <3>1. Len(p) = 1
      BY <1>5, <2>1, <2>2
    <3>2. 1 \in 1 .. Len(p)
      BY <3>1
    <3>3. QED
      BY <1>5, <2>1, <2>2, <3>1, <3>2
  <2>4. QED
    BY <2>3 DEF AllIn, all
<1>7. 1 .. h.game.n = DOMAIN h.rules
  <2>1. 1 \in 1 .. Len(p)
    BY <1>6 DEF AllIn
  <2>2. p[1].seats \in [1 .. h.game.n -> DOMAIN h.rules]
    <3>1. \A e \in 1 .. Len(p) : p[e].seats \in [1 .. h.game.n -> DOMAIN h.rules]
      BY <1>2, PlayIs
    <3> HIDE DEF p
    <3>2. QED
      BY <2>1, <3>1
  <2>3. DOMAIN p[1].seats = 1 .. h.game.n
    BY <2>2
  <2>4. DOMAIN p[1].seats = DOMAIN h.rules
    BY <1>6 DEF AllIn
  <2>5. QED
    BY <2>3, <2>4
<1>8. QED
  BY <1>2, <1>6, <1>7

LEMMA DayBefore ==
  ASSUME NEW k \in Nat \ {0}, k # 1
  PROVE  k - 1 \in 1 .. k /\ k - 1 \in 1 .. k - 1 /\ k \in 1 .. k
OBVIOUS

\* Everybody knows what the others did the day before; on the first day nobody does.
LEMMA FollowsIs ==
  ASSUME NEW m, MarketInv(m), m.tape # <<>>
  PROVE  FollowsIteration(m)
<1> DEFINE h == m.hall
           T == m.tape
           L == Today(m)
           n == h.game.n
           p == T[L]
           acts == p[1].acts
           rate == h.rules[1].rate
           Before(k) == [game |-> h.game, profile |-> T[k][1].acts]
<1>1. SUFFICES ASSUME Together(m) PROVE acts = IF L = 1 THEN h.start ELSE Damped(Before(L - 1), rate)
  BY DEF FollowsIteration
<1>2. Hall(h) /\ T \in Tape(h) /\ L = Len(T) /\ L \in Nat \ {0} /\ Answered(h, T)
  <2>1. World(m) /\ Kept(m)
    BY DEF MarketInv
  <2>2. Hall(h) /\ T \in Tape(h)
    BY <2>1 DEF World
  <2>3. Len(T) \in Nat \ {0}
    <3>1. T \in Seq(Plays(h, Amounts(h))) /\ T # <<>>
      BY <2>2 DEF Tape
    <3> HIDE DEF T
    <3>2. QED
      BY <3>1
  <2>4. QED
    BY <2>1, <2>2, <2>3 DEF Kept, Today
<1>3. n \in Nat /\ n >= 2 /\ 1 .. n = DOMAIN h.rules /\ h.depth \in Nat \ {0} /\ h.start \in [1 .. n -> Amounts(h)]
  <2>1. 1 \in 1 .. Today(m)
    BY <1>2
  <2>2. 1 .. n = DOMAIN h.rules
    BY <1>1, <2>1, AllInDays
  <2>3. n \in Nat /\ n >= 2 /\ h.depth \in Nat \ {0} /\ h.start \in [DOMAIN h.rules -> Amounts(h)]
    BY <1>2, HallIs
  <2> HIDE DEF n
  <2>4. QED
    BY <2>2, <2>3
<1>4. h.scope = "step" /\ \A r \in 1 .. n : h.rules[r] = h.rules[1] /\ h.rules[r].kind = "damped"
  BY <1>1, <1>3 DEF Together, Traders
<1>5. \A d \in 1 .. L : T[d] \in Plays(h, Amounts(h)) /\ AllIn(h, T[d])
  BY <1>1, AllInDays
<1>6. \A d \in 1 .. L, r \in 1 .. n :
        /\ SeatsOf(T[d], r) = {<<1, r>>} /\ LastSeatOf(SeatsOf(T[d], r)) = <<1, r>> /\ PlayedOn(T[d], r) = T[d][1].acts[r]
        /\ T[d][1].seats[r] = r
  BY <1>2, <1>5, OnceEach
<1>7. \A d \in 1 .. L : T[d][1].acts \in [1 .. n -> Amounts(h)] /\ DOMAIN T[d][1].seats = 1 .. n /\ 1 \in DOMAIN T[d]
  <2>1. SUFFICES ASSUME NEW d \in 1 .. L PROVE T[d][1].acts \in [1 .. n -> Amounts(h)] /\ DOMAIN T[d][1].seats = 1 .. n /\ 1 \in DOMAIN T[d]
    OBVIOUS
  <2>2. T[d] \in Plays(h, Amounts(h)) /\ Len(T[d]) = 1
    BY <1>5 DEF AllIn
  <2>3. 1 \in 1 .. Len(T[d])
    BY <2>2
  <2>4. DOMAIN T[d] = 1 .. Len(T[d]) /\ T[d][1].acts \in [1 .. n -> Amounts(h)] /\ T[d][1].seats \in [1 .. n -> DOMAIN h.rules]
    <3> DEFINE day == T[d]
    <3>1. /\ DOMAIN day = 1 .. Len(day) /\ Len(day) \in Nat
          /\ \A e \in 1 .. Len(day) : /\ day[e] = [seats |-> day[e].seats, acts |-> day[e].acts]
                                      /\ day[e].seats \in [1 .. n -> DOMAIN h.rules]
                                      /\ day[e].acts \in [1 .. n -> Amounts(h)]
      BY <2>2, PlayIs, Zenon
    <3> HIDE DEF n, h
    <3>2. QED
      BY <2>3, <3>1
  <2>5. QED
    BY <2>3, <2>4
<1>8. ASSUME NEW r \in 1 .. n PROVE acts[r] = Due(h, T, p, <<1, r>>, L - 1)
  <2>1. L \in 1 .. L
    BY <1>2
  <2>2. p[1].seats[r] = r /\ DOMAIN p[1].seats = 1 .. n /\ 1 \in DOMAIN p /\ LastSeatOf(SeatsOf(p, r)) = <<1, r>>
    BY <1>6, <1>7, <2>1
  <2>3. AnsweredOn(h, T, p, L - 1)
    BY <1>2 DEF Answered
  <2>4. DecidedAt(h, p, r, <<1, r>>) = <<1, r>>
    BY <1>4, <2>2 DEF DecidedAt
  <2> HIDE DEF p, T, L, n
  <2>5. acts[r] = IF h.rules[r].kind # "held" THEN Due(h, T, p, DecidedAt(h, p, r, <<1, r>>), L - 1) ELSE h.start[r]
    <3>1. \A e \in DOMAIN p : \A role \in DOMAIN p[e].seats :
            p[e].acts[role] = IF h.rules[p[e].seats[role]].kind # "held"
                                THEN Due(h, T, p, DecidedAt(h, p, p[e].seats[role], <<e, role>>), L - 1) ELSE h.start[p[e].seats[role]]
      BY <2>3, Zenon DEF AnsweredOn
    <3>2. r \in DOMAIN p[1].seats
      BY <2>2
    <3>3. p[1].acts[r] = IF h.rules[p[1].seats[r]].kind # "held"
                           THEN Due(h, T, p, DecidedAt(h, p, p[1].seats[r], <<1, r>>), L - 1) ELSE h.start[p[1].seats[r]]
      BY <2>2, <3>1, <3>2, Zenon
    <3>4. QED
      BY <2>2, <3>3
  <2>6. QED
    BY <1>4, <2>4, <2>5
<1>9. ASSUME NEW r \in 1 .. n
      PROVE  Faced(h, T, p, <<1, r>>, L - 1) =
               [c \in 1 .. n |-> IF c = r THEN OrStart(h, r, Noted(h, T, r, 1 .. L - 1)) ELSE Noted(h, T, c, Recent(h, L - 1))]
  <2>1. L \in 1 .. L
    BY <1>2
  <2>2. DOMAIN p[1].seats = 1 .. n /\ \A c \in 1 .. n : p[1].seats[c] = c
    BY <1>6, <1>7, <2>1
  <2>3. <<1, r>>[1] = 1 /\ <<1, r>>[2] = r
    OBVIOUS
  <2> HIDE DEF p, T, L, n, h
  <2>4. QED
    BY <2>2, <2>3 DEF Faced, Recent
<1>10. ASSUME NEW r \in 1 .. n, L = 1 PROVE acts[r] = h.start[r]
  <2> DEFINE x == Faced(h, T, p, <<1, r>>, L - 1)
             other == IF r = 1 THEN 2 ELSE 1
  <2>1. other \in 1 .. n /\ other # r
    BY <1>3
  <2>2. \A a, days : days = {} => Noted(h, T, a, days) = NotPlayed
    BY DEF Noted, Latest
  <2>3. 1 .. L - 1 = {} /\ Recent(h, L - 1) = {}
    <3>1. L - 1 = 0
      BY <1>10
    <3>2. 1 .. 0 = {}
      OBVIOUS
    <3> HIDE DEF L
    <3>3. QED
      BY <3>1, <3>2 DEF Recent
  <2>4. x[other] = NotPlayed /\ x[r] = h.start[r] /\ DOMAIN x = 1 .. n
    <3>1. x = [c \in 1 .. n |-> IF c = r THEN OrStart(h, r, Noted(h, T, r, 1 .. L - 1)) ELSE Noted(h, T, c, Recent(h, L - 1))]
      BY <1>9
    <3>2. OrStart(h, r, Noted(h, T, r, 1 .. L - 1)) = h.start[r]
      BY <2>2, <2>3 DEF OrStart
    <3>3. Noted(h, T, other, Recent(h, L - 1)) = NotPlayed
      BY <2>2, <2>3
    <3> HIDE DEF x, other, L, T, h, n
    <3>4. QED
      BY <2>1, <3>1, <3>2, <3>3
  <2>5. Due(h, T, p, <<1, r>>, L - 1) = x[r]
    <3>1. \E c \in DOMAIN x : x[c] = NotPlayed
      BY <2>1, <2>4
    <3>2. <<1, r>>[2] = r
      OBVIOUS
    <3>3. QED
      BY <3>1, <3>2 DEF Due
  <2>6. QED
    BY <1>8, <2>4, <2>5
<1>11. ASSUME NEW r \in 1 .. n, L # 1 PROVE acts[r] = Damped(Before(L - 1), rate)[r]
  <2> DEFINE x == Faced(h, T, p, <<1, r>>, L - 1)
             y == T[L - 1][1].acts
  <2>1. L - 1 \in 1 .. L /\ L - 1 \in 1 .. L - 1 /\ L \in 1 .. L
    BY <1>2, <1>11, DayBefore
  <2>2. y \in [1 .. n -> Amounts(h)]
    BY <1>7, <2>1
  <2>3. \A a \in 1 .. n : \A days : days \subseteq 1 .. L - 1 /\ L - 1 \in days => Noted(h, T, a, days) = y[a]
    <3>1. SUFFICES ASSUME NEW a \in 1 .. n, NEW days, days \subseteq 1 .. L - 1, L - 1 \in days PROVE Noted(h, T, a, days) = y[a]
      OBVIOUS
    <3>2. SeatsOf(T[L - 1], a) # {} /\ PlayedOn(T[L - 1], a) = y[a]
      BY <1>6, <2>1
    <3>3. days \subseteq Int /\ \A d \in days : d <= L - 1
      <4> HIDE DEF L
      <4>1. \A d \in 1 .. L - 1 : d \in Int /\ d <= L - 1
        BY <1>2
      <4>2. QED
        BY <3>1, <4>1
    <3>4. PICK k : k = L - 1
      OBVIOUS
    <3> HIDE DEF L, T, h, n
    <3>5. days \subseteq Int /\ Topmost(days, k) /\ SeatsOf(T[k], a) # {} /\ PlayedOn(T[k], a) = y[a]
      BY <3>1, <3>2, <3>3, <3>4 DEF Topmost
    <3>6. Noted(h, T, a, days) = PlayedOn(T[k], a)
      <4>1. LastSat(h, T, a, days, k)
        BY <1>4, <3>5 DEF LastSat
      <4>2. QED
        BY <4>1, NotedOf
    <3>7. QED
      BY <3>5, <3>6
  <2>4. Recent(h, L - 1) \subseteq 1 .. L - 1 /\ L - 1 \in Recent(h, L - 1)
    <3> HIDE DEF L, h
    <3>1. L - 1 + h.depth > L - 1
      BY <1>2, <1>3
    <3>2. QED
      BY <2>1, <3>1 DEF Recent
  <2>5. Noted(h, T, r, 1 .. L - 1) = y[r] /\ \A c \in 1 .. n : Noted(h, T, c, Recent(h, L - 1)) = y[c]
    BY <2>1, <2>3, <2>4
  <2>6. \A c \in 1 .. n : y[c] # NotPlayed
    <3>1. h.game.max * Unit \in Nat
      BY <1>2, HallIs
    <3>2. \A v \in Amounts(h) : v # NotPlayed
      BY <3>1 DEF Amounts, NotPlayed
    <3> HIDE DEF y, n, h
    <3>3. QED
      BY <2>2, <3>2
  <2>7. x = y
    <3>1. x = [c \in 1 .. n |-> IF c = r THEN OrStart(h, r, Noted(h, T, r, 1 .. L - 1)) ELSE Noted(h, T, c, Recent(h, L - 1))]
      BY <1>9
    <3>2. OrStart(h, r, Noted(h, T, r, 1 .. L - 1)) = y[r]
      BY <2>5, <2>6 DEF OrStart
    <3>3. y = [c \in 1 .. n |-> y[c]]
      <4> HIDE DEF y, n, h
      <4>1. QED
        BY <2>2
    <3> HIDE DEF x, y, L, T, h, n
    <3>4. \A c \in 1 .. n : y[c] = IF c = r THEN OrStart(h, r, Noted(h, T, r, 1 .. L - 1)) ELSE Noted(h, T, c, Recent(h, L - 1))
      BY <2>5, <3>2
    <3>5. QED
      BY <3>1, <3>3, <3>4
  <2>8. Due(h, T, p, <<1, r>>, L - 1) = Moved(h.game, h.rules[r], r, y)
    <3>1. ~ \E c \in DOMAIN x : x[c] = NotPlayed
      <4>1. DOMAIN y = 1 .. n
        BY <2>2
      <4> HIDE DEF x, y, n
      <4>2. QED
        BY <2>6, <2>7, <4>1
    <3>2. p[1].seats[r] = r
      BY <1>6, <2>1
    <3>3. <<1, r>>[1] = 1 /\ <<1, r>>[2] = r
      OBVIOUS
    <3>4. Due(h, T, p, <<1, r>>, L - 1) = Moved(h.game, h.rules[p[1].seats[r]], r, x)
      BY <3>1, <3>3 DEF Due
    <3> HIDE DEF x, y, p
    <3>5. QED
      BY <2>7, <3>2, <3>4
  <2>9. Moved(h.game, h.rules[r], r, y) = Damped([game |-> h.game, profile |-> y], h.rules[r].rate)[r]
    BY <1>2, <1>4, <2>2, DampedIs
  <2>10. h.rules[r].rate = rate
    <3>1. h.rules[r] = h.rules[1]
      BY <1>4
    <3> HIDE DEF h
    <3>2. QED
      BY <3>1
  <2>11. acts[r] = Damped([game |-> h.game, profile |-> y], rate)[r]
    <3> HIDE DEF y, p, T, L, h, rate, acts
    <3>1. QED
      BY <1>8, <2>8, <2>9, <2>10
  <2>12. QED
    BY <2>11
<1>12. acts = [r \in 1 .. n |-> acts[r]]
  <2>1. L \in 1 .. L
    BY <1>2
  <2>2. acts \in [1 .. n -> Amounts(h)]
    BY <1>7, <2>1
  <2> HIDE DEF acts, n, h
  <2>3. QED
    BY <2>2
<1>13. CASE L = 1
  <2>1. h.start = [r \in 1 .. n |-> h.start[r]]
    BY <1>3
  <2>2. \A r \in 1 .. n : acts[r] = h.start[r]
    BY <1>10, <1>13
  <2> HIDE DEF acts, n, h
  <2>3. acts = h.start
    BY <1>12, <2>1, <2>2
  <2>4. QED
    BY <1>13, <2>3
<1>14. CASE L # 1
  <2> DEFINE z == Damped(Before(L - 1), rate)
  <2>1. z = [r \in 1 .. n |-> z[r]]
    <3>1. L - 1 \in 1 .. L
      BY <1>2, <1>14, DayBefore
    <3>2. DOMAIN T[L - 1][1].acts = 1 .. n /\ Before(L - 1).profile = T[L - 1][1].acts
      BY <1>7, <3>1
    <3> HIDE DEF L, T, n, h, rate, Before
    <3>3. QED
      BY <3>2 DEF Damped
  <2>2. \A r \in 1 .. n : acts[r] = z[r]
    BY <1>11, <1>14
  <2> HIDE DEF acts, n, z
  <2>3. acts = z
    BY <1>12, <2>1, <2>2
  <2>4. QED
    BY <1>14, <2>3 DEF z
<1>15. QED
  BY <1>13, <1>14

(* The invariant of the specification. *)
MarketHolds == MarketInv(market)

(* After every day of every run: the agents respond to what was played, as *)
(* the solver does where all sit together, and stop when nobody moves.     *)
THEOREM DaysAreResponses == MarketSpec => []DaysAsPromised
<1>1. MarketInit => MarketHolds
  <2>1. SUFFICES ASSUME MarketInit PROVE MarketInv(market)
    BY DEF MarketHolds
  <2>2. PICK hall \in Halls :
          market = [hall |-> hall, held |-> hall.start, last |-> [a \in DOMAIN hall.rules |-> NotPlayed],
                    ring |-> NewRing(hall.depth, [a \in DOMAIN hall.rules |-> NotPlayed]),
                    plays |-> <<>>, moved |-> {}, prev |-> <<>>, below |-> 0, row |-> <<>>, status |-> "between", tape |-> <<>>]
    BY <2>1 DEF MarketInit
  <2>3. Hall(hall)
    BY MarketAssumption DEF Hall
  <2>4. QED
    BY <2>2, <2>3, MarketBegins
<1>2. MarketHolds /\ [MarketNext]_market => MarketHolds'
  BY MarketSteps DEF MarketHolds
<1>3. MarketHolds => DaysAsPromised
  <2>1. SUFFICES ASSUME MarketInv(market), market.status # "deciding", market.tape # <<>>
                 PROVE  RespondsToPast(market) /\ FollowsIteration(market) /\ StopsWhenQuiet(market)
    BY DEF DaysAsPromised, MarketHolds
  <2>2. Answered(market.hall, market.tape)
    BY <2>1 DEF MarketInv, Kept
  <2>3. QED
    BY <2>1, <2>2, RespondsIs, FollowsIs, StopsIs
<1>4. QED
  BY <1>1, <1>2, <1>3, PTL DEF MarketSpec
=============================================================================
