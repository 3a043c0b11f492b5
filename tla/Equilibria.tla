------------------------------ MODULE Equilibria ------------------------------
(***************************************************************************)
(* The solvers of normal-form games: the complementary path of Lemke and   *)
(* Howson pivot by pivot, the enumeration of supports, pure equilibria,    *)
(* iterated dominance, fixed points of the replicator dynamics, and        *)
(* evolutionary stability.  Payoffs are integers and the arithmetic is     *)
(* exact: a tableau row stands for all its positive multiples, a mixed     *)
(* strategy for the weights it is proportional to.  Tolerances are zero.   *)
(***************************************************************************)
EXTENDS Integers, Sequences, FiniteSets, FiniteSetsExt, SequencesExt, Functions
CONSTANTS Games,         \* MatrixGame: [counts, pay], payoffs of a role in row-major order
          Fineness,      \* strategies are compared with all those of this total weight
          Limits         \* max_pivots, as callers choose it

VARIABLE path    \* lemke_howson: [game, dropped, limit, tabs, role, entering, pivots, status]

\* The largest divisor of all numbers of a row goes: the row is the same equation.
RECURSIVE Gcd(_, _)
Gcd(a, b) == IF b = 0 THEN a ELSE Gcd(b, a % b)
AbsOf(a) == IF a < 0 THEN -a ELSE a
GcdOf(row) == LET d[k \in 0 .. Len(row)] == IF k = 0 THEN 0 ELSE Gcd(d[k - 1], AbsOf(row[k])) IN d[Len(row)]
Divided(row, g) ==
  IF g <= 1 THEN row ELSE [k \in DOMAIN row |-> IF row[k] < 0 THEN -((-row[k]) \div g) ELSE row[k] \div g]
Shrunk(row) == Divided(row, GcdOf(row))
Cleared(row, pivot, c) == IF row[c] = 0 THEN row ELSE Shrunk([k \in DOMAIN row |-> pivot[c] * row[k] - row[c] * pivot[k]])
Total(w) == LET s[k \in 0 .. Len(w)] == IF k = 0 THEN 0 ELSE s[k - 1] + w[k] IN s[Len(w)]
Support(w) == {a \in DOMAIN w : w[a] > 0}

-----------------------------------------------------------------------------
(* Games and mixed strategies *)

ProfileIndex(g, p) == LET i[k \in 0 .. Len(p)] == IF k = 0 THEN 0 ELSE i[k - 1] * g.counts[k] + p[k] - 1 IN i[Len(p)] + 1
Payoff(g, role, p) == g.pay[role][ProfileIndex(g, p)]
Profiles(g) == {p \in [DOMAIN g.counts -> 1 .. Max(Range(g.counts))] : \A r \in DOMAIN p : p[r] <= g.counts[r]}
IsSymmetric(g) == /\ Len(g.counts) = 2 /\ g.counts[1] = g.counts[2]
                  /\ \A p \in Profiles(g) : Payoff(g, 1, p) = Payoff(g, 2, <<p[2], p[1]>>)

\* What an action earns against the other of two roles, times the total weight of w.
Own(g, role, a, b) == g.pay[role][IF role = 1 THEN (a - 1) * g.counts[2] + b ELSE (b - 1) * g.counts[2] + a]
ActionPayoff(g, role, a, w) == Total([b \in DOMAIN w |-> w[b] * Own(g, role, a, b)])
ActionPayoffs(g, role, w) == [a \in 1 .. g.counts[role] |-> ActionPayoff(g, role, a, w)]
Regret(g, role, x, w) ==
  LET v == ActionPayoffs(g, role, w) IN Max(Range(v)) * Total(x) - Total([a \in DOMAIN x |-> x[a] * v[a]])
Verified(g, x, y) == Regret(g, 1, x, y) <= 0 /\ Regret(g, 2, y, x) <= 0

Deviation(p, role, a) == [p EXCEPT ![role] = a]
PureNash(g) ==
  {p \in Profiles(g) : \A role \in DOMAIN p : \A a \in 1 .. g.counts[role] :
                         Payoff(g, role, Deviation(p, role, a)) <= Payoff(g, role, p)}

\* iterated_strict_dominance: all dominated actions of a round go together.
Dominates(g, role, better, worse, alive) ==
  \A p \in Profiles(g) :
    (\A r \in DOMAIN p : r # role => p[r] \in alive[r]) =>
      Payoff(g, role, Deviation(p, role, better)) > Payoff(g, role, Deviation(p, role, worse))
Dominated(g, role, alive) == {a \in alive[role] : \E b \in alive[role] \ {a} : Dominates(g, role, b, a, alive)}
RECURSIVE SurvivingOf(_, _)
SurvivingOf(g, alive) ==
  LET left == [role \in DOMAIN alive |-> alive[role] \ Dominated(g, role, alive)]
  IN  IF left = alive THEN alive ELSE SurvivingOf(g, left)
Surviving(g) == SurvivingOf(g, [role \in DOMAIN g.counts |-> 1 .. g.counts[role]])

-----------------------------------------------------------------------------
(* Linear systems: rows of coefficients and, last, the right-hand side *)

\* Columns are eliminated in an order; at leads from a column to the row it is solved by.
FreeRows(s, c) == {r \in DOMAIN s.rows : r \notin Range(s.at) /\ s.rows[r][c] # 0}
SolvedBy(s, c, p) ==
  [rows |-> [r \in DOMAIN s.rows |-> IF r = p THEN s.rows[r] ELSE Cleared(s.rows[r], s.rows[p], c)],
   at |-> [d \in DOMAIN s.at \cup {c} |-> IF d = c THEN p ELSE s.at[d]]]
SolvedFor(s, c, free) == IF free = {} THEN s ELSE SolvedBy(s, c, Min(free))
Eliminated(rows, order) ==
  LET step[k \in 0 .. Len(order)] ==
        IF k = 0 THEN [rows |-> rows, at |-> << >>]
        ELSE SolvedFor(step[k - 1], order[k], FreeRows(step[k - 1], order[k]))
  IN  step[Len(order)]

\* solve_least_squares: the pivot columns of a system of full rank do not matter; which
\* ones it takes of another depends on rounding, so that any basic solution may come out.
Denominator(e, n) ==
  LET d[k \in 0 .. n] == IF k = 0 THEN 1 ELSE IF k \in DOMAIN e.at THEN d[k - 1] * AbsOf(e.rows[e.at[k]][k]) ELSE d[k - 1]
  IN  d[n]
Unknown(e, k, n, den) ==
  IF k \notin DOMAIN e.at THEN 0
  ELSE e.rows[e.at[k]][n + 1] * (den \div AbsOf(e.rows[e.at[k]][k])) * (IF e.rows[e.at[k]][k] < 0 THEN -1 ELSE 1)
BasicOf(e, n, den) ==
  [consistent |-> \A r \in DOMAIN e.rows \ Range(e.at) : e.rows[r][n + 1] = 0,
   full |-> DOMAIN e.at = 1 .. n, rank |-> Cardinality(DOMAIN e.at),
   x |-> Shrunk(Append([k \in 1 .. n |-> Unknown(e, k, n, den)], den))]
Solved(e, n) == BasicOf(e, n, Denominator(e, n))
Basic(rows, order) == Solved(Eliminated(rows, order), Len(rows[1]) - 1)
Ordered(S) == SetToSortSeq(S, <)
OrOther(rows, columns, plain) ==
  IF plain.full \/ ~plain.consistent THEN {plain}
  ELSE {Basic(rows, Ordered(B) \o Ordered(columns \ B)) : B \in kSubset(plain.rank, columns)}
Solutions(rows) == LET columns == 1 .. Len(rows[1]) - 1 IN OrOther(rows, columns, Basic(rows, Ordered(columns)))

-----------------------------------------------------------------------------
(* support_enumeration *)

\* One equation for each own action of the support, and the normalisation: weights of
\* the other role and the common payoff are the unknowns.
Indifference(g, role, own, opp) ==
  [i \in DOMAIN own |-> [j \in DOMAIN opp |-> Own(g, role, own[i], opp[j])] \o <<-1, 0>>]
  \o <<[j \in DOMAIN opp |-> 1] \o <<0, 1>>>>
AsGoodOutside(g, role, own, opp, s) ==   \* mutant: a tie with an action outside excludes too
  \E a \in (1 .. g.counts[role]) \ Range(own) :
    Total([j \in DOMAIN opp |-> s.x[j] * Own(g, role, a, opp[j])]) >= s.x[Len(opp) + 1]
BetterOutside(g, role, own, opp, s) ==
  \E a \in (1 .. g.counts[role]) \ Range(own) :
    Total([j \in DOMAIN opp |-> s.x[j] * Own(g, role, a, opp[j])]) > s.x[Len(opp) + 1]
Excludes(g, role, own, opp, s) ==
  \/ ~s.consistent
  \/ s.full /\ (\/ \E j \in DOMAIN opp : s.x[j] <= 0
                \/ BetterOutside(g, role, own, opp, s))

Spread(n, support, x) == [a \in 1 .. n |-> IF \E i \in DOMAIN support : support[i] = a
                                           THEN x[CHOOSE i \in DOMAIN support : support[i] = a] ELSE 0]
Finding(kind, x, y) == [kind |-> kind, x |-> x, y |-> y]
Judged(g, s, t, x, y, proper) ==
  IF s.full /\ t.full THEN Finding(IF proper /\ Verified(g, x, y) THEN "equilibrium" ELSE "inconclusive", x, y)
  ELSE Finding(IF proper /\ Verified(g, x, y) THEN "component" ELSE "degenerate", x, y)
Examined(g, rows, cols, s, t) ==
  IF Excludes(g, 1, rows, cols, s) \/ Excludes(g, 2, cols, rows, t) THEN Finding("none", <<>>, <<>>)
  ELSE Judged(g, s, t, Spread(g.counts[1], rows, t.x), Spread(g.counts[2], cols, s.x),
              (\A i \in DOMAIN rows : t.x[i] >= 0) /\ (\A j \in DOMAIN cols : s.x[j] >= 0))
ExamineSupport(g, R, C) ==
  LET rows == Ordered(R)
      cols == Ordered(C)
  IN  {Examined(g, rows, cols, s, t) : s \in Solutions(Indifference(g, 1, rows, cols)),
                                       t \in Solutions(Indifference(g, 2, cols, rows))}

-----------------------------------------------------------------------------
(* replicator_fixed_points and ess_verdict, for symmetric games *)

\* All actions of the support earn the same: differences to its first, and the normalisation.
EqualPayoffs(g, S) ==
  LET s == Ordered(S)
  IN  [i \in 1 .. Len(s) - 1 |-> [j \in DOMAIN s |-> Own(g, 1, s[i + 1], s[j]) - Own(g, 1, s[1], s[j])] \o <<0>>]
      \o <<[j \in DOMAIN s |-> 1] \o <<1>>>>
Feasible(g, S, solutions) ==
  {Spread(g.counts[1], Ordered(S), s.x) : s \in {b \in solutions : b.consistent /\ \A i \in 1 .. Cardinality(S) : b.x[i] >= 0}}
Vertices(g, S) == Feasible(g, S, Solutions(EqualPayoffs(g, S)))
OneSolution(g, S) == \A s \in Solutions(EqualPayoffs(g, S)) : s.full
\* The relative interior of the solutions is not empty if each action has weight in a corner.
HasInterior(g, S) == \A a \in S : \E v \in Vertices(g, S) : v[a] > 0
Isolated(g) == UNION {Vertices(g, S) : S \in {T \in SUBSET (1 .. g.counts[1]) \ {{}} : OneSolution(g, T) /\ HasInterior(g, T)}}
Components(g) == {S \in SUBSET (1 .. g.counts[1]) \ {{}} : ~OneSolution(g, S) /\ HasInterior(g, S)}
InComponent(g, S, v) == /\ Support(v) \subseteq S
                     /\ \A a, b \in S : ActionPayoff(g, 1, a, v) = ActionPayoff(g, 1, b, v)
Outermost(g, all) == {S \in all : ~\E T \in all : /\ S \subseteq T /\ S # T
                                                /\ \A v \in Vertices(g, S) : InComponent(g, T, v)}
Listed(g, kept) == [components |-> kept, isolated |-> {v \in Isolated(g) : ~\E S \in kept : InComponent(g, S, v)}]
FixedPoints(g) == Listed(g, Outermost(g, Components(g)))

\* The form z A z on the directions from the last of the actions, symmetrised (twice).
Form(g, S) ==
  LET s == Ordered(S)
      n == Len(s)
      A(i, j) == Own(g, 1, s[i], s[j])
      B(i, j) == A(i, j) - A(i, n) - A(n, j) + A(n, n)
  IN  [i \in 1 .. n - 1 |-> [j \in 1 .. n - 1 |-> B(i, j) + B(j, i)]]
\* The sign of the largest eigenvalue of a symmetric matrix of one or two rows.
Sign(a) == CASE a < 0 -> -1 [] a = 0 -> 0 [] OTHER -> 1
TopSign(m) ==
  IF Len(m) = 1 THEN Sign(m[1][1])
  ELSE LET det == m[1][1] * m[2][2] - m[1][2] * m[2][1]
       IN  CASE det < 0 \/ m[1][1] > 0 \/ m[2][2] > 0 -> 1
             [] det = 0 -> 0
             [] OTHER -> -1
Verdict(sign) == CASE sign < 0 -> "true" [] sign > 0 -> "false" [] OTHER -> "inconclusive"
FormVerdict(m) == IF \A i, j \in DOMAIN m : m[i][j] = 0 THEN "false" ELSE Verdict(TopSign(m))
QuadraticSpace(g, S) == IF Cardinality(S) = 1 THEN "true" ELSE FormVerdict(Form(g, S))
\* A pure resident and one or two other best responses.
Towards(g, r, a, b) == Own(g, 1, a, b) - Own(g, 1, a, r) - Own(g, 1, r, b) + Own(g, 1, r, r)
PairVerdict(q11, q22, q12) ==    \* q12 is twice the mixed term
  CASE q11 > 0 \/ q22 > 0 -> "false"
    [] q11 = 0 \/ q22 = 0 -> "inconclusive"
    [] OTHER -> IF q12 < 0 \/ q12 * q12 < 4 * q11 * q22 THEN "true" ELSE "false"
Cone(g, r, others) ==
  LET a == Min(others)
      b == Max(others)
  IN  IF a = b THEN Verdict(Sign(Towards(g, r, a, a)))
      ELSE PairVerdict(Towards(g, r, a, a), Towards(g, r, b, b), Towards(g, r, a, b) + Towards(g, r, b, a))
BestReplies(v) == {a \in DOMAIN v : v[a] = Max(Range(v))}
Stable(g, x, best) ==
  CASE Regret(g, 1, x, x) > 0 -> "false"
    [] best = Support(x) -> QuadraticSpace(g, best)
    [] Cardinality(best) > 3 -> "inconclusive"
    [] Cardinality(Support(x)) = 1 -> Cone(g, CHOOSE a \in Support(x) : TRUE, best \ Support(x))
    [] OTHER -> QuadraticSpace(g, best)
EssVerdict(g, x) == Stable(g, x, BestReplies(ActionPayoffs(g, 1, x)))

-----------------------------------------------------------------------------
(* pure_nash_counts, for games whose payoffs depend on how many choose what *)

\* advance_composition: the last number but the first that is not zero gives one to the
\* left and the rest to the last.
NextComposition(c) ==
  LET i == Max({k \in 2 .. Len(c) : c[k] > 0})
      moved == [c EXCEPT ![i - 1] = c[i - 1] + 1, ![i] = 0]
  IN  [moved EXCEPT ![Len(c)] = moved[Len(c)] + c[i] - 1]
RECURSIVE From(_)
From(c) == IF \A k \in 2 .. Len(c) : c[k] = 0 THEN <<c>> ELSE <<c>> \o From(NextComposition(c))
Compositions(total, parts) == From([k \in 1 .. parts |-> IF k = parts THEN total ELSE 0])

\* pay[a][c]: what an action earns when the others choose as c counts.
CountsAreNash(pay, c) ==
  \A a \in {b \in DOMAIN c : c[b] > 0} :
    LET others == [c EXCEPT ![a] = c[a] - 1] IN \A b \in DOMAIN c : pay[a][others] >= pay[b][others]
PureNashCounts(pay, players) == SelectSeq(Compositions(players, Len(pay)), LAMBDA c : CountsAreNash(pay, c))

-----------------------------------------------------------------------------
(* lemke_howson *)

Labels(g) == g.counts[1] + g.counts[2]
ShiftNegative(least) == IF least >= 0 THEN 0 ELSE 1 - least   \* mutant: a payoff of zero stays
Shift(least) == IF least > 0 THEN 0 ELSE 1 - least
Positive(g, role, a, b) == Own(g, role, a, b) + Shift(Min(Range(g.pay[role])))

\* A row player's tableau has a constraint for each column and the other one for each
\* row of the game; the slack of a constraint bears the label of its action.
Slack(g, role, i) == IF role = 1 THEN g.counts[1] + i ELSE i
Tableau(g, role) ==
  LET other == 3 - role
      Action(k) == IF role = 1 THEN k ELSE k - g.counts[1]
      Mine(k) == Action(k) \in 1 .. g.counts[role]
  IN  [rows |-> [i \in 1 .. g.counts[other] |->
                   [k \in 1 .. Labels(g) |-> IF Mine(k) THEN Positive(g, other, i, Action(k))
                                             ELSE IF k = Slack(g, role, i) THEN 1 ELSE 0] \o <<1>>],
       basis |-> [i \in 1 .. g.counts[other] |-> Slack(g, role, i)]]

\* The ratio test goes by the right-hand side and then by the columns of the slacks,
\* which are those of the inverse of the basis.
RatioLess(g, role, rows, i, j, entering) ==
  LET keys == <<Labels(g) + 1>> \o [k \in DOMAIN rows |-> Slack(g, role, k)]
      At(r, k) == rows[r][keys[k]]
      Cross(k) == At(i, k) * rows[j][entering] - At(j, k) * rows[i][entering]
  IN  \E k \in DOMAIN keys : Cross(k) < 0 /\ \A m \in 1 .. k - 1 : Cross(m) = 0
Candidates(tab, entering) == {i \in DOMAIN tab.rows : tab.rows[i][entering] > 0}
MinimumRatio(g, role, tab, entering) ==
  {i \in Candidates(tab, entering) :
     \A j \in Candidates(tab, entering) \ {i} : RatioLess(g, role, tab.rows, i, j, entering)}

PathInit == \E g \in Games, limit \in Limits : \E label \in 1 .. Labels(g) :
              path = [game |-> g, dropped |-> label, limit |-> limit, tabs |-> <<Tableau(g, 1), Tableau(g, 2)>>,
                      role |-> IF label <= g.counts[1] THEN 1 ELSE 2, entering |-> label, pivots |-> 0, status |-> "on"]
PivotStep ==
  LET tab == path.tabs[path.role]
      at  == MinimumRatio(path.game, path.role, tab, path.entering)
  IN  /\ path.status = "on" /\ path.pivots < path.limit /\ at # {}
      /\ LET p == CHOOSE i \in at : TRUE
             leaving == tab.basis[p]
             next == [rows |-> [i \in DOMAIN tab.rows |-> IF i = p THEN tab.rows[i]
                                                          ELSE Cleared(tab.rows[i], tab.rows[p], path.entering)],
                      basis |-> [tab.basis EXCEPT ![p] = path.entering]]
         IN  path' = [path EXCEPT !.tabs = [path.tabs EXCEPT ![path.role] = next], !.pivots = path.pivots + 1,
                        !.role = IF leaving = path.dropped THEN path.role ELSE 3 - path.role, !.entering = leaving,
                        !.status = IF leaving = path.dropped THEN "ended" ELSE "on"]
PathFails == /\ path.status = "on"
             /\ path.pivots < path.limit =>
                  MinimumRatio(path.game, path.role, path.tabs[path.role], path.entering) = {}
             /\ path' = [path EXCEPT !.status = "failed"]
PathNext == PivotStep \/ PathFails

\* values, normalize_strategy: the weight of an action is the value of its basic variable.
Weights(g, role, tab) ==
  LET den == LET d[i \in 0 .. Len(tab.rows)] == IF i = 0 THEN 1 ELSE d[i - 1] * tab.rows[i][tab.basis[i]] IN d[Len(tab.rows)]
      Value(k) == IF k \notin Range(tab.basis) THEN 0
                  ELSE LET i == CHOOSE r \in DOMAIN tab.basis : tab.basis[r] = k
                       IN  tab.rows[i][Labels(g) + 1] * (den \div tab.rows[i][k])
  IN  Shrunk([a \in 1 .. g.counts[role] |-> Value(IF role = 1 THEN a ELSE g.counts[1] + a)])

-----------------------------------------------------------------------------
(* Properties *)

Strategies(n) == {w \in [1 .. n -> 0 .. Fineness] : Total(w) = Fineness}
Equilibrium(g, x, y) == /\ \A a \in Support(x) : ActionPayoff(g, 1, a, y) = Max(Range(ActionPayoffs(g, 1, y)))
                        /\ \A b \in Support(y) : ActionPayoff(g, 2, b, x) = Max(Range(ActionPayoffs(g, 2, x)))

\* Whatever label is dropped and however degenerate the game is, no ratio test is unbounded
\* or ambiguous (only the limit of pivots fails a path) and a path that ends does so in an
\* equilibrium.
PathEndsInEquilibrium ==
  /\ path.status = "failed" => path.pivots = path.limit
  /\ path.status = "ended" =>
       LET x == Weights(path.game, 1, path.tabs[1])
           y == Weights(path.game, 2, path.tabs[2])
       IN  Support(x) # {} /\ Support(y) # {} /\ Equilibrium(path.game, x, y)

\* No equilibrium goes missing: its own supports yield it, or a finding that says that
\* there are more than can be listed.
Yields(examined, x, y) ==
  \A e \in examined : /\ e.kind \in {"equilibrium", "component", "degenerate"}
                      /\ e.kind = "equilibrium" => Shrunk(e.x) = Shrunk(x) /\ Shrunk(e.y) = Shrunk(y)
SupportsComplete(g) ==
  \A R \in SUBSET (1 .. g.counts[1]) \ {{}}, C \in SUBSET (1 .. g.counts[2]) \ {{}} :
    \A examined \in {ExamineSupport(g, R, C)} :
      /\ \A x \in Strategies(g.counts[1]), y \in Strategies(g.counts[2]) :
           Support(x) = R /\ Support(y) = C /\ Equilibrium(g, x, y) => Yields(examined, x, y)
      /\ Cardinality(R) = 1 /\ Cardinality(C) = 1 =>
           (<<Min(R), Min(C)>> \in PureNash(g) <=> \A e \in examined : e.kind = "equilibrium")

\* What survives iterated dominance does not depend on who goes first.
RECURSIVE Ends(_, _)
Ends(g, alive) ==
  LET gone == {d \in {1, 2} \X (alive[1] \cup alive[2]) : d[2] \in Dominated(g, d[1], alive)}
  IN  IF gone = {} THEN {alive}
      ELSE UNION {Ends(g, [alive EXCEPT ![d[1]] = alive[d[1]] \ {d[2]}]) : d \in gone}
DominanceSound(g) ==
  /\ Ends(g, <<1 .. g.counts[1], 1 .. g.counts[2]>>) = {Surviving(g)}
  /\ \A p \in PureNash(g) : p[1] \in Surviving(g)[1] /\ p[2] \in Surviving(g)[2]

\* Every rest point of the replicator dynamics is listed or lies in a component; a
\* resident called stable repels all mutants, one called unstable does not.
Average(g, x, y) == Total([a \in DOMAIN x |-> x[a] * ActionPayoff(g, 1, a, y)])
Repels(g, x, y) == \/ Average(g, y, x) < Average(g, x, x)
                   \/ Average(g, y, x) = Average(g, x, x) /\ Average(g, x, y) > Average(g, y, y)
PopulationSound(g) ==
  \A fixed \in {FixedPoints(g)}, x \in Strategies(g.counts[1]) :
    /\ (\A a, b \in Support(x) : ActionPayoff(g, 1, a, x) = ActionPayoff(g, 1, b, x)) =>
         \/ \E v \in fixed.isolated : Shrunk(v) = Shrunk(x)
         \/ \E S \in fixed.components : InComponent(g, S, x)
    /\ \A verdict \in {EssVerdict(g, x)} : verdict # "inconclusive" =>
         ((\A y \in Strategies(g.counts[1]) \ {x} : Repels(g, x, y)) <=> verdict = "true")
\* The counts of a game of three players who meet in pairs are those of its pure equilibria.
CountsSound(g) ==
  LET acts == 1 .. g.counts[1]
      pay == [a \in acts |-> [c \in [acts -> 0 .. 2] |-> ActionPayoff(g, 1, a, c)]]
      Earned(p, i) == Total([j \in 1 .. 3 |-> IF j = i THEN 0 ELSE Own(g, 1, p[i], p[j])])
      stable == {p \in [1 .. 3 -> acts] : \A i \in 1 .. 3, a \in acts : Earned([p EXCEPT ![i] = a], i) <= Earned(p, i)}
  IN  /\ ToSet(PureNashCounts(pay, 3)) = {[a \in acts |-> Cardinality({i \in 1 .. 3 : p[i] = a})] : p \in stable}
      /\ IsInjective(Compositions(3, g.counts[1]))
NothingMissed ==
  path.pivots = 1 /\ path.dropped = 1 /\ path.limit = Max(Limits) =>
    /\ SupportsComplete(path.game) /\ DominanceSound(path.game)
    /\ IsSymmetric(path.game) => PopulationSound(path.game) /\ CountsSound(path.game)

\* Both: what the solvers return is an equilibrium and none is missing.
SolutionsHold == PathEndsInEquilibrium /\ NothingMissed
=============================================================================
