------------------------------ MODULE Responses ------------------------------
(***************************************************************************)
(* Games of continuous actions (quantities, prices, contributions), their  *)
(* analytic best responses and equilibria, the golden-section search for a *)
(* best response, and the damped iteration of best responses.  Amounts are *)
(* numbers of small units, so that whatever the formulas divide by comes   *)
(* out even; in the iteration they are rounded down.                       *)
(***************************************************************************)
EXTENDS Integers, Sequences, FiniteSets, FiniteSetsExt
CONSTANTS Economies,     \* parameters handed to constructors: [kind, n, a, b, c, d, max]
          Settings,      \* BrIterationOptions: [damping, adaptive, least, tol, maxIter, oracle]
          Unit,          \* units of one, in the iteration
          Curves         \* payoffs along a line of grid points, for the line search

VARIABLE search    \* best_response_iteration: [game, options, start, profile, damping, step, iterations, status]

Full == 64              \* a damping of one: dampings are parts of this
Fraction == 1024        \* and tolerances of this

\* Cournot: demand a - b Q and cost c.  Bertrand: demand a - b p + d S.  Public goods: n
\* players, max is the endowment and the pool is multiplied by a.
Cournot(g) == g.b > 0 /\ g.a > g.c /\ g.c >= 0
Bertrand(g) == g.b > 0 /\ g.d >= 0 /\ 2 * g.b > (g.n - 1) * g.d /\ g.c >= 0
PublicGoods(g) == g.a >= 0
Possible(g) ==
  /\ g.n >= 2 /\ g.max > 0
  /\ CASE g.kind = "cournot" -> Cournot(g) [] g.kind = "bertrand" -> Bertrand(g) [] g.kind = "public_goods" -> PublicGoods(g)
SocialDilemma(g) == 1 < g.a /\ g.a < g.n
SumOf(x) == LET s[k \in 0 .. Len(x)] == IF k = 0 THEN 0 ELSE s[k - 1] + x[k] IN s[Len(x)]
OthersOf(role, x) == SumOf(x) - x[role]
Clamp(v, lo, hi) == IF v < lo THEN lo ELSE IF v > hi THEN hi ELSE v

\* payoff, times the square of the unit (public goods: times unit and players); the best
\* response without the bounds; the slope at the own amount.
CournotEarns(g, role, x, u) == x[role] * (g.a * u - g.b * SumOf(x) - g.c * u)
BertrandEarns(g, role, x, u) == (x[role] - g.c * u) * (g.a * u - g.b * x[role] + g.d * OthersOf(role, x))
PublicGoodsEarns(g, role, x, u) == g.n * (g.max * u - x[role]) + g.a * SumOf(x)
Earns(g, role, x, u) ==
  CASE g.kind = "cournot" -> CournotEarns(g, role, x, u)
    [] g.kind = "bertrand" -> BertrandEarns(g, role, x, u)
    [] g.kind = "public_goods" -> PublicGoodsEarns(g, role, x, u)
CournotReply(g, others, u) == ((g.a - g.c) * u - g.b * others) \div (2 * g.b)
BertrandReply(g, others, u) == (g.a * u + g.b * g.c * u + g.d * others) \div (2 * g.b)
PublicGoodsReply(g, u) == IF g.a > g.n THEN g.max * u ELSE 0
BestReply(g, role, x, u) ==
  CASE g.kind = "cournot" -> Clamp(CournotReply(g, OthersOf(role, x), u), 0, g.max * u)
    [] g.kind = "bertrand" -> Clamp(BertrandReply(g, OthersOf(role, x), u), 0, g.max * u)
    [] g.kind = "public_goods" -> PublicGoodsReply(g, u)
Slope(g, role, x, u) ==
  CASE g.kind = "cournot" -> (g.a - g.c) * u - g.b * SumOf(x) - g.b * x[role]
    [] g.kind = "bertrand" -> g.a * u - 2 * g.b * x[role] + g.b * g.c * u + g.d * OthersOf(role, x)
    [] g.kind = "public_goods" -> g.a - g.n
\* equilibrium_quantity, equilibrium_price, equilibrium_contribution: a set, empty for None.
Interior(g, u) == ((g.a + g.b * g.c) * u) \div (2 * g.b - (g.n - 1) * g.d)
CournotQuantity(g, u) == {Clamp(((g.a - g.c) * u) \div ((g.n + 1) * g.b), 0, g.max * u)}
BertrandPrice(g, u) == IF g.a + g.b * g.c < g.c * (2 * g.b - (g.n - 1) * g.d) THEN {} ELSE {Min({Interior(g, u), g.max * u})}
Contribution(g, u) == IF g.a = g.n THEN {} ELSE {IF g.a < g.n THEN 0 ELSE g.max * u}
Symmetric(g, u) == CASE g.kind = "cournot" -> CournotQuantity(g, u)
                     [] g.kind = "bertrand" -> BertrandPrice(g, u)
                     [] g.kind = "public_goods" -> Contribution(g, u)
Optimum(g, u) == IF g.a = 1 THEN {} ELSE {IF g.a > 1 THEN g.max * u ELSE 0}

-----------------------------------------------------------------------------
(* golden_section_best_response: the width of the bracket is a Fibonacci   *)
(* number of grid points, so that both inner points are grid points, and a *)
(* bracket of two neighbours is within the tolerance.                      *)

Fib[k \in Nat] == IF k <= 1 THEN 1 ELSE Fib[k - 1] + Fib[k - 2]
Better(f1, f2) == f1 >= f2
Narrowed(f, k, maxIter) ==     \* [lo, hi, x1, x2, f1, f2] after k rounds
  LET width == Len(f) - 1
      order == CHOOSE j \in 0 .. width : Fib[j + 1] = width
      round[i \in 0 .. k] ==
        IF i = 0
        THEN LET x1 == width - Fib[order] IN [lo |-> 0, hi |-> width, x1 |-> x1, x2 |-> Fib[order], f1 |-> f[x1 + 1], f2 |-> f[Fib[order] + 1]]
        ELSE LET s == round[i - 1]
                 inner == IF order < i THEN 0 ELSE Fib[order - i]
             IN  IF s.hi - s.lo <= 1 \/ i > maxIter THEN s
                 ELSE IF Better(s.f1, s.f2)
                 THEN LET x1 == s.x2 - inner IN [lo |-> s.lo, hi |-> s.x2, x1 |-> x1, x2 |-> s.x1, f1 |-> f[x1 + 1], f2 |-> s.f1]
                 ELSE LET x2 == s.x1 + inner IN [lo |-> s.x1, hi |-> s.hi, x1 |-> s.x2, x2 |-> x2, f1 |-> s.f2, f2 |-> f[x2 + 1]]
  IN  round[k]
\* The better of both ends of the line and of the bracket; the smallest of equals.
GoldenSection(f, maxIter) ==
  LET s == Narrowed(f, Len(f), maxIter)
      ends == {0, s.lo, s.hi, Len(f) - 1}
      top == Max({f[x + 1] : x \in ends})
  IN  [action |-> Min({x \in ends : f[x + 1] = top}), status |-> IF s.hi - s.lo <= 1 THEN "converged" ELSE "max_iter"]

-----------------------------------------------------------------------------
(* best_response_iteration *)

ValidOptions(o) == /\ 0 < o.damping /\ o.damping <= Full /\ 0 < o.least /\ o.least <= o.damping
                   /\ o.tol > 0 /\ o.maxIter > 0
ValidProfile(g, x) == Len(x) = g.n /\ \A role \in DOMAIN x : 0 <= x[role] /\ x[role] <= g.max * Unit
Starts(g) == {[role \in 1 .. g.n |-> IF role <= k THEN h * Unit ELSE 0] : k \in 0 .. g.n, h \in {g.max, g.max + 1}}
SearchInit ==
  \E g \in {e \in Economies : Possible(e)}, o \in Settings : \E x \in Starts(g) :
    search = [game |-> g, options |-> o, start |-> x, profile |-> x, damping |-> o.damping,
              step |-> 0, iterations |-> 0, status |-> "called"]

Begin == /\ search.status = "called"
         /\ search' = [search EXCEPT !.status = IF ValidOptions(search.options) /\ ValidProfile(search.game, search.start)
                                                THEN "on" ELSE "refused"]

Threshold(s) == (s.options.tol * Max({1, s.game.max}) * Unit) \div Fraction
Responded(s) == [role \in DOMAIN s.profile |-> BestReply(s.game, role, s.profile, Unit)]
FirstDistance(x, y) == IF x[1] < y[1] THEN y[1] - x[1] ELSE x[1] - y[1]   \* mutant: only the first role
SupDistance(x, y) == Max({IF x[r] < y[r] THEN y[r] - x[r] ELSE x[r] - y[r] : r \in DOMAIN x})
Residual(s) == SupDistance(s.profile, Responded(s))
Damped(s, d) == [role \in DOMAIN s.profile |->
                   Clamp(((Full - d) * s.profile[role] + d * Responded(s)[role]) \div Full, 0, s.game.max * Unit)]
\* A best response that did not converge is an error; only an oracle has such.
NoBestResponse ==
  /\ search.status = "on" /\ search.options.oracle
  /\ search' = [search EXCEPT !.status = "no_best_response"]
Converge ==
  /\ search.status = "on" /\ Residual(search) <= Threshold(search)
  /\ search' = [search EXCEPT !.status = "converged"]
Update ==
  /\ search.status = "on" /\ Residual(search) > Threshold(search) /\ search.step < search.options.maxIter
  /\ search' = [search EXCEPT !.profile = Damped(search, search.damping), !.step = search.step + 1,
                              !.iterations = search.iterations + 1]
\* An attempt without success is repeated from the start with half the damping, while allowed.
LastAttempt(s) == ~s.options.adaptive \/ s.damping < 2 * s.options.least
Halve ==
  /\ search.status = "on" /\ Residual(search) > Threshold(search) /\ search.step = search.options.maxIter
  /\ search' = IF LastAttempt(search) THEN [search EXCEPT !.status = "max_iter"]
               ELSE [search EXCEPT !.damping = search.damping \div 2, !.profile = search.start, !.step = 0]
SearchNext == Begin \/ NoBestResponse \/ Converge \/ Update \/ Halve

-----------------------------------------------------------------------------
(* Properties *)

\* Whoever answers, the answer is best: no action on a fine grid earns more than the
\* analytic response, whose side of the own action is that of the gradient; the symmetric
\* equilibrium is its own response; and the line search finds the top of every curve that
\* rises to it and falls from it, however flat the top.
Integral(g) == {x \in [1 .. g.n -> 0 .. g.max] : TRUE}
AnalyticIsBest(g) ==
  LET u == IF g.kind = "public_goods" THEN 1 ELSE 2 * g.b
  IN  /\ \A x \in Integral(g), role \in {1, g.n} :
           LET y == [r \in 1 .. g.n |-> x[r] * u]
               best == BestReply(g, role, y, u)
           IN  /\ \A z \in 0 .. g.max * u : Earns(g, role, [y EXCEPT ![role] = z], u) <= Earns(g, role, [y EXCEPT ![role] = best], u)
               /\ best > y[role] => Slope(g, role, y, u) > 0
               /\ best < y[role] => Slope(g, role, y, u) <= 0
      /\ LET fine == CASE g.kind = "cournot" -> 2 * g.b * (g.n + 1) [] g.kind = "bertrand" -> 2 * g.b * (2 * g.b - (g.n - 1) * g.d) [] OTHER -> 1
         IN  \A q \in Symmetric(g, fine) : BestReply(g, 1, [r \in 1 .. g.n |-> q], fine) = q
      /\ g.kind = "public_goods" => \A q \in Optimum(g, 1), x \in Integral(g) :
           /\ SumOf([r \in 1 .. g.n |-> Earns(g, r, x, 1)]) <= g.n * Earns(g, 1, [r \in 1 .. g.n |-> q], 1)
           /\ SocialDilemma(g) => q \notin Symmetric(g, 1)
RisesAndFalls(f) == \E lo, hi \in DOMAIN f :
  /\ lo <= hi /\ \A k \in lo .. hi : f[k] = f[lo]
  /\ \A k \in 2 .. lo : f[k - 1] < f[k]
  /\ \A k \in hi .. Len(f) - 1 : f[k] > f[k + 1]
LineSearchFindsTop ==
  \A f \in {c \in Curves : RisesAndFalls(c)} :
    LET found == GoldenSection(f, 100)
    IN  found.status = "converged" /\ \A k \in DOMAIN f : f[found.action + 1] >= f[k]
First(g) == search.status = "called" /\ search.game = g /\ search.options = (CHOOSE o \in Settings : TRUE) /\ search.start[1] = 0
AnswersAreBest == /\ First(search.game) => AnalyticIsBest(search.game)
                  /\ First(CHOOSE g \in Economies : Possible(g)) => LineSearchFindsTop

\* What is called converged is near the equilibrium of the game, from whatever start and
\* through however many dampings; what is not has tried every damping down to the least;
\* all updates of all attempts are counted and no profile leaves the bounds.
Attempts(s) == Cardinality({d \in {s.options.damping, s.options.damping \div 2, s.options.damping \div 4,
                                   s.options.damping \div 8, s.options.damping \div 16} : d >= s.damping})
ConvergedIsEquilibrium ==
  search.status \notin {"called", "refused"} =>
    /\ ValidProfile(search.game, search.profile)
    /\ search.iterations = (Attempts(search) - 1) * search.options.maxIter + search.step
    /\ search.status = "converged" =>
         \A q \in Symmetric(search.game, Unit), role \in DOMAIN search.profile :
           search.profile[role] \in q - 4 * Threshold(search) - 8 .. q + 4 * Threshold(search) + 8
    /\ search.status = "max_iter" /\ search.options.adaptive => search.damping < 2 * search.options.least

\* Both together: the responses firms and contributors are given are best, and what the
\* iteration of them calls converged is an equilibrium.
ResponsesAsPromised == AnswersAreBest /\ ConvergedIsEquilibrium
=============================================================================
