----------------------------- MODULE MCGameStep -----------------------------
(* Three agents in one assembly per question that the properties ask, each run to its own t_max. *)
EXTENDS GameStep

\* Two and three roles; in Dilemma and Commons every payoff is positive, so that an
\* idle agent is below all of them; in Meeting those who differ lose.
Dilemma == [roles |-> 2, pay |-> [x \in Action |-> [k \in 0 .. 1 |-> IF x = 1 THEN 1 + (2 * k) ELSE 2 + (2 * k)]]]
Meeting == [roles |-> 2, pay |-> [x \in Action |-> [k \in 0 .. 1 |-> IF x = k THEN 1 ELSE -1]]]
Commons == [roles |-> 3, pay |-> [x \in Action |-> [k \in 0 .. 2 |-> (2 * k) + 2 - x]]]

Line     == Network({<<1, 2>>, <<3, 2>>}, FALSE)
Arrows   == Network({<<1, 2>>, <<2, 3>>, <<3, 1>>}, TRUE)
Row      == Grid(<< <<2>>, <<1, 3>>, <<2>> >>)

Matched(kind) == [kind |-> kind, both |-> FALSE, self |-> FALSE, k |-> 3, pairs |-> <<>>, lists |-> {}]
RoundRobinBoth == [Matched("round_robin") EXCEPT !.both = TRUE]
GridWithSelf   == [Matched("grid") EXCEPT !.self = TRUE]
Twosome        == [Matched("fixed") EXCEPT !.pairs = << <<3, 1>> >>]
\* A user's matching: sometimes nobody meets, and one list seats 2 in both roles.
Users == [Matched("custom") EXCEPT !.lists = {<<>>, <<Meet(<<1, 2>>)>>, <<Meet(<<1, 2>>), Meet(<<2, 3>>)>>}]

Nothing       == [mode |-> "none", rule |-> "none"]
Upd(md, rule) == [mode |-> md, rule |-> rule, tie |-> "keep", activation |-> "order", mutates |-> TRUE]
Asm(m, game, top, scope, rules, upd) ==
  [matching |-> m, game |-> game, top |-> top, scope |-> scope, rules |-> rules, update |-> upd,
   agg |-> "sum", play |-> "pairwise", materialize |-> FALSE, t_max |-> 3]

Base == Asm(Matched("pairs"), Dilemma, NoTopology, "step", {}, Nothing)
MCAssemblies ==
  {[Base EXCEPT !.rules = {2}],
   [Base EXCEPT !.matching = RoundRobinBoth, !.scope = "role", !.rules = {2}, !.agg = "mean"],
   [Base EXCEPT !.matching = Twosome, !.scope = "encounter", !.rules = {1, 3}],
   [Base EXCEPT !.matching = Users, !.rules = {2}, !.t_max = 5],
   [Base EXCEPT !.matching = GridWithSelf, !.top = Row, !.rules = {2}, !.agg = "mean", !.t_max = 4],
   [Base EXCEPT !.matching = Matched("groups"), !.game = Commons, !.rules = {2}, !.t_max = 2],
   [Base EXCEPT !.matching = Matched("whole"), !.game = Commons, !.materialize = TRUE, !.update = Upd("sync", "moran")],
   [Base EXCEPT !.matching = Matched("pairs"), !.agg = "mean", !.update = Upd("sync", "moran")],
   [Base EXCEPT !.matching = Matched("pairs"), !.update = Upd("sync", "proportional"), !.t_max = 2],
   [Base EXCEPT !.matching = Matched("net"), !.top = Line, !.update = Upd("sync", "best")],
   [Base EXCEPT !.matching = Matched("grid"), !.top = Row, !.agg = "mean", !.t_max = 4,
                !.update = [Upd("async", "best") EXCEPT !.tie = "lowest"]],
   [Base EXCEPT !.matching = Matched("net"), !.top = Arrows, !.update = Upd("async", "fermi")],
   [Base EXCEPT !.matching = Matched("net"), !.game = Meeting, !.top = Line, !.t_max = 4,
                !.update = [Upd("async", "proportional") EXCEPT !.activation = "uniform"]],
   [Base EXCEPT !.matching = Matched("whole"), !.game = Commons, !.top = Line, !.play = "counting", !.t_max = 4,
                !.update = Upd("async", "proportional")]}
=============================================================================
