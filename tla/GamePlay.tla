------------------------------- MODULE GamePlay -------------------------------
(***************************************************************************)
(* What a step of a game world computes, as functions: who meets whom      *)
(* (matchings), what the meetings pay (outcome kernels), and whom an agent *)
(* copies (population kernels).  Agents are the ids 1 .. NAgents in the    *)
(* order of the code's AgentIds; payoffs are integers, multiplied by Scale *)
(* so that every mean of at most three encounters is exact.                *)
(***************************************************************************)
EXTENDS Integers, Sequences, FiniteSets, SequencesExt, FiniteSetsExt
CONSTANT NAgents
ASSUME NAgentsAssumption == NAgents \in Nat \ {0}

Agent  == 1 .. NAgents
Action == {0, 1}
NoAct  == -1                      \* a seat nobody has filled yet
Scale  == 6

Ascending(S) == SelectSeq([i \in 1 .. Max(S \cup {0}) |-> i], LAMBDA i : i \in S)
Total(s) == LET upTo[k \in 0 .. Len(s)] == IF k = 0 THEN 0 ELSE upTo[k - 1] + s[k] IN upTo[Len(s)]
PairsInOrder(S) == SelectSeq([k \in 1 .. NAgents * NAgents |-> <<((k - 1) \div NAgents) + 1, ((k - 1) % NAgents) + 1>>],
                             LAMBDA p : p \in S)

-----------------------------------------------------------------------------
(* Topologies: the tables built once from the graph or the grid.           *)

NoTopology == [kind |-> "none", nbrs |-> [a \in Agent |-> <<>>], edges |-> <<>>]

\* Undirected links are stored with the smaller end first; directed ones as given.
Network(links, directed) ==
  LET ends == IF directed THEN links ELSE {IF l[1] <= l[2] THEN l ELSE <<l[2], l[1]>> : l \in links}
  IN  [kind  |-> "net",
       nbrs  |-> [a \in Agent |->
                    Ascending({b \in Agent : <<a, b>> \in ends \/ (~directed /\ <<b, a>> \in ends)})],
       edges |-> PairsInOrder(ends)]

\* The edges at agent a, by position; a self-loop would count once.
Incident(top, a) ==
  LET upTo[e \in 0 .. Len(top.edges)] ==
        IF e = 0 THEN <<>>
        ELSE IF a \in {top.edges[e][1], top.edges[e][2]} THEN Append(upTo[e - 1], e) ELSE upTo[e - 1]
  IN  upTo[Len(top.edges)]

ValidNetwork(top) == \A e \in DOMAIN top.edges : top.edges[e][1] # top.edges[e][2]

Grid(nbrs) == [kind |-> "grid", nbrs |-> nbrs, edges |-> <<>>]

-----------------------------------------------------------------------------
(* Matchings.  An encounter is a seat per role and a credit: whether every *)
(* seat or only the centre's, the first, is paid.                          *)

Meet(seats) == [seats |-> seats, credit |-> "all"]
Centre(a, b) == [seats |-> <<a, b>>, credit |-> "center"]

MatchingCheck(m, roles, top, scope) ==
  CASE m.kind = "round_robin" -> /\ roles = 2
                                 /\ ~(scope = "step" /\ (NAgents >= 3 \/ m.both))
    [] m.kind = "grid"        -> roles = 2 /\ top.kind = "grid"
    [] m.kind = "net"         -> roles = 2 /\ top.kind = "net"
    [] m.kind = "fixed"       -> /\ roles = 2
                                 /\ LET s == FlattenSeq(m.pairs)
                                    IN  IsInjective(s) /\ \A i \in DOMAIN s : s[i] \in Agent
    [] m.kind = "groups"      -> roles = m.k /\ m.k >= 2
    [] m.kind = "whole"       -> roles = NAgents
    [] OTHER                  -> roles = 2

\* The sequences of agents a shuffle can leave in the chunks of size k.
Chunks(k, p) == [c \in 1 .. Len(p) \div k |-> SubSeq(p, (c - 1) * k + 1, c * k)]
Shuffles == {p \in [1 .. NAgents -> Agent] : IsInjective(p)}

RoundRobin(both) ==
  LET pairs == PairsInOrder({p \in Agent \X Agent : p[1] < p[2]})
  IN  FlattenSeq([i \in DOMAIN pairs |->
        IF both THEN <<Meet(pairs[i]), Meet(<<pairs[i][2], pairs[i][1]>>)>> ELSE <<Meet(pairs[i])>>])

AroundCentre(top, self, a) ==
  [i \in DOMAIN top.nbrs[a] |-> Centre(a, top.nbrs[a][i])] \o (IF self THEN <<Centre(a, a)>> ELSE <<>>)
AroundCentres(top, self) ==
  LET upTo[a \in 0 .. NAgents] == IF a = 0 THEN <<>> ELSE upTo[a - 1] \o AroundCentre(top, self, a)
  IN  upTo[NAgents]

Everybody == [i \in 1 .. NAgents |-> i]

\* Every encounter list encounters_into may write in one step.
Encounters(m, top) ==
  CASE m.kind = "pairs"       -> {[c \in DOMAIN Chunks(2, p) |-> Meet(Chunks(2, p)[c])] : p \in Shuffles}
    [] m.kind = "groups"      -> {[c \in DOMAIN Chunks(m.k, p) |-> Meet(Chunks(m.k, p)[c])] : p \in Shuffles}
    [] m.kind = "round_robin" -> {RoundRobin(m.both)}
    [] m.kind = "fixed"       -> {[i \in DOMAIN m.pairs |-> Meet(m.pairs[i])]}
    [] m.kind = "net"         -> {[e \in DOMAIN top.edges |-> Meet(top.edges[e])]}
    [] m.kind = "grid"        -> {AroundCentres(top, m.self)}
    [] m.kind = "whole"       -> {<<Meet(Everybody)>>}
    [] m.kind = "custom"      -> m.lists            \* a user's Matching

\* Matchings that answer implicit(), and those whose agents may sit in several roles.
Implicit(m)  == m.kind \in {"net", "grid", "whole"}
MultiRole(m) == m.kind \in {"net", "grid"}

\* encounter_bounds: how often an agent plays in a step, where the matching says.
NoBounds == [min |-> 0, max |-> -1]
AlwaysSeated(m, top) == [min |-> 1, max |-> 1]   \* mutant: nobody is ever left over
Bounds(m, top) ==
  LET degree == [a \in Agent |-> Len(top.nbrs[a]) + (IF m.kind = "grid" /\ m.self THEN 1 ELSE 0)]
      atEdge == [a \in Agent |-> Len(Incident(top, a))]
  IN  CASE m.kind = "pairs"  -> [min |-> IF NAgents % 2 = 0 THEN 1 ELSE 0, max |-> 1]
        [] m.kind = "groups" -> [min |-> IF NAgents % m.k = 0 THEN 1 ELSE 0, max |-> 1]
        [] m.kind = "grid"   -> [min |-> Min({degree[a] : a \in Agent}), max |-> Max({degree[a] : a \in Agent})]
        [] m.kind = "net"    -> [min |-> Min({atEdge[a] : a \in Agent}), max |-> Max({atEdge[a] : a \in Agent})]
        [] m.kind = "whole"  -> [min |-> 1, max |-> 1]
        [] OTHER             -> NoBounds

-----------------------------------------------------------------------------
(* Outcome kernels.  A game is symmetric: pay[x][k] is what a seat that    *)
(* plays x gets when k of the other seats of the encounter play 1.         *)

CountOf(x, acts) == Cardinality({r \in DOMAIN acts : acts[r] = x})

NormalForm(game, acts) ==
  [r \in DOMAIN acts |-> game.pay[acts[r]][Cardinality({q \in DOMAIN acts \ {r} : acts[q] = 1})]]

\* CountingScratch: one payoff per action that is played, with its own player taken out.
CountingPayoffs(game, acts) ==
  LET counts   == [x \in Action |-> CountOf(x, acts)]
      others(x) == [counts EXCEPT ![x] = counts[x] - 1]
      byAction == [x \in {y \in Action : counts[y] > 0} |-> game.pay[x][others(x)[1]]]
  IN  [r \in DOMAIN acts |-> byAction[acts[r]]]

SeatPayoffs(game, play, acts) == IF play = "counting" THEN CountingPayoffs(game, acts) ELSE NormalForm(game, acts)

Credited(e) == IF e.credit = "all" THEN DOMAIN e.seats ELSE {1}
PaidSeats(e, a) == {r \in Credited(e) : e.seats[r] = a}
SeatSum(pays, seats) == Total([r \in DOMAIN pays |-> IF r \in seats THEN pays[r] ELSE 0])

\* One encounter credited to the running totals; the same agent may sit in two seats.
NoPay == [pay |-> [a \in Agent |-> 0], n |-> [a \in Agent |-> 0]]
Credit(acc, e, pays) ==
  [pay |-> [a \in Agent |-> acc.pay[a] + Scale * SeatSum(pays, PaidSeats(e, a))],
   n   |-> [a \in Agent |-> acc.n[a] + Cardinality(PaidSeats(e, a))]]

\* aggregate_mean: only agents that played are divided.
Averaged(agg, acc) ==
  IF agg = "sum" THEN acc
  ELSE [acc EXCEPT !.pay = [a \in Agent |-> IF acc.n[a] = 0 THEN acc.pay[a] ELSE acc.pay[a] \div acc.n[a]]]

Seated(held, e) == [r \in DOMAIN e.seats |-> held[e.seats[r]]]

\* for_each_implicit: the encounters of a step in which everybody holds an action.
Played(acc0, game, play, es, acts) ==
  LET upTo[k \in 0 .. Len(es)] ==
        IF k = 0 THEN acc0 ELSE Credit(upTo[k - 1], es[k], SeatPayoffs(game, play, acts[k]))
  IN  upTo[Len(es)]
ImplicitFrom(acc0, game, play, agg, m, top, held) ==
  LET es == CHOOSE l \in Encounters(m, top) : TRUE
  IN  Averaged(agg, Played(acc0, game, play, es, [i \in DOMAIN es |-> Seated(held, es[i])]))

\* run_whole_population and any play of a whole profile: from zero.
ImplicitPayoffs(game, play, agg, m, top, held) == ImplicitFrom(NoPay, game, play, agg, m, top, held)

\* for_each_local_implicit: the encounters that credit agent a, with its role in each.
LocalEncounters(m, top, a) ==
  CASE m.kind = "grid"  -> LET around == AroundCentre(top, m.self, a)
                           IN  [i \in DOMAIN around |-> [seats |-> around[i].seats, role |-> 1]]
    [] m.kind = "net"   -> LET inc == Incident(top, a)
                           IN  [i \in DOMAIN inc |->
                                  [seats |-> top.edges[inc[i]],
                                   role  |-> IF top.edges[inc[i]][2] = a THEN 2 ELSE 1]]
    [] m.kind = "whole" -> <<[seats |-> Everybody, role |-> CHOOSE r \in DOMAIN Everybody : Everybody[r] = a]>>

\* local_payoff_pairwise, local_payoff_counting.
LocalPayoff(game, play, agg, m, top, held, a) ==
  LET es    == LocalEncounters(m, top, a)
      total == Scale * Total([i \in DOMAIN es |-> SeatPayoffs(game, play, Seated(held, es[i]))[es[i].role]])
  IN  IF agg = "mean" /\ Len(es) > 0 THEN total \div Len(es) ELSE total

-----------------------------------------------------------------------------
(* Payoff ranges, from which an update accepts or refuses its parameters.  *)

\* finite_payoff_range and anonymous_payoff_range: over every profile of a single encounter.
SingleRange(game) ==
  LET pays == {Scale * game.pay[x][k] : x \in Action, k \in 0 .. game.roles - 1}
  IN  [low |-> Min(pays), high |-> Max(pays)]

WithZero(range, fewest) ==
  IF fewest = 0 THEN [low |-> Min({range.low, 0}), high |-> Max({range.high, 0})] ELSE range

\* step_payoff_range; a summed payoff without bounds is refused by the caller.
Ends(single, bounds) == {c * p : c \in {bounds.min, bounds.max}, p \in {single.low, single.high}}
StepRange(single, bounds, agg) ==
  IF agg = "sum"
  THEN LET ends == Ends(single, bounds)
       IN  WithZero([low |-> Min(ends), high |-> Max(ends)], bounds.min)
  ELSE WithZero(single, IF bounds = NoBounds THEN 0 ELSE bounds.min)

-----------------------------------------------------------------------------
(* Population kernels: whom agent a may copy, given everybody's payoffs.   *)
(* A source of a itself stands for None: it keeps its action.              *)

\* comparison_partner: a random neighbour, or anybody else without a topology.
Partners(top, a) == IF top.kind = "none" THEN Agent \ {a} ELSE ToSet(top.nbrs[a])

\* The first of the best-paid neighbours with the lowest action; in a tie with
\* its own payoff an agent keeps its action or joins that comparison.
BestSource(top, held, pay, a, tie) ==
  LET near   == ToSet(top.nbrs[a])
      best   == Max({pay[b] : b \in near \cup {a}})
      ownTop == pay[a] = best
      tied   == {b \in near : pay[b] = best} \cup (IF ownTop THEN {a} ELSE {})
      lowest == {b \in tied : \A c \in tied : held[b] <= held[c]}
  IN  IF (ownTop /\ tie = "keep") \/ a \in lowest THEN a
      ELSE CHOOSE b \in lowest : \A c \in lowest : b <= c

Sources(upd, top, held, pay, a) ==
  CASE upd.rule = "best"         -> {BestSource(top, held, pay, a, upd.tie)}
    [] upd.rule = "fermi"        -> {a} \cup Partners(top, a)
    [] upd.rule = "proportional" -> {a} \cup {b \in Partners(top, a) : pay[b] > pay[a]}

\* Linear fitness with w = 1: the weight is the payoff itself.
Weight(pay, a) == pay[a]

\* The checks of each update at assembly.  Beta is the largest that the range allows.
UpdateCheck(upd, game, m, top, agg, play) ==
  LET bounds   == Bounds(m, top)
      bounded  == agg = "mean" \/ bounds # NoBounds
      lowest   == StepRange(SingleRange(game), bounds, agg).low
  IN  CASE upd.rule = "best"         -> top.kind # "none"
        [] upd.rule = "fermi"        -> TRUE
        [] upd.rule = "proportional" -> bounded
        [] upd.rule = "moran"        -> top.kind = "none" /\ bounded /\ lowest > 0
        [] OTHER                     -> TRUE
=============================================================================
