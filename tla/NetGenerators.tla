---------------------------- MODULE NetGenerators ----------------------------
(***************************************************************************)
(* The random network models: Erdos-Renyi, Watts-Strogatz and preferential *)
(* attachment, and directions for an undirected network.  A generator asks *)
(* a random stream; here every answer the stream can give is a choice.     *)
(***************************************************************************)
EXTENDS SocialNet
CONSTANTS Sizes, Degrees,    \* numbers of agents, and the k and m asked for
          MaxPairs, MaxTies  \* bounds: pairs of a random graph, ties given a direction

ASSUME GenAssumption == Sizes \subseteq Nat /\ Degrees \subseteq Nat /\ Payload # {}

VARIABLE build    \* the generator at work: [kind, n, m, at, weights, base]
gvars == <<net, ghost, build>>

Unit == CHOOSE w \in Payload : TRUE
Idle == [kind |-> "none", n |-> 0, m |-> 0, at |-> 0, weights |-> << >>, base |-> <<>>]
Roster(n) == [i \in 1 .. n |-> i]
Made(directed, n, pairs) ==      \* add_node for all agents, then add_edge for all pairs
  Loaded(directed, [nodes |-> Roster(n), ties |-> [i \in DOMAIN pairs |-> <<pairs[i][1], pairs[i][2], Unit>>]])

\* What the ghost says of a generated network is what the network says, once.
Description(n) ==
  LET key(e) == IF n.directed THEN Ends(n, e) ELSE Canonical(n, e)
  IN  [nodes |-> DOMAIN n.index, calls |-> MaxOps,
       ties |-> [k \in {key(n.ties[i]) : i \in DOMAIN n.ties} |-> Unit]]
Build(n, b) == net' = n /\ build' = b /\ ghost' = Description(n)

\* erdos_renyi: each pair, or each ordered pair, by itself.
Pairs(n, directed) == {p \in (1 .. n) \X (1 .. n) : p[1] # p[2] /\ (directed \/ p[1] < p[2])}
ErdosRenyi(n, directed) ==
  /\ build.kind = "none" /\ Cardinality(Pairs(n, directed)) <= MaxPairs
  /\ \E chosen \in SUBSET Pairs(n, directed) :
       Build(Made(directed, n, Listed(chosen, Before)), [Idle EXCEPT !.kind = "erdos_renyi", !.n = n])

\* watts_strogatz: a ring, each agent tied to the next k / 2, at least to the next one.
HalfK(n, k) == Max({Min({k, Max({n - 1, 0})}) \div 2, 1})
After(i, d, n) == ((i - 1 + d) % n) + 1
RingPairs(n, half) == [j \in 1 .. n * half |->
  LET i == (j - 1) \div half + 1  d == ((j - 1) % half) + 1 IN <<i, After(i, d, n)>>]
WattsStrogatz(n, k) ==
  /\ build.kind = "none"
  /\ Build(Made(FALSE, n, RingPairs(n, HalfK(n, k))),
           [Idle EXCEPT !.kind = "watts_strogatz", !.n = n, !.m = HalfK(n, k), !.at = 1])

\* One tie of the ring, if it is still there, to anybody the agent is not tied to; or it
\* stays, because the draw says so or no such agent was drawn in 2n + 10 tries.
Rewired(n, i, u, v) == [n EXCEPT !.ties = Append(RemoveAt(n.ties, i), Tie(u, v, Unit))]
AnyTarget(u, v) == u # v         \* mutant: a tie is moved onto one that exists
FreeTarget(u, v) == u # v /\ Found(net, u, v) = {}
Rewire ==
  /\ build.kind = "watts_strogatz" /\ build.at <= build.n * build.m
  /\ LET p == RingPairs(build.n, build.m)[build.at]
         u == net.index[p[1]]
         at == Found(net, u, net.index[p[2]])
         next == [build EXCEPT !.at = build.at + 1]
     IN  \/ Build(net, next)
         \/ /\ at # {}
            /\ \E v \in DOMAIN net.label : FreeTarget(u, v) /\ Build(Rewired(net, Min(at), u, v), next)

\* FenwickTree: sums over blocks of slots, so that a weight is set and a prefix sum is
\* searched for in a logarithm of steps.
LowBit(i) == LET low[k \in 1 .. i] == IF k % 2 = 1 THEN 1 ELSE 2 * low[k \div 2] IN low[i]
NewTree(n) == [tree |-> [i \in 1 .. n |-> 0], values |-> [i \in 1 .. n |-> 0]]
Blocks(n, s) ==              \* the sums that hold slot s
  LET up[k \in 0 .. n] == IF k = 0 THEN s ELSE IF up[k - 1] > n THEN up[k - 1] ELSE up[k - 1] + LowBit(up[k - 1])
  IN  {up[k] : k \in 0 .. n}
SetWeight(f, s, w) ==
  [tree |-> [i \in DOMAIN f.tree |-> f.tree[i] + (IF i \in Blocks(Len(f.values), s) THEN w - f.values[s] ELSE 0)],
   values |-> [f.values EXCEPT ![s] = w]]
Total(f) ==
  LET n == Len(f.values)
      down[k \in 0 .. n] ==
        IF k = 0 THEN [at |-> n, sum |-> 0]
        ELSE LET d == down[k - 1] IN IF d.at = 0 THEN d ELSE [at |-> d.at - LowBit(d.at), sum |-> d.sum + f.tree[d.at]]
  IN  down[n].sum
TopStep(n) ==                \* the largest step that fits, by doubling
  LET grow[k \in 0 .. n] == IF k = 0 THEN 1 ELSE IF grow[k - 1] <= n \div 2 THEN 2 * grow[k - 1] ELSE grow[k - 1] IN grow[n]
FirstPrefixGreaterThan(f, r) ==
  LET n == Len(f.values)
      walk[k \in 0 .. n] ==
        IF k = 0 THEN [step |-> TopStep(n), at |-> 0, prefix |-> 0]
        ELSE LET d == walk[k - 1]
                 next == d.at + d.step
             IN  IF d.step > 0 /\ next <= n /\ d.prefix + f.tree[next] <= r
                 THEN [step |-> d.step \div 2, at |-> next, prefix |-> d.prefix + f.tree[next]]
                 ELSE [d EXCEPT !.step = @ \div 2]
  IN  walk[n].at + 1

\* barabasi_albert: a clique, then one agent after another, each tied to up to m others
\* drawn by degree plus one, by the degree towards the agent if ties have a direction.
Attractiveness(n, s) == 1 + Cardinality({i \in DOMAIN n.ties : n.ties[i].to = s \/ (~n.directed /\ n.ties[i].from = s)})
SetWeights(f, n, slots) ==
  LET done[k \in 0 .. Len(slots)] ==
        IF k = 0 THEN f ELSE SetWeight(done[k - 1], slots[k], Attractiveness(n, slots[k]))
  IN  done[Len(slots)]
Clique(n, directed) == Listed(Pairs(n, directed), Before)
BarabasiAlbert(n, m0, directed) ==
  LET m == Max({1, Min({m0, Max({n - 1, 1})})})
      seed == Min({m + 1, n})
      clique == Made(directed, seed, Clique(seed, directed))
  IN  /\ build.kind = "none"
      /\ Build(clique, [Idle EXCEPT !.kind = "barabasi_albert", !.n = n, !.m = m,
                          !.weights = SetWeights(NewTree(n), clique, Roster(seed))])

\* The draws for one newcomer may run out before it has m ties.
Stale(f, n, chosen, s) == SetWeights(f, n, <<s>>)   \* mutant: those who gain a tie keep their weight
Reweighed(f, n, chosen, s) == SetWeights(f, n, chosen \o <<s>>)
Attach ==
  /\ build.kind = "barabasi_albert" /\ Cardinality(DOMAIN net.index) < build.n
  /\ LET a == Cardinality(DOMAIN net.index) + 1
         joined == AddNode(net, a)
         s == joined.index[a]
         f == SetWeight(build.weights, s, 0)
         drawn == {FirstPrefixGreaterThan(f, r) : r \in 0 .. Total(f) - 1}
     IN  \E k \in 0 .. Min({build.m, a - 1}) : \E chosen \in Injection(1 .. k, drawn) :
           LET tied == [joined EXCEPT !.ties = @ \o [i \in 1 .. k |-> Tie(s, chosen[i], Unit)]]
           IN  Build(tied, [build EXCEPT !.weights = Reweighed(f, tied, chosen, s)])

\* to_directed: each tie in one direction or in both.
Pointed(n, p, way) ==
  CASE way = "both"    -> AddTie(AddTie(n, p[1], p[2], Unit), p[2], p[1], Unit)
    [] way = "along"   -> AddTie(n, p[1], p[2], Unit)
    [] way = "against" -> AddTie(n, p[2], p[1], Unit)
Given(n, ties, way) ==
  LET given[i \in 0 .. Len(ties)] == IF i = 0 THEN n ELSE Pointed(given[i - 1], ties[i], way[i])
  IN  given[Len(ties)]
ToDirected ==
  /\ build.kind \in {"watts_strogatz", "erdos_renyi"} /\ ~net.directed /\ Len(net.ties) <= MaxTies
  /\ LET ties == Listed({Canonical(net, net.ties[i]) : i \in DOMAIN net.ties}, Before)
         start == Loaded(TRUE, [nodes |-> Listed(DOMAIN net.index, <), ties |-> <<>>])
     IN  \E way \in [DOMAIN ties -> {"both", "along", "against"}] :
           Build(Given(start, ties, way), [Idle EXCEPT !.kind = "to_directed", !.n = build.n, !.base = ties])

GenInit == build = Idle
GenNext == \/ \E n \in Sizes : \/ \E directed \in BOOLEAN : ErdosRenyi(n, directed)
                               \/ \E k \in Degrees : \/ WattsStrogatz(n, k)
                                                     \/ \E directed \in BOOLEAN : BarabasiAlbert(n, k, directed)
           \/ Rewire \/ Attach \/ ToDirected
GenSpec == NetInit /\ GenInit /\ [][GenNext]_gvars

-----------------------------------------------------------------------------
(* Properties *)

\* What a generator promises of its network, whatever the stream draws.  Rewiring keeps
\* the number of ties, joins nobody twice, and leaves every agent k / 2 ties.  Newcomers
\* are drawn by what attracts them now: after any number of them, every draw below the
\* total finds in the tree of block sums the slot that a walk over the degrees finds, and
\* the total is their sum.  Directions change no tie into another.
GeneratedAsPromised ==
  /\ build.kind # "none" => DOMAIN net.index \subseteq 1 .. build.n
  /\ \A i, j \in DOMAIN net.ties : i # j /\ build.kind # "none" => ~Joins(net, net.ties[i], net.ties[j].from, net.ties[j].to)
  /\ build.kind = "watts_strogatz" =>
       /\ Len(net.ties) = Cardinality({{p[1], p[2]} : p \in Range(RingPairs(build.n, build.m))})
       /\ build.n > 1 => Loopless(net)
       /\ build.n > 2 * build.m => \A a \in DOMAIN net.index : Degree(net, a) >= build.m
  /\ build.kind = "barabasi_albert" =>
       LET f == build.weights
           weight(s) == IF s \in DOMAIN net.label THEN Attractiveness(net, s) ELSE 0
           walk(r) == Min({s \in 1 .. build.n : SumFunction([t \in 1 .. s |-> weight(t)]) > r})
       IN  /\ Loopless(net)
           /\ Total(f) = SumFunction([t \in 1 .. build.n |-> weight(t)])
           /\ \A r \in 0 .. Total(f) - 1 : FirstPrefixGreaterThan(f, r) = walk(r)
  /\ build.kind = "to_directed" =>
       /\ \A i \in DOMAIN net.ties : \E p \in Range(build.base) : {p[1], p[2]} = {Ends(net, net.ties[i])[1], Ends(net, net.ties[i])[2]}
       /\ \A p \in Range(build.base) : Touch(net, p[1], p[2])
=============================================================================
