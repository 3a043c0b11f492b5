------------------------------ MODULE SocialNet ------------------------------
(***************************************************************************)
(* Network: a graph over agents, directed or not, with a payload on every  *)
(* tie.  Ties join slots of a petgraph StableGraph, which reuses the slot  *)
(* of a removed node; an index leads from agents to slots.  The questions  *)
(* that mechanisms and metrics ask of a network are operators on it.       *)
(***************************************************************************)
EXTENDS Integers, Sequences, FiniteSets, SequencesExt, FiniteSetsExt, Functions
CONSTANTS Id, Payload,      \* agents (numbers, as they are ordered) and payloads of ties
          MaxOps            \* bound: calls made on a network

ASSUME NetAssumption == Id \subseteq Nat

VARIABLES net,      \* [directed, index, label, ties]
          ghost     \* the graph the calls describe: [nodes, ties: ends -> payload, calls]

nvars == <<net, ghost>>

EmptyNet(directed) == [directed |-> directed, index |-> << >>, label |-> << >>, ties |-> <<>>]
Tie(u, v, w) == [from |-> u, to |-> v, payload |-> w]

\* StableGraph: add_node takes a free slot, find_edge one of the ties between two slots.
FreeSlot(n) == Min((1 .. Cardinality(DOMAIN n.label) + 1) \ DOMAIN n.label)
Joins(n, e, u, v) == \/ e.from = u /\ e.to = v
                     \/ ~n.directed /\ e.from = v /\ e.to = u
Found(n, u, v) == {i \in DOMAIN n.ties : Joins(n, n.ties[i], u, v)}

AddNode(n, a) ==
  IF a \in DOMAIN n.index THEN n
  ELSE [n EXCEPT !.index = [b \in DOMAIN n.index \cup {a} |-> IF b = a THEN FreeSlot(n) ELSE n.index[b]],
                 !.label = [s \in DOMAIN n.label \cup {FreeSlot(n)} |-> IF s = FreeSlot(n) THEN a ELSE n.label[s]]]

\* add_edge_weighted: an existing tie takes the new payload; without both agents nothing.
AddTie(n, a, b, w) ==
  IF ~{a, b} \subseteq DOMAIN n.index THEN n
  ELSE LET u == n.index[a]
           v == n.index[b]
       IN  IF Found(n, u, v) = {} THEN [n EXCEPT !.ties = Append(n.ties, Tie(u, v, w))]
           ELSE [n EXCEPT !.ties[Min(Found(n, u, v))].payload = w]
RemoveTie(n, a, b) ==
  IF {a, b} \subseteq DOMAIN n.index /\ Found(n, n.index[a], n.index[b]) # {}
  THEN [n EXCEPT !.ties = RemoveAt(n.ties, Min(Found(n, n.index[a], n.index[b])))] ELSE n
KeepTies(n, a) == IF a \in DOMAIN n.index   \* mutant: the ties of a node survive it
                  THEN [n EXCEPT !.index = Restrict(n.index, DOMAIN n.index \ {a}),
                                 !.label = Restrict(n.label, DOMAIN n.label \ {n.index[a]})] ELSE n
Retained(ties, kept) ==      \* the ties of a set, in their order
  LET first[k \in 0 .. Len(ties)] ==
        IF k = 0 THEN <<>> ELSE IF ties[k] \in kept THEN Append(first[k - 1], ties[k]) ELSE first[k - 1]
  IN  first[Len(ties)]
RemoveNode(n, a) ==
  IF a \notin DOMAIN n.index THEN n
  ELSE LET s == n.index[a]
       IN  [n EXCEPT !.index = Restrict(n.index, DOMAIN n.index \ {a}),
                     !.label = Restrict(n.label, DOMAIN n.label \ {s}),
                     !.ties = Retained(n.ties, {e \in ToSet(n.ties) : s \notin {e.from, e.to}})]

\* Saved and loaded: agents in order and ties by their agents, without any slot.  Ties
\* without payload are written in canonical order, those with one as the graph has them.
Listed(S, Less(_, _)) ==
  [i \in 1 .. Cardinality(S) |-> CHOOSE x \in S : Cardinality({y \in S : Less(y, x)}) = i - 1]
Ends(n, e) == <<n.label[e.from], n.label[e.to]>>
Before(d, e) == \/ d[1] < e[1]
                \/ d[1] = e[1] /\ d[2] < e[2]
Canonical(n, e) == IF ~n.directed /\ Ends(n, e)[1] > Ends(n, e)[2] THEN <<Ends(n, e)[2], Ends(n, e)[1]>> ELSE Ends(n, e)
Saved(n) ==
  [nodes |-> Listed(DOMAIN n.index, <),
   ties  |-> IF Cardinality(Payload) > 1 THEN [i \in DOMAIN n.ties |-> Ends(n, n.ties[i]) \o <<n.ties[i].payload>>]
             ELSE Listed({Canonical(n, n.ties[i]) \o <<n.ties[i].payload>> : i \in DOMAIN n.ties}, Before)]
Loaded(directed, data) ==
  LET placed[k \in 0 .. Len(data.nodes)] ==
        IF k = 0 THEN EmptyNet(directed) ELSE AddNode(placed[k - 1], data.nodes[k])
      joined[k \in 0 .. Len(data.ties)] ==
        IF k = 0 THEN placed[Len(data.nodes)]
        ELSE AddTie(joined[k - 1], data.ties[k][1], data.ties[k][2], data.ties[k][3])
  IN  joined[Len(data.ties)]

-----------------------------------------------------------------------------
(* Queries *)

\* A tie from u leads to its other end; against its direction only if it has none.
Successors(n, u) == {e.to : e \in {d \in ToSet(n.ties) : d.from = u}}
                    \cup (IF n.directed THEN {} ELSE {e.from : e \in {d \in ToSet(n.ties) : d.to = u}})
Predecessors(n, u) == {e.from : e \in {d \in ToSet(n.ties) : d.to = u}}
                      \cup (IF n.directed THEN {} ELSE {e.to : e \in {d \in ToSet(n.ties) : d.from = u}})
Neighbors(n, a) == IF a \in DOMAIN n.index THEN {n.label[s] : s \in Successors(n, n.index[a])} ELSE {}
Either(n, u) == (Successors(n, u) \cup Predecessors(n, u)) \ (IF n.directed THEN {u} ELSE {})
Degree(n, a) == IF a \in DOMAIN n.index THEN Cardinality(Neighbors(n, a)) ELSE 0

\* Breadth first from one slot, each leading to a set of slots: those found, with the
\* round of each.
Search(n, start, next) ==
  LET round[k \in 0 .. Cardinality(DOMAIN n.label)] ==
        IF k = 0 THEN [v \in {start} |-> 0]
        ELSE LET found == round[k - 1]
                 new   == (UNION {next[u] : u \in {v \in DOMAIN found : found[v] = k - 1}}) \ DOMAIN found
             IN  [v \in DOMAIN found \cup new |-> IF v \in new THEN k ELSE found[v]]
  IN  round[Cardinality(DOMAIN n.label)]
Spread(n, start, next) == DOMAIN Search(n, start, next)

\* component_membership: labels in the order of the smallest agents, ties either way.
Numbered(n, reached) ==
  LET parts == {{n.label[s] : s \in reached[n.index[a]]} : a \in DOMAIN n.index}
  IN  [a \in DOMAIN n.index |-> Cardinality({P \in parts : \E Q \in parts : a \in Q /\ Min(P) < Min(Q)})]
ComponentMembership(n) ==
  Numbered(n, [s \in DOMAIN n.label |-> Spread(n, s, [u \in DOMAIN n.label |-> Either(n, u)])])
ConnectedComponents(n) == Cardinality(Range(ComponentMembership(n)))

\* reachable_from: along the ties whose payload is allowed.
ReachableFrom(n, seed, allowed) ==
  IF seed \notin DOMAIN n.index THEN {}
  ELSE LET m == [n EXCEPT !.ties = Retained(n.ties, {e \in ToSet(n.ties) : e.payload \in allowed})]
       IN  {n.label[s] : s \in Spread(n, n.index[seed], [u \in DOMAIN n.label |-> Successors(m, u)])}

\* bfs_distances and the sum and the number of the distances they average.
Distances(n, u) == Search(n, u, [v \in DOMAIN n.label |-> Successors(n, v)])
PathLengths(n) ==
  [total |-> SumFunction([u \in DOMAIN n.label |-> SumFunction(Distances(n, u))]),
   pairs |-> SumFunction([u \in DOMAIN n.label |-> Cardinality(DOMAIN Distances(n, u) \ {u})])]

Adjacent(n, u, v) == Found(n, u, v) # {} \/ Found(n, v, u) # {}
LinksAmong(n, a) == Cardinality({p \in SUBSET Either(n, n.index[a]) :
                      \E x, y \in p : x # y /\ p = {x, y} /\ Adjacent(n, x, y)})
IsLocalBridge(n, a, b) ==
  /\ {a, b} \subseteq DOMAIN n.index /\ Adjacent(n, n.index[a], n.index[b])
  /\ (Either(n, n.index[a]) \ {n.index[b]}) \cap Either(n, n.index[b]) = {}

DegreeDistribution(n) ==
  LET top == IF n.index = << >> THEN 0 ELSE Max({Degree(n, a) : a \in DOMAIN n.index})
  IN  IF n.index = << >> THEN <<>> ELSE [d \in 0 .. top |-> Cardinality({a \in DOMAIN n.index : Degree(n, a) = d})]

-----------------------------------------------------------------------------
(* Calls on a network, and the graph they describe *)

NetInit == \E directed \in BOOLEAN : net = EmptyNet(directed) /\ ghost = [nodes |-> {}, ties |-> << >>, calls |-> 0]

Key(a, b) == IF net.directed THEN <<a, b>> ELSE <<Min({a, b}), Max({a, b})>>
Describe(nodes, ties) == /\ ghost.calls < MaxOps
                         /\ ghost' = [nodes |-> nodes, ties |-> ties, calls |-> ghost.calls + 1]

CallAddNode(a) == net' = AddNode(net, a) /\ Describe(ghost.nodes \cup {a}, ghost.ties)
CallAddEdge(a, b, w) ==
  /\ net' = AddTie(net, a, b, w)
  /\ Describe(ghost.nodes,
       IF {a, b} \subseteq ghost.nodes
       THEN [k \in DOMAIN ghost.ties \cup {Key(a, b)} |-> IF k = Key(a, b) THEN w ELSE ghost.ties[k]]
       ELSE ghost.ties)
CallRemoveEdge(a, b) == /\ net' = RemoveTie(net, a, b)
                        /\ Describe(ghost.nodes, Restrict(ghost.ties, DOMAIN ghost.ties \ {Key(a, b)}))
CallRemoveNode(a) == /\ net' = RemoveNode(net, a)
                     /\ Describe(ghost.nodes \ {a}, Restrict(ghost.ties, {k \in DOMAIN ghost.ties : a \notin {k[1], k[2]}}))
Reload == net' = Loaded(net.directed, Saved(net)) /\ Describe(ghost.nodes, ghost.ties)

NetNext == \/ Reload
           \/ \E a \in Id : \/ CallAddNode(a) \/ CallRemoveNode(a)
                            \/ \E b \in Id : CallRemoveEdge(a, b) \/ \E w \in Payload : CallAddEdge(a, b, w)
NetSpec == NetInit /\ [][NetNext]_nvars

-----------------------------------------------------------------------------
(* Properties *)

\* However calls are mixed, slots are reused and networks are saved and loaded, the
\* network is the graph that the calls describe: the index and the labels are inverse,
\* a tie joins two agents that are there, no two agents are joined twice, and the
\* payload is the one last given.  In particular an agent that left and came back,
\* maybe into the slot of another, has none of the old ties.
TiesAreOfMembers ==
  /\ DOMAIN net.index = ghost.nodes
  /\ \A a \in ghost.nodes : net.index[a] \in DOMAIN net.label /\ net.label[net.index[a]] = a
  /\ Cardinality(DOMAIN net.label) = Cardinality(ghost.nodes)
  /\ Len(net.ties) = Cardinality(DOMAIN ghost.ties)
  /\ \A i \in DOMAIN net.ties :
       /\ {net.ties[i].from, net.ties[i].to} \subseteq DOMAIN net.label
       /\ LET k == Key(Ends(net, net.ties[i])[1], Ends(net, net.ties[i])[2])
          IN  k \in DOMAIN ghost.ties /\ ghost.ties[k] = net.ties[i].payload

\* A set of agents that no tie leaves separates those inside from those outside.
Separates(n, S, allowed) ==
  \A i \in DOMAIN n.ties : n.ties[i].payload \in allowed =>
     /\ Ends(n, n.ties[i])[1] \in S => Ends(n, n.ties[i])[2] \in S
     /\ ~n.directed => (Ends(n, n.ties[i])[2] \in S => Ends(n, n.ties[i])[1] \in S)
Loopless(n) == \A i \in DOMAIN n.ties : n.ties[i].from # n.ties[i].to
Touch(n, a, b) == Adjacent(n, n.index[a], n.index[b])

\* The searches agree with the definitions: an agent is reached exactly if no set of
\* agents separates it; two agents are in one component exactly if no set separates
\* them when directions are ignored, and labels follow the smallest agents; a local
\* bridge is a tie in no triangle, the links among neighbours count every triangle
\* three times, and every tie adds one to a degree at each end.
AnalysisExact ==
  LET agents == DOMAIN net.index
      closed(n, allowed) == {S \in SUBSET agents : Separates(n, S, allowed)}
  IN  /\ \A allowed \in {Payload} \cup {{w} : w \in Payload} :
           LET sets == closed(net, allowed)
           IN  \A a \in agents : ReachableFrom(net, a, allowed) = {b \in agents : \A S \in sets : a \in S => b \in S}
      /\ LET sets == closed([net EXCEPT !.directed = FALSE], Payload)
         IN  \A comp \in {ComponentMembership(net)} : \A a, b \in agents :
               /\ comp[a] = comp[b] <=> \A S \in sets : a \in S => b \in S
               /\ a < b /\ comp[b] \notin {comp[c] : c \in {d \in agents : d < b}} => comp[a] < comp[b]
      /\ Range(ComponentMembership(net)) = 0 .. ConnectedComponents(net) - 1
      /\ Loopless(net) =>
           LET triangles == {T \in SUBSET agents : Cardinality(T) = 3 /\ \A a, b \in T : a # b => Touch(net, a, b)}
           IN  /\ \A a, b \in agents : a # b =>
                    (IsLocalBridge(net, a, b) <=> Touch(net, a, b) /\ ~\E T \in triangles : {a, b} \subseteq T)
               /\ SumFunction([a \in agents |-> LinksAmong(net, a)]) = 3 * Cardinality(triangles)
               /\ SumFunction([a \in agents |-> Degree(net, a)])
                    = Len(net.ties) * (IF net.directed THEN 1 ELSE 2)
               /\ net.index # << >> =>
                    SumFunction([d \in DOMAIN DegreeDistribution(net) |-> d * DegreeDistribution(net)[d]])
                      = Len(net.ties) * (IF net.directed THEN 1 ELSE 2)
      /\ PathLengths(net).pairs
           = Cardinality({p \in agents \X agents : p[1] # p[2] /\ p[2] \in ReachableFrom(net, p[1], Payload)})

\* Both together: calls leave the graph they describe, and questions about it are
\* answered as the graph is.
NetworkAsCalled == TiesAreOfMembers /\ AnalysisExact
=============================================================================
