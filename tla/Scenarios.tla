------------------------------ MODULE Scenarios ------------------------------
(***************************************************************************)
(* What a scenario file may say about a game simulation, and what is read  *)
(* out of it: the world and its topology, the game, the population, the    *)
(* mechanisms and the keys of the decision rules.  A value of the file is  *)
(* a pair of a type and what it holds; numbers are in twelfths, a table is *)
(* a function of its keys.  What an error says, and where it points to, is *)
(* left out: a scenario is accepted or not.                                *)
(***************************************************************************)
EXTENDS Catalog, Responses

One == 12
Amount(x) == <<"number", x>>
Word(w)   == <<"word", w>>
Toggle(b) == <<"flag", b>>
Items(l)  == <<"array", l>>
Nested(t) == <<"table", t>>
NotANumber == <<"nan">>

IsReal(v)  == v[1] = "number"
IsCount(v) == IsReal(v) /\ v[2] >= 0 /\ v[2] % One = 0
IsLabel(v) == v[1] = "word" /\ v[2] # "?"       \* "?" stands for a text no label may be
IsArray(v) == v[1] = "array"
IsReals(v) == IsArray(v) /\ \A i \in DOMAIN v[2] : IsReal(v[2][i])
InUnit(x)  == 0 <= x /\ x <= One

Said(t, k, default)   == IF k \in DOMAIN t /\ t[k][1] = "word" THEN t[k][2] ELSE default
Valued(t, k, default) == IF k \in DOMAIN t THEN t[k][2] ELSE default
SubTable(t, k)        == IF k \in DOMAIN t /\ t[k][1] = "table" THEN t[k][2] ELSE << >>
Paired(t, k, l)       == (k \in DOMAIN t) = (l \in DOMAIN t)

\* What a key is read as: a type, or one of some words.
As(keys, type)     == [k \in keys |-> <<type>>]
OneOf(keys, words) == [k \in keys |-> <<"choice", words>>]
NoKeys == As({}, "any")
Suits(v, type) == CASE type[1] = "any"    -> TRUE
                    [] type[1] = "real"   -> IsReal(v)
                    [] type[1] = "count"  -> IsCount(v)
                    [] type[1] = "label"  -> IsLabel(v)
                    [] type[1] = "choice" -> v[1] = "word" /\ v[2] \in type[2]
                    [] OTHER              -> v[1] = type[1]
\* ParamReader: what must be there and what may be, each of its type, and nothing else.
Reads(t, must, may) ==
  /\ DOMAIN must \subseteq DOMAIN t /\ DOMAIN t \subseteq DOMAIN must \cup DOMAIN may
  /\ \A k \in DOMAIN t : Suits(t[k], IF k \in DOMAIN must THEN must[k] ELSE may[k])

-----------------------------------------------------------------------------
(* [world]: how many agents, and who is next to whom.                      *)

Models == {"erdos_renyi", "watts_strogatz", "barabasi_albert"}
NetworkKeys(w) ==
  CASE Said(w, "network_model", "none") = "erdos_renyi"     -> As({"network_p"}, "real")
    [] Said(w, "network_model", "none") = "watts_strogatz"  -> As({"network_k"}, "count") @@ As({"network_beta"}, "real")
    [] Said(w, "network_model", "none") = "barabasi_albert" -> As({"network_m"}, "count")
    [] OTHER -> NoKeys
TopologyKeys(w) ==
  CASE Said(w, "topology", "none") = "grid" ->
         As({"grid_rows", "grid_cols"}, "count") @@ OneOf({"boundary"}, {"fixed", "toroidal"})
         @@ OneOf({"neighborhood"}, {"moore", "von_neumann"})
    [] Said(w, "topology", "none") = "network" -> OneOf({"network_model"}, Models) @@ NetworkKeys(w)
    [] OTHER -> NoKeys
WorldMust(w) ==
  As({"history_len"}, "count") @@ As({"game", "population"}, "table") @@ TopologyKeys(w)
  @@ (IF Said(w, "topology", "none") = "grid" THEN NoKeys ELSE As({"n_agents"}, "count"))
WorldMay == As({"n_agents"}, "count") @@ OneOf({"topology"}, {"none", "grid", "network"})

Cells2(w) == (w["grid_rows"][2] \div One) * (w["grid_cols"][2] \div One)
Agents(w) == IF Said(w, "topology", "none") = "grid" THEN Cells2(w) ELSE w["n_agents"][2] \div One
ReadGrid(w) == Cells2(w) > 0 /\ ("n_agents" \in DOMAIN w => w["n_agents"][2] = One * Cells2(w))
ReadNetwork(w) ==
  LET n == Agents(w)
      k == Valued(w, "network_k", 0) \div One
      m == Valued(w, "network_m", 0) \div One
  IN  CASE w["network_model"][2] = "erdos_renyi"     -> InUnit(w["network_p"][2])
        [] w["network_model"][2] = "watts_strogatz"  -> k % 2 = 0 /\ 2 <= k /\ k <= n - 1 /\ InUnit(w["network_beta"][2])
        [] w["network_model"][2] = "barabasi_albert" -> 1 <= m /\ m <= n - 1
ReadWorld(w) ==
  /\ Reads(w, WorldMust(w), WorldMay) /\ w["history_len"][2] > 0
  /\ Said(w, "topology", "none") = "grid" => ReadGrid(w)
  /\ Said(w, "topology", "none") = "network" => ReadNetwork(w)

\* TopologySpec::resolve: the links a generator can draw; the agents are 1 .. n.
LinksOf(n) == {l \in (1 .. n) \X (1 .. n) : l[1] < l[2]}
RingOf(n, k) == {l \in LinksOf(n) : l[2] - l[1] <= k \div 2 \/ l[1] + n - l[2] <= k \div 2}
Attached(n, m) ==
  {L \in SUBSET LinksOf(n) : /\ \A l \in LinksOf(n) : l[2] <= m + 1 => l \in L
                             /\ \A b \in m + 2 .. n : Cardinality({l \in L : l[2] = b}) \in 1 .. m}
Draws(w) ==
  LET n == Agents(w)
      p == Valued(w, "network_p", 0)
      k == Valued(w, "network_k", 0) \div One
  IN  CASE Said(w, "topology", "none") # "network" -> {{}}
        [] w["network_model"][2] = "erdos_renyi" ->
             IF p = 0 THEN {{}} ELSE IF p = One THEN {LinksOf(n)} ELSE SUBSET LinksOf(n)
        [] w["network_model"][2] = "watts_strogatz" ->
             IF w["network_beta"][2] = 0 THEN {RingOf(n, k)}
             ELSE {L \in SUBSET LinksOf(n) : Cardinality(L) = Cardinality(RingOf(n, k))}
        [] w["network_model"][2] = "barabasi_albert" -> Attached(n, w["network_m"][2] \div One)

\* GridSpec: the cells next to a cell, in rows from the first.
Beside(w, c) ==
  LET rows == w["grid_rows"][2] \div One
      cols == w["grid_cols"][2] \div One
      round == w["boundary"][2] = "toroidal"
      steps == {d \in (-1 .. 1) \X (-1 .. 1) : d # <<0, 0>> /\ (w["neighborhood"][2] = "moore" \/ d[1] * d[2] = 0)}
      at(d) == <<(c - 1) \div cols + d[1], ((c - 1) % cols) + d[2]>>
      inside == {d \in steps : round \/ (at(d)[1] \in 0 .. rows - 1 /\ at(d)[2] \in 0 .. cols - 1)}
  IN  {(at(d)[1] % rows) * cols + (at(d)[2] % cols) + 1 : d \in inside} \ {c}

-----------------------------------------------------------------------------
(* [world.game].                                                           *)

FiniteKinds == {"matrix", "prisoners_dilemma", "battle_of_sexes", "matching_pennies", "stag_hunt", "rock_paper_scissors",
                "hawk_dove", "el_farol", "minority", "public_goods_finite"}
IsFinite(t) == Said(t, "kind", "none") \in FiniteKinds
GameMust(kind) ==
  CASE kind = "matrix"              -> As({"labels", "payoffs"}, "array")
    [] kind = "prisoners_dilemma"   -> As({"temptation", "reward", "punishment", "sucker"}, "real")
    [] kind = "hawk_dove"           -> As({"v", "c"}, "real")
    [] kind = "el_farol"            -> As({"capacity"}, "count")
    [] kind = "public_goods_finite" -> As({"k"}, "count") @@ As({"r", "cost"}, "real")
    [] kind = "cournot"             -> As({"a", "b", "c", "q_max"}, "real")
    [] kind = "bertrand_differentiated" -> As({"a", "b", "d", "c", "p_max"}, "real")
    [] kind = "public_goods_continuous" -> As({"k"}, "count") @@ As({"endowment", "r"}, "real")
    [] OTHER -> NoKeys
GameMay(kind) ==
  CASE kind \in {"battle_of_sexes", "matching_pennies", "stag_hunt"} -> As({"a", "b"}, "array")
    [] kind = "rock_paper_scissors"     -> As({"win", "loss"}, "real")
    [] kind = "public_goods_continuous" -> As({"social_dilemma"}, "flag")
    [] OTHER -> NoKeys
ContinuousKinds == {"cournot", "bertrand_differentiated", "public_goods_continuous"}

IsSquare(v) == IsArray(v) /\ Len(v[2]) = 2 /\ \A i \in {1, 2} : IsReals(v[2][i]) /\ Len(v[2][i][2]) = 2
SquareOf(v) == <<v[2][1][2][1][2], v[2][1][2][2][2], v[2][2][2][1][2], v[2][2][2][2][2]>>
DefaultCells(kind) ==
  CASE kind = "battle_of_sexes"  -> << <<2, -1, -1, 1>>, <<1, -1, -1, 2>> >>
    [] kind = "matching_pennies" -> << <<-1, 1, 1, -1>>, <<1, -1, -1, 1>> >>
    [] kind = "stag_hunt"        -> << <<9, 0, 8, 7>>, <<9, 8, 0, 7>> >>
CellsOf(t, role) == IF "a" \in DOMAIN t THEN SquareOf(t[<<"a", "b">>[role]])
                    ELSE [c \in 1 .. 4 |-> One * DefaultCells(t["kind"][2])[role][c]]

\* read_matrix and read_payoffs: the labels of every role; payoffs nested by the action of each.
LabelsOf(v) == [role \in DOMAIN v[2] |-> [a \in DOMAIN v[2][role][2] |-> v[2][role][2][a][2]]]
CountsOf(v) == [role \in DOMAIN v[2] |-> Len(v[2][role][2])]
IsLabels(v) ==
  /\ Len(v[2]) > 0
  /\ \A role \in DOMAIN v[2] : /\ IsArray(v[2][role]) /\ Len(v[2][role][2]) > 0
                               /\ \A a \in DOMAIN v[2][role][2] : IsLabel(v[2][role][2][a])
                               /\ IsInjective(LabelsOf(v)[role])
Paths(counts, k) == {p \in [1 .. k -> 1 .. Max(ToSet(counts))] : \A i \in 1 .. k : p[i] <= counts[i]}
Under(v, p) == LET d[k \in 0 .. Len(p)] == IF k = 0 THEN v ELSE d[k - 1][2][p[k]] IN d[Len(p)]
HasShape(v, counts) ==
  \A k \in 0 .. Len(counts) : \A p \in Paths(counts, k) :
    IF k < Len(counts) THEN IsArray(Under(v, p)) /\ Len(Under(v, p)[2]) = counts[k + 1]
    ELSE IsReals(Under(v, p)) /\ Len(Under(v, p)[2]) = Len(counts)
MatrixOf(t) ==
  LET counts == CountsOf(t["labels"])
      At(k) == CHOOSE p \in Paths(counts, Len(counts)) : ProfileIndex([counts |-> counts], p) = k
  IN  [kind |-> "matrix", finite |-> TRUE, counts |-> counts, labels |-> LabelsOf(t["labels"]),
       pay |-> [role \in DOMAIN counts |->
                  [k \in 1 .. ProfileCount(counts) |-> Under(t["payoffs"], At(k))[2][role][2]]]]

\* read_game: the parameters as the constructors of the catalog get them.
GameOf(t, n) ==
  LET x(k) == t[k][2]
      kind == x("kind")
      named(k) == [kind |-> k, finite |-> TRUE]
      economy(k, players) == [kind |-> k, n |-> players, a |-> 0, b |-> 0, c |-> 0, d |-> 0, max |-> 0]
  IN  CASE kind = "matrix" -> MatrixOf(t)
        [] kind = "prisoners_dilemma" ->
             named(kind) @@ [t |-> x("temptation"), r |-> x("reward"), p |-> x("punishment"), s |-> x("sucker")]
        [] kind \in {"battle_of_sexes", "matching_pennies", "stag_hunt"} ->
             named(kind) @@ [a |-> CellsOf(t, 1), b |-> CellsOf(t, 2)]
        [] kind = "rock_paper_scissors" ->
             named(kind) @@ [win |-> Valued(t, "win", One), loss |-> Valued(t, "loss", One)]
        [] kind = "hawk_dove" -> named(kind) @@ [v |-> x("v"), c |-> x("c")]
        [] kind = "el_farol"  -> named(kind) @@ [n |-> n, capacity |-> x("capacity") \div One]
        [] kind = "minority"  -> named(kind) @@ [n |-> n]
        [] kind = "public_goods_finite" ->
             named("public_goods") @@ [n |-> x("k") \div One, r |-> x("r"), cost |-> x("cost")]
        [] kind = "cournot" ->
             [economy("cournot", n) EXCEPT !.a = x("a"), !.b = x("b"), !.c = x("c"), !.max = x("q_max")]
        [] kind = "bertrand_differentiated" ->
             [economy("bertrand", n) EXCEPT !.a = x("a"), !.b = x("b"), !.c = x("c"), !.d = x("d"), !.max = x("p_max")]
        [] kind = "public_goods_continuous" ->
             [economy("public_goods", x("k") \div One) EXCEPT !.a = x("r"), !.max = x("endowment")]
ReadGame(t, n) ==
  LET kind == Said(t, "kind", "none")
  IN  /\ Reads(t, OneOf({"kind"}, FiniteKinds \cup ContinuousKinds) @@ GameMust(kind), GameMay(kind))
      /\ kind = "matrix" => IsLabels(t["labels"]) /\ HasShape(t["payoffs"], CountsOf(t["labels"]))
      /\ kind \in {"battle_of_sexes", "matching_pennies", "stag_hunt"} =>
           Paired(t, "a", "b") /\ ("a" \in DOMAIN t => IsSquare(t["a"]) /\ IsSquare(t["b"]))
      /\ kind = "rock_paper_scissors" => Paired(t, "win", "loss")
      /\ IF IsFinite(t) THEN Meets(GameOf(t, n)) ELSE Possible(GameOf(t, n))
      /\ Valued(t, "social_dilemma", FALSE) => One < t["r"][2] /\ t["r"][2] < t["k"][2]

\* What the rest of the scenario asks of the game: its roles, and the labels of its actions.
RolesOf(o) == IF o.kind = "matrix" THEN Len(o.counts)
              ELSE IF o.kind \in {"el_farol", "minority", "public_goods", "cournot", "bertrand"} THEN o.n ELSE 2
KindLabels(kind) ==
  CASE kind \in {"prisoners_dilemma", "public_goods"} -> <<"C", "D">>
    [] kind = "battle_of_sexes"     -> <<"B", "V">>
    [] kind = "matching_pennies"    -> <<"H", "T">>
    [] kind = "stag_hunt"           -> <<"stag", "hare">>
    [] kind = "hawk_dove"           -> <<"H", "D">>
    [] kind = "rock_paper_scissors" -> <<"R", "P", "S">>
    [] kind = "el_farol"            -> <<"attend", "stay">>
    [] kind = "minority"            -> <<"a0", "a1">>
RoleLabels(o, role) == IF o.kind = "matrix" THEN o.labels[role] ELSE KindLabels(o.kind)
ActionCount(o, role) == Len(RoleLabels(o, role))
CommonSpace(o) == \A role \in 1 .. RolesOf(o) : ActionCount(o, role) = ActionCount(o, 1)
\* finite_payoff_range: every payoff of the game.
PublicPays(o, contributors, a) == ((o.r * o.cost * contributors) \div One - (IF a = 1 THEN o.cost * o.n ELSE 0)) \div o.n
PaysOf(o) ==
  CASE o.kind = "matrix"       -> UNION {ToSet(o.pay[role]) : role \in DOMAIN o.pay}
    [] o.kind = "public_goods" -> UNION {{PublicPays(o, c, 2), PublicPays(o, c + 1, 1)} : c \in 0 .. o.n - 1}
    [] o.kind \in {"el_farol", "minority"} -> {One * PayoffOf(o, 1, p) : p \in [1 .. o.n -> {1, 2}]}
    [] o.kind = "hawk_dove"    -> {x \div 2 : x \in ToSet(ToMatrix(o).pay[1])}
    [] OTHER                   -> ToSet(ToMatrix(o).pay[1]) \cup ToSet(ToMatrix(o).pay[2])
\* action_index: a label names an action of the first role.
Labelled(o, label) == {a \in 1 .. ActionCount(o, 1) : RoleLabels(o, 1)[a] = label}
=============================================================================
