----------------------------- MODULE MCServices -----------------------------
(***************************************************************************)
(* The parts of the system around the simulations, one in each behaviour:  *)
(* the runner, the prompt cache, the data sets, the recorders, the catalog *)
(* of games, their solvers, the export of what they find, and the scenarios*)
(* trials are built from.                                                  *)
(***************************************************************************)
EXTENDS TrialSweep, PromptCache, DatasetFetch, Recorders, ScenarioRuns, Artifacts, Markets

VARIABLE part

\* A world with a count, a share and a name, and two entries of one mechanism.
Num(h) == [finite |-> TRUE, halves |-> h]
Slot(type, h) == [type |-> type, num |-> Num(h)]
MCScenario ==
  [world |-> (<<"n">> :> Slot("int", 4) @@ <<"g", "share">> :> Slot("float", 1) @@ <<"name">> :> Slot("string", 0)),
   mechs |-> <<[name |-> "m", params |-> (<<"p">> :> Slot("float", 2))], [name |-> "m", params |-> << >>]>>]

\* A world with fewer than two agents (four halves) is invalid; a trial fails where
\* the seed and the numbers of its scenario say so.
MCValid(scn) == scn.world[<<"n">>].num.halves >= 4
Level(scn) == scn.world[<<"n">>].num.halves
              + (IF <<"p">> \in DOMAIN scn.mechs[2].params THEN scn.mechs[2].params[<<"p">>].num.halves ELSE 0)
MCOutcome(scn, seed) ==
  [ok   |-> (Level(scn) + seed) % 4 # 3,
   rows |-> <<[key |-> "a", value |-> seed]>>
            \o (IF seed = 1 THEN <<>> ELSE <<[key |-> "b", value |-> 0], [key |-> "b", value |-> Level(scn)]>>)]

Axis(key, values) == [key |-> key, values |-> values]
Infinite == [finite |-> FALSE, halves |-> 0]
Sizes  == Axis(<<"world", "n">>, <<Num(4), Num(6)>>)
Levels == Axis(<<"m", "p">>, <<Num(0), Num(1)>>)
Requests(driver, axes) ==
  [driver : {driver}, axes : axes, seeds : {<<2, 1, 2>>, <<3, 2>>, <<1>>}, parallel : BOOLEAN]
MCCalls ==
  Requests("run_seeds", {<<>>}) \cup Requests("run_trials", {<<>>})
  \cup Requests("run_sweep", {<<Levels>>, <<Sizes, Levels>>, <<Axis(<<"bare">>, <<Num(1)>>), Levels>>, <<Levels, Axis(<<"m", "q">>, <<>>)>>})
  \cup Requests("run_trial_sweep",
        {<<>>, <<Levels, Sizes>>, <<Sizes, Levels>>, <<Levels, Levels>>, <<Axis(<<"m", "p">>, <<>>)>>,
         <<Axis(<<"world", "n">>, <<Num(5)>>)>>, <<Axis(<<"world", "n">>, <<Num(4), Num(2)>>)>>,
         <<Axis(<<"world", "name">>, <<Num(4)>>)>>, <<Axis(<<"world", "g", "share">>, <<Num(1), Infinite>>)>>,
         <<Axis(<<"x", "p">>, <<Num(1)>>)>>, <<Axis(<<"bare">>, <<Num(1)>>)>>})

\* Two programs of two models over one cache file; each may end and start again.
MCModel(c) == IF c = 2 THEN "other" ELSE "model"
\* What the second asks with one prompt collides with what the first asks with the other.
MCHash(model, p) == CASE model = "" -> IF p = "p" THEN 4 ELSE 5
                      [] model = "model" -> IF p = "p" THEN 1 ELSE 2
                      [] OTHER -> IF p = "p" THEN 3 ELSE 1

\* A file known by its digest and its rows, one by its rows, one that has to be put there.
MCFiles == <<[name |-> "a", sha |-> 1, rows |-> 1, manual |-> FALSE],
             [name |-> "b", sha |-> 0, rows |-> 1, manual |-> FALSE],
             [name |-> "c", sha |-> 0, rows |-> 0, manual |-> TRUE]>>
MCContents == {[sha |-> 1, lines |-> <<2, 2>>], [sha |-> 2, lines |-> <<2, 1>>], [sha |-> 3, lines |-> <<2>>]}

\* All small games of two players with few payoffs, most of them degenerate; symmetric
\* games of two and three actions; a game of two and three.
Square == {1, 2, 3, 4}
Game(m, n, a, b) == [counts |-> <<m, n>>, pay |-> <<a, b>>]
Symmetric2(a) == Game(2, 2, a, <<a[1], a[3], a[2], a[4]>>)
Symmetric3(a) == Game(3, 3, a, <<a[1], a[4], a[7], a[2], a[5], a[8], a[3], a[6], a[9]>>)
MCGames ==
  {Game(2, 2, a, b) : a \in [Square -> {-1, 0, 2}], b \in [Square -> {0, 1}]}
  \cup {Symmetric2(a) : a \in [Square -> {-1, 0, 2}]}
  \cup {Symmetric3(a) : a \in {x \in [1 .. 9 -> {0, 1, 2}] : \A i \in 1 .. 9 : (x[i] = 1) = (i \in {1, 5, 9})}}
  \cup {Symmetric3(<<1, 2, 0, 0, 1, 2, 2, 0, 1>>), Symmetric3([i \in 1 .. 9 |-> 0]),
        Symmetric3(<<2, 0, 0, 0, 2, 0, 0, 0, 2>>), Game(2, 3, <<3, 1, 0, 0, 1, 3>>, <<0, 1, 2, 2, 1, 0>>)}

\* Parameters on both sides of every condition of the catalog, with weak and strict orders.
Cells(kind, a, b) == [kind |-> kind, finite |-> TRUE, a |-> a, b |-> b]
Table(counts, lengths, labels) ==
  [kind |-> "matrix", finite |-> TRUE, counts |-> counts, labels |-> labels,
   pay |-> [r \in DOMAIN lengths |-> [k \in 1 .. lengths[r] |-> 0]]]
AB == <<"a", "b">>
MCOffers ==
  [kind : {"prisoners_dilemma"}, finite : BOOLEAN, t : 0 .. 3, r : 0 .. 3, p : 0 .. 3, s : 0 .. 3]
  \cup {Cells(kind, a, b) : kind \in {"battle_of_sexes", "stag_hunt"}, a \in [Square -> {0, 1, 2}], b \in [Square -> {0, 1, 2}]}
  \cup {Cells("matching_pennies", a, [c \in Square |-> k - a[c]]) : a \in [Square -> -1 .. 2], k \in {0, 1}}
  \cup [kind : {"rock_paper_scissors"}, finite : BOOLEAN, win : 0 .. 3, loss : -1 .. 3]
  \cup [kind : {"hawk_dove"}, finite : {TRUE}, v : 0 .. 4, c : 0 .. 4]
  \cup [kind : {"el_farol"}, finite : {TRUE}, n : 0 .. 4, capacity : 0 .. 4]
  \cup [kind : {"minority"}, finite : {TRUE}, n : 0 .. 5]
  \cup [kind : {"public_goods"}, finite : {TRUE}, n : 1 .. 4, r : 0 .. 5, cost : 0 .. 2]
  \cup {Table(<<2, 3>>, <<6, 6>>, <<AB, <<"a", "b", "c">>>>), Table(<<2, 2>>, <<4, 4>>, <<AB, AB>>),
        Table(<<2, 2>>, <<4, 4>>, <<AB, <<"b", "a">>>>), Table(<<3, 2, 2>>, <<12, 12, 12>>, <<<<"a", "b", "c">>, AB, AB>>),
        Table(<<2, 2>>, <<4>>, <<AB, AB>>), Table(<<2, 2>>, <<4, 3>>, <<AB, AB>>), Table(<<2, 0>>, <<0, 0>>, <<AB, <<>>>>),
        Table(<<2, 2>>, <<4, 4>>, <<AB, <<"a">>>>), Table(<<4, 4>>, <<16, 16>>, [r \in {1, 2} |-> [k \in 1 .. 4 |-> "a"]])}

\* Economies whose undamped responses settle, swing and leave the bounds; line searches
\* over curves with a peak anywhere, flat or sharp.
Economy(kind, n, a, b, c, d, max) == [kind |-> kind, n |-> n, a |-> a, b |-> b, c |-> c, d |-> d, max |-> max]
MCEconomies ==
  {Economy("cournot", n, a, b, 1, 0, max) : n \in 1 .. 3, a \in {1, 5, 7}, b \in {0, 1, 2}, max \in {1, 4}}
  \cup {Economy("cournot", n, 13, 1, 1, 0, 2) : n \in 4 .. 6}
  \cup {Economy("bertrand", n, a, b, c, 1, max) : n \in 2 .. 3, a \in {0, 4}, b \in {1, 2}, c \in {0, 2}, max \in {1, 4}}
  \cup {Economy("public_goods", n, r, 1, 0, 0, 2) : n \in 2 .. 3, r \in 0 .. 4}
MCSettings ==
  [damping : {64, 32, 0}, adaptive : BOOLEAN, least : {8, 64}, tol : {32}, maxIter : {6}, oracle : {FALSE}]
  \cup [damping : {64}, adaptive : {TRUE}, least : {8}, tol : {16}, maxIter : {3}, oracle : BOOLEAN]
MCCurves == [1 .. 6 -> 0 .. 3] \cup [1 .. 9 -> 0 .. 2]
            \cup {[k \in 1 .. 14 |-> IF k > p THEN 2 * (p - k) ELSE k - p] : p \in 1 .. 14}

\* Three and four traders who sit together each day, or by a rota, some of them set.
Hall(g, rules, seatings, depth, scope, start, window) ==
  [game |-> g, rules |-> rules, seatings |-> seatings, depth |-> depth, scope |-> scope,
   start |-> [a \in DOMAIN start |-> start[a] * Unit], tol |-> Unit \div 16, window |-> window]
Alike(n, kind, rate) == [a \in 1 .. n |-> [kind |-> kind, rate |-> rate]]
Everyone(n) == <<<<[a \in 1 .. n |-> a]>>>>
TwoFirms == Economy("cournot", 2, 7, 1, 1, 0, 4)
ThreeWays == Alike(1, "damped", 32) \o Alike(1, "gradient", 16) \o Alike(1, "held", 0)
MCHalls ==
  {Hall(g, Alike(g.n, r[1], r[2]), Everyone(g.n), 1, "step", [a \in 1 .. g.n |-> IF a = 1 THEN g.max ELSE 0], w) :
     g \in {TwoFirms, Economy("cournot", 3, 7, 1, 1, 0, 4), Economy("bertrand", 3, 4, 2, 2, 1, 4), Economy("public_goods", 3, 2, 1, 0, 0, 2)},
     r \in {<<"damped", 64>>, <<"damped", 32>>, <<"gradient", 16>>}, w \in {1, 2}}
  \cup {Hall(Economy("cournot", 4, 13, 1, 1, 0, 2), Alike(4, "damped", 64), Everyone(4), 2, "step", <<0, 0, 0, 0>>, 1)}
  \cup {Hall(TwoFirms, ThreeWays, s, d, "step", <<4, 0, 1>>, 2) : d \in 1 .. 3,
     s \in {<<<<<<1, 2>>>>, <<<<2, 3>>>>, <<<<3, 1>>>>, <<<<1, 2>>>>>>, <<<<<<1, 2>>>>, <<<<1, 2>>>>, <<<<2, 3>>>>>>, <<<<<<1, 2>>>>>>}}
  \cup {Hall(TwoFirms, Alike(3, "damped", 32), <<<<<<1, 2>>, <<3, 1>>>>, <<<<2, 3>>>>>>, 2, "encounter", <<4, 0, 1>>, 2),
        Hall(TwoFirms, Alike(4, "damped", 64), <<<<<<1, 2>>, <<3, 4>>>>, <<<<1, 3>>, <<4, 2>>>>>>, 2, "step", <<4, 0, 1, 2>>, 1)}

\* Two finite games and a continuous one; what solvers hand over for one fits no other.
Named(name, finite, dims) == [name |-> name, finite |-> finite, dims |-> dims]
MCSpecs == {Named("g", TRUE, <<2, 2>>), Named("h", TRUE, <<2, 3>>), Named("c", FALSE, <<1>>)}
Unsound(id, kind, dims) == [Entry(id, kind, dims) EXCEPT !.sound = FALSE]
MCResults ==
  {EquilibriumSet("s", <<2, 2>>, 1, <<"component", "degenerate">>), EquilibriumSet("s", <<2, 3>>, 1, <<>>),
   FixedPointSet("r", <<2, 2>>, 1, 1, 1) \o <<Entry(<<"q">>, "qre", <<2, 2>>), Unsound(<<"x">>, "nash", <<2, 2>>)>>,
   <<Entry(<<"x">>, "continuous", <<1>>)>>}

\* Scenarios that between them use every kind of topology, matching, play, update and rule.
Fr(x) == Amount(One * x)
Group(rule, key, x) == Nested("rule" :> Word(rule) @@ key :> Amount(x))
People(groups, more) == Nested("group" :> Items(groups) @@ more)
Held == <<Group("held", "share", One)>>
Of(n, game, people, more) ==
  "n_agents" :> Fr(n) @@ "history_len" :> Fr(1) @@ "game" :> Nested(game) @@ "population" :> people @@ more
Mech(name, params) == [name |-> name, params |-> params]
Three(match, decide, play) == <<Mech("game_match", match), Mech("game_decide", decide), Mech("game_play", play)>>
Matched(kind) == "matching" :> Word(kind)
Sync == "update" :> Word("synchronous")
Draft(world, entries) == [world |-> world, entries |-> entries, scheduler |-> "sequential"]
Pd(t, r, p, s) == "kind" :> Word("prisoners_dilemma") @@ "temptation" :> Fr(t) @@ "reward" :> Fr(r)
                  @@ "punishment" :> Fr(p) @@ "sucker" :> Fr(s)
Kind(k) == "kind" :> Word(k)
Row(a, b) == Items(<<Items(<<Fr(a[1]), Fr(a[2])>>), Items(<<Fr(b[1]), Fr(b[2])>>)>>)
Names2(l) == Items([i \in DOMAIN l |-> Word(l[i])])
Grid22 == "topology" :> Word("grid") @@ "grid_rows" :> Fr(2) @@ "grid_cols" :> Fr(2)
          @@ "boundary" :> Word("toroidal") @@ "neighborhood" :> Word("moore")
Net(model, more) == "topology" :> Word("network") @@ "network_model" :> Word(model) @@ more
MCDrafts ==
  {Draft(Of(4, Pd(5, 3, 1, 0), People(Held, "initial_shares" :> Nested("C" :> Amount(5))), << >>),
         Three(Matched("random_pairs"), << >>, "payoff_aggregation" :> Word("mean"))
         \o <<Mech("fermi_update", Sync @@ "k" :> Amount(6)),
              Mech("game_metrics", "cooperate_label" :> Word("C") @@ "equilibrium" :> Word("solve")
                                   @@ "stop_tol" :> Amount(1) @@ "stop_window" :> Fr(2) @@ "population_share" :> Toggle(TRUE)),
              Mech("continuation_probability", "delta" :> Amount(9))>>),
   Draft(Of(3, Kind("hawk_dove") @@ "v" :> Fr(2) @@ "c" :> Fr(4), People(Held, "assign" :> Word("shuffled")), << >>),
         Three(Matched("random_pairs"), << >>, "counting" :> Toggle(TRUE))
         \o <<Mech("replicator_update", Sync @@ "beta" :> Amount(4))>>),
   Draft(Of(3, Pd(3, 2, 1, 0), People(Held, "initial_action" :> Word("D")), Net("erdos_renyi", "network_p" :> Amount(6))),
         Three(Matched("network_edges"), << >>, << >>)
         \o <<Mech("replicator_update", Sync @@ "beta" :> Amount(3))>>),
   Draft(Of(4, Kind("stag_hunt"), People(<<Group("held", "count", 48)>>, "initial_shares" :> Nested("stag" :> Amount(6))), Grid22),
         Three(Matched("grid_neighborhood") @@ "include_self" :> Toggle(TRUE), << >>, "aggregate_history_len" :> Fr(1))
         \o <<Mech("imitate_best", Sync @@ "tie_break" :> Word("lowest_action"))>>),
   Draft(Of(4, Kind("public_goods_finite") @@ "k" :> Fr(2) @@ "r" :> Amount(18) @@ "cost" :> Fr(1), People(Held, << >>), << >>),
         Three(Matched("random_groups") @@ "k" :> Fr(2), << >>, << >>)
         \o <<Mech("moran_update", Sync @@ "fitness" :> Word("linear") @@ "w" :> Amount(4) @@ "mutation" :> Amount(1)),
              Mech("game_metrics", "equilibrium" :> Word("solve"))>>),
   Draft(Of(4, Pd(5, 3, 1, 0), People(<<Group("tit_for_tat", "share", 4), Group("all_c", "share", 4), Group("held", "share", 4)>>, << >>), << >>),
         Three(Matched("round_robin"), "decision_scope" :> Word("per_encounter") @@ "coop_label" :> Word("C")
                                       @@ "gtft_generosity" :> Amount(4) @@ "fp_tie_break" :> Word("random"), << >>)),
   Draft(Of(4, Kind("matrix") @@ "labels" :> Items(<<Names2(<<"a", "b">>), Names2(<<"b", "a">>)>>)
                @@ "payoffs" :> Items(<<Row(<<1, 1>>, <<0, 2>>), Row(<<2, 0>>, <<1, 0>>)>>),
            People(<<Group("fictitious_play", "count", 24), Group("logit", "count", 24)>>, << >>), << >>),
         Three(Matched("fixed_players") @@ "pairs" :> Items(<<Items(<<Fr(0), Fr(3)>>), Items(<<Fr(1), Fr(2)>>)>>),
               "fp_initial_counts" :> Items(<<Fr(1), Fr(0)>>) @@ "logit_lambda" :> Fr(1) @@ "coop_label" :> Word("a")
               @@ "report_mixed" :> Toggle(FALSE), << >>)),
   Draft(Of(3, Kind("minority"), People(<<Group("uniform_random", "share", 6), Group("held", "share", 6)>>,
                                        "initial_action" :> Word("a1")), << >>),
         Three(Matched("whole_population"), << >>, "counting" :> Toggle(TRUE) @@ "materialize" :> Toggle(TRUE))),
   Draft(Of(3, Kind("cournot") @@ "a" :> Fr(7) @@ "b" :> Fr(1) @@ "c" :> Fr(1) @@ "q_max" :> Fr(4),
            People(<<Group("damped_best_response", "share", 8), Group("gradient", "share", 4)>>, "initial_uniform" :> Toggle(TRUE)), << >>),
         Three(Matched("whole_population"), "br_damping" :> Amount(6) @@ "grad_step" :> Amount(1), << >>)
         \o <<Mech("game_metrics", "equilibrium" :> Word("solve") @@ "stop_tol" :> Amount(1) @@ "stop_window" :> Fr(1))>>),
   Draft(Of(4, Kind("public_goods_continuous") @@ "k" :> Fr(2) @@ "endowment" :> Fr(1) @@ "r" :> Amount(18) @@ "social_dilemma" :> Toggle(TRUE),
            People(Held, "initial_action" :> Items(<<Amount(6)>>)), << >>),
         Three(Matched("random_groups") @@ "k" :> Fr(2), << >>, "payoff_aggregation" :> Word("mean"))
         \o <<Mech("moran_update", Sync @@ "fitness" :> Word("exponential") @@ "w" :> Fr(1) @@ "mutation" :> Amount(1)
                                   @@ "gaussian_sd" :> Amount(2))>>),
   Draft(Of(4, Pd(4, 3, 2, 1), People(<<Group("roth_erev", "share", 7), Group("myopic_best_response", "share", 5)>>, << >>),
            Net("watts_strogatz", "network_k" :> Fr(2) @@ "network_beta" :> Fr(0))),
         Three(Matched("network_edges"),
               "roth_erev_phi" :> Amount(1) @@ "roth_erev_epsilon" :> Amount(1) @@ "roth_erev_initial_propensity" :> Fr(1)
               @@ "myopic_first_action" :> Word("D") @@ "logit_lambda" :> Fr(1), << >>)),
   Draft(Of(3, Kind("rock_paper_scissors"), People(Held, "initial_shares" :> Nested("R" :> Amount(4) @@ "P" :> Amount(4))),
            Net("barabasi_albert", "network_m" :> Fr(1))),
         Three(Matched("network_edges"), << >>, "payoff_aggregation" :> Word("mean"))
         \o <<Mech("imitate_best", Sync), Mech("game_metrics", "regret" :> Toggle(TRUE))>>)}
Words(l) == {Word(l[i]) : i \in DOMAIN l}
MCWordings ==
  "n_agents" :> {Fr(3), Fr(2)} @@ "history_len" :> {Fr(0)} @@ "matching" :> Words(<<"random_pairs", "round_robin", "grid_neighborhood">>)
  @@ "network_p" :> {Fr(0), Fr(1), Amount(13)} @@ "network_beta" :> {Amount(6)} @@ "network_k" :> {Fr(3), Fr(4)} @@ "network_m" :> {Fr(2), Fr(0)}
  @@ "boundary" :> {Word("fixed")} @@ "neighborhood" :> {Word("von_neumann")} @@ "grid_rows" :> {Fr(1)} @@ "pairs" :> {Items(<<Items(<<Fr(0), Fr(0)>>)>>)}
  @@ "beta" :> {Amount(1), Amount(2), Amount(6), Fr(1)} @@ "w" :> {Amount(10), Fr(1), Fr(2)} @@ "payoff_aggregation" :> Words(<<"mean", "sum">>)
  @@ "rule" :> Words(<<"held", "fictitious_play", "gtft", "all_d", "tit_for_tat">>) @@ "count" :> {Fr(0), Fr(1)} @@ "share" :> {Amount(0), Amount(4), Amount(5)}
  @@ "r" :> {Fr(2), Fr(3)} @@ "k" :> {Fr(3), Fr(1)} @@ "decision_scope" :> {Word("per_step")} @@ "report_mixed" :> {Toggle(TRUE)}
  @@ "coop_label" :> Words(<<"D", "E">>) @@ "initial_action" :> {Word("C"), Items(<<Fr(0)>>), Items(<<Fr(2)>>)} @@ "fitness" :> {Word("linear")}
  @@ "mutation" :> {Amount(0)} @@ "gtft_generosity" :> {Fr(2)} @@ "logit_lambda" :> {Amount(0)} @@ "update" :> {Word("asynchronous")}
  @@ "equilibrium" :> Words(<<"solve", "none">>) @@ "cooperate_label" :> {Word("D")} @@ "stop_window" :> {Fr(0)} @@ "sucker" :> {Fr(1), Fr(2)}
  @@ "C" :> {Amount(7), Amount(13)} @@ "P" :> {Amount(5), Amount(9)} @@ "delta" :> {Fr(2)} @@ "aggregate_history_len" :> {Fr(0)}
  @@ "labels" :> {Items(<<Names2(<<"a", "b">>), Names2(<<"b", "c">>)>>), Items(<<Names2(<<"a", "a">>), Names2(<<"b", "c">>)>>)}
  @@ "topology" :> Words(<<"none">>) @@ "temptation" :> {Fr(9)}

everything == <<part, svars, cvars, fvars, rvars, path, offer, search, avars, draft, market>>
Init == /\ part \in {"sweep", "cache", "fetch", "recorder", "catalog", "solver", "responses", "export", "scenario", "market"}
        /\ SweepInit /\ (part # "sweep" => call = CHOOSE c \in MCCalls : TRUE)
        /\ CacheInit /\ FetchInit /\ RecorderInit
        /\ ArtifactInit /\ (part # "export" => \A e \in Exporter : exports[e].spec = CHOOSE s \in MCSpecs : TRUE)
        /\ IF part = "catalog" THEN CatalogInit ELSE offer = [status |-> "none"]
        /\ IF part = "solver" THEN PathInit ELSE path = [status |-> "none", pivots |-> 0]
        /\ IF part = "scenario" THEN ScenarioInit ELSE draft = [status |-> "none", built |-> << >>]
        /\ IF part = "responses" THEN SearchInit ELSE search = [status |-> "refused"]
        /\ IF part = "market" THEN MarketInit ELSE market = [status |-> "none"]
SweepStep    == part = "sweep" /\ SweepNext /\ UNCHANGED <<part, cvars, fvars, rvars, path, offer, search, avars, draft, market>>
CacheStep    == part = "cache" /\ CacheNext /\ UNCHANGED <<part, svars, fvars, rvars, path, offer, search, avars, draft, market>>
FetchStep    == part = "fetch" /\ FetchNext /\ UNCHANGED <<part, svars, cvars, rvars, path, offer, search, avars, draft, market>>
RecorderStep == part = "recorder" /\ RecorderNext /\ UNCHANGED <<part, svars, cvars, fvars, path, offer, search, avars, draft, market>>
CatalogStep  == part = "catalog" /\ Construct /\ UNCHANGED <<part, svars, cvars, fvars, rvars, path, search, avars, draft, market>>
SolverStep   == part = "solver" /\ PathNext /\ UNCHANGED <<part, svars, cvars, fvars, rvars, offer, search, avars, draft, market>>
SearchStep   == part = "responses" /\ SearchNext /\ UNCHANGED <<part, svars, cvars, fvars, rvars, path, offer, avars, draft, market>>
ExportStep   == part = "export" /\ ArtifactNext /\ UNCHANGED <<part, svars, cvars, fvars, rvars, path, offer, search, draft, market>>
ScenarioStep == part = "scenario" /\ ScenarioNext /\ UNCHANGED <<part, svars, cvars, fvars, rvars, path, offer, search, avars, market>>
MarketStep   == part = "market" /\ MarketNext /\ UNCHANGED <<part, svars, cvars, fvars, rvars, path, offer, search, avars, draft>>
Next == SweepStep \/ CacheStep \/ FetchStep \/ RecorderStep \/ CatalogStep \/ SolverStep \/ SearchStep \/ ExportStep
        \/ ScenarioStep \/ MarketStep
Spec == Init /\ [][Next]_everything
=============================================================================
