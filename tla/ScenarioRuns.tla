---------------------------- MODULE ScenarioRuns ----------------------------
(***************************************************************************)
(* From a scenario to a trial: the population, the mechanisms and the      *)
(* decision rules are read, the scenario is validated by building a trial  *)
(* for its own seed, and every other trial is built from a seed of its     *)
(* own, over a network drawn from that seed.  A scenario is edited, one    *)
(* key, entry or group at a time, between a validation and the next.       *)
(***************************************************************************)
EXTENDS Scenarios
CONSTANTS Drafts,      \* scenarios to start from: [world, entries, scheduler]
          Wordings,    \* for some keys, the other values somebody may write
          MaxEdits,
          TrialSeed    \* the scenario's own seed is 1

VARIABLE draft     \* [scenario, status, spoilt, edits, drawn, built]

Play(NAgents) == INSTANCE GamePlay

GameTable(s)  == SubTable(s.world, "game")
Population(s) == SubTable(s.world, "population")
TheGame(s)    == GameOf(GameTable(s), Agents(s.world))
Names(s)      == [i \in DOMAIN s.entries |-> s.entries[i].name]
Lists(s, name) == \E i \in DOMAIN s.entries : s.entries[i].name = name
EntryOf(s, name) == LET at == SelectSeq(s.entries, LAMBDA e : e.name = name) IN at[1].params

-----------------------------------------------------------------------------
(* The registry of decision rules: their keys, what constructing one of    *)
(* them checks, and what its first state needs of the game.                *)

Automata == {"all_c", "all_d", "grim", "wsls", "gtft"}
FiniteRules == Automata \cup {"uniform_random", "tit_for_tat", "myopic_best_response", "fictitious_play", "logit", "roth_erev"}
Rules(s) == IF IsFinite(GameTable(s)) THEN FiniteRules ELSE {"damped_best_response", "gradient"}
TieBreaks == {"lowest_index", "random"}
RuleMust(rule) ==
  CASE rule \in {"tit_for_tat", "all_c", "all_d", "grim", "wsls"} -> As({"coop_label"}, "label")
    [] rule = "gtft"      -> As({"coop_label"}, "label") @@ As({"gtft_generosity"}, "real")
    [] rule = "logit"     -> As({"logit_lambda"}, "real")
    [] rule = "roth_erev" -> As({"roth_erev_phi", "roth_erev_epsilon", "roth_erev_initial_propensity"}, "real")
    [] rule = "damped_best_response" -> As({"br_damping"}, "real")
    [] rule = "gradient"  -> As({"grad_step"}, "real")
    [] OTHER -> NoKeys
RuleMay(rule) ==
  CASE rule = "myopic_best_response" -> OneOf({"myopic_tie_break"}, TieBreaks) @@ As({"myopic_first_action"}, "label")
    [] rule = "fictitious_play"      -> OneOf({"fp_tie_break"}, TieBreaks) @@ As({"fp_initial_counts"}, "array")
    [] rule = "logit"                -> OneOf({"logit_estimate"}, {"empirical_frequency", "last_opponent"})
    [] OTHER -> NoKeys
RuleKeys(rule) == DOMAIN RuleMust(rule) \cup DOMAIN RuleMay(rule)
RegistryKeys(s) == UNION {RuleKeys(rule) : rule \in Rules(s)}
\* exclusive_keys: those no other rule reads.
ExclusiveKeys(s, rule) == {k \in RuleKeys(rule) : \A other \in Rules(s) \ {rule} : k \notin RuleKeys(other)}

CountsFit(o, v) == IsReals(v) /\ (RolesOf(o) = 2 => \A role \in {1, 2} : /\ Len(v[2]) = ActionCount(o, role)
                                                                         /\ \A i \in DOMAIN v[2] : v[2][i][2] >= 0)
RuleBuilds(s, rule) ==
  LET all == EntryOf(s, "game_decide")
      own == [k \in DOMAIN all \cap RuleKeys(rule) |-> all[k]]
      x(k) == own[k][2]
      o == TheGame(s)
  IN  /\ Reads(own, RuleMust(rule), RuleMay(rule))
      /\ \A k \in {"coop_label", "myopic_first_action"} \cap DOMAIN own : Labelled(o, x(k)) # {}
      /\ CASE rule = "gtft"      -> InUnit(x("gtft_generosity"))
           [] rule = "logit"     -> RolesOf(o) = 2 => x("logit_lambda") >= 0
           [] rule = "fictitious_play" -> "fp_initial_counts" \in DOMAIN own => CountsFit(o, own["fp_initial_counts"])
           [] rule = "roth_erev" -> /\ x("roth_erev_initial_propensity") > 0 /\ \A pay \in PaysOf(o) : pay > 0
                                    /\ \A k \in {"roth_erev_phi", "roth_erev_epsilon"} : 0 <= x(k) /\ x(k) < One
           [] rule = "damped_best_response" -> 0 < x("br_damping") /\ x("br_damping") <= One
           [] rule = "gradient"  -> x("grad_step") > 0
           [] OTHER -> TRUE
\* init_state, for an agent that follows the rule.
RuleStarts(s, rule) ==
  LET o == TheGame(s)
      key(k) == Labelled(o, Said(EntryOf(s, "game_decide"), k, "none"))
      two == \A role \in 1 .. RolesOf(o) : ActionCount(o, role) = 2
  IN  CASE rule = "tit_for_tat" -> RolesOf(o) = 2 /\ two
        [] rule \in Automata    -> two
        [] rule = "myopic_best_response" ->
             \A a \in key("myopic_first_action"), role \in 1 .. RolesOf(o) : a <= ActionCount(o, role)
        [] rule = "fictitious_play" -> RolesOf(o) = 2
        [] rule = "logit"       -> RolesOf(o) = 2
        [] OTHER -> TRUE

-----------------------------------------------------------------------------
(* [world.population].                                                     *)

Groups(s) == Valued(Population(s), "group", <<>>)
SizeKey(g) == IF "count" \in DOMAIN g THEN "count" ELSE "share"
ReadGroup(s, g) ==
  /\ Reads(g, OneOf({"rule"}, Rules(s) \cup {"held"}), As({"count"}, "count") @@ As({"share"}, "real"))
  /\ ~Paired(g, "count", "share") /\ g[SizeKey(g)][2] >= 0
\* Shares of n as counts: rounded down, and one more for the largest remainders, the first of
\* equal ones first (group_counts, and resolve_shares for the initial actions).
Remainder(n, share) == (n * share) % One
Shared(n, shares) ==
  LET floors == [i \in DOMAIN shares |-> (n * shares[i]) \div One]
      left == n - SumOf(floors)
      before(i) == {j \in DOMAIN shares : \/ Remainder(n, shares[j]) > Remainder(n, shares[i])
                                          \/ Remainder(n, shares[j]) = Remainder(n, shares[i]) /\ j < i}
  IN  [i \in DOMAIN shares |-> floors[i] + (IF Cardinality(before(i)) < left THEN 1 ELSE 0)]
GroupSizes(s) == [i \in DOMAIN Groups(s) |-> LET g == Groups(s)[i][2] IN g[SizeKey(g)][2]]
ByShare(s) == SizeKey(Groups(s)[1][2]) = "share"
GroupCounts(s) == IF ByShare(s) THEN Shared(Agents(s.world), GroupSizes(s)) ELSE [i \in DOMAIN Groups(s) |-> GroupSizes(s)[i] \div One]
Assigned(s) == {Groups(s)[i][2]["rule"][2] : i \in {j \in DOMAIN Groups(s) : GroupCounts(s)[j] > 0}} \ {"held"}
ReadGroups(s) ==
  LET groups == Groups(s)
  IN  /\ groups # <<>>
      /\ \A i \in DOMAIN groups : groups[i][1] = "table" /\ ReadGroup(s, groups[i][2])
      /\ IsInjective([i \in DOMAIN groups |-> groups[i][2]["rule"][2]])
      /\ \A i \in DOMAIN groups : SizeKey(groups[i][2]) = SizeKey(groups[1][2])
      /\ SumOf(GroupSizes(s)) = IF ByShare(s) THEN One ELSE One * Agents(s.world)

InitialKeys == {"initial_shares", "initial_uniform", "initial_action"}
\* read_initial_shares: one action may be left out and gets the rest.
InitialShares(s) ==
  LET t == SubTable(Population(s), "initial_shares")
      labels == RoleLabels(TheGame(s), 1)
      listed == SumOf([a \in DOMAIN labels |-> IF labels[a] \in DOMAIN t THEN t[labels[a]][2] ELSE 0])
  IN  [a \in DOMAIN labels |-> IF labels[a] \in DOMAIN t THEN t[labels[a]][2] ELSE One - listed]
ReadShares(s) ==
  LET t == SubTable(Population(s), "initial_shares")
      labels == RoleLabels(TheGame(s), 1)
  IN  /\ DOMAIN t \subseteq ToSet(labels) /\ \A k \in DOMAIN t : IsReal(t[k]) /\ t[k][2] >= 0
      /\ Cardinality(ToSet(labels) \ DOMAIN t) <= 1
      /\ SumOf(InitialShares(s)) = One /\ \A a \in DOMAIN labels : InitialShares(s)[a] >= 0
FiniteInitial(s, t) ==
  /\ "initial_uniform" \notin DOMAIN t /\ ("initial_shares" \in DOMAIN t => ReadShares(s))
  /\ "initial_action" \in DOMAIN t => Labelled(TheGame(s), t["initial_action"][2]) # {}
ContinuousInitial(s, t) ==
  /\ "initial_shares" \notin DOMAIN t
  /\ \/ /\ "initial_action" \in DOMAIN t /\ Len(t["initial_action"][2]) = 1
        /\ \A v \in ToSet(t["initial_action"][2]) : IsReal(v) /\ 0 <= v[2] /\ v[2] <= TheGame(s).max
     \/ Valued(t, "initial_uniform", FALSE)
ReadInitial(s) ==
  LET t == Population(s)
  IN  /\ Cardinality(InitialKeys \cap DOMAIN t) <= 1
      /\ IF IsFinite(GameTable(s)) THEN FiniteInitial(s, t) ELSE ContinuousInitial(s, t)
ReadPopulation(s) ==
  /\ Reads(Population(s), As({"group"}, "array"),
           OneOf({"assign"}, {"ordered", "shuffled"}) @@ As({"initial_shares"}, "table") @@ As({"initial_uniform"}, "flag")
           @@ As({"initial_action"}, IF IsFinite(GameTable(s)) THEN "label" ELSE "array"))
  /\ ReadGroups(s) /\ ReadInitial(s)

-----------------------------------------------------------------------------
(* [[mechanism]]: each once, one dynamic at most and after game_decide.    *)

Dynamics == {"imitate_best", "fermi_update", "replicator_update", "moran_update"}
Needed   == {"game_match", "game_decide", "game_play"}
Known    == Needed \cup Dynamics \cup {"game_metrics", "continuation_probability"}
Matchings == {"fixed_players", "round_robin", "random_pairs", "random_groups", "whole_population", "grid_neighborhood", "network_edges"}
MechanismMust(name, t) ==
  CASE name = "game_match" ->
         OneOf({"matching"}, Matchings)
         @@ (CASE Said(t, "matching", "none") = "random_groups" -> As({"k"}, "count")
               [] Said(t, "matching", "none") = "fixed_players" -> As({"pairs"}, "array")
               [] OTHER -> NoKeys)
    [] name \in Dynamics ->
         OneOf({"update"}, {"synchronous"})
         @@ (CASE name = "fermi_update"      -> As({"k"}, "real")
               [] name = "replicator_update" -> As({"beta"}, "real")
               [] name = "moran_update"      -> OneOf({"fitness"}, {"linear", "exponential"}) @@ As({"w"}, "real")
               [] OTHER -> NoKeys)
    [] name = "continuation_probability" -> As({"delta"}, "real")
    [] OTHER -> NoKeys
MetricsMay(finite) ==
  OneOf({"equilibrium"}, {"none", "solve"}) @@ As({"stop_tol"}, "real") @@ As({"stop_window"}, "count")
  @@ (IF ~finite THEN NoKeys
      ELSE As({"cooperate_label"}, "label") @@ As({"regret", "population_share", "action_entropy"}, "flag")
           @@ OneOf({"mixed_source"}, {"played", "played_cumulative", "reported"}))
MechanismMay(s, name, t) ==
  CASE name = "game_match" ->
         (CASE Said(t, "matching", "none") = "round_robin"       -> As({"both_orders"}, "flag")
            [] Said(t, "matching", "none") = "grid_neighborhood" -> As({"include_self"}, "flag")
            [] OTHER -> NoKeys)
    [] name = "game_decide" ->
         OneOf({"decision_scope"}, {"per_step", "per_agent_role", "per_encounter"}) @@ As({"report_mixed"}, "flag")
         @@ As(RegistryKeys(s), "any")
    [] name = "game_play" ->
         OneOf({"payoff_aggregation"}, {"sum", "mean"}) @@ As({"aggregate_history_len"}, "count") @@ As({"materialize"}, "flag")
         @@ (IF IsFinite(GameTable(s)) THEN As({"counting"}, "flag") ELSE NoKeys)
    [] name = "imitate_best" -> OneOf({"tie_break"}, {"keep_own", "lowest_action"})
    [] name = "moran_update" -> As({"mutation", "gaussian_sd"}, "real")
    [] name = "game_metrics" -> MetricsMay(IsFinite(GameTable(s)))
    [] OTHER -> NoKeys
IsPair(v) == IsArray(v) /\ Len(v[2]) = 2 /\ \A i \in {1, 2} : IsCount(v[2][i])
ReadMatching(t) ==
  /\ t["matching"][2] = "fixed_players" => \A i \in DOMAIN t["pairs"][2] : IsPair(t["pairs"][2][i])
  /\ t["matching"][2] = "random_groups" => t["k"][2] >= 2 * One
Anonymous(o) == o.kind \in {"hawk_dove", "el_farol", "minority", "public_goods"}
MoranGiven(t) == /\ t["fitness"][2] = "linear" => InUnit(t["w"][2])
                 /\ InUnit(Valued(t, "mutation", 0)) /\ Valued(t, "gaussian_sd", 1) > 0
ReadDynamics(s, name, t) ==
  CASE name = "fermi_update"      -> t["k"][2] > 0
    [] name = "replicator_update" -> IsFinite(GameTable(s)) /\ t["beta"][2] > 0
    [] name = "moran_update"      -> MoranGiven(t)
    [] OTHER -> TRUE
ReadMechanism(s, name, t) ==
  /\ Reads(t, MechanismMust(name, t), MechanismMay(s, name, t))
  /\ CASE name = "game_match"   -> ReadMatching(t)
       [] name = "game_play"    -> Valued(t, "counting", FALSE) => Anonymous(TheGame(s))
       [] name \in Dynamics     -> ReadDynamics(s, name, t)
       [] name = "game_metrics" -> Paired(t, "stop_tol", "stop_window")
       [] name = "continuation_probability" -> InUnit(t["delta"][2])
       [] OTHER -> TRUE
Dynamic(s) == {Names(s)[i] : i \in DOMAIN s.entries} \cap Dynamics
ReadMechanisms(s) ==
  /\ IsInjective(Names(s)) /\ Needed \subseteq ToSet(Names(s)) /\ ToSet(Names(s)) \subseteq Known
  /\ Cardinality(Dynamic(s)) <= 1
  /\ \A i, j \in DOMAIN s.entries : Names(s)[i] = "game_decide" /\ Names(s)[j] \in Dynamics => i < j
  /\ \A i \in DOMAIN s.entries : ReadMechanism(s, s.entries[i].name, s.entries[i].params)

\* ScenarioConfig::read; check_unassigned_rules, for the rules nobody follows.
Read(s) ==
  /\ ReadWorld(s.world) /\ ReadGame(GameTable(s), Agents(s.world))
  /\ ReadMechanisms(s) /\ ReadPopulation(s)
  /\ \A rule \in Assigned(s) : RuleBuilds(s, rule)
  /\ s.scheduler \in {"sequential", "random_activation"}
Written(s, rule) == ExclusiveKeys(s, rule) \cap DOMAIN EntryOf(s, "game_decide") # {}
UnassignedRules(s) == {rule \in Rules(s) \ Assigned(s) : Written(s, rule)}
CheckUnassignedRules(s) == \A rule \in UnassignedRules(s) : RuleBuilds(s, rule)

-----------------------------------------------------------------------------
(* Building a trial over the network drawn from its seed: what assembly    *)
(* checks of a scenario that was read.                                     *)

TopologyOf(s, links) ==
  LET n == Agents(s.world)
  IN  CASE Said(s.world, "topology", "none") = "network" -> Play(n)!Network(links, FALSE)
        [] Said(s.world, "topology", "none") = "grid" ->
             Play(n)!Grid([c \in 1 .. n |-> Play(n)!Ascending(Beside(s.world, c))])
        [] OTHER -> Play(n)!NoTopology
PlayMatching(s) ==
  LET t == EntryOf(s, "game_match")
      id(v) == v[2] \div One + 1
  IN  CASE t["matching"][2] = "fixed_players" ->
             [kind |-> "fixed", pairs |-> [i \in DOMAIN t["pairs"][2] |-> LET p == t["pairs"][2][i][2] IN <<id(p[1]), id(p[2])>>]]
        [] t["matching"][2] = "round_robin"       -> [kind |-> "round_robin", both |-> Valued(t, "both_orders", FALSE)]
        [] t["matching"][2] = "random_pairs"      -> [kind |-> "pairs"]
        [] t["matching"][2] = "random_groups"     -> [kind |-> "groups", k |-> t["k"][2] \div One]
        [] t["matching"][2] = "whole_population"  -> [kind |-> "whole"]
        [] t["matching"][2] = "grid_neighborhood" -> [kind |-> "grid", self |-> Valued(t, "include_self", FALSE)]
        [] t["matching"][2] = "network_edges"     -> [kind |-> "net"]
Scope(s) == IF Said(EntryOf(s, "game_decide"), "decision_scope", "per_step") = "per_step" THEN "step" ELSE "within"
Aggregation(s) == Said(EntryOf(s, "game_play"), "payoff_aggregation", "sum")

\* resolve_shares and build_world_with: every role must know the actions agents start with.
InitialLegal(s) ==
  LET o == TheGame(s)
      t == Population(s)
      starts == IF "initial_shares" \in DOMAIN t THEN DOMAIN RoleLabels(o, 1)
                ELSE Labelled(o, Said(t, "initial_action", RoleLabels(o, 1)[1]))
  IN  IsFinite(GameTable(s)) => \A a \in starts, role \in 1 .. RolesOf(o) : a <= ActionCount(o, role)

PayRange(s, top) ==
  LET pays == PaysOf(TheGame(s))
  IN  Play(Agents(s.world))!StepRange([low |-> Min(pays), high |-> Max(pays)],
                                      Play(Agents(s.world))!Bounds(PlayMatching(s), top), Aggregation(s))
Bounded(s, top) == \/ Aggregation(s) = "mean"
                   \/ Play(Agents(s.world))!Bounds(PlayMatching(s), top) # Play(Agents(s.world))!NoBounds
StartsReplicator(s, t, top) ==
  Bounded(s, top) /\ t["beta"][2] * (PayRange(s, top).high - PayRange(s, top).low) <= One * One
StartsMoran(s, t, top) ==
  LET w == t["w"][2]
      drift == "gaussian_sd" \in DOMAIN t
      linear == t["fitness"][2] = "linear"
  IN  /\ top.kind = "none"
      /\ IF IsFinite(GameTable(s)) THEN ~drift ELSE ~linear /\ (Valued(t, "mutation", 0) > 0 => drift)
      /\ linear => Bounded(s, top) /\ One * One - w * One + w * PayRange(s, top).low > 0
DynamicsStart(s, top) ==
  \A name \in Dynamic(s) :
    /\ Assigned(s) = {} /\ (IsFinite(GameTable(s)) => CommonSpace(TheGame(s)))
    /\ CASE name = "imitate_best"      -> top.kind # "none"
         [] name = "fermi_update"      -> TRUE
         [] name = "replicator_update" -> StartsReplicator(s, EntryOf(s, name), top)
         [] name = "moran_update"      -> StartsMoran(s, EntryOf(s, name), top)

\* GameMetrics::new, ContinuousMetrics::new.  The economies of the catalog all have an
\* equilibrium that damped best responses find.
BothRoles(o) ==
  CASE o.kind = "matrix" -> o
    [] o.kind \in {"el_farol", "public_goods"} ->
         [counts |-> <<2, 2>>,
          pay |-> [role \in {1, 2} |-> [k \in 1 .. 4 |-> PayoffOf(o, role, <<(k + 1) \div 2, 2 - (k % 2)>>)]]]
    [] OTHER -> ToMatrix(o)
Solvable(o) == /\ RolesOf(o) = 2
               /\ \A found \in {{f \in Mixed(BothRoles(o)) : f.kind # "none"}} :
                    found # {} /\ \A f \in found : f.kind = "equilibrium"
CooperationKnown(o, label) ==
  \A role \in 1 .. RolesOf(o) : Cardinality({a \in 1 .. ActionCount(o, role) : RoleLabels(o, role)[a] = label}) = 1
ContinuousMetricsStart(t) == Valued(t, "stop_tol", One) > 0 /\ Valued(t, "stop_window", One) > 0
FiniteMetricsStart(o, t) ==
  /\ Valued(t, "stop_tol", One) > 0 /\ Valued(t, "stop_window", One) > 0
  /\ "cooperate_label" \in DOMAIN t => CooperationKnown(o, t["cooperate_label"][2])
  /\ Said(t, "equilibrium", "none") = "solve" => Solvable(o)
  /\ Valued(t, "population_share", FALSE) => CommonSpace(o)
MetricsStart(s) ==
  LET t == EntryOf(s, "game_metrics")
  IN  Lists(s, "game_metrics") =>
        IF IsFinite(GameTable(s)) THEN FiniteMetricsStart(TheGame(s), t) ELSE ContinuousMetricsStart(t)
Builds(s, links) ==
  LET decide == EntryOf(s, "game_decide")
      top == TopologyOf(s, links)
  IN  /\ InitialLegal(s) /\ \A rule \in Assigned(s) : RuleStarts(s, rule)
      /\ ~(Valued(decide, "report_mixed", FALSE) /\ Said(decide, "decision_scope", "per_step") = "per_encounter")
      /\ Play(Agents(s.world))!MatchingCheck(PlayMatching(s), RolesOf(TheGame(s)), top, Scope(s))
      /\ DynamicsStart(s, top)
      /\ Valued(EntryOf(s, "game_play"), "aggregate_history_len", One) > 0
      /\ MetricsStart(s)

-----------------------------------------------------------------------------
(* Editing, validating and building.                                       *)

Spots(s) ==
  {<<"world">>, <<"game">>, <<"population">>} \cup {<<"entry", i>> : i \in DOMAIN s.entries}
  \cup {<<"group", i>> : i \in DOMAIN Groups(s)}
  \cup (IF "initial_shares" \in DOMAIN Population(s) THEN {<<"shares">>} ELSE {})
TableAt(s, spot) ==
  CASE spot[1] = "world"      -> s.world
    [] spot[1] = "game"       -> GameTable(s)
    [] spot[1] = "population" -> Population(s)
    [] spot[1] = "shares"     -> Population(s)["initial_shares"][2]
    [] spot[1] = "group"      -> Groups(s)[spot[2]][2]
    [] spot[1] = "entry"      -> s.entries[spot[2]].params
Rewritten(s, spot, t) ==
  CASE spot[1] = "world"      -> [s EXCEPT !.world = t]
    [] spot[1] = "game"       -> [s EXCEPT !.world["game"] = Nested(t)]
    [] spot[1] = "population" -> [s EXCEPT !.world["population"] = Nested(t)]
    [] spot[1] = "shares"     -> [s EXCEPT !.world["population"][2]["initial_shares"] = Nested(t)]
    [] spot[1] = "group"      -> [s EXCEPT !.world["population"][2]["group"][2][spot[2]] = Nested(t)]
    [] spot[1] = "entry"      -> [s EXCEPT !.entries[spot[2]].params = t]
Mistakes == {Word("?"), Toggle(TRUE), Amount(-One), Amount(6), Items(<<>>), Nested(<< >>), NotANumber}
Spoils(old, new) == new[1] # old[1] \/ new = Word("?")
\* A key several rules share is read only when one of them is built.
Unread(s, spot, k) ==
  /\ spot[1] = "entry" /\ s.entries[spot[2]].name = "game_decide" /\ k \in RegistryKeys(s)
  /\ \A rule \in Assigned(s) \cup UnassignedRules(s) : k \notin RuleKeys(rule)

ScenarioInit == draft \in [scenario : Drafts, status : {"draft"}, spoilt : {FALSE}, edits : {0}, drawn : {<< >>}, built : {<< >>}]
MayEdit == draft.status = "valid" /\ draft.edits < MaxEdits
Edited(s, spoilt) ==
  draft' = [scenario |-> s, status |-> "draft", spoilt |-> spoilt, edits |-> draft.edits + 1, drawn |-> << >>, built |-> << >>]
Rewrite ==
  MayEdit /\ \E spot \in Spots(draft.scenario) : \E k \in DOMAIN TableAt(draft.scenario, spot) :
    \E v \in Mistakes \cup (IF k \in DOMAIN Wordings THEN Wordings[k] ELSE {}) :
      LET t == TableAt(draft.scenario, spot)
          s == Rewritten(draft.scenario, spot, [t EXCEPT ![k] = v])
      IN  v # t[k] /\ Edited(s, Spoils(t[k], v) /\ ~Unread(draft.scenario, spot, k))
Omit ==
  MayEdit /\ \E spot \in Spots(draft.scenario) : \E k \in DOMAIN TableAt(draft.scenario, spot) :
    LET t == TableAt(draft.scenario, spot)
    IN  Edited(Rewritten(draft.scenario, spot, [l \in (DOMAIN t) \ {k} |-> t[l]]), FALSE)
Misspell ==
  MayEdit /\ \E spot \in Spots(draft.scenario) :
    Edited(Rewritten(draft.scenario, spot, TableAt(draft.scenario, spot) @@ As({"typo"}, "flag")), TRUE)
Rearrange ==
  MayEdit /\ \E i \in DOMAIN draft.scenario.entries :
    LET s == draft.scenario
        list == s.entries
    IN  \/ Edited([s EXCEPT !.entries = SubSeq(list, 1, i - 1) \o SubSeq(list, i + 1, Len(list))], FALSE)
        \/ Edited([s EXCEPT !.entries = Append(list, list[i])], TRUE)
        \/ i > 1 /\ Edited([s EXCEPT !.entries[i] = list[i - 1], !.entries[i - 1] = list[i]], FALSE)
        \/ Edited([s EXCEPT !.scheduler = "?"], TRUE)

\* derive_seed(seed, [0, 1]): the same seed draws the same network.
Redrawn(seed) == Draws(draft.scenario.world)   \* mutant: each build draws a network of its own
Drawn(seed) == IF seed \in DOMAIN draft.drawn THEN {draft.drawn[seed]} ELSE Draws(draft.scenario.world)
Validate ==
  /\ draft.status = "draft"
  /\ IF Read(draft.scenario) /\ CheckUnassignedRules(draft.scenario)
     THEN \E links \in Drawn(1) :
            draft' = [draft EXCEPT !.drawn = draft.drawn @@ (1 :> links),
                                   !.status = IF Builds(draft.scenario, links) THEN "valid" ELSE "refused"]
     ELSE draft' = [draft EXCEPT !.status = "refused"]
BuildTrial ==
  \E seed \in TrialSeed \ DOMAIN draft.built :
    /\ draft.status # "draft"
    /\ IF Read(draft.scenario)
       THEN \E links \in Drawn(seed) :
              draft' = [draft EXCEPT !.drawn = draft.drawn @@ (seed :> links),
                                     !.built = draft.built @@ (seed :> Builds(draft.scenario, links))]
       ELSE draft' = [draft EXCEPT !.built = draft.built @@ (seed :> FALSE)]
ScenarioNext == Rewrite \/ Omit \/ Misspell \/ Rearrange \/ Validate \/ BuildTrial

-----------------------------------------------------------------------------
(* Property *)

ValidatedIsBuilt ==
  \A seed \in DOMAIN draft.built :
    /\ draft.status = "valid" /\ ~draft.built[seed] =>
         /\ seed # 1 /\ Lists(draft.scenario, "replicator_update")
         /\ Cardinality(Draws(draft.scenario.world)) > 1
    /\ draft.status = "refused" /\ draft.built[seed] /\ seed = 1 =>
         \E rule \in UnassignedRules(draft.scenario) : ~RuleBuilds(draft.scenario, rule)
SharesKept ==
  LET s == draft.scenario
      n == Agents(s.world)
      Fair(counts, shares) ==
        /\ SumOf(counts) = n /\ \A i \in DOMAIN counts : AbsOf(One * counts[i] - n * shares[i]) < One
        /\ \A i, j \in DOMAIN counts :
             One * counts[i] > n * shares[i] /\ One * counts[j] < n * shares[j] =>
               \/ Remainder(n, shares[i]) > Remainder(n, shares[j])
               \/ Remainder(n, shares[i]) = Remainder(n, shares[j]) /\ i < j
  IN  draft.status = "valid" =>
        /\ ByShare(s) => Fair(GroupCounts(s), GroupSizes(s))
        /\ "initial_shares" \in DOMAIN Population(s) => Fair(Shared(n, InitialShares(s)), InitialShares(s))
\* A scenario that was validated is one a trial can be built from, for its own seed always and
\* for another unless the bound of the replicator update depends on the network drawn; the only
\* scenario refused that could be run is one with a wrong key of a rule nobody follows.  No
\* value of a wrong type, misspelt key or repeated entry goes through.  Shares become counts
\* that add up to the agents, each within one of its share, larger remainders first.
ScenariosAsDocumented == ValidatedIsBuilt /\ (draft.status = "valid" => ~draft.spoilt) /\ SharesKept
=============================================================================
