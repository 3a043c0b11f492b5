------------------------------ MODULE Learners ------------------------------
(***************************************************************************)
(* The decision rules of finite two-role games and what they remember: one *)
(* memory per agent, or one per opponent, by the scope of its decisions.   *)
(* Chances are parts of Sure; propensities are counted in grains.  Roles   *)
(* and actions are numbered from 1.  The scheduler shuffles the order in   *)
(* which agents decide; no decision reads another of the same step, so     *)
(* they are taken in the order of the ids.                                 *)
(***************************************************************************)
EXTENDS Integers, Sequences, FiniteSets, FiniteSetsExt, SequencesExt, Histories
CONSTANTS Classes,       \* assemblies: [game, scope, cast (a rule per player), seatings (of each step in turn)]
          Depth,         \* history_len
          MaxPlays       \* bound: steps

VARIABLES class,   \* the assembly
          mind,    \* policy state of each player: [all |-> global, by |-> by_opponent]
          past,    \* the rings of the world: [steps, pairs]
          now,     \* the step: [plays, turn, status]
          tape     \* ghost: the plays of all steps
tvars == <<class, mind, past, now, tape>>

Sure  == 4
Grain == 4096
Largest == 2 ^ 24     \* the greatest propensity, in grains; one grain is the least that is not zero
Player == DOMAIN class.cast
Moves(g, role) == 1 .. g.acts[role]
SumUp(s) == LET t[k \in 0 .. Len(s)] == IF k = 0 THEN 0 ELSE t[k - 1] + s[k] IN t[Len(s)]
Zeros(n) == [k \in 1 .. n |-> 0]
Bumped(counts, k) == [counts EXCEPT ![k] = @ + 1]

\* resolve_tie, sample_probabilities (the actions that can come up), and the best actions
\* against counts of what the other side does.
Resolved(tie, best) == IF tie = "lowest" THEN {Min(best)} ELSE best
Sampled(weights) == {k \in DOMAIN weights : weights[k] > 0}
Values(g, role, counts) == [x \in Moves(g, role) |-> SumUp([y \in DOMAIN counts |-> counts[y] * g.pay[role][x][y]])]
Best(g, role, counts) == LET v == Values(g, role, counts) IN {x \in DOMAIN v : \A z \in DOMAIN v : v[z] <= v[x]}
Certain(n, x) == [k \in 1 .. n |-> IF k = x THEN Sure ELSE 0]
Even(n, S) == [k \in 1 .. n |-> IF k \in S THEN 1 ELSE 0]

-----------------------------------------------------------------------------
(* Rules: the games they accept, a memory of nothing, what one encounter does to it, what   *)
(* decide can answer, and what mixed reports up to scale (None is <<>>)                     *)

Stateless == [stateless |-> TRUE]
AllRoles(P(_)) == \A role \in 1 .. 2 : P(role)

FixedAccepts(g, r) == AllRoles(LAMBDA role : r.action \in Moves(g, role))
UniformReport(g, role) == Even(g.acts[role], Moves(g, role))
TitForTatAccepts(g, r) == g.acts = <<2, 2>> /\ r.coop \in 1 .. 2
TitForTatOptions(r, mem) == IF mem.other = 0 THEN {r.coop} ELSE {mem.other}
TitForTatObserve(other) == [other |-> other]
TitForTatReport(g, r, mem, role) == Certain(g.acts[role], IF mem.other = 0 THEN r.coop ELSE mem.other)

MixedAccepts(g, r) == SumUp(r.weights) = Sure /\ AllRoles(LAMBDA role : Len(r.weights) = g.acts[role])

\* lasts: how many of the opponents did each action last.
MyopicAccepts(g, r) == AllRoles(LAMBDA role : r.first \in Moves(g, role))
MyopicOptions(g, r, role, lasts) == IF SumUp(lasts) = 0 THEN {r.first} ELSE Resolved(r.tie, Best(g, role, lasts))

BeliefAccepts(g, r) == r.prior = <<>> \/ AllRoles(LAMBDA role : Len(r.prior) = g.acts[3 - role])
BeliefFresh(g, r, role) == [counts |-> IF r.prior = <<>> THEN Zeros(g.acts[3 - role]) ELSE r.prior]
BeliefObserve(mem, other) == [counts |-> Bumped(mem.counts, other)]
BeliefOptions(g, r, mem, role) == Resolved(r.tie, Best(g, role, mem.counts))
BeliefReport(g, r, mem, role) ==
  LET best == Best(g, role, mem.counts)
  IN  IF r.tie = "lowest" THEN Certain(g.acts[role], Min(best)) ELSE Even(g.acts[role], best)

\* The softmax leaves every action a chance and is monotone in the estimated payoffs, which
\* stand for it here, times the number of observations.
LogitAccepts(r) == r.lambda >= 0
LogitFresh(g, role) == [counts |-> Zeros(g.acts[3 - role]), last |-> 0]
LogitObserve(mem, other) == [counts |-> Bumped(mem.counts, other), last |-> other]
Estimates(g, r, mem, role) ==
  IF r.estimate = "frequency" THEN Values(g, role, mem.counts) ELSE Values(g, role, Even(Len(mem.counts), {mem.last}))
LogitReport(g, r, mem, role) == IF r.lambda = 0 THEN Zeros(g.acts[role]) ELSE Estimates(g, r, mem, role)

\* phi and epsilon are in halves, propensities in grains.
Positive(g) == AllRoles(LAMBDA role : \A x \in Moves(g, role), y \in Moves(g, 3 - role) : g.pay[role][x][y] > 0)
ErevAccepts(g, r) == r.start > 0 /\ r.phi \in 0 .. 1 /\ r.epsilon \in 0 .. 1 /\ Positive(g)
ErevFresh(g, r, role) == [weights |-> [x \in Moves(g, role) |-> r.start]]
Experience(r, n, x, own, pay) ==
  IF n = 1 THEN pay * Grain
  ELSE IF x = own THEN ((2 - r.epsilon) * pay * Grain) \div 2
  ELSE (r.epsilon * pay * Grain) \div (2 * (n - 1))
Reinforced(r, weights, own, pay) ==
  [x \in DOMAIN weights |-> ((2 - r.phi) * weights[x]) \div 2 + Experience(r, Len(weights), x, own, pay)]
ErevObserve(r, mem, own, pay) == [weights |-> Reinforced(r, mem.weights, own, pay)]
\* update refuses a propensity that is no longer positive and finite.
ErevViable(mem) == \A x \in DOMAIN mem.weights : mem.weights[x] \in 1 .. Largest
ErevReport(g, mem, role) == IF Len(mem.weights) = g.acts[role] THEN mem.weights ELSE <<>>

PlanAccepts(g, r) == g.acts = <<2, 2>> /\ r.coop \in 1 .. 2
PlanFresh == [grim |-> FALSE, own |-> 0, other |-> 0]
PlanObserve(r, mem, own, other) == [grim |-> mem.grim \/ other # r.coop, own |-> own, other |-> other]
\* next_action and next_action_probabilities are written out separately in the code.
NextMove(r, mem) ==
  LET D == 3 - r.coop
  IN  CASE r.plan = "all_c" -> {r.coop}
        [] r.plan = "all_d" -> {D}
        [] r.plan = "grim"  -> IF mem.grim THEN {D} ELSE {r.coop}
        [] r.plan = "tft"   -> IF mem.other = 0 THEN {r.coop} ELSE {mem.other}
        [] r.plan = "wsls"  -> IF mem.own = 0 THEN {r.coop}
                               ELSE IF mem.other = r.coop THEN {mem.own}
                               ELSE IF mem.own = r.coop THEN {D} ELSE {r.coop}
        [] r.plan = "gtft"  -> IF mem.other \in {0, r.coop} \/ r.generosity = Sure THEN {r.coop}
                               ELSE IF r.generosity = 0 THEN {D} ELSE {r.coop, D}
PlanReport(r, mem) ==
  LET D == 3 - r.coop
  IN  CASE r.plan = "all_c" -> Certain(2, r.coop)
        [] r.plan = "all_d" -> Certain(2, D)
        [] r.plan = "grim"  -> Certain(2, IF mem.grim THEN D ELSE r.coop)
        [] r.plan = "tft"   -> Certain(2, IF mem.other = 0 THEN r.coop ELSE mem.other)
        [] r.plan = "wsls"  -> Certain(2, IF mem.own = 0 THEN r.coop
                                          ELSE IF mem.other = r.coop THEN mem.own
                                          ELSE IF mem.own = r.coop THEN D ELSE r.coop)
        [] r.plan = "gtft"  -> IF mem.other \in {0, r.coop} THEN Certain(2, r.coop)
                               ELSE [k \in 1 .. 2 |-> IF k = r.coop THEN r.generosity ELSE Sure - r.generosity]

Accepts(g, r) ==
  CASE r.kind = "fixed"       -> FixedAccepts(g, r)
    [] r.kind = "mixed"       -> MixedAccepts(g, r)
    [] r.kind = "myopic"      -> MyopicAccepts(g, r)
    [] r.kind = "fictitious"  -> BeliefAccepts(g, r)
    [] r.kind = "logit"       -> LogitAccepts(r)
    [] r.kind = "roth_erev"   -> ErevAccepts(g, r)
    [] r.kind = "automaton"   -> PlanAccepts(g, r)
    [] r.kind = "tit_for_tat" -> TitForTatAccepts(g, r)
    [] r.kind = "uniform"     -> TRUE
Fresh(g, r, role) ==
  CASE r.kind = "fictitious"  -> BeliefFresh(g, r, role)
    [] r.kind = "logit"       -> LogitFresh(g, role)
    [] r.kind = "roth_erev"   -> ErevFresh(g, r, role)
    [] r.kind = "automaton"   -> PlanFresh
    [] r.kind = "tit_for_tat" -> TitForTatObserve(0)
    [] OTHER -> Stateless
Observe(r, mem, own, other, pay) ==
  CASE r.kind = "fictitious"  -> BeliefObserve(mem, other)
    [] r.kind = "logit"       -> LogitObserve(mem, other)
    [] r.kind = "roth_erev"   -> ErevObserve(r, mem, own, pay)
    [] r.kind = "automaton"   -> PlanObserve(r, mem, own, other)
    [] r.kind = "tit_for_tat" -> TitForTatObserve(other)
    [] OTHER -> mem
Options(g, r, mem, role, lasts) ==
  CASE r.kind = "fixed"       -> {r.action}
    [] r.kind = "mixed"       -> Sampled(r.weights)
    [] r.kind = "myopic"      -> MyopicOptions(g, r, role, lasts)
    [] r.kind = "fictitious"  -> BeliefOptions(g, r, mem, role)
    [] r.kind = "roth_erev"   -> Sampled(mem.weights)
    [] r.kind = "automaton"   -> NextMove(r, mem)
    [] r.kind = "tit_for_tat" -> TitForTatOptions(r, mem)
    [] r.kind \in {"uniform", "logit"} -> Moves(g, role)
\* Counts of the wrong length are an error of decide and None for mixed.
Shaped(g, r, mem, role) == r.kind \in {"fictitious", "logit"} => Len(mem.counts) = g.acts[3 - role]
Report(g, r, mem, role) ==
  IF ~Shaped(g, r, mem, role) THEN <<>> ELSE
  CASE r.kind = "uniform"     -> UniformReport(g, role)
    [] r.kind = "mixed"       -> r.weights
    [] r.kind = "fictitious"  -> BeliefReport(g, r, mem, role)
    [] r.kind = "logit"       -> LogitReport(g, r, mem, role)
    [] r.kind = "roth_erev"   -> ErevReport(g, mem, role)
    [] r.kind = "automaton"   -> PlanReport(r, mem)
    [] r.kind = "tit_for_tat" -> TitForTatReport(g, r, mem, role)
    [] r.kind \in {"fixed", "myopic"} -> <<>>

-----------------------------------------------------------------------------
(* The step *)

Rule(a)  == class.cast[a]
Learns(r) == r.kind \in {"fictitious", "logit", "roth_erev", "automaton"}
ByOpponent(r) == Learns(r) /\ class.scope = "encounter"
TInit ==
  /\ class \in Classes
  /\ mind = <<>> /\ tape = <<>>
  /\ past = [steps |-> NewRing(Depth, [a \in Player |-> 0]), pairs |-> <<>>]
  /\ now = [plays |-> <<>>, turn |-> 0, status |-> "new"]

\* build_world initialises one agent after the other; the first rule that refuses ends it.
Assemble ==
  /\ now.status = "new" /\ \A a \in Player : Accepts(class.game, Rule(a))
  /\ mind' = [a \in Player |-> [all |-> Fresh(class.game, Rule(a), 1), by |-> <<>>]]
  /\ now' = [now EXCEPT !.status = "between"]
  /\ UNCHANGED <<class, past, tape>>
Refuse ==
  /\ now.status = "new" /\ \E a \in Player : ~Accepts(class.game, Rule(a))
  /\ now' = [now EXCEPT !.status = "refused"]
  /\ UNCHANGED <<class, mind, past, tape>>

\* game_match: the seats of this step, in encounter order; nobody has acted.
SitDown ==
  /\ now.status = "between" /\ Len(tape) < MaxPlays
  /\ LET seats == class.seatings[(Len(tape) % Len(class.seatings)) + 1]
     IN  now' = [plays |-> [i \in DOMAIN seats |-> [seats |-> seats[i], acts |-> <<0, 0>>]], turn |-> 1, status |-> "deciding"]
  /\ UNCHANGED <<class, mind, past, tape>>

Seats(a) == {s \in (DOMAIN now.plays) \X (1 .. 2) : now.plays[s[1]].seats[s[2]] = a}
UnitAt(s) == CASE class.scope = "step" -> <<>> [] class.scope = "role" -> <<s[2]>> [] class.scope = "encounter" -> s
UnitsFor(a) == {UnitAt(s) : s \in Seats(a)}
SeatsIn(a, u) == {s \in Seats(a) : UnitAt(s) = u}
RoleIn(a, u) == (CHOOSE s \in SeatsIn(a, u) : TRUE)[2]
Foe(s) == now.plays[s[1]].seats[3 - s[2]]
\* ctx.opponents(): under per-step decisions, those of the last encounter.
FoesIn(a, u) ==
  {Foe(s) : s \in {q \in SeatsIn(a, u) : class.scope = "step" => \A o \in SeatsIn(a, u) : o[1] <= q[1]}}

\* The last actions that the myopic answers: of the step before, or of the last meeting.
LastRecord == LET v == StepView(Depth, past.steps) IN IF v = <<>> THEN [a \in Player |-> 0] ELSE v[Len(v)]
LastMet(a, b) == LET v == PairView(Depth, past.pairs, a, b) IN IF v = <<>> THEN 0 ELSE v[Len(v)].other
LastSeen(a, b) == IF class.scope = "step" THEN LastRecord[b] ELSE LastMet(a, b)
Lasts(a, u) == [y \in Moves(class.game, 3 - RoleIn(a, u)) |-> Cardinality({b \in FoesIn(a, u) : LastSeen(a, b) = y})]

\* get_or_try_insert: an opponent met for the first time gets a memory of its own, made
\* for the role of that first meeting.
FirstSeat(a, b) == CHOOSE s \in Seats(a) : Foe(s) = b /\ \A o \in Seats(a) : Foe(o) = b => s[1] <= o[1]
Opened(a, upTo) ==
  LET met == {Foe(s) : s \in {q \in Seats(a) : q[1] <= upTo}}
  IN  IF ~ByOpponent(Rule(a)) THEN mind[a]
      ELSE [mind[a] EXCEPT !.by = [b \in DOMAIN mind[a].by \cup met |->
              IF b \in DOMAIN mind[a].by THEN mind[a].by[b] ELSE Fresh(class.game, Rule(a), FirstSeat(a, b)[2])]]
MemoryFor(a, u) == IF ByOpponent(Rule(a)) THEN Opened(a, Len(now.plays)).by[Foe(u)] ELSE mind[a].all

\* decide, and the check of its answer by the game: what it can answer, 0 for an error.
Answers(a, u) ==
  IF ~Shaped(class.game, Rule(a), MemoryFor(a, u), RoleIn(a, u)) THEN {0}
  ELSE {IF x \in Moves(class.game, RoleIn(a, u)) THEN x ELSE 0 :
          x \in Options(class.game, Rule(a), MemoryFor(a, u), RoleIn(a, u), Lasts(a, u))}
Decide(a) ==
  /\ now.status = "deciding" /\ now.turn = a
  /\ \E answer \in [UnitsFor(a) -> (UNION {Answers(a, u) : u \in UnitsFor(a)}) \ {0}] :
       /\ \A u \in UnitsFor(a) : answer[u] \in Answers(a, u)
       /\ now' = [now EXCEPT !.turn = a + 1, !.plays = [i \in DOMAIN now.plays |->
            [now.plays[i] EXCEPT !.acts = [role \in 1 .. 2 |->
               IF <<i, role>> \in Seats(a) THEN answer[UnitAt(<<i, role>>)] ELSE now.plays[i].acts[role]]]]]
  /\ mind' = [mind EXCEPT ![a] = Opened(a, Len(now.plays))]
  /\ UNCHANGED <<class, past, tape>>
\* A unit that fails ends the run; the units before it have had their answers.
Fail(a) ==
  /\ now.status = "deciding" /\ now.turn = a
  /\ \E u \in UnitsFor(a) :
       /\ 0 \in Answers(a, u)
       /\ \A v \in UnitsFor(a) : v # <<>> /\ v[1] < u[1] => Answers(a, v) # {0}
       /\ mind' = [mind EXCEPT ![a] = IF class.scope = "encounter" THEN Opened(a, u[1]) ELSE mind[a]]
  /\ now' = [now EXCEPT !.status = "broken"]
  /\ UNCHANGED <<class, past, tape>>

\* game_play: the meetings of every pair and a record of every agent join the histories.
Met ==
  FoldLeft(LAMBDA pairs, e : PushPair(Depth, pairs, Len(tape), e.seats[1], e.seats[2], e.acts[1], e.acts[2]), past.pairs, now.plays)
ActOf(a) == IF class.scope # "step" \/ Seats(a) = {} THEN 0
            ELSE LET s == CHOOSE s \in Seats(a) : TRUE IN now.plays[s[1]].acts[s[2]]

\* learn_encounter under per-encounter decisions, learn_step under the others: the own
\* encounters of the step in their order.
RoleOf(a, e) == IF e.seats[1] = a THEN 1 ELSE 2
Lesson(a, e) ==
  LET role == RoleOf(a, e)
  IN  [own |-> e.acts[role], other |-> e.acts[3 - role], foe |-> e.seats[3 - role], role |-> role,
       pay |-> class.game.pay[role][e.acts[role]][e.acts[3 - role]]]
LessonsIn(a, plays) ==
  LET own == SelectSeq(plays, LAMBDA e : a \in {e.seats[1], e.seats[2]}) IN [k \in DOMAIN own |-> Lesson(a, own[k])]
OneForAll(r, memory, l) ==   \* mutant: one memory whatever the scope
  [memory EXCEPT !.all = Observe(r, memory.all, l.own, l.other, l.pay)]
Remembered(r, memory, l) ==
  IF ~ByOpponent(r) THEN [memory EXCEPT !.all = Observe(r, memory.all, l.own, l.other, l.pay)]
  ELSE [memory EXCEPT !.by = [b \in DOMAIN memory.by \cup {l.foe} |->
          IF b # l.foe THEN memory.by[b]
          ELSE Observe(r, IF b \in DOMAIN memory.by THEN memory.by[b] ELSE Fresh(class.game, r, l.role), l.own, l.other, l.pay)]]
Viable(r, memory) ==
  r.kind = "roth_erev" => ErevViable(memory.all) /\ \A b \in DOMAIN memory.by : ErevViable(memory.by[b])
\* The first lesson that is refused is the last that is tried.
Learned(r, memory, lessons) ==
  LET taught(m, next) == IF m.ok /\ Viable(r, next) THEN [memory |-> next, ok |-> TRUE] ELSE [m EXCEPT !.ok = FALSE]
  IN  FoldLeft(LAMBDA m, l : taught(m, Remembered(r, m.memory, l)), [memory |-> memory, ok |-> TRUE], lessons)
\* The agents learn in the order of their ids, up to the first that fails, which ends the run.
Reward ==
  /\ now.status = "deciding" /\ now.turn = Len(class.cast) + 1
  /\ past' = [steps |-> PushRing(Depth, past.steps, [a \in Player |-> ActOf(a)]), pairs |-> Met]
  /\ tape' = Append(tape, now.plays)
  /\ LET after  == [a \in Player |-> Learned(Rule(a), mind[a], LessonsIn(a, now.plays))]
         failed == {a \in Player : ~after[a].ok}
     IN  /\ mind' = [a \in Player |-> IF \E b \in failed : b < a THEN mind[a] ELSE after[a].memory]
         /\ now' = IF failed = {} THEN [plays |-> <<>>, turn |-> 0, status |-> "between"]
                   ELSE [now EXCEPT !.status = "broken"]
  /\ UNCHANGED class

TNext == Assemble \/ Refuse \/ SitDown \/ Reward \/ \E a \in Player : Decide(a) \/ Fail(a)

-----------------------------------------------------------------------------
(* Properties *)

\* What the agent saw from its first step on, and what a rule should make of it.
Seen(a) == LessonsIn(a, FlattenSeq(tape))
Times(seen, y) == Cardinality({k \in DOMAIN seen : seen[k].other = y})
Recall(r, fresh, seen) ==
  LET n == Len(seen)
      age(k) == 2 ^ (r.phi * (n - k))
      share(x, k) == Experience(r, Len(fresh.weights), x, seen[k].own, seen[k].pay) \div age(k)
  IN  CASE r.kind = "fictitious" -> [counts |-> [y \in DOMAIN fresh.counts |-> fresh.counts[y] + Times(seen, y)]]
        [] r.kind = "logit"      -> [counts |-> [y \in DOMAIN fresh.counts |-> Times(seen, y)], last |-> IF n = 0 THEN 0 ELSE seen[n].other]
        [] r.kind = "roth_erev"  -> [weights |-> [x \in DOMAIN fresh.weights |->
                                       fresh.weights[x] \div age(0) + SumUp([k \in 1 .. n |-> share(x, k)])]]
        [] r.kind = "automaton"  -> [grim |-> \E k \in 1 .. n : seen[k].other # r.coop,
                                     own |-> IF n = 0 THEN 0 ELSE seen[n].own, other |-> IF n = 0 THEN 0 ELSE seen[n].other]
        [] r.kind = "tit_for_tat" -> [other |-> IF n = 0 THEN 0 ELSE seen[n].other]
        [] OTHER -> fresh

\* Every memory is what the encounters it is about make of it, each counted once and in
\* their order: all of them, or those with one opponent; and nobody knows anything of the
\* step that is being decided.
MindIsPast ==
  now.status \in {"between", "deciding"} =>
    \A a \in Player : \A seen \in {Seen(a)} :
      LET r == Rule(a)
          with(b) == SelectSeq(seen, LAMBDA l : l.foe = b)
          first(b) == IF with(b) # <<>> THEN with(b)[1].role ELSE FirstSeat(a, b)[2]
          met == {seen[k].foe : k \in DOMAIN seen} \cup (IF now.turn > a THEN {Foe(s) : s \in Seats(a)} ELSE {})
      IN  /\ mind[a].all = IF ByOpponent(r) THEN Fresh(class.game, r, 1) ELSE Recall(r, Fresh(class.game, r, 1), seen)
          /\ DOMAIN mind[a].by = IF ByOpponent(r) THEN met ELSE {}
          /\ \A b \in DOMAIN mind[a].by : mind[a].by[b] = Recall(r, Fresh(class.game, r, first(b)), with(b))

\* Why a run breaks.  A decision fails in a role with another number of actions than the
\* one its memory was made for, and for no other reason.  A lesson fails for Roth-Erev
\* alone, when what the agent has seen takes a propensity out of range: upwards, or down to
\* nothing under a rule that forgets and never experiments.
WrongShape(a) ==
  LET with(b) == SelectSeq(Seen(a), LAMBDA l : l.foe = b)
      made(b) == IF with(b) = <<>> THEN FirstSeat(a, b)[2] ELSE with(b)[1].role
  IN  \E s \in Seats(a) : s[2] # IF ByOpponent(Rule(a)) THEN made(Foe(s)) ELSE 1
OutOfRange(a) ==
  LET r == Rule(a)
      about(b) == IF ByOpponent(r) THEN SelectSeq(Seen(a), LAMBDA l : l.foe = b) ELSE Seen(a)
      weight(seen, n, x) == Recall(r, Fresh(class.game, r, IF ByOpponent(r) THEN seen[1].role ELSE 1), SubSeq(seen, 1, n)).weights[x]
  IN  \E b \in Player \ {a} : \E n \in DOMAIN about(b) : \E x \in Moves(class.game, about(b)[n].role) :
        \/ weight(about(b), n, x) > Largest
        \/ weight(about(b), n, x) < 1 /\ r.phi > 0 /\ r.epsilon = 0
BreaksForCause ==
  now.status = "broken" =>
    IF now.turn \in Player THEN class.game.acts[1] # class.game.acts[2] /\ WrongShape(now.turn)
    ELSE \E a \in Player : Rule(a).kind = "roth_erev" /\ OutOfRange(a)

\* The mix that is reported is the mix that is played, though decide and mixed compute it
\* separately; and the estimates of the frequency kind are those of the actions seen.
ReportIsPlayed ==
  now.status = "deciding" /\ class.scope # "encounter" =>
    \A a \in Player, role \in 1 .. 2 : \A mix \in {Report(class.game, Rule(a), mind[a].all, role)} :
      mix # <<>> =>
        /\ DOMAIN mix = Moves(class.game, role)
        /\ IF Rule(a).kind # "logit" THEN Sampled(mix) = Options(class.game, Rule(a), mind[a].all, role, <<>>)
           ELSE Rule(a).estimate = "frequency" /\ Rule(a).lambda > 0 =>
                  \A seen \in {Seen(a)}, x \in DOMAIN mix :
                    mix[x] = SumUp([k \in DOMAIN seen |-> class.game.pay[role][x][seen[k].other]])

\* The myopic answer what the opponents they sit with did last, however short the
\* histories are and however often a pair meets in one step.
MyopicSeesLast ==
  now.status = "deciding" =>
    \A a \in Player : Rule(a).kind = "myopic" => \A s \in Seats(a) :
      LET before == IF tape = <<>> THEN <<>> ELSE LessonsIn(Foe(s), tape[Len(tape)])
          met == SelectSeq(Seen(a), LAMBDA l : l.foe = Foe(s))
      IN  LastSeen(a, Foe(s)) = IF class.scope = "step" THEN (IF before = <<>> THEN 0 ELSE before[1].own)
                                ELSE IF met = <<>> THEN 0 ELSE met[Len(met)].other

\* All of it together: rules remember what happened and play what they report.
LearnersAsPromised == MindIsPast /\ BreaksForCause /\ ReportIsPlayed /\ MyopicSeesLast
=============================================================================
