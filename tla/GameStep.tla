------------------------------- MODULE GameStep -------------------------------
(***************************************************************************)
(* One game world through its steps: the mechanisms that assemble_parts or *)
(* assemble_async puts in the engine, in phase order.                      *)
(*                                                                         *)
(*   PreStep      Clear                                                    *)
(*   Decision     Match, then every seat of a held agent (SeatHeld), then  *)
(*                the agents with a rule, one after another (Decide)       *)
(*   Interaction  Play, or PlayImplicit when nobody decides                *)
(*   Reward       Learn, then the population update: Imitate or Moran; an  *)
(*                asynchronous assembly has Activate, ..., Record instead  *)
(*   PostStep     Measure (game_metrics, the convergence stop)             *)
(*                                                                         *)
(* The clock ticks before the first phase.  A step that fails leaves the   *)
(* world, the clock and a requested stop as they are at that moment; the   *)
(* caller may run on.                                                      *)
(***************************************************************************)
EXTENDS GamePlay
CONSTANTS Assemblies,   \* the assemblies a run may start from
          HistoryLen,   \* length of every ring
          Window,       \* stop_when_converged: the window
          MaxFails      \* bound: failed steps of a run
ASSUME StepAssumption ==
  HistoryLen \in Nat \ {0} /\ Window \in Nat \ {0} /\ MaxFails \in Nat

INSTANCE Histories

VARIABLES asm,      \* what was assembled, see Accepted; never changes
          t, pc,    \* the clock; the mechanism the step is at
          todo,     \* agents still to decide or to activate in this step
          world,    \* GameWorld: held, plays, payoff, n, counts, rings
          local,    \* the asynchronous mechanism's payoffs, kept between activations
          metrics,  \* MetricsState: prev, below; and whether a stop was asked for
          fails,
          log,      \* ghost: every play committed to the histories, in order
          ghost     \* ghost: what was learnt in this step; measured shares

vars == <<asm, t, pc, todo, world, local, metrics, fails, log, ghost>>

Held(a) == a \notin asm.rules                       \* PolicyTable::HELD
Async   == asm.update.mode = "async"
\* The implicit path: everybody holds, nobody asked to materialize.
ImplicitPath == asm.scope = "step" /\ asm.rules = {} /\ ~asm.materialize /\ Implicit(asm.matching)

\* assemble_parts and assemble_async_parts: the combinations that are accepted.
Accepted(a) ==
  /\ MatchingCheck(a.matching, a.game.roles, a.top, a.scope)
  /\ ValidNetwork(a.top)
  /\ a.update.mode # "none" =>
       /\ a.rules = {}
       /\ UpdateCheck(a.update, a.game, a.matching, a.top, a.agg, a.play)
  /\ a.update.mode = "async" =>
       a.scope = "step" /\ Implicit(a.matching) /\ ~a.materialize /\ a.update.rule # "moran"

\* What every Matching promises: known agents, one for each role of the game.  The
\* payoffs of a game are a table over the actions; a topology knows its own agents.
Encounter == [seats : Seq(Agent), credit : {"all", "center"}]
ASSUME AssemblyAssumption ==
  \A a \in Assemblies : Accepted(a) =>
    /\ a.game.roles \in Nat \ {0} /\ a.rules \subseteq Agent /\ a.update.mode \in {"none", "sync", "async"}
    /\ a.update.mode # "none" => a.update.rule \in {"best", "fermi", "proportional", "moran"}
    /\ a.scope \in {"step", "role", "encounter"} /\ a.agg \in {"sum", "mean"}
    /\ a.game.pay \in [Action -> [0 .. a.game.roles - 1 -> Int]]
    /\ a.top.nbrs \in [Agent -> Seq(Agent)] /\ a.top.edges \in Seq(Agent \X Agent)
    /\ \A es \in Encounters(a.matching, a.top) :
         es \in Seq(Encounter) /\ \A i \in DOMAIN es : Len(es[i].seats) = a.game.roles

NoRec == [action |-> NoAct, payoff |-> 0, n |-> 0]
NoShares == <<-1, 1>>

Init ==
  /\ asm \in {a \in Assemblies : Accepted(a)}
  /\ t = 0 /\ pc = "idle" /\ todo = {} /\ fails = 0 /\ log = <<>>
  /\ \E h \in [Agent -> Action] :
       world = [held |-> h, plays |-> <<>>, payoff |-> NoPay.pay, n |-> NoPay.n, counts |-> <<>>,
                steps |-> NewRing(HistoryLen, [a \in Agent |-> NoRec]), pairs |-> <<>>, aggs |-> NewTable]
  /\ local = NoPay.pay
  /\ metrics = [prev |-> NoShares, below |-> 0, stop |-> FALSE]
  /\ ghost = [learnt |-> <<>>, measured |-> <<>>]

-----------------------------------------------------------------------------
(* PreStep and Decision *)

\* Simulation::run goes on: it takes no step once a stop was requested.
RunsOn == pc = "idle" /\ t < asm.t_max /\ ~metrics.stop /\ fails <= MaxFails

\* The tick of the clock, and MatchMechanism in PreStep, or the asynchronous
\* mechanism's own PreStep.
ClearPlaysOnly ==   \* mutant: the totals of a step that failed stay
  /\ RunsOn
  /\ t' = t + 1
  /\ world' = [world EXCEPT !.plays = <<>>, !.counts = <<>>]
  /\ pc' = IF Async THEN "reward" ELSE IF ImplicitPath THEN "play" ELSE "match"
  /\ todo' = IF Async THEN Agent ELSE {}
  /\ ghost' = [ghost EXCEPT !.learnt = <<>>]
  /\ UNCHANGED <<asm, local, metrics, fails, log>>
Clear ==
  /\ RunsOn
  /\ t' = t + 1
  /\ world' = [world EXCEPT !.plays = <<>>, !.payoff = NoPay.pay, !.n = NoPay.n, !.counts = <<>>]
  /\ pc' = IF Async THEN "reward" ELSE IF ImplicitPath THEN "play" ELSE "match"
  /\ todo' = IF Async THEN Agent ELSE {}
  /\ ghost' = [ghost EXCEPT !.learnt = <<>>]
  /\ UNCHANGED <<asm, local, metrics, fails, log>>

Unfilled(e) == [seats |-> e.seats, credit |-> e.credit,
                acts |-> [r \in DOMAIN e.seats |-> NoAct], pays |-> [r \in DOMAIN e.seats |-> 0]]

Match ==
  /\ pc = "match"
  /\ \E es \in Encounters(asm.matching, asm.top) :
       world' = [world EXCEPT !.plays = [i \in DOMAIN es |-> Unfilled(es[i])]]
  /\ pc' = "held"
  /\ UNCHANGED <<asm, t, todo, local, metrics, fails, log, ghost>>

RolesOf(a) == {r \in 1 .. asm.game.roles : \E i \in DOMAIN world.plays : world.plays[i].seats[r] = a}
\* AmbiguousRole: one action for the step, but seats in two roles.
Ambiguous(a) == asm.scope = "step" /\ ~MultiRole(asm.matching) /\ Cardinality(RolesOf(a)) > 1

SeatActs(plays, Filled(_, _)) ==
  [i \in DOMAIN plays |-> [plays[i] EXCEPT !.acts =
     [r \in DOMAIN plays[i].seats |-> IF Filled(i, r) # NoAct THEN Filled(i, r) ELSE plays[i].acts[r]]]]

\* The first loop of RuleDriver::decide: the seats of agents without a rule.
SeatHeld ==
  /\ pc = "held"
  /\ \A a \in Agent \ asm.rules : ~Ambiguous(a)
  /\ world' = [world EXCEPT !.plays = SeatActs(world.plays, LAMBDA i, r :
                 IF Held(world.plays[i].seats[r]) THEN world.held[world.plays[i].seats[r]] ELSE NoAct)]
  /\ todo' = {a \in asm.rules : RolesOf(a) # {}}
  /\ pc' = "decide"
  /\ UNCHANGED <<asm, t, local, metrics, fails, log, ghost>>

\* The decision units of an agent: one, one per role, or one per seat.
UnitOf(i, r) ==
  IF asm.scope = "step" THEN <<>> ELSE IF asm.scope = "role" THEN <<r>> ELSE <<i, r>>
Units(a) ==
  {UnitOf(s[1], s[2]) : s \in {q \in (DOMAIN world.plays) \X RolesOf(a) : world.plays[q[1]].seats[q[2]] = a}}

\* An agent in the activation order answers; held changes only in per-step scope.
\* An illegal answer was already replaced by the fallback, or the step failed.
Decide(a) ==
  /\ pc = "decide" /\ a \in todo
  /\ ~Ambiguous(a)
  /\ \E answer \in [Units(a) -> Action] :
       world' = [world EXCEPT
         !.plays = SeatActs(world.plays, LAMBDA i, r :
                     IF world.plays[i].seats[r] = a THEN answer[UnitOf(i, r)] ELSE NoAct),
         !.held  = IF asm.scope = "step" THEN [world.held EXCEPT ![a] = answer[<<>>]] ELSE world.held]
  /\ todo' = todo \ {a}
  /\ UNCHANGED <<asm, t, pc, local, metrics, fails, log, ghost>>

-----------------------------------------------------------------------------
(* Interaction *)

Acts(plays) == [i \in DOMAIN plays |-> plays[i].acts]

\* AggregateCollector: here the share of seats playing 1, reduced by Mean.
AggRow(encounters) ==
  LET ones == FoldLeft(LAMBDA s, acts : s + Scale * CountOf(1, acts), 0, encounters)
  IN  [t |-> t, mean |-> IF encounters = <<>> THEN -1 ELSE ones \div Len(encounters)]

\* The records of one step, and what else PlayMechanism writes beside them.  The row of
\* the aggregate table comes last: it is missing (rows is empty) where the collector
\* meets a value that is not finite.
Commit(w, totals, records, rows) ==
  /\ log' = Append(log, [t |-> t, records |-> records, plays |-> w.plays, rows |-> rows])
  /\ world' = [w EXCEPT !.payoff = totals.pay, !.n = totals.n,
                        !.steps = PushRing(HistoryLen, w.steps, records),
                        !.aggs = IF rows = <<>> THEN w.aggs ELSE PushTable(HistoryLen, w.aggs, rows[1])]
RowOf(acts, tabled) == IF tabled THEN <<AggRow(acts)>> ELSE <<>>

\* The action of an agent's first seat; only one action exists in per-step scope.
FirstAct(plays, a) ==
  LET own == {s \in (DOMAIN plays) \X (1 .. asm.game.roles) : plays[s[1]].seats[s[2]] = a}
      first == CHOOSE f \in own : \A o \in own : f[1] < o[1] \/ (f[1] = o[1] /\ f[2] <= o[2])
  IN  IF own = {} THEN NoAct ELSE plays[first[1]].acts[first[2]]

\* Every play of two seats, one after the other.
PushPairs(pairs, plays) ==
  LET after[k \in 0 .. Len(plays)] ==
        IF k = 0 THEN pairs
        ELSE LET e == plays[k]
             IN  IF Len(e.seats) # 2 THEN after[k - 1]
                 ELSE PushPair(HistoryLen, after[k - 1], t, e.seats[1], e.seats[2], e.acts[1], e.acts[2])
  IN  after[Len(plays)]

\* The payoffs written back to the arena, of the first k encounters.
Paid(plays, k) ==
  [i \in DOMAIN plays |-> [plays[i] EXCEPT !.pays =
     IF i <= k THEN SeatPayoffs(asm.game, asm.play, plays[i].acts) ELSE plays[i].pays]]

RecordPlays(tabled) ==
  LET w == world
      totals == Averaged(asm.agg, Played([pay |-> w.payoff, n |-> w.n], asm.game, asm.play, w.plays, Acts(w.plays)))
      records == [a \in Agent |-> [action |-> IF asm.scope = "step" THEN FirstAct(w.plays, a) ELSE NoAct,
                                   payoff |-> totals.pay[a], n |-> totals.n[a]]]
  IN  Commit([w EXCEPT !.pairs = PushPairs(w.pairs, w.plays), !.plays = Paid(w.plays, Len(w.plays))],
             totals, records, RowOf(Acts(w.plays), tabled))
Play ==
  /\ pc = "decide" /\ todo = {}
  /\ RecordPlays(TRUE)
  /\ pc' = "reward"
  /\ UNCHANGED <<asm, t, todo, local, metrics, fails, ghost>>

\* record_implicit_step: everybody plays what it holds; only counts are kept of the seats.
RecordImplicit(w, tabled) ==
  LET es     == CHOOSE l \in Encounters(asm.matching, asm.top) : TRUE
      acts   == [i \in DOMAIN es |-> Seated(w.held, es[i])]
      totals == ImplicitFrom([pay |-> w.payoff, n |-> w.n], asm.game, asm.play, asm.agg,
                             asm.matching, asm.top, w.held)
      recs   == [a \in Agent |-> [action |-> IF totals.n[a] > 0 THEN w.held[a] ELSE NoAct,
                                  payoff |-> totals.pay[a], n |-> totals.n[a]]]
  IN  Commit([w EXCEPT !.counts = FlattenSeq(acts)], totals, recs, RowOf(acts, tabled))

PlayImplicit ==
  /\ pc = "play"
  /\ RecordImplicit(world, TRUE)
  /\ pc' = "reward"
  /\ UNCHANGED <<asm, t, todo, local, metrics, fails, ghost>>

-----------------------------------------------------------------------------
(* Reward *)

\* LearnContext::outcomes: the encounters with a seat of a, paid or not, each seen
\* from the first such seat; here by their positions among the plays.
FirstSeat(e, a) == CHOOSE r \in DOMAIN e.seats : e.seats[r] = a /\ \A q \in 1 .. r - 1 : e.seats[q] # a
Outcomes(a) ==
  [i \in {j \in DOMAIN world.plays : a \in ToSet(world.plays[j].seats)} |->
     LET e == world.plays[i] IN [action |-> e.acts[FirstSeat(e, a)], payoff |-> e.pays[FirstSeat(e, a)]]]

\* RuleDriver::learn: every agent with a rule gets its last record and its outcomes.
Learn ==
  /\ pc = "reward" /\ ~Async
  /\ ghost' = [ghost EXCEPT !.learnt =
       [a \in asm.rules |-> [record   |-> LET v == StepView(HistoryLen, world.steps) IN v[Len(v)][a],
                             outcomes |-> Outcomes(a)]]]
  /\ pc' = IF asm.update.mode = "none" THEN "post" ELSE "update"
  /\ UNCHANGED <<asm, t, todo, world, local, metrics, fails, log>>

\* CopyMechanism: every source is chosen from the actions and payoffs before the update.
Imitate ==
  /\ pc = "update" /\ asm.update.rule # "moran"
  /\ \E next \in [Agent -> Action] :
       /\ \A a \in Agent : \E b \in Sources(asm.update, asm.top, world.held, world.payoff, a) :
            next[a] = world.held[b]
       /\ world' = [world EXCEPT !.held = next]
  /\ pc' = "post"
  /\ UNCHANGED <<asm, t, todo, local, metrics, fails, log, ghost>>

\* MoranMechanism: a parent drawn by weight, anybody dies, the child may mutate.
Moran ==
  /\ pc = "update" /\ asm.update.rule = "moran"
  /\ \A a \in Agent : Weight(world.payoff, a) >= 0
  /\ \E parent \in {a \in Agent : Weight(world.payoff, a) > 0}, death \in Agent :
       \E child \in {world.held[parent]} \cup (IF asm.update.mutates THEN Action ELSE {}) :
         world' = [world EXCEPT !.held = [world.held EXCEPT ![death] = child]]
  /\ pc' = "post"
  /\ UNCHANGED <<asm, t, todo, local, metrics, fails, log, ghost>>

\* refresh_local: everybody in a whole-population game, otherwise the agent and
\* those it may compare itself with.
RefreshedAlone(a) ==   \* mutant: those it compares itself with keep an old payoff
  [pay |-> [local EXCEPT ![a] = LocalPayoff(asm.game, asm.play, asm.agg, asm.matching, asm.top, world.held, a)]]
Refreshed(a) ==
  IF asm.matching.kind = "whole"
  THEN ImplicitPayoffs(asm.game, asm.play, asm.agg, asm.matching, asm.top, world.held)
  ELSE LET near == {a} \cup (IF asm.top.kind = "none" THEN Agent ELSE ToSet(asm.top.nbrs[a]))
       IN  [pay |-> [b \in Agent |->
              IF b \in near
              THEN LocalPayoff(asm.game, asm.play, asm.agg, asm.matching, asm.top, world.held, b)
              ELSE local[b]]]

\* In agent order everybody is activated once; otherwise n draws with replacement.
Activate(a) ==
  /\ pc = "reward" /\ Async /\ todo # {}
  /\ asm.update.activation = "order" => a \in todo
  /\ todo' = IF asm.update.activation = "order" THEN todo \ {a} ELSE todo \ {Min(todo)}
  /\ local' = Refreshed(a).pay
  /\ \E b \in Sources(asm.update, asm.top, world.held, local', a) :
       world' = [world EXCEPT !.held = [world.held EXCEPT ![a] = world.held[b]]]
  /\ UNCHANGED <<asm, t, pc, metrics, fails, log, ghost>>

\* The end of update_and_record: the profile after all updates is played and recorded.
Emptied == [world EXCEPT !.payoff = NoPay.pay, !.n = NoPay.n, !.counts = <<>>]
Record ==
  /\ pc = "reward" /\ Async /\ todo = {}
  /\ RecordImplicit(Emptied, TRUE)
  /\ pc' = "post"
  /\ UNCHANGED <<asm, t, todo, local, metrics, fails, ghost>>

-----------------------------------------------------------------------------
(* PostStep *)

\* push_action_metrics: the share of 1 among all played seats, as <<count, seats>>.
Shares ==
  LET seats == IF world.plays # <<>> THEN FlattenSeq(Acts(world.plays)) ELSE world.counts
  IN  IF seats = <<>> THEN NoShares ELSE <<CountOf(1, seats), Len(seats)>>

\* Small: the change is below the tolerance, 1/4.
Small(p, q) == 4 * ((p[1] * q[2]) - (q[1] * p[2])) < p[2] * q[2] /\ 4 * ((q[1] * p[2]) - (p[1] * q[2])) < p[2] * q[2]

\* update_convergence: a step without plays resets the count and keeps prev.
ConvergedAcrossGaps(m, s) ==   \* mutant: a step without plays does not reset the count
  LET below == IF m.prev = NoShares \/ ~Small(m.prev, s) THEN 0 ELSE m.below + 1
  IN  IF s = NoShares THEN m ELSE [prev |-> s, below |-> below, stop |-> m.stop \/ below >= Window]
Converged(m, s) ==
  LET below == IF m.prev = NoShares \/ ~Small(m.prev, s) THEN 0 ELSE m.below + 1
  IN  IF s = NoShares THEN [m EXCEPT !.below = 0]
      ELSE [prev |-> s, below |-> below, stop |-> m.stop \/ below >= Window]

Measure ==
  /\ pc = "post"
  /\ metrics' = Converged(metrics, Shares)
  /\ ghost' = [ghost EXCEPT !.measured = Append(ghost.measured, Shares)]
  /\ pc' = "end"
  /\ UNCHANGED <<asm, t, todo, world, local, fails, log>>

\* Simulation::step succeeds; a requested stop ends the run.
EndStep ==
  /\ pc = "end"
  /\ pc' = "idle"
  /\ UNCHANGED <<asm, t, todo, world, local, metrics, fails, log, ghost>>

\* What is left of a mechanism of the game that failed: a kernel has credited the
\* encounters before the one it failed at; a collector comes after the records.
KernelFails ==
  /\ pc = "decide" /\ todo = {}
  /\ \E k \in 0 .. Len(world.plays) :
       LET part == Played([pay |-> world.payoff, n |-> world.n], asm.game, asm.play, SubSeq(world.plays, 1, k), Acts(world.plays))
       IN  world' = [world EXCEPT !.payoff = part.pay, !.n = part.n, !.plays = Paid(world.plays, k)]
  /\ UNCHANGED log
ImplicitFails ==
  /\ pc = "play" \/ (pc = "reward" /\ Async /\ todo = {})
  /\ \E es \in Encounters(asm.matching, asm.top) : \E k \in 0 .. Len(es) :
       LET acts == [i \in 1 .. k |-> Seated(world.held, es[i])]
           part == Played(NoPay, asm.game, asm.play, SubSeq(es, 1, k), acts)
       IN  world' = [world EXCEPT !.payoff = part.pay, !.n = part.n, !.counts = FlattenSeq(acts)]
  /\ UNCHANGED log
RowFails ==
  \/ pc = "decide" /\ todo = {} /\ RecordPlays(FALSE)
  \/ pc = "play" /\ RecordImplicit(world, FALSE)
  \/ pc = "reward" /\ Async /\ todo = {} /\ RecordImplicit(Emptied, FALSE)

\* A mechanism, of the game or another one's, returns an error: the rest of the step is
\* dropped.  The clock has ticked, also if nothing else was done yet, and a stop that
\* was requested stays requested.
Fail ==
  /\ fails <= MaxFails
  /\ IF pc = "idle" THEN RunsOn /\ t' = t + 1 ELSE UNCHANGED t
  /\ (UNCHANGED <<world, log>>) \/ KernelFails \/ ImplicitFails \/ RowFails
  /\ pc' = "idle" /\ fails' = fails + 1
  /\ UNCHANGED <<asm, todo, local, metrics, ghost>>

Over == pc = "idle" /\ ~RunsOn
Stopped == Over /\ UNCHANGED vars

Next == \/ Clear \/ Match \/ SeatHeld \/ Play \/ PlayImplicit \/ Learn \/ Imitate \/ Moran
        \/ Record \/ Measure \/ EndStep \/ Fail \/ Stopped
        \/ \E a \in Agent : Decide(a) \/ Activate(a)
Spec == Init /\ [][Next]_vars

-----------------------------------------------------------------------------
(* Properties *)

\* The meetings of a with b that a log holds, as a saw them.
Met(a, b, e) == Len(e.seats) = 2 /\ {e.seats[1], e.seats[2]} = {a, b}
Seen(a, b, when, e) ==
  LET r == IF e.seats[1] = a THEN 1 ELSE 2
  IN  [t |-> when, mine |-> e.acts[r], other |-> e.acts[3 - r]]
MetIn(a, b, when, plays) ==
  LET met[k \in 0 .. Len(plays)] ==
        IF k = 0 THEN <<>>
        ELSE IF Met(a, b, plays[k]) THEN Append(met[k - 1], Seen(a, b, when, plays[k])) ELSE met[k - 1]
  IN  met[Len(plays)]
Meetings(l, a, b) ==
  LET upTo[j \in 0 .. Len(l)] == IF j = 0 THEN <<>> ELSE upTo[j - 1] \o MetIn(a, b, l[j].t, l[j].plays)
  IN  upTo[Len(l)]

\* The step histories and the aggregate table show the last entries committed.
Records(l) == [i \in DOMAIN l |-> l[i].records]
Rows(l) ==
  LET upTo[k \in 0 .. Len(l)] == IF k = 0 THEN <<>> ELSE upTo[k - 1] \o l[k].rows IN upTo[Len(l)]
RecordsAreLog ==
  /\ StepView(HistoryLen, world.steps) = LastOf(HistoryLen, Records(log))
  /\ TableView(HistoryLen, world.aggs) = LastOf(HistoryLen, Rows(log))

\* What rules, metrics and users read of the past is the past: after any steps,
\* failed ones included, each agent's step history, the history of every pair from
\* both sides, and the aggregate table are exactly the last entries of the plays
\* that were committed, oldest first.  A step that fails before its records are
\* written leaves no trace; one whose aggregates are refused stays in the histories
\* without a row, so that a table reaches further back than they do; one that fails
\* later stays in all three.
HistoriesAreLog ==
  /\ RecordsAreLog
  /\ \A a, b \in Agent : a # b =>
       PairView(HistoryLen, world.pairs, a, b) = LastOf(HistoryLen, Meetings(log, a, b))

\* What the paid encounters of a list pay an agent.
Earned(plays, a) ==
  LET upTo[k \in 0 .. Len(plays)] ==
        IF k = 0 THEN 0 ELSE upTo[k - 1] + Scale * SeatSum(plays[k].pays, PaidSeats(plays[k], a))
  IN  upTo[Len(plays)]

\* A rule learns from the step it just played: the record it is given is this
\* step's, its payoff is what its own paid encounters of this step pay, summed or
\* averaged, whatever an earlier step that failed had credited; and under per-step
\* decisions every one of its encounters shows the action the record shows, which
\* is the action it holds.
LearnsOwnStep ==
  pc \in {"update", "post", "end"} =>
    \A a \in DOMAIN ghost.learnt :
      LET rec  == ghost.learnt[a].record
          own  == ghost.learnt[a].outcomes
          sum  == Earned(world.plays, a)
      IN  /\ log[Len(log)].t = t /\ rec = log[Len(log)].records[a]
          /\ rec.payoff = IF asm.agg = "mean" /\ rec.n > 0 THEN sum \div rec.n ELSE sum
          /\ asm.scope = "step" /\ DOMAIN own # {} =>
               /\ \A i \in DOMAIN own : own[i].action = rec.action
               /\ rec.action = world.held[a]

\* An update that was accepted at assembly never meets a payoff outside the range
\* it was checked against: the copying probability of replicator_update stays in
\* [0, 1] unclamped and a Moran step always finds positive fitness, also for
\* agents that sat the step out.
PayoffsInRange ==
  (/\ pc \in {"update", "post", "end"}
   /\ asm.update.mode # "none" /\ asm.update.rule \in {"proportional", "moran"}) =>
    LET range == StepRange(SingleRange(asm.game), Bounds(asm.matching, asm.top), asm.agg)
    IN  /\ \A a \in Agent : world.payoff[a] \in range.low .. range.high
        /\ asm.update.rule = "moran" => \A a \in Agent : Weight(world.payoff, a) > 0

\* The sources full play of this very profile allows an agent, and the parents it
\* pays.  A matching that draws its encounters leaves the payoffs to the draw.
FullPay(a, held) == ImplicitPayoffs(a.game, a.play, a.agg, a.matching, a.top, held).pay
Justified(a, held, x, b) ==
  IF Implicit(a.matching) THEN b \in Sources(a.update, a.top, held, FullPay(a, held), x)
  ELSE b = x \/ b \in Partners(a.top, x)
Fertile(a, held, parent) == Implicit(a.matching) => Weight(FullPay(a, held), parent) > 0

\* Every change of what agents hold is justified by the payoffs of the profile of
\* that very moment, as full play computes them: nobody acts on a payoff that an
\* earlier activation, an earlier step or a failed one left behind.
Profile == INSTANCE Evolution WITH held <- world.held, MayCopy <- Justified, MayBear <- Fertile
TruePayoffs == Profile!Spec

PlayedBefore(m, i) == {j \in 1 .. i - 1 : m[j] # NoShares}

\* A run that game_metrics stops has come to rest: the last Window evaluated steps
\* were all played and changed the shares by less than the tolerance from the
\* shares measured before, across steps without plays and across failed steps.
StopsWhenStill ==
  metrics.stop =>
    \A i \in Len(ghost.measured) - Window + 1 .. Len(ghost.measured) :
      LET m      == ghost.measured
          before == PlayedBefore(m, i)
      IN  m[i] # NoShares /\ before # {} /\ Small(m[Max(before)], m[i])
=============================================================================
