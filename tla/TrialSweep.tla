------------------------------ MODULE TrialSweep ------------------------------
(***************************************************************************)
(* The runner: run_seeds and run_sweep, and their checked counterparts     *)
(* run_trials and run_trial_sweep.  Trials of one grid point run on the    *)
(* threads of rayon in any order; grid points run one after another.       *)
(*                                                                         *)
(* A scenario has a world table, from paths to slots, and a sequence of    *)
(* mechanism entries with a name and parameters.  A slot holds a number,   *)
(* in halves, or something that is none.  A sweep key is the sequence of   *)
(* its segments between dots.                                              *)
(***************************************************************************)
EXTENDS Integers, Sequences, FiniteSets, SequencesExt, FiniteSetsExt
CONSTANTS Scenario,          \* the base scenario
          Calls,             \* the calls that are made: driver, axes, seeds, parallel
          Valid(_),          \* TrialFactory::validate
          Outcome(_, _),     \* a trial is a function of scenario and seed: [ok, rows recorded]
          Threads            \* bound: trials that run at once

\* Calls: the values of an axis are f64, in halves, the seeds u64.
Figure    == [finite : BOOLEAN, halves : Int]
SweepAxis == [key : Seq(STRING), values : Seq(Figure)]
SweepCall == [driver : {"run_seeds", "run_trials", "run_sweep", "run_trial_sweep"},
              axes : Seq(SweepAxis), seeds : Seq(Nat), parallel : BOOLEAN]

ASSUME CallsAssumption == Calls \subseteq SweepCall

VARIABLES call, plan, point, running, outcomes, first, points, answer

svars == <<call, plan, point, running, outcomes, first, points, answer>>

None == [tag |-> "none"]
Err(what, at) == [tag |-> "error", what |-> what, at |-> at]
Ok(results) == [tag |-> "ok", results |-> results]

Sweeps  == {"run_sweep", "run_trial_sweep"}
Checked == call.driver \in {"run_trials", "run_trial_sweep"}

-----------------------------------------------------------------------------
(* Keys and patches *)

\* parse_key: a path into the world, or a parameter of a mechanism, or an error.
IsWorldPath(key) == Len(key) >= 2 /\ key[1] = "world" /\ "" \notin ToSet(Tail(key))
IsMechParam(key) == Len(key) = 2 /\ key[1] # "world" /\ "" \notin ToSet(key)

\* write_existing: an integer takes integral values only, a float any, nothing else.
Writable(slot, v) == slot.type = "float" \/ (slot.type = "int" /\ v.halves % 2 = 0)

Entries(scn, name) == {i \in DOMAIN scn.mechs : scn.mechs[i].name = name}
HasParam(entry, p) == p \in DOMAIN entry.params

CanPatch(scn, key, v) ==
  /\ v.finite
  /\ \/ IsWorldPath(key) /\ Tail(key) \in DOMAIN scn.world /\ Writable(scn.world[Tail(key)], v)
     \/ /\ IsMechParam(key) /\ Entries(scn, key[1]) # {}
        /\ \A i \in Entries(scn, key[1]) :
             HasParam(scn.mechs[i], Tail(key)) => Writable(scn.mechs[i].params[Tail(key)], v)

Put(params, p, slot) == [q \in DOMAIN params \cup {p} |-> IF q = p THEN slot ELSE params[q]]

\* patch: a slot keeps its type, a missing parameter is added as a float.
Patched(scn, key, v) ==
  IF IsWorldPath(key)
  THEN [scn EXCEPT !.world[Tail(key)] = [type |-> scn.world[Tail(key)].type, num |-> v]]
  ELSE [scn EXCEPT !.mechs = [i \in DOMAIN scn.mechs |->
         IF i \notin Entries(scn, key[1]) THEN scn.mechs[i]
         ELSE [scn.mechs[i] EXCEPT !.params = Put(scn.mechs[i].params, Tail(key),
                [type |-> IF HasParam(scn.mechs[i], Tail(key)) THEN scn.mechs[i].params[Tail(key)].type ELSE "float",
                 num  |-> v])]]]

\* run_sweep: always a float; keys without a dot and unknown mechanisms are ignored.
LoosePatched(scn, key, v) ==
  IF Len(key) < 2 THEN scn
  ELSE [scn EXCEPT !.mechs = [i \in DOMAIN scn.mechs |->
         IF scn.mechs[i].name # key[1] THEN scn.mechs[i]
         ELSE [scn.mechs[i] EXCEPT !.params = Put(scn.mechs[i].params, Tail(key), [type |-> "float", num |-> v])]]]

\* cartesian_product: every row so far is extended by every value of the next axis.
Extend(rows, axis) ==
  LET count == Len(axis.values)
  IN  [k \in 1 .. Len(rows) * count |->
         Append(rows[((k - 1) \div count) + 1], [key |-> axis.key, value |-> axis.values[((k - 1) % count) + 1]])]
Grid(axes) ==
  LET upTo[n \in 0 .. Len(axes)] == IF n = 0 THEN << <<>> >> ELSE Extend(upTo[n - 1], axes[n])
  IN  upTo[Len(axes)]

\* The scenario of a combination, one axis after another; stuck at the first bad one.
Effective(combo, loose) ==
  LET upTo[n \in 0 .. Len(combo)] ==
        IF n = 0 THEN [scn |-> Scenario, bad |-> 0]
        ELSE IF upTo[n - 1].bad # 0 THEN upTo[n - 1]
        ELSE IF loose THEN [scn |-> LoosePatched(upTo[n - 1].scn, combo[n].key, combo[n].value), bad |-> 0]
        ELSE IF CanPatch(upTo[n - 1].scn, combo[n].key, combo[n].value)
             THEN [scn |-> Patched(upTo[n - 1].scn, combo[n].key, combo[n].value), bad |-> 0]
             ELSE [upTo[n - 1] EXCEPT !.bad = n]
  IN  upTo[Len(combo)]

\* The loop over the axes: grammar, duplicates, empty axes.
BadAxes(axes) ==
  {i \in DOMAIN axes : \/ ~IsWorldPath(axes[i].key) /\ ~IsMechParam(axes[i].key)
                       \/ \E j \in 1 .. i - 1 : axes[j].key = axes[i].key
                       \/ axes[i].values = <<>>}

\* Patching and validation of the grid points, up to the first that fails.
BadPoints(grid) ==
  {i \in DOMAIN grid : LET e == Effective(grid[i], FALSE) IN e.bad # 0 \/ ~Valid(e.scn)}

-----------------------------------------------------------------------------
(* The calls *)

SweepInit ==
  /\ call \in Calls
  /\ plan = <<>> /\ point = 0 /\ running = {} /\ outcomes = << >> /\ first = 0 /\ points = <<>>
  /\ answer = None

\* Everything before the first trial.
Prepare ==
  /\ point = 0 /\ answer = None
  /\ LET grid == IF call.driver \in Sweeps THEN Grid(call.axes) ELSE << <<>> >>
         bad  == IF call.driver = "run_trial_sweep" /\ BadAxes(call.axes) # {}
                 THEN Err("axis", Min(BadAxes(call.axes)))
                 ELSE IF Checked /\ BadPoints(grid) # {} THEN Err("combination", Min(BadPoints(grid))) ELSE None
     IN  /\ answer' = IF bad = None /\ grid = <<>> THEN Ok(<<>>) ELSE bad
         /\ plan' = IF bad = None
                    THEN [i \in DOMAIN grid |-> [params |-> grid[i], scn |-> Effective(grid[i], ~Checked).scn]]
                    ELSE <<>>
  /\ point' = 1
  /\ UNCHANGED <<call, running, outcomes, first, points>>

AtPoint == answer = None /\ point \in DOMAIN plan
Waiting == DOMAIN call.seeds \ (running \cup DOMAIN outcomes)

\* A thread takes a trial: in input order without parallel.  collect() into a
\* Result gives up what has not started once an error is there.
Start(i) ==
  /\ AtPoint /\ i \in Waiting
  /\ IF call.parallel THEN Cardinality(running) < Threads ELSE running = {} /\ i = Min(Waiting)
  /\ ~Checked => first = 0
  /\ running' = running \cup {i}
  /\ UNCHANGED <<call, plan, point, outcomes, first, points, answer>>

\* build_trial and execute_trial, which touch nothing outside of their trial.
Finish(i) ==
  /\ AtPoint /\ i \in running
  /\ running' = running \ {i}
  /\ LET o == Outcome(plan[point].scn, call.seeds[i])
     IN  /\ outcomes' = [j \in DOMAIN outcomes \cup {i} |-> IF j = i THEN o ELSE outcomes[j]]
         /\ first' = IF ~o.ok /\ first = 0 THEN i ELSE first
  /\ UNCHANGED <<call, plan, point, points, answer>>

\* The error to report: of the seed that comes first, or of the trial that failed first.
FirstToFail == first            \* mutant: what the unchecked drivers report
ErrorOf == LET failed == {i \in DOMAIN outcomes : ~outcomes[i].ok}
           IN  IF failed = {} THEN 0 ELSE IF Checked THEN Min(failed) ELSE first

\* sort_by_key, a stable sort: input positions by seed.
BySeed(seeds) == SetToSortSeq(DOMAIN seeds, LAMBDA i, j :
                   seeds[i] < seeds[j] \/ (seeds[i] = seeds[j] /\ i < j))
Sorted(results) ==
  LET order == BySeed(call.seeds)
  IN  [k \in DOMAIN order |-> [seed |-> call.seeds[order[k]], rows |-> results[order[k]].rows]]

\* execute_trial's final_metrics: the last value recorded of every key.
Final(rows) ==
  [k \in {rows[i].key : i \in DOMAIN rows} |-> rows[Max({i \in DOMAIN rows : rows[i].key = k})].value]

\* summarize: over the trials that recorded a key.
Summary(results) ==
  LET finals == [r \in DOMAIN results |-> Final(results[r].rows)]
      have(k) == {r \in DOMAIN finals : k \in DOMAIN finals[r]}
  IN  [k \in UNION {DOMAIN finals[r] : r \in DOMAIN finals} |->
         [n |-> Cardinality(have(k)), total |-> MapThenSumSet(LAMBDA r : finals[r][k], have(k)),
          min |-> Min({finals[r][k] : r \in have(k)}), max |-> Max({finals[r][k] : r \in have(k)})]]

\* What a grid point gives: the sorted results, and for a sweep its values and their summary.
Gives(params, results) ==
  IF call.driver \in Sweeps THEN [params |-> params, summary |-> Summary(Sorted(results))] ELSE Sorted(results)

\* A grid point is through: go on to the next, or answer.
EndPoint ==
  /\ AtPoint /\ running = {} /\ (Waiting = {} \/ (first > 0 /\ ~Checked))
  /\ IF ErrorOf > 0
     THEN answer' = Err("trial", ErrorOf) /\ UNCHANGED points
     ELSE /\ points' = Append(points, Gives(plan[point].params, outcomes))
          /\ answer' = IF point < Len(plan) THEN None ELSE Ok(points')
  /\ point' = point + 1 /\ outcomes' = << >> /\ first' = 0
  /\ UNCHANGED <<call, plan, running>>

SweepAnswered == answer # None /\ UNCHANGED svars

SweepNext == \/ Prepare \/ EndPoint \/ SweepAnswered
             \/ \E i \in DOMAIN call.seeds : Start(i) \/ Finish(i)
SweepSpec == SweepInit /\ [][SweepNext]_svars

-----------------------------------------------------------------------------
(* Properties *)

\* The combination at place g of the grid, counted: the last axis varies fastest.
\* Stride(axes)[d] is the number of combinations of the last d axes.
Stride(axes) ==
  LET of[d \in 0 .. Len(axes)] ==
        IF d = 0 THEN 1 ELSE Len(axes[Len(axes) - d + 1].values) * of[d - 1]
  IN  of
Place(axes, g) ==
  [a \in DOMAIN axes |->
     [key   |-> axes[a].key,
      value |-> axes[a].values[(((g - 1) \div Stride(axes)[Len(axes) - a]) % Len(axes[a].values)) + 1]]]
Size(axes) == Stride(axes)[Len(axes)]
Combos == IF call.driver \in Sweeps THEN [g \in 1 .. Size(call.axes) |-> Place(call.axes, g)] ELSE << <<>> >>

Scn(g)    == Effective(Combos[g], ~Checked).scn
FailedAt(g) == {i \in DOMAIN call.seeds : ~Outcome(Scn(g), call.seeds[i]).ok}
Result(g) == Gives(Combos[g], [i \in DOMAIN call.seeds |-> Outcome(Scn(g), call.seeds[i])])

NoTrialOfABadGrid ==
  Checked /\ (running # {} \/ outcomes # << >> \/ points # <<>>) =>
    /\ call.driver \in Sweeps => BadAxes(call.axes) = {}
    /\ \A g \in DOMAIN Combos : /\ Effective(Combos[g], FALSE).bad = 0
                                /\ Valid(Scn(g))

\* Whatever the threads do, the answer is that of a plain loop over the grid and the
\* seeds: every point in grid order, every result in the order of its seed, and the
\* checked drivers report the first failing seed of the first failing point; the
\* others report some failing seed of that point, the first one without parallel.  As
\* soon as a trial of the checked drivers runs, every grid point of the call has been
\* patched without an error and was found valid.
AnswersAsLoop ==
  NoTrialOfABadGrid /\
  LET bad == {g \in DOMAIN Combos : FailedAt(g) # {}}
  IN  /\ answer.tag = "ok" => bad = {} /\ answer.results = [g \in DOMAIN Combos |-> Result(g)]
      /\ answer.tag = "error" /\ answer.what = "trial" =>
           /\ bad # {} /\ answer.at \in FailedAt(Min(bad))
           /\ Checked \/ ~call.parallel => answer.at = Min(FailedAt(Min(bad)))
=============================================================================
