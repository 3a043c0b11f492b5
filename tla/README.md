# A TLA+ model of socsim

This directory is a verification development of the `socsim` workspace: a Rust
tool box for social simulations (an engine, mechanisms, repeated games, games
played by language models, networks and grids, runners and data tools). TLC
checks the modules on small instances; TLAPS proves the central properties of
the engine, of resumption, of the persistent and concurrent parts, of the LLM
driver, of the game step and of what spreads among agents, for every value of
the constants.

Run a model with `tlc -config X.cfg M`, a proof with `tlapm M.tla`. The table
under "Runs" names module and configuration of every run.

## 1. The system

| Part | State it keeps | Operations | Talks to | Modules |
|---|---|---|---|---|
| engine (`socsim-engine`, `socsim-core`) | world with its clock, generator, stop flag, blackboard | `step`, `run`, `run_until`, `run_observed`, `snapshot`, `restore`, `save`, `load` | mechanisms, scheduler, recorder | `Engine`, `Resume` |
| stopping mechanisms (`socsim-mechanisms`) | a private random stream; the opinions of the previous step | `apply` in PostStep | sets the engine's stop flag | `Resume` |
| game step (`socsim-games`) | held actions, this step's plays, history rings, policy states | match, decide, play, learn; population updates; metrics | rules, games, recorder | `Histories`, `GamePlay`, `GameStep`, `Evolution` |
| decision rules | a memory per agent, or per agent and opponent | `init_state`, `decide`, `learn_step`, `learn_encounter`, `mixed` | the game step | `Learners`, `Markets` |
| stage games and solvers | none, or the solver's tableau | constructors, payoffs, equilibria, responses | rules, metrics, exports | `Catalog`, `Equilibria`, `Responses` |
| configuration and factory | none | read, validate, build a trial | all game parts, networks, grids | `Scenarios`, `ScenarioRuns` |
| game export | a solution set | `push_*`, `write_artifacts` | the disk | `Artifacts` |
| LLM driver and policy | pending decisions, conversations, replay manifest | `decide`, `learn` | store, executor | `LlmDecide` |
| LLM executor | job queue, event channel, deadlines, stop flags, threads | `execute` | one backend per thread | `Batch`, `LlmExecutor` |
| LLM response store | base file, one shard per run, records in memory | `open`, `get`, `insert`, `merge_shards` | the disk, other processes | `ResponseStore` |
| LLM clients (`socsim-llm`) | prompt cache and its file | `complete`, `save`, `open` | backends, the disk | `PromptCache` |
| runner (`socsim-runner`) | results of trials | `run_seeds`, `run_sweep`, `run_trials`, `run_trial_sweep` | engine, a thread pool | `TrialSweep` |
| random numbers (`socsim-rng`) | seed and position | `from_seed`, `derive`, draws | everything | `Streams` |
| recorders (`socsim-log`) | wide table, sink, last error | `record_*`, `take_error` | the disk | `Recorders` |
| data sets (`socsim-datasets`) | files on disk | `fetch`, `raw_to_csv` | servers | `DatasetFetch` |
| networks (`socsim-net`) | slots, index, ties | calls, queries, generators | mechanisms | `SocialNet`, `NetGenerators` |
| grid (`socsim-grid`) | cells and positions | moves, neighbourhoods, distances | mechanisms | `Lattice` |
| opinion and contagion mechanisms | none (they change the world) | `apply` | world, generator | `OpinionDynamics`, `Contagion` |
| model packs (`socsim-packs`) | the firm, the office | one mechanism per phase | networks, LLM clients | `HrLifecycle`, `OrgSilence` |
| MARL, metrics library, surveys, command line, run directories | per part | glue and real-valued computations | all of the above | not modelled (section 7) |

Control flows one way inside a process: a runner builds a simulation per seed,
the engine drives mechanisms in phase order, mechanisms change the world, ask
for a stop, write the blackboard and the recorder. Concurrency exists in three
places: trials on a thread pool, the worker threads of the LLM executor, and
processes that share files (a response store, a prompt cache, an export
directory). State survives a crash in snapshot files, the response store, the
prompt cache, exported artifacts and downloaded data sets.

### What is hard here

- **Order and partial failure.** A mechanism may fail anywhere in a step. The
  step is not undone, and the caller may go on, snapshot or restore.
- **State outside the snapshot.** A snapshot holds the world, the generator and
  the stop flag. Mechanisms that remember something must find it again from the
  clock, or a resumed run differs.
- **What is read when.** Payoffs refreshed only around an agent, rings that
  overwrite their oldest record, lists passed from one mechanism to the next,
  slots that are reused: each may be read by somebody it was not meant for.
- **Timeouts against late answers.** Executor answers and deadlines race; a
  worker told to stop is replaced, but lives on until it looks at its flag.
- **Crashes between file operations.** A merge renames a file and removes
  others; an append may break off inside a line; a temporary file of a fixed
  name is shared by two programs.
- **Replay.** A stochastic backend makes a run reproducible only through its
  records: what is recorded, when, and under which key decides it.
- **Degenerate numbers.** Ratio tests tie, supports have ties at their edges,
  responses swing for ever, a probability leaves [0, 1] on one network only.

The full list of hazards with source lines is in `PROJECT.json`.

## 2. How the modules fit together

`LlmExecutor` implements `Batch`, and `LlmDecide` uses an executor by that
contract alone: its action `Obtain` receives one outcome per missed request.
`LlmDecide` likewise uses the store as a function from keys to replies, which is
what `ResponseStore` shows a single tag to see (`OwnHistorySeen`,
`ServedIsStored`).

`GameStep` composes `GamePlay` (what a step computes, as functions) and
`Histories` (the rings); `Evolution` is the abstract specification its
population updates implement. `Markets` uses the same rings and the response
functions of `Responses`. `Catalog` extends `Equilibria`, so that a game the
catalogue accepts is held against the solvers; `ScenarioRuns` builds trials from
`Scenarios`, `Catalog`, `Responses` and the topologies of `GamePlay`.
`NetGenerators` builds its networks with the calls of `SocialNet`.

Small parts share a run: `MCServices` and `MCWorlds` have a variable `part`,
chosen in `Init`, and each part takes its own steps while the others rest in one
of their first states. A property of a part speaks of its own variables alone,
so it is checked over all behaviours of that part.

The modules were written in this order: engine and resumption; executor, store
and decision driver; the game step; the services around it; what agents live in;
solvers and catalogue; scenarios; learning rules and markets. What would come
next is in section 8.

## 3. Modules

### Engine

One `Simulation`. `mode` and `pc` stand for the call stack (which driver, and
whether inside `step`), `ph` and `mi` for the two nested loops of `step`. One
action each for entering a driver, ticking, skipping a mechanism, a successful
and a failing `apply`, the next phase, returning from `step`, leaving a driver,
`snapshot` and `restore`. The world is abstracted to the sequence of
invocations that produced it, so equal worlds are equal histories; a value on
the blackboard is the step that wrote it. What a failing `apply` changed itself
before it failed is left out: no property here reads it.

- `PhaseOrder`: steps, phases, then insertion order, no slot twice, over any mix
  of drivers, errors and restores.
- `WholeSteps`: a step that returned Ok invoked every registered slot; a stop
  request does not cut it.
- `ReportsExact`: observers see consecutive steps, none that failed, nothing
  after the report with `stopped = true`, and on the blackboard only what the
  step that just ended wrote.
- `CallsReturn`: every call returns, under weak fairness of the engine's own
  steps. The engine is sequential code in the caller's thread, so a call once
  made runs; the caller is never required to call. `apply` is taken to return.

### Resume

Whole steps of a simulation wired with none, one or both of the mechanisms that
keep state outside the world, with `save`, `load`, `restore`, crashes that leave
a torn file, `save` that loses its tail, and steps in which another mechanism
fails: before the opinions change, after it, between the two mechanisms or behind
them. Whatever was done before the error stays done.
`RefX` and `RefStop` define the run nobody interrupts.

- `StopExact`: with `ContinuationProbability` alone, a fault-free world carries
  at every clock the stop flag of the uninterrupted run.
- `DrawMatchesStep`: variate k goes to step k, whatever was rewound or rebuilt.
- `NoFalseConvergence`: unless the caller rewound into a simulation that had run
  on, a convergence stop stands only over opinions that updates lead back to,
  never over ones that still drift; if no failed step kept an update from the
  mechanism, they are at rest. (Where a step failed between the update and the
  mechanism, opinions that alternate look settled: it compares every second one.)
- `ResumeExact` is what the documentation of `Snapshot` says, and it is violated
  (section 5).

A failed step raises `faulty`: what follows it is another trajectory than the
reference run's, so the comparisons `StopExact` and `ResumeExact` end there. The
other two properties go on.

### Batch and LlmExecutor

`Batch` is what `execute` promises: every request gets exactly one outcome and
the batch ends. `LlmExecutor` is the threaded executor: the calling thread
(`Pump`, `WaitTimesOut`, `OnStarted`, `OnFinished`, `Sweep`), and one action for
every point where a worker touches shared state: take a job, call, retry after a
backoff, send the answer, read the stop flag. Time is an age per request that
saturates just past the timeout, so no clock bound is needed.

- `BatchSpec`: refinement of `Batch`, safety and liveness, with calls that hang
  for ever, fail, answer late or kill their thread.
- `OwnAnswer`: an outcome other than a timeout is the one this request's worker
  sent, by the deadline.
- `HandedOutOnce`: a request is in one place and a timed-out one is not resent.
- `PoolNeverShort`: while answers are missing, as many workers as configured
  have not been told to stop.

Fairness: the calling thread runs, time passes, an idle worker takes a waiting
job and a worker that answered reads its flag. Nothing is assumed of backends.
A factory that returns an error is modelled (`Broken`); one that panics is not:
if all workers died so, `execute` would wait for ever (see the hazards).

### ResponseStore

Base file, shards, open stores and merges, one file operation per action. Runs
and mergers crash between any two operations. `acked` remembers which inserts
returned Ok. A file is its set of records plus two flaws: a last record without
newline, and a line that does not parse. The order of lines does not matter to
any reader, so it is left out.

- `NoLostRecord`, `OwnHistorySeen`, `ServedIsStored`: an acknowledged response
  stays on disk, is seen by every later run of its tag, and an open store serves
  nothing the disk does not hold.
- `BaseLoads`: no two base records share a digest, so the base always loads.

`Quiet` is the rule of docs/games.md that shards are merged after the runs;
without it, records can be lost, and that is documented usage, not checked.

### LlmDecide

Decision and Reward of LLM agents: manifest check, observation, request keys,
merging of equal requests, store lookup, one outcome per miss, recording up to
the first error, parsing with retry and fallback, the commit, the conversation
and its payoffs. Around it programs start in any mode, crash, take and restore
snapshots, over one store.

- `StoreDeterminesRun`: all recording and replaying programs whose steps
  succeed agree, step by step, on actions and conversations, through restarts,
  restored snapshots, backend errors and partial batches. The manifest check is
  what keeps a `Live` world out (its mutant drops it).
- `CommittedTogether`: a step's decisions reach the world together or not at all.
- `TurnsAreSteps`: conversation turns are distinct steps in order, and carry the
  payoff of the action they tell, except in steps that failed.

A prompt is its observation and its number of feedback lines. That is exact for
one kind of parse violation, which the replies of the model have. The store's
digest collisions are `ResponseStore`'s subject and absent here.

### Histories, GamePlay, GameStep and Evolution

One game world through its steps: `Clear`, `Match`, held seats, one `Decide` per
agent with a rule, `Play` (per encounter, or counting actions over the whole
population), `Learn`, a population update (synchronous, asynchronous or Moran)
and `Measure`. The clock ticks first. Any of them may fail and the caller may run
on: the clock stays where it is, and so does a stop that was requested. A kernel
that fails leaves the encounters before it credited; an aggregate collector that
refuses a value fails after the records were committed, which leaves them without
a row in the table. Matchings,
topologies, payoffs and the sources a rule may copy from are functions in
`GamePlay`; payoffs are multiplied by 6, so that means are exact. Which of the
agents that a probability favours is copied is a choice. Decision rules are any
function to an action here: what the built-in ones do is in `Learners`.

- `HistoriesAreLog`: step histories, pair histories from both sides and the
  aggregate table are the last entries of the committed plays, oldest first;
  a step whose collector failed is in the histories and has no row.
- `LearnsOwnStep`: a rule learns from the step it played, under that step's clock
  (which failed steps moved too), paid by its own encounters of it, whatever a
  failed step had credited.
- `PayoffsInRange`: a population update accepted at assembly meets no payoff
  outside the range it was checked against, also of agents that sat out.
- `TruePayoffs` (refinement of `Evolution`): every change of what agents hold is
  one the update rule allows under the payoffs full play of the profile of that
  moment earns; the asynchronous update refreshes only a neighbourhood.
- `StopsWhenStill`: the stop window counts evaluated, still steps only, also when
  the step that asked for the stop fails afterwards and the next call heeds it.

### Learners and Markets

`Learners`: the finite rules (fixed, uniform, mixed, tit for tat, automata,
myopic best response, fictitious play, logit, Roth-Erev) under the three decision
scopes: which games they accept, one memory per agent or per opponent, what they
may answer, what they learn and report. Chances are in quarters; the softmax is
"every action has a chance, monotone in the estimates". Propensities are whole
grains of 1/4096 up to 2^24 grains, which stand for the least and the greatest
positive float: a lesson that would take one out of that range is refused, as
`RothErevState::update` refuses what is not finite and positive, and ends the run.
`LearnersAsPromised` has four parts: `MindIsPast` (every memory is made of the
encounters it is about, each once, in order, and of no decision still open),
`BreaksForCause` (a decision of a rule accepted at the start fails only in a role
with another number of actions than its memory was made for, as
docs/games.md:1193-1200 says; a lesson fails only for Roth-Erev, when what was seen
takes a propensity out of range, downwards only under a rule that forgets and
never experiments), `ReportIsPlayed`
(`decide` and `mixed`, written separately, agree) and `MyopicSeesLast`.

`Markets`: damped best responses and gradient steps over continuous actions, the
histories they read and the convergence stop of the continuous metrics. Agents
act in any order. `MarketsAsPromised` says of every day (`DaysAsPromised`) that
everybody responds to what others played last (`RespondsToPast`), that it is an
update of the solver's damped iteration (`FollowsIteration`), and that runs stop
exactly when quiet (`StopsWhenQuiet`); they are then near the equilibrium
(`StopsAtEquilibrium`), and the numeric gradient is the slope (`NumericIsSlope`).

### Catalog, Equilibria and Responses

`Equilibria`: Lemke-Howson pivot by pivot, support enumeration, pure equilibria
by profile and by counts, iterated dominance, replicator fixed points and
evolutionary stability, in exact integer arithmetic. `SolutionsHold`: no ratio
test is unbounded or ambiguous whatever label is dropped, a path ends in an
equilibrium, and no equilibrium, rest point or dominated action is missed
(against the definitions, over all mixed strategies of a given fineness).

`Catalog`: the constructors of the built-in games and of matrix games.
`CatalogAsNamed`: a game a constructor accepts has the equilibria, dominance,
symmetry and stable share its documentation gives it.

`Responses`: continuous games, the golden-section search and the damped
best-response iteration with adaptive restarts. `ResponsesAsPromised`: analytic
responses are best on a fine grid, the line search finds the top of every
single-peaked curve, what is called converged is near the equilibrium, and what
is not has tried every damping. `EconomiesAsPromised` is this and the markets.

### Scenarios and ScenarioRuns

What a scenario may say (a typed table; numbers in twelfths), what reading it
refuses, and how a trial is built: population, mechanisms, decision rules,
topology from the trial's seed. A scenario is validated, edited in one place and
validated again, then built for two seeds. `ScenariosAsDocumented`: what
validated builds (for another seed too, unless the bound of the replicator update
depends on the network drawn); no misspelt key, wrong type or repeated entry goes
through; shares become counts by largest remainders. That a continuous
`equilibrium = "solve"` converges is assumed.

### Artifacts, Recorders, TrialSweep, PromptCache, DatasetFetch, Streams

- `Artifacts`: solution sets and the publication of a game with its solutions, or
  without any, by programs that fail and crash. `PublishedWhole`: files are whole,
  entries fit their game, and between calls the two files agree unless, since the
  last call that wrote both, a call gave no solutions, was cut short between the
  files or met another.
- `Recorders`: wide tables and a failing sink. Rows may name columns in any order,
  repeatedly, or not at all. `RecordsKept`: no value is lost, moved or invented,
  and no lost line goes without an error.
- `TrialSweep`: the four drivers over a pool of threads; a point of a sweep keeps
  its parameters beside the summary, and an axis without values gives `run_sweep`
  an empty grid. `AnswersAsLoop`: the answer is that of a plain loop over the grid,
  counted place by place, also which error is reported.
- `PromptCache`: programs that share one cache file, by inodes. A key is a hash of
  model and prompt (`PromptHash`, any function; in the run it takes two prompts of
  one model for the same), and nothing beside the answer tells a collision.
  `HitsReplay`: a served answer was given to a prompt and model of the same hash; a
  readable file is the whole cache of one program, never a mixture.
- `DatasetFetch`: `OkMeansVerified`, also after bad downloads and crashes.
- `Streams`: seeds and derived streams; its property fails (section 5).

### SocialNet, NetGenerators and Lattice

`SocialNet` is the graph with its reused slots, saved and loaded;
`NetworkAsCalled`: it is the graph that the calls describe, and components, paths,
bridges, clustering and degrees are those of their definitions.
`NetGenerators`: Erdos-Renyi, Watts-Strogatz, preferential attachment (with its
tree of block sums) and directions, with every answer of the random stream;
`GeneratedAsPromised`. `Lattice`: grid, metrics, neighbourhoods and the index of
occupants; `OccupancyAgrees`.

### Contagion, OpinionDynamics, HrLifecycle and OrgSilence

- `DiffusionExact`: activity travels one tie a round; a threshold cascade that
  stops has reached the least closed set; an absorbing culture never changes.
- `OpinionsAsPromised`: opinions stay in range, a pair keeps its sum, and nobody
  overtakes anybody where all hear all.
- `LifecycleBooks`: leavers are charged once and to their own team, newcomers
  take new numbers, and an employee feels exactly the quits next to it.
- `OfficeCoherent`: motives belong to the silent, the cascade gives voice to the
  least set, and a failed model call in the middle leaves no half motive.

## 4. Runs and bounds

| Run | Configuration | Bound | Why it is enough |
|---|---|---|---|
| engine | `Engine.cfg`, `MCEngine` | 2 mechanisms, 5 slots, clock 3, `t_max` 2 | one shared phase, one private to each, a step beyond `t_max`, a snapshot between any two steps |
| resume | `Resume.cfg`, `MCResume` | clock 6, opinions that settle in step 2 or come back every second step, stop variate in step 4 | each mechanism stops first in some wiring, with steps left on both sides of a save and of a failed step; a failed step may hide a change |
| resume_convergence | `ResumeConvergence.cfg` | opinions that settle in step 2, convergence alone | counterexample |
| executor | `LlmExecutor.cfg` | 2 requests, 1 worker, queue of 1, timeout 2, 1 retry, worker 2 broken | a full queue, a replacement that is broken, a late answer beside a second request |
| executor_early_timeout | `ExecutorEarlyTimeout.cfg` | as above | counterexample |
| store | `Store.cfg`, `MCResponseStore` | 2 runs, 1 merger, 3 keys of which two collide, 2 replies | two shards in conflict, in collision, with equal records; a crash between any two removals |
| store_torn_append | `StoreTornAppend.cfg` | 2 keys, appends that a crash ends before their newline | counterexample |
| llm_decide | `LlmDecide.cfg`, `MCLlmDecide` | 2 LLM agents against one that holds, 2 steps, 1 retry, conversations of 1 and 2 turns | requests that coincide and that differ, a second step that observes the first, a retry whose key was answered before |
| game_step | `GameStep.cfg`, `MCGameStep` | 14 assemblies of 3 agents, rings of 2, window 2, 1 to 4 steps, 1 failed step | every matching, scope, way of play and update; rings that wrap; an agent that sits out; a tie and a failed step inside the window |
| services | `Services.cfg`, `MCServices` | see below | ten parts, one per behaviour |
| worlds | `Worlds.cfg`, `MCWorlds` | see below | eight parts, one per behaviour |
| derived_streams | `DerivedStreams.cfg`, `Streams` | 2 seeds, 2 labels, 2 draws | counterexample |

The parts of `services`: sweeps of up to 2 axes and 3 seeds on 2 threads, with
invalid points and failing trials; 2 cache clients of two models, 2 prompts that
collide for one of them, 3 completions and 2 saves; 3 data files of each kind of check and 3 calls; 3 records of up to 2 names
in 3 columns;
constructor parameters on both sides of every condition; some six hundred 2x2,
3x3 and 2x3 games, nearly all degenerate, under every dropped label and two pivot
limits; economies whose undamped responses settle, swing and leave the bounds;
2 exporters with 3 games; 12 base scenarios that between them use every topology,
matching, way of play, update and family of rules, one edit, two seeds; markets of
2 to 4 traders with histories of 1 to 3 and 8 days.

The parts of `worlds`: 5 calls on networks of 3 agents; generators up to 5 agents;
grids up to 3x3 with radii past their size, 3 moves; 4 persons, 4 rounds; 3
speakers, 2 steps in exact fractions (`One` and `Divisor` are the bounds of precision); 2 teams of 2 over 2 months; 4 workers over 2
sessions; 2 or 3 players of 2x2, 2x3 and 3x2 games over 3 steps with histories of 1.

Bounds of the model and not settings of the code are `TMax` of `LlmDecide` and
the constants whose names begin with `Max`, except `MaxRetries`, `MaxTurns` and
`MaxProfiles`, which the code has. Deadlock is checked in `resume`, `game_step` and
`derived_streams`; in the others the caller may simply stop, or bounded counters
run out.

Fairness is assumed in two modules alone, as sections `Engine` and `LlmExecutor`
say: the sequential code of a call once made runs, and of the executor's threads
those run that the operating system can run. Everything else is safety.

## 5. Where code and documentation part

Shown by a run:

1. **A resumed run with a convergence check** (`resume_convergence`). The
   remembered opinions of `ConvergenceMechanism` are in no snapshot, so a
   rebuilt simulation stops later than the uninterrupted one, against the
   documentation of `Snapshot`. `OpinionMetricsMechanism` has the same shape.
2. **A timeout that did not happen** (`executor_early_timeout`). A worker's stop
   flag outlives the request it was set for. The worker's next request may be
   answered with a timeout at once, without the documented resends.
3. **A record nobody can read** (`store_torn_append`). After an append that broke
   off without its newline and a restart, the next insert returns Ok although its
   record shares a line with the one before, and neither can be read.
4. **Derived streams do not depend on the seed** (`derived_streams`). `derive()`
   mixes the position of the parent, not its seed, against its comment. Nothing
   but its tests calls it.

Met while modelling; the models follow the code and no run is spent on them:

- `socsim-net/src/lib.rs:990`: the degree `k` of Watts-Strogatz "is rounded down to
  the nearest even number", yet `k = 1` gives degree 2 (`(k / 2).max(1)`).
- `socsim-net/src/lib.rs:812`: on undirected networks a self-loop makes an agent its
  own neighbour in clustering and local bridges; on directed ones it is dropped.
- `socsim-grid/src/lib.rs:661`: after an agent was placed twice, `move_to` onto the
  cell it was left behind in returns Ok and does not move it.
- `socsim-packs/src/hr_lifecycle/world.rs:119`: `departed_this_step` is "cleared at
  PostStep end", but only `knowledge_loss` clears it; a scenario without it
  reports ever more leavers. The same words stand at
  `organizational_silence/world.rs:163`, where only the next retaliation clears.
- `socsim-games/src/llm/policy.rs:35`: `ConversationTurn::t` is the "Zero-based
  simulation step of the decision", yet the engine ticks before the phases
  (`socsim-engine/src/lib.rs:99`), so the turn of the first step carries 1. Policies
  that read conversations see the numbers of the clock, which is what
  `TurnsAreSteps` says.
- `socsim-llm/src/cache.rs:20`: "Distinct pairs map to distinct keys", yet the key is a
  64-bit hash, and neither model nor prompt is stored to compare. `HitsReplay` says
  what holds of any hash, the theorem `CacheHitsReplayExactly` what holds of one
  without collisions.
- `socsim-games/src/export/write.rs:58`: a call without solutions leaves an older
  `solutions.json`, of another game perhaps, beside the new game.
- `socsim-games/src/export/write.rs:43`: solutions "must have been created from the
  same" specification; what is compared is names, roles and labels, not payoffs.
- `socsim-games/src/config/mod.rs:15`: "Every value is read with its type checked";
  a key of `game_decide` that belongs to rules nobody follows is not read.
- `socsim-games/src/rule/continuous.rs:7`: a peer that sat out "is represented by
  the last action it played" only as far back as the history reaches; under
  scopes other than per-step records carry no action and these rules hold for ever.

## 6. Proofs

Eight modules hold the theorems; each proves its module's properties from the
specification the runs check, for every value of the constants.

`EngineProofs` proves `TypeOK`, `PhaseOrder`, `WholeSteps` and `ReportsExact` for
every number of mechanisms, registration and `t_max`. Order and completeness are
not inductive: they say nothing of the middle of a step or of the snapshot a
restore may bring back. `IInv` therefore says of the live world that it is
`Settled` between steps and `Partial` inside one (everything in it lies before
the loops' cursor, and every registered slot before the cursor is in it), and
that the snapshot is `Settled`. Two lemmas carry it: appending a slot that
follows all others keeps a sequence ordered, and keeps every slot it had.
`ReportsExact` needs that the failures a snapshot knows are the present ones up
to its own clock (`Failures`): a restore takes failures back, but never makes a
step failed that was reported. `Reporting` and `Ended` say where
`run_observed` stands.

`ResumeProofs` proves `StopExact`, `DrawMatchesStep` and `NoFalseConvergence` for
every update function, stop schedule, wiring and clock bound. The inductive
invariant adds that the counter `draws` equals the position of the stream it
counts, and that the saved file satisfies what the live simulation does; the
key lemma is that `draw_for_step(t)` leaves the stream just past variate t from
wherever it stood. For convergence, unless somebody rewound, the mechanism
remembers nothing, the present opinions or, if a failed step kept an update from
it, opinions that updates led on from (`Remembers`); so where it finds them
unchanged they are at rest or were led back to, and updates never lead out of
such a cycle (`ComesBack`, `Still`), in the file as well.

`ExecutorProofs` proves `OwnAnswer`, `HandedOutOnce` and `PoolNeverShort` for any
pool, queue bound, timeout, retries and panics, and that the executor implements
the safety of `Batch`: initial states map to initial states, every step answers
open requests or is a stutter. `IInv` keeps the two queues free of duplicates and
the job queue bounded (`Queues`); nobody has heard of a request still in one
(`Untouched`); a request has one worker, which has not answered it while busy
(`OneWorker`, `Working`); the channel tells what was sent (`TrueEvents`). The last
part counts: each stop flag is paid for by a thread that was started for it
(`Paid`), which is why the pool is never short.

`DecideProofs` proves `CommittedTogether` and `TurnsAreSteps` for any agents,
conversation lengths, retries, replies and modes. The invariant says that
conversations are ordered up to the clock, that open decisions belong to
different agents whose action is not set aside yet, and that whoever was told of
this step has set aside the action it was told of. It holds of the snapshot too,
so a restore is one more case.

It also proves `StoreDeterminesRun`, which compares a run with any other over the
same store. What the other left is the ghost `trace`: the state after each step
that succeeded. `DInv` says that a world which follows the trace *is* the trace's
entry at its clock, and that inside a step every agent already decided has
the action and the conversation the *next* entry will have, once there is one.
That holds because a request is a function of what the agent observed, and the
store never takes an answer back: whatever a later program hears under a key,
the earlier one heard. Retries are the hard part. A chain of tries is
determined by the store from its first key, so two programs walk the same
chain, each as far as its replies have been recorded.

`ServiceProofs` has six parts. `HitsReplay`: every entry of a cache in memory or of
a file that parses is an answer given under its key (`Backed`), for any hash; that
keys of different prompts differ is assumed only by `CacheHitsReplayExactly`. A file that parses is one
that some program saved, since two programs that share a temporary file each
write a whole cache into it and a torn one does not parse. `OkMeansVerified`: the
files behind the cursor of `fetch()` are good, whatever lies on disk ahead of
it. `PublishedWhole`: `ArtifactInv` says what a program has in hand (a set that
fits the game it was collected for, which matches the one being written) and
that a temporary file is whole only when it is what its program writes. With two
programs at once nothing relates the two published files, so the invariant
relates them only while `~broken`: one program writes at a time, it writes both
files, and only between its two renames the folder names two games. `AnswersAsLoop`: `SweepInv` says that
the plan is the grid, patched and valid (`Planned`, `Sound`), that what was
gathered are the results of the points so far (`Gathered`), and that the outcomes
at hand are those of this point's own trials, with `first` one that failed
(`Tallied`). That the grid built axis by axis is the grid counted place by place
is an induction on the axes: dividing a place by the number of combinations of
the later axes gives its row in the product of the earlier ones. `RecordsKept`:
column names stay distinct and only grow at the end, so that a row `Aligned` to
the columns of its time and then padded is aligned to the columns of today;
without an error taken or kept, every line of the sink has ended.

The last part of `ServiceProofs` proves `NoLostRecord`, `BaseLoads`,
`OwnHistorySeen` and `ServedIsStored` of the response store, for any runs, mergers,
keys, digests and replies, under
`Documented`: one run per tag, no merge beside an open store or another merge
(`Quiet`), and appends that break off only inside a record, by a crash.
`NoLostRecord` alone is not inductive, because a merge holds in memory what it is
about to write and later removes the files it read. `StoreInv` adds what it has
collected by each of its stages (`CollectedBy`), that it stands alone (`Alone`),
that a shard never keeps a line without its end (`ShardFiles`), where acknowledged
records are (`Kept`) and what an open store serves (`Served`). The rename is the
step the argument turns on: the new base contains the old one and every shard,
so removing any subset of the shards afterwards, crash or not, loses nothing.
Without `Documented` the properties fail; `store_torn_append` shows one way.

`GameStepProofs` proves all five properties of the game step (`StopsWhenStill`,
`HistoriesAreLog`, `LearnsOwnStep`, `PayoffsInRange`, and that the game
implements `Evolution`, `TruePayoffs`) for any assemblies, number of agents, ring
length and window. A ring `Holds` the end
of a sequence when counting from its head, once around, meets the last entries
in order; a push keeps that for the longer sequence, and a view of such a ring
is `LastOf`. For the step histories the sequence is the log itself (`HInv`); for
pairs (`GInv`) it is the `Meetings` of the pair, the log filtered and flattened.
One play pushed is one meeting for the pair that sat there and none for anybody
else (`PushOneHolds`), all plays of a step follow by induction on their number,
and what a reader sees from either seat is the same ring read with the actions
exchanged. `LInv` follows a step from `Clear`, which drops what a failed attempt
credited, through the decisions, to the totals. Its two lemmas are that the
running totals of n plays are what the agent `Earned` in them (`StepPays`), and
that under per-step decisions all seats of an agent show what it holds. For the
stop, metrics remember the last shares that were played, and their counter
counts measurements that were each near the one before, a gap resets it. Once a
stop is requested, nothing is measured any more: what is left is the end of that
step, or its failure, and no step is taken after it.

The refinement `TruePayoffs` says that each change of what agents hold is one
that full play of the profile of that moment justifies. `TInv` carries that
through a step in which nobody decides: nothing is paid when the plays begin
(the `Clear`), the plays show what everybody holds, so from the reward on the
payoffs are what some list of encounters of the matching pays for the held
profile (`FullPays`), and an update reads no others. Asynchronous updates take
payoffs from one agent's own encounters; `NetAlone` and `GridAlone` show, by
induction on the encounters, that these pay it what all encounters together do,
and `RefreshedFull` that every agent a source depends on was refreshed.

`PayoffsInRange` is about the check at assembly. An agent that plays n times is
paid between n times the least and n times the greatest entry of the payoff
table (`EachBetween`); every list of encounters the matching may write seats it
as often as the matching's bounds say (`PlaysAsOften`: a shuffle cut into groups
of k seats it at most once, and exactly once when k divides the population,
because a shuffle is a bijection); and both ends of the range of the step bound
such sums, and their means (`SumInRange`, `MeanInRange`). Since the payoffs stay
those of full play until the step ends (`RInv`), the range that the update's
parameters were checked with holds whenever it runs.

`WorldProofs` proves `DiffusionExact`, `OfficeCoherent`, `OccupancyAgrees`,
`LifecycleBooks` and, of the markets, `DaysAsPromised`. `CrowdInv`: who is
active lies in the `Ball` of as many hops as rounds passed (the whole ball when
the chance is one); a threshold cascade has activated nobody outside any closed
set that contains the first ones, so that where it stops it is the least one, in
whatever order it was walked; a culture that was found absorbing is the one
there is. `OfficeInv`: motives belong to the silent; the outcome of a cascade is
`LeastRaised` above who had voice when it began, because rounds only add those
whose threshold is met by fewer than are there at the end (`SharesGrow`); and
what climate and memory say stays true of the agents until a mechanism that
changes them runs, which is why it matters that an agenda is in phase order.

`LatticeInv`: every agent with a position sits in that cell (`Seated`), and
whoever sits in a cell has that position unless it was placed twice, which the
code allows and which leaves it behind. The rest of `OccupancyAgrees` is
geometry: an offset applied around the edge and the distance that takes the
shorter way around name the same cells, for both shapes of neighbourhood and any
radius; rows and columns determine a cell's number, so that a table of numbers
says what the cells do; and a scan that replaces its best only by what is nearer
ends with the first of the nearest (`Best`, an induction on the cells scanned).

`HrInv` holds between any two mechanisms of a month. Whoever has a number
is employed or gone (`Rolled`). The list of leavers holds exactly the `Pending`
ones, each once: the month's quits until `knowledge_loss` has charged them, all
who ever left where it is not wired; everybody else gone was `Charged`. Which
mechanisms have run decides what is true, so most parts speak of what has
`Passed`, and a turn that moves past one changes them for it alone; that is where
the proof needs a wiring in phase order. Within a mechanism, quitters go one after
another and places are filled one after another, each a function of the number
done so far with an invariant of its own. Quits next to somebody are counted
through ties that are removed on the way, also those to colleagues who quit in
the same month: nobody who stays misses one, because a tie goes only with
one of its ends.

The model of a market keeps every day's plays (`tape`), which the code does not;
`MarketInv` says what of it the code's state knows. The rings hold the end of what
was noted (`Holds`), `last` the newest of it however old (`Recalls`), `prev` where
everybody was, and `below` for how many days nobody moved (`QuietDays`). During a
day each action is the one due after the days before, at the seat the agent has
got to (`ActAt`), and an agent that has not moved yet still holds what it held in
the morning (`HeldNow`); this is why the order of activation does not matter, even
for agents seated several times. What is due does not change when days are added
(`SameBefore`), so a day that was answered when it closed stays answered. With one
encounter of all, the others are always within the rings' reach and each seat is
its agent's, so what is due at all seats is `Damped`, the solver's own update. How
near an equilibrium a market comes to rest is about the contraction of the
responses, and stays with TLC.

`NetworkProofs` proves `OpinionsAsPromised`, `NetworkAsCalled` and
`GeneratedAsPromised`. `TalkInv` says what each rule keeps of the first opinions (`Kept`): bounds, for a
pair and a group the sum, for one-sided listening and groups the order, under
polarization the side. It needs the opinions of pairs and groups to be multiples
of the `Fineness` of the steps to come, because only then are the divisions exact
and nothing of a sum is lost to rounding. Two facts about sums over sets carry the
steps: a sum does not depend on the order it is taken in (the library's fold
chooses one), and a mean lies between any bounds of what it is taken over. Where
all hear all, even in a lopsided window, nobody overtakes anybody: what the higher
one hears and the lower one does not lies above everything both hear, and what
only the lower one hears lies below, so the mean of the higher one is no less
(with floors, since a quotient is monotone).

`NetInv` says that the network `Shows` what its calls describe: index and labels
are inverse to each other, and a tie's `Key`, its ends read through the labels,
determines its place in the list. Removing a tie moves the last one into its
place, and removing an agent drops its ties before its slot is handed out
again; otherwise a reused slot would show a tie that no call made. A network
saved and loaded shows the same graph because the lists are sorted: ranks in a
finite order are distinct, so each agent and each tie is listed once. The
analysis follows from that shape. A breadth-first search is a function of the
round; a round adds a slot or no later one does, so after as many rounds as there
are slots what is found is the least set closed under the ties, and its members
are those no set of agents separates. Components are the classes of that
relation without directions, numbered by the rank of their least agent. Degrees,
their distribution and the links of a neighbourhood are sums that count pairs
twice over: ties by their ends, triangles by their corners (`DoubleCount`).

`NetworksAreGenerated` is about networks that a random stream makes. `Generated`
has a part per kind. `Growing`: slots are filled in order, each agent's slot is its
number, and the tree is a `Fen` of the weights, that is, every entry is the sum of its
block; a newcomer's ties change the weights of those it is tied to and its own
(`GrownOn`), and exactly these are set again. That the tree then answers as a walk
over the degrees would is arithmetic of lowest bits: the steps upwards from a slot
meet exactly the blocks it lies in (`BlocksAre`), the steps downwards from the last
slot add up disjoint blocks to the whole (`TotalIs`), and the search from the
largest step down always stands below the slot it is looking for, by no more than
twice its next step (`WalkOn`, `FirstPrefixIs`). `LowBit` is a recursive function of the half, so what is
said of it is proved by halving (`Halving`). `Ringed` gives every place of the ring,
an agent and a distance, a tie of its own that touches that agent: first the one
the ring was laid with, later the one it was rewired to. A rewiring moves one
place's tie to a pair nobody had, so the places still own different ties, there
are as many ties as before, and each agent has at least one for each of its
distances. Where the ring is so short that two places share a tie, only the number
of ties and the absence of loops are promised. `DirectionsKept` follows the list of the base's ties, whatever
way each of them is given (`AddsArrow`).

Induction over data is done by hand: the library's induction theorems take an
operator as a parameter, but its theorem on well-founded relations does not.
From it each of these modules derives that a set of numbers with 0 and all
successors has all numbers (`Induct`), and that a recursive function `f[k]` in
terms of `f[k - 1]` exists (`Recursion`). Operators that are folds in the code's
sense (running totals, a cascade's rounds, the meetings of a log) are written as
such functions, and so can be proved about.

Assumptions on constants: `EngineAssumption`, `ResumeAssumption`,
`StoreAssumption`, `ExecutorAssumption`, `NoAnswerAssumption`, `DecideAssumption`,
`NAgentsAssumption`, `StepAssumption`, `CrowdAssumption`, `OfficeAssumption`,
`ArtifactAssumption`, `CallsAssumption`, `RecorderAssumption`, `LatticeAssumption`,
`HrAssumption`, `TalkAssumption`, `NetAssumption`, `GenAssumption` and
`MarketAssumption` are the constants' types, with,
in the two of the packs, the engine's phase order of agendas and wirings.
`MarketAssumption` says of every assembly that its game passes `check_bounds` and
has whole amounts, that first actions lie within the bounds, as they are checked
where they are read (config/game.rs:704), that histories have at least one slot,
and that encounters have an agent for each role, the same one more than once if need be.
`NetAssumption` says that agents are numbers, as `AgentId` is; payloads and their
number are arbitrary. `GenAssumption` adds that there is a payload at all, as `()` is. `TalkAssumption` says what exact arithmetic takes in the
place of floats: one `Divisor` that four and twice the size of any group divide, and
first opinions that are multiples of it as often as there are steps. `HrAssumption` also takes scenarios
that name a mechanism at least once and none twice; a scenario that names one
twice is accepted by the code and outside the model. `FetchAssumption` says that a data set's file
names are distinct and that its row counts agree with its digests.
`AssemblyAssumption` says that the encounters of an accepted assembly have one
known agent for each role, which is what the trait `Matching` asks of every
implementation (matching/mod.rs:100), that the game's payoffs are a table over
its actions, that neighbours and edges are known agents, and that updates are
of the kinds the code has. TLC evaluates each in a run.

With TLC only:

- liveness and fairness: `CallsReturn` and the liveness of `BatchSpec`;
- `LearnersAsPromised`, and of `EconomiesAsPromised` what is not
  `DaysAsPromised`: `ResponsesAsPromised`, `StopsAtEquilibrium` and
  `NumericIsSlope`, which sample curves and equilibria of given games;
- `SolutionsHold`, `CatalogAsNamed` and `ScenariosAsDocumented`: their modules
  reach the RECURSIVE operators of `Equilibria`, of which the provers can make
  nothing.

## 7. Not modelled

- **Real-valued detail.** Tolerances and rounding of floats, quantal responses,
  the integration of the replicator dynamics, the linear programs of minimax,
  geometric, harmonic and power means, welfare and inequality metrics, neural
  networks (MARL) and the statistics library. Where a real number matters to a
  decision, the models use exact fractions.
- **Formatting and I/O.** LLM prompts and parsers (they enter as replies that
  parse, do not parse or parse to an illegal action), HTTP clients, wording of
  errors, CSV and TOML syntax, the command line, viewers and scripts.
- **Left to the file system.** Run directories are made by one call and the
  `latest` link is replaced by two; store ids are decided by a hard link.
- **Packs.** The opinion pack and mechanisms that only move real-valued traits.
- **A backend factory that panics.** If every worker dies in it, `execute` waits
  for ever; the model has factories that return an error (`Broken`).

`PROJECT.json` lists every part with its status.

## 8. What could follow

A run in which sweeps drive `GameStep` itself instead of an arbitrary function of
scenario and
seed; the opinion pack.
