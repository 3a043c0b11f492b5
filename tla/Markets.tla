------------------------------- MODULE Markets -------------------------------
(***************************************************************************)
(* Worlds in which a continuous game is played: agents move by damped best *)
(* responses or along the gradient of their payoff, or hold their amount;  *)
(* the scheduler takes them in any order.  The metrics of a step may stop  *)
(* the run.  Amounts are counted in units, as in Responses; NotPlayed      *)
(* stands for the missing action of a record.                              *)
(***************************************************************************)
EXTENDS Responses, Histories
CONSTANTS Halls,       \* [game, rules, seatings (of each day in turn), depth, scope, start, tol, window]
          MaxDays      \* bound: steps

\* What an assembly of such a world is: a valid game in whole units, agents with rules and
\* initial actions within the bounds, and encounters that seat one agent in each role.
InUnits(g) == /\ g.kind \in {"cournot", "bertrand", "public_goods"} /\ Possible(g)
            /\ g.n \in Nat /\ g.max \in Nat /\ g.a \in Int /\ g.b \in Int /\ g.c \in Int /\ g.d \in Int
Assembled(h) ==
  /\ InUnits(h.game) /\ h.depth \in Nat \ {0} /\ h.window \in Nat /\ h.tol \in Nat
  /\ h.rules \in Seq([kind : {"damped", "gradient", "held"}, rate : Nat]) /\ h.rules # <<>>
  /\ h.start \in [DOMAIN h.rules -> 0 .. h.game.max * Unit]
  /\ h.seatings \in Seq(Seq([1 .. h.game.n -> DOMAIN h.rules])) /\ h.seatings # <<>>
ASSUME MarketAssumption == Unit \in Nat \ {0} /\ \A h \in Halls : Assembled(h)

VARIABLE market   \* the world: [hall, held, last, ring, plays, moved, prev, below, row, status], and tape: the plays of all days

NotPlayed == -1
Traders(m) == DOMAIN m.hall.rules
Follows(m, a) == m.hall.rules[a].kind # "held"
SeatsOf(plays, a) == {s \in (DOMAIN plays) \X (1 .. IF plays = <<>> THEN 0 ELSE Len(plays[1].seats)) : plays[s[1]].seats[s[2]] = a}
FirstOf(S) == CHOOSE s \in S : \A o \in S : s[1] <= o[1]
LastSeatOf(S) == CHOOSE s \in S : \A o \in S : s[1] >= o[1]

\* numeric_gradient, times what Slope is multiplied by: a central difference where it
\* fits, a one-sided one near a bound, half the width where neither side has room.
Ahead(g, x, h, hi) == x + h <= hi
Behind(g, x, h, lo) == x - h >= lo
Difference(g, role, x, low, high, u) ==
  (Earns(g, role, [x EXCEPT ![role] = high], u) - Earns(g, role, [x EXCEPT ![role] = low], u)) \div (high - low)
NumericSlope(g, role, x, h, u) ==
  LET own == x[role]
      half == (g.max * u) \div 2
      up == Ahead(g, own, h, g.max * u)
      down == Behind(g, own, h, 0)
  IN  IF up /\ down THEN Difference(g, role, x, own - h, own + h, u)
      ELSE IF up THEN Difference(g, role, x, own, own + h, u)
      ELSE IF down THEN Difference(g, role, x, own - h, own, u)
      ELSE IF Ahead(g, own, half, g.max * u) THEN Difference(g, role, x, own, own + half, u)
      ELSE Difference(g, role, x, own - half, own, u)

\* What a rule makes of the amounts of all roles: rates are parts of Full.
Along(g, role, x) == IF g.kind = "public_goods" THEN (Slope(g, role, x, Unit) * Unit) \div g.n ELSE Slope(g, role, x, Unit)
Moved(g, r, role, x) ==
  LET top == g.max * Unit
  IN  IF r.kind = "damped" THEN Clamp(((Full - r.rate) * x[role] + r.rate * BestReply(g, role, x, Unit)) \div Full, 0, top)
      ELSE Clamp(x[role] + (r.rate * Along(g, role, x)) \div Full, 0, top)

-----------------------------------------------------------------------------
(* The step *)

MarketInit ==
  \E hall \in Halls :
    market = [hall |-> hall, held |-> hall.start, last |-> [a \in DOMAIN hall.rules |-> NotPlayed],
              ring |-> NewRing(hall.depth, [a \in DOMAIN hall.rules |-> NotPlayed]),
              plays |-> <<>>, moved |-> {}, prev |-> <<>>, below |-> 0, row |-> <<>>, status |-> "between", tape |-> <<>>]

\* game_match, and the seats of held agents, which game_decide fills before all others.
Meet ==
  /\ market.status = "between" /\ Len(market.tape) < MaxDays
  /\ LET seats == market.hall.seatings[(Len(market.tape) % Len(market.hall.seatings)) + 1]
         fill(a) == IF Follows(market, a) THEN NotPlayed ELSE market.held[a]
     IN  market' = [market EXCEPT !.status = "deciding", !.moved = {a \in Traders(market) : ~Follows(market, a)},
           !.plays = [e \in DOMAIN seats |-> [seats |-> seats[e], acts |-> [role \in DOMAIN seats[e] |-> fill(seats[e][role])]]]]

\* own_action; previous_step_profile: the last action of a peer that is still in its history.
OwnAmount(m, a) == IF m.last[a] = NotPlayed THEN m.held[a] ELSE m.last[a]
HeldPeer(m, b) == m.held[b]   \* mutant: what the peer holds now
Peer(m, b) ==
  LET view == StepView(m.hall.depth, m.ring)
      days == {k \in DOMAIN view : view[k][b] # NotPlayed}
  IN  IF days = {} THEN NotPlayed ELSE view[Max(days)][b]
Facing(m, a, s) ==
  [role \in DOMAIN m.plays[s[1]].seats |-> IF role = s[2] THEN OwnAmount(m, a) ELSE Peer(m, m.plays[s[1]].seats[role])]
Answer(m, a, s) ==
  LET x == Facing(m, a, s)
  IN  IF \E role \in DOMAIN x : x[role] = NotPlayed THEN m.held[a] ELSE Moved(m.hall.game, m.hall.rules[a], s[2], x)

\* Per-step decisions are taken once, and held; per-encounter decisions are not held.
Trade(a) ==
  /\ market.status = "deciding" /\ a \notin market.moved /\ SeatsOf(market.plays, a) # {}
  /\ LET once == market.hall.scope = "step"
         act(s) == Answer(market, a, IF once THEN LastSeatOf(SeatsOf(market.plays, a)) ELSE s)
     IN  market' = [market EXCEPT !.moved = @ \cup {a},
           !.held[a] = IF once THEN act(<<1, 1>>) ELSE @,
           !.plays = [e \in DOMAIN market.plays |-> [market.plays[e] EXCEPT !.acts = [role \in DOMAIN market.plays[e].acts |->
              IF <<e, role>> \in SeatsOf(market.plays, a) THEN act(<<e, role>>) ELSE market.plays[e].acts[role]]]]]

Records(m) == [a \in Traders(m) |->
  IF m.hall.scope # "step" \/ SeatsOf(m.plays, a) = {} THEN NotPlayed
  ELSE LET s == FirstOf(SeatsOf(m.plays, a)) IN m.plays[s[1]].acts[s[2]]]
\* agent_vector: the recorded action, that of the first seat, that of the step before, or the held one.
Vector(m) == [a \in Traders(m) |->
  IF SeatsOf(m.plays, a) # {} THEN LET s == FirstOf(SeatsOf(m.plays, a)) IN m.plays[s[1]].acts[s[2]]
  ELSE IF m.prev # <<>> THEN m.prev[a] ELSE m.held[a]]
Apart(v, w) == IF v < w THEN w - v ELSE v - w
Below(m) == IF m.prev # <<>> /\ \A a \in Traders(m) : Apart(Vector(m)[a], m.prev[a]) < m.hall.tol THEN m.below + 1 ELSE 0
\* push_action_metrics: sums of the amounts by role; eq_distance, times the encounters.
RoleSums(m) == [role \in 1 .. m.hall.game.n |-> SumOf([e \in DOMAIN m.plays |-> m.plays[e].acts[role]])]
EqDistance(m) ==
  IF m.plays = <<>> THEN {}
  ELSE {SumOf([role \in 1 .. m.hall.game.n |-> Apart(RoleSums(m)[role], Len(m.plays) * q)]) : q \in Symmetric(m.hall.game, Unit)}
\* game_play, the learning of the step, and game_metrics.
Close ==
  /\ market.status = "deciding" /\ \A a \in Traders(market) : SeatsOf(market.plays, a) # {} => a \in market.moved
  /\ market' = [market EXCEPT
       !.ring = PushRing(market.hall.depth, @, Records(market)),
       !.last = [a \in Traders(market) |-> IF Follows(market, a) /\ Records(market)[a] # NotPlayed THEN Records(market)[a] ELSE @[a]],
       !.prev = Vector(market), !.below = Below(market), !.row = [sums |-> RoleSums(market), distance |-> EqDistance(market)],
       !.status = IF Below(market) >= market.hall.window THEN "stopped" ELSE "between",
       !.tape = Append(@, market.plays)]
MarketNext == Meet \/ Close \/ \E a \in Traders(market) : Trade(a)
MarketSpec == MarketInit /\ [][MarketNext]_market

-----------------------------------------------------------------------------
(* Properties *)

Today(m) == Len(m.tape)
\* What a played on the days that count, NotPlayed if nothing; what the histories note.
Latest(tape, a, days) ==
  LET d == {k \in days : SeatsOf(tape[k], a) # {}}
  IN  IF d = {} THEN NotPlayed ELSE LET s == FirstOf(SeatsOf(tape[Max(d)], a)) IN tape[Max(d)][s[1]].acts[s[2]]
Noted(h, tape, a, days) == IF h.scope = "step" THEN Latest(tape, a, days) ELSE NotPlayed
OrStart(h, a, v) == IF v = NotPlayed THEN h.start[a] ELSE v

\* What is due at a seat after k days: a response to the newest actions of the others that
\* the histories still have, from the last own one; which is kept if one of them is missing.
Faced(h, tape, plays, s, k) ==
  LET seats == plays[s[1]].seats
  IN  [r \in DOMAIN seats |->
         IF r = s[2] THEN OrStart(h, seats[r], Noted(h, tape, seats[r], 1 .. k))
         ELSE Noted(h, tape, seats[r], {d \in 1 .. k : d + h.depth > k})]
Due(h, tape, plays, s, k) ==
  LET x == Faced(h, tape, plays, s, k)
  IN  IF \E r \in DOMAIN x : x[r] = NotPlayed THEN x[s[2]]
      ELSE Moved(h.game, h.rules[plays[s[1]].seats[s[2]]], s[2], x)
\* A decision for the whole step is made at the last seat of the agent.
DecidedAt(h, plays, a, s) == IF h.scope = "step" THEN LastSeatOf(SeatsOf(plays, a)) ELSE s

\* Moves are simultaneous whatever the order of activation: everybody responds to what
\* the others played last, as far back as the histories go and never on the same day,
\* starting from its own last amount; held agents hold; and nobody leaves the bounds.
RespondsToPast(m) ==
  LET day == m.tape[Today(m)]
  IN  \A e \in DOMAIN day : \A role \in DOMAIN day[e].seats :
        LET me == day[e].seats[role]
        IN  /\ day[e].acts[role] \in 0 .. m.hall.game.max * Unit
            /\ day[e].acts[role] = IF Follows(m, me)
                 THEN Due(m.hall, m.tape, day, DecidedAt(m.hall, day, me, <<e, role>>), Today(m) - 1)
                 ELSE m.hall.start[me]

\* Where all sit together each day and respond with one damping, the days are the updates
\* of best_response_iteration: a day late, because nobody knows the others on the first.
Together(m) ==
  /\ \A k \in DOMAIN m.hall.seatings : m.hall.seatings[k] = <<[role \in Traders(m) |-> role]>>
  /\ m.hall.scope = "step" /\ \A a \in Traders(m) : m.hall.rules[a] = m.hall.rules[1] /\ m.hall.rules[a].kind = "damped"
FollowsIteration(m) ==
  Together(m) =>
    LET search_(x) == [game |-> m.hall.game, profile |-> x]
    IN  m.tape[Today(m)][1].acts =
          IF Today(m) = 1 THEN m.hall.start ELSE Damped(search_(m.tape[Today(m) - 1][1].acts), m.hall.rules[1].rate)

\* A run stops on the first day that ends `window` days without a move of tol or more by
\* anybody, where an agent that sits out does not move; and where all responded with one
\* damping, it then is near the equilibrium, and so is the distance it recorded.
Where(h, tape, a, k) == OrStart(h, a, Latest(tape, a, 1 .. k))
Quiet(h, tape, k) ==
  k > 1 /\ \A a \in DOMAIN h.rules : Apart(Where(h, tape, a, k), Where(h, tape, a, k - 1)) < h.tol
StopsWhenQuiet(m) ==
  m.status = "stopped" <=>
    Today(m) >= m.hall.window /\ \A k \in Today(m) - m.hall.window + 1 .. Today(m) : Quiet(m.hall, m.tape, k)
StopsAtEquilibrium(m) ==
  m.status = "stopped" /\ Together(m) =>
    LET near == 4 * ((m.hall.tol * Full) \div m.hall.rules[1].rate) + 8
    IN  /\ \A q \in Symmetric(m.hall.game, Unit), a \in Traders(m) : Apart(m.prev[a], q) <= near
        /\ \A d \in m.row.distance : d <= m.hall.game.n * near

\* The numeric gradient looks nowhere outside the bounds and is the slope where there is
\* room on both sides, and off by the curvature where there is not.
NumericIsSlope(g) ==
  \A x \in [1 .. g.n -> 0 .. g.max], h \in 1 .. 2 * g.max :
    LET curve == IF g.kind = "public_goods" THEN 0 ELSE g.b
        room == h <= x[1] /\ x[1] + h <= g.max
        step == Min({h, Max({1, g.max \div 2})})
    IN  g.max > 1 => Apart(NumericSlope(g, 1, x, h, 1), Slope(g, 1, x, 1)) <= IF room THEN 0 ELSE curve * Max({step, h})

\* After each day: agents move as the solver does, on what they saw, and stop at rest.
DaysAsPromised ==
  market.status \in {"between", "stopped"} /\ market.tape # <<>> =>
    RespondsToPast(market) /\ FollowsIteration(market) /\ StopsWhenQuiet(market)
\* All of it together, and what is special about an equilibrium and a slope.
MarketsAsPromised ==
  /\ DaysAsPromised
  /\ market.status = "stopped" => StopsAtEquilibrium(market)
  /\ market.status = "between" /\ market.tape = <<>> => NumericIsSlope(market.hall.game)
EconomiesAsPromised == ResponsesAsPromised /\ MarketsAsPromised
=============================================================================
