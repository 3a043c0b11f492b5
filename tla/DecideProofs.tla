----------------------------- MODULE DecideProofs -----------------------------
(***************************************************************************)
(* For any agents, conversation lengths, retries, replies and modes: the   *)
(* decisions of a step are committed together, every conversation is the   *)
(* ordered record of its agent's last steps, and the response store        *)
(* determines the run, through failed steps, programs that end anywhere,   *)
(* snapshots and restores.                                                 *)
(***************************************************************************)
EXTENDS LlmDecide, TLAPS, FiniteSetTheorems

Profile  == [Players -> Actions]
TurnRec  == [t : Nat, action : Actions \union {"illegal"}, attempts : Nat, gaveUp : BOOLEAN,
             payoff : Profile \union {<<>>}]
Seen     == [role : {Role[a] : a \in Agents}, mine : Actions \union {"none"},
             counts : [Actions -> {Cardinality(S) : S \in SUBSET Players}]]
Decision == [agent : Agents, obs : Seen, attempt : Nat]
Text     == Replies \union {"error"}
World    == [t : Nat, mode : Modes, held : Profile, last : Profile \union {<<>>},
             conv : [Agents -> Seq(TurnRec)], decided : [Agents -> Nat], failed : BOOLEAN]

(* A conversation at clock k: ordered, bounded, and paid for what it tells. *)
Increasing(c)  == \A i, j \in DOMAIN c : i < j => c[i].t < c[j].t
UpTo(c, k)     == \A i \in DOMAIN c : c[i].t <= k
PaidAs(c, a)   == \A i \in DOMAIN c : c[i].payoff # <<>> => c[i].payoff[a] = c[i].action
Told(c, a, k)  == Len(c) <= MaxTurns[a] /\ Increasing(c) /\ UpTo(c, k) /\ PaidAs(c, a)

WorldOK(w) ==
    /\ w \in World
    /\ \A a, b \in Agents : w.decided[a] = w.decided[b]
    /\ \A a \in Agents : Told(w.conv[a], a, w.t)

(* Between steps only a world that failed has turns that were never paid. *)
Settled(w) == \A a \in Agents : \A i \in DOMAIN w.conv[a] : w.conv[a][i].payoff = <<>> => w.failed

(* Within a step the turn of this step may be unpaid. *)
Unsettled(w) ==
    \A a \in Agents : \A i \in DOMAIN w.conv[a] :
        w.conv[a][i].payoff = <<>> => w.failed \/ w.conv[a][i].t = w.t

(* Decisions still open belong to different agents, none of which has an action
   set aside; an agent that has told of this step has the action it told of. *)
Distinct(p) == \A i, j \in DOMAIN p : p[i].agent = p[j].agent => i = j

InRound ==
    /\ pending \in Seq(Decision) /\ Distinct(pending)
    /\ \A a \in DOMAIN final : a \in Agents /\ final[a] \in Actions
    /\ \A i \in DOMAIN pending : pending[i].agent \notin DOMAIN final
    /\ \A a \in Agents : \A i \in DOMAIN world.conv[a] :
         world.conv[a][i].t = world.t => a \in DOMAIN final /\ final[a] = world.conv[a][i].action

Holds(w) ==
    \A a \in Agents : \A i \in DOMAIN w.conv[a] :
        w.conv[a][i].t = w.t => w.conv[a][i].action = w.held[a]

IInv ==
    /\ pc \in {"idle", "ask", "resolve", "play"} /\ mode \in Modes
    /\ \A k \in DOMAIN store : store[k] \in Text
    /\ WorldOK(world) /\ WorldOK(snap) /\ Settled(snap)
    /\ IF pc = "idle" THEN Settled(world) ELSE Unsettled(world)
    /\ pc \in {"idle", "play"} => Idle
    /\ pc \in {"ask", "resolve"} => InRound
    /\ pc = "resolve" => replies \in Seq(Text) /\ Len(replies) <= Len(pending)
    /\ pc = "play" => Holds(world)

USE DecideAssumption

-----------------------------------------------------------------------------
(* Sequences *)

(* The smaller of two numbers. *)
LEMMA MinOfTwo ==
    ASSUME NEW x \in Nat, NEW y \in Nat
    PROVE  Min({x, y}) \in Nat /\ Min({x, y}) <= x /\ Min({x, y}) <= y
<1>1. CASE x <= y
  <2>1. \E m \in {x, y} : \A n \in {x, y} : m <= n
    BY <1>1
  <2>2. QED
    BY <2>1 DEF Min
<1>2. CASE ~(x <= y)
  <2>1. \E m \in {x, y} : \A n \in {x, y} : m <= n
    BY <1>2
  <2>2. QED
    BY <2>1 DEF Min
<1>3. QED
  BY <1>1, <1>2

(* An element appended comes last; the others stay where they are. *)
LEMMA Appended ==
    ASSUME NEW S, NEW w \in Seq(S), NEW x \in S
    PROVE  /\ Append(w, x) \in Seq(S) /\ Len(Append(w, x)) = Len(w) + 1
           /\ Append(w, x)[Len(w) + 1] = x
           /\ \A i \in DOMAIN w : i \in DOMAIN Append(w, x) /\ Append(w, x)[i] = w[i]
           /\ \A i \in DOMAIN Append(w, x) : i \in DOMAIN w \/ i = Len(w) + 1
OBVIOUS

(* What Tail leaves. *)
LEMMA Tailed ==
    ASSUME NEW S, NEW w \in Seq(S), w # <<>>
    PROVE  /\ Head(w) \in S /\ Head(w) = w[1] /\ 1 \in DOMAIN w
           /\ Tail(w) \in Seq(S) /\ Len(Tail(w)) = Len(w) - 1
           /\ \A i \in DOMAIN Tail(w) : i + 1 \in DOMAIN w /\ Tail(w)[i] = w[i + 1]
OBVIOUS

(* The end of a sequence. *)
LEMMA Ending ==
    ASSUME NEW S, NEW w \in Seq(S), NEW m \in Nat, m <= Len(w)
    PROVE  LET e == SubSeq(w, Len(w) - m + 1, Len(w))
           IN  /\ e \in Seq(S) /\ Len(e) = m
               /\ \A i \in DOMAIN e : i + (Len(w) - m) \in DOMAIN w /\ e[i] = w[i + (Len(w) - m)]
OBVIOUS

(* append_turn keeps a conversation in order, within its length, and adds
   nothing but the turn. *)
LEMMA Remembered ==
    ASSUME NEW a \in Agents, world \in World, NEW turn \in TurnRec
    PROVE  /\ Remember(a, turn) \in Seq(TurnRec)
           /\ Len(Remember(a, turn)) <= MaxTurns[a]
           /\ \A i \in DOMAIN Remember(a, turn) :
                \/ Remember(a, turn)[i] = turn
                \/ \E j \in DOMAIN world.conv[a] : Remember(a, turn)[i] = world.conv[a][j]
           /\ Increasing(world.conv[a]) /\ (\A j \in DOMAIN world.conv[a] : world.conv[a][j].t < turn.t)
                => Increasing(Remember(a, turn))
<1> DEFINE c   == world.conv[a]
           all == Append(c, turn)
           m   == Min({Len(all), MaxTurns[a]})
           e   == SubSeq(all, Len(all) - m + 1, Len(all))
<1>1. c \in Seq(TurnRec) /\ MaxTurns[a] \in Nat
  BY DEF World
<1>2. /\ all \in Seq(TurnRec) /\ Len(all) = Len(c) + 1 /\ all[Len(c) + 1] = turn
      /\ \A i \in DOMAIN c : all[i] = c[i]
      /\ \A i \in DOMAIN all : i \in DOMAIN c \/ i = Len(c) + 1
  BY <1>1, Appended
<1>3. Len(all) \in Nat /\ Len(c) \in Nat
  BY <1>1, <1>2
<1>4. m \in Nat /\ m <= Len(all) /\ m <= MaxTurns[a]
  BY <1>1, <1>3, MinOfTwo
<1>5. Remember(a, turn) = e
  BY DEF Remember
<1> HIDE DEF all, m
<1>6. /\ e \in Seq(TurnRec) /\ Len(e) = m
      /\ \A i \in DOMAIN e : i + (Len(all) - m) \in DOMAIN all /\ e[i] = all[i + (Len(all) - m)]
  BY <1>2, <1>4, Ending
<1> HIDE DEF e
<1>7. \A i \in DOMAIN e : e[i] = turn \/ \E j \in DOMAIN c : e[i] = c[j]
  BY <1>2, <1>6
<1>8. ASSUME Increasing(c), \A j \in DOMAIN c : c[j].t < turn.t
      PROVE  Increasing(e)
  <2>1. ASSUME NEW i \in DOMAIN all, NEW j \in DOMAIN all, i < j PROVE all[i].t < all[j].t
    <3>1. i \in DOMAIN c /\ all[i] = c[i]
      BY <1>1, <1>2, <1>3, <2>1
    <3>2. CASE j \in DOMAIN c
      BY <1>2, <1>8, <2>1, <3>1, <3>2 DEF Increasing
    <3>3. CASE j = Len(c) + 1
      BY <1>2, <1>8, <3>1, <3>3
    <3>4. QED
      BY <1>2, <2>1, <3>2, <3>3
  <2>2. \A i, j \in DOMAIN e : i \in Nat /\ j \in Nat
    BY <1>6
  <2>3. SUFFICES ASSUME NEW i \in DOMAIN e, NEW j \in DOMAIN e, i < j PROVE e[i].t < e[j].t
    BY DEF Increasing
  <2>4. i + (Len(all) - m) < j + (Len(all) - m)
    BY <1>3, <1>4, <2>2, <2>3
  <2>5. all[i + (Len(all) - m)].t < all[j + (Len(all) - m)].t
    BY <1>6, <2>1, <2>3, <2>4
  <2>6. QED
    BY <1>6, <2>3, <2>5
<1>9. QED
  BY <1>4, <1>5, <1>6, <1>7, <1>8

(* What an agent observes. *)
LEMMA Observed ==
    ASSUME world \in World, NEW a \in Agents
    PROVE  Observe(a) \in Seen
<1>1. world.last = <<>> \/ (world.last # <<>> /\ world.last \in Profile)
  BY DEF World
<1>2. Role[a] \in {Role[b] : b \in Agents} /\ a \in Players
  OBVIOUS
<1>3. (IF world.last = <<>> THEN "none" ELSE world.last[a]) \in Actions \union {"none"}
  BY <1>1, <1>2 DEF Profile
<1>4. \A x \in Actions : (IF world.last = <<>> THEN 0 ELSE Cardinality({b \in Opponents[a] : world.last[b] = x}))
                           \in {Cardinality(S) : S \in SUBSET Players}
  <2>1. SUFFICES ASSUME NEW x \in Actions
                 PROVE (IF world.last = <<>> THEN 0 ELSE Cardinality({b \in Opponents[a] : world.last[b] = x}))
                         \in {Cardinality(S) : S \in SUBSET Players}
    OBVIOUS
  <2>2. {} \in SUBSET Players /\ Cardinality({}) = 0
    BY FS_EmptySet
  <2>3. {b \in Opponents[a] : world.last[b] = x} \in SUBSET Players
    OBVIOUS
  <2>4. QED
    BY <2>2, <2>3
<1>5. QED
  BY <1>2, <1>3, <1>4 DEF Observe, Seen

(* A retry goes to the end of the queue: the same agents are still waiting. *)
LEMMA Rotated ==
    ASSUME NEW p \in Seq(Decision), p # <<>>, Distinct(p),
           NEW d \in Decision, d.agent = p[1].agent
    PROVE  LET q == Append(Tail(p), d)
           IN  /\ q \in Seq(Decision) /\ Len(q) = Len(p) /\ Distinct(q)
               /\ \A i \in DOMAIN q : \E j \in DOMAIN p : q[i].agent = p[j].agent
<1> DEFINE s == Tail(p)
           q == Append(s, d)
<1>1. /\ 1 \in DOMAIN p /\ s \in Seq(Decision) /\ Len(s) = Len(p) - 1
      /\ \A i \in DOMAIN s : i + 1 \in DOMAIN p /\ s[i] = p[i + 1]
  BY Tailed
<1> HIDE DEF s
<1>2. /\ q \in Seq(Decision) /\ Len(q) = Len(s) + 1 /\ q[Len(s) + 1] = d
      /\ \A i \in DOMAIN s : q[i] = s[i]
      /\ \A i \in DOMAIN q : i \in DOMAIN s \/ i = Len(s) + 1
  BY <1>1, Appended
<1> HIDE DEF q
<1>3. Len(p) \in Nat /\ Len(s) \in Nat /\ DOMAIN s = 1..Len(s) /\ DOMAIN p = 1..Len(p)
  BY <1>1
<1>4. ASSUME NEW i \in DOMAIN q, NEW j \in DOMAIN q, q[i].agent = q[j].agent PROVE i = j
  <2>1. CASE i \in DOMAIN s /\ j \in DOMAIN s
    <3>1. p[i + 1].agent = p[j + 1].agent /\ i + 1 \in DOMAIN p /\ j + 1 \in DOMAIN p
      BY <1>1, <1>2, <1>4, <2>1
    <3>2. i + 1 = j + 1
      BY <3>1 DEF Distinct
    <3>3. QED
      BY <1>3, <2>1, <3>2
  <2>2. CASE i \in DOMAIN s /\ j = Len(s) + 1
    <3>1. p[i + 1].agent = p[1].agent /\ i + 1 \in DOMAIN p
      BY <1>1, <1>2, <1>4, <2>2
    <3>2. i + 1 = 1
      BY <1>1, <3>1 DEF Distinct
    <3>3. QED
      BY <1>3, <2>2, <3>2
  <2>3. CASE j \in DOMAIN s /\ i = Len(s) + 1
    <3>1. p[j + 1].agent = p[1].agent /\ j + 1 \in DOMAIN p
      BY <1>1, <1>2, <1>4, <2>3
    <3>2. j + 1 = 1
      BY <1>1, <3>1 DEF Distinct
    <3>3. QED
      BY <1>3, <2>3, <3>2
  <2>4. QED
    BY <1>2, <1>4, <2>1, <2>2, <2>3
<1>5. \A i \in DOMAIN q : \E j \in DOMAIN p : q[i].agent = p[j].agent
  BY <1>1, <1>2
<1>6. Len(q) = Len(p)
  BY <1>1, <1>2, <1>3
<1>7. QED
  BY <1>2, <1>4, <1>5, <1>6 DEF Distinct, q, s

(* A decision that is done leaves the others waiting. *)
LEMMA Dequeued ==
    ASSUME NEW p \in Seq(Decision), p # <<>>, Distinct(p)
    PROVE  /\ Tail(p) \in Seq(Decision) /\ Len(Tail(p)) = Len(p) - 1 /\ Distinct(Tail(p))
           /\ \A i \in DOMAIN Tail(p) : /\ \E j \in DOMAIN p : Tail(p)[i].agent = p[j].agent
                                        /\ Tail(p)[i].agent # p[1].agent
<1> DEFINE s == Tail(p)
<1>1. /\ 1 \in DOMAIN p /\ s \in Seq(Decision) /\ Len(s) = Len(p) - 1
      /\ \A i \in DOMAIN s : i + 1 \in DOMAIN p /\ s[i] = p[i + 1]
  BY Tailed
<1> HIDE DEF s
<1>2. \A i \in DOMAIN s : i \in Nat \ {0}
  BY <1>1
<1>3. Distinct(s)
  <2>1. SUFFICES ASSUME NEW i \in DOMAIN s, NEW j \in DOMAIN s, s[i].agent = s[j].agent PROVE i = j
    BY DEF Distinct
  <2>2. i + 1 = j + 1
    BY <1>1, <2>1 DEF Distinct
  <2>3. QED
    BY <1>2, <2>2
<1>4. \A i \in DOMAIN s : s[i].agent # p[1].agent
  <2>1. SUFFICES ASSUME NEW i \in DOMAIN s, s[i].agent = p[1].agent PROVE FALSE
    OBVIOUS
  <2>2. i + 1 = 1
    BY <1>1, <2>1 DEF Distinct
  <2>3. QED
    BY <1>2, <2>2
<1>5. QED
  BY <1>1, <1>3, <1>4 DEF s
-----------------------------------------------------------------------------
(* Worlds *)

(* A world whose agent tells one more turn, and the same world marked failed. *)
LEMMA Retold ==
    ASSUME NEW w \in World, NEW a \in Agents, NEW c \in Seq(TurnRec)
    PROVE  LET v == [w EXCEPT !.conv = [w.conv EXCEPT ![a] = c]]
           IN  /\ v \in World /\ v.t = w.t /\ v.held = w.held /\ v.decided = w.decided
               /\ v.failed = w.failed /\ v.conv[a] = c
               /\ \A b \in Agents : b # a => v.conv[b] = w.conv[b]
<1> DEFINE v == [w EXCEPT !.conv = [w.conv EXCEPT ![a] = c]]
<1>1. w.conv \in [Agents -> Seq(TurnRec)]
  BY DEF World
<1>2. PICK d : d = [w.conv EXCEPT ![a] = c]
  OBVIOUS
<1>3. d \in [Agents -> Seq(TurnRec)] /\ d[a] = c /\ \A b \in Agents : b # a => d[b] = w.conv[b]
  BY <1>1, <1>2
<1>4. v = [w EXCEPT !.conv = d]
  BY <1>2
<1> HIDE DEF v
<1>5. /\ v \in World /\ v.t = w.t /\ v.held = w.held /\ v.decided = w.decided
      /\ v.failed = w.failed /\ v.conv = d
  BY <1>3, <1>4 DEF World
<1>6. QED
  BY <1>3, <1>5 DEF v

LEMMA Marked ==
    ASSUME NEW w \in World
    PROVE  LET v == [w EXCEPT !.failed = TRUE]
           IN  /\ v \in World /\ v.t = w.t /\ v.held = w.held /\ v.decided = w.decided
               /\ v.failed /\ v.conv = w.conv
BY DEF World

(* The decided agent tells a turn of this step, its first. *)
LEMMA OneMoreTurn ==
    ASSUME WorldOK(world), Unsettled(world), NEW a \in Agents, NEW turn \in TurnRec,
           turn.t = world.t, turn.payoff = <<>>,
           \A i \in DOMAIN world.conv[a] : world.conv[a][i].t # world.t
    PROVE  LET v == Tells(a, turn)
           IN  /\ WorldOK(v) /\ Unsettled(v) /\ v.t = world.t /\ v.held = world.held
               /\ v.failed = world.failed
               /\ \A i \in DOMAIN v.conv[a] : v.conv[a][i].t = world.t => v.conv[a][i] = turn
               /\ \A b \in Agents : b # a => v.conv[b] = world.conv[b]
<1> DEFINE c == world.conv[a]
           r == Remember(a, turn)
           v == Tells(a, turn)
<1>1. world \in World /\ world.t \in Nat /\ c \in Seq(TurnRec) /\ Told(c, a, world.t)
  BY DEF WorldOK, World
<1>2. \A j \in DOMAIN c : c[j].t \in Nat /\ c[j].t < world.t
  <2>1. SUFFICES ASSUME NEW j \in DOMAIN c PROVE c[j].t \in Nat /\ c[j].t < world.t
    OBVIOUS
  <2>2. c[j] \in TurnRec
    BY <1>1
  <2>3. c[j].t \in Nat
    BY <2>2 DEF TurnRec
  <2>4. QED
    BY <1>1, <2>3 DEF Told, UpTo
<1>3. /\ r \in Seq(TurnRec) /\ Len(r) <= MaxTurns[a] /\ Increasing(r)
      /\ \A i \in DOMAIN r : r[i] = turn \/ \E j \in DOMAIN c : r[i] = c[j]
  BY <1>1, <1>2, Remembered DEF Told
<1>3a. v = [world EXCEPT !.conv = [world.conv EXCEPT ![a] = r]]
  BY DEF Tells
<1> HIDE DEF r, v
<1>4. /\ v \in World /\ v.t = world.t /\ v.held = world.held /\ v.decided = world.decided
      /\ v.failed = world.failed /\ v.conv[a] = r
      /\ \A b \in Agents : b # a => v.conv[b] = world.conv[b]
  BY <1>1, <1>3, <1>3a, Retold
<1>5. Told(r, a, world.t)
  <2>1. UpTo(c, world.t) /\ PaidAs(c, a)
    BY <1>1 DEF Told
  <2> HIDE DEF c
  <2>2. UpTo(r, world.t)
    <3>1. world.t <= world.t
      BY <1>1
    <3>2. QED
      BY <1>3, <2>1, <3>1 DEF UpTo
  <2>3. PaidAs(r, a)
    BY <1>3, <2>1 DEF PaidAs
  <2>4. QED
    BY <1>3, <2>2, <2>3 DEF Told
<1>6. WorldOK(v)
  BY <1>4, <1>5 DEF WorldOK
<1>7. Unsettled(v)
  <2>1. \A i \in DOMAIN r : r[i].payoff = <<>> => world.failed \/ r[i].t = world.t
    BY <1>3 DEF Unsettled
  <2>2. QED
    BY <1>4, <2>1 DEF Unsettled
<1>8. \A i \in DOMAIN r : r[i].t = world.t => r[i] = turn
  BY <1>3
<1>9. QED
  BY <1>4, <1>6, <1>7, <1>8 DEF v, r

(* A step that fails leaves a settled world between steps, whatever it told. *)
LEMMA FailedIInv ==
    ASSUME IInv, NEW w, FailWith(w), WorldOK(w), snap' = snap, mode' = mode,
           \A k \in DOMAIN store' : store'[k] \in Text
    PROVE  IInv'
<1>1. /\ pc' = "idle" /\ pending' = <<>> /\ replies' = <<>> /\ final' = <<>>
      /\ world' = [w EXCEPT !.failed = TRUE]
  BY DEF FailWith
<1>2. /\ world' \in World /\ world'.t = w.t /\ world'.decided = w.decided
      /\ world'.failed /\ world'.conv = w.conv
  BY <1>1, Marked DEF WorldOK
<1>3. WorldOK(world') /\ Settled(world')
  BY <1>2 DEF WorldOK, Settled
<1>4. mode \in Modes /\ WorldOK(snap) /\ Settled(snap)
  BY DEF IInv
<1>5. QED
  BY <1>1, <1>3, <1>4 DEF IInv, Idle

(* The world a program starts with. *)
LEMMA NewWorldOK ==
    ASSUME NEW m \in Modes
    PROVE  WorldOK(NewWorld(m)) /\ Settled(NewWorld(m))
<1> DEFINE w == NewWorld(m)
<1>1. /\ w.t = 0 /\ w.conv = [a \in Agents |-> <<>>] /\ w.decided = [a \in Agents |-> 0]
  BY DEF NewWorld
<1>2. w \in World
  BY DEF NewWorld, World, Profile
<1> HIDE DEF w
<1>3. \A a \in Agents : w.conv[a] = <<>> /\ w.decided[a] = 0 /\ MaxTurns[a] \in Nat
  BY <1>1
<1>4. \A a \in Agents : Told(w.conv[a], a, w.t)
  BY <1>3 DEF Told, Increasing, UpTo, PaidAs
<1>5. QED
  BY <1>2, <1>3, <1>4 DEF WorldOK, Settled, w

-----------------------------------------------------------------------------
(* The actions *)

LEMMA InitIInv == Init => IInv
<1>1. SUFFICES ASSUME Init PROVE IInv
  OBVIOUS
<1>2. mode \in Modes /\ world = NewWorld(mode) /\ snap = world /\ pc = "idle" /\ Idle /\ store = <<>>
  BY <1>1 DEF Init
<1>3. QED
  BY <1>2, NewWorldOK DEF IInv

(* The clock ticks, and every agent of the step has a decision to make. *)
LEMMA PrepareIInv == ASSUME IInv, Prepare PROVE IInv'
<1> DEFINE w == [world EXCEPT !.t = world.t + 1]
<1>1. /\ pc = "idle" /\ mode \in Modes /\ WorldOK(world) /\ WorldOK(snap) /\ Settled(snap)
      /\ Settled(world) /\ Idle /\ \A k \in DOMAIN store : store[k] \in Text
  BY DEF IInv, Prepare
<1>2. mode' = mode /\ store' = store /\ snap' = snap
  BY DEF Prepare
<1>3. /\ w \in World /\ w.t = world.t + 1 /\ w.decided = world.decided
      /\ w.failed = world.failed /\ w.conv = world.conv /\ world.t \in Nat
  <2>1. world \in World /\ world.t \in Nat
    BY <1>1 DEF WorldOK, World
  <2>2. PICK k \in Nat : k = world.t + 1
    BY <2>1
  <2>3. w = [world EXCEPT !.t = k]
    BY <2>2
  <2> HIDE DEF w
  <2>4. QED
    BY <2>1, <2>2, <2>3 DEF World
<1>4. world.conv \in [Agents -> Seq(TurnRec)]
  BY <1>1 DEF WorldOK, World
<1>5. \A a \in Agents : \A i \in DOMAIN world.conv[a] :
        world.conv[a][i].t \in Nat /\ world.conv[a][i].t <= world.t
  <2>1. SUFFICES ASSUME NEW a \in Agents, NEW i \in DOMAIN world.conv[a]
                 PROVE  world.conv[a][i].t \in Nat /\ world.conv[a][i].t <= world.t
    OBVIOUS
  <2>2. world.conv[a][i] \in TurnRec
    BY <1>4
  <2>3. world.conv[a][i].t \in Nat
    BY <2>2 DEF TurnRec
  <2>4. QED
    BY <1>1, <2>3 DEF WorldOK, Told, UpTo
<1>6. WorldOK(w)
  <2>1. \A a \in Agents : UpTo(world.conv[a], world.t + 1)
    BY <1>3, <1>5 DEF UpTo
  <2>2. QED
    BY <1>1, <1>3, <2>1 DEF WorldOK, Told
<1>7. CASE ~ManifestOk
  BY <1>1, <1>2, <1>6, <1>7, FailedIInv DEF Prepare
<1>8. CASE ManifestOk
  <2>1. /\ world' = w /\ pc' = "ask" /\ replies' = replies /\ final' = final
        /\ pending' = [a \in Agents |-> [agent |-> a, obs |-> Observe(a), attempt |-> 0]]
    BY <1>8 DEF Prepare
  <2>2. final' = <<>> /\ DOMAIN final' = {}
    BY <1>1, <2>1 DEF Idle
  <2>3. pending' \in Seq(Decision) /\ Distinct(pending')
    <3>1. Cardinality(Agents) \in Nat
      BY FS_CardinalityType
    <3>2. \A a \in Agents : Observe(a) \in Seen
      BY <1>1, Observed DEF WorldOK
    <3>3. \A a \in Agents : [agent |-> a, obs |-> Observe(a), attempt |-> 0] \in Decision
      BY <3>2 DEF Decision
    <3>4. pending' \in [1..Cardinality(Agents) -> Decision]
      BY <2>1, <3>3
    <3>5. \A a \in Agents : pending'[a].agent = a
      BY <2>1
    <3>6. pending' \in Seq(Decision)
      BY <3>1, <3>4
    <3>7. QED
      BY <2>1, <3>5, <3>6 DEF Distinct
  <2>4. InRound'
    <3>1. \A a \in Agents : \A i \in DOMAIN w.conv[a] : w.conv[a][i].t # w.t
      BY <1>3, <1>5
    <3>2. QED
      BY <2>1, <2>2, <2>3, <3>1 DEF InRound
  <2>5. Unsettled(w)
    BY <1>1, <1>3 DEF Settled, Unsettled
  <2> HIDE DEF w
  <2>6. QED
    BY <1>1, <1>2, <1>6, <2>1, <2>4, <2>5 DEF IInv
<1>9. QED
  BY <1>7, <1>8

(* The store and the backend answer every open decision, or the step fails. *)
LEMMA ObtainIInv == ASSUME IInv, Obtain PROVE IInv'
<1>1. /\ pc = "ask" /\ mode \in Modes /\ WorldOK(world) /\ WorldOK(snap) /\ Settled(snap)
      /\ Unsettled(world) /\ InRound /\ \A k \in DOMAIN store : store[k] \in Text
  BY DEF IInv, Obtain
<1>2. mode' = mode /\ snap' = snap
  BY DEF Obtain
<1>3. CASE mode = "ReplayOnly" /\ Missed # {}
  BY <1>1, <1>2, <1>3, FailedIInv DEF Obtain
<1>4. CASE ~(mode = "ReplayOnly" /\ Missed # {})
  <2> DEFINE Errors(out)  == {FirstOf(k) : k \in {j \in Missed : out[j] = "error"}}
             Good(out)    == {k \in Missed : \A i \in Errors(out) : FirstOf(k) < i}
             Have(out)    == [k \in (Asked \ Missed) \union Good(out) |->
                                IF k \in Good(out) THEN out[k] ELSE store[k]]
  <2>1. PICK out \in [Missed -> Replies \union {"error"}] :
          /\ store' = IF mode = "RecordMisses"
                        THEN [k \in DOMAIN store \union Good(out) |->
                                IF k \in Good(out) THEN out[k] ELSE store[k]]
                        ELSE store
          /\ IF Errors(out) # {}
               THEN FailWith(world)
               ELSE /\ replies' = [i \in DOMAIN pending |-> Have(out)[Key(pending[i])]]
                    /\ pc' = "resolve"
                    /\ UNCHANGED <<world, pending, final>>
    BY <1>4 DEF Obtain
  <2>2. \A k \in Good(out) : k \in Missed /\ out[k] \in Text
    BY DEF Text
  <2>3. \A k \in DOMAIN store' : store'[k] \in Text
    BY <1>1, <2>1, <2>2
  <2>4. CASE Errors(out) # {}
    BY <1>1, <1>2, <2>1, <2>3, <2>4, FailedIInv
  <2>5. CASE Errors(out) = {}
    <3>1. Good(out) = Missed
      BY <2>5
    <3>2. \A k \in Asked : Have(out)[k] \in Text
      <4>1. SUFFICES ASSUME NEW k \in Asked PROVE Have(out)[k] \in Text
        OBVIOUS
      <4>2. k \in DOMAIN Have(out) /\ Have(out)[k] = (IF k \in Missed THEN out[k] ELSE store[k])
        BY <3>1
      <4>3. k \notin Missed => k \in DOMAIN store
        BY DEF Missed, Lookup
      <4> HIDE DEF Have
      <4>4. QED
        BY <1>1, <2>2, <3>1, <4>2, <4>3
    <3> HIDE DEF Have, Good, Errors
    <3>3. /\ replies' = [i \in DOMAIN pending |-> Have(out)[Key(pending[i])]]
          /\ pc' = "resolve" /\ world' = world /\ pending' = pending /\ final' = final
      BY <2>1, <2>5
    <3>4. pending \in Seq(Decision) /\ \A i \in DOMAIN pending : Key(pending[i]) \in Asked
      BY <1>1 DEF InRound, Asked
    <3>5. Len(pending) \in Nat /\ DOMAIN pending = 1..Len(pending)
      BY <3>4
    <3>6. replies' \in [1..Len(pending) -> Text]
      BY <3>2, <3>3, <3>4, <3>5
    <3>7. replies' \in Seq(Text) /\ Len(replies') = Len(pending)
      BY <3>5, <3>6
    <3>8. InRound' /\ Unsettled(world')
      BY <1>1, <3>3 DEF InRound
    <3>9. QED
      BY <1>1, <1>2, <2>3, <3>3, <3>5, <3>7, <3>8 DEF IInv
  <2>6. QED
    BY <2>4, <2>5
<1>5. QED
  BY <1>3, <1>4

(* A decision that gets its action: the turn is told and the action set aside,
   and the agent is waiting no more. *)
LEMMA ClosedIInv ==
    ASSUME IInv, pc = "resolve", replies # <<>>, NEW d, d = Head(pending),
           NEW action \in Actions, NEW gaveUp \in BOOLEAN,
           Close(d, action, gaveUp), SetAside(d.agent, action),
           pending' = Tail(pending), replies' = Tail(replies), pc' = pc,
           UNCHANGED <<mode, store, snap>>
    PROVE  IInv'
<1> DEFINE turn == Turn(d, action, gaveUp)
           a    == d.agent
<1>1. /\ mode \in Modes /\ WorldOK(world) /\ WorldOK(snap) /\ Settled(snap)
      /\ Unsettled(world) /\ InRound /\ (\A k \in DOMAIN store : store[k] \in Text)
      /\ replies \in Seq(Text) /\ Len(replies) <= Len(pending)
  BY DEF IInv
<1>2. pending \in Seq(Decision) /\ Distinct(pending)
  BY <1>1 DEF InRound
<1>3. pending # <<>>
  BY <1>1, <1>2
<1>4. d \in Decision /\ d = pending[1] /\ 1 \in DOMAIN pending
  BY <1>2, <1>3, Tailed
<1>5. a \in Agents /\ a \notin DOMAIN final
  BY <1>1, <1>4 DEF Decision, InRound
<1>6. turn \in TurnRec /\ turn.t = world.t /\ turn.payoff = <<>> /\ turn.action = action
  <2>1. world.t \in Nat /\ d.attempt + 1 \in Nat
    BY <1>1, <1>4 DEF WorldOK, World, Decision
  <2>2. QED
    BY <2>1 DEF Turn, TurnRec
<1>7. \A i \in DOMAIN world.conv[a] : world.conv[a][i].t # world.t
  BY <1>1, <1>5 DEF InRound
<1>8. world' = Tells(a, turn)
  BY DEF Close
<1> HIDE DEF turn, a
<1>9. /\ WorldOK(world') /\ Unsettled(world') /\ world'.t = world.t
      /\ \A i \in DOMAIN world'.conv[a] : world'.conv[a][i].t = world.t => world'.conv[a][i] = turn
      /\ \A b \in Agents : b # a => world'.conv[b] = world.conv[b]
  BY <1>1, <1>5, <1>6, <1>7, <1>8, OneMoreTurn
<1>10. final' = [b \in DOMAIN final \union {a} |-> IF b = a THEN action ELSE final[b]]
  BY DEF SetAside, a
<1>11. /\ Tail(pending) \in Seq(Decision) /\ Len(Tail(pending)) = Len(pending) - 1 /\ Distinct(Tail(pending))
       /\ \A i \in DOMAIN Tail(pending) : /\ \E j \in DOMAIN pending : Tail(pending)[i].agent = pending[j].agent
                                           /\ Tail(pending)[i].agent # a
  BY <1>2, <1>3, <1>4, Dequeued DEF a
<1>12. Tail(replies) \in Seq(Text) /\ Len(Tail(replies)) = Len(replies) - 1
  BY <1>1, Tailed
<1>13. InRound'
  <2>1. \A b \in DOMAIN final' : b \in Agents /\ final'[b] \in Actions
    BY <1>1, <1>5, <1>10 DEF InRound
  <2>2. \A i \in DOMAIN pending' : pending'[i].agent \notin DOMAIN final'
    BY <1>1, <1>10, <1>11 DEF InRound
  <2>3. ASSUME NEW b \in Agents, NEW i \in DOMAIN world'.conv[b], world'.conv[b][i].t = world'.t
        PROVE  b \in DOMAIN final' /\ final'[b] = world'.conv[b][i].action
    <3>1. CASE b = a
      <4>1. world'.conv[b][i] = turn
        BY <1>9, <2>3, <3>1
      <4>2. b \in DOMAIN final' /\ final'[b] = action
        BY <1>10, <3>1
      <4>3. QED
        BY <1>6, <4>1, <4>2
    <3>2. CASE b # a
      <4>1. i \in DOMAIN world.conv[b] /\ world'.conv[b][i] = world.conv[b][i] /\ world.conv[b][i].t = world.t
        BY <1>9, <2>3, <3>2
      <4>2. b \in DOMAIN final /\ final[b] = world.conv[b][i].action
        BY <1>1, <2>3, <4>1 DEF InRound
      <4>3. b \in DOMAIN final' /\ final'[b] = final[b]
        BY <1>10, <3>2, <4>2
      <4>4. QED
        BY <4>1, <4>2, <4>3
    <3>3. QED
      BY <3>1, <3>2
  <2>4. QED
    BY <1>11, <2>1, <2>2, <2>3 DEF InRound
<1>14. Len(replies') <= Len(pending')
  BY <1>1, <1>2, <1>11, <1>12
<1>15. QED
  BY <1>1, <1>9, <1>12, <1>13, <1>14 DEF IInv

(* A reply becomes an action, the end of the step, another try or a fallback. *)
LEMMA ResolveIInv == ASSUME IInv, Resolve PROVE IInv'
<1> DEFINE d == Head(pending)
           r == Head(replies)
<1>1. /\ pc = "resolve" /\ replies # <<>> /\ UNCHANGED <<mode, store, snap>>
  BY DEF Resolve
<1>2. /\ mode \in Modes /\ WorldOK(world) /\ WorldOK(snap) /\ Settled(snap)
      /\ Unsettled(world) /\ InRound /\ (\A k \in DOMAIN store : store[k] \in Text)
      /\ replies \in Seq(Text) /\ Len(replies) <= Len(pending)
  BY <1>1 DEF IInv
<1>3. pending \in Seq(Decision) /\ Distinct(pending)
  BY <1>2 DEF InRound
<1>4. pending # <<>>
  BY <1>1, <1>2, <1>3
<1>5. d \in Decision /\ d = pending[1] /\ 1 \in DOMAIN pending
  BY <1>3, <1>4, Tailed
<1>6. d.agent \in Agents /\ d.agent \notin DOMAIN final
  BY <1>2, <1>5 DEF Decision, InRound
<1>7. CASE r \in Actions /\ Close(d, r, FALSE) /\ SetAside(d.agent, r) /\ pending' = Tail(pending)
           /\ replies' = Tail(replies) /\ pc' = pc
  BY <1>1, <1>7, ClosedIInv
<1>8. CASE r = "illegal" /\ FailWith(Tells(d.agent, Turn(d, r, FALSE)))
  <2> DEFINE turn == Turn(d, r, FALSE)
  <2>1. turn \in TurnRec /\ turn.t = world.t /\ turn.payoff = <<>>
    <3>1. world.t \in Nat /\ d.attempt + 1 \in Nat
      BY <1>2, <1>5 DEF WorldOK, World, Decision
    <3>2. QED
      BY <1>8, <3>1 DEF Turn, TurnRec
  <2>2. \A i \in DOMAIN world.conv[d.agent] : world.conv[d.agent][i].t # world.t
    BY <1>2, <1>6 DEF InRound
  <2> HIDE DEF turn, d
  <2>3. WorldOK(Tells(d.agent, turn))
    BY <1>2, <1>6, <2>1, <2>2, OneMoreTurn
  <2>4. FailWith(Tells(d.agent, turn))
    BY <1>8 DEF turn
  <2>5. QED
    BY <1>1, <1>2, <2>3, <2>4, FailedIInv
<1>9. CASE /\ pending' = Append(Tail(pending), [d EXCEPT !.attempt = d.attempt + 1])
           /\ replies' = Tail(replies) /\ UNCHANGED <<world, final, pc>>
  <2> DEFINE again == [d EXCEPT !.attempt = d.attempt + 1]
  <2>1. again \in Decision /\ again.agent = pending[1].agent
    <3>1. PICK n \in Nat : n = d.attempt + 1
      BY <1>5 DEF Decision
    <3> HIDE DEF d
    <3>2. [d EXCEPT !.attempt = n] \in Decision /\ [d EXCEPT !.attempt = n].agent = d.agent
      BY <1>5 DEF Decision
    <3>3. QED
      BY <1>5, <3>1, <3>2
  <2>1a. pending' = Append(Tail(pending), again)
    BY <1>9
  <2> HIDE DEF again
  <2>2. /\ pending' \in Seq(Decision) /\ Len(pending') = Len(pending) /\ Distinct(pending')
        /\ \A i \in DOMAIN pending' : \E j \in DOMAIN pending : pending'[i].agent = pending[j].agent
    BY <1>3, <1>4, <2>1, <2>1a, Rotated
  <2>3. Tail(replies) \in Seq(Text) /\ Len(Tail(replies)) = Len(replies) - 1
    BY <1>1, <1>2, Tailed
  <2>4. InRound'
    BY <1>2, <1>9, <2>2 DEF InRound
  <2>5. replies' \in Seq(Text) /\ Len(replies') <= Len(pending')
    BY <1>2, <1>3, <1>9, <2>2, <2>3
  <2>6. world' = world /\ pc' = "resolve"
    BY <1>1, <1>9
  <2>7. QED
    BY <1>1, <1>2, <2>4, <2>5, <2>6 DEF IInv
<1>10. CASE /\ Close(d, world.held[d.agent], TRUE) /\ SetAside(d.agent, world.held[d.agent])
            /\ pending' = Tail(pending) /\ replies' = Tail(replies) /\ pc' = pc
  <2>1. world.held[d.agent] \in Actions
    BY <1>2, <1>6 DEF WorldOK, World, Profile
  <2>2. QED
    BY <1>1, <1>10, <2>1, ClosedIInv
<1>11. QED
  BY <1>7, <1>8, <1>9, <1>10 DEF Resolve

(* With nobody waiting, the actions set aside are committed at once. *)
LEMMA EndRoundIInv == ASSUME IInv, EndRound PROVE IInv'
<1>1. /\ pc = "resolve" /\ replies = <<>> /\ UNCHANGED <<mode, pending, replies, store, snap>>
  BY DEF EndRound
<1>2. /\ mode \in Modes /\ WorldOK(world) /\ WorldOK(snap) /\ Settled(snap)
      /\ Unsettled(world) /\ InRound /\ (\A k \in DOMAIN store : store[k] \in Text)
  BY <1>1 DEF IInv
<1>3. CASE pending # <<>>
  <2>1. pc' = "ask" /\ world' = world /\ final' = final
    BY <1>3 DEF EndRound
  <2>2. QED
    BY <1>1, <1>2, <2>1 DEF IInv, InRound
<1>4. CASE pending = <<>>
  <2> DEFINE held    == [a \in Players |-> IF a \in DOMAIN final THEN final[a] ELSE world.held[a]]
             decided == [a \in Agents |-> world.t]
  <2>1. /\ world' = [world EXCEPT !.held = held, !.decided = decided]
        /\ final' = <<>> /\ pc' = "play"
    BY <1>4 DEF EndRound
  <2>2. world \in World /\ world.t \in Nat /\ world.held \in Profile
    BY <1>2 DEF WorldOK, World
  <2>3. held \in Profile /\ decided \in [Agents -> Nat] /\ \A a, b \in Agents : decided[a] = decided[b]
    BY <1>2, <2>2 DEF Profile, InRound
  <2>4. \A a \in Agents : a \in DOMAIN final => held[a] = final[a]
    OBVIOUS
  <2> HIDE DEF held, decided
  <2>5. /\ world' \in World /\ world'.t = world.t /\ world'.conv = world.conv /\ world'.failed = world.failed
        /\ world'.held = held /\ world'.decided = decided
    BY <2>1, <2>2, <2>3 DEF World
  <2>6. WorldOK(world') /\ Unsettled(world')
    BY <1>2, <2>3, <2>5 DEF WorldOK, Unsettled
  <2>7. Holds(world')
    BY <1>2, <2>4, <2>5 DEF Holds, InRound
  <2>8. Idle'
    BY <1>1, <1>4, <2>1 DEF Idle
  <2>9. QED
    BY <1>1, <1>2, <2>1, <2>6, <2>7, <2>8 DEF IInv
<1>5. QED
  BY <1>3, <1>4

(* The step's payoff is written into the turn of this step, which tells the
   action that was paid for. *)
LEMMA LearnIInv == ASSUME IInv, Learn PROVE IInv'
<1>1. /\ pc = "play" /\ pc' = "idle" /\ UNCHANGED <<mode, pending, replies, final, store, snap>>
  BY DEF Learn
<1>2. /\ mode \in Modes /\ WorldOK(world) /\ WorldOK(snap) /\ Settled(snap) /\ Idle
      /\ Unsettled(world) /\ Holds(world) /\ (\A k \in DOMAIN store : store[k] \in Text)
  BY <1>1 DEF IInv
<1>3. /\ world \in World /\ world.t \in Nat /\ world.held \in Profile
      /\ world.conv \in [Agents -> Seq(TurnRec)]
  BY <1>2 DEF WorldOK, World
<1> DEFINE Due(c, i) == i = Len(c) /\ c[i].t = world.t
           Paid(c)   == [i \in DOMAIN c |-> IF Due(c, i) THEN [c[i] EXCEPT !.payoff = world.held] ELSE c[i]]
           conv      == [a \in Agents |-> Paid(world.conv[a])]
<1>4. world' = [world EXCEPT !.last = world.held, !.conv = conv]
  BY DEF Learn
<1>5. ASSUME NEW a \in Agents
      PROVE  /\ conv[a] \in Seq(TurnRec) /\ Len(conv[a]) = Len(world.conv[a])
             /\ DOMAIN conv[a] = DOMAIN world.conv[a]
             /\ \A i \in DOMAIN world.conv[a] :
                  /\ conv[a][i].t = world.conv[a][i].t /\ conv[a][i].action = world.conv[a][i].action
                  /\ conv[a][i].payoff = (IF Due(world.conv[a], i) THEN world.held ELSE world.conv[a][i].payoff)
  <2> DEFINE c == world.conv[a]
  <2>1. c \in Seq(TurnRec)
    BY <1>3
  <2>2. ASSUME NEW i \in DOMAIN c
        PROVE  /\ Paid(c)[i] \in TurnRec /\ Paid(c)[i].t = c[i].t /\ Paid(c)[i].action = c[i].action
               /\ Paid(c)[i].payoff = (IF Due(c, i) THEN world.held ELSE c[i].payoff)
    <3>1. c[i] \in TurnRec
      BY <2>1, <2>2
    <3>2. Paid(c)[i] = (IF Due(c, i) THEN [c[i] EXCEPT !.payoff = world.held] ELSE c[i])
      BY <2>2
    <3>3. /\ [c[i] EXCEPT !.payoff = world.held] \in TurnRec
          /\ [c[i] EXCEPT !.payoff = world.held].t = c[i].t
          /\ [c[i] EXCEPT !.payoff = world.held].action = c[i].action
          /\ [c[i] EXCEPT !.payoff = world.held].payoff = world.held
      <4> HIDE DEF c
      <4>1. QED
        BY <1>3, <3>1 DEF TurnRec
    <3> HIDE DEF Paid, Due
    <3>4. QED
      BY <3>1, <3>2, <3>3
  <2>3. DOMAIN Paid(c) = DOMAIN c /\ Len(c) \in Nat /\ DOMAIN c = 1..Len(c)
    BY <2>1
  <2>4. Paid(c) \in [1..Len(c) -> TurnRec]
    BY <2>2, <2>3
  <2>5. Paid(c) \in Seq(TurnRec) /\ Len(Paid(c)) = Len(c)
    <3> HIDE DEF Paid
    <3>1. QED
      BY <2>3, <2>4
  <2>6. conv[a] = Paid(c)
    OBVIOUS
  <2> HIDE DEF conv, Paid, Due
  <2>7. QED
    BY <2>2, <2>3, <2>5, <2>6
<1>6. conv \in [Agents -> Seq(TurnRec)]
  <2>1. conv = [a \in Agents |-> conv[a]]
    OBVIOUS
  <2> HIDE DEF conv
  <2>2. QED
    BY <1>5, <2>1
<1> HIDE DEF conv
<1>7. /\ world' \in World /\ world'.t = world.t /\ world'.decided = world.decided
      /\ world'.failed = world.failed /\ world'.conv = conv
  BY <1>3, <1>4, <1>6 DEF World
<1>8. ASSUME NEW a \in Agents PROVE Told(conv[a], a, world.t)
  <2>1. Told(world.conv[a], a, world.t)
    BY <1>2 DEF WorldOK
  <2>2. Len(conv[a]) <= MaxTurns[a] /\ Increasing(conv[a]) /\ UpTo(conv[a], world.t)
    BY <1>5, <2>1 DEF Told, Increasing, UpTo
  <2>3. ASSUME NEW i \in DOMAIN conv[a], conv[a][i].payoff # <<>>
        PROVE  conv[a][i].payoff[a] = conv[a][i].action
    <3>1. CASE Due(world.conv[a], i)
      BY <1>2, <1>5, <2>3, <3>1 DEF Holds
    <3>2. CASE ~Due(world.conv[a], i)
      BY <1>5, <2>1, <2>3, <3>2 DEF Told, PaidAs
    <3>3. QED
      BY <3>1, <3>2
  <2>4. QED
    BY <2>2, <2>3 DEF Told, PaidAs
<1>9. ASSUME NEW a \in Agents, NEW i \in DOMAIN conv[a], conv[a][i].payoff = <<>>
      PROVE  world.failed
  <2>1. world.held # <<>>
    <3>1. a \in DOMAIN world.held
      BY <1>3, <1>9 DEF Profile
    <3>2. DOMAIN <<>> = {}
      OBVIOUS
    <3>3. QED
      BY <3>1, <3>2
  <2>2. ~Due(world.conv[a], i) /\ i \in DOMAIN world.conv[a] /\ world.conv[a][i].payoff = <<>>
    BY <1>5, <1>9, <2>1
  <2>3. CASE world.conv[a][i].t # world.t
    BY <1>2, <2>2, <2>3 DEF Unsettled
  <2>4. CASE world.conv[a][i].t = world.t
    <3>1. i # Len(world.conv[a])
      BY <2>2, <2>4
    <3>2. world.conv[a] \in Seq(TurnRec) /\ Len(world.conv[a]) \in DOMAIN world.conv[a] /\ i < Len(world.conv[a])
      BY <1>3, <2>2, <3>1
    <3>3. /\ world.t < world.conv[a][Len(world.conv[a])].t
          /\ world.conv[a][Len(world.conv[a])].t <= world.t
      BY <1>2, <2>2, <2>4, <3>2 DEF WorldOK, Told, Increasing, UpTo
    <3>4. world.conv[a][Len(world.conv[a])].t \in Nat
      <4>1. world.conv[a][Len(world.conv[a])] \in TurnRec
        BY <3>2
      <4>2. QED
        BY <4>1 DEF TurnRec
    <3>5. QED
      BY <1>3, <3>3, <3>4
  <2>5. QED
    BY <2>3, <2>4
<1>10. WorldOK(world') /\ Settled(world')
  BY <1>2, <1>7, <1>8, <1>9 DEF WorldOK, Settled
<1>11. Idle'
  BY <1>1, <1>2 DEF Idle
<1>12. QED
  BY <1>1, <1>2, <1>10, <1>11 DEF IInv

LEMMA NextIInv == IInv /\ [Next]_vars => IInv'
<1>1. SUFFICES ASSUME IInv, [Next]_vars PROVE IInv'
  OBVIOUS
<1>2. /\ mode \in Modes /\ WorldOK(world) /\ WorldOK(snap) /\ Settled(snap)
      /\ (\A k \in DOMAIN store : store[k] \in Text)
  BY <1>1 DEF IInv
<1>3. CASE Prepare
  BY <1>1, <1>3, PrepareIInv
<1>4. CASE Obtain
  BY <1>1, <1>4, ObtainIInv
<1>5. CASE Resolve
  BY <1>1, <1>5, ResolveIInv
<1>6. CASE EndRound
  BY <1>1, <1>6, EndRoundIInv
<1>7. CASE Learn
  BY <1>1, <1>7, LearnIInv
<1>8. CASE PlayFails
  BY <1>1, <1>2, <1>8, FailedIInv DEF PlayFails
<1>9. CASE Boot
  <2>1. PICK m \in Modes : mode' = m /\ world' = NewWorld(m)
    BY <1>9 DEF Boot
  <2>2. pc' = "idle" /\ Idle' /\ store' = store /\ snap' = snap
    BY <1>9 DEF Boot, Idle
  <2>3. WorldOK(world') /\ Settled(world')
    BY <2>1, NewWorldOK
  <2>4. QED
    BY <1>2, <2>1, <2>2, <2>3 DEF IInv
<1>10. CASE TakeSnapshot
  BY <1>1, <1>2, <1>10 DEF TakeSnapshot, IInv, Idle
<1>11. CASE Restore
  BY <1>1, <1>2, <1>11 DEF Restore, IInv, Idle
<1>12. CASE UNCHANGED vars
  BY <1>1, <1>2, <1>12 DEF vars, IInv, Idle, InRound
<1>13. QED
  BY <1>1, <1>3, <1>4, <1>5, <1>6, <1>7, <1>8, <1>9, <1>10, <1>11, <1>12 DEF Next, Step

(* The inductive invariant holds in every reachable state. *)
THEOREM DecideIInv == Spec => []IInv
BY InitIInv, NextIInv, PTL DEF Spec

(* No step ever commits the decisions of some agents without the others'. *)
THEOREM DecideCommittedTogether == Spec => []CommittedTogether
<1>1. IInv => CommittedTogether
  BY DEF IInv, WorldOK, CommittedTogether
<1>2. QED
  BY DecideIInv, <1>1, PTL

(* A conversation is the ordered record of its agent's last steps: bounded, one
   turn a step, each paid for the action it tells, and unpaid only where a step
   failed or is still running. *)
THEOREM DecideTurnsAreSteps == Spec => []TurnsAreSteps
<1>1. ASSUME IInv PROVE TurnsAreSteps
  <2>1. WorldOK(world)
    BY <1>1 DEF IInv
  <2>2. SUFFICES ASSUME NEW a \in Agents
                 PROVE  /\ Len(world.conv[a]) <= MaxTurns[a]
                        /\ \A i \in DOMAIN world.conv[a] :
                             /\ i > 1 => world.conv[a][i - 1].t < world.conv[a][i].t
                             /\ world.conv[a][i].payoff # <<>> =>
                                  world.conv[a][i].payoff[a] = world.conv[a][i].action
                             /\ world.conv[a][i].payoff = <<>> =>
                                  world.failed \/ (world.conv[a][i].t = world.t /\ pc # "idle")
    BY DEF TurnsAreSteps
  <2>3. Told(world.conv[a], a, world.t) /\ world.conv[a] \in Seq(TurnRec)
    BY <2>1 DEF WorldOK, World
  <2>4. \A i \in DOMAIN world.conv[a] : i > 1 => i - 1 \in DOMAIN world.conv[a] /\ i - 1 < i
    BY <2>3
  <2>5. \A i \in DOMAIN world.conv[a] : i > 1 => world.conv[a][i - 1].t < world.conv[a][i].t
    BY <2>3, <2>4 DEF Told, Increasing
  <2>6. \A i \in DOMAIN world.conv[a] : world.conv[a][i].payoff = <<>> =>
          world.failed \/ (world.conv[a][i].t = world.t /\ pc # "idle")
    BY <1>1 DEF IInv, Settled, Unsettled
  <2>7. QED
    BY <2>3, <2>5, <2>6 DEF Told, PaidAs
<1>2. QED
  BY DecideIInv, <1>1, PTL
-----------------------------------------------------------------------------
(* The store determines the run *)

(* What decides how a step goes on, beside the store. *)
Stage(at, open, told, aside, t, held, last, conv) ==
    [pc |-> at, pending |-> open, replies |-> told, final |-> aside,
     t |-> t, held |-> held, last |-> last, conv |-> conv]
View == Stage(pc, pending, replies, final, world.t, world.held, world.last, world.conv)

(* One step of a program over the store S that answers everything it is asked,
   as a function of the stage it has reached. *)
KeyAt(t, d) == [obs |-> d.obs, feedback |-> d.attempt,
                seed |-> IF ColdSampling THEN <<>> ELSE <<t, d.agent, d.attempt>>]
Ready(v, S) == v.pc = "ask" => \A i \in DOMAIN v.pending : KeyAt(v.t, v.pending[i]) \in DOMAIN S

Retelling(v, a, turn) ==
    LET all == Append(v.conv[a], turn)
    IN  [v.conv EXCEPT ![a] = SubSeq(all, Len(all) - Min({Len(all), MaxTurns[a]}) + 1, Len(all))]
Decided(v, d, action, gaveUp) ==
    Stage(v.pc, Tail(v.pending), Tail(v.replies),
          [b \in DOMAIN v.final \union {d.agent} |-> IF b = d.agent THEN action ELSE v.final[b]],
          v.t, v.held, v.last,
          Retelling(v, d.agent, [t |-> v.t, action |-> action, attempts |-> d.attempt + 1,
                             gaveUp |-> gaveUp, payoff |-> <<>>]))
Answered(v, S) ==
    Stage("resolve", v.pending, [i \in DOMAIN v.pending |-> S[KeyAt(v.t, v.pending[i])]], v.final,
          v.t, v.held, v.last, v.conv)
Resolved(v) ==
    LET d == Head(v.pending)
        r == Head(v.replies)
    IN  IF r \in Actions THEN Decided(v, d, r, FALSE)
        ELSE IF d.attempt < MaxRetries
        THEN Stage(v.pc, Append(Tail(v.pending), [d EXCEPT !.attempt = d.attempt + 1]), Tail(v.replies),
                   v.final, v.t, v.held, v.last, v.conv)
        ELSE Decided(v, d, v.held[d.agent], TRUE)
Committed(v) ==
    IF v.pending # <<>>
    THEN Stage("ask", v.pending, v.replies, v.final, v.t, v.held, v.last, v.conv)
    ELSE Stage("play", v.pending, v.replies, <<>>, v.t,
               [a \in Players |-> IF a \in DOMAIN v.final THEN v.final[a] ELSE v.held[a]], v.last, v.conv)
After(v, S) == IF v.pc = "ask" THEN Answered(v, S)
               ELSE IF v.replies # <<>> THEN Resolved(v) ELSE Committed(v)

(* What is shown once the stage in which everybody has decided has been paid for. *)
Shown(v) ==
    LET paid(turns) == [i \in DOMAIN turns |->
                          IF i = Len(turns) /\ turns[i].t = v.t
                            THEN [turns[i] EXCEPT !.payoff = v.held] ELSE turns[i]]
    IN  [held |-> v.held, conv |-> [a \in Agents |-> paid(v.conv[a])]]

(* The stage in which step k begins if the steps before it went as recorded. *)
ObservedAt(last, a) ==
    [role |-> Role[a],
     mine |-> IF last = <<>> THEN "none" ELSE last[a],
     counts |-> [x \in Actions |-> IF last = <<>> THEN 0 ELSE Cardinality({b \in Opponents[a] : last[b] = x})]]
BeginsWith(k, held, last, conv) ==
    Stage("ask", [a \in Agents |-> [agent |-> a, obs |-> ObservedAt(last, a), attempt |-> 0]],
          <<>>, <<>>, k, held, last, conv)
Beginning(k) ==
    IF k = 1 THEN BeginsWith(k, [a \in Players |-> Start], <<>>, [a \in Agents |-> <<>>])
    ELSE BeginsWith(k, trace[k - 1].held, trace[k - 1].held, trace[k - 1].conv)

(* G is the way from stage u to stage v over the store S. *)
Leads(G, S, u, v) ==
    /\ u \in G /\ v \in G
    /\ \A x \in G : x # v => x.pc # "play" /\ Ready(x, S) /\ After(x, S) \in G
Determines(G, S, k, v) == Leads(G, S, Beginning(k), v) /\ v.pc = "play" /\ Shown(v) = trace[k]

Sound(w) == ~w.failed /\ w.mode # "Live"

(* Between steps a world shows what is recorded for its clock; so does a snapshot. *)
AtRest(w) ==
    Sound(w) =>
      IF w.t = 0
      THEN w.held = [a \in Players |-> Start] /\ w.last = <<>> /\ w.conv = [a \in Agents |-> <<>>]
      ELSE w.t \in DOMAIN trace /\ trace[w.t] = Outcome(w) /\ w.last = w.held

(* What is recorded for a step, the store leads to from what is recorded before it. *)
Recorded ==
    /\ DOMAIN trace \subseteq Nat \ {0}
    /\ \A k \in DOMAIN trace : /\ k > 1 => k - 1 \in DOMAIN trace
                               /\ \E G : \E v \in G : Determines(G, store, k, v)

(* Inside a step a program is on that way, or makes it. *)
OnTheWay ==
    pc # "idle" =>
      /\ mode = world.mode
      /\ Sound(world) =>
           /\ world.t \in Nat \ {0}
           /\ world.t > 1 => world.t - 1 \in DOMAIN trace
           /\ IF world.t \in DOMAIN trace
              THEN \E G : \E v \in G : Determines(G, store, world.t, v) /\ View \in G
              ELSE \E G : Leads(G, store, Beginning(world.t), View)

DInv == /\ AtRest(snap) /\ (pc = "idle" => AtRest(world))
        /\ Recorded /\ OnTheWay

-----------------------------------------------------------------------------
(* A longer store answers as the shorter one did. *)
LEMMA LeadsOn ==
    ASSUME NEW S, NEW T, \A k \in DOMAIN S : k \in DOMAIN T /\ T[k] = S[k],
           NEW G, NEW u, NEW v, Leads(G, S, u, v)
    PROVE  Leads(G, T, u, v)
<1>1. SUFFICES ASSUME NEW x \in G, x # v PROVE x.pc # "play" /\ Ready(x, T) /\ After(x, T) \in G
  BY DEF Leads
<1>2. x.pc # "play" /\ Ready(x, S) /\ After(x, S) \in G
  BY <1>1 DEF Leads
<1>3. Ready(x, T)
  BY <1>2 DEF Ready
<1>4. After(x, T) = After(x, S)
  <2>1. CASE x.pc = "ask"
    <3>1. \A i \in DOMAIN x.pending : T[KeyAt(x.t, x.pending[i])] = S[KeyAt(x.t, x.pending[i])]
      BY <1>2, <2>1 DEF Ready
    <3>2. Answered(x, T) = Answered(x, S)
      BY <3>1 DEF Answered
    <3>3. QED
      BY <2>1, <3>2 DEF After
  <2>2. CASE x.pc # "ask"
    BY <2>2 DEF After
  <2>3. QED
    BY <2>1, <2>2
<1>5. QED
  BY <1>2, <1>3, <1>4

(* A way that goes one stage further. *)
LEMMA LeadsFurther ==
    ASSUME NEW G, NEW S, NEW u, NEW v, Leads(G, S, u, v), v.pc # "play", Ready(v, S)
    PROVE  Leads(G \union {After(v, S)}, S, u, After(v, S))
BY DEF Leads

(* No action takes a record out of the store or changes one. *)
LEMMA StoreGrows ==
    ASSUME [Next]_vars
    PROVE  \A k \in DOMAIN store : k \in DOMAIN store' /\ store'[k] = store[k]
<1>1. CASE Obtain
  <2>1. CASE store' = store
    BY <2>1
  <2>2. CASE store' # store
    <3>1. mode = "RecordMisses" /\ \E out, good : /\ good \subseteq Missed
             /\ store' = [k \in DOMAIN store \union good |-> IF k \in good THEN out[k] ELSE store[k]]
      <4>1. ~(mode = "ReplayOnly" /\ Missed # {})
        BY <1>1, <2>2 DEF Obtain, FailWith
      <4> DEFINE Errors(out) == {FirstOf(k) : k \in {j \in Missed : out[j] = "error"}}
                 Fine(out)   == {k \in Missed : \A i \in Errors(out) : FirstOf(k) < i}
      <4>2. PICK out \in [Missed -> Replies \union {"error"}] :
              store' = IF mode = "RecordMisses"
                       THEN [k \in DOMAIN store \union Fine(out) |-> IF k \in Fine(out) THEN out[k] ELSE store[k]]
                       ELSE store
        BY <1>1, <4>1 DEF Obtain
      <4>3. Fine(out) \subseteq Missed
        OBVIOUS
      <4> HIDE DEF Fine
      <4>4. QED
        BY <2>2, <4>2, <4>3
    <3>2. Lookup = DOMAIN store
      BY <3>1 DEF Lookup
    <3>3. QED
      BY <3>1, <3>2 DEF Missed
  <2>3. QED
    BY <2>1, <2>2
<1>2. CASE ~Obtain
  <2>1. store' = store
    BY <1>2 DEF Next, Step, Prepare, Resolve, EndRound, Learn, PlayFails, Boot, TakeSnapshot, Restore, vars
  <2>2. QED
    BY <2>1
<1>3. QED
  BY <1>1, <1>2

(* What is recorded stays, and with it where a step begins. *)
LEMMA TraceGrows ==
    ASSUME [Next]_vars, Recorded
    PROVE  /\ \A k \in DOMAIN trace : k \in DOMAIN trace' /\ trace'[k] = trace[k]
           /\ \A k \in Nat \ {0} : k = 1 \/ k - 1 \in DOMAIN trace => Beginning(k)' = Beginning(k)
<1>1. \A k \in DOMAIN trace : k \in DOMAIN trace' /\ trace'[k] = trace[k]
  <2>1. CASE Learn
    BY <2>1 DEF Learn
  <2>2. CASE ~Learn
    <3>1. trace' = trace
      BY <2>2 DEF Next, Step, Prepare, Obtain, Resolve, EndRound, PlayFails, Boot, TakeSnapshot, Restore, vars
    <3>2. QED
      BY <3>1
  <2>3. QED
    BY <2>1, <2>2
<1>2. QED
  BY <1>1 DEF Beginning

(* A recorded step stays determined. *)
LEMMA StillDetermined ==
    ASSUME [Next]_vars, Recorded, NEW k \in DOMAIN trace, NEW G, NEW v, Determines(G, store, k, v)
    PROVE  (Determines(G, store, k, v))'
<1>0. k \in Nat \ {0} /\ (k = 1 \/ k - 1 \in DOMAIN trace)
  BY DEF Recorded
<1>1. trace'[k] = trace[k] /\ Beginning(k)' = Beginning(k)
  BY <1>0, TraceGrows, Zenon
<1>2. Leads(G, store', Beginning(k), v)
  BY StoreGrows, LeadsOn DEF Determines
<1>3. QED
  BY <1>1, <1>2 DEF Determines, Leads

(* A world that rests stays as it is recorded. *)
LEMMA StillAtRest ==
    ASSUME [Next]_vars, Recorded, NEW w, AtRest(w), w.t \in Nat
    PROVE  AtRest(w)'
BY TraceGrows DEF AtRest, Outcome, Sound

(* Recorded is preserved by whatever does not record. *)
LEMMA StillRecorded ==
    ASSUME [Next]_vars, Recorded, DOMAIN trace' = DOMAIN trace
    PROVE  Recorded'
<1>1. ASSUME NEW k \in DOMAIN trace
      PROVE  (\E G : \E v \in G : Determines(G, store, k, v))'
  <2>1. PICK G : \E v \in G : Determines(G, store, k, v)
    BY DEF Recorded
  <2>2. PICK v \in G : Determines(G, store, k, v)
    BY <2>1
  <2>3. (Determines(G, store, k, v))'
    BY <2>2, StillDetermined
  <2>4. QED
    BY <2>3
<1>2. QED
  BY <1>1 DEF Recorded

-----------------------------------------------------------------------------
(* The steps of a program that succeed are those of the way. *)

(* A step that goes one stage further, recording nothing, stays on the way. *)
LEMMA Onward ==
    ASSUME [Next]_vars, Recorded, OnTheWay, pc \notin {"idle", "play"}, trace' = trace,
           world'.t = world.t, world'.mode = world.mode, world'.failed = world.failed, mode' = mode,
           Sound(world) => Ready(View, store') /\ View' = After(View, store')
    PROVE  OnTheWay'
<1>1. SUFFICES ASSUME Sound(world') PROVE OnTheWay'
  BY DEF OnTheWay
<1>2. Sound(world) /\ View.pc = pc
  BY <1>1 DEF Sound, View, Stage
<1>3. /\ mode = world.mode /\ world.t \in Nat \ {0} /\ (world.t > 1 => world.t - 1 \in DOMAIN trace)
      /\ IF world.t \in DOMAIN trace
         THEN \E G : \E v \in G : Determines(G, store, world.t, v) /\ View \in G
         ELSE \E G : Leads(G, store, Beginning(world.t), View)
  BY <1>2 DEF OnTheWay
<1>4. View' = After(View, store') /\ Ready(View, store')
  BY <1>2
<1>5. Beginning(world.t)' = Beginning(world.t)
  BY DEF Beginning
<1>6. CASE world.t \in DOMAIN trace
  <2>1. PICK G : \E v \in G : Determines(G, store, world.t, v) /\ View \in G
    BY <1>3, <1>6
  <2>2. PICK v \in G : Determines(G, store, world.t, v) /\ View \in G
    BY <2>1
  <2>3. Leads(G, store', Beginning(world.t), v) /\ v.pc = "play" /\ Shown(v) = trace[world.t]
    BY <2>2, StoreGrows, LeadsOn DEF Determines
  <2>4. View' \in G
    BY <1>2, <1>4, <2>2, <2>3 DEF Leads
  <2>5. \E H : \E x \in H : (Determines(H, store, world.t, x) /\ View \in H)'
    BY <1>5, <2>2, <2>3, <2>4 DEF Determines
  <2>6. QED
    BY <1>3, <1>6, <2>5 DEF OnTheWay
<1>7. CASE world.t \notin DOMAIN trace
  <2>1. PICK G : Leads(G, store, Beginning(world.t), View)
    BY <1>3, <1>7
  <2>2. Leads(G, store', Beginning(world.t), View)
    BY <2>1, StoreGrows, LeadsOn
  <2>3. Leads(G \union {View'}, store', Beginning(world.t), View')
    BY <1>2, <1>4, <2>2, LeadsFurther
  <2>4. \E H : Leads(H, store, Beginning(world.t), View)'
    BY <1>5, <2>3
  <2>5. QED
    BY <1>3, <1>7, <2>4 DEF OnTheWay
<1>8. QED
  BY <1>6, <1>7

(* A step that fails, or a world that is not sound, has nothing to show. *)
LEMMA FailedDInv ==
    ASSUME IInv, DInv, [Next]_vars, DOMAIN trace' = DOMAIN trace, snap' = snap, NEW w, FailWith(w)
    PROVE  DInv'
<1>1. pc' = "idle" /\ world' = [w EXCEPT !.failed = TRUE]
  BY DEF FailWith
<1>2. Recorded' /\ AtRest(snap)'
  <2>1. snap.t \in Nat
    BY DEF IInv, WorldOK, World
  <2>2. AtRest(snap)
    BY DEF DInv
  <2>3. QED
    BY <2>1, <2>2, StillAtRest, StillRecorded DEF DInv
<1>3. (~Sound(world))'
  <2>1. world \in World
    BY DEF IInv, WorldOK
  <2>2. QED
    BY <1>1 DEF Sound
<1>4. QED
  BY <1>1, <1>2, <1>3 DEF DInv, AtRest, OnTheWay

(* What a step that leaves snapshots and records alone has to show. *)
LEMMA Keeps ==
    ASSUME IInv, DInv, [Next]_vars, trace' = trace, snap' = snap, OnTheWay', pc' # "idle"
    PROVE  DInv'
<1>1. snap.t \in Nat /\ AtRest(snap) /\ Recorded
  BY DEF IInv, WorldOK, World, DInv
<1>2. AtRest(snap)' /\ Recorded'
  BY <1>1, StillAtRest, StillRecorded
<1>3. QED
  BY <1>2 DEF DInv

(* A step begins where the step before it is recorded to have ended. *)
LEMMA PrepareDInv == ASSUME IInv, DInv, Prepare PROVE DInv'
<1> DEFINE w == [world EXCEPT !.t = world.t + 1]
<1>1. /\ pc = "idle" /\ Idle /\ world \in World /\ world.t \in Nat
      /\ AtRest(world) /\ AtRest(snap) /\ Recorded
  BY DEF IInv, WorldOK, World, Prepare, DInv
<1>2. mode' = mode /\ store' = store /\ snap' = snap /\ trace' = trace /\ [Next]_vars
  BY DEF Prepare, Next, Step
<1>3. CASE ~ManifestOk
  BY <1>2, <1>3, FailedDInv DEF Prepare
<1>4. CASE ManifestOk
  <2>1. /\ world' = w /\ pc' = "ask" /\ replies' = replies /\ final' = final
        /\ pending' = [a \in Agents |-> [agent |-> a, obs |-> Observe(a), attempt |-> 0]]
    BY <1>4 DEF Prepare
  <2>2. /\ w.t = world.t + 1 /\ w.held = world.held /\ w.last = world.last /\ w.conv = world.conv
        /\ w.failed = world.failed /\ w.mode = world.mode
    BY <1>1 DEF World
  <2> HIDE DEF w
  <2>a. mode' = world'.mode
    BY <1>2, <1>4, <2>1, <2>2 DEF ManifestOk
  <2>3. SUFFICES ASSUME Sound(world') PROVE OnTheWay'
    <3>1. OnTheWay'
      BY <2>a, <2>3 DEF OnTheWay
    <3>2. QED
      BY <1>2, <2>1, <3>1, Keeps
  <2>4. Sound(world) /\ mode' = world'.mode
    BY <2>1, <2>2, <2>a, <2>3 DEF Sound
  <2>5. /\ world'.t = world.t + 1 /\ world'.t \in Nat \ {0} /\ world'.t - 1 = world.t
        /\ (world'.t = 1 <=> world.t = 0)
    <3>1. world'.t = world.t + 1
      BY <2>1, <2>2
    <3>2. QED
      BY <1>1, <3>1
  <2>6. world'.t > 1 => world'.t - 1 \in DOMAIN trace'
    BY <1>1, <1>2, <2>4, <2>5 DEF AtRest
  <2>7. View' = BeginsWith(world'.t, world.held, world.last, world.conv)
    <3>1. \A a \in Agents : Observe(a) = ObservedAt(world.last, a)
      BY DEF Observe, ObservedAt
    <3>2. pending' = [a \in Agents |-> [agent |-> a, obs |-> ObservedAt(world.last, a), attempt |-> 0]]
      BY <2>1, <3>1
    <3>3. replies' = <<>> /\ final' = <<>>
      BY <1>1, <2>1 DEF Idle
    <3>4. QED
      BY <2>1, <2>2, <3>2, <3>3 DEF View, BeginsWith
  <2>8. View' = Beginning(world'.t)
    <3>1. CASE world.t = 0
      BY <1>1, <2>4, <2>5, <2>7, <3>1 DEF AtRest, Beginning
    <3>2. CASE world.t # 0
      <4>1. trace[world.t].held = world.held /\ trace[world.t].conv = world.conv /\ world.last = world.held
        BY <1>1, <2>4, <3>2 DEF AtRest, Outcome
      <4>2. world'.t # 1 /\ world'.t - 1 = world.t
        BY <1>1, <2>5, <3>2
      <4>3. Beginning(world'.t)
              = BeginsWith(world'.t, trace[world.t].held, trace[world.t].held, trace[world.t].conv)
        BY <4>2 DEF Beginning
      <4>4. QED
        BY <2>7, <4>1, <4>3
    <3>3. QED
      BY <3>1, <3>2
  <2>9. CASE world'.t \in DOMAIN trace
    <3>1. PICK G : \E v \in G : Determines(G, store, world'.t, v)
      BY <1>1, <2>9 DEF Recorded
    <3>2. PICK v \in G : Determines(G, store, world'.t, v)
      BY <3>1
    <3>3. (Determines(G, store, world.t, v))' /\ View' \in G
      BY <1>2, <2>8, <3>2 DEF Determines, Beginning, Leads
    <3>4. QED
      BY <1>2, <2>4, <2>5, <2>6, <2>9, <3>3 DEF OnTheWay
  <2>10. CASE world'.t \notin DOMAIN trace
    <3>1. Beginning(world.t)' = View'
      BY <1>2, <2>8 DEF Beginning
    <3>2. Leads({View'}, store', Beginning(world.t)', View')
      BY <3>1 DEF Leads
    <3>3. \E G : (Leads(G, store, Beginning(world.t), View))'
      BY <3>2
    <3>4. QED
      BY <1>2, <2>4, <2>5, <2>6, <2>10, <3>3 DEF OnTheWay
  <2>11. QED
    BY <2>9, <2>10
<1>5. QED
  BY <1>3, <1>4

(* Every request that succeeded is answered from the store as it is after it. *)
LEMMA ObtainDInv == ASSUME IInv, DInv, Obtain PROVE DInv'
<1>1. pc = "ask" /\ OnTheWay /\ Recorded /\ [Next]_vars
  BY DEF Obtain, DInv, Next, Step
<1>2. mode' = mode /\ snap' = snap /\ trace' = trace
  BY DEF Obtain
<1>3. CASE FailWith(world)
  BY <1>1, <1>2, <1>3, FailedDInv
<1>4. CASE ~FailWith(world)
  <2> DEFINE Errors(out) == {FirstOf(k) : k \in {j \in Missed : out[j] = "error"}}
             Fine(out)   == {k \in Missed : \A i \in Errors(out) : FirstOf(k) < i}
             Have(out)   == [k \in (Asked \ Missed) \union Fine(out) |->
                               IF k \in Fine(out) THEN out[k] ELSE store[k]]
  <2>1. ~(mode = "ReplayOnly" /\ Missed # {})
    BY <1>4 DEF Obtain
  <2>2. PICK out \in [Missed -> Replies \union {"error"}] :
          /\ store' = IF mode = "RecordMisses"
                        THEN [k \in DOMAIN store \union Fine(out) |->
                                IF k \in Fine(out) THEN out[k] ELSE store[k]]
                        ELSE store
          /\ IF Errors(out) # {}
               THEN FailWith(world)
               ELSE /\ replies' = [i \in DOMAIN pending |-> Have(out)[Key(pending[i])]]
                    /\ pc' = "resolve"
                    /\ UNCHANGED <<world, pending, final>>
    BY <2>1 DEF Obtain
  <2>3. Errors(out) = {}
    BY <1>4, <2>2
  <2>4. /\ replies' = [i \in DOMAIN pending |-> Have(out)[Key(pending[i])]]
        /\ pc' = "resolve" /\ world' = world /\ pending' = pending /\ final' = final
    BY <2>2, <2>3
  <2>5. Fine(out) = Missed
    BY <2>3
  <2> HIDE DEF Fine, Errors
  <2>6. ASSUME Sound(world) PROVE Ready(View, store') /\ View' = After(View, store')
    <3>1. mode = "RecordMisses" \/ (mode = "ReplayOnly" /\ Missed = {})
      <4>1. mode \in Modes /\ mode # "Live"
        BY <1>1, <2>6 DEF IInv, OnTheWay, Sound
      <4>2. QED
        BY <2>1, <4>1
    <3>2. \A k \in Asked : k \in DOMAIN store' /\ store'[k] = Have(out)[k]
      <4>1. Lookup = DOMAIN store
        BY <3>1 DEF Lookup
      <4>2. SUFFICES ASSUME NEW k \in Asked PROVE k \in DOMAIN store' /\ store'[k] = Have(out)[k]
        OBVIOUS
      <4>3. Have(out)[k] = IF k \in Missed THEN out[k] ELSE store[k]
        BY <2>5
      <4>4. k \in Missed \/ k \in DOMAIN store
        BY <4>1 DEF Missed
      <4>5. CASE mode = "RecordMisses"
        BY <2>2, <2>5, <4>3, <4>4, <4>5
      <4>6. CASE mode = "ReplayOnly" /\ Missed = {}
        BY <2>2, <4>3, <4>4, <4>6
      <4>7. QED
        BY <3>1, <4>5, <4>6
    <3> HIDE DEF Have
    <3>3. \A i \in DOMAIN pending : Key(pending[i]) \in Asked /\ Key(pending[i]) = KeyAt(world.t, pending[i])
      BY DEF Asked, Key, KeyAt
    <3>4. replies' = [i \in DOMAIN pending |-> store'[KeyAt(world.t, pending[i])]]
      BY <2>4, <3>2, <3>3
    <3>5. View.pc = "ask" /\ View.pending = pending /\ View.t = world.t /\ View.final = final
          /\ View.held = world.held /\ View.last = world.last /\ View.conv = world.conv
      BY <1>1 DEF View, Stage
    <3>6. Ready(View, store')
      BY <3>2, <3>3, <3>5 DEF Ready
    <3>7. After(View, store') = Stage("resolve", pending, replies', final, world.t, world.held, world.last, world.conv)
      BY <3>4, <3>5 DEF After, Answered
    <3>8. View' = Stage("resolve", pending, replies', final, world.t, world.held, world.last, world.conv)
      BY <2>4 DEF View
    <3>9. QED
      BY <3>6, <3>7, <3>8
  <2>7. pc' # "idle" /\ world'.t = world.t /\ world'.mode = world.mode /\ world'.failed = world.failed
        /\ pc \notin {"idle", "play"}
    BY <1>1, <2>4
  <2>8. OnTheWay'
    BY <1>1, <1>2, <2>6, <2>7, Onward
  <2>9. QED
    BY <1>1, <1>2, <2>7, <2>8, Keeps
<1>5. QED
  BY <1>3, <1>4

(* The world in which an agent tells one more turn, stage by stage. *)
LEMMA ToldStage ==
    ASSUME world \in World, NEW a \in Agents, NEW turn
    PROVE  LET w == Tells(a, turn)
           IN  /\ w.t = world.t /\ w.held = world.held /\ w.last = world.last
               /\ w.mode = world.mode /\ w.failed = world.failed
               /\ w.conv = Retelling(View, a, turn)
BY DEF Tells, Remember, Retelling, View, Stage, World

LEMMA ClosedStage ==
    ASSUME world \in World, NEW d, d = Head(pending), d.agent \in Agents, NEW action, NEW gaveUp,
           Close(d, action, gaveUp), SetAside(d.agent, action),
           pending' = Tail(pending), replies' = Tail(replies), pc' = pc
    PROVE  /\ View' = Decided(View, d, action, gaveUp)
           /\ world'.t = world.t /\ world'.mode = world.mode /\ world'.failed = world.failed
<1> DEFINE turn == Turn(d, action, gaveUp)
<1>1. world' = Tells(d.agent, turn)
  BY DEF Close
<1>2. /\ world'.t = world.t /\ world'.held = world.held /\ world'.last = world.last
      /\ world'.mode = world.mode /\ world'.failed = world.failed
      /\ world'.conv = Retelling(View, d.agent, turn)
  BY <1>1, ToldStage
<1>3. /\ View.pc = pc /\ View.pending = pending /\ View.replies = replies /\ View.final = final
      /\ View.t = world.t /\ View.held = world.held /\ View.last = world.last
  BY DEF View, Stage
<1>4. final' = [b \in DOMAIN final \union {d.agent} |-> IF b = d.agent THEN action ELSE final[b]]
  BY DEF SetAside
<1>5. turn = [t |-> world.t, action |-> action, attempts |-> d.attempt + 1, gaveUp |-> gaveUp, payoff |-> <<>>]
  BY DEF Turn
<1>6. View' = Stage(pc, Tail(pending), Tail(replies),
                    [b \in DOMAIN final \union {d.agent} |-> IF b = d.agent THEN action ELSE final[b]],
                    world.t, world.held, world.last, Retelling(View, d.agent, turn))
  BY <1>2, <1>4 DEF View
<1> HIDE DEF turn
<1>7. QED
  BY <1>2, <1>3, <1>5, <1>6 DEF Decided

(* One reply is resolved the same way by every program. *)
LEMMA ResolveDInv == ASSUME IInv, DInv, Resolve PROVE DInv'
<1> DEFINE d == Head(pending)
           r == Head(replies)
<1>1. /\ pc = "resolve" /\ replies # <<>> /\ OnTheWay /\ Recorded /\ [Next]_vars
      /\ mode' = mode /\ snap' = snap /\ trace' = trace
  BY DEF Resolve, DInv, Next, Step
<1>2. world \in World /\ d \in Decision
  <2>1. pending \in Seq(Decision) /\ replies \in Seq(Text) /\ Len(replies) <= Len(pending) /\ WorldOK(world)
    BY <1>1 DEF IInv, InRound
  <2>2. pending # <<>>
    BY <1>1, <2>1
  <2>3. QED
    BY <2>1, <2>2, Tailed DEF WorldOK
<1>3. /\ View.pc = "resolve" /\ View.pending = pending /\ View.replies = replies /\ View.final = final
      /\ View.t = world.t /\ View.held = world.held /\ View.last = world.last /\ View.conv = world.conv
  BY <1>1 DEF View, Stage
<1>4. Ready(View, store') /\ After(View, store') = Resolved(View)
  BY <1>1, <1>3 DEF Ready, After
<1>5. d.agent \in Agents /\ d.attempt \in Nat
  BY <1>2 DEF Decision
<1> HIDE DEF d, r
<1>6. SUFFICES ASSUME pc' = pc,
                      /\ View' = Resolved(View)
                      /\ world'.t = world.t /\ world'.mode = world.mode /\ world'.failed = world.failed
               PROVE  DInv'
  <2>1. CASE r = "illegal" /\ FailWith(Tells(d.agent, Turn(d, r, FALSE)))
    BY <1>1, <2>1, FailedDInv
  <2>2. CASE /\ r \in Actions /\ Close(d, r, FALSE) /\ SetAside(d.agent, r)
             /\ pending' = Tail(pending) /\ replies' = Tail(replies) /\ pc' = pc
    <3>1. /\ View' = Decided(View, d, r, FALSE)
          /\ world'.t = world.t /\ world'.mode = world.mode /\ world'.failed = world.failed
      BY <1>2, <1>5, <2>2, ClosedStage DEF d
    <3>2. Resolved(View) = Decided(View, d, r, FALSE)
      BY <1>3, <2>2 DEF Resolved, d, r
    <3>3. QED
      BY <1>6, <2>2, <3>1, <3>2
  <2>3. CASE /\ r \notin Actions /\ d.attempt < MaxRetries
             /\ pending' = Append(Tail(pending), [d EXCEPT !.attempt = d.attempt + 1])
             /\ replies' = Tail(replies) /\ world' = world /\ final' = final /\ pc' = pc
    <3>1. Resolved(View) = Stage(pc, Append(Tail(pending), [d EXCEPT !.attempt = d.attempt + 1]), Tail(replies),
                                 final, world.t, world.held, world.last, world.conv)
      BY <1>1, <1>3, <2>3 DEF Resolved, d, r
    <3>2. View' = Stage(pc, Append(Tail(pending), [d EXCEPT !.attempt = d.attempt + 1]), Tail(replies),
                        final, world.t, world.held, world.last, world.conv)
      BY <2>3 DEF View
    <3>3. QED
      BY <1>6, <2>3, <3>1, <3>2
  <2>4. CASE /\ r \notin Actions /\ d.attempt = MaxRetries
             /\ Close(d, world.held[d.agent], TRUE) /\ SetAside(d.agent, world.held[d.agent])
             /\ pending' = Tail(pending) /\ replies' = Tail(replies) /\ pc' = pc
    <3>1. /\ View' = Decided(View, d, world.held[d.agent], TRUE)
          /\ world'.t = world.t /\ world'.mode = world.mode /\ world'.failed = world.failed
      BY <1>2, <1>5, <2>4, ClosedStage DEF d
    <3>2. ~(d.attempt < MaxRetries)
      BY <1>5, <2>4
    <3>3. Resolved(View) = Decided(View, d, world.held[d.agent], TRUE)
      BY <1>3, <2>4, <3>2 DEF Resolved, d, r
    <3>4. QED
      BY <1>6, <2>4, <3>1, <3>3
  <2>5. QED
    BY <2>1, <2>2, <2>3, <2>4 DEF Resolve, d, r
<1>7. OnTheWay'
  <2>1. pc \notin {"idle", "play"}
    BY <1>1
  <2>2. View' = After(View, store')
    BY <1>4, <1>6
  <2>3. QED
    BY <1>1, <1>4, <1>6, <2>1, <2>2, Onward
<1>8. QED
  BY <1>1, <1>6, <1>7, Keeps

(* So is the end of a round, with what it commits. *)
LEMMA EndRoundDInv == ASSUME IInv, DInv, EndRound PROVE DInv'
<1>1. /\ pc = "resolve" /\ replies = <<>> /\ OnTheWay /\ Recorded /\ [Next]_vars
      /\ mode' = mode /\ snap' = snap /\ trace' = trace /\ pending' = pending /\ replies' = replies
  BY DEF EndRound, DInv, Next, Step
<1>2. world \in World
  BY DEF IInv, WorldOK
<1>3. /\ View.pc = "resolve" /\ View.pending = pending /\ View.replies = replies /\ View.final = final
      /\ View.t = world.t /\ View.held = world.held /\ View.last = world.last /\ View.conv = world.conv
  BY <1>1 DEF View, Stage
<1>4. Ready(View, store') /\ After(View, store') = Committed(View)
  BY <1>1, <1>3 DEF Ready, After
<1>5. /\ View' = Committed(View) /\ pc' # "idle"
      /\ world'.t = world.t /\ world'.mode = world.mode /\ world'.failed = world.failed
  <2>1. CASE pending # <<>>
    <3>1. pc' = "ask" /\ world' = world /\ final' = final
      BY <2>1 DEF EndRound
    <3>2. View' = Stage("ask", pending, replies, final, world.t, world.held, world.last, world.conv)
      BY <1>1, <3>1 DEF View
    <3>3. QED
      BY <1>3, <2>1, <3>1, <3>2 DEF Committed
  <2>2. CASE pending = <<>>
    <3> DEFINE now == [a \in Players |-> IF a \in DOMAIN final THEN final[a] ELSE world.held[a]]
    <3>1. /\ world' = [world EXCEPT !.held = now, !.decided = [a \in Agents |-> world.t]]
          /\ final' = <<>> /\ pc' = "play"
      BY <2>2 DEF EndRound
    <3>2. Committed(View) = Stage("play", pending, replies, <<>>, world.t, now, world.last, world.conv)
      BY <1>3, <2>2 DEF Committed
    <3> HIDE DEF now
    <3>3. /\ world'.held = now /\ world'.t = world.t /\ world'.last = world.last /\ world'.conv = world.conv
          /\ world'.mode = world.mode /\ world'.failed = world.failed
      BY <1>2, <3>1 DEF World
    <3>4. View' = Stage("play", pending, replies, <<>>, world.t, now, world.last, world.conv)
      BY <1>1, <3>1, <3>3 DEF View
    <3>5. QED
      BY <3>1, <3>2, <3>3, <3>4
  <2>3. QED
    BY <2>1, <2>2
<1>6. OnTheWay'
  <2>1. pc \notin {"idle", "play"}
    BY <1>1
  <2>2. View' = After(View, store')
    BY <1>4, <1>5
  <2>3. QED
    BY <1>1, <1>4, <1>5, <2>1, <2>2, Onward
<1>7. QED
  BY <1>1, <1>5, <1>6, Keeps

(* A step that went to its end shows what is recorded for it, or is recorded. *)
LEMMA LearnDInv == ASSUME IInv, DInv, Learn PROVE DInv'
<1>0. PICK t : t = world.t
  OBVIOUS
<1>1. /\ pc = "play" /\ pc' = "idle" /\ OnTheWay /\ Recorded /\ AtRest(snap) /\ [Next]_vars
      /\ snap' = snap /\ store' = store
  BY DEF Learn, DInv, Next, Step
<1>2. world \in World /\ t \in Nat /\ snap.t \in Nat /\ AtRest(snap)'
  <2>1. world \in World /\ t \in Nat /\ snap.t \in Nat
    BY <1>0 DEF IInv, WorldOK, World
  <2>2. QED
    BY <1>1, <2>1, StillAtRest
<1>3. OnTheWay'
  BY <1>1 DEF OnTheWay
<1>4. /\ world'.t = t /\ world'.held = world.held /\ world'.last = world.held
      /\ world'.mode = world.mode /\ world'.failed = world.failed
      /\ Outcome(world') = Shown(View)
  <2> DEFINE paid(turns) == [i \in DOMAIN turns |->
                               IF i = Len(turns) /\ turns[i].t = world.t
                                 THEN [turns[i] EXCEPT !.payoff = world.held] ELSE turns[i]]
             now == [a \in Agents |-> paid(world.conv[a])]
  <2>1. world' = [world EXCEPT !.last = world.held, !.conv = now]
    BY DEF Learn
  <2>2. Shown(View) = [held |-> world.held, conv |-> now]
    BY DEF Shown, View, Stage
  <2> HIDE DEF now
  <2>3. /\ world'.t = t /\ world'.held = world.held /\ world'.last = world.held
        /\ world'.mode = world.mode /\ world'.failed = world.failed /\ world'.conv = now
    BY <1>0, <1>2, <2>1 DEF World
  <2>4. QED
    BY <2>2, <2>3 DEF Outcome
<1>5. CASE ~Sound(world)
  <2>1. trace' = trace
    BY <1>1, <1>5 DEF Learn, OnTheWay, Sound
  <2>2. ~Sound(world')
    BY <1>4, <1>5 DEF Sound
  <2>3. QED
    BY <1>1, <1>2, <1>3, <2>1, <2>2, StillRecorded DEF DInv, AtRest
<1>6. CASE Sound(world)
  <2>1. /\ mode = world.mode /\ t \in Nat \ {0} /\ (t > 1 => t - 1 \in DOMAIN trace)
        /\ IF t \in DOMAIN trace
           THEN \E G : \E v \in G : Determines(G, store, t, v) /\ View \in G
           ELSE \E G : Leads(G, store, Beginning(t), View)
    BY <1>0, <1>1, <1>6 DEF OnTheWay
  <2>2. View.pc = "play" /\ mode # "Live"
    BY <1>1, <1>6, <2>1 DEF View, Stage, Sound
  <2>3. t \in DOMAIN trace' /\ trace'[t] = Outcome(world') /\ Recorded'
    <3>1. CASE t \in DOMAIN trace
      <4>1. trace' = trace
        BY <1>0, <3>1 DEF Learn
      <4>2. PICK G : \E v \in G : Determines(G, store, t, v) /\ View \in G
        BY <2>1, <3>1
      <4>3. PICK v \in G : Determines(G, store, t, v) /\ View \in G
        BY <4>2
      <4>4. View = v
        BY <2>2, <4>3 DEF Determines, Leads
      <4>5. Outcome(world') = trace[t]
        BY <1>4, <4>3, <4>4 DEF Determines
      <4>6. QED
        BY <1>1, <3>1, <4>1, <4>5, StillRecorded
    <3>2. CASE t \notin DOMAIN trace
      <4>1. trace' = [k \in DOMAIN trace \union {t} |-> IF k = t THEN Outcome(world') ELSE trace[k]]
        BY <1>0, <1>6, <2>2, <3>2 DEF Learn, Sound
      <4>2. DOMAIN trace' = DOMAIN trace \union {t} /\ trace'[t] = Shown(View)
        BY <1>4, <4>1
      <4>3. PICK G : Leads(G, store, Beginning(t), View)
        BY <2>1, <3>2
      <4>a. t \in Nat \ {0} /\ (t = 1 \/ t - 1 \in DOMAIN trace)
        BY <2>1
      <4>4. Beginning(t)' = Beginning(t)
        BY <1>1, <4>a, TraceGrows, Zenon
      <4>5. \E H : \E v \in H : (Determines(H, store, t, v))'
        BY <1>1, <2>2, <4>2, <4>3, <4>4 DEF Determines, Leads
      <4>6. ASSUME NEW k \in DOMAIN trace
            PROVE  \E H : \E v \in H : (Determines(H, store, k, v))'
        <5>1. PICK H : \E v \in H : Determines(H, store, k, v)
          BY <1>1 DEF Recorded
        <5>2. PICK v \in H : Determines(H, store, k, v)
          BY <5>1
        <5>3. (Determines(H, store, k, v))'
          BY <1>1, <5>2, StillDetermined
        <5>4. QED
          BY <5>3
      <4>7. \A k \in DOMAIN trace' : k > 1 => k - 1 \in DOMAIN trace'
        BY <1>1, <2>1, <4>2 DEF Recorded
      <4>8. DOMAIN trace' \subseteq Nat \ {0}
        BY <1>1, <2>1, <4>2 DEF Recorded
      <4>9. QED
        BY <1>4, <4>2, <4>5, <4>6, <4>7, <4>8 DEF Recorded
    <3>3. QED
      BY <3>1, <3>2
  <2>4. AtRest(world)'
    BY <1>0, <1>4, <2>1, <2>3 DEF AtRest
  <2>5. QED
    BY <1>2, <1>3, <2>3, <2>4 DEF DInv
<1>7. QED
  BY <1>5, <1>6

LEMMA InitDInv == Init => DInv
BY DEF Init, DInv, AtRest, Recorded, OnTheWay, NewWorld, Sound

LEMMA NextDInv == IInv /\ DInv /\ [Next]_vars => DInv'
<1>1. SUFFICES ASSUME IInv, DInv, [Next]_vars PROVE DInv'
  OBVIOUS
<1>2. AtRest(snap) /\ Recorded /\ OnTheWay /\ snap.t \in Nat /\ world.t \in Nat
  BY <1>1 DEF DInv, IInv, WorldOK, World
<1>3. CASE Prepare
  BY <1>1, <1>3, PrepareDInv
<1>4. CASE Obtain
  BY <1>1, <1>4, ObtainDInv
<1>5. CASE Resolve
  BY <1>1, <1>5, ResolveDInv
<1>6. CASE EndRound
  BY <1>1, <1>6, EndRoundDInv
<1>7. CASE Learn
  BY <1>1, <1>7, LearnDInv
<1>8. CASE PlayFails
  BY <1>1, <1>8, FailedDInv DEF PlayFails
<1>9. CASE Boot \/ TakeSnapshot \/ Restore
  <2>1. trace' = trace /\ pc' = "idle"
    BY <1>9 DEF Boot, TakeSnapshot, Restore
  <2>2. Recorded' /\ OnTheWay'
    BY <1>1, <1>2, <2>1, StillRecorded DEF OnTheWay
  <2>3. CASE Boot
    <3>1. snap' = snap /\ \E m \in Modes : world' = NewWorld(m)
      BY <2>3 DEF Boot
    <3>2. AtRest(world)'
      BY <3>1 DEF AtRest, NewWorld
    <3>3. AtRest(snap)'
      BY <1>1, <1>2, <3>1, StillAtRest
    <3>4. QED
      BY <2>2, <3>2, <3>3 DEF DInv
  <2>4. CASE TakeSnapshot \/ Restore
    <3>1. /\ pc = "idle" /\ AtRest(world)
          /\ snap' = snap \/ snap' = world
          /\ world' = snap \/ world' = world
      BY <1>1, <2>4 DEF TakeSnapshot, Restore, DInv
    <3>2. AtRest(world)' /\ AtRest(snap)'
      BY <1>2, <2>1, <3>1 DEF AtRest
    <3>3. QED
      BY <2>2, <3>2 DEF DInv
  <2>5. QED
    BY <1>9, <2>3, <2>4
<1>12. CASE UNCHANGED vars
  BY <1>1, <1>2, <1>12 DEF vars, DInv, AtRest, Recorded, OnTheWay, Determines, Beginning, View
<1>13. QED
  BY <1>1, <1>3, <1>4, <1>5, <1>6, <1>7, <1>8, <1>9, <1>12 DEF Next, Step

(* Whatever stages the programs over one store went through: a program that
   recorded or replayed, and no step of which failed, shows after every step the
   actions and conversations that the first one to finish this step showed. *)
THEOREM DecideStoreDeterminesRun == Spec => []StoreDeterminesRun
<1>1. DInv /\ IInv => StoreDeterminesRun
  BY DEF DInv, AtRest, Sound, StoreDeterminesRun, IInv, WorldOK, World
<1>2. Spec => []DInv
  <2>1. IInv /\ DInv /\ [Next]_vars => DInv'
    BY NextDInv
  <2>2. QED
    BY InitDInv, DecideIInv, <2>1, PTL DEF Spec
<1>3. QED
  BY DecideIInv, <1>1, <1>2, PTL
=============================================================================
