------------------------------ MODULE LlmDecide ------------------------------
(***************************************************************************)
(* Decision and Reward of an LLM game (socsim-games/src/llm/driver.rs, with *)
(* the policy of llm/policy.rs): one request per agent, answered from the   *)
(* response store or by the backend, resolved into an action, a retry or a  *)
(* fallback.  Programs start, crash, fail a step, take snapshots and restore *)
(* them, all over one response store.                                       *)
(*                                                                          *)
(* The executor enters by its contract (module Batch): every missed request *)
(* gets one outcome.  Outcomes are handled in request order.                *)
(***************************************************************************)
EXTENDS Naturals, Sequences, FiniteSetsExt, SequencesExt

CONSTANTS Players,    \* every agent of the game
          Agents,     \* those whose kind has an LLM rule: 1..N, in agent order
          Role,       \* agent -> the role of its seats
          Opponents,  \* agent -> the others in the encounter of its last seat
          Actions, Start, \* actions of the game and the one held at first
          Replies,    \* texts a backend may return; those in Actions parse to
                      \* that action, "illegal" to one the game rejects
          MaxRetries, \* RetryProtocol.max_retries; its fallback is Previous
          MaxTurns,   \* agent -> max_turns of its policy's LlmConversation
          ColdSampling, \* TRUE: temperature 0, one seed for every request
          Modes,      \* replay modes programs are started with
          TMax        \* bound of the model on the clock

ASSUME DecideAssumption ==
    /\ IsFiniteSet(Agents) /\ Agents = 1..Cardinality(Agents) /\ Agents \subseteq Players
    /\ DOMAIN Role = Agents /\ Opponents \in [Agents -> SUBSET Players]
    /\ Start \in Actions /\ {"error", "illegal"} \cap Actions = {}
    /\ MaxRetries \in Nat /\ MaxTurns \in [Agents -> Nat] /\ TMax \in Nat
    /\ ColdSampling \in BOOLEAN
    /\ Modes \subseteq {"ReplayOnly", "RecordMisses", "Live"}

VARIABLES pc,      \* "idle", "ask", "resolve", "play"
          mode,    \* the mode the driver's store was opened with
          world,   \* [t, mode, held, last, conv, decided, failed]
          pending, \* decisions still without an action
          replies, \* reply to each pending decision, in order
          final,   \* agent -> action decided in this step
          store,   \* key -> reply: every record on disk
          snap,    \* a snapshot some program took
          trace    \* history: step -> what the first program showed that finished it

vars == <<pc, mode, world, pending, replies, final, store, snap, trace>>

(* last: the actions of the last step recorded in step_history, if any.
   decided and failed are history variables: the step that last wrote held[a],
   and whether a step of this world returned an error. *)
NewWorld(m) ==
    [t |-> 0, mode |-> m, held |-> [a \in Players |-> Start], last |-> <<>>,
     conv |-> [a \in Agents |-> <<>>],
     decided |-> [a \in Agents |-> 0], failed |-> FALSE]

Idle == pending = <<>> /\ replies = <<>> /\ final = <<>>

Init ==
    /\ pc = "idle" /\ Idle
    /\ mode \in Modes /\ world = NewWorld(mode)
    /\ store = <<>>
    /\ snap = world
    /\ trace = <<>>

(* CountsObs: the role, the agent's own last action and how many opponents
   last played each action; nothing before the first recorded step. *)
Observe(a) ==
    [role |-> Role[a],
     mine |-> IF world.last = <<>> THEN "none" ELSE world.last[a],
     counts |-> [x \in Actions |->
                   IF world.last = <<>> THEN 0
                   ELSE Cardinality({b \in Opponents[a] : world.last[b] = x})]]

(* The request's identity: its prompt, and a seed that is the same for all at
   temperature 0 and the decision's own otherwise. *)
Key(d) == [obs |-> d.obs, feedback |-> d.attempt,
           seed |-> IF ColdSampling THEN <<>> ELSE <<world.t, d.agent, d.attempt>>]

(* An error anywhere in the step: the world stays as far as it was changed. *)
FailWith(w) ==
    /\ world' = [w EXCEPT !.failed = TRUE]
    /\ pc' = "idle"
    /\ pending' = <<>> /\ replies' = <<>> /\ final' = <<>>

-----------------------------------------------------------------------------
(* Mutant: a restored world is not checked against the store. *)
AnyManifest == TRUE

(* verify_manifest(): the store the world was built with is the driver's; of
   its four parts the mode is the one that differs in this model. *)
ManifestOk == world.mode = mode

(* decide(): the manifest is verified, then prepare() builds one request per
   seated agent in agent order. *)
Prepare ==
    /\ pc = "idle" /\ world.t < TMax
    /\ LET w == [world EXCEPT !.t = world.t + 1] IN
         IF ~ManifestOk
           THEN FailWith(w)
           ELSE /\ world' = w
                /\ pending' = [a \in Agents |-> [agent |-> a, obs |-> Observe(a), attempt |-> 0]]
                /\ pc' = "ask"
                /\ UNCHANGED <<replies, final>>
    /\ UNCHANGED <<mode, store, snap, trace>>

Lookup == IF mode = "Live" THEN {} ELSE DOMAIN store
Asked  == {Key(pending[i]) : i \in DOMAIN pending}
Missed == Asked \ Lookup
FirstOf(k) == Min({i \in DOMAIN pending : Key(pending[i]) = k})

(* obtain_replies(): identical requests are merged, stored ones answered from
   the store, the others sent as one batch.  Answers are recorded in request
   order up to the first error, which fails the step. *)
Obtain ==
    /\ pc = "ask"
    /\ IF mode = "ReplayOnly" /\ Missed # {}
         THEN FailWith(world) /\ UNCHANGED store
         ELSE \E out \in [Missed -> Replies \union {"error"}] :
                LET errors == {FirstOf(k) : k \in {j \in Missed : out[j] = "error"}}
                    good   == {k \in Missed : \A i \in errors : FirstOf(k) < i}
                    have   == [k \in (Asked \ Missed) \union good |->
                                 IF k \in good THEN out[k] ELSE store[k]]
                IN  /\ store' = IF mode = "RecordMisses"
                                  THEN [k \in DOMAIN store \union good |->
                                          IF k \in good THEN out[k] ELSE store[k]]
                                  ELSE store
                    /\ IF errors # {}
                         THEN FailWith(world)
                         ELSE /\ replies' = [i \in DOMAIN pending |-> have[Key(pending[i])]]
                              /\ pc' = "resolve"
                              /\ UNCHANGED <<world, pending, final>>
    /\ UNCHANGED <<mode, snap, trace>>

(* Mutant: the turn tells the action still held, not the one decided. *)
TurnOfHeld(d, action, gaveUp) ==
    [t |-> world.t, action |-> world.held[d.agent], attempts |-> d.attempt + 1,
     gaveUp |-> gaveUp, payoff |-> <<>>]

(* A completed turn, still without its payoff.  The engine has ticked before the
   decision, so the first step of a run is 1. *)
Turn(d, action, gaveUp) ==
    [t |-> world.t, action |-> action, attempts |-> d.attempt + 1,
     gaveUp |-> gaveUp, payoff |-> <<>>]

(* append_turn: the agent's newest MaxTurns turns are kept. *)
Remember(a, turn) ==
    LET all == Append(world.conv[a], turn)
    IN  SubSeq(all, Len(all) - Min({Len(all), MaxTurns[a]}) + 1, Len(all))

(* The world in which the agent tells one more turn. *)
Tells(a, turn) == [world EXCEPT !.conv = [world.conv EXCEPT ![a] = Remember(a, turn)]]

(* Mutant: the action is written to the world as soon as it is known. *)
CloseAndHold(d, action, gaveUp) ==
    world' = [Tells(d.agent, Turn(d, action, gaveUp)) EXCEPT !.held[d.agent] = action,
                                                            !.decided[d.agent] = world.t]

(* The decision has its action; the conversation is updated at once. *)
Close(d, action, gaveUp) ==
    world' = Tells(d.agent, Turn(d, action, gaveUp))

(* The action is set aside until every agent of the step has one. *)
SetAside(a, action) == final' = [b \in DOMAIN final \union {a} |-> IF b = a THEN action ELSE final[b]]

(* resolve() of the first decision not yet resolved in this round.  A retry
   joins the next round; an action is set aside until all have one. *)
Resolve ==
    /\ pc = "resolve" /\ replies # <<>>
    /\ LET d == Head(pending)
           r == Head(replies)
           w == Tells(d.agent, Turn(d, r, FALSE))
       IN  \/ /\ r \in Actions
              /\ Close(d, r, FALSE)
              /\ SetAside(d.agent, r)
              /\ pending' = Tail(pending) /\ replies' = Tail(replies)
              /\ UNCHANGED pc
           \/ /\ r = "illegal"
              /\ FailWith(w)
           \/ /\ r \notin Actions \union {"illegal"} /\ d.attempt < MaxRetries
              /\ pending' = Append(Tail(pending), [d EXCEPT !.attempt = d.attempt + 1])
              /\ replies' = Tail(replies)
              /\ UNCHANGED <<world, final, pc>>
           \/ /\ r \notin Actions \union {"illegal"} /\ d.attempt = MaxRetries
              /\ Close(d, world.held[d.agent], TRUE)
              /\ SetAside(d.agent, world.held[d.agent])
              /\ pending' = Tail(pending) /\ replies' = Tail(replies)
              /\ UNCHANGED pc
    /\ UNCHANGED <<mode, store, snap, trace>>

(* The round is over: ask again for the retries, or, with none, commit every
   action of the step at once. *)
EndRound ==
    /\ pc = "resolve" /\ replies = <<>>
    /\ IF pending # <<>>
         THEN pc' = "ask" /\ UNCHANGED <<world, final>>
         ELSE /\ world' = [world EXCEPT !.held = [a \in Players |-> IF a \in DOMAIN final
                                                                   THEN final[a] ELSE world.held[a]],
                                        !.decided = [a \in Agents |-> world.t]]
              /\ final' = <<>>
              /\ pc' = "play"
    /\ UNCHANGED <<mode, pending, replies, store, snap, trace>>

(* What an experiment shows of a world. *)
Outcome(w) == [held |-> w.held, conv |-> w.conv]

(* Interaction records the step's actions; in Reward learn_step() writes the step's payoff (here the
   profile it was paid for) into the turn of this step. *)
Learn ==
    /\ pc = "play"
    /\ LET paid(turns) == [i \in DOMAIN turns |->
                             IF i = Len(turns) /\ turns[i].t = world.t
                               THEN [turns[i] EXCEPT !.payoff = world.held] ELSE turns[i]]
       IN  world' = [world EXCEPT !.last = world.held,
                                  !.conv = [a \in Agents |-> paid(world.conv[a])]]
    /\ trace' = IF world.failed \/ mode = "Live" \/ world.t \in DOMAIN trace
                  THEN trace
                  ELSE [k \in DOMAIN trace \union {world.t} |-> IF k = world.t THEN Outcome(world') ELSE trace[k]]
    /\ pc' = "idle"
    /\ UNCHANGED <<mode, pending, replies, final, store, snap>>

(* Another mechanism fails the step after the decisions were committed. *)
PlayFails ==
    /\ pc = "play"
    /\ FailWith(world)
    /\ UNCHANGED <<mode, store, snap, trace>>

-----------------------------------------------------------------------------
(* A program is started, after the last one ended or crashed anywhere. *)
Boot ==
    /\ \E m \in Modes : mode' = m /\ world' = NewWorld(m)
    /\ pc' = "idle"
    /\ pending' = <<>> /\ replies' = <<>> /\ final' = <<>>
    /\ UNCHANGED <<store, snap, trace>>

TakeSnapshot ==
    /\ pc = "idle"
    /\ snap' = world
    /\ UNCHANGED <<pc, mode, world, pending, replies, final, store, trace>>

Restore ==
    /\ pc = "idle"
    /\ world' = snap
    /\ UNCHANGED <<pc, mode, pending, replies, final, store, snap, trace>>

Step == Prepare \/ Obtain \/ Resolve \/ EndRound \/ Learn \/ PlayFails

Next == Step \/ Boot \/ TakeSnapshot \/ Restore

Spec == Init /\ [][Next]_vars

-----------------------------------------------------------------------------
(* Properties                                                              *)

(* The store determines the run: every program over it whose steps all
   succeed, recording or replaying, from the start or from any snapshot, has
   the same actions and conversations after the same step, however the
   backend's answers, failures and crashes fell. *)
StoreDeterminesRun ==
    pc = "idle" /\ world.t > 0 /\ ~world.failed /\ world.mode # "Live" =>
        world.t \in DOMAIN trace /\ trace[world.t] = Outcome(world)

(* The decisions of a step take effect together or not at all. *)
CommittedTogether == \A a, b \in Agents : world.decided[a] = world.decided[b]

(* A conversation has at most one turn per step and its agent's number of
   turns in all, in step order; the turn tells
   the action the agent was paid for, and a turn without a payoff belongs to
   a step that failed or is still running.  Steps are numbered by the clock
   during the step, from 1 on; policy.rs calls that number zero-based, which
   it is not. *)
TurnsAreSteps ==
    \A a \in Agents : Len(world.conv[a]) <= MaxTurns[a] /\ \A i \in DOMAIN world.conv[a] :
        LET turn == world.conv[a][i] IN
        /\ i > 1 => world.conv[a][i - 1].t < turn.t
        /\ turn.payoff # <<>> => turn.payoff[a] = turn.action
        /\ turn.payoff = <<>> => world.failed \/ (turn.t = world.t /\ pc # "idle")
=============================================================================
