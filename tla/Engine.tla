------------------------------- MODULE Engine -------------------------------
(***************************************************************************)
(* The simulation engine (socsim-engine/src/lib.rs, with the clock, phase  *)
(* and scratch types of socsim-core): one Simulation driven through        *)
(* step(), run(), run_until() and run_observed(), with mechanisms that may *)
(* request a stop or fail at any invocation, and snapshot()/restore()      *)
(* between calls.                                                          *)
(*                                                                         *)
(* The world is the term its history builds: the sequence of the           *)
(* mechanism invocations that produced it.  Two worlds are equal exactly   *)
(* when the same invocations, in the same order, produced them.            *)
(***************************************************************************)
EXTENDS Naturals, Sequences

CONSTANTS NMech,      \* number of mechanisms, in insertion order 1..NMech
          Registered, \* mechanism -> the phases (positions in Phase::ORDER) it declares
          TMax,       \* the clock's t_max
          MaxClock    \* bound of the model on the clock (step() ignores t_max)

Phase == 1..6
Mech  == 1..NMech
Slot  == [t : Nat, ph : Phase, mech : Mech]

ASSUME EngineAssumption ==
    /\ NMech \in Nat
    /\ Registered \in [Mech -> SUBSET Phase]
    /\ TMax \in Nat
    /\ MaxClock \in Nat /\ TMax <= MaxClock

VARIABLES mode,     \* which driver is on the stack, "idle" between calls
          pc,       \* "idle", "loop" (the driver's while) or "step" (inside step())
          t,        \* the world's clock
          stop,     \* Simulation::stop_requested
          ph, mi,   \* cursors of step()'s two nested loops
          world,    \* invocations that produced the world
          scratch,  \* tags of the values on the blackboard: the step that wrote each
          reports,  \* what the observer of the current run_observed() has seen
          snap,     \* a Snapshot the caller holds
          failed    \* history: steps of this world that returned an error

driver == <<mode, pc>>
cursor == <<ph, mi>>
state  == <<t, stop, world, failed>>
vars   == <<driver, cursor, state, scratch, reports, snap>>

Driver == {"step", "run", "until", "observed"}

Init ==
    /\ mode = "idle" /\ pc = "idle"
    /\ ph = 1 /\ mi = 1
    /\ t = 0 /\ stop = FALSE /\ world = <<>> /\ failed = {}
    /\ scratch = {}
    /\ reports = <<>>
    /\ snap = [t |-> 0, stop |-> FALSE, world |-> <<>>, failed |-> {}]

-----------------------------------------------------------------------------
(* The caller enters a driver. *)
Call(d) ==
    /\ pc = "idle"
    /\ mode' = d /\ pc' = "loop"
    /\ reports' = <<>>
    /\ UNCHANGED <<cursor, state, scratch, snap>>

(* Mutant: run_until() trusts its predicate and forgets the clock. *)
MayStepUntilForever == mode \notin {"step", "until"} => t < TMax /\ ~stop

(* Clock::is_done() or the stop flag ends the while of the three run drivers;
   step() has no guard. *)
MayStep == mode # "step" => t < TMax /\ ~stop

(* step(): tick first, clear the blackboard, then enter the phase loop. *)
BeginStep ==
    /\ pc = "loop" /\ MayStep
    /\ t < MaxClock
    /\ t' = t + 1
    /\ scratch' = {}
    /\ ph' = 1 /\ mi' = 1
    /\ pc' = "step"
    /\ UNCHANGED <<mode, stop, world, failed, reports, snap>>

InPhase == pc = "step" /\ ph \in Phase /\ mi \in Mech

(* mech.phases().contains(&phase) is false: the inner loop moves on. *)
SkipMech ==
    /\ InPhase /\ ph \notin Registered[mi]
    /\ mi' = mi + 1
    /\ UNCHANGED <<driver, ph, state, scratch, reports, snap>>

(* mech.apply(phase, ctx) succeeds: it changes the world, may leave a value
   on the blackboard and may call request_stop(), which only sets the flag. *)
Invoke ==
    /\ InPhase /\ ph \in Registered[mi]
    /\ world' = Append(world, [t |-> t, ph |-> ph, mech |-> mi])
    /\ scratch' \in {scratch, scratch \union {t}}
    /\ stop' \in {stop, TRUE}
    /\ mi' = mi + 1
    /\ UNCHANGED <<driver, ph, t, failed, reports, snap>>

(* Mutant: the error of a mechanism is swallowed and the step goes on. *)
FailSwallowed ==
    /\ InPhase /\ ph \in Registered[mi]
    /\ failed' = failed \union {t}
    /\ mi' = mi + 1
    /\ UNCHANGED <<driver, ph, t, stop, world, scratch, reports, snap>>

(* mech.apply(phase, ctx)? returns an error: step() and every driver above it
   return at once, leaving the ticked clock and the partly stepped world. *)
Fail ==
    /\ InPhase /\ ph \in Registered[mi]
    /\ failed' = failed \union {t}
    /\ stop' \in {stop, TRUE}
    /\ mode' = "idle" /\ pc' = "idle"
    /\ UNCHANGED <<cursor, t, world, scratch, reports, snap>>

(* Mutant: a requested stop cuts the rest of the step. *)
NextPhaseUnlessStopped ==
    /\ pc = "step" /\ ph \in Phase /\ mi = NMech + 1
    /\ ph' = (IF stop THEN 7 ELSE ph + 1) /\ mi' = 1
    /\ UNCHANGED <<driver, state, scratch, reports, snap>>

(* The inner loop has offered the phase to every mechanism. *)
NextPhase ==
    /\ pc = "step" /\ ph \in Phase /\ mi = NMech + 1
    /\ ph' = ph + 1 /\ mi' = 1
    /\ UNCHANGED <<driver, state, scratch, reports, snap>>

(* step() returns Ok to its driver: step() itself is done, run() goes back to
   its while, run_until() may find its predicate true, run_observed() calls
   the observer and leaves if the flag is set. *)
EndStep ==
    /\ pc = "step" /\ ph = 7
    /\ \/ mode = "step" /\ pc' = "idle" /\ UNCHANGED reports
       \/ mode = "run" /\ pc' = "loop" /\ UNCHANGED reports
       \/ mode = "until" /\ pc' \in {"idle", "loop"} /\ UNCHANGED reports
       \/ /\ mode = "observed"
          /\ reports' = Append(reports, [t |-> t, stopped |-> stop, tags |-> scratch])
          /\ pc' = IF stop THEN "idle" ELSE "loop"
    /\ mode' = IF pc' = "idle" THEN "idle" ELSE mode
    /\ UNCHANGED <<cursor, state, scratch, snap>>

(* The while condition of a run driver is false. *)
Return ==
    /\ pc = "loop" /\ ~MayStep
    /\ mode' = "idle" /\ pc' = "idle"
    /\ UNCHANGED <<cursor, state, scratch, reports, snap>>

-----------------------------------------------------------------------------
(* snapshot(): world, stop flag and stream position are copied. *)
TakeSnapshot ==
    /\ pc = "idle"
    /\ snap' = [t |-> t, stop |-> stop, world |-> world, failed |-> failed]
    /\ UNCHANGED <<driver, cursor, state, scratch, reports>>

(* Mutant: restore() takes back the clock but not the world. *)
RestoreClockOnly ==
    /\ pc = "idle"
    /\ t' = snap.t /\ stop' = snap.stop
    /\ scratch' = {}
    /\ UNCHANGED <<driver, cursor, world, failed, reports, snap>>

(* restore(): world, flag and stream position are those captured; the
   blackboard is empty. *)
Restore ==
    /\ pc = "idle"
    /\ t' = snap.t /\ stop' = snap.stop
    /\ world' = snap.world /\ failed' = snap.failed
    /\ scratch' = {}
    /\ UNCHANGED <<driver, cursor, reports, snap>>

Step == BeginStep \/ SkipMech \/ Invoke \/ Fail \/ NextPhase \/ EndStep \/ Return

(* The caller drives the simulation only while the model's clock bound leaves
   room for one more step. *)
CallAny == t < MaxClock /\ \E d \in Driver : Call(d)

Next == CallAny \/ Step \/ TakeSnapshot \/ Restore

(* A call, once made, runs: the engine is sequential code.  The caller owes
   nothing. *)
Spec == Init /\ [][Next]_vars /\ WF_vars(Step)

-----------------------------------------------------------------------------
(* Properties                                                              *)

Captured == [t : Nat, stop : BOOLEAN, world : Seq(Slot), failed : SUBSET Nat]

(* Types of the simulation's fields, the loop cursors and the snapshot. *)
TypeOK ==
    /\ mode \in Driver \union {"idle"}
    /\ pc \in {"idle", "loop", "step"}
    /\ (pc = "idle") <=> (mode = "idle")
    /\ t \in Nat /\ stop \in BOOLEAN
    /\ ph \in 1..7 /\ mi \in 1..(NMech + 1)
    /\ world \in Seq(Slot)
    /\ failed \in SUBSET Nat
    /\ scratch \in SUBSET Nat
    /\ reports \in Seq([t : Nat, stopped : BOOLEAN, tags : SUBSET Nat])
    /\ snap \in Captured

(* Slot a precedes slot b: by step, then by phase, then by insertion order. *)
SamePhaseBefore(a, b) == a.ph < b.ph \/ (a.ph = b.ph /\ a.mech < b.mech)
Before(a, b) == a.t < b.t \/ (a.t = b.t /\ SamePhaseBefore(a, b))

Ordered(w) == \A i, j \in DOMAIN w : i < j => Before(w[i], w[j])

(* Mechanisms are invoked step by step, within a step in the order of
   Phase::ORDER and within a phase in insertion order, and no slot twice,
   across any mix of drivers, failures and restores. *)
PhaseOrder == Ordered(world)

Has(w, k, p, m) == \E i \in DOMAIN w : w[i] = [t |-> k, ph |-> p, mech |-> m]

(* Every step that returned Ok invoked every registered (phase, mechanism)
   slot, a stop request in the middle of the step notwithstanding. *)
WholeSteps ==
    \A k \in 1..t : (k = t => pc # "step") /\ k \notin failed =>
        \A m \in Mech : \A p \in Registered[m] : Has(world, k, p, m)

(* run_observed() reports consecutive steps, each after it ended and once
   only, and none after the report that carries stopped = true; what it reads
   from the blackboard was written in that step, never in an earlier one. *)
ReportsExact ==
    \A i \in DOMAIN reports :
        /\ reports[i].stopped => i = Len(reports)
        /\ i > 1 => reports[i].t = reports[i - 1].t + 1
        /\ reports[i].t \notin failed
        /\ reports[i].tags \subseteq {reports[i].t}

(* Every call returns. *)
CallsReturn == (pc # "idle") ~> (pc = "idle")
=============================================================================
