------------------------------- MODULE Resume -------------------------------
(***************************************************************************)
(* Checkpoint and resume: Simulation::snapshot/restore and Snapshot::save/ *)
(* load (socsim-engine/src/lib.rs) over whole steps, with the two          *)
(* PostStep mechanisms of socsim-mechanisms that keep state of their own,  *)
(* outside the world and so outside every snapshot:                        *)
(*   - ContinuationProbability, a private random stream kept in step with  *)
(*     the clock;                                                          *)
(*   - ConvergenceMechanism, which remembers the opinions of the previous  *)
(*     PostStep.                                                           *)
(* A program that crashes, or is run again, rebuilds the simulation with   *)
(* the same mechanisms and the same seed, then loads the file.             *)
(***************************************************************************)
EXTENDS Naturals

CONSTANTS Opinions,   \* values of the world (the opinion vector)
          Starts,     \* the worlds programs build
          Update,     \* the deterministic opinion update of one step
          StopDraws,  \* steps k whose variate u of the private stream has u >= delta
          MaxClock,   \* bound of the model on the clock
          Wirings,    \* the sets of mechanisms a simulation may be built with
          None, Torn

ASSUME ResumeAssumption ==
    /\ Starts \subseteq Opinions
    /\ Update \in [Opinions -> Opinions]
    /\ StopDraws \in SUBSET Nat
    /\ MaxClock \in Nat
    /\ Wirings \subseteq SUBSET {"continuation", "convergence"}
    /\ None \notin Opinions

VARIABLES wired,      \* the mechanisms of this program
          start,      \* the world this program builds
          t, x, stop, \* what a snapshot holds: clock, world, stop flag
          faulty,     \* history: a step of this world returned an error
          unseen,     \* history: one did between its update and ConvergenceMechanism
          draws,      \* ContinuationProbability::draws
          pos,        \* variates its private SimRng has produced
          used,       \* history: index of the variate the last PostStep drew
          prev,       \* ConvergenceMechanism::prev
          rewound,    \* history: restored, here or before a save, over a run
          file        \* the snapshot file: None, Torn, or the captured state

program    == <<wired, start>>
simulation == <<t, x, stop, faulty, unseen>>
mechanisms == <<draws, pos, used, prev>>
vars       == <<program, simulation, mechanisms, rewound, file>>

Continuation == "continuation" \in wired
Convergence  == "convergence" \in wired

Built ==
    /\ t = 0 /\ x = start /\ stop = FALSE /\ faulty = FALSE /\ unseen = FALSE
    /\ draws = 0 /\ pos = 0 /\ used = 0 /\ prev = None
    /\ rewound = FALSE

Init == wired \in Wirings /\ start \in Starts /\ Built /\ file = None

-----------------------------------------------------------------------------
(* Mutant: a stream that is ahead is not rewound. *)
DrawForStepNoRewind(k) ==
    LET behind == IF draws < k - 1 THEN k - 1 - draws ELSE 0
    IN  /\ draws' = draws + behind + 1
        /\ pos' = pos + behind + 1
        /\ used' = pos'

(* Mutant: a stream that is behind is not advanced. *)
DrawForStepNoCatchUp(k) ==
    LET ahead == draws > k - 1
    IN  /\ draws' = (IF ahead THEN 0 ELSE draws) + 1
        /\ pos' = (IF ahead THEN 0 ELSE pos) + 1
        /\ used' = pos'

(* ContinuationProbability::draw_for_step: rewind a stream that is ahead,
   advance one that is behind, then draw. *)
DrawForStep(k) ==
    LET ahead   == draws > k - 1
        drawn   == IF ahead THEN 0 ELSE draws
        at      == IF ahead THEN 0 ELSE pos
        behind  == IF drawn < k - 1 THEN k - 1 - drawn ELSE 0
    IN  /\ draws' = drawn + behind + 1
        /\ pos' = at + behind + 1
        /\ used' = pos'

(* ContinuationProbability::apply: u >= delta for the variate just drawn. *)
ContinuationStops == Continuation /\ used' \in StopDraws

(* Mutant: nothing remembered counts as nothing changed. *)
ConvergenceStopsAtFirst(now) == Convergence /\ prev \in {None, now}

(* ConvergenceMechanism::apply: compare with the remembered opinions, then
   remember the current ones (tol is below the least difference). *)
ConvergenceStops(now) == Convergence /\ prev # None /\ prev = now

(* The PostStep mechanisms in insertion order, up to the one the step got to. *)
PostStep(ran, now) ==
    /\ IF Continuation /\ "continuation" \in ran THEN DrawForStep(t + 1) ELSE UNCHANGED <<draws, pos, used>>
    /\ prev' = IF Convergence /\ "convergence" \in ran THEN now ELSE prev
    /\ stop' = \/ stop
               \/ "continuation" \in ran /\ ContinuationStops
               \/ "convergence" \in ran /\ ConvergenceStops(now)

(* One step that returns Ok: the opinion update, then both PostStep
   mechanisms.  step() itself heeds neither t_max nor the flag, so a run may
   go on after a stop; the flag is never cleared. *)
StepOk ==
    /\ t < MaxClock
    /\ t' = t + 1
    /\ x' = Update[x]
    /\ PostStep({"continuation", "convergence"}, x')
    /\ UNCHANGED <<program, faulty, unseen, rewound, file>>

(* One step in which another mechanism returns an error: before the update,
   after it, between the PostStep mechanisms or behind them.  The clock has
   ticked, and what was done before the error is not undone: neither the
   opinions nor the draw nor a requested stop. *)
StepErr ==
    /\ t < MaxClock
    /\ t' = t + 1
    /\ faulty' = TRUE
    /\ \/ x' = x /\ PostStep({}, x') /\ unseen' = unseen
       \/ \E ran \in {{}, {"continuation"}, {"continuation", "convergence"}} :
            /\ x' = Update[x]
            /\ PostStep(ran, x')
            /\ unseen' = (unseen \/ "convergence" \notin ran)
    /\ UNCHANGED <<program, rewound, file>>

(* save(): File::create truncates the old file before a byte is written. *)
Save ==
    /\ file' = [t |-> t, x |-> x, stop |-> stop, faulty |-> faulty, unseen |-> unseen, rewound |-> rewound]
    /\ UNCHANGED <<program, simulation, mechanisms, rewound>>

(* save() that reports Ok although the BufWriter's last flush, done when it
   is dropped inside to_writer_pretty, failed: its error is discarded. *)
SaveLosesTail ==
    /\ file' = Torn
    /\ UNCHANGED <<program, simulation, mechanisms, rewound>>

(* The process dies, in the middle of save() or not; the program is started
   again and builds the simulation anew. *)
CrashRebuild ==
    /\ file' \in {file, Torn}
    /\ t' = 0 /\ x' = start /\ stop' = FALSE /\ faulty' = FALSE /\ unseen' = FALSE
    /\ draws' = 0 /\ pos' = 0 /\ used' = 0 /\ prev' = None
    /\ rewound' = FALSE
    /\ UNCHANGED program

(* load() then restore(): world, stream position and flag are overwritten,
   the mechanisms keep what they had.  load() of a torn file is an error and
   restore() is not reached. *)
LoadRestore ==
    /\ file \notin {None, Torn}
    /\ rewound' = (rewound \/ file.rewound \/ t > 0)
    /\ t' = file.t /\ x' = file.x /\ stop' = file.stop /\ faulty' = file.faulty /\ unseen' = file.unseen
    /\ UNCHANGED <<program, mechanisms, file>>

Next == StepOk \/ StepErr \/ Save \/ SaveLosesTail \/ CrashRebuild \/ LoadRestore

Spec == Init /\ [][Next]_vars

-----------------------------------------------------------------------------
(* Properties                                                              *)

Captured == [t : Nat, x : Opinions, stop : BOOLEAN, faulty : BOOLEAN, unseen : BOOLEAN, rewound : BOOLEAN]

(* Types of the simulation, of the mechanisms' own state and of the file. *)
TypeOK ==
    /\ wired \in Wirings /\ start \in Starts /\ rewound \in BOOLEAN
    /\ t \in Nat /\ x \in Opinions /\ stop \in BOOLEAN /\ faulty \in BOOLEAN /\ unseen \in BOOLEAN
    /\ draws \in Nat /\ pos \in Nat /\ used \in Nat
    /\ prev \in Opinions \union {None}
    /\ file \in Captured \union {None, Torn}

(* The run that is never interrupted: opinions after k steps, and whether a
   stop has been requested in one of steps 1..k. *)
RefX[k \in Nat] == IF k = 0 THEN start ELSE Update[RefX[k - 1]]
StopDrawn(k) == Continuation /\ \E j \in 1..k : j \in StopDraws
RefStop(k) ==
    \/ StopDrawn(k)
    \/ Convergence /\ \E j \in 2..k : RefX[j] = RefX[j - 1]

Uninterrupted == x = RefX[t] /\ stop = RefStop(t)

(* Snapshot's documentation: restoring into a simulation wired with the same
   mechanisms reproduces the run bit-identically from the saved step onward.
   Every fault-free world of a simulation that was built anew, and restored
   before it took a step, is the one the uninterrupted run has at that clock,
   stop flag included. *)
ResumeExact == ~faulty /\ ~rewound => Uninterrupted

(* What of it ContinuationProbability achieves by keeping its stream in step
   with the clock: the run stops at the step it would have stopped at. *)
StopExact == ~faulty /\ ~Convergence => stop = RefStop(t)

(* The private stream assigns variate k to step k and to no other, also after
   steps that failed before PostStep, after rebuilds and after rewinds. *)
DrawMatchesStep == [][StepOk /\ Continuation => used' = t']_vars

(* An opinion that updates lead back to: every set that holds its successor
   and all successors of its members holds it.  One that still drifts is none. *)
Recurs(o) ==
    \A closed \in SUBSET Opinions :
        Update[o] \in closed /\ (\A p \in closed : Update[p] \in closed) => o \in closed

(* Unless the caller rewinds into a simulation that ran on, convergence is
   never announced for opinions that still drift, whatever the mechanism
   remembers from before failed steps and restores.  What failed steps can do
   is hide updates from it: opinions that came back to where it saw them last
   look settled.  If it saw every update, what it announces is at rest. *)
NoFalseConvergence ==
    ~rewound /\ wired = {"convergence"} /\ stop =>
        Recurs(x) /\ (~unseen => Update[x] = x)
=============================================================================
