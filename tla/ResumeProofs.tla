---------------------------- MODULE ResumeProofs ----------------------------
(***************************************************************************)
(* For every opinion dynamics, every stop schedule and every clock bound:  *)
(* ContinuationProbability gives step k its own variate, a run stops at    *)
(* the step the uninterrupted run stops at, through any failed steps,      *)
(* saves, crashes, rebuilds and restores, and ConvergenceMechanism stops   *)
(* only runs that have converged.                                          *)
(***************************************************************************)
EXTENDS Resume, TLAPS

(* The flag a fault-free simulation carries at clock k. *)
StopsBy(k, flag, bad) == ~bad /\ ~Convergence => flag = StopDrawn(k)

(* The counter and the stream it counts never part, and both the live
   simulation and a saved one carry the flag of the uninterrupted run. *)
IInv ==
    /\ TypeOK
    /\ draws = pos
    /\ StopsBy(t, stop, faulty)
    /\ file \notin {None, Torn} => StopsBy(file.t, file.stop, file.faulty)

USE ResumeAssumption

(* draw_for_step(t) leaves the stream just past variate t and hands out that
   variate, wherever the stream stood before. *)
LEMMA DrawsVariate ==
    ASSUME TypeOK, draws = pos, DrawForStep(t + 1)
    PROVE  draws' = t + 1 /\ pos' = t + 1 /\ used' = t + 1
BY DEF TypeOK, DrawForStep

(* Whatever part of PostStep ran, the stream and its counter stay together. *)
LEMMA PostStepDraws ==
    ASSUME TypeOK, draws = pos, NEW ran, NEW now, PostStep(ran, now)
    PROVE  draws' = pos' /\ draws' \in Nat /\ used' \in Nat
<1>1. CASE Continuation /\ "continuation" \in ran
  BY <1>1, DrawsVariate DEF PostStep, TypeOK
<1>2. CASE ~(Continuation /\ "continuation" \in ran)
  BY <1>2 DEF PostStep, TypeOK
<1>3. QED
  BY <1>1, <1>2

(* No run has stopped before its first step. *)
LEMMA StopsNever == StopDrawn(0) = FALSE
<1>1. ~ \E j \in 1..0 : j \in StopDraws
  OBVIOUS
<1>2. QED
  BY <1>1 DEF StopDrawn

(* One more step stops the run exactly if the step's variate does. *)
LEMMA StopsOneMore ==
    ASSUME NEW k \in Nat
    PROVE  StopDrawn(k + 1) = (StopDrawn(k) \/ (Continuation /\ k + 1 \in StopDraws))
<1>1. (\E j \in 1..(k + 1) : j \in StopDraws)
        <=> (\E j \in 1..k : j \in StopDraws) \/ k + 1 \in StopDraws
  OBVIOUS
<1>2. QED
  BY <1>1 DEF StopDrawn

(* The invariant holds of a simulation just built, no file written yet. *)
LEMMA InitIInv == Init => IInv
<1>1. SUFFICES ASSUME Init PROVE IInv
  OBVIOUS
<1>2. TypeOK /\ draws = pos /\ file = None
  BY <1>1 DEF Init, Built, TypeOK
<1>3. StopsBy(t, stop, faulty)
  BY <1>1, StopsNever DEF Init, Built, StopsBy, Convergence
<1>4. QED
  BY <1>2, <1>3 DEF IInv

(* A step that returns Ok keeps the types and the uninterrupted run's flag. *)
LEMMA StepOkIInv == IInv /\ StepOk => IInv'
<1>1. SUFFICES ASSUME IInv, StepOk PROVE IInv'
  OBVIOUS
<1>2. TypeOK /\ draws = pos /\ StopsBy(t, stop, faulty)
  BY <1>1 DEF IInv
<1>3. /\ t' = t + 1 /\ faulty' = faulty /\ unseen' = unseen /\ wired' = wired /\ start' = start
      /\ rewound' = rewound /\ file' = file /\ x' = Update[x] /\ prev' = (IF Convergence THEN x' ELSE prev)
      /\ stop' = (stop \/ ContinuationStops \/ ConvergenceStops(x'))
  BY <1>1 DEF StepOk, PostStep, program
<1>4. /\ Continuation => draws' = t + 1 /\ pos' = t + 1 /\ used' = t + 1
      /\ ~Continuation => draws' = draws /\ pos' = pos /\ used' = used
  BY <1>1, <1>2, DrawsVariate DEF StepOk, PostStep
<1>5. TypeOK'
  <2>1. stop' \in BOOLEAN
    BY <1>3
  <2>2. t' \in Nat /\ x' \in Opinions /\ prev' \in Opinions \union {None}
    BY <1>2, <1>3 DEF TypeOK
  <2>3. draws' \in Nat /\ pos' \in Nat /\ used' \in Nat
    BY <1>2, <1>4 DEF TypeOK
  <2>4. QED
    BY <1>2, <1>3, <2>1, <2>2, <2>3 DEF TypeOK
<1>6. draws' = pos'
  BY <1>2, <1>4
<1>7. StopsBy(t, stop, faulty)'
  <2>1. SUFFICES ASSUME ~faulty', ~Convergence' PROVE stop' = StopDrawn(t')
    BY <1>3 DEF StopsBy, StopDrawn, Continuation, Convergence
  <2>2. ~faulty /\ ~Convergence /\ t \in Nat /\ stop = StopDrawn(t)
    BY <1>2, <1>3, <2>1 DEF StopsBy, TypeOK, Convergence
  <2>3. stop' = (stop \/ (Continuation /\ t + 1 \in StopDraws))
    BY <1>3, <1>4, <2>2 DEF ContinuationStops, ConvergenceStops
  <2>4. QED
    BY <1>3, <2>2, <2>3, StopsOneMore
<1>8. (file \notin {None, Torn} => StopsBy(file.t, file.stop, file.faulty))'
  BY <1>1, <1>3 DEF IInv, StopsBy, StopDrawn, Continuation, Convergence
<1>9. QED
  BY <1>5, <1>6, <1>7, <1>8 DEF IInv

(* Every other action: a failed step, the file, a crash, a restore. *)
LEMMA NextIInv == IInv /\ [Next]_vars => IInv'
<1>1. SUFFICES ASSUME IInv, [Next]_vars PROVE IInv'
  OBVIOUS
<1>2. CASE StepOk
  BY <1>1, <1>2, StepOkIInv
<1>3. CASE StepErr
  <2>1. PICK ran : PostStep(ran, x')
    BY <1>3 DEF StepErr
  <2>2. /\ t' = t + 1 /\ faulty' = TRUE /\ unseen' \in BOOLEAN /\ x' \in {x, Update[x]}
        /\ wired' = wired /\ start' = start /\ rewound' = rewound /\ file' = file
    BY <1>1, <1>3 DEF StepErr, program, IInv, TypeOK
  <2>3. draws' = pos' /\ draws' \in Nat /\ used' \in Nat
    BY <1>1, <2>1, PostStepDraws DEF IInv
  <2>4. TypeOK'
    <3>1. TypeOK
      BY <1>1 DEF IInv
    <3>2. x' \in Opinions /\ t' \in Nat /\ prev' \in Opinions \union {None} /\ stop' \in BOOLEAN
      BY <2>1, <2>2, <3>1 DEF PostStep, TypeOK
    <3>3. QED
      BY <2>2, <2>3, <3>1, <3>2 DEF TypeOK
  <2>5. (file \notin {None, Torn} => StopsBy(file.t, file.stop, file.faulty))'
    BY <1>1, <2>2 DEF IInv, StopsBy, StopDrawn, Continuation, Convergence
  <2>6. QED
    BY <2>2, <2>3, <2>4, <2>5 DEF IInv, StopsBy
<1>4. CASE Save
  BY <1>1, <1>4 DEF Save, IInv, TypeOK, StopsBy, StopDrawn, Captured, program, simulation, mechanisms, Continuation, Convergence
<1>5. CASE SaveLosesTail
  BY <1>1, <1>5 DEF SaveLosesTail, IInv, TypeOK, StopsBy, StopDrawn, program, simulation, mechanisms, Continuation, Convergence
<1>6. CASE CrashRebuild
  <2>1. TypeOK' /\ draws' = pos'
    BY <1>1, <1>6 DEF CrashRebuild, IInv, TypeOK, program
  <2>2. StopsBy(t, stop, faulty)'
    <3>1. StopDrawn(0)' = FALSE
      <4>1. StopDrawn(0)' = StopDrawn(0)
        BY <1>6 DEF CrashRebuild, program, Continuation, StopDrawn
      <4>2. QED
        BY <4>1, StopsNever
    <3>2. QED
      BY <1>6, <3>1 DEF CrashRebuild, StopsBy, StopDrawn, Continuation
  <2>3. (file \notin {None, Torn} => StopsBy(file.t, file.stop, file.faulty))'
    <3>1. wired' = wired /\ file' \in {file, Torn}
      BY <1>6 DEF CrashRebuild, program
    <3>2. file' \notin {None, Torn} => file' = file
      BY <3>1
    <3>3. QED
      BY <1>1, <3>1, <3>2 DEF IInv, StopsBy, StopDrawn, Continuation, Convergence
  <2>4. QED
    BY <2>1, <2>2, <2>3 DEF IInv
<1>7. CASE LoadRestore
  BY <1>1, <1>7 DEF LoadRestore, IInv, TypeOK, StopsBy, StopDrawn, Captured, program, mechanisms, Continuation, Convergence
<1>8. CASE UNCHANGED vars
  BY <1>1, <1>8 DEF vars, program, simulation, mechanisms, IInv, TypeOK, StopsBy, StopDrawn, Continuation, Convergence
<1>9. QED
  BY <1>1, <1>2, <1>3, <1>4, <1>5, <1>6, <1>7, <1>8 DEF Next

(* The inductive invariant holds in every reachable state. *)
THEOREM ResumeIInv == Spec => []IInv
BY InitIInv, NextIInv, PTL DEF Spec

(* The stop flag of every fault-free run is the uninterrupted run's: resuming
   from a snapshot reproduces the stopping step of ContinuationProbability. *)
THEOREM ResumeStopExact == Spec => []StopExact
<1>1. IInv => StopExact
  <2>1. ~Convergence => RefStop(t) = StopDrawn(t)
    BY DEF RefStop, StopDrawn
  <2>2. QED
    BY <2>1 DEF IInv, StopExact, StopsBy
<1>2. QED
  BY ResumeIInv, <1>1, PTL

(* Step k consumes variate k, also after failed steps, rebuilds and rewinds. *)
THEOREM ResumeDrawMatchesStep == Spec => DrawMatchesStep
<1>1. IInv /\ [Next]_vars => [StepOk /\ Continuation => used' = t']_vars
  <2>1. SUFFICES ASSUME IInv, StepOk, Continuation PROVE used' = t'
    OBVIOUS
  <2>2. TypeOK /\ draws = pos /\ DrawForStep(t + 1) /\ t' = t + 1
    BY <2>1 DEF IInv, StepOk, PostStep
  <2>3. QED
    BY <2>2, DrawsVariate
<1>2. QED
  BY ResumeIInv, <1>1, PTL DEF Spec, DrawMatchesStep
-----------------------------------------------------------------------------
(* Why a convergence that is announced is real: what is remembered is either
   nothing, or the present opinion, or, if updates went unseen, one they came
   from.  A step that finds it unchanged has found an opinion at rest, or one
   that updates led back to, and the updates after it stay there.  A fresh
   simulation remembers nothing, which is what a restore that is no rewind
   relies on. *)
Closed(S) == S \in SUBSET Opinions /\ \A p \in S : Update[p] \in S
\* Updates lead from one opinion to another, in one step or more.
LeadsTo(o, q) == \A S : Closed(S) /\ Update[o] \in S => q \in S
Still(opinion, flag, missed, back) ==
    ~back /\ flag => LeadsTo(opinion, opinion) /\ (~missed => Update[opinion] = opinion)

Remembers ==
    ~rewound =>
        /\ t = 0 => prev = None
        /\ prev # None => prev \in Opinions /\ (prev = x \/ (unseen /\ LeadsTo(prev, x)))

ConvInv ==
    wired = {"convergence"} =>
        /\ Remembers
        /\ Still(x, stop, unseen, rewound)
        /\ file \notin {None, Torn} => Still(file.x, file.stop, file.unseen, file.rewound)

(* One update leads on. *)
LEMMA OneUpdate == ASSUME NEW o PROVE LeadsTo(o, Update[o])
BY DEF LeadsTo

LEMMA OneMore == ASSUME NEW o, NEW q, LeadsTo(o, q) PROVE LeadsTo(o, Update[q])
BY DEF LeadsTo, Closed

(* From an opinion that is led back to, updates lead to opinions that are. *)
LEMMA ComesBack ==
    ASSUME NEW o \in Opinions, LeadsTo(o, o)
    PROVE  LeadsTo(Update[o], Update[o])
<1> DEFINE q == Update[o]
<1>1. q \in Opinions
  OBVIOUS
<1>2. SUFFICES ASSUME NEW S, Closed(S), Update[q] \in S PROVE q \in S
  BY DEF LeadsTo
<1>3. Closed(S \cup {q}) /\ Update[o] \in S \cup {q}
  BY <1>1, <1>2 DEF Closed
<1> HIDE DEF q
<1>4. o \in S \cup {q}
  BY <1>3 DEF LeadsTo
<1>5. CASE o \in S
  BY <1>2, <1>5 DEF Closed, q
<1>6. CASE o = q
  BY <1>2, <1>6 DEF q
<1>7. QED
  BY <1>4, <1>5, <1>6

(* What PostStep does where only convergence is wired, if it got that far. *)
LEMMA Compares ==
    ASSUME wired = {"convergence"}, NEW ran, NEW now, PostStep(ran, now)
    PROVE  /\ prev' = IF "convergence" \in ran THEN now ELSE prev
           /\ stop' = (stop \/ ("convergence" \in ran /\ prev # None /\ prev = now))
<1>1. ~Continuation /\ Convergence
  BY DEF Continuation, Convergence
<1>2. QED
  BY <1>1 DEF PostStep, ContinuationStops, ConvergenceStops

(* One update, of a step that returned Ok or failed behind it. *)
LEMMA UpdateConvInv ==
    ASSUME TypeOK, ConvInv, wired = {"convergence"}, wired' = wired, rewound' = rewound, file' = file, t' = t + 1,
           NEW ran, x' = Update[x], PostStep(ran, x'), unseen' = (unseen \/ "convergence" \notin ran)
    PROVE  ConvInv'
<1>1. Remembers /\ Still(x, stop, unseen, rewound) /\ t \in Nat /\ x \in Opinions /\ unseen \in BOOLEAN
  BY DEF ConvInv, TypeOK
<1>2. /\ prev' = IF "convergence" \in ran THEN x' ELSE prev
      /\ stop' = (stop \/ ("convergence" \in ran /\ prev # None /\ prev = x'))
  BY Compares
<1>3. x' \in Opinions /\ t' # 0
  BY <1>1
<1>4. SUFFICES ASSUME ~rewound PROVE Remembers' /\ Still(x, stop, unseen, rewound)'
  BY DEF ConvInv, Remembers, Still
<1>5. prev # None => LeadsTo(prev, x')
  BY <1>1, <1>4, OneUpdate, OneMore DEF Remembers
<1>6. Remembers'
  <2>1. LeadsTo(prev, x)' <=> LeadsTo(prev', x')
    BY DEF LeadsTo, Closed
  <2>2. CASE "convergence" \in ran
    BY <1>2, <1>3, <2>2 DEF Remembers
  <2>3. CASE "convergence" \notin ran
    BY <1>1, <1>2, <1>3, <1>4, <1>5, <2>1, <2>3 DEF Remembers
  <2>4. QED
    BY <2>2, <2>3
<1>7. Still(x, stop, unseen, rewound)'
  <2>1. LeadsTo(x, x)' <=> LeadsTo(x', x')
    BY DEF LeadsTo, Closed
  <2>2. SUFFICES ASSUME stop' PROVE LeadsTo(x', x') /\ (~unseen' => Update[x'] = x')
    BY <2>1 DEF Still
  <2>3. CASE stop
    <3>1. LeadsTo(x, x) /\ (~unseen => Update[x] = x)
      BY <1>1, <1>4, <2>3 DEF Still
    <3>2. QED
      BY <1>1, <3>1, ComesBack
  <2>4. CASE ~stop
    <3>1. "convergence" \in ran /\ prev # None /\ prev = x'
      BY <1>2, <2>2, <2>4
    <3>2. LeadsTo(x', x')
      BY <1>5, <3>1
    <3>3. ~unseen' => prev = x
      BY <1>1, <1>4, <3>1 DEF Remembers
    <3>4. QED
      BY <3>1, <3>2, <3>3
  <2>5. QED
    BY <2>3, <2>4
<1>8. QED
  BY <1>6, <1>7

(* Every step keeps it: one that fails before its update moves no opinion, and
   a restore that is no rewind meets a simulation that remembers nothing. *)
LEMMA NextConvInv == TypeOK /\ ConvInv /\ [Next]_vars => ConvInv'
<1>1. SUFFICES ASSUME TypeOK, ConvInv, [Next]_vars, wired' = {"convergence"} PROVE ConvInv'
  BY DEF ConvInv
<1>2. CASE StepOk
  <2>1. wired = {"convergence"} /\ wired' = wired /\ PostStep({"continuation", "convergence"}, x')
    BY <1>1, <1>2 DEF StepOk, program
  <2>2. unseen' = (unseen \/ "convergence" \notin {"continuation", "convergence"})
    BY <1>1, <1>2 DEF StepOk, TypeOK
  <2>3. QED
    BY <1>1, <1>2, <2>1, <2>2, UpdateConvInv DEF StepOk
<1>3. CASE StepErr
  <2>1. /\ wired = {"convergence"} /\ wired' = wired /\ t' = t + 1 /\ t \in Nat
        /\ rewound' = rewound /\ file' = file
    BY <1>1, <1>3 DEF StepErr, program, TypeOK
  <2>2. CASE x' = x /\ PostStep({}, x') /\ unseen' = unseen
    <3>1. prev' = prev /\ stop' = stop
      <4>1. prev' = prev /\ stop' = (stop \/ FALSE)
        BY <2>1, <2>2, Compares
      <4>2. QED
        BY <1>1, <4>1 DEF TypeOK
    <3>2. t' # 0
      BY <2>1
    <3>3. QED
      BY <1>1, <2>1, <2>2, <3>1, <3>2 DEF ConvInv, Remembers, Still, LeadsTo, Closed
  <2>3. CASE \E ran : x' = Update[x] /\ PostStep(ran, x') /\ unseen' = (unseen \/ "convergence" \notin ran)
    BY <1>1, <2>1, <2>3, UpdateConvInv
  <2>4. QED
    BY <1>3, <2>2, <2>3 DEF StepErr
<1>4. CASE Save
  BY <1>1, <1>4 DEF Save, ConvInv, Remembers, Still, LeadsTo, Closed, program, simulation, mechanisms
<1>5. CASE SaveLosesTail
  BY <1>1, <1>5 DEF SaveLosesTail, ConvInv, Remembers, Still, LeadsTo, Closed, program, simulation, mechanisms
<1>6. CASE CrashRebuild
  BY <1>1, <1>6 DEF CrashRebuild, ConvInv, Remembers, Still, LeadsTo, Closed, program
<1>7. CASE LoadRestore
  <2>1. /\ wired = {"convergence"} /\ t \in Nat /\ file \in Captured /\ file' = file
        /\ file \notin {None, Torn} /\ prev' = prev
        /\ t' = file.t /\ x' = file.x /\ stop' = file.stop /\ unseen' = file.unseen
        /\ rewound' = (rewound \/ file.rewound \/ t > 0)
    BY <1>1, <1>7 DEF LoadRestore, TypeOK, mechanisms, program
  <2>2. Remembers /\ Still(file.x, file.stop, file.unseen, file.rewound)
    BY <1>1, <2>1 DEF ConvInv
  <2>3. ~rewound' => ~rewound /\ ~file.rewound /\ prev = None
    <3>1. rewound \in BOOLEAN /\ file.rewound \in BOOLEAN
      BY <1>1, <2>1 DEF TypeOK, Captured
    <3>2. ~(t > 0) => t = 0
      BY <2>1
    <3>3. ~rewound' => ~rewound /\ ~file.rewound /\ ~(t > 0)
      BY <2>1, <3>1
    <3>4. QED
      BY <2>2, <3>2, <3>3 DEF Remembers
  <2>4. QED
    BY <2>1, <2>2, <2>3 DEF ConvInv, Remembers, Still, LeadsTo, Closed
<1>8. CASE UNCHANGED vars
  BY <1>1, <1>8 DEF vars, program, simulation, mechanisms, ConvInv, Remembers, Still, LeadsTo, Closed
<1>9. QED
  BY <1>1, <1>2, <1>3, <1>4, <1>5, <1>6, <1>7, <1>8 DEF Next

(* ConvergenceMechanism announces convergence only for opinions at rest, or, if
   failed steps hid updates from it, for opinions the updates led back to: for
   every opinion dynamics, through failed steps, saves, crashes and restores,
   as long as nobody rewinds into a simulation that ran on. *)
THEOREM ResumeNoFalseConvergence == Spec => []NoFalseConvergence
<1>1. Init => ConvInv
  BY DEF Init, Built, ConvInv, Remembers, Still
<1>2. IInv => TypeOK
  BY DEF IInv
<1>3. ConvInv => NoFalseConvergence
  <2>1. LeadsTo(x, x) => Recurs(x)
    BY DEF LeadsTo, Closed, Recurs
  <2>2. QED
    BY <2>1 DEF ConvInv, Still, NoFalseConvergence
<1>4. QED
  BY ResumeIInv, NextConvInv, <1>1, <1>2, <1>3, PTL DEF Spec
=============================================================================
