---------------------------- MODULE EngineProofs ----------------------------
(***************************************************************************)
(* For every number of mechanisms, every registration, every t_max: the    *)
(* engine invokes slots in order, never drops one from a step that         *)
(* returned Ok, and reports each such step of a run_observed() exactly     *)
(* once, whatever drivers, failures and restores come between.             *)
(***************************************************************************)
EXTENDS Engine, TLAPS

(* A world (the live one or a snapshot's) taken between steps at clock k. *)
Settled(w, k, bad) ==
    /\ Ordered(w)
    /\ \A i \in DOMAIN w : w[i].t <= k
    /\ \A n \in 1..k : n \notin bad =>
         \A m \in Mech : \A p \in Registered[m] : Has(w, n, p, m)

(* A world in the middle of step k, the loops standing at (p0, m0). *)
Partial(w, k, bad, p0, m0) ==
    /\ Ordered(w)
    /\ \A i \in DOMAIN w :
         w[i].t < k \/ (w[i].t = k /\ SamePhaseBefore(w[i], [ph |-> p0, mech |-> m0]))
    /\ \A n \in 1..k : n # k /\ n \notin bad =>
         \A m \in Mech : \A p \in Registered[m] : Has(w, n, p, m)
    /\ \A m \in Mech : \A p \in Registered[m] :
         p < p0 \/ (p = p0 /\ m < m0) => Has(w, k, p, m)

IInv ==
    /\ TypeOK
    /\ pc # "step" => Settled(world, t, failed)
    /\ pc = "step" => Partial(world, t, failed, ph, mi)
    /\ Settled(snap.world, snap.t, snap.failed)

(* Append keeps a sequence over its set. *)
LEMMA AppendSeq ==
    ASSUME NEW S, NEW w \in Seq(S), NEW x \in S
    PROVE  Append(w, x) \in Seq(S)
OBVIOUS

USE EngineAssumption DEF Phase, Mech, Slot

(* Appending a slot that follows every slot of an ordered sequence keeps it
   ordered: what step() relies on when it moves its cursors. *)
LEMMA OrderedAppend ==
    ASSUME NEW w \in Seq(Slot), NEW s \in Slot, Ordered(w),
           \A i \in DOMAIN w : Before(w[i], s)
    PROVE  Ordered(Append(w, s))
<1>1. SUFFICES ASSUME NEW i \in DOMAIN Append(w, s), NEW j \in DOMAIN Append(w, s), i < j
               PROVE  Before(Append(w, s)[i], Append(w, s)[j])
  BY DEF Ordered
<1>2. i \in DOMAIN w /\ Append(w, s)[i] = w[i]
  BY <1>1
<1>3. CASE j \in DOMAIN w
  BY <1>1, <1>2, <1>3 DEF Ordered
<1>4. CASE j = Len(w) + 1
  BY <1>2, <1>4
<1>5. QED
  BY <1>1, <1>3, <1>4

(* An invocation already in the world stays there, and the new one is in. *)
LEMMA HasAppend ==
    ASSUME NEW w \in Seq(Slot), NEW s \in Slot
    PROVE  /\ \A k, p, m : Has(w, k, p, m) => Has(Append(w, s), k, p, m)
           /\ Has(Append(w, s), s.t, s.ph, s.mech)
<1>1. ASSUME NEW k, NEW p, NEW m, Has(w, k, p, m) PROVE Has(Append(w, s), k, p, m)
  <2>1. PICK i \in DOMAIN w : w[i] = [t |-> k, ph |-> p, mech |-> m]
    BY <1>1 DEF Has
  <2>2. i \in DOMAIN Append(w, s) /\ Append(w, s)[i] = w[i]
    BY <2>1
  <2>3. QED
    BY <2>1, <2>2 DEF Has
<1>2. Has(Append(w, s), s.t, s.ph, s.mech)
  <2>1. Len(w) + 1 \in DOMAIN Append(w, s) /\ Append(w, s)[Len(w) + 1] = s
    OBVIOUS
  <2>2. s = [t |-> s.t, ph |-> s.ph, mech |-> s.mech]
    OBVIOUS
  <2>3. QED
    BY <2>1, <2>2 DEF Has
<1>3. QED
  BY <1>1, <1>2

LEMMA InitIInv == Init => IInv
<1>1. SUFFICES ASSUME Init PROVE IInv
  OBVIOUS
<1>2. TypeOK
  <2>1. snap \in Captured
    BY <1>1 DEF Init, Captured
  <2>2. world \in Seq(Slot) /\ reports \in Seq([t : Nat, stopped : BOOLEAN, tags : SUBSET Nat])
    BY <1>1 DEF Init
  <2>3. ph \in 1..7 /\ mi \in 1..(NMech + 1)
    BY <1>1 DEF Init
  <2>4. QED
    BY <1>1, <2>1, <2>2, <2>3 DEF Init, TypeOK
<1>3. Settled(<<>>, 0, {})
  BY DEF Settled, Ordered
<1>4. QED
  BY <1>1, <1>2, <1>3 DEF Init, IInv

(* Every step keeps the types. *)
LEMMA StepTypeOK == TypeOK /\ [Next]_vars => TypeOK'
<1> SUFFICES ASSUME TypeOK, [Next]_vars PROVE TypeOK'
  OBVIOUS
<1> USE DEF TypeOK, Captured, driver, cursor, state, vars
<1>1. ASSUME NEW d \in Driver, Call(d) PROVE TypeOK'
  BY <1>1 DEF Call, Driver
<1>2. CASE BeginStep
  BY <1>2 DEF BeginStep
<1>3. CASE SkipMech
  BY <1>3 DEF SkipMech, InPhase
<1>4. CASE Invoke
  <2>1. world' \in Seq(Slot)
    BY <1>4 DEF Invoke, InPhase
  <2>2. scratch' \in SUBSET Nat
    BY <1>4 DEF Invoke
  <2>3. stop' \in BOOLEAN
    BY <1>4 DEF Invoke
  <2>4. QED
    BY <1>4, <2>1, <2>2, <2>3 DEF Invoke, InPhase
<1>5. CASE Fail
  BY <1>5 DEF Fail, InPhase
<1>6. CASE NextPhase
  BY <1>6 DEF NextPhase
<1>7. CASE EndStep
  <2>1. reports' \in Seq([t : Nat, stopped : BOOLEAN, tags : SUBSET Nat])
    <3> DEFINE new == [t |-> t, stopped |-> stop, tags |-> scratch]
    <3>1. new \in [t : Nat, stopped : BOOLEAN, tags : SUBSET Nat]
      OBVIOUS
    <3>2. reports' = reports \/ reports' = Append(reports, new)
      BY <1>7 DEF EndStep
    <3> HIDE DEF new
    <3>3. Append(reports, new) \in Seq([t : Nat, stopped : BOOLEAN, tags : SUBSET Nat])
      BY <3>1, AppendSeq
    <3>4. QED
      BY <3>2, <3>3
  <2>2. mode # "idle" /\ mode \in Driver \union {"idle"}
    BY <1>7 DEF EndStep
  <2>3. pc' \in {"idle", "loop"}
    BY <1>7 DEF EndStep
  <2>4. mode' = IF pc' = "idle" THEN "idle" ELSE mode
    BY <1>7 DEF EndStep
  <2>5. QED
    BY <1>7, <2>1, <2>2, <2>3, <2>4 DEF EndStep
<1>8. CASE Return
  BY <1>8 DEF Return
<1>9. CASE TakeSnapshot
  BY <1>9 DEF TakeSnapshot
<1>10. CASE Restore
  BY <1>10 DEF Restore
<1>11. CASE UNCHANGED vars
  BY <1>11
<1>12. QED
  BY <1>1, <1>2, <1>3, <1>4, <1>5, <1>6, <1>7, <1>8, <1>9, <1>10, <1>11
     DEF Next, CallAny, Step

(* Every step keeps the strengthened invariant: one case per action, the
   interesting ones being the moves of the two loop cursors. *)
LEMMA StepIInv == IInv /\ [Next]_vars => IInv'
<1> SUFFICES ASSUME IInv, [Next]_vars PROVE IInv'
  OBVIOUS
<1>0. TypeOK /\ TypeOK'
  BY StepTypeOK DEF IInv
<1>a. /\ t \in Nat /\ ph \in 1..7 /\ mi \in Nat
      /\ \A i \in DOMAIN world :
           world[i].t \in Nat /\ world[i].ph \in Nat /\ world[i].mech \in Nat
  <2>1. world \in Seq(Slot) /\ t \in Nat /\ ph \in 1..7 /\ mi \in 1..(NMech + 1)
    <3>1. TypeOK
      BY <1>0
    <3>2. QED
      BY <3>1 DEF TypeOK
  <2>2. \A i \in DOMAIN world : world[i] \in Slot
    <3> HIDE DEF Slot
    <3>1. QED
      BY <2>1
  <2>3. \A x \in Slot : x.t \in Nat /\ x.ph \in Nat /\ x.mech \in Nat
    OBVIOUS
  <2>4. mi \in Nat
    BY <2>1
  <2>5. QED
    BY <2>1, <2>2, <2>3, <2>4, Zenon
<1>1. ASSUME NEW d \in Driver, Call(d) PROVE IInv'
  BY <1>0, <1>1 DEF Call, IInv, state, driver
<1>2. CASE BeginStep
  <2>1. Settled(world, t, failed) /\ world' = world /\ failed' = failed /\ t' = t + 1
    BY <1>2 DEF BeginStep, IInv
  <2>2. \A i \in DOMAIN world : world[i].t < t + 1
    BY <1>a, <2>1 DEF Settled
  <2>3. \A n \in 1..(t + 1) : n # t + 1 => n \in 1..t
    BY <1>0 DEF TypeOK
  <2>4. \A m \in Mech : \A p \in Registered[m] : ~(p < 1 \/ (p = 1 /\ m < 1))
    OBVIOUS
  <2>5. Partial(world, t + 1, failed, 1, 1)
    BY <2>1, <2>2, <2>3, <2>4 DEF Partial, Settled
  <2>6. QED
    BY <1>0, <1>2, <2>1, <2>5 DEF BeginStep, IInv
<1>3. CASE SkipMech
  <2>1. Partial(world, t, failed, ph, mi) /\ UNCHANGED <<world, t, failed, ph, pc, snap>>
    BY <1>3 DEF SkipMech, InPhase, IInv, state, driver
  <2>2. mi' = mi + 1 /\ ph \notin Registered[mi] /\ mi \in Mech /\ ph \in Phase
    BY <1>3 DEF SkipMech, InPhase
  <2>3. \A m \in Mech : \A p \in Registered[m] :
          p < ph \/ (p = ph /\ m < mi + 1) => p < ph \/ (p = ph /\ m < mi)
    BY <2>2
  <2>4. \A i \in DOMAIN world :
          world[i].t < t
          \/ (world[i].t = t /\ SamePhaseBefore(world[i], [ph |-> ph, mech |-> mi + 1]))
    BY <1>a, <2>1, <2>2 DEF Partial, SamePhaseBefore
  <2>5. Partial(world, t, failed, ph, mi + 1)
    BY <2>1, <2>3, <2>4 DEF Partial
  <2>6. QED
    BY <1>0, <1>3, <2>1, <2>2, <2>5 DEF SkipMech, InPhase, IInv
<1>4. CASE Invoke
  <2> DEFINE s == [t |-> t, ph |-> ph, mech |-> mi]
  <2>1. Partial(world, t, failed, ph, mi) /\ UNCHANGED <<t, failed, ph, pc, snap>>
    BY <1>4 DEF Invoke, InPhase, IInv, driver
  <2>2. mi' = mi + 1 /\ mi \in Mech /\ ph \in Phase /\ world' = Append(world, s)
    BY <1>4 DEF Invoke, InPhase
  <2>3. s \in Slot /\ world \in Seq(Slot)
    BY <1>0, <2>2 DEF TypeOK
  <2>4. \A i \in DOMAIN world : Before(world[i], s)
    BY <2>1 DEF Partial, Before, SamePhaseBefore
  <2>5. Ordered(world')
    BY <2>1, <2>2, <2>3, <2>4, OrderedAppend DEF Partial
  <2>6. \A i \in DOMAIN world' : (i \in DOMAIN world /\ world'[i] = world[i]) \/ world'[i] = s
    BY <2>2, <2>3
  <2>7. \A i \in DOMAIN world' :
          world'[i].t < t
          \/ (world'[i].t = t /\ SamePhaseBefore(world'[i], [ph |-> ph, mech |-> mi + 1]))
    <3>1. SUFFICES ASSUME NEW i \in DOMAIN world'
                   PROVE world'[i].t < t
                         \/ (world'[i].t = t
                             /\ SamePhaseBefore(world'[i], [ph |-> ph, mech |-> mi + 1]))
      OBVIOUS
    <3>2. CASE world'[i] = s
      <4>1. s.t = t /\ s.ph = ph /\ s.mech = mi /\ mi < mi + 1
        BY <1>0, <2>2 DEF TypeOK
      <4>2. QED
        BY <3>2, <4>1 DEF SamePhaseBefore
    <3>3. CASE i \in DOMAIN world /\ world'[i] = world[i]
      BY <1>a, <2>1, <2>2, <3>3 DEF Partial, SamePhaseBefore
    <3>4. QED
      BY <2>6, <3>2, <3>3
  <2>8. \A k, p, m : Has(world, k, p, m) => Has(world', k, p, m)
    BY <2>2, <2>3, HasAppend
  <2>9. Has(world', t, ph, mi)
    <3>1. Has(Append(world, s), s.t, s.ph, s.mech)
      BY <2>3, HasAppend
    <3>2. QED
      BY <2>2, <3>1
  <2>10. \A m \in Mech : \A p \in Registered[m] :
           p < ph \/ (p = ph /\ m < mi + 1) =>
             (p < ph \/ (p = ph /\ m < mi)) \/ (p = ph /\ m = mi)
    BY <2>2
  <2>11. \A m \in Mech : \A p \in Registered[m] :
           p < ph \/ (p = ph /\ m < mi + 1) => Has(world', t, p, m)
    BY <2>1, <2>8, <2>9, <2>10 DEF Partial
  <2>12. Partial(world', t, failed, ph, mi + 1)
    BY <2>1, <2>5, <2>7, <2>8, <2>11 DEF Partial
  <2>13. QED
    BY <1>0, <1>4, <2>1, <2>2, <2>12 DEF Invoke, InPhase, IInv
<1>5. CASE Fail
  <2>1. Partial(world, t, failed, ph, mi) /\ UNCHANGED <<world, t, snap>>
    BY <1>5 DEF Fail, InPhase, IInv
  <2>2. failed' = failed \union {t} /\ pc' = "idle"
    BY <1>5 DEF Fail
  <2>3. \A i \in DOMAIN world : world[i].t <= t
    BY <1>a, <2>1 DEF Partial
  <2>4. Settled(world, t, failed \union {t})
    BY <2>1, <2>3 DEF Partial, Settled
  <2>5. QED
    BY <1>0, <2>1, <2>2, <2>4 DEF IInv
<1>6. CASE NextPhase
  <2>1. Partial(world, t, failed, ph, mi) /\ UNCHANGED <<world, t, failed, pc, snap>>
    BY <1>6 DEF NextPhase, IInv, state, driver
  <2>2. ph' = ph + 1 /\ mi' = 1 /\ mi = NMech + 1 /\ ph \in Phase
    BY <1>6 DEF NextPhase
  <2>3. \A m \in Mech : \A p \in Registered[m] :
          p < ph + 1 \/ (p = ph + 1 /\ m < 1) => p < ph \/ (p = ph /\ m < mi)
    BY <2>2
  <2>4. \A i \in DOMAIN world :
          world[i].t < t
          \/ (world[i].t = t /\ SamePhaseBefore(world[i], [ph |-> ph + 1, mech |-> 1]))
    BY <1>a, <2>1, <2>2 DEF Partial, SamePhaseBefore
  <2>5. Partial(world, t, failed, ph + 1, 1)
    BY <2>1, <2>3, <2>4 DEF Partial
  <2>6. QED
    BY <1>0, <1>6, <2>1, <2>2, <2>5 DEF NextPhase, IInv
<1>7. CASE EndStep
  <2>1. Partial(world, t, failed, 7, mi) /\ UNCHANGED <<world, t, failed, snap>>
    BY <1>7 DEF EndStep, IInv, state
  <2>2. pc' # "step"
    BY <1>7 DEF EndStep
  <2>3. \A i \in DOMAIN world : world[i].t <= t
    BY <1>a, <2>1 DEF Partial
  <2>4. \A m \in Mech : \A p \in Registered[m] : Has(world, t, p, m)
    BY <2>1 DEF Partial
  <2>5. Settled(world, t, failed)
    BY <2>1, <2>3, <2>4 DEF Partial, Settled
  <2>6. QED
    BY <1>0, <2>1, <2>2, <2>5 DEF IInv
<1>8. CASE Return
  BY <1>0, <1>8 DEF Return, IInv, state
<1>9. CASE TakeSnapshot
  BY <1>0, <1>9 DEF TakeSnapshot, IInv, state, driver
<1>10. CASE Restore
  BY <1>0, <1>10 DEF Restore, IInv, driver
<1>11. CASE UNCHANGED vars
  BY <1>0, <1>11 DEF vars, IInv, state, driver, cursor
<1>12. QED
  BY <1>1, <1>2, <1>3, <1>4, <1>5, <1>6, <1>7, <1>8, <1>9, <1>10, <1>11
     DEF Next, CallAny, Step

(* The simulation's fields keep their types, whatever the mechanisms do. *)
THEOREM EngineTypeOK == Spec => []TypeOK
<1>1. Init => TypeOK
  BY InitIInv DEF IInv
<1>2. QED
  BY <1>1, StepTypeOK, PTL DEF Spec

(* The strengthened invariant holds in every reachable state. *)
THEOREM EngineIInv == Spec => []IInv
<1>1. QED
  BY InitIInv, StepIInv, PTL DEF Spec

(* Invocations are ordered by step, phase and insertion, with no repetition. *)
THEOREM EnginePhaseOrder == Spec => []PhaseOrder
<1>1. IInv => PhaseOrder
  BY DEF IInv, Settled, Partial, PhaseOrder
<1>2. QED
  BY <1>1, EngineIInv, PTL

(* A step that returned Ok is whole: no registered slot is missing from it. *)
THEOREM EngineWholeSteps == Spec => []WholeSteps
<1>1. ASSUME IInv PROVE WholeSteps
  <2>1. SUFFICES ASSUME NEW k \in 1..t, k = t => pc # "step", k \notin failed
                 PROVE \A m \in Mech : \A p \in Registered[m] : Has(world, k, p, m)
    BY DEF WholeSteps
  <2>2. CASE pc = "step"
    BY <1>1, <2>1, <2>2 DEF IInv, Partial
  <2>3. CASE pc # "step"
    BY <1>1, <2>1, <2>3 DEF IInv, Settled
  <2>4. QED
    BY <2>2, <2>3
<1>2. QED
  BY <1>1, EngineIInv, PTL
-----------------------------------------------------------------------------
(* What run_observed() has reported by now: the last report of a call still
   running is that of the last step that ended, and none of its reports ended
   the run. *)
Ended == IF pc = "step" THEN t - 1 ELSE t

Reporting ==
    pc # "idle" /\ reports # <<>> =>
        /\ mode = "observed"
        /\ reports[Len(reports)].t = Ended
        /\ ~reports[Len(reports)].stopped
        /\ \A i \in DOMAIN reports : reports[i].t <= Ended

(* Failures lie behind the clock, a step in progress has not failed, and the
   snapshot is the present history up to its own clock.  So a restore takes
   back failures, but never makes a reported step a failed one. *)
Failures ==
    /\ snap.t <= t
    /\ \A n \in failed : n <= t
    /\ snap.failed = {n \in failed : n <= snap.t}
    /\ pc = "step" => t \notin failed /\ snap.t < t /\ scratch \subseteq {t}

RInv == Failures /\ Reporting /\ ReportsExact

(* Types of what the reports are made of. *)
LEMMA ReportTypes ==
    ASSUME TypeOK
    PROVE  /\ t \in Nat /\ snap.t \in Nat /\ stop \in BOOLEAN
           /\ failed \in SUBSET Nat /\ snap.failed \in SUBSET Nat
           /\ mode \in Driver \union {"idle"} /\ pc \in {"idle", "loop", "step"}
           /\ (pc = "idle") <=> (mode = "idle")
           /\ reports \in Seq([t : Nat, stopped : BOOLEAN, tags : SUBSET Nat])
BY DEF TypeOK, Captured

(* The clock of a report is a number. *)
LEMMA RowTypes ==
    ASSUME TypeOK, NEW i \in DOMAIN reports
    PROVE  reports[i].t \in Nat
<1> DEFINE R == [t : Nat, stopped : BOOLEAN, tags : SUBSET Nat]
<1>1. reports \in Seq(R)
  BY ReportTypes
<1>2. \A r \in R : r.t \in Nat
  OBVIOUS
<1> HIDE DEF R
<1>3. reports[i] \in R
  BY <1>1
<1>4. QED
  BY <1>2, <1>3

(* Every step keeps the failures behind the clock. *)
LEMMA StepFailures == TypeOK /\ Failures /\ [Next]_vars => Failures'
<1> SUFFICES ASSUME TypeOK, Failures, [Next]_vars PROVE Failures'
  OBVIOUS
<1>0. t \in Nat /\ snap.t \in Nat /\ failed \in SUBSET Nat /\ snap.failed \in SUBSET Nat
  BY ReportTypes
<1>1. ASSUME NEW d \in Driver, Call(d) PROVE Failures'
  BY <1>1 DEF Call, Failures, state
<1>2. CASE BeginStep
  <2>1. t' = t + 1 /\ scratch' = {} /\ UNCHANGED <<failed, snap>>
    BY <1>2 DEF BeginStep
  <2>2. snap.t <= t /\ \A n \in failed : n <= t
    BY DEF Failures
  <2>3. t + 1 \notin failed
    BY <1>0, <2>2
  <2>4. QED
    BY <1>0, <2>1, <2>2, <2>3 DEF Failures
<1>3. CASE SkipMech
  BY <1>3 DEF SkipMech, Failures, driver, state
<1>4. CASE Invoke
  BY <1>4 DEF Invoke, InPhase, Failures, driver
<1>5. CASE Fail
  <2>1. /\ snap.t < t /\ failed' = failed \union {t} /\ UNCHANGED <<t, snap>> /\ pc' = "idle"
    BY <1>5 DEF Fail, InPhase, Failures
  <2>2. {n \in failed' : n <= snap.t} = {n \in failed : n <= snap.t}
    BY <1>0, <2>1
  <2>3. QED
    BY <1>0, <2>1, <2>2 DEF Failures
<1>6. CASE NextPhase
  BY <1>6 DEF NextPhase, Failures, driver, state
<1>7. CASE EndStep
  BY <1>7 DEF EndStep, Failures, state
<1>8. CASE Return
  BY <1>8 DEF Return, Failures, state
<1>9. CASE TakeSnapshot
  <2>1. /\ snap'.t = t /\ snap'.failed = failed /\ UNCHANGED <<t, failed, pc>> /\ pc = "idle"
    BY <1>9 DEF TakeSnapshot, driver, state
  <2>2. failed = {n \in failed : n <= t}
    BY <1>0 DEF Failures
  <2>3. QED
    BY <1>0, <2>1, <2>2 DEF Failures
<1>10. CASE Restore
  <2>1. /\ t' = snap.t /\ failed' = snap.failed /\ snap' = snap /\ pc' = pc /\ pc = "idle"
    BY <1>10 DEF Restore, driver
  <2>2. \A n \in snap.failed : n <= snap.t
    BY DEF Failures
  <2>3. snap.failed = {n \in snap.failed : n <= snap.t}
    BY <2>2
  <2>4. QED
    BY <1>0, <2>1, <2>2, <2>3 DEF Failures
<1>11. CASE UNCHANGED vars
  BY <1>11 DEF vars, Failures, state, driver
<1>12. QED
  BY <1>1, <1>2, <1>3, <1>4, <1>5, <1>6, <1>7, <1>8, <1>9, <1>10, <1>11
     DEF Next, CallAny, Step

(* A report that continues a list of consecutive ones, none of which ended
   the run, and is of a step that did not fail, keeps the list exact. *)
LEMMA ReportsExactAppend ==
    ASSUME NEW rs \in Seq([t : Nat, stopped : BOOLEAN, tags : SUBSET Nat]),
           NEW r \in [t : Nat, stopped : BOOLEAN, tags : SUBSET Nat],
           NEW bad \in SUBSET Nat,
           \A i \in DOMAIN rs : /\ rs[i].stopped => i = Len(rs)
                                /\ i > 1 => rs[i].t = rs[i - 1].t + 1
                                /\ rs[i].t \notin bad
                                /\ rs[i].tags \subseteq {rs[i].t},
           rs # <<>> => ~rs[Len(rs)].stopped /\ r.t = rs[Len(rs)].t + 1,
           r.t \notin bad, r.tags \subseteq {r.t},
           NEW i \in DOMAIN Append(rs, r)
    PROVE  /\ Append(rs, r)[i].stopped => i = Len(Append(rs, r))
           /\ i > 1 => Append(rs, r)[i].t = Append(rs, r)[i - 1].t + 1
           /\ Append(rs, r)[i].t \notin bad
           /\ Append(rs, r)[i].tags \subseteq {Append(rs, r)[i].t}
<1> DEFINE R == [t : Nat, stopped : BOOLEAN, tags : SUBSET Nat]
<1>0. rs \in Seq(R) /\ r \in R
  OBVIOUS
<1> HIDE DEF R
<1>1. CASE i \in DOMAIN rs
  <2>1. Append(rs, r)[i] = rs[i] /\ (i > 1 => Append(rs, r)[i - 1] = rs[i - 1])
    BY <1>0, <1>1
  <2>2. i = Len(rs) => rs # <<>>
    BY <1>0, <1>1
  <2>3. ~rs[i].stopped
    BY <1>1, <2>2
  <2>4. QED
    BY <1>1, <2>1, <2>3
<1>2. CASE i = Len(rs) + 1
  <2>1. Append(rs, r)[i] = r /\ Len(Append(rs, r)) = i
    BY <1>0, <1>2
  <2>2. i > 1 => rs # <<>> /\ Append(rs, r)[i - 1] = rs[Len(rs)]
    BY <1>0, <1>2
  <2>3. QED
    BY <2>1, <2>2
<1>3. QED
  BY <1>0, <1>1, <1>2

(* Every step keeps the reports exact; only the end of a step adds one. *)
LEMMA StepReports == TypeOK /\ RInv /\ [Next]_vars => Reporting' /\ ReportsExact'
<1> SUFFICES ASSUME TypeOK, RInv, [Next]_vars PROVE Reporting' /\ ReportsExact'
  OBVIOUS
<1>0. /\ t \in Nat /\ snap.t \in Nat /\ stop \in BOOLEAN
      /\ failed \in SUBSET Nat /\ snap.failed \in SUBSET Nat
      /\ mode \in Driver \union {"idle"} /\ pc \in {"idle", "loop", "step"}
      /\ (pc = "idle") <=> (mode = "idle")
      /\ reports \in Seq([t : Nat, stopped : BOOLEAN, tags : SUBSET Nat])
  BY ReportTypes
<1>a. Failures /\ Reporting /\ ReportsExact
  BY DEF RInv
<1>1. ASSUME NEW d \in Driver, Call(d) PROVE Reporting' /\ ReportsExact'
  BY <1>1 DEF Call, Reporting, ReportsExact
<1>2. CASE BeginStep
  <2>1. /\ pc = "loop" /\ pc' = "step" /\ t' = t + 1 /\ UNCHANGED <<mode, reports, failed>>
    BY <1>2 DEF BeginStep
  <2>2. QED
    BY <1>0, <1>a, <2>1 DEF Reporting, Ended, ReportsExact
<1>3. CASE SkipMech
  BY <1>a, <1>3 DEF SkipMech, InPhase, Reporting, Ended, ReportsExact, driver, state
<1>4. CASE Invoke
  BY <1>a, <1>4 DEF Invoke, InPhase, Reporting, Ended, ReportsExact, driver
<1>5. CASE Fail
  <2>1. /\ pc = "step" /\ pc' = "idle" /\ reports' = reports /\ failed' = failed \union {t}
    BY <1>5 DEF Fail, InPhase
  <2>2. \A i \in DOMAIN reports : reports[i].t # t
    BY <1>0, <1>a, <2>1 DEF Reporting, Ended
  <2>3. QED
    BY <1>a, <2>1, <2>2 DEF Reporting, Ended, ReportsExact
<1>6. CASE NextPhase
  BY <1>a, <1>6 DEF NextPhase, Reporting, Ended, ReportsExact, driver, state
<1>7. CASE EndStep
  <2> DEFINE r == [t |-> t, stopped |-> stop, tags |-> scratch]
  <2>1. pc = "step" /\ UNCHANGED <<t, failed, stop, scratch>>
    BY <1>7 DEF EndStep, state
  <2>2. CASE mode # "observed"
    <3>1. reports' = reports /\ reports = <<>>
      BY <1>0, <1>a, <1>7, <2>1, <2>2 DEF EndStep, Reporting, Ended
    <3>2. QED
      BY <1>a, <2>1, <3>1 DEF Reporting, Ended, ReportsExact
  <2>3. CASE mode = "observed"
    <3>1. /\ reports' = Append(reports, r)
          /\ pc' = (IF stop THEN "idle" ELSE "loop")
          /\ mode' = (IF pc' = "idle" THEN "idle" ELSE mode)
      BY <1>7, <2>3 DEF EndStep
    <3>2. r \in [t : Nat, stopped : BOOLEAN, tags : SUBSET Nat]
      BY <1>0 DEF TypeOK
    <3>3. reports # <<>> => ~reports[Len(reports)].stopped /\ r.t = reports[Len(reports)].t + 1
      BY <1>0, <1>a, <2>1 DEF Reporting, Ended
    <3>4. r.t \notin failed /\ r.tags \subseteq {r.t}
      BY <1>a, <2>1 DEF Failures
    <3>5. r.stopped = stop /\ r.t = t
      OBVIOUS
    <3> HIDE DEF r
    <3>6. ReportsExact'
      BY <1>0, <1>a, <2>1, <3>1, <3>2, <3>3, <3>4, ReportsExactAppend DEF ReportsExact
    <3>7. Len(reports') = Len(reports) + 1 /\ reports'[Len(reports')] = r
      BY <1>0, <3>1, <3>2
    <3>8. \A i \in DOMAIN reports' : reports'[i].t <= t
      <4>1. \A i \in DOMAIN reports' : (i \in DOMAIN reports /\ reports'[i] = reports[i]) \/ reports'[i] = r
        BY <1>0, <3>1, <3>2
      <4>2. \A i \in DOMAIN reports : reports[i].t <= t
        BY <1>0, <1>a, <2>1, RowTypes DEF Reporting, Ended
      <4>3. QED
        BY <1>0, <3>5, <4>1, <4>2
    <3>8a. Reporting'
      BY <1>0, <2>1, <2>3, <3>1, <3>5, <3>7, <3>8 DEF Reporting, Ended
    <3>9. QED
      BY <3>6, <3>8a
  <2>4. QED
    BY <2>2, <2>3
<1>8. CASE Return
  BY <1>a, <1>8 DEF Return, Reporting, Ended, ReportsExact, state
<1>9. CASE TakeSnapshot
  BY <1>a, <1>9 DEF TakeSnapshot, Reporting, Ended, ReportsExact, driver, state
<1>10. CASE Restore
  <2>1. pc' = "idle" /\ reports' = reports /\ failed' \subseteq failed
    BY <1>a, <1>10 DEF Restore, driver, Failures
  <2>2. QED
    BY <1>a, <2>1 DEF Reporting, Ended, ReportsExact
<1>11. CASE UNCHANGED vars
  BY <1>a, <1>11 DEF vars, Reporting, Ended, ReportsExact, state, driver
<1>12. QED
  BY <1>1, <1>2, <1>3, <1>4, <1>5, <1>6, <1>7, <1>8, <1>9, <1>10, <1>11
     DEF Next, CallAny, Step

(* run_observed() reports each step that ended once, in order, the stopping
   one last, and never a failed one or a blackboard of an earlier step, for
   every registration, through failures, snapshots and restores. *)
THEOREM EngineReportsExact == Spec => []ReportsExact
<1>1. Init => RInv
  BY DEF Init, RInv, Failures, Reporting, ReportsExact
<1>2. TypeOK /\ RInv /\ [Next]_vars => RInv'
  BY StepFailures, StepReports DEF RInv
<1>3. RInv => ReportsExact
  BY DEF RInv
<1>4. QED
  BY EngineTypeOK, <1>1, <1>2, <1>3, PTL DEF Spec
=============================================================================
