--------------------------- MODULE ExecutorProofs ---------------------------
(***************************************************************************)
(* The threaded executor, for any number of requests, workers, retries and *)
(* any timeout, with backends that fail, panic or never answer: a request  *)
(* is handed out once, its outcome is its own, the pool keeps its size,    *)
(* and every step is one that Batch allows.                                *)
(***************************************************************************)
EXTENDS LlmExecutor, TLAPS, FiniteSetTheorems

Event == Started \union Finished
Busy  == {"call", "backoff", "answer"}
State == Busy \union {"recv", "check", "dead"}

TypeOK ==
    /\ pc \in {"pump", "wait", "sweep", "done"}
    /\ pending \in Seq(Keys) /\ jobs \in Seq(Keys)
    /\ events \in Seq(Event)
    /\ active \in [Keys -> Thread \union {0}]
    /\ results \in [Keys -> Outcomes \union {NoAnswer}]
    /\ spawned \in Nat /\ stops \subseteq Thread
    /\ ws \in [Thread -> [st : State, key : Keys \union {0}, retries : Nat, res : Outcomes \union {NoAnswer}]]
    /\ age \in [Keys -> Nat]
    /\ sent \in [Keys -> Finished \union {NoAnswer}]

(* No request is twice in the two queues. *)
Distinct(s) == \A i, j \in 1..Len(s) : s[i] = s[j] => i = j
Queues ==
    /\ Distinct(pending) /\ Distinct(jobs)
    /\ \A i \in 1..Len(pending), j \in 1..Len(jobs) : pending[i] # jobs[j]
    /\ Len(jobs) <= Capacity

(* Nobody has heard of a request that is still in a queue. *)
In(k, s) == \E i \in 1..Len(s) : s[i] = k
Unheard(k) ==
    /\ results[k] = NoAnswer /\ sent[k] = NoAnswer /\ active[k] = 0
    /\ \A w \in Thread : ws[w].key # k
    /\ \A i \in 1..Len(events) : events[i].key # k
Untouched == \A k \in Keys : In(k, pending) \/ In(k, jobs) => Unheard(k)

(* A request has one worker, which has not answered it while busy with it. *)
OneWorker == \A v, w \in Thread : ws[v].key = ws[w].key /\ ws[v].key # 0 => v = w
Working ==
    \A w \in Thread : ws[w].st \in Busy =>
        ws[w].key \in Keys /\ ws[w].res \in Outcomes /\ sent[ws[w].key] = NoAnswer

(* The channel tells what was sent. *)
TrueEvents == \A i \in 1..Len(events) : events[i].kind = "finished" => events[i] = sent[events[i].key]

(* Only open requests have a deadline. *)
ActiveOpen == \A k \in Keys : active[k] # 0 => results[k] = NoAnswer

(* Each stop flag has been paid for with a thread. *)
Paid == ~Complete(results) => Cardinality(stops) + Workers <= spawned

IInv ==
    /\ TypeOK /\ Queues /\ Untouched /\ OneWorker /\ Working
    /\ TrueEvents /\ ActiveOpen /\ Paid /\ OwnAnswer

USE ExecutorAssumption, NoAnswerAssumption

-----------------------------------------------------------------------------
(* What taking from and adding to a sequence does to its elements. *)
LEMMA TakeOne ==
    ASSUME NEW S, NEW s \in Seq(S), s # <<>>
    PROVE  /\ Len(s) \in Nat /\ Len(s) >= 1 /\ Head(s) = s[1] /\ Head(s) \in S
           /\ Tail(s) \in Seq(S) /\ Len(Tail(s)) = Len(s) - 1
           /\ \A i \in 1..Len(Tail(s)) : Tail(s)[i] = s[i + 1] /\ i + 1 \in 1..Len(s)
OBVIOUS

LEMMA AddOne ==
    ASSUME NEW S, NEW s \in Seq(S), NEW x \in S
    PROVE  /\ Append(s, x) \in Seq(S) /\ Len(s) \in Nat /\ Len(Append(s, x)) = Len(s) + 1
           /\ \A i \in 1..Len(s) : Append(s, x)[i] = s[i]
           /\ Append(s, x)[Len(s) + 1] = x
OBVIOUS

(* Requests are positive numbers, and so are threads. *)
LEMMA Numbers ==
    /\ Cardinality(Keys) \in Nat /\ Keys \subseteq Nat \ {0}
    /\ Thread \subseteq Nat \ {0} /\ IsFiniteSet(Thread)
<1>1. Cardinality(Keys) \in Nat
  BY FS_CardinalityType
<1>2. Keys \subseteq Nat \ {0}
  BY <1>1
<1>3. IsFiniteSet(1..(Workers + Cardinality(Keys)))
  BY <1>1, FS_Interval
<1>4. QED
  BY <1>1, <1>2, <1>3 DEF Thread

HIDE DEF Started, Finished
(* An event is of one kind, from one worker, about one request. *)
LEMMA EventFacts ==
    ASSUME NEW e \in Event
    PROVE  /\ e.worker \in Thread /\ e.key \in Keys
           /\ e.kind = "finished" => e \in Finished /\ e.at \in Nat /\ e.res \in Outcomes
BY DEF Event, Started, Finished

LEMMA InitIInv == Init => IInv
<1>1. SUFFICES ASSUME Init PROVE IInv
  OBVIOUS
<1>2. pending \in Seq(Keys) /\ Len(pending) = Cardinality(Keys) /\ \A i \in 1..Len(pending) : pending[i] = i
  <2>1. pending = [i \in 1..Cardinality(Keys) |-> i] /\ Cardinality(Keys) \in Nat
    BY <1>1, Numbers DEF Init
  <2>2. pending \in [1..Cardinality(Keys) -> Keys]
    BY <2>1
  <2>3. QED
    BY <2>1, <2>2
<1>3. TypeOK
  BY <1>1, <1>2, Numbers DEF Init, TypeOK, State
<1>4. Queues
  BY <1>1, <1>2, Numbers DEF Init, Queues, Distinct, Capacity
<1>5. Untouched
  BY <1>1, Numbers DEF Init, Untouched, Unheard
<1>6. OneWorker /\ Working /\ TrueEvents /\ ActiveOpen
  BY <1>1 DEF Init, OneWorker, Working, Busy, TrueEvents, ActiveOpen
<1>7. Paid
  BY <1>1, FS_EmptySet DEF Init, Paid
<1>8. OwnAnswer
  BY <1>1, NoAnswerAssumption DEF Init, OwnAnswer, Outcomes
<1>9. QED
  BY <1>3, <1>4, <1>5, <1>6, <1>7, <1>8 DEF IInv

-----------------------------------------------------------------------------
(* Types *)

(* A worker changes its own state only, to one of its type. *)
WorkerState == [st : State, key : Keys \union {0}, retries : Nat, res : Outcomes \union {NoAnswer}]
LEMMA MainType ==
    ASSUME TypeOK, Main
    PROVE  TypeOK'
<1>1. ASSUME Pump PROVE TypeOK'
  <2>1. CASE pending # <<>> /\ Len(jobs) < Capacity
    <3>1. Tail(pending) \in Seq(Keys) /\ Append(jobs, Head(pending)) \in Seq(Keys)
      BY <2>1, TakeOne, AddOne DEF TypeOK
    <3>2. QED
      BY <1>1, <2>1, <3>1 DEF TypeOK, Pump
  <2>2. CASE ~(pending # <<>> /\ Len(jobs) < Capacity)
    BY <1>1, <2>2 DEF TypeOK, Pump
  <2>3. QED
    BY <2>1, <2>2
<1>2. ASSUME WaitTimesOut PROVE TypeOK'
  BY <1>2 DEF TypeOK, WaitTimesOut
<1>3. ASSUME OnStarted PROVE TypeOK'
  <2>1. events # <<>> /\ Head(events) \in Event /\ Tail(events) \in Seq(Event)
    BY <1>3, TakeOne DEF TypeOK, OnStarted
  <2>2. Head(events).worker \in Thread /\ Head(events).key \in Keys
    BY <2>1, EventFacts
  <2>3. active' \in [Keys -> Thread \union {0}]
    BY <1>3, <2>2 DEF TypeOK, OnStarted
  <2>4. QED
    BY <1>3, <2>1, <2>3 DEF TypeOK, OnStarted
<1>4. ASSUME OnFinished PROVE TypeOK'
  <2>1. events # <<>> /\ Head(events) \in Event /\ Tail(events) \in Seq(Event)
    BY <1>4, TakeOne DEF TypeOK, OnFinished
  <2>2. Head(events).worker \in Thread /\ Head(events).key \in Keys /\ Head(events).res \in Outcomes
    BY <1>4, <2>1, EventFacts DEF OnFinished
  <2>3. active' \in [Keys -> Thread \union {0}]
    BY <1>4, <2>2 DEF TypeOK, OnFinished
  <2>4. results' \in [Keys -> Outcomes \union {NoAnswer}]
    BY <1>4, <2>2 DEF TypeOK, OnFinished, Outcomes
  <2>5. stops' \subseteq Thread /\ spawned' \in Nat
    BY <1>4, <2>2 DEF TypeOK, OnFinished
  <2>6. QED
    BY <1>4, <2>1, <2>3, <2>4, <2>5 DEF TypeOK, OnFinished
<1>5. ASSUME Sweep PROVE TypeOK'
  <2> DEFINE T == {k \in Keys : Expired(k)}
             done == [k \in Keys |-> IF k \in T THEN "timeout" ELSE results[k]]
  <2>1. IsFiniteSet(T) /\ Cardinality(T) \in Nat /\ (T # {} => Cardinality(T) >= 1)
    BY FS_Subset, FS_CardinalityType, FS_EmptySet
  <2>2. spawned' \in Nat
    <3>1. spawned' = spawned + (IF T # {} /\ Complete(done) THEN Cardinality(T) - 1 ELSE Cardinality(T))
      BY <1>5 DEF Sweep
    <3>2. spawned \in Nat
      BY DEF TypeOK
    <3> DEFINE n == Cardinality(T)
    <3>3. n \in Nat /\ (T # {} => n >= 1)
      BY <2>1
    <3>4. (T # {} /\ Complete(done)) => spawned + (n - 1) \in Nat
      <4> HIDE DEF n, T, done
      <4> QED BY <3>2, <3>3
    <3>5. spawned + n \in Nat
      <4> HIDE DEF n
      <4> QED BY <3>2, <3>3
    <3>6. QED
      BY <3>1, <3>4, <3>5
  <2>3. results' \in [Keys -> Outcomes \union {NoAnswer}]
    BY <1>5 DEF TypeOK, Sweep, Outcomes
  <2>4. active' \in [Keys -> Thread \union {0}]
    BY <1>5 DEF TypeOK, Sweep
  <2>5. stops' \subseteq Thread
    BY <1>5 DEF TypeOK, Sweep, Expired
  <2>6. pc' \in {"done", "pump"} /\ UNCHANGED <<pending, jobs, events, ws, age, sent>>
    BY <1>5 DEF Sweep
  <2>7. QED
    BY <2>2, <2>3, <2>4, <2>5, <2>6 DEF TypeOK
<1>6. QED
  BY <1>1, <1>2, <1>3, <1>4, <1>5 DEF Main

LEMMA WorkerType ==
    ASSUME TypeOK, Queues, Working, NEW w \in Thread, Worker(w)
    PROVE  TypeOK'
<1>1. ws[w] \in WorkerState
  BY DEF TypeOK, WorkerState
<1>2. ASSUME Take(w) PROVE TypeOK'
  <2>1. jobs # <<>> /\ Head(jobs) \in Keys /\ Tail(jobs) \in Seq(Keys)
    BY <1>2, TakeOne DEF TypeOK, Take
  <2>2. [kind |-> "started", worker |-> w, key |-> Head(jobs)] \in Event
    BY <2>1 DEF Event, Started
  <2>3. events' \in Seq(Event)
    BY <1>2, <2>2, AddOne DEF TypeOK, Take
  <2>4. ws' \in [Thread -> WorkerState]
    BY <1>2, <2>1 DEF TypeOK, Take, WorkerState, State, Busy, Outcomes
  <2>5. QED
    BY <1>2, <2>1, <2>3, <2>4 DEF TypeOK, Take, WorkerState, main
<1>3. ASSUME Finish(w) PROVE TypeOK'
  <2> DEFINE e == [kind |-> "finished", worker |-> w, key |-> ws[w].key, at |-> age[ws[w].key], res |-> ws[w].res]
  <2>1. ws[w].key \in Keys /\ ws[w].res \in Outcomes
    BY <1>3 DEF Working, Finish, Busy
  <2>2. e \in Finished
    BY <2>1 DEF Finished, TypeOK
  <2>3. events' = Append(events, e) /\ sent' = [sent EXCEPT ![ws[w].key] = e]
    BY <1>3 DEF Finish
  <2>4. events' \in Seq(Event)
    BY <2>2, <2>3, AddOne DEF TypeOK, Event
  <2>5. sent' \in [Keys -> Finished \union {NoAnswer}]
    BY <2>1, <2>2, <2>3 DEF TypeOK
  <2>6. ws' \in [Thread -> WorkerState]
    BY <1>1, <1>3 DEF TypeOK, Finish, Goto, Becomes, WorkerState, State
  <2>7. QED
    BY <1>3, <2>4, <2>5, <2>6 DEF TypeOK, Finish, WorkerState, main
<1>4. ASSUME CallOk(w) \/ CallErr(w) \/ Retry(w) \/ Check(w) \/ Panic(w) \/ Hangup(w) PROVE TypeOK'
  <2>1. \E s \in State, n \in Nat, r \in Outcomes \union {NoAnswer} : Becomes(w, s, n, r)
    BY <1>1, <1>4 DEF CallOk, CallErr, Retry, Check, Panic, Hangup, Goto, Answers, WorkerState, State, Busy, Outcomes
  <2>2. ws' \in [Thread -> WorkerState]
    BY <1>1, <2>1 DEF TypeOK, Becomes, WorkerState
  <2>3. UNCHANGED <<main, jobs, events, age, sent>>
    BY <1>4 DEF CallOk, CallErr, Retry, Check, Panic, Hangup
  <2>4. QED
    BY <2>2, <2>3 DEF TypeOK, WorkerState, main
<1>5. QED
  BY <1>2, <1>3, <1>4 DEF Worker

LEMMA TickType == TypeOK /\ Tick => TypeOK'
BY DEF TypeOK, Tick, main

-----------------------------------------------------------------------------
(* The queues and the workers *)

(* The steps of a worker between taking a request and answering it, and after. *)
Quietly(w) == CallOk(w) \/ CallErr(w) \/ Retry(w) \/ Check(w) \/ Panic(w) \/ Hangup(w)

(* They touch nothing but that worker, which keeps its request and is not busier than it was. *)
LEMMA QuietFacts ==
    ASSUME TypeOK, Working, NEW w \in Thread, Quietly(w)
    PROVE  /\ UNCHANGED <<main, jobs, events, age, sent>>
           /\ \A v \in Thread : ws'[v].key = ws[v].key /\ (v # w => ws'[v] = ws[v])
           /\ ws'[w].st \in Busy => ws[w].st \in Busy /\ ws'[w].res \in Outcomes
<1>1. ws[w] \in WorkerState
  BY DEF TypeOK, WorkerState
<1>2. \E s \in State, n \in Nat, r \in Outcomes \union {NoAnswer} :
         Becomes(w, s, n, r) /\ (s \in Busy => ws[w].st \in Busy /\ r \in Outcomes)
  BY <1>1 DEF Quietly, Working, CallOk, CallErr, Retry, Check, Panic, Hangup, Goto, Answers, WorkerState, State, Busy, Outcomes
<1>3. PICK s \in State, n \in Nat, r \in Outcomes \union {NoAnswer} :
         Becomes(w, s, n, r) /\ (s \in Busy => ws[w].st \in Busy /\ r \in Outcomes)
  BY <1>2
<1>4. ws'[w] = [st |-> s, key |-> ws[w].key, retries |-> n, res |-> r] /\ \A v \in Thread : v # w => ws'[v] = ws[v]
  BY <1>3 DEF TypeOK, Becomes
<1>5. UNCHANGED <<main, jobs, events, age, sent>>
  BY DEF Quietly, CallOk, CallErr, Retry, Check, Panic, Hangup
<1>6. QED
  BY <1>3, <1>4, <1>5

(* A worker's step is one of three: it takes, it answers, or it goes quietly on. *)
LEMMA WorkerSteps ==
    ASSUME NEW w \in Thread, Worker(w)
    PROVE  Take(w) \/ Finish(w) \/ Quietly(w)
BY DEF Worker, Quietly

(* Taking the first of a distinct sequence leaves a distinct one without it. *)
LEMMA DistinctTail ==
    ASSUME NEW s \in Seq(Keys), s # <<>>, Distinct(s)
    PROVE  /\ Distinct(Tail(s)) /\ In(Head(s), s) /\ ~In(Head(s), Tail(s))
           /\ \A k \in Keys : In(k, Tail(s)) => In(k, s)
<1>1. /\ Len(s) \in Nat /\ Len(s) >= 1 /\ Head(s) = s[1] /\ Len(Tail(s)) = Len(s) - 1
      /\ \A i \in 1..Len(Tail(s)) : Tail(s)[i] = s[i + 1] /\ i + 1 \in 1..Len(s)
  BY TakeOne
<1>2. Distinct(Tail(s))
  BY <1>1 DEF Distinct
<1>3. ~In(Head(s), Tail(s))
  BY <1>1 DEF Distinct, In
<1>4. QED
  BY <1>1, <1>2, <1>3 DEF In

(* Adding one that is not there keeps a sequence distinct. *)
LEMMA DistinctAppend ==
    ASSUME NEW s \in Seq(Keys), NEW x \in Keys, Distinct(s), ~In(x, s)
    PROVE  /\ Distinct(Append(s, x))
           /\ \A k \in Keys : In(k, Append(s, x)) <=> In(k, s) \/ k = x
<1>1. /\ Len(s) \in Nat /\ Len(Append(s, x)) = Len(s) + 1 /\ Append(s, x)[Len(s) + 1] = x
      /\ \A i \in 1..Len(s) : Append(s, x)[i] = s[i]
  BY AddOne
<1>2. Distinct(Append(s, x))
  BY <1>1 DEF Distinct, In
<1>3. QED
  BY <1>1, <1>2 DEF In

(* What the pump does to the queues. *)
LEMMA PumpQueues ==
    ASSUME TypeOK, Queues, Pump
    PROVE  Queues' /\ \A k \in Keys : In(k, pending)' \/ In(k, jobs)' => In(k, pending) \/ In(k, jobs)
<1>1. CASE pending # <<>> /\ Len(jobs) < Capacity
  <2> DEFINE h == Head(pending)
  <2>1. pending' = Tail(pending) /\ jobs' = Append(jobs, h) /\ h \in Keys
    BY <1>1, TakeOne DEF Pump, TypeOK
  <2>2. Distinct(pending') /\ ~In(h, pending') /\ In(h, pending) /\ \A k \in Keys : In(k, pending') => In(k, pending)
    BY <1>1, <2>1, DistinctTail DEF TypeOK, Queues
  <2>3. ~In(h, jobs)
    BY <2>2 DEF Queues, In
  <2>4. Distinct(jobs') /\ \A k \in Keys : In(k, jobs') <=> In(k, jobs) \/ k = h
    BY <2>1, <2>3, DistinctAppend DEF TypeOK, Queues
  <2>5. Len(jobs') <= Capacity
    <3>1. Len(jobs') = Len(jobs) + 1 /\ Len(jobs) \in Nat
      BY <2>1, AddOne DEF TypeOK
    <3>2. Capacity \in Nat
      BY DEF Capacity
    <3>3. QED
      BY <1>1, <3>1, <3>2
  <2>6. \A i \in 1..Len(pending'), j \in 1..Len(jobs') : pending'[i] # jobs'[j]
    <3>1. SUFFICES ASSUME NEW i \in 1..Len(pending'), NEW j \in 1..Len(jobs'), pending'[i] = jobs'[j] PROVE FALSE
      OBVIOUS
    <3>2. pending'[i] \in Keys
      BY <1>1, <2>1, TakeOne DEF TypeOK
    <3>3. In(pending'[i], pending') /\ In(pending'[i], jobs')
      BY <3>1 DEF In
    <3>4. In(pending'[i], pending) /\ pending'[i] # h
      BY <2>2, <3>2, <3>3
    <3>5. In(pending'[i], jobs)
      BY <2>4, <3>2, <3>3, <3>4
    <3>6. QED
      BY <3>4, <3>5 DEF In, Queues
  <2>7. QED
    BY <2>2, <2>4, <2>5, <2>6 DEF Queues, In, Distinct
<1>2. CASE ~(pending # <<>> /\ Len(jobs) < Capacity)
  <2>1. UNCHANGED <<pending, jobs>>
    BY <1>2 DEF Pump
  <2>2. QED
    BY <2>1 DEF Queues, Distinct, In
<1>3. QED
  BY <1>1, <1>2

(* What a worker that takes a request does to the queues. *)
LEMMA TakeQueues ==
    ASSUME TypeOK, Queues, NEW w \in Thread, Take(w)
    PROVE  /\ Queues' /\ Head(jobs) \in Keys /\ In(Head(jobs), jobs)
           /\ \A k \in Keys : In(k, pending)' \/ In(k, jobs)' => (In(k, pending) \/ In(k, jobs)) /\ k # Head(jobs)
<1>1. jobs # <<>> /\ jobs' = Tail(jobs) /\ pending' = pending
  BY DEF Take, main
<1>2. Head(jobs) \in Keys
  BY <1>1, TakeOne DEF TypeOK
<1>3. /\ Distinct(jobs') /\ In(Head(jobs), jobs) /\ ~In(Head(jobs), jobs')
      /\ \A k \in Keys : In(k, jobs') => In(k, jobs)
  BY <1>1, DistinctTail DEF TypeOK, Queues
<1>4. ~In(Head(jobs), pending)
  BY <1>3 DEF Queues, In
<1>5. Len(jobs') <= Capacity
  <2>1. Len(jobs) \in Nat /\ Len(jobs') = Len(jobs) - 1 /\ Capacity \in Nat
    BY <1>1, TakeOne DEF TypeOK, Capacity
  <2>2. QED
    BY <2>1 DEF Queues
<1>6. \A i \in 1..Len(pending'), j \in 1..Len(jobs') : pending'[i] # jobs'[j]
  <2>1. \A j \in 1..Len(jobs') : jobs'[j] = jobs[j + 1] /\ j + 1 \in 1..Len(jobs)
    BY <1>1, TakeOne DEF TypeOK
  <2>2. QED
    BY <1>1, <2>1 DEF Queues
<1>7. QED
  BY <1>1, <1>2, <1>3, <1>4, <1>5, <1>6 DEF Queues, In, Distinct

-----------------------------------------------------------------------------
(* Each part of the invariant, step by step *)

LEMMA QueuesStep ==
    ASSUME IInv, [Next]_vars
    PROVE  Queues'
<1>1. ASSUME UNCHANGED <<pending, jobs>> PROVE Queues'
  BY <1>1 DEF IInv, Queues, Distinct
<1>2. CASE Pump
  BY <1>2, PumpQueues DEF IInv
<1>3. CASE WaitTimesOut \/ OnStarted \/ OnFinished \/ Sweep \/ Tick \/ UNCHANGED vars
  BY <1>1, <1>3 DEF WaitTimesOut, OnStarted, OnFinished, Sweep, Tick, vars, main
<1>4. ASSUME NEW w \in Thread, Worker(w) PROVE Queues'
  <2>1. CASE Take(w)
    BY <2>1, TakeQueues DEF IInv
  <2>2. CASE Finish(w)
    BY <1>1, <2>2 DEF Finish, main
  <2>3. CASE Quietly(w)
    BY <1>1, <2>3, QuietFacts DEF IInv, main
  <2>4. QED
    BY <1>4, <2>1, <2>2, <2>3, WorkerSteps
<1>5. QED
  BY <1>2, <1>3, <1>4 DEF Next, Main

(* An event leaves the channel; the others stay in it. *)
LEMMA NextEvent ==
    ASSUME TypeOK, events # <<>>, events' = Tail(events)
    PROVE  /\ Head(events) \in Event /\ Len(events) >= 1 /\ Len(events) \in Nat /\ Head(events) = events[1]
           /\ \A i \in 1..Len(events') : events'[i] = events[i + 1] /\ i + 1 \in 1..Len(events)
BY TakeOne DEF TypeOK

LEMMA UntouchedStep ==
    ASSUME IInv, [Next]_vars
    PROVE  Untouched'
<1>1. SUFFICES ASSUME NEW k \in Keys, In(k, pending)' \/ In(k, jobs)' PROVE Unheard(k)'
  BY DEF Untouched
<1>2. ASSUME UNCHANGED <<pending, jobs>> PROVE Unheard(k)
  BY <1>1, <1>2 DEF IInv, Untouched, In
<1>3. CASE Pump
  <2>1. In(k, pending) \/ In(k, jobs)
    BY <1>1, <1>3, PumpQueues DEF IInv
  <2>2. QED
    BY <1>3, <2>1 DEF IInv, Untouched, Unheard, Pump
<1>4. CASE WaitTimesOut \/ Tick \/ UNCHANGED vars
  <2>1. UNCHANGED <<pending, jobs, results, sent, active, ws, events>>
    BY <1>4 DEF WaitTimesOut, Tick, vars, main
  <2>2. QED
    BY <1>2, <2>1 DEF Unheard
<1>5. CASE OnStarted
  <2>1. Unheard(k) /\ events # <<>> /\ events' = Tail(events) /\ UNCHANGED <<results, sent, ws>>
    BY <1>2, <1>5 DEF OnStarted
  <2>2. Head(events).key # k
    BY <2>1, NextEvent DEF IInv, Unheard
  <2>3. active'[k] = 0
    BY <1>5, <2>1, <2>2 DEF OnStarted, IInv, TypeOK, Unheard
  <2>4. \A i \in 1..Len(events') : events'[i].key # k
    BY <2>1, NextEvent DEF IInv, Unheard
  <2>5. QED
    BY <2>1, <2>3, <2>4 DEF Unheard
<1>6. CASE OnFinished
  <2>1. Unheard(k) /\ events # <<>> /\ events' = Tail(events) /\ UNCHANGED <<sent, ws>>
    BY <1>2, <1>6 DEF OnFinished
  <2>2. Head(events).key # k
    BY <2>1, NextEvent DEF IInv, Unheard
  <2>3. active'[k] = 0
    BY <1>6, <2>1, <2>2 DEF OnFinished, IInv, TypeOK, Unheard
  <2>4. results'[k] = NoAnswer
    BY <1>6, <2>1, <2>2 DEF OnFinished, IInv, TypeOK, Unheard
  <2>5. \A i \in 1..Len(events') : events'[i].key # k
    BY <2>1, NextEvent DEF IInv, Unheard
  <2>6. QED
    BY <2>1, <2>3, <2>4, <2>5 DEF Unheard
<1>7. CASE Sweep
  <2>1. Unheard(k) /\ UNCHANGED <<sent, ws, events>>
    BY <1>2, <1>7 DEF Sweep
  <2>2. active'[k] = 0 /\ results'[k] = NoAnswer
    BY <1>7, <2>1 DEF Sweep, Unheard, Expired
  <2>3. QED
    BY <2>1, <2>2 DEF Unheard
<1>8. ASSUME NEW w \in Thread, Worker(w) PROVE Unheard(k)'
  <2>1. CASE Take(w)
    <3>1. Unheard(k) /\ k # Head(jobs) /\ Head(jobs) \in Keys
      BY <1>1, <2>1, TakeQueues DEF IInv, Untouched
    <3>2. UNCHANGED <<results, sent, active>> /\ \A v \in Thread : ws'[v].key = IF v = w THEN Head(jobs) ELSE ws[v].key
      BY <2>1 DEF Take, main, IInv, TypeOK
    <3> DEFINE e == [kind |-> "started", worker |-> w, key |-> Head(jobs)]
    <3>3. e \in Event /\ events' = Append(events, e) /\ e.key # k
      BY <2>1, <3>1 DEF Take, Event, Started
    <3>4. \A i \in 1..Len(events') : events'[i].key # k
      <4> HIDE DEF e
      <4>1. /\ Len(events) \in Nat /\ Len(events') = Len(events) + 1 /\ events'[Len(events) + 1] = e
            /\ \A i \in 1..Len(events) : events'[i] = events[i]
        BY <3>3, AddOne DEF IInv, TypeOK
      <4>2. QED
        BY <3>1, <3>3, <4>1 DEF Unheard
    <3>5. QED
      BY <3>1, <3>2, <3>4 DEF Unheard
  <2>2. CASE Finish(w)
    <3>1. Unheard(k) /\ ws[w].key # k /\ ws[w].key \in Keys
      BY <1>2, <2>2 DEF Finish, main, Unheard, IInv, Working, Busy
    <3> DEFINE e == [kind |-> "finished", worker |-> w, key |-> ws[w].key, at |-> age[ws[w].key], res |-> ws[w].res]
    <3>2. e \in Event /\ e.key # k
      BY <2>2, <3>1 DEF Event, Finished, IInv, TypeOK, Working, Finish, Busy
    <3>3. events' = Append(events, e) /\ sent' = [sent EXCEPT ![ws[w].key] = e] /\ UNCHANGED <<results, active>>
      BY <2>2 DEF Finish, main
    <3>4. \A v \in Thread : ws'[v].key = ws[v].key
      BY <2>2 DEF Finish, Goto, Becomes, IInv, TypeOK
    <3>5. \A i \in 1..Len(events') : events'[i].key # k
      <4> HIDE DEF e
      <4>1. /\ Len(events) \in Nat /\ Len(events') = Len(events) + 1 /\ events'[Len(events) + 1] = e
            /\ \A i \in 1..Len(events) : events'[i] = events[i]
        BY <3>2, <3>3, AddOne DEF IInv, TypeOK
      <4>2. QED
        BY <3>1, <3>2, <4>1 DEF Unheard
    <3>6. sent'[k] = NoAnswer
      <4> HIDE DEF e
      <4>1. QED
        BY <3>1, <3>3 DEF Unheard, IInv, TypeOK
    <3>7. QED
      BY <3>1, <3>3, <3>4, <3>5, <3>6 DEF Unheard
  <2>3. CASE Quietly(w)
    <3>1. UNCHANGED <<main, jobs, events, age, sent>> /\ \A v \in Thread : ws'[v].key = ws[v].key
      BY <2>3, QuietFacts DEF IInv
    <3>2. QED
      BY <1>2, <3>1 DEF Unheard, main
  <2>4. QED
    BY <1>8, <2>1, <2>2, <2>3, WorkerSteps
<1>9. QED
  BY <1>3, <1>4, <1>5, <1>6, <1>7, <1>8 DEF Next, Main

LEMMA OneWorkerStep ==
    ASSUME IInv, [Next]_vars
    PROVE  OneWorker'
<1>1. ASSUME \A v \in Thread : ws'[v].key = ws[v].key PROVE OneWorker'
  BY <1>1 DEF IInv, OneWorker
<1>2. CASE Main \/ Tick \/ UNCHANGED vars
  BY <1>1, <1>2 DEF Main, Pump, WaitTimesOut, OnStarted, OnFinished, Sweep, Tick, vars
<1>3. ASSUME NEW w \in Thread, Worker(w) PROVE OneWorker'
  <2>1. CASE Take(w)
    <3>1. \A v \in Thread : ws[v].key # Head(jobs)
      BY <2>1, TakeQueues DEF IInv, Untouched, Unheard
    <3>2. \A v \in Thread : ws'[v].key = IF v = w THEN Head(jobs) ELSE ws[v].key
      BY <2>1 DEF Take, IInv, TypeOK
    <3>3. QED
      BY <3>1, <3>2 DEF IInv, OneWorker
  <2>2. CASE Finish(w)
    BY <1>1, <2>2 DEF Finish, Goto, Becomes, IInv, TypeOK
  <2>3. CASE Quietly(w)
    BY <1>1, <2>3, QuietFacts DEF IInv
  <2>4. QED
    BY <1>3, <2>1, <2>2, <2>3, WorkerSteps
<1>4. QED
  BY <1>2, <1>3 DEF Next

LEMMA WorkingStep ==
    ASSUME IInv, [Next]_vars
    PROVE  Working'
<1>1. CASE Main \/ Tick \/ UNCHANGED vars
  <2>1. UNCHANGED <<ws, sent>>
    BY <1>1 DEF Main, Pump, WaitTimesOut, OnStarted, OnFinished, Sweep, Tick, vars
  <2>2. QED
    BY <2>1 DEF IInv, Working
<1>2. ASSUME NEW w \in Thread, Worker(w) PROVE Working'
  <2>1. SUFFICES ASSUME NEW v \in Thread, ws'[v].st \in Busy
                 PROVE  ws'[v].key \in Keys /\ ws'[v].res \in Outcomes /\ sent'[ws'[v].key] = NoAnswer
    BY DEF Working
  <2>2. CASE Take(w)
    <3>1. Head(jobs) \in Keys /\ sent[Head(jobs)] = NoAnswer /\ sent' = sent
      BY <2>2, TakeQueues DEF IInv, Untouched, Unheard, Take
    <3>2. IF v = w THEN ws'[v].key = Head(jobs) /\ ws'[v].res = "backend" ELSE ws'[v] = ws[v]
      BY <2>2 DEF Take, IInv, TypeOK
    <3>3. QED
      BY <2>1, <3>1, <3>2 DEF IInv, Working, Outcomes
  <2>3. CASE Finish(w)
    <3>1. ws[w].key \in Keys /\ ws'[w].st = "check" /\ \A u \in Thread : u # w => ws'[u] = ws[u]
      BY <2>3 DEF Finish, Goto, Becomes, IInv, TypeOK, Working, Busy
    <3>2. v # w /\ ws'[v] = ws[v] /\ ws[v].key \in Keys
      BY <2>1, <3>1 DEF Busy, IInv, Working
    <3>3. ws[v].key # ws[w].key
      BY <3>1, <3>2, Numbers DEF IInv, OneWorker
    <3>4. sent'[ws[v].key] = sent[ws[v].key]
      BY <2>3, <3>2, <3>3 DEF Finish, IInv, TypeOK
    <3>5. QED
      BY <2>1, <3>2, <3>4 DEF IInv, Working
  <2>4. CASE Quietly(w)
    BY <2>1, <2>4, QuietFacts DEF IInv, Working
  <2>5. QED
    BY <1>2, <2>2, <2>3, <2>4, WorkerSteps
<1>3. QED
  BY <1>1, <1>2 DEF Next

LEMMA TrueEventsStep ==
    ASSUME IInv, [Next]_vars
    PROVE  TrueEvents'
<1>1. CASE Pump \/ WaitTimesOut \/ Sweep \/ Tick \/ UNCHANGED vars
  <2>1. UNCHANGED <<events, sent>>
    BY <1>1 DEF Pump, WaitTimesOut, Sweep, Tick, vars
  <2>2. QED
    BY <2>1 DEF IInv, TrueEvents
<1>2. CASE OnStarted \/ OnFinished
  <2>1. events # <<>> /\ events' = Tail(events) /\ sent' = sent
    BY <1>2 DEF OnStarted, OnFinished
  <2>2. QED
    BY <2>1, NextEvent DEF IInv, TrueEvents
<1>3. ASSUME NEW w \in Thread, Worker(w) PROVE TrueEvents'
  <2>1. CASE Take(w)
    <3> DEFINE e == [kind |-> "started", worker |-> w, key |-> Head(jobs)]
    <3>1. e \in Event /\ e.kind # "finished" /\ events' = Append(events, e) /\ sent' = sent
      BY <2>1, TakeQueues DEF IInv, Take, Event, Started
    <3> HIDE DEF e
    <3>2. /\ Len(events) \in Nat /\ Len(events') = Len(events) + 1 /\ events'[Len(events) + 1] = e
          /\ \A i \in 1..Len(events) : events'[i] = events[i]
      BY <3>1, AddOne DEF IInv, TypeOK
    <3>3. QED
      BY <3>1, <3>2 DEF IInv, TrueEvents
  <2>2. CASE Finish(w)
    <3> DEFINE k == ws[w].key
               e == [kind |-> "finished", worker |-> w, key |-> k, at |-> age[k], res |-> ws[w].res]
    <3>1. k \in Keys /\ sent[k] = NoAnswer
      BY <2>2 DEF IInv, Working, Finish, Busy
    <3>2. e \in Event /\ e.key = k /\ events' = Append(events, e) /\ sent' = [sent EXCEPT ![k] = e]
      BY <2>2, <3>1 DEF IInv, Finish, Event, Finished, TypeOK, Working, Busy
    <3> HIDE DEF e, k
    <3>3. /\ Len(events) \in Nat /\ Len(events') = Len(events) + 1 /\ events'[Len(events) + 1] = e
          /\ \A i \in 1..Len(events) : events'[i] = events[i]
      BY <3>2, AddOne DEF IInv, TypeOK
    <3>4. sent'[k] = e /\ \A j \in Keys : j # k => sent'[j] = sent[j]
      BY <3>1, <3>2 DEF IInv, TypeOK
    <3>5. ASSUME NEW i \in 1..Len(events), events[i].kind = "finished"
          PROVE  events[i] = sent'[events[i].key]
      <4>1. events[i] \in Event
        BY DEF IInv, TypeOK
      <4>2. events[i] \in Finished /\ events[i].key \in Keys /\ events[i] = sent[events[i].key]
        BY <3>5, <4>1, EventFacts DEF IInv, TrueEvents
      <4>3. events[i].key # k
        BY <3>1, <4>2, NoAnswerAssumption
      <4>4. QED
        BY <3>4, <4>2, <4>3
    <3>6. QED
      BY <3>2, <3>3, <3>4, <3>5 DEF TrueEvents
  <2>3. CASE Quietly(w)
    BY <2>3, QuietFacts DEF IInv, TrueEvents
  <2>4. QED
    BY <1>3, <2>1, <2>2, <2>3, WorkerSteps
<1>4. QED
  BY <1>1, <1>2, <1>3 DEF Next, Main

(* An answer, once there, stays. *)
LEMMA ActiveOpenStep ==
    ASSUME IInv, [Next]_vars
    PROVE  ActiveOpen'
<1>1. ASSUME UNCHANGED <<active, results>> PROVE ActiveOpen'
  BY <1>1 DEF IInv, ActiveOpen
<1>2. CASE Pump \/ WaitTimesOut \/ Tick \/ UNCHANGED vars
  BY <1>1, <1>2 DEF Pump, WaitTimesOut, Tick, vars, main
<1>3. CASE OnStarted
  <2>1. Head(events).key \in Keys
    BY <1>3, NextEvent, EventFacts DEF IInv, OnStarted
  <2>2. QED
    BY <1>3, <2>1 DEF OnStarted, IInv, TypeOK, ActiveOpen
<1>4. CASE OnFinished
  <2>1. Head(events).key \in Keys
    BY <1>4, NextEvent, EventFacts DEF IInv, OnFinished
  <2>2. \A k \in Keys : active'[k] = (IF k = Head(events).key THEN 0 ELSE active[k])
    BY <1>4, <2>1 DEF OnFinished, IInv, TypeOK
  <2>3. \A k \in Keys : k # Head(events).key => results'[k] = results[k]
    BY <1>4, <2>1 DEF OnFinished, IInv, TypeOK
  <2>4. QED
    BY <2>2, <2>3 DEF IInv, ActiveOpen
<1>5. CASE Sweep
  BY <1>5 DEF Sweep, IInv, TypeOK, ActiveOpen
<1>6. ASSUME NEW w \in Thread, Worker(w) PROVE ActiveOpen'
  <2>1. UNCHANGED <<active, results>>
    BY <1>6, WorkerSteps, QuietFacts DEF IInv, Take, Finish, main
  <2>2. QED
    BY <1>1, <2>1
<1>7. QED
  BY <1>2, <1>3, <1>4, <1>5, <1>6 DEF Next, Main

(* Stop flags are set for requests that time out together: no more flags than requests. *)
LEMMA FlagsOfRequests ==
    ASSUME TypeOK, NEW T \in SUBSET Keys
    PROVE  /\ Cardinality(T) \in Nat /\ Cardinality(stops) \in Nat
           /\ Cardinality(stops \union {active[k] : k \in T}) <= Cardinality(stops) + Cardinality(T)
           /\ Cardinality(stops \union {active[k] : k \in T}) \in Nat
<1> DEFINE A == {active[k] : k \in T}
<1>1. IsFiniteSet(T) /\ Cardinality(T) \in Nat
  BY FS_Subset, FS_CardinalityType
<1>2. IsFiniteSet(stops) /\ Cardinality(stops) \in Nat
  BY Numbers, FS_Subset, FS_CardinalityType DEF TypeOK
<1>3. [k \in T |-> active[k]] \in Surjection(T, A)
  BY DEF Surjection
<1>4. IsFiniteSet(A) /\ Cardinality(A) <= Cardinality(T)
  BY <1>1, <1>3, FS_Surjection
<1>5. Cardinality(A) \in Nat
  BY <1>4, FS_CardinalityType
<1>6. IsFiniteSet(stops \cap A) /\ Cardinality(stops \cap A) \in Nat
  BY <1>2, FS_Intersection, FS_CardinalityType
<1>7. /\ IsFiniteSet(stops \union A)
      /\ Cardinality(stops \union A) = Cardinality(stops) + Cardinality(A) - Cardinality(stops \cap A)
  BY <1>2, <1>4, FS_Union
<1>8. Cardinality(stops \union A) \in Nat
  BY <1>7, FS_CardinalityType
<1> HIDE DEF A
<1>9. Cardinality(stops \union A) <= Cardinality(stops) + Cardinality(T)
  BY <1>1, <1>2, <1>4, <1>5, <1>6, <1>7
<1>10. QED
  BY <1>1, <1>2, <1>8, <1>9 DEF A

(* Answers are never taken back, so a complete map stays complete. *)
LEMMA PaidStep ==
    ASSUME IInv, [Next]_vars
    PROVE  Paid'
<1>1. ASSUME UNCHANGED <<results, stops, spawned>> PROVE Paid'
  BY <1>1 DEF IInv, Paid, Complete, Answered
<1>2. CASE Pump \/ WaitTimesOut \/ OnStarted \/ Tick \/ UNCHANGED vars
  BY <1>1, <1>2 DEF Pump, WaitTimesOut, OnStarted, Tick, vars, main
<1>3. CASE OnFinished
  <2> DEFINE e == Head(events)
             late == active[e.key] # 0 /\ e.at > Timeout
  <2>1. e.key \in Keys /\ e.worker \in Thread /\ e.res \in Outcomes
    BY <1>3, NextEvent, EventFacts DEF IInv, OnFinished
  <2>2. Complete(results) => Complete(results')
    BY <1>3, <2>1, NoAnswerAssumption DEF OnFinished, IInv, TypeOK, Complete, Answered, Outcomes
  <2>3. IsFiniteSet(stops) /\ Cardinality(stops) \in Nat
    BY Numbers, FS_Subset, FS_CardinalityType DEF IInv, TypeOK
  <2>4. Cardinality(stops \union {e.worker}) <= Cardinality(stops) + 1
    <3>1. Cardinality(stops \union {e.worker}) = IF e.worker \in stops THEN Cardinality(stops) ELSE Cardinality(stops) + 1
      BY <2>3, FS_AddElement
    <3>2. QED
      BY <2>3, <3>1
  <2>5. Cardinality(stops \union {e.worker}) \in Nat
    BY <2>3, FS_AddElement, FS_CardinalityType
  <2>6. /\ stops' = IF late THEN stops \union {e.worker} ELSE stops
        /\ spawned' = IF late /\ ~Complete(results') THEN spawned + 1 ELSE spawned
    BY <1>3 DEF OnFinished
  <2>7. ASSUME ~Complete(results') PROVE Cardinality(stops') + Workers <= spawned'
    <3>1. Cardinality(stops) + Workers <= spawned /\ spawned \in Nat
      BY <2>2, <2>7 DEF IInv, Paid, TypeOK
    <3> HIDE DEF e
    <3>2. CASE late
      BY <2>3, <2>4, <2>5, <2>6, <2>7, <3>1, <3>2
    <3>3. CASE ~late
      BY <2>6, <3>1, <3>3
    <3>4. QED
      BY <3>2, <3>3
  <2>8. QED
    BY <2>7 DEF Paid, Complete, Answered
<1>4. CASE Sweep
  <2> DEFINE T == {k \in Keys : Expired(k)}
             done == [k \in Keys |-> IF k \in T THEN "timeout" ELSE results[k]]
  <2>1. results' = done /\ stops' = stops \union {active[k] : k \in T}
    BY <1>4 DEF Sweep
  <2>2. ~Complete(done) => spawned' = spawned + Cardinality(T)
    BY <1>4 DEF Sweep
  <2>3. ~Complete(done) => ~Complete(results)
    BY NoAnswerAssumption DEF Complete, Answered, Outcomes
  <2>4. /\ Cardinality(T) \in Nat /\ Cardinality(stops) \in Nat
        /\ Cardinality(stops') <= Cardinality(stops) + Cardinality(T) /\ Cardinality(stops') \in Nat
    <3>1. T \in SUBSET Keys
      OBVIOUS
    <3> HIDE DEF T
    <3>2. QED
      BY <2>1, <3>1, FlagsOfRequests DEF IInv
  <2>5. ASSUME ~Complete(done) PROVE Cardinality(stops') + Workers <= spawned'
    <3>1. Cardinality(stops) + Workers <= spawned /\ spawned \in Nat
      BY <2>3, <2>5 DEF IInv, Paid, TypeOK
    <3> HIDE DEF T
    <3>2. QED
      BY <2>2, <2>4, <2>5, <3>1
  <2>6. QED
    BY <2>1, <2>5 DEF Paid, Complete, Answered
<1>5. ASSUME NEW w \in Thread, Worker(w) PROVE Paid'
  <2>1. UNCHANGED <<results, stops, spawned>>
    BY <1>5, WorkerSteps, QuietFacts DEF IInv, Take, Finish, main
  <2>2. QED
    BY <1>1, <2>1
<1>6. QED
  BY <1>2, <1>3, <1>4, <1>5 DEF Next, Main

LEMMA OwnAnswerStep ==
    ASSUME IInv, [Next]_vars
    PROVE  OwnAnswer'
<1>1. ASSUME UNCHANGED <<results, sent>> PROVE OwnAnswer'
  BY <1>1 DEF IInv, OwnAnswer
<1>2. CASE Pump \/ WaitTimesOut \/ OnStarted \/ Tick \/ UNCHANGED vars
  BY <1>1, <1>2 DEF Pump, WaitTimesOut, OnStarted, Tick, vars, main
<1>3. CASE OnFinished
  <2> DEFINE e == Head(events)
  <2>1. e \in Finished /\ e.key \in Keys /\ e.at \in Nat /\ e = sent[e.key] /\ e.res \in Outcomes
    BY <1>3, NextEvent, EventFacts DEF IInv, OnFinished, TrueEvents
  <2>2. sent' = sent /\ \A k \in Keys : k # e.key => results'[k] = results[k]
    BY <1>3, <2>1 DEF OnFinished, IInv, TypeOK
  <2>3. CASE active[e.key] = 0
    <3>1. results' = results
      BY <1>3, <2>3 DEF OnFinished
    <3>2. QED
      BY <1>1, <2>2, <3>1
  <2>4. CASE active[e.key] # 0
    <3>1. results'[e.key] = IF e.at > Timeout THEN "timeout" ELSE e.res
      BY <1>3, <2>1, <2>4 DEF OnFinished, IInv, TypeOK
    <3>2. results'[e.key] \in {"ok", "backend"} =>
            sent[e.key] # NoAnswer /\ sent[e.key].res = results'[e.key] /\ sent[e.key].at <= Timeout
      BY <2>1, <3>1, NoAnswerAssumption
    <3> HIDE DEF e
    <3>3. QED
      BY <2>1, <2>2, <3>2 DEF IInv, OwnAnswer
  <2>5. QED
    BY <2>3, <2>4
<1>4. CASE Sweep
  <2>1. sent' = sent /\ \A k \in Keys : results'[k] \in {"ok", "backend"} => results'[k] = results[k]
    BY <1>4 DEF Sweep
  <2>2. QED
    BY <2>1 DEF IInv, OwnAnswer
<1>5. ASSUME NEW w \in Thread, Worker(w) PROVE OwnAnswer'
  <2>1. CASE Take(w)
    BY <1>1, <2>1 DEF Take, main
  <2>2. CASE Finish(w)
    <3>1. ws[w].key \in Keys /\ sent[ws[w].key] = NoAnswer
      BY <2>2 DEF IInv, Working, Finish, Busy
    <3>2. results' = results /\ \A k \in Keys : k # ws[w].key => sent'[k] = sent[k]
      BY <2>2, <3>1 DEF Finish, main, IInv, TypeOK
    <3>3. results[ws[w].key] \notin {"ok", "backend"}
      BY <3>1 DEF IInv, OwnAnswer
    <3>4. QED
      BY <3>2, <3>3 DEF IInv, OwnAnswer
  <2>3. CASE Quietly(w)
    BY <1>1, <2>3, QuietFacts DEF IInv, main
  <2>4. QED
    BY <1>5, <2>1, <2>2, <2>3, WorkerSteps
<1>6. QED
  BY <1>2, <1>3, <1>4, <1>5 DEF Next, Main

-----------------------------------------------------------------------------
(* The invariant, and what follows from it *)

(* The inductive invariant of the executor: nobody has heard of a queued request, a
   request has one worker, the channel tells what was sent, and stop flags are paid. *)
THEOREM ExecutorIInv == Spec => []IInv
<1>1. IInv /\ [Next]_vars => IInv'
  <2>1. SUFFICES ASSUME IInv, [Next]_vars PROVE IInv'
    OBVIOUS
  <2>2. TypeOK'
    <3>1. CASE UNCHANGED vars
      BY <2>1, <3>1 DEF IInv, TypeOK, vars, main
    <3>2. QED
      BY <2>1, <3>1, MainType, WorkerType, TickType DEF IInv, Next
  <2>3. QED
    BY <2>1, <2>2, QueuesStep, UntouchedStep, OneWorkerStep, WorkingStep, TrueEventsStep, ActiveOpenStep,
       PaidStep, OwnAnswerStep DEF IInv
<1>2. QED
  BY <1>1, InitIInv, PTL DEF Spec

(* Whatever backends do, an outcome other than a timeout is the one that the request's own
   worker sent, by the deadline. *)
THEOREM ExecutorOwnAnswer == Spec => []OwnAnswer
<1>1. IInv => OwnAnswer
  BY DEF IInv
<1>2. QED
  BY <1>1, ExecutorIInv, PTL

(* A request is in one place, is handed out once, and the queue keeps its bound. *)
THEOREM ExecutorHandedOutOnce == Spec => []HandedOutOnce
<1>1. IInv => HandedOutOnce
  <2>1. SUFFICES ASSUME IInv PROVE HandedOutOnce
    OBVIOUS
  <2> DEFINE both == pending \o jobs
  <2>2. /\ Len(pending) \in Nat /\ Len(jobs) \in Nat /\ Len(both) = Len(pending) + Len(jobs) /\ DOMAIN both = 1..Len(both)
        /\ \A i \in 1..Len(both) : both[i] = IF i <= Len(pending) THEN pending[i] ELSE jobs[i - Len(pending)]
    BY <2>1 DEF IInv, TypeOK
  <2>3. ASSUME NEW i \in DOMAIN both, NEW j \in DOMAIN both, both[i] = both[j]
        PROVE  i = j
    <3> HIDE DEF both
    <3>1. CASE i <= Len(pending) /\ j <= Len(pending)
      BY <2>1, <2>2, <2>3, <3>1 DEF IInv, Queues, Distinct
    <3>2. CASE i > Len(pending) /\ j > Len(pending)
      <4>1. i - Len(pending) \in 1..Len(jobs) /\ j - Len(pending) \in 1..Len(jobs)
        BY <2>2, <3>2
      <4>2. jobs[i - Len(pending)] = jobs[j - Len(pending)]
        BY <2>2, <2>3, <3>2
      <4>3. i - Len(pending) = j - Len(pending)
        BY <2>1, <4>1, <4>2 DEF IInv, Queues, Distinct
      <4>4. QED
        BY <2>2, <4>3
    <3>3. CASE i <= Len(pending) /\ j > Len(pending)
      <4>1. i \in 1..Len(pending) /\ j - Len(pending) \in 1..Len(jobs) /\ pending[i] = jobs[j - Len(pending)]
        BY <2>2, <2>3, <3>3
      <4>2. QED
        BY <2>1, <4>1 DEF IInv, Queues
    <3>4. CASE i > Len(pending) /\ j <= Len(pending)
      <4>1. j \in 1..Len(pending) /\ i - Len(pending) \in 1..Len(jobs) /\ pending[j] = jobs[i - Len(pending)]
        BY <2>2, <2>3, <3>4
      <4>2. QED
        BY <2>1, <4>1 DEF IInv, Queues
    <3>5. QED
      BY <2>2, <3>1, <3>2, <3>3, <3>4
  <2>4. ASSUME NEW k \in Range(both)
        PROVE  results[k] = NoAnswer /\ sent[k] = NoAnswer /\ \A w \in Thread : ws[w].key # k
    <3>1. PICK i \in 1..Len(both) : k = both[i]
      BY <2>2, <2>4 DEF Range
    <3>2. In(k, pending) \/ In(k, jobs)
      <4> HIDE DEF both
      <4>1. CASE i <= Len(pending)
        BY <2>2, <3>1, <4>1 DEF In
      <4>2. CASE i > Len(pending)
        <5>1. i - Len(pending) \in 1..Len(jobs)
          BY <2>2, <4>2
        <5>2. QED
          BY <2>2, <3>1, <4>2, <5>1 DEF In
      <4>3. QED
        BY <2>2, <4>1, <4>2
    <3>3. k \in Keys
      BY <2>1, <3>2 DEF In, IInv, TypeOK
    <3>4. QED
      BY <2>1, <3>2, <3>3 DEF IInv, Untouched, Unheard
  <2>5. QED
    BY <2>1, <2>3, <2>4 DEF HandedOutOnce, IInv, Queues
<1>2. QED
  BY <1>1, ExecutorIInv, PTL

(* While answers are missing, as many workers as configured have not been told to stop. *)
THEOREM ExecutorPoolNeverShort == Spec => []PoolNeverShort
<1>1. IInv => PoolNeverShort
  <2>1. SUFFICES ASSUME IInv, ~Complete(results) PROVE Cardinality(1..spawned \ stops) >= Workers
    BY DEF PoolNeverShort
  <2>2. Cardinality(stops) + Workers <= spawned /\ spawned \in Nat
    BY <2>1 DEF IInv, Paid, TypeOK
  <2>3. IsFiniteSet(stops) /\ Cardinality(stops) \in Nat
    BY <2>1, Numbers, FS_Subset, FS_CardinalityType DEF IInv, TypeOK
  <2>4. IsFiniteSet(1..spawned) /\ Cardinality(1..spawned) = spawned
    BY <2>2, FS_Interval
  <2>5. /\ Cardinality((1..spawned) \ stops) = Cardinality(1..spawned) - Cardinality((1..spawned) \cap stops)
        /\ Cardinality((1..spawned) \cap stops) <= Cardinality(stops) /\ Cardinality((1..spawned) \cap stops) \in Nat
    BY <2>3, <2>4, FS_Difference, FS_Intersection, FS_CardinalityType
  <2>6. QED
    BY <2>2, <2>3, <2>4, <2>5
<1>2. QED
  BY <1>1, ExecutorIInv, PTL

(* Every step answers open requests as Batch allows, or none: what was answered is never revised. *)
THEOREM ExecutorBatchSafety == Spec => ImplementsBatch!Init /\ [][ImplementsBatch!Next]_results
<1>1. Init => ImplementsBatch!Init
  BY DEF Init, ImplementsBatch!Init
<1>2. IInv /\ [Next]_vars => [ImplementsBatch!Next]_results
  <2>1. SUFFICES ASSUME IInv, [Next]_vars, results' # results PROVE ImplementsBatch!Next
    OBVIOUS
  <2>2. OnFinished \/ Sweep
    <3>1. ASSUME NEW w \in Thread, Worker(w) PROVE results' = results
      BY <2>1, <3>1, WorkerSteps, QuietFacts DEF IInv, Take, Finish, main
    <3>2. QED
      BY <2>1, <3>1 DEF Next, Main, Pump, WaitTimesOut, OnStarted, Tick, vars, main
  <2>3. SUFFICES \E S \in SUBSET Keys, o \in [Keys -> Outcomes] :
                   /\ S # {} /\ \A k \in S : results[k] = NoAnswer
                   /\ results' = [k \in Keys |-> IF k \in S THEN o[k] ELSE results[k]]
    <3>1. SUFFICES ASSUME NEW S \in SUBSET Keys, NEW o \in [Keys -> Outcomes], S # {}, \A k \in S : results[k] = NoAnswer,
                          results' = [k \in Keys |-> IF k \in S THEN o[k] ELSE results[k]]
                   PROVE  ImplementsBatch!Next
      OBVIOUS
    <3>2. S \in SUBSET ImplementsBatch!Open
      BY <3>1 DEF ImplementsBatch!Open
    <3>3. [k \in S |-> o[k]] \in [S -> Outcomes]
      OBVIOUS
    <3>4. results' = [k \in Keys |-> IF k \in S THEN [j \in S |-> o[j]][k] ELSE results[k]]
      BY <3>1
    <3>5. ImplementsBatch!Answer(S)
      BY <3>1, <3>3, <3>4 DEF ImplementsBatch!Answer
    <3>6. QED
      BY <3>2, <3>5 DEF ImplementsBatch!Next
  <2>4. CASE OnFinished
    <3> DEFINE e == Head(events)
               out == IF e.at > Timeout THEN "timeout" ELSE e.res
    <3>1. e.key \in Keys /\ out \in Outcomes
      BY <2>1, <2>4, NextEvent, EventFacts DEF IInv, OnFinished, Outcomes
    <3>2. active[e.key] # 0 /\ results[e.key] = NoAnswer
      BY <2>1, <2>4, <3>1 DEF OnFinished, IInv, ActiveOpen
    <3>3. results' = [results EXCEPT ![e.key] = out]
      BY <2>4, <3>2 DEF OnFinished
    <3> HIDE DEF e, out
    <3>4. results' = [k \in Keys |-> IF k \in {e.key} THEN [j \in Keys |-> out][k] ELSE results[k]]
      BY <2>1, <3>1, <3>3 DEF IInv, TypeOK
    <3>5. [j \in Keys |-> out] \in [Keys -> Outcomes]
      BY <3>1
    <3>6. QED
      BY <3>1, <3>2, <3>4, <3>5
  <2>5. CASE Sweep
    <3> DEFINE T == {k \in Keys : Expired(k)}
    <3>1. results' = [k \in Keys |-> IF k \in T THEN "timeout" ELSE results[k]]
      BY <2>5 DEF Sweep
    <3>2. \A k \in T : results[k] = NoAnswer
      BY <2>1 DEF IInv, ActiveOpen, Expired
    <3> HIDE DEF T
    <3>3. T # {}
      BY <2>1, <3>1 DEF IInv, TypeOK
    <3>4. results' = [k \in Keys |-> IF k \in T THEN [j \in Keys |-> "timeout"][k] ELSE results[k]]
      BY <3>1
    <3>5. [j \in Keys |-> "timeout"] \in [Keys -> Outcomes] /\ T \in SUBSET Keys
      BY DEF Outcomes, T
    <3>6. QED
      BY <3>2, <3>3, <3>4, <3>5
  <2>6. QED
    BY <2>2, <2>4, <2>5
<1>3. QED
  BY <1>1, <1>2, ExecutorIInv, PTL DEF Spec
=============================================================================
