----------------------------- MODULE LlmExecutor -----------------------------
(***************************************************************************)
(* execute_threaded (socsim-games/src/llm/executor.rs): the calling thread *)
(* feeds a bounded job queue and collects events; worker threads complete  *)
(* requests with retries and backoff; a request past its deadline is       *)
(* answered with a timeout, its worker told to stop after its call, and a  *)
(* replacement spawned.                                                    *)
(*                                                                         *)
(* Time is kept per request: age[k] counts ticks since `Started` and       *)
(* saturates just past the timeout, so that no clock has to be bounded.    *)
(***************************************************************************)
EXTENDS Naturals, Sequences, FiniteSets, Functions

CONSTANTS Keys,       \* the requests, 1..N in key order
          Workers,    \* LlmExecutor::Threaded.workers
          QueuePer,   \* ExecutorOptions.queue_per_worker
          Timeout,    \* ExecutorOptions.timeout, in ticks
          MaxRetries, \* ExecutorOptions.max_backend_retries
          Broken,     \* workers whose backend factory returns an error
          MayPanic,   \* TRUE: a backend call may panic and kill its thread
          NoAnswer

ASSUME ExecutorAssumption ==
    /\ IsFiniteSet(Keys) /\ Keys = 1..Cardinality(Keys) /\ Keys # {}
    /\ Workers \in Nat \ {0} /\ QueuePer \in Nat \ {0}
    /\ Timeout \in Nat /\ MaxRetries \in Nat
    /\ Broken \subseteq Nat /\ MayPanic \in BOOLEAN

Capacity == Workers * QueuePer
(* Every timeout spawns at most one replacement, so no more threads exist. *)
Thread == 1..(Workers + Cardinality(Keys))

Outcomes == {"ok", "backend", "timeout"}

(* What a worker sends: that it has taken a request, and what became of it. *)
Started  == [kind : {"started"}, worker : Thread, key : Keys]
Finished == [kind : {"finished"}, worker : Thread, key : Keys, at : Nat, res : Outcomes]
ASSUME NoAnswerAssumption == NoAnswer \notin Outcomes \union Finished

VARIABLES pc,      \* the calling thread: "pump", "wait", "sweep" or "done"
          pending, \* requests not yet in the queue
          jobs,    \* the sync_channel of jobs
          events,  \* the channel of Started and Finished events
          active,  \* request -> the worker whose Started was processed, or 0
          results, \* request -> outcome, or NoAnswer
          spawned, \* next_worker: threads created so far
          stops,   \* threads whose stop flag is set
          ws,      \* thread -> [st, key, retries, res]
          age,     \* request -> ticks since Started was sent, until answered
          sent     \* history: request -> the Finished its worker sent

main == <<pc, pending, active, results, spawned, stops>>
vars == <<main, jobs, events, ws, age, sent>>

Init ==
    /\ pc = "pump"
    /\ pending = [i \in 1..Cardinality(Keys) |-> i]
    /\ jobs = <<>> /\ events = <<>>
    /\ active = [k \in Keys |-> 0]
    /\ results = [k \in Keys |-> NoAnswer]
    /\ spawned = Workers /\ stops = {}
    /\ ws = [w \in Thread |-> [st |-> "recv", key |-> 0, retries |-> 0, res |-> NoAnswer]]
    /\ age = [k \in Keys |-> 0]
    /\ sent = [k \in Keys |-> NoAnswer]

Expired(k) == active[k] # 0 /\ age[k] >= Timeout
Answered(r) == {k \in Keys : r[k] # NoAnswer}
Complete(r) == Answered(r) = Keys

-----------------------------------------------------------------------------
(* The calling thread                                                      *)

(* Mutant: a job sent stays pending. *)
PumpKeepsPending ==
    /\ pc = "pump"
    /\ IF pending # <<>> /\ Len(jobs) < Capacity
         THEN jobs' = Append(jobs, Head(pending)) /\ pc' = pc
         ELSE pc' = "wait" /\ UNCHANGED jobs
    /\ UNCHANGED <<pending, events, active, results, spawned, stops, ws, age, sent>>

(* pump_pending: try_send until the queue is full. *)
Pump ==
    /\ pc = "pump"
    /\ IF pending # <<>> /\ Len(jobs) < Capacity
         THEN jobs' = Append(jobs, Head(pending)) /\ pending' = Tail(pending) /\ pc' = pc
         ELSE pc' = "wait" /\ UNCHANGED <<jobs, pending>>
    /\ UNCHANGED <<events, active, results, spawned, stops, ws, age, sent>>

(* recv_timeout finds nothing by the earliest deadline. *)
WaitTimesOut ==
    /\ pc = "wait" /\ events = <<>>
    /\ \E k \in Keys : Expired(k)
    /\ pc' = "sweep"
    /\ UNCHANGED <<pending, active, results, spawned, stops, jobs, events, ws, age, sent>>

(* A Started event: remember the worker, unless the answer is already in. *)
OnStarted ==
    /\ pc = "wait" /\ events # <<>> /\ Head(events).kind = "started"
    /\ LET e == Head(events) IN
         active' = IF results[e.key] = NoAnswer
                     THEN [active EXCEPT ![e.key] = e.worker] ELSE active
    /\ events' = Tail(events) /\ pc' = "sweep"
    /\ UNCHANGED <<pending, results, spawned, stops, jobs, ws, age, sent>>

(* Mutant: the deadline is not compared with the time of the answer. *)
OnFinishedLate ==
    /\ pc = "wait" /\ events # <<>> /\ Head(events).kind = "finished"
    /\ LET e == Head(events) IN
         /\ active' = [active EXCEPT ![e.key] = 0]
         /\ results' = IF active[e.key] # 0 THEN [results EXCEPT ![e.key] = e.res] ELSE results
    /\ events' = Tail(events) /\ pc' = "sweep"
    /\ UNCHANGED <<pending, spawned, stops, jobs, ws, age, sent>>

(* Mutant: an answer counts although its request is no longer active. *)
OnFinishedTwice ==
    /\ pc = "wait" /\ events # <<>> /\ Head(events).kind = "finished"
    /\ LET e == Head(events) IN
         /\ active' = [active EXCEPT ![e.key] = 0]
         /\ results' = [results EXCEPT ![e.key] = e.res]
    /\ events' = Tail(events) /\ pc' = "sweep"
    /\ UNCHANGED <<pending, spawned, stops, jobs, ws, age, sent>>

(* A Finished event: ignored for a request no longer active; the result
   counts if it was sent by the deadline; otherwise the request has timed
   out, its worker is stopped and, with work left, replaced. *)
OnFinished ==
    /\ pc = "wait" /\ events # <<>> /\ Head(events).kind = "finished"
    /\ LET e    == Head(events)
           live == active[e.key] # 0
           late == live /\ e.at > Timeout
       IN  /\ active' = [active EXCEPT ![e.key] = 0]
           /\ results' = IF live
                           THEN [results EXCEPT ![e.key] = IF late THEN "timeout" ELSE e.res]
                           ELSE results
           /\ stops' = IF late THEN stops \union {e.worker} ELSE stops
           /\ spawned' = IF late /\ ~Complete(results') THEN spawned + 1 ELSE spawned
    /\ events' = Tail(events) /\ pc' = "sweep"
    /\ UNCHANGED <<pending, jobs, ws, age, sent>>

(* Mutant: a stopped worker is not replaced. *)
SweepNoReplacement ==
    /\ pc = "sweep"
    /\ LET T    == {k \in Keys : Expired(k)}
           done == [k \in Keys |-> IF k \in T THEN "timeout" ELSE results[k]]
       IN  /\ results' = done
           /\ active' = [k \in Keys |-> IF k \in T THEN 0 ELSE active[k]]
           /\ stops' = stops \union {active[k] : k \in T}
           /\ pc' = IF Complete(done) THEN "done" ELSE "pump"
    /\ UNCHANGED <<pending, spawned, jobs, events, ws, age, sent>>

(* After every event or timeout: all active requests whose deadline has
   passed are answered, their workers stopped, and one replacement spawned
   for each unless the map has become complete. *)
Sweep ==
    /\ pc = "sweep"
    /\ LET T    == {k \in Keys : Expired(k)}
           done == [k \in Keys |-> IF k \in T THEN "timeout" ELSE results[k]]
           n    == Cardinality(T)
       IN  /\ results' = done
           /\ active' = [k \in Keys |-> IF k \in T THEN 0 ELSE active[k]]
           /\ stops' = stops \union {active[k] : k \in T}
           /\ spawned' = spawned + (IF T # {} /\ Complete(done) THEN n - 1 ELSE n)
           /\ pc' = IF Complete(done) THEN "done" ELSE "pump"
    /\ UNCHANGED <<pending, jobs, events, ws, age, sent>>

Main == Pump \/ WaitTimesOut \/ OnStarted \/ OnFinished \/ Sweep

-----------------------------------------------------------------------------
(* The worker threads                                                      *)

Becomes(w, s, n, answer) ==
    ws' = [ws EXCEPT ![w] = [st |-> s, key |-> ws[w].key, retries |-> n, res |-> answer]]
Goto(w, s) == Becomes(w, s, ws[w].retries, ws[w].res)
Answers(w, answer) == Becomes(w, "answer", ws[w].retries, answer)

(* Lock the receiver, take a job, send Started. *)
Take(w) ==
    /\ w <= spawned /\ ws[w].st = "recv" /\ jobs # <<>>
    /\ ws' = [ws EXCEPT ![w] =
                [st |-> IF w \in Broken THEN "answer" ELSE "call",
                 key |-> Head(jobs), retries |-> 0, res |-> "backend"]]
    /\ jobs' = Tail(jobs)
    /\ events' = Append(events, [kind |-> "started", worker |-> w, key |-> Head(jobs)])
    /\ UNCHANGED <<main, age, sent>>

(* client.complete returns a response. *)
CallOk(w) ==
    /\ ws[w].st = "call"
    /\ Answers(w, "ok")
    /\ UNCHANGED <<main, jobs, events, age, sent>>

(* client.complete fails: with retries left the stop flag is read, then the
   worker sleeps; with none left the error is the answer. *)
CallErr(w) ==
    /\ ws[w].st = "call"
    /\ IF ws[w].retries = MaxRetries
         THEN Answers(w, "backend")
         ELSE IF w \in stops
                THEN Answers(w, "timeout")
                ELSE Goto(w, "backoff")
    /\ UNCHANGED <<main, jobs, events, age, sent>>

(* The backoff sleep ends: the stop flag is read again, then the call is
   repeated. *)
Retry(w) ==
    /\ ws[w].st = "backoff"
    /\ IF w \in stops
         THEN Answers(w, "timeout")
         ELSE Becomes(w, "call", ws[w].retries + 1, ws[w].res)
    /\ UNCHANGED <<main, jobs, events, age, sent>>

(* Send Finished, stamped with the time of sending. *)
Finish(w) ==
    /\ ws[w].st = "answer"
    /\ LET k == ws[w].key
           e == [kind |-> "finished", worker |-> w, key |-> k,
                 at |-> age[k], res |-> ws[w].res]
       IN  events' = Append(events, e) /\ sent' = [sent EXCEPT ![k] = e]
    /\ Goto(w, "check")
    /\ UNCHANGED <<main, jobs, age>>

(* After the answer: leave if told to stop, else wait for the next job. *)
Check(w) ==
    /\ ws[w].st = "check"
    /\ Goto(w, IF w \in stops THEN "dead" ELSE "recv")
    /\ UNCHANGED <<main, jobs, events, age, sent>>

(* The backend call panics: the thread dies without a word. *)
Panic(w) ==
    /\ MayPanic /\ ws[w].st = "call"
    /\ Goto(w, "dead")
    /\ UNCHANGED <<main, jobs, events, age, sent>>

(* When execute returns, its channel ends are dropped: recv and send fail
   and every thread leaves. *)
Hangup(w) ==
    /\ pc = "done" /\ ws[w].st \in {"recv", "answer"}
    /\ Goto(w, "dead")
    /\ UNCHANGED <<main, jobs, events, age, sent>>

(* Requests whose deadline is still ahead of a decision: started, no answer. *)
Waiting == {k \in Keys : results[k] = NoAnswer} \ (Range(pending) \union Range(jobs))

Tick ==
    /\ \E k \in Waiting : age[k] <= Timeout
    /\ age' = [k \in Keys |-> IF k \in Waiting /\ age[k] <= Timeout THEN age[k] + 1 ELSE age[k]]
    /\ UNCHANGED <<main, jobs, events, ws, sent>>

Worker(w) == Take(w) \/ CallOk(w) \/ CallErr(w) \/ Retry(w) \/ Finish(w)
             \/ Check(w) \/ Panic(w) \/ Hangup(w)

Next == Main \/ Tick \/ \E w \in Thread : Worker(w)

(* The calling thread runs, time passes, and a free worker takes a waiting
   job.  Nothing is owed by the backend: a call may never return. *)
Spec ==
    /\ Init /\ [][Next]_vars
    /\ WF_vars(Main) /\ WF_vars(Tick)
    /\ \A w \in Thread : WF_vars(Take(w)) /\ WF_vars(Check(w))

-----------------------------------------------------------------------------
(* Properties                                                              *)

(* execute implements Batch: one outcome per request, never revised, and the
   batch ends although calls may hang for ever or kill their thread. *)
ImplementsBatch == INSTANCE Batch WITH answer <- results
BatchSpec == ImplementsBatch!Spec

(* An outcome other than a timeout is the one the request's own worker sent,
   and was sent by the deadline: late and foreign answers are never used. *)
OwnAnswer ==
    \A k \in Keys : results[k] \in {"ok", "backend"} =>
        sent[k] # NoAnswer /\ sent[k].res = results[k] /\ sent[k].at <= Timeout

(* A request is handed out once: it is in one place only, a request that timed
   out is not sent again by another worker, and the queue keeps its bound. *)
HandedOutOnce ==
    /\ Len(jobs) <= Capacity
    /\ \A i, j \in DOMAIN (pending \o jobs) :
         (pending \o jobs)[i] = (pending \o jobs)[j] => i = j
    /\ \A k \in Range(pending \o jobs) :
         results[k] = NoAnswer /\ sent[k] = NoAnswer /\ \A w \in Thread : ws[w].key # k

(* Every worker told to stop has been replaced while answers are missing:
   the pool that serves the queue never shrinks. *)
PoolNeverShort ==
    ~Complete(results) => Cardinality(1..spawned \ stops) >= Workers

(* docs/games.md: a backend error is resent until max_backend_retries is
   exhausted, and only a timed-out call is not resent.  So an answer that
   says the call timed out comes no earlier than the timeout. *)
NoEarlyTimeout == \A k \in Keys : results[k] = "timeout" => age[k] >= Timeout
=============================================================================
