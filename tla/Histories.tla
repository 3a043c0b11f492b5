------------------------------ MODULE Histories ------------------------------
(***************************************************************************)
(* The bounded histories of a game world: the step records of every agent, *)
(* the records of every pair that met, and the public aggregates.  Each is *)
(* a ring of a fixed length that overwrites its oldest entry.  Slots are   *)
(* numbered from 0, as in the code; a view is a sequence, oldest first.    *)
(***************************************************************************)
EXTENDS Integers, Sequences

\* What a reader of a ring of n slots is promised: the last n entries of s.
LastOf(n, s) == IF Len(s) <= n THEN s ELSE SubSeq(s, Len(s) - n + 1, Len(s))

Smaller(a, b) == IF a <= b THEN a ELSE b

\* StepHistory and PairRing: all slots exist from the start.
NewRing(n, blank) == [head |-> 0, filled |-> 0, data |-> [i \in 0 .. n - 1 |-> blank]]

\* next_slot_mut writes the slot at head; commit moves head and filled.
PushRing(n, r, x) ==
  [head   |-> (r.head + 1) % n,
   filled |-> Smaller(r.filled + 1, n),
   data   |-> [r.data EXCEPT ![r.head] = x]]

\* StepHistory.view: while the ring fills, the slots below filled; once it is
\* full, the slots from head on, then those below head.
StepView(n, r) ==
  IF r.filled < n
  THEN [i \in 1 .. r.filled |-> r.data[i - 1]]
  ELSE [i \in 1 .. n - r.head |-> r.data[r.head + i - 1]] \o [i \in 1 .. r.head |-> r.data[i - 1]]

\* PairRing.iter and AggregateTable.iter: filled slots, counted from the oldest.
RingStart(n, r) == IF r.filled = n THEN r.head ELSE 0
RingView(n, r) == [i \in 1 .. r.filled |-> r.data[(RingStart(n, r) + i - 1) % n]]

\* AggregateTable: the rows are appended until there are n of them.
NewTable == [head |-> 0, filled |-> 0, data |-> <<>>]
PushTable(n, r, x) ==
  [head   |-> (r.head + 1) % n,
   filled |-> IF r.filled < n THEN r.filled + 1 ELSE r.filled,
   data   |-> IF r.filled < n THEN Append(r.data, x) ELSE [r.data EXCEPT ![r.head + 1] = x]]
TableView(n, r) == [i \in 1 .. r.filled |-> r.data[((RingStart(n, r) + i - 1) % n) + 1]]

\* PairHistory: one ring per unordered pair that ever met, actions in the
\* order of the sorted pair.
PairKey(a, b) == IF a <= b THEN <<a, b>> ELSE <<b, a>>
AsGiven(a, b, x, y) == <<x, y>>   \* mutant: the actions stay in seat order
InKeyOrder(a, b, x, y) == IF a <= b THEN <<x, y>> ELSE <<y, x>>

NoPair == [t |-> 0, actions |-> <<>>]
PushPair(n, pairs, t, a, b, x, y) ==
  LET k == PairKey(a, b)
      r == IF k \in DOMAIN pairs THEN pairs[k] ELSE NewRing(n, NoPair)
  IN  [j \in DOMAIN pairs \cup {k} |->
         IF j = k THEN PushRing(n, r, [t |-> t, actions |-> InKeyOrder(a, b, x, y)])
                  ELSE pairs[j]]

\* What a reads of its meetings with b: when, its own action, the other's.
PairView(n, pairs, a, b) ==
  IF PairKey(a, b) \notin DOMAIN pairs THEN <<>>
  ELSE LET s == RingView(n, pairs[PairKey(a, b)])
       IN  [i \in DOMAIN s |->
              [t     |-> s[i].t,
               mine  |-> s[i].actions[IF a <= b THEN 1 ELSE 2],
               other |-> s[i].actions[IF a <= b THEN 2 ELSE 1]]]
=============================================================================
