---------------------------- MODULE GameStepProofs ---------------------------
(***************************************************************************)
(* The proofs about the game step.                                         *)
(*                                                                         *)
(* RecordsAreLog: a ring of n slots Holds the end of a sequence when slot  *)
(* head + j, counted around, keeps the (j + 1)th of its last n entries.    *)
(* Pushing onto a ring that holds s leaves one that holds s with the entry *)
(* appended, and its view is LastOf(n, s).  Only Commit pushes, and it     *)
(* appends the same entry to the log, with its row or without one where    *)
(* the collector failed (RowsGrow); HInv says so of both rings.            *)
(*                                                                         *)
(* StopsWhenStill: SInv says what metrics remember of the measurements:    *)
(* the last shares that were played, and that the latest `below` of them   *)
(* were each Near the one before.                                          *)
(*                                                                         *)
(* HistoriesAreLog: GInv says that the ring of every pair Holds, in the    *)
(* order of its key, the Meetings of the pair that the log has.  A play    *)
(* pushed is one meeting for the pair that sat there and none for others   *)
(* (PushOneHolds); all plays of a step follow by induction on their number.*)
(*                                                                         *)
(* LearnsOwnStep: LInv follows a step from Clear, which drops what a       *)
(* failed attempt credited, through the decisions, which leave all seats   *)
(* of an agent showing what it holds, to the totals, which are what the    *)
(* paid encounters Earned (StepPays, by induction on the encounters).      *)
(*                                                                         *)
(* TruePayoffs: TInv follows a population update back to the Clear of its  *)
(* step: nobody decides, so the plays show the profile that is held, and   *)
(* the payoffs are Whole, what some list of encounters of the matching     *)
(* pays for it (SamePlayed).  An asynchronous update computes payoffs of   *)
(* one agent at a time instead: NetAlone and GridAlone show that the       *)
(* encounters at an agent's own edges, or around its own cell, pay it what *)
(* all encounters together pay it, and SourcesSame that a source depends   *)
(* on no other payoff.                                                     *)
(*                                                                         *)
(* PayoffsInRange: an agent that plays n times is paid Between n times the *)
(* least and n times the greatest entry of the table (EachBetween), every  *)
(* list of encounters seats it as often as the matching's bounds say       *)
(* (PlaysAsOften), so full play of any profile stays in the range of the   *)
(* step (FullPayInRange); RInv keeps the payoffs those of full play until  *)
(* the step ends.                                                          *)
(***************************************************************************)
EXTENDS GameStep, WellFoundedInduction, FiniteSetTheorems, SequenceTheorems, TLAPS

-----------------------------------------------------------------------------
(* Rings *)

\* The slot that lies x places after slot 0, for x below twice the length.
Slot(n, x) == IF x < n THEN x ELSE x - n

\* Counting around a ring at most once is one subtraction.
LEMMA Wrap ==
  ASSUME NEW n \in Nat \ {0}, NEW x \in Nat, x < 2 * n
  PROVE x % n = Slot(n, x)
<1>1. x = n * (x \div n) + (x % n) /\ x % n \in 0 .. n - 1 /\ x \div n \in Int
  BY SMT
<1> QED BY <1>1, SMT DEF Slot

\* One slot further on, a ring shows its entries in the same order, the oldest last.
LEMMA Around ==
  ASSUME NEW n \in Nat \ {0}, NEW h \in 0 .. n - 1, NEW j \in 0 .. n - 1
  PROVE /\ j = n - 1 => Slot(n, Slot(n, h + 1) + j) = h
        /\ j < n - 1 => /\ Slot(n, Slot(n, h + 1) + j) = Slot(n, h + (j + 1))
                        /\ Slot(n, h + (j + 1)) \in (0 .. n - 1) \ {h}
<1>1. CASE h + 1 < n
  BY <1>1, SMT DEF Slot
<1>2. CASE h + 1 = n
  BY <1>2, SMT DEF Slot
<1> QED BY <1>1, <1>2, SMT

\* A ring of n slots holds the end of s.
Holds(n, r, s) ==
  /\ r = [head |-> r.head, filled |-> r.filled, data |-> r.data]
  /\ r.filled = Smaller(Len(s), n) /\ r.head \in 0 .. n - 1
  /\ DOMAIN r.data = 0 .. n - 1
  /\ Len(s) < n => r.head = Len(s) /\ \A i \in 0 .. Len(s) - 1 : r.data[i] = s[i + 1]
  /\ Len(s) >= n => \A j \in 0 .. n - 1 : r.data[Slot(n, r.head + j)] = s[Len(s) - n + 1 + j]

\* A new ring holds nothing.
LEMMA NewHolds ==
  ASSUME NEW n \in Nat \ {0}, NEW x
  PROVE Holds(n, NewRing(n, x), <<>>)
BY SMT DEF Holds, NewRing, Smaller

\* Pushing appends: head moves on, and every kept entry is one place older.
LEMMA PushHolds ==
  ASSUME NEW n \in Nat \ {0}, NEW S, NEW s \in Seq(S), NEW x \in S, NEW r, Holds(n, r, s)
  PROVE Holds(n, PushRing(n, r, x), Append(s, x))
<1> DEFINE q == PushRing(n, r, x)
           s2 == Append(s, x)
           h == r.head
<1>1. /\ q = [head |-> q.head, filled |-> q.filled, data |-> q.data]
      /\ q.head = (h + 1) % n /\ q.filled = Smaller(r.filled + 1, n)
      /\ q.data = [r.data EXCEPT ![h] = x]
  BY SMT DEF PushRing
<1>2. s2 \in Seq(S) /\ Len(s2) = Len(s) + 1 /\ Len(s) \in Nat /\ s2[Len(s) + 1] = x
      /\ \A i \in 1 .. Len(s) : s2[i] = s[i]
  OBVIOUS
<1>3. h \in 0 .. n - 1 /\ q.head = Slot(n, h + 1) /\ q.head \in 0 .. n - 1
  <2>1. h \in 0 .. n - 1
    BY DEF Holds
  <2>2. q.head = Slot(n, h + 1)
    BY <1>1, <2>1, Wrap, SMT
  <2> QED BY <2>1, <2>2, SMT DEF Slot
<1>4. q.filled = Smaller(Len(s2), n)
  BY <1>1, <1>2, SMT DEF Smaller, Holds
<1>5. DOMAIN q.data = 0 .. n - 1 /\ q.data[h] = x
      /\ \A i \in (0 .. n - 1) \ {h} : q.data[i] = r.data[i]
  BY <1>1, <1>3 DEF Holds
<1> HIDE DEF q, s2
<1>6. ASSUME Len(s2) < n
      PROVE q.head = Len(s2) /\ \A i \in 0 .. Len(s2) - 1 : q.data[i] = s2[i + 1]
  <2>1. h = Len(s) /\ \A i \in 0 .. Len(s) - 1 : r.data[i] = s[i + 1]
    BY <1>2, <1>6, SMT DEF Holds
  <2>2. q.head = Len(s2)
    BY <1>2, <1>3, <1>6, <2>1, SMT DEF Slot
  <2> QED BY <1>2, <1>5, <1>6, <2>1, <2>2, SMT
<1>7. ASSUME Len(s2) >= n, NEW j \in 0 .. n - 1
      PROVE q.data[Slot(n, q.head + j)] = s2[Len(s2) - n + 1 + j]
  <2>1. CASE j = n - 1
    <3>1. Slot(n, q.head + j) = h
      BY <1>3, <2>1, Around
    <3> QED BY <1>2, <1>5, <2>1, <3>1, SMT
  <2>2. CASE j < n - 1
    <3>1. /\ Slot(n, q.head + j) = Slot(n, h + (j + 1))
          /\ Slot(n, h + (j + 1)) \in (0 .. n - 1) \ {h}
      <4>1. h \in 0 .. n - 1 /\ q.head = Slot(n, h + 1)
        BY <1>3
      <4> HIDE DEF h
      <4>2. /\ Slot(n, Slot(n, h + 1) + j) = Slot(n, h + (j + 1))
            /\ Slot(n, h + (j + 1)) \in (0 .. n - 1) \ {h}
        BY <2>2, <4>1, Around
      <4> QED BY <4>1, <4>2
    <3>2. q.data[Slot(n, q.head + j)] = r.data[Slot(n, h + (j + 1))]
      BY <1>5, <3>1
    <3>3. CASE Len(s) >= n
      <4>1. \A k \in 0 .. n - 1 : r.data[Slot(n, h + k)] = s[Len(s) - n + 1 + k]
        BY <3>3 DEF Holds
      <4>2. j + 1 \in 0 .. n - 1
        BY <2>2, SMT
      <4>3. r.data[Slot(n, h + (j + 1))] = s[Len(s) - n + 1 + (j + 1)]
        BY <4>1, <4>2
      <4>4. /\ Len(s) - n + 1 + (j + 1) = Len(s2) - n + 1 + j
            /\ Len(s) - n + 1 + (j + 1) \in 1 .. Len(s)
        BY <1>2, <2>2, <3>3, SMT
      <4> QED BY <1>2, <3>2, <4>3, <4>4
    <3>4. CASE Len(s) < n
      <4>1. h = Len(s) /\ Len(s) = n - 1 /\ \A i \in 0 .. Len(s) - 1 : r.data[i] = s[i + 1]
        BY <1>2, <1>7, <3>4, SMT DEF Holds
      <4>2. Slot(n, h + (j + 1)) = j
        BY <4>1, <2>2, SMT DEF Slot
      <4>3. r.data[j] = s[j + 1]
        BY <4>1, <2>2, SMT
      <4>4. Len(s2) - n + 1 + j = j + 1 /\ j + 1 \in 1 .. Len(s)
        BY <1>2, <2>2, <4>1, SMT
      <4> QED BY <1>2, <3>2, <4>2, <4>3, <4>4
    <3> QED BY <1>2, <3>3, <3>4, SMT
  <2> QED BY <2>1, <2>2, SMT
<1> QED BY <1>1, <1>3, <1>4, <1>5, <1>6, <1>7 DEF Holds, q, s2

\* Behind the first of two sequences comes the second.
LEMMA Second ==
  ASSUME NEW S, NEW a \in Seq(S), NEW b \in Seq(S), NEW i \in 1 .. Len(a) + Len(b), i > Len(a)
  PROVE (a \o b)[i] = b[i - Len(a)]
OBVIOUS

\* The last entries of a sequence, by index.
LEMMA Lasts ==
  ASSUME NEW n \in Nat \ {0}, NEW S, NEW s \in Seq(S)
  PROVE /\ LastOf(n, s) \in Seq(S) /\ Len(LastOf(n, s)) = Smaller(Len(s), n)
        /\ Len(s) <= n => LastOf(n, s) = s
        /\ Len(s) > n => \A i \in 1 .. n : LastOf(n, s)[i] = s[Len(s) - n + i]
BY SMT DEF LastOf, Smaller

\* What StepHistory.view shows is the end of what was pushed, oldest first.
LEMMA ViewOfRing ==
  ASSUME NEW n \in Nat \ {0}, NEW S, NEW s \in Seq(S), NEW r, Holds(n, r, s)
  PROVE StepView(n, r) = LastOf(n, s)
<1>1. CASE Len(s) < n
  <2>1. r.filled = Len(s) /\ \A i \in 0 .. Len(s) - 1 : r.data[i] = s[i + 1]
    BY <1>1, SMT DEF Holds, Smaller
  <2>2. StepView(n, r) = [i \in 1 .. Len(s) |-> s[i]]
    BY <1>1, <2>1, SMT DEF StepView
  <2>3. LastOf(n, s) = s /\ s = [i \in 1 .. Len(s) |-> s[i]]
    BY <1>1, SMT DEF LastOf
  <2> QED BY <2>2, <2>3
<1>2. CASE Len(s) >= n
  <2> DEFINE h == r.head
             old == [i \in 1 .. n - h |-> r.data[h + i - 1]]
             new == [i \in 1 .. h |-> r.data[i - 1]]
             d(i) == s[Len(s) - n + i]
  <2>1. h \in 0 .. n - 1 /\ r.filled = n
        /\ \A j \in 0 .. n - 1 : r.data[Slot(n, h + j)] = s[Len(s) - n + 1 + j]
    BY <1>2, SMT DEF Holds, Smaller
  <2>2. StepView(n, r) = old \o new
    <3>1. ~(r.filled < n)
      BY <2>1, SMT
    <3> QED BY <3>1 DEF StepView
  <2>3. \A i \in 1 .. n - h : r.data[h + i - 1] = d(i) /\ d(i) \in S
    <3> SUFFICES ASSUME NEW i \in 1 .. n - h PROVE r.data[h + i - 1] = d(i) /\ d(i) \in S
      OBVIOUS
    <3>1. i - 1 \in 0 .. n - 1 /\ Slot(n, h + (i - 1)) = h + i - 1
      <4>1. h \in 0 .. n - 1
        BY <2>1
      <4> HIDE DEF h
      <4> QED BY <4>1, SMT DEF Slot
    <3>2. r.data[h + i - 1] = s[Len(s) - n + 1 + (i - 1)]
      BY <2>1, <3>1
    <3>3. Len(s) - n + 1 + (i - 1) = Len(s) - n + i /\ Len(s) - n + i \in 1 .. Len(s)
      <4>1. h \in 0 .. n - 1 /\ Len(s) \in Nat
        BY <2>1
      <4> HIDE DEF h
      <4> QED BY <1>2, <4>1, SMT
    <3> QED BY <3>2, <3>3
  <2>4. \A i \in 1 .. h : r.data[i - 1] = d(n - h + i) /\ d(n - h + i) \in S
    <3> SUFFICES ASSUME NEW i \in 1 .. h PROVE r.data[i - 1] = d(n - h + i) /\ d(n - h + i) \in S
      OBVIOUS
    <3>1. n - h + i - 1 \in 0 .. n - 1 /\ Slot(n, h + (n - h + i - 1)) = i - 1
      <4>1. h \in 0 .. n - 1
        BY <2>1
      <4> HIDE DEF h
      <4> QED BY <4>1, SMT DEF Slot
    <3>2. r.data[i - 1] = s[Len(s) - n + 1 + (n - h + i - 1)]
      BY <2>1, <3>1
    <3>3. Len(s) - n + 1 + (n - h + i - 1) = Len(s) - n + (n - h + i)
          /\ Len(s) - n + (n - h + i) \in 1 .. Len(s)
      <4>1. h \in Nat /\ h < n /\ Len(s) \in Nat /\ i \in Nat /\ 1 <= i /\ i <= h
        BY <2>1
      <4> HIDE DEF h
      <4> QED BY <1>2, <4>1, SMT
    <3> QED BY <3>2, <3>3
  <2>5. old \in Seq(S) /\ new \in Seq(S) /\ Len(old) = n - h /\ Len(new) = h
    <3>1. h \in Nat /\ n - h \in Nat
      BY <2>1, SMT
    <3>2. old \in [1 .. n - h -> S] /\ new \in [1 .. h -> S]
      BY <2>3, <2>4
    <3> HIDE DEF h, old, new
    <3> QED BY <3>1, <3>2, SMT
  <2>6. old \o new \in Seq(S) /\ Len(old \o new) = n
    BY <2>1, <2>5, SMT
  <2>7. \A i \in 1 .. n : (old \o new)[i] = d(i)
    <3> SUFFICES ASSUME NEW i \in 1 .. n PROVE (old \o new)[i] = d(i)
      OBVIOUS
    <3>1. CASE i <= n - h
      <4>1. (old \o new)[i] = old[i]
        BY <2>5, <3>1, <2>1
      <4>2. i \in 1 .. n - h
        BY <3>1, <2>1
      <4>3. old[i] = r.data[h + i - 1]
        BY <4>2
      <4>4. r.data[h + i - 1] = d(i)
        BY <4>2, <2>3
      <4> HIDE DEF h, old, new, d
      <4> QED BY <4>1, <4>3, <4>4
    <3>2. CASE i > n - h
      <4>1. (old \o new)[i] = new[i - (n - h)]
        <5>1. h \in Nat /\ n - h \in Nat
          BY <2>1, SMT
        <5> HIDE DEF h, old, new
        <5>2. i \in 1 .. Len(old) + Len(new) /\ i > Len(old)
          BY <2>5, <3>2, <5>1, SMT
        <5> QED BY <2>5, <5>2, Second
      <4>2. i - (n - h) \in 1 .. h /\ n - h + (i - (n - h)) = i
        BY <3>2, <2>1, SMT
      <4>3. new[i - (n - h)] = r.data[(i - (n - h)) - 1]
        BY <4>2
      <4>4. r.data[(i - (n - h)) - 1] = d(n - h + (i - (n - h)))
        BY <4>2, <2>4
      <4>5. d(n - h + (i - (n - h))) = d(i)
        BY <4>2
      <4> HIDE DEF h, old, new, d
      <4> QED BY <4>1, <4>3, <4>4, <4>5
    <3>3. i <= n - h \/ i > n - h
      BY <2>1, SMT
    <3> QED BY <3>1, <3>2, <3>3
  <2>8. LastOf(n, s) \in Seq(S) /\ Len(LastOf(n, s)) = n /\ \A i \in 1 .. n : LastOf(n, s)[i] = d(i)
    BY <1>2, Lasts, SMT DEF Smaller
  <2> HIDE DEF old, new, d
  <2>9. old \o new = LastOf(n, s)
    BY <2>6, <2>7, <2>8
  <2> QED BY <2>2, <2>9
<1> QED BY <1>1, <1>2, SMT

\* An aggregate table holds the end of s: its rows are appended before they are
\* overwritten, and counted from 1.
HoldsRows(n, r, s) ==
  /\ r = [head |-> r.head, filled |-> r.filled, data |-> r.data]
  /\ r.filled = Smaller(Len(s), n) /\ r.head \in 0 .. n - 1
  /\ Len(s) < n => r.head = Len(s) % n /\ r.data = s
  /\ Len(s) >= n => /\ DOMAIN r.data = 1 .. n
                    /\ \A j \in 0 .. n - 1 : r.data[Slot(n, r.head + j) + 1] = s[Len(s) - n + 1 + j]

\* A new table holds nothing.
LEMMA NewHoldsRows ==
  ASSUME NEW n \in Nat \ {0}
  PROVE HoldsRows(n, NewTable, <<>>)
<1>1. 0 % n = 0
  BY Wrap, SMT DEF Slot
<1> QED BY <1>1, SMT DEF HoldsRows, NewTable, Smaller

\* Pushing a row appends it, whether the table still grows or overwrites.
LEMMA PushHoldsRows ==
  ASSUME NEW n \in Nat \ {0}, NEW S, NEW s \in Seq(S), NEW x \in S, NEW r, HoldsRows(n, r, s)
  PROVE HoldsRows(n, PushTable(n, r, x), Append(s, x))
<1> DEFINE q == PushTable(n, r, x)
           s2 == Append(s, x)
           h == r.head
<1>1. /\ q = [head |-> q.head, filled |-> q.filled, data |-> q.data]
      /\ q.head = (h + 1) % n
      /\ q.filled = IF r.filled < n THEN r.filled + 1 ELSE r.filled
      /\ q.data = IF r.filled < n THEN Append(r.data, x) ELSE [r.data EXCEPT ![h + 1] = x]
  BY SMT DEF PushTable
<1>2. s2 \in Seq(S) /\ Len(s2) = Len(s) + 1 /\ Len(s) \in Nat /\ s2[Len(s) + 1] = x
      /\ \A i \in 1 .. Len(s) : s2[i] = s[i]
  OBVIOUS
<1>3. h \in 0 .. n - 1 /\ q.head = Slot(n, h + 1) /\ q.head \in 0 .. n - 1
  <2>1. h \in 0 .. n - 1
    BY DEF HoldsRows
  <2>2. q.head = Slot(n, h + 1)
    BY <1>1, <2>1, Wrap, SMT
  <2> QED BY <2>1, <2>2, SMT DEF Slot
<1>4. q.filled = Smaller(Len(s2), n)
  BY <1>1, <1>2, SMT DEF Smaller, HoldsRows
<1>5. CASE Len(s) < n
  <2>1. Slot(n, Len(s)) = Len(s) /\ Len(s) < 2 * n
    BY <1>2, <1>5, SMT DEF Slot
  <2>2. h = Len(s) /\ r.data = s /\ r.filled < n
    BY <1>2, <1>5, <2>1, Wrap, SMT DEF HoldsRows, Smaller
  <2>3. q.data = s2
    BY <1>1, <2>2
  <2> HIDE DEF q, s2
  <2>4. CASE Len(s2) < n
    <3>1. q.head = Len(s2)
      BY <1>2, <1>3, <2>2, <2>4, SMT DEF Slot
    <3>2. Len(s2) % n = Len(s2)
      BY <1>2, <2>4, Wrap, SMT DEF Slot
    <3>3. ~(Len(s2) >= n)
      BY <1>2, <2>4, SMT
    <3> QED BY <1>1, <1>3, <1>4, <2>3, <3>1, <3>2, <3>3 DEF HoldsRows, q, s2
  <2>5. CASE Len(s2) = n
    <3>1. q.head = 0
      BY <1>2, <1>3, <2>2, <2>5, SMT DEF Slot
    <3>2. DOMAIN q.data = 1 .. n
      BY <1>2, <2>3, <2>5
    <3>3. ASSUME NEW j \in 0 .. n - 1
          PROVE q.data[Slot(n, q.head + j) + 1] = s2[Len(s2) - n + 1 + j]
      <4>1. Slot(n, q.head + j) + 1 = Len(s2) - n + 1 + j
        BY <2>5, <3>1, SMT DEF Slot
      <4> QED BY <2>3, <4>1
    <3>4. ~(Len(s2) < n)
      BY <2>5, SMT
    <3> QED BY <1>1, <1>3, <1>4, <3>2, <3>3, <3>4 DEF HoldsRows, q, s2
  <2> QED BY <1>2, <1>5, <2>4, <2>5, SMT
<1>6. CASE Len(s) >= n
  <2>1. q.data = [r.data EXCEPT ![h + 1] = x] /\ DOMAIN r.data = 1 .. n
    BY <1>1, <1>2, <1>6, SMT DEF HoldsRows, Smaller
  <2>2. DOMAIN q.data = 1 .. n /\ q.data[h + 1] = x
        /\ \A i \in (1 .. n) \ {h + 1} : q.data[i] = r.data[i]
    BY <1>3, <2>1
  <2> HIDE DEF q, s2
  <2>3. ASSUME NEW j \in 0 .. n - 1
        PROVE q.data[Slot(n, q.head + j) + 1] = s2[Len(s2) - n + 1 + j]
    <3>1. CASE j = n - 1
      <4>1. Slot(n, q.head + j) = h
        BY <1>3, <3>1, Around
      <4>2. Len(s2) - n + 1 + j = Len(s) + 1
        BY <1>2, <3>1, SMT
      <4> QED BY <1>2, <2>2, <4>1, <4>2
    <3>2. CASE j < n - 1
      <4>1. /\ Slot(n, q.head + j) = Slot(n, h + (j + 1))
            /\ Slot(n, h + (j + 1)) + 1 \in (1 .. n) \ {h + 1}
        <5>1. /\ Slot(n, q.head + j) = Slot(n, h + (j + 1))
              /\ Slot(n, h + (j + 1)) \in (0 .. n - 1) \ {h}
          <6>1. h \in 0 .. n - 1 /\ q.head = Slot(n, h + 1)
            BY <1>3
          <6> HIDE DEF h
          <6>2. /\ Slot(n, Slot(n, h + 1) + j) = Slot(n, h + (j + 1))
                /\ Slot(n, h + (j + 1)) \in (0 .. n - 1) \ {h}
            BY <3>2, <6>1, Around
          <6> QED BY <6>1, <6>2
        <5>2. h \in 0 .. n - 1
          BY <1>3
        <5> HIDE DEF h
        <5> QED BY <5>1, <5>2, SMT
      <4>2. \A k \in 0 .. n - 1 : r.data[Slot(n, h + k) + 1] = s[Len(s) - n + 1 + k]
        BY <1>6 DEF HoldsRows
      <4>3. j + 1 \in 0 .. n - 1
        BY <3>2, SMT
      <4>4. /\ Len(s) - n + 1 + (j + 1) = Len(s2) - n + 1 + j
            /\ Len(s) - n + 1 + (j + 1) \in 1 .. Len(s)
        BY <1>2, <1>6, <3>2, SMT
      <4>5. q.data[Slot(n, q.head + j) + 1] = r.data[Slot(n, h + (j + 1)) + 1]
        BY <2>2, <4>1
      <4>6. r.data[Slot(n, h + (j + 1)) + 1] = s[Len(s) - n + 1 + (j + 1)]
        BY <4>2, <4>3
      <4> QED BY <1>2, <4>4, <4>5, <4>6
    <3> QED BY <3>1, <3>2, SMT
  <2>4. ~(Len(s2) < n)
    BY <1>2, <1>6, SMT
  <2> QED BY <1>1, <1>3, <1>4, <2>2, <2>3, <2>4 DEF HoldsRows, q, s2
<1> QED BY <1>2, <1>5, <1>6, SMT

\* What AggregateTable.iter shows is the end of what was pushed, oldest first.
LEMMA ViewOfTable ==
  ASSUME NEW n \in Nat \ {0}, NEW S, NEW s \in Seq(S), NEW r, HoldsRows(n, r, s)
  PROVE TableView(n, r) = LastOf(n, s)
<1> DEFINE h == r.head
<1>1. h \in 0 .. n - 1 /\ r.filled = Smaller(Len(s), n) /\ Len(s) \in Nat
  BY DEF HoldsRows
<1>2. CASE Len(s) < n
  <2>1. r.filled = Len(s) /\ RingStart(n, r) = 0 /\ r.data = s
    BY <1>1, <1>2, SMT DEF RingStart, Smaller, HoldsRows
  <2>2. \A i \in 1 .. Len(s) : (0 + i - 1) % n = i - 1
    <3> SUFFICES ASSUME NEW i \in 1 .. Len(s) PROVE (0 + i - 1) % n = i - 1
      OBVIOUS
    <3>1. 0 + i - 1 \in Nat /\ 0 + i - 1 < 2 * n /\ Slot(n, 0 + i - 1) = i - 1
      BY <1>2, SMT DEF Slot
    <3> QED BY <3>1, Wrap
  <2>3. TableView(n, r) = [i \in 1 .. Len(s) |-> s[(i - 1) + 1]]
    BY <2>1, <2>2 DEF TableView
  <2>4. \A i \in 1 .. Len(s) : (i - 1) + 1 = i
    BY SMT
  <2>5. TableView(n, r) = [i \in 1 .. Len(s) |-> s[i]]
    BY <2>3, <2>4
  <2>6. LastOf(n, s) = s /\ s = [i \in 1 .. Len(s) |-> s[i]]
    BY <1>2, SMT DEF LastOf
  <2> QED BY <2>5, <2>6
<1>3. CASE Len(s) >= n
  <2>1. r.filled = n /\ RingStart(n, r) = h
    BY <1>1, <1>3, SMT DEF RingStart, Smaller
  <2>2. ASSUME NEW i \in 1 .. n
        PROVE r.data[((h + i - 1) % n) + 1] = s[Len(s) - n + i]
    <3>1. h + i - 1 = h + (i - 1) /\ h + (i - 1) \in Nat /\ h + (i - 1) < 2 * n /\ i - 1 \in 0 .. n - 1
      BY <1>1, SMT
    <3>2. (h + i - 1) % n = Slot(n, h + (i - 1))
      BY <3>1, Wrap
    <3>3. r.data[Slot(n, h + (i - 1)) + 1] = s[Len(s) - n + 1 + (i - 1)]
      BY <1>3, <3>1 DEF HoldsRows
    <3>4. Len(s) - n + 1 + (i - 1) = Len(s) - n + i
      BY <1>1, SMT
    <3> QED BY <3>2, <3>3, <3>4
  <2>3. TableView(n, r) = [i \in 1 .. n |-> s[Len(s) - n + i]]
    BY <2>1, <2>2 DEF TableView
  <2>4. LastOf(n, s) \in Seq(S) /\ Len(LastOf(n, s)) = n
        /\ \A i \in 1 .. n : LastOf(n, s)[i] = s[Len(s) - n + i]
    BY <1>1, <1>3, Lasts, SMT DEF Smaller
  <2>5. LastOf(n, s) = [i \in 1 .. n |-> LastOf(n, s)[i]]
    BY <2>4
  <2> QED BY <2>3, <2>4, <2>5
<1> QED BY <1>1, <1>2, <1>3, SMT

-----------------------------------------------------------------------------
(***************************************************************************)
(* Induction, in sets: the natural numbers are well founded, so a set of   *)
(* them has a least one.                                                   *)
(***************************************************************************)
(* A set of numbers that is not empty has a least one. *)
LEMMA Least ==
  ASSUME NEW T, T \subseteq Nat, T # {}
  PROVE  \E x \in T : \A y \in T : x <= y
<1>1. \E x \in T : \A y \in T : ~ (<<y, x>> \in OpToRel(<, Nat))
  BY NatLessThanWellFounded, WFMin, Zenon
<1>2. OpToRel(<, Nat) = {ss \in Nat \X Nat : ss[1] < ss[2]}
  BY Zenon DEF OpToRel
<1>3. \E x \in T : \A y \in T : ~ (<<y, x>> \in {ss \in Nat \X Nat : ss[1] < ss[2]})
  BY <1>1, <1>2, Zenon
<1>4. PICK x \in T : \A y \in T : ~ (<<y, x>> \in {ss \in Nat \X Nat : ss[1] < ss[2]})
  BY <1>3
<1>5. ASSUME NEW y \in T PROVE x <= y
  <2>1. x \in Nat /\ y \in Nat
    OBVIOUS
  <2>2. <<y, x>> \in Nat \X Nat /\ <<y, x>>[1] = y /\ <<y, x>>[2] = x
    BY <2>1
  <2>3. ~ (y < x)
    BY <1>4, <2>2, Zenon
  <2>4. QED
    BY <2>1, <2>3
<1>6. QED
  BY <1>5

(* A set that holds 0 and with a number the next one holds them all. *)
LEMMA Induct ==
  ASSUME NEW T, 0 \in T, \A n \in Nat : n \in T => n + 1 \in T
  PROVE  Nat \subseteq T
<1> DEFINE U == Nat \ T
<1>1. SUFFICES ASSUME U # {} PROVE FALSE
  OBVIOUS
<1>2. PICK x \in U : \A y \in U : x <= y
  BY <1>1, Least
<1>3. x # 0 /\ x - 1 \in Nat /\ x - 1 \notin U
  BY <1>2
<1>4. QED
  BY <1>2, <1>3

(* Steps one after the other, each a function on a set, have a run. *)
Machine(N, V, x, F)  == N \in Nat /\ x \in V /\ F \in [1 .. N -> [V -> V]]
RunOf(f, N, V, x, F) == f \in [0 .. N -> V] /\ f[0] = x /\ \A k \in 1 .. N : f[k] = F[k][f[k - 1]]
LEMMA Recursion ==
  ASSUME NEW N, NEW V, NEW x, NEW F, Machine(N, V, x, F)
  PROVE  \E f : RunOf(f, N, V, x, F)
<1> DEFINE Goes(f, n) == f \in [0 .. n -> V] /\ f[0] = x /\ \A k \in 1 .. n : f[k] = F[k][f[k - 1]]
           T == {n \in Nat : n <= N => \E f : Goes(f, n)}
<1>0. N \in Nat /\ x \in V /\ F \in [1 .. N -> [V -> V]]
  BY DEF Machine
<1>1. 0 \in T
  <2>1. Goes([k \in 0 .. 0 |-> x], 0)
    BY <1>0
  <2>2. QED
    BY <2>1
<1>2. ASSUME NEW n \in Nat, n \in T PROVE n + 1 \in T
  <2>1. SUFFICES ASSUME n + 1 <= N PROVE \E f : Goes(f, n + 1)
    OBVIOUS
  <2>2. PICK f : Goes(f, n)
    BY <1>0, <1>2, <2>1
  <2>3. f[n] \in V /\ F[n + 1] \in [V -> V] /\ F[n + 1][f[n]] \in V
    BY <1>0, <2>1, <2>2
  <2> DEFINE g == [k \in 0 .. n + 1 |-> IF k = n + 1 THEN F[n + 1][f[n]] ELSE f[k]]
  <2>4. g \in [0 .. n + 1 -> V] /\ g[0] = x
    BY <2>2, <2>3
  <2>5. ASSUME NEW k \in 1 .. n + 1 PROVE g[k] = F[k][g[k - 1]]
    <3>1. k - 1 \in 0 .. n + 1 /\ k - 1 # n + 1 /\ g[k - 1] = f[k - 1]
      OBVIOUS
    <3>2. CASE k = n + 1
      <4>1. g[k] = F[n + 1][f[n]] /\ k - 1 = n
        BY <3>2
      <4>2. QED
        BY <3>1, <3>2, <4>1
    <3>3. CASE k # n + 1
      <4>1. k \in 1 .. n /\ g[k] = f[k]
        BY <3>3
      <4>2. f[k] = F[k][f[k - 1]]
        BY <2>2, <4>1
      <4>3. QED
        BY <3>1, <4>1, <4>2
    <3>4. QED
      BY <3>2, <3>3
  <2>6. Goes(g, n + 1)
    <3> HIDE DEF g
    <3>1. QED
      BY <2>4, <2>5
  <2> HIDE DEF Goes
  <2>7. QED
    BY <2>6
<1>3. N \in T
  <2> HIDE DEF T
  <2>1. QED
    BY <1>0, <1>1, <1>2, Induct
<1>4. QED
  BY <1>3 DEF RunOf

-----------------------------------------------------------------------------
(* Sequences of anything *)

IsLog(l) == \E S : l \in Seq(S)

LEMMA LogIs ==
  ASSUME NEW s, IsLog(s)
  PROVE  Len(s) \in Nat /\ DOMAIN s = 1 .. Len(s)
BY DEF IsLog

LEMMA MappedLog ==
  ASSUME NEW n \in Nat, NEW f, f = [i \in 1 .. n |-> f[i]]
  PROVE  IsLog(f) /\ Len(f) = n /\ DOMAIN f = 1 .. n
<1> DEFINE S == {f[i] : i \in 1 .. n}
<1>1. f \in [1 .. n -> S]
  OBVIOUS
<1> HIDE DEF S
<1>2. f \in Seq(S) /\ Len(f) = n /\ DOMAIN f = 1 .. n
  BY <1>1
<1> QED BY <1>2 DEF IsLog

LEMMA AppendedLog ==
  ASSUME NEW l, IsLog(l), NEW e
  PROVE  /\ IsLog(Append(l, e)) /\ Len(Append(l, e)) = Len(l) + 1
         /\ Append(l, e)[Len(l) + 1] = e /\ \A i \in 1 .. Len(l) : Append(l, e)[i] = l[i]
<1>1. PICK S : l \in Seq(S)
  BY DEF IsLog
<1>2. l \in Seq(S \cup {e}) /\ Append(l, e) \in Seq(S \cup {e})
  BY <1>1
<1> QED BY <1>1, <1>2 DEF IsLog

-----------------------------------------------------------------------------
(* The game step keeps its rings *)

\* Every entry of a log has a sequence of rows of one kind.
RowsOK(l, A) == IsLog(l) /\ \A i \in 1 .. Len(l) : l[i].rows \in Seq(A)

HInv ==
  /\ {"steps", "aggs", "payoff", "n", "counts", "plays", "pairs", "held"} \subseteq DOMAIN world
  /\ \E A : RowsOK(log, A)
  /\ Holds(HistoryLen, world.steps, Records(log))
  /\ HoldsRows(HistoryLen, world.aggs, Rows(log))

\* One more entry of a log adds its rows; an empty log has none.
LEMMA RowsGrow ==
  ASSUME NEW A, NEW l, RowsOK(l, A), NEW e, e.rows \in Seq(A)
  PROVE  /\ Rows(l) \in Seq(A) /\ Rows(<<>>) = <<>>
         /\ Rows(Append(l, e)) = Rows(l) \o e.rows
         /\ RowsOK(Append(l, e), A)
<1> DEFINE V == Seq(A)
           next(m, k, s) == s \o m[k].rows
           Is(f, m) == f = [k \in 0 .. Len(m) |-> IF k = 0 THEN <<>> ELSE next(m, k, f[k - 1])]
           run(m) == CHOOSE f : Is(f, m)
<1>2. ASSUME NEW m, RowsOK(m, A)
      PROVE  /\ run(m) \in [0 .. Len(m) -> V] /\ run(m)[0] = <<>> /\ Rows(m) = run(m)[Len(m)]
             /\ \A k \in 1 .. Len(m) : run(m)[k] = next(m, k, run(m)[k - 1])
  <2> DEFINE N == Len(m)
  <2>1. N \in Nat /\ \A k \in 1 .. N : m[k].rows \in V
    BY <1>2, LogIs DEF RowsOK
  <2>2. ASSUME NEW k \in 1 .. N, NEW s \in V PROVE next(m, k, s) \in V
    <3>1. m[k].rows \in Seq(A) /\ s \in Seq(A)
      BY <2>1
    <3> QED BY <3>1
  <2>3. <<>> \in V
    OBVIOUS
  <2>4. Rows(m) = run(m)[N]
    BY DEF Rows
  <2> HIDE DEF N, V, next
  <2>5. PICK F : F = [k \in 1 .. N |-> [s \in V |-> next(m, k, s)]]
    OBVIOUS
  <2>6. Machine(N, V, <<>>, F)
    BY <2>1, <2>2, <2>3, <2>5 DEF Machine
  <2>7. PICK g : RunOf(g, N, V, <<>>, F)
    BY <2>6, Recursion, Zenon
  <2>8. g \in [0 .. N -> V] /\ g[0] = <<>> /\ \A k \in 1 .. N : g[k] = F[k][g[k - 1]]
    BY <2>7 DEF RunOf
  <2>9. \A k \in 1 .. N : g[k] = next(m, k, g[k - 1])
    BY <2>1, <2>5, <2>8
  <2>10. Is(g, m)
    <3>1. g = [k \in 0 .. N |-> g[k]]
      BY <2>8
    <3>2. \A k \in 0 .. N : g[k] = IF k = 0 THEN <<>> ELSE next(m, k, g[k - 1])
      BY <2>8, <2>9
    <3> QED BY <3>1, <3>2 DEF N
  <2>11. Is(run(m), m)
    <3> HIDE DEF Is
    <3> QED BY <2>10, Zenon
  <2> HIDE DEF run
  <2>12. /\ run(m) = [k \in 0 .. N |-> run(m)[k]] /\ run(m)[0] = <<>>
         /\ \A k \in 1 .. N : run(m)[k] = next(m, k, run(m)[k - 1])
    <3>1. PICK h : h = run(m)
      OBVIOUS
    <3>2. h = [k \in 0 .. N |-> IF k = 0 THEN <<>> ELSE next(m, k, h[k - 1])]
      BY <2>11, <3>1 DEF N
    <3>3. 0 \in 0 .. N /\ \A k \in 1 .. N : k \in 0 .. N /\ k # 0
      BY <2>1
    <3>4. h = [k \in 0 .. N |-> h[k]] /\ h[0] = <<>> /\ \A k \in 1 .. N : h[k] = next(m, k, h[k - 1])
      BY <3>2, <3>3
    <3> QED BY <3>1, <3>4
  <2>13. \A k \in 0 .. N : run(m)[k] \in V
    <3> DEFINE T == {k \in Nat : k <= N => run(m)[k] \in V}
    <3>1. 0 \in T
      BY <2>3, <2>12
    <3>2. ASSUME NEW k \in Nat, k \in T PROVE k + 1 \in T
      <4>1. SUFFICES ASSUME k + 1 <= N PROVE run(m)[k + 1] \in V
        OBVIOUS
      <4>2. run(m)[k] \in V /\ k + 1 \in 1 .. N /\ (k + 1) - 1 = k
        BY <2>1, <3>2, <4>1
      <4>3. run(m)[k + 1] = next(m, k + 1, run(m)[(k + 1) - 1])
        BY <2>12, <4>2
      <4> QED BY <2>2, <4>2, <4>3
    <3> HIDE DEF T
    <3>3. Nat \subseteq T
      BY <3>1, <3>2, Induct
    <3> QED BY <3>3 DEF T
  <2>14. run(m) \in [0 .. N -> V]
    BY <2>12, <2>13
  <2> QED BY <2>4, <2>12, <2>14 DEF N
<1> DEFINE l2 == Append(l, e)
<1>3. Len(l) \in Nat /\ Len(l2) = Len(l) + 1 /\ l2[Len(l) + 1] = e /\ (\A i \in 1 .. Len(l) : l2[i] = l[i])
      /\ IsLog(l2)
  <2>1. IsLog(l)
    BY DEF RowsOK
  <2> HIDE DEF l2
  <2> QED BY <2>1, LogIs, AppendedLog DEF l2
<1> HIDE DEF l2, run, V, next
<1>4. RowsOK(l2, A)
  <2>1. ASSUME NEW j \in 1 .. Len(l2) PROVE l2[j].rows \in Seq(A)
    <3>1. j \in 1 .. Len(l) \/ j = Len(l) + 1
      BY <1>3
    <3>2. \A i \in 1 .. Len(l) : l[i].rows \in Seq(A)
      BY DEF RowsOK
    <3> QED BY <1>3, <3>1, <3>2, Zenon
  <2> QED BY <1>3, <2>1, Zenon DEF RowsOK
<1>5. RowsOK(<<>>, A) /\ Len(<<>>) = 0
  BY DEF RowsOK, IsLog
<1>6. \A k \in 0 .. Len(l) : run(l2)[k] = run(l)[k]
  <2> DEFINE T == {k \in Nat : k <= Len(l) => run(l2)[k] = run(l)[k]}
  <2>1. 0 \in T
    BY <1>2, <1>4
  <2>2. ASSUME NEW k \in Nat, k \in T PROVE k + 1 \in T
    <3>1. SUFFICES ASSUME k + 1 <= Len(l) PROVE run(l2)[k + 1] = run(l)[k + 1]
      OBVIOUS
    <3>2. k + 1 \in 1 .. Len(l) /\ k + 1 \in 1 .. Len(l2) /\ (k + 1) - 1 = k /\ run(l2)[k] = run(l)[k]
      BY <1>3, <2>2, <3>1
    <3>3. l2[k + 1] = l[k + 1]
      BY <1>3, <3>2
    <3>4. run(l)[k + 1] = next(l, k + 1, run(l)[k]) /\ run(l2)[k + 1] = next(l2, k + 1, run(l2)[k])
      BY <1>2, <1>4, <3>2
    <3> QED BY <3>2, <3>3, <3>4 DEF next
  <2> HIDE DEF T
  <2>3. Nat \subseteq T
    BY <2>1, <2>2, Induct
  <2> QED BY <2>3 DEF T
<1>7. Rows(l2) = next(l2, Len(l) + 1, run(l)[Len(l)])
  <2>1. Len(l) + 1 \in 1 .. Len(l2) /\ (Len(l) + 1) - 1 = Len(l) /\ Len(l) \in 0 .. Len(l)
    BY <1>3
  <2> QED BY <1>2, <1>3, <1>4, <1>6, <2>1
<1>8. Rows(l) = run(l)[Len(l)] /\ Rows(l) \in V
  <2>1. Len(l) \in 0 .. Len(l)
    BY <1>3
  <2> QED BY <1>2, <2>1
<1>9. Rows(<<>>) = <<>>
  BY <1>2, <1>5
<1> QED BY <1>3, <1>4, <1>7, <1>8, <1>9 DEF next, V, l2

\* A committed entry is one more record and at most one more row.
LEMMA OneMore ==
  ASSUME NEW l, IsLog(l), NEW e
  PROVE /\ Records(Append(l, e)) = Append(Records(l), e.records)
        /\ \E S : Records(l) \in Seq(S) /\ e.records \in S
<1>1. PICK S : l \in Seq(S)
  BY DEF IsLog
<1> DEFINE m == Append(l, e)
<1>2. l \in Seq(S \cup {e}) /\ m \in Seq(S \cup {e}) /\ Len(l) \in Nat /\ DOMAIN l = 1 .. Len(l)
  BY <1>1
<1>3. DOMAIN m = 1 .. Len(l) + 1 /\ m[Len(l) + 1] = e /\ \A i \in 1 .. Len(l) : m[i] = l[i]
  BY <1>1
<1> DEFINE R == {l[i].records : i \in 1 .. Len(l)} \cup {e.records}
<1>4. Records(l) \in [1 .. Len(l) -> R] /\ e.records \in R
  BY <1>2 DEF Records
<1>6. Records(m) = [i \in 1 .. Len(l) + 1 |-> m[i].records]
  BY <1>3 DEF Records
<1>8. \A i \in 1 .. Len(l) : Records(l)[i] = l[i].records
  BY <1>2 DEF Records
<1> HIDE DEF m, R
<1>9. Records(l) \in Seq(R) /\ Len(Records(l)) = Len(l)
  BY <1>2, <1>4, SMT
<1>10. Append(Records(l), e.records) = [i \in 1 .. Len(l) + 1 |-> IF i <= Len(l) THEN Records(l)[i] ELSE e.records]
  BY <1>2, <1>4, <1>9, SMT
<1>12. ASSUME NEW i \in 1 .. Len(l) + 1
       PROVE m[i].records = IF i <= Len(l) THEN Records(l)[i] ELSE e.records
  <2>1. CASE i <= Len(l)
    <3>1. i \in 1 .. Len(l)
      BY <1>2, <2>1, SMT
    <3> QED BY <1>3, <1>8, <2>1, <3>1
  <2>2. CASE ~(i <= Len(l))
    <3>1. i = Len(l) + 1
      BY <1>2, <2>2, SMT
    <3> QED BY <1>3, <2>2, <3>1
  <2> QED BY <2>1, <2>2
<1>13. Records(m) = Append(Records(l), e.records)
  BY <1>6, <1>10, <1>12
<1> QED BY <1>4, <1>9, <1>13 DEF m

\* The new world's rings and log are empty.
LEMMA HInit == StepAssumption /\ Init => HInv
<1> SUFFICES ASSUME StepAssumption, Init PROVE HInv
  OBVIOUS
<1>1. PICK h : world = [held |-> h, plays |-> <<>>, payoff |-> NoPay.pay, n |-> NoPay.n, counts |-> <<>>,
          steps |-> NewRing(HistoryLen, [a \in Agent |-> NoRec]), pairs |-> <<>>, aggs |-> NewTable]
  BY DEF Init
<1>3. RowsOK(<<>>, {})
  BY DEF RowsOK, IsLog
<1>2. log = <<>> /\ Records(log) = <<>> /\ Rows(log) = <<>>
  <2>1. Rows(<<>>) = <<>>
    <3>1. [rows |-> <<>>].rows \in Seq({})
      OBVIOUS
    <3> QED BY <1>3, <3>1, RowsGrow
  <2> QED BY <2>1 DEF Init, Records
<1>4. HistoryLen \in Nat \ {0}
  BY DEF StepAssumption
<1>5. Holds(HistoryLen, world.steps, Records(log)) /\ HoldsRows(HistoryLen, world.aggs, Rows(log))
  BY <1>1, <1>2, <1>4, NewHolds, NewHoldsRows
<1> QED BY <1>1, <1>2, <1>3, <1>5 DEF HInv

\* A row that is added to a sequence of rows, or none.
AtMostOne(rows) == rows = <<>> \/ \E x : rows = <<x>>

\* A commit pushes into both rings what it appends to the log.
LEMMA Commits ==
  ASSUME StepAssumption, HInv, NEW w, NEW totals, NEW records, NEW rows, Commit(w, totals, records, rows),
         AtMostOne(rows), DOMAIN w = DOMAIN world, w.steps = world.steps, w.aggs = world.aggs
  PROVE HInv'
<1> DEFINE e == [t |-> t, records |-> records, plays |-> w.plays, rows |-> rows]
<1>1. HistoryLen \in Nat \ {0}
  BY DEF StepAssumption
<1>2. log' = Append(log, e) /\ e.records = records /\ e.rows = rows
  BY DEF Commit
<1>3. /\ DOMAIN world' = DOMAIN world
      /\ world'.steps = PushRing(HistoryLen, world.steps, records)
      /\ world'.aggs = IF rows = <<>> THEN world.aggs ELSE PushTable(HistoryLen, world.aggs, rows[1])
  BY DEF Commit, HInv
<1> HIDE DEF e
<1>4. IsLog(log)
  BY DEF HInv, RowsOK
<1>5. /\ Records(log') = Append(Records(log), records)
      /\ \E S : Records(log) \in Seq(S) /\ records \in S
  BY <1>2, <1>4, OneMore
<1>6. Holds(HistoryLen, world'.steps, Records(log'))
  BY <1>1, <1>3, <1>5, PushHolds DEF HInv
<1>7. PICK A : RowsOK(log, A)
  BY DEF HInv
<1>8. CASE rows = <<>>
  <2>1. e.rows \in Seq(A)
    BY <1>2, <1>8
  <2>2. Rows(log) \in Seq(A) /\ Rows(log') = Rows(log) \o rows /\ RowsOK(log', A)
    BY <1>2, <1>7, <2>1, RowsGrow
  <2>3. Rows(log') = Rows(log)
    BY <1>8, <2>2
  <2>4. HoldsRows(HistoryLen, world'.aggs, Rows(log'))
    BY <1>3, <1>8, <2>3 DEF HInv
  <2> QED BY <1>3, <1>6, <2>2, <2>4 DEF HInv
<1>9. ASSUME NEW x, rows = <<x>> PROVE HInv'
  <2> DEFINE B == A \cup {x}
  <2>1. RowsOK(log, B)
    <3>1. \A i \in 1 .. Len(log) : log[i].rows \in Seq(A)
      BY <1>7 DEF RowsOK
    <3>2. Seq(A) \subseteq Seq(B)
      OBVIOUS
    <3> QED BY <1>4, <3>1, <3>2, Zenon DEF RowsOK
  <2>2. e.rows \in Seq(B) /\ x \in B
    BY <1>2, <1>9
  <2> HIDE DEF B
  <2>3. Rows(log) \in Seq(B) /\ Rows(log') = Rows(log) \o rows /\ RowsOK(log', B)
    BY <1>2, <2>1, <2>2, RowsGrow
  <2>4. Rows(log') = Append(Rows(log), x)
    BY <1>9, <2>2, <2>3
  <2>5. HoldsRows(HistoryLen, world.aggs, Rows(log))
    BY DEF HInv
  <2>6. HoldsRows(HistoryLen, PushTable(HistoryLen, world.aggs, x), Append(Rows(log), x))
    BY <1>1, <2>2, <2>3, <2>5, PushHoldsRows
  <2>7. rows # <<>> /\ rows[1] = x
    BY <1>9
  <2>8. HoldsRows(HistoryLen, world'.aggs, Rows(log'))
    BY <1>3, <2>4, <2>6, <2>7
  <2> QED BY <1>3, <1>6, <2>3, <2>8 DEF HInv
<1> QED BY <1>8, <1>9 DEF AtMostOne

\* So does the implicit path, which only sets the counts beside it.
LEMMA ImplicitCommits ==
  ASSUME StepAssumption, HInv, NEW v, NEW tabled, RecordImplicit(v, tabled),
         DOMAIN v = DOMAIN world, v.steps = world.steps, v.aggs = world.aggs
  PROVE HInv'
<1>1. \E acts, totals, recs, rows :
        AtMostOne(rows) /\ Commit([v EXCEPT !.counts = FlattenSeq(acts)], totals, recs, rows)
  <2>1. \A acts : AtMostOne(RowOf(acts, tabled))
    BY DEF RowOf, AtMostOne
  <2> QED BY <2>1 DEF RecordImplicit
<1>2. PICK acts, totals, recs, rows :
        AtMostOne(rows) /\ Commit([v EXCEPT !.counts = FlattenSeq(acts)], totals, recs, rows)
  BY <1>1
<1>3. PICK w : w = [v EXCEPT !.counts = FlattenSeq(acts)]
  OBVIOUS
<1>4. DOMAIN w = DOMAIN world /\ w.steps = world.steps /\ w.aggs = world.aggs
  BY <1>3 DEF HInv
<1> QED BY <1>2, <1>3, <1>4, Commits

\* And the plays of a step that were filled.
LEMMA PlaysCommit ==
  ASSUME StepAssumption, HInv, NEW tabled, RecordPlays(tabled)
  PROVE HInv'
<1>1. PICK w : w = [world EXCEPT !.pairs = PushPairs(world.pairs, world.plays), !.plays = Paid(world.plays, Len(world.plays))]
  OBVIOUS
<1>2. DOMAIN w = DOMAIN world /\ w.steps = world.steps /\ w.aggs = world.aggs
  BY <1>1 DEF HInv
<1>3. AtMostOne(RowOf(Acts(world.plays), tabled))
  BY DEF RowOf, AtMostOne
<1>4. \E totals, records : Commit(w, totals, records, RowOf(Acts(world.plays), tabled))
  BY <1>1 DEF RecordPlays
<1> QED BY <1>2, <1>3, <1>4, Commits

\* The world that an asynchronous mechanism records into.
LEMMA EmptiedIs ==
  ASSUME HInv
  PROVE DOMAIN Emptied = DOMAIN world /\ Emptied.steps = world.steps /\ Emptied.aggs = world.aggs
BY DEF HInv, Emptied

\* Every other action leaves the rings and the log alone.
LEMMA Untouched ==
  ASSUME HInv, log' = log, DOMAIN world' = DOMAIN world,
         world'.steps = world.steps, world'.aggs = world.aggs
  PROVE HInv'
BY DEF HInv

\* Every step keeps the rings at the end of the log.
LEMMA HNext == StepAssumption /\ HInv /\ [Next]_vars => HInv'
<1> SUFFICES ASSUME StepAssumption, HInv, [Next]_vars PROVE HInv'
  OBVIOUS
<1> DEFINE Same == log' = log /\ DOMAIN world' = DOMAIN world
                   /\ world'.steps = world.steps /\ world'.aggs = world.aggs
<1>0. {"steps", "aggs"} \subseteq DOMAIN world
  BY DEF HInv
<1>1. CASE Clear \/ Match \/ SeatHeld
  <2>1. Same
    BY <1>0, <1>1 DEF Clear, Match, SeatHeld
  <2> QED BY <2>1, Untouched
<1>2. CASE Play
  BY <1>2, PlaysCommit DEF Play
<1>3. CASE PlayImplicit
  <2>1. RecordImplicit(world, TRUE)
    BY <1>3 DEF PlayImplicit
  <2> QED BY <2>1, ImplicitCommits
<1>8. CASE Record
  <2>1. RecordImplicit(Emptied, TRUE)
    BY <1>8 DEF Record
  <2> QED BY <2>1, EmptiedIs, ImplicitCommits
<1>4. CASE Imitate \/ Moran
  <2>1. Same
    BY <1>0, <1>4 DEF Imitate, Moran
  <2> QED BY <2>1, Untouched
<1>5. CASE Learn \/ Measure \/ EndStep \/ Stopped \/ UNCHANGED vars
  <2>1. log' = log /\ world' = world
    BY <1>5 DEF Learn, Measure, EndStep, Stopped, vars
  <2> QED BY <2>1, Untouched
<1>6. CASE Fail
  <2>1. CASE UNCHANGED <<world, log>>
    BY <2>1, Untouched
  <2>2. CASE KernelFails
    <3>1. Same
      BY <1>0, <2>2 DEF KernelFails
    <3> QED BY <3>1, Untouched
  <2>4. CASE ImplicitFails
    <3>1. Same
      BY <1>0, <2>4 DEF ImplicitFails
    <3> QED BY <3>1, Untouched
  <2>3. CASE RowFails
    <3>1. ASSUME RecordPlays(FALSE) PROVE HInv'
      BY <3>1, PlaysCommit
    <3>2. ASSUME NEW v \in {world, Emptied}, RecordImplicit(v, FALSE) PROVE HInv'
      BY <3>2, EmptiedIs, ImplicitCommits
    <3> QED BY <2>3, <3>1, <3>2 DEF RowFails
  <2> QED BY <1>6, <2>1, <2>2, <2>3, <2>4 DEF Fail
<1>7. ASSUME NEW a \in Agent, Decide(a) \/ Activate(a) PROVE HInv'
  <2>1. Same
    BY <1>0, <1>7 DEF Decide, Activate
  <2> QED BY <2>1, Untouched
<1> QED BY <1>1, <1>2, <1>3, <1>4, <1>5, <1>6, <1>7, <1>8 DEF Next

\* Rings that hold the log show its end.
LEMMA HRead == StepAssumption /\ HInv => RecordsAreLog
<1> SUFFICES ASSUME StepAssumption, HInv PROVE RecordsAreLog
  OBVIOUS
<1>1. /\ HistoryLen \in Nat \ {0}
      /\ \E S : Records(log) \in Seq(S)
      /\ \E S : Rows(log) \in Seq(S)
  <2>1. PICK A : RowsOK(log, A)
    BY DEF HInv
  <2>2. [records |-> 0, rows |-> <<>>].rows \in Seq(A)
    OBVIOUS
  <2>3. Rows(log) \in Seq(A)
    BY <2>1, <2>2, RowsGrow
  <2>4. IsLog(log)
    BY <2>1 DEF RowsOK
  <2> QED BY <2>3, <2>4, OneMore DEF StepAssumption
<1> QED BY <1>1, ViewOfRing, ViewOfTable DEF HInv, RecordsAreLog

\* The step histories and the aggregate table of a game world are, in every state
\* of every run, the last HistoryLen entries of what was committed, oldest first.
THEOREM GameRecordsAreLog == Spec => []RecordsAreLog
<1>1. Init => HInv
  BY HInit, StepAssumption
<1>2. HInv /\ [Next]_vars => HInv'
  BY HNext, StepAssumption
<1>3. HInv => RecordsAreLog
  BY HRead, StepAssumption
<1> QED BY <1>1, <1>2, <1>3, PTL DEF Spec

-----------------------------------------------------------------------------
(* A run that is stopped for convergence has come to rest *)

IsMax(p, B) == p \in B /\ \A q \in B : p >= q

\* The maximum is what FiniteSetsExt chooses.
LEMMA MaxIs ==
  ASSUME NEW B \in SUBSET Int, NEW p, IsMax(p, B)
  PROVE Max(B) = p
<1>1. \A x \in B : (\A y \in B : x >= y) => x = p
  BY SMT DEF IsMax
<1> QED BY <1>1 DEF Max, IsMax

\* The measurement at i differs little from the last one before it.
Near(m, i) ==
  /\ m[i] # NoShares
  /\ \E p : IsMax(p, PlayedBefore(m, i)) /\ Small(m[p], m[i])

\* What metrics keep of the measurements: the last shares, and how many of the
\* latest were near.  A stop is asked for in the last moment of a step only.
SInv ==
  /\ "measured" \in DOMAIN ghost /\ IsLog(ghost.measured)
  /\ metrics = [prev |-> metrics.prev, below |-> metrics.below, stop |-> metrics.stop]
  /\ metrics.below \in 0 .. Len(ghost.measured)
  /\ LET m      == ghost.measured
         played == PlayedBefore(m, Len(m) + 1)
     IN  /\ \/ played = {} /\ metrics.prev = NoShares
            \/ \E p : IsMax(p, played) /\ metrics.prev = m[p]
         /\ \A i \in Len(m) - metrics.below + 1 .. Len(m) : Near(m, i)
  /\ metrics.stop \in BOOLEAN
  /\ metrics.stop => metrics.below >= Window /\ pc \in {"end", "idle"}

\* A new run has measured nothing.
LEMMA SInit == Init => SInv
<1> SUFFICES ASSUME Init PROVE SInv
  OBVIOUS
<1>1. ghost.measured = <<>> /\ "measured" \in DOMAIN ghost
      /\ metrics = [prev |-> NoShares, below |-> 0, stop |-> FALSE]
  BY DEF Init
<1>2. IsLog(<<>>) /\ Len(<<>>) = 0 /\ PlayedBefore(<<>>, 0 + 1) = {}
  BY SMT DEF IsLog, PlayedBefore
<1>3. 0 \in 0 .. 0 /\ 0 - 0 + 1 .. 0 = {}
  BY SMT
<1> QED BY <1>1, <1>2, <1>3 DEF SInv

\* An earlier measurement stays as near as it was when another one is appended.
LEMMA StaysNear ==
  ASSUME NEW m, IsLog(m), NEW x, NEW i \in 1 .. Len(m), Near(m, i)
  PROVE Near(Append(m, x), i)
<1> DEFINE m2 == Append(m, x)
<1>1. PICK S : m \in Seq(S)
  BY DEF IsLog
<1>2. Len(m) \in Nat /\ \A j \in 1 .. Len(m) : m2[j] = m[j]
  BY <1>1
<1>3. \A j \in 1 .. i - 1 : j \in 1 .. Len(m)
  BY <1>2, SMT
<1> HIDE DEF m2
<1>4. PlayedBefore(m2, i) = PlayedBefore(m, i)
  BY <1>2, <1>3 DEF PlayedBefore
<1>5. \A p \in PlayedBefore(m, i) : m2[p] = m[p]
  BY <1>2, <1>3 DEF PlayedBefore
<1>6. m2[i] = m[i]
  BY <1>2
<1> QED BY <1>4, <1>5, <1>6 DEF Near, IsMax, m2

\* game_metrics measures once more.
LEMMA Measures ==
  ASSUME StepAssumption, SInv, Measure
  PROVE SInv'
<1> DEFINE m == ghost.measured
           x == Shares
           m2 == Append(m, x)
           k == Len(m) + 1
           played == PlayedBefore(m, k)
<1>1. PICK S : m \in Seq(S)
  BY DEF SInv, IsLog
<1>2. /\ Len(m) \in Nat /\ Len(m2) = k /\ m2[k] = x /\ \A j \in 1 .. Len(m) : m2[j] = m[j]
      /\ m2 \in Seq(S \cup {x})
  BY <1>1
<1>3. /\ pc = "post" /\ pc' = "end" /\ ghost'.measured = m2 /\ "measured" \in DOMAIN ghost'
      /\ metrics' = Converged(metrics, x) /\ IsLog(m2) /\ IsLog(m)
  BY <1>1, <1>2 DEF Measure, SInv, IsLog
<1>4. PlayedBefore(m2, k + 1) = IF x = NoShares THEN played ELSE played \cup {k}
  <2>1. 1 .. (k + 1) - 1 = (1 .. k - 1) \cup {k} /\ k - 1 = Len(m)
    BY <1>2, SMT
  <2>2. \A j \in 1 .. k - 1 : m2[j] = m[j]
    BY <1>2, <2>1
  <2> HIDE DEF m, k, m2, x
  <2> QED BY <1>2, <2>1, <2>2 DEF PlayedBefore, played
<1>5. PlayedBefore(m2, k) = played /\ \A j \in played : m2[j] = m[j] /\ j \in Int /\ k >= j
  <2>1. \A j \in 1 .. k - 1 : m2[j] = m[j] /\ j \in Int /\ k >= j
    BY <1>2, SMT
  <2> HIDE DEF m, k, m2, x
  <2> QED BY <2>1 DEF PlayedBefore, played
<1>6. /\ metrics.below \in 0 .. Len(m) /\ metrics.stop = FALSE
      /\ \/ played = {} /\ metrics.prev = NoShares
         \/ \E p : IsMax(p, played) /\ metrics.prev = m[p]
      /\ \A i \in Len(m) - metrics.below + 1 .. Len(m) : Near(m, i)
      /\ metrics = [prev |-> metrics.prev, below |-> metrics.below, stop |-> metrics.stop]
  BY <1>3 DEF SInv
<1>7. Window \in Nat /\ Window >= 1
  BY SMT DEF StepAssumption
<1>8. \A i \in Len(m) - metrics.below + 1 .. Len(m) : Near(m2, i)
  <2>1. \A i \in Len(m) - metrics.below + 1 .. Len(m) : i \in 1 .. Len(m)
    BY <1>2, <1>6, SMT
  <2> HIDE DEF m, x
  <2> QED BY <1>3, <1>6, <2>1, StaysNear
<1> HIDE DEF m, x, m2, k, played
<1>9. CASE x = NoShares
  <2>1. metrics' = [prev |-> metrics.prev, below |-> 0, stop |-> FALSE]
    BY <1>3, <1>6, <1>9 DEF Converged
  <2>2. \/ played = {} /\ metrics.prev = NoShares
        \/ \E p : IsMax(p, played) /\ metrics.prev = m2[p]
    BY <1>5, <1>6 DEF IsMax
  <2>3. 0 \in 0 .. Len(m2) /\ Len(m2) - 0 + 1 .. Len(m2) = {}
    BY <1>2, SMT DEF k
  <2>4. /\ metrics' = [prev |-> metrics'.prev, below |-> metrics'.below, stop |-> metrics'.stop]
        /\ metrics'.prev = metrics.prev /\ metrics'.below = 0 /\ metrics'.stop = FALSE
    BY <2>1
  <2>5. PlayedBefore(m2, Len(m2) + 1) = played
    BY <1>2, <1>4, <1>9
  <2> QED BY <1>3, <2>2, <2>3, <2>4, <2>5 DEF SInv
<1>10. CASE x # NoShares
  <2> DEFINE b == IF metrics.prev = NoShares \/ ~Small(metrics.prev, x) THEN 0 ELSE metrics.below + 1
  <2>1. metrics' = [prev |-> x, below |-> b, stop |-> b >= Window]
    <3>1. metrics' = [prev |-> x, below |-> b, stop |-> FALSE \/ b >= Window]
      BY <1>3, <1>6, <1>10 DEF Converged
    <3>2. (FALSE \/ b >= Window) = (b >= Window)
      OBVIOUS
    <3> QED BY <3>1, <3>2
  <2>2. k \in Int /\ IsMax(k, played \cup {k})
    BY <1>2, <1>5, SMT DEF IsMax, k
  <2>3. b \in 0 .. Len(m2)
    BY <1>2, <1>6, SMT DEF k
  <2>4. \A i \in Len(m2) - b + 1 .. Len(m2) : Near(m2, i)
    <3>1. CASE metrics.prev = NoShares \/ ~Small(metrics.prev, x)
      <4>1. Len(m2) - 0 + 1 .. Len(m2) = {}
        BY <1>2, SMT DEF k
      <4> QED BY <3>1, <4>1
    <3>2. CASE ~(metrics.prev = NoShares \/ ~Small(metrics.prev, x))
      <4>1. PICK p : IsMax(p, played) /\ metrics.prev = m[p]
        BY <1>6, <3>2
      <4>2. Near(m2, k)
        BY <1>2, <1>5, <1>10, <3>2, <4>1 DEF Near, IsMax
      <4>3. ASSUME NEW i \in Len(m2) - b + 1 .. Len(m2)
            PROVE i = k \/ i \in Len(m) - metrics.below + 1 .. Len(m)
        BY <1>2, <1>6, <3>2, SMT DEF k
      <4> QED BY <1>8, <4>2, <4>3
    <3> QED BY <3>1, <3>2
  <2> HIDE DEF b
  <2>5. (b >= Window) \in BOOLEAN
    OBVIOUS
  <2>6. /\ metrics' = [prev |-> metrics'.prev, below |-> metrics'.below, stop |-> metrics'.stop]
        /\ metrics'.prev = m2[k] /\ metrics'.below = b /\ metrics'.stop = (b >= Window)
    BY <1>2, <2>1
  <2>7. PlayedBefore(m2, Len(m2) + 1) = played \cup {k}
    BY <1>2, <1>4, <1>10
  <2> QED BY <1>3, <2>2, <2>3, <2>4, <2>5, <2>6, <2>7 DEF SInv
<1> QED BY <1>9, <1>10

\* No other mechanism touches the measurements; a stop is kept until the run ends.
LEMMA SNext == StepAssumption /\ SInv /\ [Next]_vars => SInv'
<1> SUFFICES ASSUME StepAssumption, SInv, [Next]_vars PROVE SInv'
  OBVIOUS
<1> DEFINE Kept == ghost'.measured = ghost.measured /\ "measured" \in DOMAIN ghost' /\ metrics' = metrics
<1>1. ASSUME Kept, metrics.stop => pc' \in {"end", "idle"} PROVE SInv'
  BY <1>1 DEF SInv
<1>2. "measured" \in DOMAIN ghost /\ metrics.stop \in BOOLEAN
      /\ (metrics.stop => pc \in {"end", "idle"})
  BY DEF SInv
<1>3. CASE Clear
  <2>1. Kept /\ ~metrics.stop
    BY <1>2, <1>3 DEF Clear, RunsOn
  <2> QED BY <1>1, <2>1
<1>4. CASE Match \/ SeatHeld \/ Play \/ PlayImplicit \/ Imitate \/ Moran \/ Record
  <2>1. Kept /\ pc \notin {"end", "idle"}
    BY <1>2, <1>4 DEF Match, SeatHeld, Play, PlayImplicit, Imitate, Moran, Record
  <2> QED BY <1>1, <1>2, <2>1
<1>5. CASE Learn
  <2>1. Kept /\ pc \notin {"end", "idle"}
    BY <1>2, <1>5 DEF Learn
  <2> QED BY <1>1, <1>2, <2>1
<1>6. CASE EndStep \/ Stopped \/ UNCHANGED vars
  <2>1. Kept /\ pc' \in {pc, "idle"}
    BY <1>2, <1>6 DEF EndStep, Stopped, vars
  <2> QED BY <1>1, <1>2, <2>1
<1>7. CASE Fail
  <2>1. Kept /\ pc' = "idle"
    BY <1>2, <1>7 DEF Fail
  <2> QED BY <1>1, <2>1
<1>8. CASE Measure
  BY <1>8, Measures
<1>9. ASSUME NEW a \in Agent, Decide(a) \/ Activate(a) PROVE SInv'
  <2>1. Kept /\ pc \notin {"end", "idle"}
    BY <1>2, <1>9 DEF Decide, Activate
  <2> QED BY <1>1, <1>2, <2>1
<1> QED BY <1>3, <1>4, <1>5, <1>6, <1>7, <1>8, <1>9 DEF Next

\* What metrics remember justifies the stop.
LEMMA SRead == StepAssumption /\ SInv => StopsWhenStill
<1> SUFFICES ASSUME StepAssumption, SInv, metrics.stop,
                    NEW i \in Len(ghost.measured) - Window + 1 .. Len(ghost.measured)
             PROVE LET m == ghost.measured
                       before == PlayedBefore(m, i)
                   IN  m[i] # NoShares /\ before # {} /\ Small(m[Max(before)], m[i])
  BY DEF StopsWhenStill
<1> DEFINE m == ghost.measured
<1>1. metrics.below >= Window /\ metrics.below \in 0 .. Len(m) /\ Window \in Nat
  BY DEF SInv, StepAssumption
<1>2. Len(m) \in Nat
  BY DEF SInv, IsLog
<1>3. i \in Len(m) - metrics.below + 1 .. Len(m)
  <2> HIDE DEF m
  <2> QED BY <1>1, <1>2, SMT DEF m
<1>4. Near(m, i)
  BY <1>3 DEF SInv
<1>5. PICK p : IsMax(p, PlayedBefore(m, i)) /\ Small(m[p], m[i])
  BY <1>4 DEF Near
<1>6. PlayedBefore(m, i) \in SUBSET Int
  BY SMT DEF PlayedBefore
<1>7. Max(PlayedBefore(m, i)) = p
  BY <1>5, <1>6, MaxIs
<1> QED BY <1>4, <1>5, <1>7 DEF Near, IsMax

\* game_metrics stops a run only when its last Window measurements were played and
\* each changed the shares by less than the tolerance: gaps and failed steps,
\* which keep the count, never make it stop sooner.
THEOREM GameStopsWhenStill == Spec => []StopsWhenStill
<1>1. Init => SInv
  BY SInit
<1>2. SInv /\ [Next]_vars => SInv'
  BY SNext, StepAssumption
<1>3. SInv => StopsWhenStill
  BY SRead, StepAssumption
<1> QED BY <1>1, <1>2, <1>3, PTL DEF Spec

-----------------------------------------------------------------------------
(* Encounters that were played, and the meetings they are for a pair *)

Acted == Action \cup {NoAct}

\* A play seats agents, one for each role, and says how each acted.
PlayOK(e, roles) ==
  /\ e = [seats |-> e.seats, credit |-> e.credit, acts |-> e.acts, pays |-> e.pays]
  /\ e.seats \in Seq(Agent) /\ Len(e.seats) = roles /\ e.credit \in {"all", "center"}
  /\ e.acts \in [1 .. roles -> Acted]
PlaysOK(plays, roles) == IsLog(plays) /\ \A i \in 1 .. Len(plays) : PlayOK(plays[i], roles)
LogOK(l, roles) == IsLog(l) /\ \A j \in 1 .. Len(l) : l[j].t \in Nat /\ PlaysOK(l[j].plays, roles)

Meeting == [t : Nat, mine : Acted, other : Acted]

LEMMA SeenIs ==
  ASSUME NEW a \in Agent, NEW b \in Agent, NEW when \in Nat, NEW e, NEW roles \in Nat, PlayOK(e, roles), Met(a, b, e)
  PROVE  Seen(a, b, when, e) \in Meeting
<1>1. roles = 2 /\ e.acts[1] \in Acted /\ e.acts[2] \in Acted
  BY DEF PlayOK, Met
<1> QED BY <1>1 DEF Seen, Meeting

\* The meetings of one list of plays, by their number.
MetUpTo(f, a, b, when, plays) ==
  /\ f \in [0 .. Len(plays) -> Seq(Meeting)] /\ f[0] = <<>> /\ MetIn(a, b, when, plays) = f[Len(plays)]
  /\ \A k \in 1 .. Len(plays) :
       f[k] = IF Met(a, b, plays[k]) THEN Append(f[k - 1], Seen(a, b, when, plays[k])) ELSE f[k - 1]

LEMMA MetRun ==
  ASSUME NEW a \in Agent, NEW b \in Agent, NEW when \in Nat, NEW plays, NEW roles \in Nat, PlaysOK(plays, roles)
  PROVE  \E f : MetUpTo(f, a, b, when, plays)
<1> DEFINE N == Len(plays)
           V == Seq(Meeting)
           next(k, s) == IF Met(a, b, plays[k]) THEN Append(s, Seen(a, b, when, plays[k])) ELSE s
           Is(f) == f = [k \in 0 .. N |-> IF k = 0 THEN <<>> ELSE next(k, f[k - 1])]
           run == CHOOSE f : Is(f)
<1>1. N \in Nat /\ \A k \in 1 .. N : PlayOK(plays[k], roles)
  BY LogIs DEF PlaysOK
<1>2. ASSUME NEW k \in 1 .. N, NEW s \in V PROVE next(k, s) \in V
  <2>1. Met(a, b, plays[k]) => Seen(a, b, when, plays[k]) \in Meeting
    BY <1>1, SeenIs
  <2> QED BY <2>1
<1>3. <<>> \in V
  OBVIOUS
<1> HIDE DEF N, V, next
<1>4. PICK F : F = [k \in 1 .. N |-> [s \in V |-> next(k, s)]]
  OBVIOUS
<1>5. Machine(N, V, <<>>, F)
  BY <1>1, <1>2, <1>3, <1>4 DEF Machine
<1>6. PICK g : RunOf(g, N, V, <<>>, F)
  BY <1>5, Recursion, Zenon
<1>7. g \in [0 .. N -> V] /\ g[0] = <<>> /\ \A k \in 1 .. N : g[k] = F[k][g[k - 1]]
  BY <1>6 DEF RunOf
<1>8. \A k \in 1 .. N : g[k] = next(k, g[k - 1])
  BY <1>1, <1>4, <1>7
<1>9. Is(g)
  <2>1. g = [k \in 0 .. N |-> g[k]]
    BY <1>7
  <2>2. \A k \in 0 .. N : g[k] = IF k = 0 THEN <<>> ELSE next(k, g[k - 1])
    BY <1>7, <1>8
  <2> QED BY <2>1, <2>2
<1>10. Is(run)
  <2> HIDE DEF Is
  <2> QED BY <1>9, Zenon
<1>11. MetIn(a, b, when, plays) = run[N]
  BY DEF MetIn, next, N
<1> HIDE DEF run
<1>12. /\ run = [k \in 0 .. N |-> run[k]] /\ run[0] = <<>>
       /\ \A k \in 1 .. N : run[k] = next(k, run[k - 1])
  BY <1>1, <1>10
<1>13. \A k \in 0 .. N : run[k] \in V
  <2> DEFINE T == {k \in Nat : k <= N => run[k] \in V}
  <2>1. 0 \in T
    BY <1>3, <1>12
  <2>2. ASSUME NEW k \in Nat, k \in T PROVE k + 1 \in T
    <3>1. SUFFICES ASSUME k + 1 <= N PROVE run[k + 1] \in V
      OBVIOUS
    <3>2. run[k] \in V /\ k + 1 \in 1 .. N /\ (k + 1) - 1 = k
      BY <1>1, <2>2, <3>1
    <3>3. run[k + 1] = next(k + 1, run[(k + 1) - 1])
      BY <1>12, <3>2
    <3> QED BY <1>2, <3>2, <3>3
  <2> HIDE DEF T
  <2>3. Nat \subseteq T
    BY <2>1, <2>2, Induct
  <2> QED BY <2>3 DEF T
<1>14. run \in [0 .. N -> V]
  BY <1>12, <1>13
<1> QED BY <1>11, <1>12, <1>14 DEF MetUpTo, next, N, V

\* One more entry of a log adds its meetings; an empty log holds none.
LEMMA MeetingsGrow ==
  ASSUME NEW a \in Agent, NEW b \in Agent, NEW l, NEW roles \in Nat, LogOK(l, roles),
         NEW e, e.t \in Nat, PlaysOK(e.plays, roles)
  PROVE  /\ Meetings(l, a, b) \in Seq(Meeting) /\ Meetings(<<>>, a, b) = <<>>
         /\ MetIn(a, b, e.t, e.plays) \in Seq(Meeting)
         /\ Meetings(Append(l, e), a, b) = Meetings(l, a, b) \o MetIn(a, b, e.t, e.plays)
<1> DEFINE V == Seq(Meeting)
           next(m, k, s) == s \o MetIn(a, b, m[k].t, m[k].plays)
           Is(f, m) == f = [k \in 0 .. Len(m) |-> IF k = 0 THEN <<>> ELSE next(m, k, f[k - 1])]
           run(m) == CHOOSE f : Is(f, m)
<1>1. ASSUME NEW when \in Nat, NEW plays, PlaysOK(plays, roles) PROVE MetIn(a, b, when, plays) \in V
  <2>1. PICK f : MetUpTo(f, a, b, when, plays)
    BY <1>1, MetRun
  <2>2. Len(plays) \in 0 .. Len(plays)
    BY <1>1, LogIs DEF PlaysOK
  <2> QED BY <2>1, <2>2 DEF MetUpTo
<1>2. ASSUME NEW m, LogOK(m, roles)
      PROVE  /\ run(m) \in [0 .. Len(m) -> V] /\ run(m)[0] = <<>> /\ Meetings(m, a, b) = run(m)[Len(m)]
             /\ \A k \in 1 .. Len(m) : run(m)[k] = next(m, k, run(m)[k - 1])
  <2> DEFINE N == Len(m)
  <2>1. N \in Nat /\ \A k \in 1 .. N : MetIn(a, b, m[k].t, m[k].plays) \in V
    <3>1. \A k \in 1 .. N : m[k].t \in Nat /\ PlaysOK(m[k].plays, roles)
      BY <1>2 DEF LogOK
    <3> QED BY <1>1, <1>2, <3>1, LogIs DEF LogOK
  <2>2. ASSUME NEW k \in 1 .. N, NEW s \in V PROVE next(m, k, s) \in V
    <3>1. MetIn(a, b, m[k].t, m[k].plays) \in Seq(Meeting) /\ s \in Seq(Meeting)
      BY <2>1
    <3> QED BY <3>1
  <2>3. <<>> \in V
    OBVIOUS
  <2>4. Meetings(m, a, b) = run(m)[N]
    BY DEF Meetings
  <2> HIDE DEF N, V, next
  <2>5. PICK F : F = [k \in 1 .. N |-> [s \in V |-> next(m, k, s)]]
    OBVIOUS
  <2>6. Machine(N, V, <<>>, F)
    BY <2>1, <2>2, <2>3, <2>5 DEF Machine
  <2>7. PICK g : RunOf(g, N, V, <<>>, F)
    BY <2>6, Recursion, Zenon
  <2>8. g \in [0 .. N -> V] /\ g[0] = <<>> /\ \A k \in 1 .. N : g[k] = F[k][g[k - 1]]
    BY <2>7 DEF RunOf
  <2>9. \A k \in 1 .. N : g[k] = next(m, k, g[k - 1])
    BY <2>1, <2>5, <2>8
  <2>10. Is(g, m)
    <3>1. g = [k \in 0 .. N |-> g[k]]
      BY <2>8
    <3>2. \A k \in 0 .. N : g[k] = IF k = 0 THEN <<>> ELSE next(m, k, g[k - 1])
      BY <2>8, <2>9
    <3> QED BY <3>1, <3>2 DEF N
  <2>11. Is(run(m), m)
    <3> HIDE DEF Is
    <3> QED BY <2>10, Zenon
  <2> HIDE DEF run
  <2>12. /\ run(m) = [k \in 0 .. N |-> run(m)[k]] /\ run(m)[0] = <<>>
         /\ \A k \in 1 .. N : run(m)[k] = next(m, k, run(m)[k - 1])
    <3>1. PICK h : h = run(m)
      OBVIOUS
    <3>2. h = [k \in 0 .. N |-> IF k = 0 THEN <<>> ELSE next(m, k, h[k - 1])]
      BY <2>11, <3>1 DEF N
    <3>3. 0 \in 0 .. N /\ \A k \in 1 .. N : k \in 0 .. N /\ k # 0
      BY <2>1
    <3>4. h = [k \in 0 .. N |-> h[k]] /\ h[0] = <<>> /\ \A k \in 1 .. N : h[k] = next(m, k, h[k - 1])
      BY <3>2, <3>3
    <3> QED BY <3>1, <3>4
  <2>13. \A k \in 0 .. N : run(m)[k] \in V
    <3> DEFINE T == {k \in Nat : k <= N => run(m)[k] \in V}
    <3>1. 0 \in T
      BY <2>3, <2>12
    <3>2. ASSUME NEW k \in Nat, k \in T PROVE k + 1 \in T
      <4>1. SUFFICES ASSUME k + 1 <= N PROVE run(m)[k + 1] \in V
        OBVIOUS
      <4>2. run(m)[k] \in V /\ k + 1 \in 1 .. N /\ (k + 1) - 1 = k
        BY <2>1, <3>2, <4>1
      <4>3. run(m)[k + 1] = next(m, k + 1, run(m)[(k + 1) - 1])
        BY <2>12, <4>2
      <4> QED BY <2>2, <4>2, <4>3
    <3> HIDE DEF T
    <3>3. Nat \subseteq T
      BY <3>1, <3>2, Induct
    <3> QED BY <3>3 DEF T
  <2>14. run(m) \in [0 .. N -> V]
    BY <2>12, <2>13
  <2> QED BY <2>4, <2>12, <2>14 DEF N
<1> DEFINE l2 == Append(l, e)
<1>3. Len(l) \in Nat /\ Len(l2) = Len(l) + 1 /\ l2[Len(l) + 1] = e /\ (\A i \in 1 .. Len(l) : l2[i] = l[i])
      /\ IsLog(l2)
  <2>1. IsLog(l)
    BY DEF LogOK
  <2> HIDE DEF l2
  <2> QED BY <2>1, LogIs, AppendedLog DEF l2
<1> HIDE DEF l2, run, V, next
<1>4. LogOK(l2, roles)
  <2>1. ASSUME NEW j \in 1 .. Len(l2) PROVE l2[j].t \in Nat /\ PlaysOK(l2[j].plays, roles)
    <3>1. j \in 1 .. Len(l) \/ j = Len(l) + 1
      BY <1>3
    <3>2. \A i \in 1 .. Len(l) : l[i].t \in Nat /\ PlaysOK(l[i].plays, roles)
      BY DEF LogOK
    <3> QED BY <1>3, <3>1, <3>2, Zenon
  <2> QED BY <1>3, <2>1, Zenon DEF LogOK
<1>5. LogOK(<<>>, roles) /\ Len(<<>>) = 0
  BY DEF LogOK, IsLog
<1>6. \A k \in 0 .. Len(l) : run(l2)[k] = run(l)[k]
  <2> DEFINE T == {k \in Nat : k <= Len(l) => run(l2)[k] = run(l)[k]}
  <2>1. 0 \in T
    BY <1>2, <1>4
  <2>2. ASSUME NEW k \in Nat, k \in T PROVE k + 1 \in T
    <3>1. SUFFICES ASSUME k + 1 <= Len(l) PROVE run(l2)[k + 1] = run(l)[k + 1]
      OBVIOUS
    <3>2. k + 1 \in 1 .. Len(l) /\ k + 1 \in 1 .. Len(l2) /\ (k + 1) - 1 = k /\ run(l2)[k] = run(l)[k]
      BY <1>3, <2>2, <3>1
    <3>3. l2[k + 1] = l[k + 1]
      BY <1>3, <3>2
    <3>4. run(l)[k + 1] = next(l, k + 1, run(l)[k]) /\ run(l2)[k + 1] = next(l2, k + 1, run(l2)[k])
      BY <1>2, <1>4, <3>2
    <3> QED BY <3>2, <3>3, <3>4 DEF next
  <2> HIDE DEF T
  <2>3. Nat \subseteq T
    BY <2>1, <2>2, Induct
  <2> QED BY <2>3 DEF T
<1>7. Meetings(l2, a, b) = next(l2, Len(l) + 1, run(l)[Len(l)])
  <2>1. Len(l) + 1 \in 1 .. Len(l2) /\ (Len(l) + 1) - 1 = Len(l) /\ Len(l) \in 0 .. Len(l)
    BY <1>3
  <2> QED BY <1>2, <1>3, <1>4, <1>6, <2>1
<1>8. Meetings(l, a, b) = run(l)[Len(l)] /\ Meetings(l, a, b) \in V
  <2>1. Len(l) \in 0 .. Len(l)
    BY <1>3
  <2> QED BY <1>2, <2>1
<1>9. Meetings(<<>>, a, b) = <<>>
  BY <1>2, <1>5
<1> QED BY <1>1, <1>3, <1>7, <1>8, <1>9 DEF next, V, l2

-----------------------------------------------------------------------------
(* The histories of pairs *)

PairRec    == [t : Nat, actions : Seq(Acted)]
PairRing   == [head : Nat, filled : Nat, data : [0 .. HistoryLen - 1 -> PairRec]]
PairTables == UNION {[K -> PairRing] : K \in SUBSET (Agent \X Agent)}

LEMMA PairKeyIs ==
  ASSUME NEW a \in Agent, NEW b \in Agent
  PROVE  PairKey(a, b) \in Agent \X Agent
BY DEF PairKey

LEMMA NewRingTyped == StepAssumption => NewRing(HistoryLen, NoPair) \in PairRing
<1>1. NoPair \in PairRec
  BY DEF NoPair, PairRec
<1> QED BY <1>1 DEF NewRing, PairRing

LEMMA PushRingTyped ==
  ASSUME StepAssumption, NEW r \in PairRing, NEW x \in PairRec
  PROVE  PushRing(HistoryLen, r, x) \in PairRing
<1>1. PICK n \in Nat \ {0} : n = HistoryLen
  BY DEF StepAssumption
<1>2. r.head \in Nat /\ r.filled \in Nat /\ r.data \in [0 .. n - 1 -> PairRec]
  BY <1>1 DEF PairRing
<1>3. (r.head + 1) % n \in Nat /\ Smaller(r.filled + 1, n) \in Nat
  BY <1>2, SMT DEF Smaller
<1>4. [r.data EXCEPT ![r.head] = x] \in [0 .. n - 1 -> PairRec]
  BY <1>2
<1> QED BY <1>1, <1>3, <1>4 DEF PushRing, PairRing

LEMMA PushPairTyped ==
  ASSUME StepAssumption, NEW pairs \in PairTables, NEW when \in Nat, NEW a \in Agent, NEW b \in Agent,
         NEW x \in Acted, NEW y \in Acted
  PROVE  PushPair(HistoryLen, pairs, when, a, b, x, y) \in PairTables
<1> DEFINE k == PairKey(a, b)
           old == IF k \in DOMAIN pairs THEN pairs[k] ELSE NewRing(HistoryLen, NoPair)
           rec == [t |-> when, actions |-> InKeyOrder(a, b, x, y)]
           new == PushRing(HistoryLen, old, rec)
<1>1. PICK K \in SUBSET (Agent \X Agent) : pairs \in [K -> PairRing]
  BY DEF PairTables
<1>2. k \in Agent \X Agent
  BY PairKeyIs
<1>3. old \in PairRing
  BY <1>1, NewRingTyped
<1>4. rec \in PairRec
  BY DEF PairRec, InKeyOrder
<1> HIDE DEF old, rec
<1>5. new \in PairRing
  BY <1>3, <1>4, PushRingTyped
<1>6. PushPair(HistoryLen, pairs, when, a, b, x, y) = [j \in K \cup {k} |-> IF j = k THEN new ELSE pairs[j]]
  BY <1>1 DEF PushPair, old, rec
<1> HIDE DEF new, k
<1>7. [j \in K \cup {k} |-> IF j = k THEN new ELSE pairs[j]] \in [K \cup {k} -> PairRing]
  BY <1>1, <1>5
<1>8. K \cup {k} \in SUBSET (Agent \X Agent)
  BY <1>2
<1> QED BY <1>6, <1>7, <1>8 DEF PairTables

\* One play pushed, if two are seated.
PushOne(pairs, e) ==
  IF Len(e.seats) # 2 THEN pairs
  ELSE PushPair(HistoryLen, pairs, t, e.seats[1], e.seats[2], e.acts[1], e.acts[2])

LEMMA PushOneTyped ==
  ASSUME StepAssumption, t \in Nat, NEW pairs \in PairTables, NEW e, NEW roles \in Nat, PlayOK(e, roles)
  PROVE  PushOne(pairs, e) \in PairTables
<1>1. CASE Len(e.seats) = 2
  <2>1. /\ e.seats[1] \in Agent /\ e.seats[2] \in Agent /\ e.acts[1] \in Acted /\ e.acts[2] \in Acted
    BY <1>1 DEF PlayOK
  <2> QED BY <1>1, <2>1, PushPairTyped DEF PushOne
<1> QED BY <1>1 DEF PushOne

PushedUpTo(f, pairs, plays) ==
  /\ f \in [0 .. Len(plays) -> PairTables] /\ f[0] = pairs /\ PushPairs(pairs, plays) = f[Len(plays)]
  /\ \A k \in 1 .. Len(plays) : f[k] = PushOne(f[k - 1], plays[k])

LEMMA PushedRun ==
  ASSUME StepAssumption, t \in Nat, NEW pairs \in PairTables, NEW plays, NEW roles \in Nat, PlaysOK(plays, roles)
  PROVE  \E f : PushedUpTo(f, pairs, plays)
<1> DEFINE N == Len(plays)
           V == PairTables
           next(k, s) == PushOne(s, plays[k])
           Is(f) == f = [k \in 0 .. N |-> IF k = 0 THEN pairs ELSE next(k, f[k - 1])]
           run == CHOOSE f : Is(f)
<1>1. N \in Nat /\ \A k \in 1 .. N : PlayOK(plays[k], roles)
  BY LogIs DEF PlaysOK
<1>2. ASSUME NEW k \in 1 .. N, NEW s \in V PROVE next(k, s) \in V
  BY <1>1, PushOneTyped
<1>3. pairs \in V
  OBVIOUS
<1>4. PushPairs(pairs, plays) = run[N]
  BY DEF PushPairs, PushOne
<1> HIDE DEF N, V, next
<1>5. PICK F : F = [k \in 1 .. N |-> [s \in V |-> next(k, s)]]
  OBVIOUS
<1>6. Machine(N, V, pairs, F)
  BY <1>1, <1>2, <1>3, <1>5 DEF Machine
<1>7. PICK g : RunOf(g, N, V, pairs, F)
  BY <1>6, Recursion, Zenon
<1>8. g \in [0 .. N -> V] /\ g[0] = pairs /\ \A k \in 1 .. N : g[k] = F[k][g[k - 1]]
  BY <1>7 DEF RunOf
<1>9. \A k \in 1 .. N : g[k] = next(k, g[k - 1])
  BY <1>1, <1>5, <1>8
<1>10. Is(g)
  <2>1. g = [k \in 0 .. N |-> g[k]]
    BY <1>8
  <2>2. \A k \in 0 .. N : g[k] = IF k = 0 THEN pairs ELSE next(k, g[k - 1])
    BY <1>8, <1>9
  <2> QED BY <2>1, <2>2
<1>11. Is(run)
  <2> HIDE DEF Is
  <2> QED BY <1>10, Zenon
<1> HIDE DEF run
<1>12. /\ run = [k \in 0 .. N |-> run[k]] /\ run[0] = pairs
       /\ \A k \in 1 .. N : run[k] = next(k, run[k - 1])
  BY <1>1, <1>11
<1>13. \A k \in 0 .. N : run[k] \in V
  <2> DEFINE T == {k \in Nat : k <= N => run[k] \in V}
  <2>1. 0 \in T
    BY <1>3, <1>12
  <2>2. ASSUME NEW k \in Nat, k \in T PROVE k + 1 \in T
    <3>1. SUFFICES ASSUME k + 1 <= N PROVE run[k + 1] \in V
      OBVIOUS
    <3>2. run[k] \in V /\ k + 1 \in 1 .. N /\ (k + 1) - 1 = k
      BY <1>1, <2>2, <3>1
    <3>3. run[k + 1] = next(k + 1, run[(k + 1) - 1])
      BY <1>12, <3>2
    <3> QED BY <1>2, <3>2, <3>3
  <2> HIDE DEF T
  <2>3. Nat \subseteq T
    BY <2>1, <2>2, Induct
  <2> QED BY <2>3 DEF T
<1>14. run \in [0 .. N -> V]
  BY <1>12, <1>13
<1> QED BY <1>4, <1>12, <1>14 DEF PushedUpTo, next, N, V

\* What a pair's ring keeps of a meeting: the actions in the order of the key.
Stored(a, b, m) == [i \in 1 .. Len(m) |-> [t |-> m[i].t, actions |-> InKeyOrder(a, b, m[i].mine, m[i].other)]]
PairHolds(pairs, m, a, b) ==
  IF PairKey(a, b) \in DOMAIN pairs THEN Holds(HistoryLen, pairs[PairKey(a, b)], Stored(a, b, m)) ELSE m = <<>>

LEMMA StoredMore ==
  ASSUME NEW a \in Agent, NEW b \in Agent, NEW m \in Seq(Meeting), NEW x \in Meeting
  PROVE  /\ Stored(a, b, m) \in Seq(PairRec)
         /\ [t |-> x.t, actions |-> InKeyOrder(a, b, x.mine, x.other)] \in PairRec
         /\ Stored(a, b, Append(m, x)) = Append(Stored(a, b, m), [t |-> x.t, actions |-> InKeyOrder(a, b, x.mine, x.other)])
<1> DEFINE Rec(y) == [t |-> y.t, actions |-> InKeyOrder(a, b, y.mine, y.other)]
<1>1. ASSUME NEW y \in Meeting PROVE Rec(y) \in PairRec
  BY DEF Meeting, PairRec, InKeyOrder
<1>2. Stored(a, b, m) = [i \in 1 .. Len(m) |-> Rec(m[i])]
  BY DEF Stored
<1>3. Stored(a, b, Append(m, x)) = [i \in 1 .. Len(Append(m, x)) |-> Rec(Append(m, x)[i])]
  BY DEF Stored
<1> HIDE DEF Rec
<1>4. [i \in 1 .. Len(m) |-> Rec(m[i])] \in Seq(PairRec)
  BY <1>1
<1>5. Append([i \in 1 .. Len(m) |-> Rec(m[i])], Rec(x)) = [i \in 1 .. Len(m) + 1 |-> IF i <= Len(m) THEN Rec(m[i]) ELSE Rec(x)]
  BY <1>1, <1>4
<1>6. /\ Len(Append(m, x)) = Len(m) + 1
      /\ \A i \in 1 .. Len(m) + 1 : Append(m, x)[i] = IF i <= Len(m) THEN m[i] ELSE x
  OBVIOUS
<1>7. Stored(a, b, Append(m, x)) = Append(Stored(a, b, m), Rec(x))
  BY <1>2, <1>3, <1>5, <1>6
<1> QED BY <1>1, <1>2, <1>4, <1>7 DEF Rec

\* A play pushed is the meeting appended, for the two that met, and nothing for others.
LEMMA PushOneHolds ==
  ASSUME StepAssumption, t \in Nat, NEW pairs \in PairTables, NEW e, NEW roles \in Nat, PlayOK(e, roles),
         NEW a \in Agent, NEW b \in Agent, a # b, NEW m \in Seq(Meeting), PairHolds(pairs, m, a, b)
  PROVE  PairHolds(PushOne(pairs, e), IF Met(a, b, e) THEN Append(m, Seen(a, b, t, e)) ELSE m, a, b)
<1>1. CASE Len(e.seats) # 2
  BY <1>1 DEF PushOne, Met
<1>2. CASE Len(e.seats) = 2
  <2>1. PICK p \in Agent, q \in Agent, x \in Acted, y \in Acted :
          p = e.seats[1] /\ q = e.seats[2] /\ x = e.acts[1] /\ y = e.acts[2]
    BY <1>2 DEF PlayOK
  <2> DEFINE k == PairKey(p, q)
             old == IF k \in DOMAIN pairs THEN pairs[k] ELSE NewRing(HistoryLen, NoPair)
             new == PushRing(HistoryLen, old, [t |-> t, actions |-> InKeyOrder(p, q, x, y)])
             after == PushOne(pairs, e)
  <2>2. after = [j \in DOMAIN pairs \cup {k} |-> IF j = k THEN new ELSE pairs[j]]
    BY <1>2, <2>1 DEF PushOne, PushPair
  <2>3. Met(a, b, e) <=> {p, q} = {a, b}
    BY <1>2, <2>1 DEF Met
  <2>4. {p, q} = {a, b} <=> PairKey(p, q) = PairKey(a, b)
    <3>1. {p, q} = {a, b} <=> (p = a /\ q = b) \/ (p = b /\ q = a)
      OBVIOUS
    <3>2. p \in Int /\ q \in Int /\ a \in Int /\ b \in Int
      BY DEF Agent
    <3>3. \A u, v, w, z \in Int : <<u, v>> = <<w, z>> <=> u = w /\ v = z
      OBVIOUS
    <3>4. PairKey(p, q) = PairKey(a, b) <=> (p = a /\ q = b) \/ (p = b /\ q = a)
      BY <3>2, <3>3, SMT DEF PairKey
    <3> QED BY <3>1, <3>4
  <2> HIDE DEF after, new, old
  <2>5. CASE ~Met(a, b, e)
    <3>1. PairKey(a, b) # k
      BY <2>3, <2>4, <2>5
    <3>2. PairKey(a, b) \in DOMAIN after <=> PairKey(a, b) \in DOMAIN pairs
      BY <2>2, <3>1
    <3>3. PairKey(a, b) \in DOMAIN pairs => after[PairKey(a, b)] = pairs[PairKey(a, b)]
      BY <2>2, <3>1
    <3> QED BY <2>5, <3>2, <3>3 DEF PairHolds, after
  <2>6. CASE Met(a, b, e)
    <3>1. PairKey(a, b) = k /\ k \in DOMAIN after /\ after[k] = new
      BY <2>2, <2>3, <2>4, <2>6
    <3>2. PICK s \in Meeting : s = Seen(a, b, t, e)
      BY <2>6, SeenIs
    <3>3. s.t = t /\ InKeyOrder(a, b, s.mine, s.other) = InKeyOrder(p, q, x, y)
      <4>1. CASE p = a
        <5>1. q = b
          BY <2>3, <2>6, <4>1
        <5>2. s.t = t /\ s.mine = x /\ s.other = y
          BY <2>1, <3>2, <4>1 DEF Seen
        <5> QED BY <4>1, <5>1, <5>2
      <4>2. CASE p # a
        <5>1. p = b /\ q = a
          BY <2>3, <2>6, <4>2
        <5>2. s.t = t /\ s.mine = y /\ s.other = x
          BY <2>1, <3>2, <4>2 DEF Seen
        <5>3. a \in Int /\ b \in Int
          BY DEF Agent
        <5> QED BY <5>1, <5>2, <5>3 DEF InKeyOrder
      <4> QED BY <4>1, <4>2
    <3>4. Holds(HistoryLen, old, Stored(a, b, m))
      <4>1. CASE k \in DOMAIN pairs
        BY <3>1, <4>1 DEF PairHolds, old
      <4>2. CASE k \notin DOMAIN pairs
        <5>1. m = <<>> /\ old = NewRing(HistoryLen, NoPair)
          BY <3>1, <4>2 DEF PairHolds, old
        <5>2. Stored(a, b, <<>>) = <<>>
          BY DEF Stored
        <5> QED BY <5>1, <5>2, NewHolds DEF StepAssumption
      <4> QED BY <4>1, <4>2
    <3>5. PICK rec \in PairRec : rec = [t |-> t, actions |-> InKeyOrder(p, q, x, y)]
      BY <3>3, StoredMore
    <3>6. Stored(a, b, m) \in Seq(PairRec) /\ Stored(a, b, Append(m, s)) = Append(Stored(a, b, m), rec)
      BY <3>3, <3>5, StoredMore
    <3>7. Holds(HistoryLen, new, Append(Stored(a, b, m), rec))
      BY <3>4, <3>5, <3>6, PushHolds DEF StepAssumption, new
    <3> QED BY <2>6, <3>1, <3>2, <3>6, <3>7 DEF PairHolds, after
  <2> QED BY <2>5, <2>6
<1> QED BY <1>1, <1>2

LEMMA JoinAppend ==
  ASSUME NEW S, NEW u \in Seq(S), NEW v \in Seq(S), NEW x \in S
  PROVE  u \o Append(v, x) = Append(u \o v, x) /\ u \o v \in Seq(S) /\ u \o <<>> = u
OBVIOUS

\* So are all plays of a step.
LEMMA PushPairsHold ==
  ASSUME StepAssumption, t \in Nat, NEW pairs \in PairTables, NEW plays, NEW roles \in Nat, PlaysOK(plays, roles),
         NEW a \in Agent, NEW b \in Agent, a # b, NEW m \in Seq(Meeting), PairHolds(pairs, m, a, b)
  PROVE  PushPairs(pairs, plays) \in PairTables /\ PairHolds(PushPairs(pairs, plays), m \o MetIn(a, b, t, plays), a, b)
<1> DEFINE N == Len(plays)
<1>1. N \in Nat /\ \A k \in 1 .. N : PlayOK(plays[k], roles)
  BY LogIs DEF PlaysOK
<1>2. PICK f : PushedUpTo(f, pairs, plays)
  BY PushedRun
<1>3. PICK g : MetUpTo(g, a, b, t, plays)
  BY MetRun
<1>4. \A k \in 0 .. N : PairHolds(f[k], m \o g[k], a, b)
  <2> DEFINE T == {k \in Nat : k <= N => PairHolds(f[k], m \o g[k], a, b)}
  <2>1. 0 \in T
    <3>1. f[0] = pairs /\ g[0] = <<>> /\ m \o <<>> = m
      BY <1>2, <1>3 DEF PushedUpTo, MetUpTo
    <3> QED BY <3>1
  <2>2. ASSUME NEW k \in Nat, k \in T PROVE k + 1 \in T
    <3>1. SUFFICES ASSUME k + 1 <= N PROVE PairHolds(f[k + 1], m \o g[k + 1], a, b)
      OBVIOUS
    <3>2. PairHolds(f[k], m \o g[k], a, b) /\ k + 1 \in 1 .. N /\ (k + 1) - 1 = k /\ k \in 0 .. N
      BY <1>1, <2>2, <3>1
    <3>3. f[k + 1] = PushOne(f[k], plays[k + 1]) /\ f[k] \in PairTables
      <4>1. f[k + 1] = PushOne(f[(k + 1) - 1], plays[k + 1])
        BY <1>2, <3>2 DEF PushedUpTo
      <4> QED BY <1>2, <3>2, <4>1 DEF PushedUpTo
    <3>4. g[k] \in Seq(Meeting)
          /\ g[k + 1] = IF Met(a, b, plays[k + 1]) THEN Append(g[k], Seen(a, b, t, plays[k + 1])) ELSE g[k]
      <4>1. g[k + 1] = IF Met(a, b, plays[k + 1]) THEN Append(g[(k + 1) - 1], Seen(a, b, t, plays[k + 1])) ELSE g[(k + 1) - 1]
        BY <1>3, <3>2 DEF MetUpTo
      <4> QED BY <1>3, <3>2, <4>1 DEF MetUpTo
    <3>5. m \o g[k] \in Seq(Meeting)
          /\ m \o g[k + 1] = IF Met(a, b, plays[k + 1]) THEN Append(m \o g[k], Seen(a, b, t, plays[k + 1])) ELSE m \o g[k]
      <4>1. CASE Met(a, b, plays[k + 1])
        <5>1. PICK s \in Meeting : s = Seen(a, b, t, plays[k + 1])
          BY <1>1, <3>2, <4>1, SeenIs
        <5>2. m \o Append(g[k], s) = Append(m \o g[k], s) /\ m \o g[k] \in Seq(Meeting)
          <6>1. PICK y \in Seq(Meeting) : y = g[k]
            BY <3>4
          <6>2. m \o Append(y, s) = Append(m \o y, s) /\ m \o y \in Seq(Meeting)
            BY JoinAppend
          <6> QED BY <6>1, <6>2
        <5>3. g[k + 1] = Append(g[k], s)
          BY <3>4, <4>1, <5>1
        <5> QED BY <4>1, <5>1, <5>2, <5>3
      <4>2. CASE ~Met(a, b, plays[k + 1])
        <5>1. m \o g[k] \in Seq(Meeting)
          BY <3>4
        <5> QED BY <3>4, <4>2, <5>1
      <4> QED BY <4>1, <4>2
    <3>6. PlayOK(plays[k + 1], roles)
      BY <1>1, <3>2
    <3>7. PairHolds(PushOne(f[k], plays[k + 1]),
            IF Met(a, b, plays[k + 1]) THEN Append(m \o g[k], Seen(a, b, t, plays[k + 1])) ELSE m \o g[k], a, b)
      <4>1. PICK mm \in Seq(Meeting) : mm = m \o g[k]
        BY <3>5
      <4>2. PairHolds(f[k], mm, a, b)
        BY <3>2, <4>1
      <4> QED BY <3>3, <3>6, <4>1, <4>2, PushOneHolds
    <3> QED BY <3>3, <3>5, <3>7
  <2> HIDE DEF T
  <2>3. Nat \subseteq T
    BY <2>1, <2>2, Induct
  <2> QED BY <2>3 DEF T
<1>5. N \in 0 .. N
  BY <1>1
<1>6. PushPairs(pairs, plays) = f[N] /\ f[N] \in PairTables /\ MetIn(a, b, t, plays) = g[N]
  BY <1>2, <1>3, <1>5 DEF PushedUpTo, MetUpTo
<1> QED BY <1>4, <1>5, <1>6

\* PairRing.iter shows the end of what was pushed, oldest first.
LEMMA ViewOfPairRing ==
  ASSUME NEW n \in Nat \ {0}, NEW S, NEW s \in Seq(S), NEW r, Holds(n, r, s)
  PROVE  RingView(n, r) = LastOf(n, s)
<1> DEFINE h == r.head
<1>1. h \in 0 .. n - 1 /\ r.filled = Smaller(Len(s), n) /\ Len(s) \in Nat
  BY DEF Holds
<1>2. CASE Len(s) < n
  <2>1. r.filled = Len(s) /\ RingStart(n, r) = 0 /\ \A i \in 0 .. Len(s) - 1 : r.data[i] = s[i + 1]
    BY <1>1, <1>2, SMT DEF RingStart, Smaller, Holds
  <2>2. \A i \in 1 .. Len(s) : (0 + i - 1) % n = i - 1
    <3> SUFFICES ASSUME NEW i \in 1 .. Len(s) PROVE (0 + i - 1) % n = i - 1
      OBVIOUS
    <3>1. 0 + i - 1 \in Nat /\ 0 + i - 1 < 2 * n /\ Slot(n, 0 + i - 1) = i - 1
      BY <1>2, SMT DEF Slot
    <3> QED BY <3>1, Wrap
  <2>3. \A i \in 1 .. Len(s) : r.data[i - 1] = s[i]
    <3> SUFFICES ASSUME NEW i \in 1 .. Len(s) PROVE r.data[i - 1] = s[i]
      OBVIOUS
    <3>1. i - 1 \in 0 .. Len(s) - 1 /\ (i - 1) + 1 = i
      BY <1>1, SMT
    <3> QED BY <2>1, <3>1
  <2>4. RingView(n, r) = [i \in 1 .. Len(s) |-> s[i]]
    BY <2>1, <2>2, <2>3 DEF RingView
  <2>5. LastOf(n, s) = s /\ s = [i \in 1 .. Len(s) |-> s[i]]
    BY <1>2, SMT DEF LastOf
  <2> QED BY <2>4, <2>5
<1>3. CASE Len(s) >= n
  <2>1. r.filled = n /\ RingStart(n, r) = h
    BY <1>1, <1>3, SMT DEF RingStart, Smaller
  <2>2. ASSUME NEW i \in 1 .. n
        PROVE  r.data[(h + i - 1) % n] = s[Len(s) - n + i]
    <3>1. h + i - 1 = h + (i - 1) /\ h + (i - 1) \in Nat /\ h + (i - 1) < 2 * n /\ i - 1 \in 0 .. n - 1
      BY <1>1, SMT
    <3>2. (h + i - 1) % n = Slot(n, h + (i - 1))
      BY <3>1, Wrap
    <3>3. r.data[Slot(n, h + (i - 1))] = s[Len(s) - n + 1 + (i - 1)]
      BY <1>3, <3>1 DEF Holds
    <3>4. Len(s) - n + 1 + (i - 1) = Len(s) - n + i
      BY <1>1, SMT
    <3> QED BY <3>2, <3>3, <3>4
  <2>3. RingView(n, r) = [i \in 1 .. n |-> s[Len(s) - n + i]]
    BY <2>1, <2>2 DEF RingView
  <2>4. LastOf(n, s) \in Seq(S) /\ Len(LastOf(n, s)) = n
        /\ \A i \in 1 .. n : LastOf(n, s)[i] = s[Len(s) - n + i]
    BY <1>1, <1>3, Lasts, SMT DEF Smaller
  <2>5. LastOf(n, s) = [i \in 1 .. n |-> LastOf(n, s)[i]]
    BY <2>4
  <2> QED BY <2>3, <2>4, <2>5
<1> QED BY <1>1, <1>2, <1>3, SMT

\* An agent reads its last meetings, from its own side.
LEMMA PairViewHolds ==
  ASSUME StepAssumption, NEW pairs, NEW a \in Agent, NEW b \in Agent, NEW m \in Seq(Meeting),
         PairHolds(pairs, m, a, b)
  PROVE  PairView(HistoryLen, pairs, a, b) = LastOf(HistoryLen, m)
<1>1. PICK n \in Nat \ {0} : n = HistoryLen
  BY DEF StepAssumption
<1>2. CASE PairKey(a, b) \notin DOMAIN pairs
  <2>1. m = <<>> /\ Len(m) = 0 /\ Len(m) <= n
    BY <1>2 DEF PairHolds
  <2>2. LastOf(n, m) = <<>>
    BY <2>1, Lasts
  <2> QED BY <1>1, <1>2, <2>2 DEF PairView
<1>3. CASE PairKey(a, b) \in DOMAIN pairs
  <2> DEFINE st == Stored(a, b, m)
             s  == LastOf(n, st)
             of(y) == [t |-> y.t, mine |-> y.actions[IF a <= b THEN 1 ELSE 2], other |-> y.actions[IF a <= b THEN 2 ELSE 1]]
             Rec(y) == [t |-> y.t, actions |-> InKeyOrder(a, b, y.mine, y.other)]
  <2>1. st \in Seq(PairRec) /\ Len(st) = Len(m) /\ \A i \in 1 .. Len(m) : st[i] = Rec(m[i])
    <3>1. CASE m = <<>>
      <4>1. st = <<>>
        BY <3>1 DEF Stored
      <4> HIDE DEF st
      <4>2. st \in Seq(PairRec) /\ Len(st) = 0 /\ Len(m) = 0 /\ 1 .. 0 = {}
        BY <3>1, <4>1
      <4> QED BY <4>2, Zenon
    <3>2. CASE m # <<>>
      <4>1. st \in Seq(PairRec)
        <5>1. m[1] \in Meeting
          BY <3>2
        <5> QED BY <5>1, StoredMore
      <4> QED BY <4>1 DEF Stored
    <3> QED BY <3>1, <3>2
  <2>2. ASSUME NEW y \in Meeting PROVE of(Rec(y)) = y
    <3>1. y = [t |-> y.t, mine |-> y.mine, other |-> y.other]
      BY DEF Meeting
    <3>2. CASE a <= b
      <4>1. Rec(y).actions = <<y.mine, y.other>>
        BY <3>2 DEF InKeyOrder
      <4> QED BY <3>1, <3>2, <4>1
    <3>3. CASE ~(a <= b)
      <4>1. Rec(y).actions = <<y.other, y.mine>>
        BY <3>3 DEF InKeyOrder
      <4> QED BY <3>1, <3>3, <4>1
    <3> QED BY <3>2, <3>3
  <2> HIDE DEF st
  <2>3. RingView(n, pairs[PairKey(a, b)]) = s
    BY <1>1, <1>3, <2>1, ViewOfPairRing DEF PairHolds, st
  <2>4. PairView(n, pairs, a, b) = [i \in DOMAIN s |-> of(s[i])]
    BY <1>3, <2>3 DEF PairView
  <2> DEFINE l == LastOf(n, m)
  <2>5. /\ s \in Seq(PairRec) /\ l \in Seq(Meeting) /\ Len(s) = Len(l)
        /\ \A i \in 1 .. Len(l) : s[i] = Rec(l[i])
    <3>1. /\ s \in Seq(PairRec) /\ l \in Seq(Meeting) /\ Len(s) = Smaller(Len(m), n) /\ Len(l) = Smaller(Len(m), n)
          /\ Len(m) <= n => s = st /\ l = m
          /\ Len(m) > n => \A i \in 1 .. n : s[i] = st[Len(m) - n + i] /\ l[i] = m[Len(m) - n + i]
      <4>1. /\ s \in Seq(PairRec) /\ Len(s) = Smaller(Len(st), n)
            /\ Len(st) <= n => s = st
            /\ Len(st) > n => \A i \in 1 .. n : s[i] = st[Len(st) - n + i]
        BY <2>1, Lasts, Zenon
      <4>2. /\ l \in Seq(Meeting) /\ Len(l) = Smaller(Len(m), n)
            /\ Len(m) <= n => l = m
            /\ Len(m) > n => \A i \in 1 .. n : l[i] = m[Len(m) - n + i]
        BY Lasts, Zenon
      <4>3. Len(st) = Len(m)
        BY <2>1
      <4> HIDE DEF s, l
      <4> QED BY <4>1, <4>2, <4>3, Zenon
    <3>2. CASE Len(m) <= n
      BY <2>1, <3>1, <3>2
    <3>3. CASE Len(m) > n
      <4>1. Len(l) = n /\ \A i \in 1 .. n : Len(m) - n + i \in 1 .. Len(m)
        BY <3>1, <3>3, SMT DEF Smaller
      <4> HIDE DEF Rec
      <4> QED BY <2>1, <3>1, <3>3, <4>1, Zenon
    <3>4. Len(m) <= n \/ Len(m) > n
      BY SMT
    <3> QED BY <3>2, <3>3, <3>4
  <2> HIDE DEF s, l, of, Rec
  <2>6. DOMAIN s = 1 .. Len(l) /\ \A i \in 1 .. Len(l) : l[i] \in Meeting /\ of(s[i]) = l[i]
    BY <2>2, <2>5
  <2>7. l = [i \in 1 .. Len(l) |-> l[i]]
    BY <2>5
  <2>8. PairView(n, pairs, a, b) = l
    BY <2>4, <2>6, <2>7
  <2> QED BY <1>1, <2>8 DEF l
<1> QED BY <1>2, <1>3

-----------------------------------------------------------------------------
(* What every step keeps of the plays and the histories of pairs *)

LEMMA NoPlays ==
  ASSUME NEW roles
  PROVE  PlaysOK(<<>>, roles) /\ LogOK(<<>>, roles)
<1>1. IsLog(<<>>) /\ Len(<<>>) = 0
  BY DEF IsLog
<1> QED BY <1>1 DEF PlaysOK, LogOK

\* Plays by their parts.
LEMMA BuiltPlays ==
  ASSUME NEW n \in Nat, NEW roles \in Nat, NEW p, p = [i \in 1 .. n |-> p[i]],
         \A i \in 1 .. n : PlayOK(p[i], roles)
  PROVE  PlaysOK(p, roles) /\ Len(p) = n
<1>1. IsLog(p) /\ Len(p) = n
  BY MappedLog
<1> QED BY <1>1 DEF PlaysOK

\* Filling seats keeps who sits where.
SameSeats(p, q) == Len(q) = Len(p) /\ \A i \in 1 .. Len(p) : q[i].seats = p[i].seats
SameActs(p, q)  == SameSeats(p, q) /\ \A i \in 1 .. Len(p) : q[i].acts = p[i].acts

ActsSet(p, q, acts, roles) ==
  /\ \A i \in 1 .. Len(p) : acts[i] \in [1 .. roles -> Acted]
  /\ q = [i \in DOMAIN p |-> [p[i] EXCEPT !.acts = acts[i]]]
LEMMA Refilled ==
  ASSUME NEW roles \in Nat, NEW p, PlaysOK(p, roles), NEW acts, NEW q, ActsSet(p, q, acts, roles)
  PROVE  PlaysOK(q, roles) /\ SameSeats(p, q) /\ \A i \in 1 .. Len(p) : q[i].acts = acts[i]
<1>1. Len(p) \in Nat /\ DOMAIN p = 1 .. Len(p) /\ \A i \in 1 .. Len(p) : PlayOK(p[i], roles)
  BY LogIs DEF PlaysOK
<1>2. q = [i \in 1 .. Len(p) |-> [p[i] EXCEPT !.acts = acts[i]]] /\ q = [i \in 1 .. Len(p) |-> q[i]]
      /\ \A i \in 1 .. Len(p) : acts[i] \in [1 .. roles -> Acted]
  BY <1>1 DEF ActsSet
<1>3. ASSUME NEW i \in 1 .. Len(p)
      PROVE  PlayOK(q[i], roles) /\ q[i].acts = acts[i] /\ q[i].seats = p[i].seats
  <2>1. PICK e : e = p[i] /\ PlayOK(e, roles)
    BY <1>1
  <2>2. q[i] = [seats |-> e.seats, credit |-> e.credit, acts |-> acts[i], pays |-> e.pays]
    <3>1. e = [seats |-> e.seats, credit |-> e.credit, acts |-> e.acts, pays |-> e.pays]
      BY <2>1 DEF PlayOK
    <3>2. q[i] = [e EXCEPT !.acts = acts[i]]
      BY <1>2, <2>1
    <3> QED BY <3>1, <3>2
  <2> QED BY <1>2, <2>1, <2>2 DEF PlayOK
<1>4. PlaysOK(q, roles) /\ Len(q) = Len(p)
  <2>1. PICK n \in Nat : n = Len(p)
    BY <1>1
  <2>2. q = [i \in 1 .. n |-> q[i]] /\ \A i \in 1 .. n : PlayOK(q[i], roles)
    BY <1>2, <1>3, <2>1, Zenon
  <2>3. PlaysOK(q, roles) /\ Len(q) = n
    BY <2>2, BuiltPlays, Zenon
  <2> QED BY <2>1, <2>3
<1> QED BY <1>3, <1>4 DEF SameSeats

LEMMA Repaid ==
  ASSUME NEW roles \in Nat, NEW p, PlaysOK(p, roles), NEW k
  PROVE  PlaysOK(Paid(p, k), roles) /\ SameActs(p, Paid(p, k))
<1> DEFINE q == Paid(p, k)
           pays(i) == IF i <= k THEN SeatPayoffs(asm.game, asm.play, p[i].acts) ELSE p[i].pays
<1>1. Len(p) \in Nat /\ DOMAIN p = 1 .. Len(p) /\ \A i \in 1 .. Len(p) : PlayOK(p[i], roles)
  BY LogIs DEF PlaysOK
<1>2. q = [i \in 1 .. Len(p) |-> [p[i] EXCEPT !.pays = pays(i)]]
  BY <1>1 DEF Paid
<1> HIDE DEF q, pays
<1>3. ASSUME NEW i \in 1 .. Len(p)
      PROVE  PlayOK(q[i], roles) /\ q[i].acts = p[i].acts /\ q[i].seats = p[i].seats
  <2>1. PICK e : e = p[i] /\ PlayOK(e, roles)
    BY <1>1
  <2>2. q[i] = [seats |-> e.seats, credit |-> e.credit, acts |-> e.acts, pays |-> pays(i)]
    <3>1. e = [seats |-> e.seats, credit |-> e.credit, acts |-> e.acts, pays |-> e.pays]
      BY <2>1 DEF PlayOK
    <3>2. q[i] = [e EXCEPT !.pays = pays(i)]
      BY <1>2, <2>1
    <3> QED BY <3>1, <3>2
  <2> QED BY <2>1, <2>2 DEF PlayOK
<1>4. q = [i \in 1 .. Len(p) |-> q[i]]
  BY <1>2
<1>5. PlaysOK(q, roles) /\ Len(q) = Len(p)
  BY <1>1, <1>3, <1>4, BuiltPlays
<1> QED BY <1>3, <1>5 DEF SameSeats, SameActs, q

\* What was paid does not show in the meetings.
LEMMA SameMeetings ==
  ASSUME NEW a \in Agent, NEW b \in Agent, NEW when \in Nat, NEW roles \in Nat,
         NEW p, PlaysOK(p, roles), NEW q, PlaysOK(q, roles), SameActs(p, q)
  PROVE  MetIn(a, b, when, q) = MetIn(a, b, when, p)
<1>1. PICK f : MetUpTo(f, a, b, when, p)
  BY MetRun
<1>2. PICK g : MetUpTo(g, a, b, when, q)
  BY MetRun
<1>3. Len(p) \in Nat /\ Len(q) = Len(p)
  BY LogIs DEF PlaysOK, SameActs, SameSeats
<1>4. \A k \in 1 .. Len(p) : /\ Met(a, b, q[k]) <=> Met(a, b, p[k])
                             /\ Seen(a, b, when, q[k]) = Seen(a, b, when, p[k])
  <2> SUFFICES ASSUME NEW k \in 1 .. Len(p)
               PROVE  /\ Met(a, b, q[k]) <=> Met(a, b, p[k])
                      /\ Seen(a, b, when, q[k]) = Seen(a, b, when, p[k])
    OBVIOUS
  <2>1. q[k].seats = p[k].seats /\ q[k].acts = p[k].acts
    BY DEF SameActs, SameSeats
  <2> QED BY <2>1 DEF Met, Seen
<1> DEFINE T == {k \in Nat : k <= Len(p) => g[k] = f[k]}
<1>5. 0 \in T
  BY <1>1, <1>2 DEF MetUpTo
<1>6. ASSUME NEW k \in Nat, k \in T PROVE k + 1 \in T
  <2>1. SUFFICES ASSUME k + 1 <= Len(p) PROVE g[k + 1] = f[k + 1]
    OBVIOUS
  <2>2. k + 1 \in 1 .. Len(p) /\ (k + 1) - 1 = k /\ g[k] = f[k]
    BY <1>3, <1>6, <2>1
  <2>3. f[k + 1] = IF Met(a, b, p[k + 1]) THEN Append(f[(k + 1) - 1], Seen(a, b, when, p[k + 1])) ELSE f[(k + 1) - 1]
    BY <1>1, <2>2 DEF MetUpTo
  <2>4. g[k + 1] = IF Met(a, b, q[k + 1]) THEN Append(g[(k + 1) - 1], Seen(a, b, when, q[k + 1])) ELSE g[(k + 1) - 1]
    BY <1>2, <1>3, <2>2 DEF MetUpTo
  <2> QED BY <1>4, <2>2, <2>3, <2>4
<1> HIDE DEF T
<1>7. Nat \subseteq T
  BY <1>5, <1>6, Induct
<1>8. g[Len(p)] = f[Len(p)]
  BY <1>3, <1>7 DEF T
<1> QED BY <1>1, <1>2, <1>3, <1>8 DEF MetUpTo

LEMMA MeetingsOneMore ==
  ASSUME NEW a \in Agent, NEW b \in Agent, NEW roles \in Nat, NEW l, LogOK(l, roles),
         NEW when \in Nat, NEW plays, PlaysOK(plays, roles), NEW e, e.t = when, e.plays = plays
  PROVE  /\ Meetings(l, a, b) \in Seq(Meeting)
         /\ Meetings(Append(l, e), a, b) = Meetings(l, a, b) \o MetIn(a, b, when, plays)
<1>1. \A f : f.t \in Nat /\ PlaysOK(f.plays, roles) =>
        /\ Meetings(l, a, b) \in Seq(Meeting)
        /\ Meetings(Append(l, f), a, b) = Meetings(l, a, b) \o MetIn(a, b, f.t, f.plays)
  BY MeetingsGrow
<1> QED BY <1>1

\* Every pair's ring holds the meetings of the pair that the log holds.
PairsInv(l, pairs, roles) ==
  /\ LogOK(l, roles) /\ pairs \in PairTables
  /\ \A a, b \in Agent : a # b => PairHolds(pairs, Meetings(l, a, b), a, b)

LEMMA PairsCommit ==
  ASSUME StepAssumption, t \in Nat, NEW l, NEW pairs, NEW roles \in Nat, PairsInv(l, pairs, roles),
         NEW p, PlaysOK(p, roles), NEW q, PlaysOK(q, roles), SameActs(p, q),
         NEW e, e.t = t, e.plays = q
  PROVE  PairsInv(Append(l, e), PushPairs(pairs, p), roles)
<1>1. LogOK(l, roles) /\ pairs \in PairTables
  BY DEF PairsInv
<1>2. LogOK(Append(l, e), roles)
  <2>1. IsLog(l) /\ Len(l) \in Nat /\ IsLog(Append(l, e)) /\ Len(Append(l, e)) = Len(l) + 1
        /\ Append(l, e)[Len(l) + 1] = e /\ \A i \in 1 .. Len(l) : Append(l, e)[i] = l[i]
    BY <1>1, LogIs, AppendedLog DEF LogOK
  <2>2. PICK l2 : l2 = Append(l, e)
    OBVIOUS
  <2>3. ASSUME NEW j \in 1 .. Len(l2) PROVE l2[j].t \in Nat /\ PlaysOK(l2[j].plays, roles)
    <3>1. j \in 1 .. Len(l) \/ j = Len(l) + 1
      BY <2>1, <2>2
    <3>2. \A i \in 1 .. Len(l) : l[i].t \in Nat /\ PlaysOK(l[i].plays, roles)
      BY <1>1 DEF LogOK
    <3> QED BY <2>1, <2>2, <3>1, <3>2, Zenon
  <2> QED BY <2>1, <2>2, <2>3, Zenon DEF LogOK
<1>3. ASSUME NEW a \in Agent, NEW b \in Agent, a # b
      PROVE  PushPairs(pairs, p) \in PairTables
             /\ PairHolds(PushPairs(pairs, p), Meetings(Append(l, e), a, b), a, b)
  <2>1. Meetings(l, a, b) \in Seq(Meeting)
        /\ Meetings(Append(l, e), a, b) = Meetings(l, a, b) \o MetIn(a, b, t, q)
    <3>1. PICK when \in Nat : when = t
      OBVIOUS
    <3>2. LogOK(l, roles) /\ e.t = when /\ e.plays = q
      BY <1>1, <3>1
    <3>3. /\ Meetings(l, a, b) \in Seq(Meeting)
          /\ Meetings(Append(l, e), a, b) = Meetings(l, a, b) \o MetIn(a, b, when, q)
      BY <3>2, MeetingsOneMore
    <3> QED BY <3>1, <3>3
  <2>2. MetIn(a, b, t, q) = MetIn(a, b, t, p)
    BY SameMeetings
  <2>3. PairHolds(pairs, Meetings(l, a, b), a, b)
    BY <1>3 DEF PairsInv
  <2>4. PICK m \in Seq(Meeting) : m = Meetings(l, a, b)
    BY <2>1
  <2>5. PairHolds(pairs, m, a, b)
    BY <2>3, <2>4
  <2>6. PushPairs(pairs, p) \in PairTables /\ PairHolds(PushPairs(pairs, p), m \o MetIn(a, b, t, p), a, b)
    BY <1>1, <1>3, <2>5, PushPairsHold
  <2> QED BY <2>1, <2>2, <2>4, <2>6
<1>4. PushPairs(pairs, p) \in PairTables
  <2>1. PICK f : PushedUpTo(f, pairs, p)
    BY <1>1, PushedRun
  <2>2. Len(p) \in 0 .. Len(p)
    BY LogIs DEF PlaysOK
  <2> QED BY <2>1, <2>2 DEF PushedUpTo
<1> QED BY <1>2, <1>3, <1>4 DEF PairsInv

\* An entry without plays adds no meeting.
LEMMA PairsCommitNone ==
  ASSUME StepAssumption, t \in Nat, NEW l, NEW pairs, NEW roles \in Nat, PairsInv(l, pairs, roles),
         NEW e, e.t = t, e.plays = <<>>
  PROVE  PairsInv(Append(l, e), pairs, roles)
<1>1. pairs \in PairTables /\ PlaysOK(<<>>, roles) /\ SameActs(<<>>, <<>>) /\ Len(<<>>) = 0
  BY NoPlays DEF PairsInv, SameActs, SameSeats
<1>2. PICK f : PushedUpTo(f, pairs, <<>>)
  BY <1>1, PushedRun
<1>3. PushPairs(pairs, <<>>) = pairs
  BY <1>1, <1>2 DEF PushedUpTo
<1>4. PairsInv(Append(l, e), PushPairs(pairs, <<>>), roles)
  BY <1>1, PairsCommit
<1> QED BY <1>3, <1>4

\* Somebody sits in one of the plays.
Sits(plays, roles, a) == \E i \in 1 .. Len(plays), r \in 1 .. roles : plays[i].seats[r] = a

LEMMA SitsStill ==
  ASSUME NEW p, NEW q, SameSeats(p, q), NEW roles, NEW a, Sits(p, roles, a)
  PROVE  Sits(q, roles, a)
BY DEF SameSeats, Sits

\* The assembly of the run is one that was accepted; only an asynchronous one has
\* no plays when it records, and what agents hold is a profile otherwise; who
\* still has to decide has a seat; the rings of pairs hold the meetings of the log.
GInv ==
  /\ asm \in Assemblies /\ Accepted(asm) /\ t \in Nat
  /\ {"held", "plays", "pairs", "payoff", "n"} \subseteq DOMAIN world
  /\ Async \/ world.held \in [Agent -> Action]
  /\ PlaysOK(world.plays, asm.game.roles)
  /\ PairsInv(log, world.pairs, asm.game.roles)
  /\ pc = "play" \/ (pc = "reward" /\ Async) => world.plays = <<>>
  /\ pc \in {"match", "held", "decide"} => ~Async
  /\ pc = "decide" => todo \subseteq Agent /\ \A a \in todo : Sits(world.plays, asm.game.roles, a)

LEMMA GInit == Init => GInv
<1> SUFFICES ASSUME Init PROVE GInv
  OBVIOUS
<1>1. asm \in Assemblies /\ Accepted(asm) /\ t = 0 /\ pc = "idle" /\ log = <<>>
  BY DEF Init
<1>2. PICK h \in [Agent -> Action] :
        world = [held |-> h, plays |-> <<>>, payoff |-> NoPay.pay, n |-> NoPay.n, counts |-> <<>>,
                 steps |-> NewRing(HistoryLen, [a \in Agent |-> NoRec]), pairs |-> <<>>, aggs |-> NewTable]
  BY DEF Init
<1>3. world.held = h /\ world.plays = <<>> /\ world.pairs = <<>> /\ {"held", "plays", "pairs", "payoff", "n"} \subseteq DOMAIN world
  BY <1>2
<1>4. asm.game.roles \in Nat
  BY <1>1, AssemblyAssumption
<1>5. <<>> \in PairTables
  <2>1. {} \in SUBSET (Agent \X Agent) /\ <<>> \in [{} -> PairRing]
    OBVIOUS
  <2> QED BY <2>1 DEF PairTables
<1>6. ASSUME NEW a \in Agent, NEW b \in Agent PROVE PairHolds(<<>>, Meetings(<<>>, a, b), a, b)
  <2>1. PICK e : e = [t |-> 0, plays |-> <<>>]
    OBVIOUS
  <2>2. e.t \in Nat /\ PlaysOK(e.plays, asm.game.roles) /\ LogOK(<<>>, asm.game.roles)
    BY <2>1, NoPlays
  <2>3. Meetings(<<>>, a, b) = <<>>
    BY <1>4, <2>2, MeetingsGrow
  <2>4. DOMAIN <<>> = {}
    OBVIOUS
  <2> QED BY <2>3, <2>4 DEF PairHolds
<1>7. PairsInv(<<>>, <<>>, asm.game.roles)
  BY <1>5, <1>6, NoPlays DEF PairsInv
<1>8. PlaysOK(<<>>, asm.game.roles)
  BY NoPlays
<1> QED BY <1>1, <1>3, <1>7, <1>8 DEF GInv

\* What a step has to show that commits nothing.
LEMMA GKept ==
  ASSUME GInv, asm' = asm, t' \in Nat, log' = log,
         {"held", "plays", "pairs", "payoff", "n"} \subseteq DOMAIN world', world'.pairs = world.pairs,
         Async \/ world'.held \in [Agent -> Action],
         PlaysOK(world'.plays, asm.game.roles),
         pc' = "play" \/ (pc' = "reward" /\ Async) => world'.plays = <<>>,
         pc' \in {"match", "held", "decide"} => ~Async,
         pc' = "decide" => todo' \subseteq Agent /\ \A a \in todo' : Sits(world'.plays, asm.game.roles, a)
  PROVE  GInv'
BY DEF GInv, Async

\* The asynchronous mechanism and the implicit path leave no plays and no pairs.
LEMMA GImplicit ==
  ASSUME StepAssumption, GInv, NEW v, NEW tabled, RecordImplicit(v, tabled),
         {"held", "plays", "pairs", "payoff", "n"} \subseteq DOMAIN v,
         v.plays = <<>>, v.pairs = world.pairs, v.held = world.held, asm' = asm, t' = t,
         pc' \in {"reward", "post", "idle"}
  PROVE  GInv'
<1>1. PICK acts, totals, recs, rows : Commit([v EXCEPT !.counts = FlattenSeq(acts)], totals, recs, rows)
  BY DEF RecordImplicit
<1>2. PICK w : w = [v EXCEPT !.counts = FlattenSeq(acts)]
  OBVIOUS
<1>3. w.plays = <<>> /\ w.pairs = world.pairs /\ w.held = world.held /\ {"held", "plays", "pairs", "payoff", "n"} \subseteq DOMAIN w
  BY <1>2
<1>4. PICK e : e = [t |-> t, records |-> recs, plays |-> w.plays, rows |-> rows]
  OBVIOUS
<1>5. log' = Append(log, e) /\ e.t = t /\ e.plays = <<>>
  BY <1>1, <1>2, <1>3, <1>4 DEF Commit
<1>6. /\ world'.plays = <<>> /\ world'.pairs = world.pairs /\ world'.held = world.held
      /\ {"held", "plays", "pairs", "payoff", "n"} \subseteq DOMAIN world'
  <2>1. PICK p1, p2, p3, p4 : world' = [w EXCEPT !.payoff = p1, !.n = p2, !.steps = p3, !.aggs = p4]
    BY <1>1, <1>2 DEF Commit
  <2> QED BY <1>3, <2>1
<1>7. asm.game.roles \in Nat /\ t \in Nat /\ PairsInv(log, world.pairs, asm.game.roles)
  BY AssemblyAssumption DEF GInv
<1>8. PairsInv(log', world'.pairs, asm.game.roles)
  BY <1>5, <1>6, <1>7, PairsCommitNone
<1>9. PlaysOK(world'.plays, asm.game.roles)
  BY <1>6, NoPlays
<1> QED BY <1>6, <1>7, <1>8, <1>9 DEF GInv, Async

\* The world that an asynchronous mechanism records into has none either.
LEMMA EmptiedKeeps ==
  ASSUME GInv
  PROVE  /\ Emptied.held = world.held /\ Emptied.plays = world.plays /\ Emptied.pairs = world.pairs
         /\ {"held", "plays", "pairs", "payoff", "n"} \subseteq DOMAIN Emptied
BY DEF GInv, Emptied

LEMMA GClear == GInv /\ Clear => GInv'
<1> SUFFICES ASSUME GInv, Clear PROVE GInv'
  OBVIOUS
<1>1. /\ asm' = asm /\ t' \in Nat /\ log' = log /\ world'.plays = <<>> /\ world'.pairs = world.pairs
      /\ world'.held = world.held /\ DOMAIN world' = DOMAIN world
      /\ pc' = IF Async THEN "reward" ELSE IF ImplicitPath THEN "play" ELSE "match"
  BY DEF Clear, GInv
<1>2. PlaysOK(world'.plays, asm.game.roles)
  BY <1>1, NoPlays
<1>3. pc' # "decide" /\ (pc' \in {"match", "held", "decide"} => ~Async)
  BY <1>1
<1> QED BY <1>1, <1>2, <1>3, GKept DEF GInv

LEMMA GMatch == GInv /\ Match => GInv'
<1> SUFFICES ASSUME GInv, Match PROVE GInv'
  OBVIOUS
<1>1. /\ asm' = asm /\ t' = t /\ log' = log /\ pc = "match" /\ pc' = "held"
  BY DEF Match
<1>2. PICK es \in Encounters(asm.matching, asm.top) :
        world' = [world EXCEPT !.plays = [i \in DOMAIN es |-> Unfilled(es[i])]]
  BY DEF Match
<1>3. PICK roles \in Nat : roles = asm.game.roles
  BY AssemblyAssumption DEF GInv
<1>4. es \in Seq(Encounter) /\ \A i \in DOMAIN es : Len(es[i].seats) = roles
  BY <1>3, AssemblyAssumption DEF GInv
<1>5. PICK p : p = [i \in 1 .. Len(es) |-> Unfilled(es[i])]
  OBVIOUS
<1>6. world'.plays = p /\ world'.pairs = world.pairs /\ world'.held = world.held /\ DOMAIN world' = DOMAIN world
  BY <1>2, <1>4, <1>5 DEF GInv
<1>7. ASSUME NEW i \in 1 .. Len(es) PROVE PlayOK(p[i], roles)
  <2>1. es[i] \in Encounter /\ Len(es[i].seats) = roles
    BY <1>4
  <2>2. PICK e \in Encounter : e = es[i] /\ Len(e.seats) = roles
    BY <2>1
  <2>3. DOMAIN e.seats = 1 .. roles /\ e.seats \in Seq(Agent) /\ e.credit \in {"all", "center"}
    BY <2>2 DEF Encounter
  <2>4. p[i] = [seats |-> e.seats, credit |-> e.credit,
                acts |-> [r \in 1 .. roles |-> NoAct], pays |-> [r \in 1 .. roles |-> 0]]
    BY <1>5, <2>2, <2>3 DEF Unfilled
  <2>5. [r \in 1 .. roles |-> NoAct] \in [1 .. roles -> Acted]
    BY DEF Acted
  <2> QED BY <2>2, <2>3, <2>4, <2>5 DEF PlayOK
<1>8. PlaysOK(p, roles)
  <2>1. Len(es) \in Nat /\ p = [i \in 1 .. Len(es) |-> p[i]]
    BY <1>4, <1>5
  <2> QED BY <1>7, <2>1, BuiltPlays
<1> QED BY <1>1, <1>3, <1>6, <1>8, GKept DEF GInv

LEMMA GSeatHeld == GInv /\ SeatHeld => GInv'
<1> SUFFICES ASSUME GInv, SeatHeld PROVE GInv'
  OBVIOUS
<1>1. /\ asm' = asm /\ t' = t /\ log' = log /\ pc = "held" /\ pc' = "decide"
      /\ todo' = {a \in asm.rules : RolesOf(a) # {}}
  BY DEF SeatHeld
<1>2. PICK roles \in Nat : roles = asm.game.roles
  BY AssemblyAssumption DEF GInv
<1>3. PICK p : p = world.plays /\ PlaysOK(p, roles)
  BY <1>2 DEF GInv
<1>4. PICK held : held = world.held /\ held \in [Agent -> Action]
  BY <1>1 DEF GInv
<1>5. Len(p) \in Nat /\ DOMAIN p = 1 .. Len(p) /\ \A i \in 1 .. Len(p) : PlayOK(p[i], roles)
  BY <1>3, LogIs DEF PlaysOK
<1> DEFINE act(i, r) == IF Held(p[i].seats[r]) THEN held[p[i].seats[r]] ELSE NoAct
<1>6. PICK acts : acts = [i \in 1 .. Len(p) |-> [r \in DOMAIN p[i].seats |-> IF act(i, r) # NoAct THEN act(i, r) ELSE p[i].acts[r]]]
  OBVIOUS
<1>7. ASSUME NEW i \in 1 .. Len(p) PROVE acts[i] \in [1 .. roles -> Acted]
  <2>1. DOMAIN p[i].seats = 1 .. roles /\ p[i].acts \in [1 .. roles -> Acted] /\ p[i].seats \in [1 .. roles -> Agent]
    BY <1>5 DEF PlayOK
  <2>2. \A r \in 1 .. roles : act(i, r) \in Acted
    BY <1>4, <2>1 DEF Acted
  <2> HIDE DEF act
  <2> QED BY <1>6, <2>1, <2>2
<1>8. PICK q : q = [i \in DOMAIN p |-> [p[i] EXCEPT !.acts = acts[i]]]
  OBVIOUS
<1>9. world' = [world EXCEPT !.plays = q]
  <2>1. world' = [world EXCEPT !.plays = [i \in DOMAIN p |-> [p[i] EXCEPT !.acts =
           [r \in DOMAIN p[i].seats |-> IF act(i, r) # NoAct THEN act(i, r) ELSE p[i].acts[r]]]]]
    BY <1>3, <1>4 DEF SeatHeld, SeatActs
  <2>2. q = [i \in DOMAIN p |-> [p[i] EXCEPT !.acts =
           [r \in DOMAIN p[i].seats |-> IF act(i, r) # NoAct THEN act(i, r) ELSE p[i].acts[r]]]]
    BY <1>5, <1>6, <1>8
  <2> HIDE DEF act
  <2> QED BY <2>1, <2>2, Zenon
<1>10. world'.plays = q /\ world'.pairs = world.pairs /\ world'.held = world.held /\ DOMAIN world' = DOMAIN world
  BY <1>9 DEF GInv
<1>11. PlaysOK(q, roles) /\ SameSeats(p, q)
  <2>1. ActsSet(p, q, acts, roles)
    BY <1>7, <1>8 DEF ActsSet
  <2> QED BY <1>3, <2>1, Refilled
<1>12. ASSUME NEW a \in todo' PROVE a \in Agent /\ Sits(q, roles, a)
  <2>1. a \in asm.rules /\ RolesOf(a) # {} /\ asm.rules \subseteq Agent
    BY <1>1, AssemblyAssumption DEF GInv
  <2>2. Sits(p, roles, a)
    BY <1>2, <1>3, <1>5, <2>1 DEF RolesOf, Sits
  <2> QED BY <1>11, <2>1, <2>2, SitsStill
<1> QED BY <1>1, <1>2, <1>10, <1>11, <1>12, GKept DEF GInv

\* An answer for every unit of an agent fills its seats; under per-step decisions
\* there is one unit, and the agent holds its answer from then on.
DecidedBy(d, p, roles, q, held) ==
  /\ PlaysOK(q, roles) /\ SameSeats(p, q) /\ held \in [Agent -> Action]
  /\ asm.scope = "step" =>
       /\ \A i \in 1 .. Len(p), r \in 1 .. roles :
            q[i].acts[r] = IF p[i].seats[r] = d THEN held[d] ELSE p[i].acts[r]
       /\ \A a \in Agent \ {d} : held[a] = world.held[a]

LEMMA DecideIs ==
  ASSUME GInv, NEW d \in Agent, Decide(d)
  PROVE  \E q, held :
           /\ DecidedBy(d, world.plays, asm.game.roles, q, held)
           /\ world' = [world EXCEPT !.plays = q, !.held = held]
<1>1. /\ asm' = asm /\ t' = t /\ log' = log /\ pc = "decide" /\ pc' = pc
      /\ d \in todo /\ todo' = todo \ {d}
  BY DEF Decide
<1>2. PICK answer \in [Units(d) -> Action] :
        world' = [world EXCEPT
         !.plays = SeatActs(world.plays, LAMBDA i, r :
                     IF world.plays[i].seats[r] = d THEN answer[UnitOf(i, r)] ELSE NoAct),
         !.held  = IF asm.scope = "step" THEN [world.held EXCEPT ![d] = answer[<<>>]] ELSE world.held]
  BY DEF Decide
<1>3. PICK roles \in Nat : roles = asm.game.roles
  BY AssemblyAssumption DEF GInv
<1>4. PICK p : p = world.plays /\ PlaysOK(p, roles)
  BY <1>3 DEF GInv
<1>5. Len(p) \in Nat /\ DOMAIN p = 1 .. Len(p) /\ \A i \in 1 .. Len(p) : PlayOK(p[i], roles)
  BY <1>4, LogIs DEF PlaysOK
<1>6. ASSUME NEW i \in 1 .. Len(p), NEW r \in 1 .. roles, p[i].seats[r] = d
      PROVE  UnitOf(i, r) \in Units(d)
  <2>1. r \in RolesOf(d)
    BY <1>3, <1>4, <1>5, <1>6 DEF RolesOf
  <2>2. <<i, r>> \in (DOMAIN world.plays) \X RolesOf(d) /\ <<i, r>>[1] = i /\ <<i, r>>[2] = r
    BY <1>4, <1>5, <2>1
  <2>3. <<i, r>> \in {q \in (DOMAIN world.plays) \X RolesOf(d) : world.plays[q[1]].seats[q[2]] = d}
    BY <1>4, <1>6, <2>2
  <2> QED BY <2>2, <2>3 DEF Units
<1> DEFINE act(i, r) == IF p[i].seats[r] = d THEN answer[UnitOf(i, r)] ELSE NoAct
<1>7. PICK acts : acts = [i \in 1 .. Len(p) |-> [r \in DOMAIN p[i].seats |-> IF act(i, r) # NoAct THEN act(i, r) ELSE p[i].acts[r]]]
  OBVIOUS
<1>8. ASSUME NEW i \in 1 .. Len(p) PROVE acts[i] \in [1 .. roles -> Acted]
  <2>1. DOMAIN p[i].seats = 1 .. roles /\ p[i].acts \in [1 .. roles -> Acted]
    BY <1>5 DEF PlayOK
  <2>2. \A r \in 1 .. roles : act(i, r) \in Acted
    <3> SUFFICES ASSUME NEW r \in 1 .. roles PROVE act(i, r) \in Acted
      OBVIOUS
    <3>1. p[i].seats[r] = d => answer[UnitOf(i, r)] \in Action
      BY <1>2, <1>6
    <3> QED BY <3>1 DEF Acted
  <2> HIDE DEF act
  <2> QED BY <1>7, <2>1, <2>2
<1>9. PICK q : q = [i \in DOMAIN p |-> [p[i] EXCEPT !.acts = acts[i]]]
  OBVIOUS
<1>10. PICK held : held = IF asm.scope = "step" THEN [world.held EXCEPT ![d] = answer[<<>>]] ELSE world.held
  OBVIOUS
<1>11. world' = [world EXCEPT !.plays = q, !.held = held]
  <2>1. world' = [world EXCEPT !.plays = [i \in DOMAIN p |-> [p[i] EXCEPT !.acts =
           [r \in DOMAIN p[i].seats |-> IF act(i, r) # NoAct THEN act(i, r) ELSE p[i].acts[r]]]], !.held = held]
    BY <1>2, <1>4, <1>10 DEF SeatActs
  <2>2. q = [i \in DOMAIN p |-> [p[i] EXCEPT !.acts =
           [r \in DOMAIN p[i].seats |-> IF act(i, r) # NoAct THEN act(i, r) ELSE p[i].acts[r]]]]
    BY <1>5, <1>7, <1>9
  <2> HIDE DEF act
  <2> QED BY <2>1, <2>2, Zenon
<1>12. PlaysOK(q, roles) /\ SameSeats(p, q) /\ \A i \in 1 .. Len(p) : q[i].acts = acts[i]
  <2>1. ActsSet(p, q, acts, roles)
    BY <1>8, <1>9 DEF ActsSet
  <2> QED BY <1>4, <2>1, Refilled
<1>13. /\ held \in [Agent -> Action]
       /\ asm.scope = "step" => held[d] = answer[<<>>] /\ answer[<<>>] \in Action
                                /\ \A a \in Agent \ {d} : held[a] = world.held[a]
  <2>1. world.held \in [Agent -> Action]
    BY <1>1 DEF GInv
  <2>2. CASE asm.scope = "step"
    <3>1. PICK i \in 1 .. Len(p), r \in 1 .. roles : p[i].seats[r] = d
      BY <1>1, <1>3, <1>4 DEF GInv, Sits
    <3>2. UnitOf(i, r) = <<>> /\ UnitOf(i, r) \in Units(d)
      BY <1>6, <2>2, <3>1 DEF UnitOf
    <3>3. answer[<<>>] \in Action
      BY <1>2, <3>2
    <3> QED BY <1>10, <2>1, <2>2, <3>3
  <2> QED BY <1>10, <2>1, <2>2
<1>14. ASSUME asm.scope = "step", NEW i \in 1 .. Len(p), NEW r \in 1 .. roles
       PROVE  q[i].acts[r] = IF p[i].seats[r] = d THEN held[d] ELSE p[i].acts[r]
  <2>1. q[i].acts[r] = IF act(i, r) # NoAct THEN act(i, r) ELSE p[i].acts[r]
    <3>1. r \in DOMAIN p[i].seats
      BY <1>5 DEF PlayOK
    <3> HIDE DEF act
    <3> QED BY <1>7, <1>12, <3>1
  <2>2. act(i, r) = IF p[i].seats[r] = d THEN held[d] ELSE NoAct
    BY <1>13, <1>14 DEF UnitOf
  <2>3. held[d] # NoAct
    BY <1>13, <1>14 DEF Action, NoAct
  <2> HIDE DEF act
  <2> QED BY <2>1, <2>2, <2>3
<1>15. DecidedBy(d, p, roles, q, held)
  BY <1>12, <1>13, <1>14 DEF DecidedBy
<1> QED BY <1>3, <1>4, <1>11, <1>15

LEMMA GDecide ==
  ASSUME GInv, NEW d \in Agent, Decide(d)
  PROVE  GInv'
<1>1. /\ asm' = asm /\ t' = t /\ log' = log /\ pc = "decide" /\ pc' = pc
      /\ d \in todo /\ todo' = todo \ {d}
  BY DEF Decide
<1>2. PICK q, held : /\ DecidedBy(d, world.plays, asm.game.roles, q, held)
                     /\ world' = [world EXCEPT !.plays = q, !.held = held]
  BY DecideIs
<1>3. world'.plays = q /\ world'.pairs = world.pairs /\ world'.held = held /\ DOMAIN world' = DOMAIN world
  BY <1>2 DEF GInv
<1>4. PlaysOK(q, asm.game.roles) /\ SameSeats(world.plays, q) /\ held \in [Agent -> Action]
  BY <1>2 DEF DecidedBy
<1>5. ASSUME NEW a \in todo' PROVE a \in Agent /\ Sits(q, asm.game.roles, a)
  <2>1. a \in Agent /\ Sits(world.plays, asm.game.roles, a)
    BY <1>1, <1>5 DEF GInv
  <2> QED BY <1>4, <2>1, SitsStill
<1> QED BY <1>1, <1>3, <1>4, <1>5, GKept DEF GInv

LEMMA GPlays ==
  ASSUME StepAssumption, GInv, NEW tabled, RecordPlays(tabled), pc = "decide",
         asm' = asm, t' = t, pc' \in {"reward", "idle"}
  PROVE  GInv'
<1>1. ~Async
  BY DEF GInv
<1>2. PICK roles \in Nat : roles = asm.game.roles
  BY AssemblyAssumption DEF GInv
<1>3. PICK p : p = world.plays /\ PlaysOK(p, roles)
  BY <1>2 DEF GInv
<1>4. PICK q : q = Paid(p, Len(p)) /\ PlaysOK(q, roles) /\ SameActs(p, q)
  BY <1>3, Repaid
<1>5. PICK pairs : pairs = PushPairs(world.pairs, p)
  OBVIOUS
<1>6. PICK w : w = [world EXCEPT !.pairs = pairs, !.plays = q]
  OBVIOUS
<1>7. w.pairs = pairs /\ w.plays = q /\ w.held = world.held /\ {"held", "plays", "pairs", "payoff", "n"} \subseteq DOMAIN w
  BY <1>6 DEF GInv
<1>8. PICK totals, recs, rows : Commit(w, totals, recs, rows)
  BY <1>3, <1>4, <1>5, <1>6 DEF RecordPlays
<1>9. PICK e : e = [t |-> t, records |-> recs, plays |-> w.plays, rows |-> rows]
  OBVIOUS
<1>10. log' = Append(log, e) /\ e.t = t /\ e.plays = q
  BY <1>7, <1>8, <1>9 DEF Commit
<1>11. /\ world'.plays = q /\ world'.pairs = pairs /\ world'.held = world.held
       /\ {"held", "plays", "pairs", "payoff", "n"} \subseteq DOMAIN world'
  <2>1. PICK p1, p2, p3, p4 : world' = [w EXCEPT !.payoff = p1, !.n = p2, !.steps = p3, !.aggs = p4]
    BY <1>8 DEF Commit
  <2> QED BY <1>7, <2>1
<1>12. t \in Nat /\ PairsInv(log, world.pairs, roles)
  BY <1>2 DEF GInv
<1>13. PairsInv(log', world'.pairs, asm.game.roles)
  BY <1>2, <1>3, <1>4, <1>5, <1>10, <1>11, <1>12, PairsCommit
<1>14. PlaysOK(world'.plays, asm.game.roles)
  BY <1>2, <1>4, <1>11
<1> QED BY <1>1, <1>11, <1>12, <1>13, <1>14 DEF GInv, Async

LEMMA GPlay == StepAssumption /\ GInv /\ Play => GInv'
BY GPlays DEF Play

\* A failed step leaves nothing, the payoffs of some encounters, or all but a row.
LEMMA GFail == StepAssumption /\ GInv /\ Fail => GInv'
<1> SUFFICES ASSUME StepAssumption, GInv, Fail PROVE GInv'
  OBVIOUS
<1>1. asm' = asm /\ t' \in Nat /\ pc' = "idle"
  BY DEF Fail, GInv
<1>2. PICK roles \in Nat : roles = asm.game.roles
  BY AssemblyAssumption DEF GInv
<1>3. ASSUME log' = log, DOMAIN world' = DOMAIN world, world'.pairs = world.pairs, world'.held = world.held,
             world'.plays = world.plays \/ \E k : world'.plays = Paid(world.plays, k)
      PROVE  GInv'
  <2>1. PlaysOK(world'.plays, roles)
    <3>1. PlaysOK(world.plays, roles)
      BY <1>2 DEF GInv
    <3> QED BY <1>3, <3>1, Repaid
  <2> QED BY <1>1, <1>2, <1>3, <2>1, GKept DEF GInv
<1>4. CASE UNCHANGED <<world, log>>
  BY <1>3, <1>4
<1>5. CASE KernelFails
  <2>1. log' = log /\ \E k, p1, p2 : world' = [world EXCEPT !.payoff = p1, !.n = p2, !.plays = Paid(world.plays, k)]
    BY <1>5 DEF KernelFails
  <2>2. PICK k, p1, p2 : world' = [world EXCEPT !.payoff = p1, !.n = p2, !.plays = Paid(world.plays, k)]
    BY <2>1
  <2>3. /\ DOMAIN world' = DOMAIN world /\ world'.pairs = world.pairs /\ world'.held = world.held
        /\ world'.plays = Paid(world.plays, k)
    BY <2>2 DEF GInv
  <2> QED BY <1>3, <2>1, <2>3
<1>7. CASE ImplicitFails
  <2>1. log' = log /\ \E p1, p2, c : world' = [world EXCEPT !.payoff = p1, !.n = p2, !.counts = c]
    BY <1>7 DEF ImplicitFails
  <2>2. PICK p1, p2, c : world' = [world EXCEPT !.payoff = p1, !.n = p2, !.counts = c]
    BY <2>1
  <2>3. /\ DOMAIN world' = DOMAIN world /\ world'.pairs = world.pairs /\ world'.held = world.held
        /\ world'.plays = world.plays
    BY <2>2 DEF GInv
  <2> QED BY <1>3, <2>1, <2>3
<1>6. CASE RowFails
  <2>1. pc # "idle"
    BY <1>6 DEF RowFails
  <2>2. t' = t
    BY <2>1 DEF Fail
  <2>3. ASSUME pc = "decide", RecordPlays(FALSE) PROVE GInv'
    BY <1>1, <2>2, <2>3, GPlays
  <2>4. ASSUME NEW v \in {world, Emptied}, RecordImplicit(v, FALSE), pc = "play" \/ (pc = "reward" /\ Async) PROVE GInv'
    <3>1. /\ v.held = world.held /\ v.plays = world.plays /\ v.pairs = world.pairs
          /\ {"held", "plays", "pairs", "payoff", "n"} \subseteq DOMAIN v
      BY <2>4, EmptiedKeeps DEF GInv
    <3>2. world.plays = <<>>
      BY <2>4 DEF GInv
    <3> QED BY <1>1, <2>2, <2>4, <3>1, <3>2, GImplicit
  <2> QED BY <1>6, <2>3, <2>4 DEF RowFails
<1> QED BY <1>4, <1>5, <1>6, <1>7 DEF Fail

\* The updates of the population leave plays and rings alone.
LEMMA GUpdate == GInv /\ (Imitate \/ Moran) => GInv'
<1> SUFFICES ASSUME GInv, Imitate \/ Moran PROVE GInv'
  OBVIOUS
<1>1. asm' = asm /\ t' = t /\ log' = log /\ pc' = "post"
  BY DEF Imitate, Moran
<1>2. PICK held : world' = [world EXCEPT !.held = held] /\ (Async \/ held \in [Agent -> Action])
  <2>1. CASE Imitate
    BY <2>1 DEF Imitate
  <2>2. CASE Moran
    <3>1. PICK parent \in Agent, death \in Agent :
            \E child \in {world.held[parent]} \cup (IF asm.update.mutates THEN Action ELSE {}) :
              world' = [world EXCEPT !.held = [world.held EXCEPT ![death] = child]]
      BY <2>2 DEF Moran
    <3>2. PICK child \in {world.held[parent]} \cup Action :
              world' = [world EXCEPT !.held = [world.held EXCEPT ![death] = child]]
      BY <3>1
    <3>3. Async \/ [world.held EXCEPT ![death] = child] \in [Agent -> Action]
      BY DEF GInv
    <3> QED BY <3>2, <3>3
  <2> QED BY <2>1, <2>2
<1>3. world'.plays = world.plays /\ world'.pairs = world.pairs /\ world'.held = held /\ DOMAIN world' = DOMAIN world
  BY <1>2 DEF GInv
<1> QED BY <1>1, <1>2, <1>3, GKept DEF GInv

LEMMA GActivate ==
  ASSUME GInv, NEW a \in Agent, Activate(a)
  PROVE  GInv'
<1>1. asm' = asm /\ t' = t /\ log' = log /\ pc' = pc /\ pc = "reward" /\ Async
  BY DEF Activate
<1>2. PICK held : world' = [world EXCEPT !.held = held]
  BY DEF Activate
<1>3. world'.plays = world.plays /\ world'.pairs = world.pairs /\ DOMAIN world' = DOMAIN world
  BY <1>2 DEF GInv
<1> QED BY <1>1, <1>3, GKept DEF GInv

LEMMA GNext == StepAssumption /\ GInv /\ [Next]_vars => GInv'
<1> SUFFICES ASSUME StepAssumption, GInv, [Next]_vars PROVE GInv'
  OBVIOUS
<1>1. CASE PlayImplicit
  <2>1. /\ RecordImplicit(world, TRUE) /\ asm' = asm /\ t' = t /\ pc' = "reward" /\ world.plays = <<>>
        /\ {"held", "plays", "pairs", "payoff", "n"} \subseteq DOMAIN world
    BY <1>1 DEF PlayImplicit, GInv
  <2> QED BY <2>1, GImplicit
<1>2. CASE Record
  <2>1. RecordImplicit(Emptied, TRUE) /\ asm' = asm /\ t' = t /\ pc' = "post" /\ world.plays = <<>>
    BY <1>2 DEF Record, GInv
  <2> QED BY <2>1, EmptiedKeeps, GImplicit
<1>3. CASE Learn \/ Measure \/ EndStep
  <2>1. /\ asm' = asm /\ log' = log /\ world' = world /\ t' = t
        /\ pc' \in {"post", "update", "end", "idle"}
    BY <1>3 DEF Learn, Measure, EndStep
  <2>2. t' \in Nat
    BY <2>1 DEF GInv
  <2> QED BY <2>1, <2>2, GKept DEF GInv
<1>4. CASE Stopped \/ UNCHANGED vars
  <2>1. UNCHANGED <<asm, t, log, world, pc, todo>>
    BY <1>4 DEF Stopped, vars
  <2> QED BY <2>1 DEF GInv, Async
<1>5. CASE \E a \in Agent : Decide(a) \/ Activate(a)
  BY <1>5, GDecide, GActivate
<1> QED BY <1>1, <1>2, <1>3, <1>4, <1>5, GClear, GMatch, GSeatHeld, GPlay, GFail, GUpdate DEF Next

\* The histories that rules, metrics and users read are the past that was
\* committed: in every state of every run, failed steps included, the records of
\* every agent, the meetings of every pair from both sides, and the aggregates are
\* the last HistoryLen entries of the log, oldest first.
THEOREM GameHistoriesAreLog == Spec => []HistoriesAreLog
<1>1. Init => HInv /\ GInv
  BY HInit, GInit, StepAssumption
<1>2. HInv /\ GInv /\ [Next]_vars => HInv' /\ GInv'
  BY HNext, GNext, StepAssumption
<1>3. HInv /\ GInv => HistoriesAreLog
  <2> SUFFICES ASSUME HInv, GInv PROVE HistoriesAreLog
    OBVIOUS
  <2>1. RecordsAreLog
    BY HRead, StepAssumption
  <2>2. ASSUME NEW a \in Agent, NEW b \in Agent, a # b
        PROVE  PairView(HistoryLen, world.pairs, a, b) = LastOf(HistoryLen, Meetings(log, a, b))
    <3>1. PairHolds(world.pairs, Meetings(log, a, b), a, b) /\ LogOK(log, asm.game.roles)
      BY <2>2 DEF GInv, PairsInv
    <3>2. asm.game.roles \in Nat
      BY AssemblyAssumption DEF GInv
    <3>3. Meetings(log, a, b) \in Seq(Meeting)
      <4>1. PICK e : e = [t |-> 0, plays |-> <<>>]
        OBVIOUS
      <4>2. e.t = 0 /\ e.plays = <<>> /\ PlaysOK(<<>>, asm.game.roles)
        BY <4>1, NoPlays
      <4> QED BY <3>1, <3>2, <4>2, MeetingsOneMore
    <3> QED BY <3>1, <3>3, PairViewHolds, StepAssumption
  <2> QED BY <2>1, <2>2 DEF HistoriesAreLog
<1> QED BY <1>1, <1>2, <1>3, PTL DEF Spec

-----------------------------------------------------------------------------
(* What a step pays an agent *)

LEMMA SeatsPaid ==
  ASSUME NEW e, NEW roles \in Nat, PlayOK(e, roles), NEW a
  PROVE  Cardinality(PaidSeats(e, a)) \in Nat
<1>1. Credited(e) \subseteq 0 .. roles + 1
  BY DEF Credited, PlayOK
<1>2. IsFiniteSet(PaidSeats(e, a))
  <2>1. PaidSeats(e, a) \subseteq 0 .. roles + 1
    BY <1>1 DEF PaidSeats
  <2>2. IsFiniteSet(0 .. roles + 1)
    BY FS_Interval
  <2> QED BY <2>1, <2>2, FS_Subset
<1> QED BY <1>2, FS_CardinalityType

\* A recursive function of numbers exists whatever its values are; here for Earned.
EarnedUpTo(f, q, a) ==
  /\ f[0] = 0 /\ Earned(q, a) = f[Len(q)]
  /\ \A k \in 1 .. Len(q) : f[k] = f[k - 1] + Scale * SeatSum(q[k].pays, PaidSeats(q[k], a))

LEMMA EarnedRun ==
  ASSUME NEW q, IsLog(q), NEW a
  PROVE  \E f : EarnedUpTo(f, q, a)
<1> DEFINE N == Len(q)
           next(k, s) == s + Scale * SeatSum(q[k].pays, PaidSeats(q[k], a))
           Is(f) == f = [k \in 0 .. N |-> IF k = 0 THEN 0 ELSE next(k, f[k - 1])]
           run == CHOOSE f : Is(f)
           Runs(f, n) == f = [k \in 0 .. n |-> f[k]] /\ f[0] = 0 /\ \A k \in 1 .. n : f[k] = next(k, f[k - 1])
           T == {n \in Nat : \E f : Runs(f, n)}
<1>1. N \in Nat
  BY LogIs
<1>2. Earned(q, a) = run[N]
  BY DEF Earned
<1> HIDE DEF N, next
<1>3. 0 \in T
  <2>1. PICK g : g = [k \in 0 .. 0 |-> 0]
    OBVIOUS
  <2>2. Runs(g, 0)
    BY <2>1
  <2> QED BY <2>2
<1>4. ASSUME NEW n \in Nat, n \in T PROVE n + 1 \in T
  <2>1. PICK f : Runs(f, n)
    BY <1>4
  <2>2. PICK g : g = [k \in 0 .. n + 1 |-> IF k = n + 1 THEN next(n + 1, f[n]) ELSE f[k]]
    OBVIOUS
  <2>3. g = [k \in 0 .. n + 1 |-> g[k]] /\ g[0] = 0
    BY <2>1, <2>2
  <2>4. ASSUME NEW k \in 1 .. n + 1 PROVE g[k] = next(k, g[k - 1])
    <3>1. k - 1 \in 0 .. n + 1 /\ k - 1 # n + 1 /\ g[k - 1] = f[k - 1]
      BY <2>2
    <3>2. CASE k = n + 1
      <4>1. g[k] = next(n + 1, f[n]) /\ k - 1 = n
        BY <2>2, <3>2
      <4> QED BY <3>1, <3>2, <4>1
    <3>3. CASE k # n + 1
      <4>1. k \in 1 .. n /\ g[k] = f[k]
        BY <2>2, <3>3
      <4>2. f[k] = next(k, f[k - 1])
        BY <2>1, <4>1
      <4> QED BY <3>1, <4>1, <4>2
    <3> QED BY <3>2, <3>3
  <2>5. Runs(g, n + 1)
    BY <2>3, <2>4
  <2> HIDE DEF Runs
  <2> QED BY <2>5
<1>5. PICK g : Runs(g, N)
  <2> HIDE DEF T
  <2>1. N \in T
    BY <1>1, <1>3, <1>4, Induct
  <2> HIDE DEF Runs
  <2> QED BY <2>1 DEF T
<1>6. Is(g)
  <2>1. g = [k \in 0 .. N |-> g[k]]
    BY <1>5
  <2>2. \A k \in 0 .. N : g[k] = IF k = 0 THEN 0 ELSE next(k, g[k - 1])
    BY <1>1, <1>5
  <2> QED BY <2>1, <2>2
<1>7. Is(run)
  <2> HIDE DEF Is
  <2> QED BY <1>6, Zenon
<1> HIDE DEF run
<1>8. run[0] = 0 /\ \A k \in 1 .. N : run[k] = next(k, run[k - 1])
  BY <1>1, <1>7
<1> QED BY <1>2, <1>8 DEF EarnedUpTo, next, N

\* And for the totals of a step.
PlayedUpTo(f, acc0, p, acts) ==
  /\ f[0] = acc0 /\ Played(acc0, asm.game, asm.play, p, acts) = f[Len(p)]
  /\ \A k \in 1 .. Len(p) : f[k] = Credit(f[k - 1], p[k], SeatPayoffs(asm.game, asm.play, acts[k]))

LEMMA PlayedRun ==
  ASSUME NEW p, IsLog(p), NEW acc0, NEW acts
  PROVE  \E f : PlayedUpTo(f, acc0, p, acts)
<1> DEFINE N == Len(p)
           next(k, s) == Credit(s, p[k], SeatPayoffs(asm.game, asm.play, acts[k]))
           Is(f) == f = [k \in 0 .. N |-> IF k = 0 THEN acc0 ELSE next(k, f[k - 1])]
           run == CHOOSE f : Is(f)
           Runs(f, n) == f = [k \in 0 .. n |-> f[k]] /\ f[0] = acc0 /\ \A k \in 1 .. n : f[k] = next(k, f[k - 1])
           T == {n \in Nat : \E f : Runs(f, n)}
<1>1. N \in Nat
  BY LogIs
<1>2. Played(acc0, asm.game, asm.play, p, acts) = run[N]
  BY DEF Played
<1> HIDE DEF N, next
<1>3. 0 \in T
  <2>1. PICK g : g = [k \in 0 .. 0 |-> acc0]
    OBVIOUS
  <2>2. Runs(g, 0)
    BY <2>1
  <2> QED BY <2>2
<1>4. ASSUME NEW n \in Nat, n \in T PROVE n + 1 \in T
  <2>1. PICK f : Runs(f, n)
    BY <1>4
  <2>2. PICK g : g = [k \in 0 .. n + 1 |-> IF k = n + 1 THEN next(n + 1, f[n]) ELSE f[k]]
    OBVIOUS
  <2>3. g = [k \in 0 .. n + 1 |-> g[k]] /\ g[0] = acc0
    BY <2>1, <2>2
  <2>4. ASSUME NEW k \in 1 .. n + 1 PROVE g[k] = next(k, g[k - 1])
    <3>1. k - 1 \in 0 .. n + 1 /\ k - 1 # n + 1 /\ g[k - 1] = f[k - 1]
      BY <2>2
    <3>2. CASE k = n + 1
      <4>1. g[k] = next(n + 1, f[n]) /\ k - 1 = n
        BY <2>2, <3>2
      <4> QED BY <3>1, <3>2, <4>1
    <3>3. CASE k # n + 1
      <4>1. k \in 1 .. n /\ g[k] = f[k]
        BY <2>2, <3>3
      <4>2. f[k] = next(k, f[k - 1])
        BY <2>1, <4>1
      <4> QED BY <3>1, <4>1, <4>2
    <3> QED BY <3>2, <3>3
  <2>5. Runs(g, n + 1)
    BY <2>3, <2>4
  <2> HIDE DEF Runs
  <2> QED BY <2>5
<1>5. PICK g : Runs(g, N)
  <2> HIDE DEF T
  <2>1. N \in T
    BY <1>1, <1>3, <1>4, Induct
  <2> HIDE DEF Runs
  <2> QED BY <2>1 DEF T
<1>6. Is(g)
  <2>1. g = [k \in 0 .. N |-> g[k]]
    BY <1>5
  <2>2. \A k \in 0 .. N : g[k] = IF k = 0 THEN acc0 ELSE next(k, g[k - 1])
    BY <1>1, <1>5
  <2> QED BY <2>1, <2>2
<1>7. Is(run)
  <2> HIDE DEF Is
  <2> QED BY <1>6, Zenon
<1> HIDE DEF run
<1>8. run[0] = acc0 /\ \A k \in 1 .. N : run[k] = next(k, run[k - 1])
  BY <1>1, <1>7
<1> QED BY <1>2, <1>8 DEF PlayedUpTo, next, N

\* What a record says of an agent's payoff, given what its encounters pay.
PaidOut(payoff, n, agg, sum) == payoff = IF agg = "mean" /\ n > 0 THEN sum \div n ELSE sum

\* From nothing, the totals of a step are what the paid encounters pay each agent.
LEMMA StepPays ==
  ASSUME NEW roles \in Nat, NEW p, PlaysOK(p, roles), NEW a \in Agent, asm.agg \in {"sum", "mean"},
         NEW acc0, acc0 = [pay |-> NoPay.pay, n |-> NoPay.n]
  PROVE  LET totals == Averaged(asm.agg, Played(acc0, asm.game, asm.play, p, Acts(p)))
         IN  PaidOut(totals.pay[a], totals.n[a], asm.agg, Earned(Paid(p, Len(p)), a))
<1>1. PICK q : q = Paid(p, Len(p)) /\ PlaysOK(q, roles) /\ SameActs(p, q)
  BY Repaid
<1>2. PICK f : PlayedUpTo(f, acc0, p, Acts(p))
  BY PlayedRun DEF PlaysOK
<1>3. PICK g : EarnedUpTo(g, q, a)
  BY <1>1, EarnedRun DEF PlaysOK
<1>4. Len(p) \in Nat /\ Len(q) = Len(p) /\ DOMAIN p = 1 .. Len(p)
  BY <1>1, LogIs DEF PlaysOK, SameActs, SameSeats
<1>5. ASSUME NEW k \in 1 .. Len(p)
      PROVE  /\ q[k].pays = SeatPayoffs(asm.game, asm.play, Acts(p)[k])
             /\ PaidSeats(q[k], a) = PaidSeats(p[k], a)
             /\ Cardinality(PaidSeats(p[k], a)) \in Nat
  <2>1. PICK e : e = p[k] /\ PlayOK(e, roles)
    BY DEF PlaysOK
  <2>2. e = [seats |-> e.seats, credit |-> e.credit, acts |-> e.acts, pays |-> e.pays]
    BY <2>1 DEF PlayOK
  <2>3. q[k] = [e EXCEPT !.pays = SeatPayoffs(asm.game, asm.play, e.acts)]
    BY <1>1, <1>4, <2>1 DEF Paid
  <2>4. PICK pays : pays = SeatPayoffs(asm.game, asm.play, e.acts)
    OBVIOUS
  <2>5. q[k].pays = pays /\ q[k].seats = e.seats /\ q[k].credit = e.credit
    BY <2>2, <2>3, <2>4
  <2>6. Acts(p)[k] = e.acts
    BY <1>4, <2>1 DEF Acts
  <2> QED BY <2>1, <2>4, <2>5, <2>6, SeatsPaid DEF PaidSeats, Credited
<1> DEFINE T == {k \in Nat : k <= Len(p) => /\ f[k] = [pay |-> f[k].pay, n |-> f[k].n]
                                            /\ f[k].pay[a] = g[k] /\ f[k].n[a] \in Nat}
<1>6. 0 \in T
  <2>1. f[0] = acc0 /\ g[0] = 0
    BY <1>2, <1>3 DEF PlayedUpTo, EarnedUpTo
  <2> QED BY <2>1 DEF NoPay
<1>7. ASSUME NEW k \in Nat, k \in T PROVE k + 1 \in T
  <2>1. SUFFICES ASSUME k + 1 <= Len(p)
                 PROVE  /\ f[k + 1] = [pay |-> f[k + 1].pay, n |-> f[k + 1].n]
                        /\ f[k + 1].pay[a] = g[k + 1] /\ f[k + 1].n[a] \in Nat
    OBVIOUS
  <2>2. k + 1 \in 1 .. Len(p) /\ (k + 1) - 1 = k /\ f[k].pay[a] = g[k] /\ f[k].n[a] \in Nat
    BY <1>4, <1>7, <2>1
  <2>3. f[k + 1] = Credit(f[k], p[k + 1], SeatPayoffs(asm.game, asm.play, Acts(p)[k + 1]))
    <3>1. f[k + 1] = Credit(f[(k + 1) - 1], p[k + 1], SeatPayoffs(asm.game, asm.play, Acts(p)[k + 1]))
      BY <1>2, <2>2 DEF PlayedUpTo
    <3> QED BY <2>2, <3>1
  <2>4. g[k + 1] = g[k] + Scale * SeatSum(q[k + 1].pays, PaidSeats(q[k + 1], a))
    <3>1. g[k + 1] = g[(k + 1) - 1] + Scale * SeatSum(q[k + 1].pays, PaidSeats(q[k + 1], a))
      BY <1>3, <1>4, <2>2 DEF EarnedUpTo
    <3> QED BY <2>2, <3>1
  <2>5. PICK pays : pays = SeatPayoffs(asm.game, asm.play, Acts(p)[k + 1])
    OBVIOUS
  <2>6. /\ f[k + 1] = [pay |-> f[k + 1].pay, n |-> f[k + 1].n]
        /\ f[k + 1].pay[a] = f[k].pay[a] + Scale * SeatSum(pays, PaidSeats(p[k + 1], a))
        /\ f[k + 1].n[a] = f[k].n[a] + Cardinality(PaidSeats(p[k + 1], a))
    BY <2>3, <2>5 DEF Credit
  <2>7. q[k + 1].pays = pays /\ PaidSeats(q[k + 1], a) = PaidSeats(p[k + 1], a)
        /\ Cardinality(PaidSeats(p[k + 1], a)) \in Nat
    BY <1>5, <2>2, <2>5
  <2>8. f[k + 1].pay[a] = g[k + 1]
    BY <2>2, <2>4, <2>6, <2>7
  <2>9. f[k + 1].n[a] \in Nat
    BY <2>2, <2>6, <2>7
  <2> QED BY <2>6, <2>8, <2>9
<1> HIDE DEF T
<1>8. Nat \subseteq T
  BY <1>6, <1>7, Induct
<1>9. PICK acc : acc = f[Len(p)]
  OBVIOUS
<1>10. acc = [pay |-> acc.pay, n |-> acc.n] /\ acc.pay[a] = Earned(q, a) /\ acc.n[a] \in Nat
       /\ acc = Played(acc0, asm.game, asm.play, p, Acts(p))
  BY <1>2, <1>3, <1>4, <1>8, <1>9 DEF T, PlayedUpTo, EarnedUpTo
<1>11. PaidOut(Averaged(asm.agg, acc).pay[a], Averaged(asm.agg, acc).n[a], asm.agg, Earned(q, a))
  <2>1. CASE asm.agg = "sum"
    BY <1>10, <2>1 DEF Averaged, PaidOut
  <2>2. CASE asm.agg = "mean"
    <3>1. Averaged("mean", acc) = [pay |-> [b \in Agent |-> IF acc.n[b] = 0 THEN acc.pay[b] ELSE acc.pay[b] \div acc.n[b]], n |-> acc.n]
      BY <1>10 DEF Averaged
    <3>2. Averaged("mean", acc).pay[a] = (IF acc.n[a] = 0 THEN acc.pay[a] ELSE acc.pay[a] \div acc.n[a])
          /\ Averaged("mean", acc).n[a] = acc.n[a]
      BY <3>1
    <3> QED BY <1>10, <2>2, <3>2 DEF PaidOut
  <2> QED BY <2>1, <2>2
<1> QED BY <1>1, <1>10, <1>11

\* All seats of an agent show one action.
Shows(plays, roles, a, x) ==
  \A i \in 1 .. Len(plays), r \in 1 .. roles : plays[i].seats[r] = a => plays[i].acts[r] = x

\* Then so does its first seat of the step.
LEMMA FirstActIs ==
  ASSUME NEW p, IsLog(p), NEW roles \in Nat, roles = asm.game.roles, NEW a, NEW x,
         Shows(p, roles, a, x), Sits(p, roles, a)
  PROVE  FirstAct(p, a) = x
<1>1. Len(p) \in Nat /\ DOMAIN p = 1 .. Len(p)
  BY LogIs
<1> DEFINE own == {s \in (DOMAIN p) \X (1 .. asm.game.roles) : p[s[1]].seats[s[2]] = a}
           Min1 == {i \in 1 .. Len(p) : \E r \in 1 .. roles : p[i].seats[r] = a}
<1>2. PICK i \in Min1 : \A j \in Min1 : i <= j
  <2>1. Min1 # {} /\ Min1 \subseteq Nat
    BY DEF Sits
  <2> HIDE DEF Min1
  <2> QED BY <2>1, Least
<1> DEFINE Min2 == {r \in 1 .. roles : p[i].seats[r] = a}
<1>3. PICK r \in Min2 : \A q \in Min2 : r <= q
  <2>1. Min2 # {} /\ Min2 \subseteq Nat
    BY <1>2
  <2> HIDE DEF Min2
  <2> QED BY <2>1, Least
<1>4. PICK s : s = <<i, r>> /\ s[1] = i /\ s[2] = r
  <2>1. <<i, r>>[1] = i /\ <<i, r>>[2] = r
    OBVIOUS
  <2> HIDE DEF own, Min1, Min2
  <2> QED BY <2>1, Zenon
<1>5. s \in own
  BY <1>1, <1>2, <1>3, <1>4
<1>6. ASSUME NEW o \in own PROVE s[1] < o[1] \/ (s[1] = o[1] /\ s[2] <= o[2])
  <2>1. o[1] \in Min1 /\ o[2] \in 1 .. roles /\ p[o[1]].seats[o[2]] = a
    BY <1>1
  <2>2. s[1] <= o[1] /\ s[1] \in Int /\ o[1] \in Int
    BY <1>2, <1>4, <2>1
  <2>3. s[1] = o[1] => s[2] <= o[2]
    BY <1>3, <1>4, <2>1
  <2> HIDE DEF own, Min1, Min2
  <2> QED BY <2>2, <2>3
<1> DEFINE Is(f) == f \in own /\ \A o \in own : f[1] < o[1] \/ (f[1] = o[1] /\ f[2] <= o[2])
<1>7. PICK f : f = CHOOSE g \in own : \A o \in own : g[1] < o[1] \/ (g[1] = o[1] /\ g[2] <= o[2])
  OBVIOUS
<1>8. f \in own
  <2> HIDE DEF own
  <2> QED BY <1>5, <1>6, <1>7
<1>9. p[f[1]].acts[f[2]] = x
  BY <1>1, <1>8 DEF Shows
<1>10. FirstAct(p, a) = IF own = {} THEN NoAct ELSE p[f[1]].acts[f[2]]
  <2> HIDE DEF Is
  <2> QED BY <1>7 DEF FirstAct
<1> QED BY <1>8, <1>9, <1>10

-----------------------------------------------------------------------------
(* A rule learns from the step it played *)

\* An entry of the log is this step's: what it says of the agents with a rule is
\* what the plays pay them and, under per-step decisions, what they hold.
IsOf(e, when, plays, held) ==
  /\ e.t = when
  /\ \A a \in asm.rules :
       /\ PaidOut(e.records[a].payoff, e.records[a].n, asm.agg, Earned(plays, a))
       /\ asm.scope = "step" => /\ Shows(plays, asm.game.roles, a, held[a])
                                /\ Sits(plays, asm.game.roles, a) => e.records[a].action = held[a]

\* With rules there is no update and no implicit step.  Until the step is played
\* the totals are those of Clear, and every agent that has decided shows what it
\* holds; from then on the last entry of the log is the step's, and what a rule
\* was given to learn from is that entry and its seats in these plays.
LInv ==
  /\ "learnt" \in DOMAIN ghost /\ DOMAIN ghost.learnt \subseteq asm.rules
  /\ asm.rules # {} =>
       /\ pc \notin {"play", "update"} /\ ~Async
       /\ pc \in {"match", "held", "decide"} => world.payoff = NoPay.pay /\ world.n = NoPay.n
       /\ pc = "decide" /\ asm.scope = "step" =>
            \A a \in asm.rules \ todo : Shows(world.plays, asm.game.roles, a, world.held[a])
       /\ pc \in {"reward", "post", "end"} =>
            Len(log) > 0 /\ IsOf(log[Len(log)], t, world.plays, world.held)
       /\ pc \in {"post", "end"} =>
            \A a \in DOMAIN ghost.learnt :
              ghost.learnt[a] = [record |-> log[Len(log)].records[a], outcomes |-> Outcomes(a)]

LEMMA LInit == Init => LInv
<1> SUFFICES ASSUME Init PROVE LInv
  OBVIOUS
<1>1. asm \in Assemblies /\ Accepted(asm) /\ pc = "idle" /\ ghost = [learnt |-> <<>>, measured |-> <<>>]
  BY DEF Init
<1>2. asm.rules # {} => asm.update.mode = "none"
  BY <1>1 DEF Accepted
<1> QED BY <1>1, <1>2 DEF LInv, Async

\* Without rules nothing is said but of the ghost.
LEMMA LNone ==
  ASSUME LInv, asm' = asm, asm.rules = {}, "learnt" \in DOMAIN ghost', DOMAIN ghost'.learnt \subseteq asm.rules
  PROVE  LInv'
BY DEF LInv

LEMMA LClear == GInv /\ LInv /\ Clear => LInv'
<1> SUFFICES ASSUME GInv, LInv, Clear PROVE LInv'
  OBVIOUS
<1>1. /\ asm' = asm /\ ghost' = [ghost EXCEPT !.learnt = <<>>]
      /\ world' = [world EXCEPT !.plays = <<>>, !.payoff = NoPay.pay, !.n = NoPay.n, !.counts = <<>>]
      /\ pc' = IF Async THEN "reward" ELSE IF ImplicitPath THEN "play" ELSE "match"
  BY DEF Clear
<1>2. world'.payoff = NoPay.pay /\ world'.n = NoPay.n
  BY <1>1 DEF GInv
<1>3. "learnt" \in DOMAIN ghost' /\ DOMAIN ghost'.learnt = {}
  BY <1>1 DEF LInv
<1>4. asm.rules # {} => pc' = "match" /\ ~Async
  BY <1>1 DEF LInv, ImplicitPath
<1> QED BY <1>1, <1>2, <1>3, <1>4 DEF LInv, Async

LEMMA LMatch == GInv /\ LInv /\ Match => LInv'
<1> SUFFICES ASSUME GInv, LInv, Match PROVE LInv'
  OBVIOUS
<1>1. /\ asm' = asm /\ ghost' = ghost /\ pc = "match" /\ pc' = "held"
      /\ \E plays : world' = [world EXCEPT !.plays = plays]
  BY DEF Match
<1>2. world'.payoff = world.payoff /\ world'.n = world.n
  BY <1>1 DEF GInv
<1> QED BY <1>1, <1>2 DEF LInv, Async

\* Agents without a seat show anything.
LEMMA LSeatHeld == GInv /\ LInv /\ SeatHeld => LInv'
<1> SUFFICES ASSUME GInv, LInv, SeatHeld PROVE LInv'
  OBVIOUS
<1>1. /\ asm' = asm /\ ghost' = ghost /\ pc = "held" /\ pc' = "decide"
      /\ todo' = {a \in asm.rules : RolesOf(a) # {}}
  BY DEF SeatHeld
<1>2. PICK p : p = world.plays /\ PlaysOK(p, asm.game.roles)
  BY DEF GInv
<1>3. PICK q : world' = [world EXCEPT !.plays = q] /\ SameSeats(p, q)
  <2>1. PICK F : \E q : /\ world' = [world EXCEPT !.plays = q]
                        /\ q = [i \in DOMAIN p |-> [p[i] EXCEPT !.acts = F[i]]]
    <3> DEFINE act(i, r) == IF Held(p[i].seats[r]) THEN world.held[p[i].seats[r]] ELSE NoAct
               G == [i \in DOMAIN p |-> [r \in DOMAIN p[i].seats |-> IF act(i, r) # NoAct THEN act(i, r) ELSE p[i].acts[r]]]
    <3>1. world' = [world EXCEPT !.plays = [i \in DOMAIN p |-> [p[i] EXCEPT !.acts =
             [r \in DOMAIN p[i].seats |-> IF act(i, r) # NoAct THEN act(i, r) ELSE p[i].acts[r]]]]]
      BY <1>2 DEF SeatHeld, SeatActs
    <3> HIDE DEF act
    <3>2. [i \in DOMAIN p |-> [p[i] EXCEPT !.acts =
             [r \in DOMAIN p[i].seats |-> IF act(i, r) # NoAct THEN act(i, r) ELSE p[i].acts[r]]]]
          = [i \in DOMAIN p |-> [p[i] EXCEPT !.acts = G[i]]]
      OBVIOUS
    <3> HIDE DEF G
    <3> QED BY <3>1, <3>2, Zenon
  <2>2. PICK q : /\ world' = [world EXCEPT !.plays = q]
                 /\ q = [i \in DOMAIN p |-> [p[i] EXCEPT !.acts = F[i]]]
    BY <2>1
  <2>3. Len(p) \in Nat /\ DOMAIN p = 1 .. Len(p) /\ Len(q) = Len(p)
    <3>1. Len(p) \in Nat /\ DOMAIN p = 1 .. Len(p)
      BY <1>2, LogIs DEF PlaysOK
    <3>2. q = [i \in 1 .. Len(p) |-> q[i]]
      BY <2>2, <3>1
    <3> QED BY <3>1, <3>2, MappedLog
  <2>4. ASSUME NEW i \in 1 .. Len(p) PROVE q[i].seats = p[i].seats
    <3>1. PICK e : e = p[i] /\ e = [seats |-> e.seats, credit |-> e.credit, acts |-> e.acts, pays |-> e.pays]
      BY <1>2 DEF PlaysOK, PlayOK
    <3>2. q[i] = [e EXCEPT !.acts = F[i]]
      BY <2>2, <2>3, <3>1
    <3> QED BY <3>1, <3>2
  <2> QED BY <2>2, <2>3, <2>4 DEF SameSeats
<1>4. world'.plays = q /\ world'.payoff = world.payoff /\ world'.n = world.n /\ world'.held = world.held
  BY <1>3 DEF GInv
<1>5. ASSUME NEW a \in asm.rules \ todo' PROVE Shows(q, asm.game.roles, a, world.held[a])
  <2>1. RolesOf(a) = {}
    BY <1>1
  <2>2. \A i \in 1 .. Len(p), r \in 1 .. asm.game.roles : p[i].seats[r] # a
    <3>1. DOMAIN p = 1 .. Len(p)
      BY <1>2, LogIs DEF PlaysOK
    <3> QED BY <1>2, <2>1, <3>1 DEF RolesOf
  <2> QED BY <1>3, <2>2 DEF Shows, SameSeats
<1> QED BY <1>1, <1>4, <1>5 DEF LInv, Async

LEMMA LDecide ==
  ASSUME GInv, LInv, NEW d \in Agent, Decide(d)
  PROVE  LInv'
<1>1. /\ asm' = asm /\ ghost' = ghost /\ log' = log /\ t' = t /\ pc = "decide" /\ pc' = pc /\ d \in todo /\ todo' = todo \ {d}
  BY DEF Decide
<1>2. PICK q, held : /\ DecidedBy(d, world.plays, asm.game.roles, q, held)
                     /\ world' = [world EXCEPT !.plays = q, !.held = held]
  BY DecideIs
<1>3. PICK p : p = world.plays
  OBVIOUS
<1>4. world'.plays = q /\ world'.held = held /\ world'.payoff = world.payoff /\ world'.n = world.n
  BY <1>2 DEF GInv
<1>5. ASSUME asm.scope = "step", asm.rules # {}, NEW a \in asm.rules \ todo'
      PROVE  Shows(q, asm.game.roles, a, held[a])
  <2>1. /\ Len(q) = Len(p) /\ \A i \in 1 .. Len(p) : q[i].seats = p[i].seats
        /\ \A i \in 1 .. Len(p), r \in 1 .. asm.game.roles :
             q[i].acts[r] = IF p[i].seats[r] = d THEN held[d] ELSE p[i].acts[r]
        /\ \A b \in Agent \ {d} : held[b] = world.held[b]
    BY <1>2, <1>3, <1>5 DEF DecidedBy, SameSeats
  <2>2. CASE a = d
    BY <2>1, <2>2 DEF Shows
  <2>3. CASE a # d
    <3>1. a \in asm.rules \ todo /\ a \in Agent
      BY <1>1, <1>5, <2>3, AssemblyAssumption DEF GInv
    <3>2. Shows(p, asm.game.roles, a, world.held[a])
      BY <1>1, <1>3, <1>5, <3>1 DEF LInv
    <3>3. held[a] = world.held[a]
      BY <2>1, <2>3, <3>1
    <3> QED BY <2>1, <2>3, <3>2, <3>3 DEF Shows
  <2> QED BY <2>2, <2>3
<1> QED BY <1>1, <1>4, <1>5 DEF LInv, Async

\* The step is played: its entry is the last of the log.
LEMMA LPlay == GInv /\ LInv /\ Play => LInv'
<1> SUFFICES ASSUME GInv, LInv, Play PROVE LInv'
  OBVIOUS
<1>1. /\ asm' = asm /\ t' = t /\ pc = "decide" /\ pc' = "reward" /\ todo = {} /\ ghost' = ghost
  BY DEF Play
<1>2. CASE asm.rules = {}
  BY <1>1, <1>2, LNone DEF LInv
<1>3. CASE asm.rules # {}
  <2>1. PICK roles \in Nat : roles = asm.game.roles /\ asm.agg \in {"sum", "mean"} /\ asm.rules \subseteq Agent
    BY AssemblyAssumption DEF GInv
  <2>2. PICK p : p = world.plays /\ PlaysOK(p, roles)
    BY <2>1 DEF GInv
  <2>3. PICK q : q = Paid(p, Len(p)) /\ PlaysOK(q, roles) /\ SameActs(p, q)
    BY <2>2, Repaid
  <2>4. PICK acc0 : acc0 = [pay |-> NoPay.pay, n |-> NoPay.n] /\ acc0 = [pay |-> world.payoff, n |-> world.n]
    BY <1>1, <1>3 DEF LInv
  <2>5. PICK totals : totals = Averaged(asm.agg, Played(acc0, asm.game, asm.play, p, Acts(p)))
    OBVIOUS
  <2>6. PICK recs : recs = [a \in Agent |-> [action |-> IF asm.scope = "step" THEN FirstAct(p, a) ELSE NoAct,
                                             payoff |-> totals.pay[a], n |-> totals.n[a]]]
    OBVIOUS
  <2>7. PICK w : w = [world EXCEPT !.pairs = PushPairs(world.pairs, p), !.plays = q]
    OBVIOUS
  <2>8. PICK rows : Commit(w, totals, recs, rows)
    BY <2>2, <2>3, <2>4, <2>5, <2>6, <2>7 DEF Play, RecordPlays
  <2>9. w.plays = q /\ w.held = world.held /\ {"held", "plays", "pairs", "payoff", "n"} \subseteq DOMAIN w
    BY <2>7 DEF GInv
  <2>10. PICK e : e = [t |-> t, records |-> recs, plays |-> q, rows |-> rows]
    OBVIOUS
  <2>11. log' = Append(log, e) /\ e.t = t /\ e.records = recs
    BY <2>8, <2>9, <2>10 DEF Commit
  <2>12. world'.plays = q /\ world'.held = world.held
    <3>1. PICK p1, p2, p3, p4 : world' = [w EXCEPT !.payoff = p1, !.n = p2, !.steps = p3, !.aggs = p4]
      BY <2>8 DEF Commit
    <3> QED BY <2>9, <3>1
  <2>13. Len(log') > 0 /\ log'[Len(log')] = e
    <3>1. IsLog(log) /\ Len(log) \in Nat
      BY LogIs DEF GInv, PairsInv, LogOK
    <3>2. Len(Append(log, e)) = Len(log) + 1 /\ Append(log, e)[Len(log) + 1] = e
      BY <3>1, AppendedLog
    <3> QED BY <2>11, <3>1, <3>2
  <2>14. ASSUME NEW a \in asm.rules
         PROVE  /\ PaidOut(recs[a].payoff, recs[a].n, asm.agg, Earned(q, a))
                /\ asm.scope = "step" => /\ Shows(q, roles, a, world.held[a])
                                         /\ Sits(q, roles, a) => recs[a].action = world.held[a]
    <3>1. a \in Agent /\ recs[a] = [action |-> IF asm.scope = "step" THEN FirstAct(p, a) ELSE NoAct,
                                    payoff |-> totals.pay[a], n |-> totals.n[a]]
      BY <2>1, <2>6
    <3>2. PaidOut(totals.pay[a], totals.n[a], asm.agg, Earned(q, a))
      BY <2>1, <2>2, <2>3, <2>4, <2>5, <3>1, StepPays
    <3>3. ASSUME asm.scope = "step"
          PROVE  /\ Shows(q, roles, a, world.held[a])
                 /\ Sits(q, roles, a) => FirstAct(p, a) = world.held[a]
      <4>1. Shows(p, roles, a, world.held[a])
        BY <1>1, <1>3, <2>1, <2>2, <3>3 DEF LInv
      <4>2. Shows(q, roles, a, world.held[a]) /\ (Sits(q, roles, a) => Sits(p, roles, a))
        BY <2>3, <4>1 DEF Shows, Sits, SameActs, SameSeats
      <4>3. IsLog(p)
        BY <2>2 DEF PlaysOK
      <4> QED BY <2>1, <4>1, <4>2, <4>3, FirstActIs
    <3>4. recs[a].payoff = totals.pay[a] /\ recs[a].n = totals.n[a]
          /\ (asm.scope = "step" => recs[a].action = FirstAct(p, a))
      BY <3>1
    <3> QED BY <3>2, <3>3, <3>4
  <2>15. IsOf(e, t, q, world.held)
    BY <2>1, <2>11, <2>14 DEF IsOf
  <2> QED BY <1>1, <1>3, <2>12, <2>13, <2>15 DEF LInv, Async, IsOf
<1> QED BY <1>2, <1>3

LEMMA LLearn == StepAssumption /\ HInv /\ GInv /\ LInv /\ Learn => LInv'
<1> SUFFICES ASSUME StepAssumption, HInv, GInv, LInv, Learn PROVE LInv'
  OBVIOUS
<1>1. /\ asm' = asm /\ t' = t /\ log' = log /\ world' = world /\ pc = "reward"
      /\ ghost' = [ghost EXCEPT !.learnt =
           [a \in asm.rules |-> [record   |-> LET v == StepView(HistoryLen, world.steps) IN v[Len(v)][a],
                                 outcomes |-> Outcomes(a)]]]
      /\ pc' = IF asm.update.mode = "none" THEN "post" ELSE "update"
  BY DEF Learn
<1>2. "learnt" \in DOMAIN ghost' /\ DOMAIN ghost'.learnt = asm.rules
  BY <1>1 DEF LInv
<1>3. CASE asm.rules = {}
  BY <1>1, <1>2, <1>3, LNone
<1>4. CASE asm.rules # {}
  <2>1. asm.update.mode = "none"
    BY <1>4 DEF GInv, Accepted
  <2>2. Len(log) > 0 /\ IsOf(log[Len(log)], t, world.plays, world.held)
    BY <1>1, <1>4 DEF LInv
  <2>3. PICK v : v = StepView(HistoryLen, world.steps) /\ v[Len(v)] = log[Len(log)].records
    <3>1. PICK v : v = StepView(HistoryLen, world.steps) /\ v = LastOf(HistoryLen, Records(log))
      BY HRead DEF RecordsAreLog
    <3>2. PICK S : Records(log) \in Seq(S)
      <4>1. IsLog(log)
        BY DEF HInv, RowsOK
      <4> QED BY <4>1, OneMore
    <3>3. PICK s \in Seq(S) : s = Records(log)
      BY <3>2
    <3>4. Len(s) = Len(log) /\ Len(log) \in Nat /\ s[Len(log)] = log[Len(log)].records
      <4>1. Len(log) \in Nat /\ DOMAIN log = 1 .. Len(log)
        BY LogIs DEF HInv
      <4>2. s = [i \in 1 .. Len(log) |-> log[i].records]
        BY <3>3, <4>1 DEF Records
      <4>3. Len(log) \in 1 .. Len(log)
        BY <2>2, <4>1
      <4>4. DOMAIN s = 1 .. Len(s) /\ Len(s) \in Nat
        OBVIOUS
      <4> QED BY <4>1, <4>2, <4>3, <4>4
    <3>5. PICK n \in Nat \ {0} : n = HistoryLen
      BY DEF StepAssumption
    <3>6. /\ Len(v) = Smaller(Len(s), n)
          /\ Len(s) <= n => v = s
          /\ Len(s) > n => \A i \in 1 .. n : v[i] = s[Len(s) - n + i]
      BY <3>1, <3>3, <3>5, Lasts
    <3>7. v[Len(v)] = s[Len(s)]
      <4>1. CASE Len(s) <= n
        BY <3>6, <4>1
      <4>2. CASE Len(s) > n
        <5>1. Len(v) = n /\ n \in 1 .. n /\ Len(s) - n + n = Len(s)
          BY <3>4, <3>6, <4>2 DEF Smaller
        <5> QED BY <3>6, <4>2, <5>1
      <4> QED BY <3>4, <4>1, <4>2
    <3> QED BY <3>1, <3>4, <3>7
  <2>4. ASSUME NEW a \in asm.rules
        PROVE  ghost'.learnt[a] = [record |-> log[Len(log)].records[a], outcomes |-> Outcomes(a)]
    BY <1>1, <2>3 DEF LInv
  <2>5. ASSUME NEW a PROVE Outcomes(a)' = Outcomes(a)
    BY <1>1 DEF Outcomes
  <2> QED BY <1>1, <1>2, <1>4, <2>1, <2>2, <2>4, <2>5 DEF LInv, Async, IsOf
<1> QED BY <1>3, <1>4

\* Nothing else is committed, credited or handed to a rule.
LEMMA LKept ==
  ASSUME LInv, asm' = asm, ghost'.learnt = ghost.learnt, "learnt" \in DOMAIN ghost',
         asm.rules # {} => pc' = "idle" \/ (pc \in {"post", "end"} /\ pc' \in {"post", "end"}
                                            /\ world' = world /\ log' = log /\ t' = t)
  PROVE  LInv'
<1>1. CASE asm.rules = {}
  BY <1>1, LNone DEF LInv
<1>2. CASE asm.rules # {} /\ pc' = "idle"
  BY <1>2 DEF LInv, Async
<1>3. CASE asm.rules # {} /\ pc' # "idle"
  <2>1. ASSUME NEW a PROVE Outcomes(a)' = Outcomes(a)
    BY <1>3 DEF Outcomes
  <2> QED BY <1>3, <2>1 DEF LInv, Async, IsOf
<1> QED BY <1>1, <1>2, <1>3

LEMMA LNext == StepAssumption /\ HInv /\ GInv /\ LInv /\ [Next]_vars => LInv'
<1> SUFFICES ASSUME StepAssumption, HInv, GInv, LInv, [Next]_vars PROVE LInv'
  OBVIOUS
<1>0. "learnt" \in DOMAIN ghost /\ (asm.rules # {} => pc \notin {"play", "update"} /\ ~Async)
  BY DEF LInv
<1>1. CASE PlayImplicit \/ Imitate \/ Moran \/ Record
  <2>1. asm' = asm /\ ghost' = ghost /\ asm.rules = {}
    BY <1>0, <1>1 DEF PlayImplicit, Imitate, Moran, Record
  <2> QED BY <1>0, <2>1, LKept
<1>2. CASE Measure
  <2>1. /\ asm' = asm /\ ghost'.learnt = ghost.learnt /\ "learnt" \in DOMAIN ghost'
        /\ pc = "post" /\ pc' = "end" /\ world' = world /\ log' = log /\ t' = t
    BY <1>0, <1>2 DEF Measure
  <2> QED BY <2>1, LKept
<1>3. CASE EndStep \/ Fail
  <2>1. asm' = asm /\ ghost' = ghost /\ pc' = "idle"
    BY <1>3 DEF EndStep, Fail
  <2> QED BY <1>0, <2>1, LKept
<1>4. CASE Stopped \/ UNCHANGED vars
  <2>1. UNCHANGED <<asm, t, log, world, pc, todo, ghost>>
    BY <1>4 DEF Stopped, vars
  <2>2. ASSUME NEW a PROVE Outcomes(a)' = Outcomes(a)
    BY <2>1 DEF Outcomes
  <2> QED BY <2>1, <2>2 DEF LInv, Async, IsOf
<1>5. CASE \E a \in Agent : Decide(a) \/ Activate(a)
  <2>1. ASSUME NEW a \in Agent, Activate(a) PROVE LInv'
    <3>1. asm' = asm /\ ghost' = ghost /\ asm.rules = {}
      BY <1>0, <2>1 DEF Activate
    <3> QED BY <1>0, <3>1, LKept
  <2> QED BY <1>5, <2>1, LDecide
<1> QED BY <1>1, <1>2, <1>3, <1>4, <1>5, LClear, LMatch, LSeatHeld, LPlay, LLearn DEF Next

\* What a rule was given is what the property promises of it.
LEMMA LRead == GInv /\ LInv => LearnsOwnStep
<1> SUFFICES ASSUME GInv, LInv, pc \in {"update", "post", "end"}, NEW a \in DOMAIN ghost.learnt
             PROVE  LET rec == ghost.learnt[a].record
                        own == ghost.learnt[a].outcomes
                        sum == Earned(world.plays, a)
                    IN  /\ log[Len(log)].t = t /\ rec = log[Len(log)].records[a]
                        /\ rec.payoff = IF asm.agg = "mean" /\ rec.n > 0 THEN sum \div rec.n ELSE sum
                        /\ asm.scope = "step" /\ DOMAIN own # {} =>
                             /\ \A i \in DOMAIN own : own[i].action = rec.action
                             /\ rec.action = world.held[a]
  BY DEF LearnsOwnStep
<1>1. /\ a \in asm.rules /\ pc \in {"post", "end"} /\ IsOf(log[Len(log)], t, world.plays, world.held)
      /\ ghost.learnt[a] = [record |-> log[Len(log)].records[a], outcomes |-> Outcomes(a)]
  BY DEF LInv
<1>2. PICK rec : rec = log[Len(log)].records[a]
  OBVIOUS
<1>3. PICK own : own = Outcomes(a)
  OBVIOUS
<1>4. ghost.learnt[a].record = rec /\ ghost.learnt[a].outcomes = own
  BY <1>1, <1>2, <1>3
<1>5. log[Len(log)].t = t /\ PaidOut(rec.payoff, rec.n, asm.agg, Earned(world.plays, a))
  BY <1>1, <1>2 DEF IsOf
<1>6. PICK p : p = world.plays /\ PlaysOK(p, asm.game.roles)
  BY DEF GInv
<1>7. DOMAIN p = 1 .. Len(p)
  BY <1>6, LogIs DEF PlaysOK
<1>8. asm.game.roles \in Nat
  BY AssemblyAssumption DEF GInv
<1>9. ASSUME asm.scope = "step", NEW i \in DOMAIN own
      PROVE  own[i].action = rec.action /\ rec.action = world.held[a]
  <2>1. PICK x : x = world.held[a]
    OBVIOUS
  <2>2. Shows(p, asm.game.roles, a, x) /\ (Sits(p, asm.game.roles, a) => rec.action = x)
    BY <1>1, <1>2, <1>6, <1>9, <2>1 DEF IsOf
  <2>3. i \in 1 .. Len(p) /\ a \in ToSet(p[i].seats) /\ own[i].action = p[i].acts[FirstSeat(p[i], a)]
    BY <1>3, <1>6, <1>7, <1>9 DEF Outcomes
  <2>4. PICK e : e = p[i] /\ PlayOK(e, asm.game.roles)
    BY <1>6, <2>3 DEF PlaysOK
  <2>5. PICK roles \in Nat : roles = asm.game.roles /\ DOMAIN e.seats = 1 .. roles
    BY <1>8, <2>4 DEF PlayOK
  <2> DEFINE S == {r \in 1 .. roles : e.seats[r] = a}
  <2>6. PICK r \in S : \A q \in S : r <= q
    <3>1. S # {} /\ S \subseteq Nat
      BY <2>3, <2>4, <2>5 DEF ToSet
    <3> HIDE DEF S
    <3> QED BY <3>1, Least
  <2>7. \A q \in 1 .. r - 1 : e.seats[q] # a
    <3> SUFFICES ASSUME NEW q \in 1 .. r - 1, e.seats[q] = a PROVE FALSE
      OBVIOUS
    <3>1. q \in S /\ q < r
      BY <2>5, <2>6
    <3> QED BY <2>6, <3>1
  <2>8. PICK f : f = FirstSeat(e, a)
    OBVIOUS
  <2>9. f \in DOMAIN e.seats /\ e.seats[f] = a
    BY <2>5, <2>6, <2>7, <2>8 DEF FirstSeat
  <2>10. p[i].acts[f] = x /\ Sits(p, asm.game.roles, a)
    BY <2>2, <2>3, <2>4, <2>5, <2>9 DEF Shows, Sits
  <2> QED BY <2>1, <2>2, <2>3, <2>4, <2>8, <2>10
<1> QED BY <1>2, <1>4, <1>5, <1>9 DEF PaidOut

\* A rule learns from the step it just played, for every game, matching and
\* assembly: the record it is given is the one of this step, with the payoff its
\* own paid encounters of this step bring, summed or averaged, whatever a failed
\* attempt at the step had credited; under per-step decisions all its encounters
\* and its record show the action it holds.
THEOREM GameLearnsOwnStep == Spec => []LearnsOwnStep
<1>1. Init => HInv /\ GInv /\ LInv
  BY HInit, GInit, LInit, StepAssumption
<1>2. HInv /\ GInv /\ LInv /\ [Next]_vars => HInv' /\ GInv' /\ LInv'
  BY HNext, GNext, LNext, StepAssumption
<1>3. GInv /\ LInv => LearnsOwnStep
  BY LRead
<1> QED BY <1>1, <1>2, <1>3, PTL DEF Spec

-----------------------------------------------------------------------------
(* Sums *)

Sums(f, s) == f \in [0 .. Len(s) -> Int] /\ f[0] = 0 /\ \A k \in 1 .. Len(s) : f[k] = f[k - 1] + s[k]

LEMMA TotalRun ==
  ASSUME NEW s \in Seq(Int)
  PROVE  \E f : Sums(f, s) /\ Total(s) = f[Len(s)]
<1> DEFINE N == Len(s)
           F == [k \in 1 .. N |-> [x \in Int |-> x + s[k]]]
           Is(f) == f = [k \in 0 .. N |-> IF k = 0 THEN 0 ELSE f[k - 1] + s[k]]
           run == CHOOSE f : Is(f)
<1>1. N \in Nat /\ \A k \in 1 .. N : s[k] \in Int
  OBVIOUS
<1>2. Total(s) = run[N]
  BY DEF Total
<1> HIDE DEF N
<1>3. Machine(N, Int, 0, F)
  BY <1>1 DEF Machine
<1>4. PICK g : RunOf(g, N, Int, 0, F)
  <2> HIDE DEF F
  <2> QED BY <1>3, Recursion
<1>5. g \in [0 .. N -> Int] /\ g[0] = 0 /\ \A k \in 1 .. N : g[k] = g[k - 1] + s[k]
  <2>1. g \in [0 .. N -> Int] /\ g[0] = 0 /\ \A k \in 1 .. N : g[k] = F[k][g[k - 1]]
    BY <1>4 DEF RunOf
  <2>2. ASSUME NEW k \in 1 .. N PROVE g[k] = g[k - 1] + s[k]
    <3>1. g[k - 1] \in Int
      BY <1>1, <2>1
    <3> QED BY <2>1, <3>1
  <2> QED BY <2>1, <2>2
<1>6. Is(g)
  BY <1>1, <1>5
<1>7. Is(run)
  <2> HIDE DEF Is
  <2> QED BY <1>6, Zenon
<1> HIDE DEF run
<1>8. run[0] = 0 /\ \A k \in 1 .. N : run[k] = run[k - 1] + s[k]
  BY <1>1, <1>7
<1> DEFINE T == {n \in Nat : n <= N => run[n] = g[n]}
<1>9. 0 \in T
  BY <1>5, <1>8
<1>10. ASSUME NEW n \in Nat, n \in T PROVE n + 1 \in T
  <2>1. (n + 1) - 1 = n
    OBVIOUS
  <2>2. ASSUME n + 1 <= N PROVE run[n + 1] = g[n + 1]
    <3>1. n + 1 \in 1 .. N /\ run[n] = g[n]
      BY <1>1, <1>10, <2>2
    <3>2. run[n + 1] = run[n] + s[n + 1] /\ g[n + 1] = g[n] + s[n + 1]
      BY <1>5, <1>8, <2>1, <3>1
    <3> QED BY <3>1, <3>2
  <2> QED BY <2>2
<1>11. N \in T
  <2> HIDE DEF T
  <2> QED BY <1>1, <1>9, <1>10, Induct
<1> QED BY <1>1, <1>2, <1>5, <1>11 DEF Sums, N

\* There is one way to sum a sequence up.
LEMMA TotalIs ==
  ASSUME NEW s \in Seq(Int), NEW f, Sums(f, s)
  PROVE  Total(s) = f[Len(s)] /\ Total(s) \in Int
<1>1. PICK g : Sums(g, s) /\ Total(s) = g[Len(s)]
  BY TotalRun
<1>2. PICK N \in Nat : N = Len(s)
  OBVIOUS
<1>3. /\ f \in [0 .. N -> Int] /\ f[0] = 0 /\ \A k \in 1 .. N : f[k] = f[k - 1] + s[k]
      /\ g \in [0 .. N -> Int] /\ g[0] = 0 /\ \A k \in 1 .. N : g[k] = g[k - 1] + s[k]
  BY <1>1, <1>2 DEF Sums
<1> DEFINE T == {n \in Nat : n <= N => f[n] = g[n]}
<1>4. 0 \in T
  BY <1>3
<1>5. ASSUME NEW n \in Nat, n \in T PROVE n + 1 \in T
  <2>1. (n + 1) - 1 = n
    OBVIOUS
  <2>2. ASSUME n + 1 <= N PROVE f[n + 1] = g[n + 1]
    <3>1. n + 1 \in 1 .. N /\ f[n] = g[n]
      BY <1>5, <2>2
    <3>2. f[n + 1] = f[n] + s[n + 1] /\ g[n + 1] = g[n] + s[n + 1]
      BY <1>3, <2>1, <3>1
    <3> QED BY <3>1, <3>2
  <2> QED BY <2>2
<1>6. N \in T
  <2> HIDE DEF T
  <2> QED BY <1>4, <1>5, Induct
<1> QED BY <1>1, <1>2, <1>3, <1>6

LEMMA TotalTyped ==
  ASSUME NEW s \in Seq(Int)
  PROVE  Total(s) \in Int
BY TotalRun, TotalIs

LEMMA TotalEmpty ==
  Total(<<>>) = 0
<1>1. PICK s \in Seq(Int) : s = <<>> /\ Len(s) = 0
  <2>1. <<>> \in Seq(Int) /\ Len(<<>>) = 0
    OBVIOUS
  <2> QED BY <2>1
<1>2. PICK f : Sums(f, s) /\ Total(s) = f[Len(s)]
  BY TotalRun
<1> QED BY <1>1, <1>2 DEF Sums

LEMMA TotalJoin ==
  ASSUME NEW s \in Seq(Int), NEW r \in Seq(Int)
  PROVE  Total(s \o r) = Total(s) + Total(r)
<1>1. PICK f : Sums(f, s) /\ Total(s) = f[Len(s)]
  BY TotalRun
<1>2. PICK g : Sums(g, r) /\ Total(r) = g[Len(r)]
  BY TotalRun
<1>3. PICK m \in Nat, n \in Nat : m = Len(s) /\ n = Len(r)
  OBVIOUS
<1>4. PICK u \in Seq(Int) : u = s \o r /\ Len(u) = m + n
  <2>1. s \o r \in Seq(Int) /\ Len(s \o r) = Len(s) + Len(r)
    OBVIOUS
  <2> QED BY <1>3, <2>1
<1>5. \A k \in 1 .. m + n : u[k] = IF k <= m THEN s[k] ELSE r[k - m]
  BY <1>3, <1>4
<1>6. PICK h : h = [k \in 0 .. m + n |-> IF k <= m THEN f[k] ELSE f[m] + g[k - m]]
  OBVIOUS
<1>7. /\ f \in [0 .. m -> Int] /\ f[0] = 0 /\ \A k \in 1 .. m : f[k] = f[k - 1] + s[k]
      /\ g \in [0 .. n -> Int] /\ g[0] = 0 /\ \A k \in 1 .. n : g[k] = g[k - 1] + r[k]
  BY <1>1, <1>2, <1>3 DEF Sums
<1>8. h \in [0 .. m + n -> Int] /\ h[0] = 0
  <2>1. ASSUME NEW k \in 0 .. m + n PROVE (IF k <= m THEN f[k] ELSE f[m] + g[k - m]) \in Int
    <3>1. CASE k <= m
      BY <1>7, <3>1
    <3>2. CASE k > m
      <4>1. k - m \in 0 .. n /\ m \in 0 .. m /\ ~(k <= m)
        BY <3>2
      <4>2. f[m] \in Int /\ g[k - m] \in Int
        BY <1>7, <4>1
      <4> QED BY <4>1, <4>2
    <3> QED BY <3>1, <3>2
  <2> QED BY <1>6, <1>7, <2>1
<1>9. ASSUME NEW k \in 1 .. m + n PROVE h[k] = h[k - 1] + u[k]
  <2>0. k \in 0 .. m + n /\ k - 1 \in 0 .. m + n
    OBVIOUS
  <2>1. CASE k <= m
    <3>1. k \in 1 .. m /\ k - 1 <= m
      BY <2>1
    <3>2. h[k] = f[k] /\ h[k - 1] = f[k - 1] /\ u[k] = s[k]
      BY <1>5, <1>6, <2>0, <2>1, <3>1
    <3> QED BY <1>7, <3>1, <3>2
  <2>2. CASE k > m
    <3>1. k - m \in 1 .. n /\ (k - m) - 1 = (k - 1) - m /\ ~(k <= m) /\ (k - m) - 1 \in 0 .. n /\ m \in 0 .. m
      BY <2>2
    <3>2. h[k] = f[m] + g[k - m] /\ u[k] = r[k - m]
      BY <1>5, <1>6, <2>0, <3>1
    <3>3. h[k - 1] = f[m] + g[(k - m) - 1]
      <4>1. CASE k - 1 <= m
        <5>1. k - 1 = m /\ (k - m) - 1 = 0
          BY <2>2, <4>1
        <5>2. h[k - 1] = f[m] /\ g[(k - m) - 1] = 0 /\ f[m] \in Int
          BY <1>6, <1>7, <2>0, <3>1, <5>1
        <5> QED BY <5>2
      <4>2. CASE ~(k - 1 <= m)
        BY <1>6, <2>0, <3>1, <4>2
      <4> QED BY <4>1, <4>2
    <3>4. g[k - m] = g[(k - m) - 1] + r[k - m] /\ g[(k - m) - 1] \in Int /\ f[m] \in Int /\ r[k - m] \in Int
      <4>1. r[k - m] \in Int
        BY <1>3, <3>1
      <4> QED BY <1>7, <3>1, <4>1
    <3> QED BY <3>2, <3>3, <3>4
  <2> QED BY <2>1, <2>2
<1>10. Total(u) = h[m + n]
  <2>1. Sums(h, u)
    BY <1>4, <1>8, <1>9 DEF Sums
  <2> QED BY <1>4, <2>1, TotalIs
<1>11. h[m + n] = f[m] + g[n]
  <2>1. CASE n = 0
    BY <1>6, <1>7, <2>1
  <2>2. CASE n # 0
    <3>1. ~(m + n <= m) /\ (m + n) - m = n /\ m + n \in 0 .. m + n
      BY <2>2
    <3> QED BY <1>6, <3>1
  <2> QED BY <2>1, <2>2
<1> QED BY <1>1, <1>2, <1>3, <1>4, <1>10, <1>11

LEMMA TotalOne ==
  ASSUME NEW x \in Int
  PROVE  Total(<<x>>) = x
<1>1. PICK s \in Seq(Int) : s = <<x>> /\ Len(s) = 1 /\ s[1] = x
  <2>1. <<x>> \in Seq(Int) /\ Len(<<x>>) = 1 /\ <<x>>[1] = x
    OBVIOUS
  <2> QED BY <2>1
<1>2. PICK f : Sums(f, s) /\ Total(s) = f[1]
  BY <1>1, TotalRun
<1>3. f[0] = 0 /\ f[1] = f[1 - 1] + s[1]
  BY <1>1, <1>2 DEF Sums
<1>4. 1 - 1 = 0
  OBVIOUS
<1> QED BY <1>1, <1>2, <1>3, <1>4

\* Sums that go up by the same amounts.
LEMMA TotalScaled ==
  ASSUME NEW s \in Seq(Int), NEW r \in Seq(Int), Len(r) = Len(s), \A k \in 1 .. Len(s) : r[k] = Scale * s[k]
  PROVE  Total(r) = Scale * Total(s)
<1>1. PICK f : Sums(f, s) /\ Total(s) = f[Len(s)]
  BY TotalRun
<1>2. PICK g : g = [k \in 0 .. Len(s) |-> 6 * f[k]]
  OBVIOUS
<1>3. Sums(g, r)
  <2>1. \A k \in 0 .. Len(s) : f[k] \in Int
    BY <1>1 DEF Sums
  <2>2. g \in [0 .. Len(r) -> Int] /\ g[0] = 0
    BY <1>1, <1>2, <2>1 DEF Sums
  <2>3. ASSUME NEW k \in 1 .. Len(r) PROVE g[k] = g[k - 1] + r[k]
    <3>1. k \in 1 .. Len(s) /\ k \in 0 .. Len(s) /\ k - 1 \in 0 .. Len(s)
      OBVIOUS
    <3>2. f[k] = f[k - 1] + s[k] /\ r[k] = 6 * s[k] /\ s[k] \in Int /\ f[k - 1] \in Int
      BY <1>1, <2>1, <3>1 DEF Sums, Scale
    <3>3. g[k] = 6 * f[k] /\ g[k - 1] = 6 * f[k - 1]
      BY <1>2, <3>1
    <3> QED BY <3>2, <3>3
  <2> QED BY <2>2, <2>3 DEF Sums
<1>4. Total(r) = g[Len(s)]
  BY <1>3, TotalIs
<1> QED BY <1>1, <1>2, <1>4 DEF Scale

LEMMA TotalEven ==
  ASSUME NEW s \in Seq(Int), NEW c \in {0, 1}, \A k \in 1 .. Len(s) : s[k] = c
  PROVE  Total(s) = c * Len(s)
<1>1. PICK g : g = [k \in 0 .. Len(s) |-> IF c = 0 THEN 0 ELSE k]
  OBVIOUS
<1>2. Sums(g, s)
  BY <1>1 DEF Sums
<1>3. Total(s) = g[Len(s)]
  BY <1>2, TotalIs
<1> QED BY <1>1, <1>3

LEMMA TotalNat ==
  ASSUME NEW s \in Seq(Int), \A k \in 1 .. Len(s) : s[k] \in Nat
  PROVE  Total(s) \in Nat
<1>0. Len(s) \in Nat
  OBVIOUS
<1>1. PICK f : Sums(f, s) /\ Total(s) = f[Len(s)]
  BY TotalRun
<1> DEFINE T == {n \in Nat : n <= Len(s) => f[n] \in Nat}
<1>2. 0 \in T
  BY <1>1 DEF Sums
<1>3. ASSUME NEW n \in Nat, n \in T PROVE n + 1 \in T
  <2>1. (n + 1) - 1 = n
    OBVIOUS
  <2>2. ASSUME n + 1 <= Len(s) PROVE f[n + 1] \in Nat
    <3>1. n + 1 \in 1 .. Len(s) /\ f[n] \in Nat
      BY <1>3, <2>2
    <3>2. f[n + 1] = f[n] + s[n + 1]
      BY <1>1, <2>1, <3>1 DEF Sums
    <3> QED BY <3>1, <3>2
  <2> QED BY <2>2
<1>4. Len(s) \in T
  <2> HIDE DEF T
  <2> QED BY <1>0, <1>2, <1>3, Induct
<1> QED BY <1>0, <1>1, <1>4

-----------------------------------------------------------------------------
(* What full play pays *)

GameOK(game) == game.roles \in Nat \ {0} /\ game.pay \in [Action -> [0 .. game.roles - 1 -> Int]]

\* Every seat finds its payoff in the table, whichever way others are counted.
LEMMA PaysFrom ==
  ASSUME NEW game, GameOK(game), NEW V, game.pay \in [Action -> [0 .. game.roles - 1 -> V]],
         NEW play, NEW acts \in [1 .. game.roles -> Action]
  PROVE  SeatPayoffs(game, play, acts) \in [1 .. game.roles -> V]
<1>1. PICK n \in Nat \ {0} : n = game.roles
  BY DEF GameOK
<1>2. PICK pay \in [Action -> [0 .. n - 1 -> V]] : pay = game.pay
  BY <1>1 DEF GameOK
<1>3. acts \in [1 .. n -> Action] /\ DOMAIN acts = 1 .. n
  BY <1>1
<1>4. IsFiniteSet(1 .. n) /\ Cardinality(1 .. n) = n
  BY FS_Interval
<1>5. ASSUME NEW r \in 1 .. n, NEW S, S \subseteq (1 .. n) \ {r}
      PROVE  IsFiniteSet(S) /\ Cardinality(S) \in 0 .. n - 1
  <2>1. IsFiniteSet((1 .. n) \ {r}) /\ Cardinality((1 .. n) \ {r}) = n - 1
    BY <1>4, FS_RemoveElement
  <2>2. IsFiniteSet(S) /\ Cardinality(S) <= Cardinality((1 .. n) \ {r})
    BY <1>5, <2>1, FS_Subset, Zenon
  <2>3. Cardinality(S) \in Nat
    BY <2>2, FS_CardinalityType
  <2> QED BY <2>1, <2>2, <2>3
<1>6. NormalForm(game, acts) \in [1 .. n -> V]
  <2> DEFINE S(r) == {q \in (1 .. n) \ {r} : acts[q] = 1}
  <2>1. NormalForm(game, acts) = [r \in 1 .. n |-> pay[acts[r]][Cardinality(S(r))]]
    BY <1>2, <1>3 DEF NormalForm
  <2>2. ASSUME NEW r \in 1 .. n PROVE pay[acts[r]][Cardinality(S(r))] \in V
    <3>1. S(r) \subseteq (1 .. n) \ {r}
      OBVIOUS
    <3> HIDE DEF S
    <3>2. Cardinality(S(r)) \in 0 .. n - 1
      BY <1>5, <3>1
    <3> QED BY <1>3, <3>2
  <2> HIDE DEF S
  <2> QED BY <2>1, <2>2
<1>7. CountingPayoffs(game, acts) \in [1 .. n -> V]
  <2> DEFINE counts == [x \in Action |-> CountOf(x, acts)]
             others(x) == [counts EXCEPT ![x] = counts[x] - 1]
             byAction == [x \in {y \in Action : counts[y] > 0} |-> pay[x][others(x)[1]]]
             S(x) == {q \in 1 .. n : acts[q] = x}
  <2>1. CountingPayoffs(game, acts) = [r \in 1 .. n |-> byAction[acts[r]]]
    BY <1>2, <1>3 DEF CountingPayoffs
  <2>2. ASSUME NEW x \in Action PROVE counts[x] = Cardinality(S(x))
    BY <1>3 DEF CountOf
  <2>3. 1 \in Action /\ Action = {0, 1}
    BY DEF Action
  <2>4. DOMAIN counts = Action
    OBVIOUS
  <2> HIDE DEF counts
  <2>5. ASSUME NEW r \in 1 .. n PROVE byAction[acts[r]] \in V
    <3>1. PICK x \in Action : x = acts[r]
      BY <1>3
    <3>2. r \in S(x) /\ S(x) \subseteq 1 .. n /\ (x = 0 => S(1) \subseteq (1 .. n) \ {r})
      BY <3>1
    <3>3. IsFiniteSet(S(x)) /\ Cardinality(S(x)) \in 1 .. n
      <4> HIDE DEF S
      <4>1. IsFiniteSet(S(x)) /\ Cardinality(S(x)) <= n
        BY <1>4, <3>2, FS_Subset
      <4>2. Cardinality(S(x)) \in Nat /\ Cardinality(S(x)) # 0
        BY <3>2, <4>1, FS_CardinalityType, FS_EmptySet
      <4> QED BY <4>1, <4>2
    <3>4. others(x)[1] = IF x = 1 THEN counts[1] - 1 ELSE counts[1]
      BY <2>3, <2>4
    <3>5. others(x)[1] \in 0 .. n - 1
      <4>1. CASE x = 1
        <5> HIDE DEF S, others
        <5> QED BY <2>2, <2>3, <3>3, <3>4, <4>1
      <4>2. CASE x = 0
        <5> HIDE DEF S, others
        <5>1. Cardinality(S(1)) \in 0 .. n - 1
          BY <1>5, <3>2, <4>2
        <5> QED BY <2>2, <2>3, <3>4, <4>2, <5>1
      <4> QED BY <2>3, <4>1, <4>2
    <3>6. counts[x] > 0
      <4> HIDE DEF S
      <4> QED BY <2>2, <3>3
    <3>7. byAction[x] = pay[x][others(x)[1]]
      BY <3>6
    <3> HIDE DEF byAction, others
    <3> QED BY <3>1, <3>5, <3>7
  <2> HIDE DEF byAction
  <2> QED BY <2>1, <2>5
<1> QED BY <1>1, <1>6, <1>7 DEF SeatPayoffs

LEMMA PaysTyped ==
  ASSUME NEW game, GameOK(game), NEW play, NEW acts \in [1 .. game.roles -> Action]
  PROVE  SeatPayoffs(game, play, acts) \in [1 .. game.roles -> Int]
BY PaysFrom DEF GameOK

\* The encounters that a step may be given.
MetOK(es, roles) == es \in Seq(Encounter) /\ \A i \in DOMAIN es : Len(es[i].seats) = roles

LEMMA SeatedTyped ==
  ASSUME NEW roles \in Nat, NEW e \in Encounter, Len(e.seats) = roles, NEW held \in [Agent -> Action]
  PROVE  DOMAIN e.seats = 1 .. roles /\ Seated(held, e) \in [1 .. roles -> Action]
<1>1. DOMAIN e.seats = 1 .. roles /\ \A r \in 1 .. roles : e.seats[r] \in Agent
  BY DEF Encounter
<1> QED BY <1>1 DEF Seated

LEMMA PaidCount ==
  ASSUME NEW roles \in Nat, NEW e \in Encounter, Len(e.seats) = roles, NEW b
  PROVE  Cardinality(PaidSeats(e, b)) \in Nat
<1>1. PICK p : p = [seats |-> e.seats, credit |-> e.credit,
                    acts |-> [r \in 1 .. roles |-> NoAct], pays |-> <<>>]
  OBVIOUS
<1>2. PlayOK(p, roles)
  <2>1. [r \in 1 .. roles |-> NoAct] \in [1 .. roles -> Acted]
    BY DEF Acted
  <2> QED BY <1>1, <2>1 DEF PlayOK, Encounter
<1>3. PaidSeats(p, b) = PaidSeats(e, b)
  BY <1>1 DEF PaidSeats, Credited
<1> QED BY <1>2, <1>3, SeatsPaid

LEMMA SeatSumTyped ==
  ASSUME NEW n \in Nat, NEW pays \in [1 .. n -> Int], NEW seats
  PROVE  /\ [r \in 1 .. n |-> IF r \in seats THEN pays[r] ELSE 0] \in Seq(Int)
         /\ SeatSum(pays, seats) = Total([r \in 1 .. n |-> IF r \in seats THEN pays[r] ELSE 0])
         /\ SeatSum(pays, seats) \in Int
<1>1. PICK s : s = [r \in 1 .. n |-> IF r \in seats THEN pays[r] ELSE 0]
  OBVIOUS
<1>2. s \in Seq(Int)
  BY <1>1
<1>3. SeatSum(pays, seats) = Total(s)
  BY <1>1 DEF SeatSum
<1> QED BY <1>1, <1>2, <1>3, TotalTyped

\* What the encounters of a list pay an agent under a profile, and how often it plays.
EachPays(es, held, b) ==
  [k \in 1 .. Len(es) |-> Scale * SeatSum(SeatPayoffs(asm.game, asm.play, Seated(held, es[k])), PaidSeats(es[k], b))]
EachTime(es, b) == [k \in 1 .. Len(es) |-> Cardinality(PaidSeats(es[k], b))]
Whole(es, held) == Played(NoPay, asm.game, asm.play, es, [i \in DOMAIN es |-> Seated(held, es[i])])

LEMMA EachTyped ==
  ASSUME NEW es, GameOK(asm.game), MetOK(es, asm.game.roles), NEW held \in [Agent -> Action], NEW b
  PROVE  /\ EachPays(es, held, b) \in Seq(Int) /\ Len(EachPays(es, held, b)) = Len(es)
         /\ EachTime(es, b) \in Seq(Int) /\ Len(EachTime(es, b)) = Len(es)
         /\ \A k \in 1 .. Len(es) : EachTime(es, b)[k] \in Nat
<1>1. PICK roles \in Nat \ {0} : roles = asm.game.roles
  BY DEF GameOK
<1>2. PICK N \in Nat : N = Len(es)
  BY DEF MetOK
<1>3. ASSUME NEW k \in 1 .. N
      PROVE  /\ SeatSum(SeatPayoffs(asm.game, asm.play, Seated(held, es[k])), PaidSeats(es[k], b)) \in Int
             /\ Cardinality(PaidSeats(es[k], b)) \in Nat
  <2>1. es[k] \in Encounter /\ Len(es[k].seats) = roles
    BY <1>1, <1>2 DEF MetOK
  <2>2. Seated(held, es[k]) \in [1 .. roles -> Action]
    BY <2>1, SeatedTyped
  <2>3. SeatPayoffs(asm.game, asm.play, Seated(held, es[k])) \in [1 .. roles -> Int]
    BY <1>1, <2>2, PaysTyped
  <2> QED BY <2>1, <2>3, SeatSumTyped, PaidCount
<1>4. \A k \in 1 .. N : Scale * SeatSum(SeatPayoffs(asm.game, asm.play, Seated(held, es[k])), PaidSeats(es[k], b)) \in Int
  BY <1>3 DEF Scale
<1>5. EachPays(es, held, b) \in Seq(Int) /\ Len(EachPays(es, held, b)) = N
  BY <1>2, <1>4 DEF EachPays
<1>6. EachTime(es, b) \in Seq(Int) /\ Len(EachTime(es, b)) = N /\ \A k \in 1 .. N : EachTime(es, b)[k] \in Nat
  BY <1>2, <1>3 DEF EachTime
<1> QED BY <1>2, <1>5, <1>6

LEMMA WholeIs ==
  ASSUME NEW es, GameOK(asm.game), MetOK(es, asm.game.roles), NEW held \in [Agent -> Action]
  PROVE  /\ Whole(es, held).pay = [b \in Agent |-> Total(EachPays(es, held, b))]
         /\ Whole(es, held).n = [b \in Agent |-> Total(EachTime(es, b))]
<1>1. PICK acts : acts = [i \in DOMAIN es |-> Seated(held, es[i])]
  OBVIOUS
<1>2. PICK N \in Nat : N = Len(es) /\ DOMAIN es = 1 .. N /\ IsLog(es)
  BY DEF MetOK, IsLog
<1>3. PICK f : PlayedUpTo(f, NoPay, es, acts)
  BY <1>2, PlayedRun
<1>4. /\ f[0] = NoPay /\ Whole(es, held) = f[N]
      /\ \A k \in 1 .. N : f[k] = Credit(f[k - 1], es[k], SeatPayoffs(asm.game, asm.play, Seated(held, es[k])))
  <2>1. \A k \in 1 .. N : acts[k] = Seated(held, es[k])
    BY <1>1, <1>2
  <2> QED BY <1>1, <1>2, <1>3, <2>1 DEF PlayedUpTo, Whole
<1> DEFINE g(b) == CHOOSE x : Sums(x, EachPays(es, held, b))
           h(b) == CHOOSE x : Sums(x, EachTime(es, b))
<1>5. ASSUME NEW b
      PROVE  /\ Sums(g(b), EachPays(es, held, b)) /\ Total(EachPays(es, held, b)) = g(b)[N]
             /\ Sums(h(b), EachTime(es, b)) /\ Total(EachTime(es, b)) = h(b)[N]
  <2>1. /\ EachPays(es, held, b) \in Seq(Int) /\ Len(EachPays(es, held, b)) = N
        /\ EachTime(es, b) \in Seq(Int) /\ Len(EachTime(es, b)) = N
    BY <1>2, EachTyped
  <2>2. Sums(g(b), EachPays(es, held, b)) /\ Sums(h(b), EachTime(es, b))
    <3>1. (\E x : Sums(x, EachPays(es, held, b))) /\ \E x : Sums(x, EachTime(es, b))
      BY <2>1, TotalRun
    <3> QED BY <3>1, Zenon
  <2> HIDE DEF g, h
  <2> QED BY <2>1, <2>2, TotalIs
<1>6. ASSUME NEW b
      PROVE  /\ g(b)[0] = 0 /\ h(b)[0] = 0
             /\ \A k \in 1 .. N :
                  /\ g(b)[k] = g(b)[k - 1]
                       + Scale * SeatSum(SeatPayoffs(asm.game, asm.play, Seated(held, es[k])), PaidSeats(es[k], b))
                  /\ h(b)[k] = h(b)[k - 1] + Cardinality(PaidSeats(es[k], b))
  <2>1. Len(EachPays(es, held, b)) = N /\ Len(EachTime(es, b)) = N
    BY <1>2, EachTyped
  <2> HIDE DEF g, h
  <2>2. /\ g(b)[0] = 0 /\ h(b)[0] = 0
        /\ \A k \in 1 .. N : g(b)[k] = g(b)[k - 1] + EachPays(es, held, b)[k] /\ h(b)[k] = h(b)[k - 1] + EachTime(es, b)[k]
    BY <1>5, <2>1 DEF Sums
  <2> QED BY <1>2, <2>2 DEF EachPays, EachTime
<1> HIDE DEF g, h
<1> DEFINE T == {k \in Nat : k <= N => f[k] = [pay |-> [b \in Agent |-> g(b)[k]], n |-> [b \in Agent |-> h(b)[k]]]}
<1>7. 0 \in T
  BY <1>4, <1>6 DEF NoPay
<1>8. ASSUME NEW k \in Nat, k \in T PROVE k + 1 \in T
  <2>1. (k + 1) - 1 = k
    OBVIOUS
  <2>2. SUFFICES ASSUME k + 1 <= N
                 PROVE  f[k + 1] = [pay |-> [b \in Agent |-> g(b)[k + 1]], n |-> [b \in Agent |-> h(b)[k + 1]]]
    OBVIOUS
  <2>3. k + 1 \in 1 .. N /\ f[k] = [pay |-> [b \in Agent |-> g(b)[k]], n |-> [b \in Agent |-> h(b)[k]]]
    BY <1>8, <2>2
  <2>4. PICK e, pays : e = es[k + 1] /\ pays = SeatPayoffs(asm.game, asm.play, Seated(held, es[k + 1]))
    OBVIOUS
  <2>5. f[k + 1] = Credit(f[k], e, pays)
    BY <1>4, <2>1, <2>3, <2>4
  <2>6. \A b \in Agent : /\ g(b)[k + 1] = g(b)[k] + Scale * SeatSum(pays, PaidSeats(e, b))
                         /\ h(b)[k + 1] = h(b)[k] + Cardinality(PaidSeats(e, b))
    BY <1>6, <2>1, <2>3, <2>4
  <2>7. f[k].pay = [b \in Agent |-> g(b)[k]] /\ f[k].n = [b \in Agent |-> h(b)[k]]
    BY <2>3
  <2>8. f[k + 1] = [pay |-> [b \in Agent |-> f[k].pay[b] + Scale * SeatSum(pays, PaidSeats(e, b))],
                    n |-> [b \in Agent |-> f[k].n[b] + Cardinality(PaidSeats(e, b))]]
    BY <2>5 DEF Credit
  <2>9. \A b \in Agent : f[k].pay[b] = g(b)[k] /\ f[k].n[b] = h(b)[k]
    BY <2>7
  <2>10. \A b \in Agent : /\ f[k].pay[b] + Scale * SeatSum(pays, PaidSeats(e, b)) = g(b)[k + 1]
                          /\ f[k].n[b] + Cardinality(PaidSeats(e, b)) = h(b)[k + 1]
    BY <2>6, <2>9
  <2>11. /\ [b \in Agent |-> f[k].pay[b] + Scale * SeatSum(pays, PaidSeats(e, b))] = [b \in Agent |-> g(b)[k + 1]]
         /\ [b \in Agent |-> f[k].n[b] + Cardinality(PaidSeats(e, b))] = [b \in Agent |-> h(b)[k + 1]]
    BY <2>10, Zenon
  <2> QED BY <2>8, <2>11, Zenon
<1>9. N \in T
  <2> HIDE DEF T
  <2> QED BY <1>2, <1>7, <1>8, Induct
<1>10. f[N] = [pay |-> [b \in Agent |-> g(b)[N]], n |-> [b \in Agent |-> h(b)[N]]]
  BY <1>2, <1>9
<1>11. f[N].pay = [b \in Agent |-> g(b)[N]] /\ f[N].n = [b \in Agent |-> h(b)[N]]
  BY <1>10
<1> QED BY <1>4, <1>5, <1>11

\* Payoffs are numbers, averaged or not.
LEMMA FullTyped ==
  ASSUME NEW es, GameOK(asm.game), MetOK(es, asm.game.roles), NEW held \in [Agent -> Action], asm.agg \in {"sum", "mean"}
  PROVE  /\ Averaged(asm.agg, Whole(es, held)).pay \in [Agent -> Int]
         /\ \A b \in Agent : Averaged(asm.agg, Whole(es, held)).pay[b] =
              IF asm.agg = "mean" /\ Total(EachTime(es, b)) > 0
              THEN Total(EachPays(es, held, b)) \div Total(EachTime(es, b)) ELSE Total(EachPays(es, held, b))
<1>1. PICK acc : acc = Whole(es, held) /\ {"pay", "n"} \subseteq DOMAIN acc
  <2>1. PICK acts : acts = [i \in DOMAIN es |-> Seated(held, es[i])]
    OBVIOUS
  <2>2. PICK N \in Nat : N = Len(es) /\ IsLog(es)
    BY DEF MetOK, IsLog
  <2>3. PICK f : PlayedUpTo(f, NoPay, es, acts)
    BY <2>2, PlayedRun
  <2>4. {"pay", "n"} \subseteq DOMAIN f[N]
    <3>1. CASE N = 0
      BY <2>3, <3>1 DEF PlayedUpTo, NoPay
    <3>2. CASE N # 0
      <4>1. f[N] = Credit(f[N - 1], es[N], SeatPayoffs(asm.game, asm.play, acts[N]))
        BY <2>2, <2>3, <3>2 DEF PlayedUpTo
      <4> QED BY <4>1 DEF Credit
    <3> QED BY <3>1, <3>2
  <2> QED BY <2>1, <2>2, <2>3, <2>4 DEF PlayedUpTo, Whole
<1>2. ASSUME NEW b \in Agent
      PROVE  /\ acc.pay[b] = Total(EachPays(es, held, b)) /\ acc.pay[b] \in Int
             /\ acc.n[b] = Total(EachTime(es, b)) /\ acc.n[b] \in Nat
  <2>0. /\ acc.pay = [a \in Agent |-> Total(EachPays(es, held, a))]
        /\ acc.n = [a \in Agent |-> Total(EachTime(es, a))]
    BY <1>1, WholeIs, Zenon
  <2>1. acc.pay[b] = Total(EachPays(es, held, b)) /\ acc.n[b] = Total(EachTime(es, b))
    BY <2>0
  <2>2. /\ EachPays(es, held, b) \in Seq(Int) /\ EachTime(es, b) \in Seq(Int)
        /\ \A k \in 1 .. Len(EachTime(es, b)) : EachTime(es, b)[k] \in Nat
    BY EachTyped
  <2>3. Total(EachTime(es, b)) \in Nat
    BY <2>2, TotalNat
  <2> QED BY <2>1, <2>2, <2>3, TotalTyped
<1>3. CASE asm.agg = "sum"
  <2>1. Averaged(asm.agg, Whole(es, held)) = acc /\ acc.pay = [b \in Agent |-> Total(EachPays(es, held, b))]
    BY <1>1, <1>3, WholeIs DEF Averaged
  <2> QED BY <1>2, <1>3, <2>1
<1>4. CASE asm.agg = "mean"
  <2>1. PICK pay : pay = [a \in Agent |-> IF acc.n[a] = 0 THEN acc.pay[a] ELSE acc.pay[a] \div acc.n[a]]
    OBVIOUS
  <2>2. Averaged(asm.agg, Whole(es, held)) = [acc EXCEPT !.pay = pay]
    BY <1>1, <1>4, <2>1 DEF Averaged
  <2>3. Averaged(asm.agg, Whole(es, held)).pay = pay
    BY <1>1, <2>2
  <2>4. ASSUME NEW b \in Agent
        PROVE  /\ pay[b] \in Int
               /\ pay[b] = IF Total(EachTime(es, b)) > 0
                           THEN Total(EachPays(es, held, b)) \div Total(EachTime(es, b)) ELSE Total(EachPays(es, held, b))
    <3>1. PICK x \in Int, n \in Nat : x = acc.pay[b] /\ n = acc.n[b]
      BY <1>2
    <3>2. pay[b] = IF n = 0 THEN x ELSE x \div n
      BY <2>1, <3>1
    <3>3. pay[b] \in Int
      BY <3>1, <3>2
    <3>4. pay[b] = IF n > 0 THEN x \div n ELSE x
      BY <3>1, <3>2
    <3> QED BY <1>2, <3>1, <3>3, <3>4
  <2>5. pay = [b \in Agent |-> pay[b]]
    BY <2>1
  <2>6. pay \in [Agent -> Int]
    BY <2>4, <2>5
  <2> QED BY <1>4, <2>3, <2>4, <2>6
<1> QED BY <1>3, <1>4

-----------------------------------------------------------------------------
(* The payoffs of one agent alone *)

LEMMA TotalTwo ==
  ASSUME NEW s \in Seq(Int), Len(s) = 2
  PROVE  Total(s) = s[1] + s[2]
<1>1. PICK f : Sums(f, s) /\ Total(s) = f[2]
  BY TotalRun
<1>2. f[0] = 0 /\ f[1] = f[1 - 1] + s[1] /\ f[2] = f[2 - 1] + s[2]
  BY <1>1 DEF Sums
<1>3. 1 - 1 = 0 /\ 2 - 1 = 1 /\ s[1] \in Int /\ s[2] \in Int
  OBVIOUS
<1>4. f[1] = 0 + s[1] /\ f[2] = f[1] + s[2]
  BY <1>2, <1>3
<1> QED BY <1>1, <1>3, <1>4

LEMMA SeatSumPair ==
  ASSUME NEW pays \in [1 .. 2 -> Int]
  PROVE  SeatSum(pays, {}) = 0 /\ SeatSum(pays, {1}) = pays[1] /\ SeatSum(pays, {2}) = pays[2]
<1>1. ASSUME NEW seats
      PROVE  SeatSum(pays, seats) = (IF 1 \in seats THEN pays[1] ELSE 0) + (IF 2 \in seats THEN pays[2] ELSE 0)
  <2>1. PICK s : s = [r \in 1 .. 2 |-> IF r \in seats THEN pays[r] ELSE 0]
    OBVIOUS
  <2>2. s \in Seq(Int) /\ SeatSum(pays, seats) = Total(s)
    <3>1. PICK n \in Nat : n = 2
      OBVIOUS
    <3>2. pays \in [1 .. n -> Int] /\ s = [r \in 1 .. n |-> IF r \in seats THEN pays[r] ELSE 0]
      BY <2>1, <3>1
    <3> QED BY <3>2, SeatSumTyped
  <2>3. Len(s) = 2 /\ s[1] = (IF 1 \in seats THEN pays[1] ELSE 0) /\ s[2] = (IF 2 \in seats THEN pays[2] ELSE 0)
    BY <2>1
  <2> QED BY <2>2, <2>3, TotalTwo
<1>2. pays[1] \in Int /\ pays[2] \in Int
  OBVIOUS
<1>3. SeatSum(pays, {}) = 0 + 0 /\ SeatSum(pays, {1}) = pays[1] + 0 /\ SeatSum(pays, {2}) = 0 + pays[2]
  BY <1>1
<1> QED BY <1>2, <1>3

\* The positions in P, listed one after the other, and what is summed over them.
Sifted(r, P, N) ==
  /\ r \in [0 .. N -> Seq(1 .. N)] /\ r[0] = <<>>
  /\ \A k \in 1 .. N : r[k] = IF k \in P THEN Append(r[k - 1], k) ELSE r[k - 1]
Along(v, l) == [i \in 1 .. Len(l) |-> v[l[i]]]
Weighed(s, P, v) == \A k \in 1 .. Len(s) : s[k] = IF k \in P THEN Scale * v[k] ELSE 0
Counted(c, P)    == \A k \in 1 .. Len(c) : c[k] = IF k \in P THEN 1 ELSE 0

SiftedSums(N, v, P, r, s, c) ==
  /\ N \in Nat /\ v \in [1 .. N -> Int] /\ Sifted(r, P, N)
  /\ s \in Seq(Int) /\ Len(s) = N /\ Weighed(s, P, v)
  /\ c \in Seq(Int) /\ Len(c) = N /\ Counted(c, P)

LEMMA SiftedTotal ==
  ASSUME NEW N, NEW v, NEW P, NEW r, NEW s, NEW c, SiftedSums(N, v, P, r, s, c)
  PROVE  Total(s) = Scale * Total(Along(v, r[N])) /\ Total(c) = Len(r[N])
<1>0. /\ N \in Nat /\ v \in [1 .. N -> Int] /\ Sifted(r, P, N) /\ s \in Seq(Int) /\ c \in Seq(Int)
      /\ Len(s) = N /\ Len(c) = N /\ Weighed(s, P, v) /\ Counted(c, P)
  BY DEF SiftedSums
<1>1. PICK f : Sums(f, s) /\ Total(s) = f[N]
  BY <1>0, TotalRun
<1>2. PICK g : Sums(g, c) /\ Total(c) = g[N]
  BY <1>0, TotalRun
<1>3. ASSUME NEW l \in Seq(1 .. N) PROVE Along(v, l) \in Seq(Int)
  BY <1>0 DEF Along
<1>4. ASSUME NEW l \in Seq(1 .. N), NEW k \in 1 .. N
      PROVE  Total(Along(v, Append(l, k))) = Total(Along(v, l)) + v[k] /\ Total(Along(v, l)) \in Int
  <2>1. Along(v, Append(l, k)) = Along(v, l) \o <<v[k]>>
    <3>0. l \in Seq(1 .. N) /\ k \in 1 .. N /\ Len(l) \in Nat
      OBVIOUS
    <3>1. PICK m : m = Append(l, k) /\ Len(m) = Len(l) + 1 /\ m[Len(l) + 1] = k /\ \A i \in 1 .. Len(l) : m[i] = l[i]
      <4>1. IsLog(l)
        BY <3>0 DEF IsLog
      <4>2. /\ Len(Append(l, k)) = Len(l) + 1
            /\ Append(l, k)[Len(l) + 1] = k /\ \A i \in 1 .. Len(l) : Append(l, k)[i] = l[i]
        BY <4>1, AppendedLog
      <4>3. PICK m : m = Append(l, k)
        OBVIOUS
      <4> QED BY <4>2, <4>3
    <3>2. PICK w \in Seq(Int) : w = Along(v, l) /\ Len(w) = Len(l) /\ \A i \in 1 .. Len(l) : w[i] = v[l[i]]
      <4>1. Along(v, l) \in Seq(Int)
        BY <1>3
      <4>2. Len(Along(v, l)) = Len(l) /\ \A i \in 1 .. Len(l) : Along(v, l)[i] = v[l[i]]
        BY <3>0 DEF Along
      <4> QED BY <4>1, <4>2
    <3>3. PICK y \in Int : y = v[k]
      BY <1>0
    <3>4. w \o <<y>> = [i \in 1 .. Len(l) + 1 |-> IF i <= Len(l) THEN w[i] ELSE y]
      BY <3>0, <3>2, <3>3
    <3>5. \A i \in 1 .. Len(l) + 1 : v[m[i]] = IF i <= Len(l) THEN w[i] ELSE y
      BY <3>1, <3>2, <3>3
    <3>6. Along(v, m) = [i \in 1 .. Len(l) + 1 |-> IF i <= Len(l) THEN w[i] ELSE y]
      BY <3>1, <3>5 DEF Along
    <3> QED BY <3>1, <3>2, <3>3, <3>4, <3>6
  <2>2. Along(v, l) \in Seq(Int) /\ <<v[k]>> \in Seq(Int) /\ v[k] \in Int
    BY <1>0, <1>3
  <2> QED BY <2>1, <2>2, TotalJoin, TotalOne, TotalTyped
<1> DEFINE T == {k \in Nat : k <= N => f[k] = 6 * Total(Along(v, r[k])) /\ g[k] = Len(r[k])}
<1>5. 0 \in T
  <2>1. f[0] = 0 /\ g[0] = 0 /\ r[0] = <<>>
    BY <1>0, <1>1, <1>2 DEF Sums, Sifted
  <2>2. Along(v, <<>>) = <<>>
    BY DEF Along
  <2> QED BY <2>1, <2>2, TotalEmpty
<1>6. ASSUME NEW k \in Nat, k \in T PROVE k + 1 \in T
  <2>1. (k + 1) - 1 = k
    OBVIOUS
  <2>2. SUFFICES ASSUME k + 1 <= N PROVE f[k + 1] = 6 * Total(Along(v, r[k + 1])) /\ g[k + 1] = Len(r[k + 1])
    OBVIOUS
  <2>3. k + 1 \in 1 .. N /\ k \in 0 .. N /\ f[k] = 6 * Total(Along(v, r[k])) /\ g[k] = Len(r[k])
    <3>1. k + 1 \in 1 .. N /\ k \in 0 .. N /\ k <= N
      BY <1>0, <2>2
    <3> QED BY <1>6, <3>1
  <2>4. PICK l \in Seq(1 .. N) : l = r[k]
    BY <1>0, <2>3 DEF Sifted
  <2>5. /\ f[k + 1] = f[k] + s[k + 1] /\ g[k + 1] = g[k] + c[k + 1]
        /\ r[k + 1] = IF k + 1 \in P THEN Append(l, k + 1) ELSE l
    BY <1>0, <1>1, <1>2, <2>1, <2>3, <2>4 DEF Sums, Sifted
  <2>6. s[k + 1] = (IF k + 1 \in P THEN 6 * v[k + 1] ELSE 0) /\ c[k + 1] = IF k + 1 \in P THEN 1 ELSE 0
    BY <1>0, <2>3 DEF Weighed, Counted, Scale
  <2>7. PICK x \in Int, y \in Int : x = Total(Along(v, l)) /\ y = v[k + 1]
    BY <1>0, <1>4, <2>3
  <2>8. Len(l) \in Nat /\ Len(Append(l, k + 1)) = Len(l) + 1
    OBVIOUS
  <2>9. CASE k + 1 \in P
    <3>1. f[k + 1] = 6 * x + 6 * y /\ r[k + 1] = Append(l, k + 1) /\ g[k + 1] = Len(l) + 1
      BY <2>3, <2>4, <2>5, <2>6, <2>7, <2>9
    <3>2. Total(Along(v, r[k + 1])) = x + y
      BY <1>4, <2>3, <2>7, <3>1
    <3> QED BY <2>8, <3>1, <3>2
  <2>10. CASE k + 1 \notin P
    <3>1. f[k + 1] = 6 * x + 0 /\ r[k + 1] = l /\ g[k + 1] = Len(l) + 0
      BY <2>3, <2>4, <2>5, <2>6, <2>7, <2>10
    <3> QED BY <2>7, <2>8, <3>1
  <2> QED BY <2>9, <2>10
<1>7. N \in T
  <2> HIDE DEF T
  <2> QED BY <1>0, <1>5, <1>6, Induct
<1> QED BY <1>0, <1>1, <1>2, <1>7 DEF Scale

EdgesAt(top, a, N) == {e \in 1 .. N : a \in {top.edges[e][1], top.edges[e][2]}}
HasEdges(top, N)       == N \in Nat /\ N = Len(top.edges)
SiftedAs(l, top, a, N) == \E r : Sifted(r, EdgesAt(top, a, N), N) /\ l = r[N]
LEMMA IncidentRun ==
  ASSUME NEW top, NEW N, HasEdges(top, N), NEW a
  PROVE  SiftedAs(Incident(top, a), top, a, N)
<1> DEFINE P == {e \in 1 .. N : a \in {top.edges[e][1], top.edges[e][2]}}
           V == Seq(1 .. N)
           F == [k \in 1 .. N |-> [l \in V |-> IF k \in P THEN Append(l, k) ELSE l]]
           Is(f) == f = [e \in 0 .. N |-> IF e = 0 THEN <<>>
                                          ELSE IF a \in {top.edges[e][1], top.edges[e][2]}
                                               THEN Append(f[e - 1], e) ELSE f[e - 1]]
           run == CHOOSE f : Is(f)
<1>0. N \in Nat
  BY DEF HasEdges
<1>1. Incident(top, a) = run[N]
  BY DEF Incident, HasEdges
<1>2. \A e \in 1 .. N : a \in {top.edges[e][1], top.edges[e][2]} <=> e \in P
  OBVIOUS
<1>3. <<>> \in V /\ \A l \in V, k \in 1 .. N : Append(l, k) \in V
  OBVIOUS
<1> HIDE DEF P, V
<1>4. PICK g : RunOf(g, N, V, <<>>, F)
  <2>1. Machine(N, V, <<>>, F)
    BY <1>0, <1>3 DEF Machine
  <2> HIDE DEF F
  <2> QED BY <2>1, Recursion
<1>5. /\ g \in [0 .. N -> V] /\ g[0] = <<>>
      /\ \A k \in 1 .. N : g[k] = IF k \in P THEN Append(g[k - 1], k) ELSE g[k - 1]
  <2>1. g \in [0 .. N -> V] /\ g[0] = <<>> /\ \A k \in 1 .. N : g[k] = F[k][g[k - 1]]
    BY <1>4 DEF RunOf
  <2>2. ASSUME NEW k \in 1 .. N PROVE g[k] = IF k \in P THEN Append(g[k - 1], k) ELSE g[k - 1]
    <3>1. k - 1 \in 0 .. N
      BY <1>0
    <3>2. g[k - 1] \in V
      BY <2>1, <3>1
    <3>3. F[k][g[k - 1]] = IF k \in P THEN Append(g[k - 1], k) ELSE g[k - 1]
      BY <3>2
    <3> QED BY <2>1, <3>3
  <2> QED BY <2>1, <2>2
<1>6. Is(g)
  <2>1. g = [e \in 0 .. N |-> g[e]]
    BY <1>5
  <2>2. \A e \in 0 .. N : g[e] = IF e = 0 THEN <<>>
                                 ELSE IF a \in {top.edges[e][1], top.edges[e][2]} THEN Append(g[e - 1], e) ELSE g[e - 1]
    <3>1. \A e \in 0 .. N : e = 0 \/ e \in 1 .. N
      OBVIOUS
    <3> QED BY <1>2, <1>5, <3>1
  <2> QED BY <2>1, <2>2
<1>7. Is(run)
  <2> HIDE DEF Is
  <2> QED BY <1>6, Zenon
<1> HIDE DEF run
<1>8. run[0] = <<>> /\ \A k \in 1 .. N : run[k] = IF k \in P THEN Append(run[k - 1], k) ELSE run[k - 1]
  <2>1. \A e \in 0 .. N : run[e] = IF e = 0 THEN <<>>
                                   ELSE IF a \in {top.edges[e][1], top.edges[e][2]}
                                        THEN Append(run[e - 1], e) ELSE run[e - 1]
    BY <1>7
  <2>2. 0 \in 0 .. N /\ \A k \in 1 .. N : k \in 0 .. N /\ k # 0
    BY <1>0
  <2> QED BY <1>2, <2>1, <2>2
<1> DEFINE T == {n \in Nat : n <= N => run[n] = g[n]}
<1>9. 0 \in T
  BY <1>5, <1>8
<1>10. ASSUME NEW n \in Nat, n \in T PROVE n + 1 \in T
  <2>1. (n + 1) - 1 = n
    OBVIOUS
  <2>2. ASSUME n + 1 <= N PROVE run[n + 1] = g[n + 1]
    <3>1. n + 1 \in 1 .. N /\ run[n] = g[n]
      BY <1>0, <1>10, <2>2
    <3> QED BY <1>5, <1>8, <2>1, <3>1
  <2> QED BY <2>2
<1>11. N \in T
  <2> HIDE DEF T
  <2> QED BY <1>0, <1>9, <1>10, Induct
<1>12. Sifted(g, P, N)
  BY <1>5 DEF Sifted, V
<1>13. Incident(top, a) = g[N]
  <2>1. N <= N
    BY <1>0
  <2> QED BY <1>1, <1>11, <2>1
<1> HIDE DEF T
<1> QED BY <1>12, <1>13 DEF P, EdgesAt, SiftedAs

\* The encounters of an implicit matching are given, so there is one full play.
LEMMA OneList ==
  ASSUME NEW m, NEW top, Implicit(m)
  PROVE  \E l : Encounters(m, top) = {l}
<1>1. CASE m.kind = "net"
  BY <1>1 DEF Encounters
<1>2. CASE m.kind = "grid"
  BY <1>2 DEF Encounters
<1>3. CASE m.kind = "whole"
  BY <1>3 DEF Encounters
<1> QED BY <1>1, <1>2, <1>3 DEF Implicit

LEMMA FullIs ==
  ASSUME NEW held, Implicit(asm.matching), NEW es \in Encounters(asm.matching, asm.top)
  PROVE  FullPay(asm, held) = Averaged(asm.agg, Whole(es, held)).pay
<1>1. PICK l : Encounters(asm.matching, asm.top) = {l}
  BY OneList
<1>2. (CHOOSE x \in Encounters(asm.matching, asm.top) : TRUE) = es
  BY <1>1
<1> DEFINE ch == CHOOSE x \in Encounters(asm.matching, asm.top) : TRUE
<1>3. FullPay(asm, held) = Averaged(asm.agg, Played(NoPay, asm.game, asm.play, ch, [i \in DOMAIN ch |-> Seated(held, ch[i])])).pay
  BY DEF FullPay, ImplicitPayoffs, ImplicitFrom
<1>4. ch = es
  BY <1>2
<1> HIDE DEF ch
<1> QED BY <1>3, <1>4 DEF Whole

\* What assembly and the matchings promise of the assembly of the run.
AsmOK ==
  /\ GameOK(asm.game) /\ asm.agg \in {"sum", "mean"} /\ ValidNetwork(asm.top)
  /\ asm.top.nbrs \in [Agent -> Seq(Agent)] /\ asm.top.edges \in Seq(Agent \X Agent)
  /\ \A es \in Encounters(asm.matching, asm.top) : MetOK(es, asm.game.roles)

LEMMA AsmIs ==
  ASSUME asm \in Assemblies, Accepted(asm)
  PROVE  AsmOK
<1>1. asm.game.roles \in Nat \ {0} /\ asm.game.pay \in [Action -> [0 .. asm.game.roles - 1 -> Int]]
  BY AssemblyAssumption
<1>2. /\ asm.agg \in {"sum", "mean"} /\ asm.top.nbrs \in [Agent -> Seq(Agent)] /\ asm.top.edges \in Seq(Agent \X Agent)
  BY AssemblyAssumption
<1>3. ASSUME NEW es \in Encounters(asm.matching, asm.top) PROVE MetOK(es, asm.game.roles)
  BY AssemblyAssumption DEF MetOK
<1>4. ValidNetwork(asm.top)
  BY DEF Accepted
<1> QED BY <1>1, <1>2, <1>3, <1>4 DEF AsmOK, GameOK

\* On the edges of a network an agent is paid at its own edges, once at each.
LEMMA NetAlone ==
  ASSUME AsmOK, asm.matching.kind = "net", asm.game.roles = 2, NEW held \in [Agent -> Action], NEW b \in Agent
  PROVE  /\ LocalPayoff(asm.game, asm.play, asm.agg, asm.matching, asm.top, held, b) = FullPay(asm, held)[b]
         /\ \A l \in Encounters(asm.matching, asm.top) : Total(EachTime(l, b)) = Len(Incident(asm.top, b))
<1>0. PICK edges \in Seq(Agent \X Agent), N \in Nat : edges = asm.top.edges /\ N = Len(edges)
  BY DEF AsmOK
<1> DEFINE es == [e \in DOMAIN edges |-> Meet(edges[e])]
           P == {e \in 1 .. N : b \in {edges[e][1], edges[e][2]}}
           role(e) == IF edges[e][2] = b THEN 2 ELSE 1
           v == [e \in 1 .. N |-> SeatPayoffs(asm.game, asm.play, Seated(held, es[e]))[role(e)]]
<1>1. /\ N \in Nat /\ DOMAIN edges = 1 .. N /\ \A e \in 1 .. N : edges[e] \in Agent \X Agent /\ edges[e][1] # edges[e][2]
      /\ DOMAIN es = 1 .. N /\ Len(es) = N
  BY <1>0 DEF AsmOK, ValidNetwork
<1>2. Implicit(asm.matching) /\ es \in Encounters(asm.matching, asm.top) /\ Encounters(asm.matching, asm.top) = {es}
  BY <1>0 DEF Implicit, Encounters
<1>3. MetOK(es, asm.game.roles) /\ GameOK(asm.game) /\ asm.agg \in {"sum", "mean"}
  BY <1>2 DEF AsmOK
<1>4. ASSUME NEW e \in 1 .. N
      PROVE  /\ es[e].seats = edges[e] /\ es[e].credit = "all"
             /\ SeatPayoffs(asm.game, asm.play, Seated(held, es[e])) \in [1 .. 2 -> Int]
             /\ PaidSeats(es[e], b) = IF e \in P THEN {role(e)} ELSE {}
  <2>1. PICK x, y : x \in Agent /\ y \in Agent /\ edges[e] = <<x, y>> /\ x # y
    BY <1>1
  <2>2. es[e].seats = <<x, y>> /\ es[e].credit = "all"
    BY <1>1, <2>1 DEF Meet
  <2>3. PaidSeats(es[e], b) = {r \in 1 .. 2 : <<x, y>>[r] = b}
    <3> HIDE DEF es
    <3>1. DOMAIN es[e].seats = 1 .. 2 /\ Credited(es[e]) = 1 .. 2
      <4>1. PICK f : f = es[e]
        OBVIOUS
      <4> QED BY <2>2, <4>1 DEF Credited
    <3> QED BY <2>2, <3>1 DEF PaidSeats
  <2>4. SeatPayoffs(asm.game, asm.play, Seated(held, es[e])) \in [1 .. 2 -> Int]
    <3>1. es[e] \in Encounter /\ Len(es[e].seats) = 2
      <4> HIDE DEF es
      <4>1. DOMAIN es = 1 .. N /\ Len(es) = N
        BY <1>1
      <4>2. es \in Seq(Encounter) /\ \A i \in DOMAIN es : Len(es[i].seats) = 2
        BY <1>3 DEF MetOK
      <4>3. es[e] \in Encounter
        BY <4>1, <4>2
      <4> QED BY <4>1, <4>2, <4>3
    <3>2. PICK n \in Nat : n = 2
      OBVIOUS
    <3>3. Seated(held, es[e]) \in [1 .. n -> Action]
      BY <3>1, <3>2, SeatedTyped
    <3> QED BY <1>3, <3>2, <3>3, PaysTyped
  <2>5. PaidSeats(es[e], b) = IF e \in P THEN {role(e)} ELSE {}
    <3>1. (e \in P <=> b \in {x, y}) /\ role(e) = IF y = b THEN 2 ELSE 1
      BY <2>1
    <3>2. {q \in 1 .. 2 : <<x, y>>[q] = b} = IF b \in {x, y} THEN {IF y = b THEN 2 ELSE 1} ELSE {}
      BY <2>1
    <3> HIDE DEF P, role, es
    <3> QED BY <2>3, <3>1, <3>2
  <2> QED BY <2>1, <2>2, <2>4, <2>5
<1>5. v \in [1 .. N -> Int]
  <2>1. \A e \in 1 .. N : role(e) \in 1 .. 2
    OBVIOUS
  <2> HIDE DEF role, es
  <2> QED BY <1>4, <2>1
<1>6. PICK r : Sifted(r, P, N) /\ Incident(asm.top, b) = r[N]
  <2>1. PICK top : top = asm.top
    OBVIOUS
  <2>2. HasEdges(top, N)
    BY <1>0, <2>1 DEF HasEdges
  <2>3. PICK r : Sifted(r, EdgesAt(top, b, N), N) /\ Incident(top, b) = r[N]
    <3>1. SiftedAs(Incident(top, b), top, b, N)
      BY <2>2, IncidentRun
    <3> QED BY <3>1 DEF SiftedAs
  <2>4. P = EdgesAt(top, b, N)
    BY <1>0, <2>1 DEF EdgesAt
  <2> HIDE DEF P
  <2> QED BY <2>1, <2>3, <2>4
<1>7. PICK s : s = EachPays(es, held, b)
  OBVIOUS
<1>8. PICK c : c = EachTime(es, b)
  OBVIOUS
<1>9. s \in Seq(Int) /\ Len(s) = N /\ c \in Seq(Int) /\ Len(c) = N
  <2> HIDE DEF es
  <2> QED BY <1>1, <1>3, <1>7, <1>8, EachTyped
<1>10. Weighed(s, P, v)
  <2>1. ASSUME NEW e \in 1 .. N PROVE s[e] = IF e \in P THEN Scale * v[e] ELSE 0
    <3>1. PICK pays \in [1 .. 2 -> Int] : pays = SeatPayoffs(asm.game, asm.play, Seated(held, es[e]))
      BY <1>4
    <3>2. s[e] = Scale * SeatSum(pays, PaidSeats(es[e], b))
      BY <1>1, <1>7, <3>1 DEF EachPays
    <3>3. v[e] = pays[role(e)]
      BY <3>1
    <3>4. SeatSum(pays, {}) = 0 /\ SeatSum(pays, {role(e)}) = pays[role(e)]
      BY SeatSumPair
    <3> HIDE DEF v, P, role
    <3>5. CASE e \in P
      BY <1>4, <3>2, <3>3, <3>4, <3>5
    <3>6. CASE e \notin P
      <4>1. PaidSeats(es[e], b) = {}
        BY <1>4, <3>6
      <4>2. s[e] = Scale * 0
        BY <3>2, <3>4, <4>1
      <4> QED BY <3>6, <4>2 DEF Scale
    <3> QED BY <3>5, <3>6
  <2> QED BY <1>9, <2>1 DEF Weighed
<1>11. Counted(c, P)
  <2>1. ASSUME NEW e \in 1 .. N PROVE c[e] = IF e \in P THEN 1 ELSE 0
    <3>1. c[e] = Cardinality(PaidSeats(es[e], b))
      BY <1>1, <1>8 DEF EachTime
    <3>2. Cardinality({role(e)}) = 1 /\ Cardinality({}) = 0
      BY FS_Singleton, FS_EmptySet
    <3>3. PaidSeats(es[e], b) = IF e \in P THEN {role(e)} ELSE {}
      BY <1>4
    <3> HIDE DEF P, role, es
    <3> QED BY <3>1, <3>2, <3>3
  <2> QED BY <1>9, <2>1 DEF Counted
<1>12. PICK l \in Seq(1 .. N) : l = r[N]
  BY <1>1, <1>6 DEF Sifted
<1>13. /\ Total(EachPays(es, held, b)) = Scale * Total(Along(v, l)) /\ Total(EachTime(es, b)) = Len(l)
  <2> HIDE DEF v, P, es
  <2>1. Total(s) = Scale * Total(Along(v, r[N])) /\ Total(c) = Len(r[N])
    <3>0. PICK w, Q : w = v /\ Q = P
      OBVIOUS
    <3>1. Sifted(r, Q, N) /\ w \in [1 .. N -> Int] /\ Weighed(s, Q, w) /\ Counted(c, Q)
      BY <1>5, <1>6, <1>10, <1>11, <3>0
    <3>2. Len(s) = N /\ Len(c) = N /\ s \in Seq(Int) /\ c \in Seq(Int)
      BY <1>9
    <3>3. SiftedSums(N, w, Q, r, s, c)
      BY <1>0, <3>1, <3>2 DEF SiftedSums
    <3>4. Total(s) = Scale * Total(Along(w, r[N])) /\ Total(c) = Len(r[N])
      BY <3>3, SiftedTotal
    <3> QED BY <3>0, <3>4
  <2> QED BY <1>7, <1>8, <1>12, <2>1
<1>14. LocalPayoff(asm.game, asm.play, asm.agg, asm.matching, asm.top, held, b)
       = IF asm.agg = "mean" /\ Len(l) > 0 THEN (Scale * Total(Along(v, l))) \div Len(l) ELSE Scale * Total(Along(v, l))
  <2>1. PICK les : les = [i \in 1 .. Len(l) |-> [seats |-> edges[l[i]], role |-> role(l[i])]]
    OBVIOUS
  <2>2. LocalEncounters(asm.matching, asm.top, b) = les
    BY <1>0, <1>6, <1>12, <2>1 DEF LocalEncounters
  <2>3. Len(les) = Len(l) /\ DOMAIN les = 1 .. Len(l)
    BY <2>1
  <2>4. ASSUME NEW i \in 1 .. Len(l)
        PROVE  SeatPayoffs(asm.game, asm.play, Seated(held, les[i]))[les[i].role] = v[l[i]]
    <3>1. PICK e \in 1 .. N : e = l[i]
      OBVIOUS
    <3>2. les[i].seats = edges[e] /\ les[i].role = role(e)
      BY <2>1, <3>1
    <3>3. Seated(held, les[i]) = Seated(held, es[e])
      <4>1. les[i].seats = es[e].seats
        BY <1>4, <3>2
      <4> QED BY <4>1 DEF Seated
    <3> QED BY <3>1, <3>2, <3>3
  <2>5. [i \in DOMAIN les |-> SeatPayoffs(asm.game, asm.play, Seated(held, les[i]))[les[i].role]] = Along(v, l)
    <3> HIDE DEF v
    <3> QED BY <2>3, <2>4 DEF Along
  <2> HIDE DEF v
  <2> QED BY <2>2, <2>3, <2>5 DEF LocalPayoff
<1> HIDE DEF v, es, P, role
<1>15. FullPay(asm, held)[b] = IF asm.agg = "mean" /\ Len(l) > 0 THEN (Scale * Total(Along(v, l))) \div Len(l)
                               ELSE Scale * Total(Along(v, l))
  <2>1. FullPay(asm, held) = Averaged(asm.agg, Whole(es, held)).pay
    BY <1>2, FullIs
  <2> QED BY <1>3, <1>13, <2>1, FullTyped
<1>16. Total(EachTime(es, b)) = Len(Incident(asm.top, b))
  BY <1>6, <1>12, <1>13
<1> QED BY <1>2, <1>14, <1>15, <1>16

\* What one list of encounters after another pays.
LEMMA EachJoined ==
  ASSUME AsmOK, NEW held \in [Agent -> Action], NEW b,
         NEW l, MetOK(l, asm.game.roles), NEW m, MetOK(m, asm.game.roles)
  PROVE  /\ MetOK(l \o m, asm.game.roles)
         /\ Total(EachPays(l \o m, held, b)) = Total(EachPays(l, held, b)) + Total(EachPays(m, held, b))
         /\ Total(EachTime(l \o m, b)) = Total(EachTime(l, b)) + Total(EachTime(m, b))
<1>1. l \in Seq(Encounter) /\ m \in Seq(Encounter) /\ GameOK(asm.game)
  BY DEF MetOK, AsmOK
<1>2. PICK p \in Nat, q \in Nat, u \in Seq(Encounter) : p = Len(l) /\ q = Len(m) /\ u = l \o m
  <2>1. Len(l) \in Nat /\ Len(m) \in Nat /\ l \o m \in Seq(Encounter)
    BY <1>1
  <2> QED BY <2>1
<1>3. Len(u) = p + q /\ \A k \in 1 .. p + q : u[k] = IF k <= p THEN l[k] ELSE m[k - p]
  BY <1>1, <1>2
<1>4. MetOK(u, asm.game.roles)
  <2>1. ASSUME NEW k \in 1 .. p + q PROVE Len(u[k].seats) = asm.game.roles
    <3>1. CASE k <= p
      BY <1>2, <1>3, <3>1 DEF MetOK
    <3>2. CASE ~(k <= p)
      <4>1. k - p \in 1 .. q
        BY <1>2, <3>2
      <4>2. u[k] = m[k - p]
        BY <1>3, <3>2
      <4>3. Len(m[k - p].seats) = asm.game.roles
        <5>1. DOMAIN m = 1 .. q
          BY <1>1, <1>2
        <5> QED BY <4>1, <5>1 DEF MetOK
      <4> QED BY <4>2, <4>3
    <3> QED BY <3>1, <3>2
  <2>2. DOMAIN u = 1 .. p + q
    BY <1>2, <1>3
  <2> QED BY <1>2, <2>1, <2>2 DEF MetOK
<1>5. /\ EachPays(l, held, b) \in Seq(Int) /\ Len(EachPays(l, held, b)) = p
      /\ EachPays(m, held, b) \in Seq(Int) /\ Len(EachPays(m, held, b)) = q
      /\ EachTime(l, b) \in Seq(Int) /\ Len(EachTime(l, b)) = p
      /\ EachTime(m, b) \in Seq(Int) /\ Len(EachTime(m, b)) = q
      /\ EachPays(u, held, b) \in Seq(Int) /\ Len(EachPays(u, held, b)) = p + q
      /\ EachTime(u, b) \in Seq(Int) /\ Len(EachTime(u, b)) = p + q
  BY <1>1, <1>2, <1>3, <1>4, EachTyped
<1>6. ASSUME NEW k \in 1 .. p + q
      PROVE  /\ EachPays(u, held, b)[k] = IF k <= p THEN EachPays(l, held, b)[k] ELSE EachPays(m, held, b)[k - p]
             /\ EachTime(u, b)[k] = IF k <= p THEN EachTime(l, b)[k] ELSE EachTime(m, b)[k - p]
  <2>1. CASE k <= p
    <3>1. k \in 1 .. p /\ u[k] = l[k]
      BY <1>2, <1>3, <2>1
    <3> QED BY <1>2, <1>3, <2>1, <3>1 DEF EachPays, EachTime
  <2>2. CASE ~(k <= p)
    <3>1. k - p \in 1 .. q /\ u[k] = m[k - p]
      BY <1>2, <1>3, <2>2
    <3> QED BY <1>2, <1>3, <2>2, <3>1 DEF EachPays, EachTime
  <2> QED BY <2>1, <2>2
<1>7. ASSUME NEW x \in Seq(Int), NEW y \in Seq(Int), NEW z \in Seq(Int), Len(x) = p, Len(y) = q, Len(z) = p + q,
             \A k \in 1 .. p + q : z[k] = IF k <= p THEN x[k] ELSE y[k - p]
      PROVE  Total(z) = Total(x) + Total(y)
  <2>0. /\ x \o y \in Seq(Int) /\ Len(x \o y) = p + q
        /\ \A k \in 1 .. p + q : (x \o y)[k] = IF k <= p THEN x[k] ELSE y[k - p]
    <3>1. /\ x \o y \in Seq(Int) /\ Len(x \o y) = Len(x) + Len(y)
          /\ \A k \in 1 .. Len(x) + Len(y) : (x \o y)[k] = IF k <= Len(x) THEN x[k] ELSE y[k - Len(x)]
      OBVIOUS
    <3> QED BY <1>7, <3>1
  <2>1. PICK w \in Seq(Int) : w = x \o y
    BY <2>0
  <2>2. Len(w) = p + q /\ \A k \in 1 .. p + q : w[k] = IF k <= p THEN x[k] ELSE y[k - p]
    BY <2>0, <2>1
  <2>3. w = [k \in 1 .. p + q |-> w[k]]
    BY <2>2
  <2>4. z = [k \in 1 .. p + q |-> z[k]]
    BY <1>7
  <2>5. \A k \in 1 .. p + q : z[k] = w[k]
    BY <1>7, <2>2
  <2>6. z = w
    BY <2>3, <2>4, <2>5
  <2> QED BY <2>1, <2>6, TotalJoin
<1>8. Total(EachPays(u, held, b)) = Total(EachPays(l, held, b)) + Total(EachPays(m, held, b))
  <2>1. PICK x \in Seq(Int), y \in Seq(Int), z \in Seq(Int) :
          x = EachPays(l, held, b) /\ y = EachPays(m, held, b) /\ z = EachPays(u, held, b)
    BY <1>5
  <2>2. Len(x) = p /\ Len(y) = q /\ Len(z) = p + q /\ \A k \in 1 .. p + q : z[k] = IF k <= p THEN x[k] ELSE y[k - p]
    BY <1>5, <1>6, <2>1
  <2>3. Total(z) = Total(x) + Total(y)
    BY <1>7, <2>2
  <2> QED BY <2>1, <2>3
<1>9. Total(EachTime(u, b)) = Total(EachTime(l, b)) + Total(EachTime(m, b))
  <2>1. PICK x \in Seq(Int), y \in Seq(Int), z \in Seq(Int) :
          x = EachTime(l, b) /\ y = EachTime(m, b) /\ z = EachTime(u, b)
    BY <1>5
  <2>2. Len(x) = p /\ Len(y) = q /\ Len(z) = p + q /\ \A k \in 1 .. p + q : z[k] = IF k <= p THEN x[k] ELSE y[k - p]
    BY <1>5, <1>6, <2>1
  <2>3. Total(z) = Total(x) + Total(y)
    BY <1>7, <2>2
  <2> QED BY <2>1, <2>3
<1> QED BY <1>2, <1>4, <1>8, <1>9

LEMMA EachNone ==
  ASSUME NEW held, NEW b
  PROVE  Total(EachPays(<<>>, held, b)) = 0 /\ Total(EachTime(<<>>, b)) = 0
<1>1. EachPays(<<>>, held, b) = <<>> /\ EachTime(<<>>, b) = <<>>
  BY DEF EachPays, EachTime
<1> QED BY <1>1, TotalEmpty

\* The encounters around the first k centres.
RowsUpTo(R, top, self) ==
  /\ R \in [0 .. NAgents -> Seq(Encounter)] /\ R[0] = <<>>
  /\ \A a \in Agent : R[a] = R[a - 1] \o AroundCentre(top, self, a)
RowsAs(l, top, self) == \E R : RowsUpTo(R, top, self) /\ l = R[NAgents]
RowTyped(top, self) == \A a \in Agent : AroundCentre(top, self, a) \in Seq(Encounter)

LEMMA RowsRun ==
  ASSUME NEW top, NEW self, RowTyped(top, self)
  PROVE  RowsAs(AroundCentres(top, self), top, self)
<1> DEFINE N == NAgents
           V == Seq(Encounter)
           row(a) == AroundCentre(top, self, a)
           F == [k \in 1 .. N |-> [l \in V |-> l \o row(k)]]
           Is(f) == f = [a \in 0 .. N |-> IF a = 0 THEN <<>> ELSE f[a - 1] \o row(a)]
           run == CHOOSE f : Is(f)
<1>0. N \in Nat \ {0} /\ Agent = 1 .. N
  BY NAgentsAssumption DEF Agent
<1>1. AroundCentres(top, self) = run[N]
  BY DEF AroundCentres
<1>2. \A k \in 1 .. N : row(k) \in V
  BY <1>0 DEF RowTyped
<1>3. <<>> \in V /\ \A l \in V, m \in V : l \o m \in V
  OBVIOUS
<1> HIDE DEF V, N, row
<1>4. PICK g : RunOf(g, N, V, <<>>, F)
  <2>1. Machine(N, V, <<>>, F)
    BY <1>0, <1>2, <1>3 DEF Machine
  <2> HIDE DEF F
  <2> QED BY <2>1, Recursion
<1>5. /\ g \in [0 .. N -> V] /\ g[0] = <<>> /\ \A k \in 1 .. N : g[k] = g[k - 1] \o row(k)
  <2>1. g \in [0 .. N -> V] /\ g[0] = <<>> /\ \A k \in 1 .. N : g[k] = F[k][g[k - 1]]
    BY <1>4 DEF RunOf
  <2>2. ASSUME NEW k \in 1 .. N PROVE g[k] = g[k - 1] \o row(k)
    <3>1. k - 1 \in 0 .. N
      BY <1>0
    <3>2. g[k - 1] \in V
      BY <2>1, <3>1
    <3>3. F[k][g[k - 1]] = g[k - 1] \o row(k)
      BY <3>2
    <3> QED BY <2>1, <3>3
  <2> QED BY <2>1, <2>2
<1>6. Is(g)
  <2>1. g = [a \in 0 .. N |-> g[a]]
    BY <1>5
  <2>2. \A a \in 0 .. N : g[a] = IF a = 0 THEN <<>> ELSE g[a - 1] \o row(a)
    <3>1. \A a \in 0 .. N : a = 0 \/ a \in 1 .. N
      BY <1>0
    <3> QED BY <1>5, <3>1
  <2> QED BY <2>1, <2>2
<1>7. Is(run)
  <2> HIDE DEF Is
  <2> QED BY <1>6, Zenon
<1> HIDE DEF run
<1>8. run[0] = <<>> /\ \A k \in 1 .. N : run[k] = run[k - 1] \o row(k)
  <2>1. \A a \in 0 .. N : run[a] = IF a = 0 THEN <<>> ELSE run[a - 1] \o row(a)
    BY <1>7
  <2>2. 0 \in 0 .. N /\ \A k \in 1 .. N : k \in 0 .. N /\ k # 0
    BY <1>0
  <2> QED BY <2>1, <2>2
<1> DEFINE T == {n \in Nat : n <= N => run[n] = g[n]}
<1>9. 0 \in T
  BY <1>5, <1>8
<1>10. ASSUME NEW n \in Nat, n \in T PROVE n + 1 \in T
  <2>1. (n + 1) - 1 = n
    OBVIOUS
  <2>2. ASSUME n + 1 <= N PROVE run[n + 1] = g[n + 1]
    <3>1. n + 1 \in 1 .. N /\ run[n] = g[n]
      BY <1>0, <1>10, <2>2
    <3> QED BY <1>5, <1>8, <2>1, <3>1
  <2> QED BY <2>2
<1>11. N \in T
  <2> HIDE DEF T
  <2> QED BY <1>0, <1>9, <1>10, Induct
<1>12. run[N] = g[N]
  <2>1. N <= N
    BY <1>0
  <2> QED BY <1>11, <2>1
<1>13. RowsUpTo(g, top, self)
  BY <1>0, <1>5 DEF RowsUpTo, V, row, N
<1> HIDE DEF T
<1> QED BY <1>1, <1>12, <1>13 DEF RowsAs, N

\* A grid's encounters, around one centre after the other.
KnownAgents(top) == top.nbrs \in [Agent -> Seq(Agent)]
LEMMA RowIs ==
  ASSUME NEW top, KnownAgents(top), NEW self, NEW a \in Agent
  PROVE  /\ MetOK(AroundCentre(top, self, a), 2)
         /\ \A k \in 1 .. Len(AroundCentre(top, self, a)) :
              \E x \in Agent : AroundCentre(top, self, a)[k] = Centre(a, x)
<1>1. PICK N \in Nat, s \in Seq(Agent) : s = top.nbrs[a] /\ N = Len(s)
  BY DEF KnownAgents
<1>2. PICK l : l = [i \in 1 .. N |-> Centre(a, s[i])]
  OBVIOUS
<1>3. ASSUME NEW x \in Agent
      PROVE  Centre(a, x) \in Encounter /\ Len(Centre(a, x).seats) = 2
  BY DEF Centre, Encounter
<1>4. l \in Seq(Encounter) /\ Len(l) = N
  BY <1>1, <1>2, <1>3
<1>5. PICK r : r = (IF self THEN <<Centre(a, a)>> ELSE <<>>)
  OBVIOUS
<1>6. r \in Seq(Encounter) /\ Len(r) \in Nat /\ \A k \in 1 .. Len(r) : r[k] = Centre(a, a)
  BY <1>3, <1>5
<1>7. AroundCentre(top, self, a) = l \o r
  BY <1>1, <1>2, <1>5 DEF AroundCentre
<1>8. PICK u : u = l \o r
  OBVIOUS
<1>9. /\ u \in Seq(Encounter) /\ Len(u) = N + Len(r)
      /\ \A k \in 1 .. N + Len(r) : u[k] = IF k <= N THEN l[k] ELSE r[k - N]
  <2>1. /\ l \o r \in Seq(Encounter) /\ Len(l \o r) = Len(l) + Len(r)
        /\ \A k \in 1 .. Len(l) + Len(r) : (l \o r)[k] = IF k <= Len(l) THEN l[k] ELSE r[k - Len(l)]
    BY <1>4, <1>6
  <2> QED BY <1>4, <1>8, <2>1
<1>10. ASSUME NEW k \in 1 .. Len(u) PROVE \E x \in Agent : u[k] = Centre(a, x)
  <2>1. CASE k <= N
    BY <1>1, <1>2, <1>9, <2>1
  <2>2. CASE ~(k <= N)
    <3>1. k - N \in 1 .. Len(r)
      BY <1>1, <1>6, <1>9, <2>2
    <3> QED BY <1>6, <1>9, <2>2, <3>1
  <2> QED BY <2>1, <2>2
<1>11. \A k \in DOMAIN u : Len(u[k].seats) = 2
  <2>1. DOMAIN u = 1 .. Len(u)
    BY <1>9
  <2> QED BY <1>3, <1>10, <2>1
<1> QED BY <1>7, <1>8, <1>9, <1>10, <1>11 DEF MetOK

\* Around the centres of a grid an agent is paid as the centre, by every encounter of
\* its own neighborhood and by no other.
LEMMA GridAlone ==
  ASSUME AsmOK, asm.matching.kind = "grid", asm.game.roles = 2,
         NEW held \in [Agent -> Action], NEW b \in Agent
  PROVE  /\ LocalPayoff(asm.game, asm.play, asm.agg, asm.matching, asm.top, held, b) = FullPay(asm, held)[b]
         /\ \A l \in Encounters(asm.matching, asm.top) :
              Total(EachTime(l, b)) = Len(AroundCentre(asm.top, asm.matching.self, b))
<1>1. PICK top, self : top = asm.top /\ self = asm.matching.self
  OBVIOUS
<1>2. PICK es : es = AroundCentres(top, self)
  OBVIOUS
<1>3. Implicit(asm.matching) /\ es \in Encounters(asm.matching, asm.top) /\ Encounters(asm.matching, asm.top) = {es}
  BY <1>1, <1>2 DEF Implicit, Encounters
<1>4. MetOK(es, asm.game.roles) /\ GameOK(asm.game) /\ asm.agg \in {"sum", "mean"}
  BY <1>3 DEF AsmOK
<1> DEFINE row(a) == AroundCentre(top, self, a)
<1>5. ASSUME NEW a \in Agent
      PROVE  MetOK(row(a), asm.game.roles) /\ \A k \in 1 .. Len(row(a)) : \E x \in Agent : row(a)[k] = Centre(a, x)
  <2>1. KnownAgents(top)
    BY <1>1 DEF AsmOK, KnownAgents
  <2>2. MetOK(row(a), 2) /\ \A k \in 1 .. Len(row(a)) : \E x \in Agent : row(a)[k] = Centre(a, x)
    BY <2>1, RowIs
  <2> QED BY <2>2
<1>6. PICK R : RowsUpTo(R, top, self) /\ es = R[NAgents]
  <2>1. RowTyped(top, self)
    BY <1>5 DEF RowTyped, MetOK
  <2>2. RowsAs(es, top, self)
    BY <1>2, <2>1, RowsRun
  <2> QED BY <2>2 DEF RowsAs
<1>7. NAgents \in Nat \ {0} /\ Agent = 1 .. NAgents
  BY NAgentsAssumption DEF Agent
<1>8. R[0] = <<>> /\ \A a \in Agent : R[a] = R[a - 1] \o row(a)
  BY <1>6 DEF RowsUpTo
<1> HIDE DEF row
\* What the encounters around a centre pay.
<1>9. ASSUME NEW a \in Agent, NEW k \in 1 .. Len(row(a))
      PROVE  /\ row(a)[k].seats[1] = a
             /\ PaidSeats(row(a)[k], b) = IF a = b THEN {1} ELSE {}
             /\ SeatPayoffs(asm.game, asm.play, Seated(held, row(a)[k])) \in [1 .. 2 -> Int]
  <2>1. PICK x \in Agent : row(a)[k] = Centre(a, x)
    BY <1>5
  <2>2. PICK e : e = row(a)[k] /\ e.seats = <<a, x>> /\ e.credit = "center"
    <3>1. PICK e : e = Centre(a, x)
      OBVIOUS
    <3>2. e.seats = <<a, x>> /\ e.credit = "center"
      BY <3>1 DEF Centre
    <3> QED BY <2>1, <3>1, <3>2
  <2>3. PaidSeats(e, b) = {r \in {1} : e.seats[r] = b} /\ e.seats[1] = a
    BY <2>2 DEF PaidSeats, Credited
  <2>4. PICK n \in Nat : n = 2
    OBVIOUS
  <2>5. e \in Encounter /\ Len(e.seats) = n
    BY <2>2, <2>4, <2>1 DEF Encounter, Centre
  <2>6. Seated(held, e) \in [1 .. n -> Action]
    BY <2>5, SeatedTyped
  <2>7. SeatPayoffs(asm.game, asm.play, Seated(held, e)) \in [1 .. n -> Int]
    BY <1>4, <2>4, <2>6, PaysTyped
  <2> QED BY <2>2, <2>3, <2>4, <2>7
<1>10. ASSUME NEW a \in Agent
       PROVE  /\ EachPays(row(a), held, b) \in Seq(Int) /\ Len(EachPays(row(a), held, b)) = Len(row(a))
              /\ EachTime(row(a), b) \in Seq(Int) /\ Len(EachTime(row(a), b)) = Len(row(a))
              /\ Len(row(a)) \in Nat
  <2>1. MetOK(row(a), asm.game.roles)
    BY <1>5
  <2>2. Len(row(a)) \in Nat
    BY <2>1 DEF MetOK
  <2> QED BY <1>4, <2>1, <2>2, EachTyped
<1>11. ASSUME NEW a \in Agent, a # b
       PROVE  Total(EachPays(row(a), held, b)) = 0 /\ Total(EachTime(row(a), b)) = 0
  <2>1. PICK N \in Nat : N = Len(row(a))
    BY <1>10
  <2>2. ASSUME NEW k \in 1 .. N PROVE EachPays(row(a), held, b)[k] = 0 /\ EachTime(row(a), b)[k] = 0
    <3>1. PaidSeats(row(a)[k], b) = {}
      BY <1>9, <1>11, <2>1
    <3>2. PICK pays \in [1 .. 2 -> Int] : pays = SeatPayoffs(asm.game, asm.play, Seated(held, row(a)[k]))
      BY <1>9, <2>1
    <3>3. EachPays(row(a), held, b)[k] = Scale * SeatSum(pays, {})
      BY <2>1, <3>1, <3>2 DEF EachPays
    <3>4. SeatSum(pays, {}) = 0
      BY SeatSumPair
    <3>5. EachTime(row(a), b)[k] = Cardinality({})
      BY <2>1, <3>1 DEF EachTime
    <3> QED BY <3>3, <3>4, <3>5, FS_EmptySet DEF Scale
  <2>3. PICK p \in Seq(Int), c \in Seq(Int) : p = EachPays(row(a), held, b) /\ c = EachTime(row(a), b)
    BY <1>10
  <2>4. Len(p) = N /\ Len(c) = N /\ \A k \in 1 .. N : p[k] = 0 /\ c[k] = 0
    BY <1>10, <2>1, <2>2, <2>3
  <2>5. Total(p) = 0 * N /\ Total(c) = 0 * N
    BY <2>4, TotalEven
  <2> QED BY <2>3, <2>5
<1>12. PICK N \in Nat : N = Len(row(b))
  BY <1>10
<1>13. PICK lv : lv = [k \in 1 .. N |-> SeatPayoffs(asm.game, asm.play, Seated(held, row(b)[k]))[1]]
  OBVIOUS
<1>14. Total(EachPays(row(b), held, b)) = Scale * Total(lv) /\ Total(EachTime(row(b), b)) = N /\ Total(lv) \in Int
  <2>1. ASSUME NEW k \in 1 .. N
        PROVE  lv[k] \in Int /\ EachPays(row(b), held, b)[k] = Scale * lv[k] /\ EachTime(row(b), b)[k] = 1
    <3>1. PaidSeats(row(b)[k], b) = {1}
      BY <1>9, <1>12
    <3>2. PICK pays \in [1 .. 2 -> Int] : pays = SeatPayoffs(asm.game, asm.play, Seated(held, row(b)[k]))
      BY <1>9, <1>12
    <3>3. EachPays(row(b), held, b)[k] = Scale * SeatSum(pays, {1}) /\ lv[k] = pays[1]
      BY <1>12, <1>13, <3>1, <3>2 DEF EachPays
    <3>4. SeatSum(pays, {1}) = pays[1]
      BY SeatSumPair
    <3>5. EachTime(row(b), b)[k] = Cardinality({1})
      BY <1>12, <3>1 DEF EachTime
    <3>6. Cardinality({1}) = 1
      BY FS_Singleton
    <3> QED BY <3>3, <3>4, <3>5, <3>6
  <2>2. lv \in Seq(Int) /\ Len(lv) = N
    BY <1>13, <2>1
  <2>3. PICK p \in Seq(Int), c \in Seq(Int) : p = EachPays(row(b), held, b) /\ c = EachTime(row(b), b)
    BY <1>10
  <2>4. Len(p) = N /\ Len(c) = N /\ \A k \in 1 .. N : p[k] = Scale * lv[k] /\ c[k] = 1
    BY <1>10, <1>12, <2>1, <2>3
  <2>5. Total(p) = Scale * Total(lv)
    BY <2>2, <2>4, TotalScaled
  <2>6. Total(c) = 1 * N
    BY <2>4, TotalEven
  <2> QED BY <2>2, <2>3, <2>5, <2>6, TotalTyped
\* And those around all the centres.
<1> DEFINE T == {a \in Nat : a <= NAgents =>
                   /\ MetOK(R[a], asm.game.roles)
                   /\ Total(EachPays(R[a], held, b)) = IF a < b THEN 0 ELSE Scale * Total(lv)
                   /\ Total(EachTime(R[a], b)) = IF a < b THEN 0 ELSE N}
<1>15. 0 \in T
  <2>1. MetOK(<<>>, asm.game.roles)
    BY DEF MetOK
  <2>2. 0 < b
    BY <1>7
  <2> QED BY <1>8, <2>1, <2>2, EachNone
<1>16. ASSUME NEW a \in Nat, a \in T PROVE a + 1 \in T
  <2>1. (a + 1) - 1 = a
    OBVIOUS
  <2>2. SUFFICES ASSUME a + 1 <= NAgents
                 PROVE  /\ MetOK(R[a + 1], asm.game.roles)
                        /\ Total(EachPays(R[a + 1], held, b)) = IF a + 1 < b THEN 0 ELSE Scale * Total(lv)
                        /\ Total(EachTime(R[a + 1], b)) = IF a + 1 < b THEN 0 ELSE N
    OBVIOUS
  <2>3. a + 1 \in Agent /\ a <= NAgents
    BY <1>7, <2>2
  <2>4. PICK l, m : l = R[a] /\ m = row(a + 1) /\ R[a + 1] = l \o m
    BY <1>8, <2>1, <2>3
  <2>5. /\ MetOK(l, asm.game.roles) /\ Total(EachPays(l, held, b)) = (IF a < b THEN 0 ELSE Scale * Total(lv))
        /\ Total(EachTime(l, b)) = (IF a < b THEN 0 ELSE N)
    BY <1>16, <2>3, <2>4
  <2>6. MetOK(m, asm.game.roles)
    BY <1>5, <2>3, <2>4
  <2>7. /\ MetOK(R[a + 1], asm.game.roles)
        /\ Total(EachPays(R[a + 1], held, b)) = Total(EachPays(l, held, b)) + Total(EachPays(m, held, b))
        /\ Total(EachTime(R[a + 1], b)) = Total(EachTime(l, b)) + Total(EachTime(m, b))
    BY <2>4, <2>5, <2>6, EachJoined
  <2>8. b \in Nat /\ Scale * Total(lv) \in Int
    BY <1>7, <1>14 DEF Scale
  <2>9. CASE a + 1 = b
    <3>1. Total(EachPays(m, held, b)) = Scale * Total(lv) /\ Total(EachTime(m, b)) = N
      BY <1>14, <2>4, <2>9
    <3>2. a < b /\ ~(a + 1 < b)
      BY <2>8, <2>9
    <3> QED BY <2>5, <2>7, <2>8, <3>1, <3>2
  <2>10. CASE a + 1 # b
    <3>1. Total(EachPays(m, held, b)) = 0 /\ Total(EachTime(m, b)) = 0
      BY <1>11, <2>3, <2>4, <2>10
    <3>2. a + 1 < b <=> a < b
      BY <2>8, <2>10
    <3> QED BY <2>5, <2>7, <2>8, <3>1, <3>2
  <2> QED BY <2>9, <2>10
<1>17. NAgents \in T
  <2> HIDE DEF T
  <2> QED BY <1>7, <1>15, <1>16, Induct
<1>18. Total(EachPays(es, held, b)) = Scale * Total(lv) /\ Total(EachTime(es, b)) = N
  <2>1. NAgents <= NAgents /\ ~(NAgents < b)
    BY <1>7
  <2> QED BY <1>6, <1>17, <2>1
<1> HIDE DEF T
<1>19. LocalPayoff(asm.game, asm.play, asm.agg, asm.matching, asm.top, held, b)
       = IF asm.agg = "mean" /\ N > 0 THEN (Scale * Total(lv)) \div N ELSE Scale * Total(lv)
  <2>1. PICK les : les = [i \in 1 .. N |-> [seats |-> row(b)[i].seats, role |-> 1]]
    OBVIOUS
  <2>2. LocalEncounters(asm.matching, asm.top, b) = les
    <3>1. DOMAIN row(b) = 1 .. N
      <4>1. MetOK(row(b), asm.game.roles)
        BY <1>5
      <4> QED BY <1>12, <4>1 DEF MetOK
    <3>2. LocalEncounters(asm.matching, asm.top, b) = [i \in DOMAIN row(b) |-> [seats |-> row(b)[i].seats, role |-> 1]]
      BY <1>1 DEF LocalEncounters, row
    <3> QED BY <2>1, <3>1, <3>2
  <2>3. Len(les) = N /\ DOMAIN les = 1 .. N
    BY <2>1
  <2>4. ASSUME NEW i \in 1 .. N
        PROVE  SeatPayoffs(asm.game, asm.play, Seated(held, les[i]))[les[i].role] = lv[i]
    <3>1. les[i].seats = row(b)[i].seats /\ les[i].role = 1
      BY <2>1
    <3>2. Seated(held, les[i]) = Seated(held, row(b)[i])
      BY <3>1 DEF Seated
    <3> QED BY <1>13, <3>1, <3>2
  <2>5. [i \in DOMAIN les |-> SeatPayoffs(asm.game, asm.play, Seated(held, les[i]))[les[i].role]] = lv
    BY <1>13, <2>3, <2>4
  <2> QED BY <2>2, <2>3, <2>5 DEF LocalPayoff
<1>20. FullPay(asm, held)[b] = IF asm.agg = "mean" /\ N > 0 THEN (Scale * Total(lv)) \div N ELSE Scale * Total(lv)
  <2>1. FullPay(asm, held) = Averaged(asm.agg, Whole(es, held)).pay
    BY <1>3, FullIs
  <2> QED BY <1>4, <1>18, <2>1, FullTyped
<1>21. Total(EachTime(es, b)) = Len(AroundCentre(asm.top, asm.matching.self, b))
  BY <1>1, <1>12, <1>18 DEF row
<1> QED BY <1>3, <1>19, <1>20, <1>21

-----------------------------------------------------------------------------
(* Whom an agent may copy *)

\* Among some agents somebody is paid best.
LEMMA BestPaid ==
  ASSUME NEW pay \in [Agent -> Int], NEW S, S \subseteq Agent, S # {}
  PROVE  \E b \in S : \A c \in S : pay[b] >= pay[c]
<1>1. NAgents \in Nat /\ Agent = 1 .. NAgents
  BY NAgentsAssumption DEF Agent
<1> DEFINE Best(X) == \E b \in X : \A c \in X : pay[b] >= pay[c]
           T == {m \in Nat : m <= NAgents => \A X : X \subseteq 1 .. m /\ X # {} => Best(X)}
<1>2. 0 \in T
  OBVIOUS
<1>3. ASSUME NEW m \in Nat, m \in T PROVE m + 1 \in T
  <2>1. SUFFICES ASSUME m + 1 <= NAgents, NEW X, X \subseteq 1 .. m + 1, X # {} PROVE Best(X)
    OBVIOUS
  <2>2. PICK Y : Y = X \ {m + 1} /\ Y \subseteq 1 .. m
    <3>1. X \ {m + 1} \subseteq 1 .. m
      BY <2>1
    <3> QED BY <3>1
  <2>3. m <= NAgents /\ \A x \in 1 .. m + 1 : x \in Agent /\ pay[x] \in Int
    BY <1>1, <2>1
  <2>4. CASE Y = {}
    <3>1. X = {m + 1}
      BY <2>1, <2>2, <2>4
    <3> QED BY <2>3, <3>1
  <2>5. CASE Y # {}
    <3>1. PICK b \in Y : \A c \in Y : pay[b] >= pay[c]
      BY <1>3, <2>2, <2>3, <2>5
    <3>2. b \in 1 .. m + 1 /\ \A c \in Y : c \in 1 .. m + 1
      BY <2>2
    <3>3. CASE m + 1 \notin X
      <4>1. X = Y
        BY <2>2, <3>3
      <4> QED BY <3>1, <4>1
    <3>4. CASE m + 1 \in X /\ pay[b] >= pay[m + 1]
      <4>1. \A c \in X : c \in Y \/ c = m + 1
        BY <2>2
      <4>2. b \in X
        BY <2>2
      <4> QED BY <3>1, <3>4, <4>1, <4>2
    <3>5. CASE m + 1 \in X /\ ~(pay[b] >= pay[m + 1])
      <4>1. \A c \in X : c \in Y \/ c = m + 1
        BY <2>2
      <4>2. pay[b] \in Int /\ pay[m + 1] \in Int /\ \A c \in Y : pay[c] \in Int
        BY <2>3, <3>2
      <4>3. \A c \in Y : pay[m + 1] >= pay[c]
        BY <3>1, <3>5, <4>2
      <4> QED BY <3>5, <4>1, <4>2, <4>3
    <3> QED BY <3>3, <3>4, <3>5
  <2> QED BY <2>4, <2>5
<1>4. NAgents \in T
  <2> HIDE DEF T
  <2> QED BY <1>1, <1>2, <1>3, Induct
<1>5. S \subseteq 1 .. NAgents /\ NAgents <= NAgents
  BY <1>1
<1> HIDE DEF Best
<1>6. Best(S)
  BY <1>4, <1>5
<1> QED BY <1>6 DEF Best

LEMMA MaxOfPay ==
  ASSUME NEW pay \in [Agent -> Int], NEW S, S \subseteq Agent, S # {}
  PROVE  \E b \in S : Max({pay[c] : c \in S}) = pay[b]
<1>1. PICK b \in S : \A c \in S : pay[b] >= pay[c]
  BY BestPaid
<1> DEFINE V == {pay[c] : c \in S}
<1>2. pay[b] \in V /\ \A y \in V : pay[b] >= y
  BY <1>1
<1>3. Max(V) \in V
  <2> HIDE DEF V
  <2> QED BY <1>2 DEF Max
<1> QED BY <1>3

\* A source is the agent itself or one of those it compares itself with.
LEMMA BestSourceIs ==
  ASSUME NEW top, KnownAgents(top), NEW held \in [Agent -> Action], NEW pay \in [Agent -> Int],
         NEW a \in Agent, NEW tie
  PROVE  BestSource(top, held, pay, a, tie) \in {a} \cup ToSet(top.nbrs[a])
<1>1. PICK near : near = ToSet(top.nbrs[a]) /\ near \subseteq Agent
  <2>1. PICK s \in Seq(Agent) : s = top.nbrs[a]
    BY DEF KnownAgents
  <2>2. ToSet(s) \subseteq Agent
    BY DEF ToSet
  <2> QED BY <2>1, <2>2
<1>2. PICK best : best = Max({pay[b] : b \in near \cup {a}}) /\ \E b \in near \cup {a} : pay[b] = best
  <2>1. near \cup {a} \subseteq Agent /\ near \cup {a} # {}
    BY <1>1
  <2>2. PICK S : S = near \cup {a}
    OBVIOUS
  <2>3. \E b \in S : Max({pay[c] : c \in S}) = pay[b]
    BY <2>1, <2>2, MaxOfPay
  <2> QED BY <2>2, <2>3
<1>3. PICK tied : tied = {b \in near : pay[b] = best} \cup (IF pay[a] = best THEN {a} ELSE {})
  OBVIOUS
<1>4. tied # {} /\ tied \subseteq near \cup {a} /\ tied \subseteq Agent
  BY <1>1, <1>2, <1>3
<1>5. PICK lowest : lowest = {b \in tied : \A c \in tied : held[b] <= held[c]}
  OBVIOUS
<1>6. lowest # {} /\ lowest \subseteq Agent /\ lowest \subseteq near \cup {a}
  <2>1. \A c \in tied : held[c] \in {0, 1}
    BY <1>4 DEF Action
  <2>2. CASE \E b \in tied : held[b] = 0
    BY <1>4, <1>5, <2>1, <2>2
  <2>3. CASE \A b \in tied : held[b] = 1
    BY <1>4, <1>5, <2>3
  <2> QED BY <1>4, <1>5, <2>1, <2>2, <2>3
<1>7. PICK first : first = CHOOSE b \in lowest : \A c \in lowest : b <= c
  OBVIOUS
<1>8. first \in lowest
  <2>1. lowest \subseteq Nat
    BY <1>6, NAgentsAssumption DEF Agent
  <2>2. \E b \in lowest : \A c \in lowest : b <= c
    BY <1>6, <2>1, Least
  <2> QED BY <1>7, <2>2
<1>9. BestSource(top, held, pay, a, tie) = IF (pay[a] = best /\ tie = "keep") \/ a \in lowest THEN a ELSE first
  BY <1>1, <1>2, <1>3, <1>5, <1>7 DEF BestSource
<1> QED BY <1>1, <1>6, <1>8, <1>9

LEMMA SourcesIn ==
  ASSUME NEW top, KnownAgents(top), NEW held \in [Agent -> Action], NEW pay \in [Agent -> Int], NEW a \in Agent,
         NEW upd, upd.rule \in {"best", "fermi", "proportional"}, upd.rule = "best" => top.kind # "none"
  PROVE  Sources(upd, top, held, pay, a) \subseteq {a} \cup Partners(top, a) /\ Partners(top, a) \subseteq Agent
<1>1. Partners(top, a) \subseteq Agent
  BY DEF Partners, KnownAgents, ToSet
<1>2. CASE upd.rule = "best"
  <2>1. Sources(upd, top, held, pay, a) = {BestSource(top, held, pay, a, upd.tie)}
    BY <1>2 DEF Sources
  <2>2. Partners(top, a) = ToSet(top.nbrs[a])
    BY <1>2 DEF Partners
  <2> QED BY <1>1, <2>1, <2>2, BestSourceIs
<1>3. CASE upd.rule = "fermi"
  BY <1>1, <1>3 DEF Sources
<1>4. CASE upd.rule = "proportional"
  <2>1. Sources(upd, top, held, pay, a) = {a} \cup {b \in Partners(top, a) : pay[b] > pay[a]}
    BY <1>4 DEF Sources
  <2> QED BY <1>1, <2>1
<1> QED BY <1>2, <1>3, <1>4

\* A source depends on no other payoffs than those.
LEMMA SourcesSame ==
  ASSUME NEW top, NEW held, NEW p, NEW q, NEW a, NEW upd,
         upd.rule \in {"best", "fermi", "proportional"}, upd.rule = "best" => top.kind # "none",
         \A b \in {a} \cup Partners(top, a) : p[b] = q[b]
  PROVE  Sources(upd, top, held, p, a) = Sources(upd, top, held, q, a)
<1>1. CASE upd.rule = "best"
  <2>1. PICK near : near = ToSet(top.nbrs[a]) /\ \A b \in near \cup {a} : p[b] = q[b]
    BY <1>1 DEF Partners
  <2>2. {p[b] : b \in near \cup {a}} = {q[b] : b \in near \cup {a}}
    BY <2>1
  <2>3. PICK best : best = Max({p[b] : b \in near \cup {a}}) /\ best = Max({q[b] : b \in near \cup {a}})
    BY <2>2
  <2>4. {b \in near : p[b] = best} = {b \in near : q[b] = best} /\ (p[a] = best <=> q[a] = best)
    BY <2>1
  <2>5. PICK tied : /\ tied = {b \in near : p[b] = best} \cup (IF p[a] = best THEN {a} ELSE {})
                    /\ tied = {b \in near : q[b] = best} \cup (IF q[a] = best THEN {a} ELSE {})
    BY <2>4
  <2>6. PICK lowest : lowest = {b \in tied : \A c \in tied : held[b] <= held[c]}
    OBVIOUS
  <2>7. PICK first : first = CHOOSE b \in lowest : \A c \in lowest : b <= c
    OBVIOUS
  <2>8. ASSUME NEW tie, NEW pay, best = Max({pay[b] : b \in near \cup {a}}),
               tied = {b \in near : pay[b] = best} \cup (IF pay[a] = best THEN {a} ELSE {})
        PROVE  BestSource(top, held, pay, a, tie) = IF (pay[a] = best /\ tie = "keep") \/ a \in lowest THEN a ELSE first
    BY <2>1, <2>6, <2>7, <2>8 DEF BestSource
  <2>9. PICK tie : tie = upd.tie
    OBVIOUS
  <2>10. BestSource(top, held, p, a, tie) = BestSource(top, held, q, a, tie)
    <3>1. BestSource(top, held, p, a, tie) = IF (p[a] = best /\ tie = "keep") \/ a \in lowest THEN a ELSE first
      BY <2>3, <2>5, <2>8
    <3>2. BestSource(top, held, q, a, tie) = IF (q[a] = best /\ tie = "keep") \/ a \in lowest THEN a ELSE first
      BY <2>3, <2>5, <2>8
    <3> QED BY <2>4, <3>1, <3>2
  <2> QED BY <1>1, <2>9, <2>10 DEF Sources
<1>2. CASE upd.rule = "fermi"
  BY <1>2 DEF Sources
<1>3. CASE upd.rule = "proportional"
  BY <1>3 DEF Sources
<1> QED BY <1>1, <1>2, <1>3

-----------------------------------------------------------------------------
(* Every change of what agents hold is one that full play justifies *)

\* The plays of a list of encounters, and how everybody's held action shows in them.
PlaysOf(p, es) ==
  Len(p) = Len(es) /\ \A i \in 1 .. Len(es) : p[i].seats = es[i].seats /\ p[i].credit = es[i].credit
ShownIn(p, es, held) == PlaysOf(p, es) /\ \A i \in 1 .. Len(es) : p[i].acts = Seated(held, es[i])

\* Plays pay what their encounters pay.
LEMMA SamePlayed ==
  ASSUME NEW p, IsLog(p), NEW es, IsLog(es), NEW held, ShownIn(p, es, held)
  PROVE  Played(NoPay, asm.game, asm.play, p, Acts(p)) = Whole(es, held)
<1>1. PICK N \in Nat : N = Len(es) /\ Len(p) = N /\ DOMAIN es = 1 .. N /\ DOMAIN p = 1 .. N
  BY LogIs DEF ShownIn, PlaysOf
<1>2. PICK a, b : a = Acts(p) /\ b = [i \in DOMAIN es |-> Seated(held, es[i])]
  OBVIOUS
<1>3. PICK f : PlayedUpTo(f, NoPay, p, a)
  BY PlayedRun
<1>4. PICK g : PlayedUpTo(g, NoPay, es, b)
  BY PlayedRun
<1>5. ASSUME NEW k \in 1 .. N PROVE a[k] = b[k] /\ \A x, y : Credit(x, p[k], y) = Credit(x, es[k], y)
  <2>1. p[k].acts = Seated(held, es[k]) /\ p[k].seats = es[k].seats /\ p[k].credit = es[k].credit
    BY <1>1 DEF ShownIn, PlaysOf
  <2>2. a[k] = p[k].acts /\ b[k] = Seated(held, es[k])
    BY <1>1, <1>2 DEF Acts
  <2>3. ASSUME NEW c PROVE PaidSeats(p[k], c) = PaidSeats(es[k], c)
    BY <2>1 DEF PaidSeats, Credited
  <2>4. ASSUME NEW x, NEW y PROVE Credit(x, p[k], y) = Credit(x, es[k], y)
    BY <2>3 DEF Credit
  <2> QED BY <2>1, <2>2, <2>4
<1> DEFINE T == {k \in Nat : k <= N => f[k] = g[k]}
<1>6. 0 \in T
  BY <1>3, <1>4 DEF PlayedUpTo
<1>7. ASSUME NEW k \in Nat, k \in T PROVE k + 1 \in T
  <2>1. (k + 1) - 1 = k
    OBVIOUS
  <2>2. SUFFICES ASSUME k + 1 <= N PROVE f[k + 1] = g[k + 1]
    OBVIOUS
  <2>3. k + 1 \in 1 .. N /\ f[k] = g[k]
    BY <1>1, <1>7, <2>2
  <2>4. PICK y, z : y = SeatPayoffs(asm.game, asm.play, a[k + 1]) /\ z = SeatPayoffs(asm.game, asm.play, b[k + 1])
    OBVIOUS
  <2>5. f[k + 1] = Credit(f[k], p[k + 1], y) /\ g[k + 1] = Credit(g[k], es[k + 1], z)
    BY <1>1, <1>3, <1>4, <2>1, <2>3, <2>4 DEF PlayedUpTo
  <2>6. y = z
    BY <1>5, <2>3, <2>4
  <2> QED BY <1>5, <2>3, <2>5, <2>6
<1>8. N \in T
  <2> HIDE DEF T
  <2> QED BY <1>1, <1>6, <1>7, Induct
<1>9. f[N] = g[N]
  <2>1. N <= N
    BY <1>1
  <2> QED BY <1>8, <2>1
<1> HIDE DEF T
<1> QED BY <1>1, <1>2, <1>3, <1>4, <1>9 DEF PlayedUpTo, Whole

\* What full play pays everybody of a profile, for one list of encounters or another.
FullPays(pay, held) ==
  \E es \in Encounters(asm.matching, asm.top) : pay = Averaged(asm.agg, Whole(es, held)).pay
Fresh == world.payoff = NoPay.pay /\ world.n = NoPay.n

\* Agents always hold a profile.  Where nobody decides, a step that is not
\* asynchronous starts from nothing paid, its plays show what everybody holds,
\* and from then on until an update the payoffs are those of full play.
TInv ==
  /\ world.held \in [Agent -> Action]
  /\ pc = "decide" => todo \subseteq asm.rules
  /\ pc = "update" => asm.update.mode = "sync"
  /\ asm.rules = {} /\ ~Async =>
       /\ pc \in {"play", "match", "held", "decide"} => Fresh
       /\ pc = "play" => Implicit(asm.matching)
       /\ pc = "held" => \E es \in Encounters(asm.matching, asm.top) : PlaysOf(world.plays, es)
       /\ pc = "decide" => \E es \in Encounters(asm.matching, asm.top) : ShownIn(world.plays, es, world.held)
       /\ pc \in {"reward", "update"} => FullPays(world.payoff, world.held)

LEMMA TInit == Init => TInv
<1> SUFFICES ASSUME Init PROVE TInv
  OBVIOUS
<1>1. PICK h \in [Agent -> Action] : \E v :
        world = [held |-> h, plays |-> <<>>, payoff |-> NoPay.pay, n |-> NoPay.n, counts |-> <<>>,
                 steps |-> v, pairs |-> <<>>, aggs |-> NewTable]
  BY DEF Init
<1>2. world.held = h /\ pc = "idle"
  BY <1>1 DEF Init
<1> QED BY <1>2 DEF TInv

\* Most steps change nothing that TInv speaks of.
LEMMA TKept ==
  ASSUME TInv, asm' = asm, world'.held = world.held, pc' \in {"idle", "post", "end"}
  PROVE  TInv'
BY DEF TInv, Async

LEMMA TClear == GInv /\ TInv /\ Clear => TInv'
<1> SUFFICES ASSUME GInv, TInv, Clear PROVE TInv'
  OBVIOUS
<1>1. /\ asm' = asm
      /\ world' = [world EXCEPT !.plays = <<>>, !.payoff = NoPay.pay, !.n = NoPay.n, !.counts = <<>>]
      /\ pc' = IF Async THEN "reward" ELSE IF ImplicitPath THEN "play" ELSE "match"
  BY DEF Clear
<1>2. world'.payoff = NoPay.pay /\ world'.n = NoPay.n /\ world'.held = world.held
  BY <1>1 DEF GInv
<1>3. pc' = "play" => Implicit(asm.matching)
  BY <1>1 DEF ImplicitPath
<1>4. ~Async => pc' \in {"play", "match"}
  BY <1>1
<1>5. Async => pc' = "reward"
  BY <1>1
<1> QED BY <1>1, <1>2, <1>3, <1>4, <1>5 DEF TInv, Async, Fresh

LEMMA TMatch == GInv /\ TInv /\ Match => TInv'
<1> SUFFICES ASSUME GInv, TInv, Match PROVE TInv'
  OBVIOUS
<1>1. asm' = asm /\ pc = "match" /\ pc' = "held"
  BY DEF Match
<1>2. PICK es \in Encounters(asm.matching, asm.top) :
        world' = [world EXCEPT !.plays = [i \in DOMAIN es |-> Unfilled(es[i])]]
  BY DEF Match
<1>3. AsmOK
  BY AsmIs DEF GInv
<1>4. PICK N \in Nat : N = Len(es) /\ DOMAIN es = 1 .. N
  BY <1>3 DEF AsmOK, MetOK
<1>5. PICK p : p = [i \in 1 .. N |-> Unfilled(es[i])]
  OBVIOUS
<1>6. world'.plays = p /\ world'.held = world.held /\ world'.payoff = world.payoff /\ world'.n = world.n
  BY <1>2, <1>4, <1>5 DEF GInv
<1>7. PlaysOf(p, es)
  <2>1. Len(p) = N
    BY <1>5
  <2>2. \A i \in 1 .. N : p[i].seats = es[i].seats /\ p[i].credit = es[i].credit
    BY <1>5 DEF Unfilled
  <2> QED BY <1>4, <2>1, <2>2 DEF PlaysOf
<1> QED BY <1>1, <1>6, <1>7 DEF TInv, Async, Fresh

LEMMA TSeatHeld == GInv /\ TInv /\ SeatHeld => TInv'
<1> SUFFICES ASSUME GInv, TInv, SeatHeld PROVE TInv'
  OBVIOUS
<1>1. /\ asm' = asm /\ pc = "held" /\ pc' = "decide" /\ todo' = {a \in asm.rules : RolesOf(a) # {}}
  BY DEF SeatHeld
<1>2. PICK roles \in Nat : roles = asm.game.roles
  BY AssemblyAssumption DEF GInv
<1>3. PICK p : p = world.plays /\ PlaysOK(p, roles)
  BY <1>2 DEF GInv
<1>4. PICK held : held = world.held /\ held \in [Agent -> Action]
  BY DEF TInv
<1>5. Len(p) \in Nat /\ DOMAIN p = 1 .. Len(p) /\ \A i \in 1 .. Len(p) : PlayOK(p[i], roles)
  BY <1>3, LogIs DEF PlaysOK
<1> DEFINE act(i, r) == IF Held(p[i].seats[r]) THEN held[p[i].seats[r]] ELSE NoAct
           fill(i) == [r \in DOMAIN p[i].seats |-> IF act(i, r) # NoAct THEN act(i, r) ELSE p[i].acts[r]]
<1>6. PICK q : q = [i \in DOMAIN p |-> [p[i] EXCEPT !.acts = fill(i)]]
  OBVIOUS
<1>7. world' = [world EXCEPT !.plays = q]
  <2>1. world' = [world EXCEPT !.plays = [i \in DOMAIN p |-> [p[i] EXCEPT !.acts =
           [r \in DOMAIN p[i].seats |-> IF act(i, r) # NoAct THEN act(i, r) ELSE p[i].acts[r]]]]]
    BY <1>3, <1>4 DEF SeatHeld, SeatActs
  <2> HIDE DEF act
  <2> QED BY <1>6, <2>1, Zenon
<1>8. world'.plays = q /\ world'.held = held /\ world'.payoff = world.payoff /\ world'.n = world.n
  BY <1>4, <1>7 DEF GInv
<1>9. ASSUME asm.rules = {}, NEW es, PlaysOf(p, es) PROVE ShownIn(q, es, held)
  <2>1. Len(q) = Len(es) /\ Len(p) = Len(es)
    <3>1. Len(p) \in Nat /\ q = [i \in 1 .. Len(p) |-> q[i]]
      BY <1>5, <1>6
    <3>2. Len(q) = Len(p)
      BY <3>1, MappedLog
    <3> QED BY <1>9, <3>2 DEF PlaysOf
  <2>2. ASSUME NEW i \in 1 .. Len(es)
        PROVE  q[i].seats = es[i].seats /\ q[i].credit = es[i].credit /\ q[i].acts = Seated(held, es[i])
    <3>1. PICK e : e = p[i] /\ PlayOK(e, roles)
      BY <1>5, <2>1
    <3>2. e.seats = es[i].seats /\ e.credit = es[i].credit
      BY <1>9, <3>1 DEF PlaysOf
    <3>3. e = [seats |-> e.seats, credit |-> e.credit, acts |-> e.acts, pays |-> e.pays]
      BY <3>1 DEF PlayOK
    <3>4. PICK s : s = fill(i)
      OBVIOUS
    <3>5. q[i] = [e EXCEPT !.acts = s]
      BY <1>5, <1>6, <2>1, <3>1, <3>4
    <3>6. q[i].seats = e.seats /\ q[i].credit = e.credit /\ q[i].acts = s
      BY <3>3, <3>5
    <3>7. s = [r \in DOMAIN e.seats |-> held[e.seats[r]]]
      <4>1. ASSUME NEW r \in DOMAIN e.seats PROVE act(i, r) = held[e.seats[r]] /\ act(i, r) # NoAct
        <5>1. e.seats[r] \in Agent
          BY <3>1 DEF PlayOK
        <5>2. held[e.seats[r]] \in Action
          BY <1>4, <5>1
        <5> QED BY <1>9, <3>1, <5>2 DEF Held, Action, NoAct
      <4>2. s = [r \in DOMAIN e.seats |-> IF act(i, r) # NoAct THEN act(i, r) ELSE e.acts[r]]
        BY <3>1, <3>4
      <4> HIDE DEF act
      <4> QED BY <4>1, <4>2
    <3>8. s = Seated(held, es[i])
      BY <3>2, <3>7 DEF Seated
    <3> QED BY <3>2, <3>6, <3>8
  <2> QED BY <2>1, <2>2 DEF ShownIn, PlaysOf
<1> HIDE DEF act, fill
<1>10. asm.rules = {} /\ ~Async => \E es \in Encounters(asm.matching, asm.top) : ShownIn(q, es, held)
  BY <1>1, <1>3, <1>9 DEF TInv
<1> QED BY <1>1, <1>4, <1>8, <1>10 DEF TInv, Async, Fresh

\* What is full play of the assembly stays so.
LEMMA StaysFull ==
  ASSUME asm' = asm, FullPays(world'.payoff, world'.held)
  PROVE  FullPays(world.payoff, world.held)'
<1>1. PICK es \in Encounters(asm.matching, asm.top) : world'.payoff = Averaged(asm.agg, Whole(es, world'.held)).pay
  BY DEF FullPays
<1>2. es \in Encounters(asm'.matching, asm'.top)
  BY <1>1
<1>3. world'.payoff = Averaged(asm'.agg, Played(NoPay, asm'.game, asm'.play, es, [i \in DOMAIN es |-> Seated(world'.held, es[i])])).pay
  BY <1>1 DEF Whole
<1> QED BY <1>2, <1>3 DEF FullPays, Whole

LEMMA TDecide ==
  ASSUME GInv, TInv, NEW d \in Agent, Decide(d)
  PROVE  TInv'
<1>1. asm' = asm /\ pc = "decide" /\ pc' = pc /\ d \in todo /\ todo' = todo \ {d}
  BY DEF Decide
<1>2. asm.rules # {} /\ todo' \subseteq asm.rules
  BY <1>1 DEF TInv
<1>3. PICK q, held : /\ DecidedBy(d, world.plays, asm.game.roles, q, held)
                     /\ world' = [world EXCEPT !.plays = q, !.held = held]
  BY DecideIs
<1>4. world'.held = held /\ held \in [Agent -> Action]
  BY <1>3 DEF GInv, DecidedBy
<1> QED BY <1>1, <1>2, <1>4 DEF TInv, Async

\* The plays of a step pay what full play of their encounters pays.
LEMMA TPlay == GInv /\ TInv /\ Play => TInv'
<1> SUFFICES ASSUME GInv, TInv, Play PROVE TInv'
  OBVIOUS
<1>1. asm' = asm /\ pc = "decide" /\ pc' = "reward" /\ ~Async
  BY DEF Play, GInv
<1>2. PICK roles \in Nat : roles = asm.game.roles
  BY AssemblyAssumption DEF GInv
<1>3. PICK p : p = world.plays /\ PlaysOK(p, roles)
  BY <1>2 DEF GInv
<1>4. PICK acc0 : acc0 = [pay |-> world.payoff, n |-> world.n]
  OBVIOUS
<1>5. PICK totals : totals = Averaged(asm.agg, Played(acc0, asm.game, asm.play, p, Acts(p)))
  OBVIOUS
<1>6. PICK recs : recs = [a \in Agent |-> [action |-> IF asm.scope = "step" THEN FirstAct(p, a) ELSE NoAct,
                                           payoff |-> totals.pay[a], n |-> totals.n[a]]]
  OBVIOUS
<1>7. PICK w : w = [world EXCEPT !.pairs = PushPairs(world.pairs, p), !.plays = Paid(p, Len(p))]
  OBVIOUS
<1>8. PICK rows : Commit(w, totals, recs, rows)
  BY <1>3, <1>4, <1>5, <1>6, <1>7 DEF Play, RecordPlays
<1>9. w.held = world.held /\ {"held", "plays", "pairs", "payoff", "n"} \subseteq DOMAIN w
  BY <1>7 DEF GInv
<1>10. world'.held = world.held /\ world'.payoff = totals.pay
  <2>1. PICK p3, p4 : world' = [w EXCEPT !.payoff = totals.pay, !.n = totals.n, !.steps = p3, !.aggs = p4]
    BY <1>8 DEF Commit
  <2> QED BY <1>9, <2>1
<1>11. ASSUME asm.rules = {} PROVE FullPays(totals.pay, world.held)
  <2>1. PICK es \in Encounters(asm.matching, asm.top) : ShownIn(p, es, world.held)
    BY <1>1, <1>3, <1>11 DEF TInv
  <2>2. acc0 = NoPay
    BY <1>1, <1>4, <1>11 DEF TInv, Fresh, NoPay
  <2>3. AsmOK
    BY AsmIs DEF GInv
  <2>4. IsLog(es) /\ IsLog(p)
    BY <1>3, <2>3 DEF AsmOK, MetOK, IsLog, PlaysOK
  <2>5. Played(NoPay, asm.game, asm.play, p, Acts(p)) = Whole(es, world.held)
    BY <2>1, <2>4, SamePlayed
  <2> QED BY <1>5, <2>1, <2>2, <2>5 DEF FullPays
<1>12. asm.rules = {} => FullPays(world.payoff, world.held)'
  BY <1>1, <1>10, <1>11, StaysFull
<1> QED BY <1>1, <1>10, <1>12 DEF TInv, Async

\* A step that materializes no plays pays full play directly.
LEMMA TPlayImplicit == GInv /\ TInv /\ PlayImplicit => TInv'
<1> SUFFICES ASSUME GInv, TInv, PlayImplicit PROVE TInv'
  OBVIOUS
<1>1. asm' = asm /\ pc = "play" /\ pc' = "reward" /\ RecordImplicit(world, TRUE)
  BY DEF PlayImplicit
<1>2. PICK totals : totals = ImplicitFrom([pay |-> world.payoff, n |-> world.n], asm.game, asm.play, asm.agg,
                                          asm.matching, asm.top, world.held)
  OBVIOUS
<1>3. PICK recs, acts, rows : Commit([world EXCEPT !.counts = FlattenSeq(acts)], totals, recs, rows)
  BY <1>1, <1>2 DEF RecordImplicit
<1>4. PICK w : w = [world EXCEPT !.counts = FlattenSeq(acts)]
  OBVIOUS
<1>5. w.held = world.held /\ {"held", "plays", "pairs", "payoff", "n"} \subseteq DOMAIN w
  BY <1>4 DEF GInv
<1>6. world'.held = world.held /\ world'.payoff = totals.pay
  <2>1. PICK p3, p4 : world' = [w EXCEPT !.payoff = totals.pay, !.n = totals.n, !.steps = p3, !.aggs = p4]
    BY <1>3, <1>4 DEF Commit
  <2> QED BY <1>5, <2>1
<1>7. ASSUME asm.rules = {}, ~Async PROVE FullPays(totals.pay, world.held)
  <2>1. Implicit(asm.matching) /\ [pay |-> world.payoff, n |-> world.n] = NoPay
    BY <1>1, <1>7 DEF TInv, Fresh, NoPay
  <2>2. PICK es \in Encounters(asm.matching, asm.top) : TRUE
    BY <2>1, OneList
  <2>3. totals.pay = FullPay(asm, world.held)
    BY <1>2, <2>1 DEF FullPay, ImplicitPayoffs
  <2> QED BY <2>1, <2>2, <2>3, FullIs DEF FullPays
<1>8. asm.rules = {} /\ ~Async => FullPays(world.payoff, world.held)'
  BY <1>1, <1>6, <1>7, StaysFull
<1> QED BY <1>1, <1>6, <1>8 DEF TInv, Async

LEMMA TLearn == GInv /\ TInv /\ Learn => TInv'
<1> SUFFICES ASSUME GInv, TInv, Learn PROVE TInv'
  OBVIOUS
<1>1. /\ asm' = asm /\ world' = world /\ pc = "reward" /\ ~Async
      /\ pc' = IF asm.update.mode = "none" THEN "post" ELSE "update"
  BY DEF Learn
<1>2. pc' = "update" => asm.update.mode = "sync"
  BY <1>1, AssemblyAssumption DEF GInv, Async
<1>3. asm.rules = {} => FullPays(world.payoff, world.held)'
  <2>1. asm.rules = {} => FullPays(world'.payoff, world'.held)
    BY <1>1 DEF TInv
  <2> QED BY <1>1, <2>1, StaysFull
<1> QED BY <1>1, <1>2, <1>3 DEF TInv, Async

\* A synchronous update copies actions that full play of the profile justifies.
LEMMA ImitateIs ==
  ASSUME GInv, TInv, Imitate
  PROVE  TInv' /\ UNCHANGED asm /\ Profile!AllCopy
<1>1. asm' = asm /\ pc = "update" /\ pc' = "post" /\ asm.update.rule # "moran"
  BY DEF Imitate
<1>2. PICK next \in [Agent -> Action] :
        /\ \A a \in Agent : \E b \in Sources(asm.update, asm.top, world.held, world.payoff, a) : next[a] = world.held[b]
        /\ world' = [world EXCEPT !.held = next]
  BY DEF Imitate
<1>3. world'.held = next
  BY <1>2 DEF GInv
<1>4. asm.update.mode = "sync"
  BY <1>1 DEF TInv
<1>5. /\ asm.rules = {} /\ UpdateCheck(asm.update, asm.game, asm.matching, asm.top, asm.agg, asm.play)
      /\ asm.update.rule \in {"best", "fermi", "proportional"}
  BY <1>1, <1>4, AssemblyAssumption DEF GInv, Accepted
<1>6. PICK es \in Encounters(asm.matching, asm.top) : world.payoff = Averaged(asm.agg, Whole(es, world.held)).pay
  BY <1>1, <1>4, <1>5 DEF TInv, Async, FullPays
<1>7. PICK held : held = world.held /\ held \in [Agent -> Action]
  BY DEF TInv
<1>8. PICK pay : pay = world.payoff /\ pay \in [Agent -> Int]
  <2>1. AsmOK
    BY AsmIs DEF GInv
  <2>2. GameOK(asm.game) /\ MetOK(es, asm.game.roles) /\ asm.agg \in {"sum", "mean"}
    BY <2>1 DEF AsmOK
  <2>3. Averaged(asm.agg, Whole(es, held)).pay \in [Agent -> Int]
    BY <1>7, <2>2, FullTyped
  <2> QED BY <1>6, <1>7, <2>3
<1>9. PICK top, upd : top = asm.top /\ KnownAgents(top) /\ upd = asm.update /\ upd.rule \in {"best", "fermi", "proportional"}
                      /\ (upd.rule = "best" => top.kind # "none")
  <2>1. asm.top.nbrs \in [Agent -> Seq(Agent)]
    BY AsmIs DEF GInv, AsmOK
  <2>2. asm.update.rule = "best" => asm.top.kind # "none"
    BY <1>5 DEF UpdateCheck
  <2> QED BY <1>5, <2>1, <2>2 DEF KnownAgents
<1>10. ASSUME NEW a \in Agent PROVE \E b \in Agent : Justified(asm, held, a, b) /\ next[a] = held[b]
  <2>1. PICK b \in Sources(upd, top, held, pay, a) : next[a] = held[b]
    BY <1>2, <1>7, <1>8, <1>9
  <2>2. b \in {a} \cup Partners(top, a) /\ b \in Agent
    BY <1>7, <1>8, <1>9, <2>1, SourcesIn
  <2>3. CASE Implicit(asm.matching)
    <3>1. pay = FullPay(asm, held)
      BY <1>6, <1>7, <1>8, <2>3, FullIs
    <3> QED BY <1>9, <2>1, <2>2, <2>3, <3>1 DEF Justified
  <2>4. CASE ~Implicit(asm.matching)
    BY <1>9, <2>1, <2>2, <2>4 DEF Justified
  <2> QED BY <2>3, <2>4
<1>11. Profile!AllCopy
  BY <1>1, <1>3, <1>4, <1>7, <1>10 DEF Profile!AllCopy
<1>12. TInv'
  BY <1>1, <1>3 DEF TInv, Async
<1> QED BY <1>1, <1>11, <1>12

\* A Moran step takes a parent that full play pays.
LEMMA MoranIs ==
  ASSUME GInv, TInv, Moran
  PROVE  TInv' /\ UNCHANGED asm /\ Profile!Birth
<1>1. asm' = asm /\ pc = "update" /\ pc' = "post" /\ asm.update.rule = "moran"
  BY DEF Moran
<1>2. PICK held : held = world.held /\ held \in [Agent -> Action]
  BY DEF TInv
<1>3. PICK parent \in {a \in Agent : Weight(world.payoff, a) > 0}, death \in Agent :
        \E x \in {held[parent]} \cup (IF asm.update.mutates THEN Action ELSE {}) :
          world' = [world EXCEPT !.held = [held EXCEPT ![death] = x]]
  BY <1>2 DEF Moran
<1>4. PICK x \in {held[parent]} \cup (IF asm.update.mutates THEN Action ELSE {}) :
        world' = [world EXCEPT !.held = [held EXCEPT ![death] = x]]
  BY <1>3
<1>5. x \in Action /\ (x = held[parent] \/ asm.update.mutates)
  BY <1>2, <1>3, <1>4
<1>6. world'.held = [held EXCEPT ![death] = x]
  BY <1>4 DEF GInv
<1>7. asm.update.mode = "sync"
  BY <1>1 DEF TInv
<1>8. asm.rules = {}
  BY <1>7 DEF GInv, Accepted
<1>9. PICK es \in Encounters(asm.matching, asm.top) : world.payoff = Averaged(asm.agg, Whole(es, held)).pay
  BY <1>1, <1>2, <1>7, <1>8 DEF TInv, Async, FullPays
<1>10. Fertile(asm, held, parent)
  <2>1. CASE Implicit(asm.matching)
    <3>1. world.payoff = FullPay(asm, held)
      BY <1>9, <2>1, FullIs
    <3> QED BY <1>3, <3>1 DEF Fertile
  <2>2. CASE ~Implicit(asm.matching)
    BY <2>2 DEF Fertile
  <2> QED BY <2>1, <2>2
<1>11. Profile!Birth
  BY <1>1, <1>2, <1>3, <1>5, <1>6, <1>10 DEF Profile!Birth
<1>12. TInv'
  BY <1>1, <1>2, <1>5, <1>6 DEF TInv, Async
<1> QED BY <1>1, <1>11, <1>12

\* The payoffs an activated agent looks at are those of full play at this moment.
LEMMA RefreshedFull ==
  ASSUME GInv, TInv, Async, NEW a \in Agent
  PROVE  \A b \in {a} \cup Partners(asm.top, a) : Refreshed(a).pay[b] = FullPay(asm, world.held)[b]
<1>1. PICK held : held = world.held /\ held \in [Agent -> Action]
  BY DEF TInv
<1>2. PICK m : m = asm.matching /\ Implicit(m) /\ MatchingCheck(m, asm.game.roles, asm.top, asm.scope)
  BY DEF GInv, Accepted, Async
<1>3. CASE m.kind = "whole"
  BY <1>1, <1>2, <1>3 DEF Refreshed, FullPay
<1>4. CASE m.kind \in {"net", "grid"}
  <2>1. asm.game.roles = 2
    BY <1>2, <1>4 DEF MatchingCheck
  <2>2. PICK near : near = {a} \cup (IF asm.top.kind = "none" THEN Agent ELSE ToSet(asm.top.nbrs[a]))
    OBVIOUS
  <2>3. Refreshed(a) = [pay |-> [b \in Agent |->
              IF b \in near THEN LocalPayoff(asm.game, asm.play, asm.agg, m, asm.top, held, b) ELSE local[b]]]
    BY <1>1, <1>2, <1>4, <2>2 DEF Refreshed
  <2>4. AsmOK
    BY AsmIs DEF GInv
  <2>5. ASSUME NEW b \in {a} \cup Partners(asm.top, a) PROVE b \in near /\ b \in Agent
    <3>1. KnownAgents(asm.top)
      BY <2>4 DEF AsmOK, KnownAgents
    <3> QED BY <2>2, <2>5, <3>1 DEF Partners, KnownAgents, ToSet
  <2>6. ASSUME NEW b \in Agent
        PROVE  LocalPayoff(asm.game, asm.play, asm.agg, m, asm.top, held, b) = FullPay(asm, held)[b]
    BY <1>1, <1>2, <1>4, <2>1, <2>4, NetAlone, GridAlone
  <2> QED BY <1>1, <2>3, <2>5, <2>6
<1> QED BY <1>2, <1>3, <1>4 DEF Implicit

LEMMA ActivateIs ==
  ASSUME GInv, TInv, NEW a \in Agent, Activate(a)
  PROVE  TInv' /\ UNCHANGED asm /\ Profile!OneCopies
<1>1. asm' = asm /\ pc = "reward" /\ pc' = pc /\ Async /\ local' = Refreshed(a).pay
  BY DEF Activate
<1>2. PICK held : held = world.held /\ held \in [Agent -> Action]
  BY DEF TInv
<1>3. PICK top, upd : top = asm.top /\ KnownAgents(top) /\ upd = asm.update /\ upd.rule \in {"best", "fermi", "proportional"}
                      /\ (upd.rule = "best" => top.kind # "none")
  <2>1. asm.top.nbrs \in [Agent -> Seq(Agent)]
    BY AsmIs DEF GInv, AsmOK
  <2>2. asm.update.rule \in {"best", "fermi", "proportional"} /\ (asm.update.rule = "best" => asm.top.kind # "none")
    BY <1>1, AssemblyAssumption DEF GInv, Accepted, Async, UpdateCheck
  <2> QED BY <2>1, <2>2 DEF KnownAgents
<1>4. PICK b \in Sources(upd, top, held, local', a) : world' = [world EXCEPT !.held = [held EXCEPT ![a] = held[b]]]
  BY <1>2, <1>3 DEF Activate
<1>5. Implicit(asm.matching)
  BY <1>1 DEF GInv, Accepted, Async
<1>6. PICK full : full = FullPay(asm, held) /\ full \in [Agent -> Int]
  <2>1. PICK es \in Encounters(asm.matching, asm.top) : TRUE
    BY <1>5, OneList
  <2>2. AsmOK
    BY AsmIs DEF GInv
  <2>3. GameOK(asm.game) /\ MetOK(es, asm.game.roles) /\ asm.agg \in {"sum", "mean"}
    BY <2>2 DEF AsmOK
  <2>4. Averaged(asm.agg, Whole(es, held)).pay \in [Agent -> Int]
    BY <1>2, <2>3, FullTyped
  <2> QED BY <1>5, <2>4, FullIs
<1>7. Sources(upd, top, held, local', a) = Sources(upd, top, held, full, a)
  <2>1. PICK new : new = local' /\ \A c \in {a} \cup Partners(top, a) : new[c] = full[c]
    BY <1>1, <1>2, <1>3, <1>6, RefreshedFull
  <2>2. Sources(upd, top, held, new, a) = Sources(upd, top, held, full, a)
    BY <1>3, <2>1, SourcesSame
  <2> QED BY <2>1, <2>2
<1>8. b \in Agent /\ Justified(asm, held, a, b)
  <2>1. b \in Sources(upd, top, held, full, a)
    BY <1>4, <1>7
  <2>2. b \in Agent
    BY <1>2, <1>3, <1>6, <2>1, SourcesIn
  <2> QED BY <1>3, <1>5, <1>6, <2>1, <2>2 DEF Justified
<1>9. world'.held = [held EXCEPT ![a] = held[b]] /\ asm.update.mode = "async"
  BY <1>1, <1>4 DEF GInv, Async
<1>10. Profile!OneCopies
  BY <1>2, <1>8, <1>9 DEF Profile!OneCopies
<1>11. world'.held \in [Agent -> Action]
  BY <1>2, <1>8, <1>9
<1>12. TInv'
  BY <1>1, <1>11 DEF TInv, Async
<1> QED BY <1>1, <1>10, <1>12

\* An agent's decision changes its own action alone.
LEMMA DecidesOrKeeps ==
  ASSUME GInv, TInv, NEW d \in Agent, Decide(d)
  PROVE  UNCHANGED asm /\ (Profile!Decides \/ world'.held = world.held)
<1>1. asm' = asm /\ pc = "decide" /\ d \in todo
  BY DEF Decide
<1>2. d \in asm.rules /\ asm.update.mode = "none"
  BY <1>1, AssemblyAssumption DEF TInv, GInv, Accepted
<1>3. PICK q, held : /\ DecidedBy(d, world.plays, asm.game.roles, q, held)
                     /\ world' = [world EXCEPT !.plays = q, !.held = held]
  BY DecideIs
<1>4. world'.held = held /\ held \in [Agent -> Action] /\ world.held \in [Agent -> Action]
  BY <1>3 DEF GInv, TInv, DecidedBy
<1>5. CASE asm.scope = "step"
  <2>1. \A a \in Agent \ {d} : held[a] = world.held[a]
    BY <1>3, <1>5 DEF DecidedBy
  <2>2. held = [world.held EXCEPT ![d] = held[d]] /\ held[d] \in Action
    BY <1>4, <2>1
  <2> QED BY <1>1, <1>2, <1>4, <2>2 DEF Profile!Decides
<1>6. CASE asm.scope # "step"
  <2>1. \E p : world' = [world EXCEPT !.plays = p, !.held = world.held]
    BY <1>6 DEF Decide
  <2> QED BY <1>1, <2>1 DEF GInv
<1> QED BY <1>5, <1>6

\* Every other step leaves what agents hold.
LEMMA HeldKept ==
  ASSUME GInv, Clear \/ Match \/ SeatHeld \/ Play \/ PlayImplicit \/ Learn \/ Record \/ Measure
               \/ EndStep \/ Fail \/ Stopped \/ UNCHANGED vars
  PROVE  UNCHANGED asm /\ world'.held = world.held
<1>1. CASE Clear \/ Match \/ SeatHeld
  <2>1. CASE Clear
    BY <2>1 DEF Clear, GInv
  <2>2. CASE Match
    <3>1. asm' = asm /\ \E p : world' = [world EXCEPT !.plays = p]
      BY <2>2 DEF Match
    <3> QED BY <3>1 DEF GInv
  <2>3. CASE SeatHeld
    <3>1. asm' = asm /\ \E p : world' = [world EXCEPT !.plays = p]
      BY <2>3 DEF SeatHeld
    <3> QED BY <3>1 DEF GInv
  <2> QED BY <1>1, <2>1, <2>2, <2>3
<1>2. ASSUME NEW tabled, RecordPlays(tabled) PROVE world'.held = world.held
  <2>1. \E a, p, totals, recs, rows : Commit([world EXCEPT !.pairs = a, !.plays = p], totals, recs, rows)
    BY <1>2 DEF RecordPlays
  <2>2. PICK a, p, totals, recs, rows, w : w = [world EXCEPT !.pairs = a, !.plays = p] /\ Commit(w, totals, recs, rows)
    BY <2>1
  <2>3. \E x, y, z, u : world' = [w EXCEPT !.payoff = x, !.n = y, !.steps = z, !.aggs = u]
    BY <2>2 DEF Commit
  <2> QED BY <2>2, <2>3 DEF GInv
<1>8. CASE Play
  BY <1>2, <1>8 DEF Play
<1>3. ASSUME NEW v \in {world, Emptied}, NEW tabled, RecordImplicit(v, tabled) PROVE world'.held = world.held
  <2>0. v.held = world.held /\ "held" \in DOMAIN v
    BY EmptiedKeeps DEF GInv
  <2>1. PICK c, totals, recs, rows, w : w = [v EXCEPT !.counts = c] /\ Commit(w, totals, recs, rows)
    BY <1>3 DEF RecordImplicit
  <2>2. \E x, y, z, u : world' = [w EXCEPT !.payoff = x, !.n = y, !.steps = z, !.aggs = u]
    BY <2>1 DEF Commit
  <2> QED BY <2>0, <2>1, <2>2
<1>4. CASE PlayImplicit
  BY <1>3, <1>4 DEF PlayImplicit
<1>5. CASE Record
  BY <1>3, <1>5 DEF Record
<1>6. CASE Fail
  <2>1. asm' = asm
    BY <1>6 DEF Fail
  <2>2. CASE KernelFails
    <3>1. \E x, y, p : world' = [world EXCEPT !.payoff = x, !.n = y, !.plays = p]
      BY <2>2 DEF KernelFails
    <3> QED BY <2>1, <3>1 DEF GInv
  <2>5. CASE ImplicitFails
    <3>1. \E x, y, p : world' = [world EXCEPT !.payoff = x, !.n = y, !.counts = p]
      BY <2>5 DEF ImplicitFails
    <3> QED BY <2>1, <3>1 DEF GInv
  <2>3. CASE RowFails
    BY <1>2, <1>3, <2>1, <2>3 DEF RowFails
  <2>4. CASE UNCHANGED <<world, log>>
    BY <2>1, <2>4
  <2> QED BY <1>6, <2>2, <2>3, <2>4, <2>5 DEF Fail
<1>7. CASE Learn \/ Measure \/ EndStep \/ Stopped \/ UNCHANGED vars
  BY <1>7 DEF Learn, Measure, EndStep, Stopped, vars
<1> QED BY <1>1, <1>4, <1>5, <1>6, <1>7, <1>8

LEMMA TNext == GInv /\ TInv /\ [Next]_vars => TInv'
<1> SUFFICES ASSUME GInv, TInv, [Next]_vars PROVE TInv'
  OBVIOUS
<1>1. CASE Record \/ Measure \/ EndStep \/ Fail
  <2>1. asm' = asm /\ world'.held = world.held
    BY <1>1, HeldKept
  <2>2. pc' \in {"idle", "post", "end"}
    BY <1>1 DEF Record, Measure, EndStep, Fail
  <2> QED BY <2>1, <2>2, TKept
<1>2. CASE Stopped \/ UNCHANGED vars
  <2>1. UNCHANGED <<asm, world, pc, todo>>
    BY <1>2 DEF Stopped, vars
  <2>2. asm.rules = {} /\ ~Async /\ pc \in {"reward", "update"} => FullPays(world.payoff, world.held)'
    <3>1. asm.rules = {} /\ ~Async /\ pc \in {"reward", "update"} => FullPays(world'.payoff, world'.held)
      BY <2>1 DEF TInv
    <3> QED BY <2>1, <3>1, StaysFull
  <2> QED BY <2>1, <2>2 DEF TInv, Async, Fresh
<1>3. CASE \E a \in Agent : Decide(a) \/ Activate(a)
  BY <1>3, TDecide, ActivateIs
<1> QED BY <1>1, <1>2, <1>3, TClear, TMatch, TSeatHeld, TPlay, TPlayImplicit, TLearn, ImitateIs, MoranIs DEF Next

\* Each step is a change of the profile that the update rule allows, or none.
LEMMA StepOfProfile == GInv /\ TInv /\ [Next]_vars => [Profile!Next]_<<asm, world.held>>
<1> SUFFICES ASSUME GInv, TInv, [Next]_vars PROVE [Profile!Next]_<<asm, world.held>>
  OBVIOUS
<1>1. CASE \E a \in Agent : Decide(a)
  BY <1>1, DecidesOrKeeps DEF Profile!Next
<1>2. CASE \E a \in Agent : Activate(a)
  BY <1>2, ActivateIs DEF Profile!Next
<1>3. CASE Imitate
  BY <1>3, ImitateIs DEF Profile!Next
<1>4. CASE Moran
  BY <1>4, MoranIs DEF Profile!Next
<1>5. CASE Clear \/ Match \/ SeatHeld \/ Play \/ PlayImplicit \/ Learn \/ Record \/ Measure
           \/ EndStep \/ Fail \/ Stopped \/ UNCHANGED vars
  BY <1>5, HeldKept
<1> QED BY <1>1, <1>2, <1>3, <1>4, <1>5 DEF Next

\* A game world, with its matchings, its payoff tables, its failed steps and its
\* local payoffs, implements the profile that Evolution describes: whatever agents
\* copy or bear is justified by what full play of the profile of that very moment
\* pays, and never by a payoff an earlier activation, step or failure left behind.
THEOREM GameTruePayoffs == Spec => TruePayoffs
<1>1. Init => GInv /\ TInv /\ Profile!Init
  <2>1. Init => world.held \in [Agent -> Action]
    BY TInit DEF TInv
  <2> QED BY <2>1, GInit, TInit DEF Profile!Init
<1>2. GInv /\ TInv /\ [Next]_vars => GInv' /\ TInv'
  BY GNext, TNext, StepAssumption
<1>3. GInv /\ TInv /\ [Next]_vars => [Profile!Next]_<<asm, world.held>>
  BY StepOfProfile
<1> QED BY <1>1, <1>2, <1>3, PTL DEF Spec, TruePayoffs, Profile!Spec

-----------------------------------------------------------------------------
(* The range of payoffs *)

\* Numbers between c times low and c times high sum up to as much.
Between(x, c, low, high) == c * low <= x /\ x <= c * high

LEMMA BetweenSum ==
  ASSUME NEW low \in Int, NEW high \in Int, NEW x \in Int, NEW c \in Int, NEW y \in Int, NEW d \in Int,
         Between(x, c, low, high), Between(y, d, low, high)
  PROVE  Between(x + y, c + d, low, high)
<1>1. (c + d) * low = c * low + d * low /\ (c + d) * high = c * high + d * high
  OBVIOUS
<1>2. c * low \in Int /\ d * low \in Int /\ c * high \in Int /\ d * high \in Int
  OBVIOUS
<1> QED BY <1>1, <1>2 DEF Between

LEMMA TotalBetween ==
  ASSUME NEW low \in Int, NEW high \in Int, NEW s \in Seq(Int), NEW c \in Seq(Int), Len(c) = Len(s),
         \A k \in 1 .. Len(s) : Between(s[k], c[k], low, high)
  PROVE  Between(Total(s), Total(c), low, high)
<1>0. PICK N \in Nat : N = Len(s)
  OBVIOUS
<1>1. PICK f : Sums(f, s) /\ Total(s) = f[N]
  BY <1>0, TotalRun
<1>2. PICK g : Sums(g, c) /\ Total(c) = g[N]
  BY <1>0, TotalRun
<1> DEFINE T == {k \in Nat : k <= N => f[k] \in Int /\ g[k] \in Int /\ Between(f[k], g[k], low, high)}
<1>3. 0 \in T
  <2>1. f[0] = 0 /\ g[0] = 0 /\ 0 * low = 0 /\ 0 * high = 0
    BY <1>1, <1>2 DEF Sums
  <2> QED BY <2>1 DEF Between
<1>4. ASSUME NEW k \in Nat, k \in T PROVE k + 1 \in T
  <2>1. (k + 1) - 1 = k
    OBVIOUS
  <2>2. ASSUME k + 1 <= N
        PROVE  f[k + 1] \in Int /\ g[k + 1] \in Int /\ Between(f[k + 1], g[k + 1], low, high)
    <3>1. k + 1 \in 1 .. N /\ f[k] \in Int /\ g[k] \in Int /\ Between(f[k], g[k], low, high)
      BY <1>4, <2>2
    <3>2. f[k + 1] = f[k] + s[k + 1] /\ g[k + 1] = g[k] + c[k + 1]
      BY <1>0, <1>1, <1>2, <2>1, <3>1 DEF Sums
    <3>5. k + 1 \in 1 .. Len(s) /\ k + 1 \in 1 .. Len(c)
      BY <1>0, <3>1
    <3>6. Between(s[k + 1], c[k + 1], low, high)
      BY <3>5
    <3>7. s[k + 1] \in Int /\ c[k + 1] \in Int
      BY <3>5
    <3>3. PICK x \in Int, y \in Int : x = s[k + 1] /\ y = c[k + 1] /\ Between(x, y, low, high)
      BY <3>6, <3>7
    <3>4. Between(f[k] + x, g[k] + y, low, high)
      BY <3>1, <3>3, BetweenSum
    <3>8. f[k + 1] = f[k] + x /\ g[k + 1] = g[k] + y
      BY <3>2, <3>3
    <3>9. f[k] + x \in Int /\ g[k] + y \in Int
      BY <3>1
    <3> QED BY <3>4, <3>8, <3>9
  <2> QED BY <2>2
<1>5. N \in T
  <2> HIDE DEF T
  <2> QED BY <1>0, <1>3, <1>4, Induct
<1> QED BY <1>0, <1>1, <1>2, <1>5

\* A number for each member of a set adds up to its size.
LEMMA TotalOfSet ==
  ASSUME NEW n \in Nat, NEW S, S \subseteq 1 .. n
  PROVE  /\ [r \in 1 .. n |-> IF r \in S THEN 1 ELSE 0] \in Seq(Int)
         /\ Total([r \in 1 .. n |-> IF r \in S THEN 1 ELSE 0]) = Cardinality(S)
<1>1. PICK c : c = [r \in 1 .. n |-> IF r \in S THEN 1 ELSE 0]
  OBVIOUS
<1>2. c \in Seq(Int) /\ Len(c) = n /\ \A r \in 1 .. n : c[r] = IF r \in S THEN 1 ELSE 0
  BY <1>1
<1>3. PICK g : Sums(g, c) /\ Total(c) = g[n]
  BY <1>2, TotalRun
<1> DEFINE T == {k \in Nat : k <= n => IsFiniteSet(S \cap (1 .. k)) /\ g[k] = Cardinality(S \cap (1 .. k))}
<1>4. 0 \in T
  <2>1. S \cap (1 .. 0) = {}
    OBVIOUS
  <2> QED BY <1>3, <2>1, FS_EmptySet DEF Sums
<1>5. ASSUME NEW k \in Nat, k \in T PROVE k + 1 \in T
  <2>1. (k + 1) - 1 = k
    OBVIOUS
  <2>2. ASSUME k + 1 <= n
        PROVE  IsFiniteSet(S \cap (1 .. k + 1)) /\ g[k + 1] = Cardinality(S \cap (1 .. k + 1))
    <3>1. k + 1 \in 1 .. n /\ IsFiniteSet(S \cap (1 .. k)) /\ g[k] = Cardinality(S \cap (1 .. k))
      BY <1>5, <2>2
    <3>2. g[k + 1] = g[k] + c[k + 1]
      BY <1>2, <1>3, <2>1, <3>1 DEF Sums
    <3>3. CASE k + 1 \in S
      <4>1. S \cap (1 .. k + 1) = (S \cap (1 .. k)) \cup {k + 1} /\ k + 1 \notin S \cap (1 .. k)
        BY <3>3
      <4>2. IsFiniteSet(S \cap (1 .. k + 1)) /\ Cardinality(S \cap (1 .. k + 1)) = Cardinality(S \cap (1 .. k)) + 1
        BY <3>1, <4>1, FS_AddElement
      <4> QED BY <1>2, <3>1, <3>2, <3>3, <4>2
    <3>4. CASE k + 1 \notin S
      <4>1. S \cap (1 .. k + 1) = S \cap (1 .. k)
        BY <3>4
      <4>2. g[k] \in Nat
        BY <3>1, FS_CardinalityType
      <4>3. c[k + 1] = 0
        BY <1>2, <3>1, <3>4
      <4>4. g[k + 1] = g[k]
        BY <3>2, <4>2, <4>3
      <4> QED BY <3>1, <4>1, <4>4
    <3> QED BY <3>3, <3>4
  <2> QED BY <2>2
<1>6. n \in T
  <2> HIDE DEF T
  <2> QED BY <1>4, <1>5, Induct
<1>7. S \cap (1 .. n) = S
  BY Zenon
<1>8. n <= n
  OBVIOUS
<1> QED BY <1>1, <1>2, <1>3, <1>6, <1>7, <1>8

\* Seats paid between low and high each pay that much for every one of them.
LEMMA SeatsBetween ==
  ASSUME NEW n \in Nat, NEW pays \in [1 .. n -> Int], NEW S, S \subseteq 1 .. n, NEW low \in Int, NEW high \in Int,
         \A r \in 1 .. n : low <= Scale * pays[r] /\ Scale * pays[r] <= high
  PROVE  Between(Scale * SeatSum(pays, S), Cardinality(S), low, high)
<1>1. PICK s : s = [r \in 1 .. n |-> IF r \in S THEN pays[r] ELSE 0] /\ SeatSum(pays, S) = Total(s) /\ s \in Seq(Int)
  <2>1. PICK s : s = [r \in 1 .. n |-> IF r \in S THEN pays[r] ELSE 0]
    OBVIOUS
  <2> QED BY <2>1, SeatSumTyped
<1>2. PICK c : c = [r \in 1 .. n |-> IF r \in S THEN 1 ELSE 0] /\ Total(c) = Cardinality(S) /\ c \in Seq(Int)
  <2>1. PICK c : c = [r \in 1 .. n |-> IF r \in S THEN 1 ELSE 0]
    OBVIOUS
  <2> QED BY <2>1, TotalOfSet
<1>3. PICK u : u = [r \in 1 .. n |-> IF r \in S THEN Scale * pays[r] ELSE 0]
  OBVIOUS
<1>4. u \in Seq(Int) /\ Len(u) = n /\ Len(s) = n /\ Len(c) = n
  BY <1>1, <1>2, <1>3 DEF Scale
<1>5. ASSUME NEW r \in 1 .. n PROVE u[r] = Scale * s[r] /\ Between(u[r], c[r], low, high)
  <2>1. PICK x \in Int : x = pays[r] /\ low <= Scale * x /\ Scale * x <= high
    OBVIOUS
  <2>2. CASE r \in S
    <3>1. u[r] = Scale * x /\ s[r] = x /\ c[r] = 1
      BY <1>1, <1>2, <1>3, <2>1, <2>2
    <3>2. 1 * low = low /\ 1 * high = high
      OBVIOUS
    <3> QED BY <2>1, <3>1, <3>2 DEF Between
  <2>3. CASE r \notin S
    <3>1. u[r] = 0 /\ s[r] = 0 /\ c[r] = 0
      BY <1>1, <1>2, <1>3, <2>3
    <3>2. 0 * low = 0 /\ 0 * high = 0 /\ Scale * 0 = 0
      BY DEF Scale
    <3> QED BY <3>1, <3>2 DEF Between
  <2> QED BY <2>2, <2>3
<1>6. Total(u) = Scale * Total(s)
  <2>1. s \in Seq(Int) /\ Len(u) = Len(s) /\ \A r \in 1 .. Len(s) : u[r] = Scale * s[r]
    BY <1>1, <1>4, <1>5
  <2> QED BY <1>4, <2>1, TotalScaled
<1>7. Between(Total(u), Total(c), low, high)
  <2>1. c \in Seq(Int) /\ Len(c) = Len(u) /\ \A r \in 1 .. Len(u) : Between(u[r], c[r], low, high)
    BY <1>2, <1>4, <1>5
  <2> QED BY <1>4, <2>1, TotalBetween
<1> QED BY <1>1, <1>2, <1>6, <1>7

\* What the table of a game pays a seat lies between low and high.
Pays(game, low, high) ==
  /\ low \in Int /\ high \in Int
  /\ \A x \in Action, k \in 0 .. game.roles - 1 : low <= Scale * game.pay[x][k] /\ Scale * game.pay[x][k] <= high

LEMMA EachBetween ==
  ASSUME NEW es, GameOK(asm.game), MetOK(es, asm.game.roles), NEW held \in [Agent -> Action], NEW b,
         NEW low, NEW high, Pays(asm.game, low, high)
  PROVE  Between(Total(EachPays(es, held, b)), Total(EachTime(es, b)), low, high)
<1>1. PICK roles \in Nat \ {0} : roles = asm.game.roles
  BY DEF GameOK
<1>2. PICK N \in Nat : N = Len(es)
  BY DEF MetOK
<1>3. PICK s \in Seq(Int), c \in Seq(Int) : s = EachPays(es, held, b) /\ c = EachTime(es, b) /\ Len(s) = N /\ Len(c) = N
  BY <1>2, EachTyped
<1>4. ASSUME NEW k \in 1 .. N PROVE Between(s[k], c[k], low, high)
  <2>1. PICK e \in Encounter : e = es[k] /\ Len(e.seats) = roles
    BY <1>1, <1>2 DEF MetOK
  <2>2. Seated(held, e) \in [1 .. roles -> Action] /\ DOMAIN e.seats = 1 .. roles
    BY <2>1, SeatedTyped
  <2> DEFINE V == {x \in Int : low <= Scale * x /\ Scale * x <= high}
  <2>3. asm.game.pay \in [Action -> [0 .. roles - 1 -> V]]
    <3>1. PICK pay \in [Action -> [0 .. roles - 1 -> Int]] : pay = asm.game.pay
      BY <1>1 DEF GameOK
    <3>2. ASSUME NEW x \in Action PROVE pay[x] \in [0 .. roles - 1 -> V]
      <4>1. \A i \in 0 .. roles - 1 : pay[x][i] \in V
        BY <1>1, <3>1 DEF Pays
      <4> HIDE DEF V
      <4> QED BY <4>1
    <3> HIDE DEF V
    <3> QED BY <3>1, <3>2
  <2>4. PICK pays : pays = SeatPayoffs(asm.game, asm.play, Seated(held, e))
    OBVIOUS
  <2>5. pays \in [1 .. roles -> V]
    <3> HIDE DEF V
    <3> QED BY <1>1, <2>2, <2>3, <2>4, PaysFrom
  <2>6. pays \in [1 .. roles -> Int] /\ \A r \in 1 .. roles : low <= Scale * pays[r] /\ Scale * pays[r] <= high
    BY <2>5
  <2> HIDE DEF V
  <2>7. PICK S : S = PaidSeats(e, b) /\ S \subseteq 1 .. roles
    <3>1. PaidSeats(e, b) \subseteq 1 .. roles
      BY <1>1, <2>2 DEF PaidSeats, Credited
    <3> QED BY <3>1
  <2>8. low \in Int /\ high \in Int
    BY DEF Pays
  <2>9. Between(Scale * SeatSum(pays, S), Cardinality(S), low, high)
    BY <2>6, <2>7, <2>8, SeatsBetween
  <2>10. s[k] = Scale * SeatSum(pays, S) /\ c[k] = Cardinality(S)
    BY <1>2, <1>3, <2>1, <2>4, <2>7 DEF EachPays, EachTime
  <2> QED BY <2>9, <2>10
<1>5. low \in Int /\ high \in Int
  BY DEF Pays
<1> QED BY <1>3, <1>4, <1>5, TotalBetween

\* A set of numbers with a least one, and with a greatest.
LEMMA MinOf ==
  ASSUME NEW S, S \subseteq Int, \E x \in S : \A y \in S : x <= y
  PROVE  Min(S) \in S /\ Min(S) \in Int /\ \A y \in S : Min(S) <= y
BY DEF Min

LEMMA MaxOf ==
  ASSUME NEW S, S \subseteq Int, \E x \in S : \A y \in S : x >= y
  PROVE  Max(S) \in S /\ Max(S) \in Int /\ \A y \in S : y <= Max(S)
BY DEF Max

\* A row of a table has a least and a greatest entry.
LEMMA EndsOfRow ==
  ASSUME NEW n \in Nat \ {0}, NEW f \in [0 .. n - 1 -> Int]
  PROVE  /\ \E i \in 0 .. n - 1 : \A j \in 0 .. n - 1 : f[i] <= f[j]
         /\ \E i \in 0 .. n - 1 : \A j \in 0 .. n - 1 : f[i] >= f[j]
<1> DEFINE Low(m)  == \E i \in 0 .. m : \A j \in 0 .. m : f[i] <= f[j]
           High(m) == \E i \in 0 .. m : \A j \in 0 .. m : f[i] >= f[j]
           T == {m \in Nat : m <= n - 1 => Low(m) /\ High(m)}
<1>1. 0 \in T
  <2>1. 0 .. 0 = {0} /\ f[0] \in Int
    OBVIOUS
  <2> QED BY <2>1
<1>2. ASSUME NEW m \in Nat, m \in T PROVE m + 1 \in T
  <2>1. SUFFICES ASSUME m + 1 <= n - 1 PROVE Low(m + 1) /\ High(m + 1)
    OBVIOUS
  <2>2. Low(m) /\ High(m) /\ \A j \in 0 .. m + 1 : f[j] \in Int
    BY <1>2, <2>1
  <2>3. 0 .. m + 1 = (0 .. m) \cup {m + 1}
    OBVIOUS
  <2>4. Low(m + 1)
    <3>1. PICK i \in 0 .. m : \A j \in 0 .. m : f[i] <= f[j]
      BY <2>2
    <3>2. CASE f[i] <= f[m + 1]
      BY <2>2, <2>3, <3>1, <3>2
    <3>3. CASE ~(f[i] <= f[m + 1])
      <4>1. \A j \in 0 .. m + 1 : f[m + 1] <= f[j]
        BY <2>2, <2>3, <3>1, <3>3
      <4> QED BY <2>3, <4>1
    <3> QED BY <3>2, <3>3
  <2>5. High(m + 1)
    <3>1. PICK i \in 0 .. m : \A j \in 0 .. m : f[i] >= f[j]
      BY <2>2
    <3>2. CASE f[i] >= f[m + 1]
      BY <2>2, <2>3, <3>1, <3>2
    <3>3. CASE ~(f[i] >= f[m + 1])
      <4>1. \A j \in 0 .. m + 1 : f[m + 1] >= f[j]
        BY <2>2, <2>3, <3>1, <3>3
      <4> QED BY <2>3, <4>1
    <3> QED BY <3>2, <3>3
  <2> HIDE DEF Low, High
  <2> QED BY <2>4, <2>5
<1>3. n - 1 \in T
  <2>1. n - 1 \in Nat
    OBVIOUS
  <2> HIDE DEF T
  <2> QED BY <1>1, <1>2, <2>1, Induct
<1>4. n - 1 <= n - 1
  OBVIOUS
<1> QED BY <1>3, <1>4

\* What the checks compute of a game bounds every payoff of its table.
Entries(n, pay) == {Scale * pay[x][k] : x \in Action, k \in 0 .. n - 1}

LEMMA EndsOfTable ==
  ASSUME NEW n \in Nat \ {0}, NEW pay \in [Action -> [0 .. n - 1 -> Int]]
  PROVE  /\ Entries(n, pay) \subseteq Int
         /\ \E x \in Entries(n, pay) : \A y \in Entries(n, pay) : x <= y
         /\ \E x \in Entries(n, pay) : \A y \in Entries(n, pay) : x >= y
<1>0. PICK S : S = Entries(n, pay)
  OBVIOUS
<1>1. Action = {0, 1} /\ 0 \in Action /\ 1 \in Action /\ Scale = 6
  BY DEF Action, Scale
<1>2. PICK f \in [0 .. n - 1 -> Int], g \in [0 .. n - 1 -> Int] : f = pay[0] /\ g = pay[1]
  BY <1>1
<1>3. \A k \in 0 .. n - 1 : Scale * f[k] \in S /\ Scale * g[k] \in S
  BY <1>0, <1>1, <1>2 DEF Entries
<1>4. \A y \in S : \E k \in 0 .. n - 1 : y = Scale * f[k] \/ y = Scale * g[k]
  BY <1>0, <1>1, <1>2 DEF Entries
<1>5. S \subseteq Int
  <2>1. \A k \in 0 .. n - 1 : Scale * f[k] \in Int /\ Scale * g[k] \in Int
    BY <1>1
  <2> QED BY <1>4, <2>1
<1>6. \A u, v \in Int : u <= v => Scale * u <= Scale * v
  BY <1>1
<1>7. \E x \in S : \A y \in S : x <= y
  <2>1. PICK i \in 0 .. n - 1 : \A j \in 0 .. n - 1 : f[i] <= f[j]
    BY EndsOfRow
  <2>2. PICK h \in 0 .. n - 1 : \A j \in 0 .. n - 1 : g[h] <= g[j]
    BY EndsOfRow
  <2>3. CASE f[i] <= g[h]
    <3>1. \A k \in 0 .. n - 1 : f[i] <= f[k] /\ f[i] <= g[k]
      BY <2>1, <2>2, <2>3
    <3>2. \A k \in 0 .. n - 1 : Scale * f[i] <= Scale * f[k] /\ Scale * f[i] <= Scale * g[k]
      BY <1>6, <3>1
    <3>3. Scale * f[i] \in S
      BY <1>3
    <3> QED BY <1>4, <3>2, <3>3
  <2>4. CASE ~(f[i] <= g[h])
    <3>1. \A k \in 0 .. n - 1 : g[h] <= f[k] /\ g[h] <= g[k]
      BY <2>1, <2>2, <2>4
    <3>2. \A k \in 0 .. n - 1 : Scale * g[h] <= Scale * f[k] /\ Scale * g[h] <= Scale * g[k]
      BY <1>6, <3>1
    <3>3. Scale * g[h] \in S
      BY <1>3
    <3> QED BY <1>4, <3>2, <3>3
  <2> QED BY <2>3, <2>4
<1>8. \E x \in S : \A y \in S : x >= y
  <2>1. PICK i \in 0 .. n - 1 : \A j \in 0 .. n - 1 : f[i] >= f[j]
    BY EndsOfRow
  <2>2. PICK h \in 0 .. n - 1 : \A j \in 0 .. n - 1 : g[h] >= g[j]
    BY EndsOfRow
  <2>3. CASE f[i] >= g[h]
    <3>1. \A k \in 0 .. n - 1 : f[k] <= f[i] /\ g[k] <= f[i]
      BY <2>1, <2>2, <2>3
    <3>2. \A k \in 0 .. n - 1 : Scale * f[k] <= Scale * f[i] /\ Scale * g[k] <= Scale * f[i]
      BY <1>6, <3>1
    <3>3. Scale * f[i] \in S /\ \A u, v \in Int : u <= v => v >= u
      BY <1>3
    <3>4. \A y \in S : y <= Scale * f[i]
      BY <1>4, <3>2
    <3> QED BY <1>5, <3>3, <3>4
  <2>4. CASE ~(f[i] >= g[h])
    <3>1. \A k \in 0 .. n - 1 : f[k] <= g[h] /\ g[k] <= g[h]
      BY <2>1, <2>2, <2>4
    <3>2. \A k \in 0 .. n - 1 : Scale * f[k] <= Scale * g[h] /\ Scale * g[k] <= Scale * g[h]
      BY <1>6, <3>1
    <3>3. Scale * g[h] \in S /\ \A u, v \in Int : u <= v => v >= u
      BY <1>3
    <3>4. \A y \in S : y <= Scale * g[h]
      BY <1>4, <3>2
    <3> QED BY <1>5, <3>3, <3>4
  <2> QED BY <2>3, <2>4
<1> QED BY <1>0, <1>5, <1>7, <1>8

LEMMA SinglePays ==
  ASSUME NEW game, GameOK(game)
  PROVE  Pays(game, SingleRange(game).low, SingleRange(game).high)
<1>1. PICK n \in Nat \ {0} : n = game.roles
  BY DEF GameOK
<1>2. PICK pay \in [Action -> [0 .. n - 1 -> Int]] : pay = game.pay
  BY <1>1 DEF GameOK
<1>3. PICK S : S = Entries(n, pay)
  OBVIOUS
<1>4. \A x \in Action, k \in 0 .. n - 1 : Scale * pay[x][k] \in S
  BY <1>3 DEF Entries
<1>5. SingleRange(game) = [low |-> Min(S), high |-> Max(S)]
  BY <1>1, <1>2, <1>3 DEF SingleRange, Entries
<1>6. SingleRange(game).low = Min(S) /\ SingleRange(game).high = Max(S)
  BY <1>5
<1>7. /\ Min(S) \in Int /\ \A y \in S : Min(S) <= y
      /\ Max(S) \in Int /\ \A y \in S : y <= Max(S)
  BY <1>3, EndsOfTable, MinOf, MaxOf
<1> QED BY <1>1, <1>2, <1>4, <1>6, <1>7 DEF Pays

\* Products grow with their factors.
LEMMA Grows ==
  ASSUME NEW x \in Int, NEW y \in Int, NEW c \in Nat, x <= y
  PROVE  c * x <= c * y
<1> DEFINE T == {k \in Nat : k * x <= k * y}
<1>1. 0 \in T
  OBVIOUS
<1>2. ASSUME NEW k \in Nat, k \in T PROVE k + 1 \in T
  <2>1. (k + 1) * x = k * x + x /\ (k + 1) * y = k * y + y /\ k * x \in Int /\ k * y \in Int
    OBVIOUS
  <2> QED BY <1>2, <2>1
<1>3. c \in T
  <2> HIDE DEF T
  <2> QED BY <1>1, <1>2, Induct
<1> QED BY <1>3

\* A range that agents who may sit out widen to zero.
LEMMA WithZeroIs ==
  ASSUME NEW low \in Int, NEW high \in Int, NEW fewest
  PROVE  LET range == WithZero([low |-> low, high |-> high], fewest)
         IN  /\ range.low \in Int /\ range.high \in Int /\ range.low <= low /\ high <= range.high
             /\ fewest = 0 => range.low <= 0 /\ 0 <= range.high
<1>1. PICK single : single = [low |-> low, high |-> high]
  OBVIOUS
<1>2. CASE fewest = 0
  <2>1. PICK A, B : A = {low, 0} /\ B = {high, 0}
    OBVIOUS
  <2>2. A \subseteq Int /\ B \subseteq Int /\ (\E x \in A : \A y \in A : x <= y) /\ (\E x \in B : \A y \in B : x >= y)
    BY <2>1
  <2>3. PICK range : range = [low |-> Min(A), high |-> Max(B)]
    OBVIOUS
  <2>4. WithZero(single, fewest) = range
    BY <1>1, <1>2, <2>1, <2>3 DEF WithZero
  <2>5. /\ Min(A) \in Int /\ Max(B) \in Int /\ (\A y \in A : Min(A) <= y) /\ (\A y \in B : y <= Max(B))
    BY <2>2, MinOf, MaxOf
  <2>6. Min(A) <= low /\ Min(A) <= 0 /\ high <= Max(B) /\ 0 <= Max(B)
    BY <2>1, <2>5
  <2> QED BY <1>1, <2>3, <2>4, <2>5, <2>6
<1>3. CASE fewest # 0
  BY <1>1, <1>3 DEF WithZero
<1> QED BY <1>2, <1>3

\* A whole quotient lies between the same numbers as its dividend does that often.
LEMMA QuotientBetween ==
  ASSUME NEW low \in Int, NEW high \in Int, NEW x \in Int, NEW n \in Nat \ {0}, Between(x, n, low, high)
  PROVE  low <= x \div n /\ x \div n <= high
<1>1. PICK q \in Int : q = x \div n
  OBVIOUS
<1>2. PICK p \in Int, u \in Int, v \in Int : p = n * q /\ u = n * low /\ v = n * high
  OBVIOUS
<1>3. p <= x /\ x < p + n /\ u <= x /\ x <= v
  <2>1. x = n * (x \div n) + (x % n) /\ 0 <= x % n /\ x % n < n /\ x % n \in Int
    OBVIOUS
  <2> QED BY <1>1, <1>2, <2>1 DEF Between
<1>4. low <= q
  <2>1. SUFFICES ASSUME q + 1 <= low PROVE FALSE
    OBVIOUS
  <2>2. n * (q + 1) <= n * low
    BY <2>1, Grows
  <2>3. n * (q + 1) = n * q + n
    OBVIOUS
  <2> QED BY <1>2, <1>3, <2>2, <2>3
<1>5. q <= high
  <2>1. SUFFICES ASSUME high + 1 <= q PROVE FALSE
    OBVIOUS
  <2>2. n * (high + 1) <= n * q
    BY <2>1, Grows
  <2>3. n * (high + 1) = n * high + n
    OBVIOUS
  <2> QED BY <1>2, <1>3, <2>2, <2>3
<1> QED BY <1>1, <1>4, <1>5

\* Between two factors a product lies beyond the one or the other.
LEMMA EndsOfProduct ==
  ASSUME NEW m \in Nat, NEW n \in Nat, NEW c \in Nat, m <= n, n <= c, NEW p \in Int
  PROVE  (m * p <= n * p \/ c * p <= n * p) /\ (n * p <= m * p \/ n * p <= c * p)
<1>1. CASE p >= 0
  <2>1. p \in Nat /\ m \in Int /\ n \in Int /\ c \in Int
    BY <1>1
  <2>2. p * m <= p * n /\ p * n <= p * c
    BY <2>1, Grows
  <2>3. p * m = m * p /\ p * n = n * p /\ p * c = c * p
    OBVIOUS
  <2> QED BY <2>2, <2>3
<1>2. CASE p < 0
  <2>1. PICK o \in Nat : p = -o
    <3>1. -p \in Nat /\ p = -(-p)
      BY <1>2
    <3> QED BY <3>1
  <2>2. o * m <= o * n /\ o * n <= o * c
    BY Grows
  <2>3. m * p = -(o * m) /\ n * p = -(o * n) /\ c * p = -(o * c)
    BY <2>1
  <2>4. o * m \in Int /\ o * n \in Int /\ o * c \in Int
    OBVIOUS
  <2> QED BY <2>2, <2>3, <2>4
<1> QED BY <1>1, <1>2

\* How often an agent plays agrees with the bounds that an update was checked with.
AsOften(n, bounds, agg) ==
  \/ bounds = NoBounds /\ agg = "mean"
  \/ bounds.min \in Nat /\ bounds.max \in Nat /\ bounds.min <= n /\ n <= bounds.max
InRange(x, range) == range.low \in Int /\ range.high \in Int /\ range.low <= x /\ x <= range.high

LEMMA SumInRange ==
  ASSUME NEW low \in Int, NEW high \in Int, NEW sum \in Int, NEW n \in Nat, Between(sum, n, low, high),
         NEW bounds, AsOften(n, bounds, "sum")
  PROVE  InRange(sum, StepRange([low |-> low, high |-> high], bounds, "sum"))
<1>1. PICK m \in Nat, most \in Nat : m = bounds.min /\ most = bounds.max /\ m <= n /\ n <= most
  BY DEF AsOften
<1>2. PICK single : single = [low |-> low, high |-> high]
  OBVIOUS
<1>3. PICK E : E = {m * low, m * high, most * low, most * high}
  OBVIOUS
<1>4. PICK u \in Int, v \in Int, w \in Int, z \in Int : u = m * low /\ v = m * high /\ w = most * low /\ z = most * high
  OBVIOUS
<1>5. E = {u, v, w, z}
  BY <1>3, <1>4
<1>6. E \subseteq Int
  BY <1>5
<1>7. (\E x \in E : \A y \in E : x <= y) /\ (\E x \in E : \A y \in E : x >= y)
  <2>1. PICK x \in {u, v} : x <= u /\ x <= v
    OBVIOUS
  <2>2. PICK y \in {w, z} : y <= w /\ y <= z
    OBVIOUS
  <2>3. \E e \in E : \A f \in E : e <= f
    <3>1. CASE x <= y
      BY <1>5, <2>1, <2>2, <3>1
    <3>2. CASE ~(x <= y)
      BY <1>5, <2>1, <2>2, <3>2
    <3> QED BY <3>1, <3>2
  <2>4. PICK a \in {u, v} : a >= u /\ a >= v
    OBVIOUS
  <2>5. PICK b \in {w, z} : b >= w /\ b >= z
    OBVIOUS
  <2>6. \E e \in E : \A f \in E : e >= f
    <3>1. CASE a >= b
      BY <1>5, <2>4, <2>5, <3>1
    <3>2. CASE ~(a >= b)
      BY <1>5, <2>4, <2>5, <3>2
    <3> QED BY <3>1, <3>2
  <2> QED BY <2>3, <2>6
<1>8. PICK d \in Int, e \in Int : /\ d = Min(E) /\ e = Max(E)
                                 /\ d <= u /\ d <= v /\ d <= w /\ d <= z
                                 /\ u <= e /\ v <= e /\ w <= e /\ z <= e
  <2>1. Min(E) \in Int /\ (\A y \in E : Min(E) <= y) /\ Max(E) \in Int /\ \A y \in E : y <= Max(E)
    BY <1>6, <1>7, MinOf, MaxOf
  <2> QED BY <1>5, <2>1
<1>9. d <= n * low /\ n * high <= e
  <2>1. (m * low <= n * low \/ most * low <= n * low) /\ (n * high <= m * high \/ n * high <= most * high)
    BY <1>1, EndsOfProduct
  <2>2. n * low \in Int /\ n * high \in Int
    OBVIOUS
  <2> QED BY <1>4, <1>8, <2>1, <2>2
<1>10. d <= sum /\ sum <= e
  <2>1. n * low \in Int /\ n * high \in Int
    OBVIOUS
  <2> QED BY <1>9, <2>1 DEF Between
<1>11. PICK range : range = WithZero([low |-> d, high |-> e], m)
  OBVIOUS
<1>12. range.low \in Int /\ range.high \in Int /\ range.low <= d /\ e <= range.high
  BY <1>11, WithZeroIs
<1>13. Ends(single, bounds) = E
  BY <1>1, <1>2, <1>3 DEF Ends
<1>14. StepRange(single, bounds, "sum") = range
  <2>1. StepRange(single, bounds, "sum") = WithZero([low |-> Min(E), high |-> Max(E)], bounds.min)
    BY <1>13 DEF StepRange
  <2> QED BY <1>1, <1>8, <1>11, <2>1
<1> QED BY <1>2, <1>10, <1>12, <1>14 DEF InRange

LEMMA MeanInRange ==
  ASSUME NEW low \in Int, NEW high \in Int, NEW sum \in Int, NEW n \in Nat, Between(sum, n, low, high),
         NEW bounds, AsOften(n, bounds, "mean")
  PROVE  InRange(IF n > 0 THEN sum \div n ELSE sum, StepRange([low |-> low, high |-> high], bounds, "mean"))
<1>1. PICK f : f = IF bounds = NoBounds THEN 0 ELSE bounds.min
  OBVIOUS
<1>2. PICK range : range = WithZero([low |-> low, high |-> high], f)
  OBVIOUS
<1>3. /\ range.low \in Int /\ range.high \in Int /\ range.low <= low /\ high <= range.high
      /\ f = 0 => range.low <= 0 /\ 0 <= range.high
  BY <1>2, WithZeroIs
<1>4. StepRange([low |-> low, high |-> high], bounds, "mean") = range
  BY <1>1, <1>2 DEF StepRange
<1>5. CASE n > 0
  <2>1. low <= sum \div n /\ sum \div n <= high /\ sum \div n \in Int
    <3>1. n \in Nat \ {0}
      BY <1>5
    <3> QED BY <3>1, QuotientBetween
  <2> QED BY <1>3, <1>4, <1>5, <2>1 DEF InRange
<1>6. CASE ~(n > 0)
  <2>1. n = 0
    BY <1>6
  <2>2. sum = 0
    <3>1. 0 * low = 0 /\ 0 * high = 0
      OBVIOUS
    <3> QED BY <2>1, <3>1 DEF Between
  <2>3. f = 0
    <3>1. CASE bounds = NoBounds
      BY <1>1, <3>1
    <3>2. CASE bounds # NoBounds
      BY <1>1, <2>1, <3>2 DEF AsOften
    <3> QED BY <3>1, <3>2
  <2> QED BY <1>3, <1>4, <1>6, <2>2, <2>3 DEF InRange
<1> QED BY <1>5, <1>6

-----------------------------------------------------------------------------
(* How often an agent plays *)

\* The chunk that seat i of a shuffle falls into, and its place there.
LEMMA ChunkOf ==
  ASSUME NEW k \in Nat \ {0}, NEW q \in Nat, NEW i \in 1 .. q * k
  PROVE  \E c \in 1 .. q, r \in 1 .. k : i = (c - 1) * k + r
<1>1. PICK d \in Int, e \in Int : d = (i - 1) \div k /\ e = (i - 1) % k
  OBVIOUS
<1>2. /\ i - 1 = k * d + e /\ 0 <= e /\ e < k
  <2>1. /\ i - 1 = k * ((i - 1) \div k) + ((i - 1) % k) /\ 0 <= (i - 1) % k /\ (i - 1) % k < k
    OBVIOUS
  <2> QED BY <1>1, <2>1
<1>3. PICK u \in Int, v \in Int : u = k * d /\ v = q * k
  OBVIOUS
<1>4. i <= v
  BY <1>3
<1>5. d >= 0
  <2>1. SUFFICES ASSUME d <= -1 PROVE FALSE
    OBVIOUS
  <2>2. k * d <= k * (-1)
    BY <2>1, Grows
  <2>3. k * (-1) = -k
    OBVIOUS
  <2> QED BY <1>2, <1>3, <2>2, <2>3
<1>6. d < q
  <2>1. SUFFICES ASSUME q <= d PROVE FALSE
    OBVIOUS
  <2>2. k * q <= k * d
    BY <2>1, Grows
  <2>3. k * q = q * k
    OBVIOUS
  <2> QED BY <1>2, <1>3, <1>4, <2>2, <2>3
<1>7. d + 1 \in 1 .. q /\ e + 1 \in 1 .. k
  BY <1>2, <1>5, <1>6
<1>8. ((d + 1) - 1) * k = k * d
  <2>1. (d + 1) - 1 = d /\ d * k = k * d
    OBVIOUS
  <2> QED BY <2>1
<1>9. i = ((d + 1) - 1) * k + (e + 1)
  BY <1>2, <1>3, <1>8
<1> QED BY <1>7, <1>9

\* The seats of a chunk, in terms of the shuffle.
ChunkIs(k, p, c, s) == s \in Seq(Agent) /\ Len(s) = k /\ \A r \in 1 .. k : s[r] = p[(c - 1) * k + r]

LEMMA ChunksAre ==
  ASSUME NEW k \in Nat \ {0}, NEW p \in [1 .. NAgents -> Agent], NEW q \in Nat, q = NAgents \div k
  PROVE  /\ q * k <= NAgents
         /\ Len(p) = NAgents /\ DOMAIN Chunks(k, p) = 1 .. q
         /\ \A c \in 1 .. q : ChunkIs(k, p, c, Chunks(k, p)[c])
<1>1. NAgents \in Nat
  BY NAgentsAssumption
<1>2. q * k <= NAgents
  <2>1. NAgents = k * (NAgents \div k) + (NAgents % k) /\ 0 <= NAgents % k /\ NAgents % k \in Int
    BY <1>1
  <2>2. k * q = q * k /\ q * k \in Int
    OBVIOUS
  <2> QED BY <1>1, <2>1, <2>2
<1>3. Len(p) = NAgents
  BY <1>1
<1>4. Chunks(k, p) = [c \in 1 .. q |-> SubSeq(p, (c - 1) * k + 1, c * k)]
  BY <1>3 DEF Chunks
<1>5. ASSUME NEW c \in 1 .. q PROVE ChunkIs(k, p, c, Chunks(k, p)[c])
  <2>1. PICK m \in Int, n \in Int, u \in Int : m = u + 1 /\ n = c * k /\ u = (c - 1) * k
    <3>1. (c - 1) * k + 1 \in Int /\ c * k \in Int /\ (c - 1) * k \in Int
      OBVIOUS
    <3> QED BY <3>1
  <2>2. n = u + k /\ u >= 0 /\ n <= q * k
    <3>1. c * k = (c - 1) * k + k
      OBVIOUS
    <3>2. k * 0 <= k * (c - 1) /\ k * c <= k * q
      BY Grows
    <3>3. k * 0 = 0 /\ k * (c - 1) = (c - 1) * k /\ k * c = c * k /\ k * q = q * k
      OBVIOUS
    <3> QED BY <2>1, <3>1, <3>2, <3>3
  <2>3. PICK w \in Int : w = q * k /\ w <= NAgents
    BY <1>2
  <2>4. \A i \in m .. n : p[i] \in Agent
    <3>1. \A i \in m .. n : i \in 1 .. NAgents
      BY <1>1, <2>1, <2>2, <2>3
    <3> QED BY <3>1
  <2>5. /\ SubSeq(p, m, n) \in Seq(Agent)
        /\ Len(SubSeq(p, m, n)) = k
        /\ \A r \in 1 .. k : SubSeq(p, m, n)[r] = p[u + r]
    <3>1. /\ SubSeq(p, m, n) \in Seq(Agent)
          /\ Len(SubSeq(p, m, n)) = IF m <= n THEN n - m + 1 ELSE 0
          /\ \A r \in 1 .. n - m + 1 : SubSeq(p, m, n)[r] = p[m + r - 1]
      BY <2>4, SubSeqProperties
    <3>2. n - m + 1 = k /\ m <= n /\ \A r \in 1 .. k : m + r - 1 = u + r
      BY <2>1, <2>2
    <3> QED BY <3>1, <3>2
  <2>6. Chunks(k, p)[c] = SubSeq(p, m, n)
    BY <1>4, <2>1
  <2> QED BY <2>1, <2>5, <2>6 DEF ChunkIs
<1> QED BY <1>2, <1>3, <1>4, <1>5

LEMMA PlaceIs ==
  ASSUME NEW k \in Nat \ {0}, NEW q \in Nat, q * k <= NAgents, NEW c \in 1 .. q, NEW r \in 1 .. k
  PROVE  (c - 1) * k + r \in 1 .. NAgents
<1>1. k * 0 <= k * (c - 1) /\ k * c <= k * q
  BY Grows
<1>2. k * 0 = 0 /\ k * (c - 1) = (c - 1) * k /\ k * c = (c - 1) * k + k /\ k * q = q * k
  OBVIOUS
<1>3. PICK u \in Int, w \in Int : u = (c - 1) * k /\ w = q * k
  OBVIOUS
<1>4. u >= 0 /\ u + k <= w /\ w <= NAgents /\ NAgents \in Nat
  BY <1>1, <1>2, <1>3, NAgentsAssumption
<1> QED BY <1>3, <1>4

LEMMA BeforePlace ==
  ASSUME NEW k \in Nat \ {0}, NEW c \in Nat \ {0}, NEW d \in Nat \ {0}, NEW r \in 1 .. k, NEW e \in 1 .. k, c < d
  PROVE  (c - 1) * k + r < (d - 1) * k + e
<1>1. k * c <= k * (d - 1)
  BY Grows
<1>2. k * c = (c - 1) * k + k /\ k * (d - 1) = (d - 1) * k
  OBVIOUS
<1>3. PICK u \in Int, w \in Int : u = (c - 1) * k /\ w = (d - 1) * k
  OBVIOUS
<1>4. u + k <= w
  BY <1>1, <1>2, <1>3
<1> QED BY <1>3, <1>4

LEMMA SamePlace ==
  ASSUME NEW k \in Nat \ {0}, NEW c \in Nat \ {0}, NEW d \in Nat \ {0}, NEW r \in 1 .. k, NEW e \in 1 .. k,
         (c - 1) * k + r = (d - 1) * k + e
  PROVE  c = d /\ r = e
<1>0. (c - 1) * k \in Int /\ (d - 1) * k \in Int
  OBVIOUS
<1>1. ~(c < d)
  BY <1>0, BeforePlace
<1>2. ~(d < c)
  BY <1>0, BeforePlace
<1>3. c = d
  BY <1>1, <1>2
<1> QED BY <1>0, <1>3

\* The encounters of a shuffle.
Grouped(k, p) == [c \in DOMAIN Chunks(k, p) |-> Meet(Chunks(k, p)[c])]
HasSeat(k, p, c, b) == \E r \in 1 .. k : p[(c - 1) * k + r] = b

LEMMA GroupTimes ==
  ASSUME NEW k \in Nat \ {0}, NEW p \in Shuffles, NEW q \in Nat, q = NAgents \div k, NEW b \in Agent
  PROVE  EachTime(Grouped(k, p), b) = [c \in 1 .. q |-> IF c \in {x \in 1 .. q : HasSeat(k, p, x, b)} THEN 1 ELSE 0]
<1>1. p \in [1 .. NAgents -> Agent] /\ \A i, j \in 1 .. NAgents : p[i] = p[j] => i = j
  BY DEF Shuffles, IsInjective
<1>2. /\ q * k <= NAgents /\ DOMAIN Chunks(k, p) = 1 .. q
      /\ \A c \in 1 .. q : ChunkIs(k, p, c, Chunks(k, p)[c])
  BY <1>1, ChunksAre
<1>3. PICK es : es = Grouped(k, p)
  OBVIOUS
<1>4. Len(es) = q /\ \A c \in 1 .. q : es[c] = Meet(Chunks(k, p)[c])
  BY <1>2, <1>3 DEF Grouped
<1>5. ASSUME NEW c \in 1 .. q
      PROVE  Cardinality(PaidSeats(es[c], b)) = IF HasSeat(k, p, c, b) THEN 1 ELSE 0
  <2>1. PICK s \in Seq(Agent) : s = Chunks(k, p)[c] /\ DOMAIN s = 1 .. k /\ \A r \in 1 .. k : s[r] = p[(c - 1) * k + r]
    BY <1>2 DEF ChunkIs
  <2>2. PICK e : e = es[c] /\ e.seats = s /\ e.credit = "all"
    <3>1. es[c] = [seats |-> s, credit |-> "all"]
      BY <1>4, <2>1 DEF Meet
    <3> QED BY <3>1
  <2>3. PaidSeats(e, b) = {r \in 1 .. k : s[r] = b}
    BY <2>1, <2>2 DEF PaidSeats, Credited
  <2>4. CASE HasSeat(k, p, c, b)
    <3>1. PICK r \in 1 .. k : p[(c - 1) * k + r] = b
      BY <2>4 DEF HasSeat
    <3>2. ASSUME NEW o \in 1 .. k, s[o] = b PROVE o = r
      <4>1. PICK x \in 1 .. NAgents, y \in 1 .. NAgents : x = (c - 1) * k + o /\ y = (c - 1) * k + r
        <5>1. (c - 1) * k + o \in 1 .. NAgents /\ (c - 1) * k + r \in 1 .. NAgents
          BY <1>2, PlaceIs
        <5> QED BY <5>1
      <4>2. x = y
        BY <1>1, <2>1, <3>1, <3>2, <4>1
      <4>3. (c - 1) * k \in Int
        OBVIOUS
      <4> QED BY <4>1, <4>2, <4>3
    <3>3. PaidSeats(e, b) = {r}
      <4>1. s[r] = b
        BY <2>1, <3>1
      <4> QED BY <2>3, <3>2, <4>1
    <3> QED BY <2>2, <2>4, <3>3, FS_Singleton
  <2>5. CASE ~HasSeat(k, p, c, b)
    <3>1. PaidSeats(e, b) = {}
      BY <2>1, <2>3, <2>5 DEF HasSeat
    <3> QED BY <2>2, <2>5, <3>1, FS_EmptySet
  <2> QED BY <2>4, <2>5
<1> DEFINE S == {x \in 1 .. q : HasSeat(k, p, x, b)}
<1>6. \A c \in 1 .. q : c \in S <=> HasSeat(k, p, c, b)
  OBVIOUS
<1> HIDE DEF S
<1>7. [c \in 1 .. q |-> Cardinality(PaidSeats(es[c], b))] = [c \in 1 .. q |-> IF c \in S THEN 1 ELSE 0]
  BY <1>5, <1>6
<1>8. EachTime(es, b) = [c \in 1 .. q |-> Cardinality(PaidSeats(es[c], b))]
  BY <1>4 DEF EachTime
<1> QED BY <1>3, <1>7, <1>8 DEF S

\* In a shuffle an agent sits once or, where agents are left over, not at all.
LEMMA ShuffledOnce ==
  ASSUME NEW k \in Nat \ {0}, NEW p \in Shuffles, NEW b \in Agent
  PROVE  /\ Total(EachTime(Grouped(k, p), b)) \in {0, 1}
         /\ NAgents % k = 0 => Total(EachTime(Grouped(k, p), b)) = 1
<1>1. p \in [1 .. NAgents -> Agent] /\ \A i, j \in 1 .. NAgents : p[i] = p[j] => i = j
  BY DEF Shuffles, IsInjective
<1>2. PICK q \in Nat : q = NAgents \div k
  BY NAgentsAssumption
<1>3. q * k <= NAgents
  BY <1>1, <1>2, ChunksAre
<1>4. PICK S : S = {x \in 1 .. q : HasSeat(k, p, x, b)}
  OBVIOUS
<1>5. Total(EachTime(Grouped(k, p), b)) = Cardinality(S)
  <2>1. EachTime(Grouped(k, p), b) = [c \in 1 .. q |-> IF c \in S THEN 1 ELSE 0]
    BY <1>2, <1>4, GroupTimes
  <2>2. S \subseteq 1 .. q
    BY <1>4
  <2> QED BY <2>1, <2>2, TotalOfSet
<1>6. ASSUME NEW c \in S, NEW d \in S PROVE c = d
  <2>1. PICK r \in 1 .. k : p[(c - 1) * k + r] = b
    BY <1>4 DEF HasSeat
  <2>2. PICK e \in 1 .. k : p[(d - 1) * k + e] = b
    BY <1>4 DEF HasSeat
  <2>3. c \in 1 .. q /\ d \in 1 .. q
    BY <1>4
  <2>4. PICK x \in 1 .. NAgents, y \in 1 .. NAgents : x = (c - 1) * k + r /\ y = (d - 1) * k + e
    <3>1. (c - 1) * k + r \in 1 .. NAgents /\ (d - 1) * k + e \in 1 .. NAgents
      BY <1>3, <2>3, PlaceIs
    <3> QED BY <3>1
  <2>5. x = y
    BY <1>1, <2>1, <2>2, <2>4
  <2>6. (c - 1) * k + r = (d - 1) * k + e /\ c \in Nat \ {0} /\ d \in Nat \ {0}
    BY <2>3, <2>4, <2>5
  <2> QED BY <2>6, SamePlace
<1>7. Cardinality(S) \in {0, 1}
  <2>1. CASE S = {}
    BY <2>1, FS_EmptySet
  <2>2. CASE S # {}
    <3>1. PICK c : c \in S
      BY <2>2
    <3>2. S = {c}
      BY <1>6, <3>1
    <3> QED BY <3>2, FS_Singleton
  <2> QED BY <2>1, <2>2
<1>8. ASSUME NAgents % k = 0 PROVE S # {}
  <2>1. NAgents \in Nat /\ Agent = 1 .. NAgents
    BY NAgentsAssumption DEF Agent
  <2>2. q * k = NAgents
    <3>1. NAgents = k * (NAgents \div k) + (NAgents % k)
      BY <2>1
    <3>2. k * q = q * k /\ k * q \in Int
      OBVIOUS
    <3> QED BY <1>2, <1>8, <2>1, <3>1, <3>2
  <2>3. PICK i \in 1 .. NAgents : p[i] = b
    <3>1. IsFiniteSet(1 .. NAgents)
      BY <2>1, FS_Interval
    <3>2. p \in Injection(1 .. NAgents, 1 .. NAgents)
      BY <1>1, <2>1 DEF Injection, IsInjective
    <3>3. p \in Surjection(1 .. NAgents, 1 .. NAgents)
      BY <3>1, <3>2, FS_Injection
    <3> QED BY <2>1, <3>3 DEF Surjection
  <2>4. PICK c \in 1 .. q, r \in 1 .. k : i = (c - 1) * k + r
    <3>1. i \in 1 .. q * k
      BY <2>2
    <3> QED BY <3>1, ChunkOf
  <2>5. HasSeat(k, p, c, b)
    BY <2>3, <2>4 DEF HasSeat
  <2> QED BY <1>4, <2>5
<1>9. ASSUME NAgents % k = 0 PROVE Cardinality(S) = 1
  <2>1. PICK c : c \in S
    BY <1>8, <1>9
  <2>2. S = {c}
    BY <1>6, <2>1
  <2> QED BY <2>2, FS_Singleton
<1> QED BY <1>5, <1>7, <1>9

\* Among the degrees of all agents there is a least and a greatest one.
Degrees(d) == {d[a] : a \in Agent}

LEMMA EndsOfDegrees ==
  ASSUME NEW d \in [Agent -> Nat], NEW b \in Agent
  PROVE  /\ Min(Degrees(d)) \in Nat /\ Min(Degrees(d)) <= d[b]
         /\ Max(Degrees(d)) \in Nat /\ d[b] <= Max(Degrees(d))
<1>1. PICK S : S = Degrees(d)
  OBVIOUS
<1>2. S \subseteq Nat /\ d[b] \in S /\ \A y \in S : \E a \in Agent : y = d[a]
  BY <1>1 DEF Degrees
<1>3. Agent # {} /\ Agent \subseteq Agent /\ d \in [Agent -> Int]
  OBVIOUS
<1>4. \E x \in S : \A y \in S : x >= y
  <2>1. PICK a \in Agent : \A c \in Agent : d[a] >= d[c]
    BY <1>3, BestPaid
  <2>2. d[a] \in S
    BY <1>1 DEF Degrees
  <2> QED BY <1>2, <2>1, <2>2
<1>5. \E x \in S : \A y \in S : x <= y
  <2>1. PICK e : e = [a \in Agent |-> -d[a]]
    OBVIOUS
  <2>2. e \in [Agent -> Int]
    BY <2>1
  <2>3. PICK a \in Agent : \A c \in Agent : e[a] >= e[c]
    BY <1>3, <2>2, BestPaid
  <2>4. \A c \in Agent : d[a] <= d[c]
    BY <2>1, <2>3
  <2>5. d[a] \in S
    BY <1>1 DEF Degrees
  <2> QED BY <1>2, <2>4, <2>5
<1>6. S \subseteq Int
  BY <1>2
<1>7. Min(S) \in S /\ Max(S) \in S /\ (\A y \in S : Min(S) <= y) /\ \A y \in S : y <= Max(S)
  BY <1>4, <1>5, <1>6, MinOf, MaxOf
<1> QED BY <1>1, <1>2, <1>7

LEMMA WholeOnce ==
  ASSUME NEW b \in Agent
  PROVE  Total(EachTime(<<Meet(Everybody)>>, b)) = 1
<1>1. NAgents \in Nat /\ Agent = 1 .. NAgents
  BY NAgentsAssumption DEF Agent
<1>2. PICK e : e = Meet(Everybody) /\ e = [seats |-> [i \in 1 .. NAgents |-> i], credit |-> "all"]
  BY DEF Meet, Everybody
<1>3. PaidSeats(e, b) = {b}
  BY <1>1, <1>2 DEF PaidSeats, Credited
<1>4. Cardinality(PaidSeats(e, b)) = 1
  BY <1>3, FS_Singleton
<1>5. PICK l : l = <<e>> /\ Len(l) = 1 /\ l[1] = e
  <2>1. Len(<<e>>) = 1 /\ <<e>>[1] = e
    OBVIOUS
  <2> QED BY <2>1
<1>6. EachTime(l, b) = <<1>>
  <2>1. EachTime(l, b) = [k \in 1 .. 1 |-> Cardinality(PaidSeats(l[k], b))]
    BY <1>5 DEF EachTime
  <2>2. \A k \in 1 .. 1 : Cardinality(PaidSeats(l[k], b)) = 1
    BY <1>4, <1>5
  <2>3. [k \in 1 .. 1 |-> Cardinality(PaidSeats(l[k], b))] = [k \in 1 .. 1 |-> 1]
    BY <2>2
  <2> QED BY <2>1, <2>3
<1>7. Total(<<1>>) = 1
  BY TotalOne
<1> QED BY <1>2, <1>5, <1>6, <1>7

\* Assembly checks an update with bounds on how often an agent plays that hold for
\* every list of encounters the matching may write.
LEMMA PlaysAsOften ==
  ASSUME asm \in Assemblies, Accepted(asm), AsmOK, asm.update.mode # "none",
         asm.update.rule \in {"proportional", "moran"},
         NEW es \in Encounters(asm.matching, asm.top), NEW b \in Agent
  PROVE  AsOften(Total(EachTime(es, b)), Bounds(asm.matching, asm.top), asm.agg)
<1>1. PICK m, top : m = asm.matching /\ top = asm.top
  OBVIOUS
<1>2. /\ MatchingCheck(m, asm.game.roles, top, asm.scope)
      /\ UpdateCheck(asm.update, asm.game, m, top, asm.agg, asm.play)
  BY <1>1 DEF Accepted
<1>3. asm.game.roles \in Nat \ {0} /\ top.nbrs \in [Agent -> Seq(Agent)]
  BY <1>1 DEF AsmOK, GameOK
<1>4. asm.agg = "mean" \/ Bounds(m, top) # NoBounds
  BY <1>2 DEF UpdateCheck
<1>5. CASE m.kind = "pairs"
  <2>1. PICK p \in Shuffles : es = Grouped(2, p)
    BY <1>1, <1>5 DEF Encounters, Grouped
  <2>2. PICK least : least = IF NAgents % 2 = 0 THEN 1 ELSE 0
    OBVIOUS
  <2>3. Bounds(m, top) = [min |-> least, max |-> 1]
    BY <1>5, <2>2 DEF Bounds
  <2>4. PICK n : n = Total(EachTime(es, b)) /\ n \in {0, 1} /\ (NAgents % 2 = 0 => n = 1)
    BY <2>1, ShuffledOnce
  <2>5. least \in Nat /\ least <= n /\ n <= 1
    BY <2>2, <2>4
  <2> QED BY <1>1, <2>3, <2>4, <2>5 DEF AsOften
<1>6. CASE m.kind = "groups"
  <2>1. PICK k \in Nat \ {0} : k = m.k
    BY <1>2, <1>3, <1>6 DEF MatchingCheck
  <2>2. PICK p \in Shuffles : es = Grouped(k, p)
    BY <1>1, <1>6, <2>1 DEF Encounters, Grouped
  <2>3. PICK least : least = IF NAgents % k = 0 THEN 1 ELSE 0
    OBVIOUS
  <2>4. Bounds(m, top) = [min |-> least, max |-> 1]
    BY <1>6, <2>1, <2>3 DEF Bounds
  <2>5. PICK n : n = Total(EachTime(es, b)) /\ n \in {0, 1} /\ (NAgents % k = 0 => n = 1)
    BY <2>2, ShuffledOnce
  <2>6. least \in Nat /\ least <= n /\ n <= 1
    BY <2>3, <2>5
  <2> QED BY <1>1, <2>4, <2>5, <2>6 DEF AsOften
<1>7. CASE m.kind = "whole"
  <2>1. es = <<Meet(Everybody)>>
    BY <1>1, <1>7 DEF Encounters
  <2>2. Bounds(m, top) = [min |-> 1, max |-> 1]
    BY <1>7 DEF Bounds
  <2>3. PICK n \in Nat : n = Total(EachTime(es, b)) /\ n = 1
    BY <2>1, WholeOnce
  <2> QED BY <1>1, <2>2, <2>3 DEF AsOften
<1>8. ASSUME NEW d \in [Agent -> Nat], d[b] = Total(EachTime(es, b)),
             Bounds(m, top) = [min |-> Min(Degrees(d)), max |-> Max(Degrees(d))]
      PROVE  AsOften(Total(EachTime(es, b)), Bounds(m, top), asm.agg)
  BY <1>8, EndsOfDegrees DEF AsOften
<1>9. PICK held : held \in [Agent -> Action]
  <2>1. [a \in Agent |-> 0] \in [Agent -> Action]
    BY DEF Action
  <2> QED BY <2>1
<1>10. CASE m.kind = "net"
  <2>1. asm.game.roles = 2
    BY <1>2, <1>10 DEF MatchingCheck
  <2>2. PICK d : d = [a \in Agent |-> Len(Incident(top, a))]
    OBVIOUS
  <2>3. ASSUME NEW a \in Agent PROVE Len(Incident(top, a)) = Total(EachTime(es, a)) /\ Total(EachTime(es, a)) \in Nat
    <3>1. Total(EachTime(es, a)) = Len(Incident(top, a))
      BY <1>1, <1>9, <1>10, <2>1, NetAlone
    <3>2. GameOK(asm.game) /\ MetOK(es, asm.game.roles)
      BY DEF AsmOK
    <3>3. EachTime(es, a) \in Seq(Int) /\ Len(EachTime(es, a)) = Len(es) /\ \A k \in 1 .. Len(es) : EachTime(es, a)[k] \in Nat
      BY <1>9, <3>2, EachTyped
    <3> QED BY <3>1, <3>3, TotalNat
  <2>4. d \in [Agent -> Nat] /\ d[b] = Total(EachTime(es, b))
    BY <2>2, <2>3
  <2>5. Bounds(m, top) = [min |-> Min(Degrees(d)), max |-> Max(Degrees(d))]
    BY <1>10, <2>2 DEF Bounds, Degrees
  <2> QED BY <1>1, <1>8, <2>4, <2>5
<1>11. CASE m.kind = "grid"
  <2>1. asm.game.roles = 2
    BY <1>2, <1>11 DEF MatchingCheck
  <2>2. PICK d : d = [a \in Agent |-> Len(top.nbrs[a]) + (IF m.kind = "grid" /\ m.self THEN 1 ELSE 0)]
    OBVIOUS
  <2>3. ASSUME NEW a \in Agent
        PROVE  Len(top.nbrs[a]) + (IF m.kind = "grid" /\ m.self THEN 1 ELSE 0) = Total(EachTime(es, a))
    <3>1. Total(EachTime(es, a)) = Len(AroundCentre(top, m.self, a))
      BY <1>1, <1>9, <1>11, <2>1, GridAlone
    <3>2. PICK l, r : /\ l = [i \in DOMAIN top.nbrs[a] |-> Centre(a, top.nbrs[a][i])]
                      /\ r = IF m.self THEN <<Centre(a, a)>> ELSE <<>>
      OBVIOUS
    <3>3. AroundCentre(top, m.self, a) = l \o r
      BY <3>2 DEF AroundCentre
    <3>4. PICK s \in Seq(Agent), N \in Nat : s = top.nbrs[a] /\ N = Len(s)
      BY <1>3
    <3>5. \A x \in Agent : Centre(a, x) \in Encounter
      BY DEF Centre, Encounter
    <3>6. l \in Seq(Encounter) /\ Len(l) = N /\ r \in Seq(Encounter) /\ Len(r) = IF m.self THEN 1 ELSE 0
      BY <3>2, <3>4, <3>5
    <3>7. Len(l \o r) = Len(l) + Len(r)
      <4>1. l \in Seq(Encounter) /\ r \in Seq(Encounter)
        BY <3>6
      <4> QED BY <4>1
    <3> QED BY <1>11, <3>1, <3>3, <3>4, <3>6, <3>7
  <2>4. d \in [Agent -> Nat] /\ d[b] = Total(EachTime(es, b))
    <3>1. ASSUME NEW a \in Agent PROVE d[a] \in Nat /\ d[a] = Total(EachTime(es, a))
      <4>1. PICK N \in Nat : N = Len(top.nbrs[a])
        <5>1. Len(top.nbrs[a]) \in Nat
          BY <1>3
        <5> QED BY <5>1
      <4>2. d[a] = Len(top.nbrs[a]) + (IF m.kind = "grid" /\ m.self THEN 1 ELSE 0)
        BY <2>2, Zenon
      <4>3. d[a] = N + 1 \/ d[a] = N + 0
        BY <4>1, <4>2, Zenon
      <4>4. N + 1 \in Nat /\ N + 0 \in Nat
        OBVIOUS
      <4>5. d[a] = Total(EachTime(es, a))
        BY <2>3, <4>2, Zenon
      <4> QED BY <4>3, <4>4, <4>5, Zenon
    <3>2. d = [a \in Agent |-> d[a]]
      BY <2>2
    <3> QED BY <3>1, <3>2
  <2>5. Bounds(m, top) = [min |-> Min(Degrees(d)), max |-> Max(Degrees(d))]
    BY <1>11, <2>2 DEF Bounds, Degrees
  <2> QED BY <1>1, <1>8, <2>4, <2>5
<1>12. CASE m.kind \notin {"pairs", "groups", "whole", "net", "grid"}
  <2>1. Bounds(m, top) = NoBounds
    BY <1>12 DEF Bounds
  <2> QED BY <1>1, <1>4, <2>1 DEF AsOften
<1> QED BY <1>5, <1>6, <1>7, <1>10, <1>11, <1>12

\* What full play pays anybody lies in the range of the step.
LEMMA FullPayInRange ==
  ASSUME asm \in Assemblies, Accepted(asm), asm.update.mode # "none", asm.update.rule \in {"proportional", "moran"},
         NEW pay, NEW h \in [Agent -> Action], FullPays(pay, h), NEW b \in Agent
  PROVE  pay[b] \in Int /\ InRange(pay[b], StepRange(SingleRange(asm.game), Bounds(asm.matching, asm.top), asm.agg))
<1>1. AsmOK
  BY AsmIs
<1>2. PICK es \in Encounters(asm.matching, asm.top) : pay = Averaged(asm.agg, Whole(es, h)).pay
  BY DEF FullPays
<1>3. GameOK(asm.game) /\ MetOK(es, asm.game.roles) /\ asm.agg \in {"sum", "mean"}
  BY <1>1 DEF AsmOK
<1>4. PICK n \in Nat : n = Total(EachTime(es, b))
  <2>1. EachTime(es, b) \in Seq(Int) /\ Len(EachTime(es, b)) = Len(es) /\ \A k \in 1 .. Len(es) : EachTime(es, b)[k] \in Nat
    BY <1>3, EachTyped
  <2> QED BY <2>1, TotalNat
<1>5. PICK sum \in Int : sum = Total(EachPays(es, h, b))
  BY <1>3, EachTyped, TotalTyped
<1>6. pay[b] \in Int /\ pay[b] = IF asm.agg = "mean" /\ n > 0 THEN sum \div n ELSE sum
  BY <1>2, <1>3, <1>4, <1>5, FullTyped
<1>7. PICK low, high : low = SingleRange(asm.game).low /\ high = SingleRange(asm.game).high
  OBVIOUS
<1>8. Pays(asm.game, low, high) /\ SingleRange(asm.game) = [low |-> low, high |-> high]
  <2>1. Pays(asm.game, low, high)
    BY <1>3, <1>7, SinglePays
  <2>2. SingleRange(asm.game) = [low |-> low, high |-> high]
    BY <1>7 DEF SingleRange
  <2> QED BY <2>1, <2>2
<1>9. low \in Int /\ high \in Int /\ Between(sum, n, low, high)
  <2>1. Between(sum, n, low, high)
    BY <1>3, <1>4, <1>5, <1>8, EachBetween
  <2> QED BY <1>8, <2>1 DEF Pays
<1>10. PICK bounds : bounds = Bounds(asm.matching, asm.top) /\ AsOften(n, bounds, asm.agg)
  BY <1>1, <1>4, PlaysAsOften
<1>11. CASE asm.agg = "sum"
  <2>1. pay[b] = sum
    BY <1>6, <1>11
  <2>2. InRange(sum, StepRange([low |-> low, high |-> high], bounds, "sum"))
    BY <1>9, <1>10, <1>11, SumInRange
  <2> QED BY <1>6, <1>8, <1>10, <1>11, <2>1, <2>2
<1>12. CASE asm.agg = "mean"
  <2>1. pay[b] = IF n > 0 THEN sum \div n ELSE sum
    BY <1>6, <1>12
  <2>2. InRange(IF n > 0 THEN sum \div n ELSE sum, StepRange([low |-> low, high |-> high], bounds, "mean"))
    BY <1>9, <1>10, <1>12, MeanInRange
  <2> QED BY <1>6, <1>8, <1>10, <1>12, <2>1, <2>2
<1> QED BY <1>3, <1>11, <1>12

\* After a population update the payoffs are still those that full play of some
\* profile pays: of the one before the update, or of the one recorded after it.
SomePlay(pay) == \E h \in [Agent -> Action] : FullPays(pay, h)
RInv == pc \in {"post", "end"} /\ asm.update.mode # "none" => SomePlay(world.payoff)

LEMMA SomePlayStays ==
  ASSUME asm' = asm, SomePlay(world'.payoff)
  PROVE  SomePlay(world.payoff)'
<1>1. PICK h \in [Agent -> Action], es \in Encounters(asm.matching, asm.top) :
        world'.payoff = Averaged(asm.agg, Whole(es, h)).pay
  BY DEF SomePlay, FullPays
<1>2. es \in Encounters(asm'.matching, asm'.top)
  BY <1>1
<1>3. world'.payoff = Averaged(asm'.agg, Played(NoPay, asm'.game, asm'.play, es, [i \in DOMAIN es |-> Seated(h, es[i])])).pay
  BY <1>1 DEF Whole
<1> QED BY <1>1, <1>2, <1>3 DEF SomePlay, FullPays, Whole

LEMMA RUpdate ==
  ASSUME GInv, TInv, Imitate \/ Moran
  PROVE  RInv'
<1>1. asm' = asm /\ pc = "update"
  BY DEF Imitate, Moran
<1>2. world'.payoff = world.payoff
  <2>1. \E x : world' = [world EXCEPT !.held = x]
    BY DEF Imitate, Moran
  <2> QED BY <2>1 DEF GInv
<1>3. asm.rules = {} /\ ~Async /\ world.held \in [Agent -> Action]
  <2>1. asm.update.mode = "sync"
    BY <1>1 DEF TInv
  <2> QED BY <2>1 DEF GInv, TInv, Accepted, Async
<1>4. FullPays(world.payoff, world.held)
  BY <1>1, <1>3 DEF TInv
<1>5. SomePlay(world'.payoff)
  BY <1>2, <1>3, <1>4 DEF SomePlay
<1> QED BY <1>1, <1>5, SomePlayStays DEF RInv

LEMMA RRecord ==
  ASSUME GInv, TInv, Record
  PROVE  RInv'
<1>1. PICK v : v = [world EXCEPT !.payoff = NoPay.pay, !.n = NoPay.n, !.counts = <<>>]
  OBVIOUS
<1>2. asm' = asm /\ Async /\ RecordImplicit(v, TRUE)
  BY <1>1 DEF Record, Emptied
<1>3. v.held = world.held /\ [pay |-> v.payoff, n |-> v.n] = NoPay /\ {"held", "payoff", "n"} \subseteq DOMAIN v
  BY <1>1 DEF GInv, NoPay
<1>4. PICK totals : totals = ImplicitFrom([pay |-> v.payoff, n |-> v.n], asm.game, asm.play, asm.agg,
                                          asm.matching, asm.top, v.held)
  OBVIOUS
<1>5. PICK recs, acts, rows : Commit([v EXCEPT !.counts = FlattenSeq(acts)], totals, recs, rows)
  BY <1>2, <1>4 DEF RecordImplicit
<1>6. world'.payoff = totals.pay
  <2>1. PICK w : w = [v EXCEPT !.counts = FlattenSeq(acts)]
    OBVIOUS
  <2>2. PICK p3, p4 : world' = [w EXCEPT !.payoff = totals.pay, !.n = totals.n, !.steps = p3, !.aggs = p4]
    BY <1>5, <2>1 DEF Commit
  <2> QED BY <1>3, <2>1, <2>2
<1>7. totals.pay = FullPay(asm, world.held)
  BY <1>3, <1>4 DEF FullPay, ImplicitPayoffs
<1>8. Implicit(asm.matching)
  BY <1>2 DEF GInv, Accepted, Async
<1>9. PICK es \in Encounters(asm.matching, asm.top) : TRUE
  BY <1>8, OneList
<1>10. FullPays(world'.payoff, world.held)
  BY <1>6, <1>7, <1>8, <1>9, FullIs DEF FullPays
<1>11. SomePlay(world'.payoff)
  BY <1>10 DEF SomePlay, TInv
<1> QED BY <1>2, <1>11, SomePlayStays DEF RInv

LEMMA RNext == GInv /\ TInv /\ RInv /\ [Next]_vars => RInv'
<1> SUFFICES ASSUME GInv, TInv, RInv, [Next]_vars PROVE RInv'
  OBVIOUS
<1>1. CASE Clear \/ Match \/ SeatHeld \/ Play \/ PlayImplicit \/ EndStep \/ Fail
  <2>1. pc' \in {"reward", "play", "match", "held", "decide", "idle"}
    BY <1>1 DEF Clear, Match, SeatHeld, Play, PlayImplicit, EndStep, Fail
  <2> QED BY <2>1 DEF RInv
<1>2. CASE Learn
  <2>1. asm' = asm /\ pc' = IF asm.update.mode = "none" THEN "post" ELSE "update"
    BY <1>2 DEF Learn
  <2> QED BY <2>1 DEF RInv
<1>3. CASE Measure
  <2>1. asm' = asm /\ world' = world /\ pc = "post"
    BY <1>3 DEF Measure
  <2>2. asm.update.mode # "none" => SomePlay(world'.payoff)
    BY <2>1 DEF RInv
  <2> QED BY <2>1, <2>2, SomePlayStays DEF RInv
<1>4. CASE Stopped \/ UNCHANGED vars
  <2>1. asm' = asm /\ world' = world /\ pc' = pc
    BY <1>4 DEF Stopped, vars
  <2>2. pc \in {"post", "end"} /\ asm.update.mode # "none" => SomePlay(world'.payoff)
    BY <2>1 DEF RInv
  <2> QED BY <2>1, <2>2, SomePlayStays DEF RInv
<1>5. CASE \E a \in Agent : Decide(a) \/ Activate(a)
  <2>1. pc' \in {"decide", "reward"}
    BY <1>5 DEF Decide, Activate
  <2> QED BY <2>1 DEF RInv
<1> QED BY <1>1, <1>2, <1>3, <1>4, <1>5, RUpdate, RRecord DEF Next

LEMMA RRead == GInv /\ TInv /\ RInv => PayoffsInRange
<1> SUFFICES ASSUME GInv, TInv, RInv, pc \in {"update", "post", "end"},
                    asm.update.mode # "none", asm.update.rule \in {"proportional", "moran"}
             PROVE  LET range == StepRange(SingleRange(asm.game), Bounds(asm.matching, asm.top), asm.agg)
                    IN  /\ \A a \in Agent : world.payoff[a] \in range.low .. range.high
                        /\ asm.update.rule = "moran" => \A a \in Agent : Weight(world.payoff, a) > 0
  BY DEF PayoffsInRange
<1>1. SomePlay(world.payoff)
  <2>1. CASE pc = "update"
    <3>1. asm.rules = {} /\ ~Async
      BY <2>1 DEF GInv, TInv, Accepted, Async
    <3> QED BY <2>1, <3>1 DEF TInv, SomePlay
  <2>2. CASE pc # "update"
    BY <2>2 DEF RInv
  <2> QED BY <2>1, <2>2
<1>2. PICK h \in [Agent -> Action] : FullPays(world.payoff, h)
  BY <1>1 DEF SomePlay
<1>3. PICK range : range = StepRange(SingleRange(asm.game), Bounds(asm.matching, asm.top), asm.agg)
  OBVIOUS
<1>4. ASSUME NEW a \in Agent PROVE world.payoff[a] \in Int /\ InRange(world.payoff[a], range)
  BY <1>2, <1>3, FullPayInRange DEF GInv
<1>5. \A a \in Agent : world.payoff[a] \in range.low .. range.high
  BY <1>4 DEF InRange
<1>6. ASSUME asm.update.rule = "moran" PROVE range.low > 0
  BY <1>3, <1>6 DEF GInv, Accepted, UpdateCheck
<1>7. asm.update.rule = "moran" => \A a \in Agent : Weight(world.payoff, a) > 0
  BY <1>4, <1>6 DEF InRange, Weight
<1> QED BY <1>3, <1>5, <1>7

\* An update that assembly accepted never meets a payoff outside the range it was
\* checked with, for any game, matching, topology and number of agents: not for an
\* agent that sat the step out, and not after a step that failed; and a Moran step
\* finds every weight positive.
THEOREM GamePayoffsInRange == Spec => []PayoffsInRange
<1>1. Init => GInv /\ TInv /\ RInv
  <2>1. Init => RInv
    BY DEF Init, RInv
  <2> QED BY <2>1, GInit, TInit
<1>2. GInv /\ TInv /\ RInv /\ [Next]_vars => GInv' /\ TInv' /\ RInv'
  BY GNext, TNext, RNext, StepAssumption
<1>3. GInv /\ TInv /\ RInv => PayoffsInRange
  BY RRead
<1> QED BY <1>1, <1>2, <1>3, PTL DEF Spec
==============================================================================
