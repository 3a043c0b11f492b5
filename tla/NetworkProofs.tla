--------------------------- MODULE NetworkProofs ----------------------------
(***************************************************************************)
(* Who is tied to whom, and what opinions become of those who listen to    *)
(* each other: for any agents, payloads and calls a network is the graph   *)
(* the calls describe and is analysed as that graph; and for any people,   *)
(* circles and windows averaging keeps what it promises.                   *)
(***************************************************************************)
EXTENDS OpinionDynamics, NetGenerators, WellFoundedInduction, FiniteSetTheorems, TLAPS

(***************************************************************************)
(* Induction, in sets: the natural numbers are well founded, so a set of   *)
(* them has a least one.                                                   *)
(***************************************************************************)
(* A set of numbers that is not empty has a least one. *)
LEMMA Least ==
  ASSUME NEW T, T \subseteq Nat, T # {}
  PROVE  \E x \in T : \A y \in T : x <= y
<1>1. \E x \in T : \A y \in T : ~ (<<y, x>> \in OpToRel(<, Nat))
  BY NatLessThanWellFounded, WFMin, Zenon
<1>2. OpToRel(<, Nat) = {ss \in Nat \X Nat : ss[1] < ss[2]}
  BY Zenon DEF OpToRel
<1>3. \E x \in T : \A y \in T : ~ (<<y, x>> \in {ss \in Nat \X Nat : ss[1] < ss[2]})
  BY <1>1, <1>2, Zenon
<1>4. PICK x \in T : \A y \in T : ~ (<<y, x>> \in {ss \in Nat \X Nat : ss[1] < ss[2]})
  BY <1>3
<1>5. ASSUME NEW y \in T PROVE x <= y
  <2>1. x \in Nat /\ y \in Nat
    OBVIOUS
  <2>2. <<y, x>> \in Nat \X Nat /\ <<y, x>>[1] = y /\ <<y, x>>[2] = x
    BY <2>1
  <2>3. ~ (y < x)
    BY <1>4, <2>2, Zenon
  <2>4. QED
    BY <2>1, <2>3
<1>6. QED
  BY <1>5

(* A set that holds 0 and with a number the next one holds them all. *)
LEMMA Induct ==
  ASSUME NEW T, 0 \in T, \A n \in Nat : n \in T => n + 1 \in T
  PROVE  Nat \subseteq T
<1> DEFINE U == Nat \ T
<1>1. SUFFICES ASSUME U # {} PROVE FALSE
  OBVIOUS
<1>2. PICK x \in U : \A y \in U : x <= y
  BY <1>1, Least
<1>3. x # 0 /\ x - 1 \in Nat /\ x - 1 \notin U
  BY <1>2
<1>4. QED
  BY <1>2, <1>3

(* Steps one after the other, each a function on a set, have a run. *)
Machine(N, V, x, F)  == N \in Nat /\ x \in V /\ F \in [1 .. N -> [V -> V]]
RunOf(f, N, V, x, F) == f \in [0 .. N -> V] /\ f[0] = x /\ \A k \in 1 .. N : f[k] = F[k][f[k - 1]]
LEMMA Recursion ==
  ASSUME NEW N, NEW V, NEW x, NEW F, Machine(N, V, x, F)
  PROVE  \E f : RunOf(f, N, V, x, F)
<1> DEFINE RunsTo(f, n) == f \in [0 .. n -> V] /\ f[0] = x /\ \A k \in 1 .. n : f[k] = F[k][f[k - 1]]
           T == {n \in Nat : n <= N => \E f : RunsTo(f, n)}
<1>0. N \in Nat /\ x \in V /\ F \in [1 .. N -> [V -> V]]
  BY DEF Machine
<1>1. 0 \in T
  <2>1. RunsTo([k \in 0 .. 0 |-> x], 0)
    BY <1>0
  <2>2. QED
    BY <2>1
<1>2. ASSUME NEW n \in Nat, n \in T PROVE n + 1 \in T
  <2>1. SUFFICES ASSUME n + 1 <= N PROVE \E f : RunsTo(f, n + 1)
    OBVIOUS
  <2>2. PICK f : RunsTo(f, n)
    BY <1>0, <1>2, <2>1
  <2>3. f[n] \in V /\ F[n + 1] \in [V -> V] /\ F[n + 1][f[n]] \in V
    BY <1>0, <2>1, <2>2
  <2> DEFINE g == [k \in 0 .. n + 1 |-> IF k = n + 1 THEN F[n + 1][f[n]] ELSE f[k]]
  <2>4. g \in [0 .. n + 1 -> V] /\ g[0] = x
    BY <2>2, <2>3
  <2>5. ASSUME NEW k \in 1 .. n + 1 PROVE g[k] = F[k][g[k - 1]]
    <3>1. k - 1 \in 0 .. n + 1 /\ k - 1 # n + 1 /\ g[k - 1] = f[k - 1]
      OBVIOUS
    <3>2. CASE k = n + 1
      <4>1. g[k] = F[n + 1][f[n]] /\ k - 1 = n
        BY <3>2
      <4>2. QED
        BY <3>1, <3>2, <4>1
    <3>3. CASE k # n + 1
      <4>1. k \in 1 .. n /\ g[k] = f[k]
        BY <3>3
      <4>2. f[k] = F[k][f[k - 1]]
        BY <2>2, <4>1
      <4>3. QED
        BY <3>1, <4>1, <4>2
    <3>4. QED
      BY <3>2, <3>3
  <2>6. RunsTo(g, n + 1)
    <3> HIDE DEF g
    <3>1. QED
      BY <2>4, <2>5
  <2> HIDE DEF RunsTo
  <2>7. QED
    BY <2>6
<1>3. N \in T
  <2> HIDE DEF T
  <2>1. QED
    BY <1>0, <1>1, <1>2, Induct
<1>4. QED
  BY <1>3 DEF RunOf

-----------------------------------------------------------------------------
(***************************************************************************)
(* Sums over finite sets.  The fold of the library takes a set apart by    *)
(* choosing elements; what it returns does not depend on the order.        *)
(***************************************************************************)
(* A property of finite sets holds of all if it does of the empty set and with an element more. *)
LEMMA SetInduct ==
  ASSUME NEW S, IsFiniteSet(S), NEW P, {} \in P,
         \A T \in P : T \subseteq S => \A x \in S \ T : T \cup {x} \in P
  PROVE  S \in P
<1> DEFINE N == {n \in Nat : \A T \in SUBSET S : Cardinality(T) = n => T \in P}
<1>0. \A T \in SUBSET S : IsFiniteSet(T) /\ Cardinality(T) \in Nat
  BY FS_Subset, FS_CardinalityType
<1>1. 0 \in N
  BY <1>0, FS_EmptySet
<1>2. ASSUME NEW n \in Nat, n \in N PROVE n + 1 \in N
  <2> SUFFICES ASSUME NEW T \in SUBSET S, Cardinality(T) = n + 1 PROVE T \in P
    OBVIOUS
  <2>1. T # {}
    <3>1. Cardinality({}) = 0
      BY FS_EmptySet
    <3> QED BY <3>1
  <2>2. PICK x \in T : TRUE
    BY <2>1
  <2>3. IsFiniteSet(T) /\ Cardinality(T \ {x}) = n
    BY <1>0, <2>2, FS_RemoveElement
  <2>4. T \ {x} \in P /\ T \ {x} \subseteq S /\ x \in S \ (T \ {x}) /\ (T \ {x}) \cup {x} = T
    BY <1>2, <2>2, <2>3
  <2> QED BY <2>4
<1>3. Nat \subseteq N
  <2> HIDE DEF N
  <2> QED BY <1>1, <1>2, Induct
<1> QED BY <1>0, <1>3

Pick(s) == CHOOSE x \in s : TRUE
IntOn(F, S) == \A x \in S : F[x] \in Int
SumRun(g, F, S) == g = [s \in SUBSET S |-> IF s = {} THEN 0 ELSE F[Pick(s)] + g[s \ {Pick(s)}]]
Summed(F, S) == (CHOOSE g : SumRun(g, F, S))[S]

LEMMA Picked == ASSUME NEW s, s # {} PROVE Pick(s) \in s
BY DEF Pick

LEMMA SumRunExists ==
  ASSUME NEW S, IsFiniteSet(S), NEW F, IntOn(F, S)
  PROVE  \E g : SumRun(g, F, S)
<1> DEFINE V == [SUBSET S -> Int]
           Next(h) == [s \in SUBSET S |-> IF s = {} THEN 0 ELSE F[Pick(s)] + h[s \ {Pick(s)}]]
           N == Cardinality(S) + 1
           zero == [s \in SUBSET S |-> 0]
           M == [k \in 1 .. N |-> [h \in V |-> Next(h)]]
<1>0. /\ N \in Nat /\ \A s \in SUBSET S : IsFiniteSet(s) /\ Cardinality(s) \in Nat /\ Cardinality(s) < N
  BY FS_Subset, FS_CardinalityType
<1>1. ASSUME NEW h \in V PROVE Next(h) \in V
  <2> SUFFICES ASSUME NEW s \in SUBSET S, s # {} PROVE F[Pick(s)] + h[s \ {Pick(s)}] \in Int
    OBVIOUS
  <2>1. Pick(s) \in S /\ s \ {Pick(s)} \in SUBSET S
    BY Picked
  <2> QED BY <2>1 DEF IntOn
<1>2. Machine(N, V, zero, M)
  <2>1. \A h \in V : Next(h) \in V
    BY <1>1
  <2>2. zero \in V
    OBVIOUS
  <2> HIDE DEF V, Next, zero, N
  <2>3. M \in [1 .. N -> [V -> V]]
    BY <2>1
  <2> QED BY <1>0, <2>2, <2>3 DEF Machine
<1>3. PICK f : RunOf(f, N, V, zero, M)
  <2> HIDE DEF V, M, N, zero
  <2> QED BY <1>2, Recursion
<1>4. /\ \A k \in 0 .. N : f[k] \in V
      /\ \A k \in 1 .. N : f[k] = Next(f[k - 1])
  <2> HIDE DEF V, N, zero, Next
  <2>1. ASSUME NEW k \in 0 .. N PROVE f[k] \in V
    BY <1>3, <2>1 DEF RunOf
  <2>2. ASSUME NEW k \in 1 .. N PROVE f[k] = Next(f[k - 1])
    <3>1. k - 1 \in 0 .. N /\ f[k - 1] \in V
      BY <1>0, <2>1
    <3>2. f[k] = M[k][f[k - 1]]
      BY <1>3 DEF RunOf
    <3> QED BY <3>1, <3>2
  <2> QED BY <2>1, <2>2
<1> DEFINE T == {k \in Nat : k <= N => \A s \in SUBSET S : Cardinality(s) < k => f[k][s] = Next(f[k])[s]}
<1>5. 0 \in T
  BY <1>0
<1>6. ASSUME NEW k \in Nat, k \in T PROVE k + 1 \in T
  <2> SUFFICES ASSUME k + 1 <= N, NEW s \in SUBSET S, Cardinality(s) < k + 1
               PROVE  f[k + 1][s] = Next(f[k + 1])[s]
    <3> HIDE DEF Next, N
    <3> QED OBVIOUS
  <2>1. k \in 0 .. N /\ k + 1 \in 1 .. N /\ f[k + 1] = Next(f[k]) /\ f[k + 1] \in V /\ f[k] \in V
    <3>1. k \in 0 .. N /\ k + 1 \in 1 .. N /\ k + 1 \in 0 .. N /\ (k + 1) - 1 = k
      BY <1>0
    <3> HIDE DEF V, N, Next
    <3> QED BY <1>4, <3>1
  <2>2. CASE s = {}
    BY <2>1, <2>2
  <2>3. CASE s # {}
    <3> DEFINE t == s \ {Pick(s)}
    <3>1. Pick(s) \in s /\ t \in SUBSET S /\ Cardinality(t) < k
      BY <1>0, <2>3, Picked, FS_RemoveElement
    <3>2. f[k][t] = Next(f[k])[t]
      <4>1. k <= N
        BY <1>0
      <4> HIDE DEF Next, N, t
      <4> QED BY <1>6, <3>1, <4>1
    <3>3. f[k + 1][t] = f[k][t]
      BY <2>1, <3>2
    <3>4. Next(f[k + 1])[s] = F[Pick(s)] + f[k + 1][t] /\ Next(f[k])[s] = F[Pick(s)] + f[k][t]
      BY <2>3
    <3> HIDE DEF Next
    <3> QED BY <2>1, <3>3, <3>4
  <2> QED BY <2>2, <2>3
<1>7. N \in T
  <2> HIDE DEF T
  <2>1. Nat \subseteq T
    BY <1>5, <1>6, Induct
  <2> QED BY <1>0, <2>1
<1>8. f[N] = Next(f[N])
  <2>1. f[N] \in V
    <3> HIDE DEF V, N, Next
    <3> QED BY <1>0, <1>4
  <2>2. \A s \in SUBSET S : f[N][s] = Next(f[N])[s]
    <3> HIDE DEF Next, N
    <3> QED BY <1>0, <1>7
  <2>3. Next(f[N]) \in V
    <3> HIDE DEF V, N, Next
    <3> QED BY <1>1, <2>1
  <2> QED BY <2>1, <2>2, <2>3
<1> QED BY <1>8 DEF SumRun

LEMMA SumRunAdds ==
  ASSUME NEW S, IsFiniteSet(S), NEW F, IntOn(F, S), NEW g, SumRun(g, F, S)
  PROVE  /\ g[{}] = 0
         /\ \A T \in SUBSET S : g[T] \in Int
         /\ \A T \in SUBSET S : \A x \in T : g[T] = F[x] + g[T \ {x}]
<1> DEFINE Ok(T) == g[T] \in Int /\ \A x \in T : g[T] = F[x] + g[T \ {x}]
           N == {n \in Nat : \A T \in SUBSET S : Cardinality(T) < n => Ok(T)}
<1>0. \A T \in SUBSET S : IsFiniteSet(T) /\ Cardinality(T) \in Nat
  BY FS_Subset, FS_CardinalityType
<1>1. /\ g[{}] = 0
      /\ \A T \in SUBSET S : T # {} => g[T] = F[Pick(T)] + g[T \ {Pick(T)}]
  BY DEF SumRun
<1>2. 0 \in N
  BY <1>0
<1>3. ASSUME NEW n \in Nat, n \in N PROVE n + 1 \in N
  <2>0. Ok({})
    BY <1>1
  <2> SUFFICES ASSUME NEW T \in SUBSET S, Cardinality(T) < n + 1, T # {} PROVE Ok(T)
    <3> HIDE DEF Ok
    <3> QED BY <2>0
  <2>1. PICK p : p = Pick(T)
    OBVIOUS
  <2>2. g[T] = F[p] + g[T \ {p}] /\ p \in T
    BY <1>1, <2>1, Picked
  <2>3. \A x \in T : T \ {x} \in SUBSET S /\ Cardinality(T \ {x}) < n
    BY <1>0, FS_RemoveElement
  <2>4. \A x \in T : Ok(T \ {x})
    BY <1>3, <2>3
  <2>5. \A x \in T : F[x] \in Int
    BY DEF IntOn
  <2>6. g[T] \in Int
    BY <2>2, <2>4, <2>5
  <2>7. ASSUME NEW x \in T PROVE g[T] = F[x] + g[T \ {x}]
    <3>1. CASE x = p
      BY <2>2, <3>1
    <3>2. CASE x # p
      <4>1. PICK U : U = (T \ {p}) \ {x} /\ U = (T \ {x}) \ {p}
        BY <3>2
      <4>2. g[T \ {p}] = F[x] + g[U] /\ g[T \ {x}] = F[p] + g[U]
        BY <2>2, <2>4, <3>2, <4>1
      <4>3. U \in SUBSET S /\ Cardinality(U) < n
        <5>1. Cardinality(U) <= Cardinality(T \ {p})
          BY <1>0, <4>1, FS_RemoveElement, FS_Subset
        <5> QED BY <1>0, <2>2, <2>3, <4>1, <5>1
      <4>4. g[U] \in Int
        BY <1>3, <4>3
      <4> QED BY <2>2, <2>5, <4>2, <4>4
    <3> QED BY <3>1, <3>2
  <2> QED BY <2>6, <2>7
<1>4. Nat \subseteq N
  <2> HIDE DEF N
  <2> QED BY <1>2, <1>3, Induct
<1>5. \A T \in SUBSET S : Ok(T)
  <2> SUFFICES ASSUME NEW T \in SUBSET S PROVE Ok(T)
    OBVIOUS
  <2>1. Cardinality(T) + 1 \in N /\ Cardinality(T) < Cardinality(T) + 1
    BY <1>0, <1>4
  <2> QED BY <2>1
<1> QED BY <1>1, <1>5

(* Two runs agree where their numbers do, also if one is of a larger set. *)
LEMMA SumRunsAgree ==
  ASSUME NEW S, IsFiniteSet(S), NEW T, T \subseteq S, NEW F, NEW G, IntOn(F, S), IntOn(G, T),
         \A x \in T : F[x] = G[x],
         NEW g, SumRun(g, F, S), NEW h, SumRun(h, G, T)
  PROVE  g[T] = h[T]
<1> DEFINE P == {U \in SUBSET T : g[U] = h[U]}
<1>0. IsFiniteSet(T)
  BY FS_Subset
<1>1. /\ g[{}] = 0 /\ h[{}] = 0
      /\ \A U \in SUBSET T : \A x \in U : g[U] = F[x] + g[U \ {x}] /\ h[U] = G[x] + h[U \ {x}]
  BY <1>0, SumRunAdds
<1>2. {} \in P
  BY <1>1
<1>3. ASSUME NEW U \in P, U \subseteq T, NEW x \in T \ U PROVE U \cup {x} \in P
  <2>1. g[U \cup {x}] = F[x] + g[(U \cup {x}) \ {x}] /\ h[U \cup {x}] = G[x] + h[(U \cup {x}) \ {x}]
    BY <1>1
  <2>2. (U \cup {x}) \ {x} = U
    OBVIOUS
  <2>3. F[x] = G[x] /\ g[U] = h[U]
    OBVIOUS
  <2> QED BY <2>1, <2>2, <2>3
<1>4. T \in P
  <2> HIDE DEF P
  <2> QED BY <1>0, <1>2, <1>3, SetInduct
<1> QED BY <1>4

LEMMA SummedRuns ==
  ASSUME NEW S, IsFiniteSet(S), NEW F, IntOn(F, S)
  PROVE  \E g : SumRun(g, F, S) /\ \A T \in SUBSET S : g[T] = Summed(F, T)
<1>1. PICK g : SumRun(g, F, S)
  BY SumRunExists
<1>2. ASSUME NEW T \in SUBSET S PROVE g[T] = Summed(F, T)
  <2>1. IsFiniteSet(T) /\ IntOn(F, T)
    BY FS_Subset DEF IntOn
  <2>2. PICK h : h = (CHOOSE h0 : SumRun(h0, F, T))
    OBVIOUS
  <2>3. \E h0 : SumRun(h0, F, T)
    BY <2>1, SumRunExists
  <2>4. SumRun(h, F, T)
    BY <2>2, <2>3
  <2>5. g[T] = h[T]
    BY <1>1, <2>1, <2>4, SumRunsAgree
  <2> QED BY <2>2, <2>5 DEF Summed
<1> QED BY <1>1, <1>2

LEMMA SumRunIs ==
  ASSUME NEW S, IsFiniteSet(S), NEW F, IntOn(F, S), NEW g, SumRun(g, F, S)
  PROVE  g[S] = Summed(F, S)
<1>1. PICK h : SumRun(h, F, S) /\ \A T \in SUBSET S : h[T] = Summed(F, T)
  BY SummedRuns
<1>2. g[S] = h[S]
  BY <1>1, SumRunsAgree
<1> QED BY <1>1, <1>2

LEMMA SumInt == ASSUME NEW S, IsFiniteSet(S), NEW F, IntOn(F, S) PROVE Summed(F, S) \in Int
<1>1. PICK g : SumRun(g, F, S) /\ \A T \in SUBSET S : g[T] = Summed(F, T)
  BY SummedRuns
<1>2. g[S] \in Int
  BY <1>1, SumRunAdds
<1> QED BY <1>1, <1>2

LEMMA SumEmpty == ASSUME NEW F PROVE Summed(F, {}) = 0
<1>1. IsFiniteSet({}) /\ IntOn(F, {})
  BY FS_EmptySet DEF IntOn
<1>2. PICK g : SumRun(g, F, {}) /\ \A T \in SUBSET {} : g[T] = Summed(F, T)
  BY <1>1, SummedRuns
<1>3. g[{}] = 0
  BY <1>1, <1>2, SumRunAdds
<1> QED BY <1>2, <1>3

LEMMA SumTakes ==
  ASSUME NEW S, IsFiniteSet(S), NEW F, IntOn(F, S), NEW x \in S
  PROVE  Summed(F, S) = F[x] + Summed(F, S \ {x})
<1>1. PICK g : SumRun(g, F, S) /\ \A T \in SUBSET S : g[T] = Summed(F, T)
  BY SummedRuns
<1>2. g[S] = F[x] + g[S \ {x}]
  BY <1>1, SumRunAdds
<1>3. g[S] = Summed(F, S) /\ g[S \ {x}] = Summed(F, S \ {x})
  BY <1>1
<1> QED BY <1>2, <1>3

LEMMA SumAdds ==
  ASSUME NEW S, IsFiniteSet(S), NEW F, IntOn(F, S), NEW x, x \notin S, F[x] \in Int
  PROVE  Summed(F, S \cup {x}) = F[x] + Summed(F, S)
<1>1. IsFiniteSet(S \cup {x}) /\ IntOn(F, S \cup {x}) /\ (S \cup {x}) \ {x} = S
  BY FS_AddElement DEF IntOn
<1>2. Summed(F, S \cup {x}) = F[x] + Summed(F, (S \cup {x}) \ {x})
  BY <1>1, SumTakes
<1> QED BY <1>1, <1>2

LEMMA SumAgrees ==
  ASSUME NEW S, IsFiniteSet(S), NEW F, NEW G, IntOn(F, S), \A x \in S : F[x] = G[x]
  PROVE  Summed(F, S) = Summed(G, S)
<1>1. IntOn(G, S)
  BY DEF IntOn
<1>2. PICK g : SumRun(g, F, S) /\ \A T \in SUBSET S : g[T] = Summed(F, T)
  BY SummedRuns
<1>3. PICK h : SumRun(h, G, S) /\ \A T \in SUBSET S : h[T] = Summed(G, T)
  BY <1>1, SummedRuns
<1>4. g[S] = h[S]
  BY <1>1, <1>2, <1>3, SumRunsAgree
<1> QED BY <1>2, <1>3, <1>4

LEMMA SumUnion ==
  ASSUME NEW S, IsFiniteSet(S), NEW T, IsFiniteSet(T), S \cap T = {}, NEW F, IntOn(F, S), IntOn(F, T)
  PROVE  Summed(F, S \cup T) = Summed(F, S) + Summed(F, T)
<1> DEFINE P == {U \in SUBSET T : Summed(F, S \cup U) = Summed(F, S) + Summed(F, U)}
<1>1. {} \in P
  <2>1. S \cup {} = S /\ Summed(F, {}) = 0 /\ Summed(F, S) \in Int
    BY SumEmpty, SumInt
  <2> QED BY <2>1
<1>2. ASSUME NEW U \in P, U \subseteq T, NEW x \in T \ U PROVE U \cup {x} \in P
  <2>1. /\ IsFiniteSet(U) /\ IsFiniteSet(S \cup U) /\ x \notin S \cup U /\ F[x] \in Int
        /\ IntOn(F, U) /\ IntOn(F, S \cup U)
    BY FS_Subset, FS_Union DEF IntOn
  <2>2. Summed(F, U \cup {x}) = F[x] + Summed(F, U)
    BY <2>1, SumAdds
  <2>3. Summed(F, (S \cup U) \cup {x}) = F[x] + Summed(F, S \cup U)
    BY <2>1, SumAdds
  <2>4. Summed(F, U) \in Int /\ Summed(F, S) \in Int
    BY <2>1, SumInt
  <2>5. (S \cup U) \cup {x} = S \cup (U \cup {x})
    OBVIOUS
  <2>6. Summed(F, S \cup U) = Summed(F, S) + Summed(F, U)
    OBVIOUS
  <2>7. PICK V : V = S \cup (U \cup {x}) /\ V = (S \cup U) \cup {x}
    BY <2>5
  <2>8. Summed(F, V) = F[x] + Summed(F, S \cup U)
    BY <2>3, <2>7
  <2>9. Summed(F, V) = Summed(F, S) + Summed(F, U \cup {x})
    BY <2>1, <2>2, <2>4, <2>6, <2>8
  <2> QED BY <2>7, <2>9
<1>3. T \in P
  <2> HIDE DEF P
  <2> QED BY <1>1, <1>2, SetInduct
<1> QED BY <1>3

(* Numbers between two bounds: n of them lie between n times the bounds. *)
LEMMA SumBetween ==
  ASSUME NEW S, IsFiniteSet(S), NEW F, IntOn(F, S), NEW lo \in Int, NEW hi \in Int,
         \A x \in S : lo <= F[x] /\ F[x] <= hi
  PROVE  lo * Cardinality(S) <= Summed(F, S) /\ Summed(F, S) <= hi * Cardinality(S)
<1> DEFINE P == {U \in SUBSET S : lo * Cardinality(U) <= Summed(F, U) /\ Summed(F, U) <= hi * Cardinality(U)}
<1>1. {} \in P
  BY SumEmpty, FS_EmptySet
<1>2. ASSUME NEW U \in P, U \subseteq S, NEW x \in S \ U PROVE U \cup {x} \in P
  <2>1. /\ IsFiniteSet(U) /\ IntOn(F, U) /\ F[x] \in Int /\ lo <= F[x] /\ F[x] <= hi
    BY FS_Subset DEF IntOn
  <2>2. Summed(F, U \cup {x}) = F[x] + Summed(F, U)
    BY <2>1, SumAdds
  <2>3. Summed(F, U) \in Int
    BY <2>1, SumInt
  <2>4. PICK c \in Nat : c = Cardinality(U) /\ Cardinality(U \cup {x}) = c + 1
    BY <2>1, FS_AddElement, FS_CardinalityType
  <2>5. PICK a \in Int, b \in Int, u \in Int, v \in Int : a = lo * c /\ b = hi * c /\ u = F[x] /\ v = Summed(F, U)
    BY <2>1, <2>3, <2>4
  <2>6. lo * (c + 1) = a + lo /\ hi * (c + 1) = b + hi
    BY <2>5
  <2>7. a <= v /\ v <= b
    BY <2>4, <2>5
  <2>8. lo * (c + 1) <= u + v /\ u + v <= hi * (c + 1)
    BY <2>1, <2>5, <2>6, <2>7
  <2> QED BY <2>2, <2>4, <2>5, <2>8
<1>3. S \in P
  <2> HIDE DEF P
  <2> QED BY <1>1, <1>2, SetInduct
<1> QED BY <1>3

LEMMA SumScales ==
  ASSUME NEW S, IsFiniteSet(S), NEW F, NEW G, IntOn(G, S), NEW c \in Int, \A x \in S : F[x] = c * G[x]
  PROVE  Summed(F, S) = c * Summed(G, S)
<1> DEFINE P == {U \in SUBSET S : Summed(F, U) = c * Summed(G, U)}
<1>0. IntOn(F, S)
  BY DEF IntOn
<1>1. {} \in P
  BY SumEmpty
<1>2. ASSUME NEW U \in P, U \subseteq S, NEW x \in S \ U PROVE U \cup {x} \in P
  <2>1. IsFiniteSet(U) /\ IntOn(F, U) /\ IntOn(G, U) /\ F[x] = c * G[x] /\ G[x] \in Int /\ F[x] \in Int
    BY <1>0, FS_Subset DEF IntOn
  <2>2. Summed(F, U \cup {x}) = F[x] + Summed(F, U) /\ Summed(G, U \cup {x}) = G[x] + Summed(G, U)
    BY <2>1, SumAdds
  <2>3. PICK a \in Int, b \in Int : a = G[x] /\ b = Summed(G, U)
    BY <2>1, SumInt
  <2>4. Summed(F, U) = c * b /\ c * (a + b) = c * a + c * b
    BY <2>3
  <2> QED BY <2>1, <2>2, <2>3, <2>4
<1>3. S \in P
  <2> HIDE DEF P
  <2> QED BY <1>1, <1>2, SetInduct
<1> QED BY <1>3

LEMMA SumPlus ==
  ASSUME NEW S, IsFiniteSet(S), NEW F, NEW G, NEW H, IntOn(G, S), IntOn(H, S),
         \A x \in S : F[x] = G[x] + H[x]
  PROVE  Summed(F, S) = Summed(G, S) + Summed(H, S)
<1> DEFINE P == {U \in SUBSET S : Summed(F, U) = Summed(G, U) + Summed(H, U)}
<1>0. IntOn(F, S)
  BY DEF IntOn
<1>1. {} \in P
  BY SumEmpty
<1>2. ASSUME NEW U \in P, U \subseteq S, NEW x \in S \ U PROVE U \cup {x} \in P
  <2>1. /\ IsFiniteSet(U) /\ IntOn(F, U) /\ IntOn(G, U) /\ IntOn(H, U)
        /\ F[x] = G[x] + H[x] /\ G[x] \in Int /\ H[x] \in Int /\ F[x] \in Int
    BY <1>0, FS_Subset DEF IntOn
  <2>2. /\ Summed(F, U \cup {x}) = F[x] + Summed(F, U) /\ Summed(G, U \cup {x}) = G[x] + Summed(G, U)
        /\ Summed(H, U \cup {x}) = H[x] + Summed(H, U)
    BY <2>1, SumAdds
  <2>3. Summed(G, U) \in Int /\ Summed(H, U) \in Int
    BY <2>1, SumInt
  <2> QED BY <2>1, <2>2, <2>3
<1>3. S \in P
  <2> HIDE DEF P
  <2> QED BY <1>1, <1>2, SetInduct
<1> QED BY <1>3

(* Equal numbers. *)
LEMMA SumEqual ==
  ASSUME NEW S, IsFiniteSet(S), NEW F, NEW c \in Int, \A x \in S : F[x] = c
  PROVE  Summed(F, S) = c * Cardinality(S)
<1>1. IntOn(F, S)
  BY DEF IntOn
<1>2. c * Cardinality(S) <= Summed(F, S) /\ Summed(F, S) <= c * Cardinality(S)
  BY <1>1, SumBetween
<1>3. Summed(F, S) \in Int /\ Cardinality(S) \in Nat
  BY <1>1, SumInt, FS_CardinalityType
<1> QED BY <1>2, <1>3

(* Sums that the library folds over a function. *)
LEMMA SumOfFunction ==
  ASSUME NEW S, IsFiniteSet(S), NEW F, DOMAIN F = S, IntOn(F, S)
  PROVE  SumFunction(F) = Summed(F, S)
<1> DEFINE run(g) == g = [s \in SUBSET S |-> IF s = {} THEN 0
                                              ELSE F[CHOOSE j \in s : TRUE] + g[s \ {CHOOSE j \in s : TRUE}]]
<1>1. \A g : SumRun(g, F, S) <=> run(g)
  BY DEF SumRun, Pick
<1>2. PICK g : g = (CHOOSE h : run(h))
  OBVIOUS
<1>3. run(g)
  <2>1. \E h : run(h)
    <3>1. \E h : SumRun(h, F, S)
      BY SumRunExists
    <3> HIDE DEF run
    <3> QED BY <1>1, <3>1
  <2> HIDE DEF run
  <2> QED BY <1>2, <2>1
<1>4. g[S] = Summed(F, S)
  <2>1. SumRun(g, F, S)
    BY <1>1, <1>3
  <2> QED BY <2>1, SumRunIs
<1>5. SumFunction(F) = g[S]
  BY <1>2 DEF SumFunction, SumFunctionOnSet, FoldFunctionOnSet, MapThenFoldSet
<1> QED BY <1>4, <1>5

(* A table has one sum, by rows or by columns. *)
Tabled(X, Y, f, g, A, B) ==
  /\ \A x \in X, y \in Y : f[x][y] \in Int /\ g[y][x] = f[x][y]
  /\ \A x \in X : A[x] = Summed(f[x], Y)
  /\ \A y \in Y : B[y] = Summed(g[y], X)
LEMMA SumSwap ==
  ASSUME NEW X, IsFiniteSet(X), NEW Y, IsFiniteSet(Y), NEW f, NEW g, NEW A, NEW B, Tabled(X, Y, f, g, A, B)
  PROVE  Summed(A, X) = Summed(B, Y)
<1>0. /\ \A x \in X, y \in Y : f[x][y] \in Int /\ g[y][x] = f[x][y]
      /\ \A x \in X : A[x] = Summed(f[x], Y)
      /\ \A y \in Y : B[y] = Summed(g[y], X)
  BY DEF Tabled
<1> DEFINE C(T) == [y \in Y |-> Summed(g[y], T)]
           P == {T \in SUBSET X : Summed(A, T) = Summed(C(T), Y)}
<1>1. \A x \in X : IntOn(f[x], Y) /\ A[x] \in Int
  <2> SUFFICES ASSUME NEW x \in X PROVE IntOn(f[x], Y) /\ A[x] \in Int
    OBVIOUS
  <2>1. IntOn(f[x], Y)
    BY <1>0 DEF IntOn
  <2> QED BY <1>0, <2>1, SumInt
<1>2. \A T \in SUBSET X, y \in Y : IsFiniteSet(T) /\ IntOn(g[y], T) /\ Summed(g[y], T) \in Int
  <2> SUFFICES ASSUME NEW T \in SUBSET X, NEW y \in Y PROVE IsFiniteSet(T) /\ IntOn(g[y], T) /\ Summed(g[y], T) \in Int
    OBVIOUS
  <2>1. IsFiniteSet(T) /\ IntOn(g[y], T)
    BY <1>0, FS_Subset DEF IntOn
  <2> QED BY <2>1, SumInt
<1>3. {} \in P
  <2>1. \A y \in Y : C({})[y] = 0
    BY SumEmpty
  <2>2. Summed(C({}), Y) = 0 * Cardinality(Y)
    <3> HIDE DEF C
    <3> QED BY <2>1, SumEqual
  <2>3. Summed(A, {}) = 0 /\ 0 * Cardinality(Y) = 0
    BY SumEmpty, FS_CardinalityType
  <2> QED BY <2>2, <2>3
<1>4. ASSUME NEW T \in P, NEW x \in X \ T PROVE T \cup {x} \in P
  <2>1. T \in SUBSET X /\ T \cup {x} \in SUBSET X /\ IsFiniteSet(T) /\ Summed(A, T) = Summed(C(T), Y)
    BY FS_Subset
  <2>2. IntOn(A, T) /\ A[x] \in Int
    BY <1>1, <2>1 DEF IntOn
  <2>3. Summed(A, T \cup {x}) = A[x] + Summed(A, T)
    BY <2>1, <2>2, SumAdds
  <2>4. PICK D, E : D = C(T) /\ E = C(T \cup {x})
    OBVIOUS
  <2>5. \A y \in Y : E[y] = f[x][y] + D[y] /\ D[y] \in Int
    <3> SUFFICES ASSUME NEW y \in Y PROVE E[y] = f[x][y] + D[y] /\ D[y] \in Int
      OBVIOUS
    <3>1. g[y][x] = f[x][y] /\ g[y][x] \in Int
      BY <1>0
    <3>2. Summed(g[y], T \cup {x}) = g[y][x] + Summed(g[y], T)
      BY <1>2, <2>1, <3>1, SumAdds
    <3> QED BY <1>2, <2>1, <2>4, <3>1, <3>2
  <2>6. IntOn(D, Y)
    BY <2>5 DEF IntOn
  <2>7. Summed(E, Y) = Summed(f[x], Y) + Summed(D, Y)
    BY <1>1, <2>5, <2>6, SumPlus
  <2> HIDE DEF C
  <2> QED BY <1>0, <2>1, <2>3, <2>4, <2>7
<1>5. X \in P
  <2> HIDE DEF P
  <2> QED BY <1>3, <1>4, SetInduct
<1>6. Summed(C(X), Y) = Summed(B, Y)
  <2>1. PICK D : D = C(X)
    OBVIOUS
  <2>2. IntOn(D, Y) /\ \A y \in Y : D[y] = B[y]
    BY <1>0, <1>2, <2>1 DEF IntOn
  <2> QED BY <2>1, <2>2, SumAgrees
<1> QED BY <1>5, <1>6

(* The same number for some, nothing for the others. *)
LEMMA SumMarks ==
  ASSUME NEW S, IsFiniteSet(S), NEW Z, Z \subseteq S, NEW c \in Int,
         NEW F, \A x \in S : F[x] = IF x \in Z THEN c ELSE 0
  PROVE  Summed(F, S) = c * Cardinality(Z)
<1>1. PICK W : W = S \ Z
  OBVIOUS
<1>2. IsFiniteSet(Z) /\ IsFiniteSet(W) /\ Z \cap W = {} /\ Z \cup W = S /\ IntOn(F, Z) /\ IntOn(F, W)
  BY <1>1, FS_Subset DEF IntOn
<1>3. Summed(F, S) = Summed(F, Z) + Summed(F, W)
  BY <1>2, SumUnion
<1>4. Summed(F, Z) = c * Cardinality(Z)
  BY <1>2, SumEqual
<1>5. Summed(F, W) = 0 * Cardinality(W)
  BY <1>1, <1>2, SumEqual
<1>6. Cardinality(Z) \in Nat /\ Cardinality(W) \in Nat
  BY <1>2, FS_CardinalityType
<1>7. Summed(F, Z) \in Int
  BY <1>2, SumInt
<1> QED BY <1>3, <1>4, <1>5, <1>6, <1>7

(* Counting pairs by their first or by their second part. *)
Counted(X, Y, R, A, B) ==
  /\ \A x \in X : A[x] = Cardinality({y \in Y : <<x, y>> \in R})
  /\ \A y \in Y : B[y] = Cardinality({x \in X : <<x, y>> \in R})
LEMMA DoubleCount ==
  ASSUME NEW X, IsFiniteSet(X), NEW Y, IsFiniteSet(Y), NEW R, NEW A, NEW B, Counted(X, Y, R, A, B)
  PROVE  Summed(A, X) = Summed(B, Y)
<1>0. /\ \A x \in X : A[x] = Cardinality({y \in Y : <<x, y>> \in R})
      /\ \A y \in Y : B[y] = Cardinality({x \in X : <<x, y>> \in R})
  BY DEF Counted
<1>1. PICK f, g : f = [x \in X |-> [y \in Y |-> IF <<x, y>> \in R THEN 1 ELSE 0]]
                  /\ g = [y \in Y |-> [x \in X |-> IF <<x, y>> \in R THEN 1 ELSE 0]]
  OBVIOUS
<1>2. \A x \in X, y \in Y : f[x][y] \in Int /\ g[y][x] = f[x][y]
  BY <1>1
<1>3. ASSUME NEW x \in X PROVE A[x] = Summed(f[x], Y)
  <2>1. PICK Z : Z = {y \in Y : <<x, y>> \in R}
    OBVIOUS
  <2>2. Z \subseteq Y /\ \A y \in Y : f[x][y] = IF y \in Z THEN 1 ELSE 0
    BY <1>1, <2>1
  <2>3. Summed(f[x], Y) = 1 * Cardinality(Z)
    BY <2>2, SumMarks
  <2>4. Cardinality(Z) \in Nat
    BY <2>2, FS_Subset, FS_CardinalityType
  <2>5. A[x] = Cardinality(Z)
    BY <1>0, <2>1
  <2>6. 1 * Cardinality(Z) = Cardinality(Z)
    BY <2>4
  <2> QED BY <2>3, <2>5, <2>6
<1>4. ASSUME NEW y \in Y PROVE B[y] = Summed(g[y], X)
  <2>1. PICK Z : Z = {x \in X : <<x, y>> \in R}
    OBVIOUS
  <2>2. Z \subseteq X /\ \A x \in X : g[y][x] = IF x \in Z THEN 1 ELSE 0
    BY <1>1, <2>1
  <2>3. Summed(g[y], X) = 1 * Cardinality(Z)
    BY <2>2, SumMarks
  <2>4. Cardinality(Z) \in Nat
    BY <2>2, FS_Subset, FS_CardinalityType
  <2>5. B[y] = Cardinality(Z)
    BY <1>0, <2>1
  <2>6. 1 * Cardinality(Z) = Cardinality(Z)
    BY <2>4
  <2> QED BY <2>3, <2>5, <2>6
<1>5. \A x \in X : A[x] = Summed(f[x], Y)
  BY <1>3
<1>6. \A y \in Y : B[y] = Summed(g[y], X)
  BY <1>4
<1>7. Tabled(X, Y, f, g, A, B)
  BY <1>2, <1>5, <1>6 DEF Tabled
<1> QED BY <1>7, SumSwap

LEMMA SameSize ==
  ASSUME NEW S, NEW T, IsFiniteSet(S), NEW f \in [S -> T],
         \A x, y \in S : f[x] = f[y] => x = y, \A z \in T : \E x \in S : f[x] = z
  PROVE  IsFiniteSet(T) /\ Cardinality(T) = Cardinality(S)
<1>1. f \in Bijection(S, T)
  BY DEF Bijection, Injection, Surjection, IsInjective
<1>2. ExistsBijection(S, T)
  BY <1>1 DEF ExistsBijection
<1> QED BY <1>2, FS_Bijection

Rows(X, Y, R, A) == R \subseteq X \X Y /\ \A x \in X : A[x] = Cardinality({y \in Y : <<x, y>> \in R})
LEMMA SumPairs ==
  ASSUME NEW X, IsFiniteSet(X), NEW Y, IsFiniteSet(Y), NEW R, NEW A, Rows(X, Y, R, A)
  PROVE  Summed(A, X) = Cardinality(R)
<1>0. R \subseteq X \X Y /\ \A x \in X : A[x] = Cardinality({y \in Y : <<x, y>> \in R})
  BY DEF Rows
<1>1. IsFiniteSet(R)
  BY <1>0, FS_Product, FS_Subset
<1>2. PICK Q : Q = {q \in X \X R : q[2][1] = q[1]}
  OBVIOUS
<1>3. \A x \in X, p \in R : <<x, p>> \in Q <=> p[1] = x
  BY <1>2
<1>4. ASSUME NEW x \in X PROVE A[x] = Cardinality({p \in R : <<x, p>> \in Q})
  <2>1. PICK S, T : S = {y \in Y : <<x, y>> \in R} /\ T = {p \in R : <<x, p>> \in Q}
    OBVIOUS
  <2>2. PICK f : f = [y \in S |-> <<x, y>>]
    OBVIOUS
  <2>3. f \in [S -> T] /\ \A y, z \in S : f[y] = f[z] => y = z
    BY <1>3, <2>1, <2>2
  <2>4. ASSUME NEW p \in T PROVE \E y \in S : f[y] = p
    <3>1. p \in R /\ p[1] = x
      BY <1>3, <2>1
    <3>2. p = <<x, p[2]>> /\ p[2] \in Y
      BY <1>0, <3>1
    <3> QED BY <2>1, <2>2, <3>1, <3>2
  <2>5. IsFiniteSet(S)
    BY <2>1, FS_Subset
  <2>6. Cardinality(T) = Cardinality(S)
    BY <2>3, <2>4, <2>5, SameSize
  <2> QED BY <1>0, <2>1, <2>6
<1>5. PICK B : B = [p \in R |-> Cardinality({x \in X : <<x, p>> \in Q})]
  OBVIOUS
<1>6. ASSUME NEW p \in R PROVE B[p] = 1
  <2>1. {x \in X : <<x, p>> \in Q} = {p[1]}
    BY <1>0, <1>3
  <2> QED BY <1>5, <2>1, FS_Singleton
<1>7. \A p \in R : B[p] = Cardinality({x \in X : <<x, p>> \in Q})
  BY <1>5
<1>8. Summed(A, X) = Summed(B, R)
  <2>1. \A x \in X : A[x] = Cardinality({p \in R : <<x, p>> \in Q})
    BY <1>4
  <2>2. Counted(X, R, Q, A, B)
    BY <1>7, <2>1 DEF Counted
  <2> QED BY <1>1, <2>2, DoubleCount
<1>9. Summed(B, R) = 1 * Cardinality(R)
  <2>1. PICK c \in Int : c = 1
    OBVIOUS
  <2>2. \A p \in R : B[p] = c
    BY <1>6, <2>1
  <2>3. Summed(B, R) = c * Cardinality(R)
    BY <1>1, <2>2, SumEqual
  <2> QED BY <2>1, <2>3
<1>10. Cardinality(R) \in Nat
  BY <1>1, FS_CardinalityType
<1> QED BY <1>8, <1>9, <1>10

-----------------------------------------------------------------------------
(***************************************************************************)
(* Opinions.  The sums of the model are those above.                       *)
(***************************************************************************)
LEMMA SumOfOpinions ==
  ASSUME NEW S, IsFiniteSet(S), NEW x, IntOn(x, S)
  PROVE  MapThenSumSet(LAMBDA j : x[j], S) = Summed(x, S)
<1> DEFINE run(g) == g = [s \in SUBSET S |-> IF s = {} THEN 0
                                              ELSE x[CHOOSE j \in s : TRUE] + g[s \ {CHOOSE j \in s : TRUE}]]
<1>1. \A g : SumRun(g, x, S) <=> run(g)
  BY DEF SumRun, Pick
<1>2. PICK g : g = (CHOOSE h : run(h))
  OBVIOUS
<1>3. run(g)
  <2>1. \E h : run(h)
    <3>1. \E h : SumRun(h, x, S)
      BY SumRunExists
    <3> HIDE DEF run
    <3> QED BY <1>1, <3>1
  <2> HIDE DEF run
  <2> QED BY <1>2, <2>1
<1>4. g[S] = Summed(x, S)
  <2>1. SumRun(g, x, S)
    BY <1>1, <1>3
  <2> QED BY <2>1, SumRunIs
<1>5. MapThenSumSet(LAMBDA j : x[j], S) = g[S]
  BY <1>2 DEF MapThenSumSet, MapThenFoldSet
<1> QED BY <1>4, <1>5

LEMMA SumOfPulls ==
  ASSUME NEW S, IsFiniteSet(S), NEW i, IntOn([j \in S |-> Gap(i, j) \div 2], S)
  PROVE  SumOver(S, LAMBDA j : Gap(i, j) \div 2) = Summed([j \in S |-> Gap(i, j) \div 2], S)
<1> DEFINE F == [j \in S |-> Gap(i, j) \div 2]
           run(g) == g = [s \in SUBSET S |-> IF s = {} THEN 0
                            ELSE (Gap(i, CHOOSE j \in s : TRUE) \div 2) + g[s \ {CHOOSE j \in s : TRUE}]]
<1>0. IntOn(F, S)
  OBVIOUS
<1>1. \A g : SumRun(g, F, S) <=> run(g)
  <2>1. \A s \in SUBSET S : s # {} => Pick(s) \in S /\ F[Pick(s)] = Gap(i, Pick(s)) \div 2
    BY Picked
  <2>2. \A g : \A s \in SUBSET S : s # {} =>
          F[Pick(s)] + g[s \ {Pick(s)}] = (Gap(i, Pick(s)) \div 2) + g[s \ {Pick(s)}]
    BY <2>1
  <2>3. \A g : [s \in SUBSET S |-> IF s = {} THEN 0 ELSE F[Pick(s)] + g[s \ {Pick(s)}]]
             = [s \in SUBSET S |-> IF s = {} THEN 0 ELSE (Gap(i, Pick(s)) \div 2) + g[s \ {Pick(s)}]]
    <3> HIDE DEF F
    <3> QED BY <2>2
  <2> HIDE DEF F
  <2> QED BY <2>3 DEF SumRun, Pick
<1>2. PICK g : g = (CHOOSE h : run(h))
  OBVIOUS
<1>3. run(g)
  <2>1. \E h : run(h)
    <3>1. \E h : SumRun(h, F, S)
      BY SumRunExists
    <3> HIDE DEF run, F
    <3> QED BY <1>1, <3>1
  <2> HIDE DEF run
  <2> QED BY <1>2, <2>1
<1>4. g[S] = Summed(F, S)
  <2>1. SumRun(g, F, S)
    BY <1>1, <1>3
  <2> HIDE DEF F
  <2> QED BY <1>0, <2>1, SumRunIs
<1>5. SumOver(S, LAMBDA j : Gap(i, j) \div 2) = g[S]
  BY <1>2 DEF SumOver, MapThenSumSet, MapThenFoldSet
<1> QED BY <1>4, <1>5

LEMMA DivAtMost ==
  ASSUME NEW a \in Int, NEW c \in Nat \ {0}, NEW q \in Int, a < (q + 1) * c
  PROVE  a \div c \in Int /\ a \div c <= q
<1>1. PICK d \in Int : d = a \div c /\ d * c <= a
  BY Z3
<1>2. ~ (q + 1 <= d)
  <2> SUFFICES ASSUME q + 1 <= d PROVE FALSE
    OBVIOUS
  <2>1. (q + 1) * c <= d * c
    BY Z3
  <2> QED BY <1>1, <2>1
<1> QED BY <1>1, <1>2
LEMMA DivAtLeast ==
  ASSUME NEW a \in Int, NEW c \in Nat \ {0}, NEW q \in Int, q * c <= a
  PROVE  a \div c \in Int /\ q <= a \div c
<1>1. PICK d \in Int : d = a \div c /\ a < (d + 1) * c
  BY Z3
<1>2. ~ (d + 1 <= q)
  <2> SUFFICES ASSUME d + 1 <= q PROVE FALSE
    OBVIOUS
  <2>1. (d + 1) * c <= q * c
    BY Z3
  <2> QED BY <1>1, <2>1
<1> QED BY <1>1, <1>2
LEMMA DivExact ==
  ASSUME NEW c \in Nat \ {0}, NEW q \in Int
  PROVE  (c * q) \div c = q
<1>1. (c * q) \in Int /\ c * q < (q + 1) * c /\ q * c <= c * q
  BY Z3
<1>2. (c * q) \div c \in Int /\ (c * q) \div c <= q /\ q <= (c * q) \div c
  BY <1>1, DivAtMost, DivAtLeast
<1> QED BY <1>2

Many(S) == IsFiniteSet(S) /\ S # {}
MeanOf(x, S) == Summed(x, S) \div Cardinality(S)
LEMMA ManyCount == ASSUME NEW S, Many(S) PROVE IsFiniteSet(S) /\ Cardinality(S) \in Nat \ {0}
BY FS_CardinalityType, FS_EmptySet DEF Many

(* A mean keeps every bound. *)
LEMMA MeanAtMost ==
  ASSUME NEW S, Many(S), NEW x, IntOn(x, S), NEW q \in Int, \A j \in S : x[j] <= q
  PROVE  MeanOf(x, S) \in Int /\ MeanOf(x, S) <= q
<1>1. PICK c \in Nat \ {0} : c = Cardinality(S)
  BY ManyCount
<1>2. PICK lo \in Int : \A j \in S : lo <= x[j]
  <2> DEFINE P == {T \in SUBSET S : \E lo \in Int : \A j \in T : lo <= x[j]}
  <2>1. {} \in P
    OBVIOUS
  <2>2. ASSUME NEW T \in P, T \subseteq S, NEW j \in S \ T PROVE T \cup {j} \in P
    <3>1. PICK lo \in Int : \A k \in T : lo <= x[k]
      OBVIOUS
    <3>2. PICK y \in Int : y = x[j]
      BY DEF IntOn
    <3>3. PICK d \in Int : d <= lo /\ d <= y
      <4>1. CASE lo <= y
        BY <4>1
      <4>2. CASE ~ (lo <= y)
        BY <4>2
      <4> QED BY <4>1, <4>2
    <3>4. \A k \in T \cup {j} : d <= x[k]
      BY <3>1, <3>2, <3>3 DEF IntOn
    <3> QED BY <3>4
  <2>3. S \in P
    <3>1. IsFiniteSet(S)
      BY DEF Many
    <3> HIDE DEF P
    <3> QED BY <2>1, <2>2, <3>1, SetInduct
  <2> QED BY <2>3
<1>3. PICK a \in Int : a = Summed(x, S)
  BY ManyCount, SumInt
<1>4. a <= q * c
  BY <1>1, <1>2, <1>3, ManyCount, SumBetween
<1>5. a < (q + 1) * c
  BY <1>4
<1> QED BY <1>1, <1>3, <1>5, DivAtMost DEF MeanOf
LEMMA MeanAtLeast ==
  ASSUME NEW S, Many(S), NEW x, IntOn(x, S), NEW q \in Int, \A j \in S : q <= x[j]
  PROVE  MeanOf(x, S) \in Int /\ q <= MeanOf(x, S)
<1>1. PICK c \in Nat \ {0} : c = Cardinality(S)
  BY ManyCount
<1>2. PICK hi \in Int : \A j \in S : x[j] <= hi
  <2> DEFINE P == {T \in SUBSET S : \E hi \in Int : \A j \in T : x[j] <= hi}
  <2>1. {} \in P
    OBVIOUS
  <2>2. ASSUME NEW T \in P, T \subseteq S, NEW j \in S \ T PROVE T \cup {j} \in P
    <3>1. PICK hi \in Int : \A k \in T : x[k] <= hi
      OBVIOUS
    <3>2. PICK y \in Int : y = x[j]
      BY DEF IntOn
    <3>3. PICK d \in Int : hi <= d /\ y <= d
      <4>1. CASE hi <= y
        BY <4>1
      <4>2. CASE ~ (hi <= y)
        BY <4>2
      <4> QED BY <4>1, <4>2
    <3>4. \A k \in T \cup {j} : x[k] <= d
      BY <3>1, <3>2, <3>3 DEF IntOn
    <3> QED BY <3>4
  <2>3. S \in P
    <3>1. IsFiniteSet(S)
      BY DEF Many
    <3> HIDE DEF P
    <3> QED BY <2>1, <2>2, <3>1, SetInduct
  <2> QED BY <2>3
<1>3. PICK a \in Int : a = Summed(x, S)
  BY ManyCount, SumInt
<1>4. q * c <= a
  BY <1>1, <1>2, <1>3, ManyCount, SumBetween
<1> QED BY <1>1, <1>3, <1>4, DivAtLeast DEF MeanOf

(* Somebody in a set has the least of its opinions. *)
LEMMA SomebodyLeast ==
  ASSUME NEW S, Many(S), NEW x, IntOn(x, S)
  PROVE  \E a \in S : \A j \in S : x[a] <= x[j]
<1> DEFINE P == {T \in SUBSET S : T # {} => \E a \in T : \A j \in T : x[a] <= x[j]}
<1>1. {} \in P
  OBVIOUS
<1>2. ASSUME NEW T \in P, T \subseteq S, NEW j \in S \ T PROVE T \cup {j} \in P
  <2>0. \A k \in S : x[k] \in Int
    BY DEF IntOn
  <2>1. CASE T = {}
    BY <2>0, <2>1
  <2>2. CASE T # {}
    <3>1. PICK a \in T : \A k \in T : x[a] <= x[k]
      BY <2>2
    <3>2. CASE x[a] <= x[j]
      BY <2>0, <3>1, <3>2
    <3>3. CASE ~ (x[a] <= x[j])
      <4>1. \A k \in T \cup {j} : x[j] <= x[k]
        BY <2>0, <3>1, <3>3
      <4> QED BY <4>1
    <3> QED BY <3>2, <3>3
  <2> QED BY <2>1, <2>2
<1>3. S \in P
  <2>1. IsFiniteSet(S)
    BY DEF Many
  <2> HIDE DEF P
  <2> QED BY <1>1, <1>2, <2>1, SetInduct
<1> QED BY <1>3 DEF Many

(* Who hears higher opinions has the higher mean: what only one of two hears is beyond *)
(* what the other hears. *)
Higher(x, A, B) == /\ \A a \in A \ B : \A b \in B : x[a] <= x[b]
                   /\ \A b \in B \ A : \A a \in A : x[a] <= x[b]
LEMMA MeansOrdered ==
  ASSUME NEW A, NEW B, Many(A), Many(B), NEW x, IntOn(x, A), IntOn(x, B), Higher(x, A, B)
  PROVE  MeanOf(x, A) <= MeanOf(x, B)
<1>0. \A k \in A \cup B : x[k] \in Int
  BY DEF IntOn
<1>1. CASE A \cap B = {}
  <2>1. PICK b \in B : \A k \in B : x[b] <= x[k]
    BY SomebodyLeast
  <2>2. \A a \in A : x[a] <= x[b]
    BY <1>1 DEF Higher
  <2>3. x[b] \in Int
    BY <1>0
  <2>4. MeanOf(x, A) \in Int /\ MeanOf(x, A) <= x[b] /\ MeanOf(x, B) \in Int /\ x[b] <= MeanOf(x, B)
    BY <2>1, <2>2, <2>3, MeanAtMost, MeanAtLeast
  <2> QED BY <2>3, <2>4
<1>2. CASE A \cap B # {}
  <2> DEFINE I == A \cap B  C == A \ B  D == B \ A
  <2>1. Many(I) /\ IntOn(x, I) /\ IsFiniteSet(C) /\ IntOn(x, C) /\ IsFiniteSet(D) /\ IntOn(x, D)
    BY <1>2, FS_Subset DEF Many, IntOn
  <2>2. A = I \cup C /\ B = I \cup D /\ I \cap C = {} /\ I \cap D = {}
    OBVIOUS
  <2> HIDE DEF I, C, D
  <2>3. PICK q \in Int : q = MeanOf(x, I)
    <3>1. PICK a \in I : \A j \in I : x[a] <= x[j]
      BY <2>1, SomebodyLeast
    <3>2. MeanOf(x, I) \in Int
      BY <2>1, <3>1, MeanAtLeast DEF IntOn
    <3> QED BY <3>2
  <2>4. ASSUME NEW c \in C PROVE x[c] <= q
    BY <2>1, <2>3, MeanAtLeast DEF Higher, I, C, IntOn
  <2>5. ASSUME NEW d \in D PROVE q <= x[d]
    BY <2>1, <2>3, MeanAtMost DEF Higher, I, D, IntOn
  <2>6. PICK n \in Nat \ {0}, s \in Int : n = Cardinality(I) /\ s = Summed(x, I)
    BY <2>1, ManyCount, SumInt
  <2>7. q * n <= s /\ s < (q + 1) * n
    BY <2>3, <2>6, Z3 DEF MeanOf
  <2>8. MeanOf(x, A) \in Int /\ MeanOf(x, A) <= q
    <3>1. PICK m \in Nat, t \in Int : m = Cardinality(C) /\ t = Summed(x, C)
      BY <2>1, FS_CardinalityType, SumInt
    <3>2. t <= q * m
      <4>1. CASE C = {}
        BY <3>1, <4>1, SumEmpty, FS_EmptySet
      <4>2. CASE C # {}
        <5>1. Many(C)
          BY <2>1, <4>2 DEF Many
        <5>2. PICK lo \in Int : \A j \in C : lo <= x[j]
          BY <2>1, <5>1, SomebodyLeast DEF IntOn
        <5> QED BY <2>1, <2>4, <3>1, <5>2, SumBetween
      <4> QED BY <4>1, <4>2
    <3>3. Summed(x, A) = s + t /\ Cardinality(A) = n + m
      <4>1. IsFiniteSet(I)
        BY <2>1 DEF Many
      <4>2. Cardinality(I \cap C) = 0
        BY <2>2, FS_EmptySet
      <4>3. Summed(x, I \cup C) = Summed(x, I) + Summed(x, C)
        BY <2>1, <2>2, <4>1, SumUnion
      <4>4. Cardinality(I \cup C) = Cardinality(I) + Cardinality(C) - Cardinality(I \cap C)
        BY <2>1, <4>1, FS_Union
      <4>5. Summed(x, A) = Summed(x, I \cup C) /\ Cardinality(A) = Cardinality(I \cup C)
        BY <2>2
      <4> QED BY <2>6, <3>1, <4>2, <4>3, <4>4, <4>5
    <3>4. s + t < (q + 1) * (n + m)
      BY <2>7, <3>2, Z3
    <3> QED BY <3>3, <3>4, DivAtMost DEF MeanOf
  <2>9. MeanOf(x, B) \in Int /\ q <= MeanOf(x, B)
    <3>1. PICK m \in Nat, t \in Int : m = Cardinality(D) /\ t = Summed(x, D)
      BY <2>1, FS_CardinalityType, SumInt
    <3>2. q * m <= t
      <4>1. CASE D = {}
        BY <3>1, <4>1, SumEmpty, FS_EmptySet
      <4>2. CASE D # {}
        <5>1. Many(D)
          BY <2>1, <4>2 DEF Many
        <5>2. PICK hi \in Int : \A j \in D : x[j] <= hi
          <6> DEFINE y == [j \in D |-> -x[j]]
          <6>1. PICK a \in D : \A j \in D : y[a] <= y[j]
            <7>1. IntOn(y, D)
              BY <2>1 DEF IntOn
            <7> HIDE DEF y
            <7> QED BY <5>1, <7>1, SomebodyLeast
          <6>2. \A j \in D : x[j] <= x[a]
            BY <2>1, <6>1 DEF IntOn
          <6> QED BY <2>1, <6>2 DEF IntOn
        <5> QED BY <2>1, <2>5, <3>1, <5>2, SumBetween
      <4> QED BY <4>1, <4>2
    <3>3. Summed(x, B) = s + t /\ Cardinality(B) = n + m
      <4>1. IsFiniteSet(I)
        BY <2>1 DEF Many
      <4>2. Cardinality(I \cap D) = 0
        BY <2>2, FS_EmptySet
      <4>3. Summed(x, I \cup D) = Summed(x, I) + Summed(x, D)
        BY <2>1, <2>2, <4>1, SumUnion
      <4>4. Cardinality(I \cup D) = Cardinality(I) + Cardinality(D) - Cardinality(I \cap D)
        BY <2>1, <4>1, FS_Union
      <4>5. Summed(x, B) = Summed(x, I \cup D) /\ Cardinality(B) = Cardinality(I \cup D)
        BY <2>2
      <4> QED BY <2>6, <3>1, <4>2, <4>3, <4>4, <4>5
    <3>4. q * (n + m) <= s + t
      BY <2>7, <3>2, Z3
    <3> QED BY <3>3, <3>4, DivAtLeast DEF MeanOf
  <2> QED BY <2>3, <2>8, <2>9
<1> QED BY <1>1, <1>2

(* What is kept of the first opinions y, while the opinions are x. *)
Averaging == {"hk", "hk_random", "deffuant", "group"}
Held(x, y, S) == /\ \A lo \in Int : (\A j \in S : lo <= y[j]) => \A i \in S : lo <= x[i]
                 /\ \A hi \in Int : (\A j \in S : y[j] <= hi) => \A i \in S : x[i] <= hi
Ordered(x, y, S) == \A i, j \in S : y[i] <= y[j] => x[i] <= x[j]
Multiples(x, g)  == \E t \in [Speaker -> Int] : \A i \in Speaker : x[i] = g * t[i]
Together(f, i)   == {j \in Speaker : f[j] = f[i]}
GroupKept(x, y, S) == Held(x, y, S) /\ Ordered(x, y, S) /\ Summed(x, S) = Summed(y, S)
Opinion == -One .. One

IsTalk(t) == /\ t = [rule |-> t.rule, circle |-> t.circle, group |-> t.group, window |-> t.window, x |-> t.x]
             /\ t.circle \in [Speaker -> SUBSET Speaker] /\ t.window \in Nat \X Nat
             /\ t.x \in [Speaker -> Opinion]
Kept(t, y, steps) ==
  /\ t.rule \in Averaging => Held(t.x, y, Speaker)
  /\ t.rule \in {"deffuant", "group"} => Multiples(t.x, Fineness[MaxSteps - steps])
  /\ t.rule = "deffuant" => Summed(t.x, Speaker) = Summed(y, Speaker)
  /\ t.rule = "hk" /\ (\A i \in Speaker : t.circle[i] \cup {i} = Speaker) => Ordered(t.x, y, Speaker)
  /\ t.rule = "lorenz" /\ (\A j \in Speaker : y[j] >= 0) => \A i \in Speaker : t.x[i] >= 0
  /\ t.rule = "group" => \A i \in Speaker : GroupKept(t.x, y, Together(t.group, i))
TalkInv == /\ IsTalk(talk)
           /\ talked = [x |-> talked.x, steps |-> talked.steps] /\ talked.x \in [Speaker -> Opinion]
           /\ talked.steps \in 0 .. MaxSteps
           /\ Kept(talk, talked.x, talked.steps)

LEMMA Told ==
  ASSUME TalkInv, NEW X, Talk(X)
  PROVE  /\ talk' = [rule |-> talk.rule, circle |-> talk.circle, group |-> talk.group, window |-> talk.window, x |-> X]
         /\ talked' = [x |-> talked.x, steps |-> talked.steps + 1]
         /\ talked.steps + 1 \in 0 .. MaxSteps
BY TalkAssumption DEF TalkInv, IsTalk, Talk

(* A step of a rule, with what it must show of the opinions it leaves. *)
LEMMA TellsOn ==
  ASSUME TalkInv, NEW X \in [Speaker -> Opinion], Talk(X),
         Kept([talk EXCEPT !.x = X], talked.x, talked.steps + 1)
  PROVE  TalkInv'
<1>1. /\ talk' = [rule |-> talk.rule, circle |-> talk.circle, group |-> talk.group, window |-> talk.window, x |-> X]
      /\ talked' = [x |-> talked.x, steps |-> talked.steps + 1]
      /\ talked.steps + 1 \in 0 .. MaxSteps
  BY Told
<1>2. [talk EXCEPT !.x = X]
        = [rule |-> talk.rule, circle |-> talk.circle, group |-> talk.group, window |-> talk.window, x |-> X]
  BY DEF TalkInv, IsTalk
<1>3. IsTalk(talk')
  BY <1>1 DEF TalkInv, IsTalk
<1>4. Kept(talk', talked.x, talked.steps + 1)
  BY <1>1, <1>2
<1>5. talked.x \in [Speaker -> Opinion] /\ talked'.x = talked.x /\ talked'.steps = talked.steps + 1
  BY <1>1 DEF TalkInv
<1>6. Kept(talk', talked'.x, talked'.steps)
  BY <1>4, <1>5
<1>7. talked' = [x |-> talked'.x, steps |-> talked'.steps]
  BY <1>1
<1> HIDE DEF TalkInv
<1> QED BY <1>1, <1>3, <1>5, <1>6, <1>7 DEF TalkInv, IsTalk, Kept, Held, Ordered, Multiples, Together, GroupKept, Opinion

LEMMA InitTalk == TalkInit => TalkInv
<1> SUFFICES ASSUME TalkInit PROVE TalkInv
  OBVIOUS
<1>1. PICK rule \in {"hk", "hk_random", "deffuant", "social_judgement", "lorenz", "group"}, x \in Profiles,
           circle \in Circles, group \in Groupings, window \in Windows :
        talk = [rule |-> rule, circle |-> circle, group |-> group, window |-> window, x |-> x]
  BY DEF TalkInit
<1>2. talked = [x |-> talk.x, steps |-> 0] /\ talk.x = x
  BY <1>1 DEF TalkInit
<1>3. PICK g : g = Fineness[MaxSteps]
  OBVIOUS
<1>4. /\ x \in [Speaker -> {g * k : k \in -One .. One} \cap (-One .. One)]
      /\ circle \in [Speaker -> SUBSET Speaker] /\ window \in Nat \X Nat /\ MaxSteps \in Nat /\ One \in Nat
  BY <1>3, TalkAssumption
<1>5. x \in [Speaker -> Opinion]
  BY <1>4 DEF Opinion
<1>6. IsTalk(talk)
  BY <1>1, <1>4, <1>5 DEF IsTalk
<1>7. Multiples(x, g)
  <2> DEFINE t == [i \in Speaker |-> CHOOSE k \in -One .. One : x[i] = g * k]
  <2>1. \A i \in Speaker : t[i] \in -One .. One /\ x[i] = g * t[i]
    <3> SUFFICES ASSUME NEW i \in Speaker PROVE t[i] \in -One .. One /\ x[i] = g * t[i]
      OBVIOUS
    <3>1. \E k \in -One .. One : x[i] = g * k
      BY <1>4
    <3> QED BY <3>1
  <2>2. t \in [Speaker -> Int]
    BY <1>4, <2>1
  <2> HIDE DEF t
  <2> QED BY <2>1, <2>2 DEF Multiples
<1>8. Kept(talk, talk.x, 0)
  <2>1. MaxSteps - 0 = MaxSteps
    BY <1>4
  <2> QED BY <1>2, <1>3, <1>7, <2>1 DEF Kept, Held, Ordered, GroupKept, Together
<1> QED BY <1>2, <1>4, <1>5, <1>6, <1>8 DEF TalkInv

KeepsOn(X) ==
  /\ talk.rule \in Averaging => Held(X, talked.x, Speaker)
  /\ talk.rule \in {"deffuant", "group"} => Multiples(X, Fineness[MaxSteps - (talked.steps + 1)])
  /\ talk.rule = "deffuant" => Summed(X, Speaker) = Summed(talked.x, Speaker)
  /\ talk.rule = "hk" /\ Everybody => Ordered(X, talked.x, Speaker)
  /\ talk.rule = "lorenz" /\ (\A j \in Speaker : talked.x[j] >= 0) => \A i \in Speaker : X[i] >= 0
  /\ talk.rule = "group" => \A i \in Speaker : GroupKept(X, talked.x, Together(talk.group, i))

LEMMA KeepsTalk ==
  ASSUME TalkInv, NEW X \in [Speaker -> Opinion], Talk(X), KeepsOn(X)
  PROVE  TalkInv'
<1>1. PICK u : u = [talk EXCEPT !.x = X]
  OBVIOUS
<1>2. u.rule = talk.rule /\ u.circle = talk.circle /\ u.group = talk.group /\ u.x = X
  BY <1>1 DEF TalkInv, IsTalk
<1>3. Kept(u, talked.x, talked.steps + 1)
  BY <1>2 DEF Kept, KeepsOn, Everybody
<1> QED BY <1>1, <1>3, TellsOn

LEMMA TalkTypes ==
  ASSUME TalkInv
  PROVE  /\ IsFiniteSet(Speaker) /\ One \in Nat /\ MaxSteps \in Nat /\ Divisor \in Nat \ {0}
         /\ talk.circle \in [Speaker -> SUBSET Speaker]
         /\ talk.window[1] \in Nat /\ talk.window[2] \in Nat
         /\ talk.x \in [Speaker -> Opinion] /\ talk.x \in [Speaker -> Int]
         /\ talked.x \in [Speaker -> Opinion] /\ talked.x \in [Speaker -> Int]
         /\ talked.steps \in 0 .. MaxSteps
         /\ Kept(talk, talked.x, talked.steps)
<1>1. Opinion \subseteq Int
  BY TalkAssumption DEF Opinion
<1> QED BY <1>1, TalkAssumption DEF TalkInv, IsTalk

LEMMA HeldOn ==
  ASSUME NEW S, NEW X, NEW x, NEW y, Held(x, y, S), Held(X, x, S)
  PROVE  Held(X, y, S)
BY DEF Held
LEMMA OrderedOn ==
  ASSUME NEW S, NEW X, NEW x, NEW y, Ordered(x, y, S), Ordered(X, x, S)
  PROVE  Ordered(X, y, S)
BY DEF Ordered
LEMMA HeldOpinions ==
  ASSUME TalkInv, NEW X \in [Speaker -> Int], Held(X, talk.x, Speaker)
  PROVE  X \in [Speaker -> Opinion]
<1>1. One \in Nat /\ -One \in Int /\ \A i \in Speaker : -One <= talk.x[i] /\ talk.x[i] <= One
  BY TalkTypes DEF Opinion
<1>2. \A i \in Speaker : -One <= X[i] /\ X[i] <= One
  BY <1>1 DEF Held
<1> QED BY <1>1, <1>2 DEF Opinion

(* Hegselmann-Krause. *)
LEMMA Heard ==
  ASSUME TalkInv, NEW i \in Speaker
  PROVE  /\ Many(Confidence(i)) /\ Confidence(i) \subseteq Speaker /\ IntOn(talk.x, Confidence(i))
         /\ MeanOver(Confidence(i)) = MeanOf(talk.x, Confidence(i))
<1>1. Confidence(i) \subseteq Speaker /\ i \in Confidence(i)
  BY TalkTypes DEF Confidence, Gap
<1>2. IsFiniteSet(Confidence(i)) /\ IntOn(talk.x, Confidence(i))
  BY <1>1, TalkTypes, FS_Subset DEF IntOn
<1>3. PICK S : S = Confidence(i)
  OBVIOUS
<1>4. MapThenSumSet(LAMBDA j : talk.x[j], S) = Summed(talk.x, S)
  BY <1>2, <1>3, SumOfOpinions
<1>5. MeanOver(S) = MeanOf(talk.x, S)
  BY <1>4 DEF MeanOver, SumOver, MeanOf
<1> QED BY <1>1, <1>2, <1>3, <1>5 DEF Many

LEMMA HearsHigher ==
  ASSUME TalkInv, Everybody, NEW i \in Speaker, NEW j \in Speaker, talk.x[i] <= talk.x[j]
  PROVE  Higher(talk.x, Confidence(i), Confidence(j))
<1>1. \A k \in Speaker : Confidence(k) = {m \in Speaker : Gap(k, m) >= -talk.window[1] /\ Gap(k, m) <= talk.window[2]}
  BY DEF Confidence, Everybody
<1>2. \A k \in Speaker : Confidence(k) = {m \in Speaker : /\ talk.x[m] - talk.x[k] >= -talk.window[1]
                                                        /\ talk.x[m] - talk.x[k] <= talk.window[2]}
  BY <1>1 DEF Gap
<1>3. PICK l \in Nat, r \in Nat : l = talk.window[1] /\ r = talk.window[2]
  BY TalkTypes
<1>4. \A m \in Speaker : talk.x[m] \in Int
  BY TalkTypes
<1>5. ASSUME NEW a \in Confidence(i) \ Confidence(j), NEW b \in Confidence(j) PROVE talk.x[a] <= talk.x[b]
  BY <1>2, <1>3, <1>4
<1>6. ASSUME NEW b \in Confidence(j) \ Confidence(i), NEW a \in Confidence(i) PROVE talk.x[a] <= talk.x[b]
  BY <1>2, <1>3, <1>4
<1> QED BY <1>5, <1>6 DEF Higher

LEMMA HegselmannKrauseKeeps == ASSUME TalkInv, HegselmannKrause PROVE TalkInv'
<1>1. PICK X : X = [i \in Speaker |-> MeanOver(Confidence(i))]
  OBVIOUS
<1>2. Talk(X) /\ talk.rule = "hk"
  BY <1>1 DEF HegselmannKrause
<1>3. \A i \in Speaker : X[i] = MeanOf(talk.x, Confidence(i))
  BY <1>1, Heard
<1>4. ASSUME NEW i \in Speaker
      PROVE  /\ X[i] \in Int
             /\ \A lo \in Int : (\A j \in Speaker : lo <= talk.x[j]) => lo <= X[i]
             /\ \A hi \in Int : (\A j \in Speaker : talk.x[j] <= hi) => X[i] <= hi
  <2>1. PICK S : S = Confidence(i)
    OBVIOUS
  <2>2. Many(S) /\ S \subseteq Speaker /\ IntOn(talk.x, S) /\ X[i] = MeanOf(talk.x, S)
    BY <1>3, <2>1, Heard
  <2>3. ASSUME NEW lo \in Int, \A j \in Speaker : lo <= talk.x[j] PROVE MeanOf(talk.x, S) \in Int /\ lo <= X[i]
    BY <2>2, <2>3, MeanAtLeast
  <2>4. ASSUME NEW hi \in Int, \A j \in Speaker : talk.x[j] <= hi PROVE X[i] <= hi
    BY <2>2, <2>4, MeanAtMost
  <2>5. \A j \in Speaker : -One <= talk.x[j]
    BY TalkTypes DEF Opinion
  <2> QED BY <2>2, <2>3, <2>4, <2>5, TalkTypes
<1>5. X \in [Speaker -> Int]
  BY <1>1, <1>4
<1>6. Held(X, talk.x, Speaker)
  BY <1>4 DEF Held
<1>7. X \in [Speaker -> Opinion]
  BY <1>5, <1>6, HeldOpinions
<1>8. Held(talk.x, talked.x, Speaker)
  BY <1>2, TalkTypes DEF Kept, Averaging
<1>9. Held(X, talked.x, Speaker)
  BY <1>6, <1>8, HeldOn
<1>10. ASSUME Everybody PROVE Ordered(X, talked.x, Speaker)
  <2>1. Ordered(talk.x, talked.x, Speaker)
    BY <1>2, <1>10, TalkTypes DEF Kept, Everybody
  <2>2. ASSUME NEW i \in Speaker, NEW j \in Speaker, talk.x[i] <= talk.x[j] PROVE X[i] <= X[j]
    <3>1. Higher(talk.x, Confidence(i), Confidence(j))
      BY <1>10, <2>2, HearsHigher
    <3>2. /\ Many(Confidence(i)) /\ IntOn(talk.x, Confidence(i))
          /\ Many(Confidence(j)) /\ IntOn(talk.x, Confidence(j))
      BY Heard
    <3>3. MeanOf(talk.x, Confidence(i)) <= MeanOf(talk.x, Confidence(j))
      BY <3>1, <3>2, MeansOrdered
    <3> QED BY <1>3, <3>3
  <2>3. Ordered(X, talk.x, Speaker)
    BY <2>2 DEF Ordered
  <2> QED BY <2>1, <2>3, OrderedOn
<1>11. KeepsOn(X)
  BY <1>2, <1>9, <1>10 DEF KeepsOn
<1> QED BY <1>2, <1>7, <1>11, KeepsTalk

(* The random mean: between the least and the greatest that is heard. *)
LEMMA SomebodyGreatest ==
  ASSUME NEW S, Many(S), NEW x, IntOn(x, S)
  PROVE  \E a \in S : \A j \in S : x[j] <= x[a]
<1> DEFINE y == [j \in S |-> -x[j]]
<1>1. PICK a \in S : \A j \in S : y[a] <= y[j]
  <2>1. IntOn(y, S)
    BY DEF IntOn
  <2> HIDE DEF y
  <2> QED BY <2>1, SomebodyLeast
<1>2. \A j \in S : x[j] <= x[a]
  BY <1>1 DEF IntOn
<1> QED BY <1>2

LEMMA LeastHeard ==
  ASSUME NEW S, Many(S), NEW x, IntOn(x, S), NEW T, T = {x[j] : j \in S}
  PROVE  /\ \E a \in S : Min(T) = x[a] /\ \A j \in S : x[a] <= x[j]
         /\ \E a \in S : Max(T) = x[a] /\ \A j \in S : x[j] <= x[a]
<1>0. \A j \in S : x[j] \in Int
  BY DEF IntOn
<1>1. PICK a \in S : \A j \in S : x[a] <= x[j]
  BY SomebodyLeast
<1>2. PICK b \in S : \A j \in S : x[j] <= x[b]
  BY SomebodyGreatest
<1>3. Min(T) \in T /\ \A v \in T : Min(T) <= v
  BY <1>1 DEF Min
<1>4. Max(T) \in T /\ \A v \in T : Max(T) >= v
  BY <1>0, <1>2 DEF Max
<1>5. PICK c \in S : Min(T) = x[c]
  BY <1>3
<1>6. PICK d \in S : Max(T) = x[d]
  BY <1>4
<1>7. \A j \in S : x[c] <= x[j]
  BY <1>3, <1>5
<1>8. \A j \in S : x[j] <= x[d]
  BY <1>0, <1>4, <1>6
<1> QED BY <1>5, <1>6, <1>7, <1>8

LEMMA HegselmannKrauseRandomKeeps == ASSUME TalkInv, HegselmannKrauseRandom PROVE TalkInv'
<1>1. PICK low \in SUBSET Speaker :
        Talk([i \in Speaker |-> LET heard == {talk.x[j] : j \in Confidence(i)}
                                IN  IF i \in low THEN Min(heard) ELSE Max(heard)])
  BY DEF HegselmannKrauseRandom
<1>2. PICK X : X = [i \in Speaker |-> IF i \in low THEN Min({talk.x[j] : j \in Confidence(i)})
                                      ELSE Max({talk.x[j] : j \in Confidence(i)})]
  OBVIOUS
<1>3. Talk(X) /\ talk.rule = "hk_random"
  BY <1>1, <1>2 DEF HegselmannKrauseRandom
<1>4. ASSUME NEW i \in Speaker PROVE \E a \in Speaker : X[i] = talk.x[a]
  <2>1. PICK S, T : S = Confidence(i) /\ T = {talk.x[j] : j \in S}
    OBVIOUS
  <2>2. Many(S) /\ S \subseteq Speaker /\ IntOn(talk.x, S)
    BY <2>1, Heard
  <2>3. /\ \E a \in S : Min(T) = talk.x[a]
        /\ \E a \in S : Max(T) = talk.x[a]
    <3>1. PICK x : x = talk.x
      OBVIOUS
    <3>2. T = {x[j] : j \in S} /\ IntOn(x, S)
      BY <2>1, <2>2, <3>1
    <3>3. /\ \E a \in S : Min(T) = x[a] /\ \A j \in S : x[a] <= x[j]
          /\ \E a \in S : Max(T) = x[a] /\ \A j \in S : x[j] <= x[a]
      BY <2>2, <3>2, LeastHeard
    <3> QED BY <3>1, <3>3
  <2>4. X[i] = Min(T) \/ X[i] = Max(T)
    BY <1>2, <2>1
  <2> QED BY <2>2, <2>3, <2>4
<1>5. X \in [Speaker -> Int]
  BY <1>2, <1>4, TalkTypes
<1>6. Held(X, talk.x, Speaker)
  BY <1>4 DEF Held
<1>7. X \in [Speaker -> Opinion]
  BY <1>5, <1>6, HeldOpinions
<1>8. Held(talk.x, talked.x, Speaker)
  BY <1>3, TalkTypes DEF Kept, Averaging
<1>9. Held(X, talked.x, Speaker)
  BY <1>6, <1>8, HeldOn
<1>10. KeepsOn(X)
  BY <1>3, <1>9 DEF KeepsOn
<1> QED BY <1>3, <1>7, <1>10, KeepsTalk

(* Deffuant and group conformity: opinions stay multiples of the grain of the step, so *)
(* that every division is exact, and a sum is kept. *)
LEMMA Grains ==
  /\ \A k \in 0 .. MaxSteps : Fineness[k] \in Nat \ {0}
  /\ \A k \in 1 .. MaxSteps : Fineness[k] = Divisor * Fineness[k - 1]
<1>0. MaxSteps \in Nat /\ Divisor \in Nat \ {0}
  BY TalkAssumption
<1> DEFINE V == Nat \ {0}
           Is(g) == g = [k \in 0 .. MaxSteps |-> IF k = 0 THEN 1 ELSE Divisor * g[k - 1]]
           M == [k \in 1 .. MaxSteps |-> [v \in V |-> Divisor * v]]
<1>1. \A v \in V : Divisor * v \in V
  BY <1>0, Z3
<1>2. PICK f : RunOf(f, MaxSteps, V, 1, M)
  <2>1. 1 \in V
    OBVIOUS
  <2> HIDE DEF V
  <2>2. M \in [1 .. MaxSteps -> [V -> V]]
    BY <1>1
  <2> HIDE DEF M
  <2> QED BY <1>0, <2>1, <2>2, Recursion DEF Machine
<1>3. /\ f \in [0 .. MaxSteps -> V] /\ f[0] = 1
      /\ \A k \in 1 .. MaxSteps : f[k] = M[k][f[k - 1]]
  BY <1>2 DEF RunOf
<1>4. \A k \in 1 .. MaxSteps : k - 1 \in 0 .. MaxSteps
  BY <1>0
<1>5. \A k \in 1 .. MaxSteps : f[k] = Divisor * f[k - 1]
  <2> HIDE DEF V
  <2> QED BY <1>3, <1>4
<1>6. Is(f)
  <2>1. \A k \in 0 .. MaxSteps : k = 0 \/ k \in 1 .. MaxSteps
    BY <1>0
  <2>2. \A k \in 0 .. MaxSteps : f[k] = IF k = 0 THEN 1 ELSE Divisor * f[k - 1]
    BY <1>0, <1>3, <1>5, <2>1
  <2>3. f = [k \in 0 .. MaxSteps |-> f[k]]
    BY <1>3
  <2> HIDE DEF V, M
  <2> QED BY <2>2, <2>3
<1>7. Is(Fineness)
  <2>1. Fineness = CHOOSE g : Is(g)
    BY DEF Fineness
  <2> HIDE DEF Is
  <2> QED BY <1>6, <2>1
<1>8. Fineness[0] = 1 /\ \A k \in 1 .. MaxSteps : Fineness[k] = Divisor * Fineness[k - 1]
  BY <1>0, <1>7
<1>9. \A k \in 0 .. MaxSteps : Fineness[k] \in V
  <2> DEFINE T == {n \in Nat : n <= MaxSteps => Fineness[n] \in V}
  <2>1. 0 \in T
    BY <1>8
  <2>2. ASSUME NEW n \in Nat, n \in T PROVE n + 1 \in T
    <3>1. SUFFICES ASSUME n + 1 <= MaxSteps PROVE Fineness[n + 1] \in V
      OBVIOUS
    <3>2. n + 1 \in 1 .. MaxSteps /\ (n + 1) - 1 = n /\ Fineness[n] \in V
      BY <1>0, <2>2, <3>1
    <3>3. Fineness[n + 1] = Divisor * Fineness[n]
      BY <1>8, <3>2
    <3> QED BY <1>1, <3>2, <3>3
  <2>3. Nat \subseteq T
    <3> HIDE DEF T
    <3> QED BY <2>1, <2>2, Induct
  <2> QED BY <1>0, <2>3
<1> QED BY <1>8, <1>9

(* The grain of this step and of the next. *)
LEMMA NextGrain ==
  ASSUME TalkInv, talked.steps < MaxSteps, talk.rule \in {"deffuant", "group"}
  PROVE  \E g \in Nat \ {0}, t \in [Speaker -> Int] :
           /\ g = Fineness[MaxSteps - (talked.steps + 1)]
           /\ \A i \in Speaker : talk.x[i] = (Divisor * g) * t[i]
<1>1. PICK s \in Nat : s = MaxSteps - (talked.steps + 1) /\ MaxSteps - talked.steps = s + 1 /\ s + 1 \in 1 .. MaxSteps
  BY TalkTypes
<1>2. s \in 0 .. MaxSteps /\ (s + 1) - 1 = s
  BY <1>1, TalkTypes
<1>3. Fineness[s] \in Nat \ {0} /\ Fineness[s + 1] = Divisor * Fineness[s]
  BY <1>1, <1>2, Grains
<1>4. Multiples(talk.x, Fineness[s + 1])
  BY <1>1, TalkTypes DEF Kept
<1> QED BY <1>1, <1>3, <1>4 DEF Multiples

LEMMA SumMoved ==
  ASSUME NEW S, IsFiniteSet(S), NEW x, IntOn(x, S), NEW X, IntOn(X, S), NEW i \in S, NEW j \in S, i # j,
         NEW e \in Int, X[i] = x[i] + e, X[j] = x[j] - e, \A k \in S \ {i, j} : X[k] = x[k]
  PROVE  Summed(X, S) = Summed(x, S)
<1> DEFINE T == S \ {i}  U == (S \ {i}) \ {j}
<1>1. IsFiniteSet(T) /\ IsFiniteSet(U) /\ j \in T /\ U = T \ {j}
  BY FS_Subset
<1>2. IntOn(x, T) /\ IntOn(X, T) /\ IntOn(x, U) /\ IntOn(X, U) /\ \A k \in U : X[k] = x[k]
  BY DEF IntOn
<1>3. T = S \ {i}
  OBVIOUS
<1>4. x[i] \in Int /\ x[j] \in Int
  BY DEF IntOn
<1> HIDE DEF T, U
<1>5. Summed(x, S) = x[i] + Summed(x, T) /\ Summed(X, S) = X[i] + Summed(X, T)
  BY <1>3, SumTakes
<1>6. Summed(x, T) = x[j] + Summed(x, U) /\ Summed(X, T) = X[j] + Summed(X, U)
  BY <1>1, <1>2, SumTakes
<1>7. Summed(X, U) = Summed(x, U) /\ Summed(x, U) \in Int
  BY <1>1, <1>2, SumAgrees, SumInt
<1>8. PICK u \in Int : u = Summed(x, U)
  BY <1>7
<1> QED BY <1>4, <1>5, <1>6, <1>7, <1>8

(* Half or a quarter of the way is a whole number of grains. *)
GrainsOfWay(g, xi, xj, mu) ==
  \E m \in Int : /\ mu * (g * m) = xj - xi /\ (xj - xi) \div mu = g * m
                /\ (xi - xj) \div mu = -(g * m)
LEMMA ExactStep ==
  ASSUME NEW g \in Nat \ {0}, NEW a \in Int, NEW b \in Int, NEW mu \in {2, 4},
         NEW xi, NEW xj, xi = (Divisor * g) * a, xj = (Divisor * g) * b
  PROVE  GrainsOfWay(g, xi, xj, mu)
<1>1. PICK d \in Nat : Divisor = 4 * d
  BY TalkAssumption
<1>2. PICK f \in Nat : Divisor = mu * f
  <2>1. CASE mu = 2
    BY <1>1, <2>1
  <2>2. CASE mu = 4
    BY <1>1, <2>2
  <2> QED BY <2>1, <2>2
<1>3. PICK m \in Int : m = f * (b - a)
  OBVIOUS
<1>4. PICK q \in Int : q = g * m
  OBVIOUS
<1>5. mu * q = xj - xi
  <2>1. (mu * f) * g * b - (mu * f) * g * a = mu * (g * (f * (b - a)))
    BY Z3
  <2> QED BY <1>2, <1>3, <1>4, <2>1, Z3
<1>6. xj - xi = mu * q /\ xi - xj = mu * (-q) /\ mu \in Nat \ {0}
  <2>1. xi \in Int /\ xj \in Int
    BY TalkAssumption, Z3
  <2> QED BY <1>5, <2>1
<1>7. (mu * q) \div mu = q /\ (mu * (-q)) \div mu = -q
  BY <1>6, DivExact
<1> QED BY <1>3, <1>4, <1>5, <1>6, <1>7 DEF GrainsOfWay

LEMMA DeffuantKeeps == ASSUME TalkInv, Deffuant PROVE TalkInv'
<1>1. PICK i \in Speaker, mu \in {2, 4} : \E j \in talk.circle[i] \ {i} :
        Talk(IF Size(Gap(i, j)) <= talk.window[1] THEN Moved(i, j, mu) ELSE talk.x)
  BY DEF Deffuant
<1>2. PICK j \in talk.circle[i] \ {i} : Talk(IF Size(Gap(i, j)) <= talk.window[1] THEN Moved(i, j, mu) ELSE talk.x)
  BY <1>1
<1>3. PICK X : X = IF Size(Gap(i, j)) <= talk.window[1] THEN Moved(i, j, mu) ELSE talk.x
  OBVIOUS
<1>4. Talk(X) /\ talk.rule = "deffuant" /\ talked.steps < MaxSteps /\ j \in Speaker /\ i # j
  BY <1>2, <1>3, TalkTypes DEF Deffuant, Talk
<1>5. PICK g \in Nat \ {0}, t \in [Speaker -> Int] :
        /\ g = Fineness[MaxSteps - (talked.steps + 1)]
        /\ \A k \in Speaker : talk.x[k] = (Divisor * g) * t[k]
  BY <1>4, NextGrain
<1>6. PICK m \in Int : /\ mu * (g * m) = talk.x[j] - talk.x[i]
                       /\ (talk.x[j] - talk.x[i]) \div mu = g * m
                       /\ (talk.x[i] - talk.x[j]) \div mu = -(g * m)
  <2>1. PICK xi, xj, a \in Int, b \in Int :
          xi = talk.x[i] /\ xj = talk.x[j] /\ a = t[i] /\ b = t[j]
    BY <1>4, TalkTypes
  <2>2. xi = (Divisor * g) * a /\ xj = (Divisor * g) * b
    BY <1>4, <1>5, <2>1
  <2>3. GrainsOfWay(g, xi, xj, mu)
    BY <2>2, ExactStep
  <2> QED BY <2>1, <2>3 DEF GrainsOfWay
<1>7. PICK e \in Int : e = g * m
  OBVIOUS
<1>8. Divisor \in Nat /\ \A k \in Speaker : talk.x[k] \in Int
  BY TalkTypes
<1>9. PICK n \in Int : /\ \A k \in Speaker \ {i, j} : X[k] = talk.x[k]
                       /\ (n = m \/ n = 0) /\ X[i] = talk.x[i] + g * n /\ X[j] = talk.x[j] - g * n
                       /\ DOMAIN X = Speaker /\ X = [k \in Speaker |-> X[k]]
  <2>1. CASE Size(Gap(i, j)) <= talk.window[1]
    <3>1. X = [talk.x EXCEPT ![i] = talk.x[i] + g * m, ![j] = talk.x[j] + (-(g * m))]
      BY <1>3, <1>6, <2>1 DEF Moved, Gap
    <3>2. /\ \A k \in Speaker \ {i, j} : X[k] = talk.x[k]
          /\ X[i] = talk.x[i] + g * m /\ X[j] = talk.x[j] - g * m
      BY <1>4, <1>7, <1>8, <3>1, TalkTypes
    <3>3. DOMAIN X = Speaker /\ X = [k \in Speaker |-> X[k]]
      BY <3>1, TalkTypes
    <3> QED BY <3>2, <3>3
  <2>2. CASE ~(Size(Gap(i, j)) <= talk.window[1])
    <3>1. X = talk.x
      BY <1>3, <2>2
    <3>2. g * 0 = 0
      OBVIOUS
    <3> QED BY <1>4, <1>8, <3>1, <3>2, TalkTypes
  <2> QED BY <2>1, <2>2
<1>10. PICK d \in Int : d = g * n /\ (d = e \/ d = 0)
  BY <1>7, <1>9
<1>11. X[i] = talk.x[i] + d /\ X[j] = talk.x[j] - d /\ mu * e = talk.x[j] - talk.x[i]
  BY <1>6, <1>7, <1>9, <1>10
<1>12. \A k \in Speaker : X[k] \in Int
  BY <1>4, <1>8, <1>9, <1>11
<1>13. Held(X, talk.x, Speaker)
  <2>1. PICK xi \in Int, xj \in Int : xi = talk.x[i] /\ xj = talk.x[j]
    BY <1>4, <1>8
  <2>2. \/ xi <= xi + d /\ xi + d <= xj /\ xi <= xj - d /\ xj - d <= xj
        \/ xj <= xi + d /\ xi + d <= xi /\ xj <= xj - d /\ xj - d <= xi
    BY <1>10, <1>11, <2>1
  <2>3. ASSUME NEW lo \in Int, \A k \in Speaker : lo <= talk.x[k], NEW k \in Speaker PROVE lo <= X[k]
    <3>1. CASE k = i
      BY <1>4, <1>11, <2>1, <2>2, <2>3, <3>1
    <3>2. CASE k = j
      BY <1>4, <1>11, <2>1, <2>2, <2>3, <3>2
    <3>3. CASE k \notin {i, j}
      BY <1>9, <2>3, <3>3
    <3> QED BY <3>1, <3>2, <3>3
  <2>4. ASSUME NEW hi \in Int, \A k \in Speaker : talk.x[k] <= hi, NEW k \in Speaker PROVE X[k] <= hi
    <3>1. CASE k = i
      BY <1>4, <1>11, <2>1, <2>2, <2>4, <3>1
    <3>2. CASE k = j
      BY <1>4, <1>11, <2>1, <2>2, <2>4, <3>2
    <3>3. CASE k \notin {i, j}
      BY <1>9, <2>4, <3>3
    <3> QED BY <3>1, <3>2, <3>3
  <2> QED BY <2>3, <2>4 DEF Held
<1>14. X \in [Speaker -> Int]
  BY <1>9, <1>12
<1>15. X \in [Speaker -> Opinion]
  BY <1>13, <1>14, HeldOpinions
<1>16. Held(X, talked.x, Speaker)
  <2>1. Held(talk.x, talked.x, Speaker)
    BY <1>4, TalkTypes DEF Kept, Averaging
  <2> QED BY <1>13, <2>1, HeldOn
<1>17. Multiples(X, g)
  <2> DEFINE T == [k \in Speaker |-> IF k = i THEN Divisor * t[k] + n ELSE IF k = j THEN Divisor * t[k] - n
                                     ELSE Divisor * t[k]]
  <2>1. \A k \in Speaker : Divisor * t[k] \in Int /\ talk.x[k] = g * (Divisor * t[k])
    <3> SUFFICES ASSUME NEW k \in Speaker PROVE Divisor * t[k] \in Int /\ talk.x[k] = g * (Divisor * t[k])
      OBVIOUS
    <3>1. PICK a \in Int : a = t[k]
      OBVIOUS
    <3>2. Divisor * a \in Int /\ (Divisor * g) * a = g * (Divisor * a)
      BY <1>8, Z3
    <3> QED BY <1>5, <3>1, <3>2
  <2>2. \A k \in Speaker : T[k] \in Int /\ X[k] = g * T[k]
    <3> SUFFICES ASSUME NEW k \in Speaker PROVE T[k] \in Int /\ X[k] = g * T[k]
      OBVIOUS
    <3>1. PICK a \in Int : a = Divisor * t[k]
      BY <2>1
    <3>2. g * (a + n) = g * a + g * n /\ g * (a - n) = g * a - g * n
      BY Z3
    <3>3. talk.x[k] = g * a
      BY <2>1, <3>1
    <3>4. T[k] = IF k = i THEN a + n ELSE IF k = j THEN a - n ELSE a
      BY <3>1
    <3> HIDE DEF T
    <3>5. CASE k = i
      BY <1>9, <3>2, <3>3, <3>4, <3>5
    <3>6. CASE k = j
      BY <1>4, <1>9, <3>2, <3>3, <3>4, <3>6
    <3>7. CASE k \notin {i, j}
      BY <1>9, <3>3, <3>4, <3>7
    <3> QED BY <3>5, <3>6, <3>7
  <2>3. T \in [Speaker -> Int]
    BY <2>2
  <2> HIDE DEF T
  <2> QED BY <2>2, <2>3 DEF Multiples
<1>18. Summed(X, Speaker) = Summed(talked.x, Speaker)
  <2>1. Summed(talk.x, Speaker) = Summed(talked.x, Speaker)
    BY <1>4, TalkTypes DEF Kept
  <2>2. IntOn(X, Speaker) /\ IntOn(talk.x, Speaker) /\ IsFiniteSet(Speaker)
    BY <1>12, TalkTypes DEF IntOn
  <2>3. Summed(X, Speaker) = Summed(talk.x, Speaker)
    BY <1>4, <1>9, <1>11, <2>2, SumMoved
  <2> QED BY <2>1, <2>3
<1>19. KeepsOn(X)
  BY <1>4, <1>5, <1>16, <1>17, <1>18 DEF KeepsOn
<1> QED BY <1>4, <1>15, <1>19, KeepsTalk

(* Social judgement and Lorenz: the clamp keeps the scale, and whoever is drawn only to *)
(* opinions that are not negative does not become negative. *)
LEMMA Clamped ==
  ASSUME One \in Nat, NEW a \in Int
  PROVE  ClampAttitude(a) = IF a < -One THEN -One ELSE IF One < a THEN One ELSE a
<1>1. PICK m \in Int : m = IF One < a THEN One ELSE a
  OBVIOUS
<1>2. Min({a, One}) = m
  <2>1. m \in {a, One} /\ m <= a /\ m <= One
    BY <1>1
  <2>2. PICK n : n = Min({a, One})
    OBVIOUS
  <2>3. n \in {a, One} /\ n <= a /\ n <= One
    BY <2>1, <2>2 DEF Min
  <2> QED BY <2>1, <2>2, <2>3
<1>3. PICK o \in Int : o = -One
  OBVIOUS
<1>4. PICK q \in Int : q = IF m < o THEN o ELSE m
  BY <1>3
<1>5. Max({o, m}) = q
  <2>1. q \in {o, m} /\ q >= o /\ q >= m
    BY <1>4
  <2>2. PICK n : n = Max({o, m})
    OBVIOUS
  <2>3. n \in {o, m} /\ n >= o /\ n >= m
    BY <2>1, <2>2 DEF Max
  <2> QED BY <2>1, <2>2, <2>3
<1>6. ClampAttitude(a) = q
  BY <1>2, <1>3, <1>5 DEF ClampAttitude
<1> QED BY <1>1, <1>3, <1>4, <1>6

LEMMA SumOfPushes ==
  ASSUME NEW S, IsFiniteSet(S), NEW i, IntOn([j \in S |-> Sign(Gap(i, j)) * (One \div 4)], S)
  PROVE  SumOver(S, LAMBDA j : Sign(Gap(i, j)) * (One \div 4)) = Summed([j \in S |-> Sign(Gap(i, j)) * (One \div 4)], S)
<1> DEFINE F == [j \in S |-> Sign(Gap(i, j)) * (One \div 4)]
           run(g) == g = [s \in SUBSET S |-> IF s = {} THEN 0
                            ELSE Sign(Gap(i, CHOOSE j \in s : TRUE)) * (One \div 4) + g[s \ {CHOOSE j \in s : TRUE}]]
<1>0. IntOn(F, S)
  OBVIOUS
<1>1. \A g : SumRun(g, F, S) <=> run(g)
  <2>1. \A s \in SUBSET S : s # {} => Pick(s) \in S /\ F[Pick(s)] = Sign(Gap(i, Pick(s))) * (One \div 4)
    BY Picked
  <2>2. \A g : \A s \in SUBSET S : s # {} =>
          F[Pick(s)] + g[s \ {Pick(s)}] = Sign(Gap(i, Pick(s))) * (One \div 4) + g[s \ {Pick(s)}]
    BY <2>1
  <2>3. \A g : [s \in SUBSET S |-> IF s = {} THEN 0 ELSE F[Pick(s)] + g[s \ {Pick(s)}]]
             = [s \in SUBSET S |-> IF s = {} THEN 0 ELSE Sign(Gap(i, Pick(s))) * (One \div 4) + g[s \ {Pick(s)}]]
    <3> HIDE DEF F
    <3> QED BY <2>2
  <2> HIDE DEF F
  <2> QED BY <2>3 DEF SumRun, Pick
<1>2. PICK g : g = (CHOOSE h : run(h))
  OBVIOUS
<1>3. run(g)
  <2>1. \E h : run(h)
    <3>1. \E h : SumRun(h, F, S)
      BY SumRunExists
    <3> HIDE DEF run, F
    <3> QED BY <1>1, <3>1
  <2> HIDE DEF run
  <2> QED BY <1>2, <2>1
<1>4. g[S] = Summed(F, S)
  <2>1. SumRun(g, F, S)
    BY <1>1, <1>3
  <2> HIDE DEF F
  <2> QED BY <1>0, <2>1, SumRunIs
<1>5. SumOver(S, LAMBDA j : Sign(Gap(i, j)) * (One \div 4)) = g[S]
  BY <1>2 DEF SumOver, MapThenSumSet, MapThenFoldSet
<1> QED BY <1>4, <1>5

LEMMA Neighbours ==
  ASSUME TalkInv, NEW i \in Speaker
  PROVE  /\ Near(i) \subseteq Speaker /\ IsFiniteSet(Near(i)) /\ Far(i) \subseteq Speaker /\ IsFiniteSet(Far(i))
         /\ \A j \in Speaker : Gap(i, j) \in Int
<1>1. Near(i) \subseteq Speaker /\ Far(i) \subseteq Speaker
  BY TalkTypes DEF Near, Far, Others
<1>2. \A j \in Speaker : Gap(i, j) \in Int
  BY TalkTypes DEF Gap
<1> QED BY <1>1, <1>2, TalkTypes, FS_Subset

LEMMA Pulled ==
  ASSUME TalkInv, NEW i \in Speaker
  PROVE  /\ IntOn([j \in Near(i) |-> Gap(i, j) \div 2], Near(i))
         /\ SumOver(Near(i), LAMBDA j : Gap(i, j) \div 2) = Summed([j \in Near(i) |-> Gap(i, j) \div 2], Near(i))
         /\ SumOver(Near(i), LAMBDA j : Gap(i, j) \div 2) \in Int
<1>1. PICK S : S = Near(i)
  OBVIOUS
<1>2. \A j \in S : Gap(i, j) \in Int
  BY <1>1, Neighbours
<1>3. IntOn([j \in S |-> Gap(i, j) \div 2], S)
  <2>1. \A j \in S : Gap(i, j) \div 2 \in Int
    BY <1>2
  <2> QED BY <2>1 DEF IntOn
<1>4. IsFiniteSet(S)
  BY <1>1, Neighbours
<1>5. SumOver(S, LAMBDA j : Gap(i, j) \div 2) = Summed([j \in S |-> Gap(i, j) \div 2], S)
  BY <1>3, <1>4, SumOfPulls
<1>6. Summed([j \in S |-> Gap(i, j) \div 2], S) \in Int
  BY <1>3, <1>4, SumInt
<1> QED BY <1>1, <1>3, <1>5, <1>6

LEMMA Pushed ==
  ASSUME TalkInv, NEW i \in Speaker
  PROVE  SumOver(Far(i), LAMBDA j : Sign(Gap(i, j)) * (One \div 4)) \in Int
<1>1. PICK S : S = Far(i)
  OBVIOUS
<1>2. PICK r \in Int : r = One \div 4
  BY TalkTypes
<1>3. IntOn([j \in S |-> Sign(Gap(i, j)) * (One \div 4)], S)
  BY <1>2 DEF IntOn, Sign
<1>4. IsFiniteSet(S)
  BY <1>1, Neighbours
<1>5. SumOver(S, LAMBDA j : Sign(Gap(i, j)) * (One \div 4)) = Summed([j \in S |-> Sign(Gap(i, j)) * (One \div 4)], S)
  BY <1>3, <1>4, SumOfPushes
<1>6. Summed([j \in S |-> Sign(Gap(i, j)) * (One \div 4)], S) \in Int
  BY <1>3, <1>4, SumInt
<1> QED BY <1>1, <1>5, <1>6

LEMMA DivInt == ASSUME NEW a \in Int, NEW c \in Nat, c # 0 PROVE a \div c \in Int
BY DivAtMost, Z3

LEMMA ClampedOpinion ==
  ASSUME TalkInv, NEW a \in Int
  PROVE  ClampAttitude(a) \in Opinion /\ (a >= 0 => ClampAttitude(a) >= 0)
<1>1. One \in Nat
  BY TalkTypes
<1>2. ClampAttitude(a) = IF a < -One THEN -One ELSE IF One < a THEN One ELSE a
  BY <1>1, Clamped
<1> QED BY <1>1, <1>2 DEF Opinion

LEMMA SocialJudgementKeeps == ASSUME TalkInv, SocialJudgement PROVE TalkInv'
<1> DEFINE count(i) == Cardinality(Near(i) \cup Far(i))
           pull(i) == SumOver(Near(i), LAMBDA j : Gap(i, j) \div 2)
           push(i) == SumOver(Far(i), LAMBDA j : Sign(Gap(i, j)) * (One \div 4))
           moved(i) == talk.x[i] + (IF count(i) = 0 THEN 0 ELSE (pull(i) - push(i)) \div count(i))
<1>1. PICK X : X = [i \in Speaker |-> ClampAttitude(moved(i))]
  OBVIOUS
<1>2. Talk(X) /\ talk.rule = "social_judgement"
  BY <1>1 DEF SocialJudgement
<1>3. ASSUME NEW i \in Speaker PROVE X[i] \in Opinion
  <2>1. pull(i) \in Int /\ push(i) \in Int
    BY Pulled, Pushed
  <2>2. count(i) \in Nat
    BY Neighbours, FS_Union, FS_CardinalityType
  <2>3. talk.x[i] \in Int
    BY TalkTypes
  <2> HIDE DEF count, pull, push
  <2>4. count(i) # 0 => (pull(i) - push(i)) \div count(i) \in Int
    BY <2>1, <2>2, DivInt
  <2>5. moved(i) \in Int
    BY <2>3, <2>4
  <2> HIDE DEF moved
  <2> QED BY <1>1, <2>5, ClampedOpinion
<1>4. X \in [Speaker -> Opinion]
  BY <1>1, <1>3
<1>5. KeepsOn(X)
  BY <1>2 DEF KeepsOn, Averaging
<1> QED BY <1>2, <1>4, <1>5, KeepsTalk

LEMMA LorenzKeeps == ASSUME TalkInv, Lorenz PROVE TalkInv'
<1> DEFINE pull(i) == SumOver(Near(i), LAMBDA j : Gap(i, j) \div 2)
           polarization(i) == IF Others(i) = {} THEN 0 ELSE Sign(talk.x[i]) * (Size(talk.x[i]) \div 4)
           mean(i) == IF Near(i) = {} THEN 0 ELSE pull(i) \div Cardinality(Near(i))
           moved(i) == talk.x[i] + mean(i) + polarization(i)
<1>1. PICK X : X = [i \in Speaker |-> ClampAttitude(moved(i))]
  OBVIOUS
<1>2. Talk(X) /\ talk.rule = "lorenz"
  BY <1>1 DEF Lorenz
<1>3. ASSUME NEW i \in Speaker PROVE mean(i) \in Int /\ ((\A j \in Speaker : talk.x[j] >= 0) => talk.x[i] + mean(i) >= 0)
  <2>1. PICK S, F : S = Near(i) /\ F = [j \in S |-> Gap(i, j) \div 2]
    OBVIOUS
  <2>2. IsFiniteSet(S) /\ S \subseteq Speaker /\ IntOn(F, S) /\ pull(i) = Summed(F, S)
    BY <2>1, Neighbours, Pulled
  <2>3. PICK xi \in Int : xi = talk.x[i]
    BY TalkTypes
  <2>4. mean(i) = IF S = {} THEN 0 ELSE MeanOf(F, S)
    BY <2>1, <2>2 DEF MeanOf
  <2>5. CASE S = {}
    <3>1. mean(i) = 0
      BY <2>4, <2>5
    <3> HIDE DEF mean
    <3> QED BY <2>3, <3>1
  <2>6. CASE S # {}
    <3>1. Many(S)
      BY <2>2, <2>6 DEF Many
    <3>2. PICK a \in S : \A j \in S : F[a] <= F[j]
      BY <2>2, <3>1, SomebodyLeast
    <3>3. F[a] \in Int
      BY <2>2 DEF IntOn
    <3>4. MeanOf(F, S) \in Int /\ F[a] <= MeanOf(F, S)
      BY <2>2, <3>1, <3>2, <3>3, MeanAtLeast
    <3>5. (\A j \in Speaker : talk.x[j] >= 0) => xi + F[a] >= 0
      <4> SUFFICES ASSUME \A j \in Speaker : talk.x[j] >= 0 PROVE xi + F[a] >= 0
        OBVIOUS
      <4>1. PICK xa \in Int : xa = talk.x[a] /\ xa >= 0 /\ xi >= 0
        BY <2>2, <2>3, TalkTypes
      <4>2. F[a] = (xa - xi) \div 2
        BY <2>1, <2>3, <4>1 DEF Gap
      <4>3. xi + ((xa - xi) \div 2) >= 0
        BY <4>1
      <4> QED BY <4>2, <4>3
    <3> HIDE DEF mean, pull
    <3> QED BY <2>3, <2>4, <2>6, <3>3, <3>4, <3>5
  <2> HIDE DEF mean, pull
  <2> QED BY <2>5, <2>6
<1>4. ASSUME NEW i \in Speaker PROVE polarization(i) \in Int /\ (talk.x[i] >= 0 => polarization(i) >= 0)
  <2>1. PICK xi \in Int : xi = talk.x[i]
    BY TalkTypes
  <2>2. Size(xi) \in Nat
    BY DEF Size
  <2>3. PICK q \in Int : q = Size(xi) \div 4 /\ q >= 0
    BY <2>2
  <2>4. polarization(i) = IF Others(i) = {} THEN 0 ELSE Sign(xi) * q
    BY <2>1, <2>3
  <2>5. Sign(xi) * q \in Int /\ (xi >= 0 => Sign(xi) * q = q)
    BY <2>3 DEF Sign
  <2> HIDE DEF polarization
  <2> QED BY <2>1, <2>3, <2>4, <2>5
<1> HIDE DEF pull, polarization, mean
<1>5. ASSUME NEW i \in Speaker
      PROVE moved(i) \in Int /\ ((\A j \in Speaker : talk.x[j] >= 0) => moved(i) >= 0)
  <2>1. talk.x[i] \in Int
    BY TalkTypes
  <2> QED BY <1>3, <1>4, <2>1
<1> HIDE DEF moved
<1>6. X \in [Speaker -> Opinion] /\ ((\A j \in Speaker : talk.x[j] >= 0) => \A j \in Speaker : X[j] >= 0)
  BY <1>1, <1>5, ClampedOpinion
<1>7. (\A j \in Speaker : talked.x[j] >= 0) => \A j \in Speaker : talk.x[j] >= 0
  BY <1>2, TalkTypes DEF Kept
<1>8. KeepsOn(X)
  BY <1>2, <1>6, <1>7 DEF KeepsOn, Averaging
<1> QED BY <1>2, <1>6, <1>8, KeepsTalk

(* A group: with numbers that its size and 2 divide the mean is exact, and so is halfway. *)
Halfway(v, mean) == v + (mean - v) \div 2
Halfways(X, x, S) == \A k \in S : X[k] = Halfway(x[k], MeanOf(x, S))
Grained(x, g, t) == g \in Nat \ {0} /\ t \in [Speaker -> Int] /\ \A k \in Speaker : x[k] = (Divisor * g) * t[k]
Divisible(x, S, g, b) == \A k \in S : b[k] \in Int /\ x[k] = 2 * (Cardinality(S) * (g * b[k]))
LEMMA GroupStep ==
  ASSUME NEW S, Many(S), NEW g \in Nat \ {0}, NEW x, NEW b, Divisible(x, S, g, b),
         NEW X, Halfways(X, x, S)
  PROVE  /\ \E B \in Int : \A k \in S : X[k] = g * (Cardinality(S) * b[k] + B)
         /\ Summed(X, S) = Summed(x, S)
<1>1. PICK c \in Nat \ {0} : c = Cardinality(S)
  BY ManyCount
<1>2. IsFiniteSet(S) /\ IntOn(b, S) /\ \A k \in S : x[k] = 2 * (c * (g * b[k]))
  BY <1>1 DEF Divisible, Many, IntOn
<1>3. PICK a : a = [k \in S |-> g * b[k]]
  OBVIOUS
<1>4. \A k \in S : a[k] \in Int /\ a[k] = g * b[k] /\ x[k] = (2 * c) * a[k] /\ x[k] \in Int
  <2> SUFFICES ASSUME NEW k \in S PROVE a[k] \in Int /\ a[k] = g * b[k] /\ x[k] = (2 * c) * a[k] /\ x[k] \in Int
    OBVIOUS
  <2>1. PICK d \in Int : d = b[k]
    BY <1>2 DEF IntOn
  <2>2. PICK f \in Int : f = g * d
    OBVIOUS
  <2>3. 2 * (c * f) = (2 * c) * f /\ (2 * c) * f \in Int
    BY Z3
  <2> QED BY <1>2, <1>3, <2>1, <2>2, <2>3
<1>5. IntOn(a, S) /\ IntOn(x, S)
  BY <1>4 DEF IntOn
<1>6. PICK B \in Int, A \in Int : B = Summed(b, S) /\ A = g * B /\ A = Summed(a, S)
  <2>1. Summed(b, S) \in Int /\ Summed(a, S) = g * Summed(b, S)
    BY <1>2, <1>4, SumInt, SumScales
  <2> QED BY <2>1
<1>7. Summed(x, S) = (2 * c) * A
  <2>1. PICK w \in Int : w = 2 * c
    OBVIOUS
  <2>2. \A k \in S : x[k] = w * a[k]
    BY <1>4, <2>1
  <2>3. Summed(x, S) = w * Summed(a, S)
    BY <1>2, <1>5, <2>2, SumScales
  <2> QED BY <1>6, <2>1, <2>3
<1>8. MeanOf(x, S) = 2 * A
  <2>1. (2 * c) * A = c * (2 * A)
    BY Z3
  <2> QED BY <1>1, <1>7, <2>1, DivExact DEF MeanOf
<1>9. \A k \in S : X[k] = c * a[k] + A
  <2> SUFFICES ASSUME NEW k \in S PROVE X[k] = c * a[k] + A
    OBVIOUS
  <2>1. PICK d \in Int, f \in Int : d = a[k] /\ f = c * d
    BY <1>4
  <2>2. x[k] = 2 * f
    <3>1. (2 * c) * d = 2 * (c * d)
      BY Z3
    <3> QED BY <1>4, <2>1, <3>1
  <2>3. 2 * f + (2 * A - 2 * f) \div 2 = f + A
    <3>1. PICK h \in Int : h = A - f
      OBVIOUS
    <3>2. (2 * h) \div 2 = h
      OBVIOUS
    <3>3. 2 * A - 2 * f = 2 * h
      BY <3>1
    <3> QED BY <3>1, <3>2, <3>3
  <2>4. X[k] = Halfway(2 * f, 2 * A)
    BY <1>8, <2>2 DEF Halfways
  <2> QED BY <2>1, <2>3, <2>4 DEF Halfway
<1>10. \A k \in S : X[k] = g * (c * b[k] + B)
  <2> SUFFICES ASSUME NEW k \in S PROVE X[k] = g * (c * b[k] + B)
    OBVIOUS
  <2>1. PICK d \in Int : d = b[k]
    BY <1>2 DEF IntOn
  <2>2. c * (g * d) + g * B = g * (c * d + B)
    BY Z3
  <2> QED BY <1>4, <1>6, <1>9, <2>1, <2>2
<1>11. Summed(X, S) = Summed(x, S)
  <2>1. PICK G, H : G = [k \in S |-> c * a[k]] /\ H = [k \in S |-> A]
    OBVIOUS
  <2>2. IntOn(G, S) /\ IntOn(H, S)
    <3>1. \A k \in S : c * a[k] \in Int
      BY <1>4
    <3> QED BY <2>1, <3>1 DEF IntOn
  <2>3. \A k \in S : X[k] = G[k] + H[k] /\ G[k] = c * a[k] /\ H[k] = A
    BY <1>9, <2>1
  <2>4. Summed(X, S) = Summed(G, S) + Summed(H, S)
    BY <1>2, <2>2, <2>3, SumPlus
  <2>5. Summed(G, S) = c * A
    BY <1>2, <1>5, <1>6, <2>3, SumScales
  <2>6. Summed(H, S) = A * c
    BY <1>1, <1>2, <2>3, SumEqual
  <2>7. c * A + A * c = (2 * c) * A
    BY Z3
  <2> QED BY <1>7, <2>4, <2>5, <2>6, <2>7
<1> QED BY <1>1, <1>10, <1>11

LEMMA GroupMembers ==
  ASSUME TalkInv, NEW i \in Speaker, NEW S, S = Together(talk.group, i)
  PROVE  /\ i \in S /\ S \subseteq Speaker /\ Many(S) /\ IntOn(talk.x, S)
         /\ MeanOver(S) = MeanOf(talk.x, S) /\ MeanOf(talk.x, S) \in Int
         /\ \A k \in S : Together(talk.group, k) = S
<1>1. i \in S /\ S \subseteq Speaker /\ \A k \in S : Together(talk.group, k) = S
  BY DEF Together
<1>2. IsFiniteSet(S) /\ IntOn(talk.x, S) /\ \A j \in S : -One <= talk.x[j]
  BY <1>1, TalkTypes, FS_Subset DEF IntOn, Opinion
<1>3. Many(S)
  BY <1>1, <1>2 DEF Many
<1>4. MapThenSumSet(LAMBDA j : talk.x[j], S) = Summed(talk.x, S)
  BY <1>2, SumOfOpinions
<1>5. MeanOver(S) = MeanOf(talk.x, S)
  BY <1>4 DEF MeanOver, SumOver, MeanOf
<1>6. -One \in Int
  BY TalkTypes
<1>7. MeanOf(talk.x, S) \in Int
  BY <1>2, <1>3, <1>6, MeanAtLeast
<1> QED BY <1>1, <1>2, <1>3, <1>5, <1>7

LEMMA HalfwayBetween ==
  ASSUME NEW v \in Int, NEW m \in Int
  PROVE  /\ Halfway(v, m) \in Int
         /\ \A lo \in Int : lo <= v /\ lo <= m => lo <= Halfway(v, m)
         /\ \A hi \in Int : v <= hi /\ m <= hi => Halfway(v, m) <= hi
         /\ \A w \in Int : v <= w => Halfway(v, m) <= Halfway(w, m)
BY DEF Halfway

(* What a step of a group keeps, within one group. *)
LEMMA GroupHolds ==
  ASSUME TalkInv, talk.rule = "group", talked.steps < MaxSteps, NEW i \in Speaker,
         NEW S, S = Together(talk.group, i),
         NEW X, Halfways(X, talk.x, S), NEW g, NEW t, Grained(talk.x, g, t)
  PROVE  /\ GroupKept(X, talk.x, S)
         /\ \A k \in S : \E q \in Int : X[k] = g * q
<1>1. /\ i \in S /\ S \subseteq Speaker /\ Many(S) /\ IntOn(talk.x, S) /\ MeanOf(talk.x, S) \in Int
      /\ \A k \in S : talk.x[k] \in Int
  BY GroupMembers DEF IntOn
<1> g \in Nat \ {0} /\ t \in [Speaker -> Int] /\ \A k \in Speaker : talk.x[k] = (Divisor * g) * t[k]
  BY DEF Grained
<1>2. PICK c \in Nat \ {0} : c = Cardinality(S) /\ c \in 1 .. Cardinality(Speaker)
  BY <1>1, ManyCount, TalkTypes, FS_Subset, FS_CardinalityType
<1>3. PICK e \in Nat : Divisor = 2 * c * e
  <2>1. \A size \in 1 .. Cardinality(Speaker) : \E d \in 1 .. Divisor : Divisor = 2 * size * d
    BY TalkAssumption
  <2>2. PICK d \in 1 .. Divisor : Divisor = 2 * c * d
    BY <1>2, <2>1
  <2>3. d \in Nat
    BY <2>2, TalkTypes
  <2> QED BY <2>2, <2>3
<1>4. PICK b : b = [k \in S |-> e * t[k]]
  OBVIOUS
<1>5. Divisible(talk.x, S, g, b)
  <2>1. ASSUME NEW k \in S PROVE b[k] \in Int /\ talk.x[k] = 2 * (c * (g * b[k]))
    <3>1. PICK d \in Int : d = t[k]
      BY <1>1
    <3>2. ((2 * c * e) * g) * d = 2 * (c * (g * (e * d))) /\ e * d \in Int
      BY Z3
    <3>3. b[k] = e * d /\ talk.x[k] = ((2 * c * e) * g) * d
      BY <1>1, <1>3, <1>4, <3>1
    <3> QED BY <3>2, <3>3
  <2> QED BY <1>2, <2>1 DEF Divisible
<1>6. PICK B \in Int : \A k \in S : X[k] = g * (c * b[k] + B)
  BY <1>1, <1>2, <1>5, GroupStep
<1>7. Summed(X, S) = Summed(talk.x, S)
  BY <1>1, <1>5, GroupStep
<1>8. \A k \in S : \E q \in Int : X[k] = g * q
  <2>1. \A k \in S : c * b[k] + B \in Int
    BY <1>5 DEF Divisible
  <2> QED BY <1>6, <2>1
<1>9. PICK m \in Int : m = MeanOf(talk.x, S)
  BY <1>1
<1>10. \A k \in S : X[k] = Halfway(talk.x[k], m) /\ talk.x[k] \in Int
  BY <1>1, <1>9 DEF Halfways
<1>11. Held(X, talk.x, S)
  <2>1. ASSUME NEW lo \in Int, \A k \in S : lo <= talk.x[k], NEW k \in S PROVE lo <= X[k]
    <3>1. lo <= m
      BY <1>1, <1>9, <2>1, MeanAtLeast
    <3>2. PICK v \in Int : v = talk.x[k] /\ X[k] = Halfway(v, m) /\ lo <= v
      BY <1>10, <2>1
    <3>3. lo <= Halfway(v, m)
      BY <3>1, <3>2, HalfwayBetween
    <3> QED BY <3>2, <3>3
  <2>2. ASSUME NEW hi \in Int, \A k \in S : talk.x[k] <= hi, NEW k \in S PROVE X[k] <= hi
    <3>1. m <= hi
      BY <1>1, <1>9, <2>2, MeanAtMost
    <3>2. PICK v \in Int : v = talk.x[k] /\ X[k] = Halfway(v, m) /\ v <= hi
      BY <1>10, <2>2
    <3>3. Halfway(v, m) <= hi
      BY <3>1, <3>2, HalfwayBetween
    <3> QED BY <3>2, <3>3
  <2> QED BY <2>1, <2>2 DEF Held
<1>12. Ordered(X, talk.x, S)
  <2>1. ASSUME NEW j \in S, NEW k \in S, talk.x[j] <= talk.x[k] PROVE X[j] <= X[k]
    <3>1. PICK v \in Int, w \in Int : v = talk.x[j] /\ w = talk.x[k]
      BY <1>10
    <3>2. Halfway(v, m) <= Halfway(w, m)
      BY <2>1, <3>1, HalfwayBetween
    <3> QED BY <1>10, <3>1, <3>2
  <2> QED BY <2>1 DEF Ordered
<1> QED BY <1>7, <1>8, <1>11, <1>12 DEF GroupKept

LEMMA GroupConformityKeeps == ASSUME TalkInv, GroupConformity PROVE TalkInv'
<1>1. PICK X : X = [i \in Speaker |->
                      talk.x[i] + (MeanOver({j \in Speaker : talk.group[j] = talk.group[i]}) - talk.x[i]) \div 2]
  OBVIOUS
<1>2. Talk(X) /\ talk.rule = "group" /\ talked.steps < MaxSteps
  BY <1>1 DEF GroupConformity, Talk
<1>3. \A i \in Speaker : X[i] = Halfway(talk.x[i], MeanOver(Together(talk.group, i)))
  BY <1>1 DEF Halfway, Together
<1>4. ASSUME NEW i \in Speaker, NEW S, S = Together(talk.group, i)
      PROVE Halfways(X, talk.x, S)
  <2>1. /\ S \subseteq Speaker /\ MeanOver(S) = MeanOf(talk.x, S)
        /\ \A k \in S : Together(talk.group, k) = S
    BY <1>4, GroupMembers
  <2> QED BY <1>3, <2>1 DEF Halfways
<1>5. PICK g \in Nat \ {0}, t \in [Speaker -> Int] :
        /\ g = Fineness[MaxSteps - (talked.steps + 1)]
        /\ \A k \in Speaker : talk.x[k] = (Divisor * g) * t[k]
  BY <1>2, NextGrain
<1> Grained(talk.x, g, t)
  BY <1>5 DEF Grained
<1>6. ASSUME NEW i \in Speaker
      PROVE  /\ GroupKept(X, talk.x, Together(talk.group, i)) /\ i \in Together(talk.group, i)
             /\ \E q \in Int : X[i] = g * q
  <2>1. PICK S : S = Together(talk.group, i)
    OBVIOUS
  <2>2. Halfways(X, talk.x, S)
    BY <1>4, <2>1
  <2>3. GroupKept(X, talk.x, S) /\ \A k \in S : \E q \in Int : X[k] = g * q
    BY <1>2, <1>5, <2>1, <2>2, GroupHolds
  <2>4. i \in S
    BY <2>1, GroupMembers
  <2> QED BY <2>1, <2>3, <2>4
<1>7. X \in [Speaker -> Int]
  <2>1. \A i \in Speaker : X[i] \in Int
    <3>1. \A q \in Int : g * q \in Int
      BY Z3
    <3> QED BY <1>6, <3>1
  <2> QED BY <1>1, <2>1
<1>8. Multiples(X, g)
  <2> DEFINE T == [k \in Speaker |-> CHOOSE q \in Int : X[k] = g * q]
  <2>1. \A k \in Speaker : T[k] \in Int /\ X[k] = g * T[k]
    BY <1>6
  <2>2. T \in [Speaker -> Int]
    BY <2>1
  <2> HIDE DEF T
  <2> QED BY <2>1, <2>2 DEF Multiples
<1>9. Held(X, talk.x, Speaker)
  <2>1. ASSUME NEW lo \in Int, \A k \in Speaker : lo <= talk.x[k], NEW i \in Speaker PROVE lo <= X[i]
    <3>1. PICK S : S = Together(talk.group, i)
      OBVIOUS
    <3>2. Held(X, talk.x, S) /\ i \in S /\ S \subseteq Speaker
      BY <1>6, <3>1, GroupMembers DEF GroupKept
    <3> QED BY <2>1, <3>2 DEF Held
  <2>2. ASSUME NEW hi \in Int, \A k \in Speaker : talk.x[k] <= hi, NEW i \in Speaker PROVE X[i] <= hi
    <3>1. PICK S : S = Together(talk.group, i)
      OBVIOUS
    <3>2. Held(X, talk.x, S) /\ i \in S /\ S \subseteq Speaker
      BY <1>6, <3>1, GroupMembers DEF GroupKept
    <3> QED BY <2>2, <3>2 DEF Held
  <2> QED BY <2>1, <2>2 DEF Held
<1>10. X \in [Speaker -> Opinion]
  BY <1>7, <1>9, HeldOpinions
<1>11. Held(X, talked.x, Speaker)
  <2>1. Held(talk.x, talked.x, Speaker)
    BY <1>2, TalkTypes DEF Kept, Averaging
  <2> QED BY <1>9, <2>1, HeldOn
<1>12. ASSUME NEW i \in Speaker PROVE GroupKept(X, talked.x, Together(talk.group, i))
  <2>1. PICK S : S = Together(talk.group, i)
    OBVIOUS
  <2>2. GroupKept(X, talk.x, S)
    BY <1>6, <2>1
  <2>3. GroupKept(talk.x, talked.x, S)
    BY <1>2, <2>1, TalkTypes DEF Kept
  <2>4. Held(X, talked.x, S) /\ Ordered(X, talked.x, S) /\ Summed(X, S) = Summed(talked.x, S)
    BY <2>2, <2>3, HeldOn, OrderedOn DEF GroupKept
  <2> QED BY <2>1, <2>4 DEF GroupKept
<1>13. KeepsOn(X)
  BY <1>2, <1>5, <1>8, <1>11, <1>12 DEF KeepsOn
<1> QED BY <1>2, <1>10, <1>13, KeepsTalk

(* Every step keeps the invariant, and what it keeps is what averaging promises. *)
LEMMA TalkStep == TalkInv /\ [TalkNext]_ovars => TalkInv'
<1> SUFFICES ASSUME TalkInv, [TalkNext]_ovars PROVE TalkInv'
  OBVIOUS
<1>1. CASE TalkNext
  BY <1>1, HegselmannKrauseKeeps, HegselmannKrauseRandomKeeps, DeffuantKeeps, SocialJudgementKeeps, LorenzKeeps,
     GroupConformityKeeps DEF TalkNext
<1>2. CASE UNCHANGED ovars
  <2>1. talk' = talk /\ talked' = talked
    BY <1>2 DEF ovars
  <2> QED BY <2>1 DEF TalkInv, IsTalk, Kept, Held, Ordered, Multiples, GroupKept, Together, Opinion
<1> QED BY <1>1, <1>2

LEMMA HeldRange ==
  ASSUME NEW S, Many(S), NEW x, NEW y, IntOn(y, S), Held(x, y, S), IntOn(x, S), NEW T, T = {y[j] : j \in S}
  PROVE  \A i \in S : x[i] \in Min(T) .. Max(T)
<1>1. PICK a \in S : Min(T) = y[a] /\ \A j \in S : y[a] <= y[j]
  BY LeastHeard
<1>2. PICK b \in S : Max(T) = y[b] /\ \A j \in S : y[j] <= y[b]
  BY LeastHeard
<1>3. y[a] \in Int /\ y[b] \in Int
  BY DEF IntOn
<1>4. \A i \in S : y[a] <= x[i] /\ x[i] <= y[b]
  BY <1>1, <1>2, <1>3 DEF Held
<1> QED BY <1>1, <1>2, <1>3, <1>4 DEF IntOn

LEMMA SumsKept ==
  ASSUME NEW S, IsFiniteSet(S), NEW x, NEW y, IntOn(x, S), IntOn(y, S), Summed(x, S) = Summed(y, S)
  PROVE  OpinionSum(x, S) = OpinionSum(y, S)
<1>1. MapThenSumSet(LAMBDA j : x[j], S) = Summed(x, S)
  BY SumOfOpinions
<1>2. MapThenSumSet(LAMBDA j : y[j], S) = Summed(y, S)
  BY SumOfOpinions
<1> QED BY <1>1, <1>2 DEF OpinionSum, SumOver

LEMMA KeptAsPromised == TalkInv => OpinionsAsPromised
<1> SUFFICES ASSUME TalkInv PROVE OpinionsAsPromised
  OBVIOUS
<1>1. PICK x \in [Speaker -> Int], y \in [Speaker -> Int] : x = talk.x /\ y = talked.x
  BY TalkTypes
<1>2. IsFiniteSet(Speaker) /\ IntOn(x, Speaker) /\ IntOn(y, Speaker)
  BY TalkTypes DEF IntOn
<1>3. ASSUME talk.rule \in {"hk", "hk_random", "deffuant", "group"}
      PROVE \A i \in Speaker : x[i] \in Min(Range(y)) .. Max(Range(y))
  <2> SUFFICES ASSUME NEW i \in Speaker PROVE x[i] \in Min(Range(y)) .. Max(Range(y))
    OBVIOUS
  <2>1. Many(Speaker)
    BY <1>2 DEF Many
  <2>2. Range(y) = {y[j] : j \in Speaker}
    BY DEF Range
  <2>3. Held(x, y, Speaker)
    BY <1>1, <1>3, TalkTypes DEF Kept, Averaging
  <2> QED BY <1>2, <2>1, <2>2, <2>3, HeldRange
<1>4. \A i \in Speaker : x[i] \in -One .. One
  BY <1>1, TalkTypes DEF Opinion
<1>5. talk.rule = "deffuant" => OpinionSum(x, Speaker) = OpinionSum(y, Speaker)
  BY <1>1, <1>2, SumsKept, TalkTypes DEF Kept
<1>6. talk.rule = "hk" /\ Everybody => \A i, j \in Speaker : y[i] <= y[j] => x[i] <= x[j]
  BY <1>1, TalkTypes DEF Kept, Everybody, Ordered
<1>7. talk.rule = "lorenz" => \A i \in Speaker : (\A j \in Speaker : y[j] >= 0) => x[i] >= 0
  BY <1>1, TalkTypes DEF Kept
<1>8. ASSUME talk.rule = "group", NEW i \in Speaker, NEW S, S = {j \in Speaker : talk.group[j] = talk.group[i]}
      PROVE  /\ OpinionSum(x, S) = OpinionSum(y, S)
             /\ \A j \in S : y[i] <= y[j] => x[i] <= x[j]
             /\ x[i] \in Min({y[j] : j \in S}) .. Max({y[j] : j \in S})
  <2>1. i \in S /\ S \subseteq Speaker /\ S = Together(talk.group, i)
    BY <1>8 DEF Together
  <2>2. Many(S) /\ IsFiniteSet(S) /\ IntOn(x, S) /\ IntOn(y, S)
    BY <1>2, <2>1, FS_Subset DEF Many, IntOn
  <2>3. Held(x, y, S) /\ Ordered(x, y, S) /\ Summed(x, S) = Summed(y, S)
    BY <1>1, <1>8, <2>1, TalkTypes DEF Kept, GroupKept
  <2>4. OpinionSum(x, S) = OpinionSum(y, S)
    BY <2>2, <2>3, SumsKept
  <2>5. PICK T : T = {y[j] : j \in S}
    OBVIOUS
  <2>6. x[i] \in Min(T) .. Max(T)
    BY <2>1, <2>2, <2>3, <2>5, HeldRange
  <2> QED BY <2>1, <2>3, <2>4, <2>5, <2>6 DEF Ordered
<1> QED BY <1>1, <1>3, <1>4, <1>5, <1>6, <1>7, <1>8 DEF OpinionsAsPromised

(* What every rule keeps of the first opinions, after any number of steps: their bounds, *)
(* their sum, their order, their sign, and that all are multiples of the grain of the step. *)
THEOREM OpinionsKept == TalkSpec => []TalkInv
BY InitTalk, TalkStep, PTL DEF TalkSpec

(* Averaging keeps what it promises, for every population, every network, every window *)
(* and every grouping: the ranges, the sums, the order and the sign of the first opinions. *)
THEOREM OpinionsArePromised == TalkSpec => []OpinionsAsPromised
BY OpinionsKept, KeptAsPromised, PTL

-----------------------------------------------------------------------------
(***************************************************************************)
(* Networks.  What a network shows of the graph that calls describe: its   *)
(* index and labels are inverse, and its ties have the keys of that graph, *)
(* no two the same.                                                        *)
(***************************************************************************)
KeyOf(directed, a, b) == IF directed THEN <<a, b>> ELSE <<Min({a, b}), Max({a, b})>>
TieKey(n, e) == KeyOf(n.directed, n.label[e.from], n.label[e.to])
TieOf(slots) == [from : slots, to : slots, payload : Payload]
Standing(n) ==
  /\ n = [directed |-> n.directed, index |-> n.index, label |-> n.label, ties |-> n.ties]
  /\ n.directed \in BOOLEAN
  /\ DOMAIN n.index \subseteq Nat /\ DOMAIN n.label \subseteq Nat
  /\ IsFiniteSet(DOMAIN n.index) /\ IsFiniteSet(DOMAIN n.label)
  /\ n.index \in [DOMAIN n.index -> DOMAIN n.label] /\ n.label \in [DOMAIN n.label -> DOMAIN n.index]
  /\ \A a \in DOMAIN n.index : n.label[n.index[a]] = a
  /\ \A s \in DOMAIN n.label : n.index[n.label[s]] = s
  /\ n.ties \in Seq(TieOf(DOMAIN n.label))
KeysApart(n) == \A i, j \in 1 .. Len(n.ties) : TieKey(n, n.ties[i]) = TieKey(n, n.ties[j]) => i = j
Keeps(n, G) == /\ G = [k \in DOMAIN G |-> G[k]]
               /\ DOMAIN G = {TieKey(n, n.ties[i]) : i \in 1 .. Len(n.ties)}
               /\ \A i \in 1 .. Len(n.ties) : G[TieKey(n, n.ties[i])] = n.ties[i].payload
Shows(n, nodes, G) == Standing(n) /\ DOMAIN n.index = nodes /\ KeysApart(n) /\ Keeps(n, G)

LEMMA SeqWithin == ASSUME NEW S, NEW T, S \subseteq T, NEW s \in Seq(S) PROVE s \in Seq(T)
<1>1. s = [i \in 1 .. Len(s) |-> s[i]] /\ Len(s) \in Nat /\ \A i \in 1 .. Len(s) : s[i] \in T
  OBVIOUS
<1> QED BY <1>1

LEMMA MinMaxOfTwo ==
  ASSUME NEW a \in Int, NEW b \in Int
  PROVE  Min({a, b}) = (IF a <= b THEN a ELSE b) /\ Max({a, b}) = (IF a <= b THEN b ELSE a)
<1>1. PICK lo \in Int, hi \in Int : lo = (IF a <= b THEN a ELSE b) /\ hi = (IF a <= b THEN b ELSE a)
  OBVIOUS
<1>2. PICK m, k : m = Min({a, b}) /\ k = Max({a, b})
  OBVIOUS
<1>3. m \in {a, b} /\ m <= a /\ m <= b
  <2>1. lo \in {a, b} /\ lo <= a /\ lo <= b
    BY <1>1
  <2> QED BY <1>2, <2>1 DEF Min
<1>4. k \in {a, b} /\ k >= a /\ k >= b
  <2>1. hi \in {a, b} /\ hi >= a /\ hi >= b
    BY <1>1
  <2> QED BY <1>2, <2>1 DEF Max
<1> QED BY <1>2, <1>3, <1>4

LEMMA SameKey ==
  ASSUME NEW d \in BOOLEAN, NEW a \in Nat, NEW b \in Nat, NEW p \in Nat, NEW q \in Nat
  PROVE  KeyOf(d, a, b) = KeyOf(d, p, q) <=> (a = p /\ b = q) \/ (~d /\ a = q /\ b = p)
<1>1. CASE d
  BY <1>1 DEF KeyOf
<1>2. CASE ~d
  <2>1. KeyOf(d, a, b) = <<IF a <= b THEN a ELSE b, IF a <= b THEN b ELSE a>>
    BY <1>2, MinMaxOfTwo DEF KeyOf
  <2>2. KeyOf(d, p, q) = <<IF p <= q THEN p ELSE q, IF p <= q THEN q ELSE p>>
    BY <1>2, MinMaxOfTwo DEF KeyOf
  <2> QED BY <1>2, <2>1, <2>2
<1> QED BY <1>1, <1>2

AreEnds(k, a, b) == {k[1], k[2]} = {a, b}
LEMMA KeyEnds ==
  ASSUME NEW d \in BOOLEAN, NEW a \in Nat, NEW b \in Nat
  PROVE  AreEnds(KeyOf(d, a, b), a, b)
BY MinMaxOfTwo DEF KeyOf, AreEnds

(* A tie joins two slots exactly if it has the key of their agents. *)
LEMMA PlacedSlots ==
  ASSUME NEW n, Standing(n)
  PROVE  /\ n.directed \in BOOLEAN
         /\ \A s \in DOMAIN n.label : n.label[s] \in DOMAIN n.index /\ n.label[s] \in Nat
         /\ \A s, t \in DOMAIN n.label : n.label[s] = n.label[t] => s = t
         /\ Len(n.ties) \in Nat /\ DOMAIN n.ties = 1 .. Len(n.ties)
         /\ \A i \in 1 .. Len(n.ties) : /\ n.ties[i] \in TieOf(DOMAIN n.label)
                                         /\ n.ties[i].from \in DOMAIN n.label /\ n.ties[i].to \in DOMAIN n.label
                                         /\ n.ties[i].payload \in Payload
<1>1. \A s \in DOMAIN n.label : n.label[s] \in DOMAIN n.index /\ n.label[s] \in Nat
  BY NetAssumption DEF Standing
<1>2. \A s, t \in DOMAIN n.label : n.label[s] = n.label[t] => s = t
  BY DEF Standing
<1>3. Len(n.ties) \in Nat /\ DOMAIN n.ties = 1 .. Len(n.ties)
  BY DEF Standing
<1>4. \A i \in 1 .. Len(n.ties) : n.ties[i] \in TieOf(DOMAIN n.label)
  BY DEF Standing
<1>5. \A e \in TieOf(DOMAIN n.label) : e.from \in DOMAIN n.label /\ e.to \in DOMAIN n.label /\ e.payload \in Payload
  BY DEF TieOf
<1> QED BY <1>1, <1>2, <1>3, <1>4, <1>5 DEF Standing

LEMMA JoinsKey ==
  ASSUME NEW n, Standing(n), NEW e \in TieOf(DOMAIN n.label), NEW u \in DOMAIN n.label, NEW v \in DOMAIN n.label
  PROVE  Joins(n, e, u, v) <=> TieKey(n, e) = KeyOf(n.directed, n.label[u], n.label[v])
<1>1. e.from \in DOMAIN n.label /\ e.to \in DOMAIN n.label
  BY DEF TieOf
<1>2. PICK d \in BOOLEAN, a \in Nat, b \in Nat, p \in Nat, q \in Nat :
        /\ d = n.directed /\ a = n.label[e.from] /\ b = n.label[e.to] /\ p = n.label[u] /\ q = n.label[v]
  BY <1>1, PlacedSlots
<1>3. (a = p <=> e.from = u) /\ (b = q <=> e.to = v) /\ (a = q <=> e.from = v) /\ (b = p <=> e.to = u)
  BY <1>1, <1>2, PlacedSlots
<1>4. KeyOf(d, a, b) = KeyOf(d, p, q) <=> (a = p /\ b = q) \/ (~d /\ a = q /\ b = p)
  BY SameKey
<1> QED BY <1>2, <1>3, <1>4 DEF Joins, TieKey

LEMMA FoundKeys ==
  ASSUME NEW n, Standing(n), NEW u \in DOMAIN n.label, NEW v \in DOMAIN n.label
  PROVE  Found(n, u, v) = {i \in 1 .. Len(n.ties) : TieKey(n, n.ties[i]) = KeyOf(n.directed, n.label[u], n.label[v])}
<1>1. \A i \in 1 .. Len(n.ties) :
        Joins(n, n.ties[i], u, v) <=> TieKey(n, n.ties[i]) = KeyOf(n.directed, n.label[u], n.label[v])
  BY JoinsKey, PlacedSlots
<1>2. DOMAIN n.ties = 1 .. Len(n.ties)
  BY PlacedSlots
<1> QED BY <1>1, <1>2 DEF Found

(* A free slot is free. *)
LEMMA FreeSlotIs ==
  ASSUME NEW n, Standing(n)
  PROVE  FreeSlot(n) \in Nat \ {0} /\ FreeSlot(n) \notin DOMAIN n.label
<1>0. IsFiniteSet(DOMAIN n.label) /\ Cardinality(DOMAIN n.label) \in Nat
  BY FS_CardinalityType DEF Standing
<1>1. PICK L : L = DOMAIN n.label /\ IsFiniteSet(L) /\ Cardinality(L) \in Nat
  BY <1>0
<1> PICK c \in Nat : c = Cardinality(L)
  BY <1>1
<1>2. (1 .. c + 1) \ L # {}
  <2> SUFFICES ASSUME 1 .. c + 1 \subseteq L PROVE FALSE
    OBVIOUS
  <2>1. Cardinality(1 .. c + 1) <= c
    BY <1>1, FS_Subset
  <2>2. Cardinality(1 .. c + 1) = c + 1
    BY FS_Interval
  <2> QED BY <2>1, <2>2
<1>3. PICK T : T = (1 .. c + 1) \ L
  OBVIOUS
<1>4. \E x \in T : \A y \in T : x <= y
  <2>1. T \subseteq Nat /\ T # {}
    BY <1>2, <1>3
  <2> QED BY <2>1, Least
<1>5. Min(T) \in T
  BY <1>4 DEF Min
<1> QED BY <1>1, <1>3, <1>5 DEF FreeSlot

(* The keys of ties that stay where their slots keep their labels. *)
LEMMA ShowsOn ==
  ASSUME NEW n, NEW nodes, NEW G, Shows(n, nodes, G), NEW m, Standing(m), m.directed = n.directed, m.ties = n.ties,
         \A s \in DOMAIN n.label : m.label[s] = n.label[s]
  PROVE  Shows(m, DOMAIN m.index, G)
<1>1. \A i \in 1 .. Len(n.ties) : TieKey(m, m.ties[i]) = TieKey(n, n.ties[i])
  BY PlacedSlots DEF Shows, TieKey
<1>2. KeysApart(m)
  BY <1>1 DEF Shows, KeysApart
<1>3. Keeps(m, G)
  <2>1. {TieKey(m, m.ties[i]) : i \in 1 .. Len(m.ties)} = {TieKey(n, n.ties[i]) : i \in 1 .. Len(n.ties)}
    BY <1>1
  <2>2. \A i \in 1 .. Len(m.ties) : G[TieKey(m, m.ties[i])] = m.ties[i].payload
    BY <1>1 DEF Shows, Keeps
  <2> QED BY <2>1, <2>2 DEF Shows, Keeps
<1> QED BY <1>2, <1>3 DEF Shows

LEMMA AddNodeShows ==
  ASSUME NEW n, NEW nodes, NEW G, Shows(n, nodes, G), NEW a \in Nat
  PROVE  Shows(AddNode(n, a), nodes \cup {a}, G) /\ AddNode(n, a).directed = n.directed
         /\ AddNode(n, a).ties = n.ties
<1>1. Standing(n) /\ nodes = DOMAIN n.index
  BY DEF Shows
<1>2. CASE a \in DOMAIN n.index
  <2>1. AddNode(n, a) = n /\ nodes \cup {a} = nodes
    BY <1>1, <1>2 DEF AddNode
  <2> QED BY <2>1
<1>3. CASE a \notin DOMAIN n.index
  <2>1. PICK s \in Nat : s = FreeSlot(n) /\ s \notin DOMAIN n.label
    BY <1>1, FreeSlotIs
  <2>2. PICK m : m = AddNode(n, a)
    OBVIOUS
  <2>3. PICK I, L, A, S : /\ A = DOMAIN n.index /\ S = DOMAIN n.label
                          /\ I = [b \in A \cup {a} |-> IF b = a THEN s ELSE n.index[b]]
                          /\ L = [t \in S \cup {s} |-> IF t = s THEN a ELSE n.label[t]]
    OBVIOUS
  <2>4. m = [directed |-> n.directed, index |-> I, label |-> L, ties |-> n.ties]
    BY <1>1, <1>3, <2>1, <2>2, <2>3 DEF AddNode, Standing
  <2>5. DOMAIN I = A \cup {a} /\ DOMAIN L = S \cup {s} /\ I[a] = s /\ L[s] = a
    BY <2>3
  <2>6. (\A b \in A : b # a /\ I[b] = n.index[b] /\ n.index[b] \in S) /\ \A t \in S : t # s /\ L[t] = n.label[t] /\ n.label[t] \in A
    BY <1>1, <1>3, <2>1, <2>3 DEF Standing
  <2>7. I \in [A \cup {a} -> S \cup {s}] /\ L \in [S \cup {s} -> A \cup {a}]
    BY <2>3, <2>6
  <2>8. /\ \A b \in A \cup {a} : L[I[b]] = b
        /\ \A t \in S \cup {s} : I[L[t]] = t
    <3>1. \A b \in A : n.label[n.index[b]] = b
      BY <1>1, <2>3 DEF Standing
    <3>2. \A t \in S : n.index[n.label[t]] = t
      BY <1>1, <2>3 DEF Standing
    <3> QED BY <2>5, <2>6, <3>1, <3>2
  <2>9. A \cup {a} \subseteq Nat /\ S \cup {s} \subseteq Nat /\ IsFiniteSet(A \cup {a}) /\ IsFiniteSet(S \cup {s})
    <3>1. IsFiniteSet(A) /\ IsFiniteSet(S) /\ A \subseteq Nat /\ S \subseteq Nat
      BY <1>1, <2>3 DEF Standing
    <3> QED BY <3>1, FS_AddElement
  <2>10. n.ties \in Seq(TieOf(S \cup {s}))
    <3>1. n.ties \in Seq(TieOf(S)) /\ TieOf(S) \subseteq TieOf(S \cup {s})
      BY <1>1, <2>3 DEF Standing, TieOf
    <3> QED BY <3>1, SeqWithin
  <2>11. Standing(m)
    BY <1>1, <2>4, <2>5, <2>7, <2>8, <2>9, <2>10 DEF Standing
  <2>12. m.directed = n.directed /\ m.ties = n.ties /\ (\A t \in DOMAIN n.label : m.label[t] = n.label[t])
         /\ DOMAIN m.index = nodes \cup {a}
    BY <1>1, <2>3, <2>4, <2>5, <2>6
  <2>13. Shows(m, DOMAIN m.index, G)
    BY <2>11, <2>12, ShowsOn
  <2> QED BY <2>2, <2>12, <2>13
<1> QED BY <1>2, <1>3

LEMMA RemoveNodeNothing ==
  ASSUME NEW n, NEW a, a \notin DOMAIN n.index PROVE RemoveNode(n, a) = n
BY DEF RemoveNode

(* Some of the ties, in their order. *)
Thinned(r, ties, J) ==
  /\ r = [i \in 1 .. Len(r) |-> r[i]] /\ Len(r) \in Nat
  /\ \E f \in [1 .. Len(r) -> J] : /\ \A i \in 1 .. Len(r) : r[i] = ties[f[i]]
                                   /\ \A i, j \in 1 .. Len(r) : f[i] = f[j] => i = j
                                   /\ \A k \in J : \E i \in 1 .. Len(r) : f[i] = k
LEMMA RetainedIs ==
  ASSUME NEW E, NEW ties \in Seq(E), NEW kept
  PROVE  /\ Retained(ties, kept) \in Seq(E)
         /\ Thinned(Retained(ties, kept), ties, {k \in 1 .. Len(ties) : ties[k] \in kept})
<1> DEFINE N == Len(ties)
           B(k, r) == IF ties[k] \in kept THEN Append(r, ties[k]) ELSE r
           J(k) == {j \in 1 .. k : ties[j] \in kept}
           Is(f) == f = [k \in 0 .. N |-> IF k = 0 THEN <<>> ELSE B(k, f[k - 1])]
           Ok(k, r) == r \in Seq(E) /\ Thinned(r, ties, J(k))
<1>0. N \in Nat /\ \A k \in 1 .. N : ties[k] \in E
  OBVIOUS
<1> HIDE DEF N
<1>1. \E f : Is(f)
  <2> DEFINE M == [k \in 1 .. N |-> [r \in Seq(E) |-> B(k, r)]]
  <2>1. \A k \in 1 .. N : \A r \in Seq(E) : B(k, r) \in Seq(E)
    BY <1>0
  <2>2. M \in [1 .. N -> [Seq(E) -> Seq(E)]]
    <3> HIDE DEF B
    <3> QED BY <2>1
  <2>3. <<>> \in Seq(E)
    OBVIOUS
  <2>4. PICK f : RunOf(f, N, Seq(E), <<>>, M)
    <3> HIDE DEF M
    <3> QED BY <1>0, <2>2, <2>3, Recursion DEF Machine
  <2>5. f \in [0 .. N -> Seq(E)] /\ f[0] = <<>> /\ \A k \in 1 .. N : f[k] = M[k][f[k - 1]]
    BY <2>4 DEF RunOf
  <2>6. \A k \in 1 .. N : f[k] = B(k, f[k - 1])
    <3> SUFFICES ASSUME NEW k \in 1 .. N PROVE f[k] = B(k, f[k - 1])
      OBVIOUS
    <3>1. k - 1 \in 0 .. N
      BY <1>0
    <3>2. f[k - 1] \in Seq(E)
      BY <2>5, <3>1
    <3> HIDE DEF B
    <3> QED BY <2>5, <3>2
  <2>7. Is(f)
    <3>1. \A k \in 0 .. N : k = 0 \/ k \in 1 .. N
      BY <1>0
    <3>2. \A k \in 0 .. N : f[k] = IF k = 0 THEN <<>> ELSE B(k, f[k - 1])
      <4> HIDE DEF B, M
      <4> QED BY <2>5, <2>6, <3>1
    <3>3. f = [k \in 0 .. N |-> f[k]]
      BY <2>5
    <3> HIDE DEF B, M
    <3> QED BY <3>2, <3>3
  <2> QED BY <2>7
<1>2. PICK f : f = (CHOOSE g : Is(g))
  OBVIOUS
<1>3. Is(f)
  <2> HIDE DEF Is
  <2> QED BY <1>1, <1>2
<1>4. Retained(ties, kept) = f[N]
  BY <1>2 DEF Retained, N
<1>5. f[0] = <<>> /\ \A k \in 1 .. N : f[k] = B(k, f[k - 1])
  <2>1. 0 \in 0 .. N /\ \A k \in 1 .. N : k \in 0 .. N /\ k # 0
    BY <1>0
  <2> HIDE DEF B
  <2> QED BY <1>3, <2>1
<1>6. Ok(0, <<>>)
  <2>1. <<>> \in Seq(E) /\ Len(<<>>) = 0 /\ J(0) = {} /\ 1 .. 0 = {}
    OBVIOUS
  <2>2. <<>> = [i \in 1 .. Len(<<>>) |-> <<>>[i]]
    OBVIOUS
  <2>3. [i \in {} |-> i] \in [{} -> {}]
    OBVIOUS
  <2> HIDE DEF J
  <2> QED BY <2>1, <2>2, <2>3 DEF Thinned
<1>7. ASSUME NEW k \in Nat, k + 1 <= N, NEW r, Ok(k, r) PROVE Ok(k + 1, B(k + 1, r))
  <2>0. k + 1 \in 1 .. N /\ ties[k + 1] \in E /\ J(k) \subseteq 1 .. k
    BY <1>0, <1>7
  <2>1. CASE ties[k + 1] \notin kept
    <3>1. J(k + 1) = J(k) /\ B(k + 1, r) = r
      BY <2>1
    <3> HIDE DEF J, B
    <3> QED BY <1>7, <3>1
  <2>2. CASE ties[k + 1] \in kept
    <3>1. J(k + 1) = J(k) \cup {k + 1} /\ B(k + 1, r) = Append(r, ties[k + 1]) /\ k + 1 \notin J(k)
      BY <2>2
    <3> HIDE DEF J, B
    <3>2. PICK g \in [1 .. Len(r) -> J(k)] : /\ \A i \in 1 .. Len(r) : r[i] = ties[g[i]]
                                             /\ \A i, j \in 1 .. Len(r) : g[i] = g[j] => i = j
                                             /\ \A l \in J(k) : \E i \in 1 .. Len(r) : g[i] = l
      BY <1>7 DEF Thinned
    <3>3. PICK m \in Nat : m = Len(r) /\ r \in Seq(E)
      BY <1>7
    <3>4. PICK q : q = Append(r, ties[k + 1])
      OBVIOUS
    <3>5. q \in Seq(E) /\ Len(q) = m + 1 /\ q[m + 1] = ties[k + 1] /\ \A i \in 1 .. m : q[i] = r[i]
      BY <2>0, <3>3, <3>4
    <3> DEFINE h == [i \in 1 .. m + 1 |-> IF i = m + 1 THEN k + 1 ELSE g[i]]
    <3>6. \A i \in 1 .. m + 1 : i = m + 1 \/ i \in 1 .. m
      OBVIOUS
    <3>7. h[m + 1] = k + 1 /\ \A i \in 1 .. m : h[i] = g[i] /\ g[i] \in J(k) /\ g[i] # k + 1
      <4>1. h[m + 1] = k + 1
        BY <3>3
      <4>2. ASSUME NEW i \in 1 .. m PROVE h[i] = g[i] /\ g[i] \in J(k) /\ g[i] # k + 1
        <5>1. i \in 1 .. m + 1 /\ i # m + 1
          BY <3>3
        <5>2. h[i] = g[i]
          BY <5>1
        <5>3. g[i] \in J(k)
          BY <3>2, <3>3
        <5> HIDE DEF h
        <5> QED BY <3>1, <5>2, <5>3
      <4> QED BY <4>1, <4>2
    <3>8. h \in [1 .. m + 1 -> J(k + 1)]
      BY <3>1, <3>6, <3>7
    <3> HIDE DEF h
    <3>9. \A i \in 1 .. m + 1 : q[i] = ties[h[i]]
      BY <3>2, <3>3, <3>5, <3>6, <3>7
    <3>10. \A i, j \in 1 .. m + 1 : h[i] = h[j] => i = j
      <4>1. \A i \in 1 .. m : h[i] # h[m + 1]
        BY <3>7
      <4>2. \A i, j \in 1 .. m : h[i] = h[j] => i = j
        BY <3>2, <3>3, <3>7
      <4> QED BY <3>6, <4>1, <4>2, Zenon
    <3>11. \A l \in J(k + 1) : \E i \in 1 .. m + 1 : h[i] = l
      <4>1. \A l \in J(k) : \E i \in 1 .. m : h[i] = l
        BY <3>2, <3>3, <3>7
      <4>2. 1 .. m \subseteq 1 .. m + 1 /\ m + 1 \in 1 .. m + 1
        OBVIOUS
      <4> QED BY <3>1, <3>7, <4>1, <4>2
    <3>12. q = [i \in 1 .. Len(q) |-> q[i]]
      BY <3>5
    <3>13. Thinned(q, ties, J(k + 1))
      BY <3>5, <3>8, <3>9, <3>10, <3>11, <3>12 DEF Thinned
    <3> QED BY <3>1, <3>4, <3>5, <3>13
  <2> QED BY <2>1, <2>2
<1>8. Ok(N, f[N])
  <2> DEFINE T == {k \in Nat : k <= N => Ok(k, f[k])}
  <2> HIDE DEF Ok, B
  <2>1. 0 \in T
    BY <1>5, <1>6
  <2>2. ASSUME NEW k \in Nat, k \in T PROVE k + 1 \in T
    <3>1. SUFFICES ASSUME k + 1 <= N PROVE Ok(k + 1, f[k + 1])
      OBVIOUS
    <3>2. Ok(k, f[k]) /\ k + 1 \in 1 .. N /\ (k + 1) - 1 = k
      BY <1>0, <2>2, <3>1
    <3>3. f[k + 1] = B(k + 1, f[k])
      BY <1>5, <3>2
    <3> QED BY <1>7, <3>1, <3>2, <3>3
  <2>3. Nat \subseteq T
    <3> HIDE DEF T
    <3> QED BY <2>1, <2>2, Induct
  <2> QED BY <1>0, <2>3
<1> QED BY <1>4, <1>8 DEF N

LEMMA RemoveAtThins ==
  ASSUME NEW E, NEW ties \in Seq(E), NEW i \in 1 .. Len(ties)
  PROVE  /\ RemoveAt(ties, i) \in Seq(E) /\ Len(RemoveAt(ties, i)) = Len(ties) - 1
         /\ Thinned(RemoveAt(ties, i), ties, (1 .. Len(ties)) \ {i})
<1>1. PICK N \in Nat : N = Len(ties) /\ \A k \in 1 .. N : ties[k] \in E
  OBVIOUS
<1>2. PICK r : r = RemoveAt(ties, i)
  OBVIOUS
<1>3. /\ r \in Seq(E) /\ Len(r) = N - 1
      /\ \A j \in 1 .. N - 1 : r[j] = ties[IF j < i THEN j ELSE j + 1]
  <2>1. PICK s, t : s = SubSeq(ties, 1, i - 1) /\ t = SubSeq(ties, i + 1, N)
    OBVIOUS
  <2>2. s \in Seq(E) /\ Len(s) = i - 1 /\ \A j \in 1 .. i - 1 : s[j] = ties[j]
    BY <1>1, <2>1
  <2>3. t \in Seq(E) /\ Len(t) = N - i /\ \A j \in 1 .. N - i : t[j] = ties[j + i]
    BY <1>1, <2>1
  <2>4. r = s \o t
    BY <1>1, <1>2, <2>1 DEF RemoveAt
  <2>5. r \in Seq(E) /\ Len(r) = N - 1
    BY <1>1, <2>2, <2>3, <2>4
  <2>6. ASSUME NEW j \in 1 .. N - 1 PROVE r[j] = ties[IF j < i THEN j ELSE j + 1]
    <3>1. CASE j < i
      <4>1. j \in 1 .. i - 1
        BY <3>1
      <4>2. r[j] = s[j]
        BY <2>2, <2>3, <2>4, <4>1
      <4> QED BY <2>2, <3>1, <4>1, <4>2
    <3>2. CASE ~(j < i)
      <4>1. j - (i - 1) \in 1 .. N - i /\ j - (i - 1) + i = j + 1
        BY <1>1, <3>2
      <4>2. r[j] = t[j - (i - 1)]
        BY <1>1, <2>2, <2>3, <2>4, <3>2
      <4> QED BY <2>3, <3>2, <4>1, <4>2
    <3> QED BY <3>1, <3>2
  <2> QED BY <2>5, <2>6
<1>4. PICK f : f = [j \in 1 .. N - 1 |-> IF j < i THEN j ELSE j + 1]
  OBVIOUS
<1>5. f \in [1 .. N - 1 -> (1 .. N) \ {i}] /\ \A j \in 1 .. N - 1 : r[j] = ties[f[j]]
  <2>1. \A j \in 1 .. N - 1 : f[j] = (IF j < i THEN j ELSE j + 1) /\ f[j] \in (1 .. N) \ {i}
    BY <1>1, <1>4
  <2> QED BY <1>3, <1>4, <2>1
<1>6. \A j, k \in 1 .. N - 1 : f[j] = f[k] => j = k
  BY <1>1, <1>4
<1>7. ASSUME NEW k \in (1 .. N) \ {i} PROVE \E j \in 1 .. N - 1 : f[j] = k
  <2>1. CASE k < i
    BY <1>1, <1>4, <2>1
  <2>2. CASE ~(k < i)
    <3>1. k - 1 \in 1 .. N - 1 /\ f[k - 1] = k
      BY <1>1, <1>4, <2>2
    <3> QED BY <3>1
  <2> QED BY <2>1, <2>2
<1>8. Thinned(r, ties, (1 .. N) \ {i})
  BY <1>1, <1>3, <1>5, <1>6, <1>7 DEF Thinned
<1> QED BY <1>1, <1>2, <1>3, <1>8

(* With some of its ties a network shows some of the keys. *)
LEMMA ThinnedShows ==
  ASSUME NEW n, NEW nodes, NEW G, Shows(n, nodes, G), NEW m, Standing(m),
         NEW J, J \subseteq 1 .. Len(n.ties), Thinned(m.ties, n.ties, J),
         \A k \in J : TieKey(m, n.ties[k]) = TieKey(n, n.ties[k]),
         NEW H, H = Restrict(G, {TieKey(n, n.ties[k]) : k \in J})
  PROVE  Shows(m, DOMAIN m.index, H)
<1>1. PICK f \in [1 .. Len(m.ties) -> J] : /\ \A i \in 1 .. Len(m.ties) : m.ties[i] = n.ties[f[i]]
                                           /\ \A i, j \in 1 .. Len(m.ties) : f[i] = f[j] => i = j
                                           /\ \A k \in J : \E i \in 1 .. Len(m.ties) : f[i] = k
  BY DEF Thinned
<1>2. \A i \in 1 .. Len(m.ties) : /\ f[i] \in J /\ f[i] \in 1 .. Len(n.ties)
                                  /\ TieKey(m, m.ties[i]) = TieKey(n, n.ties[f[i]])
                                  /\ m.ties[i].payload = n.ties[f[i]].payload
  BY <1>1
<1>3. KeysApart(m)
  BY <1>1, <1>2 DEF Shows, KeysApart
<1>4. H = [k \in {TieKey(n, n.ties[k]) : k \in J} |-> G[k]]
  BY DEF Restrict
<1>5. {TieKey(n, n.ties[k]) : k \in J} = {TieKey(m, m.ties[i]) : i \in 1 .. Len(m.ties)}
  <2>1. ASSUME NEW k \in J PROVE \E i \in 1 .. Len(m.ties) : TieKey(m, m.ties[i]) = TieKey(n, n.ties[k])
    <3>1. PICK i \in 1 .. Len(m.ties) : f[i] = k
      BY <1>1
    <3> QED BY <1>2, <3>1
  <2>2. ASSUME NEW i \in 1 .. Len(m.ties) PROVE \E k \in J : TieKey(m, m.ties[i]) = TieKey(n, n.ties[k])
    BY <1>2
  <2> DEFINE U == {TieKey(n, n.ties[k]) : k \in J}
             V == {TieKey(m, m.ties[i]) : i \in 1 .. Len(m.ties)}
  <2>3. U \subseteq V
    BY <2>1
  <2>4. V \subseteq U
    BY <2>2
  <2> QED BY <2>3, <2>4
<1>6. ASSUME NEW i \in 1 .. Len(m.ties) PROVE H[TieKey(m, m.ties[i])] = m.ties[i].payload
  <2>1. H[TieKey(m, m.ties[i])] = G[TieKey(n, n.ties[f[i]])]
    BY <1>2, <1>4
  <2>2. G[TieKey(n, n.ties[f[i]])] = n.ties[f[i]].payload
    BY <1>2 DEF Shows, Keeps
  <2> QED BY <1>2, <2>1, <2>2
<1>7. Keeps(m, H)
  BY <1>4, <1>5, <1>6 DEF Keeps
<1> QED BY <1>3, <1>7 DEF Shows

LEMMA RemoveNodeShows ==
  ASSUME NEW n, NEW nodes, NEW G, Shows(n, nodes, G), NEW a \in Nat
  PROVE  /\ Shows(RemoveNode(n, a), nodes \ {a}, Restrict(G, {k \in DOMAIN G : a \notin {k[1], k[2]}}))
         /\ RemoveNode(n, a).directed = n.directed
<1>1. Standing(n) /\ nodes = DOMAIN n.index
  BY DEF Shows
<1>2. ASSUME NEW i \in 1 .. Len(n.ties)
      PROVE  /\ {TieKey(n, n.ties[i])[1], TieKey(n, n.ties[i])[2]} = {n.label[n.ties[i].from], n.label[n.ties[i].to]}
             /\ n.label[n.ties[i].from] \in DOMAIN n.index /\ n.label[n.ties[i].to] \in DOMAIN n.index
  <2>1. PICK e : e = n.ties[i] /\ e.from \in DOMAIN n.label /\ e.to \in DOMAIN n.label
    BY <1>1, PlacedSlots
  <2>2. PICK d \in BOOLEAN, b \in Nat, c \in Nat : d = n.directed /\ b = n.label[e.from] /\ c = n.label[e.to]
    BY <1>1, <2>1, PlacedSlots
  <2>3. {KeyOf(d, b, c)[1], KeyOf(d, b, c)[2]} = {b, c}
    <3>1. AreEnds(KeyOf(d, b, c), b, c)
      BY KeyEnds
    <3> QED BY <3>1 DEF AreEnds
  <2>4. n.label[e.from] \in DOMAIN n.index /\ n.label[e.to] \in DOMAIN n.index
    BY <1>1, <2>1, PlacedSlots
  <2> QED BY <2>1, <2>2, <2>3, <2>4 DEF TieKey
<1>3. CASE a \notin DOMAIN n.index
  <2>1. RemoveNode(n, a) = n /\ nodes \ {a} = nodes
    BY <1>1, <1>3, RemoveNodeNothing
  <2>2. \A i \in 1 .. Len(n.ties) : a \notin {TieKey(n, n.ties[i])[1], TieKey(n, n.ties[i])[2]}
    BY <1>2, <1>3
  <2>3. {k \in DOMAIN G : a \notin {k[1], k[2]}} = DOMAIN G
    BY <2>2 DEF Shows, Keeps
  <2>4. Restrict(G, DOMAIN G) = G
    BY DEF Shows, Keeps, Restrict
  <2> QED BY <2>1, <2>3, <2>4
<1>4. CASE a \in DOMAIN n.index
  <2>1. PICK s : s = n.index[a] /\ s \in DOMAIN n.label /\ n.label[s] = a
    BY <1>1, <1>4 DEF Standing
  <2>2. PICK A, S, kept : A = DOMAIN n.index /\ S = DOMAIN n.label /\ kept = {e \in ToSet(n.ties) : s \notin {e.from, e.to}}
    OBVIOUS
  <2>3. PICK r : r = Retained(n.ties, kept)
    OBVIOUS
  <2>4. PICK m : m = RemoveNode(n, a)
    OBVIOUS
  <2>5. m = [directed |-> n.directed, index |-> Restrict(n.index, A \ {a}), label |-> Restrict(n.label, S \ {s}), ties |-> r]
    BY <1>1, <1>4, <2>1, <2>2, <2>3, <2>4 DEF RemoveNode, Standing
  <2>6. PICK I, L : I = Restrict(n.index, A \ {a}) /\ L = Restrict(n.label, S \ {s})
    OBVIOUS
  <2>7. /\ DOMAIN I = A \ {a} /\ DOMAIN L = S \ {s}
        /\ (\A b \in A \ {a} : I[b] = n.index[b]) /\ \A t \in S \ {s} : L[t] = n.label[t]
    BY <2>6 DEF Restrict
  <2>8. /\ \A b \in A : n.index[b] \in S /\ n.label[n.index[b]] = b
        /\ \A t \in S : n.label[t] \in A /\ n.index[n.label[t]] = t
    BY <1>1, <2>2 DEF Standing
  <2>9. /\ \A b \in A \ {a} : I[b] \in S \ {s} /\ L[I[b]] = b
        /\ \A t \in S \ {s} : L[t] \in A \ {a} /\ I[L[t]] = t
    BY <2>1, <2>2, <2>7, <2>8
  <2>10. I \in [A \ {a} -> S \ {s}] /\ L \in [S \ {s} -> A \ {a}]
    BY <2>6, <2>7, <2>9 DEF Restrict
  <2>11. PICK J : J = {k \in 1 .. Len(n.ties) : n.ties[k] \in kept}
    OBVIOUS
  <2>12. r \in Seq(TieOf(S)) /\ Thinned(r, n.ties, J)
    <3>1. n.ties \in Seq(TieOf(S))
      BY <1>1, <2>2 DEF Standing
    <3> QED BY <2>3, <2>11, <3>1, RetainedIs
  <2>13. \A k \in J : n.ties[k] \in TieOf(S \ {s})
    <3>1. \A k \in 1 .. Len(n.ties) : n.ties[k] \in TieOf(S)
      BY <1>1, <2>2, PlacedSlots
    <3>2. \A k \in J : s \notin {n.ties[k].from, n.ties[k].to} /\ k \in 1 .. Len(n.ties)
      BY <2>2, <2>11
    <3> QED BY <3>1, <3>2 DEF TieOf
  <2>14. r \in Seq(TieOf(S \ {s}))
    <3>1. r = [i \in 1 .. Len(r) |-> r[i]] /\ Len(r) \in Nat /\ \A i \in 1 .. Len(r) : \E k \in J : r[i] = n.ties[k]
      BY <2>12 DEF Thinned
    <3>2. PICK E : E = TieOf(S \ {s})
      OBVIOUS
    <3>3. \A i \in 1 .. Len(r) : r[i] \in E
      BY <2>13, <3>1, <3>2
    <3>4. r \in Seq(E)
      BY <3>1, <3>3
    <3> QED BY <3>2, <3>4
  <2>15. A \ {a} \subseteq Nat /\ S \ {s} \subseteq Nat /\ IsFiniteSet(A \ {a}) /\ IsFiniteSet(S \ {s})
    <3>1. IsFiniteSet(A) /\ IsFiniteSet(S) /\ A \subseteq Nat /\ S \subseteq Nat
      BY <1>1, <2>2 DEF Standing
    <3> QED BY <3>1, FS_Subset
  <2>16. Standing(m)
    BY <1>1, <2>5, <2>6, <2>7, <2>9, <2>10, <2>14, <2>15 DEF Standing
  <2>17. J \subseteq 1 .. Len(n.ties) /\ m.ties = r /\ DOMAIN m.index = nodes \ {a} /\ m.directed = n.directed
    BY <1>1, <2>2, <2>5, <2>6, <2>7, <2>11
  <2>18. \A k \in J : TieKey(m, n.ties[k]) = TieKey(n, n.ties[k])
    <3>1. \A k \in J : n.ties[k].from \in S \ {s} /\ n.ties[k].to \in S \ {s}
      BY <2>13 DEF TieOf
    <3>2. m.label = L
      BY <2>5, <2>6
    <3> QED BY <2>7, <2>17, <3>1, <3>2 DEF TieKey
  <2>19. PICK H : H = Restrict(G, {TieKey(n, n.ties[k]) : k \in J})
    OBVIOUS
  <2>20. Shows(m, DOMAIN m.index, H)
    BY <2>12, <2>16, <2>17, <2>18, <2>19, ThinnedShows
  <2>21. {TieKey(n, n.ties[k]) : k \in J} = {k \in DOMAIN G : a \notin {k[1], k[2]}}
    <3>1. DOMAIN G = {TieKey(n, n.ties[i]) : i \in 1 .. Len(n.ties)}
      BY DEF Shows, Keeps
    <3>2. \A i \in 1 .. Len(n.ties) : i \in J <=> a \notin {TieKey(n, n.ties[i])[1], TieKey(n, n.ties[i])[2]}
      <4> SUFFICES ASSUME NEW i \in 1 .. Len(n.ties)
                   PROVE i \in J <=> a \notin {TieKey(n, n.ties[i])[1], TieKey(n, n.ties[i])[2]}
        OBVIOUS
      <4>1. PICK e : e = n.ties[i] /\ e.from \in S /\ e.to \in S
        BY <1>1, <2>2, PlacedSlots
      <4>2. i \in J <=> s \notin {e.from, e.to}
        <5>1. e \in ToSet(n.ties)
          BY <1>1, <4>1, PlacedSlots DEF ToSet
        <5> QED BY <2>2, <2>11, <4>1, <5>1
      <4>3. s \in {e.from, e.to} <=> a \in {n.label[e.from], n.label[e.to]}
        BY <1>1, <2>1, <2>2, <4>1, PlacedSlots
      <4> QED BY <1>2, <4>1, <4>2, <4>3
    <3> QED BY <2>17, <3>1, <3>2
  <2> QED BY <2>4, <2>17, <2>19, <2>20, <2>21
<1> QED BY <1>3, <1>4

(* A tie between two agents that are there: the one with their key, if there is one. *)
OneFound(n, G, k, F) ==
  /\ F = {i \in 1 .. Len(n.ties) : TieKey(n, n.ties[i]) = k}
  /\ F = {} <=> k \notin DOMAIN G
  /\ F # {} => Min(F) \in F /\ \A i \in F : i = Min(F)
LEMMA FoundOf ==
  ASSUME NEW n, NEW nodes, NEW G, Shows(n, nodes, G), NEW a \in nodes, NEW b \in nodes,
         NEW k, k = KeyOf(n.directed, a, b), NEW u, NEW v, u = n.index[a], v = n.index[b], NEW F, F = Found(n, u, v)
  PROVE  OneFound(n, G, k, F)
<1>1. Standing(n) /\ nodes = DOMAIN n.index /\ n.index[a] \in DOMAIN n.label /\ n.index[b] \in DOMAIN n.label
      /\ n.label[n.index[a]] = a /\ n.label[n.index[b]] = b
  BY DEF Shows, Standing
<1>2. F = {i \in 1 .. Len(n.ties) : TieKey(n, n.ties[i]) = k}
  BY <1>1, FoundKeys
<1>3. F = {} <=> k \notin DOMAIN G
  BY <1>2 DEF Shows, Keeps
<1>4. ASSUME F # {} PROVE Min(F) \in F /\ \A i \in F : i = Min(F)
  <2>1. \A i, j \in F : i = j /\ i \in Nat
    BY <1>2 DEF Shows, KeysApart
  <2>2. \E i \in F : \A j \in F : i <= j
    BY <1>4, <2>1
  <2>3. Min(F) \in F
    BY <2>2 DEF Min
  <2> QED BY <2>1, <2>3
<1> QED BY <1>2, <1>3, <1>4 DEF OneFound

LEMMA RemoveTieShows ==
  ASSUME NEW n, NEW nodes, NEW G, Shows(n, nodes, G), NEW a \in Nat, NEW b \in Nat
  PROVE  /\ Shows(RemoveTie(n, a, b), nodes, Restrict(G, DOMAIN G \ {KeyOf(n.directed, a, b)}))
         /\ RemoveTie(n, a, b).directed = n.directed
<1>1. Standing(n) /\ nodes = DOMAIN n.index
  BY DEF Shows
<1>2. PICK k : k = KeyOf(n.directed, a, b)
  OBVIOUS
<1>3. Restrict(G, DOMAIN G) = G
  BY DEF Shows, Keeps, Restrict
<1>4. ASSUME k \notin DOMAIN G, RemoveTie(n, a, b) = n PROVE Shows(RemoveTie(n, a, b), nodes, Restrict(G, DOMAIN G \ {k}))
  <2>1. DOMAIN G \ {k} = DOMAIN G
    BY <1>4
  <2> QED BY <1>3, <1>4, <2>1
<1>5. CASE ~({a, b} \subseteq nodes)
  <2>1. RemoveTie(n, a, b) = n
    BY <1>1, <1>5 DEF RemoveTie
  <2>2. ASSUME k \in DOMAIN G PROVE FALSE
    <3>1. PICK i \in 1 .. Len(n.ties) : TieKey(n, n.ties[i]) = k
      BY <2>2 DEF Shows, Keeps
    <3>2. PICK e : e = n.ties[i] /\ e.from \in DOMAIN n.label /\ e.to \in DOMAIN n.label
      BY <1>1, PlacedSlots
    <3>3. PICK d \in BOOLEAN, p \in Nat, q \in Nat : d = n.directed /\ p = n.label[e.from] /\ q = n.label[e.to]
                                                     /\ p \in nodes /\ q \in nodes
      BY <1>1, <3>2, PlacedSlots
    <3>4. KeyOf(d, p, q) = KeyOf(d, a, b) /\ a \in Nat /\ b \in Nat
      BY <1>2, <3>1, <3>2, <3>3, NetAssumption DEF TieKey
    <3>5. {a, b} = {p, q}
      <4>1. AreEnds(KeyOf(d, p, q), p, q)
        BY <3>3, KeyEnds
      <4>2. AreEnds(KeyOf(d, a, b), a, b)
        BY <3>3, <3>4, KeyEnds
      <4> QED BY <3>4, <4>1, <4>2 DEF AreEnds
    <3> QED BY <1>5, <3>3, <3>5
  <2> QED BY <1>2, <1>4, <2>1, <2>2
<1>6. CASE {a, b} \subseteq nodes
  <2>1. PICK F, u, v : F = Found(n, u, v) /\ u = n.index[a] /\ v = n.index[b]
    OBVIOUS
  <2>2. a \in nodes /\ b \in nodes
    BY <1>6
  <2>3. /\ F = {i \in 1 .. Len(n.ties) : TieKey(n, n.ties[i]) = k}
        /\ F = {} <=> k \notin DOMAIN G
        /\ F # {} => Min(F) \in F /\ \A i \in F : i = Min(F)
    <3>1. OneFound(n, G, k, F)
      BY <1>2, <2>1, <2>2, FoundOf
    <3> QED BY <3>1 DEF OneFound
  <2>4. CASE F = {}
    <3>1. RemoveTie(n, a, b) = n
      BY <2>1, <2>4 DEF RemoveTie
    <3> QED BY <1>2, <1>4, <2>3, <2>4, <3>1
  <2>5. CASE F # {}
    <3>1. PICK i : i = Min(F) /\ i \in 1 .. Len(n.ties) /\ TieKey(n, n.ties[i]) = k
      BY <2>3, <2>5
    <3>2. PICK r : r = RemoveAt(n.ties, i)
      OBVIOUS
    <3>3. PICK m : m = [n EXCEPT !.ties = r]
      OBVIOUS
    <3>4. RemoveTie(n, a, b) = m
      BY <1>1, <1>6, <2>1, <2>5, <3>1, <3>2, <3>3 DEF RemoveTie
    <3>5. PICK J : J = (1 .. Len(n.ties)) \ {i}
      OBVIOUS
    <3>6. r \in Seq(TieOf(DOMAIN n.label)) /\ Thinned(r, n.ties, J)
      <4>1. n.ties \in Seq(TieOf(DOMAIN n.label))
        BY <1>1 DEF Standing
      <4> QED BY <3>1, <3>2, <3>5, <4>1, RemoveAtThins
    <3>7. m.directed = n.directed /\ m.index = n.index /\ m.label = n.label /\ m.ties = r
          /\ m = [directed |-> m.directed, index |-> m.index, label |-> m.label, ties |-> m.ties]
      BY <1>1, <3>3 DEF Standing
    <3>8. Standing(m)
      BY <1>1, <3>6, <3>7 DEF Standing
    <3>9. PICK H : H = Restrict(G, {TieKey(n, n.ties[j]) : j \in J})
      OBVIOUS
    <3>10. J \subseteq 1 .. Len(n.ties) /\ \A j \in J : TieKey(m, n.ties[j]) = TieKey(n, n.ties[j])
      BY <3>5, <3>7 DEF TieKey
    <3>11. Shows(m, DOMAIN m.index, H)
      BY <3>6, <3>7, <3>8, <3>9, <3>10, ThinnedShows
    <3>12. {TieKey(n, n.ties[j]) : j \in J} = DOMAIN G \ {k}
      <4>1. DOMAIN G = {TieKey(n, n.ties[j]) : j \in 1 .. Len(n.ties)}
        BY DEF Shows, Keeps
      <4>2. \A j \in 1 .. Len(n.ties) : j \in J <=> TieKey(n, n.ties[j]) # k
        BY <2>3, <3>1, <3>5
      <4> QED BY <3>10, <4>1, <4>2
    <3> QED BY <1>1, <1>2, <3>4, <3>7, <3>9, <3>11, <3>12
  <2> QED BY <2>4, <2>5
<1>7. RemoveTie(n, a, b).directed = n.directed
  BY <1>1 DEF RemoveTie, Standing
<1> QED BY <1>2, <1>5, <1>6, <1>7

(* The tie is new and gets its payload, or the one there is takes it. *)
WithTie(G, nodes, k, a, b, w) ==
  IF {a, b} \subseteq nodes THEN [j \in DOMAIN G \cup {k} |-> IF j = k THEN w ELSE G[j]] ELSE G
LEMMA AddTieShows ==
  ASSUME NEW n, NEW nodes, NEW G, Shows(n, nodes, G), NEW a \in Nat, NEW b \in Nat, NEW w \in Payload
  PROVE  /\ Shows(AddTie(n, a, b, w), nodes, WithTie(G, nodes, KeyOf(n.directed, a, b), a, b, w))
         /\ AddTie(n, a, b, w).directed = n.directed
<1>1. Standing(n) /\ nodes = DOMAIN n.index
  BY DEF Shows
<1>2. PICK k : k = KeyOf(n.directed, a, b)
  OBVIOUS
<1>3. CASE ~({a, b} \subseteq nodes)
  <2>1. AddTie(n, a, b, w) = n /\ WithTie(G, nodes, k, a, b, w) = G
    BY <1>1, <1>3 DEF AddTie, WithTie
  <2> QED BY <1>2, <2>1
<1>4. CASE {a, b} \subseteq nodes
  <2>1. PICK F, H, u, v, m : /\ F = Found(n, u, v) /\ u = n.index[a] /\ v = n.index[b]
                             /\ H = [j \in DOMAIN G \cup {k} |-> IF j = k THEN w ELSE G[j]]
                             /\ m = AddTie(n, a, b, w)
    OBVIOUS
  <2>2. a \in nodes /\ b \in nodes /\ u \in DOMAIN n.label /\ v \in DOMAIN n.label /\ n.label[u] = a /\ n.label[v] = b
    BY <1>1, <1>4, <2>1 DEF Standing
  <2>3. /\ F = {i \in 1 .. Len(n.ties) : TieKey(n, n.ties[i]) = k}
        /\ F = {} <=> k \notin DOMAIN G
        /\ F # {} => Min(F) \in F /\ \A i \in F : i = Min(F)
    <3>1. OneFound(n, G, k, F)
      BY <1>2, <2>1, <2>2, FoundOf
    <3> QED BY <3>1 DEF OneFound
  <2>4. PICK N \in Nat : /\ N = Len(n.ties) /\ DOMAIN n.ties = 1 .. N
                         /\ \A i \in 1 .. N : n.ties[i] \in TieOf(DOMAIN n.label)
    BY <1>1, PlacedSlots
  <2>5. /\ G = [j \in DOMAIN G |-> G[j]] /\ DOMAIN G = {TieKey(n, n.ties[i]) : i \in 1 .. N}
        /\ \A i \in 1 .. N : G[TieKey(n, n.ties[i])] = n.ties[i].payload
        /\ \A i, j \in 1 .. N : TieKey(n, n.ties[i]) = TieKey(n, n.ties[j]) => i = j
    BY <2>4 DEF Shows, Keeps, KeysApart
  <2>6. /\ DOMAIN H = DOMAIN G \cup {k} /\ H[k] = w /\ \A j \in DOMAIN G : j # k => H[j] = G[j]
        /\ H = [j \in DOMAIN H |-> H[j]]
    BY <2>1
  <2>7. CASE F = {}
    <3>0. PICK e : e = Tie(u, v, w)
      OBVIOUS
    <3>1. e = Tie(u, v, w) /\ e \in TieOf(DOMAIN n.label)
      BY <2>2, <3>0 DEF Tie, TieOf
    <3>2. PICK r : r = Append(n.ties, e)
      OBVIOUS
    <3>3. r \in Seq(TieOf(DOMAIN n.label)) /\ Len(r) = N + 1 /\ r[N + 1] = e /\ \A i \in 1 .. N : r[i] = n.ties[i]
      <4>1. n.ties \in Seq(TieOf(DOMAIN n.label))
        BY <1>1 DEF Standing
      <4> QED BY <2>4, <3>1, <3>2, <4>1
    <3>4. m = [n EXCEPT !.ties = r]
      BY <1>1, <1>4, <2>1, <2>7, <3>1, <3>2 DEF AddTie
    <3>5. m.directed = n.directed /\ m.index = n.index /\ m.label = n.label /\ m.ties = r
          /\ m = [directed |-> m.directed, index |-> m.index, label |-> m.label, ties |-> m.ties]
      BY <1>1, <3>4 DEF Standing
    <3>6. Standing(m)
      BY <1>1, <3>3, <3>5 DEF Standing
    <3>7. TieKey(m, r[N + 1]) = k /\ \A i \in 1 .. N : TieKey(m, r[i]) = TieKey(n, n.ties[i])
      BY <1>2, <2>2, <3>1, <3>3, <3>5 DEF TieKey, Tie
    <3>8. /\ \A i \in 1 .. N + 1 : i \in 1 .. N \/ i = N + 1
          /\ 1 .. N \subseteq 1 .. N + 1 /\ N + 1 \in 1 .. N + 1 /\ N + 1 \notin 1 .. N
      BY <2>4
    <3>9. \A i \in 1 .. N : TieKey(n, n.ties[i]) # k
      BY <2>3, <2>4, <2>7
    <3>10. KeysApart(m)
      <4>1. \A i, j \in 1 .. N + 1 : TieKey(m, r[i]) = TieKey(m, r[j]) => i = j
        BY <2>5, <3>7, <3>8, <3>9
      <4> QED BY <3>3, <3>5, <4>1 DEF KeysApart
    <3>11. Keeps(m, H)
      <4>1. DOMAIN H = {TieKey(m, r[i]) : i \in 1 .. N + 1}
        BY <2>5, <2>6, <3>7, <3>8
      <4>2. \A i \in 1 .. N : H[TieKey(m, r[i])] = r[i].payload
        <5>1. \A i \in 1 .. N : TieKey(n, n.ties[i]) \in DOMAIN G
          BY <2>5
        <5> QED BY <2>5, <2>6, <3>3, <3>7, <3>9, <5>1
      <4>3. H[TieKey(m, r[N + 1])] = r[N + 1].payload
        BY <2>6, <3>1, <3>3, <3>7 DEF Tie
      <4>4. \A i \in 1 .. N + 1 : H[TieKey(m, r[i])] = r[i].payload
        BY <3>8, <4>2, <4>3
      <4>5. m.ties = r /\ Len(m.ties) = N + 1
        BY <3>3, <3>5
      <4>6. H = [x \in DOMAIN H |-> H[x]]
        BY <2>6
      <4> QED BY <4>1, <4>4, <4>5, <4>6 DEF Keeps
    <3>12. Shows(m, nodes, H)
      BY <1>1, <3>5, <3>6, <3>10, <3>11 DEF Shows
    <3> QED BY <1>2, <1>4, <2>1, <3>5, <3>12 DEF WithTie
  <2>8. CASE F # {}
    <3>1. PICK l : l = Min(F) /\ l \in 1 .. N /\ TieKey(n, n.ties[l]) = k /\ \A i \in F : i = l
      BY <2>3, <2>4, <2>8
    <3>2. PICK r : r = [n.ties EXCEPT ![l] = [n.ties[l] EXCEPT !.payload = w]]
      OBVIOUS
    <3>3. m = [n EXCEPT !.ties = r]
      BY <1>1, <1>4, <2>1, <2>8, <3>1, <3>2 DEF AddTie
    <3> PICK e, f : f = n.ties[l] /\ e = [f EXCEPT !.payload = w]
      OBVIOUS
    <3>4. /\ f = n.ties[l] /\ f \in TieOf(DOMAIN n.label) /\ e = [f EXCEPT !.payload = w]
          /\ e \in TieOf(DOMAIN n.label) /\ e.payload = w /\ e.from = f.from /\ e.to = f.to
      <4>1. f \in TieOf(DOMAIN n.label)
        BY <2>4, <3>1
      <4> QED BY <4>1 DEF TieOf
    <3>5. r \in Seq(TieOf(DOMAIN n.label)) /\ Len(r) = N /\ r[l] = e /\ \A i \in 1 .. N : i # l => r[i] = n.ties[i]
      <4>1. PICK E : n.ties \in Seq(E) /\ E = TieOf(DOMAIN n.label)
        BY <1>1 DEF Standing
      <4>2. r \in Seq(E) /\ Len(r) = N /\ r[l] = e /\ \A i \in 1 .. N : i # l => r[i] = n.ties[i]
        BY <2>4, <3>1, <3>2, <3>4, <4>1
      <4> QED BY <4>1, <4>2
    <3>6. m.directed = n.directed /\ m.index = n.index /\ m.label = n.label /\ m.ties = r
          /\ m = [directed |-> m.directed, index |-> m.index, label |-> m.label, ties |-> m.ties]
      BY <1>1, <3>3 DEF Standing
    <3>7. Standing(m)
      BY <1>1, <3>5, <3>6 DEF Standing
    <3>8. \A i \in 1 .. N : TieKey(m, r[i]) = TieKey(n, n.ties[i])
      BY <3>4, <3>5, <3>6 DEF TieKey
    <3>9. KeysApart(m)
      BY <2>5, <3>5, <3>6, <3>8 DEF KeysApart
    <3>10. Keeps(m, H)
      <4>1. DOMAIN H = DOMAIN G
        BY <2>3, <2>6, <2>8
      <4>2. DOMAIN H = {TieKey(m, r[i]) : i \in 1 .. N}
        BY <2>5, <3>8, <4>1
      <4>3. \A i \in 1 .. N : H[TieKey(m, r[i])] = r[i].payload
        <5> SUFFICES ASSUME NEW i \in 1 .. N PROVE H[TieKey(m, r[i])] = r[i].payload
          OBVIOUS
        <5>1. CASE i = l
          BY <2>6, <3>1, <3>4, <3>5, <3>8, <5>1
        <5>2. CASE i # l
          <6>1. TieKey(n, n.ties[i]) # k /\ TieKey(n, n.ties[i]) \in DOMAIN G
            BY <2>3, <2>4, <2>5, <3>1, <5>2
          <6> QED BY <2>5, <2>6, <3>5, <3>8, <5>2, <6>1
        <5> QED BY <5>1, <5>2
      <4>4. DOMAIN H = {TieKey(m, m.ties[i]) : i \in 1 .. Len(m.ties)}
        BY <3>5, <3>6, <4>2
      <4>5. \A i \in 1 .. Len(m.ties) : H[TieKey(m, m.ties[i])] = m.ties[i].payload
        BY <3>5, <3>6, <4>3
      <4> QED BY <2>6, <4>4, <4>5 DEF Keeps
    <3>11. Shows(m, nodes, H)
      BY <1>1, <3>6, <3>7, <3>9, <3>10 DEF Shows
    <3> QED BY <1>2, <1>4, <2>1, <3>6, <3>11 DEF WithTie
  <2> QED BY <2>7, <2>8
<1> QED BY <1>3, <1>4

(* In a finite set with a strict total order every rank is somebody's. *)
Orders(R, S) == /\ \A x \in S : <<x, x>> \notin R
                /\ \A x, y, z \in S : <<x, y>> \in R /\ <<y, z>> \in R => <<x, z>> \in R
                /\ \A x, y \in S : x # y => <<x, y>> \in R \/ <<y, x>> \in R
RankIn(R, S, x) == Cardinality({y \in S : <<y, x>> \in R})
LEMMA RanksRise ==
  ASSUME NEW S, IsFiniteSet(S), NEW R, Orders(R, S), NEW x \in S, NEW y \in S, <<x, y>> \in R
  PROVE  RankIn(R, S, x) \in Nat /\ RankIn(R, S, y) \in Nat /\ RankIn(R, S, x) < RankIn(R, S, y)
<1>1. PICK A, B : A = {z \in S : <<z, x>> \in R} /\ B = {z \in S : <<z, y>> \in R}
  OBVIOUS
<1>2. IsFiniteSet(A) /\ IsFiniteSet(B)
  BY <1>1, FS_Subset
<1>3. A \subseteq B /\ A # B
  BY <1>1 DEF Orders
<1>4. Cardinality(A) \in Nat /\ Cardinality(B) \in Nat /\ Cardinality(A) <= Cardinality(B) /\ Cardinality(A) # Cardinality(B)
  BY <1>2, <1>3, FS_Subset, FS_CardinalityType
<1> QED BY <1>1, <1>4 DEF RankIn

LEMMA RanksAll ==
  ASSUME NEW S, IsFiniteSet(S), NEW R, Orders(R, S)
  PROVE  /\ \A x \in S : RankIn(R, S, x) \in 0 .. Cardinality(S) - 1
         /\ \A x, y \in S : RankIn(R, S, x) = RankIn(R, S, y) => x = y
         /\ \A i \in 0 .. Cardinality(S) - 1 : \E x \in S : RankIn(R, S, x) = i
<1>1. PICK c \in Nat : c = Cardinality(S)
  BY FS_CardinalityType
<1>2. ASSUME NEW x \in S PROVE RankIn(R, S, x) \in 0 .. c - 1
  <2>1. PICK A : A = {y \in S : <<y, x>> \in R}
    OBVIOUS
  <2>2. A \subseteq S \ {x} /\ IsFiniteSet(S \ {x}) /\ Cardinality(S \ {x}) = c - 1
    BY <1>1, <2>1, FS_RemoveElement DEF Orders
  <2>3. IsFiniteSet(A) /\ Cardinality(A) <= c - 1 /\ Cardinality(A) \in Nat
    BY <2>2, FS_Subset, FS_CardinalityType
  <2> QED BY <2>1, <2>3 DEF RankIn
<1>3. ASSUME NEW x \in S, NEW y \in S, RankIn(R, S, x) = RankIn(R, S, y), x # y PROVE FALSE
  <2>1. CASE <<x, y>> \in R
    BY <1>3, <2>1, RanksRise
  <2>2. CASE <<y, x>> \in R
    BY <1>3, <2>2, RanksRise
  <2> QED BY <1>3, <2>1, <2>2 DEF Orders
<1>4. PICK f : f = [x \in S |-> RankIn(R, S, x)]
  OBVIOUS
<1>5. f \in Injection(S, 0 .. c - 1)
  BY <1>2, <1>3, <1>4 DEF Injection, IsInjective
<1>6. IsFiniteSet(0 .. c - 1) /\ Cardinality(0 .. c - 1) = c
  BY FS_Interval
<1>7. f \in Surjection(S, 0 .. c - 1)
  BY <1>1, <1>5, <1>6, FS_Injection
<1>8. \A i \in 0 .. c - 1 : \E x \in S : RankIn(R, S, x) = i
  BY <1>4, <1>7 DEF Surjection
<1> QED BY <1>1, <1>2, <1>3, <1>8

LEMMA ImageFinite ==
  ASSUME NEW D, IsFiniteSet(D), NEW f, DOMAIN f = D, f = [x \in D |-> f[x]], NEW T, T = {f[x] : x \in D}
  PROVE  IsFiniteSet(T)
<1>1. f \in Surjection(D, T)
  BY DEF Surjection
<1> QED BY <1>1, FS_Surjection

(* A list of a set: all of it and nothing else. *)
ListOf(l, S) == /\ Len(l) = Cardinality(S) /\ Len(l) \in Nat
                /\ \A i \in 1 .. Len(l) : l[i] \in S
                /\ \A x \in S : \E i \in 1 .. Len(l) : l[i] = x
LEMMA ListedRanks ==
  ASSUME NEW S, IsFiniteSet(S), NEW R, Orders(R, S),
         NEW l, Len(l) = Cardinality(S),
         \A i \in 1 .. Len(l) : (\E x \in S : RankIn(R, S, x) = i - 1) => l[i] \in S /\ RankIn(R, S, l[i]) = i - 1
  PROVE  ListOf(l, S)
<1>1. PICK c \in Nat : c = Cardinality(S)
  BY FS_CardinalityType
<1>2. Len(l) = c
  BY <1>1
<1>3. \A i \in 1 .. c : l[i] \in S /\ RankIn(R, S, l[i]) = i - 1
  <2> SUFFICES ASSUME NEW i \in 1 .. c PROVE l[i] \in S /\ RankIn(R, S, l[i]) = i - 1
    OBVIOUS
  <2>1. i - 1 \in 0 .. c - 1
    OBVIOUS
  <2>2. \E x \in S : RankIn(R, S, x) = i - 1
    BY <1>1, <2>1, RanksAll
  <2> QED BY <1>1, <2>2
<1>4. ASSUME NEW x \in S PROVE \E i \in 1 .. c : l[i] = x
  <2>1. PICK r \in 0 .. c - 1 : r = RankIn(R, S, x)
    BY <1>1, RanksAll
  <2>2. r + 1 \in 1 .. c /\ (r + 1) - 1 = r
    OBVIOUS
  <2>3. l[r + 1] = x
    BY <1>3, <2>1, <2>2, RanksAll
  <2> QED BY <2>2, <2>3
<1> QED BY <1>1, <1>2, <1>3, <1>4 DEF ListOf

LEMMA ListedNumbers ==
  ASSUME NEW S, IsFiniteSet(S), S \subseteq Nat
  PROVE  ListOf(Listed(S, <), S)
<1>1. PICK R : R = {p \in S \X S : p[1] < p[2]}
  OBVIOUS
<1>2. \A x, y \in S : <<x, y>> \in R <=> x < y
  BY <1>1
<1>3. Orders(R, S)
  BY <1>2 DEF Orders
<1>4. \A x \in S : {y \in S : y < x} = {y \in S : <<y, x>> \in R}
  BY <1>2
<1>5. \A x \in S : Cardinality({y \in S : y < x}) = RankIn(R, S, x)
  BY <1>4 DEF RankIn
<1>6. PICK l : l = Listed(S, <)
  OBVIOUS
<1>7. l = [i \in 1 .. Cardinality(S) |-> CHOOSE x \in S : Cardinality({y \in S : y < x}) = i - 1]
  BY <1>6 DEF Listed
<1>8. Len(l) = Cardinality(S)
  BY <1>7, FS_CardinalityType
<1>9. \A i \in 1 .. Len(l) : (\E x \in S : RankIn(R, S, x) = i - 1) => l[i] \in S /\ RankIn(R, S, l[i]) = i - 1
  BY <1>5, <1>7, <1>8
<1>10. ListOf(l, S)
  BY <1>3, <1>8, <1>9, ListedRanks
<1> QED BY <1>6, <1>10

LEMMA ListedTriples ==
  ASSUME NEW S, IsFiniteSet(S), \A d \in S : d[1] \in Nat /\ d[2] \in Nat,
         \A d, e \in S : d[1] = e[1] /\ d[2] = e[2] => d = e
  PROVE  ListOf(Listed(S, Before), S)
<1>1. PICK R : R = {p \in S \X S : Before(p[1], p[2])}
  OBVIOUS
<1>2. \A x, y \in S : <<x, y>> \in R <=> Before(x, y)
  BY <1>1
<1>3. Orders(R, S)
  BY <1>2 DEF Orders, Before
<1>4. \A x \in S : {y \in S : Before(y, x)} = {y \in S : <<y, x>> \in R}
  BY <1>2
<1>5. \A x \in S : Cardinality({y \in S : Before(y, x)}) = RankIn(R, S, x)
  BY <1>4 DEF RankIn
<1>6. PICK l : l = Listed(S, Before)
  OBVIOUS
<1>7. l = [i \in 1 .. Cardinality(S) |-> CHOOSE x \in S : Cardinality({y \in S : Before(y, x)}) = i - 1]
  BY <1>6 DEF Listed
<1>8. Len(l) = Cardinality(S)
  BY <1>7, FS_CardinalityType
<1>9. \A i \in 1 .. Len(l) : (\E x \in S : RankIn(R, S, x) = i - 1) => l[i] \in S /\ RankIn(R, S, l[i]) = i - 1
  BY <1>5, <1>7, <1>8
<1>10. ListOf(l, S)
  BY <1>3, <1>8, <1>9, ListedRanks
<1> QED BY <1>6, <1>10

(* What is saved: the agents, and every tie by its agents, in some order and direction. *)
TieList(n, l) ==
  /\ Len(l) \in Nat
  /\ \A k \in 1 .. Len(l) : \E i \in 1 .. Len(n.ties) :
       /\ l[k][1] \in DOMAIN n.index /\ l[k][2] \in DOMAIN n.index
       /\ KeyOf(n.directed, l[k][1], l[k][2]) = TieKey(n, n.ties[i]) /\ l[k][3] = n.ties[i].payload
  /\ \A i \in 1 .. Len(n.ties) : \E k \in 1 .. Len(l) :
       KeyOf(n.directed, l[k][1], l[k][2]) = TieKey(n, n.ties[i])
LEMMA Triple == ASSUME NEW a, NEW b, NEW w
  PROVE /\ (<<a, b>> \o <<w>>)[1] = a /\ (<<a, b>> \o <<w>>)[2] = b /\ (<<a, b>> \o <<w>>)[3] = w
OBVIOUS

LEMMA CanonicalKey ==
  ASSUME NEW n, Standing(n), NEW i \in 1 .. Len(n.ties)
  PROVE  \E a \in DOMAIN n.index, b \in DOMAIN n.index :
           /\ Canonical(n, n.ties[i]) = <<a, b>> /\ KeyOf(n.directed, a, b) = TieKey(n, n.ties[i])
           /\ a \in Nat /\ b \in Nat /\ KeyOf(n.directed, a, b) = <<a, b>>
<1>1. PICK e : e = n.ties[i] /\ e.from \in DOMAIN n.label /\ e.to \in DOMAIN n.label
  BY PlacedSlots
<1>2. PICK d \in BOOLEAN, p \in Nat, q \in Nat : d = n.directed /\ p = n.label[e.from] /\ q = n.label[e.to]
                                                 /\ p \in DOMAIN n.index /\ q \in DOMAIN n.index
  BY <1>1, PlacedSlots
<1>3. Ends(n, e) = <<p, q>> /\ TieKey(n, e) = KeyOf(d, p, q)
  BY <1>2 DEF Ends, TieKey
<1>4. CASE ~d /\ p > q
  <2>1. Canonical(n, e) = <<q, p>>
    BY <1>2, <1>3, <1>4 DEF Canonical
  <2>2. KeyOf(d, q, p) = KeyOf(d, p, q)
    BY <1>4, SameKey
  <2>3. KeyOf(d, q, p) = <<q, p>>
    BY <1>4, MinMaxOfTwo DEF KeyOf
  <2> QED BY <1>1, <1>2, <1>3, <2>1, <2>2, <2>3
<1>5. CASE ~(~d /\ p > q)
  <2>1. Canonical(n, e) = <<p, q>>
    BY <1>2, <1>3, <1>5 DEF Canonical
  <2>2. KeyOf(d, p, q) = <<p, q>>
    BY <1>5, MinMaxOfTwo DEF KeyOf
  <2> QED BY <1>1, <1>2, <1>3, <2>1, <2>2
<1> QED BY <1>4, <1>5

LEMMA SavedIs ==
  ASSUME NEW n, NEW nodes, NEW G, Shows(n, nodes, G)
  PROVE  ListOf(Saved(n).nodes, nodes) /\ TieList(n, Saved(n).ties)
<1>1. Standing(n) /\ nodes = DOMAIN n.index /\ IsFiniteSet(nodes) /\ nodes \subseteq Nat
  BY NetAssumption DEF Shows, Standing
<1>2. PICK N \in Nat : N = Len(n.ties) /\ DOMAIN n.ties = 1 .. N
  BY <1>1, PlacedSlots
<1>3. ListOf(Saved(n).nodes, nodes)
  BY <1>1, ListedNumbers DEF Saved
<1>4. CASE Cardinality(Payload) > 1
  <2>1. PICK l : l = [i \in 1 .. N |-> Ends(n, n.ties[i]) \o <<n.ties[i].payload>>]
    OBVIOUS
  <2>2. Saved(n).ties = l /\ Len(l) = N
    BY <1>2, <1>4, <2>1 DEF Saved
  <2>3. ASSUME NEW i \in 1 .. N
        PROVE  /\ l[i][1] \in DOMAIN n.index /\ l[i][2] \in DOMAIN n.index
               /\ KeyOf(n.directed, l[i][1], l[i][2]) = TieKey(n, n.ties[i]) /\ l[i][3] = n.ties[i].payload
    <3>1. PICK e : e = n.ties[i] /\ e.from \in DOMAIN n.label /\ e.to \in DOMAIN n.label
      BY <1>1, <1>2, PlacedSlots
    <3>2. PICK a, b, w : a = n.label[e.from] /\ b = n.label[e.to] /\ w = e.payload /\ a \in DOMAIN n.index /\ b \in DOMAIN n.index
      BY <1>1, <3>1, PlacedSlots
    <3>3. l[i] = <<a, b>> \o <<w>>
      BY <2>1, <3>1, <3>2 DEF Ends
    <3>4. l[i][1] = a /\ l[i][2] = b /\ l[i][3] = w
      BY <3>3, Triple
    <3> QED BY <3>1, <3>2, <3>4 DEF TieKey
  <2> QED BY <1>2, <1>3, <2>2, <2>3 DEF TieList
<1>5. CASE ~(Cardinality(Payload) > 1)
  <2>1. PICK f : f = [i \in 1 .. N |-> Canonical(n, n.ties[i]) \o <<n.ties[i].payload>>]
    OBVIOUS
  <2>2. PICK S : S = {f[i] : i \in 1 .. N}
    OBVIOUS
  <2>3. \A i \in 1 .. N : f[i] = Canonical(n, n.ties[i]) \o <<n.ties[i].payload>>
    BY <2>1
  <2>4. S = {Canonical(n, n.ties[i]) \o <<n.ties[i].payload>> : i \in DOMAIN n.ties}
    BY <1>2, <2>2, <2>3
  <2>5. PICK l : l = Listed(S, Before)
    OBVIOUS
  <2>6. Saved(n).ties = l
    BY <1>5, <2>4, <2>5 DEF Saved
  <2>7. ASSUME NEW i \in 1 .. N
        PROVE  /\ f[i][1] \in DOMAIN n.index /\ f[i][2] \in DOMAIN n.index /\ f[i][1] \in Nat /\ f[i][2] \in Nat
               /\ KeyOf(n.directed, f[i][1], f[i][2]) = TieKey(n, n.ties[i]) /\ f[i][3] = n.ties[i].payload
               /\ <<f[i][1], f[i][2]>> = TieKey(n, n.ties[i])
    <3>1. PICK a \in DOMAIN n.index, b \in DOMAIN n.index :
            /\ Canonical(n, n.ties[i]) = <<a, b>> /\ KeyOf(n.directed, a, b) = TieKey(n, n.ties[i])
            /\ a \in Nat /\ b \in Nat /\ KeyOf(n.directed, a, b) = <<a, b>>
      BY <1>1, <1>2, CanonicalKey
    <3>2. PICK w : w = n.ties[i].payload
      OBVIOUS
    <3>3. f[i] = <<a, b>> \o <<w>>
      BY <2>3, <3>1, <3>2
    <3>4. f[i][1] = a /\ f[i][2] = b /\ f[i][3] = w
      BY <3>3, Triple
    <3> QED BY <3>1, <3>2, <3>4
  <2>8. IsFiniteSet(S)
    <3>1. IsFiniteSet(1 .. N)
      BY FS_Interval
    <3>2. PICK D : D = 1 .. N
      OBVIOUS
    <3>3. DOMAIN f = D /\ f = [i \in D |-> f[i]]
      BY <2>1, <3>2
    <3> QED BY <2>2, <3>1, <3>2, <3>3, ImageFinite
  <2>9. \A d \in S : d[1] \in Nat /\ d[2] \in Nat
    BY <2>2, <2>7
  <2>10. \A d, e \in S : d[1] = e[1] /\ d[2] = e[2] => d = e
    <3>1. ASSUME NEW i \in 1 .. N, NEW j \in 1 .. N, f[i][1] = f[j][1], f[i][2] = f[j][2] PROVE f[i] = f[j]
      <4>1. TieKey(n, n.ties[i]) = TieKey(n, n.ties[j])
        BY <2>7, <3>1
      <4>2. i = j
        BY <1>2, <4>1 DEF Shows, KeysApart
      <4> QED BY <4>2
    <3> QED BY <2>2, <3>1
  <2>11. ListOf(l, S)
    BY <2>5, <2>8, <2>9, <2>10, ListedTriples
  <2>12. \A k \in 1 .. Len(l) : \E i \in 1 .. N : l[k] = f[i]
    BY <2>2, <2>11 DEF ListOf
  <2>13. \A i \in 1 .. N : \E k \in 1 .. Len(l) : l[k] = f[i]
    BY <2>2, <2>11 DEF ListOf
  <2>14. ASSUME NEW k \in 1 .. Len(l) PROVE \E i \in 1 .. N :
           /\ l[k][1] \in DOMAIN n.index /\ l[k][2] \in DOMAIN n.index
           /\ KeyOf(n.directed, l[k][1], l[k][2]) = TieKey(n, n.ties[i]) /\ l[k][3] = n.ties[i].payload
    <3>1. PICK i \in 1 .. N : l[k] = f[i]
      BY <2>12
    <3> QED BY <2>7, <3>1
  <2>15. ASSUME NEW i \in 1 .. N PROVE \E k \in 1 .. Len(l) : KeyOf(n.directed, l[k][1], l[k][2]) = TieKey(n, n.ties[i])
    <3>1. PICK k \in 1 .. Len(l) : l[k] = f[i]
      BY <2>13
    <3> QED BY <2>7, <3>1
  <2> QED BY <1>2, <1>3, <2>6, <2>11, <2>14, <2>15 DEF TieList, ListOf
<1> QED BY <1>4, <1>5

LEMMA EmptyShows ==
  ASSUME NEW d \in BOOLEAN, NEW G, DOMAIN G = {}, G = [k \in {} |-> G[k]]
  PROVE  Shows(EmptyNet(d), {}, G)
<1>1. PICK n : n = EmptyNet(d)
  OBVIOUS
<1>2. n = [directed |-> d, index |-> << >>, label |-> << >>, ties |-> <<>>]
  BY <1>1 DEF EmptyNet
<1>3. DOMAIN n.index = {} /\ DOMAIN n.label = {} /\ Len(n.ties) = 0 /\ n.ties = <<>> /\ n.directed = d
      /\ n.index = [x \in {} |-> x] /\ n.label = [x \in {} |-> x]
  BY <1>2
<1>4. n.ties \in Seq(TieOf(DOMAIN n.label))
  BY <1>3
<1>5. n.index \in [{} -> {}] /\ n.label \in [{} -> {}]
  BY <1>3
<1>6. Standing(n)
  BY <1>2, <1>3, <1>4, <1>5, FS_EmptySet DEF Standing
<1>7. 1 .. Len(n.ties) = {}
  BY <1>3
<1>8. KeysApart(n) /\ Keeps(n, G)
  BY <1>7 DEF KeysApart, Keeps
<1> QED BY <1>1, <1>3, <1>6, <1>8 DEF Shows

Stages(d, data, placed, joined) ==
  /\ placed[0] = EmptyNet(d)
  /\ \A k \in 1 .. Len(data.nodes) : placed[k] = AddNode(placed[k - 1], data.nodes[k])
  /\ joined[0] = placed[Len(data.nodes)]
  /\ \A k \in 1 .. Len(data.ties) :
       joined[k] = AddTie(joined[k - 1], data.ties[k][1], data.ties[k][2], data.ties[k][3])
  /\ Loaded(d, data) = joined[Len(data.ties)]
LEMMA Loading ==
  ASSUME NEW d, NEW data, Len(data.nodes) \in Nat, Len(data.ties) \in Nat
  PROVE  \E placed, joined : Stages(d, data, placed, joined)
<1> DEFINE B(k, n) == AddNode(n, data.nodes[k])
           C(k, n) == AddTie(n, data.ties[k][1], data.ties[k][2], data.ties[k][3])
           FirstRun(g, N) == g = [k \in 0 .. N |-> IF k = 0 THEN EmptyNet(d) ELSE B(k, g[k - 1])]
           SecondRun(g, N, x) == g = [k \in 0 .. N |-> IF k = 0 THEN x ELSE C(k, g[k - 1])]
<1>1. \A N \in Nat : \E g : FirstRun(g, N)
  <2> DEFINE T == {m \in Nat : \E g : FirstRun(g, m)}
  <2> HIDE DEF B
  <2>1. 0 \in T
    <3>1. FirstRun([k \in 0 .. 0 |-> EmptyNet(d)], 0)
      OBVIOUS
    <3> QED BY <3>1
  <2>2. ASSUME NEW m \in Nat, m \in T PROVE m + 1 \in T
    <3>1. PICK g : FirstRun(g, m)
      BY <2>2
    <3> DEFINE h == [k \in 0 .. m + 1 |-> IF k = m + 1 THEN B(m + 1, g[m]) ELSE g[k]]
    <3>2. FirstRun(h, m + 1)
      <4>1. ASSUME NEW k \in 0 .. m + 1 PROVE h[k] = IF k = 0 THEN EmptyNet(d) ELSE B(k, h[k - 1])
        <5>1. CASE k = m + 1
          <6>1. m \in 0 .. m + 1 /\ m # m + 1 /\ k - 1 = m /\ k # 0
            BY <5>1
          <6> QED BY <5>1, <6>1
        <5>2. CASE k # m + 1 /\ k # 0
          <6>1. k \in 0 .. m /\ k - 1 \in 0 .. m + 1 /\ k - 1 # m + 1
            BY <5>2
          <6>2. g[k] = B(k, g[k - 1])
            BY <3>1, <5>2, <6>1
          <6> QED BY <5>2, <6>1, <6>2
        <5>3. CASE k = 0
          <6>1. 0 \in 0 .. m /\ 0 # m + 1
            OBVIOUS
          <6>2. g[0] = EmptyNet(d)
            BY <3>1, <6>1
          <6> QED BY <5>3, <6>1, <6>2
        <5> QED BY <5>1, <5>2, <5>3
      <4>2. h = [k \in 0 .. m + 1 |-> h[k]]
        OBVIOUS
      <4> HIDE DEF h
      <4> QED BY <4>1, <4>2
    <3> HIDE DEF FirstRun, h
    <3> QED BY <3>2
  <2>3. Nat \subseteq T
    <3> HIDE DEF T
    <3> QED BY <2>1, <2>2, Induct
  <2> QED BY <2>3
<1>2. ASSUME NEW x PROVE \A N \in Nat : \E g : SecondRun(g, N, x)
  <2> DEFINE T == {m \in Nat : \E g : SecondRun(g, m, x)}
  <2> HIDE DEF C
  <2>1. 0 \in T
    <3>1. SecondRun([k \in 0 .. 0 |-> x], 0, x)
      OBVIOUS
    <3> QED BY <3>1
  <2>2. ASSUME NEW m \in Nat, m \in T PROVE m + 1 \in T
    <3>1. PICK g : SecondRun(g, m, x)
      BY <2>2
    <3> DEFINE h == [k \in 0 .. m + 1 |-> IF k = m + 1 THEN C(m + 1, g[m]) ELSE g[k]]
    <3>2. SecondRun(h, m + 1, x)
      <4>1. ASSUME NEW k \in 0 .. m + 1 PROVE h[k] = IF k = 0 THEN x ELSE C(k, h[k - 1])
        <5>1. CASE k = m + 1
          <6>1. m \in 0 .. m + 1 /\ m # m + 1 /\ k - 1 = m /\ k # 0
            BY <5>1
          <6> QED BY <5>1, <6>1
        <5>2. CASE k # m + 1 /\ k # 0
          <6>1. k \in 0 .. m /\ k - 1 \in 0 .. m + 1 /\ k - 1 # m + 1
            BY <5>2
          <6>2. g[k] = C(k, g[k - 1])
            BY <3>1, <5>2, <6>1
          <6> QED BY <5>2, <6>1, <6>2
        <5>3. CASE k = 0
          <6>1. 0 \in 0 .. m /\ 0 # m + 1
            OBVIOUS
          <6>2. g[0] = x
            BY <3>1, <6>1
          <6> QED BY <5>3, <6>1, <6>2
        <5> QED BY <5>1, <5>2, <5>3
      <4>2. h = [k \in 0 .. m + 1 |-> h[k]]
        OBVIOUS
      <4> HIDE DEF h
      <4> QED BY <4>1, <4>2
    <3> HIDE DEF SecondRun, h
    <3> QED BY <3>2
  <2>3. Nat \subseteq T
    <3> HIDE DEF T
    <3> QED BY <2>1, <2>2, Induct
  <2> QED BY <2>3
<1>3. PICK N \in Nat, M \in Nat : N = Len(data.nodes) /\ M = Len(data.ties)
  OBVIOUS
<1>4. PICK p : p = (CHOOSE g : FirstRun(g, N))
  OBVIOUS
<1>5. FirstRun(p, N)
  <2> HIDE DEF FirstRun
  <2> QED BY <1>1, <1>4
<1>6. PICK j : j = (CHOOSE g : SecondRun(g, M, p[N]))
  OBVIOUS
<1>7. SecondRun(j, M, p[N])
  <2> HIDE DEF SecondRun
  <2> QED BY <1>2, <1>6
<1>8. Loaded(d, data) = j[M]
  BY <1>3, <1>4, <1>6 DEF Loaded
<1>9. p[0] = EmptyNet(d) /\ \A k \in 1 .. N : p[k] = B(k, p[k - 1])
  <2>1. 0 \in 0 .. N /\ \A k \in 1 .. N : k \in 0 .. N /\ k # 0
    OBVIOUS
  <2> HIDE DEF B
  <2> QED BY <1>5, <2>1
<1>10. j[0] = p[N] /\ \A k \in 1 .. M : j[k] = C(k, j[k - 1])
  <2>1. 0 \in 0 .. M /\ \A k \in 1 .. M : k \in 0 .. M /\ k # 0
    OBVIOUS
  <2> HIDE DEF C
  <2> QED BY <1>7, <2>1
<1> HIDE DEF FirstRun, SecondRun
<1> QED BY <1>3, <1>8, <1>9, <1>10 DEF Stages

(* What is loaded: agents, and ties between them, each with what the graph has at its key. *)
Describes(data, d, nodes, G) ==
  /\ d \in BOOLEAN /\ nodes \subseteq Nat /\ ListOf(data.nodes, nodes)
  /\ G = [k \in DOMAIN G |-> G[k]] /\ Len(data.ties) \in Nat
  /\ \A k \in 1 .. Len(data.ties) :
       /\ data.ties[k][1] \in nodes /\ data.ties[k][2] \in nodes /\ data.ties[k][3] \in Payload
       /\ KeyOf(d, data.ties[k][1], data.ties[k][2]) \in DOMAIN G
       /\ G[KeyOf(d, data.ties[k][1], data.ties[k][2])] = data.ties[k][3]
  /\ \A x \in DOMAIN G : \E k \in 1 .. Len(data.ties) : KeyOf(d, data.ties[k][1], data.ties[k][2]) = x
LEMMA LoadedIs ==
  ASSUME NEW data, NEW d \in BOOLEAN, NEW nodes, NEW G, Describes(data, d, nodes, G)
  PROVE  Shows(Loaded(d, data), nodes, G) /\ Loaded(d, data).directed = d
<1>1. nodes \subseteq Nat /\ d \in BOOLEAN /\ ListOf(data.nodes, nodes)
  BY DEF Describes
<1>3. PICK N \in Nat, M \in Nat : N = Len(data.nodes) /\ M = Len(data.ties)
  BY DEF ListOf, Describes
<1>4. PICK p, j :
        /\ p[0] = EmptyNet(d)
        /\ \A k \in 1 .. N : p[k] = AddNode(p[k - 1], data.nodes[k])
        /\ j[0] = p[N]
        /\ \A k \in 1 .. M : j[k] = AddTie(j[k - 1], data.ties[k][1], data.ties[k][2], data.ties[k][3])
        /\ Loaded(d, data) = j[M]
  <2>1. PICK p, j : Stages(d, data, p, j)
    BY <1>3, Loading
  <2> QED BY <1>3, <2>1 DEF Stages
<1>5. PICK none : none = Restrict(G, {})
  OBVIOUS
<1>6. PICK K : K = [k \in 1 .. M |-> KeyOf(d, data.ties[k][1], data.ties[k][2])]
  OBVIOUS
<1> DEFINE Seen0(k) == {data.nodes[i] : i \in 1 .. k}
           Seen1(k) == {K[i] : i \in 1 .. k}
           T == {k \in Nat : k <= N => p[k].directed = d /\ Shows(p[k], Seen0(k), none)}
           U == {k \in Nat : k <= M => j[k].directed = d /\ Shows(j[k], nodes, Restrict(G, Seen1(k)))}
<1>7. 0 \in T
  <2>1. DOMAIN none = {} /\ none = [k \in {} |-> none[k]]
    BY <1>5 DEF Restrict
  <2>2. Shows(EmptyNet(d), {}, none) /\ EmptyNet(d).directed = d
    BY <1>1, <2>1, EmptyShows DEF EmptyNet
  <2>3. Seen0(0) = {}
    OBVIOUS
  <2> QED BY <1>4, <2>2, <2>3
<1>8. ASSUME NEW k \in Nat, k \in T PROVE k + 1 \in T
  <2>1. SUFFICES ASSUME k + 1 <= N PROVE p[k + 1].directed = d /\ Shows(p[k + 1], Seen0(k + 1), none)
    OBVIOUS
  <2>2. p[k].directed = d /\ Shows(p[k], Seen0(k), none) /\ k + 1 \in 1 .. N /\ (k + 1) - 1 = k
    BY <1>8, <2>1
  <2>3. PICK a \in Nat : a = data.nodes[k + 1]
    BY <1>1, <1>3, <2>2 DEF ListOf
  <2>4. p[k + 1] = AddNode(p[k], a)
    BY <1>4, <2>2, <2>3
  <2>5. Seen0(k + 1) = Seen0(k) \cup {a}
    <3>1. 1 .. k + 1 = (1 .. k) \cup {k + 1}
      OBVIOUS
    <3> QED BY <2>3, <3>1
  <2> HIDE DEF Seen0
  <2>6. Shows(AddNode(p[k], a), Seen0(k) \cup {a}, none) /\ AddNode(p[k], a).directed = p[k].directed
    BY <2>2, AddNodeShows
  <2> QED BY <2>2, <2>4, <2>5, <2>6
<1>9. p[N].directed = d /\ Shows(p[N], nodes, none)
  <2>1. Nat \subseteq T
    <3> HIDE DEF T
    <3> QED BY <1>7, <1>8, Induct
  <2>2. Seen0(N) = nodes
    BY <1>1, <1>3 DEF ListOf
  <2> HIDE DEF Seen0
  <2> QED BY <2>1, <2>2
<1>10. 0 \in U
  <2>1. Restrict(G, Seen1(0)) = none
    BY <1>5 DEF Restrict
  <2> QED BY <1>4, <1>9, <2>1
<1>11. ASSUME NEW k \in Nat, k \in U PROVE k + 1 \in U
  <2>1. SUFFICES ASSUME k + 1 <= M PROVE j[k + 1].directed = d /\ Shows(j[k + 1], nodes, Restrict(G, Seen1(k + 1)))
    OBVIOUS
  <2>2. j[k].directed = d /\ Shows(j[k], nodes, Restrict(G, Seen1(k))) /\ k + 1 \in 1 .. M /\ (k + 1) - 1 = k
    BY <1>11, <2>1
  <2>3. PICK a, b, w : a = data.ties[k + 1][1] /\ b = data.ties[k + 1][2] /\ w = data.ties[k + 1][3]
    OBVIOUS
  <2>4. a \in nodes /\ b \in nodes /\ w \in Payload /\ KeyOf(d, a, b) \in DOMAIN G /\ G[KeyOf(d, a, b)] = w
    BY <1>3, <2>2, <2>3 DEF Describes
  <2>5. PICK key : key = KeyOf(d, a, b) /\ key = K[k + 1]
    BY <1>6, <2>2, <2>3
  <2>6. key \in DOMAIN G /\ G[key] = w /\ w \in Payload /\ a \in Nat /\ b \in Nat
    BY <1>1, <2>4, <2>5
  <2>7. j[k + 1] = AddTie(j[k], a, b, w)
    BY <1>4, <2>2, <2>3
  <2>8. PICK H : H = Restrict(G, Seen1(k))
    OBVIOUS
  <2>9. Seen1(k + 1) = Seen1(k) \cup {key}
    <3>1. 1 .. k + 1 = (1 .. k) \cup {k + 1}
      OBVIOUS
    <3> QED BY <2>5, <3>1
  <2> HIDE DEF Seen1
  <2>10. WithTie(H, nodes, key, a, b, w) = Restrict(G, Seen1(k + 1))
    <3>1. {a, b} \subseteq nodes /\ DOMAIN H = Seen1(k) /\ \A x \in Seen1(k) : H[x] = G[x]
      BY <2>4, <2>8 DEF Restrict
    <3>2. WithTie(H, nodes, key, a, b, w) = [x \in Seen1(k) \cup {key} |-> IF x = key THEN w ELSE H[x]]
      BY <3>1 DEF WithTie
    <3>3. [x \in Seen1(k) \cup {key} |-> IF x = key THEN w ELSE H[x]] = [x \in Seen1(k) \cup {key} |-> G[x]]
      BY <2>6, <3>1
    <3> QED BY <2>9, <3>2, <3>3 DEF Restrict
  <2>11. Shows(AddTie(j[k], a, b, w), nodes, WithTie(H, nodes, KeyOf(j[k].directed, a, b), a, b, w))
         /\ AddTie(j[k], a, b, w).directed = j[k].directed
    BY <2>2, <2>6, <2>8, AddTieShows
  <2> QED BY <2>2, <2>5, <2>7, <2>10, <2>11
<1>12. j[M].directed = d /\ Shows(j[M], nodes, Restrict(G, Seen1(M)))
  <2>1. Nat \subseteq U
    <3> HIDE DEF U
    <3> QED BY <1>10, <1>11, Induct
  <2> HIDE DEF Seen1
  <2> QED BY <2>1
<1>13. Restrict(G, Seen1(M)) = G
  <2>1. Seen1(M) = DOMAIN G
    <3>0. \A k \in 1 .. M : K[k] = KeyOf(d, data.ties[k][1], data.ties[k][2])
      BY <1>6
    <3>4. Seen1(M) \subseteq DOMAIN G
      BY <1>3, <3>0 DEF Describes
    <3>5. DOMAIN G \subseteq Seen1(M)
      BY <1>3, <3>0 DEF Describes
    <3> QED BY <3>4, <3>5
  <2> HIDE DEF Seen1
  <2> QED BY <2>1 DEF Describes, Restrict
<1> QED BY <1>4, <1>12, <1>13
LEMMA LoadedShows ==
  ASSUME NEW n, NEW nodes, NEW G, Shows(n, nodes, G), NEW data, ListOf(data.nodes, nodes), TieList(n, data.ties)
  PROVE  Shows(Loaded(n.directed, data), nodes, G)
<1>1. Standing(n) /\ nodes = DOMAIN n.index /\ nodes \subseteq Nat /\ n.directed \in BOOLEAN
  BY DEF Shows, Standing
<1>2. /\ G = [k \in DOMAIN G |-> G[k]]
      /\ DOMAIN G = {TieKey(n, n.ties[i]) : i \in 1 .. Len(n.ties)}
      /\ \A i \in 1 .. Len(n.ties) : G[TieKey(n, n.ties[i])] = n.ties[i].payload
  BY DEF Shows, Keeps
<1>3. \A i \in 1 .. Len(n.ties) : n.ties[i].payload \in Payload
  BY <1>1, PlacedSlots
<1>4. ASSUME NEW k \in 1 .. Len(data.ties)
      PROVE  /\ data.ties[k][1] \in nodes /\ data.ties[k][2] \in nodes /\ data.ties[k][3] \in Payload
             /\ KeyOf(n.directed, data.ties[k][1], data.ties[k][2]) \in DOMAIN G
             /\ G[KeyOf(n.directed, data.ties[k][1], data.ties[k][2])] = data.ties[k][3]
  <2>1. PICK i \in 1 .. Len(n.ties) :
          /\ data.ties[k][1] \in DOMAIN n.index /\ data.ties[k][2] \in DOMAIN n.index
          /\ KeyOf(n.directed, data.ties[k][1], data.ties[k][2]) = TieKey(n, n.ties[i])
          /\ data.ties[k][3] = n.ties[i].payload
    BY DEF TieList
  <2> QED BY <1>1, <1>2, <1>3, <2>1
<1>5. \A x \in DOMAIN G : \E k \in 1 .. Len(data.ties) : KeyOf(n.directed, data.ties[k][1], data.ties[k][2]) = x
  BY <1>2 DEF TieList
<1>6. Describes(data, n.directed, nodes, G)
  BY <1>1, <1>2, <1>4, <1>5 DEF Describes, TieList
<1> QED BY <1>1, <1>6, LoadedIs

NetInv ==
  /\ ghost = [nodes |-> ghost.nodes, ties |-> ghost.ties, calls |-> ghost.calls]
  /\ Shows(net, ghost.nodes, ghost.ties)

LEMMA InitNet == ASSUME NetInit PROVE NetInv
<1>1. PICK d \in BOOLEAN : net = EmptyNet(d) /\ ghost = [nodes |-> {}, ties |-> << >>, calls |-> 0]
  BY DEF NetInit
<1>2. PICK G : G = << >>
  OBVIOUS
<1>3. DOMAIN G = {} /\ G = [k \in {} |-> G[k]]
  BY <1>2
<1>4. Shows(EmptyNet(d), {}, G)
  BY <1>3, EmptyShows
<1>5. ghost.nodes = {} /\ ghost.ties = G /\ ghost.calls = 0
  BY <1>1, <1>2
<1> QED BY <1>1, <1>4, <1>5 DEF NetInv

LEMMA DescribedNet ==
  ASSUME NEW nodes, NEW ties, Describe(nodes, ties), Shows(net', nodes, ties)
  PROVE  NetInv'
<1>1. ghost' = [nodes |-> nodes, ties |-> ties, calls |-> ghost.calls + 1]
  BY DEF Describe
<1>2. ghost'.nodes = nodes /\ ghost'.ties = ties /\ ghost'.calls = ghost.calls + 1
  BY <1>1
<1> QED BY <1>1, <1>2 DEF NetInv

LEMMA KeyIs == ASSUME NEW a, NEW b PROVE Key(a, b) = KeyOf(net.directed, a, b)
BY DEF Key, KeyOf

LEMMA CallAddNodeNet == ASSUME NetInv, NEW a \in Id, CallAddNode(a) PROVE NetInv'
<1>0. a \in Nat
  BY NetAssumption
<1>1. Shows(AddNode(net, a), ghost.nodes \cup {a}, ghost.ties)
  BY <1>0, AddNodeShows DEF NetInv
<1> QED BY <1>1, DescribedNet DEF CallAddNode

LEMMA CallRemoveNodeNet == ASSUME NetInv, NEW a \in Id, CallRemoveNode(a) PROVE NetInv'
<1>0. a \in Nat
  BY NetAssumption
<1>1. Shows(RemoveNode(net, a), ghost.nodes \ {a}, Restrict(ghost.ties, {k \in DOMAIN ghost.ties : a \notin {k[1], k[2]}}))
  BY <1>0, RemoveNodeShows DEF NetInv
<1> QED BY <1>1, DescribedNet DEF CallRemoveNode

LEMMA CallRemoveEdgeNet == ASSUME NetInv, NEW a \in Id, NEW b \in Id, CallRemoveEdge(a, b) PROVE NetInv'
<1>0. a \in Nat /\ b \in Nat
  BY NetAssumption
<1>1. Shows(RemoveTie(net, a, b), ghost.nodes, Restrict(ghost.ties, DOMAIN ghost.ties \ {KeyOf(net.directed, a, b)}))
  BY <1>0, RemoveTieShows DEF NetInv
<1>2. Shows(RemoveTie(net, a, b), ghost.nodes, Restrict(ghost.ties, DOMAIN ghost.ties \ {Key(a, b)}))
  BY <1>1, KeyIs
<1> QED BY <1>2, DescribedNet DEF CallRemoveEdge

LEMMA CallAddEdgeNet == ASSUME NetInv, NEW a \in Id, NEW b \in Id, NEW w \in Payload, CallAddEdge(a, b, w) PROVE NetInv'
<1>1. PICK k : k = KeyOf(net.directed, a, b)
  OBVIOUS
<1>2. Shows(AddTie(net, a, b, w), ghost.nodes, WithTie(ghost.ties, ghost.nodes, k, a, b, w))
  <2>1. a \in Nat /\ b \in Nat
    BY NetAssumption
  <2> QED BY <1>1, <2>1, AddTieShows DEF NetInv
<1>3. Describe(ghost.nodes, WithTie(ghost.ties, ghost.nodes, k, a, b, w)) /\ net' = AddTie(net, a, b, w)
  BY <1>1, KeyIs DEF CallAddEdge, WithTie
<1> QED BY <1>2, <1>3, DescribedNet

LEMMA ReloadNet == ASSUME NetInv, Reload PROVE NetInv'
<1>1. Shows(net, ghost.nodes, ghost.ties)
  BY DEF NetInv
<1>2. PICK data : data = Saved(net)
  OBVIOUS
<1>3. ListOf(data.nodes, ghost.nodes) /\ TieList(net, data.ties)
  BY <1>1, <1>2, SavedIs
<1>4. Shows(Loaded(net.directed, data), ghost.nodes, ghost.ties)
  BY <1>1, <1>3, LoadedShows
<1> QED BY <1>2, <1>4, DescribedNet DEF Reload

LEMMA NetStep == ASSUME NetInv, [NetNext]_nvars PROVE NetInv'
<1>1. CASE Reload
  BY <1>1, ReloadNet
<1>2. ASSUME NEW a \in Id, CallAddNode(a) PROVE NetInv'
  BY <1>2, CallAddNodeNet
<1>3. ASSUME NEW a \in Id, CallRemoveNode(a) PROVE NetInv'
  BY <1>3, CallRemoveNodeNet
<1>4. ASSUME NEW a \in Id, NEW b \in Id, CallRemoveEdge(a, b) PROVE NetInv'
  BY <1>4, CallRemoveEdgeNet
<1>5. ASSUME NEW a \in Id, NEW b \in Id, NEW w \in Payload, CallAddEdge(a, b, w) PROVE NetInv'
  BY <1>5, CallAddEdgeNet
<1>6. CASE UNCHANGED nvars
  BY <1>6 DEF nvars, NetInv
<1> QED BY <1>1, <1>2, <1>3, <1>4, <1>5, <1>6 DEF NetNext

LEMMA MembersOfNet == ASSUME NetInv PROVE TiesAreOfMembers
<1>1. PICK n, nodes, G : n = net /\ nodes = ghost.nodes /\ G = ghost.ties
  OBVIOUS
<1>2. Shows(n, nodes, G) /\ Standing(n) /\ DOMAIN n.index = nodes
  BY <1>1 DEF NetInv, Shows
<1>3. \A a \in nodes : n.index[a] \in DOMAIN n.label /\ n.label[n.index[a]] = a
  BY <1>2 DEF Standing
<1>4. Cardinality(DOMAIN n.label) = Cardinality(nodes)
  <2>1. n.index \in [nodes -> DOMAIN n.label] /\ IsFiniteSet(nodes)
    BY <1>2 DEF Standing
  <2>2. \A x, y \in nodes : n.index[x] = n.index[y] => x = y
    BY <1>3
  <2>3. \A s \in DOMAIN n.label : \E x \in nodes : n.index[x] = s
    BY <1>2 DEF Standing
  <2> QED BY <2>1, <2>2, <2>3, SameSize
<1>5. Len(n.ties) = Cardinality(DOMAIN G) /\ Len(n.ties) \in Nat
  <2>1. PICK N \in Nat : N = Len(n.ties)
    BY <1>2, PlacedSlots
  <2>2. PICK f : f = [i \in 1 .. N |-> TieKey(n, n.ties[i])]
    OBVIOUS
  <2>3. DOMAIN G = {TieKey(n, n.ties[i]) : i \in 1 .. N}
    BY <1>2, <2>1 DEF Shows, Keeps
  <2>4. f \in [1 .. N -> DOMAIN G] /\ (\A z \in DOMAIN G : \E i \in 1 .. N : f[i] = z)
    BY <2>2, <2>3
  <2>5. \A i, j \in 1 .. N : f[i] = f[j] => i = j
    BY <1>2, <2>1, <2>2 DEF Shows, KeysApart
  <2>6. IsFiniteSet(1 .. N) /\ Cardinality(1 .. N) = N
    BY FS_Interval
  <2> QED BY <2>1, <2>4, <2>5, <2>6, SameSize
<1>6. ASSUME NEW i \in DOMAIN n.ties
      PROVE  /\ {n.ties[i].from, n.ties[i].to} \subseteq DOMAIN n.label
             /\ KeyOf(n.directed, Ends(n, n.ties[i])[1], Ends(n, n.ties[i])[2]) \in DOMAIN G
             /\ G[KeyOf(n.directed, Ends(n, n.ties[i])[1], Ends(n, n.ties[i])[2])] = n.ties[i].payload
  <2>1. i \in 1 .. Len(n.ties) /\ n.ties[i].from \in DOMAIN n.label /\ n.ties[i].to \in DOMAIN n.label
    BY <1>2, PlacedSlots
  <2>2. KeyOf(n.directed, Ends(n, n.ties[i])[1], Ends(n, n.ties[i])[2]) = TieKey(n, n.ties[i])
    BY DEF Ends, TieKey
  <2>3. TieKey(n, n.ties[i]) \in DOMAIN G /\ G[TieKey(n, n.ties[i])] = n.ties[i].payload
    BY <1>2, <2>1 DEF Shows, Keeps
  <2> QED BY <2>1, <2>2, <2>3
<1> QED BY <1>1, <1>2, <1>3, <1>4, <1>5, <1>6, KeyIs DEF TiesAreOfMembers

(* Whatever is called, the network shows the graph that the calls describe.  *)
THEOREM NetworkShowsCalls == NetSpec => []NetInv
<1>1. NetInit => NetInv
  BY InitNet
<1>2. NetInv /\ [NetNext]_nvars => NetInv'
  BY NetStep
<1> QED BY <1>1, <1>2, PTL DEF NetSpec

(* Slots are reused and networks reloaded without a tie of an agent that left. *)
THEOREM TiesAreMembers == NetSpec => []TiesAreOfMembers
<1>1. NetInv => TiesAreOfMembers
  BY MembersOfNet
<1> QED BY <1>1, NetworkShowsCalls, PTL

-----------------------------------------------------------------------------
(* Breadth first from a slot: what is found is the least set with the slot that *)
(* nothing leads out of.                                                        *)
ClosedUnder(S, next) == \A u \in S : next[u] \subseteq S
Spans(L, next, start, R) ==
  /\ start \in R /\ R \subseteq L /\ ClosedUnder(R, next)
  /\ \A S \in SUBSET L : start \in S /\ ClosedUnder(S, next) => R \subseteq S
SearchRound(k, h, next) ==
  LET new == (UNION {next[u] : u \in {v \in DOMAIN h : h[v] = k - 1}}) \ DOMAIN h
  IN  [v \in DOMAIN h \cup new |-> IF v \in new THEN k ELSE h[v]]
(* AfterRounds k rounds: the slots found, which every closed set has; what an earlier *)
(* round found leads nowhere else; and there were new slots in every round or   *)
(* there are none left.                                                         *)
AfterRounds(k, h, L, next, start) ==
  /\ DOMAIN h \subseteq L /\ start \in DOMAIN h
  /\ \A u \in DOMAIN h : h[u] \in 0 .. k
  /\ \A u \in DOMAIN h : h[u] < k => next[u] \subseteq DOMAIN h
  /\ \A S \in SUBSET L : start \in S /\ ClosedUnder(S, next) => DOMAIN h \subseteq S
  /\ (\A u \in DOMAIN h : h[u] < k) \/ Cardinality(DOMAIN h) >= k + 1

Rounds(g, N, start, next) ==
  g = [k \in 0 .. N |-> IF k = 0 THEN [v \in {start} |-> 0] ELSE SearchRound(k, g[k - 1], next)]
LEMMA RoundsExist ==
  ASSUME NEW start, NEW next
  PROVE  \A N \in Nat : \E g : Rounds(g, N, start, next)
<1> DEFINE x == [v \in {start} |-> 0]
           B(k, h) == SearchRound(k, h, next)
           Is(g, N) == g = [k \in 0 .. N |-> IF k = 0 THEN x ELSE B(k, g[k - 1])]
           T == {m \in Nat : \E g : Is(g, m)}
<1> HIDE DEF B, x
<1>1. 0 \in T
  <2>1. Is([k \in 0 .. 0 |-> x], 0)
    OBVIOUS
  <2> QED BY <2>1
<1>2. ASSUME NEW m \in Nat, m \in T PROVE m + 1 \in T
  <2>1. PICK g : Is(g, m)
    BY <1>2
  <2> DEFINE h == [k \in 0 .. m + 1 |-> IF k = m + 1 THEN B(m + 1, g[m]) ELSE g[k]]
  <2>2. Is(h, m + 1)
    <3>1. ASSUME NEW k \in 0 .. m + 1 PROVE h[k] = IF k = 0 THEN x ELSE B(k, h[k - 1])
      <4>1. CASE k = m + 1
        <5>1. m \in 0 .. m + 1 /\ m # m + 1 /\ k - 1 = m /\ k # 0
          BY <4>1
        <5> QED BY <4>1, <5>1
      <4>2. CASE k # m + 1 /\ k # 0
        <5>1. k \in 0 .. m /\ k - 1 \in 0 .. m + 1 /\ k - 1 # m + 1
          BY <4>2
        <5>2. g[k] = B(k, g[k - 1])
          BY <2>1, <4>2, <5>1
        <5> QED BY <4>2, <5>1, <5>2
      <4>3. CASE k = 0
        <5>1. 0 \in 0 .. m /\ 0 # m + 1
          OBVIOUS
        <5>2. g[0] = x
          BY <2>1, <5>1
        <5> QED BY <4>3, <5>1, <5>2
      <4> QED BY <4>1, <4>2, <4>3
    <3>2. h = [k \in 0 .. m + 1 |-> h[k]]
      OBVIOUS
    <3> HIDE DEF h
    <3> QED BY <3>1, <3>2
  <2> HIDE DEF Is, h
  <2> QED BY <2>2
<1>3. Nat \subseteq T
  <2> HIDE DEF T
  <2> QED BY <1>1, <1>2, Induct
<1>4. \A g, N : Is(g, N) <=> Rounds(g, N, start, next)
  BY DEF x, B, Rounds
<1> HIDE DEF Is
<1> QED BY <1>3, <1>4

LEMMA RoundAfter ==
  ASSUME NEW L, IsFiniteSet(L), NEW next \in [L -> SUBSET L], NEW start \in L,
         NEW k \in Nat, NEW h, AfterRounds(k, h, L, next, start)
  PROVE  AfterRounds(k + 1, SearchRound(k + 1, h, next), L, next, start)
<1>1. PICK new : new = (UNION {next[u] : u \in {v \in DOMAIN h : h[v] = k}}) \ DOMAIN h
  OBVIOUS
<1>0. \A y : y \in new <=> y \notin DOMAIN h /\ \E u \in DOMAIN h : h[u] = k /\ y \in next[u]
  <2>1. PICK Z : Z = {v \in DOMAIN h : h[v] = k}
    OBVIOUS
  <2>2. new = (UNION {next[u] : u \in Z}) \ DOMAIN h
    BY <1>1, <2>1
  <2>3. \A y : y \in new <=> y \notin DOMAIN h /\ \E u \in Z : y \in next[u]
    <3>1. PICK U : U = {next[u] : u \in Z}
      OBVIOUS
    <3>2. \A y : y \in new <=> y \notin DOMAIN h /\ \E s \in U : y \in s
      <4>1. new = (UNION U) \ DOMAIN h
        BY <2>2, <3>1
      <4> QED BY <4>1, Zenon
    <3>3. \A y : (\E s \in U : y \in s) <=> \E u \in Z : y \in next[u]
      BY <3>1
    <3> QED BY <3>2, <3>3
  <2> QED BY <2>1, <2>3
<1>2. (k + 1) - 1 = k
  OBVIOUS
<1>3. PICK H : H = SearchRound(k + 1, h, next)
  OBVIOUS
<1>4. H = [v \in DOMAIN h \cup new |-> IF v \in new THEN k + 1 ELSE h[v]]
  BY <1>1, <1>2, <1>3 DEF SearchRound
<1>5. /\ DOMAIN h \subseteq L /\ start \in DOMAIN h
      /\ \A u \in DOMAIN h : h[u] \in 0 .. k
      /\ \A u \in DOMAIN h : h[u] < k => next[u] \subseteq DOMAIN h
      /\ \A S \in SUBSET L : start \in S /\ ClosedUnder(S, next) => DOMAIN h \subseteq S
      /\ (\A u \in DOMAIN h : h[u] < k) \/ Cardinality(DOMAIN h) >= k + 1
  BY DEF AfterRounds
<1>6. new \subseteq L /\ new \cap DOMAIN h = {} /\ DOMAIN H = DOMAIN h \cup new
  <2>1. \A u \in DOMAIN h : next[u] \subseteq L
    BY <1>5
  <2>2. new \subseteq L /\ new \cap DOMAIN h = {}
    BY <1>0, <2>1
  <2> QED BY <1>4, <2>2
<1>7. (\A u \in DOMAIN h : H[u] = h[u]) /\ \A u \in new : H[u] = k + 1
  BY <1>4, <1>6
<1>8. \A u \in DOMAIN H : H[u] \in 0 .. k + 1
  BY <1>5, <1>6, <1>7
<1>9. ASSUME NEW u \in DOMAIN H, H[u] < k + 1 PROVE next[u] \subseteq DOMAIN H
  <2>1. u \in DOMAIN h /\ h[u] \in 0 .. k
    BY <1>5, <1>6, <1>7, <1>9
  <2>2. CASE h[u] = k
    <3>1. next[u] \ DOMAIN h \subseteq new
      BY <1>0, <2>1, <2>2
    <3> QED BY <1>6, <3>1
  <2>3. CASE h[u] # k
    BY <1>5, <1>6, <2>1, <2>3
  <2> QED BY <2>2, <2>3
<1>10. ASSUME NEW S \in SUBSET L, start \in S, ClosedUnder(S, next) PROVE DOMAIN H \subseteq S
  <2>1. DOMAIN h \subseteq S
    BY <1>5, <1>10
  <2>2. new \subseteq S
    BY <1>0, <1>10, <2>1 DEF ClosedUnder
  <2> QED BY <1>6, <2>1, <2>2
<1>11. (\A u \in DOMAIN H : H[u] < k + 1) \/ Cardinality(DOMAIN H) >= (k + 1) + 1
  <2>1. CASE new = {}
    BY <1>5, <1>6, <1>7, <2>1
  <2>2. CASE new # {}
    <3>1. PICK x : x \in new
      BY <2>2
    <3>2. ~\A u \in DOMAIN h : h[u] < k
      BY <1>0, <3>1
    <3>3. Cardinality(DOMAIN h) >= k + 1
      BY <1>5, <3>2
    <3>4. IsFiniteSet(DOMAIN h) /\ IsFiniteSet(DOMAIN H)
      BY <1>5, <1>6, FS_Subset
    <3>5. Cardinality(DOMAIN h \cup {x}) = Cardinality(DOMAIN h) + 1
      BY <1>6, <3>1, <3>4, FS_AddElement
    <3>6. Cardinality(DOMAIN h \cup {x}) <= Cardinality(DOMAIN H)
      BY <1>6, <3>1, <3>4, FS_Subset
    <3>7. Cardinality(DOMAIN h) \in Nat /\ Cardinality(DOMAIN H) \in Nat
      BY <3>4, FS_CardinalityType
    <3> QED BY <3>3, <3>5, <3>6, <3>7
  <2> QED BY <2>1, <2>2
<1>12. DOMAIN H \subseteq L /\ start \in DOMAIN H
  BY <1>5, <1>6
<1>13. AfterRounds(k + 1, H, L, next, start)
  BY <1>8, <1>9, <1>10, <1>11, <1>12 DEF AfterRounds
<1> QED BY <1>3, <1>13

LEMMA SearchSpans ==
  ASSUME NEW n, NEW L, L = DOMAIN n.label, IsFiniteSet(L), NEW next \in [L -> SUBSET L], NEW start \in L
  PROVE  Spans(L, next, start, Spread(n, start, next))
<1> DEFINE x == [v \in {start} |-> 0]
<1>1. PICK N \in Nat : N = Cardinality(L)
  BY FS_CardinalityType
<1>2. PICK g : g = (CHOOSE f : Rounds(f, N, start, next))
  OBVIOUS
<1>3. Rounds(g, N, start, next)
  BY <1>2, RoundsExist
<1>4. Search(n, start, next) = g[N]
  BY <1>1, <1>2 DEF Search, SearchRound, Rounds
<1>5. g[0] = x /\ \A k \in 1 .. N : g[k] = SearchRound(k, g[k - 1], next)
  <2>1. 0 \in 0 .. N /\ \A k \in 1 .. N : k \in 0 .. N /\ k # 0
    OBVIOUS
  <2> QED BY <1>3, <2>1 DEF Rounds
<1> DEFINE T == {k \in Nat : k <= N => AfterRounds(k, g[k], L, next, start)}
<1>6. 0 \in T
  <2>1. DOMAIN x = {start} /\ x[start] = 0
    OBVIOUS
  <2>2. Cardinality({start}) = 1
    BY FS_Singleton
  <2>3. AfterRounds(0, x, L, next, start)
    <3> HIDE DEF x
    <3> QED BY <2>1, <2>2 DEF AfterRounds
  <2> QED BY <1>5, <2>3
<1>7. ASSUME NEW k \in Nat, k \in T PROVE k + 1 \in T
  <2>1. SUFFICES ASSUME k + 1 <= N PROVE AfterRounds(k + 1, g[k + 1], L, next, start)
    OBVIOUS
  <2>2. k <= N /\ k + 1 \in 1 .. N /\ (k + 1) - 1 = k
    BY <2>1
  <2>3. AfterRounds(k, g[k], L, next, start) /\ g[k + 1] = SearchRound(k + 1, g[k], next)
    BY <1>5, <1>7, <2>2
  <2> QED BY <2>3, RoundAfter
<1>8. AfterRounds(N, g[N], L, next, start)
  <2>1. Nat \subseteq T
    <3> HIDE DEF T
    <3> QED BY <1>6, <1>7, Induct
  <2> QED BY <2>1
<1>9. PICK h, R : h = g[N] /\ R = DOMAIN h
  OBVIOUS
<1>10. R \subseteq L /\ start \in R
  BY <1>8, <1>9 DEF AfterRounds
<1>11. ClosedUnder(R, next)
  <2>1. Cardinality(R) <= N
    BY <1>1, <1>10, FS_Subset
  <2>2. Cardinality(R) \in Nat
    BY <1>10, FS_Subset, FS_CardinalityType
  <2>3. \A u \in R : h[u] < N
    BY <1>8, <1>9, <2>1, <2>2 DEF AfterRounds
  <2> QED BY <1>8, <1>9, <2>3 DEF AfterRounds, ClosedUnder
<1>12. \A S \in SUBSET L : start \in S /\ ClosedUnder(S, next) => R \subseteq S
  BY <1>8, <1>9 DEF AfterRounds
<1>13. Spread(n, start, next) = R
  BY <1>4, <1>9 DEF Spread
<1> QED BY <1>10, <1>11, <1>12, <1>13 DEF Spans

-----------------------------------------------------------------------------
(* Where ties lead, and the sets of agents that none leaves.  *)
LEMMA SuccessorsAre ==
  ASSUME NEW n, NEW u, NEW v
  PROVE  /\ v \in Successors(n, u) <=> \E e \in ToSet(n.ties) : \/ e.from = u /\ e.to = v
                                                                \/ ~n.directed /\ e.to = u /\ e.from = v
         /\ v \in Predecessors(n, u) <=> \E e \in ToSet(n.ties) : \/ e.to = u /\ e.from = v
                                                                  \/ ~n.directed /\ e.from = u /\ e.to = v
         /\ v \in Either(n, u) <=> /\ \E e \in ToSet(n.ties) : \/ e.from = u /\ e.to = v
                                                               \/ e.to = u /\ e.from = v
                                   /\ n.directed => v # u
<1>1. PICK E : E = ToSet(n.ties)
  OBVIOUS
<1>2. v \in {e.to : e \in {d \in E : d.from = u}} <=> \E e \in E : e.from = u /\ e.to = v
  OBVIOUS
<1>3. v \in {e.from : e \in {d \in E : d.to = u}} <=> \E e \in E : e.to = u /\ e.from = v
  OBVIOUS
<1>4. v \in Successors(n, u) <=> \E e \in E : \/ e.from = u /\ e.to = v
                                              \/ ~n.directed /\ e.to = u /\ e.from = v
  BY <1>1, <1>2, <1>3 DEF Successors
<1>5. v \in Predecessors(n, u) <=> \E e \in E : \/ e.to = u /\ e.from = v
                                                \/ ~n.directed /\ e.from = u /\ e.to = v
  BY <1>1, <1>2, <1>3 DEF Predecessors
<1>6. v \in Either(n, u) <=> (v \in Successors(n, u) \/ v \in Predecessors(n, u)) /\ (n.directed => v # u)
  BY DEF Either
<1>7. v \in Either(n, u) <=> /\ \E e \in E : \/ e.from = u /\ e.to = v
                                             \/ e.to = u /\ e.from = v
                             /\ n.directed => v # u
  BY <1>4, <1>5, <1>6
<1> QED BY <1>1, <1>4, <1>5, <1>7

LEMMA TieSet ==
  ASSUME NEW n, Standing(n)
  PROVE  /\ \A i \in 1 .. Len(n.ties) : n.ties[i] \in ToSet(n.ties)
         /\ \A e \in ToSet(n.ties) : /\ \E i \in 1 .. Len(n.ties) : e = n.ties[i]
                                     /\ e.from \in DOMAIN n.label /\ e.to \in DOMAIN n.label /\ e.payload \in Payload
<1>1. ToSet(n.ties) = {n.ties[i] : i \in 1 .. Len(n.ties)}
  BY PlacedSlots DEF ToSet
<1> QED BY <1>1, PlacedSlots

LEMMA LeadsToSlots ==
  ASSUME NEW n, Standing(n), NEW u
  PROVE  Successors(n, u) \subseteq DOMAIN n.label /\ Either(n, u) \subseteq DOMAIN n.label
<1>1. ASSUME NEW v \in Successors(n, u) PROVE v \in DOMAIN n.label
  BY SuccessorsAre, TieSet
<1>2. ASSUME NEW v \in Either(n, u) PROVE v \in DOMAIN n.label
  BY SuccessorsAre, TieSet
<1> QED BY <1>1, <1>2

(* The agents of some slots. *)
AgentsAt(n, T) == {n.label[s] : s \in T}
LEMMA AgentsOf ==
  ASSUME NEW n, Standing(n), NEW T, T \subseteq DOMAIN n.label
  PROVE  /\ AgentsAt(n, T) \subseteq DOMAIN n.index
         /\ \A s \in DOMAIN n.label : n.label[s] \in AgentsAt(n, T) <=> s \in T
<1>1. \A s \in DOMAIN n.label : n.label[s] \in DOMAIN n.index
  BY PlacedSlots
<1>2. \A s, t \in DOMAIN n.label : n.label[s] = n.label[t] => s = t
  BY PlacedSlots
<1> QED BY <1>1, <1>2 DEF AgentsAt

LEMMA SlotsOf ==
  ASSUME NEW n, Standing(n), NEW S, S \subseteq DOMAIN n.index
  PROVE  \E T : T \subseteq DOMAIN n.label /\ S = AgentsAt(n, T)
<1>1. PICK T : T = {n.index[a] : a \in S}
  OBVIOUS
<1>2. \A a \in S : n.index[a] \in DOMAIN n.label /\ n.label[n.index[a]] = a
  BY DEF Standing
<1>3. T \subseteq DOMAIN n.label
  BY <1>1, <1>2
<1>4. S = AgentsAt(n, T)
  <2>1. \A a \in S : a \in AgentsAt(n, T)
    BY <1>1, <1>2 DEF AgentsAt
  <2>2. \A a \in AgentsAt(n, T) : a \in S
    BY <1>1, <1>2 DEF AgentsAt
  <2> QED BY <2>1, <2>2
<1> QED BY <1>3, <1>4

(* What a search finds is what no set that is closed separates from the start. *)
Parts(n, next, sets) ==
  /\ next \in [DOMAIN n.label -> SUBSET DOMAIN n.label] /\ sets \subseteq SUBSET DOMAIN n.index
  /\ \A T \in SUBSET DOMAIN n.label : ClosedUnder(T, next) <=> AgentsAt(n, T) \in sets
SplitBy(sets, a, b) == \E S \in sets : a \in S /\ b \notin S
LEMMA FoundUnlessSeparated ==
  ASSUME NEW n, Standing(n), NEW next, NEW sets, Parts(n, next, sets), NEW u \in DOMAIN n.label, NEW v \in DOMAIN n.label
  PROVE  v \in Spread(n, u, next) <=> ~SplitBy(sets, n.label[u], n.label[v])
<1>1. PICK L : L = DOMAIN n.label
  OBVIOUS
<1>2. IsFiniteSet(L) /\ next \in [L -> SUBSET L]
  BY <1>1 DEF Standing, Parts
<1>3. PICK R : R = Spread(n, u, next)
  OBVIOUS
<1>4. Spans(L, next, u, R)
  BY <1>1, <1>2, <1>3, SearchSpans
<1>5. u \in R /\ R \subseteq L /\ ClosedUnder(R, next)
  BY <1>4 DEF Spans
<1>6. ASSUME v \in R, NEW S \in sets, n.label[u] \in S PROVE n.label[v] \in S
  <2>1. S \subseteq DOMAIN n.index
    BY DEF Parts
  <2>2. PICK T \in SUBSET L : S = AgentsAt(n, T)
    BY <1>1, <2>1, SlotsOf
  <2>3. u \in T /\ ClosedUnder(T, next)
    BY <1>1, <1>6, <2>2, AgentsOf DEF Parts
  <2>4. v \in T
    BY <1>4, <1>6, <2>3 DEF Spans
  <2> QED BY <1>1, <2>2, <2>4, AgentsOf
<1>7. ASSUME \A S \in sets : n.label[u] \in S => n.label[v] \in S PROVE v \in R
  <2>1. AgentsAt(n, R) \in sets
    BY <1>1, <1>5 DEF Parts
  <2>2. n.label[u] \in AgentsAt(n, R)
    BY <1>1, <1>5, AgentsOf
  <2>3. n.label[v] \in AgentsAt(n, R)
    BY <1>7, <2>1, <2>2
  <2> QED BY <1>1, <1>5, <2>3, AgentsOf
<1> QED BY <1>3, <1>6, <1>7 DEF SplitBy

(* A set of slots is closed when no tie leaves the set of their agents. *)
LEMMA SeparatesIs ==
  ASSUME NEW n, Standing(n), NEW directed, NEW m, m.ties = n.ties, m.label = n.label, m.directed = directed,
         NEW allowed, NEW T, T \subseteq DOMAIN n.label
  PROVE  Separates(m, AgentsAt(n, T), allowed) <=>
           \A e \in ToSet(n.ties) : e.payload \in allowed => /\ e.from \in T => e.to \in T
                                                             /\ ~directed => (e.to \in T => e.from \in T)
<1>1. PICK S : S = AgentsAt(n, T)
  OBVIOUS
<1>2. \A e \in ToSet(n.ties) : /\ Ends(m, e)[1] \in S <=> e.from \in T
                               /\ Ends(m, e)[2] \in S <=> e.to \in T
  BY <1>1, TieSet, AgentsOf DEF Ends
<1>3. Separates(m, S, allowed) <=>
        \A e \in ToSet(n.ties) : e.payload \in allowed => /\ Ends(m, e)[1] \in S => Ends(m, e)[2] \in S
                                                          /\ ~directed => (Ends(m, e)[2] \in S => Ends(m, e)[1] \in S)
  <2>1. DOMAIN m.ties = 1 .. Len(n.ties)
    BY PlacedSlots
  <2> QED BY <2>1, TieSet DEF Separates
<1> QED BY <1>1, <1>2, <1>3

LEMMA AllowedParts ==
  ASSUME NEW n, Standing(n), NEW allowed, NEW m, m.label = n.label, m.directed = n.directed,
         ToSet(m.ties) = {e \in ToSet(n.ties) : e.payload \in allowed},
         NEW next, next = [u \in DOMAIN n.label |-> Successors(m, u)]
  PROVE  Parts(n, next, {S \in SUBSET DOMAIN n.index : Separates(n, S, allowed)})
<1>1. \A u, v : v \in Successors(m, u) <=>
        \E e \in ToSet(n.ties) : /\ e.payload \in allowed
                                 /\ \/ e.from = u /\ e.to = v
                                    \/ ~n.directed /\ e.to = u /\ e.from = v
  <2> SUFFICES ASSUME NEW u, NEW v
               PROVE  v \in Successors(m, u) <=>
                        \E e \in ToSet(n.ties) : /\ e.payload \in allowed
                                                 /\ \/ e.from = u /\ e.to = v
                                                    \/ ~n.directed /\ e.to = u /\ e.from = v
    OBVIOUS
  <2>1. v \in Successors(m, u) <=> \E e \in ToSet(m.ties) : \/ e.from = u /\ e.to = v
                                                            \/ ~m.directed /\ e.to = u /\ e.from = v
    BY SuccessorsAre
  <2> QED BY <2>1
<1>2. next \in [DOMAIN n.label -> SUBSET DOMAIN n.label]
  <2>1. \A u \in DOMAIN n.label : Successors(m, u) \subseteq DOMAIN n.label
    BY <1>1, TieSet
  <2> QED BY <2>1
<1>3. ASSUME NEW T \in SUBSET DOMAIN n.label
      PROVE  ClosedUnder(T, next) <=> AgentsAt(n, T) \in {S \in SUBSET DOMAIN n.index : Separates(n, S, allowed)}
  <2>1. ClosedUnder(T, next) <=> \A u \in T : \A v : v \in Successors(m, u) => v \in T
    BY DEF ClosedUnder
  <2>2. Separates(n, AgentsAt(n, T), allowed) <=>
           \A e \in ToSet(n.ties) : e.payload \in allowed => /\ e.from \in T => e.to \in T
                                                             /\ ~n.directed => (e.to \in T => e.from \in T)
    BY SeparatesIs
  <2>3. ClosedUnder(T, next) <=> Separates(n, AgentsAt(n, T), allowed)
    BY <1>1, <2>1, <2>2
  <2> QED BY <2>3, AgentsOf
<1> QED BY <1>2, <1>3 DEF Parts

LEMMA ReachableIs ==
  ASSUME NEW n, Standing(n), NEW allowed, NEW a \in DOMAIN n.index
  PROVE  ReachableFrom(n, a, allowed)
           = {b \in DOMAIN n.index : \A S \in {S \in SUBSET DOMAIN n.index : Separates(n, S, allowed)} : a \in S => b \in S}
<1>1. PICK kept : kept = {e \in ToSet(n.ties) : e.payload \in allowed}
  OBVIOUS
<1>2. PICK m : m = [n EXCEPT !.ties = Retained(n.ties, kept)]
  OBVIOUS
<1>3. PICK next : next = [u \in DOMAIN n.label |-> Successors(m, u)]
  OBVIOUS
<1>4. m.label = n.label /\ m.directed = n.directed /\ m.ties = Retained(n.ties, kept)
  BY <1>2 DEF Standing
<1>5. ToSet(m.ties) = kept
  <2>1. n.ties \in Seq(TieOf(DOMAIN n.label))
    BY DEF Standing
  <2>2. m.ties \in Seq(TieOf(DOMAIN n.label)) /\ Thinned(m.ties, n.ties, {k \in 1 .. Len(n.ties) : n.ties[k] \in kept})
    BY <1>4, <2>1, RetainedIs
  <2>3. PICK f \in [1 .. Len(m.ties) -> {k \in 1 .. Len(n.ties) : n.ties[k] \in kept}] :
          /\ \A i \in 1 .. Len(m.ties) : m.ties[i] = n.ties[f[i]]
          /\ \A k \in {k \in 1 .. Len(n.ties) : n.ties[k] \in kept} : \E i \in 1 .. Len(m.ties) : f[i] = k
    BY <2>2 DEF Thinned
  <2>4. ToSet(m.ties) = {m.ties[i] : i \in 1 .. Len(m.ties)}
    BY <2>2 DEF ToSet
  <2>5. ToSet(m.ties) \subseteq kept
    BY <2>3, <2>4
  <2>6. ASSUME NEW e \in kept PROVE e \in ToSet(m.ties)
    <3>1. PICK k \in 1 .. Len(n.ties) : e = n.ties[k]
      BY <1>1, TieSet
    <3>2. PICK i \in 1 .. Len(m.ties) : f[i] = k
      BY <2>3, <3>1
    <3> QED BY <2>3, <2>4, <3>1, <3>2
  <2> QED BY <2>5, <2>6
<1>6. PICK sets : sets = {S \in SUBSET DOMAIN n.index : Separates(n, S, allowed)}
  OBVIOUS
<1>7. Parts(n, next, sets)
  BY <1>1, <1>3, <1>4, <1>5, <1>6, AllowedParts
<1>8. PICK s : s = n.index[a]
  OBVIOUS
<1>9. s \in DOMAIN n.label /\ n.label[s] = a
  BY <1>8 DEF Standing
<1>10. ReachableFrom(n, a, allowed) = {n.label[t] : t \in Spread(n, s, next)}
  BY <1>1, <1>2, <1>3, <1>8 DEF ReachableFrom
<1>11. \A t \in DOMAIN n.label : t \in Spread(n, s, next) <=> \A S \in sets : a \in S => n.label[t] \in S
  <2>1. \A t \in DOMAIN n.label : t \in Spread(n, s, next) <=> ~SplitBy(sets, n.label[s], n.label[t])
    BY <1>7, <1>9, FoundUnlessSeparated
  <2> QED BY <1>9, <2>1 DEF SplitBy
<1>12. Spread(n, s, next) \subseteq DOMAIN n.label
  <2>1. Spans(DOMAIN n.label, next, s, Spread(n, s, next))
    BY <1>7, <1>9, SearchSpans DEF Parts, Standing
  <2> QED BY <2>1 DEF Spans
<1>13. \A b \in DOMAIN n.index : n.index[b] \in DOMAIN n.label /\ n.label[n.index[b]] = b
  BY DEF Standing
<1>14. \A t \in DOMAIN n.label : n.label[t] \in DOMAIN n.index
  BY PlacedSlots
<1>15. PICK R, Q : R = {n.label[t] : t \in Spread(n, s, next)} /\ Q = {b \in DOMAIN n.index : \A S \in sets : a \in S => b \in S}
  OBVIOUS
<1>16. R \subseteq Q
  BY <1>11, <1>12, <1>14, <1>15
<1>17. ASSUME NEW b \in Q PROVE b \in R
  <2>1. b \in DOMAIN n.index /\ \A S \in sets : a \in S => b \in S
    BY <1>15
  <2>2. n.index[b] \in Spread(n, s, next)
    BY <1>11, <1>13, <2>1
  <2> QED BY <1>13, <1>15, <2>1, <2>2
<1> QED BY <1>6, <1>10, <1>15, <1>16, <1>17

-----------------------------------------------------------------------------
(* Components: the classes of agents that no set separates, numbered by their *)
(* smallest agents.                                                           *)
LEMMA MinIs ==
  ASSUME NEW P, P \subseteq Nat, P # {}
  PROVE  Min(P) \in P /\ \A x \in P : Min(P) <= x
<1>1. \E x \in P : \A y \in P : x <= y
  BY Least
<1> QED BY <1>1 DEF Min

Classes(I, part) ==
  /\ part \in [I -> SUBSET I]
  /\ \A a \in I : a \in part[a]
  /\ \A a, b \in I : b \in part[a] => part[a] = part[b]
LabelsOf(I, part) ==
  LET parts == {part[a] : a \in I}
  IN  [a \in I |-> Cardinality({P \in parts : \E Q \in parts : a \in Q /\ Min(P) < Min(Q)})]
Labelled(I, part, comp) ==
  /\ \A a, b \in I : comp[a] = comp[b] <=> b \in part[a]
  /\ \A a, b \in I : a < b /\ comp[b] \notin {comp[c] : c \in {d \in I : d < b}} => comp[a] < comp[b]
  /\ Range(comp) = 0 .. Cardinality(Range(comp)) - 1
LEMMA ClassesLabelled ==
  ASSUME NEW I, I \subseteq Nat, IsFiniteSet(I), NEW part, Classes(I, part)
  PROVE  Labelled(I, part, LabelsOf(I, part))
<1>1. PICK parts : parts = {part[a] : a \in I}
  OBVIOUS
<1>2. PICK comp : comp = LabelsOf(I, part)
  OBVIOUS
<1>3. /\ \A a \in I : part[a] \in SUBSET I /\ a \in part[a] /\ part[a] \in parts
      /\ \A a, b \in I : b \in part[a] <=> part[a] = part[b]
  BY <1>1 DEF Classes
<1>4. IsFiniteSet(parts)
  BY <1>1, ImageFinite DEF Classes
<1>5. \A P \in parts : P \subseteq I /\ Min(P) \in P /\ Min(P) \in Nat /\ \A x \in P : Min(P) <= x
  <2> SUFFICES ASSUME NEW P \in parts PROVE P \subseteq I /\ Min(P) \in P /\ Min(P) \in Nat /\ \A x \in P : Min(P) <= x
    OBVIOUS
  <2>1. P \subseteq I /\ P # {}
    BY <1>1, <1>3
  <2>2. Min(P) \in P /\ \A x \in P : Min(P) <= x
    BY <2>1, MinIs
  <2> QED BY <2>1, <2>2
<1>6. \A P \in parts, a \in I : a \in P => P = part[a]
  BY <1>1, <1>3
<1>7. \A P, Q \in parts : Min(P) = Min(Q) => P = Q
  <2> SUFFICES ASSUME NEW P \in parts, NEW Q \in parts, Min(P) = Min(Q) PROVE P = Q
    OBVIOUS
  <2>1. PICK m : m = Min(P)
    OBVIOUS
  <2>2. m \in P /\ m \in Q /\ m \in I
    BY <1>5, <2>1
  <2> QED BY <1>6, <2>2
<1>8. PICK R : R = {p \in parts \X parts : Min(p[1]) < Min(p[2])}
  OBVIOUS
<1>9. \A P, Q \in parts : <<P, Q>> \in R <=> Min(P) < Min(Q)
  BY <1>8
<1>10. Orders(R, parts)
  <2>1. \A P \in parts : Min(P) \in Int
    BY <1>5
  <2> QED BY <1>7, <1>9, <2>1 DEF Orders
<1>11. ASSUME NEW a \in I PROVE comp[a] = RankIn(R, parts, part[a])
  <2>1. {P \in parts : \E Q \in parts : a \in Q /\ Min(P) < Min(Q)} = {P \in parts : <<P, part[a]>> \in R}
    BY <1>3, <1>6, <1>9
  <2>2. comp[a] = Cardinality({P \in parts : \E Q \in parts : a \in Q /\ Min(P) < Min(Q)})
    BY <1>1, <1>2 DEF LabelsOf
  <2> QED BY <2>1, <2>2 DEF RankIn
<1>12. DOMAIN comp = I
  BY <1>2 DEF LabelsOf
<1>13. PICK c \in Nat : c = Cardinality(parts)
  BY <1>4, FS_CardinalityType
<1>14. /\ \A P \in parts : RankIn(R, parts, P) \in 0 .. c - 1
       /\ \A P, Q \in parts : RankIn(R, parts, P) = RankIn(R, parts, Q) => P = Q
       /\ \A i \in 0 .. c - 1 : \E P \in parts : RankIn(R, parts, P) = i
  BY <1>4, <1>10, <1>13, RanksAll
<1>15. ASSUME NEW a \in I, NEW b \in I PROVE comp[a] = comp[b] <=> b \in part[a]
  <2>1. comp[a] = comp[b] <=> part[a] = part[b]
    BY <1>3, <1>11, <1>14
  <2> QED BY <1>3, <2>1
<1>16. ASSUME NEW a \in I, NEW b \in I, a < b, comp[b] \notin {comp[c2] : c2 \in {d \in I : d < b}} PROVE comp[a] < comp[b]
  <2>1. PICK m : m = Min(part[b])
    OBVIOUS
  <2>2. m \in part[b] /\ m \in I /\ m \in Nat /\ m <= b /\ a \in Nat /\ b \in Nat
    BY <1>3, <1>5, <2>1
  <2>3. comp[m] = comp[b]
    BY <1>15, <2>2
  <2>4. ~(m < b)
    BY <1>16, <2>2, <2>3
  <2>5. Min(part[a]) <= a /\ Min(part[a]) \in Nat
    BY <1>3, <1>5
  <2>6. Min(part[a]) < Min(part[b])
    BY <1>16, <2>1, <2>2, <2>4, <2>5
  <2>7. <<part[a], part[b]>> \in R
    BY <1>3, <1>9, <2>6
  <2>8. RankIn(R, parts, part[a]) < RankIn(R, parts, part[b])
    BY <1>3, <1>4, <1>10, <2>7, RanksRise
  <2> QED BY <1>11, <2>8
<1>17. Range(comp) = 0 .. c - 1
  <2>1. Range(comp) = {comp[a] : a \in I}
    BY <1>12 DEF Range
  <2>2. ASSUME NEW a \in I PROVE comp[a] \in 0 .. c - 1
    BY <1>3, <1>11, <1>14
  <2>3. ASSUME NEW i \in 0 .. c - 1 PROVE \E a \in I : comp[a] = i
    <3>1. PICK P \in parts : RankIn(R, parts, P) = i
      BY <1>14
    <3>2. PICK a \in I : P = part[a]
      BY <1>1
    <3> QED BY <1>11, <3>1, <3>2
  <2>4. \A i : i \in 0 .. c - 1 => i \in {comp[a] : a \in I}
    BY <2>3
  <2>5. \A i : i \in {comp[a] : a \in I} => i \in 0 .. c - 1
    BY <2>2
  <2> QED BY <2>1, <2>4, <2>5
<1>18. Cardinality(Range(comp)) = c
  <2>1. Cardinality(0 .. c - 1) = c
    BY FS_Interval
  <2> QED BY <1>17, <2>1
<1>19. \A a, b \in I : a < b /\ comp[b] \notin {comp[c2] : c2 \in {d \in I : d < b}} => comp[a] < comp[b]
  BY <1>16
<1>20. Labelled(I, part, comp)
  BY <1>15, <1>17, <1>18, <1>19 DEF Labelled
<1> QED BY <1>2, <1>20

LEMMA EitherParts ==
  ASSUME NEW n, Standing(n), NEW next, next = [u \in DOMAIN n.label |-> Either(n, u)],
         NEW sets, sets = {S \in SUBSET DOMAIN n.index : Separates([n EXCEPT !.directed = FALSE], S, Payload)}
  PROVE  Parts(n, next, sets) /\ \A S \in sets : DOMAIN n.index \ S \in sets
<1>1. PICK m : m = [n EXCEPT !.directed = FALSE]
  OBVIOUS
<1>2. m.ties = n.ties /\ m.label = n.label /\ m.directed = FALSE
  BY <1>1 DEF Standing
<1>3. next \in [DOMAIN n.label -> SUBSET DOMAIN n.label]
  BY LeadsToSlots
<1>4. ASSUME NEW T \in SUBSET DOMAIN n.label
      PROVE  AgentsAt(n, T) \in sets <=> \A e \in ToSet(n.ties) : e.from \in T <=> e.to \in T
  <2>1. Separates(m, AgentsAt(n, T), Payload) <=>
           \A e \in ToSet(n.ties) : e.payload \in Payload => /\ e.from \in T => e.to \in T
                                                             /\ ~FALSE => (e.to \in T => e.from \in T)
    BY <1>2, SeparatesIs
  <2>2. Separates(m, AgentsAt(n, T), Payload) <=> \A e \in ToSet(n.ties) : e.from \in T <=> e.to \in T
    BY <2>1, TieSet
  <2> QED BY <1>1, <2>2, AgentsOf
<1>5. ASSUME NEW T \in SUBSET DOMAIN n.label
      PROVE  ClosedUnder(T, next) <=> \A e \in ToSet(n.ties) : e.from \in T <=> e.to \in T
  <2>1. ClosedUnder(T, next) <=> \A u \in T : \A v : v \in Either(n, u) => v \in T
    BY DEF ClosedUnder
  <2>2. ASSUME ClosedUnder(T, next), NEW e \in ToSet(n.ties) PROVE e.from \in T <=> e.to \in T
    <3>1. \A u, v : ((e.from = u /\ e.to = v) \/ (e.to = u /\ e.from = v)) /\ u # v => v \in Either(n, u)
      BY SuccessorsAre
    <3> QED BY <2>1, <2>2, <3>1
  <2>3. ASSUME \A e \in ToSet(n.ties) : e.from \in T <=> e.to \in T, NEW u \in T, NEW v \in Either(n, u) PROVE v \in T
    <3>1. PICK e \in ToSet(n.ties) : (e.from = u /\ e.to = v) \/ (e.to = u /\ e.from = v)
      BY SuccessorsAre
    <3> QED BY <2>3, <3>1
  <2> QED BY <2>1, <2>2, <2>3
<1>6. Parts(n, next, sets)
  BY <1>3, <1>4, <1>5 DEF Parts
<1>7. ASSUME NEW S \in sets PROVE DOMAIN n.index \ S \in sets
  <2>1. PICK T \in SUBSET DOMAIN n.label : S = AgentsAt(n, T)
    BY SlotsOf
  <2>2. PICK U : U = DOMAIN n.label \ T
    OBVIOUS
  <2>3. U \in SUBSET DOMAIN n.label
    BY <2>2
  <2>4. \A e \in ToSet(n.ties) : e.from \in T <=> e.to \in T
    BY <1>4, <2>1
  <2>5. \A e \in ToSet(n.ties) : e.from \in U <=> e.to \in U
    BY <2>2, <2>4, TieSet
  <2>6. AgentsAt(n, U) \in sets
    BY <1>4, <2>3, <2>5
  <2>7. AgentsAt(n, U) = DOMAIN n.index \ S
    <3>1. \A a \in DOMAIN n.index : \E s \in DOMAIN n.label : n.label[s] = a
      BY DEF Standing
    <3>2. \A s \in DOMAIN n.label : n.label[s] \in DOMAIN n.index
      BY PlacedSlots
    <3>3. \A s \in DOMAIN n.label : (n.label[s] \in S <=> s \in T) /\ (n.label[s] \in AgentsAt(n, U) <=> s \in U)
      BY <2>1, <2>3, AgentsOf
    <3>4. AgentsAt(n, U) \subseteq DOMAIN n.index
      BY <2>3, AgentsOf
    <3>5. \A a \in DOMAIN n.index : a \in AgentsAt(n, U) <=> a \notin S
      BY <2>2, <3>1, <3>3
    <3> QED BY <3>4, <3>5
  <2> QED BY <2>6, <2>7
<1> QED BY <1>6, <1>7

Grouped(I, sets, comp) ==
  \E part : Labelled(I, part, comp) /\ \A a, b \in I : b \in part[a] <=> \A S \in sets : a \in S => b \in S
LEMMA ComponentsAre ==
  ASSUME NEW n, Standing(n), NEW sets, sets = {S \in SUBSET DOMAIN n.index : Separates([n EXCEPT !.directed = FALSE], S, Payload)}
  PROVE  Grouped(DOMAIN n.index, sets, ComponentMembership(n))
<1>1. PICK I, L : I = DOMAIN n.index /\ L = DOMAIN n.label
  OBVIOUS
<1>2. PICK next : next = [u \in L |-> Either(n, u)]
  OBVIOUS
<1>3. PICK reached : reached = [s \in L |-> Spread(n, s, next)]
  OBVIOUS
<1>4. PICK part : part = [a \in I |-> {n.label[s] : s \in reached[n.index[a]]}]
  OBVIOUS
<1>5. Parts(n, next, sets) /\ \A S \in sets : I \ S \in sets
  BY <1>1, <1>2, EitherParts
<1>6. \A a \in I : n.index[a] \in L /\ n.label[n.index[a]] = a
  BY <1>1 DEF Standing
<1>7. ASSUME NEW s \in L PROVE reached[s] \subseteq L
  <2>1. next \in [L -> SUBSET L] /\ IsFiniteSet(L)
    BY <1>1, <1>5 DEF Parts, Standing
  <2>2. Spans(L, next, s, Spread(n, s, next))
    BY <1>1, <2>1, SearchSpans
  <2> QED BY <1>3, <2>2 DEF Spans
<1>8. ASSUME NEW a \in I PROVE part[a] \subseteq I /\ \A b \in I : b \in part[a] <=> \A S \in sets : a \in S => b \in S
  <2>1. PICK u \in L : u = n.index[a] /\ n.label[u] = a
    BY <1>6
  <2>2. part[a] = {n.label[s] : s \in reached[u]}
    BY <1>4, <2>1
  <2>3. reached[u] \subseteq L /\ reached[u] = Spread(n, u, next)
    BY <1>3, <1>7
  <2>4. part[a] = AgentsAt(n, reached[u])
    BY <2>2 DEF AgentsAt
  <2>5. part[a] \subseteq I /\ \A s \in L : n.label[s] \in part[a] <=> s \in reached[u]
    BY <1>1, <2>3, <2>4, AgentsOf
  <2>6. ASSUME NEW b \in I PROVE b \in part[a] <=> \A S \in sets : a \in S => b \in S
    <3>1. PICK v \in L : v = n.index[b] /\ n.label[v] = b
      BY <1>6
    <3>2. v \in Spread(n, u, next) <=> \A S \in sets : n.label[u] \in S => n.label[v] \in S
      <4>1. v \in Spread(n, u, next) <=> ~SplitBy(sets, n.label[u], n.label[v])
        BY <1>1, <1>5, FoundUnlessSeparated
      <4> QED BY <4>1 DEF SplitBy
    <3> QED BY <2>1, <2>3, <2>5, <3>1, <3>2
  <2> QED BY <2>5, <2>6
<1>9. Classes(I, part)
  <2>1. part \in [I -> SUBSET I]
    BY <1>4, <1>8
  <2>2. \A a \in I : a \in part[a]
    BY <1>8
  <2>3. ASSUME NEW a \in I, NEW b \in I, b \in part[a] PROVE part[a] = part[b]
    <3>1. \A S \in sets : a \in S <=> b \in S
      <4> SUFFICES ASSUME NEW S \in sets PROVE a \in S <=> b \in S
        OBVIOUS
      <4>1. \A Q \in sets : a \in Q => b \in Q
        BY <1>8, <2>3
      <4>2. I \ S \in sets
        BY <1>5
      <4> QED BY <4>1, <4>2
    <3>2. \A c \in I : c \in part[a] <=> c \in part[b]
      BY <1>8, <3>1
    <3> QED BY <1>8, <3>2
  <2> QED BY <2>1, <2>2, <2>3 DEF Classes
<1>10. I \subseteq Nat /\ IsFiniteSet(I)
  BY <1>1, NetAssumption DEF Standing
<1>11. Labelled(I, part, LabelsOf(I, part))
  BY <1>9, <1>10, ClassesLabelled
<1>12. ComponentMembership(n) = LabelsOf(I, part)
  <2>1. ComponentMembership(n) = Numbered(n, reached)
    BY <1>1, <1>2, <1>3 DEF ComponentMembership
  <2>2. {{n.label[s] : s \in reached[n.index[a]]} : a \in DOMAIN n.index} = {part[a] : a \in I}
    BY <1>1, <1>4
  <2>3. PICK parts : parts = {part[a] : a \in I}
    OBVIOUS
  <2>4. LabelsOf(I, part) = [a \in I |-> Cardinality({P \in parts : \E Q \in parts : a \in Q /\ Min(P) < Min(Q)})]
    BY <2>3 DEF LabelsOf
  <2>5. Numbered(n, reached) = [a \in I |-> Cardinality({P \in parts : \E Q \in parts : a \in Q /\ Min(P) < Min(Q)})]
    BY <1>1, <2>2, <2>3 DEF Numbered
  <2> QED BY <2>1, <2>4, <2>5
<1>13. Labelled(DOMAIN n.index, part, ComponentMembership(n))
  BY <1>1, <1>11, <1>12
<1>14. \A a, b \in DOMAIN n.index : b \in part[a] <=> \A S \in sets : a \in S => b \in S
  BY <1>1, <1>8
<1> QED BY <1>13, <1>14 DEF Grouped

-----------------------------------------------------------------------------
(* Triangles of a network without loops. *)
LEMMA AdjacentIs ==
  ASSUME NEW n, Standing(n), NEW u, NEW v
  PROVE  Adjacent(n, u, v) <=> \E e \in ToSet(n.ties) : (e.from = u /\ e.to = v) \/ (e.to = u /\ e.from = v)
<1>1. DOMAIN n.ties = 1 .. Len(n.ties) /\ n.directed \in BOOLEAN
  BY PlacedSlots
<1>2. \A x, y : Found(n, x, y) # {} <=> \E e \in ToSet(n.ties) : Joins(n, e, x, y)
  BY <1>1, TieSet DEF Found
<1> QED BY <1>2 DEF Adjacent, Joins

LEMMA TouchIs ==
  ASSUME NEW n, Standing(n), Loopless(n)
  PROVE  /\ \A u, v : v \in Either(n, u) <=> Adjacent(n, u, v)
         /\ \A u, v : Adjacent(n, u, v) => u # v /\ Adjacent(n, v, u)
<1>1. \A e \in ToSet(n.ties) : e.from # e.to
  BY TieSet, PlacedSlots DEF Loopless
<1>2. ASSUME NEW u, NEW v PROVE v \in Either(n, u) <=> Adjacent(n, u, v)
  BY <1>1, AdjacentIs, SuccessorsAre
<1>3. ASSUME NEW u, NEW v, Adjacent(n, u, v) PROVE u # v /\ Adjacent(n, v, u)
  BY <1>1, <1>3, AdjacentIs
<1> QED BY <1>2, <1>3

LEMMA ThirdOf ==
  ASSUME NEW T, IsFiniteSet(T), Cardinality(T) = 3, NEW a \in T, NEW b \in T, a # b
  PROVE  \E c \in T : c # a /\ c # b /\ T = {a, b, c}
<1>1. PICK U : U = T \ {a}
  OBVIOUS
<1>2. IsFiniteSet(U) /\ Cardinality(U) = 2
  BY <1>1, FS_RemoveElement
<1>3. PICK V : V = U \ {b}
  OBVIOUS
<1>4. IsFiniteSet(V) /\ Cardinality(V) = 1
  BY <1>1, <1>2, <1>3, FS_RemoveElement
<1>5. PICK c : V = {c}
  BY <1>4, FS_Singleton
<1> QED BY <1>1, <1>3, <1>5

LEMMA ThreeAre ==
  ASSUME NEW a, NEW b, NEW c, a # b, a # c, b # c
  PROVE  IsFiniteSet({a, b, c}) /\ Cardinality({a, b, c}) = 3
<1>1. IsFiniteSet({a}) /\ Cardinality({a}) = 1
  BY FS_Singleton
<1>2. IsFiniteSet({a} \cup {b}) /\ Cardinality({a} \cup {b}) = 2
  BY <1>1, FS_AddElement
<1>3. IsFiniteSet(({a} \cup {b}) \cup {c}) /\ Cardinality(({a} \cup {b}) \cup {c}) = 3
  BY <1>2, FS_AddElement
<1>4. ({a} \cup {b}) \cup {c} = {a, b, c}
  OBVIOUS
<1> QED BY <1>3, <1>4

Triangles(n) == {T \in SUBSET DOMAIN n.index : Cardinality(T) = 3 /\ \A a, b \in T : a # b => Touch(n, a, b)}
LEMMA TrianglesWith ==
  ASSUME NEW n, Standing(n), Loopless(n), NEW a \in DOMAIN n.index, NEW b \in DOMAIN n.index, a # b
  PROVE  /\ \A c \in DOMAIN n.index : Touch(n, a, b) /\ Touch(n, a, c) /\ Touch(n, b, c) => {a, b, c} \in Triangles(n)
         /\ \A T \in Triangles(n) : a \in T /\ b \in T =>
              \E c \in DOMAIN n.index : /\ c # a /\ c # b /\ T = {a, b, c}
                                        /\ Touch(n, a, b) /\ Touch(n, a, c) /\ Touch(n, b, c)
<1>1. \A x, y : Touch(n, x, y) => x # y /\ Touch(n, y, x)
  BY TouchIs DEF Touch
<1>2. ASSUME NEW c \in DOMAIN n.index, Touch(n, a, b), Touch(n, a, c), Touch(n, b, c) PROVE {a, b, c} \in Triangles(n)
  <2>1. a # b /\ a # c /\ b # c
    BY <1>1, <1>2
  <2>2. Cardinality({a, b, c}) = 3
    BY <2>1, ThreeAre
  <2>3. \A x, y \in {a, b, c} : x # y => Touch(n, x, y)
    BY <1>1, <1>2
  <2> QED BY <2>2, <2>3 DEF Triangles
<1>3. ASSUME NEW T \in Triangles(n), a \in T, b \in T
      PROVE  \E c \in DOMAIN n.index : /\ c # a /\ c # b /\ T = {a, b, c}
                                       /\ Touch(n, a, b) /\ Touch(n, a, c) /\ Touch(n, b, c)
  <2>1. T \subseteq DOMAIN n.index /\ Cardinality(T) = 3 /\ \A x, y \in T : x # y => Touch(n, x, y)
    BY DEF Triangles
  <2>2. IsFiniteSet(T)
    BY <2>1, FS_Subset DEF Standing
  <2>3. PICK c \in T : c # a /\ c # b /\ T = {a, b, c}
    BY <1>3, <2>1, <2>2, ThirdOf
  <2> QED BY <1>3, <2>1, <2>3
<1> QED BY <1>2, <1>3

LEMMA BridgesAre ==
  ASSUME NEW n, Standing(n), Loopless(n), NEW a \in DOMAIN n.index, NEW b \in DOMAIN n.index, a # b
  PROVE  IsLocalBridge(n, a, b) <=> Touch(n, a, b) /\ ~\E T \in Triangles(n) : {a, b} \subseteq T
<1>1. PICK u, v : u = n.index[a] /\ v = n.index[b]
  OBVIOUS
<1>2. \A c \in DOMAIN n.index : n.index[c] \in DOMAIN n.label /\ n.label[n.index[c]] = c
  BY DEF Standing
<1>3. \A s \in DOMAIN n.label : n.label[s] \in DOMAIN n.index /\ n.index[n.label[s]] = s
  BY DEF Standing
<1>4. Either(n, u) \subseteq DOMAIN n.label
  BY LeadsToSlots
<1>5. \A c \in DOMAIN n.index : (Touch(n, a, c) <=> n.index[c] \in Either(n, u)) /\ (Touch(n, b, c) <=> n.index[c] \in Either(n, v))
  BY <1>1, TouchIs DEF Touch
<1>6. IsLocalBridge(n, a, b) <=> Touch(n, a, b) /\ (Either(n, u) \ {v}) \cap Either(n, v) = {}
  BY <1>1 DEF IsLocalBridge, Touch
<1>7. ASSUME Touch(n, a, b), (Either(n, u) \ {v}) \cap Either(n, v) # {} PROVE \E T \in Triangles(n) : {a, b} \subseteq T
  <2>1. PICK s : s \in Either(n, u) /\ s # v /\ s \in Either(n, v)
    BY <1>7
  <2>2. PICK c \in DOMAIN n.index : c = n.label[s] /\ n.index[c] = s
    BY <1>3, <1>4, <2>1
  <2>3. Touch(n, a, c) /\ Touch(n, b, c)
    BY <1>5, <2>1, <2>2
  <2>4. {a, b, c} \in Triangles(n)
    BY <1>7, <2>3, TrianglesWith
  <2> QED BY <2>4
<1>8. ASSUME NEW T \in Triangles(n), {a, b} \subseteq T PROVE (Either(n, u) \ {v}) \cap Either(n, v) # {}
  <2>1. PICK c \in DOMAIN n.index : c # a /\ c # b /\ Touch(n, a, c) /\ Touch(n, b, c)
    BY <1>8, TrianglesWith
  <2>2. n.index[c] \in Either(n, u) /\ n.index[c] \in Either(n, v)
    BY <1>5, <2>1
  <2>3. n.index[c] # v
    BY <1>1, <1>2, <2>1
  <2> QED BY <2>2, <2>3
<1> QED BY <1>6, <1>7, <1>8

LEMMA LinksAre ==
  ASSUME NEW n, Standing(n), Loopless(n), NEW a \in DOMAIN n.index
  PROVE  LinksAmong(n, a) = Cardinality({T \in Triangles(n) : a \in T})
<1>1. PICK u \in DOMAIN n.label : u = n.index[a] /\ n.label[u] = a
  BY DEF Standing
<1>2. PICK P : P = {p \in SUBSET Either(n, u) : \E x, y \in p : x # y /\ p = {x, y} /\ Adjacent(n, x, y)}
  OBVIOUS
<1>3. PICK W : W = {T \in Triangles(n) : a \in T}
  OBVIOUS
<1>4. PICK f : f = [p \in P |-> {a} \cup AgentsAt(n, p)]
  OBVIOUS
<1>5. Either(n, u) \subseteq DOMAIN n.label /\ u \notin Either(n, u)
  BY LeadsToSlots, TouchIs
<1>6. \A c \in DOMAIN n.index : n.index[c] \in DOMAIN n.label /\ n.label[n.index[c]] = c
  BY DEF Standing
<1>7. \A s \in DOMAIN n.label : n.label[s] \in DOMAIN n.index /\ n.index[n.label[s]] = s
  BY DEF Standing
<1>8. ASSUME NEW p \in P PROVE f[p] \in W
  <2>1. PICK x \in p, y \in p : x # y /\ p = {x, y} /\ Adjacent(n, x, y)
    BY <1>2
  <2>2. x \in Either(n, u) /\ y \in Either(n, u) /\ x \in DOMAIN n.label /\ y \in DOMAIN n.label
    BY <1>2, <1>5, <2>1
  <2>3. PICK b \in DOMAIN n.index, c \in DOMAIN n.index : b = n.label[x] /\ c = n.label[y] /\ n.index[b] = x /\ n.index[c] = y
    BY <1>7, <2>2
  <2>4. Touch(n, a, b) /\ Touch(n, a, c) /\ Touch(n, b, c)
    BY <1>1, <2>1, <2>2, <2>3, TouchIs DEF Touch
  <2>5. a # b
    BY <2>4, TouchIs DEF Touch
  <2>6. {a, b, c} \in Triangles(n)
    BY <2>4, <2>5, TrianglesWith
  <2>7. f[p] = {a, b, c}
    BY <1>4, <2>1, <2>3 DEF AgentsAt
  <2> QED BY <1>3, <2>6, <2>7
<1>9. ASSUME NEW p \in P, NEW q \in P, f[p] = f[q] PROVE p = q
  <2>1. p \subseteq DOMAIN n.label /\ q \subseteq DOMAIN n.label /\ u \notin p /\ u \notin q
    BY <1>2, <1>5
  <2>2. \A s \in DOMAIN n.label : (n.label[s] \in AgentsAt(n, p) <=> s \in p) /\ (n.label[s] \in AgentsAt(n, q) <=> s \in q)
    BY <2>1, AgentsOf
  <2>3. \A s \in DOMAIN n.label : s # u => n.label[s] # a
    BY <1>1, <1>7
  <2>4. f[p] = {a} \cup AgentsAt(n, p) /\ f[q] = {a} \cup AgentsAt(n, q)
    BY <1>4
  <2>5. \A s \in DOMAIN n.label : s # u => (s \in p <=> s \in q)
    BY <1>9, <2>2, <2>3, <2>4
  <2> QED BY <2>1, <2>5
<1>10. ASSUME NEW T \in W PROVE \E p \in P : f[p] = T
  <2>1. T \in Triangles(n) /\ a \in T /\ T \subseteq DOMAIN n.index /\ Cardinality(T) = 3
    BY <1>3 DEF Triangles
  <2>2. PICK b \in T : b # a
    <3>1. T # {a}
      BY <2>1, FS_Singleton
    <3> QED BY <2>1, <3>1
  <2>3. PICK c \in DOMAIN n.index : /\ c # a /\ c # b /\ T = {a, b, c}
                                    /\ Touch(n, a, b) /\ Touch(n, a, c) /\ Touch(n, b, c)
    BY <2>1, <2>2, TrianglesWith
  <2>4. PICK x, y : x = n.index[b] /\ y = n.index[c]
    OBVIOUS
  <2>5. x # y /\ n.label[x] = b /\ n.label[y] = c
    BY <1>6, <2>1, <2>2, <2>3, <2>4
  <2>6. x \in Either(n, u) /\ y \in Either(n, u) /\ Adjacent(n, x, y)
    BY <1>1, <2>3, <2>4, TouchIs DEF Touch
  <2>7. {x, y} \in P
    BY <1>2, <2>5, <2>6
  <2>8. f[{x, y}] = {a, b, c}
    BY <1>4, <2>5, <2>7 DEF AgentsAt
  <2> QED BY <2>3, <2>7, <2>8
<1>11. IsFiniteSet(P)
  <2>1. IsFiniteSet(SUBSET Either(n, u))
    BY <1>5, FS_Subset, FS_SUBSET DEF Standing
  <2> QED BY <1>2, <2>1, FS_Subset
<1>12. f \in [P -> W]
  BY <1>4, <1>8
<1>13. Cardinality(W) = Cardinality(P)
  BY <1>9, <1>10, <1>11, <1>12, SameSize
<1>14. LinksAmong(n, a) = Cardinality(P)
  BY <1>1, <1>2 DEF LinksAmong
<1> QED BY <1>3, <1>13, <1>14

LEMMA LinksCountTriangles ==
  ASSUME NEW n, Standing(n), Loopless(n)
  PROVE  SumFunction([a \in DOMAIN n.index |-> LinksAmong(n, a)]) = 3 * Cardinality(Triangles(n))
<1>1. PICK I, Y : I = DOMAIN n.index /\ Y = Triangles(n)
  OBVIOUS
<1>2. IsFiniteSet(I)
  BY <1>1 DEF Standing
<1>3. IsFiniteSet(Y)
  <2>1. IsFiniteSet(SUBSET I)
    BY <1>2, FS_SUBSET
  <2> QED BY <1>1, <2>1, FS_Subset DEF Triangles
<1>4. PICK R : R = {p \in I \X Y : p[1] \in p[2]}
  OBVIOUS
<1>5. \A a \in I, T \in Y : <<a, T>> \in R <=> a \in T
  BY <1>4
<1>6. PICK A : A = [a \in I |-> LinksAmong(n, a)]
  OBVIOUS
<1>7. PICK B : B = [T \in Y |-> Cardinality({a \in I : <<a, T>> \in R})]
  OBVIOUS
<1>8. ASSUME NEW a \in I PROVE A[a] = Cardinality({T \in Y : <<a, T>> \in R}) /\ A[a] \in Int
  <2>1. PICK Z : Z = {T \in Y : <<a, T>> \in R}
    OBVIOUS
  <2>2. Z = {T \in Triangles(n) : a \in T}
    BY <1>1, <1>5, <2>1
  <2>3. A[a] = Cardinality(Z)
    BY <1>1, <1>6, <2>2, LinksAre
  <2>4. IsFiniteSet(Z) /\ Z \subseteq Y
    BY <1>3, <2>1, FS_Subset
  <2>5. Cardinality(Z) \in Nat
    BY <2>4, FS_CardinalityType
  <2> QED BY <2>1, <2>3, <2>5
<1>9. ASSUME NEW T \in Y PROVE B[T] = 3
  <2>1. T \subseteq I /\ Cardinality(T) = 3
    BY <1>1 DEF Triangles
  <2>2. {a \in I : <<a, T>> \in R} = T
    BY <1>5, <2>1
  <2> QED BY <1>7, <2>1, <2>2
<1>10. Counted(I, Y, R, A, B)
  BY <1>7, <1>8 DEF Counted
<1>11. Summed(A, I) = Summed(B, Y)
  BY <1>2, <1>3, <1>10, DoubleCount
<1>12. Summed(B, Y) = 3 * Cardinality(Y)
  <2>1. PICK c \in Int : c = 3
    OBVIOUS
  <2>2. \A T \in Y : B[T] = c
    BY <1>9, <2>1
  <2>3. Summed(B, Y) = c * Cardinality(Y)
    BY <1>3, <2>2, SumEqual
  <2> QED BY <2>1, <2>3
<1>13. SumFunction(A) = Summed(A, I)
  <2>1. DOMAIN A = I /\ IntOn(A, I)
    BY <1>6, <1>8 DEF IntOn
  <2> QED BY <1>2, <2>1, SumOfFunction
<1> QED BY <1>1, <1>6, <1>11, <1>12, <1>13

-----------------------------------------------------------------------------
(* Degrees.  Keys are apart, so an agent has a neighbour for every tie of its own. *)
TiesAt(n, u) == {i \in 1 .. Len(n.ties) : n.ties[i].from = u \/ (~n.directed /\ n.ties[i].to = u)}
OtherEnd(n, u, i) == IF n.ties[i].from = u THEN n.ties[i].to ELSE n.ties[i].from
LEMMA OtherKey ==
  ASSUME NEW n, Standing(n), NEW u \in DOMAIN n.label, NEW i \in TiesAt(n, u)
  PROVE  /\ OtherEnd(n, u, i) \in Successors(n, u) /\ OtherEnd(n, u, i) \in DOMAIN n.label
         /\ TieKey(n, n.ties[i]) = KeyOf(n.directed, n.label[u], n.label[OtherEnd(n, u, i)])
<1>1. PICK e : e = n.ties[i]
  OBVIOUS
<1>2. i \in 1 .. Len(n.ties) /\ (e.from = u \/ (~n.directed /\ e.to = u))
  BY <1>1 DEF TiesAt
<1>3. e \in ToSet(n.ties) /\ e.from \in DOMAIN n.label /\ e.to \in DOMAIN n.label
  BY <1>1, <1>2, TieSet
<1>4. PICK d \in BOOLEAN, p \in Nat, q \in Nat : d = n.directed /\ p = n.label[e.from] /\ q = n.label[e.to]
  BY <1>3, PlacedSlots
<1>5. CASE e.from = u
  <2>1. OtherEnd(n, u, i) = e.to
    BY <1>1, <1>5 DEF OtherEnd
  <2>2. e.to \in Successors(n, u)
    BY <1>3, <1>5, SuccessorsAre
  <2> QED BY <1>1, <1>3, <1>5, <2>1, <2>2 DEF TieKey
<1>6. CASE e.from # u
  <2>1. OtherEnd(n, u, i) = e.from /\ ~n.directed /\ e.to = u
    BY <1>1, <1>2, <1>6 DEF OtherEnd
  <2>2. e.from \in Successors(n, u)
    BY <1>3, <2>1, SuccessorsAre
  <2>3. KeyOf(d, p, q) = KeyOf(d, q, p)
    BY <1>4, <2>1, SameKey
  <2>4. TieKey(n, e) = KeyOf(d, p, q)
    BY <1>4 DEF TieKey
  <2> QED BY <1>1, <1>3, <1>4, <2>1, <2>2, <2>3, <2>4
<1> QED BY <1>5, <1>6

LEMMA DegreeIs ==
  ASSUME NEW n, Standing(n), KeysApart(n), NEW a \in DOMAIN n.index
  PROVE  Degree(n, a) = Cardinality(TiesAt(n, n.index[a])) /\ Degree(n, a) \in Nat /\ Degree(n, a) <= Cardinality(DOMAIN n.index)
<1>1. PICK u \in DOMAIN n.label : u = n.index[a] /\ n.label[u] = a
  BY DEF Standing
<1>2. PICK N \in Nat : N = Len(n.ties)
  BY PlacedSlots
<1>3. PICK D, W : D = TiesAt(n, u) /\ W = Neighbors(n, a)
  OBVIOUS
<1>4. W = {n.label[s] : s \in Successors(n, u)}
  BY <1>1, <1>3 DEF Neighbors
<1>5. PICK f : f = [i \in D |-> n.label[OtherEnd(n, u, i)]]
  OBVIOUS
<1>6. f \in [D -> W]
  <2>1. \A i \in D : OtherEnd(n, u, i) \in Successors(n, u)
    BY <1>3, OtherKey
  <2> QED BY <1>4, <1>5, <2>1
<1>7. \A i, j \in D : f[i] = f[j] => i = j
  <2> SUFFICES ASSUME NEW i \in D, NEW j \in D, f[i] = f[j] PROVE i = j
    OBVIOUS
  <2>1. TieKey(n, n.ties[i]) = KeyOf(n.directed, n.label[u], f[i]) /\ TieKey(n, n.ties[j]) = KeyOf(n.directed, n.label[u], f[j])
    BY <1>3, <1>5, OtherKey
  <2>2. i \in 1 .. Len(n.ties) /\ j \in 1 .. Len(n.ties)
    BY <1>3 DEF TiesAt
  <2> QED BY <2>1, <2>2 DEF KeysApart
<1>8. ASSUME NEW b \in W PROVE \E i \in D : f[i] = b
  <2>1. PICK s \in Successors(n, u) : b = n.label[s]
    BY <1>4
  <2>2. PICK e \in ToSet(n.ties) : (e.from = u /\ e.to = s) \/ (~n.directed /\ e.to = u /\ e.from = s)
    BY SuccessorsAre
  <2>3. PICK i \in 1 .. Len(n.ties) : e = n.ties[i]
    BY TieSet
  <2>4. i \in D /\ OtherEnd(n, u, i) = s
    BY <1>3, <2>2, <2>3 DEF TiesAt, OtherEnd
  <2> QED BY <1>5, <2>1, <2>4
<1>9. IsFiniteSet(D)
  <2>1. D \subseteq 1 .. N
    BY <1>2, <1>3 DEF TiesAt
  <2>2. IsFiniteSet(1 .. N)
    BY FS_Interval
  <2> QED BY <2>1, <2>2, FS_Subset
<1>10. Cardinality(W) = Cardinality(D)
  BY <1>6, <1>7, <1>8, <1>9, SameSize
<1>11. Degree(n, a) = Cardinality(W)
  BY <1>3 DEF Degree
<1>12. W \subseteq DOMAIN n.index /\ IsFiniteSet(DOMAIN n.index)
  <2>1. Successors(n, u) \subseteq DOMAIN n.label
    BY LeadsToSlots
  <2>2. \A s \in DOMAIN n.label : n.label[s] \in DOMAIN n.index
    BY PlacedSlots
  <2> QED BY <1>4, <2>1, <2>2 DEF Standing
<1>13. Cardinality(W) \in Nat /\ Cardinality(W) <= Cardinality(DOMAIN n.index) /\ Cardinality(DOMAIN n.index) \in Nat
  BY <1>12, FS_Subset, FS_CardinalityType
<1> QED BY <1>1, <1>3, <1>10, <1>11, <1>13

LEMMA DegreesCountTies ==
  ASSUME NEW n, Standing(n), KeysApart(n), Loopless(n)
  PROVE  SumFunction([a \in DOMAIN n.index |-> Degree(n, a)]) = Len(n.ties) * (IF n.directed THEN 1 ELSE 2)
<1>1. PICK I : I = DOMAIN n.index /\ IsFiniteSet(I)
  BY DEF Standing
<1>2. PICK N \in Nat : N = Len(n.ties)
  BY PlacedSlots
<1>3. PICK Y : Y = 1 .. N /\ IsFiniteSet(Y) /\ Cardinality(Y) = N
  BY FS_Interval
<1>4. PICK c \in Int : c = (IF n.directed THEN 1 ELSE 2)
  OBVIOUS
<1>5. PICK R : R = {p \in I \X Y : p[2] \in TiesAt(n, n.index[p[1]])}
  OBVIOUS
<1>6. \A a \in I, i \in Y : <<a, i>> \in R <=> i \in TiesAt(n, n.index[a])
  BY <1>5
<1>7. PICK A, B : A = [a \in I |-> Degree(n, a)] /\ B = [i \in Y |-> Cardinality({a \in I : <<a, i>> \in R})]
  OBVIOUS
<1>8. ASSUME NEW a \in I PROVE A[a] = Cardinality({i \in Y : <<a, i>> \in R}) /\ A[a] \in Int
  <2>1. {i \in Y : <<a, i>> \in R} = TiesAt(n, n.index[a])
    BY <1>2, <1>3, <1>6 DEF TiesAt
  <2>2. Degree(n, a) = Cardinality(TiesAt(n, n.index[a])) /\ Degree(n, a) \in Nat
    BY <1>1, DegreeIs
  <2>3. A[a] = Degree(n, a)
    BY <1>7
  <2>4. A[a] = Cardinality({i \in Y : <<a, i>> \in R})
    BY <2>1, <2>2, <2>3
  <2>5. A[a] \in Int
    BY <2>2, <2>3
  <2> QED BY <2>4, <2>5
<1>9. ASSUME NEW i \in Y PROVE B[i] = c
  <2>1. PICK e : e = n.ties[i]
    OBVIOUS
  <2>2. e.from \in DOMAIN n.label /\ e.to \in DOMAIN n.label /\ e.from # e.to
    BY <1>2, <1>3, <2>1, PlacedSlots DEF Loopless
  <2>3. PICK p \in I, q \in I : p = n.label[e.from] /\ q = n.label[e.to] /\ n.index[p] = e.from /\ n.index[q] = e.to
    BY <1>1, <2>2 DEF Standing
  <2>4. \A a \in I : n.index[a] \in DOMAIN n.label /\ n.label[n.index[a]] = a
    BY <1>1 DEF Standing
  <2>5. \A a \in I : (n.index[a] = e.from <=> a = p) /\ (n.index[a] = e.to <=> a = q)
    BY <2>3, <2>4
  <2>6. \A a \in I : <<a, i>> \in R <=> a = p \/ (~n.directed /\ a = q)
    BY <1>2, <1>3, <1>6, <2>1, <2>5 DEF TiesAt
  <2>7. CASE n.directed
    <3>1. {a \in I : <<a, i>> \in R} = {p}
      BY <2>6, <2>7
    <3> QED BY <1>4, <1>7, <2>7, <3>1, FS_Singleton
  <2>8. CASE ~n.directed
    <3>1. {a \in I : <<a, i>> \in R} = {p} \cup {q}
      BY <2>6, <2>8
    <3>2. Cardinality({p} \cup {q}) = 2
      <4>1. q \notin {p}
        BY <2>2, <2>3
      <4>2. IsFiniteSet({p}) /\ Cardinality({p}) = 1
        BY FS_Singleton
      <4>3. Cardinality({p} \cup {q}) = Cardinality({p}) + 1
        BY <4>1, <4>2, FS_AddElement
      <4> QED BY <4>2, <4>3
    <3> QED BY <1>4, <1>7, <2>8, <3>1, <3>2
  <2> QED BY <2>7, <2>8
<1>10. Counted(I, Y, R, A, B)
  BY <1>7, <1>8 DEF Counted
<1>11. Summed(A, I) = Summed(B, Y)
  BY <1>1, <1>3, <1>10, DoubleCount
<1>12. Summed(B, Y) = c * Cardinality(Y)
  <2>1. \A i \in Y : B[i] = c
    BY <1>9
  <2> QED BY <1>3, <2>1, SumEqual
<1>13. SumFunction(A) = Summed(A, I)
  <2>1. DOMAIN A = I /\ IntOn(A, I)
    BY <1>7, <1>8 DEF IntOn
  <2> QED BY <1>1, <2>1, SumOfFunction
<1>14. c * N = N * c
  OBVIOUS
<1> QED BY <1>1, <1>2, <1>3, <1>4, <1>7, <1>11, <1>12, <1>13, <1>14

LEMMA MaxIs ==
  ASSUME NEW S, S \subseteq Nat, S # {}, NEW top \in Nat, \A x \in S : x <= top
  PROVE  Max(S) \in S /\ \A x \in S : x <= Max(S)
<1>1. PICK T : T = {y \in Nat : \A x \in S : x <= y}
  OBVIOUS
<1>2. PICK m \in T : \A y \in T : m <= y
  BY <1>1, Least
<1>3. m \in S
  <2>1. SUFFICES ASSUME m \notin S PROVE FALSE
    OBVIOUS
  <2>2. m \in Nat /\ \A x \in S : x \in Nat /\ x <= m /\ x # m
    BY <1>1, <2>1
  <2>5. PICK x0 \in S : TRUE
    OBVIOUS
  <2>3. m - 1 \in Nat /\ \A x \in S : x <= m - 1
    BY <2>2, <2>5
  <2>4. m - 1 \in T
    BY <1>1, <2>3
  <2> QED BY <1>1, <1>2, <2>4
<1>4. \E x \in S : \A y \in S : x >= y
  BY <1>1, <1>3
<1> QED BY <1>4 DEF Max

LEMMA DistributionCounts ==
  ASSUME NEW n, Standing(n), KeysApart(n), n.index # << >>
  PROVE  SumFunction([d \in DOMAIN DegreeDistribution(n) |-> d * DegreeDistribution(n)[d]])
           = SumFunction([a \in DOMAIN n.index |-> Degree(n, a)])
<1>1. PICK I : I = DOMAIN n.index /\ IsFiniteSet(I)
  BY DEF Standing
<1>2. I # {}
  <2>1. ASSUME I = {} PROVE n.index = << >>
    <3>1. n.index = [x \in DOMAIN n.index |-> n.index[x]]
      BY DEF Standing
    <3> QED BY <1>1, <2>1, <3>1
  <2> QED BY <2>1
<1>3. PICK deg : deg = [a \in I |-> Degree(n, a)]
  OBVIOUS
<1>4. PICK most \in Nat : most = Cardinality(I)
  BY <1>1, FS_CardinalityType
<1>5. \A a \in I : deg[a] = Degree(n, a) /\ deg[a] \in Nat /\ deg[a] <= most
  <2> SUFFICES ASSUME NEW a \in I PROVE deg[a] = Degree(n, a) /\ deg[a] \in Nat /\ deg[a] <= most
    OBVIOUS
  <2>1. Degree(n, a) \in Nat /\ Degree(n, a) <= most
    BY <1>1, <1>4, DegreeIs
  <2> QED BY <1>3, <2>1
<1>6. PICK Degs : Degs = {Degree(n, a) : a \in I}
  OBVIOUS
<1>7. Degs \subseteq Nat /\ Degs # {} /\ \A x \in Degs : x <= most
  BY <1>2, <1>5, <1>6
<1>8. PICK top : top = Max(Degs)
  OBVIOUS
<1>9. top \in Nat /\ \A a \in I : deg[a] \in 0 .. top
  <2>1. Max(Degs) \in Degs /\ \A x \in Degs : x <= Max(Degs)
    BY <1>7, MaxIs
  <2> QED BY <1>5, <1>6, <1>7, <1>8, <2>1
<1>10. PICK X : X = 0 .. top /\ IsFiniteSet(X)
  BY <1>9, FS_Interval
<1>11. PICK dist : dist = [d \in X |-> Cardinality({a \in I : Degree(n, a) = d})]
  OBVIOUS
<1>12. DegreeDistribution(n) = dist
  BY <1>1, <1>6, <1>8, <1>10, <1>11 DEF DegreeDistribution
<1>13. PICK A : A = [d \in X |-> d * dist[d]]
  OBVIOUS
<1>14. PICK f, g : /\ f = [d \in X |-> [a \in I |-> IF deg[a] = d THEN d ELSE 0]]
                   /\ g = [a \in I |-> [d \in X |-> IF deg[a] = d THEN d ELSE 0]]
  OBVIOUS
<1>15. \A d \in X, a \in I : f[d][a] \in Int /\ g[a][d] = f[d][a]
  BY <1>10, <1>14
<1>16. ASSUME NEW d \in X PROVE A[d] = Summed(f[d], I) /\ A[d] \in Int
  <2>1. PICK Z : Z = {a \in I : Degree(n, a) = d}
    OBVIOUS
  <2>2. Z \subseteq I /\ d \in Int /\ \A a \in I : f[d][a] = IF a \in Z THEN d ELSE 0
    BY <1>5, <1>10, <1>14, <2>1
  <2>3. Summed(f[d], I) = d * Cardinality(Z)
    BY <1>1, <2>2, SumMarks
  <2>4. A[d] = d * Cardinality(Z)
    BY <1>11, <1>13, <2>1
  <2>5. PICK z \in Nat : z = Cardinality(Z)
    BY <1>1, <2>2, FS_Subset, FS_CardinalityType
  <2>6. d * z \in Int
    BY <2>2
  <2> QED BY <2>3, <2>4, <2>5, <2>6
<1>17. ASSUME NEW a \in I PROVE deg[a] = Summed(g[a], X)
  <2>1. PICK c \in Int : c = deg[a] /\ c \in X
    BY <1>5, <1>9, <1>10
  <2>2. PICK h, Z : h = g[a] /\ Z = {c}
    OBVIOUS
  <2>3. Z \subseteq X /\ \A d \in X : h[d] = IF d \in Z THEN c ELSE 0
    BY <1>14, <2>1, <2>2
  <2>4. Summed(h, X) = c * Cardinality(Z)
    BY <1>10, <2>3, SumMarks
  <2>5. Cardinality(Z) = 1
    BY <2>2, FS_Singleton
  <2>6. c * 1 = c
    BY <2>1
  <2>7. Summed(h, X) = c * 1
    BY <2>4, <2>5
  <2> QED BY <2>1, <2>2, <2>6, <2>7
<1>18. Tabled(X, I, f, g, A, deg)
  <2>1. \A d \in X : A[d] = Summed(f[d], I)
    BY <1>16
  <2>2. \A a \in I : deg[a] = Summed(g[a], X)
    BY <1>17
  <2> QED BY <1>15, <2>1, <2>2 DEF Tabled
<1>19. Summed(A, X) = Summed(deg, I)
  BY <1>1, <1>10, <1>18, SumSwap
<1>20. SumFunction(A) = Summed(A, X)
  <2>1. DOMAIN A = X /\ IntOn(A, X)
    BY <1>13, <1>16 DEF IntOn
  <2> QED BY <1>10, <2>1, SumOfFunction
<1>21. SumFunction(deg) = Summed(deg, I)
  <2>1. DOMAIN deg = I /\ IntOn(deg, I)
    BY <1>3, <1>5 DEF IntOn
  <2> QED BY <1>1, <2>1, SumOfFunction
<1>22. A = [d \in DOMAIN DegreeDistribution(n) |-> d * DegreeDistribution(n)[d]]
  BY <1>11, <1>12, <1>13
<1>23. deg = [a \in DOMAIN n.index |-> Degree(n, a)]
  BY <1>1, <1>3
<1> QED BY <1>19, <1>20, <1>21, <1>22, <1>23

LEMMA PathPairs ==
  ASSUME NEW n, Standing(n)
  PROVE  PathLengths(n).pairs = Cardinality({p \in (DOMAIN n.index) \X (DOMAIN n.index) :
                                               p[1] # p[2] /\ p[2] \in ReachableFrom(n, p[1], Payload)})
<1>1. PICK I, L : I = DOMAIN n.index /\ L = DOMAIN n.label /\ IsFiniteSet(L)
  BY DEF Standing
<1>2. PICK next : next = [v \in L |-> Successors(n, v)]
  OBVIOUS
<1>3. PICK sets : sets = {S \in SUBSET I : Separates(n, S, Payload)}
  OBVIOUS
<1>4. Parts(n, next, sets)
  <2>1. ToSet(n.ties) = {e \in ToSet(n.ties) : e.payload \in Payload}
    BY TieSet
  <2> QED BY <1>1, <1>2, <1>3, <2>1, AllowedParts
<1>5. /\ \A s \in L : n.label[s] \in I /\ n.index[n.label[s]] = s
      /\ \A a \in I : n.index[a] \in L /\ n.label[n.index[a]] = a
  BY <1>1 DEF Standing
<1>6. ASSUME NEW u \in L PROVE Spread(n, u, next) \subseteq L
  <2>1. next \in [L -> SUBSET L]
    BY <1>1, <1>4 DEF Parts
  <2>2. Spans(L, next, u, Spread(n, u, next))
    BY <1>1, <2>1, SearchSpans
  <2> QED BY <2>2 DEF Spans
<1>7. ASSUME NEW u \in L, NEW v \in L PROVE v \in Spread(n, u, next) <=> n.label[v] \in ReachableFrom(n, n.label[u], Payload)
  <2>1. v \in Spread(n, u, next) <=> \A S \in sets : n.label[u] \in S => n.label[v] \in S
    <3>1. v \in Spread(n, u, next) <=> ~SplitBy(sets, n.label[u], n.label[v])
      BY <1>1, <1>4, FoundUnlessSeparated
    <3> QED BY <3>1 DEF SplitBy
  <2>2. ReachableFrom(n, n.label[u], Payload) = {b \in I : \A S \in sets : n.label[u] \in S => b \in S}
    BY <1>1, <1>3, <1>5, ReachableIs
  <2> QED BY <1>5, <2>1, <2>2
<1>8. PICK R : R = {p \in L \X L : p[1] # p[2] /\ p[2] \in Spread(n, p[1], next)}
  OBVIOUS
<1>9. \A u, v \in L : <<u, v>> \in R <=> u # v /\ v \in Spread(n, u, next)
  BY <1>8
<1>10. PICK A : A = [u \in L |-> Cardinality(DOMAIN Distances(n, u) \ {u})]
  OBVIOUS
<1>11. ASSUME NEW u \in L PROVE A[u] = Cardinality({v \in L : <<u, v>> \in R}) /\ A[u] \in Int
  <2>1. DOMAIN Distances(n, u) = Spread(n, u, next)
    BY <1>1, <1>2 DEF Distances, Spread
  <2>2. PICK Z : Z = {v \in L : <<u, v>> \in R}
    OBVIOUS
  <2>3. Z = Spread(n, u, next) \ {u}
    BY <1>6, <1>9, <2>2
  <2>4. A[u] = Cardinality(Z)
    BY <1>10, <2>1, <2>3
  <2>5. Cardinality(Z) \in Nat
    BY <1>1, <2>2, FS_Subset, FS_CardinalityType
  <2> QED BY <2>2, <2>4, <2>5
<1>12. Summed(A, L) = Cardinality(R)
  <2>1. R \subseteq L \X L
    BY <1>8
  <2>2. \A u \in L : A[u] = Cardinality({v \in L : <<u, v>> \in R})
    BY <1>11
  <2>3. Rows(L, L, R, A)
    BY <2>1, <2>2 DEF Rows
  <2> QED BY <1>1, <2>3, SumPairs
<1>13. SumFunction(A) = Summed(A, L)
  <2>1. DOMAIN A = L /\ IntOn(A, L)
    BY <1>10, <1>11 DEF IntOn
  <2> QED BY <1>1, <2>1, SumOfFunction
<1>14. PathLengths(n).pairs = SumFunction(A)
  BY <1>1, <1>10 DEF PathLengths
<1>15. PICK Q : Q = {p \in I \X I : p[1] # p[2] /\ p[2] \in ReachableFrom(n, p[1], Payload)}
  OBVIOUS
<1>16. PICK f : f = [p \in R |-> <<n.label[p[1]], n.label[p[2]]>>]
  OBVIOUS
<1>17. ASSUME NEW p \in R PROVE f[p] \in Q
  <2>1. PICK u \in L, v \in L : p = <<u, v>> /\ u # v /\ v \in Spread(n, u, next)
    BY <1>8
  <2>2. f[p] = <<n.label[u], n.label[v]>>
    BY <1>16, <2>1
  <2>3. n.label[u] # n.label[v] /\ n.label[u] \in I /\ n.label[v] \in I
    BY <1>5, <2>1
  <2> QED BY <1>7, <1>15, <2>1, <2>2, <2>3
<1>18. ASSUME NEW p \in R, NEW q \in R, f[p] = f[q] PROVE p = q
  <2>1. PICK u \in L, v \in L : p = <<u, v>>
    BY <1>8
  <2>2. PICK x \in L, y \in L : q = <<x, y>>
    BY <1>8
  <2>3. n.label[u] = n.label[x] /\ n.label[v] = n.label[y]
    BY <1>16, <1>18, <2>1, <2>2
  <2> QED BY <1>5, <2>1, <2>2, <2>3
<1>19. ASSUME NEW q \in Q PROVE \E p \in R : f[p] = q
  <2>1. PICK a \in I, b \in I : q = <<a, b>> /\ a # b /\ b \in ReachableFrom(n, a, Payload)
    BY <1>15
  <2>2. PICK u \in L, v \in L : n.label[u] = a /\ n.label[v] = b
    BY <1>5
  <2>3. <<u, v>> \in R
    BY <1>7, <1>9, <2>1, <2>2
  <2>4. f[<<u, v>>] = q
    BY <1>16, <2>1, <2>2, <2>3
  <2> QED BY <2>3, <2>4
<1>20. IsFiniteSet(R)
  <2>1. IsFiniteSet(L \X L)
    BY <1>1, FS_Product
  <2> QED BY <1>8, <2>1, FS_Subset
<1>21. f \in [R -> Q]
  BY <1>16, <1>17
<1>22. Cardinality(Q) = Cardinality(R)
  <2>1. \A p, q \in R : f[p] = f[q] => p = q
    BY <1>18
  <2>2. \A q \in Q : \E p \in R : f[p] = q
    BY <1>19
  <2> QED BY <1>20, <1>21, <2>1, <2>2, SameSize
<1> QED BY <1>1, <1>12, <1>13, <1>14, <1>15, <1>22

-----------------------------------------------------------------------------
(* The questions about a network are answered as its graph is.  *)
Answers0(n) ==
  LET agents == DOMAIN n.index
      closed(m, allowed) == {S \in SUBSET agents : Separates(m, S, allowed)}
  IN  \A allowed \in {Payload} \cup {{w} : w \in Payload} :
           LET sets == closed(n, allowed)
           IN  \A a \in agents : ReachableFrom(n, a, allowed) = {b \in agents : \A S \in sets : a \in S => b \in S}
Answers1(n) ==
  LET agents == DOMAIN n.index
      sets == {S \in SUBSET agents : Separates([n EXCEPT !.directed = FALSE], S, Payload)}
  IN  /\ \A comp \in {ComponentMembership(n)} : \A a, b \in agents :
           /\ comp[a] = comp[b] <=> \A S \in sets : a \in S => b \in S
           /\ a < b /\ comp[b] \notin {comp[c] : c \in {d \in agents : d < b}} => comp[a] < comp[b]
      /\ Range(ComponentMembership(n)) = 0 .. ConnectedComponents(n) - 1
Answers2(n) ==
  LET agents == DOMAIN n.index
      triangles == {T \in SUBSET agents : Cardinality(T) = 3 /\ \A a, b \in T : a # b => Touch(n, a, b)}
  IN  /\ \A a, b \in agents : a # b =>
           (IsLocalBridge(n, a, b) <=> Touch(n, a, b) /\ ~\E T \in triangles : {a, b} \subseteq T)
      /\ SumFunction([a \in agents |-> LinksAmong(n, a)]) = 3 * Cardinality(triangles)
      /\ SumFunction([a \in agents |-> Degree(n, a)]) = Len(n.ties) * (IF n.directed THEN 1 ELSE 2)
      /\ n.index # << >> =>
           SumFunction([d \in DOMAIN DegreeDistribution(n) |-> d * DegreeDistribution(n)[d]])
             = Len(n.ties) * (IF n.directed THEN 1 ELSE 2)

LEMMA Reaches == ASSUME NEW n, Standing(n) PROVE Answers0(n)
BY ReachableIs DEF Answers0

LEMMA Groups == ASSUME NEW n, Standing(n) PROVE Answers1(n)
<1>1. PICK I : I = DOMAIN n.index
  OBVIOUS
<1>3. PICK sets : sets = {S \in SUBSET I : Separates([n EXCEPT !.directed = FALSE], S, Payload)}
  OBVIOUS
<1>4. PICK comp : comp = ComponentMembership(n)
  OBVIOUS
<1>5. PICK part : Labelled(I, part, comp) /\ \A a, b \in I : b \in part[a] <=> \A S \in sets : a \in S => b \in S
  <2>1. Grouped(I, sets, comp)
    BY <1>1, <1>3, <1>4, ComponentsAre
  <2> QED BY <2>1 DEF Grouped
<1>6. ASSUME NEW a \in I, NEW b \in I
      PROVE  /\ comp[a] = comp[b] <=> \A S \in sets : a \in S => b \in S
             /\ a < b /\ comp[b] \notin {comp[c] : c \in {d \in I : d < b}} => comp[a] < comp[b]
  <2>1. comp[a] = comp[b] <=> b \in part[a]
    BY <1>5 DEF Labelled
  <2>2. a < b /\ comp[b] \notin {comp[c] : c \in {d \in I : d < b}} => comp[a] < comp[b]
    BY <1>5 DEF Labelled
  <2> QED BY <1>5, <2>1, <2>2
<1>7. Range(comp) = 0 .. ConnectedComponents(n) - 1
  BY <1>4, <1>5 DEF Labelled, ConnectedComponents
<1>9. \A comp2 \in {ComponentMembership(n)} : \A a, b \in I :
        /\ comp2[a] = comp2[b] <=> \A S \in sets : a \in S => b \in S
        /\ a < b /\ comp2[b] \notin {comp2[c] : c \in {d \in I : d < b}} => comp2[a] < comp2[b]
  BY <1>4, <1>6
<1>10. Range(ComponentMembership(n)) = 0 .. ConnectedComponents(n) - 1
  BY <1>4, <1>7
<1> QED BY <1>1, <1>3, <1>9, <1>10 DEF Answers1

LEMMA Counts == ASSUME NEW n, Standing(n), KeysApart(n), Loopless(n) PROVE Answers2(n)
<1>1. \A a, b \in DOMAIN n.index : a # b =>
        (IsLocalBridge(n, a, b) <=> Touch(n, a, b) /\ ~\E T \in Triangles(n) : {a, b} \subseteq T)
  BY BridgesAre
<1>2. SumFunction([a \in DOMAIN n.index |-> LinksAmong(n, a)]) = 3 * Cardinality(Triangles(n))
  BY LinksCountTriangles
<1>3. SumFunction([a \in DOMAIN n.index |-> Degree(n, a)]) = Len(n.ties) * (IF n.directed THEN 1 ELSE 2)
  BY DegreesCountTies
<1>4. n.index # << >> =>
        SumFunction([d \in DOMAIN DegreeDistribution(n) |-> d * DegreeDistribution(n)[d]])
          = Len(n.ties) * (IF n.directed THEN 1 ELSE 2)
  BY <1>3, DistributionCounts
<1> QED BY <1>1, <1>2, <1>3, <1>4 DEF Answers2, Triangles

LEMMA AnalysisOfNet == ASSUME NetInv PROVE AnalysisExact
<1>1. Standing(net) /\ KeysApart(net)
  BY DEF NetInv, Shows
<1>2. Answers0(net) /\ Answers1(net)
  BY <1>1, Reaches, Groups
<1>3. Loopless(net) => Answers2(net)
  BY <1>1, Counts
<1>4. PathLengths(net).pairs
        = Cardinality({p \in (DOMAIN net.index) \X (DOMAIN net.index) : p[1] # p[2] /\ p[2] \in ReachableFrom(net, p[1], Payload)})
  BY <1>1, PathPairs
<1> QED BY <1>2, <1>3, <1>4 DEF AnalysisExact, Answers0, Answers1, Answers2

(* Networks are what is called of them, and searches, components, bridges, triangles *)
(* and degrees are those of the graph: however many agents, ties and calls.          *)
THEOREM NetworkIsAsCalled == NetSpec => []NetworkAsCalled
<1>1. NetInv => NetworkAsCalled
  BY MembersOfNet, AnalysisOfNet DEF NetworkAsCalled
<1> QED BY <1>1, NetworkShowsCalls, PTL

(***************************************************************************)
(* The tree of block sums.  What is proved of the lowest bit is proved by  *)
(* halving: of an odd number it is one, of an even number twice that of    *)
(* the half.                                                               *)
(***************************************************************************)

(* What holds of a number if it holds of its half, and of odd numbers, holds of all but 0. *)
LEMMA Halving ==
  ASSUME NEW T, \A n \in Nat : 2 * n + 1 \in T, \A n \in Nat \ {0} : n \in T => 2 * n \in T
  PROVE  Nat \ {0} \subseteq T
<1> DEFINE U == (Nat \ {0}) \ T
<1>1. SUFFICES ASSUME U # {} PROVE FALSE
  OBVIOUS
<1>2. PICK x \in U : \A y \in U : x <= y
  BY <1>1, Least
<1>3. \/ \E n \in Nat : x = 2 * n + 1
      \/ \E n \in Nat \ {0} : x = 2 * n
  <2>1. x \in Nat \ {0} /\ x \div 2 \in Nat /\ (x = 2 * (x \div 2) + 1 \/ x = 2 * (x \div 2))
    BY <1>2
  <2>2. CASE x = 2 * (x \div 2) + 1
    BY <2>1, <2>2
  <2>3. CASE x = 2 * (x \div 2)
    <3>1. x \div 2 \in Nat \ {0}
      BY <2>1, <2>3
    <3>2. QED
      BY <2>3, <3>1
  <2>4. QED
    BY <2>1, <2>2, <2>3
<1>4. PICK n \in Nat \ {0} : x = 2 * n
  BY <1>2, <1>3
<1>5. n < x /\ n \notin U
  BY <1>2, <1>4
<1>6. QED
  BY <1>2, <1>4, <1>5

HalvesTo(g, n) == /\ g = [k \in 1 .. n |-> g[k]]
                  /\ \A k \in 1 .. n : g[k] \in Nat \ {0} /\ g[k] = IF k % 2 = 1 THEN 1 ELSE 2 * g[k \div 2]
LEMMA HalvesExist == \A n \in Nat : \E g : HalvesTo(g, n)
<1> DEFINE T == {n \in Nat : \E g : HalvesTo(g, n)}
<1>1. 0 \in T
  <2>1. HalvesTo([k \in 1 .. 0 |-> 1], 0)
    BY DEF HalvesTo
  <2>2. QED
    BY <2>1
<1>2. ASSUME NEW n \in Nat, n \in T PROVE n + 1 \in T
  <2>1. PICK g : HalvesTo(g, n)
    BY <1>2
  <2> DEFINE v == IF (n + 1) % 2 = 1 THEN 1 ELSE 2 * g[(n + 1) \div 2]
             h == [k \in 1 .. n + 1 |-> IF k = n + 1 THEN v ELSE g[k]]
  <2>2. (n + 1) % 2 # 1 => (n + 1) \div 2 \in 1 .. n
    OBVIOUS
  <2>3. v \in Nat \ {0}
    <3>1. CASE (n + 1) % 2 = 1
      BY <3>1
    <3>2. CASE (n + 1) % 2 # 1
      <4>1. g[(n + 1) \div 2] \in Nat \ {0}
        BY <2>1, <2>2, <3>2 DEF HalvesTo
      <4>2. QED
        BY <3>2, <4>1
    <3>3. QED
      BY <3>1, <3>2
  <2>4. ASSUME NEW k \in 1 .. n + 1
        PROVE  h[k] \in Nat \ {0} /\ h[k] = IF k % 2 = 1 THEN 1 ELSE 2 * h[k \div 2]
    <3>1. CASE k = n + 1
      <4>1. (n + 1) % 2 # 1 => h[(n + 1) \div 2] = g[(n + 1) \div 2]
        BY <2>2
      <4>2. h[k] = v
        BY <3>1
      <4>3. v = IF k % 2 = 1 THEN 1 ELSE 2 * h[k \div 2]
        <5>1. CASE (n + 1) % 2 = 1
          BY <3>1, <5>1
        <5>2. CASE (n + 1) % 2 # 1
          <6> HIDE DEF h
          <6>1. QED
            BY <3>1, <4>1, <5>2
        <5>3. QED
          BY <5>1, <5>2
      <4> HIDE DEF h, v
      <4>4. QED
        BY <2>3, <4>2, <4>3
    <3>2. CASE k # n + 1
      <4>1. k \in 1 .. n /\ h[k] = g[k]
        BY <3>2
      <4>2. k % 2 # 1 => k \div 2 \in 1 .. n /\ h[k \div 2] = g[k \div 2]
        BY <4>1
      <4> HIDE DEF h
      <4>3. g[k] \in Nat \ {0} /\ g[k] = IF k % 2 = 1 THEN 1 ELSE 2 * g[k \div 2]
        BY <2>1, <4>1 DEF HalvesTo
      <4>4. QED
        BY <4>1, <4>2, <4>3
    <3>3. QED
      BY <3>1, <3>2
  <2>5. h = [k \in 1 .. n + 1 |-> h[k]]
    OBVIOUS
  <2> HIDE DEF h
  <2>6. HalvesTo(h, n + 1)
    BY <2>4, <2>5 DEF HalvesTo
  <2>7. QED
    BY <2>6
<1> HIDE DEF T
<1>3. Nat \subseteq T
  BY <1>1, <1>2, Induct
<1>4. QED
  BY <1>3 DEF T
LEMMA HalvesAgree ==
  ASSUME NEW m \in Nat, NEW n \in Nat, NEW g, HalvesTo(g, m), NEW h, HalvesTo(h, n)
  PROVE  \A k \in 1 .. m : k <= n => g[k] = h[k]
<1> DEFINE T == {k \in Nat \ {0} : k <= m /\ k <= n => g[k] = h[k]}
<1>1. ASSUME NEW k \in Nat PROVE 2 * k + 1 \in T
  <2>1. (2 * k + 1) % 2 = 1 /\ 2 * k + 1 \in Nat \ {0}
    OBVIOUS
  <2>2. SUFFICES ASSUME 2 * k + 1 <= m, 2 * k + 1 <= n PROVE g[2 * k + 1] = h[2 * k + 1]
    BY <2>1
  <2>3. 2 * k + 1 \in 1 .. m /\ 2 * k + 1 \in 1 .. n
    BY <2>2
  <2>4. g[2 * k + 1] = 1 /\ h[2 * k + 1] = 1
    BY <2>1, <2>3 DEF HalvesTo
  <2>5. QED
    BY <2>4
<1>2. ASSUME NEW k \in Nat \ {0}, k \in T PROVE 2 * k \in T
  <2>1. SUFFICES ASSUME 2 * k <= m, 2 * k <= n PROVE g[2 * k] = h[2 * k]
    OBVIOUS
  <2>2. (2 * k) % 2 # 1 /\ (2 * k) \div 2 = k
    OBVIOUS
  <2>3. g[k] = h[k]
    BY <1>2, <2>1
  <2>6. 2 * k \in 1 .. m /\ 2 * k \in 1 .. n
    BY <2>1
  <2>4. g[2 * k] = 2 * g[k] /\ h[2 * k] = 2 * h[k]
    BY <2>2, <2>6 DEF HalvesTo
  <2>5. QED
    BY <2>3, <2>4
<1> HIDE DEF T
<1>3. Nat \ {0} \subseteq T
  BY <1>1, <1>2, Halving
<1>4. QED
  BY <1>3 DEF T
LEMMA LowBitOf ==
  ASSUME NEW n \in Nat \ {0}
  PROVE  \E g : HalvesTo(g, n) /\ LowBit(n) = g[n]
<1> DEFINE F(g) == [k \in 1 .. n |-> IF k % 2 = 1 THEN 1 ELSE 2 * g[k \div 2]]
           c == CHOOSE g : g = F(g)
<1>1. PICK g : HalvesTo(g, n)
  BY HalvesExist
<1>2. g = F(g)
  <2>1. g = [k \in 1 .. n |-> g[k]]
    BY <1>1 DEF HalvesTo
  <2>2. QED
    BY <1>1, <2>1 DEF HalvesTo
<1>3. c = F(c)
  BY <1>2, Zenon
<1> HIDE DEF c
<1>4. DOMAIN c = 1 .. n /\ \A k \in 1 .. n : c[k] = IF k % 2 = 1 THEN 1 ELSE 2 * c[k \div 2]
  <2>1. DOMAIN F(c) = 1 .. n /\ \A k \in 1 .. n : F(c)[k] = IF k % 2 = 1 THEN 1 ELSE 2 * c[k \div 2]
    OBVIOUS
  <2> HIDE DEF F
  <2>2. QED
    BY <1>3, <2>1, Zenon
<1>5. ASSUME NEW k \in 1 .. n PROVE c[k] \in Nat \ {0}
  <2> DEFINE T == {i \in Nat \ {0} : i <= n => c[i] \in Nat \ {0}}
  <2>1. ASSUME NEW i \in Nat PROVE 2 * i + 1 \in T
    <3>1. (2 * i + 1) % 2 = 1
      OBVIOUS
    <3>2. QED
      BY <1>4, <3>1
  <2>2. ASSUME NEW i \in Nat \ {0}, i \in T PROVE 2 * i \in T
    <3>1. (2 * i) % 2 # 1 /\ (2 * i) \div 2 = i
      OBVIOUS
    <3>2. SUFFICES ASSUME 2 * i <= n PROVE c[2 * i] \in Nat \ {0}
      OBVIOUS
    <3>3. c[2 * i] = 2 * c[i] /\ c[i] \in Nat \ {0}
      BY <1>4, <2>2, <3>1, <3>2
    <3>4. QED
      BY <3>3
  <2> HIDE DEF T
  <2>3. Nat \ {0} \subseteq T
    BY <2>1, <2>2, Halving
  <2>4. QED
    BY <2>3 DEF T
<1>6. HalvesTo(c, n)
  <2>1. F(c) = [k \in 1 .. n |-> F(c)[k]]
    OBVIOUS
  <2>2. c = [k \in 1 .. n |-> c[k]]
    <3> HIDE DEF F
    <3>1. QED
      BY <1>3, <2>1, Zenon
  <2>3. QED
    BY <1>4, <1>5, <2>2 DEF HalvesTo
<1>7. LowBit(n) = c[n]
  BY DEF LowBit, c
<1>8. QED
  BY <1>6, <1>7

(* The lowest bit that is set. *)
LEMMA LowBits ==
  /\ \A n \in Nat : LowBit(2 * n + 1) = 1
  /\ \A n \in Nat \ {0} : LowBit(2 * n) = 2 * LowBit(n)
  /\ \A n \in Nat \ {0} : LowBit(n) \in 1 .. n
<1>1. ASSUME NEW n \in Nat PROVE LowBit(2 * n + 1) = 1
  <2>1. PICK g : HalvesTo(g, 2 * n + 1) /\ LowBit(2 * n + 1) = g[2 * n + 1]
    BY LowBitOf
  <2>2. (2 * n + 1) % 2 = 1
    OBVIOUS
  <2>3. QED
    BY <2>1, <2>2 DEF HalvesTo
<1>2. ASSUME NEW n \in Nat \ {0} PROVE LowBit(2 * n) = 2 * LowBit(n) /\ LowBit(n) \in Nat \ {0}
  <2>1. PICK g : HalvesTo(g, 2 * n) /\ LowBit(2 * n) = g[2 * n]
    BY LowBitOf
  <2>2. PICK h : HalvesTo(h, n) /\ LowBit(n) = h[n]
    BY LowBitOf
  <2>3. (2 * n) % 2 # 1 /\ (2 * n) \div 2 = n /\ n \in 1 .. 2 * n /\ 2 * n \in 1 .. 2 * n /\ n \in 1 .. n
    OBVIOUS
  <2>4. g[2 * n] = 2 * g[n]
    BY <2>1, <2>3 DEF HalvesTo
  <2>5. h[n] = g[n]
    BY <2>1, <2>2, <2>3, HalvesAgree
  <2>6. h[n] \in Nat \ {0}
    BY <2>2, <2>3 DEF HalvesTo
  <2>7. QED
    BY <2>1, <2>2, <2>4, <2>5, <2>6
<1>3. Nat \ {0} \subseteq {n \in Nat \ {0} : LowBit(n) <= n}
  <2> DEFINE T == {n \in Nat \ {0} : LowBit(n) <= n}
  <2>1. ASSUME NEW n \in Nat PROVE 2 * n + 1 \in T
    BY <1>1
  <2>2. ASSUME NEW n \in Nat \ {0}, n \in T PROVE 2 * n \in T
    BY <1>2, <2>2
  <2> HIDE DEF T
  <2>3. Nat \ {0} \subseteq T
    BY <2>1, <2>2, Halving
  <2>4. QED
    BY <2>3 DEF T
<1>4. QED
  BY <1>1, <1>2, <1>3

(* A block starts where no smaller one inside it ends, and the next block that holds it is
   at least twice as long. *)
LEMMA BitAhead == \A n \in Nat \ {0} : LowBit(n + LowBit(n)) >= 2 * LowBit(n)
<1> DEFINE T == {n \in Nat \ {0} : LowBit(n + LowBit(n)) >= 2 * LowBit(n)}
<1>1. ASSUME NEW n \in Nat PROVE 2 * n + 1 \in T
  <2>1. LowBit(2 * n + 1) = 1 /\ LowBit(2 * (n + 1)) = 2 * LowBit(n + 1) /\ LowBit(n + 1) \in 1 .. n + 1
    BY LowBits
  <2>2. (2 * n + 1) + 1 = 2 * (n + 1)
    OBVIOUS
  <2>3. QED
    BY <2>1, <2>2
<1>2. ASSUME NEW n \in Nat \ {0}, n \in T PROVE 2 * n \in T
  <2>1. LowBit(n) \in 1 .. n /\ LowBit(2 * n) = 2 * LowBit(n)
    BY LowBits
  <2>2. LowBit(2 * (n + LowBit(n))) = 2 * LowBit(n + LowBit(n))
    BY <2>1, LowBits
  <2>3. 2 * n + 2 * LowBit(n) = 2 * (n + LowBit(n))
    BY <2>1
  <2>4. LowBit(n + LowBit(n)) \in Int
    BY <2>1, LowBits
  <2>5. QED
    BY <1>2, <2>1, <2>2, <2>3, <2>4
<1> HIDE DEF T
<1>3. Nat \ {0} \subseteq T
  BY <1>1, <1>2, Halving
<1>4. QED
  BY <1>3 DEF T
LEMMA BitInside ==
  \A n \in Nat \ {0} : \A j \in Nat \ {0} : n - LowBit(n) < j /\ j < n => j + LowBit(j) <= n
<1> DEFINE T == {n \in Nat \ {0} : \A j \in Nat \ {0} : n - LowBit(n) < j /\ j < n => j + LowBit(j) <= n}
<1>1. ASSUME NEW n \in Nat PROVE 2 * n + 1 \in T
  <2>1. LowBit(2 * n + 1) = 1
    BY LowBits
  <2>2. QED
    BY <2>1
<1>2. ASSUME NEW n \in Nat \ {0}, n \in T PROVE 2 * n \in T
  <2>1. LowBit(n) \in 1 .. n /\ LowBit(2 * n) = 2 * LowBit(n)
    BY LowBits
  <2>2. SUFFICES ASSUME NEW j \in Nat \ {0}, 2 * n - LowBit(2 * n) < j, j < 2 * n PROVE j + LowBit(j) <= 2 * n
    OBVIOUS
  <2>3. j \div 2 \in Nat /\ (j = 2 * (j \div 2) + 1 \/ j = 2 * (j \div 2))
    OBVIOUS
  <2>4. CASE j = 2 * (j \div 2) + 1
    <3>1. LowBit(j) = 1
      BY <2>3, <2>4, LowBits
    <3>2. QED
      BY <2>2, <3>1
  <2>5. CASE j = 2 * (j \div 2)
    <3>1. PICK i \in Nat \ {0} : j = 2 * i
      BY <2>3, <2>5
    <3>2. n - LowBit(n) < i /\ i < n
      BY <2>1, <2>2, <3>1
    <3>3. i + LowBit(i) <= n
      BY <1>2, <3>2
    <3>4. LowBit(j) = 2 * LowBit(i) /\ LowBit(i) \in 1 .. i
      BY <3>1, LowBits
    <3>5. QED
      BY <3>1, <3>3, <3>4
  <2>6. QED
    BY <2>3, <2>4, <2>5
<1> HIDE DEF T
<1>3. Nat \ {0} \subseteq T
  BY <1>1, <1>2, Halving
<1>4. QED
  BY <1>3 DEF T
LEMMA BitOfSum ==
  \A s \in Nat \ {0} : LowBit(s) = s =>
    \A x \in Nat : x = 0 \/ LowBit(x) >= 2 * s => LowBit(x + s) = s
<1> DEFINE T == {s \in Nat \ {0} : LowBit(s) = s => \A x \in Nat : x = 0 \/ LowBit(x) >= 2 * s => LowBit(x + s) = s}
<1>0. ASSUME NEW x \in Nat \ {0}, LowBit(x) > 1 PROVE \E y \in Nat \ {0} : x = 2 * y
  <2>1. x \div 2 \in Nat /\ (x = 2 * (x \div 2) + 1 \/ x = 2 * (x \div 2))
    OBVIOUS
  <2>2. x # 2 * (x \div 2) + 1
    BY <1>0, <2>1, LowBits
  <2>3. x \div 2 \in Nat \ {0} /\ x = 2 * (x \div 2)
    BY <2>1, <2>2
  <2>4. QED
    BY <2>3
<1>1. ASSUME NEW n \in Nat PROVE 2 * n + 1 \in T
  <2>1. SUFFICES ASSUME LowBit(2 * n + 1) = 2 * n + 1, NEW x \in Nat, x = 0 \/ LowBit(x) >= 2 * (2 * n + 1)
                 PROVE  LowBit(x + (2 * n + 1)) = 2 * n + 1
    OBVIOUS
  <2>2. n = 0
    BY <2>1, LowBits
  <2>3. CASE x = 0
    BY <2>1, <2>3
  <2>4. CASE x # 0
    <3>1. LowBit(x) > 1
      <4>1. LowBit(x) \in 1 .. x
        BY <2>4, LowBits
      <4>2. QED
        BY <2>1, <2>2, <2>4, <4>1
    <3>2. PICK y \in Nat \ {0} : x = 2 * y
      BY <1>0, <2>4, <3>1
    <3>3. LowBit(2 * y + 1) = 1
      BY LowBits
    <3>4. QED
      BY <2>2, <3>2, <3>3
  <2>5. QED
    BY <2>3, <2>4
<1>2. ASSUME NEW n \in Nat \ {0}, n \in T PROVE 2 * n \in T
  <2>1. SUFFICES ASSUME LowBit(2 * n) = 2 * n, NEW x \in Nat, x = 0 \/ LowBit(x) >= 2 * (2 * n)
                 PROVE  LowBit(x + 2 * n) = 2 * n
    OBVIOUS
  <2>2. LowBit(2 * n) = 2 * LowBit(n) /\ LowBit(n) \in 1 .. n
    BY LowBits
  <2>3. CASE x = 0
    BY <2>1, <2>3
  <2>4. CASE x # 0
    <3>1. LowBit(x) > 1
      <4>1. LowBit(x) \in 1 .. x
        BY <2>4, LowBits
      <4>2. QED
        BY <2>1, <2>4, <4>1
    <3>2. PICK y \in Nat \ {0} : x = 2 * y
      BY <1>0, <2>4, <3>1
    <3>3. LowBit(2 * y) = 2 * LowBit(y) /\ LowBit(y) \in 1 .. y
      BY LowBits
    <3>4. LowBit(y) >= 2 * n
      BY <2>1, <2>4, <3>2, <3>3
    <3>5. LowBit(n) = n
      BY <2>1, <2>2
    <3>6. LowBit(y + n) = n
      BY <1>2, <3>4, <3>5
    <3>7. LowBit(2 * (y + n)) = 2 * LowBit(y + n)
      BY LowBits
    <3>8. x + 2 * n = 2 * (y + n)
      BY <3>2
    <3>9. QED
      BY <3>6, <3>7, <3>8
  <2>5. QED
    BY <2>3, <2>4
<1> HIDE DEF T
<1>3. Nat \ {0} \subseteq T
  BY <1>1, <1>2, Halving
<1>4. QED
  BY <1>3 DEF T

(* One step again and again. *)
Repeater(N, V, x, F) == N \in Nat /\ x \in V /\ F \in [V -> V]
RepeatOf(f, N, V, x, F) == f \in [0 .. N -> V] /\ f[0] = x /\ \A k \in 1 .. N : f[k] = F[f[k - 1]]
LEMMA Repeats ==
  ASSUME NEW N, NEW V, NEW x, NEW F, Repeater(N, V, x, F)
  PROVE  \E f : RepeatOf(f, N, V, x, F)
<1>0. N \in Nat /\ x \in V /\ F \in [V -> V]
  BY DEF Repeater
<1> DEFINE M == [k \in 1 .. N |-> F]
<1>1. M \in [1 .. N -> [V -> V]]
  BY <1>0
<1>2. PICK f : RunOf(f, N, V, x, M)
  <2> HIDE DEF M
  <2>1. QED
    BY <1>0, <1>1, Recursion DEF Machine
<1>3. f \in [0 .. N -> V] /\ f[0] = x /\ \A k \in 1 .. N : f[k] = F[f[k - 1]]
  BY <1>0, <1>2 DEF RunOf
<1>4. QED
  BY <1>3 DEF RepeatOf

(* The sums that hold a slot, found by steps upwards, are those whose block it is in. *)
InBlock(i, s) == i - LowBit(i) < s /\ s <= i
LEMMA BlocksRun ==
  ASSUME NEW n \in Nat, NEW s \in Nat \ {0}
  PROVE  \E u \in [0 .. n -> Nat \ {0}] :
           /\ u[0] = s /\ Blocks(n, s) = {u[k] : k \in 0 .. n}
           /\ \A k \in 1 .. n : u[k] = IF u[k - 1] > n THEN u[k - 1] ELSE u[k - 1] + LowBit(u[k - 1])
<1> DEFINE V == Nat \ {0}
           B(v) == IF v > n THEN v ELSE v + LowBit(v)
           F == [v \in V |-> B(v)]
           Is(f) == f = [k \in 0 .. n |-> IF k = 0 THEN s ELSE IF f[k - 1] > n THEN f[k - 1] ELSE f[k - 1] + LowBit(f[k - 1])]
           c == CHOOSE f : Is(f)
<1>1. F \in [V -> V]
  <2>1. ASSUME NEW v \in V PROVE B(v) \in V
    <3>1. LowBit(v) \in 1 .. v
      BY LowBits
    <3>2. QED
      BY <3>1
  <2> HIDE DEF B
  <2>2. QED
    BY <2>1
<1>2. PICK f \in [0 .. n -> V] : f[0] = s /\ \A k \in 1 .. n : f[k] = F[f[k - 1]]
  <2>1. s \in V
    OBVIOUS
  <2> HIDE DEF F, V
  <2>2. \E f : RepeatOf(f, n, V, s, F)
    BY <1>1, <2>1, Repeats DEF Repeater
  <2>3. QED
    BY <2>2 DEF RepeatOf
<1>3. \A k \in 1 .. n : f[k - 1] \in V
  BY <1>2
<1>4. \A k \in 1 .. n : f[k] = B(f[k - 1])
  <2> HIDE DEF B
  <2>1. QED
    BY <1>2, <1>3
<1>5. Is(f)
  <2>1. \A k \in 0 .. n : k = 0 \/ k \in 1 .. n
    OBVIOUS
  <2>2. QED
    BY <1>2, <1>4, <2>1
<1>6. Is(c)
  <2> HIDE DEF Is
  <2>1. QED
    BY <1>5, Zenon
<1> HIDE DEF c
<1>7. \A k \in 0 .. n : c[k] = f[k]
  <2> DEFINE T == {k \in Nat : k <= n => c[k] = f[k]}
  <2>1. 0 \in T
    BY <1>2, <1>6
  <2>2. ASSUME NEW k \in Nat, k \in T PROVE k + 1 \in T
    <3>1. SUFFICES ASSUME k + 1 <= n PROVE c[k + 1] = f[k + 1]
      OBVIOUS
    <3>2. k + 1 \in 1 .. n /\ k + 1 \in 0 .. n /\ (k + 1) - 1 = k /\ k + 1 # 0
      BY <3>1
    <3>3. c[k] = f[k]
      BY <2>2, <3>1
    <3>4. c[k + 1] = B(c[k])
      BY <1>6, <3>2
    <3>5. f[k + 1] = B(f[k])
      BY <1>4, <3>2
    <3> HIDE DEF B
    <3>6. QED
      BY <3>3, <3>4, <3>5
  <2> HIDE DEF T
  <2>3. Nat \subseteq T
    BY <2>1, <2>2, Induct
  <2>4. QED
    BY <2>3 DEF T
<1>8. Blocks(n, s) = {c[k] : k \in 0 .. n}
  BY DEF Blocks, c
<1>9. Blocks(n, s) = {f[k] : k \in 0 .. n}
  BY <1>7, <1>8
<1>10. QED
  BY <1>2, <1>4, <1>9
LEMMA BlocksAre ==
  ASSUME NEW n \in Nat, NEW s \in 1 .. n, NEW i \in 1 .. n
  PROVE  i \in Blocks(n, s) <=> InBlock(i, s)
<1>0. s \in Nat \ {0} /\ i \in Nat \ {0}
  OBVIOUS
<1>1. PICK u \in [0 .. n -> Nat \ {0}] :
         /\ u[0] = s /\ Blocks(n, s) = {u[k] : k \in 0 .. n}
         /\ \A k \in 1 .. n : u[k] = IF u[k - 1] > n THEN u[k - 1] ELSE u[k - 1] + LowBit(u[k - 1])
  BY <1>0, BlocksRun
<1>2. ASSUME i \in Blocks(n, s) PROVE InBlock(i, s)
  <2> DEFINE T == {k \in Nat : k <= n /\ u[k] <= n => InBlock(u[k], s)}
  <2>1. 0 \in T
    <3>1. LowBit(s) \in 1 .. s
      BY <1>0, LowBits
    <3>2. QED
      BY <1>1, <3>1 DEF InBlock
  <2>2. ASSUME NEW k \in Nat, k \in T PROVE k + 1 \in T
    <3>1. SUFFICES ASSUME k + 1 <= n, u[k + 1] <= n PROVE InBlock(u[k + 1], s)
      OBVIOUS
    <3>2. k + 1 \in 1 .. n /\ (k + 1) - 1 = k /\ k \in 0 .. n
      BY <3>1
    <3>3. u[k] \in Nat \ {0} /\ u[k] <= n /\ u[k + 1] = u[k] + LowBit(u[k])
      BY <1>1, <3>1, <3>2
    <3>4. u[k] - LowBit(u[k]) < s /\ s <= u[k]
      BY <2>2, <3>2, <3>3 DEF InBlock
    <3>5. LowBit(u[k + 1]) >= 2 * LowBit(u[k]) /\ LowBit(u[k]) \in 1 .. u[k]
      BY <3>3, BitAhead, LowBits
    <3>6. u[k + 1] \in Nat \ {0} /\ LowBit(u[k + 1]) \in 1 .. u[k + 1]
      <4>1. u[k + 1] \in Nat \ {0}
        BY <3>3, <3>5
      <4>2. QED
        BY <4>1, LowBits
    <3> DEFINE x == u[k]
               y == u[k + 1]
               lx == LowBit(x)
               ly == LowBit(y)
    <3>7. x \in Int /\ y \in Int /\ lx \in Int /\ ly \in Int /\ s \in Int
      BY <1>0, <3>3, <3>5, <3>6
    <3>8. y = x + lx /\ lx >= 1 /\ ly >= 2 * lx /\ x - lx < s /\ s <= x
      BY <3>3, <3>4, <3>5
    <3> HIDE DEF x, y, lx, ly
    <3>9. y - ly < s /\ s <= y
      BY <3>7, <3>8
    <3>10. QED
      BY <3>9 DEF InBlock, y, ly
  <2> HIDE DEF T
  <2>3. Nat \subseteq T
    BY <2>1, <2>2, Induct
  <2>4. PICK k \in 0 .. n : i = u[k]
    BY <1>1, <1>2
  <2>5. k \in T
    BY <2>3
  <2>6. QED
    BY <2>4, <2>5 DEF T
<1>3. ASSUME InBlock(i, s) PROVE i \in Blocks(n, s)
  <2> DEFINE T == {k \in Nat : k <= n => (u[k] <= i /\ u[k] >= s + k) \/ \E j \in 0 .. n : u[j] = i}
  <2>1. 0 \in T
    BY <1>1, <1>3 DEF InBlock
  <2>2. ASSUME NEW k \in Nat, k \in T PROVE k + 1 \in T
    <3>1. SUFFICES ASSUME k + 1 <= n, \A j \in 0 .. n : u[j] # i PROVE u[k + 1] <= i /\ u[k + 1] >= s + (k + 1)
      OBVIOUS
    <3>2. k + 1 \in 1 .. n /\ (k + 1) - 1 = k /\ k \in 0 .. n
      BY <3>1
    <3>3. u[k] \in Nat \ {0} /\ u[k] < i /\ u[k] >= s + k
      BY <2>2, <3>1, <3>2
    <3>4. u[k + 1] = u[k] + LowBit(u[k]) /\ LowBit(u[k]) \in 1 .. u[k]
      <4>1. LowBit(u[k]) \in 1 .. u[k]
        BY <3>3, LowBits
      <4>2. ~(u[k] > n)
        BY <3>3
      <4>3. u[k + 1] = IF u[k] > n THEN u[k] ELSE u[k] + LowBit(u[k])
        BY <1>1, <3>2
      <4>4. QED
        BY <4>1, <4>2, <4>3
    <3>5. i - LowBit(i) < u[k]
      <4>1. LowBit(i) \in 1 .. i
        BY LowBits
      <4>2. QED
        BY <1>3, <3>3, <4>1 DEF InBlock
    <3>6. u[k] + LowBit(u[k]) <= i
      BY <3>3, <3>5, BitInside
    <3>7. QED
      BY <3>3, <3>4, <3>6
  <2> HIDE DEF T
  <2>3. Nat \subseteq T
    BY <2>1, <2>2, Induct
  <2>4. n \in T
    BY <2>3
  <2>5. \E j \in 0 .. n : u[j] = i
    BY <2>4, <1>1 DEF T
  <2>6. QED
    BY <1>1, <2>5
<1>4. QED
  BY <1>2, <1>3

(* The tree holds the sums of its blocks. *)
Block(i) == (i - LowBit(i) + 1) .. i
Weighs(W, n) == n \in Nat /\ W \in [1 .. n -> Nat]
Fen(f, n, W) == /\ f = [tree |-> f.tree, values |-> f.values]
                /\ Weighs(W, n) /\ f.values = W /\ f.tree \in [1 .. n -> Int]
                /\ \A i \in 1 .. n : f.tree[i] = Summed(W, Block(i))
UpTo(W, i) == Summed(W, 1 .. i)
LEMMA SumChanges ==
  ASSUME NEW S, IsFiniteSet(S), NEW F, IntOn(F, S), NEW s, NEW w \in Int, NEW G,
         \A x \in S : G[x] = IF x = s THEN w ELSE F[x]
  PROVE  Summed(G, S) = Summed(F, S) + (IF s \in S THEN w - F[s] ELSE 0)
<1>1. CASE s \notin S
  <2>1. \A x \in S : F[x] = G[x]
    BY <1>1
  <2>2. Summed(F, S) = Summed(G, S) /\ Summed(F, S) \in Int
    BY <2>1, SumAgrees, SumInt
  <2>3. QED
    BY <1>1, <2>2
<1>2. CASE s \in S
  <2> DEFINE R == S \ {s}
  <2>1. IsFiniteSet(R) /\ R \subseteq S
    BY FS_Subset
  <2>2. IntOn(F, R) /\ IntOn(G, S) /\ \A x \in R : F[x] = G[x]
    BY DEF IntOn
  <2> HIDE DEF R
  <2>3. Summed(F, R) = Summed(G, R) /\ Summed(F, R) \in Int
    BY <2>1, <2>2, SumAgrees, SumInt
  <2>4. Summed(F, S) = F[s] + Summed(F, R)
    BY <1>2, SumTakes DEF R
  <2>5. Summed(G, S) = G[s] + Summed(G, R)
    BY <1>2, <2>2, SumTakes DEF R
  <2>6. F[s] \in Int /\ G[s] = w
    BY <1>2 DEF IntOn
  <2>7. QED
    BY <1>2, <2>3, <2>4, <2>5, <2>6
<1>3. QED
  BY <1>1, <1>2
LEMMA Between ==
  ASSUME NEW W, NEW n, Weighs(W, n), NEW a \in Nat, NEW b \in Nat, b <= n
  PROVE  /\ IsFiniteSet((a + 1) .. b) /\ IntOn(W, (a + 1) .. b)
         /\ Summed(W, (a + 1) .. b) \in Nat
<1>1. n \in Nat /\ W \in [1 .. n -> Nat]
  BY DEF Weighs
<1>2. IsFiniteSet((a + 1) .. b)
  BY FS_Interval
<1>3. IntOn(W, (a + 1) .. b) /\ \A x \in (a + 1) .. b : W[x] \in Nat
  BY <1>1 DEF IntOn
<1>4. Summed(W, (a + 1) .. b) \in Int
  BY <1>2, <1>3, SumInt
<1> DEFINE S == (a + 1) .. b
           P == {T \in SUBSET S : Summed(W, T) >= 0}
<1>5. {} \in P
  BY SumEmpty
<1>6. ASSUME NEW T \in P, T \subseteq S, NEW x \in S \ T PROVE T \cup {x} \in P
  <2>1. IsFiniteSet(T)
    BY <1>2, FS_Subset
  <2>2. IntOn(W, T) /\ W[x] \in Nat
    BY <1>3 DEF IntOn
  <2>3. Summed(W, T \cup {x}) = W[x] + Summed(W, T) /\ Summed(W, T) \in Int
    BY <2>1, <2>2, SumAdds, SumInt
  <2>4. QED
    BY <2>2, <2>3
<1>7. IsFiniteSet(S)
  BY <1>2
<1> HIDE DEF P, S
<1>8. S \in P
  BY <1>5, <1>6, <1>7, SetInduct
<1>9. QED
  BY <1>2, <1>3, <1>4, <1>8 DEF P, S
LEMMA UpToGrows ==
  ASSUME NEW W, NEW n, Weighs(W, n), NEW a \in Nat, NEW b \in Nat, a <= b, b <= n
  PROVE  UpTo(W, b) = UpTo(W, a) + Summed(W, (a + 1) .. b) /\ UpTo(W, a) \in Nat /\ UpTo(W, a) <= UpTo(W, b)
<1>0. n \in Nat
  BY DEF Weighs
<1>1. 0 \in Nat /\ a <= n /\ 0 + 1 = 1
  BY <1>0
<1>2. IsFiniteSet((0 + 1) .. a) /\ IntOn(W, (0 + 1) .. a) /\ Summed(W, (0 + 1) .. a) \in Nat
  BY <1>0, <1>1, Between
<1>3. IsFiniteSet((a + 1) .. b) /\ IntOn(W, (a + 1) .. b) /\ Summed(W, (a + 1) .. b) \in Nat
  BY Between
<1>4. (1 .. a) \cap ((a + 1) .. b) = {} /\ (1 .. a) \cup ((a + 1) .. b) = 1 .. b
  OBVIOUS
<1>5. Summed(W, (1 .. a) \cup ((a + 1) .. b)) = Summed(W, 1 .. a) + Summed(W, (a + 1) .. b)
  BY <1>2, <1>3, <1>4, <1>1, SumUnion
<1>6. Summed(W, 1 .. a) \in Nat
  BY <1>1, <1>2
<1>7. Summed(W, 1 .. b) = Summed(W, 1 .. a) + Summed(W, (a + 1) .. b)
  BY <1>4, <1>5
<1>8. QED
  BY <1>3, <1>6, <1>7 DEF UpTo
LEMMA BlockOf ==
  ASSUME NEW i \in Nat \ {0}
  PROVE  /\ LowBit(i) \in 1 .. i /\ i - LowBit(i) \in Nat
         /\ \A s \in Int : s \in Block(i) <=> InBlock(i, s)
<1>1. LowBit(i) \in 1 .. i
  BY LowBits
<1>2. QED
  BY <1>1 DEF Block, InBlock

(* new and set keep it so. *)
LEMMA NewTreeFen ==
  ASSUME NEW n \in Nat
  PROVE  Fen(NewTree(n), n, [i \in 1 .. n |-> 0])
<1> DEFINE W == [i \in 1 .. n |-> 0]
<1>1. Weighs(W, n) /\ NewTree(n).values = W /\ NewTree(n).tree \in [1 .. n -> Int]
  BY DEF Weighs, NewTree
<1>2. ASSUME NEW i \in 1 .. n PROVE NewTree(n).tree[i] = Summed(W, Block(i))
  <2>1. i \in Nat \ {0}
    OBVIOUS
  <2>2. LowBit(i) \in 1 .. i /\ i - LowBit(i) \in Nat
    BY <2>1, BlockOf
  <2>3. IsFiniteSet(Block(i)) /\ Block(i) \subseteq 1 .. n
    <3>1. i - LowBit(i) + 1 \in Int /\ i \in Int
      BY <2>1, <2>2
    <3>2. IsFiniteSet((i - LowBit(i) + 1) .. i)
      BY <3>1, FS_Interval
    <3>3. QED
      BY <2>2, <3>2 DEF Block
  <2>4. \A x \in Block(i) : W[x] = 0
    BY <2>3
  <2>5. Cardinality(Block(i)) \in Nat
    BY <2>3, FS_CardinalityType
  <2> HIDE DEF W
  <2>6. Summed(W, Block(i)) = 0 * Cardinality(Block(i))
    BY <2>3, <2>4, SumEqual
  <2>7. QED
    BY <2>5, <2>6 DEF NewTree
<1> HIDE DEF W
<1>3. NewTree(n) = [tree |-> NewTree(n).tree, values |-> NewTree(n).values]
  BY DEF NewTree
<1>5. Fen(NewTree(n), n, W)
  BY <1>1, <1>2, <1>3 DEF Fen
<1>4. QED
  BY <1>5 DEF W
LEMMA SetWeightFen ==
  ASSUME NEW f, NEW n, NEW W, Fen(f, n, W), NEW s \in 1 .. n, NEW w \in Nat
  PROVE  Fen(SetWeight(f, s, w), n, [W EXCEPT ![s] = w])
<1> DEFINE X == [W EXCEPT ![s] = w]
           g == SetWeight(f, s, w)
<1>1. n \in Nat /\ W \in [1 .. n -> Nat] /\ f.values = W /\ f.tree \in [1 .. n -> Int]
  BY DEF Fen, Weighs
<1>2. Len(f.values) = n
  <2>1. W \in Seq(Nat) /\ DOMAIN W = 1 .. n
    BY <1>1
  <2>2. QED
    BY <1>1, <2>1
<1>3. g.values = X /\ g.tree = [i \in 1 .. n |-> f.tree[i] + (IF i \in Blocks(n, s) THEN w - W[s] ELSE 0)]
  <2>1. DOMAIN f.tree = 1 .. n
    BY <1>1
  <2>2. QED
    BY <1>1, <1>2, <2>1 DEF SetWeight
<1>10. g = [tree |-> g.tree, values |-> g.values]
  BY DEF SetWeight
<1>4. Weighs(X, n) /\ \A x \in 1 .. n : X[x] = IF x = s THEN w ELSE W[x]
  BY <1>1 DEF Weighs
<1>5. W[s] \in Nat
  BY <1>1
<1>6. g.tree \in [1 .. n -> Int]
  <2>1. \A i \in 1 .. n : f.tree[i] + (IF i \in Blocks(n, s) THEN w - W[s] ELSE 0) \in Int
    BY <1>1, <1>5
  <2> HIDE DEF g
  <2>2. QED
    BY <1>3, <2>1
<1> HIDE DEF X, g
<1>7. ASSUME NEW i \in 1 .. n PROVE g.tree[i] = Summed(X, Block(i))
  <2>1. i \in Nat \ {0}
    OBVIOUS
  <2>2. LowBit(i) \in 1 .. i /\ i - LowBit(i) \in Nat
    BY <2>1, BlockOf
  <2>3. IsFiniteSet(Block(i)) /\ Block(i) \subseteq 1 .. n
    <3>1. i - LowBit(i) + 1 \in Int /\ i \in Int
      BY <2>1, <2>2
    <3>2. IsFiniteSet((i - LowBit(i) + 1) .. i)
      BY <3>1, FS_Interval
    <3>3. QED
      BY <1>1, <2>2, <3>2 DEF Block
  <2>4. IntOn(W, Block(i)) /\ \A x \in Block(i) : X[x] = IF x = s THEN w ELSE W[x]
    BY <1>1, <1>4, <2>3 DEF IntOn
  <2>5. Summed(X, Block(i)) = Summed(W, Block(i)) + (IF s \in Block(i) THEN w - W[s] ELSE 0)
    <3>1. w \in Int
      OBVIOUS
    <3>2. IsFiniteSet(Block(i)) /\ IntOn(W, Block(i))
      BY <2>3, <2>4
    <3>3. \A x \in Block(i) : X[x] = IF x = s THEN w ELSE W[x]
      BY <2>4
    <3>4. QED
      BY <3>1, <3>2, <3>3, SumChanges
  <2>6. s \in Block(i) <=> i \in Blocks(n, s)
    <3>1. s \in Int
      BY <1>1
    <3>2. i \in Blocks(n, s) <=> InBlock(i, s)
      BY <1>1, BlocksAre
    <3>3. s \in Block(i) <=> InBlock(i, s)
      BY <2>1, <3>1, BlockOf
    <3>4. QED
      BY <3>2, <3>3
  <2>7. f.tree[i] = Summed(W, Block(i))
    BY DEF Fen
  <2>8. g.tree[i] = f.tree[i] + (IF i \in Blocks(n, s) THEN w - W[s] ELSE 0)
    BY <1>3
  <2>9. QED
    BY <2>5, <2>6, <2>7, <2>8
<1>8. Fen(g, n, X)
  BY <1>3, <1>4, <1>6, <1>7, <1>10 DEF Fen
<1>9. QED
  BY <1>8 DEF g, X

(* total walks down from the last slot, block by block. *)
LEMMA TotalIs ==
  ASSUME NEW f, NEW n, NEW W, Fen(f, n, W)
  PROVE  Total(f) = UpTo(W, n)
<1> DEFINE V == [at : 0 .. n, sum : Int]
           D(d) == IF d.at = 0 THEN d ELSE [at |-> d.at - LowBit(d.at), sum |-> d.sum + f.tree[d.at]]
           F == [d \in V |-> D(d)]
           x == [at |-> n, sum |-> 0]
           Is(g) == g = [k \in 0 .. n |-> IF k = 0 THEN x ELSE D(g[k - 1])]
           c == CHOOSE g : Is(g)
<1>1. n \in Nat /\ W \in [1 .. n -> Nat] /\ f.values = W /\ f.tree \in [1 .. n -> Int] /\ Weighs(W, n)
  BY DEF Fen, Weighs
<1>2. Len(f.values) = n
  <2>1. W \in Seq(Nat) /\ DOMAIN W = 1 .. n
    BY <1>1
  <2>2. QED
    BY <1>1, <2>1
<1>3. ASSUME NEW d \in V PROVE D(d) \in V
  <2>1. CASE d.at = 0
    BY <2>1
  <2>2. CASE d.at # 0
    <3>1. d.at \in 1 .. n /\ d.at \in Nat \ {0} /\ d.sum \in Int
      BY <1>1, <2>2
    <3>2. LowBit(d.at) \in 1 .. d.at
      BY <3>1, LowBits
    <3>3. f.tree[d.at] \in Int
      BY <1>1, <3>1
    <3>4. d.at - LowBit(d.at) \in 0 .. n /\ d.sum + f.tree[d.at] \in Int
      BY <1>1, <3>1, <3>2, <3>3
    <3>5. QED
      BY <2>2, <3>4
  <2>3. QED
    BY <2>1, <2>2
<1>4. x \in V
  BY <1>1
<1>5. \E g : Is(g)
  <2>1. F \in [V -> V]
    <3> HIDE DEF D, V
    <3>1. QED
      BY <1>3
  <2>2. PICK g : RepeatOf(g, n, V, x, F)
    <3> HIDE DEF F, V, x
    <3>1. QED
      BY <1>1, <1>4, <2>1, Repeats DEF Repeater
  <2>3. g \in [0 .. n -> V] /\ g[0] = x /\ \A k \in 1 .. n : g[k] = F[g[k - 1]]
    BY <2>2 DEF RepeatOf
  <2>4. \A k \in 1 .. n : k - 1 \in 0 .. n
    BY <1>1
  <2>5. \A k \in 1 .. n : g[k] = D(g[k - 1])
    <3> HIDE DEF D, V
    <3>1. QED
      BY <2>3, <2>4
  <2>6. \A k \in 0 .. n : k = 0 \/ k \in 1 .. n
    BY <1>1
  <2>7. Is(g)
    <3> HIDE DEF D, V, x
    <3>1. QED
      BY <2>3, <2>5, <2>6
  <2>8. QED
    BY <2>7
<1>6. Is(c)
  <2> HIDE DEF Is
  <2>1. QED
    BY <1>5, Zenon
<1>7. Total(f) = c[n].sum
  BY <1>2 DEF Total, c
<1>8. c[0] = x /\ \A k \in 1 .. n : c[k] = D(c[k - 1])
  <2> HIDE DEF c, D, x
  <2>1. QED
    BY <1>1, <1>6
<1> DEFINE Q(k) == c[k] \in V /\ c[k].at <= n - k /\ c[k].sum = UpTo(W, n) - UpTo(W, c[k].at)
           T == {k \in Nat : k <= n => Q(k)}
<1> HIDE DEF c
<1>9. 0 \in T
  <2>1. UpTo(W, n) \in Nat
    BY <1>1, UpToGrows
  <2>2. QED
    BY <1>4, <1>8, <2>1
<1>10. ASSUME NEW k \in Nat, k \in T PROVE k + 1 \in T
  <2>1. SUFFICES ASSUME k + 1 <= n PROVE Q(k + 1)
    OBVIOUS
  <2>2. k + 1 \in 1 .. n /\ (k + 1) - 1 = k
    BY <2>1
  <2>3. Q(k)
    BY <1>1, <1>10, <2>1
  <2>4. c[k + 1] = D(c[k])
    BY <1>8, <2>2
  <2>5. D(c[k]) \in V
    <3> HIDE DEF D, V
    <3>1. QED
      BY <1>3, <2>3
  <2>6. CASE c[k].at = 0
    <3>1. c[k + 1] = c[k]
      BY <2>4, <2>6
    <3>2. QED
      BY <1>1, <2>1, <2>3, <2>6, <3>1
  <2>7. CASE c[k].at # 0
    <3> DEFINE a == c[k].at
    <3>1. a \in 1 .. n /\ a \in Nat \ {0} /\ a <= n - k
      BY <1>1, <2>3, <2>7
    <3>2. LowBit(a) \in 1 .. a /\ a - LowBit(a) \in Nat
      BY <3>1, LowBits
    <3>3. c[k + 1].at = a - LowBit(a) /\ c[k + 1].sum = c[k].sum + f.tree[a]
      BY <2>4, <2>7
    <3>4. f.tree[a] = Summed(W, Block(a))
      BY <3>1 DEF Fen
    <3>5. UpTo(W, a) = UpTo(W, a - LowBit(a)) + Summed(W, Block(a)) /\ UpTo(W, a - LowBit(a)) \in Nat
      <4>1. a \in Nat /\ a <= n /\ a - LowBit(a) \in Nat /\ a - LowBit(a) <= a
        BY <1>1, <3>1, <3>2
      <4>2. UpTo(W, a) = UpTo(W, a - LowBit(a)) + Summed(W, ((a - LowBit(a)) + 1) .. a) /\ UpTo(W, a - LowBit(a)) \in Nat
        BY <1>1, <4>1, UpToGrows
      <4>3. QED
        BY <4>2 DEF Block
    <3>6. UpTo(W, a) \in Nat /\ UpTo(W, n) \in Nat
      <4>1. a \in Nat /\ a <= a /\ a <= n /\ n <= n
        BY <1>1, <3>1
      <4>2. QED
        BY <1>1, <4>1, UpToGrows
    <3>7. Summed(W, Block(a)) \in Int
      <4>1. a - LowBit(a) \in Nat /\ a \in Nat /\ a <= n
        BY <3>1, <3>2
      <4>2. Summed(W, ((a - LowBit(a)) + 1) .. a) \in Nat
        BY <1>1, <4>1, Between
      <4>3. QED
        BY <4>2 DEF Block
    <3>8. c[k + 1].sum = UpTo(W, n) - UpTo(W, a - LowBit(a))
      BY <2>3, <3>3, <3>4, <3>5, <3>6, <3>7
    <3>9. c[k + 1].at <= n - (k + 1)
      BY <1>1, <3>1, <3>2, <3>3
    <3>10. QED
      BY <2>4, <2>5, <3>3, <3>8, <3>9
  <2>8. QED
    BY <2>6, <2>7
<1> HIDE DEF T, Q
<1>11. Nat \subseteq T
  BY <1>9, <1>10, Induct
<1>12. Q(n)
  BY <1>1, <1>11 DEF T
<1>13. c[n].at = 0 /\ c[n].sum = UpTo(W, n) - UpTo(W, c[n].at)
  BY <1>1, <1>12 DEF Q
<1>14. UpTo(W, 0) = 0
  <2>1. 1 .. 0 = {}
    OBVIOUS
  <2>2. QED
    BY <2>1, SumEmpty DEF UpTo
<1>15. UpTo(W, n) \in Nat
  BY <1>1, UpToGrows
<1>16. QED
  BY <1>7, <1>13, <1>14, <1>15
LEMMA TopStepIs ==
  ASSUME NEW n \in Nat \ {0}
  PROVE  TopStep(n) \in 1 .. n /\ LowBit(TopStep(n)) = TopStep(n) /\ n < 2 * TopStep(n)
<1> DEFINE D(d) == IF d <= n \div 2 THEN 2 * d ELSE d
           F == [d \in Nat |-> D(d)]
           Is(g) == g = [k \in 0 .. n |-> IF k = 0 THEN 1 ELSE D(g[k - 1])]
           c == CHOOSE g : Is(g)
<1>1. \E g : Is(g)
  <2>1. F \in [Nat -> Nat]
    OBVIOUS
  <2>2. PICK g : RepeatOf(g, n, Nat, 1, F)
    <3> HIDE DEF F
    <3>1. QED
      BY <2>1, Repeats DEF Repeater
  <2>3. g \in [0 .. n -> Nat] /\ g[0] = 1 /\ \A k \in 1 .. n : g[k] = F[g[k - 1]]
    BY <2>2 DEF RepeatOf
  <2>4. \A k \in 1 .. n : k - 1 \in 0 .. n
    OBVIOUS
  <2>5. \A k \in 1 .. n : g[k] = D(g[k - 1])
    <3> HIDE DEF D
    <3>1. QED
      BY <2>3, <2>4
  <2>6. \A k \in 0 .. n : k = 0 \/ k \in 1 .. n
    OBVIOUS
  <2>7. Is(g)
    <3> HIDE DEF D
    <3>1. QED
      BY <2>3, <2>5, <2>6
  <2>8. QED
    BY <2>7
<1>2. Is(c)
  <2> HIDE DEF Is
  <2>1. QED
    BY <1>1, Zenon
<1>3. TopStep(n) = c[n]
  BY DEF TopStep, c
<1>4. c[0] = 1 /\ \A k \in 1 .. n : c[k] = D(c[k - 1])
  <2> HIDE DEF c, D
  <2>1. QED
    BY <1>2
<1> DEFINE Q(d) == d \in 1 .. n /\ LowBit(d) = d
           T == {k \in Nat : k <= n => Q(c[k]) /\ (c[k] > k \/ c[k] > n \div 2)}
<1> HIDE DEF c
<1>5. 0 \in T
  <2>1. LowBit(1) = 1
    BY LowBits
  <2>2. QED
    BY <1>4, <2>1
<1>6. ASSUME NEW k \in Nat, k \in T PROVE k + 1 \in T
  <2>1. SUFFICES ASSUME k + 1 <= n PROVE Q(c[k + 1]) /\ (c[k + 1] > k + 1 \/ c[k + 1] > n \div 2)
    OBVIOUS
  <2>2. k + 1 \in 1 .. n /\ (k + 1) - 1 = k /\ k <= n
    BY <2>1
  <2>3. Q(c[k]) /\ (c[k] > k \/ c[k] > n \div 2)
    BY <1>6, <2>2
  <2>4. c[k + 1] = D(c[k])
    BY <1>4, <2>2
  <2>5. CASE c[k] <= n \div 2
    <3>1. c[k] \in Nat \ {0} /\ c[k] > k /\ c[k + 1] = 2 * c[k]
      BY <2>3, <2>4, <2>5
    <3>2. LowBit(2 * c[k]) = 2 * LowBit(c[k])
      BY <3>1, LowBits
    <3>3. 2 * c[k] \in 1 .. n
      BY <2>5, <3>1
    <3>4. QED
      BY <2>3, <3>1, <3>2, <3>3
  <2>6. CASE ~(c[k] <= n \div 2)
    <3>1. c[k + 1] = c[k]
      BY <2>4, <2>6
    <3>2. QED
      BY <2>3, <2>6, <3>1
  <2>7. QED
    BY <2>5, <2>6
<1> HIDE DEF T
<1>7. Nat \subseteq T
  BY <1>5, <1>6, Induct
<1>8. Q(c[n]) /\ (c[n] > n \/ c[n] > n \div 2)
  BY <1>7 DEF T
<1>9. QED
  BY <1>3, <1>8

(* first_prefix_greater_than: of all slots, the one in whose part the draw falls. *)
LEMMA HalfStep ==
  ASSUME NEW s \in Nat \ {0}, LowBit(s) = s
  PROVE  \/ s = 1 /\ s \div 2 = 0
         \/ s = 2 * (s \div 2) /\ s \div 2 \in Nat \ {0} /\ LowBit(s \div 2) = s \div 2
<1>1. s \div 2 \in Nat /\ (s = 2 * (s \div 2) + 1 \/ s = 2 * (s \div 2))
  OBVIOUS
<1>2. CASE s = 2 * (s \div 2) + 1
  <2>1. LowBit(s) = 1
    BY <1>1, <1>2, LowBits
  <2>2. QED
    BY <1>1, <1>2, <2>1
<1>3. CASE s = 2 * (s \div 2)
  <2>1. s \div 2 \in Nat \ {0}
    BY <1>1, <1>3
  <2>2. LowBit(2 * (s \div 2)) = 2 * LowBit(s \div 2) /\ LowBit(s \div 2) \in 1 .. s \div 2
    BY <2>1, LowBits
  <2>3. QED
    BY <1>3, <2>1, <2>2
<1>4. QED
  BY <1>1, <1>2, <1>3
Walked(n, W, r, d, span) ==
  /\ d \in [step : Nat, at : 0 .. n, prefix : Int]
  /\ d.prefix = UpTo(W, d.at) /\ d.prefix <= r
  /\ \/ d.step = 0 /\ span = 1
     \/ d.step > 0 /\ LowBit(d.step) = d.step /\ span = 2 * d.step
  /\ d.at = 0 \/ LowBit(d.at) >= span
  /\ \A x \in 1 .. n : x >= d.at + span => UpTo(W, x) > r
StepDown(f, n, r, d) ==
  IF d.step > 0 /\ d.at + d.step <= n /\ d.prefix + f.tree[d.at + d.step] <= r
  THEN [step |-> d.step \div 2, at |-> d.at + d.step, prefix |-> d.prefix + f.tree[d.at + d.step]]
  ELSE [d EXCEPT !.step = @ \div 2]
LEMMA WalkOn ==
  ASSUME NEW f, NEW n, NEW W, Fen(f, n, W), NEW r \in Nat, NEW d, NEW span \in Nat, Walked(n, W, r, d, span)
  PROVE  /\ \E wide \in Nat : Walked(n, W, r, StepDown(f, n, r, d), wide)
         /\ StepDown(f, n, r, d).step = d.step \div 2
<1> DEFINE e == StepDown(f, n, r, d)
           s == d.step
           next == d.at + s
<1>0. n \in Nat /\ Weighs(W, n) /\ f.tree \in [1 .. n -> Int] /\ \A i \in 1 .. n : f.tree[i] = Summed(W, Block(i))
  BY DEF Fen, Weighs
<1>1. /\ s \in Nat /\ d.at \in 0 .. n /\ d.prefix \in Int /\ d.prefix = UpTo(W, d.at) /\ d.prefix <= r
      /\ d = [step |-> s, at |-> d.at, prefix |-> d.prefix]
  BY DEF Walked
<1>2. CASE s = 0
  <2>1. e = d /\ s \div 2 = 0
    BY <1>1, <1>2 DEF StepDown
  <2>2. QED
    BY <1>2, <2>1
<1>3. CASE s > 0
  <2>1. s \in Nat \ {0} /\ LowBit(s) = s /\ span = 2 * s
    BY <1>1, <1>3 DEF Walked
  <2>2. d.at = 0 \/ LowBit(d.at) >= 2 * s
    BY <2>1 DEF Walked
  <2>3. \A x \in 1 .. n : x >= d.at + 2 * s => UpTo(W, x) > r
    BY <2>1 DEF Walked
  <2>4. \/ s \div 2 = 0 /\ s = 1
        \/ s \div 2 > 0 /\ LowBit(s \div 2) = s \div 2 /\ s = 2 * (s \div 2)
    BY <2>1, HalfStep
  <2>5. s \div 2 \in Nat
    BY <1>1
  <2>6. ASSUME next <= n
        PROVE  /\ LowBit(next) = s /\ next \in 1 .. n /\ f.tree[next] \in Int
               /\ d.prefix + f.tree[next] = UpTo(W, next)
    <3>1. next \in 1 .. n /\ d.at \in Nat /\ next \in Nat /\ d.at <= next
      BY <1>0, <1>1, <1>3, <2>6
    <3>2. LowBit(next) = s
      BY <2>1, <2>2, <3>1, BitOfSum
    <3>3. f.tree[next] = Summed(W, (d.at + 1) .. next)
      <4>1. (next - s) + 1 = d.at + 1
        BY <1>1
      <4>2. QED
        BY <1>0, <3>1, <3>2, <4>1 DEF Block
    <3>4. UpTo(W, next) = UpTo(W, d.at) + Summed(W, (d.at + 1) .. next)
      BY <1>0, <2>6, <3>1, UpToGrows
    <3>5. f.tree[next] \in Int
      BY <1>0, <3>1
    <3>6. QED
      BY <1>1, <3>1, <3>2, <3>3, <3>4, <3>5
  <2>7. CASE next <= n /\ d.prefix + f.tree[next] <= r
    <3>1. e = [step |-> s \div 2, at |-> next, prefix |-> d.prefix + f.tree[next]]
      BY <1>3, <2>7 DEF StepDown
    <3>2. e \in [step : Nat, at : 0 .. n, prefix : Int]
      BY <1>0, <1>1, <2>5, <2>6, <2>7, <3>1
    <3>3. \A x \in 1 .. n : x >= next + s => UpTo(W, x) > r
      BY <1>1, <2>3
    <3>4. Walked(n, W, r, e, s)
      <4> HIDE DEF e, next
      <4>1. e.step = s \div 2 /\ e.at = next /\ e.prefix = d.prefix + f.tree[next]
        BY <3>1
      <4>2. LowBit(next) >= s
        BY <1>1, <2>6, <2>7
      <4>3. QED
        BY <2>4, <2>6, <2>7, <3>2, <3>3, <4>1, <4>2 DEF Walked
    <3>5. QED
      BY <1>1, <3>1, <3>4
  <2>8. CASE ~(next <= n /\ d.prefix + f.tree[next] <= r)
    <3>1. e = [step |-> s \div 2, at |-> d.at, prefix |-> d.prefix]
      BY <1>1, <1>3, <2>8 DEF StepDown
    <3>2. e \in [step : Nat, at : 0 .. n, prefix : Int]
      BY <1>1, <2>5, <3>1
    <3>3. ASSUME NEW x \in 1 .. n, x >= next PROVE UpTo(W, x) > r
      <4>1. next <= n
        BY <1>0, <1>1, <3>3
      <4>2. d.prefix + f.tree[next] = UpTo(W, next) /\ d.prefix + f.tree[next] > r /\ next \in 1 .. n
        <5>1. d.prefix + f.tree[next] \in Int
          BY <1>1, <2>6, <4>1
        <5>2. QED
          BY <2>6, <2>8, <4>1, <5>1
      <4>3. UpTo(W, next) <= UpTo(W, x) /\ UpTo(W, next) \in Nat
        BY <1>0, <3>3, <4>2, UpToGrows
      <4>4. UpTo(W, x) \in Nat
        <5>1. x \in Nat /\ x <= x /\ x <= n
          BY <3>3
        <5>2. QED
          BY <1>0, <5>1, UpToGrows
      <4>5. QED
        BY <4>2, <4>3, <4>4
    <3>4. d.at = 0 \/ LowBit(d.at) >= s
      <4>1. d.at = 0 \/ LowBit(d.at) \in Int
        BY <1>1, LowBits
      <4>2. QED
        BY <2>1, <2>2, <4>1
    <3>5. Walked(n, W, r, e, s)
      <4> HIDE DEF e
      <4>1. e.step = s \div 2 /\ e.at = d.at /\ e.prefix = d.prefix
        BY <3>1
      <4>2. QED
        BY <1>1, <2>4, <3>2, <3>3, <3>4, <4>1 DEF Walked
    <3>6. QED
      BY <1>1, <3>1, <3>5
  <2>9. QED
    BY <2>7, <2>8
<1>4. QED
  BY <1>1, <1>2, <1>3

FallsIn(W, n, r, t) == t \in 1 .. n /\ UpTo(W, t - 1) <= r /\ UpTo(W, t) > r
LEMMA FirstPrefixIs ==
  ASSUME NEW f, NEW n, NEW W, Fen(f, n, W), NEW r \in Nat, r < UpTo(W, n)
  PROVE  FallsIn(W, n, r, FirstPrefixGreaterThan(f, r))
<1> DEFINE V == [step : Nat, at : Int, prefix : Int]
           x == [step |-> TopStep(n), at |-> 0, prefix |-> 0]
           D(d) == IF d.step > 0 /\ d.at + d.step <= n /\ d.prefix + f.tree[d.at + d.step] <= r
                   THEN [step |-> d.step \div 2, at |-> d.at + d.step, prefix |-> d.prefix + f.tree[d.at + d.step]]
                   ELSE [d EXCEPT !.step = @ \div 2]
           Is(g) == g = [k \in 0 .. n |-> IF k = 0 THEN x ELSE D(g[k - 1])]
           c == CHOOSE g : Is(g)
<1>1. n \in Nat /\ W \in [1 .. n -> Nat] /\ f.values = W /\ f.tree \in [1 .. n -> Int] /\ Weighs(W, n)
  BY DEF Fen, Weighs
<1>2. Len(f.values) = n
  <2>1. W \in Seq(Nat) /\ DOMAIN W = 1 .. n
    BY <1>1
  <2>2. QED
    BY <1>1, <2>1
<1>3. UpTo(W, 0) = 0
  <2>1. 1 .. 0 = {}
    OBVIOUS
  <2>2. QED
    BY <2>1, SumEmpty DEF UpTo
<1>4. n \in Nat \ {0}
  BY <1>1, <1>3
<1>5. TopStep(n) \in 1 .. n /\ LowBit(TopStep(n)) = TopStep(n) /\ n < 2 * TopStep(n)
  BY <1>4, TopStepIs
<1>6. Walked(n, W, r, x, 2 * TopStep(n))
  <2>1. x \in [step : Nat, at : 0 .. n, prefix : Int]
    BY <1>1, <1>5
  <2>2. \A i \in 1 .. n : ~(i >= x.at + 2 * TopStep(n))
    BY <1>1, <1>5
  <2>3. QED
    BY <1>3, <1>5, <2>1, <2>2 DEF Walked
<1> DEFINE S == {d \in [step : Nat, at : 0 .. n, prefix : Int] : \E span \in Nat : Walked(n, W, r, d, span)}
           F == [d \in S |-> D(d)]
<1>7. ASSUME NEW d \in S PROVE D(d) \in S /\ D(d).step = d.step \div 2
  <2>1. D(d) = StepDown(f, n, r, d)
    BY DEF StepDown
  <2> HIDE DEF D
  <2>2. PICK span \in Nat : Walked(n, W, r, d, span)
    OBVIOUS
  <2>3. (\E wide \in Nat : Walked(n, W, r, D(d), wide)) /\ D(d).step = d.step \div 2
    BY <2>1, <2>2, WalkOn
  <2>4. D(d) \in [step : Nat, at : 0 .. n, prefix : Int]
    BY <2>3 DEF Walked
  <2>5. QED
    BY <2>3, <2>4
<1>8. x \in S
  BY <1>1, <1>5, <1>6
<1>9. PICK g : g \in [0 .. n -> S] /\ g[0] = x /\ \A k \in 1 .. n : g[k] = D(g[k - 1])
  <2>1. F \in [S -> S]
    <3> HIDE DEF D, S
    <3>1. QED
      BY <1>7
  <2>2. PICK g : RepeatOf(g, n, S, x, F)
    <3> HIDE DEF F, S, x
    <3>1. QED
      BY <1>1, <1>8, <2>1, Repeats DEF Repeater
  <2>3. g \in [0 .. n -> S] /\ g[0] = x /\ \A k \in 1 .. n : g[k] = F[g[k - 1]]
    BY <2>2 DEF RepeatOf
  <2>4. \A k \in 1 .. n : k - 1 \in 0 .. n
    BY <1>1
  <2>5. \A k \in 1 .. n : g[k] = D(g[k - 1])
    <3> HIDE DEF D, S
    <3>1. QED
      BY <2>3, <2>4
  <2>6. QED
    BY <2>3, <2>5
<1>10. Is(g)
  <2>1. \A k \in 0 .. n : k = 0 \/ k \in 1 .. n
    BY <1>1
  <2> HIDE DEF D, S, x
  <2>2. QED
    BY <1>9, <2>1
<1>11. Is(c)
  <2> HIDE DEF Is
  <2>1. QED
    BY <1>10, Zenon
<1>12. FirstPrefixGreaterThan(f, r) = c[n].at + 1
  BY <1>2 DEF FirstPrefixGreaterThan, c
<1>13. c[0] = x /\ \A k \in 1 .. n : c[k] = D(c[k - 1])
  <2> HIDE DEF c, D, x, S
  <2>1. c = [k \in 0 .. n |-> IF k = 0 THEN x ELSE D(c[k - 1])]
    BY <1>11
  <2>2. 0 \in 0 .. n /\ \A k \in 1 .. n : k \in 0 .. n /\ k # 0
    BY <1>1
  <2>3. \A k \in 0 .. n : c[k] = IF k = 0 THEN x ELSE D(c[k - 1])
    <3> HIDE DEF Is
    <3>1. QED
      BY <2>1, Zenon
  <2>4. QED
    BY <2>2, <2>3
<1> DEFINE T == {k \in Nat : k <= n => c[k] \in S /\ c[k].step <= n - k}
<1> HIDE DEF c
<1>14. 0 \in T
  <2>1. c[0].step = TopStep(n)
    BY <1>13
  <2> HIDE DEF S, x, D
  <2>2. QED
    BY <1>1, <1>5, <1>8, <1>13, <2>1
<1>15. ASSUME NEW k \in Nat, k \in T PROVE k + 1 \in T
  <2> HIDE DEF D, x
  <2>1. SUFFICES ASSUME k + 1 <= n PROVE c[k + 1] \in S /\ c[k + 1].step <= n - (k + 1)
    OBVIOUS
  <2>2. k + 1 \in 1 .. n /\ (k + 1) - 1 = k
    BY <2>1
  <2>3. c[k] \in S /\ c[k].step <= n - k
    BY <1>1, <1>15, <2>1
  <2>4. c[k + 1] = D(c[k])
    BY <1>13, <2>2
  <2>5. c[k + 1] \in S /\ c[k + 1].step = c[k].step \div 2
    <3> HIDE DEF S
    <3>1. QED
      BY <1>7, <2>3, <2>4
  <2>6. c[k].step \in Nat
    BY <2>3
  <2>7. c[k].step \div 2 <= n - (k + 1)
    <3> DEFINE b == c[k].step
    <3>1. b \in Nat /\ b <= n - k
      BY <2>3, <2>6
    <3> HIDE DEF b
    <3>2. b \div 2 <= n - (k + 1)
      BY <1>1, <2>1, <3>1
    <3>3. QED
      BY <3>2 DEF b
  <2>8. QED
    <3> HIDE DEF S
    <3>1. QED
      BY <2>5, <2>7
<1> HIDE DEF T
<1>16. Nat \subseteq T
  BY <1>14, <1>15, Induct
<1>17. c[n] \in S /\ c[n].step <= 0
  BY <1>1, <1>16 DEF T
<1>18. PICK span \in Nat : Walked(n, W, r, c[n], span)
  BY <1>17
<1> DEFINE a == c[n].at
<1>19. a \in 0 .. n /\ UpTo(W, a) <= r /\ \A i \in 1 .. n : i >= a + 1 => UpTo(W, i) > r
  BY <1>17, <1>18 DEF Walked
<1>20. a # n
  <2>1. UpTo(W, n) \in Nat
    BY <1>1, UpToGrows
  <2>2. QED
    BY <1>19, <2>1
<1> HIDE DEF a
<1>21. a + 1 \in 1 .. n /\ (a + 1) - 1 = a
  BY <1>1, <1>19, <1>20
<1>22. UpTo(W, a + 1) > r
  BY <1>19, <1>21
<1>23. FallsIn(W, n, r, a + 1)
  BY <1>19, <1>21, <1>22 DEF FallsIn
<1>24. QED
  BY <1>12, <1>23 DEF a

-----------------------------------------------------------------------------
(***************************************************************************)
(* Networks that generators make: agents 1, 2, ... in the slots 1, 2, ..., *)
(* and ties of which only the keys matter.                                 *)
(***************************************************************************)
Marked(K) == [k \in K |-> Unit]
Framed(n) == n = [directed |-> n.directed, index |-> n.index, label |-> n.label, ties |-> n.ties]
Rostered(n, c) == Framed(n) /\ n.index = [s \in 1 .. c |-> s] /\ n.label = [s \in 1 .. c |-> s]
Keyed(n, c, K) == Rostered(n, c) /\ Shows(n, 1 .. c, Marked(K))
Pairing(pairs, c) == /\ Len(pairs) \in Nat /\ DOMAIN pairs = 1 .. Len(pairs)
                     /\ \A i \in 1 .. Len(pairs) : pairs[i][1] \in 1 .. c /\ pairs[i][2] \in 1 .. c
KeysOf(d, pairs) == {KeyOf(d, pairs[i][1], pairs[i][2]) : i \in 1 .. Len(pairs)}
LEMMA UnitIs == Unit \in Payload
BY GenAssumption DEF Unit
LEMMA AddNodeRoster ==
  ASSUME NEW n, NEW c \in Nat, Rostered(n, c)
  PROVE  /\ Rostered(AddNode(n, c + 1), c + 1)
         /\ AddNode(n, c + 1).ties = n.ties /\ AddNode(n, c + 1).directed = n.directed
<1>1. DOMAIN n.index = 1 .. c /\ DOMAIN n.label = 1 .. c /\ c + 1 \notin 1 .. c
  BY DEF Rostered
<1>2. FreeSlot(n) = c + 1
  <2>1. Cardinality(DOMAIN n.label) = c
    BY <1>1, FS_Interval
  <2>2. (1 .. c + 1) \ (1 .. c) = {c + 1}
    OBVIOUS
  <2>3. FreeSlot(n) = Min({c + 1})
    BY <1>1, <2>1, <2>2 DEF FreeSlot
  <2>4. Min({c + 1}) \in {c + 1}
    BY MinIs
  <2>5. QED
    BY <2>3, <2>4
<1>3. AddNode(n, c + 1) = [n EXCEPT !.index = [b \in (1 .. c) \cup {c + 1} |-> IF b = c + 1 THEN c + 1 ELSE n.index[b]],
                                    !.label = [s \in (1 .. c) \cup {c + 1} |-> IF s = c + 1 THEN c + 1 ELSE n.label[s]]]
  BY <1>1, <1>2 DEF AddNode
<1>4. (1 .. c) \cup {c + 1} = 1 .. c + 1
  OBVIOUS
<1>5. /\ [b \in (1 .. c) \cup {c + 1} |-> IF b = c + 1 THEN c + 1 ELSE n.index[b]] = [s \in 1 .. c + 1 |-> s]
      /\ [s \in (1 .. c) \cup {c + 1} |-> IF s = c + 1 THEN c + 1 ELSE n.label[s]] = [s \in 1 .. c + 1 |-> s]
  BY <1>4 DEF Rostered
<1>6. AddNode(n, c + 1) = [n EXCEPT !.index = [s \in 1 .. c + 1 |-> s], !.label = [s \in 1 .. c + 1 |-> s]]
  BY <1>3, <1>5
<1>7. n = [directed |-> n.directed, index |-> n.index, label |-> n.label, ties |-> n.ties]
  BY DEF Rostered, Framed
<1>8. QED
  BY <1>6, <1>7 DEF Rostered, Framed
LEMMA AddTieRoster ==
  ASSUME NEW n, NEW c \in Nat, Rostered(n, c), NEW a, NEW b, NEW w
  PROVE  Rostered(AddTie(n, a, b, w), c)
<1>1. n = [directed |-> n.directed, index |-> n.index, label |-> n.label, ties |-> n.ties]
  BY DEF Rostered, Framed
<1>2. PICK x, y : x = Append(n.ties, Tie(n.index[a], n.index[b], w))
                  /\ y = [n.ties EXCEPT ![Min(Found(n, n.index[a], n.index[b]))].payload = w]
  OBVIOUS
<1>3. AddTie(n, a, b, w) \in {n, [n EXCEPT !.ties = x], [n EXCEPT !.ties = y]}
  BY <1>1, <1>2 DEF AddTie
<1>4. QED
  BY <1>1, <1>3 DEF Rostered, Framed
LEMMA LoadedRoster ==
  ASSUME NEW d \in BOOLEAN, NEW data, NEW c \in Nat, data.nodes = Roster(c), Len(data.ties) \in Nat
  PROVE  Rostered(Loaded(d, data), c)
<1>1. Len(data.nodes) = c /\ \A k \in 1 .. c : data.nodes[k] = k
  <2>1. Roster(c) \in Seq(Nat)
    BY DEF Roster
  <2>2. QED
    BY <2>1 DEF Roster
<1>2. PICK p, j :
        /\ p[0] = EmptyNet(d)
        /\ \A k \in 1 .. Len(data.nodes) : p[k] = AddNode(p[k - 1], data.nodes[k])
        /\ j[0] = p[Len(data.nodes)]
        /\ \A k \in 1 .. Len(data.ties) : j[k] = AddTie(j[k - 1], data.ties[k][1], data.ties[k][2], data.ties[k][3])
        /\ Loaded(d, data) = j[Len(data.ties)]
  <2>1. PICK p, j : Stages(d, data, p, j)
    BY <1>1, Loading
  <2>2. QED
    BY <2>1 DEF Stages
<1>3. Rostered(p[c], c)
  <2> DEFINE T == {k \in Nat : k <= c => Rostered(p[k], k)}
  <2>1. 0 \in T
    <3>1. [s \in 1 .. 0 |-> s] = << >>
      OBVIOUS
    <3>2. Rostered(EmptyNet(d), 0)
      BY <3>1 DEF Rostered, Framed, EmptyNet
    <3>3. QED
      BY <1>2, <3>2
  <2>2. ASSUME NEW k \in Nat, k \in T PROVE k + 1 \in T
    <3>1. SUFFICES ASSUME k + 1 <= c PROVE Rostered(p[k + 1], k + 1)
      OBVIOUS
    <3>2. k + 1 \in 1 .. c /\ (k + 1) - 1 = k /\ Rostered(p[k], k)
      BY <2>2, <3>1
    <3>3. p[k + 1] = AddNode(p[k], k + 1)
      BY <1>1, <1>2, <3>2
    <3>4. QED
      BY <3>2, <3>3, AddNodeRoster
  <2> HIDE DEF T
  <2>3. Nat \subseteq T
    BY <2>1, <2>2, Induct
  <2>4. QED
    BY <2>3 DEF T
<1>4. Rostered(j[Len(data.ties)], c)
  <2> DEFINE T == {k \in Nat : k <= Len(data.ties) => Rostered(j[k], c)}
  <2>1. 0 \in T
    BY <1>1, <1>2, <1>3
  <2>2. ASSUME NEW k \in Nat, k \in T PROVE k + 1 \in T
    <3>1. SUFFICES ASSUME k + 1 <= Len(data.ties) PROVE Rostered(j[k + 1], c)
      OBVIOUS
    <3>2. k + 1 \in 1 .. Len(data.ties) /\ (k + 1) - 1 = k /\ Rostered(j[k], c)
      BY <2>2, <3>1
    <3>3. j[k + 1] = AddTie(j[k], data.ties[k + 1][1], data.ties[k + 1][2], data.ties[k + 1][3])
      BY <1>2, <3>2
    <3>4. QED
      BY <3>2, <3>3, AddTieRoster
  <2> HIDE DEF T
  <2>3. Nat \subseteq T
    BY <2>1, <2>2, Induct
  <2>4. QED
    BY <2>3 DEF T
<1>5. QED
  BY <1>2, <1>4
LEMMA MadeKeyed ==
  ASSUME NEW d \in BOOLEAN, NEW c \in Nat, NEW pairs, Pairing(pairs, c)
  PROVE  Keyed(Made(d, c, pairs), c, KeysOf(d, pairs)) /\ Made(d, c, pairs).directed = d
<1> DEFINE ties == [i \in DOMAIN pairs |-> <<pairs[i][1], pairs[i][2], Unit>>]
           data == [nodes |-> Roster(c), ties |-> ties]
           K == KeysOf(d, pairs)
           N == Len(pairs)
<1>1. N \in Nat /\ DOMAIN pairs = 1 .. N
  BY DEF Pairing
<1>2. Len(ties) = N /\ \A i \in 1 .. N : ties[i] = <<pairs[i][1], pairs[i][2], Unit>>
  <2>1. ties \in Seq({<<pairs[i][1], pairs[i][2], Unit>> : i \in 1 .. N}) /\ DOMAIN ties = 1 .. N
    BY <1>1
  <2>2. QED
    BY <1>1, <2>1
<1>3. \A i \in 1 .. N : ties[i][1] = pairs[i][1] /\ ties[i][2] = pairs[i][2] /\ ties[i][3] = Unit
  BY <1>2
<1> HIDE DEF ties, N
<1>4. data.nodes = Roster(c) /\ data.ties = ties
  OBVIOUS
<1> HIDE DEF data
<1>5. ListOf(data.nodes, 1 .. c)
  <2>1. Roster(c) \in Seq(Nat) /\ DOMAIN Roster(c) = 1 .. c
    BY DEF Roster
  <2>2. Len(Roster(c)) = c
    BY <2>1
  <2>3. Cardinality(1 .. c) = c
    BY FS_Interval
  <2>4. QED
    BY <1>4, <2>2, <2>3 DEF ListOf, Roster
<1>6. Describes(data, d, 1 .. c, Marked(K))
  <2>1. DOMAIN Marked(K) = K /\ Marked(K) = [k \in K |-> Marked(K)[k]] /\ \A k \in K : Marked(K)[k] = Unit
    BY DEF Marked
  <2>2. Len(data.ties) = N
    BY <1>2, <1>4
  <2>3. ASSUME NEW k \in 1 .. N
        PROVE  /\ data.ties[k][1] \in 1 .. c /\ data.ties[k][2] \in 1 .. c /\ data.ties[k][3] = Unit
               /\ KeyOf(d, data.ties[k][1], data.ties[k][2]) \in K
    <3>1. pairs[k][1] \in 1 .. c /\ pairs[k][2] \in 1 .. c
      BY DEF Pairing, N
    <3>2. KeyOf(d, pairs[k][1], pairs[k][2]) \in K
      BY DEF KeysOf, N
    <3>3. QED
      BY <1>3, <1>4, <3>1, <3>2
  <2>4. ASSUME NEW x \in K PROVE \E k \in 1 .. N : KeyOf(d, data.ties[k][1], data.ties[k][2]) = x
    <3>1. PICK k \in 1 .. N : KeyOf(d, pairs[k][1], pairs[k][2]) = x
      BY DEF KeysOf, N
    <3>2. QED
      BY <1>3, <1>4, <3>1
  <2> HIDE DEF K
  <2>5. QED
    BY <1>1, <1>5, <2>1, <2>2, <2>3, <2>4, UnitIs DEF Describes
<1>7. Shows(Loaded(d, data), 1 .. c, Marked(K)) /\ Loaded(d, data).directed = d
  BY <1>6, LoadedIs
<1>8. Rostered(Loaded(d, data), c)
  BY <1>1, <1>2, <1>4, LoadedRoster
<1>9. Made(d, c, pairs) = Loaded(d, data)
  BY DEF Made, data, ties
<1>10. QED
  BY <1>7, <1>8, <1>9 DEF Keyed

(* Weights set one after the other, each to what the slot attracts. *)
LEMMA Attracts ==
  ASSUME NEW n, Len(n.ties) \in Nat, DOMAIN n.ties = 1 .. Len(n.ties), NEW s
  PROVE  Attractiveness(n, s) \in Nat \ {0}
<1> DEFINE I == {i \in DOMAIN n.ties : n.ties[i].to = s \/ (~n.directed /\ n.ties[i].from = s)}
<1>1. IsFiniteSet(1 .. Len(n.ties))
  BY FS_Interval
<1>2. I \subseteq 1 .. Len(n.ties)
  OBVIOUS
<1> HIDE DEF I
<1>3. Cardinality(I) \in Nat
  BY <1>1, <1>2, FS_Subset, FS_CardinalityType
<1>4. Attractiveness(n, s) = 1 + Cardinality(I)
  BY DEF Attractiveness, I
<1>5. QED
  BY <1>3, <1>4
Reset(W, N, S, A) == [t \in 1 .. N |-> IF t \in S THEN A[t] ELSE W[t]]
Listing(slots, S, N) == /\ Len(slots) \in Nat /\ \A k \in 1 .. Len(slots) : slots[k] \in 1 .. N
                        /\ \A t : t \in S <=> \E k \in 1 .. Len(slots) : slots[k] = t
Pulls(n, N, A) == \A t \in 1 .. N : A[t] = Attractiveness(n, t)
LEMMA SetWeightsFen ==
  ASSUME NEW n, Len(n.ties) \in Nat, DOMAIN n.ties = 1 .. Len(n.ties), NEW N, NEW W, NEW f, Fen(f, N, W),
         NEW slots, NEW set, Listing(slots, set, N), NEW A, Pulls(n, N, A)
  PROVE  Fen(SetWeights(f, n, slots), N, Reset(W, N, set, A))
<1>0. Len(slots) \in Nat /\ \A k \in 1 .. Len(slots) : slots[k] \in 1 .. N
  BY DEF Listing
<1> DEFINE L == Len(slots)
           S == {g \in [tree : [1 .. N -> Int], values : [1 .. N -> Nat]] : Fen(g, N, g.values)}
           D(k, g) == SetWeight(g, slots[k], Attractiveness(n, slots[k]))
           M == [k \in 1 .. L |-> [g \in S |-> D(k, g)]]
           Is(g) == g = [k \in 0 .. L |-> IF k = 0 THEN f ELSE D(k, g[k - 1])]
           c == CHOOSE g : Is(g)
           Upto(k) == {slots[i] : i \in 1 .. k}
<1>1. N \in Nat /\ W \in [1 .. N -> Nat] /\ f.values = W /\ f.tree \in [1 .. N -> Int] /\ L \in Nat
  BY <1>0 DEF Fen, Weighs
<1>2. \A t : Attractiveness(n, t) \in Nat
  BY Attracts
<1>3. ASSUME NEW k \in 1 .. L, NEW g, NEW V, Fen(g, N, V)
      PROVE  Fen(D(k, g), N, [V EXCEPT ![slots[k]] = Attractiveness(n, slots[k])])
  <2>1. slots[k] \in 1 .. N /\ Attractiveness(n, slots[k]) \in Nat
    BY <1>0, <1>2
  <2>2. QED
    BY <1>3, <2>1, SetWeightFen
<1>4. \A g, V : Fen(g, N, V) => g \in S /\ V = g.values
  BY DEF Fen, Weighs
<1>5. f \in S
  BY <1>4
<1>6. PICK h : h \in [0 .. L -> S] /\ h[0] = f /\ \A k \in 1 .. L : h[k] = D(k, h[k - 1])
  <2>1. ASSUME NEW k \in 1 .. L, NEW g \in S PROVE D(k, g) \in S
    <3>1. Fen(g, N, g.values)
      OBVIOUS
    <3> HIDE DEF D, S
    <3>2. QED
      BY <1>3, <1>4, <3>1
  <2>2. M \in [1 .. L -> [S -> S]]
    <3> HIDE DEF D, S
    <3>1. QED
      BY <2>1
  <2>3. PICK h : RunOf(h, L, S, f, M)
    <3> HIDE DEF M, S
    <3>1. QED
      BY <1>1, <1>5, <2>2, Recursion DEF Machine
  <2>4. h \in [0 .. L -> S] /\ h[0] = f /\ \A k \in 1 .. L : h[k] = M[k][h[k - 1]]
    BY <2>3 DEF RunOf
  <2>5. \A k \in 1 .. L : k - 1 \in 0 .. L
    OBVIOUS
  <2>6. \A k \in 1 .. L : h[k] = D(k, h[k - 1])
    <3> HIDE DEF D, S
    <3>1. QED
      BY <2>4, <2>5
  <2>7. QED
    <3> HIDE DEF D, S, M
    <3>1. QED
      BY <2>4, <2>6
<1>7. Is(h)
  <2>1. \A k \in 0 .. L : k = 0 \/ k \in 1 .. L
    OBVIOUS
  <2> HIDE DEF D, S
  <2>2. QED
    BY <1>6, <2>1
<1>8. Is(c)
  <2> HIDE DEF Is
  <2>1. QED
    BY <1>7, Zenon
<1>9. SetWeights(f, n, slots) = c[L]
  BY DEF SetWeights, c
<1> HIDE DEF c
<1>10. c[0] = f /\ \A k \in 1 .. L : c[k] = D(k, c[k - 1])
  <2> HIDE DEF D
  <2>1. c = [k \in 0 .. L |-> IF k = 0 THEN f ELSE D(k, c[k - 1])]
    BY <1>8
  <2>2. 0 \in 0 .. L /\ \A k \in 1 .. L : k \in 0 .. L /\ k # 0
    OBVIOUS
  <2>3. \A k \in 0 .. L : c[k] = IF k = 0 THEN f ELSE D(k, c[k - 1])
    <3> HIDE DEF Is
    <3>1. QED
      BY <2>1, Zenon
  <2>4. QED
    BY <2>2, <2>3
<1> DEFINE T == {k \in Nat : k <= L => Fen(c[k], N, Reset(W, N, Upto(k), A))}
<1>11. 0 \in T
  <2>1. Upto(0) = {}
    OBVIOUS
  <2>2. Reset(W, N, {}, A) = W
    BY <1>1 DEF Reset
  <2> HIDE DEF Upto
  <2>3. QED
    BY <1>10, <2>1, <2>2
<1>12. ASSUME NEW k \in Nat, k \in T PROVE k + 1 \in T
  <2>1. SUFFICES ASSUME k + 1 <= L PROVE Fen(c[k + 1], N, Reset(W, N, Upto(k + 1), A))
    OBVIOUS
  <2>2. k + 1 \in 1 .. L /\ (k + 1) - 1 = k /\ Fen(c[k], N, Reset(W, N, Upto(k), A))
    BY <1>12, <2>1
  <2>3. Upto(k + 1) = Upto(k) \cup {slots[k + 1]}
    <3>1. 1 .. k + 1 = (1 .. k) \cup {k + 1}
      OBVIOUS
    <3>2. QED
      BY <3>1
  <2>4. c[k + 1] = D(k + 1, c[k])
    <3> HIDE DEF D
    <3>1. QED
      BY <1>10, <2>2
  <2> DEFINE X == Reset(W, N, Upto(k), A)
             s == slots[k + 1]
             w == Attractiveness(n, s)
  <2>5. Fen(D(k + 1, c[k]), N, [X EXCEPT ![s] = w])
    <3> HIDE DEF D, X
    <3>1. Fen(c[k], N, X)
      BY <2>2 DEF X
    <3>2. QED
      BY <1>3, <2>2, <3>1
  <2>6. s \in 1 .. N /\ A[s] = w
    BY <1>0, <2>2 DEF Pulls
  <2>7. [X EXCEPT ![s] = w] = Reset(W, N, Upto(k) \cup {s}, A)
    <3> HIDE DEF Upto, s, w
    <3>1. QED
      BY <2>6 DEF Reset
  <2> HIDE DEF D, Upto, X
  <2>8. QED
    BY <2>3, <2>4, <2>5, <2>7
<1> HIDE DEF T
<1>13. Nat \subseteq T
  BY <1>11, <1>12, Induct
<1>14. Fen(c[L], N, Reset(W, N, Upto(L), A))
  <2> HIDE DEF Upto, L
  <2>1. L \in T /\ L <= L
    BY <1>1, <1>13
  <2>2. QED
    BY <2>1 DEF T
<1>15. Upto(L) = set
  <2>1. \A t : t \in set <=> \E k \in 1 .. L : slots[k] = t
    BY DEF Listing
  <2>2. QED
    BY <2>1
<1>16. QED
  BY <1>9, <1>14, <1>15

-----------------------------------------------------------------------------
(***************************************************************************)
(* Preferential attachment: the tree weighs every slot by what it attracts.*)
(***************************************************************************)
LEMMA Untwinned ==
  ASSUME NEW n, Standing(n), KeysApart(n)
  PROVE  \A i, j \in DOMAIN n.ties : i # j => ~Joins(n, n.ties[i], n.ties[j].from, n.ties[j].to)
<1>1. DOMAIN n.ties = 1 .. Len(n.ties)
  BY PlacedSlots
<1>2. SUFFICES ASSUME NEW i \in 1 .. Len(n.ties), NEW j \in 1 .. Len(n.ties), Joins(n, n.ties[i], n.ties[j].from, n.ties[j].to)
               PROVE  i = j
  BY <1>1
<1>3. n.ties[i] \in TieOf(DOMAIN n.label) /\ n.ties[j].from \in DOMAIN n.label /\ n.ties[j].to \in DOMAIN n.label
  BY PlacedSlots
<1>4. TieKey(n, n.ties[i]) = KeyOf(n.directed, n.label[n.ties[j].from], n.label[n.ties[j].to])
  BY <1>2, <1>3, JoinsKey
<1>5. QED
  BY <1>4 DEF KeysApart, TieKey
LEMMA RosteredLabels ==
  ASSUME NEW n, NEW c \in Nat, Rostered(n, c)
  PROVE  /\ DOMAIN n.index = 1 .. c /\ DOMAIN n.label = 1 .. c
         /\ \A s \in 1 .. c : n.index[s] = s /\ n.label[s] = s
         /\ Cardinality(DOMAIN n.index) = c
<1>1. DOMAIN n.index = 1 .. c /\ DOMAIN n.label = 1 .. c /\ \A s \in 1 .. c : n.index[s] = s /\ n.label[s] = s
  BY DEF Rostered
<1>2. Cardinality(1 .. c) = c
  BY FS_Interval
<1>3. QED
  BY <1>1, <1>2
LEMMA RosteredStands ==
  ASSUME NEW n, NEW c \in Nat, Rostered(n, c), n.directed \in BOOLEAN, n.ties \in Seq(TieOf(1 .. c))
  PROVE  Standing(n)
<1>1. IsFiniteSet(1 .. c) /\ 1 .. c \subseteq Nat
  BY FS_Interval
<1>2. n.index \in [1 .. c -> 1 .. c] /\ n.label \in [1 .. c -> 1 .. c]
  BY DEF Rostered
<1>3. QED
  BY <1>1, <1>2, RosteredLabels DEF Standing, Rostered, Framed
Joined(n, c, k, x) ==       \* a newcomer with ties to x[1], ..., x[k]
  [AddNode(n, c + 1) EXCEPT !.ties = @ \o [i \in 1 .. k |-> Tie(c + 1, x[i], Unit)]]
OneToOne(k, x, c) == k \in Nat /\ x \in [1 .. k -> 1 .. c] /\ \A i, j \in 1 .. k : x[i] = x[j] => i = j
Simple(n, c) == Rostered(n, c) /\ Standing(n) /\ KeysApart(n) /\ Loopless(n)
Appended(n, c, k, x, m, L) ==
  /\ Rostered(m, c + 1) /\ m.directed = n.directed /\ m.ties \in Seq(TieOf(1 .. c + 1))
  /\ L \in Nat /\ Len(m.ties) = L + k
  /\ \A i \in 1 .. L : m.ties[i] = n.ties[i] /\ n.ties[i] \in TieOf(1 .. c)
  /\ \A i \in (L + 1) .. (L + k) : m.ties[i] = Tie(c + 1, x[i - L], Unit) /\ i - L \in 1 .. k
LEMMA JoinedTies ==
  ASSUME NEW n, NEW c \in Nat, Simple(n, c), NEW k, NEW x, OneToOne(k, x, c)
  PROVE  Appended(n, c, k, x, Joined(n, c, k, x), Len(n.ties))
<1> DEFINE m == Joined(n, c, k, x)
           L == Len(n.ties)
           new == [i \in 1 .. k |-> Tie(c + 1, x[i], Unit)]
           a == AddNode(n, c + 1)
<1>1. Rostered(a, c + 1) /\ a.ties = n.ties /\ a.directed = n.directed
  BY AddNodeRoster DEF Simple
<1>2. n.ties \in Seq(TieOf(1 .. c))
  BY RosteredLabels DEF Simple, Standing
<1>3. n.ties \in Seq(TieOf(1 .. c + 1))
  <2>1. TieOf(1 .. c) \subseteq TieOf(1 .. c + 1)
    BY DEF TieOf
  <2>2. QED
    BY <1>2, <2>1, SeqWithin
<1>4. new \in Seq(TieOf(1 .. c + 1)) /\ Len(new) = k /\ \A i \in 1 .. k : new[i] = Tie(c + 1, x[i], Unit)
  <2>1. k \in Nat /\ \A i \in 1 .. k : x[i] \in 1 .. c
    BY DEF OneToOne
  <2>2. \A i \in 1 .. k : Tie(c + 1, x[i], Unit) \in TieOf(1 .. c + 1)
    <3>1. \A y \in 1 .. c : y \in 1 .. c + 1 /\ c + 1 \in 1 .. c + 1
      OBVIOUS
    <3>2. QED
      BY <2>1, <3>1, UnitIs DEF Tie, TieOf
  <2>3. new \in [1 .. k -> TieOf(1 .. c + 1)]
    BY <2>2
  <2>4. new \in Seq(TieOf(1 .. c + 1))
    BY <2>1, <2>3
  <2> HIDE DEF new
  <2>5. Len(new) = k
    BY <2>1, <2>3, <2>4
  <2>6. QED
    BY <2>4, <2>5 DEF new
<1>5. m = [a EXCEPT !.ties = n.ties \o new]
  BY <1>1 DEF Joined
<1> HIDE DEF new, a, m
<1>6. Rostered(m, c + 1) /\ m.directed = n.directed /\ m.ties = n.ties \o new
  BY <1>1, <1>5 DEF Rostered, Framed
<1>7. k \in Nat
  BY DEF OneToOne
<1>8. m.ties \in Seq(TieOf(1 .. c + 1)) /\ L \in Nat /\ Len(m.ties) = L + k
  <2>1. n.ties \o new \in Seq(TieOf(1 .. c + 1)) /\ Len(n.ties) \in Nat
    BY <1>3, <1>4
  <2>2. Len(n.ties \o new) = Len(n.ties) + k
    BY <1>3, <1>4, <1>7
  <2>3. QED
    BY <1>6, <2>1, <2>2
<1>9. \A i \in 1 .. L : m.ties[i] = n.ties[i] /\ n.ties[i] \in TieOf(1 .. c)
  BY <1>2, <1>3, <1>4, <1>6, <1>8
<1>10. \A i \in (L + 1) .. (L + k) : m.ties[i] = Tie(c + 1, x[i - L], Unit) /\ i - L \in 1 .. k
  <2>1. ASSUME NEW i \in (L + 1) .. (L + k) PROVE i - L \in 1 .. k /\ m.ties[i] = new[i - L]
    BY <1>3, <1>4, <1>6, <1>7, <1>8
  <2>2. QED
    BY <1>4, <2>1
<1>11. QED
  BY <1>6, <1>8, <1>9, <1>10 DEF Appended, m
LEMMA JoinedSimple ==
  ASSUME NEW n, NEW c \in Nat, Simple(n, c), NEW k, NEW x, OneToOne(k, x, c), NEW m, m = Joined(n, c, k, x)
  PROVE  Simple(m, c + 1)
<1> DEFINE L == Len(n.ties)
           Old(i) == m.ties[i] = n.ties[i] /\ n.ties[i] \in TieOf(1 .. c)
           New(i) == m.ties[i] = Tie(c + 1, x[i - L], Unit) /\ i - L \in 1 .. k
<1>1. /\ Rostered(m, c + 1) /\ m.directed = n.directed /\ m.ties \in Seq(TieOf(1 .. c + 1))
      /\ L \in Nat /\ Len(m.ties) = L + k
      /\ \A i \in 1 .. L : Old(i)
      /\ \A i \in (L + 1) .. (L + k) : New(i)
  <2>1. Appended(n, c, k, x, m, L)
    BY JoinedTies
  <2> HIDE DEF L
  <2>2. QED
    BY <2>1 DEF Appended
<1>2. n.directed \in BOOLEAN /\ Rostered(n, c) /\ Standing(n) /\ KeysApart(n) /\ Loopless(n)
  BY DEF Simple, Standing
<1>3. Standing(m)
  BY <1>1, <1>2, RosteredStands
<1>4. k \in Nat /\ x \in [1 .. k -> 1 .. c] /\ \A i, j \in 1 .. k : x[i] = x[j] => i = j
  BY DEF OneToOne
<1>5. \A i \in 1 .. Len(m.ties) : i \in 1 .. L \/ i \in (L + 1) .. (L + k)
  BY <1>1, <1>4
<1>6. ASSUME NEW i \in 1 .. L
      PROVE  /\ n.ties[i].from \in 1 .. c /\ n.ties[i].to \in 1 .. c /\ m.ties[i] = n.ties[i]
             /\ TieKey(m, m.ties[i]) = KeyOf(n.directed, n.ties[i].from, n.ties[i].to)
             /\ TieKey(n, n.ties[i]) = KeyOf(n.directed, n.ties[i].from, n.ties[i].to)
  <2>1. Old(i)
    BY <1>1
  <2>2. n.ties[i].from \in 1 .. c /\ n.ties[i].to \in 1 .. c
    BY <2>1 DEF TieOf
  <2>3. /\ \A s \in 1 .. c : n.label[s] = s
        /\ \A s \in 1 .. c : m.label[s] = s
    <3>1. \A s \in 1 .. c : s \in 1 .. c + 1
      OBVIOUS
    <3>2. QED
      BY <1>1, <1>2, <3>1, RosteredLabels
  <2>4. QED
    BY <1>1, <2>1, <2>2, <2>3 DEF TieKey
<1>7. ASSUME NEW i \in (L + 1) .. (L + k)
      PROVE  /\ i - L \in 1 .. k /\ x[i - L] \in 1 .. c /\ m.ties[i].from = c + 1 /\ m.ties[i].to = x[i - L]
             /\ TieKey(m, m.ties[i]) = KeyOf(n.directed, c + 1, x[i - L])
  <2>1. New(i)
    BY <1>1
  <2>2. m.ties[i].from = c + 1 /\ m.ties[i].to = x[i - L]
    BY <2>1 DEF Tie
  <2>3. x[i - L] \in 1 .. c
    BY <1>4, <2>1
  <2>4. m.label[c + 1] = c + 1 /\ m.label[x[i - L]] = x[i - L]
    <3>1. c + 1 \in 1 .. c + 1 /\ x[i - L] \in 1 .. c + 1
      BY <2>3
    <3>2. QED
      BY <1>1, <3>1, RosteredLabels
  <2>5. QED
    BY <1>1, <2>1, <2>2, <2>3, <2>4 DEF TieKey
<1> HIDE DEF Old, New
<1>8. Loopless(m)
  <2>1. DOMAIN m.ties = 1 .. Len(m.ties) /\ DOMAIN n.ties = 1 .. L
    BY <1>1, <1>2, PlacedSlots
  <2>2. ASSUME NEW i \in 1 .. Len(m.ties) PROVE m.ties[i].from # m.ties[i].to
    <3>1. CASE i \in 1 .. L
      BY <1>2, <1>6, <2>1, <3>1 DEF Loopless
    <3>2. CASE i \in (L + 1) .. (L + k)
      BY <1>7, <3>2
    <3>3. QED
      BY <1>5, <3>1, <3>2
  <2>3. QED
    BY <2>1, <2>2 DEF Loopless
<1>9. KeysApart(m)
  <2>1. SUFFICES ASSUME NEW i \in 1 .. Len(m.ties), NEW j \in 1 .. Len(m.ties), TieKey(m, m.ties[i]) = TieKey(m, m.ties[j])
                 PROVE  i = j
    BY DEF KeysApart
  <2>2. CASE i \in 1 .. L /\ j \in 1 .. L
    BY <1>2, <1>6, <2>1, <2>2 DEF KeysApart
  <2> HIDE DEF L
  <2>3. ASSUME NEW p \in 1 .. L, NEW q \in (L + 1) .. (L + k), TieKey(m, m.ties[p]) = TieKey(m, m.ties[q]) PROVE FALSE
    <3>1. /\ n.ties[p].from \in 1 .. c /\ n.ties[p].to \in 1 .. c /\ x[q - L] \in 1 .. c
          /\ KeyOf(n.directed, n.ties[p].from, n.ties[p].to) = KeyOf(n.directed, c + 1, x[q - L])
      BY <1>6, <1>7, <2>3
    <3>2. c + 1 \in {n.ties[p].from, n.ties[p].to}
      <4> DEFINE u == n.ties[p].from
                 v == n.ties[p].to
                 y == x[q - L]
      <4>1. u \in Nat /\ v \in Nat /\ y \in Nat /\ c + 1 \in Nat /\ KeyOf(n.directed, u, v) = KeyOf(n.directed, c + 1, y)
        BY <3>1
      <4> HIDE DEF u, v, y
      <4>2. u = c + 1 \/ v = c + 1
        BY <1>2, <4>1, SameKey
      <4>3. QED
        BY <4>2 DEF u, v
    <3>3. QED
      BY <3>1, <3>2
  <2>4. CASE i \in (L + 1) .. (L + k) /\ j \in (L + 1) .. (L + k)
    <3>1. /\ x[i - L] \in 1 .. c /\ x[j - L] \in 1 .. c /\ i - L \in 1 .. k /\ j - L \in 1 .. k
          /\ KeyOf(n.directed, c + 1, x[i - L]) = KeyOf(n.directed, c + 1, x[j - L])
      BY <1>7, <2>1, <2>4
    <3>2. x[i - L] = x[j - L]
      BY <1>2, <3>1, SameKey
    <3>3. i - L = j - L
      BY <1>4, <3>1, <3>2
    <3>4. QED
      BY <1>1, <3>3
  <2>5. QED
    BY <1>5, <2>1, <2>2, <2>3, <2>4
<1>10. QED
  BY <1>1, <1>3, <1>8, <1>9 DEF Simple
LEMMA UnchosenAttract ==
  ASSUME NEW n, NEW c \in Nat, Simple(n, c), NEW k, NEW x, OneToOne(k, x, c), NEW m, m = Joined(n, c, k, x),
         NEW t \in 1 .. c, \A i \in 1 .. k : x[i] # t
  PROVE  Attractiveness(m, t) = Attractiveness(n, t)
<1> DEFINE L == Len(n.ties)
           At(e) == e.to = t \/ (~n.directed /\ e.from = t)
<1>1. /\ m.directed = n.directed /\ m.ties \in Seq(TieOf(1 .. c + 1))
      /\ L \in Nat /\ Len(m.ties) = L + k
      /\ \A i \in 1 .. L : m.ties[i] = n.ties[i]
      /\ \A i \in (L + 1) .. (L + k) : m.ties[i] = Tie(c + 1, x[i - L], Unit) /\ i - L \in 1 .. k
  <2>1. Appended(n, c, k, x, m, L)
    BY JoinedTies
  <2> HIDE DEF L
  <2>2. QED
    BY <2>1 DEF Appended
<1>2. DOMAIN m.ties = 1 .. Len(m.ties) /\ DOMAIN n.ties = 1 .. L
  <2>1. Standing(n)
    BY DEF Simple
  <2>2. QED
    BY <1>1, <2>1, PlacedSlots
<1>3. k \in Nat
  BY DEF OneToOne
<1>4. ASSUME NEW i \in (L + 1) .. (L + k) PROVE ~At(m.ties[i])
  <2>1. m.ties[i] = Tie(c + 1, x[i - L], Unit) /\ i - L \in 1 .. k
    BY <1>1
  <2>2. m.ties[i].from = c + 1 /\ m.ties[i].to = x[i - L]
    BY <2>1 DEF Tie
  <2>3. QED
    BY <2>1, <2>2
<1>5. \A i \in 1 .. Len(m.ties) : i \in 1 .. L \/ i \in (L + 1) .. (L + k)
  BY <1>1, <1>3
<1>6. \A i \in 1 .. L : i \in 1 .. Len(m.ties)
  BY <1>1, <1>3
<1> HIDE DEF At, L
<1>7. {i \in 1 .. Len(m.ties) : At(m.ties[i])} = {i \in 1 .. L : At(n.ties[i])}
  BY <1>1, <1>4, <1>5, <1>6
<1>8. /\ Attractiveness(m, t) = 1 + Cardinality({i \in 1 .. Len(m.ties) : At(m.ties[i])})
      /\ Attractiveness(n, t) = 1 + Cardinality({i \in 1 .. L : At(n.ties[i])})
  BY <1>1, <1>2 DEF Attractiveness, At
<1>9. QED
  BY <1>7, <1>8

(* Keys of two different agents are those of a network without loops. *)
LEMMA KeyedLoopless ==
  ASSUME NEW n, NEW c \in Nat, NEW K, Keyed(n, c, K), \A k \in K : k[1] # k[2]
  PROVE  Loopless(n)
<1>1. Standing(n) /\ \A i \in 1 .. Len(n.ties) : TieKey(n, n.ties[i]) \in K
  BY DEF Keyed, Shows, Keeps, Marked
<1>2. DOMAIN n.ties = 1 .. Len(n.ties)
  BY <1>1, PlacedSlots
<1>3. ASSUME NEW i \in 1 .. Len(n.ties) PROVE n.ties[i].from # n.ties[i].to
  <2> DEFINE a == n.label[n.ties[i].from]
             b == n.label[n.ties[i].to]
             k == TieKey(n, n.ties[i])
  <2>1. a \in Nat /\ b \in Nat /\ n.directed \in BOOLEAN
    BY <1>1, PlacedSlots
  <2>2. k = KeyOf(n.directed, a, b)
    BY DEF TieKey
  <2>3. k[1] # k[2]
    BY <1>1
  <2> HIDE DEF a, b, k
  <2>4. {k[1], k[2]} = {a, b}
    BY <2>1, <2>2, KeyEnds DEF AreEnds
  <2>5. a # b
    BY <2>3, <2>4
  <2>6. QED
    BY <2>5 DEF a, b
<1>4. QED
  BY <1>2, <1>3 DEF Loopless
LEMMA KeysLoopless ==
  ASSUME NEW d \in BOOLEAN, NEW c \in Nat, NEW pairs, Pairing(pairs, c), \A i \in 1 .. Len(pairs) : pairs[i][1] # pairs[i][2]
  PROVE  \A k \in KeysOf(d, pairs) : k[1] # k[2]
<1>1. ASSUME NEW i \in 1 .. Len(pairs), NEW k, k = KeyOf(d, pairs[i][1], pairs[i][2]) PROVE k[1] # k[2]
  <2> DEFINE a == pairs[i][1]
             b == pairs[i][2]
  <2>1. a \in Nat /\ b \in Nat /\ a # b
    BY DEF Pairing
  <2>2. k = KeyOf(d, a, b)
    BY <1>1
  <2> HIDE DEF a, b
  <2>3. {k[1], k[2]} = {a, b}
    BY <2>1, <2>2, KeyEnds DEF AreEnds
  <2>4. ASSUME k[1] = k[2] PROVE FALSE
    <3>1. a \in {k[1], k[2]} /\ b \in {k[1], k[2]}
      BY <2>3
    <3>2. QED
      BY <2>1, <2>4, <3>1
  <2>5. QED
    BY <2>4
<1>2. QED
  BY <1>1 DEF KeysOf
LEMMA PairsListed ==
  ASSUME NEW c \in Nat, NEW d \in BOOLEAN, NEW S, S \subseteq Pairs(c, d), NEW l, l = Listed(S, Before)
  PROVE  Pairing(l, c) /\ \A i \in 1 .. Len(l) : l[i][1] # l[i][2]
<1>1. IsFiniteSet(S)
  <2>1. IsFiniteSet(1 .. c)
    BY FS_Interval
  <2>2. IsFiniteSet((1 .. c) \X (1 .. c))
    BY <2>1, FS_Product
  <2>3. S \subseteq (1 .. c) \X (1 .. c)
    BY DEF Pairs
  <2>4. QED
    BY <2>2, <2>3, FS_Subset
<1>2. \A p \in S : p \in (1 .. c) \X (1 .. c) /\ p[1] \in 1 .. c /\ p[2] \in 1 .. c /\ p[1] # p[2]
  BY DEF Pairs
<1>3. \A p, q \in S : p[1] = q[1] /\ p[2] = q[2] => p = q
  BY <1>2
<1>4. \A p \in S : p[1] \in Nat /\ p[2] \in Nat
  BY <1>2
<1>5. ListOf(l, S)
  BY <1>1, <1>3, <1>4, ListedTriples
<1>6. DOMAIN l = 1 .. Cardinality(S)
  BY DEF Listed
<1>7. QED
  BY <1>2, <1>5, <1>6 DEF ListOf, Pairing
(* A network made of listed pairs has a tie for each pair and no other. *)
LEMMA MadeSimple ==
  ASSUME NEW c \in Nat, NEW d \in BOOLEAN, NEW S, S \subseteq Pairs(c, d)
  PROVE  Simple(Made(d, c, Listed(S, Before)), c) /\ Made(d, c, Listed(S, Before)).directed = d
<1> DEFINE l == Listed(S, Before)
           n == Made(d, c, l)
<1>1. Pairing(l, c) /\ \A i \in 1 .. Len(l) : l[i][1] # l[i][2]
  BY PairsListed
<1> HIDE DEF l
<1>2. Keyed(n, c, KeysOf(d, l)) /\ n.directed = d
  BY <1>1, MadeKeyed
<1>3. Loopless(n)
  BY <1>1, <1>2, KeysLoopless, KeyedLoopless
<1>4. QED
  BY <1>2, <1>3 DEF Simple, Keyed, Shows, l
WeightsOf(n, c, N) == [t \in 1 .. N |-> IF t <= c THEN Attractiveness(n, t) ELSE 0]
Growing(n, c, N, f) == N \in Nat /\ c \in 0 .. N /\ Simple(n, c) /\ Fen(f, N, WeightsOf(n, c, N))
LEMMA SimpleTies ==
  ASSUME NEW n, NEW c \in Nat, Simple(n, c)
  PROVE  Len(n.ties) \in Nat /\ DOMAIN n.ties = 1 .. Len(n.ties)
BY PlacedSlots DEF Simple
(* The clique starts the growth: set for every slot, the tree weighs what each attracts. *)
LEMMA GrownFrom ==
  ASSUME NEW n, NEW N \in Nat, NEW c \in 0 .. N, Simple(n, c)
  PROVE  Growing(n, c, N, SetWeights(NewTree(N), n, Roster(c)))
<1> DEFINE W == [t \in 1 .. N |-> 0]
           A == [t \in 1 .. N |-> Attractiveness(n, t)]
           R == Roster(c)
<1>1. Fen(NewTree(N), N, W)
  BY NewTreeFen
<1>2. c \in Nat /\ c <= N
  OBVIOUS
<1>3. Len(R) = c /\ \A k \in 1 .. c : R[k] = k
  <2>1. Roster(c) \in Seq(Nat) /\ DOMAIN Roster(c) = 1 .. c
    BY <1>2 DEF Roster
  <2>2. Len(R) = c
    BY <1>2, <2>1
  <2>3. QED
    BY <2>2 DEF Roster
<1>4. Listing(R, 1 .. c, N)
  <2> HIDE DEF R
  <2>1. \A k \in 1 .. Len(R) : R[k] \in 1 .. N
    BY <1>2, <1>3
  <2>2. \A t : t \in 1 .. c <=> \E k \in 1 .. Len(R) : R[k] = t
    BY <1>3
  <2>3. QED
    BY <1>2, <1>3, <2>1, <2>2 DEF Listing
<1>5. Fen(SetWeights(NewTree(N), n, R), N, Reset(W, N, 1 .. c, A))
  <2>1. Len(n.ties) \in Nat /\ DOMAIN n.ties = 1 .. Len(n.ties)
    BY <1>2, SimpleTies
  <2>2. Pulls(n, N, A)
    BY DEF Pulls
  <2> HIDE DEF R, W, A
  <2>3. QED
    BY <1>1, <1>4, <2>1, <2>2, SetWeightsFen
<1>6. Reset(W, N, 1 .. c, A) = WeightsOf(n, c, N)
  <2>1. \A t \in 1 .. N : t \in 1 .. c <=> t <= c
    BY <1>2
  <2>2. \A t \in 1 .. N : (IF t \in 1 .. c THEN A[t] ELSE W[t]) = IF t <= c THEN Attractiveness(n, t) ELSE 0
    BY <2>1
  <2> HIDE DEF A, W
  <2>3. QED
    BY <2>2 DEF Reset, WeightsOf
<1>7. QED
  BY <1>5, <1>6 DEF Growing
(* A draw below the total falls on an agent who is there, never on a slot still empty. *)
LEMMA DrawnAttract ==
  ASSUME NEW n, NEW c, NEW N, NEW f, Growing(n, c, N, f), NEW r \in 0 .. Total(f) - 1
  PROVE  FirstPrefixGreaterThan(f, r) \in 1 .. c
<1> DEFINE W == WeightsOf(n, c, N)
           t == FirstPrefixGreaterThan(f, r)
<1>1. Fen(f, N, W) /\ Weighs(W, N) /\ N \in Nat /\ c \in 0 .. N
  BY DEF Growing, Fen
<1>2. Total(f) = UpTo(W, N) /\ UpTo(W, N) \in Nat
  <2> HIDE DEF W
  <2>1. N <= N
    BY <1>1
  <2>2. QED
    BY <1>1, <2>1, TotalIs, UpToGrows
<1>3. r \in Nat /\ r < UpTo(W, N)
  BY <1>2
<1>4. FallsIn(W, N, r, t)
  <2> HIDE DEF W
  <2>1. QED
    BY <1>1, <1>3, FirstPrefixIs
<1>5. t \in 1 .. N /\ UpTo(W, t - 1) <= r /\ UpTo(W, t) > r
  BY <1>4 DEF FallsIn
<1> HIDE DEF t
<1>6. UpTo(W, t) = UpTo(W, t - 1) + Summed(W, ((t - 1) + 1) .. t) /\ UpTo(W, t - 1) \in Nat
  <2> DEFINE q == t - 1
  <2>1. q \in Nat /\ t \in Nat /\ q <= t /\ t <= N
    BY <1>1, <1>5
  <2> HIDE DEF W, q
  <2>2. UpTo(W, t) = UpTo(W, q) + Summed(W, (q + 1) .. t) /\ UpTo(W, q) \in Nat
    BY <1>1, <2>1, UpToGrows
  <2>3. QED
    BY <2>2 DEF q
<1>7. ((t - 1) + 1) .. t = {t}
  BY <1>1, <1>5
<1>8. Summed(W, {t}) = W[t]
  <2>1. W[t] \in Int
    BY <1>1, <1>5 DEF Weighs
  <2> HIDE DEF W
  <2>2. {t} = {} \cup {t} /\ IntOn(W, {}) /\ IsFiniteSet({}) /\ t \notin {}
    BY FS_EmptySet DEF IntOn
  <2>3. Summed(W, {} \cup {t}) = W[t] + Summed(W, {})
    BY <2>1, <2>2, SumAdds
  <2>4. QED
    BY <2>1, <2>2, <2>3, SumEmpty
<1>9. W[t] > 0
  <2> HIDE DEF W
  <2>1. W[t] \in Nat
    BY <1>1, <1>5 DEF Weighs
  <2>2. QED
    BY <1>3, <1>5, <1>6, <1>7, <1>8, <2>1
<1>10. t <= c
  BY <1>5, <1>9 DEF WeightsOf
<1>11. QED
  BY <1>1, <1>5, <1>10 DEF t
(* A newcomer's ties change only the weights of those it is tied to, and its own. *)
LEMMA GrownOn ==
  ASSUME NEW n, NEW c, NEW N, NEW f, Growing(n, c, N, f), c < N, NEW k, NEW x, OneToOne(k, x, c),
         NEW g, g = SetWeight(f, c + 1, 0), NEW m, m = Joined(n, c, k, x)
  PROVE  Growing(m, c + 1, N, Reweighed(g, m, x, c + 1))
<1> DEFINE W == WeightsOf(n, c, N)
           A == [t \in 1 .. N |-> Attractiveness(m, t)]
           slots == x \o <<c + 1>>
           S == {x[i] : i \in 1 .. k} \cup {c + 1}
<1>1. Fen(f, N, W) /\ W \in [1 .. N -> Nat] /\ N \in Nat /\ c \in Nat /\ c + 1 \in 1 .. N /\ Simple(n, c)
  BY DEF Growing, Fen, Weighs
<1>2. Simple(m, c + 1)
  BY <1>1, JoinedSimple
<1>3. W[c + 1] = 0 /\ [W EXCEPT ![c + 1] = 0] = W
  <2>1. W[c + 1] = 0
    BY <1>1 DEF WeightsOf
  <2> HIDE DEF W
  <2>2. QED
    BY <1>1, <2>1
<1>4. Fen(g, N, W)
  <2> HIDE DEF W
  <2>1. QED
    BY <1>1, <1>3, SetWeightFen
<1>5. k \in Nat /\ x \in [1 .. k -> 1 .. c]
  BY DEF OneToOne
<1>6. Len(slots) = k + 1 /\ slots[k + 1] = c + 1 /\ \A i \in 1 .. k : slots[i] = x[i]
  <2>1. x \in Seq(1 .. c)
    BY <1>1, <1>5
  <2>2. x \in Seq(Nat)
    <3>1. 1 .. c \subseteq Nat
      BY <1>1
    <3>2. QED
      BY <2>1, <3>1, SeqWithin
  <2>3. Len(x) = k
    BY <1>5, <2>1
  <2>4. <<c + 1>> \in Seq(Nat) /\ Len(<<c + 1>>) = 1 /\ <<c + 1>>[1] = c + 1
    BY <1>1
  <2>5. QED
    BY <1>5, <2>2, <2>3, <2>4
<1>7. \A i \in 1 .. Len(slots) : slots[i] \in 1 .. N
  <2>1. \A i \in 1 .. Len(slots) : i = k + 1 \/ i \in 1 .. k
    BY <1>5, <1>6
  <2>2. \A i \in 1 .. k : slots[i] \in 1 .. c
    BY <1>5, <1>6
  <2> HIDE DEF slots
  <2>3. QED
    BY <1>1, <1>6, <2>1, <2>2
<1>8. Listing(slots, S, N)
  <2>1. \A i \in 1 .. Len(slots) : i = k + 1 \/ i \in 1 .. k
    BY <1>5, <1>6
  <2>2. \A i \in 1 .. k : i \in 1 .. Len(slots)
    BY <1>5, <1>6
  <2>3. k + 1 \in 1 .. Len(slots)
    BY <1>5, <1>6
  <2>4. \A t : t \in S <=> t = c + 1 \/ \E i \in 1 .. k : x[i] = t
    OBVIOUS
  <2>5. Len(slots) \in Nat
    BY <1>5, <1>6
  <2> HIDE DEF slots, S
  <2>6. \A t : t \in S <=> \E i \in 1 .. Len(slots) : slots[i] = t
    BY <1>6, <2>1, <2>2, <2>3, <2>4
  <2>7. QED
    BY <1>7, <2>5, <2>6 DEF Listing
<1>9. Fen(SetWeights(g, m, slots), N, Reset(W, N, S, A))
  <2>1. Len(m.ties) \in Nat /\ DOMAIN m.ties = 1 .. Len(m.ties)
    BY <1>1, <1>2, SimpleTies
  <2>2. Pulls(m, N, A)
    BY DEF Pulls
  <2> HIDE DEF slots, W, A, S
  <2>3. QED
    BY <1>4, <1>8, <2>1, <2>2, SetWeightsFen
<1>10. Reset(W, N, S, A) = WeightsOf(m, c + 1, N)
  <2>1. /\ \A t : t \in S <=> t = c + 1 \/ \E i \in 1 .. k : x[i] = t
        /\ \A t \in 1 .. N : A[t] = Attractiveness(m, t)
        /\ \A t \in 1 .. N : W[t] = IF t <= c THEN Attractiveness(n, t) ELSE 0
    BY DEF WeightsOf
  <2> HIDE DEF A, W, S
  <2>2. ASSUME NEW t \in 1 .. N
        PROVE  (IF t \in S THEN A[t] ELSE W[t]) = IF t <= c + 1 THEN Attractiveness(m, t) ELSE 0
    <3>1. CASE t \in S
      <4>1. t <= c + 1
        BY <1>1, <1>5, <2>1, <3>1
      <4>2. QED
        BY <2>1, <3>1, <4>1
    <3>2. CASE t \notin S /\ t <= c
      <4>1. t \in 1 .. c /\ \A i \in 1 .. k : x[i] # t
        BY <1>1, <2>1, <3>2
      <4>2. Attractiveness(m, t) = Attractiveness(n, t)
        BY <1>1, <4>1, UnchosenAttract
      <4>3. t <= c + 1
        BY <1>1, <3>2
      <4>4. QED
        BY <2>1, <3>2, <4>2, <4>3
    <3>3. CASE t \notin S /\ ~(t <= c)
      <4>1. ~(t <= c + 1)
        BY <1>1, <2>1, <3>3
      <4>2. QED
        BY <2>1, <3>3, <4>1
    <3>4. QED
      BY <3>1, <3>2, <3>3
  <2>3. QED
    BY <2>2 DEF Reset, WeightsOf
<1>11. Fen(Reweighed(g, m, x, c + 1), N, WeightsOf(m, c + 1, N))
  BY <1>9, <1>10 DEF Reweighed
<1>12. c + 1 \in 0 .. N
  BY <1>1
<1>13. QED
  BY <1>1, <1>2, <1>11, <1>12 DEF Growing

DrawsByDegree(n, N, f) ==
  LET weight(s) == IF s \in DOMAIN n.label THEN Attractiveness(n, s) ELSE 0
      walk(r) == Min({s \in 1 .. N : SumFunction([t \in 1 .. s |-> weight(t)]) > r})
  IN  /\ Total(f) = SumFunction([t \in 1 .. N |-> weight(t)])
      /\ \A r \in 0 .. Total(f) - 1 : FirstPrefixGreaterThan(f, r) = walk(r)
(* While a network grows, a draw finds the slot that a walk over the degrees finds. *)
LEMMA GrowingDraws ==
  ASSUME NEW n, NEW c, NEW N, NEW f, Growing(n, c, N, f)
  PROVE  DrawsByDegree(n, N, f)
<1> DEFINE weight(s) == IF s \in DOMAIN n.label THEN Attractiveness(n, s) ELSE 0
           V(i) == [t \in 1 .. i |-> weight(t)]
           W == WeightsOf(n, c, N)
<1>1. Fen(f, N, W) /\ Weighs(W, N) /\ N \in Nat /\ c \in 0 .. N /\ Simple(n, c)
  BY DEF Growing, Fen
<1>2. \A t \in 1 .. N : weight(t) = W[t] /\ W[t] \in Int
  <2>1. c \in Nat /\ DOMAIN n.label = 1 .. c
    BY <1>1, RosteredLabels DEF Simple
  <2>2. \A t \in 1 .. N : t \in 1 .. c <=> t <= c
    BY <2>1
  <2>3. \A t \in 1 .. N : weight(t) = W[t]
    BY <2>1, <2>2 DEF WeightsOf
  <2> HIDE DEF W, weight
  <2>4. QED
    BY <1>1, <2>3 DEF Weighs
<1> HIDE DEF weight, W
<1>3. ASSUME NEW i \in 0 .. N PROVE SumFunction(V(i)) = UpTo(W, i)
  <2>1. IsFiniteSet(1 .. i) /\ DOMAIN V(i) = 1 .. i
    BY FS_Interval
  <2>2. \A x \in 1 .. i : x \in 1 .. N
    BY <1>1
  <2>3. IntOn(V(i), 1 .. i) /\ \A x \in 1 .. i : V(i)[x] = W[x]
    BY <1>2, <2>2 DEF IntOn
  <2> HIDE DEF V
  <2>4. SumFunction(V(i)) = Summed(V(i), 1 .. i)
    BY <2>1, <2>3, SumOfFunction
  <2>5. Summed(V(i), 1 .. i) = Summed(W, 1 .. i)
    BY <2>1, <2>3, SumAgrees
  <2>6. QED
    BY <2>4, <2>5 DEF UpTo
<1> HIDE DEF V
<1>4. Total(f) = UpTo(W, N) /\ UpTo(W, N) \in Nat
  <2>1. N <= N
    BY <1>1
  <2>2. QED
    BY <1>1, <2>1, TotalIs, UpToGrows
<1>5. Total(f) = SumFunction(V(N))
  <2>1. N \in 0 .. N
    BY <1>1
  <2>2. QED
    BY <1>3, <1>4, <2>1
<1>6. ASSUME NEW r \in 0 .. Total(f) - 1
      PROVE  FirstPrefixGreaterThan(f, r) = Min({s \in 1 .. N : SumFunction(V(s)) > r})
  <2> DEFINE t == FirstPrefixGreaterThan(f, r)
             P == {s \in 1 .. N : SumFunction(V(s)) > r}
  <2>1. r \in Nat /\ r < UpTo(W, N)
    BY <1>4
  <2>2. FallsIn(W, N, r, t)
    BY <1>1, <2>1, FirstPrefixIs
  <2>3. t \in 1 .. N /\ UpTo(W, t - 1) <= r /\ UpTo(W, t) > r
    BY <2>2 DEF FallsIn
  <2> HIDE DEF t
  <2>4. \A s \in 1 .. N : s \in P <=> UpTo(W, s) > r
    <3>1. \A s \in 1 .. N : s \in 0 .. N
      OBVIOUS
    <3>2. QED
      BY <1>3, <3>1
  <2>5. P \subseteq Nat /\ t \in P
    BY <1>1, <2>3, <2>4
  <2> HIDE DEF P
  <2>6. Min(P) \in P /\ Min(P) <= t
    <3>1. P # {}
      BY <2>5
    <3>2. QED
      BY <2>5, <3>1, MinIs
  <2>7. ASSUME Min(P) < t PROVE FALSE
    <3> DEFINE s == Min(P)
               q == t - 1
    <3>1. s \in 1 .. N
      BY <2>6 DEF P
    <3>2. s \in Nat /\ q \in Nat /\ s <= q /\ q <= N
      BY <1>1, <2>3, <2>7, <3>1
    <3>3. UpTo(W, s) > r
      BY <2>4, <2>6, <3>1
    <3>4. UpTo(W, q) <= r
      BY <2>3
    <3> HIDE DEF s, q
    <3>5. UpTo(W, q) = UpTo(W, s) + Summed(W, (s + 1) .. q) /\ UpTo(W, s) \in Nat /\ UpTo(W, s) <= UpTo(W, q)
      BY <1>1, <3>2, UpToGrows
    <3>6. UpTo(W, q) \in Nat
      <4>1. q <= q
        BY <3>2
      <4>2. QED
        BY <1>1, <3>2, <4>1, UpToGrows
    <3>7. QED
      BY <2>1, <3>3, <3>4, <3>5, <3>6
  <2>8. QED
    BY <2>3, <2>5, <2>6, <2>7 DEF t, P
<1>7. QED
  BY <1>5, <1>6 DEF DrawsByDegree, V, weight

-----------------------------------------------------------------------------
(***************************************************************************)
(* The ring of Watts and Strogatz: agent a is tied to the next half agents.*)
(***************************************************************************)
LEMMA Divided ==
  ASSUME NEW x \in Nat, NEW m \in Nat \ {0}
  PROVE  x = m * (x \div m) + (x % m) /\ x \div m \in Nat /\ x % m \in 0 .. m - 1
OBVIOUS
LEMMA DividedOnce ==
  ASSUME NEW m \in Nat \ {0}, NEW q \in Nat, NEW r \in 0 .. m - 1
  PROVE  (m * q + r) \div m = q /\ (m * q + r) % m = r
<1> DEFINE x == m * q + r
           p == x \div m
           s == x % m
<1>1. x \in Nat
  OBVIOUS
<1>2. x = m * p + s /\ p \in Nat /\ s \in 0 .. m - 1
  <2> HIDE DEF x
  <2>1. QED
    BY <1>1, Divided
<1>3. x = m * q + r
  OBVIOUS
<1> HIDE DEF x, p, s
<1>4. ~(p < q)
  <2>1. SUFFICES ASSUME p + 1 <= q PROVE FALSE
    BY <1>2
  <2>2. m * (p + 1) <= m * q
    BY <1>2, <2>1
  <2>3. m * (p + 1) = m * p + m
    BY <1>2
  <2>4. QED
    BY <1>2, <1>3, <2>2, <2>3
<1>5. ~(q < p)
  <2>1. SUFFICES ASSUME q + 1 <= p PROVE FALSE
    BY <1>2
  <2>2. m * (q + 1) <= m * p
    BY <1>2, <2>1
  <2>3. m * (q + 1) = m * q + m
    OBVIOUS
  <2>4. QED
    BY <1>2, <1>3, <2>2, <2>3
<1>6. p = q
  BY <1>2, <1>4, <1>5
<1>7. s = r
  BY <1>2, <1>3, <1>6
<1>8. QED
  BY <1>6, <1>7 DEF p, s, x
LEMMA AfterIs ==
  ASSUME NEW n \in Nat \ {0}, NEW i \in 1 .. n, NEW d \in 1 .. n
  PROVE  After(i, d, n) = (IF i + d <= n THEN i + d ELSE i + d - n) /\ After(i, d, n) \in 1 .. n
<1>1. CASE i + d <= n
  <2>1. i - 1 + d = n * 0 + (i - 1 + d) /\ i - 1 + d \in 0 .. n - 1
    BY <1>1
  <2>2. (n * 0 + (i - 1 + d)) % n = i - 1 + d
    BY <2>1, DividedOnce
  <2>3. (i - 1 + d) % n = i - 1 + d
    BY <2>1, <2>2
  <2>4. QED
    BY <1>1, <2>3 DEF After
<1>2. CASE i + d > n
  <2>1. i - 1 + d = n * 1 + (i - 1 + d - n) /\ i - 1 + d - n \in 0 .. n - 1
    BY <1>2
  <2>2. (n * 1 + (i - 1 + d - n)) % n = i - 1 + d - n
    BY <2>1, DividedOnce
  <2>3. (i - 1 + d) % n = i - 1 + d - n
    BY <2>1, <2>2
  <2>4. QED
    BY <1>2, <2>3 DEF After
<1>3. QED
  BY <1>1, <1>2
Half(n, m) == n \in Nat /\ m \in Nat \ {0} /\ (m = 1 \/ 2 * m < n)
LEMMA HalfIs ==
  ASSUME NEW n \in Nat, NEW k \in Nat
  PROVE  Half(n, HalfK(n, k))
<1> DEFINE a == Max({n - 1, 0})
           b == Min({k, a})
           h == b \div 2
<1>1. a = IF n - 1 <= 0 THEN 0 ELSE n - 1
  BY MinMaxOfTwo
<1>2. a \in Nat /\ (a = 0 \/ a = n - 1)
  BY <1>1
<1> HIDE DEF a
<1>3. b \in Nat /\ b <= a
  BY <1>2, MinMaxOfTwo
<1> HIDE DEF b
<1>4. h \in Nat /\ 2 * h <= b
  BY <1>3
<1> HIDE DEF h
<1>5. HalfK(n, k) = Max({h, 1})
  BY DEF HalfK, h, b, a
<1>6. HalfK(n, k) = IF h <= 1 THEN 1 ELSE h
  <2>1. h \in Int /\ 1 \in Int
    BY <1>4
  <2>2. Max({h, 1}) = IF h <= 1 THEN 1 ELSE h
    BY <2>1, MinMaxOfTwo
  <2>3. QED
    BY <1>5, <2>2
<1>7. QED
  BY <1>2, <1>3, <1>4, <1>6 DEF Half
Ring(n, m) == (1 .. n) \X (1 .. m)
Number(m, a, d) == (a - 1) * m + d
LEMMA RingPairsAre ==
  ASSUME NEW n, NEW m, Half(n, m)
  PROVE  /\ DOMAIN RingPairs(n, m) = 1 .. n * m /\ Len(RingPairs(n, m)) = n * m /\ n * m \in Nat
         /\ \A j \in 1 .. n * m : \E a \in 1 .. n, d \in 1 .. m :
              RingPairs(n, m)[j] = <<a, After(a, d, n)>> /\ Number(m, a, d) = j
         /\ \A a \in 1 .. n, d \in 1 .. m : /\ Number(m, a, d) \in 1 .. n * m
                                            /\ RingPairs(n, m)[Number(m, a, d)] = <<a, After(a, d, n)>>
<1> DEFINE R == RingPairs(n, m)
           I(j) == (j - 1) \div m + 1
           D(j) == ((j - 1) % m) + 1
<1>1. n \in Nat /\ m \in Nat \ {0} /\ n * m \in Nat
  BY DEF Half
<1>2. R = [j \in 1 .. n * m |-> <<I(j), After(I(j), D(j), n)>>]
  BY DEF RingPairs
<1>3. DOMAIN R = 1 .. n * m /\ \A j \in 1 .. n * m : R[j] = <<I(j), After(I(j), D(j), n)>>
  <2> DEFINE F(j) == <<I(j), After(I(j), D(j), n)>>
  <2>1. R = [j \in 1 .. n * m |-> F(j)]
    BY <1>2
  <2> HIDE DEF R, F
  <2>2. DOMAIN R = 1 .. n * m /\ \A j \in 1 .. n * m : R[j] = F(j)
    BY <2>1
  <2>3. QED
    BY <2>2 DEF F
<1>4. Len(R) = n * m
  <2> DEFINE F(j) == <<I(j), After(I(j), D(j), n)>>
             N == n * m
             S == {F(j) : j \in 1 .. N}
  <2>1. R = [j \in 1 .. N |-> F(j)]
    BY <1>2
  <2> HIDE DEF R, F
  <2>2. R \in [1 .. N -> S]
    BY <2>1
  <2> HIDE DEF S
  <2>3. N \in Nat /\ DOMAIN R = 1 .. N
    BY <1>1, <2>2
  <2> HIDE DEF N
  <2>4. R \in Seq(S)
    BY <2>2, <2>3
  <2>5. Len(R) = N
    BY <2>3, <2>4
  <2>6. QED
    BY <2>5 DEF N
<1>5. ASSUME NEW j \in 1 .. n * m
      PROVE  I(j) \in 1 .. n /\ D(j) \in 1 .. m /\ Number(m, I(j), D(j)) = j
  <2> DEFINE x == j - 1
             q == x \div m
             r == x % m
  <2>1. x \in Nat /\ x < n * m
    BY <1>1
  <2>2. x = m * q + r /\ q \in Nat /\ r \in 0 .. m - 1
    <3> HIDE DEF x
    <3>1. QED
      BY <1>1, <2>1, Divided
  <2>3. I(j) = q + 1 /\ D(j) = r + 1 /\ j = x + 1
    OBVIOUS
  <2> HIDE DEF x, q, r, I, D
  <2>4. q < n
    <3>1. SUFFICES ASSUME n <= q PROVE FALSE
      BY <1>1, <2>2
    <3>2. m * n <= m * q
      BY <1>1, <2>2, <3>1
    <3>3. m * n = n * m
      BY <1>1
    <3>4. QED
      BY <1>1, <2>1, <2>2, <3>2, <3>3
  <2>5. q * m = m * q /\ (q + 1) - 1 = q
    BY <1>1, <2>2
  <2>6. QED
    BY <1>1, <2>2, <2>3, <2>4, <2>5 DEF Number
<1>6. ASSUME NEW a \in 1 .. n, NEW d \in 1 .. m
      PROVE  Number(m, a, d) \in 1 .. n * m /\ I(Number(m, a, d)) = a /\ D(Number(m, a, d)) = d
  <2> DEFINE q == a - 1
             r == d - 1
             j == Number(m, a, d)
  <2>1. q \in Nat /\ q + 1 <= n /\ r \in 0 .. m - 1 /\ a = q + 1 /\ d = r + 1
    BY <1>1
  <2>2. j = q * m + d
    BY DEF Number
  <2> HIDE DEF q, r, j
  <2>3. q * m = m * q /\ m * q \in Nat
    BY <1>1, <2>1
  <2>4. j = m * q + r + 1 /\ j - 1 = m * q + r
    BY <1>1, <2>1, <2>2, <2>3
  <2>5. (m * q + r) \div m = q /\ (m * q + r) % m = r
    BY <1>1, <2>1, DividedOnce
  <2>6. I(j) = a /\ D(j) = d
    BY <2>1, <2>4, <2>5
  <2>7. j \in 1 .. n * m
    <3>1. m * (q + 1) <= m * n
      BY <1>1, <2>1
    <3>2. m * (q + 1) = m * q + m /\ m * n = n * m
      BY <1>1, <2>1
    <3>3. QED
      BY <1>1, <2>1, <2>3, <2>4, <3>1, <3>2
  <2>8. QED
    BY <2>6, <2>7 DEF j
<1> HIDE DEF R, I, D
<1>7. \A j \in 1 .. n * m : \E a \in 1 .. n, d \in 1 .. m :
        R[j] = <<a, After(a, d, n)>> /\ Number(m, a, d) = j
  BY <1>3, <1>5
<1>8. \A a \in 1 .. n, d \in 1 .. m : /\ Number(m, a, d) \in 1 .. n * m
                                      /\ R[Number(m, a, d)] = <<a, After(a, d, n)>>
  <2>1. SUFFICES ASSUME NEW a \in 1 .. n, NEW d \in 1 .. m
                 PROVE  /\ Number(m, a, d) \in 1 .. n * m
                        /\ R[Number(m, a, d)] = <<a, After(a, d, n)>>
    OBVIOUS
  <2> DEFINE j == Number(m, a, d)
  <2>2. j \in 1 .. n * m /\ I(j) = a /\ D(j) = d
    BY <1>6
  <2> HIDE DEF j
  <2>3. R[j] = <<a, After(a, d, n)>>
    BY <1>3, <2>2
  <2>4. QED
    BY <2>2, <2>3 DEF j
<1>9. DOMAIN R = 1 .. n * m /\ Len(R) = n * m /\ n * m \in Nat
  BY <1>1, <1>3, <1>4
<1>10. QED
  <2> HIDE DEF Number, After
  <2>1. QED
    BY <1>7, <1>8, <1>9, Zenon DEF R

PairKey(a, b) == KeyOf(FALSE, a, b)
LEMMA SameUndirected ==
  ASSUME NEW a \in Nat, NEW b \in Nat, NEW p \in Nat, NEW q \in Nat
  PROVE  PairKey(a, b) = PairKey(p, q) <=> (a = p /\ b = q) \/ (a = q /\ b = p)
<1>1. PICK d \in BOOLEAN : d = FALSE
  OBVIOUS
<1>2. KeyOf(d, a, b) = KeyOf(d, p, q) <=> (a = p /\ b = q) \/ (~d /\ a = q /\ b = p)
  BY SameKey
<1>3. KeyOf(d, a, b) = PairKey(a, b) /\ KeyOf(d, p, q) = PairKey(p, q)
  BY <1>1 DEF PairKey
<1>4. ~d
  BY <1>1
<1>5. QED
  BY <1>2, <1>3, <1>4
RingKey(n, a, d) == PairKey(a, After(a, d, n))
LEMMA AfterInRing ==
  ASSUME NEW n, NEW m, Half(n, m), NEW a \in 1 .. n, NEW d \in 1 .. m
  PROVE  /\ n \in Nat \ {0} /\ d \in 1 .. n /\ After(a, d, n) \in 1 .. n
         /\ After(a, d, n) = (IF a + d <= n THEN a + d ELSE a + d - n)
         /\ n > 1 => After(a, d, n) # a
<1>1. n \in Nat \ {0} /\ d \in 1 .. n /\ (n > 1 => d < n)
  BY DEF Half
<1>2. After(a, d, n) = (IF a + d <= n THEN a + d ELSE a + d - n) /\ After(a, d, n) \in 1 .. n
  BY <1>1, AfterIs
<1>3. QED
  BY <1>1, <1>2
(* On a ring longer than a full degree no pair comes twice, from either side. *)
LEMMA RingKeysApart ==
  ASSUME NEW n, NEW m, Half(n, m), n > 2 * m, NEW a \in 1 .. n, NEW d \in 1 .. m, NEW b \in 1 .. n, NEW e \in 1 .. m,
         RingKey(n, a, d) = RingKey(n, b, e)
  PROVE  a = b /\ d = e
<1> DEFINE x == After(a, d, n)
           y == After(b, e, n)
<1>1. /\ n \in Nat \ {0} /\ m \in Nat \ {0}
      /\ x \in 1 .. n /\ x = (IF a + d <= n THEN a + d ELSE a + d - n)
      /\ y \in 1 .. n /\ y = (IF b + e <= n THEN b + e ELSE b + e - n)
  <2>1. m \in Nat \ {0}
    BY DEF Half
  <2>2. n \in Nat \ {0} /\ x \in 1 .. n /\ x = (IF a + d <= n THEN a + d ELSE a + d - n)
    BY AfterInRing
  <2>3. y \in 1 .. n /\ y = (IF b + e <= n THEN b + e ELSE b + e - n)
    BY AfterInRing
  <2>4. QED
    BY <2>1, <2>2, <2>3
<1>2. PairKey(a, x) = PairKey(b, y)
  BY DEF RingKey
<1> HIDE DEF x, y
<1>3. (a = b /\ x = y) \/ (a = y /\ x = b)
  <2>1. a \in Nat /\ x \in Nat /\ b \in Nat /\ y \in Nat
    BY <1>1
  <2>2. QED
    BY <1>2, <2>1, SameUndirected
<1>4. d <= m /\ e <= m /\ d >= 1 /\ e >= 1 /\ d \in Nat /\ e \in Nat
  BY <1>1
<1>5. CASE a = b /\ x = y
  BY <1>1, <1>4, <1>5
<1>6. CASE a = y /\ x = b
  BY <1>1, <1>4, <1>6
<1>7. QED
  BY <1>3, <1>5, <1>6
(* The ring joins agents who are there, and two different ones if there are two. *)
LEMMA RingPairing ==
  ASSUME NEW n, NEW m, Half(n, m)
  PROVE  /\ Pairing(RingPairs(n, m), n)
         /\ n > 1 => \A i \in 1 .. Len(RingPairs(n, m)) : RingPairs(n, m)[i][1] # RingPairs(n, m)[i][2]
         /\ \A a \in 1 .. n, d \in 1 .. m : RingKey(n, a, d) \in KeysOf(FALSE, RingPairs(n, m))
<1> DEFINE R == RingPairs(n, m)
<1>1. DOMAIN R = 1 .. n * m /\ Len(R) = n * m /\ n * m \in Nat
  BY RingPairsAre
<1>2. ASSUME NEW j \in 1 .. n * m
      PROVE  R[j][1] \in 1 .. n /\ R[j][2] \in 1 .. n /\ (n > 1 => R[j][1] # R[j][2])
  <2>1. PICK a \in 1 .. n, d \in 1 .. m : R[j] = <<a, After(a, d, n)>>
    BY RingPairsAre
  <2>2. After(a, d, n) \in 1 .. n /\ (n > 1 => After(a, d, n) # a)
    BY AfterInRing
  <2>3. R[j][1] = a /\ R[j][2] = After(a, d, n)
    BY <2>1
  <2>4. QED
    BY <2>2, <2>3
<1>3. ASSUME NEW a \in 1 .. n, NEW d \in 1 .. m PROVE RingKey(n, a, d) \in KeysOf(FALSE, R)
  <2> DEFINE j == Number(m, a, d)
  <2>1. j \in 1 .. n * m /\ R[j] = <<a, After(a, d, n)>>
    BY RingPairsAre
  <2> HIDE DEF j, R
  <2>2. R[j][1] = a /\ R[j][2] = After(a, d, n) /\ j \in 1 .. Len(R)
    BY <1>1, <2>1
  <2>3. KeyOf(FALSE, R[j][1], R[j][2]) \in KeysOf(FALSE, R)
    BY <2>2 DEF KeysOf
  <2>4. QED
    BY <2>2, <2>3 DEF RingKey, PairKey
<1>4. Pairing(R, n)
  BY <1>1, <1>2 DEF Pairing
<1>5. n > 1 => \A i \in 1 .. Len(R) : R[i][1] # R[i][2]
  BY <1>1, <1>2
<1>6. QED
  BY <1>3, <1>4, <1>5
Joint(n, m) == {{p[1], p[2]} : p \in Range(RingPairs(n, m))}
(* No key comes twice, so there are as many ties as keys. *)
LEMMA TiesAreKeys ==
  ASSUME NEW n, NEW c, NEW K, Keyed(n, c, K)
  PROVE  IsFiniteSet(K) /\ Cardinality(K) = Len(n.ties)
<1> DEFINE L == Len(n.ties)
           f == [i \in 1 .. L |-> TieKey(n, n.ties[i])]
<1>1. Standing(n) /\ KeysApart(n) /\ K = {TieKey(n, n.ties[i]) : i \in 1 .. L}
  BY DEF Keyed, Shows, Keeps, Marked
<1>2. L \in Nat
  BY <1>1, PlacedSlots
<1>3. f \in [1 .. L -> K] /\ \A i \in 1 .. L : f[i] = TieKey(n, n.ties[i])
  BY <1>1
<1> HIDE DEF f
<1>4. \A i, j \in 1 .. L : f[i] = f[j] => i = j
  BY <1>1, <1>3 DEF KeysApart
<1>5. \A k \in K : \E i \in 1 .. L : f[i] = k
  BY <1>1, <1>3
<1>6. IsFiniteSet(1 .. L) /\ Cardinality(1 .. L) = L
  BY <1>2, FS_Interval
<1>7. QED
  BY <1>3, <1>4, <1>5, <1>6, SameSize
LEMMA JointAreKeys ==
  ASSUME NEW n, NEW m, Half(n, m), IsFiniteSet(KeysOf(FALSE, RingPairs(n, m)))
  PROVE  Cardinality(Joint(n, m)) = Cardinality(KeysOf(FALSE, RingPairs(n, m)))
<1> DEFINE R == RingPairs(n, m)
           L == Len(R)
           K == KeysOf(FALSE, R)
           J == Joint(n, m)
           f == [k \in K |-> {k[1], k[2]}]
<1>1. DOMAIN R = 1 .. L /\ \A i \in 1 .. L : R[i][1] \in 1 .. n /\ R[i][2] \in 1 .. n
  BY RingPairing DEF Pairing
<1>2. J = {{R[i][1], R[i][2]} : i \in 1 .. L}
  <2>1. Range(R) = {R[i] : i \in 1 .. L}
    BY <1>1 DEF Range
  <2>2. J = {{p[1], p[2]} : p \in Range(R)}
    BY DEF Joint
  <2> HIDE DEF R, J
  <2>3. QED
    BY <2>1, <2>2
<1>3. K = {KeyOf(FALSE, R[i][1], R[i][2]) : i \in 1 .. L}
  BY DEF KeysOf
<1> HIDE DEF R, L, K, J
<1>4. ASSUME NEW i \in 1 .. L, NEW k, k = KeyOf(FALSE, R[i][1], R[i][2]) PROVE {k[1], k[2]} = {R[i][1], R[i][2]}
  <2>1. R[i][1] \in Nat /\ R[i][2] \in Nat /\ FALSE \in BOOLEAN
    BY <1>1
  <2>2. QED
    BY <1>4, <2>1, KeyEnds DEF AreEnds
<1>5. f \in [K -> J]
  <2>1. ASSUME NEW k \in K PROVE {k[1], k[2]} \in J
    <3>1. PICK i \in 1 .. L : k = KeyOf(FALSE, R[i][1], R[i][2])
      BY <1>3
    <3>2. {k[1], k[2]} = {R[i][1], R[i][2]}
      BY <1>4, <3>1
    <3>3. QED
      BY <1>2, <3>2
  <2>2. QED
    BY <2>1
<1>6. ASSUME NEW k \in K, NEW l \in K, f[k] = f[l] PROVE k = l
  <2>1. PICK i \in 1 .. L : k = KeyOf(FALSE, R[i][1], R[i][2])
    BY <1>3
  <2>2. PICK j \in 1 .. L : l = KeyOf(FALSE, R[j][1], R[j][2])
    BY <1>3
  <2> DEFINE a == R[i][1]
             b == R[i][2]
             p == R[j][1]
             q == R[j][2]
  <2>3. {k[1], k[2]} = {a, b} /\ {l[1], l[2]} = {p, q}
    BY <1>4, <2>1, <2>2
  <2>4. a \in Nat /\ b \in Nat /\ p \in Nat /\ q \in Nat
    BY <1>1
  <2>5. k = PairKey(a, b) /\ l = PairKey(p, q)
    BY <2>1, <2>2 DEF PairKey
  <2> HIDE DEF a, b, p, q
  <2>6. {a, b} = {p, q}
    BY <1>6, <2>3
  <2>7. (a = p /\ b = q) \/ (a = q /\ b = p)
    BY <2>6
  <2>8. QED
    BY <2>4, <2>5, <2>7, SameUndirected
<1>7. ASSUME NEW j \in J PROVE \E k \in K : f[k] = j
  <2>1. PICK i \in 1 .. L : j = {R[i][1], R[i][2]}
    BY <1>2
  <2>2. PICK k \in K : k = KeyOf(FALSE, R[i][1], R[i][2])
    BY <1>3
  <2>3. f[k] = j
    BY <1>4, <2>1, <2>2
  <2>4. QED
    BY <2>3
<1> HIDE DEF f
<1>8. IsFiniteSet(K)
  BY DEF K, R
<1>9. Cardinality(J) = Cardinality(K)
  BY <1>5, <1>6, <1>7, <1>8, SameSize
<1>10. QED
  BY <1>9 DEF J, K, R

Movable(n, N, a, b, v) == /\ a \in 1 .. N /\ b \in 1 .. N /\ v \in 1 .. N
                         /\ Found(n, a, b) # {} /\ Found(n, a, v) = {}
Undirected(n) == n.directed = FALSE
TieMoved(n, N, K, a, b, v, m) ==
  /\ Keyed(m, N, (K \ {PairKey(a, b)}) \cup {PairKey(a, v)})
  /\ PairKey(a, b) \in K /\ PairKey(a, v) \notin K
  /\ Undirected(m) /\ Len(m.ties) = Len(n.ties)
(* A tie that is moved gives up its key for one that nobody had. *)
LEMMA Rewiring ==
  ASSUME NEW n, NEW N \in Nat, NEW K, Keyed(n, N, K), Undirected(n), NEW a, NEW b, NEW v, Movable(n, N, a, b, v),
         NEW m, m = Rewired(n, Min(Found(n, a, b)), a, v)
  PROVE  TieMoved(n, N, K, a, b, v, m)
<1>0. /\ a \in 1 .. N /\ b \in 1 .. N /\ v \in 1 .. N
      /\ Found(n, a, b) # {} /\ Found(n, a, v) = {}
  BY DEF Movable
<1> DEFINE k == PairKey(a, b)
           l == PairKey(a, v)
           i == Min(Found(n, a, b))
           r == RemoveTie(n, a, b)
           H == Restrict(Marked(K), K \ {k})
<1>1. /\ DOMAIN n.index = 1 .. N /\ DOMAIN n.label = 1 .. N
      /\ \A s \in 1 .. N : n.index[s] = s /\ n.label[s] = s
      /\ Rostered(n, N) /\ Shows(n, 1 .. N, Marked(K)) /\ Standing(n)
  BY RosteredLabels DEF Keyed, Shows
<1>2. k = KeyOf(n.directed, a, b) /\ l = KeyOf(n.directed, a, v) /\ n.directed = FALSE
  BY DEF PairKey, Undirected
<1>3. DOMAIN Marked(K) = K
  BY DEF Marked
<1> HIDE DEF k, l
<1>4. k \in K /\ i \in 1 .. Len(n.ties)
  <2>1. OneFound(n, Marked(K), k, Found(n, a, b))
    BY <1>0, <1>1, <1>2, FoundOf
  <2>2. k \in K /\ i \in Found(n, a, b)
    BY <1>0, <1>3, <2>1 DEF OneFound
  <2>3. Found(n, a, b) \subseteq 1 .. Len(n.ties)
    BY <2>1 DEF OneFound
  <2>4. QED
    BY <2>2, <2>3
<1>5. l \notin K
  <2>1. a \in 1 .. N /\ v \in 1 .. N /\ a = n.index[a] /\ v = n.index[v] /\ l = KeyOf(n.directed, a, v)
    BY <1>0, <1>1, <1>2
  <2> DEFINE F == Found(n, a, v)
             G == Marked(K)
  <2>2. F = {} /\ F = Found(n, a, v) /\ DOMAIN G = K /\ Shows(n, 1 .. N, G)
    BY <1>0, <1>1, <1>3
  <2> HIDE DEF F, G
  <2>3. OneFound(n, G, l, F)
    BY <2>1, <2>2, FoundOf
  <2>4. QED
    BY <2>2, <2>3 DEF OneFound
<1>6. r = [n EXCEPT !.ties = RemoveAt(n.ties, i)]
  <2>1. {a, b} \subseteq DOMAIN n.index /\ n.index[a] = a /\ n.index[b] = b
    BY <1>0, <1>1
  <2>2. QED
    BY <1>0, <2>1 DEF RemoveTie
<1>7. r.directed = n.directed /\ r.ties = RemoveAt(n.ties, i) /\ r.index = n.index /\ r.label = n.label /\ Rostered(r, N)
  <2> HIDE DEF i
  <2>1. QED
    BY <1>1, <1>6 DEF Rostered, Framed
<1>8. Shows(r, 1 .. N, H)
  <2>1. a \in Nat /\ b \in Nat
    BY <1>0
  <2>2. Shows(r, 1 .. N, Restrict(Marked(K), DOMAIN Marked(K) \ {KeyOf(n.directed, a, b)}))
    BY <1>1, <2>1, RemoveTieShows
  <2>3. QED
    BY <1>2, <1>3, <2>2
<1>9. DOMAIN H = K \ {k}
  BY DEF Restrict
<1>10. Found(r, a, v) = {}
  <2>1. l = KeyOf(r.directed, a, v) /\ a = r.index[a] /\ v = r.index[v]
    BY <1>0, <1>1, <1>2, <1>7
  <2> HIDE DEF H, r
  <2>2. OneFound(r, H, l, Found(r, a, v))
    BY <1>0, <1>8, <2>1, FoundOf
  <2>3. l \notin DOMAIN H
    BY <1>5, <1>9
  <2>4. QED
    BY <2>2, <2>3 DEF OneFound
<1>11. m = AddTie(r, a, v, Unit)
  <2>1. {a, v} \subseteq DOMAIN r.index /\ r.index[a] = a /\ r.index[v] = v
    BY <1>0, <1>1, <1>7
  <2> HIDE DEF r
  <2>2. AddTie(r, a, v, Unit) = [r EXCEPT !.ties = Append(r.ties, Tie(a, v, Unit))]
    BY <1>10, <2>1 DEF AddTie
  <2>3. m = [n EXCEPT !.ties = Append(RemoveAt(n.ties, i), Tie(a, v, Unit))]
    BY DEF Rewired
  <2> HIDE DEF i
  <2>4. [r EXCEPT !.ties = Append(r.ties, Tie(a, v, Unit))] = [n EXCEPT !.ties = Append(RemoveAt(n.ties, i), Tie(a, v, Unit))]
    BY <1>1, <1>6, <1>7 DEF Rostered, Framed
  <2>5. QED
    BY <2>2, <2>3, <2>4
<1> HIDE DEF r, i
<1>12. m.directed = n.directed /\ Shows(m, 1 .. N, WithTie(H, 1 .. N, l, a, v, Unit))
  <2>1. a \in Nat /\ v \in Nat /\ l = KeyOf(r.directed, a, v)
    BY <1>0, <1>2, <1>7
  <2> HIDE DEF H
  <2>2. /\ Shows(AddTie(r, a, v, Unit), 1 .. N, WithTie(H, 1 .. N, KeyOf(r.directed, a, v), a, v, Unit))
        /\ AddTie(r, a, v, Unit).directed = r.directed
    BY <1>8, <2>1, AddTieShows, UnitIs
  <2>3. QED
    BY <1>7, <1>11, <2>1, <2>2
<1>13. WithTie(H, 1 .. N, l, a, v, Unit) = Marked((K \ {k}) \cup {l})
  <2>1. {a, v} \subseteq 1 .. N
    BY <1>0
  <2>2. \A x \in K \ {k} : H[x] = Unit
    BY DEF Restrict, Marked
  <2> HIDE DEF H
  <2>3. QED
    BY <1>9, <2>1, <2>2 DEF WithTie, Marked
<1>14. Rostered(m, N)
  BY <1>7, <1>11, AddTieRoster
<1>15. Len(m.ties) = Len(n.ties)
  <2>1. PICK E : n.ties \in Seq(E)
    BY <1>1 DEF Standing
  <2>2. r.ties \in Seq(E) /\ Len(r.ties) = Len(n.ties) - 1
    BY <1>4, <1>7, <2>1, RemoveAtThins
  <2>3. m.ties = Append(r.ties, Tie(a, v, Unit))
    <3>1. m = [n EXCEPT !.ties = Append(RemoveAt(n.ties, i), Tie(a, v, Unit))]
      BY DEF Rewired, i
    <3>2. QED
      BY <1>1, <1>7, <3>1 DEF Rostered, Framed
  <2>4. Len(Append(r.ties, Tie(a, v, Unit))) = Len(r.ties) + 1
    BY <2>2
  <2>5. QED
    <3>1. Len(n.ties) \in Nat
      BY <2>1
    <3>2. QED
      BY <2>2, <2>3, <2>4, <3>1
<1>16. QED
  BY <1>2, <1>4, <1>5, <1>12, <1>13, <1>14, <1>15 DEF TieMoved, Keyed, Undirected, k, l
Owns(own, n, m, K, at) ==
  /\ own \in [Ring(n, m) -> K]
  /\ \A p, q \in Ring(n, m) : own[p] = own[q] => p = q
  /\ \A p \in Ring(n, m) : /\ p[1] \in {own[p][1], own[p][2]}
                           /\ at <= Number(m, p[1], p[2]) => own[p] = RingKey(n, p[1], p[2])
RingTied(n, N, m, at, K) ==
  /\ Keyed(n, N, K) /\ n.directed = FALSE /\ Len(n.ties) = Cardinality(Joint(N, m))
  /\ N > 1 => \A k \in K : k[1] # k[2]
  /\ N > 2 * m => \E own : Owns(own, N, m, K, at)
Ringed(n, N, m, at) == Half(N, m) /\ at \in Nat \ {0} /\ \E K : RingTied(n, N, m, at, K)
(* The ring before it is rewired: every tie is still the one of its place. *)
LEMMA RingMade ==
  ASSUME NEW N, NEW m, Half(N, m)
  PROVE  Ringed(Made(FALSE, N, RingPairs(N, m)), N, m, 1)
<1> DEFINE R == RingPairs(N, m)
           n == Made(FALSE, N, R)
           K == KeysOf(FALSE, R)
           own == [p \in Ring(N, m) |-> RingKey(N, p[1], p[2])]
<1>1. /\ Pairing(R, N)
      /\ N > 1 => \A i \in 1 .. Len(R) : R[i][1] # R[i][2]
      /\ \A a \in 1 .. N, d \in 1 .. m : RingKey(N, a, d) \in K
  BY RingPairing
<1>2. N \in Nat /\ FALSE \in BOOLEAN
  BY DEF Half
<1>3. Keyed(n, N, K) /\ n.directed = FALSE
  <2> HIDE DEF R
  <2>1. QED
    BY <1>1, <1>2, MadeKeyed
<1>4. N > 1 => \A k \in K : k[1] # k[2]
  <2> HIDE DEF R
  <2>1. QED
    BY <1>1, <1>2, KeysLoopless
<1>5. Len(n.ties) = Cardinality(Joint(N, m))
  <2>1. IsFiniteSet(K) /\ Cardinality(K) = Len(n.ties)
    <3> HIDE DEF n, K
    <3>1. QED
      BY <1>3, TiesAreKeys
  <2>2. Cardinality(Joint(N, m)) = Cardinality(K)
    BY <2>1, JointAreKeys
  <2>3. QED
    BY <2>1, <2>2
<1>6. ASSUME N > 2 * m PROVE Owns(own, N, m, K, 1)
  <2>1. \A p \in Ring(N, m) : p[1] \in 1 .. N /\ p[2] \in 1 .. m /\ p = <<p[1], p[2]>>
    BY DEF Ring
  <2>2. \A p \in Ring(N, m) : own[p] = RingKey(N, p[1], p[2]) /\ own[p] \in K
    <3> HIDE DEF K
    <3>1. QED
      BY <1>1, <2>1
  <2>3. own \in [Ring(N, m) -> K]
    <3> HIDE DEF K
    <3>1. QED
      BY <1>1, <2>1
  <2> HIDE DEF own, K
  <2>4. ASSUME NEW p \in Ring(N, m), NEW q \in Ring(N, m), own[p] = own[q] PROVE p = q
    <3>1. p[1] = q[1] /\ p[2] = q[2]
      BY <1>6, <2>1, <2>2, <2>4, RingKeysApart
    <3>2. QED
      BY <2>1, <3>1
  <2>5. ASSUME NEW p \in Ring(N, m) PROVE p[1] \in {own[p][1], own[p][2]}
    <3> DEFINE a == p[1]
               y == After(p[1], p[2], N)
               k == own[p]
    <3>1. a \in Nat /\ y \in Nat
      <4>1. a \in 1 .. N /\ y \in 1 .. N
        BY <2>1, AfterInRing
      <4>2. QED
        BY <1>2, <4>1
    <3>2. k = KeyOf(FALSE, a, y)
      BY <2>2 DEF RingKey, PairKey
    <3> HIDE DEF a, y, k
    <3>3. {k[1], k[2]} = {a, y}
      BY <1>2, <3>1, <3>2, KeyEnds DEF AreEnds
    <3>4. a \in {k[1], k[2]}
      BY <3>3
    <3>5. QED
      BY <3>4 DEF a, k
  <2>6. QED
    BY <2>2, <2>3, <2>4, <2>5 DEF Owns
<1>7. RingTied(n, N, m, 1, K)
  <2> HIDE DEF n, K, own
  <2>1. QED
    BY <1>3, <1>4, <1>5, <1>6 DEF RingTied
<1> HIDE DEF n, K, own
<1>8. QED
  <2>1. 1 \in Nat \ {0} /\ \E J : RingTied(n, N, m, 1, J)
    BY <1>7
  <2>2. Ringed(n, N, m, 1)
    BY <2>1 DEF Ringed
  <2>3. QED
    BY <2>2 DEF n

LEMMA RingStays ==
  ASSUME NEW n, NEW N, NEW m, NEW at, Ringed(n, N, m, at)
  PROVE  Ringed(n, N, m, at + 1)
<1>1. Half(N, m) /\ at \in Nat /\ at + 1 \in Nat \ {0}
  BY DEF Ringed
<1>2. PICK K : RingTied(n, N, m, at, K)
  BY DEF Ringed
<1>3. ASSUME N > 2 * m PROVE \E own : Owns(own, N, m, K, at + 1)
  <2>1. PICK own : Owns(own, N, m, K, at)
    BY <1>2, <1>3 DEF RingTied
  <2>2. ASSUME NEW p \in Ring(N, m) PROVE at + 1 <= Number(m, p[1], p[2]) => at <= Number(m, p[1], p[2])
    <3>1. p[1] \in Int /\ p[2] \in Int /\ m \in Int
      BY <1>1 DEF Ring, Half
    <3>2. Number(m, p[1], p[2]) \in Int
      BY <3>1 DEF Number
    <3>3. QED
      BY <1>1, <3>2
  <2>3. Owns(own, N, m, K, at + 1)
    BY <2>1, <2>2 DEF Owns
  <2>4. QED
    BY <2>3
<1>4. RingTied(n, N, m, at + 1, K)
  BY <1>2, <1>3 DEF RingTied
<1>5. QED
  BY <1>1, <1>4 DEF Ringed
(* Each place of the ring owns a tie of its agent; moving the tie keeps it that agent's. *)
LEMMA OwnMoves ==
  ASSUME NEW N, NEW m, Half(N, m), NEW K, NEW at \in Nat, NEW own, Owns(own, N, m, K, at),
         NEW a \in 1 .. N, NEW d \in 1 .. m, Number(m, a, d) = at,
         NEW k, k = RingKey(N, a, d), NEW l, l \notin K, a \in {l[1], l[2]}
  PROVE  Owns([own EXCEPT ![<<a, d>>] = l], N, m, (K \ {k}) \cup {l}, at + 1)
<1> DEFINE P == Ring(N, m)
           q == <<a, d>>
           new == [own EXCEPT ![q] = l]
           J == (K \ {k}) \cup {l}
<1>1. /\ own \in [P -> K]
      /\ \A p, r \in P : own[p] = own[r] => p = r
      /\ \A p \in P : /\ p[1] \in {own[p][1], own[p][2]}
                      /\ at <= Number(m, p[1], p[2]) => own[p] = RingKey(N, p[1], p[2])
  BY DEF Owns
<1>2. q \in P /\ q[1] = a /\ q[2] = d
  BY DEF Ring
<1>3. \A p \in P : Number(m, p[1], p[2]) \in Int
  <2>1. m \in Int
    BY DEF Half
  <2>2. \A p \in P : p[1] \in Int /\ p[2] \in Int
    BY <2>1 DEF Ring
  <2>3. QED
    BY <2>1, <2>2 DEF Number
<1>4. own[q] = k
  <2>1. at <= Number(m, q[1], q[2])
    BY <1>2
  <2>2. own[q] = RingKey(N, q[1], q[2])
    BY <1>1, <1>2, <2>1
  <2>3. QED
    BY <1>2, <2>2
<1>5. Number(m, q[1], q[2]) = at
  BY <1>2
<1> HIDE DEF P, q
<1>6. new = [p \in P |-> IF p = q THEN l ELSE own[p]]
  BY <1>1, <1>2
<1>7. \A p \in P : new[p] = IF p = q THEN l ELSE own[p]
  BY <1>6
<1>8. new \in [P -> J]
  <2>1. \A p \in P : p # q => own[p] \in K /\ own[p] # k
    BY <1>1, <1>2, <1>4
  <2>2. QED
    BY <1>6, <2>1
<1>9. \A p, r \in P : new[p] = new[r] => p = r
  <2>1. \A p \in P : own[p] # l
    BY <1>1
  <2>2. QED
    BY <1>1, <1>7, <2>1
<1>10. ASSUME NEW p \in P
       PROVE  /\ p[1] \in {new[p][1], new[p][2]}
              /\ at + 1 <= Number(m, p[1], p[2]) => new[p] = RingKey(N, p[1], p[2])
  <2>1. CASE p = q
    <3>1. ~(at + 1 <= Number(m, p[1], p[2])) /\ new[p] = l /\ p[1] = a
      BY <1>2, <1>5, <1>7, <2>1
    <3>2. QED
      BY <3>1
  <2>2. CASE p # q
    <3>1. new[p] = own[p] /\ (at + 1 <= Number(m, p[1], p[2]) => at <= Number(m, p[1], p[2]))
      BY <1>3, <1>7, <2>2
    <3>2. QED
      BY <1>1, <3>1
  <2>3. QED
    BY <2>1, <2>2
<1> HIDE DEF new, J
<1>11. Owns(new, N, m, J, at + 1)
  BY <1>8, <1>9, <1>10 DEF Owns, P
<1>12. QED
  BY <1>11 DEF new, J, q
(* So a move keeps the ring's promise, however the target was drawn. *)
LEMMA RingMoves ==
  ASSUME NEW n, NEW N, NEW m, NEW at, Ringed(n, N, m, at), at \in 1 .. N * m,
         NEW a, NEW b, RingPairs(N, m)[at] = <<a, b>>, NEW v \in 1 .. N, v # a,
         Found(n, a, b) # {}, Found(n, a, v) = {}, NEW r, r = Rewired(n, Min(Found(n, a, b)), a, v)
  PROVE  Ringed(r, N, m, at + 1)
<1>1. Half(N, m) /\ at \in Nat /\ at + 1 \in Nat \ {0} /\ N \in Nat
  BY DEF Ringed, Half
<1>2. PICK K : RingTied(n, N, m, at, K)
  BY DEF Ringed
<1>3. PICK d \in 1 .. m : a \in 1 .. N /\ b = After(a, d, N) /\ Number(m, a, d) = at
  <2>1. PICK i \in 1 .. N, d \in 1 .. m : RingPairs(N, m)[at] = <<i, After(i, d, N)>> /\ Number(m, i, d) = at
    BY <1>1, RingPairsAre
  <2>2. a = i /\ b = After(i, d, N)
    BY <2>1
  <2>3. QED
    BY <2>1, <2>2
<1>4. b \in 1 .. N
  BY <1>1, <1>3, AfterInRing
<1> DEFINE k == PairKey(a, b)
           l == PairKey(a, v)
           J == (K \ {k}) \cup {l}
<1>5. Keyed(n, N, K) /\ n.directed = FALSE /\ Len(n.ties) = Cardinality(Joint(N, m))
  BY <1>2 DEF RingTied
<1>6. /\ Keyed(r, N, J) /\ k \in K /\ l \notin K
      /\ r.directed = FALSE /\ Len(r.ties) = Cardinality(Joint(N, m))
  <2>1. Movable(n, N, a, b, v)
    BY <1>3, <1>4 DEF Movable
  <2>2. Undirected(n)
    BY <1>5 DEF Undirected
  <2>3. TieMoved(n, N, K, a, b, v, r)
    BY <1>1, <1>5, <2>1, <2>2, Rewiring
  <2>4. QED
    BY <1>5, <2>3 DEF TieMoved, Undirected
<1>7. {l[1], l[2]} = {a, v}
  <2>1. a \in Nat /\ v \in Nat /\ FALSE \in BOOLEAN
    BY <1>1, <1>3
  <2>2. l = KeyOf(FALSE, a, v)
    BY DEF PairKey
  <2> HIDE DEF l
  <2>3. QED
    BY <2>1, <2>2, KeyEnds DEF AreEnds
<1>8. k = RingKey(N, a, d)
  BY <1>3 DEF RingKey
<1> HIDE DEF k, l
<1>9. l[1] # l[2]
  <2>1. ASSUME l[1] = l[2] PROVE FALSE
    <3>1. a \in {l[1], l[2]} /\ v \in {l[1], l[2]}
      BY <1>7
    <3>2. QED
      BY <2>1, <3>1
  <2>2. QED
    BY <2>1
<1>10. N > 1 => \A x \in J : x[1] # x[2]
  BY <1>2, <1>9 DEF RingTied
<1>11. ASSUME N > 2 * m PROVE \E own : Owns(own, N, m, J, at + 1)
  <2>1. PICK own : Owns(own, N, m, K, at)
    BY <1>2, <1>11 DEF RingTied
  <2>2. a \in {l[1], l[2]}
    BY <1>7
  <2>3. Owns([own EXCEPT ![<<a, d>>] = l], N, m, J, at + 1)
    BY <1>1, <1>3, <1>6, <1>8, <2>1, <2>2, OwnMoves
  <2>4. QED
    BY <2>3
<1> HIDE DEF J
<1>12. RingTied(r, N, m, at + 1, J)
  BY <1>6, <1>10, <1>11 DEF RingTied
<1>13. QED
  BY <1>1, <1>12 DEF Ringed
(* An agent has a tie for every place it owns. *)
LEMMA RingDegrees ==
  ASSUME NEW n, NEW N \in Nat, NEW K, Keyed(n, N, K), n.directed = FALSE, NEW m \in Nat, NEW at, NEW own, Owns(own, N, m, K, at),
         NEW a \in 1 .. N
  PROVE  Degree(n, a) >= m
<1> DEFINE T == TiesAt(n, a)
           f == [d \in 1 .. m |-> own[<<a, d>>]]
           S == {own[<<a, d>>] : d \in 1 .. m}
           g == [i \in T |-> TieKey(n, n.ties[i])]
           I == {TieKey(n, n.ties[i]) : i \in T}
<1>1. /\ Standing(n) /\ KeysApart(n) /\ K = {TieKey(n, n.ties[i]) : i \in 1 .. Len(n.ties)}
      /\ DOMAIN n.index = 1 .. N /\ DOMAIN n.label = 1 .. N /\ \A s \in 1 .. N : n.index[s] = s /\ n.label[s] = s
  BY RosteredLabels DEF Keyed, Shows, Keeps, Marked
<1>2. /\ own \in [Ring(N, m) -> K]
      /\ \A p, q \in Ring(N, m) : own[p] = own[q] => p = q
      /\ \A p \in Ring(N, m) : p[1] \in {own[p][1], own[p][2]}
  BY DEF Owns
<1>3. \A d \in 1 .. m : <<a, d>> \in Ring(N, m) /\ <<a, d>>[1] = a
  BY DEF Ring
<1>4. IsFiniteSet(S) /\ Cardinality(S) = m
  <2>1. f \in [1 .. m -> S]
    OBVIOUS
  <2>2. \A d, e \in 1 .. m : f[d] = f[e] => d = e
    <3>1. ASSUME NEW d \in 1 .. m, NEW e \in 1 .. m, f[d] = f[e] PROVE d = e
      <4>1. own[<<a, d>>] = own[<<a, e>>]
        BY <3>1
      <4>2. <<a, d>> = <<a, e>>
        BY <1>2, <1>3, <4>1
      <4>3. QED
        BY <4>2
    <3>2. QED
      BY <3>1
  <2>3. \A x \in S : \E d \in 1 .. m : f[d] = x
    OBVIOUS
  <2>4. IsFiniteSet(1 .. m) /\ Cardinality(1 .. m) = m
    BY FS_Interval
  <2> HIDE DEF f, S
  <2>5. QED
    BY <2>1, <2>2, <2>3, <2>4, SameSize
<1>5. IsFiniteSet(T) /\ T \subseteq 1 .. Len(n.ties)
  <2>1. Len(n.ties) \in Nat
    BY <1>1, PlacedSlots
  <2>2. IsFiniteSet(1 .. Len(n.ties))
    BY <2>1, FS_Interval
  <2>3. T \subseteq 1 .. Len(n.ties)
    BY DEF TiesAt
  <2>4. QED
    BY <2>2, <2>3, FS_Subset
<1>6. IsFiniteSet(I) /\ Cardinality(I) = Cardinality(T)
  <2>1. g \in [T -> I] /\ \A i \in T : g[i] = TieKey(n, n.ties[i])
    OBVIOUS
  <2> HIDE DEF g, T
  <2>2. \A i, j \in T : g[i] = g[j] => i = j
    BY <1>1, <1>5, <2>1 DEF KeysApart
  <2>3. \A x \in I : \E i \in T : g[i] = x
    BY <2>1
  <2> HIDE DEF I
  <2>4. QED
    BY <1>5, <2>1, <2>2, <2>3, SameSize
<1>7. ASSUME NEW d \in 1 .. m PROVE own[<<a, d>>] \in I
  <2> DEFINE k == own[<<a, d>>]
  <2>1. k \in K /\ a \in {k[1], k[2]}
    BY <1>2, <1>3
  <2> HIDE DEF k
  <2>2. PICK i \in 1 .. Len(n.ties) : k = TieKey(n, n.ties[i])
    BY <1>1, <2>1
  <2> DEFINE u == n.ties[i].from
             v == n.ties[i].to
  <2>3. u \in 1 .. N /\ v \in 1 .. N
    BY <1>1, PlacedSlots
  <2>4. k = KeyOf(n.directed, u, v) /\ n.directed \in BOOLEAN
    BY <1>1, <2>2, <2>3 DEF TieKey
  <2>5. u \in Nat /\ v \in Nat
    BY <2>3
  <2>6. AreEnds(k, u, v)
    <3> HIDE DEF u, v
    <3>1. QED
      BY <2>4, <2>5, KeyEnds
  <2>7. a = u \/ a = v
    BY <2>1, <2>6 DEF AreEnds
  <2>8. i \in T
    BY <2>7 DEF TiesAt
  <2>9. QED
    BY <2>2, <2>8 DEF k
<1>8. S \subseteq I
  <2> HIDE DEF I
  <2>1. QED
    BY <1>7
<1> HIDE DEF S, I, T
<1>9. m <= Cardinality(T)
  <2>1. Cardinality(S) <= Cardinality(I)
    BY <1>6, <1>8, FS_Subset
  <2>2. QED
    BY <1>4, <1>6, <2>1
<1>10. Degree(n, a) = Cardinality(T)
  <2>1. a \in DOMAIN n.index /\ n.index[a] = a
    BY <1>1
  <2>2. QED
    BY <1>1, <2>1, DegreeIs DEF T
<1>11. Cardinality(T) \in Nat
  BY <1>5, FS_CardinalityType
<1>12. QED
  BY <1>9, <1>10, <1>11
Placed(n, N) == Standing(n) /\ KeysApart(n) /\ DOMAIN n.index \subseteq 1 .. N
RingKept(n, N, m) ==
  /\ Len(n.ties) = Cardinality({{p[1], p[2]} : p \in Range(RingPairs(N, m))})
  /\ N > 1 => Loopless(n)
  /\ N > 2 * m => \A a \in DOMAIN n.index : Degree(n, a) >= m
(* What the ring keeps is what is promised of it. *)
LEMMA RingPromise ==
  ASSUME NEW n, NEW N, NEW m, NEW at, Ringed(n, N, m, at)
  PROVE  Placed(n, N) /\ RingKept(n, N, m)
<1>1. N \in Nat /\ m \in Nat
  BY DEF Ringed, Half
<1>2. PICK K : RingTied(n, N, m, at, K)
  BY DEF Ringed
<1>3. Keyed(n, N, K) /\ n.directed = FALSE /\ Len(n.ties) = Cardinality(Joint(N, m))
  BY <1>2 DEF RingTied
<1>4. DOMAIN n.index = 1 .. N
  BY <1>1, <1>3, RosteredLabels DEF Keyed
<1>5. N > 1 => Loopless(n)
  BY <1>1, <1>2, <1>3, KeyedLoopless DEF RingTied
<1>6. ASSUME N > 2 * m, NEW a \in 1 .. N PROVE Degree(n, a) >= m
  <2>1. PICK own : Owns(own, N, m, K, at)
    BY <1>2, <1>6 DEF RingTied
  <2>2. QED
    BY <1>1, <1>3, <2>1, RingDegrees
<1>7. QED
  BY <1>3, <1>4, <1>5, <1>6 DEF Placed, RingKept, Joint, Keyed, Shows

-----------------------------------------------------------------------------
(***************************************************************************)
(* Directions: every tie that is given joins the agents of one of the base,*)
(* and every tie of the base is given one way at least.                    *)
(***************************************************************************)
BaseOf(base, nodes) ==
  /\ Len(base) \in Nat
  /\ \A i \in 1 .. Len(base) : base[i][1] \in nodes /\ base[i][2] \in nodes
LEMMA BaseIs ==
  ASSUME NEW n, Standing(n), NEW S, S = {Canonical(n, n.ties[i]) : i \in DOMAIN n.ties}, NEW base, base = Listed(S, Before)
  PROVE  BaseOf(base, DOMAIN n.index) /\ DOMAIN base = 1 .. Len(base)
<1> DEFINE L == Len(n.ties)
           f == [i \in 1 .. L |-> Canonical(n, n.ties[i])]
<1>1. L \in Nat /\ DOMAIN n.ties = 1 .. L
  BY PlacedSlots
<1>2. IsFiniteSet(S)
  <2>1. IsFiniteSet(1 .. L)
    BY <1>1, FS_Interval
  <2>2. DOMAIN f = 1 .. L /\ f = [i \in 1 .. L |-> f[i]] /\ S = {f[i] : i \in 1 .. L}
    BY <1>1
  <2> HIDE DEF f, L
  <2>3. PICK D : D = 1 .. L
    OBVIOUS
  <2>4. DOMAIN f = D /\ f = [i \in D |-> f[i]] /\ S = {f[i] : i \in D} /\ IsFiniteSet(D)
    BY <2>1, <2>2, <2>3
  <2>5. QED
    BY <2>4, ImageFinite
<1>3. ASSUME NEW p \in S PROVE p[1] \in DOMAIN n.index /\ p[2] \in DOMAIN n.index /\ p[1] \in Nat /\ p[2] \in Nat /\ p = <<p[1], p[2]>>
  <2>1. PICK i \in 1 .. L : p = Canonical(n, n.ties[i])
    BY <1>1
  <2>2. PICK a \in DOMAIN n.index, b \in DOMAIN n.index : Canonical(n, n.ties[i]) = <<a, b>> /\ a \in Nat /\ b \in Nat
    BY CanonicalKey
  <2>3. p = <<a, b>>
    BY <2>1, <2>2
  <2>4. QED
    BY <2>2, <2>3
<1>4. \A p, q \in S : p[1] = q[1] /\ p[2] = q[2] => p = q
  <2>1. ASSUME NEW p \in S, NEW q \in S, p[1] = q[1], p[2] = q[2] PROVE p = q
    <3>1. p = <<p[1], p[2]>> /\ q = <<q[1], q[2]>>
      BY <1>3
    <3>2. QED
      BY <2>1, <3>1
  <2>2. QED
    BY <2>1
<1>5. ListOf(base, S)
  BY <1>2, <1>3, <1>4, ListedTriples
<1>6. DOMAIN base = 1 .. Cardinality(S)
  BY DEF Listed
<1>7. QED
  BY <1>3, <1>5, <1>6 DEF ListOf, BaseOf
Arrow(a, b) == KeyOf(TRUE, a, b)
IsDirected(n) == n.directed = TRUE
ArrowAdded(n, nodes, G, a, b) ==
  /\ IsDirected(AddTie(n, a, b, Unit))
  /\ \E H : Shows(AddTie(n, a, b, Unit), nodes, H) /\ DOMAIN H = DOMAIN G \cup {<<a, b>>}
LEMMA AddsArrow ==
  ASSUME NEW n, NEW nodes, NEW G, Shows(n, nodes, G), IsDirected(n), NEW a \in nodes, NEW b \in nodes
  PROVE  ArrowAdded(n, nodes, G, a, b)
<1> DEFINE H == WithTie(G, nodes, <<a, b>>, a, b, Unit)
<1>1. a \in Nat /\ b \in Nat /\ n.directed = TRUE
  BY DEF Shows, Standing, IsDirected
<1>2. KeyOf(n.directed, a, b) = <<a, b>>
  BY <1>1 DEF KeyOf
<1>3. /\ Shows(AddTie(n, a, b, Unit), nodes, WithTie(G, nodes, KeyOf(n.directed, a, b), a, b, Unit))
      /\ AddTie(n, a, b, Unit).directed = n.directed
  BY <1>1, AddTieShows, UnitIs
<1>4. Shows(AddTie(n, a, b, Unit), nodes, H)
  BY <1>2, <1>3
<1>5. DOMAIN H = DOMAIN G \cup {<<a, b>>}
  BY DEF WithTie
<1> HIDE DEF H
<1>6. QED
  BY <1>1, <1>3, <1>4, <1>5 DEF ArrowAdded, IsDirected
Aligned(G, base, i) ==
  /\ \A k \in DOMAIN G : \E j \in 1 .. Len(base) : {base[j][1], base[j][2]} = {k[1], k[2]}
  /\ \A j \in 1 .. i : <<base[j][1], base[j][2]>> \in DOMAIN G \/ <<base[j][2], base[j][1]>> \in DOMAIN G
DirectedBy(n, nodes, base, i) == IsDirected(n) /\ \E G : Shows(n, nodes, G) /\ Aligned(G, base, i)
LEMMA PointedOn ==
  ASSUME NEW n, NEW nodes, NEW base, BaseOf(base, nodes), NEW i \in Nat, i + 1 <= Len(base), DirectedBy(n, nodes, base, i),
         NEW way \in {"both", "along", "against"}
  PROVE  DirectedBy(Pointed(n, base[i + 1], way), nodes, base, i + 1)
<1> DEFINE a == base[i + 1][1]
           b == base[i + 1][2]
<1>1. PICK G : Shows(n, nodes, G) /\ Aligned(G, base, i)
  BY DEF DirectedBy
<1>2. i + 1 \in 1 .. Len(base) /\ Len(base) \in Nat /\ a \in nodes /\ b \in nodes /\ IsDirected(n)
  BY DEF BaseOf, DirectedBy
<1>3. ASSUME NEW m, IsDirected(m), NEW H, Shows(m, nodes, H),
             DOMAIN H = DOMAIN G \cup {<<a, b>>} \/ DOMAIN H = DOMAIN G \cup {<<b, a>>} \/ DOMAIN H = DOMAIN G \cup {<<a, b>>, <<b, a>>}
      PROVE  DirectedBy(m, nodes, base, i + 1)
  <2>1. ASSUME NEW k \in DOMAIN H PROVE \E j \in 1 .. Len(base) : {base[j][1], base[j][2]} = {k[1], k[2]}
    <3>1. CASE k \in DOMAIN G
      BY <1>1, <3>1 DEF Aligned
    <3>2. CASE k = <<a, b>> \/ k = <<b, a>>
      <4>1. {a, b} = {k[1], k[2]}
        BY <3>2
      <4>2. QED
        BY <1>2, <4>1
    <3>3. QED
      BY <1>3, <3>1, <3>2
  <2>2. ASSUME NEW j \in 1 .. i + 1 PROVE <<base[j][1], base[j][2]>> \in DOMAIN H \/ <<base[j][2], base[j][1]>> \in DOMAIN H
    <3>1. CASE j = i + 1
      BY <1>3, <3>1
    <3>2. CASE j # i + 1
      <4>1. j \in 1 .. i
        BY <3>2
      <4>2. <<base[j][1], base[j][2]>> \in DOMAIN G \/ <<base[j][2], base[j][1]>> \in DOMAIN G
        BY <1>1, <4>1 DEF Aligned
      <4>3. QED
        BY <1>3, <4>2
    <3>3. QED
      BY <3>1, <3>2
  <2>3. Aligned(H, base, i + 1)
    BY <2>1, <2>2 DEF Aligned
  <2>4. QED
    BY <1>3, <2>3 DEF DirectedBy
<1> HIDE DEF a, b
<1>4. CASE way = "both"
  <2> DEFINE one == AddTie(n, a, b, Unit)
             two == AddTie(one, b, a, Unit)
  <2>1. Pointed(n, base[i + 1], way) = two
    BY <1>4 DEF Pointed, a, b
  <2>2. IsDirected(one)
    BY <1>1, <1>2, AddsArrow DEF ArrowAdded
  <2>3. PICK H : Shows(one, nodes, H) /\ DOMAIN H = DOMAIN G \cup {<<a, b>>}
    <3>1. ArrowAdded(n, nodes, G, a, b)
      BY <1>1, <1>2, AddsArrow
    <3>2. QED
      BY <3>1 DEF ArrowAdded
  <2> HIDE DEF one
  <2>4. ArrowAdded(one, nodes, H, b, a)
    BY <1>2, <2>2, <2>3, AddsArrow
  <2>5. PICK J : Shows(two, nodes, J) /\ DOMAIN J = DOMAIN H \cup {<<b, a>>}
    BY <2>4 DEF ArrowAdded
  <2>6. DOMAIN J = DOMAIN G \cup {<<a, b>>, <<b, a>>} /\ IsDirected(two)
    BY <2>3, <2>4, <2>5 DEF ArrowAdded
  <2> HIDE DEF two
  <2>7. QED
    BY <1>3, <2>1, <2>5, <2>6
<1>5. CASE way = "along"
  <2>1. Pointed(n, base[i + 1], way) = AddTie(n, a, b, Unit)
    BY <1>5 DEF Pointed, a, b
  <2>2. ArrowAdded(n, nodes, G, a, b)
    BY <1>1, <1>2, AddsArrow
  <2>3. PICK H : Shows(AddTie(n, a, b, Unit), nodes, H) /\ DOMAIN H = DOMAIN G \cup {<<a, b>>}
    BY <2>2 DEF ArrowAdded
  <2>4. IsDirected(AddTie(n, a, b, Unit))
    BY <2>2 DEF ArrowAdded
  <2>5. QED
    BY <1>3, <2>1, <2>3, <2>4
<1>6. CASE way = "against"
  <2>1. Pointed(n, base[i + 1], way) = AddTie(n, b, a, Unit)
    BY <1>6 DEF Pointed, a, b
  <2>2. ArrowAdded(n, nodes, G, b, a)
    BY <1>1, <1>2, AddsArrow
  <2>3. PICK H : Shows(AddTie(n, b, a, Unit), nodes, H) /\ DOMAIN H = DOMAIN G \cup {<<b, a>>}
    BY <2>2 DEF ArrowAdded
  <2>4. IsDirected(AddTie(n, b, a, Unit))
    BY <2>2 DEF ArrowAdded
  <2>5. QED
    BY <1>3, <2>1, <2>3, <2>4
<1>7. QED
  BY <1>4, <1>5, <1>6
LEMMA GivenRun ==
  ASSUME NEW n, NEW ties, Len(ties) \in Nat, NEW way
  PROVE  \E g : /\ Given(n, ties, way) = g[Len(ties)] /\ g[0] = n
                /\ \A i \in Nat : i + 1 <= Len(ties) => g[i + 1] = Pointed(g[i], ties[i + 1], way[i + 1])
<1> DEFINE L == Len(ties)
           B(k, h) == Pointed(h, ties[k], way[k])
           Is(g, N) == g = [k \in 0 .. N |-> IF k = 0 THEN n ELSE B(k, g[k - 1])]
           T == {m \in Nat : \E g : Is(g, m)}
           c == CHOOSE g : Is(g, L)
<1>0. Given(n, ties, way) = c[L]
  BY DEF Given
<1> HIDE DEF B, c
<1>1. 0 \in T
  <2>1. Is([k \in 0 .. 0 |-> n], 0)
    OBVIOUS
  <2>2. QED
    BY <2>1
<1>2. ASSUME NEW m \in Nat, m \in T PROVE m + 1 \in T
  <2>1. PICK g : Is(g, m)
    BY <1>2
  <2> DEFINE h == [k \in 0 .. m + 1 |-> IF k = m + 1 THEN B(m + 1, g[m]) ELSE g[k]]
  <2>2. Is(h, m + 1)
    <3>1. ASSUME NEW k \in 0 .. m + 1 PROVE h[k] = IF k = 0 THEN n ELSE B(k, h[k - 1])
      <4>1. CASE k = m + 1
        <5>1. m \in 0 .. m + 1 /\ m # m + 1 /\ k - 1 = m /\ k # 0
          BY <4>1
        <5>2. QED
          BY <4>1, <5>1
      <4>2. CASE k # m + 1 /\ k # 0
        <5>1. k \in 0 .. m /\ k - 1 \in 0 .. m + 1 /\ k - 1 # m + 1
          BY <4>2
        <5>2. g[k] = B(k, g[k - 1])
          BY <2>1, <4>2, <5>1
        <5>3. QED
          BY <4>2, <5>1, <5>2
      <4>3. CASE k = 0
        <5>1. 0 \in 0 .. m /\ 0 # m + 1
          OBVIOUS
        <5>2. g[0] = n
          BY <2>1, <5>1
        <5>3. QED
          BY <4>3, <5>1, <5>2
      <4>4. QED
        BY <4>1, <4>2, <4>3
    <3>2. h = [k \in 0 .. m + 1 |-> h[k]]
      OBVIOUS
    <3> HIDE DEF h
    <3>3. QED
      BY <3>1, <3>2
  <2> HIDE DEF Is, h
  <2>3. QED
    BY <2>2
<1>3. Nat \subseteq T
  <2> HIDE DEF T
  <2>1. QED
    BY <1>1, <1>2, Induct
<1>4. \E g : Is(g, L)
  <2> HIDE DEF Is
  <2>1. QED
    BY <1>3
<1>5. Is(c, L)
  <2> HIDE DEF Is
  <2>1. QED
    BY <1>4, Zenon DEF c
<1>6. \A k \in 0 .. L : c[k] = IF k = 0 THEN n ELSE B(k, c[k - 1])
  BY <1>5
<1>7. c[0] = n
  <2>1. 0 \in 0 .. L
    OBVIOUS
  <2>2. QED
    BY <1>6, <2>1
<1>8. ASSUME NEW i \in Nat, i + 1 <= L PROVE c[i + 1] = B(i + 1, c[i])
  <2>1. i + 1 \in 0 .. L /\ i + 1 # 0 /\ (i + 1) - 1 = i
    BY <1>8
  <2>2. QED
    BY <1>6, <2>1
<1>9. QED
  BY <1>0, <1>7, <1>8 DEF B
LEMMA GivenDirects ==
  ASSUME NEW n, NEW nodes, NEW base, BaseOf(base, nodes), DirectedBy(n, nodes, base, 0),
         NEW way, \A i \in 1 .. Len(base) : way[i] \in {"both", "along", "against"}
  PROVE  DirectedBy(Given(n, base, way), nodes, base, Len(base))
<1>1. Len(base) \in Nat
  BY DEF BaseOf
<1>2. PICK g : /\ Given(n, base, way) = g[Len(base)] /\ g[0] = n
               /\ \A i \in Nat : i + 1 <= Len(base) => g[i + 1] = Pointed(g[i], base[i + 1], way[i + 1])
  BY <1>1, GivenRun
<1> DEFINE T == {i \in Nat : i <= Len(base) => DirectedBy(g[i], nodes, base, i)}
<1>3. 0 \in T
  BY <1>2
<1>4. ASSUME NEW i \in Nat, i \in T PROVE i + 1 \in T
  <2>1. SUFFICES ASSUME i + 1 <= Len(base) PROVE DirectedBy(g[i + 1], nodes, base, i + 1)
    OBVIOUS
  <2>2. i + 1 \in 1 .. Len(base) /\ DirectedBy(g[i], nodes, base, i)
    BY <1>1, <1>4, <2>1
  <2>3. g[i + 1] = Pointed(g[i], base[i + 1], way[i + 1]) /\ way[i + 1] \in {"both", "along", "against"}
    BY <1>2, <2>1, <2>2
  <2>4. DirectedBy(Pointed(g[i], base[i + 1], way[i + 1]), nodes, base, i + 1)
    BY <2>1, <2>2, <2>3, PointedOn
  <2>5. QED
    BY <2>3, <2>4
<1> HIDE DEF T
<1>5. Nat \subseteq T
  BY <1>3, <1>4, Induct
<1>6. QED
  BY <1>1, <1>2, <1>5 DEF T

DirectionsKept(n, base) ==
  /\ \A i \in DOMAIN n.ties : \E p \in Range(base) : {p[1], p[2]} = {Ends(n, n.ties[i])[1], Ends(n, n.ties[i])[2]}
  /\ \A p \in Range(base) : Touch(n, p[1], p[2])
(* A tie from one agent to another is found between them. *)
LEMMA ArrowTouches ==
  ASSUME NEW n, NEW nodes, NEW G, Shows(n, nodes, G), IsDirected(n), NEW a \in nodes, NEW b \in nodes, <<a, b>> \in DOMAIN G
  PROVE  Found(n, n.index[a], n.index[b]) # {}
<1>1. <<a, b>> = KeyOf(n.directed, a, b)
  BY DEF KeyOf, IsDirected
<1> DEFINE F == Found(n, n.index[a], n.index[b])
           k == <<a, b>>
           u == n.index[a]
           v == n.index[b]
<1>2. F = Found(n, u, v) /\ k \in DOMAIN G /\ k = KeyOf(n.directed, a, b) /\ u = n.index[a] /\ v = n.index[b]
  BY <1>1
<1> HIDE DEF F, k, u, v
<1>3. OneFound(n, G, k, F)
  BY <1>2, FoundOf
<1>4. F # {}
  BY <1>2, <1>3 DEF OneFound
<1>5. QED
  BY <1>4 DEF F
(* Directions given to every tie are directions of the base's ties, and of all of them. *)
LEMMA DirectionsAre ==
  ASSUME NEW n, NEW nodes, NEW base, BaseOf(base, nodes), DOMAIN base = 1 .. Len(base), DirectedBy(n, nodes, base, Len(base))
  PROVE  DirectionsKept(n, base)
<1>1. PICK G : Shows(n, nodes, G) /\ Aligned(G, base, Len(base))
  BY DEF DirectedBy
<1>2. IsDirected(n) /\ Standing(n)
  BY <1>1 DEF DirectedBy, Shows
<1>3. Range(base) = {base[j] : j \in 1 .. Len(base)}
  BY DEF Range
<1>4. ASSUME NEW i \in DOMAIN n.ties
      PROVE  \E p \in Range(base) : {p[1], p[2]} = {Ends(n, n.ties[i])[1], Ends(n, n.ties[i])[2]}
  <2>1. i \in 1 .. Len(n.ties)
    BY <1>2, PlacedSlots
  <2>2. TieKey(n, n.ties[i]) \in DOMAIN G
    BY <1>1, <2>1 DEF Shows, Keeps
  <2>3. TieKey(n, n.ties[i]) = Ends(n, n.ties[i])
    BY <1>2 DEF TieKey, KeyOf, IsDirected, Ends
  <2>4. PICK j \in 1 .. Len(base) : {base[j][1], base[j][2]} = {Ends(n, n.ties[i])[1], Ends(n, n.ties[i])[2]}
    BY <1>1, <2>2, <2>3 DEF Aligned
  <2>5. base[j] \in Range(base)
    BY <1>3
  <2>6. QED
    BY <2>4, <2>5
<1>5. ASSUME NEW p \in Range(base) PROVE Touch(n, p[1], p[2])
  <2>1. PICK j \in 1 .. Len(base) : p = base[j]
    BY <1>3
  <2>2. p[1] \in nodes /\ p[2] \in nodes
    BY <2>1 DEF BaseOf
  <2>3. <<p[1], p[2]>> \in DOMAIN G \/ <<p[2], p[1]>> \in DOMAIN G
    BY <1>1, <2>1 DEF Aligned
  <2>4. CASE <<p[1], p[2]>> \in DOMAIN G
    <3>1. Found(n, n.index[p[1]], n.index[p[2]]) # {}
      BY <1>1, <1>2, <2>2, <2>4, ArrowTouches
    <3>2. QED
      BY <3>1 DEF Touch, Adjacent
  <2>5. CASE <<p[2], p[1]>> \in DOMAIN G
    <3>1. Found(n, n.index[p[2]], n.index[p[1]]) # {}
      BY <1>1, <1>2, <2>2, <2>5, ArrowTouches
    <3>2. QED
      BY <3>1 DEF Touch, Adjacent
  <2>6. QED
    BY <2>3, <2>4, <2>5
<1>6. QED
  BY <1>4, <1>5 DEF DirectionsKept
LEMMA StartsDirected ==
  ASSUME NEW nodes, nodes \subseteq Nat, IsFiniteSet(nodes), NEW base
  PROVE  DirectedBy(Loaded(TRUE, [nodes |-> Listed(nodes, <), ties |-> <<>>]), nodes, base, 0)
<1> DEFINE data == [nodes |-> Listed(nodes, <), ties |-> <<>>]
           G == Marked({})
           n == Loaded(TRUE, data)
<1>1. ListOf(data.nodes, nodes)
  BY ListedNumbers
<1>2. Len(data.ties) = 0 /\ DOMAIN G = {} /\ G = [k \in DOMAIN G |-> G[k]]
  BY DEF Marked
<1>3. PICK d \in BOOLEAN : d = TRUE
  OBVIOUS
<1> HIDE DEF data, G
<1>4. Describes(data, d, nodes, G)
  <2>1. Len(data.ties) \in Nat /\ 1 .. Len(data.ties) = {}
    BY <1>2
  <2>2. QED
    BY <1>1, <1>2, <2>1 DEF Describes
<1>5. Shows(Loaded(d, data), nodes, G) /\ Loaded(d, data).directed = d
  BY <1>4, LoadedIs
<1>6. Shows(n, nodes, G) /\ IsDirected(n)
  BY <1>3, <1>5 DEF IsDirected
<1>7. Aligned(G, base, 0)
  BY <1>2 DEF Aligned
<1> HIDE DEF n
<1>8. DirectedBy(n, nodes, base, 0)
  BY <1>6, <1>7 DEF DirectedBy
<1>9. QED
  BY <1>8 DEF n, data
Shaped(b) == b = [kind |-> b.kind, n |-> b.n, m |-> b.m, at |-> b.at, weights |-> b.weights, base |-> b.base]
Generated(n, b) ==
  /\ Shaped(b)
  /\ b.kind # "none" => Placed(n, b.n)
  /\ b.kind = "watts_strogatz" => Ringed(n, b.n, b.m, b.at)
  /\ b.kind = "barabasi_albert" => \E c : Growing(n, c, b.n, b.weights)
  /\ b.kind = "to_directed" => DirectionsKept(n, b.base)
LEMMA GrowingPlaced ==
  ASSUME NEW n, NEW c, NEW N, NEW f, Growing(n, c, N, f)
  PROVE  Placed(n, N)
<1>1. N \in Nat /\ c \in 0 .. N /\ c \in Nat /\ Rostered(n, c) /\ Standing(n) /\ KeysApart(n)
  BY DEF Growing, Simple
<1>2. DOMAIN n.index = 1 .. c
  BY <1>1, RosteredLabels
<1>3. 1 .. c \subseteq 1 .. N
  BY <1>1
<1>4. QED
  BY <1>1, <1>2, <1>3 DEF Placed
(* What each generator makes first. *)
LEMMA MakesErdosRenyi ==
  ASSUME NEW n \in Nat, NEW d \in BOOLEAN, ErdosRenyi(n, d)
  PROVE  Generated(net', build')
<1>1. PICK chosen \in SUBSET Pairs(n, d) :
        Build(Made(d, n, Listed(chosen, Before)), [Idle EXCEPT !.kind = "erdos_renyi", !.n = n])
  BY DEF ErdosRenyi
<1>2. Simple(Made(d, n, Listed(chosen, Before)), n)
  BY MadeSimple
<1>3. Simple(net', n)
  BY <1>1, <1>2 DEF Build
<1>4. Placed(net', n)
  <2>1. DOMAIN (net').index = 1 .. n
    BY <1>3, RosteredLabels DEF Simple
  <2>2. QED
    BY <1>3, <2>1 DEF Simple, Placed
<1>5. Shaped(build') /\ (build').kind = "erdos_renyi" /\ (build').n = n
  BY <1>1 DEF Build, Idle, Shaped
<1>6. QED
  BY <1>4, <1>5 DEF Generated
LEMMA MakesWattsStrogatz ==
  ASSUME NEW n \in Nat, NEW k \in Nat, WattsStrogatz(n, k)
  PROVE  Generated(net', build')
<1> DEFINE m == HalfK(n, k)
<1>1. Ringed(Made(FALSE, n, RingPairs(n, m)), n, m, 1)
  <2>1. Half(n, m)
    BY HalfIs
  <2> HIDE DEF m
  <2>2. QED
    BY <2>1, RingMade
<1>2. net' = Made(FALSE, n, RingPairs(n, m)) /\ build' = [Idle EXCEPT !.kind = "watts_strogatz", !.n = n, !.m = m, !.at = 1]
  BY DEF WattsStrogatz, Build
<1> HIDE DEF m
<1>3. Ringed(net', n, m, 1)
  BY <1>1, <1>2
<1>4. Placed(net', n)
  BY <1>3, RingPromise
<1>5. /\ Shaped(build') /\ (build').kind = "watts_strogatz" /\ (build').n = n
      /\ (build').m = m /\ (build').at = 1
  BY <1>2 DEF Idle, Shaped
<1>6. QED
  BY <1>3, <1>4, <1>5 DEF Generated
LEMMA MakesBarabasiAlbert ==
  ASSUME NEW n \in Nat, NEW k \in Nat, NEW d \in BOOLEAN, BarabasiAlbert(n, k, d)
  PROVE  Generated(net', build')
<1> DEFINE m == Max({1, Min({k, Max({n - 1, 1})})})
           seed == Min({m + 1, n})
           clique == Made(d, seed, Clique(seed, d))
           f == SetWeights(NewTree(n), clique, Roster(seed))
<1>1. seed \in 0 .. n
  <2> DEFINE a == Max({n - 1, 1})
             b == Min({k, a})
  <2>1. a \in Nat
    <3>1. n - 1 \in Int /\ 1 \in Int
      OBVIOUS
    <3>2. a = IF n - 1 <= 1 THEN 1 ELSE n - 1
      BY <3>1, MinMaxOfTwo
    <3> HIDE DEF a
    <3>3. QED
      BY <3>2
  <2> HIDE DEF a
  <2>2. b \in Nat
    BY <2>1, MinMaxOfTwo
  <2> HIDE DEF b
  <2>3. m = Max({1, b})
    BY DEF a, b
  <2>4. Max({1, b}) = IF 1 <= b THEN b ELSE 1
    BY <2>2, MinMaxOfTwo
  <2>5. m \in Nat
    BY <2>2, <2>3, <2>4
  <2> HIDE DEF m
  <2>6. m + 1 \in Int /\ n \in Int
    BY <2>5
  <2>7. seed = IF m + 1 <= n THEN m + 1 ELSE n
    BY <2>6, MinMaxOfTwo
  <2> HIDE DEF seed
  <2>8. QED
    BY <2>5, <2>7
<1>2. net' = clique /\ build' = [Idle EXCEPT !.kind = "barabasi_albert", !.n = n, !.m = m, !.weights = f]
  BY DEF BarabasiAlbert, Build
<1> HIDE DEF m, seed
<1>3. Simple(clique, seed)
  <2>1. seed \in Nat /\ Clique(seed, d) = Listed(Pairs(seed, d), Before)
    BY <1>1 DEF Clique
  <2>2. QED
    BY <2>1, MadeSimple
<1> HIDE DEF clique
<1>4. Growing(clique, seed, n, f)
  BY <1>1, <1>3, GrownFrom
<1> HIDE DEF f
<1>5. Growing(net', seed, n, f)
  BY <1>2, <1>4
<1>6. Placed(net', n)
  BY <1>5, GrowingPlaced
<1>7. /\ Shaped(build') /\ (build').kind = "barabasi_albert" /\ (build').n = n /\ (build').weights = f
  BY <1>2 DEF Idle, Shaped
<1>8. QED
  BY <1>5, <1>6, <1>7 DEF Generated

(* What each further step keeps. *)
LEMMA RewireKeeps ==
  ASSUME Generated(net, build), Rewire
  PROVE  Generated(net', build')
<1> DEFINE N == build.n
           m == build.m
           j == build.at
           p == RingPairs(N, m)[j]
           u == net.index[p[1]]
           at == Found(net, u, net.index[p[2]])
<1>1. /\ build.kind = "watts_strogatz" /\ j <= N * m
      /\ \/ net' = net
         \/ at # {} /\ \E v \in DOMAIN net.label : FreeTarget(u, v) /\ net' = Rewired(net, Min(at), u, v)
      /\ build' = [build EXCEPT !.at = j + 1]
  BY DEF Rewire, Build
<1>2. Shaped(build) /\ Ringed(net, N, m, j)
  BY <1>1 DEF Generated
<1>3. Half(N, m) /\ j \in Nat \ {0} /\ N \in Nat /\ j \in 1 .. N * m
  <2>1. Half(N, m) /\ j \in Nat \ {0} /\ N \in Nat
    BY <1>2 DEF Ringed, Half
  <2>2. N * m \in Nat
    BY <2>1, RingPairsAre
  <2> HIDE DEF N, m, j
  <2>3. QED
    BY <1>1, <2>1, <2>2
<1>4. /\ Shaped(build') /\ (build').kind = "watts_strogatz" /\ (build').n = N
      /\ (build').m = m /\ (build').at = j + 1
  BY <1>1, <1>2 DEF Shaped
<1> HIDE DEF N, m, j
<1>5. PICK a, b : p = <<a, b>> /\ a \in 1 .. N /\ b \in 1 .. N
  <2>1. PICK i \in 1 .. N, d \in 1 .. m : p = <<i, After(i, d, N)>>
    BY <1>3, RingPairsAre
  <2>2. After(i, d, N) \in 1 .. N
    BY <1>3, AfterInRing
  <2>3. QED
    BY <2>1, <2>2
<1>6. /\ DOMAIN net.label = 1 .. N /\ net.index[a] = a /\ net.index[b] = b
  <2>1. PICK K : RingTied(net, N, m, j, K)
    BY <1>2 DEF Ringed
  <2>2. Rostered(net, N)
    BY <2>1 DEF RingTied, Keyed
  <2>3. QED
    BY <1>3, <1>5, <2>2, RosteredLabels
<1>7. u = a /\ at = Found(net, a, b)
  BY <1>5, <1>6
<1> HIDE DEF p, u, at
<1>8. Ringed(net', N, m, j + 1)
  <2>1. CASE net' = net
    <3>1. Ringed(net, N, m, j + 1)
      BY <1>2, RingStays
    <3>2. QED
      BY <2>1, <3>1
  <2>2. ASSUME at # {}, NEW v \in DOMAIN net.label, FreeTarget(u, v), net' = Rewired(net, Min(at), u, v)
        PROVE  Ringed(net', N, m, j + 1)
    <3>1. v \in 1 .. N /\ v # a /\ Found(net, a, v) = {}
      BY <1>6, <1>7, <2>2 DEF FreeTarget
    <3>2. RingPairs(N, m)[j] = <<a, b>> /\ Found(net, a, b) # {}
      BY <1>5, <1>7, <2>2 DEF p
    <3>3. Ringed(Rewired(net, Min(Found(net, a, b)), a, v), N, m, j + 1)
      BY <1>2, <1>3, <3>1, <3>2, RingMoves
    <3>4. QED
      BY <1>7, <2>2, <3>3
  <2>3. QED
    BY <1>1, <2>1, <2>2
<1>9. Placed(net', N)
  BY <1>8, RingPromise
<1>10. QED
  BY <1>4, <1>8, <1>9 DEF Generated
LEMMA AttachKeeps ==
  ASSUME Generated(net, build), Attach
  PROVE  Generated(net', build')
<1> DEFINE N == build.n
           a == Cardinality(DOMAIN net.index) + 1
           joined == AddNode(net, a)
           s == joined.index[a]
           f == SetWeight(build.weights, s, 0)
           drawn == {FirstPrefixGreaterThan(f, r) : r \in 0 .. Total(f) - 1}
           tied(k, x) == [joined EXCEPT !.ties = @ \o [i \in 1 .. k |-> Tie(s, x[i], Unit)]]
<1>1. /\ build.kind = "barabasi_albert" /\ Cardinality(DOMAIN net.index) < N
      /\ \E k \in 0 .. Min({build.m, a - 1}) : \E x \in Injection(1 .. k, drawn) :
           /\ net' = tied(k, x)
           /\ build' = [build EXCEPT !.weights = Reweighed(f, tied(k, x), x, s)]
  BY DEF Attach, Build
<1>2. PICK c : Growing(net, c, N, build.weights)
  BY <1>1 DEF Generated
<1>3. c \in Nat /\ N \in Nat /\ Rostered(net, c)
  BY <1>2 DEF Growing, Simple
<1>4. Cardinality(DOMAIN net.index) = c
  BY <1>3, RosteredLabels
<1>5. a = c + 1 /\ c < N
  BY <1>1, <1>4
<1>6. s = c + 1
  <2>1. Rostered(AddNode(net, c + 1), c + 1) /\ c + 1 \in 1 .. c + 1
    BY <1>3, AddNodeRoster
  <2>2. AddNode(net, c + 1).index[c + 1] = c + 1
    BY <1>3, <2>1, RosteredLabels
  <2>3. QED
    BY <1>5, <2>2
<1>7. f = SetWeight(build.weights, c + 1, 0)
  BY <1>6
<1>8. joined = AddNode(net, c + 1)
  BY <1>5
<1> HIDE DEF a, s
<1>9. PICK k \in 0 .. Min({build.m, a - 1}) : \E x \in Injection(1 .. k, drawn) :
        net' = tied(k, x) /\ build' = [build EXCEPT !.weights = Reweighed(f, tied(k, x), x, s)]
  BY <1>1
<1>10. PICK x \in Injection(1 .. k, drawn) :
        net' = tied(k, x) /\ build' = [build EXCEPT !.weights = Reweighed(f, tied(k, x), x, s)]
  BY <1>9
<1>11. tied(k, x) = Joined(net, c, k, x)
  BY <1>6, <1>8 DEF Joined
<1> HIDE DEF joined, tied
<1>12. Fen(f, N, WeightsOf(net, c, N)) /\ Growing(net, c, N, f)
  <2> DEFINE W == WeightsOf(net, c, N)
  <2>1. Fen(build.weights, N, W) /\ W \in [1 .. N -> Nat] /\ c + 1 \in 1 .. N
    BY <1>2, <1>3, <1>5 DEF Growing, Fen, Weighs
  <2>2. W[c + 1] = 0
    BY <2>1, <1>3 DEF WeightsOf
  <2> HIDE DEF W
  <2>3. [W EXCEPT ![c + 1] = 0] = W
    BY <2>1, <2>2
  <2>4. Fen(f, N, [W EXCEPT ![c + 1] = 0])
    BY <1>7, <2>1, SetWeightFen
  <2>5. Fen(f, N, W)
    BY <2>3, <2>4
  <2>6. QED
    BY <1>2, <2>5 DEF Growing, W
<1> HIDE DEF f
<1>13. drawn \subseteq 1 .. c
  BY <1>12, DrawnAttract
<1> HIDE DEF drawn
<1>14. OneToOne(k, x, c)
  <2>1. k \in Nat
    OBVIOUS
  <2>2. x \in [1 .. k -> drawn] /\ \A i, j \in 1 .. k : x[i] = x[j] => i = j
    BY DEF Injection, IsInjective
  <2>3. x \in [1 .. k -> 1 .. c]
    BY <1>13, <2>2
  <2>4. QED
    BY <2>1, <2>2, <2>3 DEF OneToOne
<1> DEFINE t == tied(k, x)
<1>15. Growing(t, c + 1, N, Reweighed(f, t, x, c + 1))
  <2>1. t = Joined(net, c, k, x)
    BY <1>11
  <2> HIDE DEF t
  <2>2. QED
    BY <1>2, <1>5, <1>7, <1>14, <2>1, GrownOn
<1> DEFINE g == Reweighed(f, t, x, s)
<1>16. net' = t /\ build' = [build EXCEPT !.weights = g]
  BY <1>10
<1> HIDE DEF t
<1>17. Growing(net', c + 1, N, g)
  BY <1>6, <1>15, <1>16
<1> HIDE DEF g
<1>18. Shaped(build') /\ (build').kind = "barabasi_albert" /\ (build').n = N /\ (build').weights = g
  <2>1. Shaped(build)
    BY DEF Generated
  <2>2. QED
    BY <1>1, <1>16, <2>1 DEF Shaped
<1> HIDE DEF N
<1>19. Placed(net', N)
  BY <1>17, GrowingPlaced
<1>20. QED
  BY <1>17, <1>18, <1>19 DEF Generated
LEMMA ToDirectedKeeps ==
  ASSUME Generated(net, build), ToDirected
  PROVE  Generated(net', build')
<1> DEFINE nodes == DOMAIN net.index
           S == {Canonical(net, net.ties[i]) : i \in DOMAIN net.ties}
           base == Listed(S, Before)
           start == Loaded(TRUE, [nodes |-> Listed(nodes, <), ties |-> <<>>])
<1>1. /\ build.kind # "none"
      /\ \E way \in [DOMAIN base -> {"both", "along", "against"}] :
           /\ net' = Given(start, base, way)
           /\ build' = [Idle EXCEPT !.kind = "to_directed", !.n = build.n, !.base = base]
  BY DEF ToDirected, Build
<1>2. Placed(net, build.n)
  BY <1>1 DEF Generated
<1>3. Standing(net) /\ nodes \subseteq Nat /\ IsFiniteSet(nodes) /\ nodes \subseteq 1 .. build.n
  BY <1>2 DEF Placed, Standing
<1>4. BaseOf(base, nodes) /\ DOMAIN base = 1 .. Len(base)
  <2> HIDE DEF base
  <2>1. base = Listed({Canonical(net, net.ties[i]) : i \in DOMAIN net.ties}, Before)
    BY DEF base
  <2>2. QED
    BY <1>3, <2>1, BaseIs
<1> HIDE DEF base
<1>5. DirectedBy(start, nodes, base, 0)
  <2> HIDE DEF nodes
  <2>1. QED
    BY <1>3, StartsDirected
<1> HIDE DEF start
<1>6. PICK way \in [DOMAIN base -> {"both", "along", "against"}] :
        /\ net' = Given(start, base, way)
        /\ build' = [Idle EXCEPT !.kind = "to_directed", !.n = build.n, !.base = base]
  BY <1>1
<1>7. DirectedBy(Given(start, base, way), nodes, base, Len(base))
  <2>1. \A i \in 1 .. Len(base) : way[i] \in {"both", "along", "against"}
    BY <1>4
  <2> HIDE DEF nodes
  <2>2. QED
    BY <1>4, <1>5, <2>1, GivenDirects
<1>8. DirectedBy(net', nodes, base, Len(base))
  BY <1>6, <1>7
<1>9. DirectionsKept(net', base)
  <2> HIDE DEF nodes
  <2>1. QED
    BY <1>4, <1>8, DirectionsAre
<1>10. Placed(net', build.n)
  <2>1. PICK G : Shows(net', nodes, G)
    BY <1>8 DEF DirectedBy
  <2>2. QED
    BY <1>3, <2>1 DEF Shows, Placed
<1>11. Shaped(build') /\ (build').kind = "to_directed" /\ (build').n = build.n /\ (build').base = base
  BY <1>6 DEF Idle, Shaped
<1>12. QED
  BY <1>9, <1>10, <1>11 DEF Generated
(* The invariant holds what is promised, of each kind of network. *)
LEMMA GeneratedPromise ==
  ASSUME Generated(net, build)
  PROVE  GeneratedAsPromised
<1> DEFINE n == net
           N == build.n
<1>1. ASSUME build.kind # "none"
      PROVE  /\ DOMAIN net.index \subseteq 1 .. N
             /\ \A i, j \in DOMAIN net.ties : i # j => ~Joins(net, net.ties[i], net.ties[j].from, net.ties[j].to)
  BY <1>1, Untwinned DEF Generated, Placed
<1>2. ASSUME build.kind = "watts_strogatz" PROVE RingKept(net, N, build.m)
  BY <1>2, RingPromise DEF Generated
<1>3. ASSUME build.kind = "barabasi_albert" PROVE Loopless(net) /\ DrawsByDegree(net, N, build.weights)
  <2>1. PICK c : Growing(net, c, N, build.weights)
    BY <1>3 DEF Generated
  <2>2. QED
    BY <2>1, GrowingDraws DEF Growing, Simple
<1>4. ASSUME build.kind = "to_directed" PROVE DirectionsKept(net, build.base)
  BY <1>4 DEF Generated
<1>5. build.kind = "watts_strogatz" =>
       /\ Len(net.ties) = Cardinality({{p[1], p[2]} : p \in Range(RingPairs(build.n, build.m))})
       /\ build.n > 1 => Loopless(net)
       /\ build.n > 2 * build.m => \A a \in DOMAIN net.index : Degree(net, a) >= build.m
  BY <1>2 DEF RingKept
<1>6. build.kind = "to_directed" =>
       /\ \A i \in DOMAIN net.ties : \E p \in Range(build.base) : {p[1], p[2]} = {Ends(net, net.ties[i])[1], Ends(net, net.ties[i])[2]}
       /\ \A p \in Range(build.base) : Touch(net, p[1], p[2])
  BY <1>4 DEF DirectionsKept
<1> DEFINE f == build.weights
           weight(s) == IF s \in DOMAIN net.label THEN Attractiveness(net, s) ELSE 0
           walk(r) == Min({s \in 1 .. build.n : SumFunction([t \in 1 .. s |-> weight(t)]) > r})
<1>7. build.kind = "barabasi_albert" =>
       /\ Loopless(net)
       /\ Total(f) = SumFunction([t \in 1 .. build.n |-> weight(t)])
       /\ \A r \in 0 .. Total(f) - 1 : FirstPrefixGreaterThan(f, r) = walk(r)
  BY <1>3, Zenon DEF DrawsByDegree
<1> HIDE DEF f, weight, walk
<1>8. QED
  BY <1>1, <1>5, <1>6, <1>7, Zenon DEF GeneratedAsPromised, f, weight, walk
\* The stream may answer as it likes: no generator joins two agents twice, the ring keeps
\* its number of ties and every agent half of its degree, newcomers are drawn by what
\* attracts them at that moment, and directions are those of the ties that were there.
THEOREM NetworksAreGenerated == GenSpec => []GeneratedAsPromised
<1>1. NetInit /\ GenInit => Generated(net, build)
  <2>1. SUFFICES ASSUME build = Idle PROVE Generated(net, build)
    BY DEF GenInit
  <2>2. QED
    BY <2>1 DEF Generated, Idle, Shaped
<1>2. Generated(net, build) /\ [GenNext]_gvars => Generated(net, build)'
  <2>1. SUFFICES ASSUME Generated(net, build), GenNext \/ UNCHANGED gvars PROVE Generated(net', build')
    OBVIOUS
  <2>2. CASE UNCHANGED gvars
    BY <2>1, <2>2 DEF gvars
  <2>3. ASSUME NEW n \in Sizes, NEW d \in BOOLEAN, ErdosRenyi(n, d) PROVE Generated(net', build')
    BY <2>3, GenAssumption, MakesErdosRenyi
  <2>4. ASSUME NEW n \in Sizes, NEW k \in Degrees, WattsStrogatz(n, k) PROVE Generated(net', build')
    BY <2>4, GenAssumption, MakesWattsStrogatz
  <2>5. ASSUME NEW n \in Sizes, NEW k \in Degrees, NEW d \in BOOLEAN, BarabasiAlbert(n, k, d) PROVE Generated(net', build')
    BY <2>5, GenAssumption, MakesBarabasiAlbert
  <2>6. CASE Rewire
    BY <2>1, <2>6, RewireKeeps
  <2>7. CASE Attach
    BY <2>1, <2>7, AttachKeeps
  <2>8. CASE ToDirected
    BY <2>1, <2>8, ToDirectedKeeps
  <2>9. QED
    BY <2>1, <2>2, <2>3, <2>4, <2>5, <2>6, <2>7, <2>8 DEF GenNext
<1>3. Generated(net, build) => GeneratedAsPromised
  BY GeneratedPromise
<1>4. QED
  BY <1>1, <1>2, <1>3, PTL DEF GenSpec
=============================================================================
