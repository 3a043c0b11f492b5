--------------------------- MODULE ServiceProofs ----------------------------
(***************************************************************************)
(* The parts around the simulations: for any programs, models, prompts and *)
(* texts a warm prompt cache replays; for any list of files and whatever   *)
(* servers send fetch() returns Ok only with good files on disk; and       *)
(* whatever is exported is published whole; a sweep on any threads answers *)
(* as a loop would; tables keep every value that was recorded; and the     *)
(* response store keeps what it acknowledged.                              *)
(***************************************************************************)
EXTENDS PromptCache, DatasetFetch, Artifacts, Recorders, TrialSweep, ResponseStore, WellFoundedInduction, FiniteSetTheorems, SequenceTheorems, TLAPS

(***************************************************************************)
(* Induction, in sets: the natural numbers are well founded, so a set of   *)
(* them has a least one.                                                   *)
(***************************************************************************)
(* A set of numbers that is not empty has a least one. *)
LEMMA Least ==
  ASSUME NEW T, T \subseteq Nat, T # {}
  PROVE  \E x \in T : \A y \in T : x <= y
<1>1. \E x \in T : \A y \in T : ~ (<<y, x>> \in OpToRel(<, Nat))
  BY NatLessThanWellFounded, WFMin, Zenon
<1>2. OpToRel(<, Nat) = {ss \in Nat \X Nat : ss[1] < ss[2]}
  BY Zenon DEF OpToRel
<1>3. \E x \in T : \A y \in T : ~ (<<y, x>> \in {ss \in Nat \X Nat : ss[1] < ss[2]})
  BY <1>1, <1>2, Zenon
<1>4. PICK x \in T : \A y \in T : ~ (<<y, x>> \in {ss \in Nat \X Nat : ss[1] < ss[2]})
  BY <1>3
<1>5. ASSUME NEW y \in T PROVE x <= y
  <2>1. x \in Nat /\ y \in Nat
    OBVIOUS
  <2>2. <<y, x>> \in Nat \X Nat /\ <<y, x>>[1] = y /\ <<y, x>>[2] = x
    BY <2>1
  <2>3. ~ (y < x)
    BY <1>4, <2>2, Zenon
  <2>4. QED
    BY <2>1, <2>3
<1>6. QED
  BY <1>5

(* A set that holds 0 and with a number the next one holds them all. *)
LEMMA Induct ==
  ASSUME NEW T, 0 \in T, \A n \in Nat : n \in T => n + 1 \in T
  PROVE  Nat \subseteq T
<1> DEFINE U == Nat \ T
<1>1. SUFFICES ASSUME U # {} PROVE FALSE
  OBVIOUS
<1>2. PICK x \in U : \A y \in U : x <= y
  BY <1>1, Least
<1>3. x # 0 /\ x - 1 \in Nat /\ x - 1 \notin U
  BY <1>2
<1>4. QED
  BY <1>2, <1>3

(* Steps one after the other, each a function on a set, have a run. *)
Machine(N, V, x, F)  == N \in Nat /\ x \in V /\ F \in [1 .. N -> [V -> V]]
RunOf(f, N, V, x, F) == f \in [0 .. N -> V] /\ f[0] = x /\ \A k \in 1 .. N : f[k] = F[k][f[k - 1]]
LEMMA Recursion ==
  ASSUME NEW N, NEW V, NEW x, NEW F, Machine(N, V, x, F)
  PROVE  \E f : RunOf(f, N, V, x, F)
<1> DEFINE RunsTo(f, n) == f \in [0 .. n -> V] /\ f[0] = x /\ \A k \in 1 .. n : f[k] = F[k][f[k - 1]]
           T == {n \in Nat : n <= N => \E f : RunsTo(f, n)}
<1>0. N \in Nat /\ x \in V /\ F \in [1 .. N -> [V -> V]]
  BY DEF Machine
<1>1. 0 \in T
  <2>1. RunsTo([k \in 0 .. 0 |-> x], 0)
    BY <1>0
  <2>2. QED
    BY <2>1
<1>2. ASSUME NEW n \in Nat, n \in T PROVE n + 1 \in T
  <2>1. SUFFICES ASSUME n + 1 <= N PROVE \E f : RunsTo(f, n + 1)
    OBVIOUS
  <2>2. PICK f : RunsTo(f, n)
    BY <1>0, <1>2, <2>1
  <2>3. f[n] \in V /\ F[n + 1] \in [V -> V] /\ F[n + 1][f[n]] \in V
    BY <1>0, <2>1, <2>2
  <2> DEFINE g == [k \in 0 .. n + 1 |-> IF k = n + 1 THEN F[n + 1][f[n]] ELSE f[k]]
  <2>4. g \in [0 .. n + 1 -> V] /\ g[0] = x
    BY <2>2, <2>3
  <2>5. ASSUME NEW k \in 1 .. n + 1 PROVE g[k] = F[k][g[k - 1]]
    <3>1. k - 1 \in 0 .. n + 1 /\ k - 1 # n + 1 /\ g[k - 1] = f[k - 1]
      OBVIOUS
    <3>2. CASE k = n + 1
      <4>1. g[k] = F[n + 1][f[n]] /\ k - 1 = n
        BY <3>2
      <4>2. QED
        BY <3>1, <3>2, <4>1
    <3>3. CASE k # n + 1
      <4>1. k \in 1 .. n /\ g[k] = f[k]
        BY <3>3
      <4>2. f[k] = F[k][f[k - 1]]
        BY <2>2, <4>1
      <4>3. QED
        BY <3>1, <4>1, <4>2
    <3>4. QED
      BY <3>2, <3>3
  <2>6. RunsTo(g, n + 1)
    <3> HIDE DEF g
    <3>1. QED
      BY <2>4, <2>5
  <2> HIDE DEF RunsTo
  <2>7. QED
    BY <2>6
<1>3. N \in T
  <2> HIDE DEF T
  <2>1. QED
    BY <1>0, <1>1, <1>2, Induct
<1>4. QED
  BY <1>3 DEF RunOf

-----------------------------------------------------------------------------
(***************************************************************************)
(* The prompt cache: a cache file that parses is one program's whole cache,*)
(* through saves that share a temporary file, crashes and loads.           *)
(***************************************************************************)
CacheKeys    == {PromptHash(Model(c), p) : c \in Client, p \in Prompt}
CacheEntries == UNION {[K -> Text] : K \in SUBSET CacheKeys}
CacheCall  == [client : Client, prompt : Prompt, text : Text, hit : BOOLEAN]
Inode == [whole : BOOLEAN, entries : CacheEntries]
CacheBooks   == [calls : Seq(CacheCall), saves : SUBSET CacheEntries, starts : Nat]

CacheTypeOK ==
  /\ mem \in [Client -> [open : BOOLEAN, entries : CacheEntries]]
  /\ saving \in [Client -> 0 .. Len(inodes)] /\ synced \in [Client -> BOOLEAN]
  /\ inodes \in Seq(Inode)
  /\ tmp \in 0 .. Len(inodes) /\ file \in 0 .. Len(inodes)
  /\ asked \in CacheBooks

(* A backend answered every entry, to a prompt and for a model of its key. *)
Backs(a, k, x) == ~a.hit /\ PromptHash(Model(a.client), a.prompt) = k /\ a.text = x
Backed(entries, calls) ==
  \A k \in DOMAIN entries : \E i \in DOMAIN calls : Backs(calls[i], k, entries[k])

Replays(calls) ==
  \A j \in DOMAIN calls : calls[j].hit =>
    \E i \in 1 .. j - 1 : /\ ~calls[i].hit /\ calls[i].text = calls[j].text
                          /\ SameKey(calls[i], calls[j])

(* Every cache in memory, and every file that parses, whoever wrote it and
   whatever name it has by now, was answered by backends; a file that parses is
   what some program saved. *)
CacheInv ==
  /\ CacheTypeOK
  /\ \A c \in Client : Backed(mem[c].entries, asked.calls)
  /\ \A n \in DOMAIN inodes : inodes[n].whole =>
       Backed(inodes[n].entries, asked.calls) /\ inodes[n].entries \in asked.saves
  /\ Replays(asked.calls)

-----------------------------------------------------------------------------
(* Facts about entries and sequences *)

(* The empty cache is a cache, and an answer to a key of ours keeps it one. *)
LEMMA NoEntries == << >> \in CacheEntries
<1>1. << >> \in [{} -> Text]
  OBVIOUS
<1>2. QED
  BY <1>1 DEF CacheEntries

LEMMA WithEntries ==
  ASSUME NEW e \in CacheEntries, NEW k \in CacheKeys, NEW x \in Text
  PROVE  /\ With(e, k, x) \in CacheEntries
         /\ DOMAIN With(e, k, x) = DOMAIN e \cup {k}
         /\ With(e, k, x)[k] = x
         /\ \A j \in DOMAIN e \ {k} : With(e, k, x)[j] = e[j]
<1>1. PICK K \in SUBSET CacheKeys : e \in [K -> Text]
  BY DEF CacheEntries
<1>2. With(e, k, x) \in [K \cup {k} -> Text] /\ K \cup {k} \in SUBSET CacheKeys
  BY <1>1 DEF With
<1>3. QED
  BY <1>1, <1>2 DEF CacheEntries, With

(* A cached text is a text. *)
LEMMA EntryText ==
  ASSUME NEW e \in CacheEntries, NEW k \in DOMAIN e
  PROVE  e[k] \in Text
BY DEF CacheEntries

(* An element appended comes last; the others stay where they are. *)
LEMMA OneMore ==
  ASSUME NEW S, NEW w \in Seq(S), NEW x \in S
  PROVE  /\ Append(w, x) \in Seq(S) /\ Len(Append(w, x)) = Len(w) + 1
         /\ Append(w, x)[Len(w) + 1] = x
         /\ \A i \in DOMAIN w : i \in DOMAIN Append(w, x) /\ Append(w, x)[i] = w[i]
         /\ \A i \in DOMAIN Append(w, x) : i \in DOMAIN w \/ i = Len(w) + 1
OBVIOUS

(* More calls back no fewer entries. *)
LEMMA BackedGrows ==
  ASSUME NEW calls \in Seq(CacheCall), NEW a \in CacheCall, NEW e, Backed(e, calls)
  PROVE  Backed(e, Append(calls, a))
<1>1. \A i \in DOMAIN calls : i \in DOMAIN Append(calls, a) /\ Append(calls, a)[i] = calls[i]
  BY OneMore
<1>2. QED
  BY <1>1 DEF Backed

(* A call that is no hit, or repeats an earlier answer, keeps the replay. *)
LEMMA ReplaysGrows ==
  ASSUME NEW calls \in Seq(CacheCall), NEW a \in CacheCall, Replays(calls),
         a.hit => \E i \in DOMAIN calls : Backs(calls[i], PromptHash(Model(a.client), a.prompt), a.text)
  PROVE  Replays(Append(calls, a))
<1>1. /\ Len(Append(calls, a)) = Len(calls) + 1 /\ Append(calls, a)[Len(calls) + 1] = a
      /\ \A i \in DOMAIN calls : Append(calls, a)[i] = calls[i]
      /\ \A i \in DOMAIN Append(calls, a) : i \in DOMAIN calls \/ i = Len(calls) + 1
  BY OneMore
<1>2. SUFFICES ASSUME NEW j \in DOMAIN Append(calls, a), Append(calls, a)[j].hit
               PROVE \E i \in 1 .. j - 1 :
                       /\ ~Append(calls, a)[i].hit
                       /\ Append(calls, a)[i].text = Append(calls, a)[j].text
                       /\ SameKey(Append(calls, a)[i], Append(calls, a)[j])
  BY DEF Replays
<1>3. CASE j \in DOMAIN calls
  <2>1. PICK i \in 1 .. j - 1 : /\ ~calls[i].hit /\ calls[i].text = calls[j].text
                                /\ SameKey(calls[i], calls[j])
    BY <1>1, <1>2, <1>3 DEF Replays
  <2>2. i \in DOMAIN calls
    BY <1>3
  <2>3. QED
    BY <1>1, <1>3, <2>1, <2>2
<1>4. CASE j = Len(calls) + 1
  <2>1. PICK i \in DOMAIN calls : Backs(calls[i], PromptHash(Model(a.client), a.prompt), a.text)
    BY <1>1, <1>2, <1>4
  <2>2. i \in 1 .. j - 1
    BY <1>4
  <2>3. QED
    BY <1>1, <1>4, <2>1, <2>2 DEF Backs, SameKey
<1>5. QED
  BY <1>1, <1>2, <1>3, <1>4

-----------------------------------------------------------------------------
(* Every step keeps the invariant *)

(* Types, taken apart. *)
LEMMA CacheTypes ==
  ASSUME CacheTypeOK, NEW c \in Client
  PROVE  /\ mem[c].entries \in CacheEntries /\ mem[c].open \in BOOLEAN /\ saving[c] \in 0 .. Len(inodes)
         /\ asked.calls \in Seq(CacheCall) /\ asked.saves \in SUBSET CacheEntries /\ asked.starts \in Nat
         /\ asked = [calls |-> asked.calls, saves |-> asked.saves, starts |-> asked.starts]
         /\ inodes \in Seq(Inode) /\ Len(inodes) \in Nat /\ \A n \in DOMAIN inodes : inodes[n] \in Inode
         /\ \A n \in 1 .. Len(inodes) : n \in DOMAIN inodes
BY DEF CacheTypeOK, CacheBooks

(* At the start there is nothing. *)
LEMMA InitCacheInv == CacheInit => CacheInv
<1>1. SUFFICES ASSUME CacheInit PROVE CacheInv
  OBVIOUS
<1>2. \A c \in Client : mem[c].entries = << >>
  BY <1>1 DEF CacheInit, Closed
<1>3. CacheTypeOK
  <2>1. Closed \in [open : BOOLEAN, entries : CacheEntries]
    BY NoEntries DEF Closed
  <2>2. asked \in CacheBooks
    BY <1>1 DEF CacheInit, CacheBooks
  <2>3. QED
    BY <1>1, <2>1, <2>2 DEF CacheInit, CacheTypeOK
<1>4. QED
  BY <1>1, <1>2, <1>3 DEF CacheInit, CacheInv, Backed, Replays

(* Loading takes over a file that parses. *)
LEMMA OpenCacheInv == ASSUME CacheInv, NEW c \in Client, Open(c) PROVE CacheInv'
<1> DEFINE e == IF file = 0 THEN << >> ELSE inodes[file].entries
<1>0. CacheTypeOK
  BY DEF CacheInv
<1>1. /\ UNCHANGED <<saving, synced, inodes, tmp, file, asked>>
      /\ mem' = [mem EXCEPT ![c] = [open |-> TRUE, entries |-> e]]
  BY DEF Open
<1>2. file # 0 => file \in DOMAIN inodes /\ inodes[file] \in Inode /\ inodes[file].whole
  BY <1>0, CacheTypes DEF Open, CacheTypeOK
<1>3. e \in CacheEntries /\ Backed(e, asked.calls)
  <2>1. CASE file = 0
    BY <2>1, NoEntries DEF Backed
  <2>2. CASE file # 0
    BY <1>2, <2>2 DEF CacheInv, Inode
  <2>3. QED
    BY <2>1, <2>2
<1> HIDE DEF e
<1>4. CacheTypeOK'
  BY <1>0, <1>1, <1>3 DEF CacheTypeOK
<1>5. \A d \in Client : Backed(mem'[d].entries, asked'.calls)
  BY <1>0, <1>1, <1>3 DEF CacheInv, CacheTypeOK
<1>6. QED
  BY <1>1, <1>4, <1>5 DEF CacheInv

(* A hit repeats the answer that backs the entry. *)
LEMMA ServeHitCacheInv == ASSUME CacheInv, NEW c \in Client, NEW p \in Prompt, ServeHit(c, p) PROVE CacheInv'
<1> DEFINE x == mem[c].entries[Key(c, p)]
           a == Reply(c, p, x, TRUE)
<1>0. CacheTypeOK
  BY DEF CacheInv
<1>1. /\ UNCHANGED <<mem, saving, synced, inodes, tmp, file>>
      /\ asked' = [calls |-> Append(asked.calls, a), saves |-> asked.saves, starts |-> asked.starts]
  BY <1>0, CacheTypes DEF ServeHit
<1>2. x \in Text /\ Key(c, p) \in DOMAIN mem[c].entries
  BY <1>0, CacheTypes, EntryText DEF ServeHit
<1>3. a \in CacheCall /\ a.client = c /\ a.prompt = p /\ a.text = x /\ a.hit
  BY <1>2 DEF Reply, CacheCall
<1>4. \E i \in DOMAIN asked.calls : Backs(asked.calls[i], PromptHash(Model(a.client), a.prompt), a.text)
  <2>1. Backed(mem[c].entries, asked.calls)
    BY DEF CacheInv
  <2>2. \E i \in DOMAIN asked.calls : Backs(asked.calls[i], Key(c, p), x)
    BY <1>2, <2>1 DEF Backed
  <2>3. QED
    BY <1>3, <2>2 DEF Key
<1>5. asked.calls \in Seq(CacheCall) /\ asked.saves \in SUBSET CacheEntries /\ asked.starts \in Nat
  BY <1>0, CacheTypes
<1> HIDE DEF a, x
<1>6. Replays(asked'.calls)
  BY <1>1, <1>3, <1>4, <1>5, ReplaysGrows DEF CacheInv
<1>7. \A e : Backed(e, asked.calls) => Backed(e, asked'.calls)
  BY <1>1, <1>3, <1>5, BackedGrows
<1>8. CacheTypeOK'
  <2>1. asked' \in CacheBooks
    BY <1>1, <1>3, <1>5, OneMore DEF CacheBooks
  <2>2. QED
    BY <1>0, <1>1, <2>1 DEF CacheTypeOK
<1>9. asked'.saves = asked.saves
  BY <1>1
<1>10. QED
  BY <1>1, <1>6, <1>7, <1>8, <1>9 DEF CacheInv

(* An answer backs the entry it becomes. *)
LEMMA AskBackendCacheInv == ASSUME CacheInv, NEW c \in Client, NEW p \in Prompt, AskBackend(c, p) PROVE CacheInv'
<1>0. CacheTypeOK
  BY DEF CacheInv
<1>1. PICK x \in Text :
        /\ mem' = [mem EXCEPT ![c] = [open |-> TRUE, entries |-> With(mem[c].entries, Key(c, p), x)]]
        /\ asked' = [asked EXCEPT !.calls = Append(asked.calls, Reply(c, p, x, FALSE))]
  BY DEF AskBackend
<1> DEFINE a == Reply(c, p, x, FALSE)
           e == With(mem[c].entries, Key(c, p), x)
<1>2. UNCHANGED <<saving, synced, inodes, tmp, file>>
  BY DEF AskBackend
<1>3. asked' = [calls |-> Append(asked.calls, a), saves |-> asked.saves, starts |-> asked.starts]
  BY <1>0, <1>1, CacheTypes
<1>4. a \in CacheCall /\ Backs(a, Key(c, p), x) /\ ~a.hit
  BY DEF Reply, CacheCall, Backs, Key
<1>5. asked.calls \in Seq(CacheCall) /\ asked.saves \in SUBSET CacheEntries /\ asked.starts \in Nat
  BY <1>0, CacheTypes
<1>6. /\ e \in CacheEntries /\ DOMAIN e = DOMAIN mem[c].entries \cup {Key(c, p)} /\ e[Key(c, p)] = x
      /\ \A j \in DOMAIN mem[c].entries \ {Key(c, p)} : e[j] = mem[c].entries[j]
  <2>1. Key(c, p) \in CacheKeys /\ mem[c].entries \in CacheEntries
    BY <1>0, CacheTypes DEF Key, CacheKeys
  <2>2. PICK k \in CacheKeys : k = Key(c, p)
    BY <2>1
  <2>3. PICK f \in CacheEntries : f = mem[c].entries
    BY <2>1
  <2>4. /\ With(f, k, x) \in CacheEntries /\ DOMAIN With(f, k, x) = DOMAIN f \cup {k}
        /\ With(f, k, x)[k] = x /\ \A j \in DOMAIN f \ {k} : With(f, k, x)[j] = f[j]
    BY WithEntries, ZenonT(30)
  <2>5. QED
    BY <2>2, <2>3, <2>4
<1> HIDE DEF a, e
<1>7. \A f : Backed(f, asked.calls) => Backed(f, asked'.calls)
  BY <1>3, <1>4, <1>5, BackedGrows
<1>8. Replays(asked'.calls)
  BY <1>3, <1>4, <1>5, ReplaysGrows DEF CacheInv
<1>9. Backed(e, asked'.calls)
  <2>1. Len(asked.calls) + 1 \in DOMAIN asked'.calls /\ asked'.calls[Len(asked.calls) + 1] = a
    BY <1>3, <1>4, <1>5
  <2>2. Backed(mem[c].entries, asked'.calls)
    BY <1>7 DEF CacheInv
  <2>3. QED
    BY <1>4, <1>6, <2>1, <2>2 DEF Backed
<1>10. CacheTypeOK'
  <2>1. asked' \in CacheBooks
    BY <1>3, <1>4, <1>5, OneMore DEF CacheBooks
  <2>2. mem' \in [Client -> [open : BOOLEAN, entries : CacheEntries]]
    BY <1>0, <1>1, <1>6 DEF CacheTypeOK, e
  <2>3. QED
    BY <1>0, <1>2, <2>1, <2>2 DEF CacheTypeOK
<1>11. \A d \in Client : Backed(mem'[d].entries, asked'.calls)
  <2>1. mem'[c].entries = e /\ \A d \in Client \ {c} : mem'[d] = mem[d]
    BY <1>0, <1>1 DEF CacheTypeOK, e
  <2>2. \A d \in Client : Backed(mem[d].entries, asked'.calls)
    BY <1>7 DEF CacheInv
  <2>3. QED
    BY <1>9, <2>1, <2>2
<1>12. asked'.saves = asked.saves
  BY <1>3
<1>13. QED
  BY <1>2, <1>7, <1>8, <1>10, <1>11, <1>12 DEF CacheInv

(* A temporary file created or truncated does not parse. *)
LEMMA SaveCreateCacheInv == ASSUME CacheInv, NEW c \in Client, SaveCreate(c) PROVE CacheInv'
<1>0. CacheTypeOK
  BY DEF CacheInv
<1>1. /\ UNCHANGED <<mem, file>>
      /\ asked' = [calls |-> asked.calls, saves |-> asked.saves, starts |-> asked.starts + 1]
      /\ saving' = [saving EXCEPT ![c] = tmp'] /\ synced' = [synced EXCEPT ![c] = FALSE]
  BY <1>0, CacheTypes DEF SaveCreate
<1>2. Empty \in Inode /\ ~Empty.whole
  BY NoEntries DEF Empty, Torn, Inode
<1>3. inodes \in Seq(Inode) /\ tmp \in 0 .. Len(inodes) /\ file \in 0 .. Len(inodes)
  BY <1>0 DEF CacheTypeOK
<1>4. \/ inodes' = Append(inodes, Empty) /\ tmp' = Len(inodes) + 1
      \/ tmp # 0 /\ inodes' = [inodes EXCEPT ![tmp] = Empty] /\ tmp' = tmp
  BY DEF SaveCreate
<1> HIDE DEF Empty
<1>5. /\ inodes' \in Seq(Inode) /\ Len(inodes') >= Len(inodes) /\ tmp' \in 0 .. Len(inodes')
      /\ \A n \in DOMAIN inodes' : inodes'[n] = Empty \/ (n \in DOMAIN inodes /\ inodes'[n] = inodes[n])
  BY <1>2, <1>3, <1>4
<1>6. CacheTypeOK'
  <2>1. asked' \in CacheBooks
    BY <1>0, <1>1, CacheTypes DEF CacheBooks
  <2>2. saving' \in [Client -> 0 .. Len(inodes')]
    BY <1>0, <1>1, <1>3, <1>5 DEF CacheTypeOK
  <2>3. QED
    BY <1>0, <1>1, <1>3, <1>5, <2>1, <2>2 DEF CacheTypeOK
<1>7. asked'.calls = asked.calls /\ asked'.saves = asked.saves
  BY <1>1
<1>8. QED
  BY <1>1, <1>2, <1>5, <1>6, <1>7 DEF CacheInv

(* A file that parses after a write holds the writer's cache, which counts as saved. *)
LEMMA SaveWriteCacheInv == ASSUME CacheInv, NEW c \in Client, SaveWrite(c) PROVE CacheInv'
<1>0. CacheTypeOK
  BY DEF CacheInv
<1>1. /\ UNCHANGED <<mem, saving, tmp, file>> /\ synced' = [synced EXCEPT ![c] = TRUE]
      /\ asked' = [calls |-> asked.calls, saves |-> asked.saves \cup {mem[c].entries},
                   starts |-> asked.starts]
  BY <1>0, CacheTypes DEF SaveWrite
<1>2. PICK became :
        /\ became = Whole(mem[c].entries) \/ became = Torn(inodes[saving[c]].entries)
        /\ inodes' = [inodes EXCEPT ![saving[c]] = became]
  BY DEF SaveWrite
<1>3. saving[c] \in DOMAIN inodes
  BY <1>0, CacheTypes DEF SaveWrite
<1>4. /\ mem[c].entries \in CacheEntries /\ inodes \in Seq(Inode) /\ inodes[saving[c]] \in Inode
      /\ asked.calls \in Seq(CacheCall) /\ asked.saves \in SUBSET CacheEntries /\ asked.starts \in Nat
  BY <1>0, <1>3, CacheTypes
<1>5. became \in Inode /\ (became.whole => became.entries = mem[c].entries)
  <2>1. Whole(mem[c].entries) \in Inode /\ Whole(mem[c].entries).entries = mem[c].entries
    BY <1>4 DEF Whole, Inode
  <2>2. inodes[saving[c]].entries \in CacheEntries
    BY <1>4 DEF Inode
  <2>3. Torn(inodes[saving[c]].entries) \in Inode /\ ~Torn(inodes[saving[c]].entries).whole
    BY <2>2 DEF Torn, Inode
  <2>4. QED
    BY <1>2, <2>1, <2>3
<1>6. /\ inodes' \in Seq(Inode) /\ Len(inodes') = Len(inodes)
      /\ \A n \in DOMAIN inodes' : inodes'[n] = became \/ (n \in DOMAIN inodes /\ inodes'[n] = inodes[n])
  BY <1>2, <1>3, <1>4, <1>5
<1>7. CacheTypeOK'
  <2>1. asked' \in CacheBooks
    BY <1>1, <1>4 DEF CacheBooks
  <2>2. QED
    BY <1>0, <1>1, <1>6, <2>1 DEF CacheTypeOK
<1>8. asked'.calls = asked.calls /\ asked'.saves = asked.saves \cup {mem[c].entries}
  BY <1>1
<1>9. QED
  BY <1>1, <1>5, <1>6, <1>7, <1>8 DEF CacheInv

(* A rename moves a name. *)
LEMMA SaveRenameCacheInv == ASSUME CacheInv, NEW c \in Client, SaveRename(c) PROVE CacheInv'
<1>0. CacheTypeOK
  BY DEF CacheInv
<1>1. CacheTypeOK'
  BY <1>0 DEF SaveRename, CacheTypeOK
<1>2. QED
  BY <1>1 DEF CacheInv, SaveRename

(* A program that ends forgets. *)
LEMMA ExitCacheInv == ASSUME CacheInv, NEW c \in Client, Exit(c) PROVE CacheInv'
<1>0. CacheTypeOK
  BY DEF CacheInv
<1>1. Closed \in [open : BOOLEAN, entries : CacheEntries] /\ Backed(Closed.entries, asked.calls)
  BY NoEntries DEF Closed, Backed
<1>2. /\ UNCHANGED <<inodes, tmp, file, asked>> /\ mem' = [mem EXCEPT ![c] = Closed]
      /\ saving' = [saving EXCEPT ![c] = 0] /\ synced' = [synced EXCEPT ![c] = FALSE]
  BY DEF Exit
<1> HIDE DEF Closed
<1>3. CacheTypeOK'
  BY <1>0, <1>1, <1>2 DEF CacheTypeOK
<1>4. \A d \in Client : Backed(mem'[d].entries, asked'.calls)
  BY <1>0, <1>1, <1>2 DEF CacheInv, CacheTypeOK
<1>5. QED
  BY <1>2, <1>3, <1>4 DEF CacheInv

LEMMA NextCacheInv == CacheInv /\ [CacheNext]_cvars => CacheInv'
<1>1. SUFFICES ASSUME CacheInv, [CacheNext]_cvars PROVE CacheInv'
  OBVIOUS
<1>2. CASE UNCHANGED cvars
  BY <1>1, <1>2 DEF cvars, CacheInv, CacheTypeOK
<1>3. CASE CacheNext
  BY <1>1, <1>3, OpenCacheInv, SaveCreateCacheInv, SaveWriteCacheInv, SaveRenameCacheInv, ExitCacheInv,
     ServeHitCacheInv, AskBackendCacheInv DEF CacheNext
<1>4. QED
  BY <1>1, <1>2, <1>3

(* The inductive invariant holds in every reachable state. *)
THEOREM CacheBacked == CacheSpec => []CacheInv
BY InitCacheInv, NextCacheInv, PTL DEF CacheSpec

(* Whatever a cache serves a backend answered before, to a prompt and for a model of
   the same hash, and a cache file that parses is one whole cache that some program
   saved, for any hash, any number of programs and any interleaving of saves. *)
THEOREM CacheHitsReplay == CacheSpec => []HitsReplay
<1>1. ASSUME CacheInv PROVE HitsReplay
  <2>1. file # 0 => file \in DOMAIN inodes
    BY <1>1 DEF CacheInv, CacheTypeOK
  <2>2. Replays(asked.calls)
    BY <1>1 DEF CacheInv
  <2>3. file # 0 /\ inodes[file].whole => inodes[file].entries \in asked.saves
    BY <1>1, <2>1 DEF CacheInv
  <2>4. QED
    BY <2>2, <2>3 DEF Replays, HitsReplay
<1>2. QED
  BY CacheBacked, <1>1, PTL

(* The hash tells apart every two pairs of a model and a prompt that are asked. *)
NoCollision ==
  \A c, d \in Client, p, q \in Prompt :
    PromptHash(Model(c), p) = PromptHash(Model(d), q) => Model(c) = Model(d) /\ p = q

(* A hit repeats an earlier answer to its own prompt and its own model. *)
HitsReplayExactly ==
  \A j \in DOMAIN asked.calls : asked.calls[j].hit =>
    \E i \in 1 .. j - 1 : /\ ~asked.calls[i].hit /\ asked.calls[i].text = asked.calls[j].text
                          /\ asked.calls[i].prompt = asked.calls[j].prompt
                          /\ Model(asked.calls[i].client) = Model(asked.calls[j].client)

(* Where the hash of cache_key, which the code never checks, happens to collide on
   nothing that is asked, a cache serves the answer to the very prompt and model; this
   is all that its doc comment can promise. *)
THEOREM CacheHitsReplayExactly ==
  ASSUME NoCollision
  PROVE  CacheSpec => []HitsReplayExactly
<1>1. ASSUME CacheInv PROVE HitsReplayExactly
  <2>1. SUFFICES ASSUME NEW j \in DOMAIN asked.calls, asked.calls[j].hit
                 PROVE \E i \in 1 .. j - 1 :
                         /\ ~asked.calls[i].hit /\ asked.calls[i].text = asked.calls[j].text
                         /\ asked.calls[i].prompt = asked.calls[j].prompt
                         /\ Model(asked.calls[i].client) = Model(asked.calls[j].client)
    BY DEF HitsReplayExactly
  <2>2. Replays(asked.calls) /\ asked.calls \in Seq(CacheCall)
    BY <1>1 DEF CacheInv, CacheTypeOK, CacheBooks
  <2>3. PICK i \in 1 .. j - 1 : /\ ~asked.calls[i].hit /\ asked.calls[i].text = asked.calls[j].text
                                /\ SameKey(asked.calls[i], asked.calls[j])
    BY <2>1, <2>2 DEF Replays
  <2>4. i \in DOMAIN asked.calls
    BY <2>1, <2>2
  <2>5. /\ asked.calls[i].client \in Client /\ asked.calls[i].prompt \in Prompt
        /\ asked.calls[j].client \in Client /\ asked.calls[j].prompt \in Prompt
    <3>1. asked.calls[i] \in CacheCall /\ asked.calls[j] \in CacheCall
      BY <2>1, <2>2, <2>4
    <3>2. QED
      BY <3>1 DEF CacheCall
  <2>6. QED
    BY <2>3, <2>5, NoCollision DEF NoCollision, SameKey
<1>2. QED
  BY CacheBacked, <1>1, PTL

-----------------------------------------------------------------------------
(***************************************************************************)
(* The export of solutions: what solvers hand over, collected and written. *)
(***************************************************************************)
(* What a set for a game may be: entries with ids of their own that fit it. *)
Collected(spec) ==
  {set \in Seq(EntriesHanded) : /\ \A i, j \in DOMAIN set : i # j => set[i].id # set[j].id
                                /\ \A k \in DOMAIN set : Fits(spec, set[k])}

Stages == {"idle", "spec", "only", "solutions"}
Program == [spec : Specs, set : Seq(EntriesHanded), from : Specs,
            pc : Stages, calls : Nat, error : BOOLEAN]
ArtifactTypeOK ==
  /\ exports \in [Exporter -> Program]
  /\ DOMAIN folder = {"game_spec.json", "solutions.json"} /\ folder = [f \in DOMAIN folder |-> folder[f]]
  /\ temps = [e \in Exporter |-> temps[e]] /\ broken \in BOOLEAN

Writes(p) == IF p.pc = "solutions" THEN Content(p.from, p.set) ELSE Content(p.spec, <<>>)
Written(e) == Writes(exports[e])
Named(e) == <<exports[e].spec.name, exports[e].spec.dims>>

(* A set fits the game it was collected for, which matches the one written with it; a
   whole temporary file is what its program writes; the published solutions are a set
   of some game.  Undisturbed, one program writes at a time, and only between its two
   files the folder names two games. *)
ArtifactInv ==
  /\ ArtifactTypeOK
  /\ \A e \in Exporter :
       /\ exports[e].set \in Collected(exports[e].from)
       /\ exports[e].pc \in {"spec", "solutions"} => Matches(exports[e].spec, exports[e].from)
       /\ temps[e].whole => exports[e].pc # "idle" /\ temps[e] = Written(e)
  /\ folder["game_spec.json"] = Nothing \/ folder["game_spec.json"].whole
  /\ \/ folder["solutions.json"] = Nothing
     \/ \E spec \in Specs : \E set \in Collected(spec) : folder["solutions.json"] = Content(spec, set)
  /\ ~broken =>
       /\ \A e, o \in Exporter : exports[e].pc # "idle" /\ exports[o].pc # "idle" => e = o
       /\ \A e \in Exporter : exports[e].pc = "solutions" => folder["game_spec.json"].of = Named(e)
       /\ (\A e \in Exporter : exports[e].pc # "solutions") => folder["solutions.json"].of = folder["game_spec.json"].of

(* An entry that is accepted makes a larger set for the same game. *)
LEMMA AcceptedCollected ==
  ASSUME NEW spec, NEW set \in Collected(spec), NEW entry \in EntriesHanded, Accepts(spec, set, entry)
  PROVE  Append(set, entry) \in Collected(spec)
<1> DEFINE more == Append(set, entry)
<1>1. set \in Seq(EntriesHanded)
  BY DEF Collected
<1>2. /\ more \in Seq(EntriesHanded) /\ more[Len(set) + 1] = entry
      /\ \A i \in DOMAIN set : more[i] = set[i]
      /\ \A i \in DOMAIN more : i \in DOMAIN set \/ i = Len(set) + 1
  BY <1>1, OneMore
<1>3. Fits(spec, entry) /\ \A k \in DOMAIN set : set[k].id # entry.id
  BY DEF Accepts, Fresh
<1>4. /\ \A i, j \in DOMAIN set : i # j => set[i].id # set[j].id
      /\ \A k \in DOMAIN set : Fits(spec, set[k])
  BY DEF Collected
<1> HIDE DEF more
<1>5. ASSUME NEW i \in DOMAIN more, NEW j \in DOMAIN more, i # j PROVE more[i].id # more[j].id
  <2>1. CASE i \in DOMAIN set /\ j \in DOMAIN set
    BY <1>2, <1>4, <1>5, <2>1, Zenon
  <2>2. CASE i \in DOMAIN set /\ j = Len(set) + 1
    BY <1>2, <1>3, <2>2, Zenon
  <2>3. CASE j \in DOMAIN set /\ i = Len(set) + 1
    BY <1>2, <1>3, <2>3, Zenon
  <2>4. QED
    BY <1>2, <1>5, <2>1, <2>2, <2>3, Zenon
<1>6. ASSUME NEW k \in DOMAIN more PROVE Fits(spec, more[k])
  BY <1>2, <1>3, <1>4, Zenon
<1>7. more \in Collected(spec)
  BY <1>2, <1>5, <1>6, Zenon DEF Collected
<1>8. QED
  BY <1>7 DEF more

(* However many entries are pushed, and wherever that stops, the set stays one. *)
LEMMA PushedCollected ==
  ASSUME NEW spec, NEW set \in Collected(spec), NEW entries \in Results
  PROVE  Pushed(spec, set, entries) \in [set : Collected(spec), ok : BOOLEAN]
<1> DEFINE V == [set : Collected(spec), ok : BOOLEAN]
           start == [set |-> set, ok |-> TRUE]
           next(v, entry) == IF v.ok /\ Accepts(spec, v.set, entry)
                             THEN [set |-> Append(v.set, entry), ok |-> TRUE]
                             ELSE [set |-> v.set, ok |-> FALSE]
           Is(f) == f = [k \in 0 .. Len(entries) |-> IF k = 0 THEN start ELSE next(f[k - 1], entries[k])]
           after == CHOOSE f : Is(f)
<1>1. PICK N \in Nat : N = Len(entries) /\ \A k \in 1 .. N : entries[k] \in EntriesHanded
  BY ArtifactAssumption
<1>2. ASSUME NEW v \in V, NEW entry \in EntriesHanded PROVE next(v, entry) \in V
  <2>1. v.set \in Collected(spec) /\ v.ok \in BOOLEAN
    OBVIOUS
  <2>2. Accepts(spec, v.set, entry) => Append(v.set, entry) \in Collected(spec)
    BY <2>1, AcceptedCollected
  <2>3. QED
    BY <2>1, <2>2
<1> HIDE DEF next
<1>3. start \in V
  OBVIOUS
<1> HIDE DEF V, start
<1>4. PICK F : F = [k \in 1 .. N |-> [v \in V |-> next(v, entries[k])]]
  OBVIOUS
<1>5. Machine(N, V, start, F)
  BY <1>1, <1>2, <1>3, <1>4 DEF Machine
<1>6. PICK f : RunOf(f, N, V, start, F)
  BY <1>5, Recursion, Zenon
<1>7. f \in [0 .. N -> V] /\ f[0] = start /\ \A k \in 1 .. N : f[k] = F[k][f[k - 1]]
  BY <1>6 DEF RunOf
<1>8. \A k \in 1 .. N : f[k - 1] \in V /\ f[k] = next(f[k - 1], entries[k])
  BY <1>4, <1>7
<1>9. Is(f)
  <2>1. f = [k \in 0 .. N |-> f[k]]
    BY <1>7
  <2>2. \A k \in 0 .. N : f[k] = IF k = 0 THEN start ELSE next(f[k - 1], entries[k])
    BY <1>7, <1>8
  <2>3. QED
    BY <1>1, <2>1, <2>2
<1>10. Is(after)
  <2> HIDE DEF Is
  <2>1. QED
    BY <1>9, Zenon
<1>11. Pushed(spec, set, entries) = after[Len(entries)]
  BY DEF Pushed, next, start
<1> HIDE DEF after
<1>12. \A k \in 0 .. N : after[k] = IF k = 0 THEN start ELSE next(after[k - 1], entries[k])
  BY <1>1, <1>10
<1>13. \A k \in 0 .. N : after[k] \in V
  <2> DEFINE T == {k \in Nat : k <= N => after[k] \in V}
  <2>1. 0 \in T
    BY <1>3, <1>12
  <2>2. ASSUME NEW k \in Nat, k \in T PROVE k + 1 \in T
    <3>1. SUFFICES ASSUME k + 1 <= N PROVE after[k + 1] \in V
      OBVIOUS
    <3>2. after[k] \in V /\ after[k + 1] = next(after[k], entries[k + 1]) /\ entries[k + 1] \in EntriesHanded
      BY <1>1, <1>12, <2>2, <3>1
    <3>3. QED
      BY <1>2, <3>2
  <2> HIDE DEF T
  <2>3. Nat \subseteq T
    BY <2>1, <2>2, Induct
  <2>4. QED
    BY <2>3 DEF T
<1>14. QED
  BY <1>1, <1>11, <1>13 DEF V

LEMMA ProgramIs ==
  ASSUME NEW spec \in Specs, NEW from \in Specs, NEW set \in Seq(EntriesHanded), NEW calls \in Nat,
         NEW pc \in Stages, NEW error \in BOOLEAN
  PROVE  [spec |-> spec, set |-> set, from |-> from, pc |-> pc, calls |-> calls, error |-> error] \in Program
BY DEF Program

LEMMA NothingCollected == \A spec : <<>> \in Collected(spec)
BY DEF Collected

LEMMA ContentIs ==
  ASSUME NEW spec, NEW entries
  PROVE  /\ Content(spec, entries).whole /\ Content(spec, entries).of = <<spec.name, spec.dims>>
         /\ Content(spec, entries).entries = entries
         /\ ~Nothing.whole /\ Nothing.of = <<>> /\ Nothing.entries = <<>>
BY DEF Content, Nothing

(* The program's own part of the invariant. *)
Exporting(p, temp) ==
  /\ p \in Program
  /\ p.set \in Collected(p.from)
  /\ p.pc \in {"spec", "solutions"} => Matches(p.spec, p.from)
  /\ temp.whole => p.pc # "idle" /\ temp = Writes(p)

(* What one program does leaves the others and their temporary files alone. *)
OnlyDoes(e) ==
  /\ exports' = [exports EXCEPT ![e] = exports'[e]]
  /\ temps' = [temps EXCEPT ![e] = temps'[e]]

LEMMA ExportingKept ==
  ASSUME ArtifactInv, NEW e \in Exporter, OnlyDoes(e), Exporting(exports'[e], temps'[e]),
         DOMAIN folder' = DOMAIN folder, folder' = [f \in DOMAIN folder' |-> folder'[f]], broken' \in BOOLEAN
  PROVE  /\ ArtifactTypeOK'
         /\ \A o \in Exporter : /\ exports'[o].set \in Collected(exports'[o].from)
                                /\ exports'[o].pc \in {"spec", "solutions"} => Matches(exports'[o].spec, exports'[o].from)
                                /\ temps'[o].whole => exports'[o].pc # "idle" /\ temps'[o] = Written(o)'
         /\ \A o \in Exporter \ {e} : exports'[o] = exports[o] /\ temps'[o] = temps[o]
<1>1. exports \in [Exporter -> Program]
  BY DEF ArtifactInv, ArtifactTypeOK
<1>2. DOMAIN temps = Exporter /\ DOMAIN exports = Exporter /\ temps = [o \in Exporter |-> temps[o]]
  BY <1>1 DEF ArtifactInv, ArtifactTypeOK
<1>3. \A o \in Exporter \ {e} : exports'[o] = exports[o] /\ temps'[o] = temps[o]
  BY <1>2 DEF OnlyDoes
<1>4. \A o \in Exporter : Exporting(exports[o], temps[o])
  BY <1>1 DEF ArtifactInv, Exporting, Written
<1>5. \A o \in Exporter : Exporting(exports'[o], temps'[o])
  BY <1>3, <1>4, Zenon
<1>6. ArtifactTypeOK'
  <2>1. DOMAIN temps' = Exporter /\ temps' = [o \in Exporter |-> temps'[o]]
    BY <1>2 DEF OnlyDoes
  <2>2. DOMAIN exports' = Exporter /\ exports' = [o \in Exporter |-> exports'[o]]
    BY <1>1, <1>2 DEF OnlyDoes
  <2>3. exports' \in [Exporter -> Program]
    BY <1>5, <2>2 DEF Exporting
  <2>4. DOMAIN folder' = {"game_spec.json", "solutions.json"}
    BY DEF ArtifactInv, ArtifactTypeOK
  <2>5. QED
    BY <2>1, <2>3, <2>4, Zenon DEF ArtifactTypeOK
<1>7. QED
  BY <1>3, <1>5, <1>6, Zenon DEF Exporting, Written

(* What the folder shows, and what it shows while nobody disturbed anybody. *)
Shelved ==
  /\ folder["game_spec.json"] = Nothing \/ folder["game_spec.json"].whole
  /\ \/ folder["solutions.json"] = Nothing
     \/ \E spec \in Specs : \E set \in Collected(spec) : folder["solutions.json"] = Content(spec, set)
Undisturbed ==
  ~broken =>
    /\ \A e, o \in Exporter : exports[e].pc # "idle" /\ exports[o].pc # "idle" => e = o
    /\ \A e \in Exporter : exports[e].pc = "solutions" => folder["game_spec.json"].of = Named(e)
    /\ (\A e \in Exporter : exports[e].pc # "solutions") => folder["solutions.json"].of = folder["game_spec.json"].of

LEMMA ArtifactParts ==
  ASSUME ArtifactInv, NEW e \in Exporter, OnlyDoes(e), Exporting(exports'[e], temps'[e]),
         DOMAIN folder' = DOMAIN folder, folder' = [f \in DOMAIN folder' |-> folder'[f]], broken' \in BOOLEAN,
         Shelved', Undisturbed'
  PROVE  ArtifactInv'
<1>1. /\ ArtifactTypeOK'
      /\ \A o \in Exporter : /\ exports'[o].set \in Collected(exports'[o].from)
                             /\ exports'[o].pc \in {"spec", "solutions"} => Matches(exports'[o].spec, exports'[o].from)
                             /\ temps'[o].whole => exports'[o].pc # "idle" /\ temps'[o] = Written(o)'
  BY ExportingKept
<1>2. QED
  BY <1>1, Zenon DEF ArtifactInv, Shelved, Undisturbed

(* A program that is not writing before or after its step. *)
LEMMA QuietStep ==
  ASSUME ArtifactInv, NEW e \in Exporter, OnlyDoes(e), Exporting(exports'[e], temps'[e]),
         exports[e].pc = "idle", exports'[e].pc = "idle", folder' = folder, broken' = broken
  PROVE  ArtifactInv'
<1>1. ArtifactTypeOK /\ Shelved /\ Undisturbed
  BY Zenon DEF ArtifactInv, Shelved, Undisturbed
<1>2. /\ DOMAIN folder' = DOMAIN folder /\ folder' = [f \in DOMAIN folder' |-> folder'[f]] /\ broken' \in BOOLEAN
  BY <1>1 DEF ArtifactTypeOK
<1>3. \A o \in Exporter \ {e} : exports'[o] = exports[o] /\ temps'[o] = temps[o]
  BY <1>2, ExportingKept
<1>4. \A o \in Exporter : exports'[o].pc = exports[o].pc /\ (exports[o].pc = "solutions" => Named(o)' = Named(o))
  BY <1>3 DEF Named
<1>5. Shelved'
  BY <1>1 DEF Shelved
<1>6. Undisturbed'
  BY <1>1, <1>4 DEF Undisturbed
<1>7. QED
  BY <1>2, <1>5, <1>6, ArtifactParts

(* A call that ends early leaves the folder, and its mark if one file was published. *)
LEMMA EndedStep ==
  ASSUME ArtifactInv, NEW e \in Exporter, OnlyDoes(e), Exporting(exports'[e], temps'[e]),
         exports'[e].pc = "idle", folder' = folder, broken' = (broken \/ exports[e].pc = "solutions")
  PROVE  ArtifactInv'
<1>1. ArtifactTypeOK /\ Shelved /\ Undisturbed
  BY Zenon DEF ArtifactInv, Shelved, Undisturbed
<1>2. /\ DOMAIN folder' = DOMAIN folder /\ folder' = [f \in DOMAIN folder' |-> folder'[f]] /\ broken' \in BOOLEAN
  BY <1>1 DEF ArtifactTypeOK
<1>3. \A o \in Exporter \ {e} : exports'[o] = exports[o] /\ temps'[o] = temps[o]
  BY <1>2, ExportingKept
<1>4. Shelved'
  BY <1>1 DEF Shelved
<1>5. Undisturbed'
  <2>1. SUFFICES ASSUME ~broken'
        PROVE  /\ \A x, o \in Exporter : exports'[x].pc # "idle" /\ exports'[o].pc # "idle" => x = o
               /\ \A o \in Exporter : exports'[o].pc = "solutions" => folder'["game_spec.json"].of = Named(o)'
               /\ (\A o \in Exporter : exports'[o].pc # "solutions") => folder'["solutions.json"].of = folder'["game_spec.json"].of
    BY Zenon DEF Undisturbed
  <2>2. ~broken /\ exports[e].pc # "solutions"
    BY <2>1
  <2>3. /\ \A x, o \in Exporter : exports[x].pc # "idle" /\ exports[o].pc # "idle" => x = o
        /\ \A o \in Exporter : exports[o].pc = "solutions" => folder["game_spec.json"].of = Named(o)
        /\ (\A o \in Exporter : exports[o].pc # "solutions") => folder["solutions.json"].of = folder["game_spec.json"].of
    BY <1>1, <2>2 DEF Undisturbed
  <2>4. \A o \in Exporter : exports'[o].pc # "idle" => exports[o].pc = exports'[o].pc /\ Named(o)' = Named(o)
    BY <1>3 DEF Named
  <2>5. (\A o \in Exporter : exports'[o].pc # "solutions") => \A o \in Exporter : exports[o].pc # "solutions"
    BY <1>3, <2>2
  <2>6. QED
    BY <2>3, <2>4, <2>5
<1>6. QED
  BY <1>2, <1>4, <1>5, ArtifactParts

THEOREM ExportsKeep == ArtifactSpec => []ArtifactInv
<1>1. ArtifactInit => ArtifactInv
  <2> SUFFICES ASSUME ArtifactInit PROVE ArtifactInv
    OBVIOUS
  <2>1. ArtifactTypeOK
    <3>1. PICK spec \in [Exporter -> Specs] : \A e \in Exporter :
            exports[e] = [spec |-> spec[e], set |-> <<>>, from |-> spec[e], pc |-> "idle", calls |-> 0, error |-> FALSE]
      <4>1. \A e \in Exporter : \E s \in Specs :
              exports[e] = [spec |-> s, set |-> <<>>, from |-> s, pc |-> "idle", calls |-> 0, error |-> FALSE]
        BY DEF ArtifactInit
      <4> DEFINE spec == [e \in Exporter |-> CHOOSE s \in Specs :
              exports[e] = [spec |-> s, set |-> <<>>, from |-> s, pc |-> "idle", calls |-> 0, error |-> FALSE]]
      <4>2. spec \in [Exporter -> Specs] /\ \A e \in Exporter :
              exports[e] = [spec |-> spec[e], set |-> <<>>, from |-> spec[e], pc |-> "idle", calls |-> 0, error |-> FALSE]
        BY <4>1
      <4>3. QED
        BY <4>2
    <3>2. DOMAIN exports = Exporter /\ exports = [e \in Exporter |-> exports[e]]
      BY DEF ArtifactInit
    <3>3. /\ DOMAIN folder = {"game_spec.json", "solutions.json"} /\ folder = [f \in DOMAIN folder |-> folder[f]]
          /\ temps = [e \in Exporter |-> temps[e]] /\ broken \in BOOLEAN
      BY DEF ArtifactInit
    <3>4. <<>> \in Seq(EntriesHanded)
      OBVIOUS
    <3>5. exports \in [Exporter -> Program]
      <4>1. ASSUME NEW e \in Exporter PROVE exports[e] \in Program
        <5>1. spec[e] \in Specs
          OBVIOUS
        <5>2. [spec |-> spec[e], set |-> <<>>, from |-> spec[e], pc |-> "idle", calls |-> 0, error |-> FALSE] \in Program
          BY <3>4, <5>1, ProgramIs DEF Stages
        <5>3. QED
          BY <3>1, <5>2, Zenon
      <4>2. QED
        BY <3>2, <4>1, Zenon
    <3>6. QED
      BY <3>3, <3>5 DEF ArtifactTypeOK
  <2>2. \A e \in Exporter : exports[e].set = <<>> /\ exports[e].pc = "idle" /\ temps[e] = Nothing
    BY DEF ArtifactInit
  <2>3. folder["game_spec.json"] = Nothing /\ folder["solutions.json"] = Nothing
    BY DEF ArtifactInit
  <2>4. ~Nothing.whole
    BY DEF Nothing
  <2>5. QED
    BY <2>1, <2>2, <2>3, <2>4, NothingCollected, Zenon DEF ArtifactInv
<1>2. ArtifactInv /\ [ArtifactNext]_avars => ArtifactInv'
  <2> SUFFICES ASSUME ArtifactInv, [ArtifactNext]_avars PROVE ArtifactInv'
    OBVIOUS
  <2>0. exports \in [Exporter -> Program]
    BY DEF ArtifactInv, ArtifactTypeOK
  <2>t. ArtifactTypeOK
    BY DEF ArtifactInv
  <2>1. CASE UNCHANGED avars
    BY <2>1 DEF avars, ArtifactInv, ArtifactTypeOK, Written, Named
  <2>2. ASSUME NEW e \in Exporter, Push(e) PROVE ArtifactInv'
    <3>1. PICK entries \in Results :
            exports' = [exports EXCEPT ![e].set = Pushed(exports[e].from, exports[e].set, entries).set,
                                       ![e].error = ~Pushed(exports[e].from, exports[e].set, entries).ok,
                                       ![e].calls = exports[e].calls + 1]
      BY <2>2 DEF Push
    <3>2. PICK set \in Collected(exports[e].from), error \in BOOLEAN :
            set = Pushed(exports[e].from, exports[e].set, entries).set
            /\ error = (~Pushed(exports[e].from, exports[e].set, entries).ok)
      <4>1. exports[e].set \in Collected(exports[e].from)
        BY DEF ArtifactInv
      <4>2. QED
        BY <4>1, PushedCollected
    <3>3. exports' = [exports EXCEPT ![e].set = set, ![e].error = error, ![e].calls = exports[e].calls + 1]
      BY <3>1, <3>2, Zenon
    <3>4. exports[e].pc = "idle" /\ temps' = temps /\ folder' = folder /\ broken' = broken
      BY <2>2 DEF Push
    <3>5. /\ exports'[e].set = set /\ exports'[e].from = exports[e].from /\ exports'[e].pc = "idle"
          /\ exports'[e] \in Program
      BY <2>0, <3>2, <3>3, <3>4 DEF Collected, Program
    <3>6. OnlyDoes(e)
      BY <2>0, <2>t, <3>3, <3>4 DEF OnlyDoes, ArtifactTypeOK
    <3>7. Exporting(exports'[e], temps'[e])
      BY <3>2, <3>4, <3>5 DEF ArtifactInv, Exporting
    <3>8. QED
      BY <2>2, <3>4, <3>5, <3>6, <3>7, QuietStep
  <2>3. ASSUME NEW e \in Exporter, NextGame(e) PROVE ArtifactInv'
    <3>1. PICK s \in Specs, keep \in BOOLEAN :
            exports' = [exports EXCEPT ![e].spec = s, ![e].calls = exports[e].calls + 1, ![e].error = FALSE,
                                       ![e].from = IF keep THEN exports[e].from ELSE s,
                                       ![e].set = IF keep THEN exports[e].set ELSE <<>>]
      BY <2>3 DEF NextGame
    <3>2. PICK from \in Specs, set \in Seq(EntriesHanded) :
            set \in Collected(from) /\ from = (IF keep THEN exports[e].from ELSE s) /\ set = (IF keep THEN exports[e].set ELSE <<>>)
      <4>1. exports[e].set \in Collected(exports[e].from) /\ exports[e].from \in Specs
        BY <2>0 DEF ArtifactInv, Program
      <4>2. <<>> \in Collected(s)
        BY NothingCollected
      <4>3. QED
        BY <4>1, <4>2 DEF Collected
    <3>3. exports' = [exports EXCEPT ![e].spec = s, ![e].calls = exports[e].calls + 1, ![e].error = FALSE,
                                     ![e].from = from, ![e].set = set]
      BY <3>1, <3>2, Zenon
    <3>4. exports[e].pc = "idle" /\ temps' = temps /\ folder' = folder /\ broken' = broken
      BY <2>3 DEF NextGame
    <3>5. /\ exports'[e].set = set /\ exports'[e].from = from /\ exports'[e].pc = "idle"
          /\ exports'[e] \in Program
      <4>1. PICK n \in Nat : n = exports[e].calls + 1
        BY <2>0 DEF Program
      <4>2. exports' = [exports EXCEPT ![e].spec = s, ![e].calls = n, ![e].error = FALSE, ![e].from = from, ![e].set = set]
        BY <3>3, <4>1, Zenon
      <4>3. set \in Seq(EntriesHanded)
        BY DEF Collected
      <4>4. QED
        BY <2>0, <3>4, <4>2, <4>3 DEF Program
    <3>6. OnlyDoes(e)
      BY <2>0, <2>t, <3>3, <3>4 DEF OnlyDoes, ArtifactTypeOK
    <3>7. Exporting(exports'[e], temps'[e])
      BY <3>2, <3>4, <3>5 DEF ArtifactInv, Exporting
    <3>8. QED
      BY <3>4, <3>5, <3>6, <3>7, QuietStep
  <2>4. ASSUME NEW e \in Exporter, WriteArtifacts(e) PROVE ArtifactInv'
    <3>1. PICK pc \in {"only", IF Matches(exports[e].spec, exports[e].from) THEN "spec" ELSE "idle"} :
            exports' = [exports EXCEPT ![e].calls = exports[e].calls + 1, ![e].pc = pc, ![e].error = (pc = "idle")]
      BY <2>4 DEF WriteArtifacts
    <3>a. pc \in {"idle", "spec", "only"} /\ (pc = "spec" => Matches(exports[e].spec, exports[e].from))
      BY <3>1
    <3>b. PICK error \in BOOLEAN : error = (pc = "idle")
      OBVIOUS
    <3>2. exports' = [exports EXCEPT ![e].calls = exports[e].calls + 1, ![e].pc = pc, ![e].error = error]
      BY <3>1, <3>b, Zenon
    <3>3. exports[e].pc = "idle" /\ temps' = temps /\ folder' = folder
          /\ broken' = (broken \/ \E o \in Exporter \ {e} : exports[o].pc # "idle")
      BY <2>4 DEF WriteArtifacts
    <3>4. /\ exports'[e].set = exports[e].set /\ exports'[e].from = exports[e].from
          /\ exports'[e].spec = exports[e].spec /\ exports'[e].pc = pc
          /\ exports'[e] \in Program
      <4>1. PICK n \in Nat : n = exports[e].calls + 1
        BY <2>0 DEF Program
      <4>2. exports' = [exports EXCEPT ![e].calls = n, ![e].pc = pc, ![e].error = error]
        BY <3>2, <4>1, Zenon
      <4>3. QED
        BY <2>0, <3>a, <4>2 DEF Program, Stages
    <3>5. OnlyDoes(e)
      BY <2>0, <2>t, <3>2, <3>3 DEF OnlyDoes, ArtifactTypeOK
    <3>6. Exporting(exports'[e], temps'[e])
      <4>1. exports[e].set \in Collected(exports[e].from) /\ ~temps[e].whole
        BY <3>3 DEF ArtifactInv
      <4>2. pc \in {"spec", "solutions"} => Matches(exports[e].spec, exports[e].from)
        BY <3>a
      <4>3. QED
        BY <3>3, <3>4, <4>1, <4>2 DEF Exporting
    <3>7. /\ DOMAIN folder' = DOMAIN folder /\ folder' = [f \in DOMAIN folder' |-> folder'[f]] /\ broken' \in BOOLEAN
      BY <2>t, <3>3 DEF ArtifactTypeOK
    <3>8. \A o \in Exporter \ {e} : exports'[o] = exports[o]
      BY <3>5, <3>6, <3>7, ExportingKept
    <3>9. Shelved'
      BY <3>3, Zenon DEF ArtifactInv, Shelved
    <3>10. Undisturbed'
      <4>1. SUFFICES ASSUME ~broken'
            PROVE  /\ \A x, o \in Exporter : exports'[x].pc # "idle" /\ exports'[o].pc # "idle" => x = o
                   /\ \A o \in Exporter : exports'[o].pc = "solutions" => folder'["game_spec.json"].of = Named(o)'
                   /\ (\A o \in Exporter : exports'[o].pc # "solutions") => folder'["solutions.json"].of = folder'["game_spec.json"].of
        BY Zenon DEF Undisturbed
      <4>2. ~broken /\ \A o \in Exporter \ {e} : exports'[o].pc = "idle"
        BY <3>3, <3>8, <4>1
      <4>3. exports'[e].pc # "solutions" /\ exports[e].pc # "solutions"
        BY <3>3, <3>4, <3>a
      <4>4. (\A o \in Exporter : exports[o].pc # "solutions") => folder["solutions.json"].of = folder["game_spec.json"].of
        BY <4>2 DEF ArtifactInv
      <4>5. \A o \in Exporter : exports[o].pc # "solutions"
        BY <3>8, <4>2, <4>3
      <4>6. QED
        BY <3>3, <4>2, <4>3, <4>4, <4>5
    <3>11. QED
      BY <3>5, <3>6, <3>7, <3>9, <3>10, ArtifactParts
  <2>5. ASSUME NEW e \in Exporter, WriteTemp(e) PROVE ArtifactInv'
    <3>1. /\ exports[e].pc \in Writing /\ exports' = exports /\ folder' = folder /\ broken' = broken
          /\ \/ temps' = [temps EXCEPT ![e] = Artifact(e)]
             \/ temps' = [temps EXCEPT ![e] = [Artifact(e) EXCEPT !.whole = FALSE]]
      BY <2>5 DEF WriteTemp
    <3>2. Artifact(e) = Written(e)
      BY DEF Artifact, Written, Writes
    <3>3. DOMAIN temps = Exporter
      BY <2>t DEF ArtifactTypeOK
    <3>4. temps'[e] = Written(e) \/ ~temps'[e].whole
      <4>1. ~[Artifact(e) EXCEPT !.whole = FALSE].whole
        BY DEF Artifact, Content
      <4>2. QED
        BY <3>1, <3>2, <3>3, <4>1
    <3>5. OnlyDoes(e)
      BY <2>0, <3>1, <3>3 DEF OnlyDoes
    <3>6. Exporting(exports'[e], temps'[e])
      BY <2>0, <3>1, <3>4 DEF ArtifactInv, Exporting, Written, Writing
    <3>7. /\ DOMAIN folder' = DOMAIN folder /\ folder' = [f \in DOMAIN folder' |-> folder'[f]] /\ broken' \in BOOLEAN
      BY <2>t, <3>1 DEF ArtifactTypeOK
    <3>8. Shelved' /\ Undisturbed'
      BY <3>1, Zenon DEF ArtifactInv, Shelved, Undisturbed, Named
    <3>9. QED
      BY <3>5, <3>6, <3>7, <3>8, ArtifactParts
  <2>6. ASSUME NEW e \in Exporter, Rename(e) PROVE ArtifactInv'
    <3>1. PICK pc \in {"idle", "solutions"} : pc = (IF exports[e].pc = "spec" THEN "solutions" ELSE "idle")
      OBVIOUS
    <3>2. /\ exports[e].pc \in Writing /\ temps[e].whole
          /\ folder' = [folder EXCEPT ![File(exports[e].pc)] = temps[e]]
          /\ temps' = [temps EXCEPT ![e] = Nothing] /\ exports' = [exports EXCEPT ![e].pc = pc]
      BY <2>6, <3>1 DEF Rename
    <3>b. /\ broken' \in BOOLEAN
          /\ exports[e].pc = "only" => broken'
          /\ exports[e].pc = "spec" => broken' = (broken /\ ~\A o \in Exporter \ {e} : exports[o].pc = "idle")
          /\ exports[e].pc = "solutions" => broken' = broken
      BY <2>6, <2>t DEF Rename, ArtifactTypeOK
    <3>3. /\ exports'[e].set = exports[e].set /\ exports'[e].from = exports[e].from
          /\ exports'[e].spec = exports[e].spec /\ exports'[e].pc = pc
          /\ exports'[e] \in Program
      BY <2>0, <3>1, <3>2 DEF Program, Stages
    <3>4. DOMAIN temps = Exporter /\ temps'[e] = Nothing /\ ~temps'[e].whole
      BY <2>t, <3>2, ContentIs DEF ArtifactTypeOK
    <3>5. OnlyDoes(e)
      BY <2>0, <3>2, <3>3, <3>4 DEF OnlyDoes
    <3>6. /\ exports[e].set \in Collected(exports[e].from)
          /\ pc # "idle" \/ exports[e].pc = "solutions" => Matches(exports[e].spec, exports[e].from)
          /\ temps[e] = Written(e) /\ exports[e].spec \in Specs /\ exports[e].from \in Specs
      BY <2>0, <3>1, <3>2 DEF ArtifactInv, Program, Writing
    <3>7. Exporting(exports'[e], temps'[e])
      BY <3>3, <3>4, <3>6 DEF Exporting
    <3>8. DOMAIN folder = {"game_spec.json", "solutions.json"} /\ folder = [f \in DOMAIN folder |-> folder[f]]
      BY <2>t DEF ArtifactTypeOK
    <3>9. /\ DOMAIN folder' = DOMAIN folder /\ folder' = [f \in DOMAIN folder' |-> folder'[f]] /\ broken' \in BOOLEAN
      BY <2>t, <3>2, <3>8, <3>b DEF ArtifactTypeOK
    <3>10. \A o \in Exporter \ {e} : exports'[o] = exports[o]
      BY <3>5, <3>7, <3>9, ExportingKept
    <3>11. Named(e)' = Named(e)
      BY <3>3 DEF Named
    <3>12. CASE exports[e].pc = "spec"
      <4>1. /\ folder'["game_spec.json"] = Content(exports[e].spec, <<>>)
            /\ folder'["solutions.json"] = folder["solutions.json"] /\ pc = "solutions"
        BY <3>1, <3>2, <3>6, <3>8, <3>12 DEF File, Written, Writes
      <4>2. folder'["game_spec.json"].whole /\ folder'["game_spec.json"].of = Named(e)
        BY <4>1, ContentIs DEF Named
      <4>3. Shelved'
        BY <4>1, <4>2, Zenon DEF ArtifactInv, Shelved
      <4>4. Undisturbed'
        <5>1. SUFFICES ASSUME ~broken'
              PROVE  /\ \A x, o \in Exporter : exports'[x].pc # "idle" /\ exports'[o].pc # "idle" => x = o
                     /\ \A o \in Exporter : exports'[o].pc = "solutions" => folder'["game_spec.json"].of = Named(o)'
                     /\ \E o \in Exporter : exports'[o].pc = "solutions"
          BY Zenon DEF Undisturbed
        <5>a. \A o \in Exporter \ {e} : exports[o].pc = "idle"
          BY <3>12, <3>b, <5>1 DEF ArtifactInv
        <5>2. \A o \in Exporter \ {e} : exports'[o].pc = "idle"
          BY <3>10, <5>a
        <5>3. QED
          BY <3>3, <3>11, <4>1, <4>2, <5>2
      <4>5. QED
        BY <3>5, <3>7, <3>9, <4>3, <4>4, ArtifactParts
    <3>13. CASE exports[e].pc = "solutions"
      <4>1. /\ folder'["solutions.json"] = Content(exports[e].from, exports[e].set)
            /\ folder'["game_spec.json"] = folder["game_spec.json"] /\ pc = "idle"
        BY <3>1, <3>2, <3>6, <3>8, <3>13 DEF File, Written, Writes
      <4>2. folder'["solutions.json"].of = Named(e)
        <5>1. exports[e].from.name = exports[e].spec.name /\ exports[e].from.dims = exports[e].spec.dims
          BY <3>6, <3>13 DEF Matches
        <5>2. QED
          BY <4>1, <5>1, ContentIs DEF Named
      <4>4. Shelved'
        BY <3>6, <4>1, Zenon DEF ArtifactInv, Shelved
      <4>5. Undisturbed'
        <5>1. SUFFICES ASSUME ~broken
              PROVE  /\ \A x \in Exporter : exports'[x].pc = "idle"
                     /\ folder'["solutions.json"].of = folder'["game_spec.json"].of
          <6>1. broken' = broken
            BY <3>13, <3>b
          <6>2. QED
            BY <6>1, Zenon DEF Undisturbed
        <5>2. \A o \in Exporter \ {e} : exports'[o].pc = "idle"
          BY <3>2, <3>10, <5>1 DEF ArtifactInv
        <5>3. folder["game_spec.json"].of = Named(e)
          BY <3>13, <5>1 DEF ArtifactInv
        <5>4. QED
          BY <3>3, <4>1, <4>2, <5>2, <5>3
      <4>6. QED
        BY <3>5, <3>7, <3>9, <4>4, <4>5, ArtifactParts
    <3>14. CASE exports[e].pc = "only"
      <4>1. /\ folder'["game_spec.json"] = Content(exports[e].spec, <<>>)
            /\ folder'["solutions.json"] = folder["solutions.json"]
        BY <3>2, <3>6, <3>8, <3>14 DEF File, Written, Writes
      <4>2. folder'["game_spec.json"].whole
        BY <4>1, ContentIs
      <4>3. Shelved'
        <5>1. Shelved
          BY Zenon DEF ArtifactInv, Shelved
        <5>2. QED
          BY <4>1, <4>2, <5>1 DEF Shelved
      <4>4. Undisturbed'
        BY <3>14, <3>b DEF Undisturbed
      <4>5. QED
        BY <3>5, <3>7, <3>9, <4>3, <4>4, ArtifactParts
    <3>15. QED
      BY <3>2, <3>12, <3>13, <3>14 DEF Writing
  <2>7. ASSUME NEW e \in Exporter, WriteFails(e) PROVE ArtifactInv'
    <3>1. /\ exports' = [exports EXCEPT ![e].pc = "idle", ![e].error = TRUE] /\ temps' = [temps EXCEPT ![e] = Nothing]
          /\ broken' = (broken \/ exports[e].pc = "solutions") /\ folder' = folder
      BY <2>7 DEF WriteFails
    <3>2. /\ exports'[e].set = exports[e].set /\ exports'[e].from = exports[e].from /\ exports'[e].pc = "idle"
          /\ exports'[e] \in Program
      BY <2>0, <3>1 DEF Program, Stages
    <3>3. DOMAIN temps = Exporter /\ temps'[e] = Nothing /\ ~temps'[e].whole
      BY <2>t, <3>1, ContentIs DEF ArtifactTypeOK
    <3>4. OnlyDoes(e)
      BY <2>0, <3>1, <3>3 DEF OnlyDoes
    <3>5. Exporting(exports'[e], temps'[e])
      BY <3>2, <3>3 DEF ArtifactInv, Exporting
    <3>6. QED
      BY <3>1, <3>2, <3>4, <3>5, EndedStep
  <2>8. ASSUME NEW e \in Exporter, Dies(e) PROVE ArtifactInv'
    <3>1. /\ temps' = [temps EXCEPT ![e] = Nothing]
          /\ broken' = (broken \/ exports[e].pc = "solutions") /\ folder' = folder
      BY <2>8 DEF Dies
    <3>2. PICK s \in Specs :
            exports' = [exports EXCEPT ![e] = [spec |-> s, set |-> <<>>, from |-> s, pc |-> "idle",
                                               calls |-> exports[e].calls + 1, error |-> FALSE]]
      BY <2>8 DEF Dies
    <3>3. /\ exports'[e].set = <<>> /\ exports'[e].from = s /\ exports'[e].pc = "idle"
          /\ exports'[e] \in Program
      BY <2>0, <3>2 DEF Program, Stages
    <3>4. DOMAIN temps = Exporter /\ temps'[e] = Nothing /\ ~temps'[e].whole
      BY <2>t, <3>1, ContentIs DEF ArtifactTypeOK
    <3>5. OnlyDoes(e)
      BY <2>0, <3>1, <3>2, <3>4 DEF OnlyDoes
    <3>6. Exporting(exports'[e], temps'[e])
      BY <3>3, <3>4, NothingCollected DEF Exporting
    <3>7. QED
      BY <3>1, <3>3, <3>5, <3>6, EndedStep
  <2>9. QED
    BY <2>1, <2>2, <2>3, <2>4, <2>5, <2>6, <2>7, <2>8 DEF ArtifactNext
<1>3. QED
  BY <1>1, <1>2, PTL DEF ArtifactSpec

(* Whatever programs export, fail and crash in between, what is published is whole, of
   one game, with distinct ids and entries that fit it. *)
THEOREM PublishedStaysWhole == ArtifactSpec => []PublishedWhole
<1>1. ArtifactInv => PublishedWhole
  <2> SUFFICES ASSUME ArtifactInv PROVE PublishedWhole
    OBVIOUS
  <2>1. DOMAIN folder = {"game_spec.json", "solutions.json"} /\ Shelved
    BY Zenon DEF ArtifactInv, ArtifactTypeOK, Shelved
  <2> DEFINE s == folder["solutions.json"]
  <2>2. CASE s = Nothing
    <3>1. s.entries = <<>>
      BY <2>2, ContentIs
    <3>2. QED
      BY <2>1, <2>2, <3>1 DEF PublishedWhole, ArtifactInv
  <2>3. CASE s # Nothing
    <3>1. PICK spec \in Specs : \E set \in Collected(spec) : s = Content(spec, set)
      BY <2>1, <2>3 DEF Shelved
    <3>2. PICK set \in Collected(spec) : s = Content(spec, set)
      BY <3>1
    <3>3. s.whole /\ s.of = <<spec.name, spec.dims>> /\ s.entries = set
      BY <3>2, ContentIs
    <3>4. /\ \A i, j \in DOMAIN set : i # j => set[i].id # set[j].id
          /\ \A k \in DOMAIN set : Fits(spec, set[k])
      BY DEF Collected
    <3>5. /\ \A f \in DOMAIN folder : folder[f] # Nothing => folder[f].whole
          /\ \A i, j \in DOMAIN s.entries : i # j => s.entries[i].id # s.entries[j].id
      BY <2>1, <3>3, <3>4 DEF Shelved
    <3>6. \A k \in DOMAIN s.entries : Fits(spec, s.entries[k])
      BY <3>3, <3>4
    <3>7. (\A e \in Exporter : exports[e].pc = "idle") /\ ~broken => s.of = folder["game_spec.json"].of
      BY DEF ArtifactInv
    <3>8. QED
      BY <3>3, <3>5, <3>6, <3>7, Zenon DEF PublishedWhole
  <2>4. QED
    BY <2>2, <2>3
<1>2. QED
  BY <1>1, ExportsKeep, PTL

-----------------------------------------------------------------------------
(***************************************************************************)
(* Data sets: when fetch() returns Ok, every file of the data set is on    *)
(* disk and is what is known of it.                                        *)
(***************************************************************************)
Good(i) == Files[i].name \in DOMAIN disk /\ Verifies(Files[i], disk[Files[i].name])

(* fetch() that stands at a file has left good ones behind it, and nobody else
   writes while it runs; files come from servers and users alone. *)
FetchInv ==
  /\ fetching \in 0 .. Len(Files)
  /\ \A n \in DOMAIN disk : disk[n] \in Contents
  /\ \A i \in 1 .. fetching - 1 : Good(i)
  /\ fetching # 0 => fetched = "none"
  /\ fetched = "ok" => \A i \in DOMAIN Files : Good(i)
  /\ \A i \in DOMAIN csv : csv[i] = csv[1]

USE FetchAssumption

(* The file list has a first file, and fetch() stands at one of its files. *)
LEMMA Listed ==
  /\ Len(Files) \in Nat /\ Len(Files) >= 1 /\ DOMAIN Files = 1 .. Len(Files)
  /\ \A i \in DOMAIN Files : Files[i] \in [name : STRING, sha : Nat, rows : Nat, manual : BOOLEAN]
<1>1. Files \in Seq([name : STRING, sha : Nat, rows : Nat, manual : BOOLEAN]) /\ Files # <<>>
  BY FetchAssumption
<1> DEFINE R == [name : STRING, sha : Nat, rows : Nat, manual : BOOLEAN]
<1>2. Files \in Seq(R) /\ Files # <<>>
  BY <1>1
<1> HIDE DEF R
<1>3. Len(Files) \in Nat /\ Len(Files) >= 1 /\ DOMAIN Files = 1 .. Len(Files) /\ \A i \in DOMAIN Files : Files[i] \in R
  BY <1>2
<1>4. QED
  BY <1>3 DEF R

(* A file taken from the cache is good: its digest, or its rows, say so. *)
LEMMA HitVerifies ==
  ASSUME NEW i \in DOMAIN Files, \A n \in DOMAIN disk : disk[n] \in Contents, CacheHit(Files[i])
  PROVE  Good(i)
<1>1. Files[i].name \in DOMAIN disk /\ disk[Files[i].name] \in Contents
  BY DEF CacheHit
<1>2. CASE Files[i].sha # 0
  BY <1>1, <1>2 DEF CacheHit, Good
<1>3. CASE Files[i].sha = 0
  BY <1>1, <1>3 DEF CacheHit, Good, Verifies
<1>4. QED
  BY <1>2, <1>3

(* A file that passed is one more good one, or the last. *)
LEMMA PassedFetchInv ==
  ASSUME FetchInv, fetching # 0, FetchPassed, \A n \in DOMAIN disk' : disk'[n] \in Contents,
         \A i \in 1 .. fetching : Good(i)', csv' = csv
  PROVE  FetchInv'
<1>1. fetching \in 1 .. Len(Files) /\ fetched = "none" /\ \A i \in DOMAIN csv : csv[i] = csv[1]
  BY DEF FetchInv
<1>2. CASE fetching < Len(Files)
  <2>1. fetching' = fetching + 1 /\ fetched' = "none"
    BY <1>1, <1>2 DEF FetchPassed
  <2>2. /\ fetching' \in 0 .. Len(Files) /\ fetching' - 1 = fetching
        /\ fetched' # "ok"
    BY <1>1, <1>2, <2>1, Listed
  <2>3. \A i \in 1 .. fetching' - 1 : Good(i)'
    BY <2>2
  <2>4. QED
    BY <1>1, <2>1, <2>2, <2>3 DEF FetchInv
<1>3. CASE ~(fetching < Len(Files))
  <2>1. fetching' = 0 /\ fetched' = "ok" /\ fetching = Len(Files)
    BY <1>1, <1>3, Listed DEF FetchPassed
  <2>2. QED
    BY <1>1, <2>1, Listed DEF FetchInv
<1>4. QED
  BY <1>2, <1>3

(* A download replaces one file and no other. *)
LEMMA Replaced ==
  ASSUME NEW name, NEW c,
         disk' = [n \in DOMAIN disk \cup {name} |-> IF n = name THEN c ELSE disk[n]]
  PROVE  /\ name \in DOMAIN disk' /\ disk'[name] = c
         /\ DOMAIN disk' = DOMAIN disk \cup {name}
         /\ \A n \in DOMAIN disk : n # name => disk'[n] = disk[n]
OBVIOUS

LEMMA DownloadFetchInv == FetchInv /\ Download => FetchInv'
<1>1. SUFFICES ASSUME FetchInv, Download PROVE FetchInv'
  OBVIOUS
<1> DEFINE f == Files[fetching]
<1>2. PICK c \in Contents :
        /\ disk' = [n \in DOMAIN disk \cup {f.name} |-> IF n = f.name THEN c ELSE disk[n]]
        /\ IF Verifies(f, c) THEN FetchPassed ELSE FetchFailed
  BY <1>1 DEF Download
<1>3. fetching \in DOMAIN Files /\ fetching # 0 /\ csv' = csv /\ \A i \in DOMAIN csv : csv[i] = csv[1]
  BY <1>1, Listed DEF Download, FetchInv
<1>4. /\ f.name \in DOMAIN disk' /\ disk'[f.name] = c /\ DOMAIN disk' = DOMAIN disk \cup {f.name}
      /\ \A n \in DOMAIN disk : n # f.name => disk'[n] = disk[n]
  BY <1>2, Replaced
<1>5. \A n \in DOMAIN disk' : disk'[n] \in Contents
  BY <1>1, <1>4 DEF FetchInv
<1>6. CASE Verifies(f, c)
  <2>1. \A i \in 1 .. fetching - 1 : Good(i)'
    <3>1. SUFFICES ASSUME NEW i \in 1 .. fetching - 1 PROVE Good(i)'
      OBVIOUS
    <3>2. i \in DOMAIN Files /\ i # fetching /\ Good(i)
      BY <1>1, <1>3, <3>1, Listed DEF FetchInv
    <3>3. Files[i].name # f.name
      BY <1>3, <3>2
    <3>4. QED
      BY <1>4, <3>2, <3>3 DEF Good
  <2>2. \A i \in 1 .. fetching : Good(i)'
    <3>1. \A i \in 1 .. fetching : i \in 1 .. fetching - 1 \/ i = fetching
      BY <1>3, Listed
    <3>2. \A i : i = fetching => Good(i)'
      BY <1>4, <1>6 DEF Good
    <3>3. QED
      BY <2>1, <3>1, <3>2
  <2>4. QED
    BY <1>1, <1>2, <1>3, <1>5, <1>6, <2>2, PassedFetchInv
<1>7. CASE ~Verifies(f, c)
  <2>1. fetching' = 0 /\ fetched' = "error"
    BY <1>2, <1>7 DEF FetchFailed
  <2>2. QED
    BY <1>3, <1>5, <2>1, Listed DEF FetchInv
<1>8. QED
  BY <1>6, <1>7

LEMMA NextFetchInv == FetchInv /\ [FetchNext]_fvars => FetchInv'
<1>1. SUFFICES ASSUME FetchInv, [FetchNext]_fvars PROVE FetchInv'
  OBVIOUS
<1>2. CASE Call
  BY <1>1, <1>2, Listed DEF Call, FetchInv, Good
<1>3. CASE KeepFile
  <2>1. /\ fetching # 0 /\ fetching \in DOMAIN Files /\ CacheHit(Files[fetching]) /\ FetchPassed
        /\ disk' = disk /\ csv' = csv /\ \A n \in DOMAIN disk : disk[n] \in Contents
    BY <1>1, <1>3, Listed DEF KeepFile, FetchInv
  <2>2. Good(fetching)
    BY <2>1, HitVerifies
  <2>3. \A i \in 1 .. fetching : i \in 1 .. fetching - 1 \/ i = fetching
    BY <2>1, Listed
  <2>4. \A i \in 1 .. fetching : Good(i)
    BY <1>1, <2>2, <2>3 DEF FetchInv
  <2>5. \A i \in 1 .. fetching : Good(i)'
    BY <2>1, <2>4 DEF Good
  <2>6. QED
    BY <1>1, <2>1, <2>5, PassedFetchInv
<1>4. CASE NoFile
  BY <1>1, <1>4, Listed DEF NoFile, FetchFailed, FetchInv
<1>5. CASE Download
  BY <1>1, <1>5, DownloadFetchInv
<1>6. CASE ByHand
  <2>1. PICK f \in {Files[i] : i \in DOMAIN Files}, c \in Contents :
          disk' = [n \in DOMAIN disk \cup {f.name} |-> IF n = f.name THEN c ELSE disk[n]]
    BY <1>6 DEF ByHand
  <2>2. \A n \in DOMAIN disk' : disk'[n] \in Contents
    BY <1>1, <2>1, Replaced DEF FetchInv
  <2>3. fetching = 0 /\ fetching' = 0 /\ fetched' = "none" /\ csv' = csv
    BY <1>6 DEF ByHand
  <2>4. QED
    BY <1>1, <2>2, <2>3, Listed DEF FetchInv
<1>7. CASE Crash
  BY <1>1, <1>7, Listed DEF Crash, FetchInv
<1>8. CASE Convert
  <2>1. /\ fetching = 0 /\ fetching' = 0 /\ fetched' = "none" /\ disk' = disk
        /\ \A i \in DOMAIN csv' : csv'[i] = csv'[1]
    BY <1>1, <1>8 DEF Convert, FetchInv
  <2>2. QED
    BY <1>1, <2>1, Listed DEF FetchInv
<1>9. CASE UNCHANGED fvars
  BY <1>1, <1>9 DEF fvars, FetchInv, Good
<1>10. QED
  BY <1>1, <1>2, <1>3, <1>4, <1>5, <1>6, <1>7, <1>8, <1>9 DEF FetchNext

(* The inductive invariant holds in every reachable state. *)
THEOREM FetchedGood == FetchSpec => []FetchInv
<1>1. FetchInit => FetchInv
  BY Listed DEF FetchInit, FetchInv
<1>2. QED
  BY <1>1, NextFetchInv, PTL DEF FetchSpec

(* Ok means that every file verifies, whatever earlier calls, users and crashes
   left on disk, for any data set that tells no lies about itself. *)
THEOREM FetchOkMeansVerified == FetchSpec => []OkMeansVerified
<1>1. FetchInv => OkMeansVerified
  BY DEF FetchInv, Good, OkMeansVerified
<1>2. QED
  BY FetchedGood, <1>1, PTL

-----------------------------------------------------------------------------
(***************************************************************************)
(* The grid of a sweep.  A row of the product of the first n axes stands   *)
(* for as many combinations as the axes after them have together; dividing *)
(* the place of a combination by that number gives its row.                *)
(***************************************************************************)
(* Products keep the order of their factors. *)
LEMMA Scales ==
  ASSUME NEW x \in Int, NEW y \in Int, NEW c \in Nat, x <= y
  PROVE  c * x <= c * y
<1> DEFINE T == {k \in Nat : k * x <= k * y}
<1>1. 0 \in T
  OBVIOUS
<1>2. ASSUME NEW k \in Nat, k \in T PROVE k + 1 \in T
  <2>1. (k + 1) * x = k * x + x /\ (k + 1) * y = k * y + y /\ k * x \in Int /\ k * y \in Int
    OBVIOUS
  <2> QED BY <1>2, <2>1
<1>3. c \in T
  <2> HIDE DEF T
  <2> QED BY <1>1, <1>2, Induct
<1> QED BY <1>3

(* A number is its quotient times the divisor, and a rest below the divisor. *)
Rest(x, a, q, r) == q \in Nat /\ r \in Nat /\ r < a /\ x = a * q + r
LEMMA Divides ==
  ASSUME NEW x \in Nat, NEW a \in Nat, a # 0
  PROVE  Rest(x, a, x \div a, x % a)
<1>1. x \div a \in Int /\ x % a \in Int
  OBVIOUS
<1>4. 0 <= x % a
  OBVIOUS
<1>5. x % a < a
  OBVIOUS
<1>6. x = (a * (x \div a)) + (x % a)
  OBVIOUS
<1>2. PICK q \in Int, r \in Int : q = x \div a /\ r = x % a
  BY <1>1
<1>3. 0 <= r /\ r < a /\ x = (a * q) + r
  BY <1>2, <1>4, <1>5, <1>6
<1>7. ASSUME q < 0 PROVE FALSE
  <2>1. q <= -1 /\ a * q <= a * (-1)
    BY <1>7, Scales
  <2>2. PICK u \in Int : u = a * q
    OBVIOUS
  <2>3. u <= -a
    BY <2>1, <2>2
  <2>4. x = u + r
    BY <1>3, <2>2
  <2> QED BY <1>3, <2>3, <2>4
<1>8. q >= 0
  BY <1>7
<1>9. Rest(x, a, q, r)
  BY <1>3, <1>8 DEF Rest
<1> QED BY <1>2, <1>9

LEMMA OneQuotient ==
  ASSUME NEW x \in Nat, NEW a \in Nat, NEW q, NEW r, NEW p, NEW s, Rest(x, a, q, r), Rest(x, a, p, s)
  PROVE  q <= p
<1>1. /\ q \in Nat /\ r \in Nat /\ r < a /\ x = a * q + r
      /\ p \in Nat /\ s \in Nat /\ s < a /\ x = a * p + s
  BY DEF Rest
<1>2. SUFFICES ASSUME q > p PROVE FALSE
  BY <1>1
<1>3. p + 1 <= q /\ a * (p + 1) <= a * q
  BY <1>1, <1>2, Scales
<1>4. PICK u \in Int, v \in Int : u = a * q /\ v = a * p
  BY <1>1
<1>5. a * (p + 1) = v + a
  BY <1>1, <1>4
<1>6. v + a <= u /\ x = u + r /\ x = v + s
  BY <1>1, <1>3, <1>4, <1>5
<1>7. r \in Nat /\ s \in Nat /\ s < a
  BY <1>1
<1>8. u \in Int /\ v \in Int
  BY <1>4
<1> QED BY <1>6, <1>7, <1>8

LEMMA QuotientIs ==
  ASSUME NEW x \in Nat, NEW a \in Nat, NEW q, NEW r, Rest(x, a, q, r)
  PROVE  x \div a = q
<1>1. a # 0 /\ q \in Nat
  BY DEF Rest
<1>2. Rest(x, a, x \div a, x % a)
  BY <1>1, Divides
<1>3. x \div a <= q /\ q <= x \div a
  BY <1>2, OneQuotient
<1> QED BY <1>1, <1>2, <1>3 DEF Rest

(* To divide twice is to divide by the product. *)
LEMMA DividesTwice ==
  ASSUME NEW x \in Nat, NEW a \in Nat, NEW b \in Nat, a # 0, b # 0
  PROVE  (x \div a) \div b = x \div (b * a)
<1>0. Rest(x, a, x \div a, x % a)
  BY Divides
<1>1. PICK q \in Nat, r \in Nat : q = x \div a /\ r < a /\ x = a * q + r
  BY <1>0, Zenon DEF Rest
<1>6. Rest(q, b, q \div b, q % b)
  BY Divides
<1>2. PICK p \in Nat, s \in Nat : p = q \div b /\ s < b /\ q = b * p + s
  BY <1>6, Zenon DEF Rest
<1>3. x = (b * a) * p + (a * s + r) /\ b * a \in Nat /\ a * s + r \in Nat
  <2>1. PICK u \in Nat : u = b * p
    OBVIOUS
  <2>2. a * (u + s) = a * u + a * s
    OBVIOUS
  <2>3. a * u = (b * a) * p
    BY <2>1
  <2>4. PICK v \in Nat, w \in Nat, z \in Nat : v = a * u /\ w = a * s /\ z = b * a
    OBVIOUS
  <2>5. x = (v + w) + r
    BY <1>1, <1>2, <2>1, <2>2, <2>4
  <2>6. v = z * p
    BY <2>3, <2>4
  <2>7. x = z * p + (w + r)
    BY <2>5, <2>6
  <2> QED BY <2>4, <2>7
<1>4. a * s + r < b * a
  <2>1. s + 1 <= b /\ a * (s + 1) <= a * b
    BY <1>2, Scales
  <2>2. a * (s + 1) = a * s + a /\ a * b = b * a
    OBVIOUS
  <2>3. PICK u \in Int, v \in Int : u = a * s /\ v = b * a
    OBVIOUS
  <2>4. u + a <= v
    BY <2>1, <2>2, <2>3
  <2>5. r < a
    BY <1>1
  <2>6. u + r < v
    BY <2>3, <2>4, <2>5
  <2> QED BY <2>3, <2>6
<1>5. Rest(x, b * a, p, a * s + r)
  BY <1>3, <1>4 DEF Rest
<1> QED BY <1>1, <1>2, <1>3, <1>5, QuotientIs

(* The numbers of combinations of the last axes. *)
Strides(f, axes) ==
  /\ f \in [0 .. Len(axes) -> Nat] /\ f[0] = 1
  /\ \A d \in 1 .. Len(axes) : f[d] = Len(axes[Len(axes) - d + 1].values) * f[d - 1]
LEMMA StrideRun ==
  ASSUME NEW axes \in Seq(SweepAxis)
  PROVE  Strides(Stride(axes), axes)
<1> DEFINE N == Len(axes)
           L(d) == Len(axes[N - d + 1].values)
           F == [d \in 1 .. N |-> [x \in Nat |-> L(d) * x]]
           Is(f) == f = [d \in 0 .. N |-> IF d = 0 THEN 1 ELSE L(d) * f[d - 1]]
           course == CHOOSE f : Is(f)
<1>1. N \in Nat
  OBVIOUS
<1>2. ASSUME NEW d \in 1 .. N PROVE L(d) \in Nat
  <2>1. N - d + 1 \in 1 .. Len(axes)
    OBVIOUS
  <2>2. axes[N - d + 1] \in SweepAxis
    BY <2>1
  <2>3. axes[N - d + 1].values \in Seq(Figure)
    BY <2>2 DEF SweepAxis
  <2> QED BY <2>3
<1>3. Stride(axes) = course
  BY DEF Stride
<1>4. Strides(course, axes) <=> /\ course \in [0 .. N -> Nat] /\ course[0] = 1
                             /\ \A d \in 1 .. N : course[d] = L(d) * course[d - 1]
  BY DEF Strides
<1> HIDE DEF N, L
<1>5. Machine(N, Nat, 1, F)
  <2>1. ASSUME NEW d \in 1 .. N PROVE F[d] \in [Nat -> Nat]
    BY <1>2
  <2> QED BY <1>1, <2>1 DEF Machine
<1>6. PICK g : RunOf(g, N, Nat, 1, F)
  <2> HIDE DEF F
  <2> QED BY <1>5, Recursion
<1>7. g \in [0 .. N -> Nat] /\ g[0] = 1 /\ \A d \in 1 .. N : g[d] = L(d) * g[d - 1]
  <2>1. g \in [0 .. N -> Nat] /\ g[0] = 1 /\ \A d \in 1 .. N : g[d] = F[d][g[d - 1]]
    BY <1>6 DEF RunOf
  <2>2. ASSUME NEW d \in 1 .. N PROVE g[d] = L(d) * g[d - 1]
    <3>1. g[d - 1] \in Nat
      BY <1>1, <2>1
    <3> QED BY <2>1, <3>1
  <2> QED BY <2>1, <2>2
<1>8. Is(g)
  BY <1>1, <1>7
<1>9. Is(course)
  <2> HIDE DEF Is
  <2> QED BY <1>8, Zenon
<1> HIDE DEF course
<1>10. course[0] = 1 /\ \A d \in 1 .. N : course[d] = L(d) * course[d - 1]
  BY <1>1, <1>9
<1> DEFINE T == {n \in Nat : n <= N => course[n] \in Nat}
<1>11. 0 \in T
  BY <1>10
<1>12. ASSUME NEW n \in Nat, n \in T PROVE n + 1 \in T
  <2>1. (n + 1) - 1 = n
    OBVIOUS
  <2>2. ASSUME n + 1 <= N PROVE course[n + 1] \in Nat
    <3>1. n + 1 \in 1 .. N /\ course[n] \in Nat
      BY <1>1, <1>12, <2>2
    <3>2. course[n + 1] = L(n + 1) * course[n] /\ L(n + 1) \in Nat
      BY <1>2, <1>10, <2>1, <3>1
    <3> QED BY <3>1, <3>2
  <2> QED BY <2>2
<1>13. \A n \in 0 .. N : course[n] \in Nat
  <2> HIDE DEF T
  <2>1. Nat \subseteq T
    BY <1>11, <1>12, Induct
  <2> QED BY <1>1, <2>1 DEF T
<1>14. course \in [0 .. N -> Nat]
  BY <1>9, <1>13
<1> QED BY <1>3, <1>4, <1>10, <1>14

(* A row of values for the axes so far. *)
Setting == [key : Seq(STRING), value : Figure]
Rows    == Seq(Seq(Setting))

LEMMA QuotientBelow ==
  ASSUME NEW x \in Nat, NEW a \in Nat, NEW b \in Nat, x < b * a
  PROVE  a # 0 /\ x \div a \in 0 .. b - 1
<1>1. a # 0
  OBVIOUS
<1>2. Rest(x, a, x \div a, x % a)
  BY <1>1, Divides
<1>3. PICK q, r : q = x \div a /\ Rest(x, a, q, r)
  BY <1>2
<1>4. q \in Nat /\ r \in Nat /\ r < a /\ x = a * q + r
  BY <1>3 DEF Rest
<1>5. ASSUME b <= q PROVE FALSE
  <2>1. a * b <= a * q
    BY <1>4, <1>5, Scales
  <2>2. PICK u \in Int, v \in Int : u = a * q /\ v = a * b
    BY <1>4
  <2>3. x = u + r /\ v <= u /\ x < v
    BY <1>4, <2>1, <2>2
  <2> QED BY <1>4, <2>3
<1> QED BY <1>1, <1>3, <1>4, <1>5

LEMMA ExtendIs ==
  ASSUME NEW table \in Rows, NEW axis \in SweepAxis
  PROVE  /\ Extend(table, axis) \in Rows
         /\ Len(Extend(table, axis)) = Len(table) * Len(axis.values)
         /\ \A k \in 1 .. Len(table) * Len(axis.values) :
              Extend(table, axis)[k] = Append(table[((k - 1) \div Len(axis.values)) + 1],
                [key |-> axis.key, value |-> axis.values[((k - 1) % Len(axis.values)) + 1]])
<1>1. axis.key \in Seq(STRING) /\ axis.values \in Seq(Figure)
  BY DEF SweepAxis
<1>7. Len(table) \in Nat /\ Len(axis.values) \in Nat
  BY <1>1 DEF Rows
<1>2. PICK M \in Nat, N \in Nat : M = Len(table) /\ N = Len(axis.values)
  BY <1>7, Zenon
<1> DEFINE Row(k) == Append(table[((k - 1) \div N) + 1], [key |-> axis.key, value |-> axis.values[((k - 1) % N) + 1]])
<1>3. Extend(table, axis) = [k \in 1 .. M * N |-> Row(k)]
  BY <1>2 DEF Extend
<1>4. ASSUME NEW k \in 1 .. M * N PROVE Row(k) \in Seq(Setting)
  <2>1. k - 1 \in Nat /\ k - 1 < M * N
    OBVIOUS
  <2>2. N # 0 /\ (k - 1) \div N \in 0 .. M - 1
    BY <2>1, QuotientBelow
  <2>3. Rest(k - 1, N, (k - 1) \div N, (k - 1) % N)
    BY <2>1, <2>2, Divides
  <2>4. PICK q, t : q = (k - 1) \div N /\ t = (k - 1) % N /\ q \in 0 .. M - 1 /\ t \in Nat /\ t < N
    BY <2>2, <2>3, Zenon DEF Rest
  <2>11. t + 1 \in 1 .. N /\ q + 1 \in 1 .. M
    BY <2>4
  <2>5. ((k - 1) % N) + 1 \in 1 .. Len(axis.values)
    BY <1>2, <2>4, <2>11, Zenon
  <2>6. ((k - 1) \div N) + 1 \in 1 .. Len(table)
    BY <1>2, <2>4, <2>11, Zenon
  <2>7. table[((k - 1) \div N) + 1] \in Seq(Setting)
    BY <2>6 DEF Rows
  <2>8. axis.values[((k - 1) % N) + 1] \in Figure
    BY <1>1, <2>5
  <2>9. PICK x : x = [key |-> axis.key, value |-> axis.values[((k - 1) % N) + 1]]
    OBVIOUS
  <2>10. x \in Setting
    BY <1>1, <2>8, <2>9 DEF Setting
  <2> QED BY <2>7, <2>9, <2>10
<1> HIDE DEF Row
<1>5. M * N \in Nat
  OBVIOUS
<1>6. Extend(table, axis) \in Rows /\ Len(Extend(table, axis)) = M * N
  BY <1>3, <1>4, <1>5 DEF Rows
<1> QED BY <1>2, <1>3, <1>6 DEF Row

(* The product of the axes, one after another. *)
Products(f, axes) ==
  /\ f \in [0 .. Len(axes) -> Rows] /\ f[0] = << <<>> >>
  /\ \A n \in 1 .. Len(axes) : f[n] = Extend(f[n - 1], axes[n])
LEMMA GridRun ==
  ASSUME NEW axes \in Seq(SweepAxis)
  PROVE  \E f : Products(f, axes) /\ Grid(axes) = f[Len(axes)]
<1> DEFINE N == Len(axes)
           F == [n \in 1 .. N |-> [x \in Rows |-> Extend(x, axes[n])]]
           Is(f) == f = [n \in 0 .. N |-> IF n = 0 THEN << <<>> >> ELSE Extend(f[n - 1], axes[n])]
           course == CHOOSE f : Is(f)
<1>1. N \in Nat /\ \A n \in 1 .. N : axes[n] \in SweepAxis
  OBVIOUS
<1>2. Grid(axes) = course[N]
  BY DEF Grid
<1>3. \A f : Products(f, axes) <=> /\ f \in [0 .. N -> Rows] /\ f[0] = << <<>> >>
                                   /\ \A n \in 1 .. N : f[n] = Extend(f[n - 1], axes[n])
  BY DEF Products
<1> HIDE DEF N
<1>4. << <<>> >> \in Rows
  BY DEF Rows
<1>5. Machine(N, Rows, << <<>> >>, F)
  <2>1. ASSUME NEW n \in 1 .. N PROVE F[n] \in [Rows -> Rows]
    BY <1>1, ExtendIs
  <2> QED BY <1>1, <1>4, <2>1 DEF Machine
<1>6. PICK g : RunOf(g, N, Rows, << <<>> >>, F)
  <2> HIDE DEF F
  <2> QED BY <1>5, Recursion
<1>7. g \in [0 .. N -> Rows] /\ g[0] = << <<>> >> /\ \A n \in 1 .. N : g[n] = Extend(g[n - 1], axes[n])
  <2>1. g \in [0 .. N -> Rows] /\ g[0] = << <<>> >> /\ \A n \in 1 .. N : g[n] = F[n][g[n - 1]]
    BY <1>6 DEF RunOf
  <2>2. ASSUME NEW n \in 1 .. N PROVE g[n] = Extend(g[n - 1], axes[n])
    <3>1. g[n - 1] \in Rows
      BY <1>1, <2>1
    <3> QED BY <2>1, <3>1
  <2> QED BY <2>1, <2>2
<1>8. Is(g)
  <2>1. PICK start : start = << <<>> >>
    OBVIOUS
  <2>4. g[0] = start
    BY <1>7, <2>1, Zenon
  <2>2. ASSUME NEW n \in 0 .. N PROVE g[n] = IF n = 0 THEN start ELSE Extend(g[n - 1], axes[n])
    <3>1. n = 0 \/ n \in 1 .. N
      BY <1>1
    <3>2. \A m \in 1 .. N : g[m] = Extend(g[m - 1], axes[m])
      BY <1>7, Zenon
    <3>3. n \in 1 .. N => n # 0
      OBVIOUS
    <3> QED BY <2>4, <3>1, <3>2, <3>3, Zenon
  <2>3. g = [n \in 0 .. N |-> IF n = 0 THEN start ELSE Extend(g[n - 1], axes[n])]
    BY <1>7, <2>2
  <2> QED BY <2>1, <2>3
<1>9. Is(course)
  <2> HIDE DEF Is
  <2> QED BY <1>8, Zenon
<1> HIDE DEF course
<1>10. course[0] = << <<>> >> /\ \A n \in 1 .. N : course[n] = Extend(course[n - 1], axes[n])
  <2>1. PICK start : start = << <<>> >>
    OBVIOUS
  <2>2. course = [n \in 0 .. N |-> IF n = 0 THEN start ELSE Extend(course[n - 1], axes[n])]
    BY <1>9, <2>1, Zenon
  <2>3. course[0] = start
    BY <1>1, <2>2
  <2>4. ASSUME NEW n \in 1 .. N PROVE course[n] = Extend(course[n - 1], axes[n])
    BY <1>1, <2>2
  <2> QED BY <2>1, <2>3, <2>4
<1> DEFINE T == {n \in Nat : n <= N => course[n] = g[n]}
<1>11. 0 \in T
  BY <1>7, <1>10
<1>12. ASSUME NEW n \in Nat, n \in T PROVE n + 1 \in T
  <2>1. (n + 1) - 1 = n
    OBVIOUS
  <2>2. ASSUME n + 1 <= N PROVE course[n + 1] = g[n + 1]
    <3>1. n + 1 \in 1 .. N /\ course[n] = g[n]
      BY <1>1, <1>12, <2>2
    <3> QED BY <1>7, <1>10, <2>1, <3>1
  <2> QED BY <2>2
<1>13. course[N] = g[N]
  <2>1. N \in T
    <3> HIDE DEF T
    <3> QED BY <1>1, <1>11, <1>12, Induct
  <2> QED BY <1>1, <2>1
<1>14. Products(g, axes)
  BY <1>3, <1>7
<1> QED BY <1>2, <1>13, <1>14 DEF N

(* Every row counts, for its last axis, the ones below it. *)
LEMMA RowsCount ==
  ASSUME NEW axes \in Seq(SweepAxis), NEW f, Products(f, axes), NEW n \in 0 .. Len(axes)
  PROVE  Len(f[n]) * Stride(axes)[Len(axes) - n] = Size(axes)
<1>1. PICK N \in Nat : N = Len(axes)
  OBVIOUS
<1>2. PICK S : S = Stride(axes)
  OBVIOUS
<1>3. /\ S \in [0 .. N -> Nat]
      /\ \A d \in 1 .. N : S[d] = Len(axes[N - d + 1].values) * S[d - 1]
  BY <1>1, <1>2, StrideRun DEF Strides
<1>4. f \in [0 .. N -> Rows] /\ f[0] = << <<>> >> /\ \A k \in 1 .. N : f[k] = Extend(f[k - 1], axes[k])
  BY <1>1 DEF Products
<1> DEFINE T == {k \in Nat : k <= N => Len(f[k]) * S[N - k] = S[N]}
<1>5. 0 \in T
  <2>1. Len(f[0]) = 1
    BY <1>4
  <2>2. S[N] \in Nat /\ N - 0 = N
    BY <1>3
  <2>3. Len(f[0]) * S[N - 0] = S[N]
    BY <2>1, <2>2
  <2> QED BY <2>3
<1>6. ASSUME NEW k \in Nat, k \in T PROVE k + 1 \in T
  <2>1. (k + 1) - 1 = k
    OBVIOUS
  <2>2. ASSUME k + 1 <= N PROVE Len(f[k + 1]) * S[N - (k + 1)] = S[N]
    <3>1. k + 1 \in 1 .. N /\ k \in 0 .. N /\ N - k \in 1 .. N /\ (N - k) - 1 = N - (k + 1) /\ N - (N - k) + 1 = k + 1
      BY <2>2
    <3>2. Len(f[k]) * S[N - k] = S[N]
      BY <1>6, <2>2
    <3>3. axes[k + 1] \in SweepAxis /\ f[k] \in Rows
      <4>1. axes[k + 1] \in SweepAxis
        BY <1>1, <3>1
      <4>2. f[k] \in Rows
        BY <1>4, <3>1
      <4> QED BY <4>1, <4>2
    <3>4. Len(f[k]) \in Nat
      BY <3>3 DEF Rows
    <3>5. Len(axes[k + 1].values) \in Nat
      BY <3>3 DEF SweepAxis
    <3>6. Len(f[k + 1]) = Len(f[k]) * Len(axes[k + 1].values)
      <4>1. f[k + 1] = Extend(f[k], axes[k + 1])
        BY <1>4, <2>1, <3>1
      <4> QED BY <3>3, <4>1, ExtendIs
    <3>7. S[N - k] = Len(axes[k + 1].values) * S[N - (k + 1)]
      BY <1>3, <3>1
    <3>8. S[N - (k + 1)] \in Nat
      <4>1. N - (k + 1) \in 0 .. N
        BY <3>1
      <4> QED BY <1>3, <4>1
    <3>9. PICK a \in Nat, b \in Nat, c \in Nat : a = Len(f[k]) /\ b = Len(axes[k + 1].values) /\ c = S[N - (k + 1)]
      BY <3>4, <3>5, <3>8
    <3>10. (a * b) * c = a * (b * c)
      OBVIOUS
    <3> QED BY <3>2, <3>6, <3>7, <3>9, <3>10, Zenon
  <2> QED BY <2>2
<1>7. n \in T
  <2>1. Nat \subseteq T
    <3> HIDE DEF T
    <3> QED BY <1>5, <1>6, Induct
  <2>2. n \in Nat
    OBVIOUS
  <2> HIDE DEF T
  <2> QED BY <2>1, <2>2
<1>8. n <= N
  BY <1>1
<1> QED BY <1>1, <1>2, <1>7, <1>8 DEF Size

(* The row of place g among the products of the first axes, from 0. *)
RowOf(axes, n, g) == (g - 1) \div Stride(axes)[Len(axes) - n]

LEMMA RowIn ==
  ASSUME NEW axes \in Seq(SweepAxis), NEW f, Products(f, axes), NEW n \in 0 .. Len(axes), NEW g \in 1 .. Size(axes)
  PROVE  /\ Stride(axes)[Len(axes) - n] \in Nat /\ Stride(axes)[Len(axes) - n] # 0
         /\ RowOf(axes, n, g) \in 0 .. Len(f[n]) - 1
<1>1. PICK s : s = Stride(axes)[Len(axes) - n]
  OBVIOUS
<1>2. s \in Nat
  <2>1. Len(axes) - n \in 0 .. Len(axes)
    OBVIOUS
  <2> QED BY <1>1, <2>1, StrideRun DEF Strides
<1>3. PICK m : m = Len(f[n])
  OBVIOUS
<1>4. m \in Nat
  <2>1. f[n] \in Rows
    BY DEF Products
  <2> QED BY <1>3, <2>1 DEF Rows
<1>5. m * s = Size(axes)
  BY <1>1, <1>3, RowsCount
<1>6. g - 1 \in Nat /\ g - 1 < m * s
  <2>1. m * s \in Nat
    BY <1>2, <1>4
  <2> QED BY <1>5, <2>1
<1>7. s # 0 /\ (g - 1) \div s \in 0 .. m - 1
  BY <1>2, <1>4, <1>6, QuotientBelow
<1> QED BY <1>1, <1>2, <1>3, <1>7 DEF RowOf

(* Rows of the next product extend rows of this one by a value each. *)
LEMMA RowNext ==
  ASSUME NEW axes \in Seq(SweepAxis), NEW f, Products(f, axes), NEW n \in 1 .. Len(axes), NEW g \in 1 .. Size(axes)
  PROVE  f[n][RowOf(axes, n, g) + 1] = Append(f[n - 1][RowOf(axes, n - 1, g) + 1], Place(axes, g)[n])
<1>1. PICK N \in Nat : N = Len(axes)
  OBVIOUS
<1>2. /\ n \in 1 .. N /\ n \in 0 .. N /\ n - 1 \in 0 .. N /\ N - n \in 0 .. N /\ N - (n - 1) \in 1 .. N
      /\ (N - (n - 1)) - 1 = N - n /\ N - (N - (n - 1)) + 1 = n
  BY <1>1
<1>3. PICK s : s = Stride(axes)[N - n]
  OBVIOUS
<1>4. PICK b : b = Len(axes[n].values)
  OBVIOUS
<1>5. axes[n] \in SweepAxis /\ f[n - 1] \in Rows
  BY <1>1, <1>2 DEF Products
<1>6. b \in Nat
  <2>1. axes[n].values \in Seq(Figure)
    BY <1>5 DEF SweepAxis
  <2> QED BY <1>4, <2>1
<1>7. s \in Nat /\ s # 0 /\ RowOf(axes, n, g) \in 0 .. Len(f[n]) - 1
  BY <1>1, <1>2, <1>3, RowIn
<1>8. Stride(axes)[N - (n - 1)] = b * s
  BY <1>1, <1>2, <1>3, <1>4, StrideRun DEF Strides
<1>9. b * s # 0
  BY <1>1, <1>2, <1>8, RowIn
<1>10. b # 0
  BY <1>6, <1>7, <1>9
<1>11. Extend(f[n - 1], axes[n]) = f[n]
  BY <1>1, <1>2 DEF Products
<1>12. PICK x \in Nat : x = RowOf(axes, n, g)
  BY <1>7
<1>13. x = (g - 1) \div s
  BY <1>1, <1>3, <1>12 DEF RowOf
<1>14. x \div b = RowOf(axes, n - 1, g)
  <2>1. g - 1 \in Nat
    OBVIOUS
  <2>2. x \div b = (g - 1) \div (b * s)
    BY <1>6, <1>7, <1>10, <1>13, <2>1, DividesTwice
  <2> QED BY <1>1, <1>8, <2>2 DEF RowOf
<1>15. f[n][x + 1] = Append(f[n - 1][(x \div b) + 1],
                            [key |-> axes[n].key, value |-> axes[n].values[(x % b) + 1]])
  <2>1. Len(f[n]) = Len(f[n - 1]) * b
    BY <1>4, <1>5, <1>11, ExtendIs
  <2>2. x + 1 \in 1 .. Len(f[n - 1]) * b
    <3>1. Len(f[n - 1]) \in Nat
      BY <1>5 DEF Rows
    <3>2. PICK m \in Nat : m = Len(f[n - 1]) * b
      BY <1>6, <3>1
    <3>3. x \in 0 .. m - 1
      BY <1>7, <1>12, <2>1, <3>2, Zenon
    <3>4. x + 1 \in 1 .. m
      BY <3>3
    <3> QED BY <3>2, <3>4, Zenon
  <2>3. (x + 1) - 1 = x
    OBVIOUS
  <2>4. f[n][x + 1] = Append(f[n - 1][(((x + 1) - 1) \div b) + 1],
                             [key |-> axes[n].key, value |-> axes[n].values[(((x + 1) - 1) % b) + 1]])
    <3>1. \A k \in 1 .. Len(f[n - 1]) * Len(axes[n].values) :
            Extend(f[n - 1], axes[n])[k] = Append(f[n - 1][((k - 1) \div Len(axes[n].values)) + 1],
              [key |-> axes[n].key, value |-> axes[n].values[((k - 1) % Len(axes[n].values)) + 1]])
      BY <1>5, ExtendIs
    <3> QED BY <1>4, <1>11, <2>2, <3>1, Zenon
  <2> QED BY <2>3, <2>4
<1>16. Place(axes, g)[n] = [key |-> axes[n].key, value |-> axes[n].values[(x % b) + 1]]
  <2>1. n \in DOMAIN axes
    BY <1>1, <1>2
  <2>2. Place(axes, g)[n] = [key   |-> axes[n].key,
          value |-> axes[n].values[(((g - 1) \div Stride(axes)[Len(axes) - n]) % Len(axes[n].values)) + 1]]
    BY <2>1, Zenon DEF Place
  <2> QED BY <1>1, <1>3, <1>4, <1>13, <2>2, Zenon
<1> QED BY <1>12, <1>14, <1>15, <1>16

(* The grid lists the combinations by their places. *)
LEMMA GridPlaces ==
  ASSUME NEW axes \in Seq(SweepAxis)
  PROVE  Grid(axes) = [g \in 1 .. Size(axes) |-> Place(axes, g)]
<1>1. PICK N \in Nat : N = Len(axes)
  OBVIOUS
<1>2. PICK f : Products(f, axes) /\ Grid(axes) = f[N]
  BY <1>1, GridRun
<1>3. f \in [0 .. N -> Rows] /\ f[0] = << <<>> >>
  BY <1>1, <1>2 DEF Products
<1>4. ASSUME NEW g \in 1 .. Size(axes) PROVE f[N][g] = Place(axes, g)
  <2> DEFINE Row(n) == f[n][RowOf(axes, n, g) + 1]
             T == {n \in Nat : n <= N => /\ Len(Row(n)) = n /\ Row(n) \in Seq(Setting)
                                         /\ \A a \in 1 .. n : Row(n)[a] = Place(axes, g)[a]}
  <2>1. ASSUME NEW n \in 0 .. N PROVE Row(n) \in Seq(Setting)
    <3>1. RowOf(axes, n, g) \in 0 .. Len(f[n]) - 1
      BY <1>1, <1>2, RowIn
    <3>2. f[n] \in Rows
      BY <1>3
    <3>3. PICK k : k = RowOf(axes, n, g)
      OBVIOUS
    <3>4. k + 1 \in 1 .. Len(f[n])
      <4>1. Len(f[n]) \in Nat
        BY <3>2 DEF Rows
      <4> QED BY <3>1, <3>3, <4>1
    <3>5. f[n][k + 1] \in Seq(Setting)
      BY <3>2, <3>4 DEF Rows
    <3> QED BY <3>3, <3>5
  <2>2. ASSUME NEW n \in 1 .. N PROVE Row(n) = Append(Row(n - 1), Place(axes, g)[n])
    BY <1>1, <1>2, RowNext
  <2>3. Row(0) = <<>>
    <3>1. RowOf(axes, 0, g) \in 0 .. Len(f[0]) - 1
      <4>1. 0 \in 0 .. Len(axes)
        BY <1>1
      <4> QED BY <1>2, <4>1, RowIn
    <3>2. Len(f[0]) = 1 /\ f[0][1] = <<>>
      BY <1>3
    <3>3. RowOf(axes, 0, g) = 0
      BY <3>1, <3>2
    <3> QED BY <3>2, <3>3
  <2> HIDE DEF Row
  <2>4. 0 \in T
    <3>1. Len(<<>>) = 0 /\ <<>> \in Seq(Setting)
      OBVIOUS
    <3>2. Len(Row(0)) = 0 /\ Row(0) \in Seq(Setting)
      BY <2>3, <3>1, Zenon
    <3> QED BY <3>2
  <2>5. ASSUME NEW n \in Nat, n \in T PROVE n + 1 \in T
    <3>1. (n + 1) - 1 = n
      OBVIOUS
    <3>2. ASSUME n + 1 <= N
          PROVE  /\ Len(Row(n + 1)) = n + 1 /\ Row(n + 1) \in Seq(Setting)
                 /\ \A a \in 1 .. n + 1 : Row(n + 1)[a] = Place(axes, g)[a]
      <4>1. n + 1 \in 1 .. N /\ n + 1 \in 0 .. N /\ n <= N
        BY <3>2
      <4>2. Row(n + 1) = Append(Row(n), Place(axes, g)[n + 1]) /\ Row(n + 1) \in Seq(Setting)
        BY <2>1, <2>2, <3>1, <4>1
      <4>3. Len(Row(n)) = n /\ Row(n) \in Seq(Setting) /\ \A a \in 1 .. n : Row(n)[a] = Place(axes, g)[a]
        BY <2>5, <4>1
      <4>4. Len(Row(n + 1)) = n + 1
        BY <4>2, <4>3
      <4>5. ASSUME NEW a \in 1 .. n + 1 PROVE Row(n + 1)[a] = Place(axes, g)[a]
        <5>1. CASE a = n + 1
          BY <4>2, <4>3, <5>1
        <5>2. CASE a # n + 1
          <6>1. a \in 1 .. n
            BY <5>2
          <6>2. Row(n + 1)[a] = Row(n)[a]
            BY <4>2, <4>3, <6>1
          <6> QED BY <4>3, <6>1, <6>2
        <5> QED BY <5>1, <5>2
      <4> QED BY <4>2, <4>4, <4>5
    <3> QED BY <3>2
  <2>6. N \in T
    <3> HIDE DEF T
    <3> QED BY <1>1, <2>4, <2>5, Induct
  <2>7. Row(N) = f[N][g]
    <3>1. Stride(axes)[0] = 1 /\ N - N = 0
      BY <1>1, StrideRun DEF Strides
    <3>2. g \in Int /\ (g - 1) \div 1 = g - 1 /\ (g - 1) + 1 = g
      <4>1. Rest(g - 1, 1, g - 1, 0)
        BY DEF Rest
      <4>2. g - 1 \in Nat /\ 1 \in Nat
        OBVIOUS
      <4> QED BY <4>1, <4>2, QuotientIs
    <3>3. RowOf(axes, N, g) = g - 1
      BY <1>1, <3>1, <3>2 DEF RowOf
    <3> QED BY <3>2, <3>3 DEF Row
  <2>8. f[N][g] \in Seq(Setting) /\ Len(f[N][g]) = N /\ \A a \in 1 .. N : f[N][g][a] = Place(axes, g)[a]
    BY <2>6, <2>7
  <2>9. f[N][g] = [a \in 1 .. N |-> Place(axes, g)[a]]
    <3>1. PICK row, place : row = f[N][g] /\ place = Place(axes, g)
      OBVIOUS
    <3>2. row \in Seq(Setting) /\ Len(row) = N /\ \A a \in 1 .. N : row[a] = place[a]
      BY <2>8, <3>1
    <3>3. row = [a \in 1 .. N |-> place[a]]
      BY <3>2
    <3> QED BY <3>1, <3>3
  <2>10. Place(axes, g) = [a \in 1 .. N |-> Place(axes, g)[a]]
    BY <1>1 DEF Place
  <2> QED BY <2>9, <2>10
<1>5. f[N] \in Rows /\ Len(f[N]) = Size(axes)
  <2>1. Stride(axes)[0] = 1 /\ N - N = 0 /\ N \in 0 .. N
    BY <1>1, StrideRun DEF Strides
  <2>2. f[N] \in Rows
    BY <1>3, <2>1
  <2>3. Len(f[N]) \in Nat
    BY <2>2 DEF Rows
  <2>4. Len(f[N]) * 1 = Size(axes)
    BY <1>1, <1>2, <2>1, RowsCount
  <2> QED BY <2>2, <2>3, <2>4
<1>6. f[N] = [g \in 1 .. Size(axes) |-> f[N][g]]
  BY <1>5 DEF Rows
<1> QED BY <1>2, <1>4, <1>6

-----------------------------------------------------------------------------
(***************************************************************************)
(* The runner: the calls go point by point, and what a point leaves behind *)
(* is what a loop over its seeds would.                                    *)
(***************************************************************************)
Idle == running = {} /\ outcomes = << >> /\ points = <<>> /\ first = 0

(* Every combination has its scenario; the checked drivers found all of them good. *)
Planned == plan = [g \in DOMAIN Combos |-> [params |-> Combos[g], scn |-> Scn(g)]]
Sound ==
  Checked => /\ call.driver \in Sweeps => BadAxes(call.axes) = {}
             /\ \A g \in DOMAIN Combos : Effective(Combos[g], FALSE).bad = 0 /\ Valid(Scn(g))

(* The points before this one are through, without a failed trial. *)
Gathered ==
  /\ point \in DOMAIN Combos
  /\ points = [g \in 1 .. point - 1 |-> Result(g)]
  /\ \A g \in 1 .. point - 1 : FailedAt(g) = {}

(* What the threads have for this point; `first` is a failed trial if there is one,
   and in input order all before it succeeded. *)
Tallied ==
  /\ running \subseteq DOMAIN call.seeds /\ DOMAIN outcomes \subseteq DOMAIN call.seeds
  /\ outcomes = [i \in DOMAIN outcomes |-> Outcome(Scn(point), call.seeds[i])]
  /\ first = 0 => \A i \in DOMAIN outcomes : outcomes[i].ok
  /\ first # 0 => first \in DOMAIN outcomes /\ ~outcomes[first].ok
  /\ ~call.parallel => /\ \A i \in running \cup DOMAIN outcomes : 1 .. i - 1 \subseteq DOMAIN outcomes
                       /\ first # 0 => \A j \in 1 .. first - 1 : outcomes[j].ok

(* The answer is that of the loop. *)
Settled ==
  LET bad == {g \in DOMAIN Combos : FailedAt(g) # {}}
  IN  /\ answer.tag = "ok" => bad = {} /\ answer.results = [g \in DOMAIN Combos |-> Result(g)]
      /\ answer.tag = "error" /\ answer.what = "trial" =>
           /\ bad # {} /\ answer.at \in FailedAt(Min(bad))
           /\ Checked \/ ~call.parallel => answer.at = Min(FailedAt(Min(bad)))

SweepInv ==
  /\ call \in Calls
  /\ \/ point = 0 /\ answer = None /\ Idle /\ plan = <<>>
     \/ point # 0 /\ answer.tag = "error" /\ answer.what # "trial" /\ Idle
     \/ point # 0 /\ answer = None /\ Planned /\ Sound /\ Gathered /\ Tallied
     \/ point # 0 /\ answer # None /\ Planned /\ Sound /\ Settled

LEMMA Callers ==
  ASSUME call \in Calls
  PROVE  /\ call.axes \in Seq(SweepAxis) /\ call.seeds \in Seq(Nat) /\ call.parallel \in BOOLEAN
         /\ call.driver \in {"run_seeds", "run_trials", "run_sweep", "run_trial_sweep"}
BY CallsAssumption DEF SweepCall

(* What a call asks for does not change while it runs. *)
LEMMA Asked ==
  call' = call => /\ Combos' = Combos /\ (Checked' <=> Checked)
                  /\ \A g : Scn(g)' = Scn(g) /\ FailedAt(g)' = FailedAt(g) /\ Result(g)' = Result(g)
<1> SUFFICES ASSUME call' = call
             PROVE  /\ Combos' = Combos /\ (Checked' <=> Checked)
                    /\ \A g : Scn(g)' = Scn(g) /\ FailedAt(g)' = FailedAt(g) /\ Result(g)' = Result(g)
  OBVIOUS
<1>1. Combos' = Combos /\ (Checked' <=> Checked)
  BY DEF Combos, Checked
<1>2. ASSUME NEW g PROVE Scn(g)' = Scn(g)
  BY <1>1, Zenon DEF Scn, Checked
<1>3. ASSUME NEW g PROVE FailedAt(g)' = FailedAt(g)
  BY <1>2 DEF FailedAt
<1>4. ASSUME NEW g PROVE Result(g)' = Result(g)
  BY <1>1, <1>2 DEF Result, Gives, Sorted
<1> QED BY <1>1, <1>2, <1>3, <1>4

LEMMA Framed ==
  call' = call =>
    /\ plan' = plan /\ Planned => Planned'
    /\ Sound => Sound'
    /\ point' = point /\ points' = points /\ Gathered => Gathered'
    /\ answer' = answer /\ Settled => Settled'
<1> SUFFICES ASSUME call' = call
             PROVE  /\ plan' = plan /\ Planned => Planned'
                    /\ Sound => Sound'
                    /\ point' = point /\ points' = points /\ Gathered => Gathered'
                    /\ answer' = answer /\ Settled => Settled'
  OBVIOUS
<1>1. Combos' = Combos /\ (Checked' <=> Checked)
  BY Asked
<1>2. \A g : Scn(g)' = Scn(g) /\ FailedAt(g)' = FailedAt(g) /\ Result(g)' = Result(g)
  BY Asked
<1>3. plan' = plan /\ Planned => Planned'
  BY <1>1, <1>2 DEF Planned
<1>4. Sound => Sound'
  BY <1>1, <1>2 DEF Sound
<1>5. point' = point /\ points' = points /\ Gathered => Gathered'
  BY <1>1, <1>2 DEF Gathered
<1>6. answer' = answer /\ Settled => Settled'
  BY <1>1, <1>2 DEF Settled
<1> QED BY <1>3, <1>4, <1>5, <1>6

(* At a point the invariant is in its third case. *)
LEMMA Under ==
  ASSUME SweepInv, AtPoint
  PROVE  call \in Calls /\ point # 0 /\ answer = None /\ Planned /\ Sound /\ Gathered /\ Tallied
<1>1. None.tag # "error"
  BY DEF None
<1> QED BY <1>1 DEF SweepInv, AtPoint

LEMMA StartKeeps ==
  ASSUME SweepInv, NEW i \in DOMAIN call.seeds, Start(i)
  PROVE  SweepInv'
<1>1. /\ call \in Calls /\ point # 0 /\ answer = None /\ Planned /\ Sound /\ Gathered /\ Tallied
  BY Under DEF Start
<1>2. /\ i \in Waiting /\ running' = running \cup {i}
      /\ ~call.parallel => running = {} /\ i = Min(Waiting)
      /\ UNCHANGED <<call, plan, point, outcomes, first, points, answer>>
  BY DEF Start
<1>3. Planned' /\ Sound' /\ Gathered'
  BY <1>1, <1>2, Framed
<1>4. ASSUME ~call.parallel, NEW j \in running' \cup DOMAIN outcomes PROVE 1 .. j - 1 \subseteq DOMAIN outcomes
  <2>1. CASE j \in DOMAIN outcomes
    BY <1>1, <1>4, <2>1 DEF Tallied
  <2>2. CASE j = i
    <3>6. call.seeds \in Seq(Nat)
      BY <1>1, Callers
    <3>7. DOMAIN call.seeds \subseteq Nat
      BY <3>6
    <3>1. Waiting \subseteq Nat /\ Waiting # {}
      BY <1>2, <3>7 DEF Waiting
    <3>2. PICK m \in Waiting : \A k \in Waiting : m <= k
      BY <3>1, Least
    <3>3. Min(Waiting) \in Waiting /\ \A k \in Waiting : Min(Waiting) <= k
      BY <3>2 DEF Min
    <3>4. \A k \in Waiting : i <= k
      BY <1>2, <1>4, <3>3
    <3>5. ASSUME NEW k \in 1 .. i - 1 PROVE k \in DOMAIN outcomes
      <4>1. k \in DOMAIN call.seeds
        BY <1>1, Callers
      <4>4. i \in Int /\ k \in Int /\ k < i
        BY <1>1, Callers
      <4>2. k \notin Waiting
        BY <3>4, <4>4
      <4>3. Waiting = DOMAIN call.seeds \ DOMAIN outcomes
        BY <1>2, <1>4 DEF Waiting
      <4> QED BY <4>1, <4>2, <4>3
    <3> QED BY <2>2, <3>5
  <2>3. j \in running => running # {}
    OBVIOUS
  <2> QED BY <1>2, <1>4, <2>1, <2>2, <2>3
<1>5. Tallied'
  <2>1. Scn(point)' = Scn(point)
    BY <1>2, Asked
  <2>2. running' \subseteq DOMAIN call.seeds /\ DOMAIN outcomes \subseteq DOMAIN call.seeds
    BY <1>1, <1>2 DEF Tallied
  <2>3. outcomes = [k \in DOMAIN outcomes |-> Outcome(Scn(point), call.seeds[k])]
    BY <1>1 DEF Tallied
  <2>4. outcomes' = [k \in DOMAIN outcomes' |-> Outcome(Scn(point)', call'.seeds[k])]
    BY <1>2, <2>1, <2>3
  <2>5. /\ first = 0 => \A k \in DOMAIN outcomes : outcomes[k].ok
        /\ first # 0 => first \in DOMAIN outcomes /\ ~outcomes[first].ok
        /\ ~call.parallel => (first # 0 => \A j \in 1 .. first - 1 : outcomes[j].ok)
    BY <1>1 DEF Tallied
  <2> QED BY <1>2, <1>4, <2>2, <2>4, <2>5 DEF Tallied
<1> QED BY <1>1, <1>2, <1>3, <1>5 DEF SweepInv, None

LEMMA FinishKeeps ==
  ASSUME SweepInv, NEW i \in DOMAIN call.seeds, Finish(i)
  PROVE  SweepInv'
<1>1. /\ call \in Calls /\ point # 0 /\ answer = None /\ Planned /\ Sound /\ Gathered /\ Tallied
  BY Under DEF Finish
<1> DEFINE o == Outcome(plan[point].scn, call.seeds[i])
<1>2. /\ i \in running /\ running' = running \ {i}
      /\ outcomes' = [j \in DOMAIN outcomes \cup {i} |-> IF j = i THEN o ELSE outcomes[j]]
      /\ first' = IF ~o.ok /\ first = 0 THEN i ELSE first
      /\ UNCHANGED <<call, plan, point, points, answer>>
  BY DEF Finish
<1>3. Planned' /\ Sound' /\ Gathered'
  BY <1>1, <1>2, Framed
<1>4. o = Outcome(Scn(point), call.seeds[i])
  <2>1. point \in DOMAIN Combos
    BY <1>1 DEF Gathered
  <2>2. plan[point].scn = Scn(point)
    BY <1>1, <2>1 DEF Planned
  <2> QED BY <2>2
<1> HIDE DEF o
<1>5. /\ running \subseteq DOMAIN call.seeds /\ DOMAIN outcomes \subseteq DOMAIN call.seeds
      /\ outcomes = [k \in DOMAIN outcomes |-> Outcome(Scn(point), call.seeds[k])]
      /\ first = 0 => \A k \in DOMAIN outcomes : outcomes[k].ok
      /\ first # 0 => first \in DOMAIN outcomes /\ ~outcomes[first].ok
      /\ ~call.parallel => \A k \in running \cup DOMAIN outcomes : 1 .. k - 1 \subseteq DOMAIN outcomes
      /\ ~call.parallel => (first # 0 => \A j \in 1 .. first - 1 : outcomes[j].ok)
  BY <1>1 DEF Tallied
<1>6. DOMAIN outcomes' = DOMAIN outcomes \cup {i} /\ outcomes'[i] = o
      /\ \A k \in DOMAIN outcomes : outcomes'[k] = outcomes[k]
  <2>1. \A k \in DOMAIN outcomes : outcomes[k] = Outcome(Scn(point), call.seeds[k])
    BY <1>5
  <2> QED BY <1>2, <1>4, <2>1
<1>7. i # 0 /\ \A k \in DOMAIN call.seeds : k \in Nat \ {0}
  <2>1. call.seeds \in Seq(Nat)
    <3>1. call \in Calls
      BY <1>1
    <3> QED BY <3>1, Callers
  <2>2. PICK seeds \in Seq(Nat) : seeds = call.seeds
    BY <2>1
  <2>3. \A k \in DOMAIN seeds : k \in Nat \ {0}
    OBVIOUS
  <2> QED BY <2>2, <2>3
<1>8. Tallied'
  <2>1. Scn(point)' = Scn(point)
    BY <1>2, Asked
  <2>2. running' \subseteq DOMAIN call'.seeds /\ DOMAIN outcomes' \subseteq DOMAIN call'.seeds
    BY <1>2, <1>5, <1>6
  <2>3. outcomes' = [k \in DOMAIN outcomes' |-> Outcome(Scn(point)', call'.seeds[k])]
    <3>1. ASSUME NEW k \in DOMAIN outcomes \cup {i}
          PROVE  (IF k = i THEN o ELSE outcomes[k]) = Outcome(Scn(point), call.seeds[k])
      BY <1>4, <1>5
    <3>2. outcomes' = [k \in DOMAIN outcomes \cup {i} |-> Outcome(Scn(point), call.seeds[k])]
      BY <1>2, <3>1
    <3> QED BY <1>2, <1>6, <2>1, <3>2
  <2>4. CASE ~o.ok /\ first = 0
    <3>1. first' = i
      BY <1>2, <2>4
    <3>2. ~call.parallel => \A j \in 1 .. i - 1 : outcomes'[j].ok
      BY <1>2, <1>5, <1>6, <2>4
    <3>3. ~call.parallel => \A k \in running' \cup DOMAIN outcomes' : 1 .. k - 1 \subseteq DOMAIN outcomes'
      BY <1>2, <1>5, <1>6
    <3> QED BY <1>2, <1>6, <1>7, <2>2, <2>3, <2>4, <3>1, <3>2, <3>3 DEF Tallied
  <2>5. CASE ~(~o.ok /\ first = 0)
    <3>1. first' = first
      BY <1>2, <2>5
    <3>2. ~call.parallel => \A k \in running' \cup DOMAIN outcomes' : 1 .. k - 1 \subseteq DOMAIN outcomes'
      BY <1>2, <1>5, <1>6
    <3>3. ~call.parallel => (first # 0 => \A j \in 1 .. first - 1 : outcomes'[j].ok)
      <4>1. ASSUME ~call.parallel, first # 0, NEW j \in 1 .. first - 1 PROVE outcomes'[j].ok
        <5>1. 1 .. first - 1 \subseteq DOMAIN outcomes
          BY <1>5, <4>1
        <5>2. outcomes[j].ok
          BY <1>5, <4>1
        <5> QED BY <1>6, <4>1, <5>1, <5>2
      <4> QED BY <4>1
    <3>4. first = 0 => \A k \in DOMAIN outcomes' : outcomes'[k].ok
      BY <1>5, <1>6, <2>5
    <3>5. first # 0 => first \in DOMAIN outcomes' /\ ~outcomes'[first].ok
      BY <1>5, <1>6
    <3> QED BY <1>2, <2>2, <2>3, <3>1, <3>2, <3>3, <3>4, <3>5 DEF Tallied
  <2> QED BY <2>4, <2>5
<1> QED BY <1>1, <1>2, <1>3, <1>8 DEF SweepInv, None

(* The grid of a call, and what is wrong with it before the first trial. *)
GridOf == IF call.driver \in Sweeps THEN Grid(call.axes) ELSE << <<>> >>
BadOf ==
  IF call.driver = "run_trial_sweep" /\ BadAxes(call.axes) # {}
  THEN Err("axis", Min(BadAxes(call.axes)))
  ELSE IF Checked /\ BadPoints(GridOf) # {} THEN Err("combination", Min(BadPoints(GridOf))) ELSE None

LEMMA PrepareKeeps ==
  ASSUME SweepInv, Prepare
  PROVE  SweepInv'
<1>1. call \in Calls /\ Idle
  <2>1. None.tag # "error" /\ point = 0 /\ answer = None
    BY DEF Prepare, None
  <2> QED BY <2>1 DEF SweepInv
<1>2. /\ answer' = IF BadOf = None /\ GridOf = <<>> THEN Ok(<<>>) ELSE BadOf
      /\ plan' = IF BadOf = None
                 THEN [i \in DOMAIN GridOf |-> [params |-> GridOf[i], scn |-> Effective(GridOf[i], ~Checked).scn]]
                 ELSE <<>>
      /\ point' = 1 /\ UNCHANGED <<call, running, outcomes, first, points>>
  BY Zenon DEF Prepare, BadOf, GridOf
<1>3. GridOf = Combos
  BY <1>1, Callers, GridPlaces DEF GridOf, Combos
<1>4. Idle' /\ point' # 0 /\ call' \in Calls
  BY <1>1, <1>2 DEF Idle
<1>5. CASE call.driver = "run_trial_sweep" /\ BadAxes(call.axes) # {}
  <2>1. PICK m : m = Min(BadAxes(call.axes))
    OBVIOUS
  <2>2. BadOf = Err("axis", m)
    BY <1>5, <2>1, Zenon DEF BadOf
  <2>3. BadOf # None /\ BadOf.tag = "error" /\ BadOf.what = "axis"
    BY <2>2 DEF Err, None
  <2>4. answer' = BadOf
    BY <1>2, <2>3
  <2> QED BY <1>4, <2>3, <2>4 DEF SweepInv
<1>6. CASE ~(call.driver = "run_trial_sweep" /\ BadAxes(call.axes) # {}) /\ Checked /\ BadPoints(GridOf) # {}
  <2>1. PICK m : m = Min(BadPoints(GridOf))
    OBVIOUS
  <2>2. BadOf = Err("combination", m)
    BY <1>6, <2>1, Zenon DEF BadOf
  <2>3. BadOf # None /\ BadOf.tag = "error" /\ BadOf.what = "combination"
    BY <2>2 DEF Err, None
  <2>4. answer' = BadOf
    BY <1>2, <2>3
  <2> QED BY <1>4, <2>3, <2>4 DEF SweepInv
<1>7. CASE ~(call.driver = "run_trial_sweep" /\ BadAxes(call.axes) # {}) /\ ~(Checked /\ BadPoints(GridOf) # {})
  <2>1. BadOf = None
    BY <1>7, Zenon DEF BadOf
  <2>2. Combos' = Combos /\ (Checked' <=> Checked) /\ \A g : Scn(g)' = Scn(g) /\ Result(g)' = Result(g)
    BY <1>2, Asked
  <2>3. Planned
          = (plan = [g \in DOMAIN Combos |-> [params |-> Combos[g], scn |-> Scn(g)]])
    BY DEF Planned
  <2>4. Planned'
    <3>1. plan' = [g \in DOMAIN Combos |-> [params |-> Combos[g], scn |-> Scn(g)]]
      BY <1>2, <1>3, <2>1 DEF Scn
    <3> QED BY <2>2, <3>1 DEF Planned
  <2>5. Sound
    <3>1. ASSUME Checked PROVE call.driver \in Sweeps => BadAxes(call.axes) = {}
      BY <1>7, <3>1 DEF Checked, Sweeps
    <3>2. ASSUME Checked, NEW g \in DOMAIN Combos PROVE Effective(Combos[g], FALSE).bad = 0 /\ Valid(Scn(g))
      <4>1. g \notin BadPoints(Combos)
        BY <1>3, <1>7, <3>2
      <4>2. Effective(Combos[g], FALSE).bad = 0 /\ Valid(Effective(Combos[g], FALSE).scn)
        BY <3>2, <4>1 DEF BadPoints
      <4>3. Scn(g) = Effective(Combos[g], FALSE).scn
        <5>1. (~Checked) = FALSE
          BY <3>2
        <5> QED BY <5>1, Zenon DEF Scn
      <4> QED BY <4>2, <4>3
    <3> QED BY <3>1, <3>2 DEF Sound
  <2>6. Sound'
    BY <1>2, <2>5, Framed
  <2>7. CASE GridOf = <<>>
    <3>1. answer' = Ok(<<>>)
      BY <1>2, <2>1, <2>7
    <3>2. DOMAIN Combos = {}
      BY <1>3, <2>7
    <3>3. [g \in DOMAIN Combos' |-> Result(g)'] = <<>>
      BY <2>2, <3>2
    <3>4. answer'.tag = "ok" /\ answer'.results = <<>> /\ answer' # None
      BY <3>1 DEF Ok, None
    <3>5. {g \in DOMAIN Combos' : FailedAt(g)' # {}} = {}
      BY <2>2, <3>2
    <3>6. Settled'
      BY <3>3, <3>4, <3>5 DEF Settled
    <3> QED BY <1>4, <2>4, <2>6, <3>4, <3>6 DEF SweepInv
  <2>8. CASE GridOf # <<>>
    <3>1. answer' = None
      BY <1>2, <2>1, <2>8
    <3>2. 1 \in DOMAIN Combos
      <4>1. CASE call.driver \in Sweeps
        <5>1. Size(call.axes) \in Nat
          <6>1. call.axes \in Seq(SweepAxis)
            BY <1>1, Callers
          <6>2. PICK N \in Nat : N = Len(call.axes)
            BY <6>1
          <6>3. Stride(call.axes) \in [0 .. N -> Nat]
            BY <6>1, <6>2, StrideRun DEF Strides
          <6> QED BY <6>2, <6>3 DEF Size
        <5>2. Combos = [g \in 1 .. Size(call.axes) |-> Place(call.axes, g)]
          BY <4>1 DEF Combos
        <5>3. Size(call.axes) = 0 => Combos = <<>>
          BY <5>2
        <5> QED BY <1>3, <2>8, <5>1, <5>2, <5>3
      <4>2. CASE call.driver \notin Sweeps
        BY <4>2 DEF Combos
      <4> QED BY <4>1, <4>2
    <3>3. Gathered'
      <4>1. points' = <<>> /\ point' - 1 = 0
        BY <1>1, <1>2 DEF Idle
      <4>2. 1 .. point' - 1 = {}
        BY <4>1
      <4>3. points' = [g \in 1 .. point' - 1 |-> Result(g)']
        BY <4>1, <4>2
      <4> QED BY <1>2, <2>2, <3>2, <4>2, <4>3 DEF Gathered
    <3>4. Tallied'
      <4>1. running' = {} /\ outcomes' = << >> /\ first' = 0 /\ DOMAIN outcomes' = {}
        BY <1>1, <1>2 DEF Idle
      <4>2. outcomes' = [i \in DOMAIN outcomes' |-> Outcome(Scn(point)', call'.seeds[i])]
        BY <4>1
      <4> QED BY <4>1, <4>2 DEF Tallied
    <3> QED BY <1>4, <2>4, <2>6, <3>1, <3>3, <3>4 DEF SweepInv
  <2> QED BY <2>7, <2>8
<1> QED BY <1>5, <1>6, <1>7

LEMMA MinIs ==
  ASSUME NEW T, T \subseteq Nat, NEW m \in T, \A x \in T : m <= x
  PROVE  Min(T) = m
<1>1. Min(T) \in T /\ \A x \in T : Min(T) <= x
  BY Zenon DEF Min
<1>2. PICK y : y = Min(T)
  OBVIOUS
<1>3. y \in T /\ y <= m /\ m <= y
  BY <1>1, <1>2
<1> QED BY <1>2, <1>3

(* When a point is through, either all its trials succeeded or one failed. *)
LEMMA ThroughIs ==
  ASSUME SweepInv, EndPoint
  PROVE  \/ /\ ErrorOf = 0 /\ FailedAt(point) = {}
            /\ outcomes = [i \in DOMAIN call.seeds |-> Outcome(Scn(point), call.seeds[i])]
         \/ /\ ErrorOf \in FailedAt(point)
            /\ Checked \/ ~call.parallel => ErrorOf = Min(FailedAt(point))
<1>1. /\ call \in Calls /\ point # 0 /\ answer = None /\ Planned /\ Sound /\ Gathered /\ Tallied
  BY Under DEF EndPoint
<1>2. running = {} /\ (Waiting = {} \/ (first > 0 /\ ~Checked))
  BY DEF EndPoint
<1>3. /\ DOMAIN outcomes \subseteq DOMAIN call.seeds
      /\ outcomes = [k \in DOMAIN outcomes |-> Outcome(Scn(point), call.seeds[k])]
      /\ first = 0 => \A k \in DOMAIN outcomes : outcomes[k].ok
      /\ first # 0 => first \in DOMAIN outcomes /\ ~outcomes[first].ok
      /\ ~call.parallel => (first # 0 => \A j \in 1 .. first - 1 : outcomes[j].ok)
      /\ ~call.parallel => \A k \in DOMAIN outcomes : 1 .. k - 1 \subseteq DOMAIN outcomes
  BY <1>1 DEF Tallied
<1>4. \A k \in DOMAIN call.seeds : k \in Nat \ {0}
  BY <1>1, Callers
<1> DEFINE failed == {i \in DOMAIN outcomes : ~outcomes[i].ok}
<1>5. ErrorOf = IF failed = {} THEN 0 ELSE IF Checked THEN Min(failed) ELSE first
  BY Zenon DEF ErrorOf
<1>6. \A i \in DOMAIN outcomes : outcomes[i] = Outcome(Scn(point), call.seeds[i])
  BY <1>3
<1>7. failed = FailedAt(point) \cap DOMAIN outcomes
  BY <1>3, <1>6 DEF FailedAt
<1>8. Waiting = {} => DOMAIN outcomes = DOMAIN call.seeds
  BY <1>2, <1>3 DEF Waiting
<1>9. failed \subseteq Nat \ {0} /\ FailedAt(point) \subseteq Nat \ {0}
  BY <1>3, <1>4 DEF FailedAt
<1>10. failed = {} => first = 0
  BY <1>3
<1>11. failed # {} => first \in failed
  BY <1>3
<1> HIDE DEF failed
<1>12. CASE failed = {}
  <2>1. DOMAIN outcomes = DOMAIN call.seeds
    BY <1>2, <1>8, <1>10, <1>12
  <2>2. FailedAt(point) = {}
    BY <1>7, <1>12, <2>1 DEF FailedAt
  <2> QED BY <1>3, <1>5, <1>12, <2>1, <2>2
<1>13. CASE failed # {} /\ Checked
  <2>1. failed = FailedAt(point)
    <3>1. DOMAIN outcomes = DOMAIN call.seeds
      BY <1>2, <1>8, <1>13
    <3> QED BY <1>7, <3>1 DEF FailedAt
  <2>2. PICK m \in failed : \A x \in failed : m <= x
    BY <1>9, <1>13, Least
  <2>3. Min(failed) = m
    BY <1>9, <2>2, MinIs
  <2> QED BY <1>5, <1>13, <2>1, <2>2, <2>3
<1>14. CASE failed # {} /\ ~Checked
  <2>1. ErrorOf = first /\ first \in failed
    BY <1>5, <1>11, <1>14
  <2>2. first \in FailedAt(point) /\ first # 0
    BY <1>7, <1>9, <2>1
  <2>3. ASSUME ~call.parallel, NEW x \in FailedAt(point) PROVE first <= x
    <3>1. x \in Nat \ {0} /\ first \in Nat
      BY <1>9, <2>2
    <3>2. ASSUME x < first PROVE FALSE
      <4>1. x \in 1 .. first - 1
        BY <3>1, <3>2
      <4>2. outcomes[x].ok /\ x \in DOMAIN outcomes
        BY <1>3, <1>10, <2>1, <2>2, <2>3, <4>1
      <4>3. ~outcomes[x].ok
        BY <1>6, <4>2 DEF FailedAt
      <4> QED BY <4>2, <4>3
    <3> QED BY <3>1, <3>2
  <2>4. ~call.parallel => Min(FailedAt(point)) = first
    BY <1>9, <2>2, <2>3, MinIs
  <2> QED BY <1>14, <2>1, <2>2, <2>4
<1> QED BY <1>12, <1>13, <1>14

LEMMA EndPointKeeps ==
  ASSUME SweepInv, EndPoint
  PROVE  SweepInv'
<1>1. /\ call \in Calls /\ point # 0 /\ answer = None /\ Planned /\ Sound /\ Gathered /\ Tallied
  BY Under DEF EndPoint
<1>2. /\ IF ErrorOf > 0
         THEN answer' = Err("trial", ErrorOf) /\ UNCHANGED points
         ELSE /\ points' = Append(points, Gives(plan[point].params, outcomes))
              /\ answer' = IF point < Len(plan) THEN None ELSE Ok(points')
      /\ point' = point + 1 /\ running = {} /\ outcomes' = << >> /\ first' = 0
      /\ UNCHANGED <<call, plan, running>>
  BY DEF EndPoint
<1>3. Combos' = Combos /\ (Checked' <=> Checked)
      /\ \A g : Scn(g)' = Scn(g) /\ FailedAt(g)' = FailedAt(g) /\ Result(g)' = Result(g)
  BY <1>2, Asked
<1>4. Planned' /\ Sound'
  BY <1>1, <1>2, Framed
<1>5. \E n \in Nat : DOMAIN Combos = 1 .. n
  <2>1. CASE call.driver \in Sweeps
    <3>1. call.axes \in Seq(SweepAxis)
      BY <1>1, Callers
    <3>2. PICK N \in Nat : N = Len(call.axes)
      BY <3>1
    <3>3. Stride(call.axes) \in [0 .. N -> Nat]
      BY <3>1, <3>2, StrideRun DEF Strides
    <3>4. Size(call.axes) \in Nat
      BY <3>2, <3>3 DEF Size
    <3> QED BY <2>1, <3>4 DEF Combos
  <2>2. CASE call.driver \notin Sweeps
    <3>1. Combos = << <<>> >>
      BY <2>2 DEF Combos
    <3>2. DOMAIN Combos = 1 .. 1
      BY <3>1
    <3> QED BY <3>2
  <2> QED BY <2>1, <2>2
<1>6. PICK n \in Nat : DOMAIN Combos = 1 .. n
  BY <1>5
<1>7. /\ point \in 1 .. n
      /\ points = [g \in 1 .. point - 1 |-> Result(g)]
      /\ \A g \in 1 .. point - 1 : FailedAt(g) = {}
  BY <1>1, <1>6 DEF Gathered
<1>8. point' # 0 /\ call' \in Calls
  BY <1>1, <1>2, <1>7
<1>9. CASE /\ ErrorOf = 0 /\ FailedAt(point) = {}
           /\ outcomes = [i \in DOMAIN call.seeds |-> Outcome(Scn(point), call.seeds[i])]
  <2>1. Gives(plan[point].params, outcomes) = Result(point)
    <3>1. plan[point].params = Combos[point]
      BY <1>1, <1>6, <1>7 DEF Planned
    <3> QED BY <1>9, <3>1, Zenon DEF Result
  <2>2. points' = [g \in 1 .. point |-> Result(g)]
    <3>1. PICK r : r = Result(point)
      OBVIOUS
    <3>2. points' = Append(points, r)
      BY <1>2, <1>9, <2>1, <3>1
    <3>3. point - 1 \in Nat /\ (point - 1) + 1 = point
      BY <1>7
    <3>4. Len(points) = point - 1
      BY <1>7, <3>3
    <3>5. points' = [g \in 1 .. point |-> IF g = point THEN r ELSE points[g]]
      BY <1>7, <3>2, <3>3, <3>4
    <3>6. ASSUME NEW g \in 1 .. point PROVE (IF g = point THEN r ELSE points[g]) = Result(g)
      BY <1>7, <3>1
    <3> QED BY <3>5, <3>6
  <2>3. Len(plan) = n
    <3>1. DOMAIN plan = 1 .. n /\ plan = [g \in 1 .. n |-> plan[g]]
      BY <1>1, <1>6 DEF Planned
    <3> QED BY <3>1
  <2>4. ASSUME NEW g \in 1 .. point PROVE FailedAt(g) = {}
    <3>1. g = point \/ g \in 1 .. point - 1
      BY <1>7
    <3> QED BY <1>7, <1>9, <3>1, Zenon
  <2>5. CASE point < n
    <3>1. answer' = None
      BY <1>2, <1>9, <2>3, <2>5
    <3>2. Gathered'
      <4>1. point' \in 1 .. n /\ point' - 1 = point
        BY <1>2, <1>7, <2>5
      <4>2. points' = [g \in 1 .. point' - 1 |-> Result(g)']
        BY <1>3, <2>2, <4>1
      <4> QED BY <1>3, <1>6, <2>4, <4>1, <4>2 DEF Gathered
    <3>3. Tallied'
      <4>1. running' = {} /\ outcomes' = << >> /\ first' = 0 /\ DOMAIN outcomes' = {}
        BY <1>2
      <4>2. outcomes' = [i \in DOMAIN outcomes' |-> Outcome(Scn(point)', call'.seeds[i])]
        BY <4>1
      <4> QED BY <4>1, <4>2 DEF Tallied
    <3> QED BY <1>4, <1>8, <3>1, <3>2, <3>3 DEF SweepInv
  <2>6. CASE ~(point < n)
    <3>1. answer' = Ok(points') /\ point = n
      BY <1>2, <1>7, <1>9, <2>3, <2>6
    <3>2. answer'.tag = "ok" /\ answer'.results = points' /\ answer' # None
      BY <3>1 DEF Ok, None
    <3>3. {g \in DOMAIN Combos' : FailedAt(g)' # {}} = {}
      BY <1>3, <1>6, <2>4, <3>1
    <3>4. points' = [g \in DOMAIN Combos' |-> Result(g)']
      BY <1>3, <1>6, <2>2, <3>1
    <3>5. Settled'
      BY <3>2, <3>3, <3>4 DEF Settled
    <3> QED BY <1>4, <1>8, <3>2, <3>5 DEF SweepInv
  <2> QED BY <2>5, <2>6
<1>10. CASE /\ ErrorOf \in FailedAt(point)
            /\ Checked \/ ~call.parallel => ErrorOf = Min(FailedAt(point))
  <2> DEFINE bad == {g \in DOMAIN Combos : FailedAt(g) # {}}
  <2>1. ErrorOf > 0
    <3>1. ErrorOf \in DOMAIN call.seeds
      BY <1>10 DEF FailedAt
    <3> QED BY <1>1, <3>1, Callers
  <2>2. answer' = Err("trial", ErrorOf)
    BY <1>2, <2>1
  <2>3. PICK e : e = ErrorOf
    OBVIOUS
  <2>4. answer'.tag = "error" /\ answer'.what = "trial" /\ answer'.at = e /\ answer' # None
    BY <2>2, <2>3 DEF Err, None
  <2>5. bad # {} /\ Min(bad) = point
    <3>1. point \in bad /\ bad \subseteq Nat
      BY <1>6, <1>7, <1>10
    <3>2. ASSUME NEW g \in bad PROVE point <= g
      <4>1. g \in 1 .. n /\ FailedAt(g) # {}
        BY <1>6
      <4>2. g \notin 1 .. point - 1
        BY <1>7, <4>1
      <4> QED BY <1>7, <4>1, <4>2
    <3> HIDE DEF bad
    <3> QED BY <3>1, <3>2, MinIs
  <2>6. bad' = bad
    BY <1>3
  <2>7. /\ answer'.tag # "ok"
        /\ answer'.at \in FailedAt(point)
        /\ Checked' \/ ~call'.parallel => answer'.at = Min(FailedAt(point))
    BY <1>2, <1>3, <1>10, <2>3, <2>4
  <2>8. \A g : FailedAt(g)' = FailedAt(g)
    BY <1>3
  <2>9. Settled'
    BY <2>4, <2>5, <2>6, <2>7, <2>8 DEF Settled
  <2> QED BY <1>4, <1>8, <2>4, <2>9 DEF SweepInv
<1> QED BY <1>9, <1>10, ThroughIs

(* Whatever the threads do, the answer of a runner is that of a plain loop over the
   grid and the seeds: all results in order, or the first failing seed of the first
   failing point, or with threads and without checks some failing seed of it; and no
   trial of the checked drivers starts before every point was found good. *)
THEOREM SweepAnswersAsLoop == SweepSpec => []AnswersAsLoop
<1>1. SweepInit => SweepInv
  BY DEF SweepInit, SweepInv, Idle
<1>2. SweepInv /\ [SweepNext]_svars => SweepInv'
  <2> SUFFICES ASSUME SweepInv, [SweepNext]_svars PROVE SweepInv'
    OBVIOUS
  <2>1. CASE SweepAnswered \/ UNCHANGED svars
    <3>1. UNCHANGED <<call, plan, point, running, outcomes, first, points, answer>>
      BY <2>1 DEF SweepAnswered, svars
    <3>2. (Idle => Idle') /\ (Tallied => Tallied')
      <4>1. Scn(point)' = Scn(point)
        BY <3>1, Asked
      <4> QED BY <3>1, <4>1 DEF Idle, Tallied
    <3> QED BY <3>1, <3>2, Framed DEF SweepInv, None
  <2> QED BY <2>1, PrepareKeeps, EndPointKeeps, StartKeeps, FinishKeeps DEF SweepNext
<1>3. SweepInv => AnswersAsLoop
  <2> SUFFICES ASSUME SweepInv PROVE AnswersAsLoop
    OBVIOUS
  <2>1. None.tag = "none"
    BY DEF None
  <2>2. NoTrialOfABadGrid
    <3>1. Idle \/ Sound
      BY DEF SweepInv
    <3> QED BY <3>1 DEF NoTrialOfABadGrid, Idle, Sound
  <2>3. \/ answer.tag = "none"
        \/ answer.tag = "error" /\ answer.what # "trial"
        \/ Settled
    BY <2>1 DEF SweepInv
  <2>4. (answer.tag = "none" \/ (answer.tag = "error" /\ answer.what # "trial")) => Settled
    BY DEF Settled
  <2> QED BY <2>2, <2>3, <2>4 DEF AnswersAsLoop, Settled
<1> QED BY <1>1, <1>2, <1>3, PTL DEF SweepSpec

-----------------------------------------------------------------------------
(***************************************************************************)
(* The recorders: a wide table holds in every row, under every column seen *)
(* so far, the first value the row gave it; a sink whose lines are not all *)
(* whole has an error to show for it.                                      *)
(***************************************************************************)
Distinct(s) == \A i, j \in DOMAIN s : s[i] = s[j] => i = j
Within(s, t) == Len(s) <= Len(t) /\ \A i \in 1 .. Len(s) : t[i] = s[i]
Has(s, c) == \E i \in 1 .. Len(s) : s[i] = c

(* What the columns are after the first k names of a row. *)
Grown(cols, names, k, s) ==
  s \in Seq(Column) /\ Distinct(s) /\ Within(cols, s) /\ \A j \in 1 .. k : Has(s, names[j])

LEMMA GrownOne ==
  ASSUME NEW cols \in Seq(Column), NEW names \in Seq(Column), NEW k \in Nat, k + 1 <= Len(names),
         NEW s, NEW t, Grown(cols, names, k, s),
         t = IF names[k + 1] \in ToSet(s) THEN s ELSE Append(s, names[k + 1])
  PROVE  Grown(cols, names, k + 1, t)
<1>1. s \in Seq(Column) /\ Distinct(s) /\ Within(cols, s) /\ \A j \in 1 .. k : Has(s, names[j])
  BY DEF Grown
<1>2. PICK c \in Column : c = names[k + 1]
  <2>1. k + 1 \in 1 .. Len(names)
    OBVIOUS
  <2> QED BY <2>1
<1>3. c \in ToSet(s) <=> Has(s, c)
  BY <1>1 DEF ToSet, Has
<1>4. \A j \in 1 .. k + 1 : j \in 1 .. k \/ names[j] = c
  BY <1>2
<1>5. CASE Has(s, c)
  <2>1. t = s
    BY <1>2, <1>3, <1>5
  <2> QED BY <1>1, <1>4, <1>5, <2>1 DEF Grown
<1>6. CASE ~Has(s, c)
  <2>1. t = Append(s, c)
    BY <1>2, <1>3, <1>6
  <2>2. t \in Seq(Column) /\ Len(t) = Len(s) + 1 /\ t[Len(s) + 1] = c /\ \A i \in 1 .. Len(s) : t[i] = s[i]
    BY <1>1, <2>1
  <2>3. Len(s) \in Nat /\ Len(cols) \in Nat /\ DOMAIN s = 1 .. Len(s) /\ DOMAIN t = 1 .. Len(s) + 1
    BY <1>1, <2>2
  <2>4. Distinct(t)
    <3>1. \A i \in 1 .. Len(s) : s[i] # c
      BY <1>6 DEF Has
    <3>2. \A i \in DOMAIN t : i \in 1 .. Len(s) \/ i = Len(s) + 1
      BY <2>3
    <3>3. \A i, j \in 1 .. Len(s) : t[i] = t[j] => i = j
      BY <1>1, <2>2, <2>3 DEF Distinct
    <3>4. ASSUME NEW i \in DOMAIN t, NEW j \in DOMAIN t, t[i] = t[j] PROVE i = j
      <4>1. CASE i \in 1 .. Len(s)
        <5>1. t[i] = s[i] /\ s[i] # c
          BY <2>2, <3>1, <4>1
        <5> QED BY <2>2, <3>2, <3>3, <3>4, <4>1, <5>1, Zenon
      <4>2. CASE i = Len(s) + 1
        <5>1. t[i] = c
          BY <2>2, <4>2
        <5>2. j \notin 1 .. Len(s)
          BY <2>2, <3>1, <3>4, <5>1
        <5> QED BY <3>2, <4>2, <5>2
      <4> QED BY <3>2, <4>1, <4>2
    <3> QED BY <3>4, Zenon DEF Distinct
  <2>5. Within(cols, t)
    BY <1>1, <2>2, <2>3 DEF Within
  <2>6. \A d : Has(s, d) => Has(t, d)
    BY <2>2, <2>3 DEF Has
  <2>7. Has(t, c)
    BY <2>2, <2>3 DEF Has
  <2>8. \A j \in 1 .. k + 1 : Has(t, names[j])
    BY <1>1, <1>4, <2>6, <2>7
  <2> QED BY <2>2, <2>4, <2>5, <2>8 DEF Grown
<1> QED BY <1>5, <1>6

LEMMA SeenIs ==
  ASSUME NEW cols \in Seq(Column), NEW names \in Seq(Column), Distinct(cols)
  PROVE  Grown(cols, names, Len(names), Seen(cols, names))
<1> DEFINE N == Len(names)
           V == Seq(Column)
           Next1(k, v) == IF names[k] \in ToSet(v) THEN v ELSE Append(v, names[k])
           F == [k \in 1 .. N |-> [v \in V |-> Next1(k, v)]]
           Is(f) == f = [k \in 0 .. N |-> IF k = 0 THEN cols ELSE Next1(k, f[k - 1])]
           course == CHOOSE f : Is(f)
<1>1. N \in Nat
  OBVIOUS
<1>2. Seen(cols, names) = course[N]
  BY Zenon DEF Seen
<1>3. ASSUME NEW k \in 1 .. N, NEW v \in V PROVE Next1(k, v) \in V
  <2>1. names[k] \in Column
    OBVIOUS
  <2> QED BY <2>1
<1> HIDE DEF N, V, Next1
<1>4. Machine(N, V, cols, F)
  <2>1. ASSUME NEW k \in 1 .. N PROVE F[k] \in [V -> V]
    BY <1>3
  <2>2. cols \in V
    BY DEF V
  <2> QED BY <1>1, <2>1, <2>2 DEF Machine
<1>5. PICK g : RunOf(g, N, V, cols, F)
  <2> HIDE DEF F
  <2> QED BY <1>4, Recursion
<1>6. g \in [0 .. N -> V] /\ g[0] = cols /\ \A k \in 1 .. N : g[k] = Next1(k, g[k - 1])
  <2>1. g \in [0 .. N -> V] /\ g[0] = cols /\ \A k \in 1 .. N : g[k] = F[k][g[k - 1]]
    BY <1>5 DEF RunOf
  <2>2. ASSUME NEW k \in 1 .. N PROVE g[k] = Next1(k, g[k - 1])
    <3>1. g[k - 1] \in V
      BY <1>1, <2>1
    <3> QED BY <2>1, <3>1
  <2> QED BY <2>1, <2>2
<1>7. Is(g)
  BY <1>1, <1>6
<1>8. Is(course)
  <2> HIDE DEF Is
  <2> QED BY <1>7, Zenon
<1> HIDE DEF course
<1>9. course[0] = cols /\ \A k \in 1 .. N : course[k] = Next1(k, course[k - 1])
  BY <1>1, <1>8
<1> DEFINE T == {k \in Nat : k <= N => Grown(cols, names, k, course[k])}
<1>10. 0 \in T
  <2>1. Grown(cols, names, 0, cols)
    BY DEF Grown, Within
  <2> QED BY <1>9, <2>1
<1>11. ASSUME NEW k \in Nat, k \in T PROVE k + 1 \in T
  <2>1. (k + 1) - 1 = k
    OBVIOUS
  <2>2. ASSUME k + 1 <= N PROVE Grown(cols, names, k + 1, course[k + 1])
    <3>1. k + 1 \in 1 .. N /\ k <= N /\ k + 1 <= Len(names)
      BY <1>1, <2>2 DEF N
    <3>2. Grown(cols, names, k, course[k])
      BY <1>11, <3>1
    <3>3. course[k + 1] = Next1(k + 1, course[k])
      BY <1>9, <2>1, <3>1
    <3>4. PICK s, t : s = course[k] /\ t = course[k + 1]
      OBVIOUS
    <3>5. t = IF names[k + 1] \in ToSet(s) THEN s ELSE Append(s, names[k + 1])
      BY <3>3, <3>4 DEF Next1
    <3>6. Grown(cols, names, k, s)
      BY <3>2, <3>4
    <3>7. Grown(cols, names, k + 1, t)
      BY <3>1, <3>5, <3>6, GrownOne
    <3> QED BY <3>4, <3>7
  <2> QED BY <2>2
<1>12. Grown(cols, names, N, course[N])
  <2>1. Nat \subseteq T
    <3> HIDE DEF T
    <3> QED BY <1>10, <1>11, Induct
  <2> QED BY <1>1, <2>1
<1> QED BY <1>2, <1>12 DEF N

(* A sequence after another. *)
LEMMA Joined ==
  ASSUME NEW s \in Seq(Int), NEW t \in Seq(Int)
  PROVE  /\ s \o t \in Seq(Int) /\ Len(s \o t) = Len(s) + Len(t)
         /\ \A i \in 1 .. Len(s) + Len(t) : (s \o t)[i] = IF i <= Len(s) THEN s[i] ELSE t[i - Len(s)]
BY ConcatProperties, Zenon

(* A value of a row is found under its name. *)
Valued == [column : Column, value : Nat]
Given(row, c) == {k \in DOMAIN row : row[k].column = c}

LEMMA ValueIs ==
  ASSUME NEW row \in Seq(Valued), NEW c
  PROVE  /\ Given(row, c) = {} => ValueIn(row, c) = NaN
         /\ Given(row, c) # {} => /\ ValueIn(row, c) \in Nat
                                  /\ ValueIn(row, c) = row[CHOOSE k \in Given(row, c) : \A j \in Given(row, c) : k <= j].value
         /\ ValueIn(row, c) \in Int
<1> DEFINE place == CHOOSE k \in Given(row, c) : \A j \in Given(row, c) : k <= j
<1>1. ValueIn(row, c) = IF Given(row, c) = {} THEN NaN ELSE row[place].value
  BY Zenon DEF ValueIn, Given
<1>2. ASSUME Given(row, c) # {} PROVE row[place].value \in Nat
  <2>1. Given(row, c) \subseteq Nat
    BY DEF Given
  <2>2. PICK m \in Given(row, c) : \A j \in Given(row, c) : m <= j
    BY <1>2, <2>1, Least
  <2>3. place \in Given(row, c)
    BY <2>2, Zenon
  <2> HIDE DEF place
  <2>4. place \in DOMAIN row
    BY <2>3 DEF Given
  <2>5. row[place] \in Valued
    BY <2>4
  <2> QED BY <2>5 DEF Valued
<1> HIDE DEF place
<1>3. ValueIn(row, c) \in Int
  BY <1>1, <1>2 DEF NaN
<1> QED BY <1>1, <1>2, <1>3 DEF place

(* Every name of a row is a column. *)
Covers(cols, row) == \A k \in 1 .. Len(row) : Has(cols, row[k].column)
(* The cells of a row under the columns. *)
Aligned(cols, row) == [i \in 1 .. Len(cols) |-> ValueIn(row, cols[i])]

(* Columns that come later are empty in the rows before, and these are padded. *)
LEMMA PaddedIs ==
  ASSUME NEW cols \in Seq(Column), NEW s \in Seq(Column), NEW row \in Seq(Valued),
         Within(cols, s), Distinct(s), Covers(cols, row)
  PROVE  Padded(Aligned(cols, row), Len(s)) = Aligned(s, row) /\ Covers(s, row)
<1>1. PICK L \in Nat, n \in Nat : L = Len(cols) /\ n = Len(s)
  OBVIOUS
<1>2. L <= n /\ \A i \in 1 .. L : s[i] = cols[i]
  BY <1>1 DEF Within
<1>3. Aligned(cols, row) \in Seq(Int) /\ Len(Aligned(cols, row)) = L
      /\ \A i \in 1 .. L : Aligned(cols, row)[i] = ValueIn(row, cols[i])
  <2>1. \A i \in 1 .. L : ValueIn(row, cols[i]) \in Int
    BY ValueIs
  <2> QED BY <1>1, <2>1 DEF Aligned
<1>4. PICK cells : cells = Aligned(cols, row)
  OBVIOUS
<1>5. ASSUME NEW i \in 1 .. n, i > L PROVE ValueIn(row, s[i]) = NaN
  <2>1. ASSUME NEW k \in DOMAIN row, row[k].column = s[i] PROVE FALSE
    <3>5. k \in 1 .. Len(row)
      OBVIOUS
    <3>1. Has(cols, row[k].column)
      BY <3>5 DEF Covers
    <3>2. PICK j \in 1 .. L : cols[j] = s[i]
      BY <1>1, <2>1, <3>1 DEF Has
    <3>3. s[j] = s[i] /\ j \in 1 .. n /\ j # i
      BY <1>2, <1>5, <3>2
    <3>4. DOMAIN s = 1 .. n
      BY <1>1
    <3> QED BY <3>3, <3>4 DEF Distinct
  <2>2. Given(row, s[i]) = {}
    BY <2>1 DEF Given
  <2> QED BY <2>2, ValueIs
<1>6. Padded(cells, n) = cells \o [i \in 1 .. n - L |-> NaN]
  BY <1>3, <1>4 DEF Padded
<1>7. PICK m \in Nat : m = n - L /\ n = L + m
  BY <1>2
<1>8. Padded(cells, n) = [i \in 1 .. n |-> IF i <= L THEN cells[i] ELSE NaN]
  <2>1. PICK none \in Int : none = NaN
    BY DEF NaN
  <2>2. PICK t : t = [i \in 1 .. m |-> none]
    OBVIOUS
  <2>3. t \in Seq(Int) /\ Len(t) = m /\ \A i \in 1 .. m : t[i] = none
    BY <2>2
  <2>4. cells \in Seq(Int) /\ Len(cells) = L
    BY <1>3, <1>4
  <2>5. PICK u : u = cells \o t
    OBVIOUS
  <2>10. cells \o t \in Seq(Int) /\ Len(cells \o t) = Len(cells) + Len(t)
         /\ \A i \in 1 .. Len(cells) + Len(t) :
              (cells \o t)[i] = IF i <= Len(cells) THEN cells[i] ELSE t[i - Len(cells)]
    <3>1. cells \in Seq(Int) /\ t \in Seq(Int)
      BY <2>3, <2>4
    <3> QED BY <3>1, Joined, Zenon
  <2>6. u \in Seq(Int) /\ Len(u) = L + m /\ \A i \in 1 .. L + m : u[i] = IF i <= L THEN cells[i] ELSE t[i - L]
    BY <2>3, <2>4, <2>5, <2>10, Zenon
  <2>7. ASSUME NEW i \in 1 .. n PROVE u[i] = IF i <= L THEN cells[i] ELSE none
    <3>1. CASE i <= L
      BY <1>7, <2>6, <3>1
    <3>2. CASE ~(i <= L)
      <4>1. i - L \in 1 .. m
        BY <1>7, <3>2
      <4>2. u[i] = t[i - L]
        BY <1>7, <2>6, <3>2
      <4> QED BY <2>3, <3>2, <4>1, <4>2
    <3> QED BY <3>1, <3>2
  <2>8. u = [i \in 1 .. n |-> u[i]]
    BY <1>7, <2>6
  <2>9. u = [i \in 1 .. n |-> IF i <= L THEN cells[i] ELSE none]
    BY <2>7, <2>8
  <2> QED BY <1>6, <1>7, <2>1, <2>2, <2>5, <2>9
<1>9. ASSUME NEW i \in 1 .. n PROVE (IF i <= L THEN cells[i] ELSE NaN) = ValueIn(row, s[i])
  <2>1. CASE i <= L
    BY <1>2, <1>3, <1>4, <2>1
  <2>2. CASE ~(i <= L)
    <3>1. i > L
      BY <2>2
    <3> QED BY <1>5, <2>2, <3>1
  <2> QED BY <2>1, <2>2
<1>10. Padded(cells, n) = [i \in 1 .. n |-> ValueIn(row, s[i])]
  BY <1>8, <1>9
<1>11. \A c : Has(cols, c) => Has(s, c)
  BY <1>1, <1>2 DEF Has
<1> QED BY <1>1, <1>4, <1>10, <1>11 DEF Aligned, Covers

Line == [intact : BOOLEAN, ended : BOOLEAN, id : Nat]

TableInv ==
  /\ columns \in Seq(Column) /\ Distinct(columns)
  /\ rows \in Seq(Seq(Int)) /\ records.rows \in Seq(Seq(Valued)) /\ Len(rows) = Len(records.rows)
  /\ \A r \in 1 .. Len(rows) : rows[r] = Aligned(columns, records.rows[r]) /\ Covers(columns, records.rows[r])

(* Without an error every line is whole and every record is there. *)
SinkInv ==
  /\ sink \in Seq(Line) /\ records.lines \in Nat
  /\ ~lastError /\ ~records.taken =>
       /\ \A i \in 1 .. Len(sink) : sink[i].ended
       /\ \A l \in 0 .. records.lines - 1 : \E i \in 1 .. Len(sink) : sink[i].id = l /\ sink[i].intact

Ledger == records \in [rows : Seq(Seq(Valued)), lines : Nat, taken : BOOLEAN]

LEMMA RowKeeps ==
  ASSUME TableInv, Ledger, RecordRow
  PROVE  TableInv'
<1>1. /\ columns \in Seq(Column) /\ Distinct(columns)
      /\ rows \in Seq(Seq(Int)) /\ records.rows \in Seq(Seq(Valued)) /\ Len(rows) = Len(records.rows)
      /\ \A r \in 1 .. Len(rows) : rows[r] = Aligned(columns, records.rows[r]) /\ Covers(columns, records.rows[r])
  BY DEF TableInv
<1> DEFINE RowOfNames(names) == [i \in DOMAIN names |-> [column |-> names[i], value |-> 10 * Len(records.rows) + i]]
<1>2. PICK names \in Shapes :
        /\ columns' = Seen(columns, names)
        /\ rows' = Append([r \in DOMAIN rows |-> Padded(rows[r], Len(columns'))],
                          [i \in DOMAIN columns' |-> ValueIn(RowOfNames(names), columns'[i])])
        /\ records' = [records EXCEPT !.rows = Append(records.rows, RowOfNames(names))]
  BY Zenon DEF RecordRow
<1>3. PICK row : row = RowOfNames(names)
  OBVIOUS
<1>4. names \in Seq(Column)
  <2>1. PICK n \in 0 .. MaxCells : names \in [1 .. n -> Column]
    BY DEF Shapes
  <2>2. n \in Nat
    BY RecorderAssumption
  <2> QED BY <2>1, <2>2, SeqDef
<1>5. row \in Seq(Valued) /\ Len(row) = Len(names) /\ \A k \in 1 .. Len(names) : row[k].column = names[k]
  <2>1. ASSUME NEW i \in 1 .. Len(names)
        PROVE  [column |-> names[i], value |-> 10 * Len(records.rows) + i] \in Valued
    <3>1. names[i] \in Column /\ Len(records.rows) \in Nat
      BY <1>1, <1>4
    <3>2. 10 * Len(records.rows) + i \in Nat
      BY <3>1
    <3> QED BY <3>1, <3>2 DEF Valued
  <2>2. row = [i \in 1 .. Len(names) |-> [column |-> names[i], value |-> 10 * Len(records.rows) + i]]
    BY <1>3, <1>4
  <2>3. Len(names) \in Nat
    BY <1>4
  <2> QED BY <2>1, <2>2, <2>3
<1> HIDE DEF RowOfNames
<1>6. Grown(columns, names, Len(names), columns')
  BY <1>1, <1>2, <1>4, SeenIs
<1>7. /\ columns' \in Seq(Column) /\ Distinct(columns') /\ Within(columns, columns')
      /\ \A j \in 1 .. Len(names) : Has(columns', names[j])
  BY <1>6 DEF Grown
<1>8. Covers(columns', row)
  BY <1>5, <1>7 DEF Covers
<1>9. PICK n \in Nat : n = Len(rows)
  BY <1>1
<1>10. ASSUME NEW r \in 1 .. n
       PROVE  Padded(rows[r], Len(columns')) = Aligned(columns', records.rows[r]) /\ Covers(columns', records.rows[r])
  <2>1. records.rows[r] \in Seq(Valued)
    BY <1>1, <1>9
  <2>2. rows[r] = Aligned(columns, records.rows[r]) /\ Covers(columns, records.rows[r])
    BY <1>1, <1>9
  <2> QED BY <1>1, <1>7, <2>1, <2>2, PaddedIs
<1>11. records'.rows = Append(records.rows, row)
  BY <1>2, <1>3 DEF Ledger
<1>12. rows' = Append([r \in 1 .. n |-> Aligned(columns', records.rows[r])], Aligned(columns', row))
  <2>1. [r \in DOMAIN rows |-> Padded(rows[r], Len(columns'))] = [r \in 1 .. n |-> Aligned(columns', records.rows[r])]
    <3>1. DOMAIN rows = 1 .. n
      BY <1>1, <1>9
    <3> QED BY <1>10, <3>1
  <2>2. [i \in DOMAIN columns' |-> ValueIn(row, columns'[i])] = Aligned(columns', row)
    BY <1>7 DEF Aligned
  <2> QED BY <1>2, <1>3, <2>1, <2>2
<1>13. \A x \in Seq(Valued) : Aligned(columns', x) \in Seq(Int)
  <2>1. ASSUME NEW x \in Seq(Valued) PROVE Aligned(columns', x) \in Seq(Int)
    <3>1. \A i \in 1 .. Len(columns') : ValueIn(x, columns'[i]) \in Int
      BY ValueIs
    <3>2. Len(columns') \in Nat
      BY <1>7
    <3> QED BY <3>1, <3>2 DEF Aligned
  <2> QED BY <2>1
<1>14. PICK old, new : old = [r \in 1 .. n |-> Aligned(columns', records.rows[r])] /\ new = Aligned(columns', row)
  OBVIOUS
<1>15. old \in Seq(Seq(Int)) /\ Len(old) = n /\ new \in Seq(Int)
       /\ \A r \in 1 .. n : old[r] = Aligned(columns', records.rows[r])
  <2>1. \A r \in 1 .. n : records.rows[r] \in Seq(Valued)
    BY <1>1, <1>9
  <2> QED BY <1>5, <1>13, <1>14, <2>1
<1>16. rows' = Append(old, new)
  BY <1>12, <1>14
<1>17. /\ rows' \in Seq(Seq(Int)) /\ Len(rows') = n + 1 /\ rows'[n + 1] = new
       /\ \A r \in 1 .. n : rows'[r] = Aligned(columns', records.rows[r])
  BY <1>15, <1>16
<1>18. /\ records'.rows \in Seq(Seq(Valued)) /\ Len(records'.rows) = n + 1 /\ records'.rows[n + 1] = row
       /\ \A r \in 1 .. n : records'.rows[r] = records.rows[r]
  BY <1>1, <1>5, <1>9, <1>11
<1>19. ASSUME NEW r \in 1 .. n + 1
       PROVE  rows'[r] = Aligned(columns', records'.rows[r]) /\ Covers(columns', records'.rows[r])
  <2>1. CASE r = n + 1
    BY <1>8, <1>14, <1>17, <1>18, <2>1
  <2>2. CASE r # n + 1
    <3>1. r \in 1 .. n
      BY <2>2
    <3> QED BY <1>10, <1>17, <1>18, <3>1
  <2> QED BY <2>1, <2>2
<1> QED BY <1>7, <1>17, <1>18, <1>19 DEF TableInv

LEMMA LineKeeps ==
  ASSUME SinkInv, Ledger, lastError \in BOOLEAN, WriteLine
  PROVE  SinkInv'
<1>1. /\ sink \in Seq(Line) /\ records.lines \in Nat
      /\ ~lastError /\ ~records.taken =>
           /\ \A i \in 1 .. Len(sink) : sink[i].ended
           /\ \A l \in 0 .. records.lines - 1 : \E i \in 1 .. Len(sink) : sink[i].id = l /\ sink[i].intact
  BY DEF SinkInv
<1> DEFINE torn == sink # <<>> /\ ~sink[Len(sink)].ended
           put(l) == IF torn THEN [sink EXCEPT ![Len(sink)] = [l EXCEPT !.intact = FALSE]] ELSE Append(sink, l)
           whole == [intact |-> TRUE, ended |-> TRUE, id |-> records.lines]
           piece == [intact |-> FALSE, ended |-> FALSE, id |-> records.lines]
<1>2. /\ \/ sink' = put(whole) /\ lastError' = lastError
         \/ sink' = put(piece) /\ lastError' = TRUE
         \/ sink' = sink /\ lastError' = TRUE
      /\ records' = [records EXCEPT !.lines = records.lines + 1]
  BY DEF WriteLine, KeptError
<1>3. records'.lines = records.lines + 1 /\ records'.taken = records.taken
  BY <1>2 DEF Ledger
<1>4. ASSUME NEW l \in Line PROVE put(l) \in Seq(Line)
  <2>1. [l EXCEPT !.intact = FALSE] \in Line
    BY DEF Line
  <2>2. PICK e : e = [l EXCEPT !.intact = FALSE]
    OBVIOUS
  <2>3. torn => [sink EXCEPT ![Len(sink)] = e] \in Seq(Line)
    BY <1>1, <2>1, <2>2
  <2>4. Append(sink, l) \in Seq(Line)
    BY <1>1
  <2> HIDE DEF torn
  <2> QED BY <2>2, <2>3, <2>4
<1>5. whole \in Line /\ piece \in Line
  BY <1>1 DEF Line
<1>6. sink' \in Seq(Line)
  <2> HIDE DEF put, whole, piece
  <2> QED BY <1>1, <1>2, <1>4, <1>5
<1>7. ASSUME ~lastError', ~records'.taken
      PROVE  /\ \A i \in 1 .. Len(sink') : sink'[i].ended
             /\ \A l \in 0 .. records'.lines - 1 : \E i \in 1 .. Len(sink') : sink'[i].id = l /\ sink'[i].intact
  <2>1. sink' = put(whole) /\ ~lastError /\ ~records.taken
    BY <1>2, <1>3, <1>7
  <2>2. ~torn
    <3>1. sink # <<>> => Len(sink) \in 1 .. Len(sink)
      BY <1>1
    <3> QED BY <1>1, <2>1, <3>1
  <2>3. PICK w : w = whole
    OBVIOUS
  <2>4. sink' = Append(sink, w) /\ w.ended /\ w.intact /\ w.id = records.lines
    BY <2>1, <2>2, <2>3
  <2>5. PICK n \in Nat : n = Len(sink)
    BY <1>1
  <2>6. Len(sink') = n + 1 /\ sink'[n + 1] = w /\ \A i \in 1 .. n : sink'[i] = sink[i]
    BY <1>1, <2>4, <2>5
  <2>7. ASSUME NEW i \in 1 .. n + 1 PROVE sink'[i].ended
    <3>1. i \in 1 .. n \/ i = n + 1
      OBVIOUS
    <3> QED BY <1>1, <2>1, <2>4, <2>5, <2>6, <3>1
  <2>8. ASSUME NEW l \in 0 .. records.lines PROVE \E i \in 1 .. n + 1 : sink'[i].id = l /\ sink'[i].intact
    <3>1. CASE l = records.lines
      <4>1. n + 1 \in 1 .. n + 1
        OBVIOUS
      <4> QED BY <2>4, <2>6, <3>1, <4>1
    <3>2. CASE l # records.lines
      <4>1. l \in 0 .. records.lines - 1
        BY <1>1, <3>2
      <4>2. PICK i \in 1 .. n : sink[i].id = l /\ sink[i].intact
        BY <1>1, <2>1, <2>5, <4>1
      <4>3. i \in 1 .. n + 1
        OBVIOUS
      <4> QED BY <2>6, <4>2, <4>3
    <3> QED BY <3>1, <3>2
  <2>9. records'.lines - 1 = records.lines
    BY <1>1, <1>3
  <2> QED BY <2>6, <2>7, <2>8, <2>9
<1> QED BY <1>1, <1>3, <1>6, <1>7 DEF SinkInv

RecorderInv == TableInv /\ SinkInv /\ Ledger /\ lastError \in BOOLEAN

LEMMA RecorderKeeps == RecorderInv /\ [RecorderNext]_rvars => RecorderInv'
<1> SUFFICES ASSUME RecorderInv, [RecorderNext]_rvars PROVE RecorderInv'
  OBVIOUS
<1>1. TableInv /\ SinkInv /\ Ledger /\ lastError \in BOOLEAN
  BY DEF RecorderInv
<1>2. CASE RecordRow
  <2>1. records'.lines = records.lines /\ records'.taken = records.taken /\ UNCHANGED <<sink, lastError>>
    <3>1. \E x : records' = [records EXCEPT !.rows = x]
      BY <1>2, Zenon DEF RecordRow
    <3>2. UNCHANGED <<sink, lastError>>
      BY <1>2 DEF RecordRow
    <3> QED BY <1>1, <3>1, <3>2 DEF Ledger
  <2>2. TableInv'
    BY <1>1, <1>2, RowKeeps
  <2>3. SinkInv'
    BY <1>1, <2>1 DEF SinkInv
  <2>4. Ledger'
    <3>1. PICK x : records' = [records EXCEPT !.rows = x]
      BY <1>2, Zenon DEF RecordRow
    <3>2. records'.rows \in Seq(Seq(Valued))
      BY <2>2 DEF TableInv
    <3> QED BY <1>1, <3>1, <3>2 DEF Ledger
  <2> QED BY <1>1, <2>1, <2>2, <2>3, <2>4 DEF RecorderInv
<1>3. CASE WriteLine
  <2>1. UNCHANGED <<columns, rows, schema>> /\ records' = [records EXCEPT !.lines = records.lines + 1]
    BY <1>3 DEF WriteLine
  <2>6. PICK k \in Nat : k = records.lines + 1
    BY <1>1 DEF Ledger
  <2>2. Ledger' /\ records'.rows = records.rows
    BY <1>1, <2>1, <2>6 DEF Ledger
  <2>3. lastError' \in BOOLEAN
    BY <1>1, <1>3 DEF WriteLine, KeptError
  <2>4. SinkInv'
    BY <1>1, <1>3, LineKeeps
  <2>5. TableInv'
    BY <1>1, <2>1, <2>2 DEF TableInv
  <2> QED BY <2>2, <2>3, <2>4, <2>5 DEF RecorderInv
<1>4. CASE TakeError
  <2>1. UNCHANGED <<columns, rows, schema, sink>> /\ lastError' = FALSE /\ records' = [records EXCEPT !.taken = TRUE]
    BY <1>4 DEF TakeError
  <2>2. Ledger' /\ records'.rows = records.rows /\ records'.lines = records.lines /\ records'.taken
    BY <1>1, <2>1 DEF Ledger
  <2>3. SinkInv'
    BY <1>1, <2>1, <2>2 DEF SinkInv
  <2>4. TableInv'
    BY <1>1, <2>1, <2>2 DEF TableInv
  <2> QED BY <2>1, <2>2, <2>3, <2>4 DEF RecorderInv
<1>5. CASE SetColumns \/ UNCHANGED rvars
  <2>1. UNCHANGED <<columns, rows, sink, lastError, records>>
    BY <1>5 DEF SetColumns, rvars
  <2>2. TableInv' /\ SinkInv' /\ Ledger' /\ lastError' \in BOOLEAN
    BY <1>1, <2>1 DEF TableInv, SinkInv, Ledger
  <2> QED BY <2>2 DEF RecorderInv
<1> QED BY <1>2, <1>3, <1>4, <1>5 DEF RecorderNext

LEMMA RecorderShows == RecorderInv => RecordsKept
<1> SUFFICES ASSUME RecorderInv PROVE RecordsKept
  OBVIOUS
<1>1. /\ columns \in Seq(Column) /\ Distinct(columns)
      /\ rows \in Seq(Seq(Int)) /\ records.rows \in Seq(Seq(Valued)) /\ Len(rows) = Len(records.rows)
      /\ \A r \in 1 .. Len(rows) : rows[r] = Aligned(columns, records.rows[r]) /\ Covers(columns, records.rows[r])
  BY DEF RecorderInv, TableInv
<1>7. DOMAIN rows = 1 .. Len(rows) /\ Len(rows) \in Nat
  BY <1>1
<1>8. DOMAIN records.rows = 1 .. Len(rows)
  BY <1>1
<1>2. PICK n \in Nat : n = Len(rows) /\ DOMAIN rows = 1 .. n /\ DOMAIN records.rows = 1 .. n
  BY <1>7, <1>8, Zenon
<1>3. Rendered = [r \in 1 .. n |-> [i \in DOMAIN Header |->
                    IF schema = <<>> THEN rows[r][i] ELSE Cell(r, Header[i])]]
  BY <1>2 DEF Rendered
<1>4. Len(Rendered) = Len(records.rows)
  BY <1>1, <1>2, <1>3
<1>5. ASSUME NEW r \in 1 .. n, NEW i \in DOMAIN Header
      PROVE  Rendered[r][i]
             = IF Given(records.rows[r], Header[i]) # {}
               THEN records.rows[r][CHOOSE k \in Given(records.rows[r], Header[i]) : \A j \in Given(records.rows[r], Header[i]) : k <= j].value
               ELSE IF schema = <<>> THEN NaN ELSE Blank
  <2>1. PICK row, c : row = records.rows[r] /\ c = Header[i]
    OBVIOUS
  <2>2. row \in Seq(Valued) /\ rows[r] = Aligned(columns, row) /\ Covers(columns, row)
    BY <1>1, <1>2, <2>1
  <2>3. PICK v : v = row[CHOOSE k \in Given(row, c) : \A j \in Given(row, c) : k <= j].value
    OBVIOUS
  <2>4. /\ Given(row, c) = {} => ValueIn(row, c) = NaN
        /\ Given(row, c) # {} => ValueIn(row, c) \in Nat /\ ValueIn(row, c) = v
    BY <2>2, <2>3, ValueIs
  <2>5. \A j \in 1 .. Len(columns) : rows[r][j] = ValueIn(row, columns[j])
    BY <2>2 DEF Aligned
  <2>6. Rendered[r][i] = IF schema = <<>> THEN rows[r][i] ELSE Cell(r, c)
    BY <1>3, <2>1
  <2>7. DOMAIN columns = 1 .. Len(columns)
    BY <1>1
  <2>8. CASE schema = <<>>
    <3>1. i \in 1 .. Len(columns) /\ c = columns[i]
      BY <2>1, <2>7, <2>8 DEF Header
    <3>2. Rendered[r][i] = ValueIn(row, c)
      BY <2>5, <2>6, <2>8, <3>1
    <3> QED BY <2>1, <2>3, <2>4, <2>8, <3>2
  <2>9. CASE schema # <<>>
    <3> DEFINE at == {j \in DOMAIN columns : columns[j] = c}
    <3>1. CASE at = {}
      <4>1. Cell(r, c) = Blank
        BY <3>1, Zenon DEF Cell
      <4>2. Given(row, c) = {}
        <5>1. ASSUME NEW k \in DOMAIN row, row[k].column = c PROVE FALSE
          <6>1. Has(columns, c)
            BY <2>2, <5>1 DEF Covers
          <6> QED BY <2>7, <3>1, <6>1 DEF Has
        <5> QED BY <5>1 DEF Given
      <4> QED BY <2>1, <2>6, <2>9, <4>1, <4>2
    <3>2. CASE at # {}
      <4>1. PICK j : j = CHOOSE x \in at : TRUE
        OBVIOUS
      <4>2. j \in at
        BY <3>2, <4>1, Zenon
      <4>3. rows[r][j] = ValueIn(row, c)
        BY <2>5, <2>7, <4>2
      <4>4. Cell(r, c) = IF schema # <<>> /\ rows[r][j] = NaN THEN Blank ELSE rows[r][j]
        BY <3>2, <4>1 DEF Cell
      <4>5. Cell(r, c) = IF ValueIn(row, c) = NaN THEN Blank ELSE ValueIn(row, c)
        BY <2>9, <4>3, <4>4
      <4>6. Given(row, c) # {} => ValueIn(row, c) # NaN
        BY <2>4 DEF NaN
      <4> QED BY <2>1, <2>3, <2>4, <2>6, <2>9, <4>5, <4>6
    <3> QED BY <3>1, <3>2
  <2> QED BY <2>8, <2>9
<1>6. ~lastError /\ ~records.taken =>
        \A l \in 0 .. records.lines - 1 : \E i \in DOMAIN sink : sink[i].id = l /\ sink[i].intact
  BY DEF RecorderInv, SinkInv
<1> QED BY <1>2, <1>4, <1>5, <1>6 DEF RecordsKept, Given

(* Whatever rows come in whatever order, each rendered table shows every value in its
   row under its column and nothing else, and a sink that lost a record or broke a
   line has an error for whoever asks. *)
THEOREM RecorderKeepsRecords == RecorderSpec => []RecordsKept
<1>1. RecorderInit => RecorderInv
  <2> SUFFICES ASSUME RecorderInit PROVE RecorderInv
    OBVIOUS
  <2>1. TableInv
    BY DEF RecorderInit, TableInv, Distinct
  <2>3. sink = <<>> /\ records = [rows |-> <<>>, lines |-> 0, taken |-> FALSE] /\ lastError \in BOOLEAN
    BY DEF RecorderInit
  <2>4. SinkInv
    <3>1. records.lines = 0 /\ sink \in Seq(Line) /\ Len(sink) = 0
      BY <2>3
    <3> QED BY <3>1 DEF SinkInv
  <2>5. Ledger
    BY <2>3 DEF Ledger
  <2>2. SinkInv /\ Ledger /\ lastError \in BOOLEAN
    BY <2>3, <2>4, <2>5
  <2> QED BY <2>1, <2>2 DEF RecorderInv
<1> QED BY <1>1, RecorderKeeps, RecorderShows, PTL DEF RecorderSpec

(***************************************************************************)
(* The response store keeps what it acknowledged, for every set of runs,   *)
(* mergers, keys, digests and replies, if it is used as documented: one    *)
(* run per tag, merges after the runs, and appends that break off only by  *)
(* a crash inside the record.                                              *)
(***************************************************************************)
(* The use the documentation asks for. *)
Documented ==
    /\ Quiet
    /\ Breaks \subseteq {"torn"}
    /\ \A p, q \in Runs : TagOf[p] = TagOf[q] => p = q

OneReply(R) == \A a, b \in R : SameDigest(a, b) => a = b

(* Nothing acknowledged is outside the base and the tag's own shard. *)
Kept == \A g \in Tags : acked[g] \subseteq base \union shard[g].recs

ShardFiles ==
    \A g \in Tags : shard[g].unended = {} /\ (~shard[g].exists => shard[g].recs = {})

(* One merge at a time, and none beside an open store. *)
Alone ==
    /\ \A m, n \in Mergers : merge[m].st # "idle" /\ merge[n].st # "idle" => m = n
    /\ \A m \in Mergers, p \in Runs : merge[m].st # "idle" => run[p].st = "closed"

(* How much of the disk a merge has collected. *)
CollectedBy(m) ==
    /\ OneReply(merge[m].recs)
    /\ merge[m].st \in {"list", "read"} => base \subseteq merge[m].recs
    /\ merge[m].st = "read" =>
         \A g \in Tags \ merge[m].todo : shard[g].recs \subseteq merge[m].recs
    /\ merge[m].st = "remove" =>
         merge[m].todo = {} /\ \A g \in Tags : shard[g].recs \subseteq base

(* How much of the disk a run serves. *)
Served(p) ==
    /\ run[p].st = "opening" => run[p].recs = base
    /\ run[p].st = "open" =>
         /\ ~shard[TagOf[p]].torn
         /\ acked[TagOf[p]] \subseteq run[p].recs
         /\ run[p].recs \subseteq base \union shard[TagOf[p]].recs

StoreInv ==
    /\ TypeOK /\ OneReply(base) /\ Kept /\ ShardFiles /\ Alone
    /\ \A m \in Mergers : CollectedBy(m)
    /\ \A p \in Runs : Served(p)

USE StoreAssumption

(* A run's tag names one of the shards. *)
LEMMA TagIsTag == \A p \in Runs : TagOf[p] \in Tags
BY DEF Tags, Range

(* What one more file adds to a set of records that loads keeps it loading. *)
LEMMA LoadsOneReply ==
    ASSUME NEW R, NEW S, OneReply(R), Loads(R, S)
    PROVE  OneReply(R \union S)
BY DEF OneReply, Loads, SameDigest

(* An empty directory satisfies the invariant. *)
LEMMA InitIInv == StoreInit => StoreInv
BY TagIsTag DEF StoreInit, StoreInv, TypeOK, OneReply, Kept, ShardFiles, Alone, CollectedBy, Served,
                NoShardFile, NotOpen, NoMerge, ShardFile

(* Steps that change nothing but one run's memory. *)
LEMMA OpenBaseIInv ==
    ASSUME Documented, StoreInv, NEW p \in Runs, OpenBase(p)
    PROVE  StoreInv'
<1>1. \A m \in Mergers : merge[m].st = "idle"
  BY DEF OpenBase, Documented, Merging
<1>2. TypeOK'
  BY DEF StoreInv, TypeOK, OpenBase
<1>3. (OneReply(base) /\ Kept /\ ShardFiles)'
  BY DEF StoreInv, OneReply, SameDigest, Kept, ShardFiles, OpenBase
<1>4. Alone'
  BY <1>1 DEF StoreInv, Alone, OpenBase
<1>5. \A m \in Mergers : CollectedBy(m)'
  BY DEF StoreInv, CollectedBy, OpenBase, OneReply, SameDigest
<1>6. \A q \in Runs : Served(q)'
  BY DEF StoreInv, TypeOK, Served, OpenBase
<1>7. QED
  BY <1>2, <1>3, <1>4, <1>5, <1>6 DEF StoreInv

(* Opening the shard completes the run's view of its own history. *)
LEMMA OpenShardIInv ==
    ASSUME Documented, StoreInv, NEW p \in Runs, OpenShard(p)
    PROVE  StoreInv'
<1> DEFINE g == TagOf[p]
<1>1. g \in Tags /\ shard[g] \in ShardFile /\ shard[g].unended = {} /\ run[p].recs = base
  BY TagIsTag DEF StoreInv, TypeOK, ShardFiles, Served, OpenShard
<1>2. RecordsIn(shard[g]) = shard[g].recs
  BY <1>1 DEF RecordsIn
<1>3. acked[g] \subseteq base \union shard[g].recs
  BY <1>1 DEF StoreInv, Kept
<1>4. \/ ~shard[g].torn /\ run' = [run EXCEPT ![p] = [st |-> "open", recs |-> base \union shard[g].recs]]
      \/ run' = [run EXCEPT ![p] = NotOpen]
  <2>2. run' = [run EXCEPT ![p] =
                  IF Readable(run[p].recs, shard[g])
                    THEN [st |-> "open", recs |-> run[p].recs \union RecordsIn(shard[g])]
                    ELSE NotOpen]
    BY DEF OpenShard, OwnShard
  <2>4. CASE Readable(run[p].recs, shard[g])
    BY <1>1, <1>2, <2>2, <2>4 DEF Readable
  <2>5. QED
    BY <2>2, <2>4
<1>5. UNCHANGED <<base, shard, merge, acked>> /\ run[p].st = "opening"
  BY DEF OpenShard
<1>6. \A m \in Mergers : merge[m].st = "idle"
  BY <1>5 DEF StoreInv, Alone
<1>7. TypeOK'
  <2>1. base \union shard[g].recs \in SUBSET Rec
    BY <1>1 DEF StoreInv, TypeOK, ShardFile
  <2>2. run' \in [Runs -> [st : {"closed", "opening", "open"}, recs : SUBSET Rec]]
    BY <1>4, <2>1 DEF StoreInv, TypeOK, NotOpen
  <2>3. QED
    BY <1>5, <2>2 DEF StoreInv, TypeOK
<1>8. (OneReply(base) /\ Kept /\ ShardFiles)'
  BY <1>5 DEF StoreInv, OneReply, SameDigest, Kept, ShardFiles
<1>9. Alone'
  BY <1>5, <1>6 DEF StoreInv, Alone
<1>10. \A m \in Mergers : CollectedBy(m)'
  BY <1>5 DEF StoreInv, CollectedBy, OneReply, SameDigest
<1>11. \A q \in Runs : Served(q)'
  <2>1. ASSUME NEW q \in Runs, q # p PROVE Served(q)'
    BY <1>4, <1>5, <2>1 DEF StoreInv, TypeOK, Served
  <2>2. Served(p)'
    <3>1. CASE ~shard[g].torn /\ run' = [run EXCEPT ![p] = [st |-> "open", recs |-> base \union shard[g].recs]]
      <4>1. run'[p].st = "open" /\ run'[p].recs = base \union shard[g].recs
        BY <3>1 DEF StoreInv, TypeOK
      <4>2. QED
        BY <1>3, <1>5, <3>1, <4>1 DEF Served
    <3>2. CASE run' = [run EXCEPT ![p] = NotOpen]
      BY <3>2 DEF StoreInv, TypeOK, Served, NotOpen
    <3>3. QED
      BY <1>4, <3>1, <3>2
  <2>3. QED
    BY <2>1, <2>2
<1>12. QED
  BY <1>7, <1>8, <1>9, <1>10, <1>11 DEF StoreInv

(* An insert that returned Ok is on disk and in memory. *)
LEMMA RecordIInv ==
    ASSUME Documented, StoreInv, NEW p \in Runs, NEW k \in Keys, NEW reply \in Replies,
           Record(p, k, reply)
    PROVE  StoreInv'
<1> DEFINE g == TagOf[p]
<1> DEFINE r == [key |-> k, reply |-> reply]
<1>1. g \in Tags /\ shard[g] \in ShardFile /\ shard[g].unended = {} /\ ~shard[g].torn /\ r \in Rec
  BY TagIsTag DEF StoreInv, TypeOK, ShardFiles, Served, Record, Rec
<1>2. /\ shard' = [shard EXCEPT ![g] = [shard[g] EXCEPT !.exists = TRUE, !.recs = @ \union {r}]]
      /\ run' = [run EXCEPT ![p].recs = @ \union {r}]
      /\ acked' = [acked EXCEPT ![g] = @ \union {r}]
      /\ UNCHANGED <<base, merge>> /\ run[p].st = "open"
  BY <1>1 DEF Record, Appended
<1>3. \A m \in Mergers : merge[m].st = "idle"
  BY <1>2 DEF StoreInv, Alone
<1>4. \A q \in Runs : q # p => TagOf[q] # g
  BY DEF Documented
<1>5. TypeOK'
  <2>1. shard' \in [Tags -> ShardFile]
    <3>1. shard \in [Tags -> ShardFile]
      BY DEF StoreInv, TypeOK
    <3>2. [shard[g] EXCEPT !.exists = TRUE, !.recs = @ \union {r}] \in ShardFile
      BY <1>1 DEF ShardFile
    <3> HIDE DEF r
    <3>3. QED
      BY <1>1, <1>2, <3>1, <3>2
  <2>2. run' \in [Runs -> [st : {"closed", "opening", "open"}, recs : SUBSET Rec]]
    BY <1>1, <1>2 DEF StoreInv, TypeOK
  <2>3. acked' \in [Tags -> SUBSET Rec]
    BY <1>1, <1>2 DEF StoreInv, TypeOK
  <2>4. QED
    BY <1>2, <2>1, <2>2, <2>3 DEF StoreInv, TypeOK
<1>6. OneReply(base)' /\ Kept' /\ ShardFiles'
  BY <1>1, <1>2 DEF StoreInv, TypeOK, OneReply, SameDigest, Kept, ShardFiles, ShardFile
<1>7. Alone'
  BY <1>2, <1>3 DEF StoreInv, Alone
<1>8. \A m \in Mergers : CollectedBy(m)'
  BY <1>2, <1>3 DEF StoreInv, CollectedBy, OneReply, SameDigest
<1>9. \A q \in Runs : Served(q)'
  <2>1. Served(p)'
    BY <1>1, <1>2 DEF StoreInv, TypeOK, Served, ShardFile
  <2>2. ASSUME NEW q \in Runs, q # p PROVE Served(q)'
    <3>1. shard'[TagOf[q]] = shard[TagOf[q]] /\ acked'[TagOf[q]] = acked[TagOf[q]] /\ run'[q] = run[q]
      BY <1>2, <1>4, <2>2, TagIsTag DEF StoreInv, TypeOK
    <3>2. QED
      BY <1>2, <3>1 DEF StoreInv, Served
  <2>3. QED
    BY <2>1, <2>2
<1>10. QED
  BY <1>5, <1>6, <1>7, <1>8, <1>9 DEF StoreInv

(* A crash inside an append spoils the shard but closes its only run. *)
LEMMA BreakIInv ==
    ASSUME Documented, StoreInv, NEW p \in Runs, NEW k \in Keys, NEW reply \in Replies,
           BreakAppend(p, k, reply)
    PROVE  StoreInv'
<1> DEFINE g == TagOf[p]
<1>1. g \in Tags /\ shard[g] \in ShardFile /\ shard[g].unended = {}
  BY TagIsTag DEF StoreInv, TypeOK, ShardFiles
<1>2. /\ shard' = [shard EXCEPT ![g] = [shard[g] EXCEPT !.exists = TRUE, !.unended = {}, !.torn = TRUE]]
      /\ run' = [run EXCEPT ![p] = NotOpen]
      /\ UNCHANGED <<base, merge, acked>> /\ run[p].st = "open"
  <2>1. PICK how \in Breaks :
          /\ shard' = [shard EXCEPT ![g] =
                         IF how = "unended" /\ ~@.torn /\ @.unended = {}
                           THEN [@ EXCEPT !.exists = TRUE, !.unended = {[key |-> k, reply |-> reply]}]
                           ELSE [@ EXCEPT !.exists = TRUE, !.unended = {}, !.torn = TRUE]]
          /\ run' = IF how = "failed" THEN run ELSE [run EXCEPT ![p] = NotOpen]
    BY DEF BreakAppend
  <2>2. how = "torn"
    BY <2>1 DEF Documented
  <2>3. QED
    BY <2>1, <2>2 DEF BreakAppend
<1>3. \A m \in Mergers : merge[m].st = "idle"
  BY <1>2 DEF StoreInv, Alone
<1>4. \A q \in Runs : q # p => TagOf[q] # g
  BY DEF Documented
<1>5. TypeOK'
  BY <1>1, <1>2 DEF StoreInv, TypeOK, ShardFile, NotOpen
<1>6. OneReply(base)' /\ Kept' /\ ShardFiles'
  BY <1>1, <1>2 DEF StoreInv, TypeOK, OneReply, SameDigest, Kept, ShardFiles, ShardFile
<1>7. Alone'
  BY <1>2, <1>3 DEF StoreInv, Alone
<1>8. \A m \in Mergers : CollectedBy(m)'
  BY <1>2, <1>3 DEF StoreInv, CollectedBy, OneReply, SameDigest
<1>9. \A q \in Runs : Served(q)'
  <2>1. Served(p)'
    BY <1>2 DEF StoreInv, TypeOK, Served, NotOpen
  <2>2. ASSUME NEW q \in Runs, q # p PROVE Served(q)'
    <3>1. shard'[TagOf[q]] = shard[TagOf[q]] /\ run'[q] = run[q]
      BY <1>2, <1>4, <2>2, TagIsTag DEF StoreInv, TypeOK
    <3>2. QED
      BY <1>2, <3>1 DEF StoreInv, Served
  <2>3. QED
    BY <2>1, <2>2
<1>10. QED
  BY <1>5, <1>6, <1>7, <1>8, <1>9 DEF StoreInv

(* A run that ends leaves the disk as it is. *)
LEMMA CloseIInv ==
    ASSUME StoreInv, NEW p \in Runs, Close(p)
    PROVE  StoreInv'
<1>1. run' = [run EXCEPT ![p] = NotOpen] /\ UNCHANGED <<base, shard, merge, acked>>
  BY DEF Close
<1>2. TypeOK'
  BY <1>1 DEF StoreInv, TypeOK, NotOpen
<1>3. (OneReply(base) /\ Kept /\ ShardFiles)' /\ Alone'
  BY <1>1 DEF StoreInv, TypeOK, OneReply, SameDigest, Kept, ShardFiles, Alone, NotOpen
<1>4. \A m \in Mergers : CollectedBy(m)'
  BY <1>1 DEF StoreInv, CollectedBy, OneReply, SameDigest
<1>5. \A q \in Runs : Served(q)'
  BY <1>1 DEF StoreInv, TypeOK, Served, NotOpen
<1>6. QED
  BY <1>2, <1>3, <1>4, <1>5 DEF StoreInv

(* A step of a merge that writes nothing: what remains to show is what the
   merge has collected. *)
LEMMA MergeReads ==
    ASSUME Documented, StoreInv, NEW m \in Mergers, NEW new,
           merge' = [merge EXCEPT ![m] = new], UNCHANGED <<base, shard, run, acked>>,
           merge[m].st # "idle" \/ (~Opened /\ ~Merging),
           TypeOK', CollectedBy(m)'
    PROVE  StoreInv'
<1>1. (OneReply(base) /\ Kept /\ ShardFiles)' /\ (\A p \in Runs : Served(p)')
  BY DEF StoreInv, OneReply, SameDigest, Kept, ShardFiles, Served
<1>2. \A n \in Mergers : n # m => merge'[n] = merge[n] /\ merge[n].st = "idle"
  BY DEF StoreInv, TypeOK, Alone, Merging
<1>3. \A p \in Runs : run'[p].st = "closed"
  BY DEF StoreInv, Alone, Opened
<1>4. Alone'
  BY <1>2, <1>3 DEF Alone
<1>5. \A n \in Mergers : CollectedBy(n)'
  BY <1>2 DEF StoreInv, CollectedBy, OneReply, SameDigest
<1>6. QED
  BY <1>1, <1>4, <1>5 DEF StoreInv

(* Reading base, directory and shards collects records that still load. *)
LEMMA MergeReadIInv ==
    ASSUME Documented, StoreInv, NEW m \in Mergers,
           MergeBase(m) \/ MergeList(m) \/ (\E g \in Tags : MergeShard(m, g)) \/ MergeCrash(m)
    PROVE  StoreInv'
<1>1. UNCHANGED <<base, shard, run, acked>>
  BY DEF MergeBase, MergeList, MergeShard, MergeCrash
<1>2. merge[m].st # "idle" \/ (~Opened /\ ~Merging)
  BY DEF MergeBase, MergeList, MergeShard, MergeCrash, Documented
<1>3. CASE MergeBase(m)
  <2>1. merge' = [merge EXCEPT ![m] = [st |-> "list", recs |-> base, todo |-> {}, remove |-> {}]]
    BY <1>3 DEF MergeBase
  <2>2. TypeOK' /\ CollectedBy(m)'
    BY <1>1, <2>1 DEF StoreInv, TypeOK, CollectedBy, OneReply, SameDigest
  <2>3. QED
    BY <1>1, <1>2, <2>1, <2>2, MergeReads
<1>4. ASSUME merge' = [merge EXCEPT ![m] = NoMerge] PROVE StoreInv'
  <2>1. TypeOK' /\ CollectedBy(m)'
    BY <1>1, <1>4 DEF StoreInv, TypeOK, NoMerge, CollectedBy, OneReply
  <2>2. QED
    BY <1>1, <1>2, <1>4, <2>1, MergeReads
<1>5. CASE MergeList(m)
  <2> DEFINE found == {g \in Tags : shard[g].exists}
  <2>1. CASE merge' = [merge EXCEPT ![m] = 
                  [st |-> "read", recs |-> merge[m].recs, todo |-> found, remove |-> found]]
    <3>1. TypeOK'
      BY <1>1, <2>1 DEF StoreInv, TypeOK
    <3>2. \A g \in Tags \ found : shard[g].recs = {}
      BY DEF StoreInv, ShardFiles
    <3>3. merge'[m].st = "read" /\ merge'[m].todo = found /\ merge'[m].recs = merge[m].recs
      BY <2>1 DEF StoreInv, TypeOK
    <3>4. merge[m].st = "list"
      BY <1>5 DEF MergeList
    <3>5. CollectedBy(m)'
      BY <1>1, <3>2, <3>3, <3>4 DEF StoreInv, CollectedBy, OneReply, SameDigest
    <3>6. QED
      BY <1>1, <1>2, <2>1, <3>1, <3>5, MergeReads
  <2>2. QED
    BY <1>4, <1>5, <2>1 DEF MergeList
<1>6. ASSUME NEW g \in Tags, MergeShard(m, g) PROVE StoreInv'
  <2> DEFINE recs == IF shard[g].exists THEN RecordsIn(shard[g]) ELSE {}
  <2> DEFINE new  == [st |-> "read", recs |-> merge[m].recs \union recs,
                      todo |-> merge[m].todo \ {g}, remove |-> merge[m].remove]
  <2>1. merge[m].st = "read" /\ merge[m].recs \subseteq Rec /\ merge[m].todo \subseteq merge[m].remove
    BY <1>6 DEF MergeShard, StoreInv, TypeOK
  <2>2. recs = shard[g].recs /\ recs \subseteq Rec
    BY DEF StoreInv, TypeOK, ShardFiles, RecordsIn, ShardFile
  <2>3. \/ merge' = [merge EXCEPT ![m] = NoMerge]
        \/ /\ merge' = [merge EXCEPT ![m] = new]
           /\ shard[g].exists => Readable(merge[m].recs, shard[g])
    BY <1>6 DEF MergeShard
  <2>4. CASE /\ merge' = [merge EXCEPT ![m] = new]
             /\ shard[g].exists => Readable(merge[m].recs, shard[g])
    <3>1. TypeOK'
      BY <1>1, <2>1, <2>2, <2>4 DEF StoreInv, TypeOK
    <3>2. merge'[m] = new
      BY <2>4 DEF StoreInv, TypeOK
    <3>3. OneReply(merge[m].recs)
      BY DEF StoreInv, CollectedBy
    <3>4. OneReply(merge[m].recs \union recs)
      <4>1. CASE shard[g].exists
        BY <2>4, <3>3, <4>1, LoadsOneReply DEF Readable
      <4>2. CASE ~shard[g].exists
        BY <3>3, <4>2 DEF OneReply
      <4>3. QED
        BY <4>1, <4>2
    <3>5. OneReply(merge[m].recs)'
      BY <3>2, <3>4 DEF OneReply, SameDigest
    <3>6. base \subseteq merge[m].recs
          /\ \A h \in Tags \ merge[m].todo : shard[h].recs \subseteq merge[m].recs
      BY <2>1 DEF StoreInv, CollectedBy
    <3>7. CollectedBy(m)'
      BY <1>1, <2>2, <3>2, <3>5, <3>6 DEF CollectedBy
    <3>8. QED
      BY <1>1, <1>2, <2>4, <3>1, <3>7, MergeReads
  <2>5. QED
    BY <1>4, <2>3, <2>4
<1>7. QED
  BY <1>3, <1>4, <1>5, <1>6 DEF MergeCrash

(* The rename publishes a base that holds the old one and every shard. *)
LEMMA MergeRenameIInv ==
    ASSUME Documented, StoreInv, NEW m \in Mergers, MergeRename(m)
    PROVE  StoreInv'
<1>1. /\ merge[m].st = "read" /\ merge[m].todo = {}
      /\ base' = merge[m].recs /\ merge' = [merge EXCEPT ![m].st = "remove"]
      /\ UNCHANGED <<shard, run, acked>>
  BY DEF MergeRename
<1>2. base \subseteq base' /\ (\A g \in Tags : shard[g].recs \subseteq base')
  BY <1>1 DEF StoreInv, CollectedBy
<1>3. TypeOK'
  BY <1>1 DEF StoreInv, TypeOK
<1>4. OneReply(base)' /\ Kept' /\ ShardFiles' /\ Alone'
  BY <1>1, <1>2 DEF StoreInv, TypeOK, OneReply, SameDigest, Kept, ShardFiles, Alone, CollectedBy
<1>5. \A n \in Mergers : n # m => merge'[n] = merge[n] /\ merge[n].st = "idle"
  BY <1>1 DEF StoreInv, TypeOK, Alone
<1>6. merge'[m].st = "remove" /\ merge'[m].recs = merge[m].recs /\ merge'[m].todo = {}
  BY <1>1 DEF StoreInv, TypeOK
<1>7. \A n \in Mergers : CollectedBy(n)'
  BY <1>1, <1>2, <1>5, <1>6 DEF StoreInv, CollectedBy, OneReply, SameDigest
<1>8. \A p \in Runs : Served(p)'
  BY <1>1 DEF StoreInv, Alone, Served
<1>9. QED
  BY <1>3, <1>4, <1>7, <1>8 DEF StoreInv

(* Removing a shard loses nothing: the base holds its records. *)
LEMMA MergeRemoveIInv ==
    ASSUME Documented, StoreInv, NEW m \in Mergers, NEW g \in Tags, MergeRemove(m, g)
    PROVE  StoreInv'
<1>1. /\ merge[m].st = "remove" /\ shard' = [shard EXCEPT ![g] = NoShardFile]
      /\ UNCHANGED <<base, run, acked>>
  BY DEF MergeRemove
<1>2. NoShardFile \in ShardFile /\ NoShardFile.recs = {} /\ NoShardFile.unended = {}
  BY DEF NoShardFile, ShardFile
<1>3. \A h \in Tags : shard[h].recs \subseteq base
  BY <1>1 DEF StoreInv, CollectedBy
<1>4. \A h \in Tags : shard'[h].recs \subseteq base
  BY <1>1, <1>2, <1>3 DEF StoreInv, TypeOK
<1>5. merge[m].todo = {} /\ OneReply(merge[m].recs)
  BY <1>1 DEF StoreInv, CollectedBy
<1>6. \/ merge' = [merge EXCEPT ![m] = NoMerge]
      \/ merge' = [merge EXCEPT ![m].remove = @ \ {g}]
  BY DEF MergeRemove
<1>7. TypeOK'
  <2>1. shard' \in [Tags -> ShardFile]
    BY <1>1, <1>2 DEF StoreInv, TypeOK
  <2>2. CASE merge' = [merge EXCEPT ![m] = NoMerge]
    BY <1>1, <2>1, <2>2 DEF StoreInv, TypeOK, NoMerge
  <2>3. CASE merge' = [merge EXCEPT ![m].remove = @ \ {g}]
    <3>1. merge = [k \in Mergers |-> merge[k]] /\ merge[m].todo = {}
          /\ \A k \in Mergers : /\ merge[k].remove \subseteq Tags /\ merge[k].recs \subseteq Rec
                                /\ merge[k] = [st |-> merge[k].st, recs |-> merge[k].recs,
                                               todo |-> merge[k].todo, remove |-> merge[k].remove]
      BY <1>1, <1>5 DEF StoreInv, TypeOK
    <3>2. merge' = [k \in Mergers |-> IF k = m THEN [st |-> merge[m].st, recs |-> merge[m].recs, todo |-> {},
                                                     remove |-> merge[m].remove \ {g}] ELSE merge[k]]
      <4>1. merge' = [k \in Mergers |-> IF k = m THEN [merge[m] EXCEPT !.remove = merge[m].remove \ {g}] ELSE merge[k]]
        BY <2>3, <3>1
      <4>2. [merge[m] EXCEPT !.remove = merge[m].remove \ {g}]
              = [st |-> merge[m].st, recs |-> merge[m].recs, todo |-> {}, remove |-> merge[m].remove \ {g}]
        <5>1. ASSUME NEW r, NEW x, r = [st |-> r.st, recs |-> r.recs, todo |-> r.todo, remove |-> r.remove]
              PROVE  [r EXCEPT !.remove = x] = [st |-> r.st, recs |-> r.recs, todo |-> r.todo, remove |-> x]
          BY <5>1
        <5>2. PICK r : r = merge[m]
          OBVIOUS
        <5>3. r = [st |-> r.st, recs |-> r.recs, todo |-> r.todo, remove |-> r.remove] /\ r.todo = {}
          BY <3>1, <5>2
        <5>4. PICK x : x = merge[m].remove \ {g}
          OBVIOUS
        <5>5. [r EXCEPT !.remove = x] = [st |-> r.st, recs |-> r.recs, todo |-> r.todo, remove |-> x]
          BY <5>1, <5>3
        <5>6. [merge[m] EXCEPT !.remove = merge[m].remove \ {g}] = [r EXCEPT !.remove = x]
          BY <5>2, <5>4
        <5> QED BY <5>2, <5>3, <5>4, <5>5, <5>6
      <4> QED BY <4>1, <4>2
    <3>3. \A k \in Mergers : merge'[k].todo \subseteq merge'[k].remove
      BY <3>1, <3>2 DEF StoreInv, TypeOK
    <3>4. merge' \in [Mergers -> [st : {"idle", "list", "read", "remove"}, recs : SUBSET Rec,
                                  todo : SUBSET Tags, remove : SUBSET Tags]]
      BY <3>1, <3>2 DEF StoreInv, TypeOK
    <3> QED BY <1>1, <2>1, <3>3, <3>4 DEF StoreInv, TypeOK
  <2>4. QED
    BY <1>6, <2>2, <2>3
<1>8. OneReply(base)' /\ Kept' /\ ShardFiles'
  BY <1>1, <1>2, <1>3 DEF StoreInv, TypeOK, OneReply, SameDigest, Kept, ShardFiles
<1>9. \A p \in Runs : run[p].st = "closed"
  BY <1>1 DEF StoreInv, Alone
<1>10. \A n \in Mergers : n # m => merge'[n] = merge[n] /\ merge[n].st = "idle"
  <2>1. \A n \in Mergers : n # m => merge[n].st = "idle"
    BY <1>1 DEF StoreInv, Alone
  <2>2. CASE merge' = [merge EXCEPT ![m] = NoMerge]
    BY <2>1, <2>2 DEF StoreInv, TypeOK
  <2>3. CASE merge' = [merge EXCEPT ![m].remove = @ \ {g}]
    BY <2>1, <2>3 DEF StoreInv, TypeOK
  <2>4. QED
    BY <1>6, <2>2, <2>3
<1>11. Alone'
  BY <1>1, <1>9, <1>10 DEF Alone
<1>12. CollectedBy(m)'
  <2>1. CASE merge' = [merge EXCEPT ![m] = NoMerge]
    BY <2>1 DEF StoreInv, TypeOK, NoMerge, CollectedBy, OneReply
  <2>2. CASE merge' = [merge EXCEPT ![m].remove = @ \ {g}]
    <3>1. merge'[m].st = "remove" /\ merge'[m].todo = {} /\ merge'[m].recs = merge[m].recs
      BY <1>1, <1>5, <2>2 DEF StoreInv, TypeOK
    <3>2. QED
      BY <1>1, <1>4, <1>5, <3>1 DEF CollectedBy, OneReply, SameDigest
  <2>3. QED
    BY <1>6, <2>1, <2>2
<1>13. \A n \in Mergers : CollectedBy(n)'
  BY <1>1, <1>10, <1>12 DEF StoreInv, CollectedBy, OneReply, SameDigest
<1>14. \A p \in Runs : Served(p)'
  BY <1>1, <1>9 DEF Served
<1>15. QED
  BY <1>7, <1>8, <1>11, <1>13, <1>14 DEF StoreInv

(* Every step keeps the invariant. *)
LEMMA NextIInv == ASSUME Documented, StoreInv, [StoreNext]_storevars PROVE StoreInv'
<1>1. CASE UNCHANGED storevars
  BY <1>1 DEF storevars, StoreInv, TypeOK, OneReply, SameDigest, Kept, ShardFiles, Alone, CollectedBy, Served
<1>2. ASSUME NEW p \in Runs, Run(p) PROVE StoreInv'
  BY <1>2, OpenBaseIInv, OpenShardIInv, RecordIInv, BreakIInv, CloseIInv DEF Run
<1>3. ASSUME NEW m \in Mergers, Merger(m) PROVE StoreInv'
  BY <1>3, MergeReadIInv, MergeRenameIInv, MergeRemoveIInv DEF Merger
<1>4. QED
  BY <1>1, <1>2, <1>3 DEF StoreNext

(* The invariant holds for ever. *)
THEOREM StoreIInv == ASSUME Documented PROVE StoreSpec => []StoreInv
<1>1. StoreInv /\ [StoreNext]_storevars => StoreInv'
  BY NextIInv
<1>2. QED
  BY <1>1, InitIInv, PTL DEF StoreSpec

(* No response whose insert returned Ok is ever lost. *)
THEOREM StoreNoLostRecord == ASSUME Documented PROVE StoreSpec => []NoLostRecord
<1>1. StoreInv => NoLostRecord
  BY DEF StoreInv, Kept, NoLostRecord, OnDisk, RecordsIn
<1>2. QED
  BY <1>1, StoreIInv, PTL

(* The base loads: it never holds two records of one digest. *)
THEOREM StoreBaseLoads == ASSUME Documented PROVE StoreSpec => []BaseLoads
<1>1. StoreInv => BaseLoads
  BY DEF StoreInv, OneReply, SameDigest, BaseLoads
<1>2. QED
  BY <1>1, StoreIInv, PTL

(* A run that opened the store serves all its tag ever recorded. *)
THEOREM StoreOwnHistorySeen == ASSUME Documented PROVE StoreSpec => []OwnHistorySeen
<1>1. StoreInv => OwnHistorySeen
  BY DEF StoreInv, Served, OwnHistorySeen
<1>2. QED
  BY <1>1, StoreIInv, PTL

(* An open store serves nothing that is not on disk. *)
THEOREM StoreServedIsStored == ASSUME Documented PROVE StoreSpec => []ServedIsStored
<1>1. StoreInv => ServedIsStored
  BY TagIsTag DEF StoreInv, Served, ServedIsStored, OnDisk, RecordsIn
<1>2. QED
  BY <1>1, StoreIInv, PTL
=============================================================================
