------------------------------- MODULE Artifacts -------------------------------
(***************************************************************************)
(* Exported artifacts of a game: a solution set collects what the solvers  *)
(* return, each entry checked against the game before it is taken, and     *)
(* write_artifacts publishes the specification and then the solutions, if  *)
(* it was given any, each through a temporary file.  Several programs      *)
(* export into one directory; a write may fail and a program may crash     *)
(* anywhere.                                                               *)
(***************************************************************************)
EXTENDS Integers, Sequences, FiniteSets, SequencesExt
CONSTANTS Exporter, Specs,      \* programs, and games: [name, finite, dims] (actions or dimensions of the roles)
          Results,              \* what solvers hand over: sequences of entries
          MaxExports            \* bound: calls of one program

\* Entries of any kind, and sequences of them.
EntriesHanded == UNION {Range(entries) : entries \in Results}
ASSUME ArtifactAssumption == Results \subseteq Seq(EntriesHanded) /\ MaxExports \in Nat

VARIABLES exports,   \* exporter -> [spec, set, pc, calls, error]: the program
          folder,    \* file name -> what it holds, of the published files
          temps,     \* exporter -> the content of its temporary file, Nothing without one
          broken     \* ghost: since the last whole call one had no solutions, was cut short
                     \* between the files, or met another
avars == <<exports, folder, temps, broken>>

Nothing == [of |-> <<>>, entries |-> <<>>, whole |-> FALSE]
Content(spec, entries) == [of |-> <<spec.name, spec.dims>>, entries |-> entries, whole |-> TRUE]

\* Each kind of entry wants a kind of game and dimensions: a vector for each role, one
\* vector if all roles have the same actions, or actions that exist.
Fits(spec, entry) ==
  /\ entry.sound
  /\ CASE entry.kind \in {"nash", "qre"} -> spec.finite /\ entry.dims = spec.dims
       [] entry.kind \in {"population", "population_component"} ->
            /\ spec.finite /\ Len(spec.dims) > 0 /\ \A role \in DOMAIN spec.dims : spec.dims[role] = spec.dims[1]
            /\ \A v \in DOMAIN entry.dims : entry.dims[v] = spec.dims[1]
       [] entry.kind = "continuous" -> ~spec.finite /\ entry.dims = spec.dims
       [] entry.kind = "inconclusive" ->
            /\ spec.finite /\ Len(entry.dims) = Len(spec.dims)
            /\ \A role \in DOMAIN spec.dims : entry.dims[role] <= spec.dims[role]
Fresh(set, id) == \A k \in DOMAIN set : set[k].id # id
Accepts(spec, set, entry) == Fits(spec, entry) /\ Fresh(set, entry.id)

\* push_..._all: one entry after the other; those before a refused one stay.
Pushed(spec, set, entries) ==
  LET after[k \in 0 .. Len(entries)] ==
        IF k = 0 THEN [set |-> set, ok |-> TRUE]
        ELSE LET before == after[k - 1]
             IN  IF before.ok /\ Accepts(spec, before.set, entries[k])
                 THEN [set |-> Append(before.set, entries[k]), ok |-> TRUE]
                 ELSE [set |-> before.set, ok |-> FALSE]
  IN  after[Len(entries)]

\* What support_enumeration returns as entries: equilibria, and for each finding its
\* support, a component with its base before it.
Entry(id, kind, dims) == [id |-> id, kind |-> kind, dims |-> dims, sound |-> TRUE]
EquilibriumSet(prefix, dims, equilibria, findings) ==
  [k \in 1 .. equilibria |-> Entry(<<prefix, "", k>>, "nash", dims)]
  \o FlattenSeq([k \in DOMAIN findings |->
       (IF findings[k] = "component" THEN <<Entry(<<prefix, "c", k>>, "nash", dims)>> ELSE <<>>)
       \o <<Entry(<<prefix, "f", k>>, "inconclusive", dims)>>])
FixedPointSet(prefix, dims, isolated, components, inconclusive) ==
  [k \in 1 .. isolated |-> Entry(<<prefix, "", k>>, "population", <<dims[1]>>)]
  \o [k \in 1 .. components |-> Entry(<<prefix, "c", k>>, "population_component", <<dims[1], dims[1]>>)]
  \o [k \in 1 .. inconclusive |-> Entry(<<prefix, "f", k>>, "inconclusive", dims)]

-----------------------------------------------------------------------------
ArtifactInit ==
  /\ exports \in [Exporter -> {[spec |-> s, set |-> <<>>, from |-> s, pc |-> "idle", calls |-> 0, error |-> FALSE] : s \in Specs}]
  /\ folder = [f \in {"game_spec.json", "solutions.json"} |-> Nothing]
  /\ temps = [e \in Exporter |-> Nothing] /\ broken = FALSE

Push(e) ==
  /\ exports[e].pc = "idle" /\ exports[e].calls < MaxExports
  /\ \E entries \in Results :
       LET p == Pushed(exports[e].from, exports[e].set, entries)
       IN  exports' = [exports EXCEPT ![e].set = p.set, ![e].error = ~p.ok, ![e].calls = exports[e].calls + 1]
  /\ UNCHANGED <<folder, temps, broken>>
\* The program turns to another game; the set may still be that of the one before.
NextGame(e) ==
  /\ exports[e].pc = "idle" /\ exports[e].calls < MaxExports
  /\ \E s \in Specs, keep \in BOOLEAN :
       exports' = [exports EXCEPT ![e].spec = s, ![e].calls = exports[e].calls + 1, ![e].error = FALSE,
                                  ![e].from = IF keep THEN exports[e].from ELSE s,
                                  ![e].set = IF keep THEN exports[e].set ELSE <<>>]
  /\ UNCHANGED <<folder, temps, broken>>

\* matches: the names, the roles and the labels of both games, not their payoffs.
MatchesName(spec, from) == spec.name # ""    \* mutant: no comparison
Matches(spec, from) == spec.name = from.name /\ spec.finite = from.finite /\ spec.dims = from.dims
\* write_artifacts refuses a set of another game before it touches the directory; called
\* without a set it writes the game only.
WriteArtifacts(e) ==
  /\ exports[e].pc = "idle" /\ exports[e].calls < MaxExports
  /\ \E to \in {"only", IF Matches(exports[e].spec, exports[e].from) THEN "spec" ELSE "idle"} :
       exports' = [exports EXCEPT ![e].calls = exports[e].calls + 1, ![e].pc = to, ![e].error = (to = "idle")]
  /\ broken' = (broken \/ \E o \in Exporter \ {e} : exports[o].pc # "idle")
  /\ UNCHANGED <<folder, temps>>
Writing == {"spec", "only", "solutions"}
File(pc) == IF pc = "solutions" THEN "solutions.json" ELSE "game_spec.json"
\* A set names the game it was collected for.
Artifact(e) == IF exports[e].pc = "solutions" THEN Content(exports[e].from, exports[e].set)
               ELSE Content(exports[e].spec, <<>>)
\* atomic_write: a new temporary file takes the bytes, in parts, and is synchronised ...
WriteTemp(e) ==
  /\ exports[e].pc \in Writing /\ ~temps[e].whole
  /\ \/ temps' = [temps EXCEPT ![e] = Artifact(e)]
     \/ temps[e] = Nothing /\ temps' = [temps EXCEPT ![e] = [Artifact(e) EXCEPT !.whole = FALSE]]
  /\ UNCHANGED <<exports, folder, broken>>
\* ... and then takes the place of the file.  A call that writes both files, alone, mends
\* what others left; one without solutions leaves the old ones beside the new game.
Rename(e) ==
  /\ exports[e].pc \in Writing /\ temps[e].whole
  /\ folder' = [folder EXCEPT ![File(exports[e].pc)] = temps[e]]
  /\ temps' = [temps EXCEPT ![e] = Nothing]
  /\ exports' = [exports EXCEPT ![e].pc = IF exports[e].pc = "spec" THEN "solutions" ELSE "idle"]
  /\ broken' = CASE exports[e].pc = "only" -> TRUE
                 [] exports[e].pc = "spec" /\ (\A o \in Exporter \ {e} : exports[o].pc = "idle") -> FALSE
                 [] OTHER -> broken
\* A failed write removes its temporary file and ends the call; a crash leaves it behind.
WriteFails(e) ==
  /\ exports[e].pc \in Writing
  /\ exports' = [exports EXCEPT ![e].pc = "idle", ![e].error = TRUE]
  /\ temps' = [temps EXCEPT ![e] = Nothing]
  /\ broken' = (broken \/ exports[e].pc = "solutions") /\ UNCHANGED folder
Dies(e) ==
  /\ exports[e].pc \in Writing /\ exports[e].calls < MaxExports
  /\ \E s \in Specs : exports' = [exports EXCEPT ![e] = [spec |-> s, set |-> <<>>, from |-> s, pc |-> "idle",
                                                         calls |-> exports[e].calls + 1, error |-> FALSE]]
  /\ temps' = [temps EXCEPT ![e] = Nothing]     \* its name is never used again
  /\ broken' = (broken \/ exports[e].pc = "solutions") /\ UNCHANGED folder
ArtifactNext == \E e \in Exporter : \/ Push(e) \/ NextGame(e) \/ WriteArtifacts(e) \/ WriteTemp(e)
                                    \/ Rename(e) \/ WriteFails(e) \/ Dies(e)
ArtifactSpec == ArtifactInit /\ [][ArtifactNext]_avars

-----------------------------------------------------------------------------
\* What is published is whole, its ids differ and its entries fit the game it names; and
\* the two files are of one game between calls, unless, since the last call that wrote
\* both, a call gave no solutions, was cut short between the files, or met another.
PublishedWhole ==
  /\ \A f \in DOMAIN folder : folder[f] # Nothing => folder[f].whole
  /\ LET s == folder["solutions.json"].entries
     IN  \A i, j \in DOMAIN s : i # j => s[i].id # s[j].id
  /\ folder["solutions.json"] # Nothing =>
       \E spec \in Specs : /\ <<spec.name, spec.dims>> = folder["solutions.json"].of
                           /\ \A k \in DOMAIN folder["solutions.json"].entries : Fits(spec, folder["solutions.json"].entries[k])
  /\ (\A e \in Exporter : exports[e].pc = "idle") /\ ~broken => folder["solutions.json"].of = folder["game_spec.json"].of
=============================================================================
