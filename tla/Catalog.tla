------------------------------- MODULE Catalog -------------------------------
(***************************************************************************)
(* The built-in finite games: what each constructor accepts, the matrix of *)
(* a game of two roles, and the payoffs of a game of many, by profile and  *)
(* by how many others choose what.  Payoffs are multiplied by what their   *)
(* formula divides by: two for hawk and dove, the players for public goods.*)
(***************************************************************************)
EXTENDS Equilibria
CONSTANTS Offers,        \* parameters handed to constructors: [kind, finite, ...]
          MaxProfiles    \* MAX_PROFILES

VARIABLE offer     \* [of, status]: one game of the catalog, before and after it is built

Coordination(a, b) == a[1] > a[3] /\ a[4] > a[2] /\ b[1] > b[2] /\ b[4] > b[3]
\* Cells are in row-major order; the others of a cell are in its column and in its row.
HasPureCell(a, b) == \E cell \in 1 .. 4 : LET column == ((cell + 1) % 4) + 1
                                              row == IF cell % 2 = 1 THEN cell + 1 ELSE cell - 1
                                          IN  a[cell] >= a[column] /\ b[cell] >= b[row]
ProfileCount(counts) == LET n[k \in 0 .. Len(counts)] == IF k = 0 THEN 1 ELSE n[k - 1] * counts[k] IN n[Len(counts)]
\* MatrixGame::new, with_labels: a payoff for each role and profile, a label for each action.
MatrixFits(o) ==
  /\ Len(o.counts) > 0 /\ \A r \in DOMAIN o.counts : o.counts[r] > 0
  /\ ProfileCount(o.counts) <= MaxProfiles /\ Len(o.pay) = Len(o.counts)
  /\ \A r \in DOMAIN o.pay : Len(o.pay[r]) = ProfileCount(o.counts)
  /\ Len(o.labels) = Len(o.counts) /\ \A r \in DOMAIN o.labels : Len(o.labels[r]) = o.counts[r]
PrisonersDilemma(o) == o.t > o.r /\ o.r > o.p /\ o.p >= o.s
BattleOfSexes(o) == Coordination(o.a, o.b) /\ o.a[1] > o.a[4] /\ o.b[4] > o.b[1]
StagHunt(o) == Coordination(o.a, o.b) /\ o.a[1] > o.a[4] /\ o.b[1] > o.b[4]
MatchingPennies(o) == (\A cell \in 1 .. 4 : o.b[cell] = -o.a[cell]) /\ ~HasPureCell(o.a, o.b)
RockPaperScissors(o) == o.win > 0 /\ o.loss > 0
HawkDove(o) == o.v > 0 /\ o.c > 0
ElFarol(o) == o.n >= 2 /\ o.capacity > 0 /\ o.capacity < o.n
MinorityGame(o) == o.n >= 3 /\ o.n % 2 = 1
PublicGoodsFinite(o) == o.n >= 2 /\ o.r > 0 /\ o.cost > 0
Meets(o) ==
  /\ o.finite
  /\ CASE o.kind = "prisoners_dilemma" -> PrisonersDilemma(o)
       [] o.kind = "battle_of_sexes" -> BattleOfSexes(o)
       [] o.kind = "stag_hunt" -> StagHunt(o)
       [] o.kind = "matching_pennies" -> MatchingPennies(o)
       [] o.kind = "rock_paper_scissors" -> RockPaperScissors(o)
       [] o.kind = "hawk_dove" -> HawkDove(o)
       [] o.kind = "el_farol" -> ElFarol(o)
       [] o.kind = "minority" -> MinorityGame(o)
       [] o.kind = "public_goods" -> PublicGoodsFinite(o)
       [] o.kind = "matrix" -> MatrixFits(o)

\* to_matrix, of the games of two roles.
Bimatrix(n, a, b) == [counts |-> <<n, n>>, pay |-> <<a, b>>]
DilemmaMatrix(o) == Bimatrix(2, <<o.r, o.s, o.t, o.p>>, <<o.r, o.t, o.s, o.p>>)
RoleZero(o) == <<0, -o.loss, o.win, o.win, 0, -o.loss, -o.loss, o.win, 0>>
CyclicMatrix(o) == LET a == RoleZero(o) IN Bimatrix(3, a, <<a[1], a[4], a[7], a[2], a[5], a[8], a[3], a[6], a[9]>>)
HawkDoveMatrix(o) == Bimatrix(2, <<o.v - o.c, 2 * o.v, 0, o.v>>, <<o.v - o.c, 0, 2 * o.v, o.v>>)
ToMatrix(o) ==
  CASE o.kind = "prisoners_dilemma" -> DilemmaMatrix(o)
    [] o.kind = "rock_paper_scissors" -> CyclicMatrix(o)
    [] o.kind = "hawk_dove" -> HawkDoveMatrix(o)
    [] OTHER -> Bimatrix(2, o.a, o.b)
HawkShareEss(o) == IF o.v < o.c THEN <<o.v, o.c - o.v>> ELSE <<1, 0>>

\* payoff: the first action is to attend, to contribute, or one of two sides.
Choosing(p, a) == Cardinality({r \in DOMAIN p : p[r] = a})
ElFarolPays(o, own, p) == IF own = 2 THEN 0 ELSE IF Choosing(p, 1) <= o.capacity THEN 1 ELSE -1
MinorityPays(o, own, p) == IF Choosing(p, own) < o.n - Choosing(p, own) THEN 1 ELSE 0
WithContributors(o, a, contributors) == o.r * o.cost * contributors - (IF a = 1 THEN o.cost * o.n ELSE 0)
PayoffOf(o, role, p) ==
  CASE o.kind = "el_farol" -> ElFarolPays(o, p[role], p)
    [] o.kind = "minority" -> MinorityPays(o, p[role], p)
    [] o.kind = "public_goods" -> WithContributors(o, p[role], Choosing(p, 1))

\* payoff_by_counts: the same, from what the others do.
RoomLeft(o, attending) == attending <= o.capacity    \* mutant: the own seat is forgotten
Room(o, attending) == attending < o.capacity
ByCounts(o, a, counts) ==
  CASE o.kind = "el_farol" -> IF a = 2 THEN 0 ELSE IF Room(o, counts[1]) THEN 1 ELSE -1
    [] o.kind = "minority" -> IF counts[a] + 1 < counts[3 - a] THEN 1 ELSE 0
    [] o.kind = "public_goods" -> WithContributors(o, a, counts[1] + (IF a = 1 THEN 1 ELSE 0))
    [] o.kind = "hawk_dove" -> counts[1] * Own(ToMatrix(o), 1, a, 1) + counts[2] * Own(ToMatrix(o), 1, a, 2)

\* metric_action_ids: one id for an action of all roles if counts and labels agree.
Pooled(o) == \A role \in DOMAIN o.counts : o.counts[role] = o.counts[1] /\ o.labels[role] = o.labels[1]
MetricIds(o) == IF Pooled(o) THEN [k \in 1 .. o.counts[1] |-> [role |-> 0, action |-> k]]
                ELSE FlattenSeq([role \in DOMAIN o.counts |-> [k \in 1 .. o.counts[role] |-> [role |-> role, action |-> k]]])
MetricId(o, role, action) == SelectSeq(MetricIds(o), LAMBDA id : id.action = action /\ id.role \in {0, role})

CatalogInit == offer \in [of : Offers, status : {"offered"}]
Construct == /\ offer.status = "offered"
             /\ offer' = [offer EXCEPT !.status = IF Meets(offer.of) THEN "game" ELSE "refused"]

-----------------------------------------------------------------------------
(* Property *)

\* Which supports carry an equilibrium, and which one.
Mixed(g) == UNION {ExamineSupport(g, R, C) : R \in SUBSET (1 .. g.counts[1]) \ {{}}, C \in SUBSET (1 .. g.counts[2]) \ {{}}}
Equilibria2(g) == {<<Shrunk(e.x), Shrunk(e.y)>> : e \in {f \in Mixed(g) : f.kind # "none"}}
TwoRolesAsNamed(o, g, found) ==
  CASE o.kind = "prisoners_dilemma" ->
         /\ <<2, 2>> \in PureNash(g) /\ <<1, 1>> \notin PureNash(g)
         /\ (o.p > o.s <=> Surviving(g) = <<{2}, {2}>>)
         /\ IsSymmetric(g) /\ \A role \in {1, 2} : Payoff(g, role, <<1, 1>>) > Payoff(g, role, <<2, 2>>)
    [] o.kind \in {"battle_of_sexes", "stag_hunt"} ->
         /\ PureNash(g) = {<<1, 1>>, <<2, 2>>} /\ Payoff(g, 1, <<1, 1>>) > Payoff(g, 1, <<2, 2>>)
         /\ Payoff(g, 2, <<1, 1>>) > Payoff(g, 2, <<2, 2>>) <=> o.kind = "stag_hunt"
    [] o.kind = "matching_pennies" ->
         /\ PureNash(g) = {} /\ Cardinality(found) = 1
         /\ \A e \in found : Support(e[1]) = {1, 2} /\ Support(e[2]) = {1, 2}
    [] o.kind = "rock_paper_scissors" ->
         /\ IsSymmetric(g) /\ found = {<< <<1, 1, 1>>, <<1, 1, 1>> >>}
         /\ EssVerdict(g, <<1, 1, 1>>) = (IF o.win > o.loss THEN "true" ELSE "false")
    [] o.kind = "hawk_dove" ->
         /\ IsSymmetric(g) /\ EssVerdict(g, HawkShareEss(o)) = "true"
         /\ \A a, b \in {1, 2} : ByCounts(o, a, [c \in {1, 2} |-> IF c = b THEN 1 ELSE 0]) = Own(g, 1, a, b)
ManyRolesAsNamed(o) ==
  LET all == [1 .. o.n -> {1, 2}]
      Others(p, role) == [a \in {1, 2} |-> Choosing(p, a) - (IF p[role] = a THEN 1 ELSE 0)]
      stable == {p \in all : \A r \in 1 .. o.n, a \in {1, 2} : PayoffOf(o, r, [p EXCEPT ![r] = a]) <= PayoffOf(o, r, p)}
      counts == {Choosing(p, 1) : p \in stable}
      pay == [a \in {1, 2} |-> [c \in [{1, 2} -> 0 .. o.n] |-> ByCounts(o, a, c)]]
  IN  /\ \A p \in all, r \in 1 .. o.n : PayoffOf(o, r, p) = ByCounts(o, p[r], Others(p, r))
      /\ \A p \in all, r, s \in 1 .. o.n :
           PayoffOf(o, r, [p EXCEPT ![r] = p[s], ![s] = p[r]]) = PayoffOf(o, s, p)
      /\ ToSet(PureNashCounts(pay, o.n)) = {<<k, o.n - k>> : k \in counts}
      /\ counts = CASE o.kind = "el_farol" -> {o.capacity}
                    [] o.kind = "minority" -> {o.n \div 2, o.n \div 2 + 1}
                    [] o.kind = "public_goods" -> IF o.r < o.n THEN {0} ELSE IF o.r > o.n THEN {o.n} ELSE 0 .. o.n
MatrixAsNamed(o) ==
  /\ {ProfileIndex(o, p) : p \in Profiles(o)} = 1 .. Cardinality(Profiles(o))
  /\ \A role \in DOMAIN o.counts : \A a \in 1 .. o.counts[role] :
       /\ Len(MetricId(o, role, a)) = 1
       /\ \A other \in DOMAIN o.counts : a <= o.counts[other] /\ MetricId(o, other, a) = MetricId(o, role, a) =>
                                            o.labels[other][a] = o.labels[role][a]
\* A game that its constructor accepts is the game of its name: it has the equilibria, the
\* dominance, the symmetry and the stable share its documentation gives it, and the two ways
\* to ask for a payoff, by profile and by counts, agree.
CatalogAsNamed ==
  offer.status = "game" =>
    CASE offer.of.kind = "matrix" -> MatrixAsNamed(offer.of)
      [] offer.of.kind \in {"el_farol", "minority", "public_goods"} -> ManyRolesAsNamed(offer.of)
      [] OTHER -> \A g \in {ToMatrix(offer.of)} : TwoRolesAsNamed(offer.of, g, Equilibria2(g))
=============================================================================
