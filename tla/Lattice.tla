------------------------------- MODULE Lattice -------------------------------
(***************************************************************************)
(* Grid and GridIndex: a lattice with hard edges or wrapped into a torus,  *)
(* its neighbourhoods and distances, and the index that knows who is in a  *)
(* cell and where an agent is.  Cells are pairs <<row, column>> from 0.    *)
(***************************************************************************)
EXTENDS Integers, Sequences, FiniteSets, FiniteSetsExt, Functions, SequencesExt
CONSTANTS Grids,          \* [rows, cols, toroidal]
          Agents, Radii,
          MaxMoves        \* bound: calls of place and move_to

VARIABLES grid, cells, positions,   \* cell -> agent or Vacant; placed agent -> cell
          moves                     \* ghost: calls made, and agents placed a second time

ASSUME LatticeAssumption ==
  /\ Grids \subseteq [rows : Nat, cols : Nat, toroidal : BOOLEAN]
  /\ Radii \subseteq Nat
  /\ 0 \notin Agents

lvars == <<grid, cells, positions, moves>>

Vacant == 0
Metrics == {"chebyshev", "manhattan", "euclidean"}
Neighborhoods == {"moore", "von_neumann"}

CellsOf(g) == (0 .. g.rows - 1) \X (0 .. g.cols - 1)
Linear(g, c) == c[1] * g.cols + c[2]
CellAt(g, i) == <<i \div g.cols, i % g.cols>>

\* The euclidean distance is compared only, so its square does.
Combine(metric, dr, dc) == CASE metric = "chebyshev" -> Max({dr, dc})
                             [] metric = "manhattan" -> dr + dc
                             [] OTHER -> dr * dr + dc * dc
AbsDiff(a, b) == IF a > b THEN a - b ELSE b - a
ToroidalDiff(a, b, len) == IF len = 0 THEN 0 ELSE Min({AbsDiff(a, b), len - AbsDiff(a, b)})
Distance(g, metric, a, b) ==
  IF g.toroidal THEN Combine(metric, ToroidalDiff(a[1], b[1], g.rows), ToroidalDiff(a[2], b[2], g.cols))
                ELSE Combine(metric, AbsDiff(a[1], b[1]), AbsDiff(a[2], b[2]))

\* resolve: the cell at an offset, wrapped on a torus, none beyond a hard edge.
Clipped(g, r, c) == {<<r, c>>} \cap CellsOf(g)   \* mutant: a torus with hard edges
Resolve(g, r, c) == IF CellsOf(g) = {} THEN {}
                    ELSE IF g.toroidal THEN {<<r % g.rows, c % g.cols>>} ELSE {<<r, c>>} \cap CellsOf(g)

\* neighbors_radius_into: every offset of the shape, without the centre, also when a
\* torus leads back to it; each cell once.
Offsets(nbhd, radius) ==
  {d \in (-radius .. radius) \X (-radius .. radius) :
     /\ d # <<0, 0>>
     /\ nbhd = "von_neumann" => AbsDiff(d[1], 0) + AbsDiff(d[2], 0) <= radius}
NeighborsRadius(g, cell, nbhd, radius) ==
  (UNION {Resolve(g, cell[1] + d[1], cell[2] + d[2]) : d \in Offsets(nbhd, radius)}) \ {cell}

\* adjacency_radius: the same by linear index, one row of the table for each cell.
Adjacency(g, nbhd, radius) ==
  [i \in 0 .. g.rows * g.cols - 1 |-> {Linear(g, c) : c \in NeighborsRadius(g, CellAt(g, i), nbhd, radius)}]

-----------------------------------------------------------------------------
(* GridIndex *)

LatticeInit == \E g \in Grids : /\ grid = g /\ cells = [c \in CellsOf(g) |-> Vacant] /\ positions = << >>
                                /\ moves = [calls |-> 0, twice |-> {}]

\* Calls name cells inside the grid and just outside it.
Asked == (0 .. grid.rows) \X (0 .. grid.cols)
Sit(a, c) == positions' = [b \in DOMAIN positions \cup {a} |-> IF b = a THEN c ELSE positions[b]]
Called(twice) == /\ moves.calls < MaxMoves /\ UNCHANGED grid
                 /\ moves' = [calls |-> moves.calls + 1, twice |-> moves.twice \cup twice]

\* place: into a vacant cell; where the agent was before it stays as well.
Place(a, c) ==
  /\ Called(IF c \in CellsOf(grid) /\ cells[c] = Vacant /\ a \in DOMAIN positions THEN {a} ELSE {})
  /\ IF c \in CellsOf(grid) /\ cells[c] = Vacant
     THEN cells' = [cells EXCEPT ![c] = a] /\ Sit(a, c)
     ELSE UNCHANGED <<cells, positions>>

\* move_to: out of its cell into a vacant one; into its own cell, and on every error, nothing.
MoveTo(a, c) ==
  /\ Called({})
  /\ IF a \in DOMAIN positions /\ c \in CellsOf(grid) /\ cells[c] = Vacant
     THEN cells' = [cells EXCEPT ![positions[a]] = Vacant, ![c] = a] /\ Sit(a, c)
     ELSE UNCHANGED <<cells, positions>>

VacantCells == {c \in DOMAIN cells : cells[c] = Vacant}
Closer(p, q) == p < q
\* nearest_vacant: in row-major order, a cell replaces the best so far if it is closer.
NearestVacant(from, metric) ==
  LET best[n \in 0 .. grid.rows * grid.cols] ==
        IF n = 0 THEN {}
        ELSE IF \/ CellAt(grid, n - 1) \notin VacantCells
                \/ \E b \in best[n - 1] : ~Closer(Distance(grid, metric, from, CellAt(grid, n - 1)), Distance(grid, metric, from, b))
             THEN best[n - 1] ELSE {CellAt(grid, n - 1)}
  IN  best[grid.rows * grid.cols]

\* An agent without a place to its liking goes to the nearest vacant cell.
Relocate(a, metric) ==
  /\ a \in DOMAIN positions
  /\ \E c \in NearestVacant(positions[a], metric) : MoveTo(a, c)

Occupant(c) == IF c \in CellsOf(grid) THEN cells[c] ELSE Vacant
OccupantNeighbors(c, nbhd) == {Occupant(d) : d \in NeighborsRadius(grid, c, nbhd, 1)} \ {Vacant}

LatticeNext == \E a \in Agents : \/ \E c \in Asked : Place(a, c) \/ MoveTo(a, c)
                                 \/ \E metric \in Metrics : Relocate(a, metric)
LatticeSpec == LatticeInit /\ [][LatticeNext]_lvars

-----------------------------------------------------------------------------
(* Properties *)

\* The two directions of the index agree: an agent sits where it is said to be, and a
\* cell holds an agent that is elsewhere only if that agent was placed twice.  So an
\* agent sees around a cell exactly those whose positions are within distance one of
\* it, on a torus too, where the neighbourhood of every radius is the ball of the
\* distance that belongs to it and an agent never is its own neighbour; the table has
\* the same rows; and the nearest vacant cell is the first of the nearest.
OccupancyAgrees ==
  LET ball(c, nbhd, radius) ==
        {d \in CellsOf(grid) : Distance(grid, IF nbhd = "moore" THEN "chebyshev" ELSE "manhattan", c, d) \in 1 .. radius}
      first(c, metric, v, d) ==
        \/ Distance(grid, metric, c, v) < Distance(grid, metric, c, d)
        \/ Distance(grid, metric, c, v) = Distance(grid, metric, c, d) /\ Linear(grid, v) < Linear(grid, d)
  IN  /\ \A a \in DOMAIN positions : cells[positions[a]] = a
      /\ \A c \in DOMAIN cells : cells[c] # Vacant /\ cells[c] \notin moves.twice => positions[cells[c]] = c
      /\ moves.calls = 0 =>
           \A nbhd \in Neighborhoods : \A radius \in Radii :
             LET table == Adjacency(grid, nbhd, radius)
             IN  \A c \in CellsOf(grid) :
                   /\ NeighborsRadius(grid, c, nbhd, radius) = ball(c, nbhd, radius)
                   /\ table[Linear(grid, c)] = {Linear(grid, d) : d \in ball(c, nbhd, radius)}
      /\ \A c \in CellsOf(grid) :
           /\ \A nbhd \in Neighborhoods :
                OccupantNeighbors(c, nbhd) \ moves.twice
                  = {a \in DOMAIN positions : positions[a] \in ball(c, nbhd, 1)} \ moves.twice
           /\ \A metric \in Metrics :
                /\ NearestVacant(c, metric) = {} <=> VacantCells = {}
                /\ \A v \in NearestVacant(c, metric) : \A d \in VacantCells \ {v} : first(c, metric, v, d)
=============================================================================
