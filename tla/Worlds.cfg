SPECIFICATION Spec
CONSTANTS
  Id = {1, 2, 3}
  Payload = {1, 2}
  MaxOps = 5
  Sizes = {0, 1, 3, 4, 5}
  Degrees = {1, 2, 3, 4}
  MaxPairs = 8
  MaxTies = 4
  Grids <- MCGrids
  Agents = {1, 2}
  Radii = {0, 1, 2, 3}
  MaxMoves = 3
  Person = {1, 2, 3, 4}
  Acquaintances <- MCAcquaintances
  Fractions <- MCFractions
  Feature = {"f", "g"}
  Trait = {1, 2}
  MaxRounds = 4
  Speaker = {1, 2, 3}
  One = 576
  Divisor = 12
  Profiles <- MCProfiles
  Circles <- MCCircles
  Groupings <- MCGroupings
  Windows <- MCWindows
  MaxSteps = 2
  Teams = 2
  TeamSize = 2
  Wirings <- MCWirings
  MaxMonths = 2
  Worker = {1, 2, 3, 4}
  Ties <- MCTies
  Casts <- MCCasts
  Fear = 2
  Sensitivity = 2
  Agendas <- MCAgendas
  MaxSessions = 2
  Classes <- MCClasses
  Depth = 1
  MaxPlays = 3
INVARIANTS NetworkAsCalled GeneratedAsPromised OccupancyAgrees DiffusionExact OpinionsAsPromised LifecycleBooks OfficeCoherent LearnersAsPromised
CHECK_DEADLOCK FALSE
