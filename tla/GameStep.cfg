SPECIFICATION Spec
CONSTANTS
  NAgents = 3
  Assemblies <- MCAssemblies
  HistoryLen = 2
  Window = 2
  MaxFails = 1
INVARIANTS HistoriesAreLog LearnsOwnStep PayoffsInRange StopsWhenStill
PROPERTY TruePayoffs
