SPECIFICATION Spec
CONSTANTS
  Seed = {1, 2}
  Label = {"agent", "trial"}
  MaxDraws = 2
INVARIANTS ChildFromSeedAndLabel
