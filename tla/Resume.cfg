SPECIFICATION Spec
CONSTANTS
    Opinions <- Ops
    Starts <- BothWorlds
    Update <- Settle
    StopDraws <- AtFour
    MaxClock = 6
    Wirings <- EachAndBoth
    None = None
    Torn = Torn
INVARIANTS StopExact NoFalseConvergence
PROPERTY DrawMatchesStep
