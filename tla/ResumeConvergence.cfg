SPECIFICATION Spec
CONSTANTS
    Opinions <- Ops
    Starts <- Settling
    Update <- Settle
    StopDraws <- AtFour
    MaxClock = 6
    Wirings <- ConvergenceOnly
    None = None
    Torn = Torn
INVARIANT ResumeExact
