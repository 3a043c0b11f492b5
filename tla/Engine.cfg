SPECIFICATION Spec
CONSTANTS
    NMech = 2
    Registered <- Reg
    TMax = 2
    MaxClock = 3
INVARIANTS PhaseOrder WholeSteps ReportsExact
PROPERTY CallsReturn
CHECK_DEADLOCK FALSE
