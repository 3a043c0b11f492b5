SPECIFICATION Spec
CONSTANTS
    Players = {1, 2, 3}
    Agents = {1, 2}
    Role <- Roles
    Opponents <- Facing
    Actions = {"C", "D"}
    Start = "D"
    Replies = {"C", "bad", "illegal"}
    MaxRetries = 1
    MaxTurns <- Turns
    ColdSampling = TRUE
    Modes = {"RecordMisses", "ReplayOnly", "Live"}
    TMax = 2
INVARIANTS StoreDeterminesRun CommittedTogether TurnsAreSteps
CHECK_DEADLOCK FALSE
