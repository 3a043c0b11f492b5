SPECIFICATION StoreSpec
CONSTANTS
    Runs = {"a", "b"}
    TagOf <- OwnTag
    Mergers = {"m"}
    Keys = {1, 2, 3}
    Digest <- Colliding
    Replies = {"yes", "no"}
    Breaks = {"torn"}
    Quiet = TRUE
INVARIANTS NoLostRecord BaseLoads OwnHistorySeen ServedIsStored
CHECK_DEADLOCK FALSE
