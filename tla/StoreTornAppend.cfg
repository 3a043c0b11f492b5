SPECIFICATION StoreSpec
CONSTANTS
    Runs = {"a", "b"}
    TagOf <- OwnTag
    Mergers = {"m"}
    Keys = {1, 2}
    Digest <- Colliding
    Replies = {"yes", "no"}
    Breaks = {"unended"}
    Quiet = TRUE
INVARIANT NoLostRecord
CHECK_DEADLOCK FALSE
