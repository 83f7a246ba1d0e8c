SPECIFICATION FairSpec
CONSTANTS
    c1 = c1  c2 = c2  p1 = p1  p2 = p2
    Callbacks = {c1}
    Players = {}
    Others = TRUE
    MaxHeight = 4
    OneAtATime = TRUE
    Reorder = TRUE
    Redeliver = 2
    Faults = FALSE
CHECK_DEADLOCK FALSE
INVARIANTS TypeOK ReadsItself
PROPERTIES NeverBack CatchesUp
