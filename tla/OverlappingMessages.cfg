SPECIFICATION Spec
CONSTANTS
    c1 = c1  c2 = c2  p1 = p1  p2 = p2
    Callbacks = {c1, c2}
    Players = {}
    Others = TRUE
    MaxHeight = 3
    OneAtATime = FALSE
    Reorder = FALSE
    Redeliver = 0
    Faults = FALSE
CHECK_DEADLOCK FALSE
PROPERTY NeverBack
