SPECIFICATION Spec
CONSTANTS
    c1 = c1  c2 = c2  p1 = p1  p2 = p2
    Callbacks = {}
    Players = {p1, p2}
    Others = TRUE
    MaxHeight = 3
    OneAtATime = TRUE
    Reorder = FALSE
    Redeliver = 0
    Faults = TRUE
CHECK_DEADLOCK FALSE
PROPERTIES NeverBack CarriesState
