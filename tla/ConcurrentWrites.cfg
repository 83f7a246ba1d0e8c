SPECIFICATION Spec
CONSTANTS
    d1 = d1  d2 = d2  k1 = k1  k2 = k2  h1 = h1  h2 = h2  s1 = s1  s2 = s2  Undef = Undef
    Dids = {d1, d2}
    Keys = {k1, k2}
    KeyOf <- OwnKeys
    OtherDid = d2
    ConfigDid = Undef
    Servers = {s1}
    Host <- OneServer
    Handlers = {h1, h2}
    MaxHeight = 2
    Serial = FALSE
    KnownTips = TRUE
    Durable = FALSE
    MayCrash = TRUE
    Faults = {}
    Blocks <- CrossBlocks
INVARIANTS TypeOK ChainsValid
