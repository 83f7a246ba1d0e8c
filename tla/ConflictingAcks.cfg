SPECIFICATION Spec
CONSTANTS
    d1 = d1  d2 = d2  k1 = k1  k2 = k2  h1 = h1  h2 = h2  s1 = s1  s2 = s2  Undef = Undef
    Dids = {d1}
    Keys = {k1, k2}
    KeyOf <- OwnKeys
    OtherDid = Undef
    ConfigDid = Undef
    Servers = {s1}
    Host <- OneServer
    Handlers = {h1, h2}
    MaxHeight = 1
    Serial = FALSE
    KnownTips = TRUE
    Durable = TRUE
    MayCrash = FALSE
    Faults = {}
    Blocks <- ConflictBlocks
INVARIANT NoConflictingAcks
