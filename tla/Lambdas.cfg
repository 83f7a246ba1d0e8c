SPECIFICATION Spec
CONSTANTS
    d1 = d1  d2 = d2  k1 = k1  k2 = k2  h1 = h1  h2 = h2  s1 = s1  s2 = s2  Undef = Undef
    Dids = {d2}
    Keys = {k1, k2}
    KeyOf <- OwnKeys
    OtherDid = Undef
    ConfigDid = d2
    Servers = {s1, s2}
    Host <- TwoServers
    Handlers = {h1, h2}
    MaxHeight = 2
    Serial = TRUE
    KnownTips = TRUE
    Durable = TRUE
    MayCrash = TRUE
    Faults = {}
    Blocks <- GlobalBlocks
INVARIANTS TipsLoadable PolicyFresh AckedPublished
PROPERTY PolicyEnforced
