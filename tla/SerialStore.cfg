SPECIFICATION FairSpec
CONSTANTS
    d1 = d1  d2 = d2  k1 = k1  k2 = k2  h1 = h1  h2 = h2  s1 = s1  s2 = s2  Undef = Undef
    Dids = {d2}
    Keys = {k1, k2}
    KeyOf <- OwnKeys
    OtherDid = d2
    ConfigDid = d2
    Servers = {s1}
    Host <- OneServer
    Handlers = {h1, h2}
    MaxHeight = 3
    Serial = TRUE
    KnownTips = FALSE
    Durable = TRUE
    MayCrash = TRUE
    Faults = {"store", "publish"}
    Blocks <- ChainBlocks
CHECK_DEADLOCK FALSE
INVARIANTS AckedDurable TipsEarned
PROPERTIES ImplementsChainStore PublishedInOrder EveryRequestEnds
