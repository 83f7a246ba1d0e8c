SPECIFICATION ReaderSpec
CONSTANTS
    d2 = d2  k2 = k2  h1 = h1  r1 = r1  s1 = s1  s2 = s2  Undef = Undef
    Dids = {d2}
    Keys = {k2}
    KeyOf <- OwnKeys
    OtherDid = d2
    ConfigDid = d2
    Servers = {s1, s2}
    Host <- TwoServers
    Handlers = {h1}
    Readers = {r1}
    ReadsFrom <- FromSecond
    Identities = {Undef}
    MaxHeight = 2
    Serial = TRUE
    KnownTips = FALSE
    Durable = TRUE
    MayCrash = TRUE
    Faults = {"store"}
    Blocks <- ReadBlocks
CHECK_DEADLOCK FALSE
INVARIANT ReaderTypeOK
PROPERTIES ReadsAllowed ReadsMonotonic GlobalReadEnforced
