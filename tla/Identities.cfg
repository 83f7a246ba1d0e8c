SPECIFICATION ServiceSpec
CONSTANTS
    t1 = t1  t2 = t2  k1 = k1  k2 = k2  Undef = Undef
    Dids = {t1, t2}
    Keys = {k1, k2}
    Ownerships <- AllOwnerships
    KeyOf <- OwnKeys
    OtherDid = t2
    Blocks <- ServiceBlocks
    MaxHeight = 2
    Calls = {r1}
    Lifetime = 1
    Millis = 1000
    MaxTime = 2
    Faults = {}
INVARIANT TypeOK
PROPERTIES OwnerVouched Expires Recognised OnlyOwnersRead OwnersRead
