SPECIFICATION Spec
CONSTANTS
    r1 = r1
    r2 = r2
    r3 = r3
    r4 = r4
    k1 = k1
    k2 = k2
    Nobody = Nobody
    NoKey = NoKey
    Requests <- Calls4
    Keys <- TwoKeys
    Outcomes = {TRUE, FALSE}
    Staleness = 1
    MaxLag = 0
    Prompt = FALSE
    MaxTime = 1
SYMMETRY Symmetry4
INVARIANTS
    TypeOK
    EntryHasReaper
    HitsAreFresh
    ConsolidatedWhileCacheable
    CachedForDuration
PROPERTIES
    ImplementsCache
