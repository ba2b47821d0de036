SPECIFICATION Spec
CONSTANTS
    r1 = r1
    r2 = r2
    r3 = r3
    Nobody = Nobody
    NoKey = NoKey
    Absent = Absent
    Requests <- Two
    Asks <- AnyQuery
    Results <- MetricsOnly
    Staleness = 1
    ConnectTimeout = 3
    RequestTimeout = 4
    LastArrival = 3
INVARIANT CachedCorrectly
