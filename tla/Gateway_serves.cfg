SPECIFICATION FairSpec
CONSTANTS
    r1 = r1
    r2 = r2
    r3 = r3
    Nobody = Nobody
    NoKey = NoKey
    Absent = Absent
    Requests <- Three
    Asks <- AllAsks
    Results <- SomeResults
    Staleness = 1
    ConnectTimeout = 1
    RequestTimeout = 2
    LastArrival = 1
INVARIANTS
    TypeOK
    ErrorsAreNotShared
    LateMeansLate
    CountsAddUp
    BackendIsSpared
PROPERTIES
    ClientsShareSuccesses
    CacheComesFree
