SPECIFICATION Spec
CONSTANTS
    r1 = r1
    r2 = r2
    r3 = r3
    r4 = r4
    k1 = k1
    k2 = k2
    Nobody = Nobody
    NoKey = NoKey
    Requests <- Calls3
    Keys <- OneKey
    Outcomes = {TRUE, FALSE}
    Staleness = 1
    MaxLag = 0
    Prompt = TRUE
    MaxTime = 1

INVARIANT SingleFlight
