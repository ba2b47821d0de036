SPECIFICATION FairSpec
CONSTANTS
    s1 = s1
    s2 = s2
    telemetry = telemetry
    c1 = c1
    c2 = c2
    NoTimer = NoTimer
    Servers <- AllServers
    Telemetry <- telemetry
    Secure <- TlsServers
    Clashing <- OneAddress
    Conns <- TwoConns
    HeadTimeout = 1
INVARIANTS
    TypeOK
    ExitIsEarned
    HeadsGetTheirTime
PROPERTIES
    AllOrNothing
    ClashEndsAll
    EveryClientIsAccepted
