SPECIFICATION Spec
CONSTANTS
    a1 = a1
    a2 = a2
    None = None
    Files <- AnyFile
    Addrs <- TwoAddrs
    Paths <- TwoPaths
    Certs <- TwoCerts
    PrivateKeys <- TwoKeys
INVARIANTS
    TypeOK
    ServedAsAsked
    RefusedForCause
