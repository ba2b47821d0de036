SPECIFICATION Spec
CONSTANTS
    a1 = a1
    a2 = a2
    None = None
    Files <- OwnTimeouts
    Addrs <- TwoAddrs
    Paths <- TwoPaths
    Certs <- TwoCerts
    PrivateKeys <- TwoKeys
INVARIANT TimeoutsAsAsked
