CONSTANTS
    a1 = a1
    c1 = c1
    c2 = c2
    r1 = r1
    r2 = r2
    r3 = r3
    r4 = r4
    r5 = r5
    g1 = g1
    g2 = g2
    NoCall = NoCall
    Enabled <- DeviceAndFog
    Acts <- MCActs
    Calls <- MCCalls
    CallsOf <- OneCallEach
    PeerKinds <- ResultFromFogErrFromDevice
    Requests <- NoRequests
    RequestTiers <- DeviceOnly
    GlobalCmds <- NoGlobalCmds
    Quorums <- MCQuorums
    Fragile <- NoTiers
    Announces = TRUE

SPECIFICATION Spec

PROPERTY ReplyRouted
