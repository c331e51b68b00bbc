\* A refused ASY request on the device broker: its NAK goes through the
\* wrong handle (jamworker.c:415).
CONSTANTS
    a1 = a1
    c1 = c1
    c2 = c2
    r1 = r1
    r2 = r2
    r3 = r3
    r4 = r4
    r5 = r5
    g1 = g1
    g2 = g2
    NoCall = NoCall
    Enabled <- DeviceAndFog
    Acts <- MCActs
    Calls <- MCCalls
    CallsOf <- NoCalls
    PeerKinds <- AckNakUpper
    Requests <- RefusedAsy
    RequestTiers <- DeviceOnly
    GlobalCmds <- NoGlobalCmds
    Quorums <- MCQuorums
    Fragile <- NoTiers
    Announces = TRUE

SPECIFICATION Spec

PROPERTY RequestHandled
