\* Remote calls fanned out to all three tiers; the device broker connection
\* may drop at any point (no announcements, to keep the run small).
CONSTANTS
    a1 = a1
    c1 = c1
    c2 = c2
    r1 = r1
    r2 = r2
    r3 = r3
    r4 = r4
    r5 = r5
    g1 = g1
    g2 = g2
    NoCall = NoCall
    Enabled <- AllTiers
    Acts <- MCActs
    Calls <- MCCalls
    CallsOf <- OneCallEach
    PeerKinds <- AckNakUpper
    Requests <- NoRequests
    RequestTiers <- DeviceOnly
    GlobalCmds <- NoGlobalCmds
    Quorums <- MCQuorums
    Fragile <- DeviceOnly
    Announces = FALSE

SPECIFICATION Spec

PROPERTY ArmedCallEnds
 

\* The bridge may come to rest: a call whose timer jam_set_timer did not arm,
\* and whose peers are silent or unreachable, is never ended, and every thread
\* then blocks in its poll or queue wait.
CHECK_DEADLOCK FALSE
