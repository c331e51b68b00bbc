------------------------------ MODULE MCBridge ------------------------------
(* Small instances of Bridge for TLC.                                      *)
EXTENDS Bridge

CONSTANTS a1, c1, c2, r1, r2, r3, r4, r5, g1, g2

\* A decoded request as the device processor sees it: whether its
\* signature checks, its condition holds, it needs a quorum, and (for
\* REXEC-ASY-CBK) whether its actarg is in the run table.
Req(id, kind, args, cond, sync, found) ==
    [topic |-> "request", kind |-> kind, id |-> id,
     args |-> args, cond |-> cond, sync |-> sync, found |-> found]

MCActs == {a1}
MCCalls == {c1, c2}
OneCallEach == [a \in MCActs |-> <<c1>>]
TwoCallsReused == [a \in MCActs |-> <<c1, c2>>]
AllTiers == {"device", "fog", "cloud"}
DeviceOnly == {"device"}
DeviceAndFog == {"device", "fog"}
NoTiers == {}

\* Device peers answer fully; fog and cloud peers only ACK or NAK.
AckNakUpper == [t \in Tiers |-> IF t = "device"
                                 THEN {"REXEC-ACK", "REXEC-NAK", "REXEC-RES"}
                                 ELSE {"REXEC-ACK", "REXEC-NAK"}]
\* Fog peers that answer ACK then RES, device peers that answer ERR.
ResultFromFogErrFromDevice ==
    [t \in Tiers |-> CASE t = "fog"    -> {"REXEC-ACK", "REXEC-RES"}
                      [] t = "device" -> {"REXEC-ERR"}
                      [] OTHER        -> {}]
\* A device peer acknowledges and returns a result.
ResultFromDevice == [t \in Tiers |-> IF t = "device" THEN {"REXEC-ACK", "REXEC-RES"} ELSE {}]

\* One request down each branch of REXEC-SYN, and accepted ASY and
\* ASY-CBK requests.
SynRequests ==
    {Req(r1, "REXEC-SYN", FALSE, TRUE, FALSE, TRUE),
     Req(r2, "REXEC-SYN", TRUE, FALSE, FALSE, TRUE),
     Req(r3, "REXEC-SYN", TRUE, TRUE, TRUE, TRUE),
     Req(r4, "REXEC-SYN", TRUE, TRUE, FALSE, TRUE),
     Req(r5, "REXEC-ASY-CBK", TRUE, TRUE, FALSE, TRUE)}
NoCalls == [a \in MCActs |-> <<>>]
\* An ASY whose condition is false.
RefusedAsy == {Req(r3, "REXEC-ASY", TRUE, FALSE, FALSE, TRUE)}
\* That ASY, and a plain SYN that would be scheduled.
RefusedAsyAcceptedSyn == RefusedAsy \cup {Req(r4, "REXEC-SYN", TRUE, TRUE, FALSE, TRUE)}
\* Only the plain SYN.
AcceptedSyn == {Req(r4, "REXEC-SYN", TRUE, TRUE, FALSE, TRUE)}
NoRequests == {}

MCGlobalCmds == {[id |-> g1, local |-> TRUE], [id |-> g2, local |-> FALSE]}
\* A remote command only.
RemoteGlobalCmd == {[id |-> g2, local |-> FALSE]}
NoGlobalCmds == {}
MCQuorums == {0, 1, 2}

=============================================================================
