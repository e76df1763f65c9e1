----------------------------- MODULE MCL1Ingest -----------------------------
(* Small instances of L1Ingest: three events of two addresses. *)
EXTENDS L1Ingest

CONSTANTS alice, bob

Addresses == {alice, bob}

\* alice registers, bob deposits, alice registers a new key.
RotateKind == <<"register", "deposit", "register">>
RotateAddress == <<alice, bob, alice>>

\* alice's revocation has no action; bob deposits, then registers.
RevokeKind == <<"revoke", "deposit", "register">>
RevokeAddress == <<alice, bob, bob>>

World(kind, addressOf, kindsOfFault, n, tries, height, shallow) ==
    [kind |-> kind, addressOf |-> addressOf, faults |-> kindsOfFault, maxFaults |-> n,
     maxRetries |-> tries, maxHeight |-> height, shallow |-> shallow]

\* Two faults of any kind, anywhere, under shallow re-orgs.
Crashes ==
    World(RotateKind, RotateAddress, {"kill", "hardCrash", "lostResponse", "source"}, 2, 1, 3, TRUE)

\* A chain long enough for the window to drop its oldest header.
LongChain == World(RotateKind, RotateAddress, {}, 0, 0, 4, TRUE)

\* A kill around a re-org deeper than the confirmation depth.
DeepReorgs == World(RevokeKind, RevokeAddress, {"kill"}, 1, 0, 3, FALSE)

\* The L1 node fails; nobody kills the process.
FlakySource == World(RevokeKind, RevokeAddress, {"source"}, 1, 1, 3, TRUE)

AllWorlds == {Crashes, LongChain, DeepReorgs, FlakySource}

\* The process is killed once.
OneKill == {World(RotateKind, RotateAddress, {"kill"}, 1, 1, 3, TRUE)}
=============================================================================
