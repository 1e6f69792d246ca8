---------------------------- MODULE MCDeviceSync ----------------------------
\* Instance of DeviceSync for TLC: the first call is with a lead of ours, the
\* second with nobody known.
EXTENDS DeviceSync, TLC

CONSTANTS k1, k2, l1

MCNumber == [c \in {k1, k2} |-> IF c = k1 THEN l1 ELSE None]

\* Nothing tells telecallers, follow-ups or slots apart.
Alike == Permutations(Telecallers) \cup Permutations(FollowUps) \cup Permutations(Slots)

=============================================================================
