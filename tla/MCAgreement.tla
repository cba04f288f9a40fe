------------------------------- MODULE MCAgreement -------------------------------
(* Instances of SttAgreement for TLC.                                      *)
EXTENDS SttAgreement, TLC

CONSTANTS u1, u2, p1, t1, t2

MCOneUid == {u1}
MCUid == {u1, u2}
MCNoPid == {}
MCPid == {p1}
MCTimerId == {t1, t2}

Symmetric == Permutations(MCUid) \cup Permutations(MCTimerId)

NoFaults == {}
=============================================================================
