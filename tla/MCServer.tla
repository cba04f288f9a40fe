------------------------------- MODULE MCServer -------------------------------
(* Instances of SttServer for TLC.                                         *)
EXTENDS SttServer, TLC

CONSTANTS u1, u2, p1, t1, t2, t3

MCUid == {u1, u2}
MCPid == {p1}
MCTimerId == {t1, t2, t3}
MCTwoTimers == {t1, t2}

NoFaults == {}
AllFaults == {"load", "format", "recorder", "camcorder", "stop", "cancel"}
\* The plug-in stops and cancels a recognition when it is told to.
WillingEngine == AllFaults \ {"stop", "cancel"}

\* Sessions are alike and so are timer addresses.
Symmetric == Permutations(MCUid) \cup Permutations(MCTimerId)
=============================================================================
