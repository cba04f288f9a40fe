------------------------------ MODULE MCRecorder ------------------------------
(* An instance of SttRecorder for TLC.                                     *)
EXTENDS SttRecorder, TLC

CONSTANTS c1, c2, c3

MCCamcorder == {c1, c2, c3}
AllFaults == {"create", "setup", "record", "file"}
=============================================================================
