------------------------------- MODULE MCClient -------------------------------
(* Instances of SttClient for TLC.                                         *)
EXTENDS SttClient, TLC

CONSTANTS h1, h2

MCHandle == {h1, h2}
MCOneHandle == {h1}

Symmetric == Permutations(MCHandle)
=============================================================================
