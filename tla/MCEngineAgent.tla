---------------------------- MODULE MCEngineAgent ----------------------------
(* Instances of SttEngineAgent for TLC.                                    *)
EXTENDS SttEngineAgent, TLC

CONSTANTS e1, e2, l1, l2, a1, m1

MCEngine == {e1, e2}
MCLanguage == {l1, l2}
MCApp == {a1}
MCMenu == {m1}

\* The engines share a language and an option.
MCSpeaks == e1 :> {l1, l2} @@ e2 :> {l2}
MCSupports == e1 :> {"profanity", "silence"} @@ e2 :> {"punctuation", "silence"}

\* One option is chosen, the others are left to the user.
MCChoices ==
    {[o \in Option |-> IF o = p THEN v ELSE 2] : p \in Option, v \in 0..2}

NoFaults == {}
AllFaults == {"load", "format", "start"}
=============================================================================
