------------------------------ MODULE MCSettings ------------------------------
(* Instances of SttSettings for TLC.                                       *)
EXTENDS SttSettings, TLC

CONSTANTS e1, e2, l1, m1, m2

MCEngine == {e1, e2}
MCLanguage == {l1}
MCApp == {}
MCMenu == {m1, m2}

\* Both engines speak the language, and only one has an option.
MCSpeaks == e1 :> {l1} @@ e2 :> {l1}
MCSupports == e1 :> {"silence"} @@ e2 :> {}

\* One menu changes an option, the other one the rest.
Silence(v) == [op |-> "option", option |-> "silence", value |-> v]
MCWishes ==
    m1 :> {Silence(0), Silence(1), ReadSetting}
    @@ m2 :> {Silence(0), ListEngines, AskPlugin, [op |-> "engine", engine |-> e2],
              [op |-> "language", language |-> l1]}

NoChoices == {}
=============================================================================
