---------------------------- MODULE SttMicrophone ----------------------------
(***************************************************************************)
(* The recorder as the session manager sees it: the state it keeps, and    *)
(* whether it captures.  SttServer calls it by these operators, and        *)
(* SttRecorder shows that server/sttd_recorder.c does what they say.       *)
(***************************************************************************)
VARIABLES
    recorder,  \* g_objRecorer->state
    mic        \* open while a camcorder captures

recorderVars == <<recorder, mic>>

RecorderInit == recorder = "ready" /\ mic = "closed"

\* sttd_recorder_set: cancels whatever is captured and keeps the state.
RecorderSet ==
    /\ mic' = IF recorder = "recording" THEN "closed" ELSE mic
    /\ UNCHANGED recorder

\* sttd_recorder_start, when it succeeds.
RecorderStart == recorder' = "recording" /\ mic' = "open"

\* sttd_recorder_cancel: fails, and keeps the state, when nothing is captured.
RecorderCancel ==
    /\ mic' = "closed"
    /\ recorder' = IF mic = "open" THEN "ready" ELSE recorder

\* sttd_recorder_stop: an AMR file that cannot be read keeps the state.
RecorderSends == mic' = "closed" /\ recorder' = "ready"
RecorderKeeps == mic' = "closed" /\ UNCHANGED recorder
=============================================================================
