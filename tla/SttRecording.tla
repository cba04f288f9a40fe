----------------------------- MODULE SttRecording -----------------------------
(***************************************************************************)
(* The order in which the session manager calls the recorder: what         *)
(* SttRecorder takes for granted, and SttServer keeps to.  A capture is    *)
(* started for nobody else but the one session that is then served; it is  *)
(* stopped and cancelled for that session; and what the camcorder does of  *)
(* its own accord, or a session that comes, ends nothing but the capture.  *)
(***************************************************************************)
EXTENDS SttMicrophone

VARIABLE serving    \* what the session manager is doing for whom it serves

recordingVars == <<recorderVars, serving>>

RecordingInit == RecorderInit /\ serving = "nobody"

\* A session is initialized, while another may be served.
Sets == RecorderSet /\ UNCHANGED serving

Starts ==
    /\ serving = "nobody"
    /\ RecorderStart
    /\ serving' = "recording"

\* The engine may refuse to go on with what was recorded.
Stops ==
    /\ serving = "recording"
    /\ RecorderSends \/ RecorderKeeps
    /\ serving' \in {"processing", "nobody"}

\* It may refuse to cancel, and then the session goes on without a capture.
Cancels ==
    /\ serving = "recording"
    /\ RecorderCancel
    /\ serving' \in {"recording", "nobody"}

\* A session that is finalized cancels whatever it is served with.
Finalizes ==
    /\ serving # "nobody"
    /\ RecorderCancel
    /\ serving' = "nobody"

\* A recognition ends without the recorder.
Recognized ==
    /\ serving = "processing"
    /\ serving' = "nobody"
    /\ UNCHANGED recorderVars

\* A limit, an error or a full disk ends a capture behind the session manager.
Ends ==
    /\ mic = "open"
    /\ RecorderSends \/ RecorderKeeps \/ RecorderCancel
    /\ UNCHANGED serving

RecordingNext ==
    Sets \/ Starts \/ Stops \/ Cancels \/ Finalizes \/ Recognized \/ Ends

RecordingSpec == RecordingInit /\ [][RecordingNext]_recordingVars
=============================================================================
