-------------------------- MODULE SttRecorderProofs --------------------------
(* What is proved of SttRecorder, for any number of camcorders and whichever *)
(* calls fail: a capture can always be reached, and the recorder is the      *)
(* microphone the session manager takes it for.                              *)
EXTENDS SttRecorder, TLAPS

RecorderInv == TypeOK /\ CaptureIsReachable

-----------------------------------------------------------------------------
(* Lemmas: what the two ways to end a capture do.                          *)

\* Whatever they meet, sttd_recorder_cancel and sttd_recorder_stop leave no
\* capture, and keep the recorder's variables to their values.
LEMMA NothingCaptured ==
    ASSUME RecorderInv, StopRecorder \/ CancelRecorder
    PROVE  /\ \A h \in Camcorder : camcorder'[h] # "recording"
           /\ state' \in {"ready", "recording"}
           /\ type' = type /\ format' = format
           /\ handle' \in Camcorder \cup {NULL}
           /\ camcorder' \in [Camcorder -> CamcorderState]
           /\ file' \in BOOLEAN
           /\ handle' # NULL => camcorder'[handle'] # "none"
<1>1. CASE CancelRecorder
  <2>1. CASE Capturing
    BY <1>1, <2>1, RecorderAssumption, SMT DEF RecorderInv, TypeOK, CaptureIsReachable,
       CancelRecorder, Capturing, In, Destroyed, Brought, FileDropped, CamcorderState
  <2>2. CASE ~Capturing
    BY <1>1, <2>2, RecorderAssumption, SMT DEF RecorderInv, TypeOK, CaptureIsReachable,
       CancelRecorder, Capturing, In
  <2> QED BY <2>1, <2>2
<1>2. CASE StopRecorder
  <2>1. file' \in BOOLEAN
    BY <1>2 DEF StopRecorder, RecorderInv, TypeOK
  <2>2. CASE Destroyed /\ state' = "ready"
    BY <1>2, <2>1, <2>2, RecorderAssumption, SMT DEF RecorderInv, TypeOK,
       CaptureIsReachable, StopRecorder, Destroyed, Brought, CamcorderState
  <2>3. CASE /\ camcorder' = IF handle = NULL THEN camcorder ELSE Brought("null")
             /\ UNCHANGED <<handle, state>>
    BY <1>2, <2>1, <2>3, RecorderAssumption, SMT DEF RecorderInv, TypeOK,
       CaptureIsReachable, StopRecorder, Brought, CamcorderState
  <2> QED BY <1>2, <2>2, <2>3 DEF StopRecorder
<1> QED BY <1>1, <1>2

\* A session that is not being recorded has no capture running.
LEMMA NobodyCaptures ==
    ASSUME RecorderInv, serving # "recording"
    PROVE  \A h \in Camcorder : camcorder[h] # "recording"
BY DEF RecorderInv, CaptureIsReachable

-----------------------------------------------------------------------------
(* The invariant.                                                          *)

LEMMA RecorderInvStep ==
    ASSUME RecorderInv, [Next]_vars
    PROVE  RecorderInv'
<1> USE RecorderAssumption
<1>1. ASSUME NEW t \in Type, Set(t) PROVE RecorderInv'
  <2>1. CASE state = "recording" /\ (Capturing \/ In("null")) /\ Destroyed /\ file' \in BOOLEAN
    BY <1>1, <2>1, SMT DEF RecorderInv, TypeOK, CaptureIsReachable, Set, Capturing, In,
       Destroyed, Brought, CamcorderState
  <2>2. CASE (state = "recording" => ~(Capturing \/ In("null")))
             /\ UNCHANGED <<handle, camcorder, file>>
    BY <1>1, <2>2, SMT DEF RecorderInv, TypeOK, CaptureIsReachable, Set, Capturing, In
  <2>3. file \in BOOLEAN /\ (FileDropped => file' \in BOOLEAN)
    BY DEF RecorderInv, TypeOK, FileDropped
  <2> QED BY <1>1, <2>1, <2>2, <2>3 DEF Set
<1>2. ASSUME NEW h \in Camcorder, Start(h) PROVE RecorderInv'
  <2>1. \A g \in Camcorder : camcorder[g] # "recording"
    BY <1>2, NobodyCaptures DEF Start
  <2>2. file' \in BOOLEAN
    BY <1>2 DEF Start
  <2>3. /\ state' = "recording" /\ serving' = "recording"
        /\ type' = type /\ Made(h, "recording")
    BY <1>2 DEF Start
  <2> QED
    BY <2>1, <2>2, <2>3, SMT DEF RecorderInv, TypeOK, CaptureIsReachable, Made, CamcorderState
<1>3. ASSUME NEW h \in Camcorder, StartFails(h) PROVE RecorderInv'
  <2>1. \A g \in Camcorder : camcorder[g] # "recording"
    BY <1>3, NobodyCaptures DEF StartFails
  <2>2. file' \in BOOLEAN
    BY <1>3 DEF StartFails
  <2>3. UNCHANGED <<state, type, serving>>
    BY <1>3 DEF StartFails
  <2>4. CASE UNCHANGED <<handle, camcorder, format>>
    BY <2>2, <2>3, <2>4, SMT DEF RecorderInv, TypeOK, CaptureIsReachable
  <2>5. ASSUME NEW s \in {"null", "ready", "prepare"}, Made(h, s) PROVE RecorderInv'
    BY <2>1, <2>2, <2>3, <2>5, SMT DEF RecorderInv, TypeOK, CaptureIsReachable, Made,
       CamcorderState
  <2> QED BY <1>3, <2>4, <2>5 DEF StartFails
<1>4. CASE Stop
  BY <1>4, NothingCaptured DEF RecorderInv, TypeOK, CaptureIsReachable, Stop
<1>5. CASE Cancel
  BY <1>5, NothingCaptured DEF RecorderInv, TypeOK, CaptureIsReachable, Cancel
<1>6. CASE Finalize
  BY <1>6, NothingCaptured DEF RecorderInv, TypeOK, CaptureIsReachable, Finalize
<1>7. CASE Result
  BY <1>7, NobodyCaptures DEF RecorderInv, TypeOK, CaptureIsReachable, Result
<1>8. CASE CamcorderMessage
  BY <1>8, NothingCaptured DEF RecorderInv, TypeOK, CaptureIsReachable, CamcorderMessage
<1>9. CASE UNCHANGED vars
  BY <1>9 DEF RecorderInv, TypeOK, CaptureIsReachable, vars
<1> QED BY <1>1, <1>2, <1>3, <1>4, <1>5, <1>6, <1>7, <1>8, <1>9 DEF Next

LEMMA InvariantHolds == Spec => []RecorderInv
<1>1. Init => RecorderInv
  BY RecorderAssumption DEF Init, RecorderInv, TypeOK, CaptureIsReachable, Type,
     CamcorderState
<1>2. RecorderInv /\ [Next]_vars => RecorderInv'
  BY RecorderInvStep
<1> QED BY <1>1, <1>2, PTL DEF Spec

\* Every variable keeps to its values, and a handle is one of a camcorder that
\* was not destroyed (sttd_recorder.c:489-511).
THEOREM TypeCorrect == Spec => []TypeOK
<1>1. RecorderInv => TypeOK
  BY DEF RecorderInv
<1> QED BY <1>1, InvariantHolds, PTL

\* Whatever fails, a camcorder that captures is the one that a stop or a cancel
\* of the session being recorded reaches, and it was made for the format that
\* its frames are taken to have (sttd_recorder.c:83-104, 533-664).
THEOREM AlwaysReachable == Spec => []CaptureIsReachable
<1>1. RecorderInv => CaptureIsReachable
  BY DEF RecorderInv
<1> QED BY <1>1, InvariantHolds, PTL

-----------------------------------------------------------------------------
(* The recorder is the microphone of SttMicrophone.                        *)

\* What a step must be to keep that promise.
CallsSeen ==
    /\ (\E t \in Type : Set(t)) => Microphone!RecorderSet
    /\ (\E h \in Camcorder : Start(h)) => Microphone!RecorderStart
    /\ (\E h \in Camcorder : StartFails(h)) => UNCHANGED Microphone!recorderVars
    /\ Cancel \/ Finalize => Microphone!RecorderCancel
    /\ Stop => Microphone!RecorderSends \/ Microphone!RecorderKeeps

\* A capture runs when the camcorder of the handle records, and then only.
LEMMA OneCapture ==
    ASSUME RecorderInv
    PROVE  Mic = IF Capturing THEN "open" ELSE "closed"
BY RecorderAssumption DEF RecorderInv, TypeOK, CaptureIsReachable, Mic, Capturing, In

\* What the two ways to end a capture are for SttMicrophone.
LEMMA EndsAsSeen ==
    ASSUME RecorderInv
    PROVE  /\ CancelRecorder => Microphone!RecorderCancel
           /\ StopRecorder => Microphone!RecorderSends \/ Microphone!RecorderKeeps
<1>1. StopRecorder \/ CancelRecorder => Mic' = "closed"
  BY NothingCaptured DEF Mic
<1>2. CancelRecorder => state' = IF Mic = "open" THEN "ready" ELSE state
  BY OneCapture DEF CancelRecorder
<1>3. StopRecorder => state' = "ready" \/ state' = state
  BY DEF StopRecorder
<1> QED
  BY <1>1, <1>2, <1>3 DEF Microphone!RecorderCancel, Microphone!RecorderSends,
     Microphone!RecorderKeeps

LEMMA StepIsSeen ==
    ASSUME RecorderInv, [Next]_vars
    PROVE  CallsSeen /\ [Microphone!RecordingNext]_(Microphone!recordingVars)
<1> USE DEF Microphone!recorderVars
<1>1. ASSUME NEW t \in Type, Set(t) PROVE Microphone!RecorderSet
  <2>1. state' = state
    BY <1>1 DEF Set
  <2>2. CASE state = "recording" /\ (Capturing \/ In("null")) /\ Destroyed
    <3>1. \A h \in Camcorder : camcorder'[h] # "recording"
      BY <2>2, SMT DEF RecorderInv, TypeOK, CaptureIsReachable, Destroyed, Brought
    <3> QED BY <2>1, <2>2, <3>1 DEF Mic, Microphone!RecorderSet
  <2>3. CASE (state = "recording" => ~Capturing) /\ camcorder' = camcorder
    BY <2>1, <2>3, OneCapture DEF Mic, Microphone!RecorderSet
  <2> QED BY <1>1, <2>2, <2>3 DEF Set
<1>2. ASSUME NEW h \in Camcorder, Start(h) PROVE Microphone!RecorderStart
  <2>1. camcorder'[h] = "recording"
    BY <1>2 DEF Start, Made, RecorderInv, TypeOK
  <2> QED BY <1>2, <2>1 DEF Start, Mic, Microphone!RecorderStart
<1>3. ASSUME NEW h \in Camcorder, StartFails(h) PROVE UNCHANGED Microphone!recorderVars
  <2>1. \A g \in Camcorder : camcorder[g] # "recording"
    BY <1>3, NobodyCaptures DEF StartFails
  <2>2. ASSUME NEW s \in {"null", "ready", "prepare"}, Made(h, s)
        PROVE  \A g \in Camcorder : camcorder'[g] # "recording"
    BY <2>1, <2>2, SMT DEF Made, RecorderInv, TypeOK
  <2>3. \A g \in Camcorder : camcorder'[g] # "recording"
    BY <1>3, <2>1, <2>2 DEF StartFails
  <2> QED BY <1>3, <2>1, <2>3 DEF StartFails, Mic
<1>4. Cancel \/ Finalize => Microphone!RecorderCancel
  BY EndsAsSeen DEF Cancel, Finalize
<1>5. Stop => Microphone!RecorderSends \/ Microphone!RecorderKeeps
  BY EndsAsSeen DEF Stop
<1>6. CallsSeen
  BY <1>1, <1>2, <1>3, <1>4, <1>5 DEF CallsSeen
<1>7. \/ \E v \in Type : Set(v)
      \/ \E h \in Camcorder : Start(h)
      \/ Stop \/ Cancel \/ Finalize \/ Result
      => Microphone!RecordingNext
  BY <1>1, <1>2, <1>5, EndsAsSeen DEF Set, Start, Stop, Cancel, Finalize, Result, Mic,
     Microphone!RecordingNext, Microphone!Sets, Microphone!Starts, Microphone!Stops,
     Microphone!Cancels, Microphone!Finalizes, Microphone!Recognized
<1>8. CamcorderMessage => Microphone!RecordingNext
  <2>1. CamcorderMessage => Mic = "open"
    BY DEF CamcorderMessage, Mic
  <2> QED
    BY <2>1, EndsAsSeen DEF CamcorderMessage, Microphone!Ends, Microphone!RecordingNext
<1>9. (\E h \in Camcorder : StartFails(h)) => UNCHANGED Microphone!recordingVars
  BY <1>3 DEF StartFails, Microphone!recordingVars
<1>10. CASE Next
  BY <1>6, <1>7, <1>8, <1>9, <1>10 DEF Next
<1>11. CASE UNCHANGED vars
  BY <1>6, <1>11 DEF vars, Mic, Microphone!recordingVars
<1> QED
  BY <1>10, <1>11

\* The recorder implements the microphone the session manager is modelled with:
\* in the order it is called in, it captures and stops as SttRecording says
\* (sttd_recorder.c:533-664, called from sttd_server.c:355-706).
THEOREM MicrophoneImplemented == Spec => ImplementsMicrophone
<1>1. Init => Microphone!RecordingInit
  BY DEF Init, Mic, Microphone!RecorderInit, Microphone!RecordingInit
<1>2. RecorderInv /\ [Next]_vars
        => [Microphone!RecordingNext]_(Microphone!recordingVars)
  BY StepIsSeen
<1> QED
  BY <1>1, <1>2, InvariantHolds, PTL
     DEF Spec, ImplementsMicrophone, Microphone!RecordingSpec

\* Each call of the session manager does to the recorder what SttServer takes it
\* to do, whatever was set, stopped or failed before (sttd_recorder.c:533-664).
THEOREM EveryCallAsSeen == Spec => CallsAreAsSeen
<1>1. RecorderInv /\ [Next]_vars => [CallsSeen]_vars
  BY StepIsSeen
<1>2. Spec => [][CallsSeen]_vars
  BY <1>1, InvariantHolds, PTL DEF Spec
<1> QED BY <1>2 DEF CallsSeen, CallsAreAsSeen
=============================================================================
