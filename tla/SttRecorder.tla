------------------------------ MODULE SttRecorder ------------------------------
(***************************************************************************)
(* The recorder, server/sttd_recorder.c: the camcorder it makes for every  *)
(* recording, the format it was told last, and the file an AMR recording   *)
(* is sent from when it stops.  The session manager calls it in the order  *)
(* of server/sttd_server.c, which "serving" stands for.                    *)
(*                                                                         *)
(* Of the camcorder library (external) the code relies on this: record     *)
(* needs a prepared camcorder; commit and cancel need one that records and *)
(* do not fail then; stop, unrealize and destroy undo start, realize and   *)
(* create in turn, and every call fails in another state, or on no handle. *)
(***************************************************************************)
CONSTANTS
    Camcorder,   \* handles mm_camcorder_create can give; bounds how many there are
    FaultyCalls, \* calls that may fail
    NULL         \* no handle

Type == {"pcm", "amr"}
CamcorderState == {"none", "null", "ready", "prepare", "recording"}

ASSUME RecorderAssumption ==
    /\ NULL \notin Camcorder
    /\ FaultyCalls \subseteq {"create", "setup", "record", "file"}

VARIABLES
    state,      \* pVr->state
    type,       \* pVr->audio_type
    handle,     \* pVr->rec_handle
    camcorder,  \* what state each camcorder is in
    format,     \* what the last camcorder was made to capture
    file,       \* there is a file g_temp_file_name
    serving     \* what the session manager is doing

vars == <<state, type, handle, camcorder, format, file, serving>>

Init ==
    /\ state = "ready"
    /\ type = "pcm"
    /\ handle = NULL
    /\ camcorder = [h \in Camcorder |-> "none"]
    /\ format = "pcm"
    /\ file = FALSE
    /\ serving = "nobody"

-----------------------------------------------------------------------------
(* What the recorder does to its camcorder.                                *)

In(s) == handle # NULL /\ camcorder[handle] = s
Capturing == In("recording")

\* The camcorder of the handle, if there is one, brought to state s.
Brought(s) == [h \in Camcorder |-> IF h = handle THEN s ELSE camcorder[h]]

\* __vr_mmcam_destroy of a camcorder that is unrealized.
Destroyed == camcorder' = Brought("none") /\ handle' = NULL

\* A camcorder that is cancelled while it writes a file may or may not leave it.
FileDropped == IF format = "amr" THEN file' \in BOOLEAN ELSE UNCHANGED file

\* sttd_recorder_cancel: where nothing is captured it fails at once.
CancelRecorder ==
    /\ \/ /\ Capturing
          /\ Destroyed
          /\ state' = "ready"
          /\ FileDropped
       \/ ~Capturing /\ UNCHANGED <<handle, camcorder, state, file>>
    /\ UNCHANGED <<type, format>>

\* sttd_recorder_stop: the failures of commit and stop are ignored, but a file
\* that cannot be sent leaves the camcorder and the state.
StopRecorder ==
    LET written == file \/ (Capturing /\ format = "amr")
    IN  /\ file' = written
        /\ \/ /\ type = "pcm" \/ written
              /\ Destroyed
              /\ state' = "ready"
           \/ /\ type = "amr" /\ (~written \/ "file" \in FaultyCalls)
              /\ camcorder' = IF handle = NULL THEN camcorder ELSE Brought("null")
              /\ UNCHANGED <<handle, state>>
        /\ UNCHANGED <<type, format>>

\* __recorder_setup and __recorder_run make camcorder h and get as far as s.
Made(h, s) ==
    /\ camcorder[h] = "none"
    /\ camcorder' = [camcorder EXCEPT ![h] = s]
    /\ handle' = h
    /\ format' = type

-----------------------------------------------------------------------------
(* The session manager's calls, and the camcorder's messages.              *)

\* Mutants of Set: the capture goes on in its format, or the handle of the
\* destroyed camcorder is kept.
SetWithoutCancel(t) ==
    /\ type' = t
    /\ UNCHANGED <<state, handle, camcorder, format, file, serving>>

SetKeepsHandle(t) ==
    /\ type' = t
    /\ state = "recording" /\ Capturing
    /\ camcorder' = Brought("none")
    /\ FileDropped
    /\ UNCHANGED <<state, handle, format, serving>>

\* sttd_recorder_set, for a session that is initialized while others go on; the
\* engine, and the format with it, may have changed since the last.
Set(t) ==
    /\ type' = t
    /\ \/ /\ state = "recording" /\ Capturing
          /\ Destroyed
          /\ FileDropped
       \/ /\ state = "recording" /\ In("null")
          /\ Destroyed
          /\ UNCHANGED file
       \/ /\ state = "recording" => ~(Capturing \/ In("null"))
          /\ UNCHANGED <<handle, camcorder, file>>
    /\ UNCHANGED <<state, format, serving>>

\* Mutant of StartFails: the state is set before the camcorder records.
StartFailsRecording(h) ==
    /\ serving = "nobody"
    /\ file' = FALSE
    /\ "record" \in FaultyCalls /\ Made(h, "prepare")
    /\ state' = "recording"
    /\ UNCHANGED <<type, serving>>

\* sttd_recorder_start: the old file is removed and a new camcorder is made; in
\* the state RECORDING a cancel comes first, which a new camcorder refuses.
Start(h) ==
    /\ serving = "nobody"
    /\ file' = FALSE
    /\ Made(h, "recording")
    /\ state' = "recording"
    /\ serving' = "recording"
    /\ UNCHANGED type

\* A realize that fails goes unnoticed until the start, which then fails too.
StartFails(h) ==
    /\ serving = "nobody"
    /\ file' = FALSE
    /\ \/ "create" \in FaultyCalls /\ UNCHANGED <<handle, camcorder, format>>
       \/ "setup" \in FaultyCalls /\ \E s \in {"null", "ready"} : Made(h, s)
       \/ "record" \in FaultyCalls /\ Made(h, "prepare")
    /\ UNCHANGED <<state, type, serving>>

\* sttd_server_stop; the engine may refuse, and then nobody is served.
Stop ==
    /\ serving = "recording"
    /\ StopRecorder
    /\ serving' \in {"processing", "nobody"}

\* sttd_server_cancel of a recording, which the engine may refuse.
Cancel ==
    /\ serving = "recording"
    /\ CancelRecorder
    /\ serving' \in {"recording", "nobody"}

\* sttd_server_finalize of the session that is served.
Finalize ==
    /\ serving # "nobody"
    /\ CancelRecorder
    /\ serving' = "nobody"

\* A result, a time-out or a cancel ends the recognition; none touches the recorder.
Result ==
    /\ serving = "processing"
    /\ serving' = "nobody"
    /\ UNCHANGED <<state, type, handle, camcorder, format, file>>

\* A limit stops the recorder, an error or a full disk cancels it, whichever
\* camcorder says so; the session manager is not told.
CamcorderMessage ==
    /\ \E h \in Camcorder : camcorder[h] = "recording"
    /\ StopRecorder \/ CancelRecorder
    /\ UNCHANGED serving

Next ==
    \/ \E t \in Type : Set(t)
    \/ \E h \in Camcorder : Start(h) \/ StartFails(h)
    \/ Stop \/ Cancel \/ Finalize \/ Result \/ CamcorderMessage

Spec == Init /\ [][Next]_vars

-----------------------------------------------------------------------------
(* Properties.                                                             *)

\* Every variable keeps to its values, and a handle is one of a camcorder that
\* was not destroyed.
TypeOK ==
    /\ state \in {"ready", "recording"}
    /\ type \in Type /\ format \in Type
    /\ handle \in Camcorder \cup {NULL}
    /\ camcorder \in [Camcorder -> CamcorderState]
    /\ file \in BOOLEAN
    /\ serving \in {"nobody", "recording", "processing"}
    /\ handle # NULL => camcorder[handle] # "none"

\* Whatever fails and in whatever order, a camcorder that captures is the one a
\* stop or a cancel will reach, a session is being recorded, and its frames are
\* taken for what they are (sttd_recorder.c:83-104, 533-556).
CaptureIsReachable ==
    \A h \in Camcorder : camcorder[h] = "recording" =>
        /\ h = handle
        /\ state = "recording"
        /\ serving = "recording"
        /\ format = type


\* What SttMicrophone says of whether a camcorder captures.
Mic == IF \E h \in Camcorder : camcorder[h] = "recording" THEN "open" ELSE "closed"

Microphone == INSTANCE SttRecording WITH recorder <- state, mic <- Mic

\* The recorder is the one SttServer takes it for, in the order in which it is
\* called: no failure makes a capture begin, end or go on at another time.
ImplementsMicrophone == Microphone!RecordingSpec

\* Each call does to the recorder what SttServer takes that call to do, whatever
\* was set, stopped or failed before.
CallsAreAsSeen ==
    [][/\ (\E t \in Type : Set(t)) => Microphone!RecorderSet
       /\ (\E h \in Camcorder : Start(h)) => Microphone!RecorderStart
       /\ (\E h \in Camcorder : StartFails(h)) => UNCHANGED Microphone!recorderVars
       /\ Cancel \/ Finalize => Microphone!RecorderCancel
       /\ Stop => Microphone!RecorderSends \/ Microphone!RecorderKeeps]_vars
=============================================================================
