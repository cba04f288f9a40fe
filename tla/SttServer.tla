------------------------------ MODULE SttServer ------------------------------
(***************************************************************************)
(* The STT daemon's session manager: server/sttd_server.c over             *)
(* server/sttd_client_data.c, with the part of the engine agent that its   *)
(* handlers drive, and the recorder as SttMicrophone gives it.             *)
(*                                                                         *)
(* The daemon is one Ecore main loop: a D-Bus handler, a timer callback or *)
(* a camcorder message is one atomic action.  The clean-up sweep blocks on *)
(* one client after another while the engine may call back, so it is a     *)
(* sequence of actions (variable sweep).  Clock values are abstracted: a   *)
(* live timer may fire at any time.  A step that only refuses a request    *)
(* changes nothing and is left to stuttering.                              *)
(***************************************************************************)
EXTENDS Naturals, FiniteSets, SttMicrophone

CONSTANTS
    Uid,          \* client handles: pid * 1000 + handle number
    Pid,          \* processes of the settings menu
    TimerId,      \* addresses Ecore can give a timer; bounds the live timers
    NULL,         \* no timer, no recognition
    FaultyCalls,  \* calls into other libraries that may fail
    MaxSilence    \* bound on the pending __stop_by_silence timers

ASSUME NullAssumption == NULL \notin Uid /\ NULL \notin TimerId
ASSUME FaultAssumption ==
    FaultyCalls \subseteq
        {"load", "format", "recorder", "camcorder", "stop", "cancel"}
ASSUME SilenceAssumption == MaxSilence \in Nat

VARIABLES
    state,     \* client_info_s.state per uid; "absent" = not in g_client_list
    timerOf,   \* client_info_s.timer: never reset, so it may dangle
    timers,    \* live Ecore timers: the callback, and the session it is for
    silence,   \* pending __stop_by_silence timers
    settings,  \* g_setting_client_list
    engine,    \* g_cur_engine.is_loaded and what the plug-in is doing
    job,       \* user_data of the recognition the plug-in is working on
    gone,      \* clients that died, or lost their handle, without finalize
    sweep      \* uids sttd_cleanup_client has still to greet

vars == <<state, timerOf, timers, silence, settings, engine, job, recorder,
          mic, gone, sweep>>
engineVars == <<engine, job>>

AppState == {"ready", "recording", "processing"}
Busy == {"recording", "processing"}
Working == {"listening", "deciding"}

\* A live timer: its callback, and the session it was armed for.
TimerFor(callback, u) == [cb |-> callback, for |-> u]
NoTimer == [cb |-> "none", for |-> NULL]
Timer == [cb : {"none", "check", "timeout"}, for : Uid \cup {NULL}]

Init ==
    /\ state = [u \in Uid |-> "absent"]
    /\ timerOf = [u \in Uid |-> NULL]
    /\ timers = [t \in TimerId |-> NoTimer]
    /\ silence = 0
    /\ settings = {}
    /\ engine = "unloaded"
    /\ job = NULL
    /\ RecorderInit
    /\ gone = {}
    /\ sweep = {}

-----------------------------------------------------------------------------
(* Client data and timers.                                                 *)

Registered == {u \in Uid : state[u] # "absent"}
Recording == {u \in Uid : state[u] = "recording"}
Processing == {u \in Uid : state[u] = "processing"}

\* sttd_client_get_ref_count() is zero.
NoClients == Registered = {} /\ settings = {}

\* The main loop dispatches a handler only when none is running.
MainLoop == sweep = {}

\* ecore_timer_del, or a callback that returns EINA_FALSE.
Freed(T) == [t \in TimerId |-> IF t \in T THEN NoTimer ELSE timers[t]]

\* Mutant of Arm: the address of the timer is not kept.
ArmUnkept(u, callback, left) ==
    \E t \in TimerId :
        /\ left[t] = NoTimer
        /\ timers' = [left EXCEPT ![t] = TimerFor(callback, u)]
        /\ UNCHANGED timerOf

\* ecore_timer_add for session u once the handler's deletions left "left",
\* its address kept by sttd_cliet_set_timer.
Arm(u, callback, left) ==
    \E t \in TimerId :
        /\ left[t] = NoTimer
        /\ timers' = [left EXCEPT ![t] = TimerFor(callback, u)]
        /\ timerOf' = [timerOf EXCEPT ![u] = t]

-----------------------------------------------------------------------------
(* The engine agent, as the handlers see it.                               *)

LoadedEngine == IF engine = "unloaded" THEN "idle" ELSE engine

EngineUnload == engine' = "unloaded" /\ job' = NULL

\* sttd_engine_recognize_cancel: the plug-in refuses when it has no
\* recognition (sttp.h:484-485), the agent when no engine is loaded.
EngineCancel ==
    /\ engine \in Working
    /\ engine' = "idle"
    /\ job' = NULL

EngineCancelRefused ==
    /\ engine \notin Working \/ "cancel" \in FaultyCalls
    /\ UNCHANGED engineVars

EngineStop ==
    /\ engine = "listening"
    /\ engine' = "deciding"
    /\ UNCHANGED job

\* A plug-in whose stop fails may keep or lose the recognition.
EngineStopRefused ==
    \/ engine # "listening" /\ UNCHANGED engineVars
    \/ "stop" \in FaultyCalls /\ UNCHANGED engineVars
    \/ "stop" \in FaultyCalls /\ engine = "listening" /\ engine' = "idle" /\ job' = NULL

-----------------------------------------------------------------------------
(* The recorder's stop, as the handlers see it.                            *)

\* sttd_recorder_stop: an AMR file that is not there or cannot be read keeps the
\* state; one whose playback the engine rejects arms a __stop_by_silence timer.
\* "pending" is the number of those timers before the call.
RecorderStop(pending) ==
    /\ \/ RecorderSends
       \/ (mic = "closed" \/ "recorder" \in FaultyCalls) /\ RecorderKeeps
    /\ silence' \in {pending, pending + 1} \cap 0..MaxSilence

-----------------------------------------------------------------------------
(* What several handlers share.                                            *)

LastClient(u) == Registered = {u} /\ settings = {}

\* Mutants of ServerFinalize: the engine goes on, the settings menu is not
\* counted.
FinalizeKeepsEngine(u) ==
    /\ state[u] # "absent"
    /\ state' = [state EXCEPT ![u] = "absent"]
    /\ timerOf' = [timerOf EXCEPT ![u] = NULL]
    /\ IF state[u] \in Busy THEN RecorderCancel ELSE UNCHANGED recorderVars
    /\ IF LastClient(u) THEN EngineUnload ELSE UNCHANGED engineVars

FinalizeForgetsSettings(u) ==
    /\ state[u] # "absent"
    /\ state' = [state EXCEPT ![u] = "absent"]
    /\ timerOf' = [timerOf EXCEPT ![u] = NULL]
    /\ IF state[u] \in Busy THEN RecorderCancel ELSE UNCHANGED recorderVars
    /\ IF Registered = {u} THEN EngineUnload ELSE EngineCancel \/ EngineCancelRefused

\* sttd_server_finalize.  The timer of the session is not deleted.
ServerFinalize(u) ==
    /\ state[u] # "absent"
    /\ state' = [state EXCEPT ![u] = "absent"]
    /\ timerOf' = [timerOf EXCEPT ![u] = NULL]
    /\ IF state[u] \in Busy THEN RecorderCancel ELSE UNCHANGED recorderVars
    /\ \/ LastClient(u) /\ EngineUnload
       \/ ~LastClient(u) /\ state[u] \in Busy /\ EngineCancel
       \/ ~LastClient(u) /\ state[u] \in Busy /\ EngineCancelRefused
       \/ ~LastClient(u) /\ state[u] = "ready" /\ UNCHANGED engineVars

\* Mutants of ServerCancel: the timer is deleted before the engine agreed, or
\* the recorder is not cancelled.
CancelDeletesFirst(u, fired) ==
    /\ state[u] \in Busy
    /\ IF state[u] = "recording" THEN RecorderCancel ELSE UNCHANGED recorderVars
    /\ timers' = Freed(fired \cup {timerOf[u]})
    /\ \/ EngineCancel /\ state' = [state EXCEPT ![u] = "ready"]
       \/ EngineCancelRefused /\ UNCHANGED state
    /\ UNCHANGED timerOf

CancelKeepsRecorder(u, fired) ==
    /\ state[u] \in Busy
    /\ EngineCancel
    /\ state' = [state EXCEPT ![u] = "ready"]
    /\ timers' = Freed(fired \cup {timerOf[u]})
    /\ UNCHANGED <<recorderVars, timerOf>>

\* sttd_server_cancel, from a handler whose own timer "fired".
ServerCancel(u, fired) ==
    /\ state[u] \in Busy
    /\ IF state[u] = "recording" THEN RecorderCancel ELSE UNCHANGED recorderVars
    /\ \/ /\ EngineCancel
          /\ state' = [state EXCEPT ![u] = "ready"]
          /\ timers' = Freed(fired \cup {timerOf[u]})
       \/ /\ EngineCancelRefused
          /\ timers' = Freed(fired)
          /\ UNCHANGED state
    /\ UNCHANGED timerOf

\* Mutant of ServerStop: no timer for the result.
StopWithoutTimer(u, pending) ==
    /\ state[u] = "recording"
    /\ RecorderStop(pending)
    /\ EngineStop
    /\ state' = [state EXCEPT ![u] = "processing"]
    /\ timers' = Freed({timerOf[u]})
    /\ UNCHANGED timerOf

\* sttd_server_stop.
ServerStop(u, pending) ==
    /\ state[u] = "recording"
    /\ RecorderStop(pending)
    /\ \/ /\ EngineStop
          /\ state' = [state EXCEPT ![u] = "processing"]
          /\ Arm(u, "timeout", Freed({timerOf[u]}))
       \/ /\ EngineStopRefused
          /\ state' = [state EXCEPT ![u] = "ready"]
          /\ UNCHANGED <<timers, timerOf>>

-----------------------------------------------------------------------------
(* Requests of applications.                                               *)

Initialize(u) ==
    /\ MainLoop
    /\ state[u] = "absent"
    /\ engine # "unloaded" \/ NoClients
    /\ \/ /\ engine' = LoadedEngine
          /\ RecorderSet
          /\ state' = [state EXCEPT ![u] = "ready"]
          /\ UNCHANGED job
       \/ /\ "format" \in FaultyCalls      \* no audio format: stays loaded
          /\ engine' = LoadedEngine
          /\ UNCHANGED <<state, job, recorderVars>>
       \/ /\ "format" \in FaultyCalls      \* unknown audio type: unloaded
          /\ EngineUnload
          /\ UNCHANGED <<state, recorderVars>>
    /\ UNCHANGED <<timerOf, timers, silence, settings, gone, sweep>>

Finalize(u) ==
    /\ MainLoop
    /\ ServerFinalize(u)
    /\ UNCHANGED <<timers, silence, settings, gone, sweep>>

\* Mutant of Start: a session that waits for its result is no obstacle.
StartWhileProcessing(u) ==
    /\ MainLoop
    /\ state[u] = "ready"
    /\ Recording = {}
    /\ engine = "idle"
    /\ engine' = "listening" /\ job' = u
    /\ RecorderStart
    /\ state' = [state EXCEPT ![u] = "recording"]
    /\ Arm(u, "check", timers)
    /\ UNCHANGED <<silence, settings, gone, sweep>>

Start(u) ==
    /\ MainLoop
    /\ state[u] = "ready"
    /\ Recording = {} /\ Processing = {}
    /\ engine = "idle"
    /\ \/ /\ engine' = "listening" /\ job' = u
          /\ RecorderStart
          /\ state' = [state EXCEPT ![u] = "recording"]
          /\ Arm(u, "check", timers)
       \/ /\ {"recorder", "cancel"} \subseteq FaultyCalls
          /\ engine' = "listening" /\ job' = u
          /\ UNCHANGED <<state, timers, timerOf, recorderVars>>
    /\ UNCHANGED <<silence, settings, gone, sweep>>

Stop(u) ==
    /\ MainLoop
    /\ ServerStop(u, silence)
    /\ UNCHANGED <<settings, gone, sweep>>

Cancel(u) ==
    /\ MainLoop
    /\ ServerCancel(u, {})
    /\ UNCHANGED <<silence, settings, gone, sweep>>

-----------------------------------------------------------------------------
(* Timers.                                                                 *)

\* __check_recording_state.  An answer that agrees, or is unknown, re-arms it.
CheckRecording(t) ==
    /\ MainLoop
    /\ timers[t].cb = "check"
    /\ \/ /\ Recording = {}
          /\ timers' = Freed({t})
          /\ UNCHANGED <<state, timerOf, engineVars, recorderVars>>
       \/ \E u \in Recording :             \* no answer
              ServerFinalize(u) /\ timers' = Freed({t})
       \/ \E u \in Recording :             \* the client is ready or processing
              ServerCancel(u, {t})
    /\ UNCHANGED <<silence, settings, gone, sweep>>

\* __time_out_for_processing.
TimeOut(t) ==
    /\ MainLoop
    /\ timers[t].cb = "timeout"
    /\ timers' = Freed({t})
    /\ \/ Processing = {} /\ UNCHANGED <<state, engineVars>>
       \/ \E u \in Processing :
              /\ EngineCancel \/ EngineCancelRefused
              /\ state' = [state EXCEPT ![u] = "ready"]
    /\ UNCHANGED <<timerOf, silence, settings, recorderVars, gone, sweep>>

\* The second half of __stop_by_silence when the client does not take the
\* new state: the session just stopped is finalized.
StopThenFinalize(u) ==
    /\ engine = "listening"
    /\ RecorderStop(silence - 1)
    /\ state' = [state EXCEPT ![u] = "absent"]
    /\ timerOf' = [timerOf EXCEPT ![u] = NULL]
    /\ \E t \in TimerId :
           /\ Freed({timerOf[u]})[t] = NoTimer
           /\ timers' = [Freed({timerOf[u]}) EXCEPT ![t] = TimerFor("timeout", u)]
    /\ \/ LastClient(u) /\ EngineUnload
       \/ ~LastClient(u) /\ EngineCancel
       \/ ~LastClient(u) /\ "cancel" \in FaultyCalls /\ engine' = "deciding" /\ UNCHANGED job

StopBySilence ==
    /\ MainLoop
    /\ silence > 0
    /\ \/ /\ Recording = {}
          /\ silence' = silence - 1
          /\ UNCHANGED <<state, timerOf, timers, engineVars, recorderVars>>
       \/ \E u \in Recording : ServerStop(u, silence - 1)
       \/ \E u \in Recording : StopThenFinalize(u)
    /\ UNCHANGED <<settings, gone, sweep>>

-----------------------------------------------------------------------------
(* Callbacks of the engine and of the camcorder.                           *)

Result ==
    /\ engine = "deciding"
    /\ engine' = "idle"
    /\ job' = NULL
    /\ IF state[job] = "absent"
       THEN UNCHANGED <<state, timers>>
       ELSE /\ state' = [state EXCEPT ![job] = "ready"]
            /\ timers' = Freed({timerOf[job]})
    /\ UNCHANGED <<timerOf, silence, settings, recorderVars, gone, sweep>>

\* The engine hears the end of speech, or refuses the captured audio.
SilenceDetected ==
    /\ Recording # {}
    /\ engine = "listening" \/ mic = "open"
    /\ silence < MaxSilence
    /\ silence' = silence + 1
    /\ UNCHANGED <<state, timerOf, timers, settings, engineVars, recorderVars, gone, sweep>>

\* A size or time limit stops the recorder, an error or a full disk cancels
\* it; the session manager is not told.
CamcorderMessage ==
    /\ MainLoop
    /\ "camcorder" \in FaultyCalls
    /\ mic = "open"
    /\ \/ RecorderStop(silence)
       \/ RecorderCancel /\ UNCHANGED silence
    /\ UNCHANGED <<state, timerOf, timers, settings, engineVars, gone, sweep>>

-----------------------------------------------------------------------------
(* The clean-up sweep.                                                     *)

Crash(u) ==
    /\ u \in Registered \ gone
    /\ gone' = gone \cup {u}
    /\ UNCHANGED <<state, timerOf, timers, silence, settings, engineVars, recorderVars, sweep>>

\* Mutant of StartSweep: the settings menu is swept like an application.
SweepEverybody ==
    /\ MainLoop
    /\ sweep' = Registered \cup settings
    /\ UNCHANGED <<state, timerOf, timers, silence, settings, engineVars, recorderVars, gone>>

StartSweep ==
    /\ MainLoop
    /\ Registered # {}
    /\ sweep' = Registered
    /\ UNCHANGED <<state, timerOf, timers, silence, settings, engineVars, recorderVars, gone>>

\* Mutant of Greet: a session in use is not finalized.
GreetSparesBusy(u) ==
    /\ u \in sweep
    /\ sweep' = sweep \ {u}
    /\ IF u \in gone /\ state[u] = "ready"
       THEN ServerFinalize(u)
       ELSE UNCHANGED <<state, timerOf, engineVars, recorderVars>>
    /\ UNCHANGED <<timers, silence, settings, gone>>

\* A client that is alive but does not answer hello in time counts as gone.
Greet(u) ==
    /\ u \in sweep
    /\ sweep' = sweep \ {u}
    /\ \/ /\ u \notin gone
          /\ UNCHANGED <<state, timerOf, engineVars, recorderVars>>
       \/ ServerFinalize(u)
    /\ UNCHANGED <<timers, silence, settings, gone>>

-----------------------------------------------------------------------------
(* Requests of the settings menu.                                          *)

SettingInitialize(p) ==
    /\ MainLoop
    /\ p \notin settings
    /\ engine' = IF NoClients THEN LoadedEngine ELSE engine
    /\ settings' = settings \cup {p}
    /\ UNCHANGED <<state, timerOf, timers, silence, job, recorderVars, gone, sweep>>

SettingFinalize(p) ==
    /\ MainLoop
    /\ settings' = settings \ {p}
    /\ IF Registered = {} /\ settings \subseteq {p}
       THEN EngineUnload
       ELSE UNCHANGED engineVars
    /\ UNCHANGED <<state, timerOf, timers, silence, recorderVars, gone, sweep>>

\* sttd_engine_setting_set_engine: unloads the engine and loads the new one,
\* whatever it is doing.
SetEngine(p) ==
    /\ MainLoop
    /\ p \in settings
    /\ \/ engine' = "idle"
       \/ "load" \in FaultyCalls /\ engine' = "unloaded"
    /\ job' = NULL
    /\ UNCHANGED <<state, timerOf, timers, silence, settings, recorderVars, gone, sweep>>

-----------------------------------------------------------------------------
Next ==
    \/ \E u \in Uid : \/ Initialize(u) \/ Finalize(u)
                      \/ Start(u) \/ Stop(u) \/ Cancel(u)
                      \/ Crash(u) \/ Greet(u)
    \/ \E t \in TimerId : CheckRecording(t) \/ TimeOut(t)
    \/ \E p \in Pid : SettingInitialize(p) \/ SettingFinalize(p) \/ SetEngine(p)
    \/ StopBySilence \/ Result \/ SilenceDetected \/ CamcorderMessage
    \/ StartSweep

Spec == Init /\ [][Next]_vars


\* Ecore runs every expired timer before it waits again and the sweep recurs
\* only every 500 s, so a live timer is not kept from firing for ever.  The
\* sweep is a timer too, and greets one client after another.
Fairness ==
    /\ SF_vars(\E t \in TimerId : TimeOut(t))
    /\ WF_vars(StartSweep)
    /\ \A u \in Uid : WF_vars(Greet(u))

FairSpec == Spec /\ Fairness

-----------------------------------------------------------------------------
(* Invariants.                                                             *)

\* Every variable keeps to its values; timer pointers are addresses.
TypeOK ==
    /\ state \in [Uid -> AppState \cup {"absent"}]
    /\ timerOf \in [Uid -> TimerId \cup {NULL}]
    /\ timers \in [TimerId -> Timer]
    /\ silence \in 0..MaxSilence
    /\ settings \subseteq Pid
    /\ engine \in {"unloaded", "idle"} \cup Working
    /\ job \in Uid \cup {NULL}
    /\ recorder \in {"ready", "recording"}
    /\ mic \in {"open", "closed"}
    /\ gone \subseteq Uid
    /\ sweep \subseteq Uid

\* The one engine and the one recorder serve one session: of the sessions in
\* g_client_list at most one is recording or processing.
AtMostOneBusy ==
    \A u, v \in Uid : state[u] \in Busy /\ state[v] \in Busy => u = v

\* The daemon never listens behind the applications' backs: whatever fails,
\* the camcorder captures only while a session is RECORDING, and then the
\* recorder knows it has something to stop.
MicOnlyWhileRecording ==
    mic = "open" => Recording # {} /\ recorder = "recording"

\* A session that waits for a result can always be rescued: its own
\* __time_out_for_processing timer is live and is the one it points to.
ProcessingHasOwnTimeout ==
    \A u \in Processing :
        /\ timerOf[u] \in TimerId
        /\ timers[timerOf[u]] = TimerFor("timeout", u)

\* The plug-in works only for the session that is being served, and on what
\* that session is waiting for; an engine left working would refuse every
\* later start.
EngineServesHolder ==
    /\ engine = "listening" => job \in Recording
    /\ engine = "deciding" => job \in Processing

\* sttd_server_stop and sttd_server_cancel delete the timer the session points
\* to: while the plug-in listens to a recording session that timer is live and
\* its own, so no handler deletes a dead timer or another session's.
DeletedTimerIsOwn ==
    engine = "listening" =>
        \A u \in Recording :
            /\ timerOf[u] \in TimerId
            /\ timers[timerOf[u]] = TimerFor("check", u)

\* The reference count works: the engine is loaded exactly while somebody is
\* registered, an application or the settings menu.
EngineLoadedForClients == engine = "unloaded" <=> NoClients

\* What is left of EngineServesHolder when stop and cancel of the plug-in may
\* fail: it may be left working for nobody, but never for the wrong session.
EngineNeverMixesUp ==
    /\ engine = "listening" => \A u \in Recording : job = u
    /\ engine = "deciding" => Recording = {} /\ \A u \in Processing : job = u

\* The inductive invariant: a result is delivered to the job's session and
\* deletes its timer, so the time-out of a waiting session is safe only
\* because the engine never mixes sessions up and only one is busy.
ServerInv ==
    /\ TypeOK
    /\ AtMostOneBusy
    /\ EngineNeverMixesUp
    /\ MicOnlyWhileRecording
    /\ ProcessingHasOwnTimeout

-----------------------------------------------------------------------------
(* Liveness.                                                               *)

\* A session that waits for a result does not wait for ever: a result, a
\* time-out, a cancel or the end of the session comes.
ProcessingEnds == \A u \in Uid : u \in Processing ~> u \notin Processing

\* A client that died without finalize is dropped by the sweep, whatever its
\* session was doing.
GoneClientDropped ==
    \A u \in Uid : u \in gone /\ u \in Registered ~> u \notin Registered

-----------------------------------------------------------------------------
(* What the documentation says and the code does not keep.                 *)

\* sttd_server.c:630 "Time out not to receive recognition result": the time-out
\* that ends a session's processing is the one armed for that session.
TimeoutIsOwn ==
    [][\A u \in Uid, t \in TimerId :
          /\ state[u] = "processing" /\ state'[u] = "ready"
          /\ timers[t].cb = "timeout" /\ timers'[t] = NoTimer
          => timers[t].for = u]_vars

-----------------------------------------------------------------------------
(* The promise SttSessions makes, kept by this module.                     *)

BusySessions == Recording \cup Processing

Holder == IF BusySessions = {} THEN NULL ELSE CHOOSE u \in BusySessions : TRUE

Phase == IF BusySessions = {} THEN "free"
         ELSE IF Recording # {} THEN "recording" ELSE "processing"

Sessions == INSTANCE SttSessions WITH
    members <- Registered, holder <- Holder, phase <- Phase, microphone <- mic

\* Every step of the daemon is a step of the promise, or changes nothing a
\* client can see: one session is served at a time, and the microphone opens
\* only when the service is taken and closes before it is handed over.
ImplementsSessions == Sessions!SessionsSpec

-----------------------------------------------------------------------------
(* What this module takes the engine agent for.                            *)

Service == INSTANCE SttEngineService WITH
    Session <- Uid, Menu <- Pid, sessions <- Registered, menus <- settings,
    loaded <- engine # "unloaded", job <- IF engine \in Working THEN job ELSE NULL

\* The engine of this module is the one SttEngineAgent provides: whatever fails,
\* the two agree on when it is loaded, who is let in and for whom it works.
UsesEngine == Service!ServiceSpec

\* What it takes the recorder for, and the order in which it calls it.
Capture == INSTANCE SttRecording WITH
    serving <- IF Phase = "free" THEN "nobody" ELSE Phase

\* Whatever fails, the recorder is called in the order SttRecorder relies on: a
\* capture is started when nobody is served, and stopped or cancelled for the
\* one session that it was started for.
DrivesRecorder == Capture!RecordingSpec
=============================================================================
