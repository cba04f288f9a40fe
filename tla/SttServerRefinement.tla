-------------------------- MODULE SttServerRefinement --------------------------
(***************************************************************************)
(* The daemon keeps the promise of SttSessions, and uses the engine as     *)
(* SttEngineService promises it, for every set of sessions and whatever    *)
(* calls fail.                                                             *)
(***************************************************************************)
EXTENDS SttServerProofs

-----------------------------------------------------------------------------
(* The refinement mapping.                                                 *)

\* With one busy session at most, the holder is that session.
LEMMA HolderIsBusy ==
    ASSUME AtMostOneBusy, NEW u \in Uid, state[u] \in Busy
    PROVE  Holder = u /\ Phase = state[u]
<1>1. BusySessions = {u}
  BY SMT DEF AtMostOneBusy, BusySessions, Recording, Processing, Busy
<1>2. Holder = u
  BY <1>1 DEF Holder
<1>3. Phase = state[u]
  BY <1>1, SMT DEF Phase, BusySessions, Recording, Processing, Busy
<1>4. QED
  BY <1>2, <1>3

\* The same after a step.
LEMMA HolderWillBeBusy ==
    ASSUME AtMostOneBusy', NEW u \in Uid, state'[u] \in Busy
    PROVE  Holder' = u /\ Phase' = state'[u]
<1>1. BusySessions' = {u}
  BY SMT DEF AtMostOneBusy, BusySessions, Recording, Processing, Busy
<1>2. Holder' = u
  BY <1>1 DEF Holder
<1>3. Phase' = state'[u]
  BY <1>1, SMT DEF Phase, BusySessions, Recording, Processing, Busy
<1>4. QED
  BY <1>2, <1>3

\* A step that moves no busy session leaves holder and phase alone.
LEMMA HolderKept ==
    ASSUME Recording' = Recording, Processing' = Processing
    PROVE  Holder' = Holder /\ Phase' = Phase
BY DEF Holder, Phase, BusySessions

\* Nobody busy: nobody holds the service.
LEMMA NobodyHolds ==
    ASSUME Recording = {}, Processing = {}
    PROVE  Holder = NULL /\ Phase = "free"
BY DEF Holder, Phase, BusySessions

\* The same after a step.
LEMMA NobodyWillHold ==
    ASSUME Recording' = {}, Processing' = {}
    PROVE  Holder' = NULL /\ Phase' = "free"
BY DEF Holder, Phase, BusySessions

-----------------------------------------------------------------------------
(* The kinds of steps the daemon takes.                                    *)

MicKept == mic' \in {mic, "closed"}

\* sttd_client_add registers a session, and may cost the holder its microphone.
LEMMA JoinStep ==
    ASSUME ServerInv, NEW u \in Uid, state[u] = "absent", MicKept,
           state' = [state EXCEPT ![u] = "ready"]
    PROVE  Sessions!Join(u)
<1>1. Registered' = Registered \cup {u} /\ u \notin Registered
  BY SMT DEF ServerInv, TypeOK, Registered
<1>2. Recording' = Recording /\ Processing' = Processing
  BY SMT DEF ServerInv, TypeOK, Recording, Processing
<1>3. Holder' = Holder /\ Phase' = Phase
  BY <1>2, HolderKept
<1>4. QED
  BY <1>1, <1>3 DEF Sessions!Join, MicKept

\* sttd_client_delete removes one, and frees the service if it was the holder.
LEMMA LeaveStep ==
    ASSUME ServerInv, ServerInv', NEW u \in Uid, state[u] # "absent",
           state' = [state EXCEPT ![u] = "absent"],
           state[u] \in Busy \/ UNCHANGED mic
    PROVE  Sessions!Leave(u)
<1>1. Registered' = Registered \ {u} /\ u \in Registered
  BY SMT DEF ServerInv, TypeOK, Registered
<1>2. CASE state[u] \in Busy
  <2>1. Holder = u
    BY <1>2, HolderIsBusy DEF ServerInv
  <2>2. Recording' = {} /\ Processing' = {}
    BY <1>2, SMT DEF ServerInv, TypeOK, AtMostOneBusy, Recording, Processing, Busy
  <2>3. mic' = "closed"
    BY <2>2, SMT DEF ServerInv, TypeOK, MicOnlyWhileRecording
  <2>4. QED
    BY <1>1, <2>1, <2>2, <2>3, NobodyWillHold
       DEF Sessions!Leave, Sessions!FreeService
<1>3. CASE state[u] \notin Busy
  <2>1. Recording' = Recording /\ Processing' = Processing
    BY <1>3, SMT DEF ServerInv, TypeOK, Recording, Processing, Busy
  <2>2. Holder' = Holder /\ Phase' = Phase
    BY <2>1, HolderKept
  <2>3. Holder # u
    BY <1>3, NullAssumption, SMT DEF Holder, BusySessions, Recording, Processing, Busy
  <2>4. QED
    BY <1>1, <1>3, <2>2, <2>3 DEF Sessions!Leave
<1>4. QED
  BY <1>2, <1>3

\* sttd_server_start takes the free service.
LEMMA TakeStep ==
    ASSUME ServerInv, ServerInv', NEW u \in Uid, state[u] = "ready",
           Recording = {}, Processing = {},
           state' = [state EXCEPT ![u] = "recording"], mic' = "open"
    PROVE  Sessions!Take(u)
<1>1. Registered' = Registered /\ u \in Registered
  BY SMT DEF ServerInv, TypeOK, Registered
<1>2. state'[u] = "recording"
  BY SMT DEF ServerInv, TypeOK
<1>3. Holder' = u /\ Phase' = "recording"
  BY <1>2, HolderWillBeBusy DEF ServerInv, Busy
<1>4. QED
  BY <1>1, <1>3, NobodyHolds DEF Sessions!Take

\* sttd_server_stop hands the recording over, the microphone closed.
LEMMA HandOverStep ==
    ASSUME ServerInv, ServerInv', NEW u \in Uid, state[u] = "recording",
           state' = [state EXCEPT ![u] = "processing"]
    PROVE  Sessions!HandOver
<1>1. Registered' = Registered
  BY SMT DEF ServerInv, TypeOK, Registered
<1>2. Holder = u /\ Phase = "recording"
  BY HolderIsBusy DEF ServerInv, Busy
<1>3. state'[u] = "processing"
  BY SMT DEF ServerInv, TypeOK
<1>4. Holder' = u /\ Phase' = "processing"
  BY <1>3, HolderWillBeBusy DEF ServerInv, Busy
<1>5. Recording' = {}
  BY SMT DEF ServerInv, TypeOK, AtMostOneBusy, Recording, Busy
<1>6. mic' = "closed"
  BY <1>5, SMT DEF ServerInv, TypeOK, MicOnlyWhileRecording
<1>7. QED
  BY <1>1, <1>2, <1>4, <1>6 DEF Sessions!HandOver

\* The holder becomes READY: the service is free, the microphone closed.
LEMMA ReleaseStep ==
    ASSUME ServerInv, ServerInv', NEW u \in Uid, state[u] \in Busy,
           state' = [state EXCEPT ![u] = "ready"]
    PROVE  Sessions!Release
<1>1. Registered' = Registered
  BY SMT DEF ServerInv, TypeOK, Registered, Busy
<1>2. Holder = u
  BY HolderIsBusy DEF ServerInv
<1>3. Recording' = {} /\ Processing' = {}
  BY SMT DEF ServerInv, TypeOK, AtMostOneBusy, Recording, Processing, Busy
<1>4. mic' = "closed"
  BY <1>3, SMT DEF ServerInv, TypeOK, MicOnlyWhileRecording
<1>5. QED
  BY <1>1, <1>2, <1>3, <1>4, NobodyWillHold, NullAssumption
     DEF Sessions!Release, Sessions!FreeService

\* No session moves: at most the microphone is lost.
LEMMA QuietStep ==
    ASSUME ServerInv, UNCHANGED state, MicKept
    PROVE  Sessions!LoseMicrophone \/ UNCHANGED Sessions!serviceVars
<1>1. Registered' = Registered /\ Recording' = Recording /\ Processing' = Processing
  BY DEF Registered, Recording, Processing
<1>2. Holder' = Holder /\ Phase' = Phase
  BY <1>1, HolderKept
<1>3. CASE mic' = mic
  BY <1>1, <1>2, <1>3 DEF Sessions!serviceVars
<1>4. CASE mic' # mic
  <2>1. mic = "open" /\ mic' = "closed"
    BY <1>4, SMT DEF MicKept, ServerInv, TypeOK
  <2>2. QED
    BY <1>1, <1>2, <2>1 DEF Sessions!LoseMicrophone
<1>5. QED
  BY <1>3, <1>4

-----------------------------------------------------------------------------
(* Every step.                                                             *)

Promised == Sessions!SessionsNext \/ UNCHANGED Sessions!serviceVars

\* The handlers that several actions share.
LEMMA SharedSteps ==
    ASSUME ServerInv, ServerInv', NEW u \in Uid
    PROVE  /\ ServerFinalize(u) => Promised
           /\ \A T : ServerCancel(u, T) => Promised
           /\ \A pending : ServerStop(u, pending) => Promised
<1>1. ASSUME ServerFinalize(u) PROVE Promised
  <2>1. state[u] \in Busy \/ UNCHANGED mic
    BY <1>1 DEF ServerFinalize, recorderVars
  <2>2. Sessions!Leave(u)
    BY <1>1, <2>1, LeaveStep DEF ServerFinalize
  <2>3. QED
    BY <2>2 DEF Promised, Sessions!SessionsNext
<1>2. ASSUME NEW T, ServerCancel(u, T) PROVE Promised
  <2>1. CASE state' = [state EXCEPT ![u] = "ready"]
    BY <1>2, <2>1, ReleaseStep DEF ServerCancel, Promised, Sessions!SessionsNext
  <2>2. CASE UNCHANGED state
    <3>1. MicKept
      BY <1>2, SMT DEF ServerCancel, RecorderCancel, recorderVars, MicKept
    <3>2. QED
      BY <2>2, <3>1, QuietStep DEF Promised, Sessions!SessionsNext
  <2>3. QED
    BY <1>2, <2>1, <2>2 DEF ServerCancel
<1>3. ASSUME NEW pending, ServerStop(u, pending) PROVE Promised
  <2>1. CASE state' = [state EXCEPT ![u] = "processing"]
    BY <1>3, <2>1, HandOverStep DEF ServerStop, Promised, Sessions!SessionsNext
  <2>2. CASE state' = [state EXCEPT ![u] = "ready"]
    BY <1>3, <2>2, ReleaseStep DEF ServerStop, Busy, Promised, Sessions!SessionsNext
  <2>3. QED
    BY <1>3, <2>1, <2>2 DEF ServerStop
<1>4. QED
  BY <1>1, <1>2, <1>3

\* Every step of the daemon is a step of the promise, or changes nothing in it.
LEMMA StepPromised ==
    ASSUME ServerInv, ServerInv', [Next]_vars
    PROVE  Promised
<1>a. ASSUME UNCHANGED state, MicKept PROVE Promised
  BY <1>a, QuietStep DEF Promised, Sessions!SessionsNext
<1>1. ASSUME NEW u \in Uid, Initialize(u) PROVE Promised
  <2>1. MicKept
    BY <1>1, SMT DEF Initialize, RecorderSet, recorderVars, MicKept
  <2>2. CASE state' = [state EXCEPT ![u] = "ready"]
    BY <1>1, <2>1, <2>2, JoinStep DEF Initialize, Promised, Sessions!SessionsNext
  <2>3. CASE UNCHANGED state
    BY <2>1, <2>3, <1>a
  <2>4. QED
    BY <1>1, <2>2, <2>3 DEF Initialize
<1>2. ASSUME NEW u \in Uid, Finalize(u) PROVE Promised
  BY <1>2, SharedSteps DEF Finalize
<1>3. ASSUME NEW u \in Uid, Start(u) PROVE Promised
  <2>1. CASE mic' = "open" /\ state' = [state EXCEPT ![u] = "recording"]
    BY <1>3, <2>1, TakeStep DEF Start, Promised, Sessions!SessionsNext
  <2>2. CASE UNCHANGED <<state, recorderVars>>
    BY <2>2, <1>a DEF recorderVars, MicKept
  <2>3. QED
    BY <1>3, <2>1, <2>2 DEF Start, RecorderStart
<1>4. ASSUME NEW u \in Uid, Stop(u) PROVE Promised
  BY <1>4, SharedSteps DEF Stop
<1>5. ASSUME NEW u \in Uid, Cancel(u) PROVE Promised
  BY <1>5, SharedSteps DEF Cancel
<1>6. ASSUME NEW u \in Uid, Crash(u) PROVE Promised
  BY <1>6, <1>a DEF Crash, recorderVars, MicKept
<1>7. ASSUME NEW u \in Uid, Greet(u) PROVE Promised
  BY <1>7, <1>a, SharedSteps DEF Greet, recorderVars, MicKept
<1>8. ASSUME NEW t \in TimerId, CheckRecording(t) PROVE Promised
  BY <1>8, <1>a, SharedSteps DEF CheckRecording, Recording, recorderVars, MicKept
<1>9. ASSUME NEW t \in TimerId, TimeOut(t) PROVE Promised
  <2>1. CASE UNCHANGED state
    BY <1>9, <2>1, <1>a DEF TimeOut, recorderVars, MicKept
  <2>2. ASSUME NEW u \in Processing, state' = [state EXCEPT ![u] = "ready"]
        PROVE  Promised
    BY <2>2, ReleaseStep DEF Processing, Busy, Promised, Sessions!SessionsNext
  <2>3. QED
    BY <1>9, <2>1, <2>2 DEF TimeOut
<1>10. ASSUME NEW p \in Pid, SettingInitialize(p) PROVE Promised
  BY <1>10, <1>a DEF SettingInitialize, recorderVars, MicKept
<1>11. ASSUME NEW p \in Pid, SettingFinalize(p) PROVE Promised
  BY <1>11, <1>a DEF SettingFinalize, recorderVars, MicKept
<1>12. ASSUME NEW p \in Pid, SetEngine(p) PROVE Promised
  BY <1>12, <1>a DEF SetEngine, recorderVars, MicKept
<1>13. CASE StopBySilence
  <2>1. ASSUME NEW u \in Recording, StopThenFinalize(u) PROVE Promised
    BY <2>1, LeaveStep
       DEF StopThenFinalize, Recording, Busy, Promised, Sessions!SessionsNext
  <2>2. QED
    BY <1>13, <2>1, <1>a, SharedSteps
       DEF StopBySilence, Recording, recorderVars, MicKept
<1>14. CASE Result
  <2>1. mic' = mic
    BY <1>14 DEF Result, recorderVars
  <2>2. CASE UNCHANGED state
    BY <2>1, <2>2, <1>a DEF MicKept
  <2>3. CASE state[job] # "absent" /\ state' = [state EXCEPT ![job] = "ready"]
    <3>1. CASE job \notin Uid
      BY <2>1, <2>3, <3>1, <1>a, SMT DEF ServerInv, TypeOK, MicKept
    <3>2. CASE job \in Uid /\ state[job] \in Busy
      BY <2>3, <3>2, ReleaseStep DEF Promised, Sessions!SessionsNext
    <3>3. CASE job \in Uid /\ state[job] = "ready"
      BY <2>1, <2>3, <3>3, <1>a, SMT DEF ServerInv, TypeOK, MicKept
    <3>4. QED
      BY <2>3, <3>1, <3>2, <3>3, SMT DEF ServerInv, TypeOK, AppState, Busy
  <2>4. QED
    BY <1>14, <2>2, <2>3 DEF Result
<1>15. CASE SilenceDetected
  BY <1>15, <1>a DEF SilenceDetected, recorderVars, MicKept
<1>16. CASE CamcorderMessage
  BY <1>16, <1>a DEF CamcorderMessage, RecorderStop, RecorderSends, RecorderKeeps, RecorderCancel, MicKept
<1>17. CASE StartSweep
  BY <1>17, <1>a DEF StartSweep, recorderVars, MicKept
<1>18. CASE UNCHANGED vars
  BY <1>18, <1>a DEF vars, MicKept
<1>19. QED
  BY <1>1, <1>2, <1>3, <1>4, <1>5, <1>6, <1>7, <1>8, <1>9, <1>10, <1>11, <1>12,
     <1>13, <1>14, <1>15, <1>16, <1>17, <1>18 DEF Next

\* The session manager implements SttSessions: whatever calls fail, clients see
\* one recognition at a time and a microphone that is open only for its holder.
THEOREM SessionsImplemented == Spec => ImplementsSessions
<1>1. Init => Sessions!SessionsInit
  <2>1. ASSUME Init PROVE Registered = {} /\ Recording = {} /\ Processing = {}
    BY <2>1, SMT DEF Init, Registered, Recording, Processing
  <2>2. QED
    BY <2>1, NobodyHolds DEF Init, RecorderInit, Sessions!SessionsInit
<1>2. ServerInv /\ ServerInv' /\ [Next]_vars
        => [Sessions!SessionsNext]_(Sessions!serviceVars)
  BY StepPromised DEF Promised
<1>3. QED
  BY <1>1, <1>2, InvariantHolds, PTL DEF Spec, ImplementsSessions, Sessions!SessionsSpec

-----------------------------------------------------------------------------
(* The engine.                                                             *)

EngineLoaded == engine # "unloaded"
EngineJob == IF engine \in Working THEN job ELSE NULL

\* The engine stays, and works on what it worked on or on nothing.
EngineGoesOn == EngineLoaded' = EngineLoaded /\ EngineJob' \in {EngineJob, NULL}

EngineUsed == Service!ServiceNext \/ UNCHANGED Service!engineUse

\* A stop or a cancel, refused or not, does no more to it.
LEMMA EngineKept ==
    ASSUME \/ EngineCancel \/ EngineCancelRefused \/ EngineStop \/ EngineStopRefused
           \/ UNCHANGED engineVars
    PROVE  EngineGoesOn
BY SMT DEF EngineCancel, EngineCancelRefused, EngineStop, EngineStopRefused,
   engineVars, EngineGoesOn, EngineLoaded, EngineJob, Working

\* Nobody comes or goes: at most the recognition ends.
LEMMA EngineOnly ==
    ASSUME UNCHANGED <<Registered, settings>>, EngineGoesOn
    PROVE  EngineUsed
<1>1. CASE EngineJob' = EngineJob
  BY <1>1 DEF EngineGoesOn, EngineLoaded, EngineJob, EngineUsed, Service!engineUse
<1>2. CASE EngineJob' = NULL
  <2>1. Service!Ends
    BY <1>2 DEF EngineGoesOn, EngineLoaded, EngineJob, Service!Ends
  <2>2. QED
    BY <2>1 DEF EngineUsed, Service!ServiceNext
<1>3. QED
  BY <1>1, <1>2 DEF EngineGoesOn

\* The state of a session that is not registered, or stays so, is no client's.
LEMMA RegisteredKept ==
    ASSUME TypeOK, NEW u \in Uid, state[u] # "absent", NEW s \in AppState,
           state' = [state EXCEPT ![u] = s]
    PROVE  Registered' = Registered
BY SMT DEF TypeOK, Registered, AppState

\* A session leaves: the engine goes with the last client.
LEMMA SessionGoes ==
    ASSUME TypeOK, NEW u \in Uid, state[u] # "absent",
           state' = [state EXCEPT ![u] = "absent"], UNCHANGED settings,
           \/ LastClient(u) /\ EngineUnload
           \/ ~LastClient(u) /\ EngineGoesOn
    PROVE  EngineUsed
<1>1. Registered' = Registered \ {u} /\ u \in Registered
  BY SMT DEF TypeOK, Registered
<1>2. LastClient(u) <=> Service!Unused'
  BY <1>1 DEF LastClient, Service!Unused
<1>3. Service!SessionLeaves(u)
  <2>1. CASE LastClient(u) /\ EngineUnload
    <3>1. Service!Unloads
      BY <2>1 DEF EngineUnload, Working, Service!Unloads
    <3>2. QED
      BY <1>1, <1>2, <2>1, <3>1 DEF Service!SessionLeaves
  <2>2. CASE ~LastClient(u) /\ EngineGoesOn
    BY <1>1, <1>2, <2>2
       DEF EngineGoesOn, EngineLoaded, EngineJob, Service!SessionLeaves
  <2>3. QED
    BY <2>1, <2>2
<1>4. QED
  BY <1>3 DEF EngineUsed, Service!ServiceNext

\* The handlers that several actions share.
LEMMA EngineShared ==
    ASSUME TypeOK, NEW u \in Uid, UNCHANGED settings
    PROVE  /\ ServerFinalize(u) => EngineUsed
           /\ \A T : ServerCancel(u, T) => EngineUsed
           /\ \A pending : ServerStop(u, pending) => EngineUsed
           /\ StopThenFinalize(u) /\ u \in Recording => EngineUsed
<1>1. ASSUME ServerFinalize(u) PROVE EngineUsed
  BY <1>1, EngineKept, SessionGoes DEF ServerFinalize
<1>2. ASSUME NEW T, ServerCancel(u, T) PROVE EngineUsed
  <2>1. Registered' = Registered
    BY <1>2, RegisteredKept DEF ServerCancel, Registered, Busy, AppState
  <2>2. EngineGoesOn
    BY <1>2, EngineKept DEF ServerCancel
  <2>3. QED
    BY <2>1, <2>2, EngineOnly
<1>3. ASSUME NEW pending, ServerStop(u, pending) PROVE EngineUsed
  <2>1. Registered' = Registered
    BY <1>3, RegisteredKept DEF ServerStop, AppState
  <2>2. EngineGoesOn
    BY <1>3, EngineKept DEF ServerStop
  <2>3. QED
    BY <2>1, <2>2, EngineOnly
<1>4. ASSUME StopThenFinalize(u), u \in Recording PROVE EngineUsed
  <2>1. state[u] # "absent" /\ state' = [state EXCEPT ![u] = "absent"]
    BY <1>4 DEF StopThenFinalize, Recording
  <2>2. engine = "listening" /\ engine' = "deciding" /\ UNCHANGED job => EngineGoesOn
    BY SMT DEF EngineGoesOn, EngineLoaded, EngineJob, Working
  <2>3. QED
    BY <1>4, <2>1, <2>2, EngineKept, SessionGoes DEF StopThenFinalize
<1>5. QED
  BY <1>1, <1>2, <1>3, <1>4

\* A session arrives, or is turned away, or costs everybody the engine.
LEMMA EngineForSession ==
    ASSUME TypeOK, NEW u \in Uid, Initialize(u)
    PROVE  EngineUsed
<1>1. u \notin Registered /\ (EngineLoaded \/ Service!Unused)
  BY DEF Initialize, EngineLoaded, Registered, NoClients, Service!Unused
<1>2. ASSUME engine' = LoadedEngine, job' = job
      PROVE  EngineLoaded' /\ EngineJob' = EngineJob
    BY <1>2, SMT DEF TypeOK, LoadedEngine, EngineLoaded, EngineJob, Working
<1>3. CASE engine' = LoadedEngine /\ state' = [state EXCEPT ![u] = "ready"] /\ UNCHANGED job
  <2>1. Registered' = Registered \cup {u}
    BY <1>3, SMT DEF TypeOK, Registered
  <2>2. Service!SessionArrives(u)
    BY <1>1, <1>2, <1>3, <2>1
       DEF Initialize, EngineLoaded, EngineJob, Service!SessionArrives
  <2>3. QED
    BY <2>2 DEF EngineUsed, Service!ServiceNext
<1>4. CASE engine' = LoadedEngine /\ UNCHANGED <<state, job>>
  <2>1. Registered' = Registered
    BY <1>4 DEF Registered
  <2>2. CASE EngineLoaded
    <3>1. EngineGoesOn
      BY <1>2, <1>4, <2>2 DEF EngineGoesOn, EngineLoaded
    <3>2. QED
      BY <2>1, <3>1, EngineOnly DEF Initialize
  <2>3. CASE Service!Unused
    <3>1. Service!LoadsInVain
      BY <1>2, <1>4, <2>1, <2>3
         DEF Initialize, EngineLoaded, EngineJob, Service!LoadsInVain
    <3>2. QED
      BY <3>1 DEF EngineUsed, Service!ServiceNext
  <2>4. QED
    BY <1>1, <2>2, <2>3
<1>5. CASE EngineUnload /\ UNCHANGED state
  <2>1. Registered' = Registered
    BY <1>5 DEF Registered
  <2>2. Service!Unloads
    BY <1>5 DEF EngineUnload, Working, Service!Unloads
  <2>3. Service!Rejects(u)
    BY <1>1, <2>1, <2>2 DEF Initialize, Service!Rejects
  <2>4. QED
    BY <2>3 DEF EngineUsed, Service!ServiceNext
<1>6. QED
  BY <1>3, <1>4, <1>5 DEF Initialize

\* The menus: one arrives, one leaves, one sets another engine.
LEMMA EngineForMenu ==
    ASSUME TypeOK, NEW p \in Pid
    PROVE  /\ SettingInitialize(p) => EngineUsed
           /\ SettingFinalize(p) => EngineUsed
           /\ SetEngine(p) => EngineUsed
<1>0. UNCHANGED state => Registered' = Registered
  BY DEF Registered
<1>1. ASSUME SettingInitialize(p) PROVE EngineUsed
  <2>1. NoClients <=> Service!Unused
    BY DEF NoClients, Service!Unused
  <2>2. EngineLoaded' = (EngineLoaded \/ NoClients) /\ EngineJob' = EngineJob
    BY <1>1, SMT
       DEF TypeOK, SettingInitialize, LoadedEngine, EngineLoaded, EngineJob, Working
  <2>3. Service!MenuArrives(p)
    BY <1>0, <1>1, <2>1, <2>2
       DEF SettingInitialize, EngineLoaded, EngineJob, Service!MenuArrives
  <2>4. QED
    BY <2>3 DEF EngineUsed, Service!ServiceNext
<1>2. ASSUME SettingFinalize(p) PROVE EngineUsed
  <2>1. Registered' = Registered /\ settings' = settings \ {p}
    BY <1>0, <1>2 DEF SettingFinalize
  <2>2. Service!Unused' <=> Registered = {} /\ settings \subseteq {p}
    BY <2>1 DEF Service!Unused
  <2>3. EngineUnload => Service!Unloads
    BY DEF EngineUnload, Working, Service!Unloads
  <2>4. UNCHANGED engineVars => EngineLoaded' = EngineLoaded /\ EngineJob' = EngineJob
    BY DEF engineVars, EngineLoaded, EngineJob
  <2>5. Service!MenuLeaves(p)
    BY <1>2, <2>1, <2>2, <2>3, <2>4
       DEF SettingFinalize, EngineLoaded, EngineJob, Service!MenuLeaves
  <2>6. QED
    BY <2>5 DEF EngineUsed, Service!ServiceNext
<1>3. ASSUME SetEngine(p) PROVE EngineUsed
  <2>1. settings # {} /\ EngineJob' = NULL
    BY <1>3 DEF SetEngine, EngineJob
  <2>2. EngineLoaded' \in BOOLEAN
    BY DEF EngineLoaded
  <2>3. Service!Replaced
    BY <1>0, <1>3, <2>1, <2>2
       DEF SetEngine, EngineLoaded, EngineJob, Service!Replaced
  <2>4. QED
    BY <2>3 DEF EngineUsed, Service!ServiceNext
<1>4. QED
  BY <1>1, <1>2, <1>3

\* A recognition begins only on an idle engine, for a session that is ready.
LEMMA EngineForStart ==
    ASSUME TypeOK, NEW u \in Uid, Start(u)
    PROVE  EngineUsed
<1>1. u \in Registered
  BY DEF Start, Registered
<1>2. Registered' = Registered
  <2>1. state' = [state EXCEPT ![u] = "recording"] \/ UNCHANGED state
    BY DEF Start
  <2>2. QED
    BY <2>1, RegisteredKept DEF Start, Registered, AppState
<1>3. EngineLoaded /\ EngineLoaded' /\ EngineJob = NULL /\ EngineJob' = u
  BY SMT DEF Start, EngineLoaded, EngineJob, Working
<1>4. Service!Begins(u)
  BY <1>1, <1>2, <1>3 DEF Start, EngineLoaded, EngineJob, Service!Begins
<1>5. QED
  BY <1>4 DEF EngineUsed, Service!ServiceNext

\* Every step of the daemon treats the engine as it may be treated.
LEMMA StepUsesEngine ==
    ASSUME TypeOK, [Next]_vars
    PROVE  EngineUsed
<1>a. ASSUME UNCHANGED <<state, settings, engineVars>> PROVE EngineUsed
  <2>1. UNCHANGED <<Registered, settings>>
    BY <1>a DEF Registered
  <2>2. QED
    BY <1>a, <2>1, EngineKept, EngineOnly
<1>1. ASSUME NEW u \in Uid, Initialize(u) PROVE EngineUsed
  BY <1>1, EngineForSession
<1>2. ASSUME NEW u \in Uid, Finalize(u) PROVE EngineUsed
  BY <1>2, EngineShared DEF Finalize
<1>3. ASSUME NEW u \in Uid, Start(u) PROVE EngineUsed
  BY <1>3, EngineForStart
<1>4. ASSUME NEW u \in Uid, Stop(u) PROVE EngineUsed
  BY <1>4, EngineShared DEF Stop
<1>5. ASSUME NEW u \in Uid, Cancel(u) PROVE EngineUsed
  BY <1>5, EngineShared DEF Cancel
<1>6. ASSUME NEW u \in Uid, Crash(u) PROVE EngineUsed
  BY <1>6, <1>a DEF Crash
<1>7. ASSUME NEW u \in Uid, Greet(u) PROVE EngineUsed
  BY <1>7, <1>a, EngineShared DEF Greet
<1>8. ASSUME NEW t \in TimerId, CheckRecording(t) PROVE EngineUsed
  BY <1>8, <1>a, EngineShared DEF CheckRecording, Recording
<1>9. ASSUME NEW t \in TimerId, TimeOut(t) PROVE EngineUsed
  <2>1. CASE UNCHANGED <<state, engineVars>>
    BY <1>9, <2>1, <1>a DEF TimeOut
  <2>2. ASSUME NEW u \in Processing, EngineCancel \/ EngineCancelRefused,
               state' = [state EXCEPT ![u] = "ready"]
        PROVE  EngineUsed
    <3>1. u \in Uid /\ state[u] # "absent"
      BY DEF Processing
    <3>2. Registered' = Registered
      BY <2>2, <3>1, RegisteredKept DEF AppState
    <3>3. QED
      BY <1>9, <2>2, <3>2, EngineKept, EngineOnly DEF TimeOut
  <2>3. QED
    BY <1>9, <2>1, <2>2 DEF TimeOut
<1>10. ASSUME NEW p \in Pid, SettingInitialize(p) \/ SettingFinalize(p) \/ SetEngine(p)
       PROVE  EngineUsed
  BY <1>10, EngineForMenu
<1>11. CASE StopBySilence
  BY <1>11, <1>a, EngineShared DEF StopBySilence, Recording
<1>12. CASE Result
  <2>1. EngineGoesOn
    BY <1>12, SMT DEF Result, EngineGoesOn, EngineLoaded, EngineJob, Working
  <2>2. Registered' = Registered
    <3>1. CASE UNCHANGED state
      BY <3>1 DEF Registered
    <3>2. CASE job \notin Uid /\ state' = [state EXCEPT ![job] = "ready"]
      <4>1. state' = state
        BY <3>2, SMT DEF TypeOK
      <4>2. QED
        BY <4>1 DEF Registered
    <3>3. CASE /\ job \in Uid /\ state[job] # "absent"
               /\ state' = [state EXCEPT ![job] = "ready"]
      BY <3>3, RegisteredKept DEF AppState
    <3>4. QED
      BY <1>12, <3>1, <3>2, <3>3 DEF Result
  <2>3. QED
    BY <1>12, <2>1, <2>2, EngineOnly DEF Result
<1>13. CASE SilenceDetected \/ CamcorderMessage \/ StartSweep \/ UNCHANGED vars
  BY <1>13, <1>a DEF SilenceDetected, CamcorderMessage, StartSweep, vars, engineVars
<1>14. QED
  BY <1>1, <1>2, <1>3, <1>4, <1>5, <1>6, <1>7, <1>8, <1>9, <1>10, <1>11, <1>12, <1>13
     DEF Next

\* The session manager uses one engine for all its clients as SttEngineService
\* promises it: a session is let in only to a loaded engine, the last client
\* has it unloaded, and it is given a recognition only when it has none.
THEOREM EngineUsedAsPromised == Spec => UsesEngine
<1>1. Init => Service!ServiceInit
  BY SMT DEF Init, Registered, Working, Service!ServiceInit, Service!Unused
<1>2. ServerInv /\ [Next]_vars => [Service!ServiceNext]_(Service!engineUse)
  BY StepUsesEngine DEF EngineUsed, ServerInv
<1>3. QED
  BY <1>1, <1>2, InvariantHolds, PTL DEF Spec, UsesEngine, Service!ServiceSpec

-----------------------------------------------------------------------------
(* The recorder.                                                           *)

Serving == IF Phase = "free" THEN "nobody" ELSE Phase

RecorderCalled == Capture!RecordingNext \/ UNCHANGED Capture!recordingVars

\* The one session that is busy is the one that is served, before a step and
\* after it.
LEMMA ServesTheBusy ==
    ASSUME AtMostOneBusy, NEW u \in Uid, state[u] \in Busy
    PROVE  Serving = state[u]
BY HolderIsBusy DEF Serving, Busy

LEMMA WillServeTheBusy ==
    ASSUME AtMostOneBusy', NEW u \in Uid, state'[u] \in Busy
    PROVE  Serving' = state'[u]
BY HolderWillBeBusy DEF Serving, Busy

LEMMA ServesNobody ==
    /\ Recording = {} /\ Processing = {} => Serving = "nobody"
    /\ Recording' = {} /\ Processing' = {} => Serving' = "nobody"
BY NobodyHolds, NobodyWillHold DEF Serving

LEMMA ServingKept ==
    ASSUME Recording' = Recording, Processing' = Processing
    PROVE  Serving' = Serving
BY HolderKept DEF Serving

\* No session becomes busy, and none ends to be.
LEMMA IdleMoves ==
    ASSUME ServerInv, NEW u \in Uid, state[u] \notin Busy, NEW s, s \notin Busy,
           state' = [state EXCEPT ![u] = s]
    PROVE  Serving' = Serving
<1>1. Recording' = Recording /\ Processing' = Processing
  BY SMT DEF ServerInv, TypeOK, Recording, Processing, Busy
<1>2. QED
  BY <1>1, ServingKept

\* With the busy session goes what is served.
LEMMA BusyEnds ==
    ASSUME ServerInv, NEW u \in Uid, state[u] \in Busy, NEW s, s \notin Busy,
           state' = [state EXCEPT ![u] = s]
    PROVE  Serving = state[u] /\ Serving' = "nobody"
<1>1. Recording' = {} /\ Processing' = {}
  BY SMT DEF ServerInv, TypeOK, AtMostOneBusy, Recording, Processing, Busy
<1>2. Serving = state[u]
  BY ServesTheBusy DEF ServerInv
<1>3. QED
  BY <1>1, <1>2, ServesNobody

\* Both modules build on the same calls.
LEMMA SameCalls ==
    /\ Capture!RecorderSet <=> RecorderSet
    /\ Capture!RecorderStart <=> RecorderStart
    /\ Capture!RecorderCancel <=> RecorderCancel
    /\ Capture!RecorderSends <=> RecorderSends
    /\ Capture!RecorderKeeps <=> RecorderKeeps
    /\ UNCHANGED Capture!recorderVars <=> UNCHANGED recorderVars
BY DEF Capture!RecorderSet, RecorderSet, Capture!RecorderStart, RecorderStart,
   Capture!RecorderCancel, RecorderCancel, Capture!RecorderSends, RecorderSends,
   Capture!RecorderKeeps, RecorderKeeps, Capture!recorderVars, recorderVars

\* A step that leaves the sessions and the recorder alone is no call.
LEMMA NotCalled ==
    ASSUME UNCHANGED recorderVars, Serving' = Serving
    PROVE  RecorderCalled
BY SameCalls DEF Serving, RecorderCalled, Capture!recordingVars

\* A recognition that ends leaves the recorder alone.
LEMMA RecognitionEnds ==
    ASSUME ServerInv, NEW u \in Processing, UNCHANGED recorderVars,
           state' = [state EXCEPT ![u] = "ready"]
    PROVE  RecorderCalled
<1>1. u \in Uid /\ state[u] = "processing"
  BY DEF Processing
<1>2. state[u] \in Busy /\ "ready" \notin Busy
  BY <1>1 DEF Busy
<1>3. Serving = state[u] /\ Serving' = "nobody"
  BY <1>1, <1>2, BusyEnds, Zenon
<1>4. Capture!Recognized
  BY <1>1, <1>3, SameCalls DEF Serving, Capture!Recognized
<1>5. QED
  BY <1>4 DEF RecorderCalled, Capture!RecordingNext

\* The handlers that several actions share.
LEMMA SharedCalls ==
    ASSUME ServerInv, ServerInv', NEW u \in Uid
    PROVE  /\ ServerFinalize(u) => RecorderCalled
           /\ \A T : ServerCancel(u, T) => RecorderCalled
           /\ \A pending : ServerStop(u, pending) => RecorderCalled
           /\ StopThenFinalize(u) /\ u \in Recording => RecorderCalled
<1>0. "ready" \notin Busy /\ "absent" \notin Busy
  BY DEF Busy
<1>1. ASSUME ServerFinalize(u) PROVE RecorderCalled
  <2>1. state' = [state EXCEPT ![u] = "absent"]
    BY <1>1 DEF ServerFinalize
  <2>2. CASE state[u] \in Busy
    <3>1. Serving = state[u] /\ Serving' = "nobody"
      BY <1>0, <2>1, <2>2, BusyEnds
    <3>2. Serving # "nobody"
      BY <2>2, <3>1 DEF Busy
    <3>3. Capture!Finalizes
      BY <1>1, <2>2, <3>1, <3>2, SameCalls DEF ServerFinalize, Serving, Capture!Finalizes
    <3>4. QED
      BY <3>3 DEF RecorderCalled, Capture!RecordingNext
  <2>3. CASE state[u] \notin Busy
    <3>1. Serving' = Serving
      BY <1>0, <2>1, <2>3, IdleMoves
    <3>2. UNCHANGED recorderVars
      BY <1>1, <2>3 DEF ServerFinalize
    <3>3. QED
      BY <3>1, <3>2, NotCalled
  <2>4. QED
    BY <2>2, <2>3
<1>2. ASSUME NEW T, ServerCancel(u, T) PROVE RecorderCalled
  <2>1. state[u] \in Busy /\ (state' = [state EXCEPT ![u] = "ready"] \/ UNCHANGED state)
    BY <1>2 DEF ServerCancel
  <2>2. Serving = state[u] /\ Serving' \in {Serving, "nobody"}
    <3>1. CASE state' = [state EXCEPT ![u] = "ready"]
      BY <1>0, <2>1, <3>1, BusyEnds
    <3>2. CASE UNCHANGED state
      BY <2>1, <3>2, ServesTheBusy, ServingKept DEF ServerInv, Recording, Processing
    <3>3. QED
      BY <2>1, <3>1, <3>2
  <2>3. CASE state[u] = "recording"
    <3>1. Capture!Cancels
      BY <1>2, <2>2, <2>3, SameCalls DEF ServerCancel, Serving, Capture!Cancels
    <3>2. QED
      BY <3>1 DEF RecorderCalled, Capture!RecordingNext
  <2>4. CASE state[u] = "processing"
    <3>1. UNCHANGED recorderVars
      BY <1>2, <2>4 DEF ServerCancel
    <3>2. CASE Serving' = "nobody"
      <4>1. Capture!Recognized
        BY <2>2, <2>4, <3>1, <3>2, SameCalls DEF Serving, Capture!Recognized
      <4>2. QED
        BY <4>1 DEF RecorderCalled, Capture!RecordingNext
    <3>3. QED
      BY <2>2, <3>1, <3>2, NotCalled
  <2>5. QED
    BY <2>1, <2>3, <2>4 DEF Busy
<1>3. ASSUME state[u] = "recording", RecorderSends \/ RecorderKeeps,
             NEW s, s \in {"processing", "ready", "absent"},
             state' = [state EXCEPT ![u] = s]
      PROVE  RecorderCalled
  <2>1. Serving = "recording"
    BY <1>3, ServesTheBusy DEF ServerInv, Busy
  <2>2. Serving' \in {"processing", "nobody"}
    <3>1. CASE s = "processing"
      <4>1. state'[u] = "processing"
        BY <1>3, <3>1 DEF ServerInv, TypeOK
      <4>2. QED
        BY <4>1, WillServeTheBusy DEF ServerInv, Busy
    <3>2. CASE s # "processing"
      BY <1>0, <1>3, <3>2, BusyEnds DEF Busy
    <3>3. QED
      BY <3>1, <3>2
  <2>3. Capture!Stops
    BY <1>3, <2>1, <2>2, SameCalls DEF Serving, Capture!Stops
  <2>4. QED
    BY <2>3 DEF RecorderCalled, Capture!RecordingNext
<1>4. ASSUME NEW pending, ServerStop(u, pending) PROVE RecorderCalled
  BY <1>3, <1>4 DEF ServerStop, RecorderStop
<1>5. ASSUME StopThenFinalize(u), u \in Recording PROVE RecorderCalled
  BY <1>3, <1>5 DEF StopThenFinalize, RecorderStop, Recording
<1>6. QED
  BY <1>1, <1>2, <1>4, <1>5

\* Every step of the daemon calls the recorder as it may be called.
LEMMA StepCallsRecorder ==
    ASSUME ServerInv, ServerInv', [Next]_vars
    PROVE  RecorderCalled
<1>a. ASSUME UNCHANGED <<state, recorderVars>> PROVE RecorderCalled
  <2>1. Serving' = Serving
    BY <1>a, ServingKept DEF Recording, Processing
  <2>2. QED
    BY <1>a, <2>1, NotCalled
<1>1. ASSUME NEW u \in Uid, Initialize(u) PROVE RecorderCalled
  <2>1. CASE RecorderSet /\ state' = [state EXCEPT ![u] = "ready"]
    <3>1. Serving' = Serving
      BY <1>1, <2>1, IdleMoves DEF Initialize, Busy
    <3>2. Capture!Sets
      BY <2>1, <3>1, SameCalls DEF Serving, Capture!Sets
    <3>3. QED
      BY <3>2 DEF RecorderCalled, Capture!RecordingNext
  <2>2. CASE UNCHANGED <<state, recorderVars>>
    BY <2>2, <1>a
  <2>3. QED
    BY <1>1, <2>1, <2>2 DEF Initialize
<1>2. ASSUME NEW u \in Uid, Finalize(u) PROVE RecorderCalled
  BY <1>2, SharedCalls DEF Finalize
<1>3. ASSUME NEW u \in Uid, Start(u) PROVE RecorderCalled
  <2>1. CASE RecorderStart /\ state' = [state EXCEPT ![u] = "recording"]
    <3>1. Serving = "nobody"
      BY <1>3, ServesNobody DEF Start
    <3>2. state'[u] = "recording"
      BY <2>1 DEF ServerInv, TypeOK
    <3>3. Serving' = "recording"
      BY <3>2, WillServeTheBusy DEF ServerInv, Busy
    <3>4. Capture!Starts
      BY <2>1, <3>1, <3>3, SameCalls DEF Serving, Capture!Starts
    <3>5. QED
      BY <3>4 DEF RecorderCalled, Capture!RecordingNext
  <2>2. CASE UNCHANGED <<state, recorderVars>>
    BY <2>2, <1>a
  <2>3. QED
    BY <1>3, <2>1, <2>2 DEF Start
<1>4. ASSUME NEW u \in Uid, Stop(u) PROVE RecorderCalled
  BY <1>4, SharedCalls DEF Stop
<1>5. ASSUME NEW u \in Uid, Cancel(u) PROVE RecorderCalled
  BY <1>5, SharedCalls DEF Cancel
<1>6. ASSUME NEW u \in Uid, Greet(u) PROVE RecorderCalled
  BY <1>6, <1>a, SharedCalls DEF Greet
<1>7. ASSUME NEW t \in TimerId, CheckRecording(t) PROVE RecorderCalled
  BY <1>7, <1>a, SharedCalls DEF CheckRecording, Recording
<1>8. ASSUME NEW t \in TimerId, TimeOut(t) PROVE RecorderCalled
  BY <1>8, <1>a, RecognitionEnds DEF TimeOut
<1>9. CASE StopBySilence
  BY <1>9, <1>a, SharedCalls DEF StopBySilence, Recording
<1>10. CASE Result
  <2>1. UNCHANGED recorderVars
    BY <1>10 DEF Result
  <2>2. CASE UNCHANGED state
    BY <2>1, <2>2, <1>a
  <2>3. CASE state' = [state EXCEPT ![job] = "ready"] /\ job \notin Uid
    <3>1. UNCHANGED state
      BY <2>3, SMT DEF ServerInv, TypeOK
    <3>2. QED
      BY <2>1, <3>1, <1>a
  <2>4. CASE state' = [state EXCEPT ![job] = "ready"] /\ job \in Processing
    BY <2>1, <2>4, RecognitionEnds
  <2>5. CASE /\ state' = [state EXCEPT ![job] = "ready"]
             /\ job \in Uid /\ job \notin Processing
    <3>1. state[job] \notin Busy
      BY <1>10, <2>5
         DEF Result, ServerInv, EngineNeverMixesUp, Recording, Processing, Busy
    <3>2. Serving' = Serving
      BY <2>5, <3>1, IdleMoves DEF Busy
    <3>3. QED
      BY <2>1, <3>2, NotCalled
  <2>6. QED
    BY <1>10, <2>2, <2>3, <2>4, <2>5 DEF Result
<1>11. CASE CamcorderMessage
  <2>1. Serving' = Serving
    BY <1>11, ServingKept DEF CamcorderMessage, Recording, Processing
  <2>2. Capture!Ends
    BY <1>11, <2>1, SameCalls DEF CamcorderMessage, RecorderStop, Serving, Capture!Ends
  <2>3. QED
    BY <2>2 DEF RecorderCalled, Capture!RecordingNext
<1>12. CASE \/ SilenceDetected \/ StartSweep \/ UNCHANGED vars
            \/ \E u \in Uid : Crash(u)
            \/ \E p \in Pid : SettingInitialize(p) \/ SettingFinalize(p) \/ SetEngine(p)
  BY <1>12, <1>a DEF SilenceDetected, StartSweep, vars, recorderVars, Crash,
     SettingInitialize, SettingFinalize, SetEngine
<1>13. QED
  BY <1>1, <1>2, <1>3, <1>4, <1>5, <1>6, <1>7, <1>8, <1>9, <1>10, <1>11, <1>12 DEF Next

\* The session manager calls the recorder in the order SttRecorder takes for
\* granted: whatever fails, a capture is started when nobody is served and
\* stopped or cancelled for the session that it was started for.
THEOREM RecorderDrivenInOrder == Spec => DrivesRecorder
<1>1. Init => Capture!RecordingInit
  <2>1. ASSUME Init PROVE Recording = {} /\ Processing = {}
    BY <2>1, SMT DEF Init, Recording, Processing
  <2>2. Init => Serving = "nobody"
    BY <2>1, ServesNobody
  <2>3. QED
    BY <2>2 DEF Init, Serving, RecorderInit, Capture!RecordingInit, Capture!RecorderInit
<1>2. ServerInv /\ ServerInv' /\ [Next]_vars
        => [Capture!RecordingNext]_(Capture!recordingVars)
  BY StepCallsRecorder DEF RecorderCalled
<1>3. QED
  BY <1>1, <1>2, InvariantHolds, PTL DEF Spec, DrivesRecorder, Capture!RecordingSpec
=============================================================================
