--------------------------- MODULE SttServerProofs ---------------------------
(***************************************************************************)
(* Theorems about SttServer, for every set of sessions, settings menus and *)
(* timers and every set of calls that may fail.                            *)
(***************************************************************************)
EXTENDS SttServer, TLAPS

-----------------------------------------------------------------------------
(* Type correctness.                                                       *)

\* Writing one entry of a function keeps its type.
LEMMA ExceptType ==
    ASSUME NEW S, NEW R, NEW f \in [S -> R], NEW x \in S, NEW r \in R
    PROVE  [f EXCEPT ![x] = r] \in [S -> R]
BY SMT

\* Deleting timers leaves timers.
LEMMA FreedType ==
    ASSUME TypeOK, NEW T
    PROVE  Freed(T) \in [TimerId -> Timer]
BY SMT DEF TypeOK, Freed, NoTimer, Timer

\* Arming a timer keeps the types of what it writes.
LEMMA ArmType ==
    ASSUME NEW u \in Uid, NEW cb \in {"check", "timeout"},
           NEW left \in [TimerId -> Timer],
           timerOf \in [Uid -> TimerId \cup {NULL}],
           Arm(u, cb, left)
    PROVE  /\ timers' \in [TimerId -> Timer]
           /\ timerOf' \in [Uid -> TimerId \cup {NULL}]
<1>1. TimerFor(cb, u) \in Timer
  BY SMT DEF Timer, TimerFor
<1>2. PICK t \in TimerId : /\ timers' = [left EXCEPT ![t] = TimerFor(cb, u)]
                           /\ timerOf' = [timerOf EXCEPT ![u] = t]
  BY DEF Arm
<1>3. timers' \in [TimerId -> Timer]
  BY <1>1, <1>2, ExceptType
<1>4. timerOf' \in [Uid -> TimerId \cup {NULL}]
  BY <1>2, SMT
<1>5. QED
  BY <1>3, <1>4

\* The recorder operations keep their types.
LEMMA RecorderStopType ==
    ASSUME TypeOK, NEW pending, RecorderStop(pending)
    PROVE  /\ recorder' \in {"ready", "recording"}
           /\ mic' \in {"open", "closed"}
           /\ silence' \in 0..MaxSilence
BY SMT DEF TypeOK, RecorderStop, RecorderSends, RecorderKeeps

\* sttd_server_finalize keeps the types of what it writes.
LEMMA ServerFinalizeType ==
    ASSUME TypeOK, NEW u \in Uid, ServerFinalize(u)
    PROVE  /\ state' \in [Uid -> AppState \cup {"absent"}]
           /\ timerOf' \in [Uid -> TimerId \cup {NULL}]
           /\ engine' \in {"unloaded", "idle"} \cup Working
           /\ job' \in Uid \cup {NULL}
           /\ recorder' \in {"ready", "recording"}
           /\ mic' \in {"open", "closed"}
BY SMT DEF TypeOK, ServerFinalize, EngineUnload, EngineCancel,
    EngineCancelRefused, RecorderCancel, recorderVars, engineVars, AppState

\* sttd_server_cancel keeps the types of what it writes.
LEMMA ServerCancelType ==
    ASSUME TypeOK, NEW u \in Uid, NEW T, ServerCancel(u, T)
    PROVE  /\ state' \in [Uid -> AppState \cup {"absent"}]
           /\ timerOf' \in [Uid -> TimerId \cup {NULL}]
           /\ timers' \in [TimerId -> Timer]
           /\ engine' \in {"unloaded", "idle"} \cup Working
           /\ job' \in Uid \cup {NULL}
           /\ recorder' \in {"ready", "recording"}
           /\ mic' \in {"open", "closed"}
BY FreedType, SMT DEF TypeOK, ServerCancel, EngineCancel,
    EngineCancelRefused, RecorderCancel, recorderVars, engineVars, AppState

\* sttd_server_stop keeps the types of what it writes.
LEMMA ServerStopType ==
    ASSUME TypeOK, NEW u \in Uid, NEW pending, ServerStop(u, pending)
    PROVE  /\ state' \in [Uid -> AppState \cup {"absent"}]
           /\ timerOf' \in [Uid -> TimerId \cup {NULL}]
           /\ timers' \in [TimerId -> Timer]
           /\ silence' \in 0..MaxSilence
           /\ engine' \in {"unloaded", "idle"} \cup Working
           /\ job' \in Uid \cup {NULL}
           /\ recorder' \in {"ready", "recording"}
           /\ mic' \in {"open", "closed"}
<1>1. /\ recorder' \in {"ready", "recording"}
      /\ mic' \in {"open", "closed"}
      /\ silence' \in 0..MaxSilence
  BY RecorderStopType DEF ServerStop
<1>2. CASE /\ EngineStop
           /\ state' = [state EXCEPT ![u] = "processing"]
           /\ Arm(u, "timeout", Freed({timerOf[u]}))
  <2>1. Freed({timerOf[u]}) \in [TimerId -> Timer]
    BY FreedType
  <2>2. /\ timers' \in [TimerId -> Timer]
        /\ timerOf' \in [Uid -> TimerId \cup {NULL}]
    BY <1>2, <2>1, ArmType DEF TypeOK
  <2>3. state' \in [Uid -> AppState \cup {"absent"}]
    BY <1>2, SMT DEF TypeOK, AppState
  <2>4. engine' \in {"unloaded", "idle"} \cup Working /\ job' \in Uid \cup {NULL}
    BY <1>2, SMT DEF TypeOK, EngineStop, Working
  <2>5. QED
    BY <1>1, <2>2, <2>3, <2>4
<1>3. CASE /\ EngineStopRefused
           /\ state' = [state EXCEPT ![u] = "ready"]
           /\ UNCHANGED <<timers, timerOf>>
  <2>1. timers' \in [TimerId -> Timer] /\ timerOf' \in [Uid -> TimerId \cup {NULL}]
    BY <1>3 DEF TypeOK, Timer
  <2>2. state' \in [Uid -> AppState \cup {"absent"}]
    BY <1>3, SMT DEF TypeOK, AppState
  <2>3. engine' \in {"unloaded", "idle"} \cup Working /\ job' \in Uid \cup {NULL}
    BY <1>3, SMT DEF TypeOK, EngineStopRefused, engineVars
  <2>4. QED
    BY <1>1, <2>1, <2>2, <2>3
<1>4. QED
  BY <1>2, <1>3 DEF ServerStop

\* A step of the daemon keeps every variable within its type.
LEMMA TypeStep ==
    ASSUME TypeOK, [Next]_vars
    PROVE  TypeOK'
<1> USE DEF Timer
<1>1. ASSUME NEW u \in Uid, Initialize(u) PROVE TypeOK'
  BY <1>1, SMT DEF TypeOK, Initialize, LoadedEngine, EngineUnload, RecorderSet,
     recorderVars, AppState
<1>2. ASSUME NEW u \in Uid, Finalize(u) PROVE TypeOK'
  BY <1>2, ServerFinalizeType DEF TypeOK, Finalize
<1>3. ASSUME NEW u \in Uid, Start(u) PROVE TypeOK'
  <2>1. CASE Arm(u, "check", timers)
    <3>1. /\ timers' \in [TimerId -> Timer]
          /\ timerOf' \in [Uid -> TimerId \cup {NULL}]
      BY <2>1, ArmType DEF TypeOK
    <3>2. QED
      BY <1>3, <3>1, SMT DEF TypeOK, Start, RecorderStart, Working, AppState, recorderVars
  <2>2. CASE UNCHANGED <<state, timers, timerOf, recorderVars>>
    BY <1>3, <2>2, SMT DEF TypeOK, Start, RecorderStart, Working, AppState, recorderVars
  <2>3. QED
    BY <1>3, <2>1, <2>2 DEF Start
<1>4. ASSUME NEW u \in Uid, Stop(u) PROVE TypeOK'
  BY <1>4, ServerStopType DEF TypeOK, Stop
<1>5. ASSUME NEW u \in Uid, Cancel(u) PROVE TypeOK'
  BY <1>5, ServerCancelType DEF TypeOK, Cancel
<1>6. ASSUME NEW u \in Uid, Crash(u) PROVE TypeOK'
  BY <1>6 DEF TypeOK, Crash, engineVars, recorderVars
<1>7. ASSUME NEW u \in Uid, Greet(u) PROVE TypeOK'
  <2>1. CASE ServerFinalize(u)
    BY <1>7, <2>1, ServerFinalizeType DEF TypeOK, Greet
  <2>2. CASE UNCHANGED <<state, timerOf, engineVars, recorderVars>>
    BY <1>7, <2>2 DEF TypeOK, Greet, engineVars, recorderVars
  <2>3. QED
    BY <1>7, <2>1, <2>2 DEF Greet
<1>8. ASSUME NEW t \in TimerId, CheckRecording(t) PROVE TypeOK'
  <2>1. Freed({t}) \in [TimerId -> Timer]
    BY FreedType
  <2>2. CASE /\ timers' = Freed({t})
             /\ UNCHANGED <<state, timerOf, engineVars, recorderVars>>
    BY <1>8, <2>1, <2>2 DEF TypeOK, CheckRecording, engineVars, recorderVars
  <2>3. ASSUME NEW u \in Recording, ServerFinalize(u), timers' = Freed({t})
        PROVE  TypeOK'
    BY <1>8, <2>1, <2>3, ServerFinalizeType DEF TypeOK, CheckRecording, Recording
  <2>4. ASSUME NEW u \in Recording, ServerCancel(u, {t})
        PROVE  TypeOK'
    BY <1>8, <2>4, ServerCancelType DEF TypeOK, CheckRecording, Recording
  <2>5. QED
    BY <1>8, <2>2, <2>3, <2>4 DEF CheckRecording
<1>9. ASSUME NEW t \in TimerId, TimeOut(t) PROVE TypeOK'
  <2>1. timers' \in [TimerId -> Timer]
    BY <1>9, FreedType DEF TimeOut
  <2>2. state' \in [Uid -> AppState \cup {"absent"}]
    BY <1>9, SMT DEF TypeOK, TimeOut, AppState
  <2>3. engine' \in {"unloaded", "idle"} \cup Working /\ job' \in Uid \cup {NULL}
    BY <1>9, SMT DEF TypeOK, TimeOut, EngineCancel, EngineCancelRefused, engineVars
  <2>4. QED
    BY <1>9, <2>1, <2>2, <2>3 DEF TypeOK, TimeOut, recorderVars
<1>10. ASSUME NEW p \in Pid, SettingInitialize(p) PROVE TypeOK'
  BY <1>10, SMT DEF TypeOK, SettingInitialize, LoadedEngine, recorderVars
<1>11. ASSUME NEW p \in Pid, SettingFinalize(p) PROVE TypeOK'
  BY <1>11, SMT DEF TypeOK, SettingFinalize, EngineUnload, engineVars, recorderVars
<1>12. ASSUME NEW p \in Pid, SetEngine(p) PROVE TypeOK'
  BY <1>12, SMT DEF TypeOK, SetEngine, recorderVars
<1>13. CASE StopBySilence
  <2>1. CASE /\ silence > 0
             /\ silence' = silence - 1
             /\ UNCHANGED <<state, timerOf, timers, engineVars, recorderVars>>
    BY <1>13, <2>1, SilenceAssumption, SMT
       DEF TypeOK, StopBySilence, engineVars, recorderVars
  <2>2. ASSUME NEW u \in Recording, ServerStop(u, silence - 1)
        PROVE  TypeOK'
    BY <1>13, <2>2, ServerStopType DEF TypeOK, StopBySilence, Recording
  <2>3. ASSUME NEW u \in Recording, StopThenFinalize(u)
        PROVE  TypeOK'
    <3>1. Freed({timerOf[u]}) \in [TimerId -> Timer]
      BY FreedType
    <3>2. timers' \in [TimerId -> Timer]
      <4>1. PICK t \in TimerId :
                timers' = [Freed({timerOf[u]}) EXCEPT ![t] = TimerFor("timeout", u)]
        BY <2>3 DEF StopThenFinalize
      <4>2. TimerFor("timeout", u) \in Timer
        BY SMT DEF Recording, Timer, TimerFor
      <4>3. QED
        BY <3>1, <4>1, <4>2, ExceptType
    <3>3. /\ recorder' \in {"ready", "recording"}
          /\ mic' \in {"open", "closed"}
          /\ silence' \in 0..MaxSilence
      BY <2>3, RecorderStopType DEF StopThenFinalize
    <3>4. /\ state' \in [Uid -> AppState \cup {"absent"}]
          /\ timerOf' \in [Uid -> TimerId \cup {NULL}]
      BY <2>3, SMT DEF TypeOK, StopThenFinalize, Recording
    <3>5. engine' \in {"unloaded", "idle"} \cup Working /\ job' \in Uid \cup {NULL}
      BY <2>3, SMT DEF TypeOK, StopThenFinalize, EngineUnload, EngineCancel, Working
    <3>6. QED
      BY <1>13, <3>2, <3>3, <3>4, <3>5 DEF TypeOK, StopBySilence
  <2>4. QED
    BY <1>13, <2>1, <2>2, <2>3 DEF StopBySilence
<1>14. CASE Result
  <2>1. Freed({timerOf[job]}) \in [TimerId -> Timer]
    BY FreedType
  <2>2. timers' \in [TimerId -> Timer]
    BY <1>14, <2>1 DEF Result, TypeOK
  <2>3. state' \in [Uid -> AppState \cup {"absent"}]
    BY <1>14, SMT DEF TypeOK, Result, AppState
  <2>4. QED
    BY <1>14, <2>2, <2>3 DEF TypeOK, Result, recorderVars
<1>15. CASE SilenceDetected
  BY <1>15, SilenceAssumption, SMT
     DEF TypeOK, SilenceDetected, engineVars, recorderVars
<1>16. CASE CamcorderMessage
  <2>1. CASE RecorderStop(silence)
    BY <1>16, <2>1, RecorderStopType DEF TypeOK, CamcorderMessage, engineVars
  <2>2. CASE RecorderCancel /\ UNCHANGED silence
    BY <1>16, <2>2, SMT DEF TypeOK, CamcorderMessage, RecorderCancel, engineVars
  <2>3. QED
    BY <1>16, <2>1, <2>2 DEF CamcorderMessage
<1>17. CASE StartSweep
  BY <1>17 DEF TypeOK, StartSweep, Registered, engineVars, recorderVars
<1>18. CASE UNCHANGED vars
  BY <1>18 DEF TypeOK, vars
<1>19. QED
  BY <1>1, <1>2, <1>3, <1>4, <1>5, <1>6, <1>7, <1>8, <1>9, <1>10, <1>11, <1>12,
     <1>13, <1>14, <1>15, <1>16, <1>17, <1>18 DEF Next

\* No operation of the daemon leaves a variable outside its type: timer
\* pointers are addresses or NULL, the engine's job is a session or none.
THEOREM TypeCorrect == Spec => []TypeOK
<1>1. Init => TypeOK
  BY SilenceAssumption, SMT DEF Init, RecorderInit, TypeOK, NoTimer, Timer
<1>2. TypeOK /\ [Next]_vars => TypeOK'
  BY TypeStep
<1>3. QED
  BY <1>1, <1>2, PTL DEF Spec

-----------------------------------------------------------------------------
(* The inductive invariant.                                                *)

\* What is read of a timer.
LEMMA TimerFacts ==
    /\ \A u, c : TimerFor(c, u).cb = c /\ TimerFor(c, u).for = u
    /\ NoTimer.cb = "none"
BY DEF TimerFor, NoTimer

\* Nobody starts while somebody is busy, and only the busy session moves on.
LEMMA BusyStep ==
    ASSUME TypeOK, AtMostOneBusy, [Next]_vars
    PROVE  AtMostOneBusy'
<1> USE DEF TypeOK, AppState, AtMostOneBusy, Busy, Recording, Processing, engineVars, recorderVars
<1>1. ASSUME NEW u \in Uid, Initialize(u) PROVE AtMostOneBusy'
  BY <1>1, SMT DEF Initialize
<1>2. ASSUME NEW u \in Uid, Finalize(u) PROVE AtMostOneBusy'
  BY <1>2, SMT DEF Finalize, ServerFinalize
<1>3. ASSUME NEW u \in Uid, Start(u) PROVE AtMostOneBusy'
  BY <1>3, SMT DEF Start
<1>4. ASSUME NEW u \in Uid, Stop(u) PROVE AtMostOneBusy'
  BY <1>4, SMT DEF Stop, ServerStop
<1>5. ASSUME NEW u \in Uid, Cancel(u) PROVE AtMostOneBusy'
  BY <1>5, SMT DEF Cancel, ServerCancel
<1>6. ASSUME NEW u \in Uid, Crash(u) PROVE AtMostOneBusy'
  BY <1>6, SMT DEF Crash
<1>7. ASSUME NEW u \in Uid, Greet(u) PROVE AtMostOneBusy'
  BY <1>7, SMT DEF Greet, ServerFinalize
<1>8. ASSUME NEW t \in TimerId, CheckRecording(t) PROVE AtMostOneBusy'
  <2>1. CASE /\ Recording = {}
             /\ UNCHANGED <<state, timerOf, engineVars, recorderVars>>
    BY <2>1, SMT
  <2>2. ASSUME NEW u \in Recording, ServerFinalize(u) PROVE AtMostOneBusy'
    BY <2>2, SMT DEF ServerFinalize
  <2>3. ASSUME NEW u \in Recording, ServerCancel(u, {t}) PROVE AtMostOneBusy'
    BY <2>3, SMT DEF ServerCancel
  <2>4. QED
    BY <1>8, <2>1, <2>2, <2>3 DEF CheckRecording
<1>9. ASSUME NEW t \in TimerId, TimeOut(t) PROVE AtMostOneBusy'
  BY <1>9, SMT DEF TimeOut
<1>10. ASSUME NEW p \in Pid, SettingInitialize(p) PROVE AtMostOneBusy'
  BY <1>10, SMT DEF SettingInitialize
<1>11. ASSUME NEW p \in Pid, SettingFinalize(p) PROVE AtMostOneBusy'
  BY <1>11, SMT DEF SettingFinalize
<1>12. ASSUME NEW p \in Pid, SetEngine(p) PROVE AtMostOneBusy'
  BY <1>12, SMT DEF SetEngine
<1>13. CASE StopBySilence
  <2>1. CASE UNCHANGED <<state, timerOf, timers, engineVars, recorderVars>>
    BY <2>1, SMT
  <2>2. ASSUME NEW u \in Recording, ServerStop(u, silence - 1) PROVE AtMostOneBusy'
    BY <2>2, SMT DEF ServerStop
  <2>3. ASSUME NEW u \in Recording, StopThenFinalize(u) PROVE AtMostOneBusy'
    BY <2>3, SMT DEF StopThenFinalize
  <2>4. QED
    BY <1>13, <2>1, <2>2, <2>3 DEF StopBySilence
<1>14. CASE Result
  BY <1>14, SMT DEF Result
<1>15. CASE SilenceDetected
  BY <1>15, SMT DEF SilenceDetected
<1>16. CASE CamcorderMessage
  BY <1>16, SMT DEF CamcorderMessage
<1>17. CASE StartSweep
  BY <1>17, SMT DEF StartSweep
<1>18. CASE UNCHANGED vars
  BY <1>18, SMT DEF vars
<1>19. QED
  BY <1>1, <1>2, <1>3, <1>4, <1>5, <1>6, <1>7, <1>8, <1>9, <1>10, <1>11, <1>12,
     <1>13, <1>14, <1>15, <1>16, <1>17, <1>18 DEF Next

\* The engine takes the job of the session that starts, and is handed over
\* with it.
LEMMA EngineStep ==
    ASSUME TypeOK, AtMostOneBusy, EngineNeverMixesUp, [Next]_vars
    PROVE  EngineNeverMixesUp'
<1> USE DEF TypeOK, AppState, AtMostOneBusy, EngineNeverMixesUp, Busy, Working, Recording, Processing, engineVars, recorderVars
<1>1. ASSUME NEW u \in Uid, Initialize(u) PROVE EngineNeverMixesUp'
  BY <1>1, SMT DEF Initialize, LoadedEngine, EngineUnload
<1>2. ASSUME NEW u \in Uid, Finalize(u) PROVE EngineNeverMixesUp'
  BY <1>2, SMT DEF Finalize, ServerFinalize, EngineUnload, EngineCancel,
     EngineCancelRefused
<1>3. ASSUME NEW u \in Uid, Start(u) PROVE EngineNeverMixesUp'
  BY <1>3, SMT DEF Start
<1>4. ASSUME NEW u \in Uid, Stop(u) PROVE EngineNeverMixesUp'
  BY <1>4, SMT DEF Stop, ServerStop, EngineStop, EngineStopRefused
<1>5. ASSUME NEW u \in Uid, Cancel(u) PROVE EngineNeverMixesUp'
  BY <1>5, SMT DEF Cancel, ServerCancel, EngineCancel, EngineCancelRefused
<1>6. ASSUME NEW u \in Uid, Crash(u) PROVE EngineNeverMixesUp'
  BY <1>6, SMT DEF Crash
<1>7. ASSUME NEW u \in Uid, Greet(u) PROVE EngineNeverMixesUp'
  BY <1>7, SMT DEF Greet, ServerFinalize, EngineUnload, EngineCancel,
     EngineCancelRefused
<1>8. ASSUME NEW t \in TimerId, CheckRecording(t) PROVE EngineNeverMixesUp'
  <2>1. CASE /\ Recording = {}
             /\ UNCHANGED <<state, timerOf, engineVars, recorderVars>>
    BY <2>1, SMT
  <2>2. ASSUME NEW u \in Recording, ServerFinalize(u) PROVE EngineNeverMixesUp'
    BY <2>2, SMT DEF ServerFinalize, EngineUnload, EngineCancel, EngineCancelRefused
  <2>3. ASSUME NEW u \in Recording, ServerCancel(u, {t}) PROVE EngineNeverMixesUp'
    BY <2>3, SMT DEF ServerCancel, EngineCancel, EngineCancelRefused
  <2>4. QED
    BY <1>8, <2>1, <2>2, <2>3 DEF CheckRecording
<1>9. ASSUME NEW t \in TimerId, TimeOut(t) PROVE EngineNeverMixesUp'
  BY <1>9, SMT DEF TimeOut, EngineCancel, EngineCancelRefused
<1>10. ASSUME NEW p \in Pid, SettingInitialize(p) PROVE EngineNeverMixesUp'
  BY <1>10, SMT DEF SettingInitialize, LoadedEngine
<1>11. ASSUME NEW p \in Pid, SettingFinalize(p) PROVE EngineNeverMixesUp'
  BY <1>11, SMT DEF SettingFinalize, EngineUnload
<1>12. ASSUME NEW p \in Pid, SetEngine(p) PROVE EngineNeverMixesUp'
  BY <1>12, SMT DEF SetEngine
<1>13. CASE StopBySilence
  <2>1. CASE UNCHANGED <<state, timerOf, timers, engineVars, recorderVars>>
    BY <2>1, SMT
  <2>2. ASSUME NEW u \in Recording, ServerStop(u, silence - 1) PROVE EngineNeverMixesUp'
    BY <2>2, SMT DEF ServerStop, EngineStop, EngineStopRefused
  <2>3. ASSUME NEW u \in Recording, StopThenFinalize(u) PROVE EngineNeverMixesUp'
    BY <2>3, SMT DEF StopThenFinalize, EngineUnload, EngineCancel
  <2>4. QED
    BY <1>13, <2>1, <2>2, <2>3 DEF StopBySilence
<1>14. CASE Result
  BY <1>14, SMT DEF Result
<1>15. CASE SilenceDetected
  BY <1>15, SMT DEF SilenceDetected
<1>16. CASE CamcorderMessage
  BY <1>16, SMT DEF CamcorderMessage
<1>17. CASE StartSweep
  BY <1>17, SMT DEF StartSweep
<1>18. CASE UNCHANGED vars
  BY <1>18, SMT DEF vars
<1>19. QED
  BY <1>1, <1>2, <1>3, <1>4, <1>5, <1>6, <1>7, <1>8, <1>9, <1>10, <1>11, <1>12,
     <1>13, <1>14, <1>15, <1>16, <1>17, <1>18 DEF Next

\* Whoever leaves RECORDING closes the microphone first; a result cannot take
\* a session out of it, since the engine decides for nobody who records.
LEMMA MicStep ==
    ASSUME TypeOK, AtMostOneBusy, EngineNeverMixesUp, MicOnlyWhileRecording, [Next]_vars
    PROVE  MicOnlyWhileRecording'
<1> USE DEF TypeOK, AppState, AtMostOneBusy, EngineNeverMixesUp, MicOnlyWhileRecording, Busy, Recording, Processing, engineVars, recorderVars
<1>1. ASSUME NEW u \in Uid, Initialize(u) PROVE MicOnlyWhileRecording'
  BY <1>1, SMT DEF Initialize, RecorderSet
<1>2. ASSUME NEW u \in Uid, Finalize(u) PROVE MicOnlyWhileRecording'
  BY <1>2, SMT DEF Finalize, ServerFinalize, RecorderCancel
<1>3. ASSUME NEW u \in Uid, Start(u) PROVE MicOnlyWhileRecording'
  BY <1>3, SMT DEF Start, RecorderStart
<1>4. ASSUME NEW u \in Uid, Stop(u) PROVE MicOnlyWhileRecording'
  BY <1>4, SMT DEF Stop, ServerStop, RecorderStop, RecorderSends, RecorderKeeps
<1>5. ASSUME NEW u \in Uid, Cancel(u) PROVE MicOnlyWhileRecording'
  BY <1>5, SMT DEF Cancel, ServerCancel, RecorderCancel
<1>6. ASSUME NEW u \in Uid, Crash(u) PROVE MicOnlyWhileRecording'
  BY <1>6, SMT DEF Crash
<1>7. ASSUME NEW u \in Uid, Greet(u) PROVE MicOnlyWhileRecording'
  BY <1>7, SMT DEF Greet, ServerFinalize, RecorderCancel
<1>8. ASSUME NEW t \in TimerId, CheckRecording(t) PROVE MicOnlyWhileRecording'
  <2>1. CASE /\ Recording = {}
             /\ UNCHANGED <<state, timerOf, engineVars, recorderVars>>
    BY <2>1, SMT
  <2>2. ASSUME NEW u \in Recording, ServerFinalize(u) PROVE MicOnlyWhileRecording'
    BY <2>2, SMT DEF ServerFinalize, RecorderCancel
  <2>3. ASSUME NEW u \in Recording, ServerCancel(u, {t}) PROVE MicOnlyWhileRecording'
    BY <2>3, SMT DEF ServerCancel, RecorderCancel
  <2>4. QED
    BY <1>8, <2>1, <2>2, <2>3 DEF CheckRecording
<1>9. ASSUME NEW t \in TimerId, TimeOut(t) PROVE MicOnlyWhileRecording'
  BY <1>9, SMT DEF TimeOut
<1>10. ASSUME NEW p \in Pid, SettingInitialize(p) PROVE MicOnlyWhileRecording'
  BY <1>10, SMT DEF SettingInitialize
<1>11. ASSUME NEW p \in Pid, SettingFinalize(p) PROVE MicOnlyWhileRecording'
  BY <1>11, SMT DEF SettingFinalize
<1>12. ASSUME NEW p \in Pid, SetEngine(p) PROVE MicOnlyWhileRecording'
  BY <1>12, SMT DEF SetEngine
<1>13. CASE StopBySilence
  BY <1>13, SMT DEF StopBySilence, ServerStop, StopThenFinalize, RecorderStop, RecorderSends, RecorderKeeps
<1>14. CASE Result
  BY <1>14, SMT DEF Result
<1>15. CASE SilenceDetected
  BY <1>15, SMT DEF SilenceDetected
<1>16. CASE CamcorderMessage
  BY <1>16, SMT DEF CamcorderMessage, RecorderStop, RecorderSends, RecorderKeeps, RecorderCancel
<1>17. CASE StartSweep
  BY <1>17, SMT DEF StartSweep
<1>18. CASE UNCHANGED vars
  BY <1>18, SMT DEF vars
<1>19. QED
  BY <1>1, <1>2, <1>3, <1>4, <1>5, <1>6, <1>7, <1>8, <1>9, <1>10, <1>11, <1>12,
     <1>13, <1>14, <1>15, <1>16, <1>17, <1>18 DEF Next

\* Handlers delete the timer that fired, or the one of a session that stops
\* waiting: never that of a session that still waits.
LEMMA TimeoutStep ==
    ASSUME TypeOK, AtMostOneBusy, EngineNeverMixesUp, ProcessingHasOwnTimeout, [Next]_vars
    PROVE  ProcessingHasOwnTimeout'
<1> USE DEF TypeOK, AppState, AtMostOneBusy, EngineNeverMixesUp, ProcessingHasOwnTimeout, Busy, Recording, Processing, Freed, Arm, engineVars, recorderVars
<1>1. ASSUME NEW u \in Uid, Initialize(u) PROVE ProcessingHasOwnTimeout'
  BY <1>1, TimerFacts, SMT DEF Initialize, LoadedEngine, EngineUnload
<1>2. ASSUME NEW u \in Uid, Finalize(u) PROVE ProcessingHasOwnTimeout'
  BY <1>2, TimerFacts, SMT DEF Finalize, ServerFinalize, EngineUnload,
     EngineCancel, EngineCancelRefused
<1>3. ASSUME NEW u \in Uid, Start(u) PROVE ProcessingHasOwnTimeout'
  BY <1>3, TimerFacts, SMT DEF Start
<1>4. ASSUME NEW u \in Uid, Stop(u) PROVE ProcessingHasOwnTimeout'
  BY <1>4, TimerFacts, SMT DEF Stop, ServerStop, EngineStop, EngineStopRefused
<1>5. ASSUME NEW u \in Uid, Cancel(u) PROVE ProcessingHasOwnTimeout'
  BY <1>5, TimerFacts, SMT DEF Cancel, ServerCancel, EngineCancel,
     EngineCancelRefused
<1>6. ASSUME NEW u \in Uid, Crash(u) PROVE ProcessingHasOwnTimeout'
  BY <1>6, TimerFacts, SMT DEF Crash
<1>7. ASSUME NEW u \in Uid, Greet(u) PROVE ProcessingHasOwnTimeout'
  BY <1>7, TimerFacts, SMT DEF Greet, ServerFinalize, EngineUnload,
     EngineCancel, EngineCancelRefused
<1>8. ASSUME NEW t \in TimerId, CheckRecording(t) PROVE ProcessingHasOwnTimeout'
  BY <1>8, TimerFacts, SMT DEF CheckRecording, ServerFinalize, ServerCancel,
     EngineUnload, EngineCancel, EngineCancelRefused
<1>9. ASSUME NEW t \in TimerId, TimeOut(t) PROVE ProcessingHasOwnTimeout'
  BY <1>9, TimerFacts, SMT DEF TimeOut, EngineCancel, EngineCancelRefused
<1>10. ASSUME NEW p \in Pid, SettingInitialize(p) PROVE ProcessingHasOwnTimeout'
  BY <1>10, TimerFacts, SMT DEF SettingInitialize, LoadedEngine
<1>11. ASSUME NEW p \in Pid, SettingFinalize(p) PROVE ProcessingHasOwnTimeout'
  BY <1>11, TimerFacts, SMT DEF SettingFinalize, EngineUnload
<1>12. ASSUME NEW p \in Pid, SetEngine(p) PROVE ProcessingHasOwnTimeout'
  BY <1>12, TimerFacts, SMT DEF SetEngine
<1>13. CASE StopBySilence
  BY <1>13, TimerFacts, SMT DEF StopBySilence, ServerStop, StopThenFinalize,
     EngineStop, EngineStopRefused, EngineUnload, EngineCancel
<1>14. CASE Result
  BY <1>14, TimerFacts, SMT DEF Result
<1>15. CASE SilenceDetected
  BY <1>15, TimerFacts, SMT DEF SilenceDetected
<1>16. CASE CamcorderMessage
  BY <1>16, TimerFacts, SMT DEF CamcorderMessage
<1>17. CASE StartSweep
  BY <1>17, TimerFacts, SMT DEF StartSweep
<1>18. CASE UNCHANGED vars
  BY <1>18, SMT DEF vars
<1>19. QED
  BY <1>1, <1>2, <1>3, <1>4, <1>5, <1>6, <1>7, <1>8, <1>9, <1>10, <1>11, <1>12,
     <1>13, <1>14, <1>15, <1>16, <1>17, <1>18 DEF Next

LEMMA InitialInvariant == Init => ServerInv
<1>1. Init => TypeOK
  BY SilenceAssumption, SMT DEF Init, RecorderInit, TypeOK, NoTimer, Timer
<1>2. Init => /\ AtMostOneBusy /\ EngineNeverMixesUp
              /\ MicOnlyWhileRecording /\ ProcessingHasOwnTimeout
  BY SMT DEF Init, RecorderInit, AtMostOneBusy, EngineNeverMixesUp, MicOnlyWhileRecording,
     ProcessingHasOwnTimeout, Busy, Recording, Processing
<1>3. QED
  BY <1>1, <1>2 DEF ServerInv

LEMMA InvariantStep ==
    ASSUME ServerInv, [Next]_vars
    PROVE  ServerInv'
BY TypeStep, BusyStep, EngineStep, MicStep, TimeoutStep DEF ServerInv

\* ServerInv holds at the start and every step keeps it, whatever calls fail.
LEMMA InvariantHolds == Spec => []ServerInv
<1>1. ServerInv /\ [Next]_vars => ServerInv'
  BY InvariantStep
<1>2. QED
  BY InitialInvariant, <1>1, PTL DEF Spec

-----------------------------------------------------------------------------
(* Safety.                                                                 *)

\* One engine, one recorder, one session: whatever fails, no two sessions are
\* recording or processing at once.
THEOREM OneSessionAtATime == Spec => []AtMostOneBusy
<1>1. ServerInv => AtMostOneBusy
  BY DEF ServerInv
<1>2. QED
  BY <1>1, InvariantHolds, PTL

\* Whatever fails, the microphone is open only while a session is RECORDING.
THEOREM NoSecretRecording == Spec => []MicOnlyWhileRecording
<1>1. ServerInv => MicOnlyWhileRecording
  BY DEF ServerInv
<1>2. QED
  BY <1>1, InvariantHolds, PTL

\* Whatever fails, a session that waits for a result has its own live time-out.
THEOREM TimeoutIsArmed == Spec => []ProcessingHasOwnTimeout
<1>1. ServerInv => ProcessingHasOwnTimeout
  BY DEF ServerInv
<1>2. QED
  BY <1>1, InvariantHolds, PTL

-----------------------------------------------------------------------------
(* What needs calls that do not fail.                                      *)

\* The timer a recording session points to changes only with the session.
LEMMA OwnTimerStep ==
    ASSUME "cancel" \notin FaultyCalls,
           TypeOK, AtMostOneBusy, EngineNeverMixesUp, DeletedTimerIsOwn, [Next]_vars
    PROVE  DeletedTimerIsOwn'
<1> USE DEF TypeOK, AppState, AtMostOneBusy, EngineNeverMixesUp, DeletedTimerIsOwn,
        Busy, Working, Recording, Processing, Freed, Arm, engineVars, recorderVars
<1>1. ASSUME NEW u \in Uid, Initialize(u) PROVE DeletedTimerIsOwn'
  BY <1>1, TimerFacts, SMT DEF Initialize, LoadedEngine, EngineUnload
<1>2. ASSUME NEW u \in Uid, Finalize(u) PROVE DeletedTimerIsOwn'
  BY <1>2, TimerFacts, SMT DEF Finalize, ServerFinalize, EngineUnload,
     EngineCancel, EngineCancelRefused
<1>3. ASSUME NEW u \in Uid, Start(u) PROVE DeletedTimerIsOwn'
  BY <1>3, TimerFacts, SMT DEF Start
<1>4. ASSUME NEW u \in Uid, Stop(u) PROVE DeletedTimerIsOwn'
  BY <1>4, TimerFacts, SMT DEF Stop, ServerStop, EngineStop, EngineStopRefused
<1>5. ASSUME NEW u \in Uid, Cancel(u) PROVE DeletedTimerIsOwn'
  BY <1>5, TimerFacts, SMT DEF Cancel, ServerCancel, EngineCancel,
     EngineCancelRefused
<1>6. ASSUME NEW u \in Uid, Crash(u) PROVE DeletedTimerIsOwn'
  BY <1>6, TimerFacts, SMT DEF Crash
<1>7. ASSUME NEW u \in Uid, Greet(u) PROVE DeletedTimerIsOwn'
  BY <1>7, TimerFacts, SMT DEF Greet, ServerFinalize, EngineUnload,
     EngineCancel, EngineCancelRefused
<1>8. ASSUME NEW t \in TimerId, CheckRecording(t) PROVE DeletedTimerIsOwn'
  BY <1>8, TimerFacts, SMT DEF CheckRecording, ServerFinalize, ServerCancel,
     EngineUnload, EngineCancel, EngineCancelRefused
<1>9. ASSUME NEW t \in TimerId, TimeOut(t) PROVE DeletedTimerIsOwn'
  BY <1>9, TimerFacts, SMT DEF TimeOut, EngineCancel, EngineCancelRefused
<1>10. ASSUME NEW p \in Pid, SettingInitialize(p) PROVE DeletedTimerIsOwn'
  BY <1>10, TimerFacts, SMT DEF SettingInitialize, LoadedEngine
<1>11. ASSUME NEW p \in Pid, SettingFinalize(p) PROVE DeletedTimerIsOwn'
  BY <1>11, TimerFacts, SMT DEF SettingFinalize, EngineUnload
<1>12. ASSUME NEW p \in Pid, SetEngine(p) PROVE DeletedTimerIsOwn'
  BY <1>12, TimerFacts, SMT DEF SetEngine
<1>13. CASE StopBySilence
  BY <1>13, TimerFacts, SMT DEF StopBySilence, ServerStop, StopThenFinalize,
     EngineStop, EngineStopRefused, EngineUnload, EngineCancel
<1>14. CASE Result
  BY <1>14, TimerFacts, SMT DEF Result
<1>15. CASE SilenceDetected
  BY <1>15, TimerFacts, SMT DEF SilenceDetected
<1>16. CASE CamcorderMessage
  BY <1>16, TimerFacts, SMT DEF CamcorderMessage
<1>17. CASE StartSweep
  BY <1>17, TimerFacts, SMT DEF StartSweep
<1>18. CASE UNCHANGED vars
  BY <1>18, SMT DEF vars
<1>19. QED
  BY <1>1, <1>2, <1>3, <1>4, <1>5, <1>6, <1>7, <1>8, <1>9, <1>10, <1>11, <1>12,
     <1>13, <1>14, <1>15, <1>16, <1>17, <1>18 DEF Next

\* A plug-in whose cancel works never makes a handler delete a dead timer, or
\* the timer of another session.
THEOREM DeletesOwnTimer ==
    ASSUME "cancel" \notin FaultyCalls
    PROVE  Spec => []DeletedTimerIsOwn
<1>1. Init => DeletedTimerIsOwn
  BY SMT DEF Init, DeletedTimerIsOwn
<1>2. ServerInv /\ DeletedTimerIsOwn /\ [Next]_vars => DeletedTimerIsOwn'
  BY OwnTimerStep DEF ServerInv
<1>3. QED
  BY <1>1, <1>2, InvariantHolds, PTL DEF Spec

\* The engine works for the session that is served, or not at all.
LEMMA ServesStep ==
    ASSUME "cancel" \notin FaultyCalls, "stop" \notin FaultyCalls,
           TypeOK, AtMostOneBusy, EngineServesHolder, [Next]_vars
    PROVE  EngineServesHolder'
<1> USE DEF TypeOK, AppState, AtMostOneBusy, EngineServesHolder, Busy, Working,
        Recording, Processing, engineVars, recorderVars
<1>1. ASSUME NEW u \in Uid, Initialize(u) PROVE EngineServesHolder'
  BY <1>1, SMT DEF Initialize, LoadedEngine, EngineUnload
<1>2. ASSUME NEW u \in Uid, Finalize(u) PROVE EngineServesHolder'
  BY <1>2, SMT DEF Finalize, ServerFinalize, EngineUnload, EngineCancel,
     EngineCancelRefused
<1>3. ASSUME NEW u \in Uid, Start(u) PROVE EngineServesHolder'
  BY <1>3, SMT DEF Start
<1>4. ASSUME NEW u \in Uid, Stop(u) PROVE EngineServesHolder'
  BY <1>4, SMT DEF Stop, ServerStop, EngineStop, EngineStopRefused
<1>5. ASSUME NEW u \in Uid, Cancel(u) PROVE EngineServesHolder'
  BY <1>5, SMT DEF Cancel, ServerCancel, EngineCancel, EngineCancelRefused
<1>6. ASSUME NEW u \in Uid, Crash(u) PROVE EngineServesHolder'
  BY <1>6, SMT DEF Crash
<1>7. ASSUME NEW u \in Uid, Greet(u) PROVE EngineServesHolder'
  BY <1>7, SMT DEF Greet, ServerFinalize, EngineUnload, EngineCancel,
     EngineCancelRefused
<1>8. ASSUME NEW t \in TimerId, CheckRecording(t) PROVE EngineServesHolder'
  <2>1. CASE /\ Recording = {}
             /\ UNCHANGED <<state, timerOf, engineVars, recorderVars>>
    BY <1>8, <2>1, SMT DEF CheckRecording
  <2>2. ASSUME NEW u \in Recording, ServerFinalize(u) PROVE EngineServesHolder'
    BY <1>8, <2>2, SMT DEF CheckRecording, ServerFinalize, EngineUnload,
       EngineCancel, EngineCancelRefused
  <2>3. ASSUME NEW u \in Recording, ServerCancel(u, {t}) PROVE EngineServesHolder'
    BY <1>8, <2>3, SMT DEF CheckRecording, ServerCancel, EngineCancel,
       EngineCancelRefused
  <2>4. QED
    BY <1>8, <2>1, <2>2, <2>3 DEF CheckRecording
<1>9. ASSUME NEW t \in TimerId, TimeOut(t) PROVE EngineServesHolder'
  BY <1>9, SMT DEF TimeOut, EngineCancel, EngineCancelRefused
<1>10. ASSUME NEW p \in Pid, SettingInitialize(p) PROVE EngineServesHolder'
  BY <1>10, SMT DEF SettingInitialize, LoadedEngine
<1>11. ASSUME NEW p \in Pid, SettingFinalize(p) PROVE EngineServesHolder'
  BY <1>11, SMT DEF SettingFinalize, EngineUnload
<1>12. ASSUME NEW p \in Pid, SetEngine(p) PROVE EngineServesHolder'
  BY <1>12, SMT DEF SetEngine
<1>13. CASE StopBySilence
  <2>1. CASE UNCHANGED <<state, timerOf, timers, engineVars, recorderVars>>
    BY <1>13, <2>1, SMT DEF StopBySilence
  <2>2. ASSUME NEW u \in Recording, ServerStop(u, silence - 1) PROVE EngineServesHolder'
    BY <1>13, <2>2, SMT DEF StopBySilence, ServerStop, EngineStop, EngineStopRefused
  <2>3. ASSUME NEW u \in Recording, StopThenFinalize(u) PROVE EngineServesHolder'
    BY <1>13, <2>3, SMT DEF StopBySilence, StopThenFinalize, EngineUnload, EngineCancel
  <2>4. QED
    BY <1>13, <2>1, <2>2, <2>3 DEF StopBySilence
<1>14. CASE Result
  BY <1>14, SMT DEF Result
<1>15. CASE SilenceDetected
  BY <1>15, SMT DEF SilenceDetected
<1>16. CASE CamcorderMessage
  BY <1>16, SMT DEF CamcorderMessage
<1>17. CASE StartSweep
  BY <1>17, SMT DEF StartSweep
<1>18. CASE UNCHANGED vars
  BY <1>18, SMT DEF vars
<1>19. QED
  BY <1>1, <1>2, <1>3, <1>4, <1>5, <1>6, <1>7, <1>8, <1>9, <1>10, <1>11, <1>12,
     <1>13, <1>14, <1>15, <1>16, <1>17, <1>18 DEF Next

\* A plug-in whose stop and cancel work is never left working for nobody, so a
\* later start is not refused because of an earlier session.
THEOREM EngineNeverLeftWorking ==
    ASSUME "cancel" \notin FaultyCalls, "stop" \notin FaultyCalls
    PROVE  Spec => []EngineServesHolder
<1>1. Init => EngineServesHolder
  BY SMT DEF Init, EngineServesHolder
<1>2. ServerInv /\ EngineServesHolder /\ [Next]_vars => EngineServesHolder'
  BY ServesStep DEF ServerInv
<1>3. QED
  BY <1>1, <1>2, InvariantHolds, PTL DEF Spec

\* Every registration loads the engine and the last to leave unloads it.
LEMMA LoadedStep ==
    ASSUME "load" \notin FaultyCalls, "format" \notin FaultyCalls,
           TypeOK, EngineLoadedForClients, [Next]_vars
    PROVE  EngineLoadedForClients'
<1> USE DEF TypeOK, AppState, EngineLoadedForClients, NoClients, Registered, Busy,
        Working, Recording, Processing, LastClient, engineVars, recorderVars
<1>1. ASSUME NEW u \in Uid, Initialize(u) PROVE EngineLoadedForClients'
  BY <1>1, SMT DEF Initialize, LoadedEngine, EngineUnload
<1>2. ASSUME NEW u \in Uid, Finalize(u) PROVE EngineLoadedForClients'
  BY <1>2, SMT DEF Finalize, ServerFinalize, EngineUnload, EngineCancel,
     EngineCancelRefused
<1>3. ASSUME NEW u \in Uid, Start(u) PROVE EngineLoadedForClients'
  BY <1>3, SMT DEF Start
<1>4. ASSUME NEW u \in Uid, Stop(u) PROVE EngineLoadedForClients'
  BY <1>4, SMT DEF Stop, ServerStop, EngineStop, EngineStopRefused
<1>5. ASSUME NEW u \in Uid, Cancel(u) PROVE EngineLoadedForClients'
  BY <1>5, SMT DEF Cancel, ServerCancel, EngineCancel, EngineCancelRefused
<1>6. ASSUME NEW u \in Uid, Crash(u) PROVE EngineLoadedForClients'
  BY <1>6, SMT DEF Crash
<1>7. ASSUME NEW u \in Uid, Greet(u) PROVE EngineLoadedForClients'
  BY <1>7, SMT DEF Greet, ServerFinalize, EngineUnload, EngineCancel,
     EngineCancelRefused
<1>8. ASSUME NEW t \in TimerId, CheckRecording(t) PROVE EngineLoadedForClients'
  <2>1. CASE /\ Recording = {}
             /\ UNCHANGED <<state, timerOf, engineVars, recorderVars>>
    BY <1>8, <2>1, SMT DEF CheckRecording
  <2>2. ASSUME NEW u \in Recording, ServerFinalize(u) PROVE EngineLoadedForClients'
    BY <1>8, <2>2, SMT DEF CheckRecording, ServerFinalize, EngineUnload,
       EngineCancel, EngineCancelRefused
  <2>3. ASSUME NEW u \in Recording, ServerCancel(u, {t}) PROVE EngineLoadedForClients'
    BY <1>8, <2>3, SMT DEF CheckRecording, ServerCancel, EngineCancel,
       EngineCancelRefused
  <2>4. QED
    BY <1>8, <2>1, <2>2, <2>3 DEF CheckRecording
<1>9. ASSUME NEW t \in TimerId, TimeOut(t) PROVE EngineLoadedForClients'
  BY <1>9, SMT DEF TimeOut, EngineCancel, EngineCancelRefused
<1>10. ASSUME NEW p \in Pid, SettingInitialize(p) PROVE EngineLoadedForClients'
  BY <1>10, SMT DEF SettingInitialize, LoadedEngine
<1>11. ASSUME NEW p \in Pid, SettingFinalize(p) PROVE EngineLoadedForClients'
  BY <1>11, SMT DEF SettingFinalize, EngineUnload
<1>12. ASSUME NEW p \in Pid, SetEngine(p) PROVE EngineLoadedForClients'
  BY <1>12, SMT DEF SetEngine
<1>13. CASE StopBySilence
  <2>1. CASE UNCHANGED <<state, timerOf, timers, engineVars, recorderVars>>
    BY <1>13, <2>1, SMT DEF StopBySilence
  <2>2. ASSUME NEW u \in Recording, ServerStop(u, silence - 1) PROVE EngineLoadedForClients'
    BY <1>13, <2>2, SMT DEF StopBySilence, ServerStop, EngineStop, EngineStopRefused
  <2>3. ASSUME NEW u \in Recording, StopThenFinalize(u) PROVE EngineLoadedForClients'
    BY <1>13, <2>3, SMT DEF StopBySilence, StopThenFinalize, EngineUnload, EngineCancel
  <2>4. QED
    BY <1>13, <2>1, <2>2, <2>3 DEF StopBySilence
<1>14. CASE Result
  BY <1>14, SMT DEF Result
<1>15. CASE SilenceDetected
  BY <1>15, SMT DEF SilenceDetected
<1>16. CASE CamcorderMessage
  BY <1>16, SMT DEF CamcorderMessage
<1>17. CASE StartSweep
  BY <1>17, SMT DEF StartSweep
<1>18. CASE UNCHANGED vars
  BY <1>18, SMT DEF vars
<1>19. QED
  BY <1>1, <1>2, <1>3, <1>4, <1>5, <1>6, <1>7, <1>8, <1>9, <1>10, <1>11, <1>12,
     <1>13, <1>14, <1>15, <1>16, <1>17, <1>18 DEF Next

\* An engine that can be loaded and has an audio format is loaded exactly while
\* an application or the settings menu is registered.
THEOREM EngineLifetime ==
    ASSUME "load" \notin FaultyCalls, "format" \notin FaultyCalls
    PROVE  Spec => []EngineLoadedForClients
<1>1. Init => EngineLoadedForClients
  BY SMT DEF Init, EngineLoadedForClients, NoClients, Registered
<1>2. ServerInv /\ EngineLoadedForClients /\ [Next]_vars => EngineLoadedForClients'
  BY LoadedStep DEF ServerInv
<1>3. QED
  BY <1>1, <1>2, InvariantHolds, PTL DEF Spec
=============================================================================
