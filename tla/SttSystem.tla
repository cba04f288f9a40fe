------------------------------ MODULE SttSystem ------------------------------
(***************************************************************************)
(* Applications, D-Bus and the daemon together: client/stt.c and           *)
(* client/stt_dbus.c over server/sttd_dbus.c and the session manager of    *)
(* SttServer.                                                              *)
(*                                                                         *)
(* Each application is a process of which one handle is followed.  Its     *)
(* calls block it until the daemon answers or its patience ends; the       *)
(* request it gave up stays queued and is served later.  The daemon in     *)
(* turn blocks on its own calls to an application (hello, get state, set   *)
(* state), which the application serves from its main loop, so not while   *)
(* it is blocked.  Requests and messages are in order.  The application's  *)
(* listener may lose a message of several; of requests the same is in      *)
(* SttSettings.                                                            *)
(***************************************************************************)
EXTENDS SttServer, SttApi, Sequences

CONSTANTS
    MaxRequests,    \* bound on the requests in the daemon's queue
    MaxUnread,      \* bound on the messages unread when an application calls
    MaxConnects,    \* bound on the connects stt_prepare has armed
    RetryCount,     \* CONNECTION_RETRY_COUNT
    Trouble         \* what may go wrong between the two

ASSUME SystemAssumption ==
    /\ MaxRequests \in Nat /\ MaxUnread \in Nat /\ MaxConnects \in Nat
    /\ RetryCount \in Nat \ {0}
    /\ Trouble \subseteq
          {"slow daemon", "slow load", "slow client", "silent engine", "misread"}

VARIABLES
    handle,     \* current_state; "destroyed", or "dead" with its process
    connects,   \* pending __stt_connect_daemon timers
    tries,      \* how often the running __stt_connect_daemon has asked
    call,       \* the request the application is blocked in
    requests,   \* what the daemon has not read yet
    inbox,      \* what the application has not read yet
    blocked     \* the call to an application the daemon is blocked in

clientVars == <<handle, connects, tries, call>>
systemVars == <<vars, clientVars, requests, inbox, blocked>>

NoCall == [kind |-> "none", uid |-> NULL, timer |-> NULL]
CallTo(u, kind, t) == [kind |-> kind, uid |-> u, timer |-> t]
RequestOf(op, u) == [op |-> op, uid |-> u, awaited |-> TRUE]
RequestType == [op : Request, uid : Uid, awaited : BOOLEAN]
CallType ==
    [kind : {"hello", "get state", "stopped", "readied"}, uid : Uid,
     timer : TimerId \cup {NULL}]
MessageType ==
    [kind : {"hello", "get state", "stopped", "readied", "result"},
     state : {"none", "processing", "ready"}, awaited : BOOLEAN]
Message(kind, s, awaited) == [kind |-> kind, state |-> s, awaited |-> awaited]

SystemInit ==
    /\ Init
    /\ handle = [u \in Uid |-> "created"]
    /\ connects = [u \in Uid |-> 0]
    /\ tries = [u \in Uid |-> 0]
    /\ call = [u \in Uid |-> "none"]
    /\ requests = <<>>
    /\ inbox = [u \in Uid |-> <<>>]
    /\ blocked = NoCall

\* Mutant of DaemonFree: a blocked daemon dispatches.
DispatchesWhileBlocked == MainLoop

DaemonFree == MainLoop /\ blocked = NoCall

\* The application's main loop runs: it is not blocked in a call.
Awake(u) == call[u] = "none" /\ handle[u] # "dead"

\* A message to a connection that is gone is dropped.  A process whose handle
\* is destroyed keeps the connection and the listener for its other handles;
\* if there was no other, stt_destroy closes them, which is Die.
Delivered(u, message) ==
    IF handle[u] = "dead" THEN inbox ELSE [inbox EXCEPT ![u] = Append(@, message)]

\* Mutant of Abandoned: the answer is still taken.
StillAwaited(queue, u) == queue

Abandoned(queue, u) ==
    [i \in DOMAIN queue |->
        IF queue[i].uid = u THEN [queue[i] EXCEPT !.awaited = FALSE] ELSE queue[i]]

\* The daemon does not wait any more; its messages are still to be read.
Unawaited(messages) ==
    [i \in DOMAIN messages |-> [messages[i] EXCEPT !.awaited = FALSE]]

-----------------------------------------------------------------------------
(* Applications.                                                           *)

Prepare(u) ==
    /\ Awake(u)
    /\ handle[u] = "created"
    /\ connects[u] < MaxConnects
    /\ connects' = [connects EXCEPT ![u] = @ + 1]
    /\ UNCHANGED <<vars, handle, tries, call, requests, inbox, blocked>>

\* A blocking D-Bus call; a handle that is not connected is destroyed without.
\* "hello" is the call __stt_connect_daemon begins with.
CallDaemon(u, op) ==
    /\ Awake(u)
    /\ handle[u] \in CallableIn[op]
    /\ op = "hello" => connects[u] > 0
    /\ Len(inbox[u]) <= MaxUnread
    /\ \/ /\ op = "destroy" /\ handle[u] = "created"
          /\ handle' = [handle EXCEPT ![u] = "destroyed"]
          /\ UNCHANGED <<requests, call>>
       \/ /\ ~(op = "destroy" /\ handle[u] = "created")
          /\ Len(requests) < MaxRequests
          /\ requests' = Append(requests, RequestOf(op, u))
          /\ call' = [call EXCEPT ![u] = op]
          /\ UNCHANGED handle
    /\ UNCHANGED <<vars, connects, tries, inbox, blocked>>

\* __stt_connect_daemon goes on with initialize when the daemon is there, and
\* asks again a few times.  It asks only once when there is no engine at all,
\* an answer of a daemon that SttServer leaves out.
AsksToInitialize(u, granted) ==
    \/ call[u] = "hello" /\ granted
    \/ call[u] = "initialize" /\ ~granted /\ tries[u] < RetryCount

\* The call of an application ends; "queue" is what is then in the daemon's.
\* A connect whose hello is not answered stays armed.
Returns(u, granted, queue) ==
    IF AsksToInitialize(u, granted)
    THEN /\ Len(queue) < MaxRequests
         /\ requests' = Append(queue, RequestOf("initialize", u))
         /\ tries' = [tries EXCEPT ![u] = @ + 1]
         /\ call' = [call EXCEPT ![u] = "initialize"]
         /\ UNCHANGED <<handle, connects>>
    ELSE /\ requests' = queue
         /\ tries' = [tries EXCEPT ![u] = 0]
         /\ call' = [call EXCEPT ![u] = "none"]
         /\ handle' = [handle EXCEPT ![u] = StateAfter(call[u], @, granted)]
         /\ connects' = [connects EXCEPT ![u] = IF call[u] = "initialize" THEN @ - 1 ELSE @]

\* The daemon does not come to a request in g_waiting_time: it waits for an
\* application that waits for the daemon, loads the engine for an application
\* that is first, or is slow otherwise.
KeepsWaiting ==
    \/ blocked # NoCall /\ call[blocked.uid] # "none"
    \/ blocked # NoCall /\ "slow client" \in Trouble
    \/ "slow load" \in Trouble /\ requests # <<>> /\ Head(requests).op = "initialize"
    \/ "slow daemon" \in Trouble

GiveUp(u) ==
    /\ call[u] # "none"
    /\ KeepsWaiting
    /\ Returns(u, FALSE, Abandoned(requests, u))
    /\ UNCHANGED <<vars, inbox, blocked>>

\* The process or its connection to the bus is gone: it crashed, or destroyed
\* its last handle.  The bus answers in its place, with an error.
Die(u) ==
    /\ handle[u] # "dead"
    /\ IF u \in Registered \ gone THEN Crash(u) ELSE UNCHANGED vars
    /\ handle' = [handle EXCEPT ![u] = "dead"]
    /\ connects' = [connects EXCEPT ![u] = 0]
    /\ tries' = [tries EXCEPT ![u] = 0]
    /\ call' = [call EXCEPT ![u] = "none"]
    /\ requests' = Abandoned(requests, u)
    /\ inbox' = [inbox EXCEPT ![u] = <<>>]
    /\ UNCHANGED blocked

-----------------------------------------------------------------------------
(* The daemon serves requests.                                             *)

Granted ==
    [initialize |-> "ready", finalize |-> "absent", destroy |-> "absent",
     start |-> "recording", stop |-> "processing", cancel |-> "ready"]

HasGranted(op, u) ==
    op = "hello" \/ (state' # state /\ state'[u] = Granted[op])

Handler(op, u) ==
    \/ op = "initialize" /\ Initialize(u)
    \/ op \in {"finalize", "destroy"} /\ Finalize(u)
    \/ op = "start" /\ Start(u)
    \/ op = "stop" /\ Stop(u)
    \/ op = "cancel" /\ Cancel(u)

\* The daemon answers hello and changes nothing, or the request is refused: the
\* session is not in the state it asks for, the engine is missing or, for a
\* start, busy or without its network.
Refuses(op, u) ==
    /\ \/ op = "hello"
       \/ op = "initialize" /\ state[u] # "absent"
       \/ op = "initialize" /\ engine = "unloaded" /\ ~NoClients
       \/ op \in {"finalize", "destroy"} /\ state[u] = "absent"
       \/ op = "start"
       \/ op = "stop" /\ state[u] # "recording"
       \/ op = "cancel" /\ state[u] \notin Busy
    /\ UNCHANGED vars

Serve ==
    /\ DaemonFree
    /\ requests # <<>>
    /\ LET r == Head(requests) IN
           /\ Handler(r.op, r.uid) \/ Refuses(r.op, r.uid)
           /\ IF r.awaited
              THEN Returns(r.uid, HasGranted(r.op, r.uid), Tail(requests))
              ELSE requests' = Tail(requests) /\ UNCHANGED clientVars
    /\ UNCHANGED <<inbox, blocked>>

-----------------------------------------------------------------------------
(* The daemon calls an application.                                        *)

Ask(u, kind, t, s) ==
    /\ blocked' = CallTo(u, kind, t)
    /\ inbox' = Delivered(u, Message(kind, s, TRUE))
    /\ UNCHANGED <<clientVars, requests>>

AskHello(u) ==
    /\ blocked = NoCall
    /\ u \in sweep
    /\ UNCHANGED vars
    /\ Ask(u, "hello", NULL, "none")

FireCheck(t) ==
    /\ DaemonFree
    /\ timers[t].cb = "check"
    /\ \/ /\ Recording = {}
          /\ CheckRecording(t)
          /\ UNCHANGED <<clientVars, requests, inbox, blocked>>
       \/ \E u \in Recording : UNCHANGED vars /\ Ask(u, "get state", t, "none")

FireSilence ==
    /\ DaemonFree
    /\ silence > 0
    /\ \/ /\ Recording = {}
          /\ StopBySilence
          /\ UNCHANGED <<clientVars, requests, inbox, blocked>>
       \/ \E u \in Recording :
              /\ ServerStop(u, silence - 1)
              /\ UNCHANGED <<settings, gone, sweep>>
              /\ IF state'[u] = "processing"
                 THEN Ask(u, "stopped", NULL, "processing")
                 ELSE UNCHANGED <<clientVars, requests, inbox, blocked>>

\* Mutants of CheckEnds: a client that does not answer keeps its session, and
\* one that is READY is asked again later.
CheckForgetsTheDead(u, t, s) ==
    /\ IF s \in {"ready", "processing"}
       THEN ServerCancel(u, {t})
       ELSE /\ timers' = IF s = "dead" THEN Freed({t}) ELSE timers
            /\ UNCHANGED <<state, timerOf, engineVars, recorderVars>>
    /\ UNCHANGED <<silence, settings, gone, sweep>>

CheckBelievesReady(u, t, s) ==
    /\ \/ s = "dead" /\ ServerFinalize(u) /\ timers' = Freed({t})
       \/ s = "processing" /\ ServerCancel(u, {t})
       \/ s \notin {"dead", "processing"}
          /\ UNCHANGED <<state, timerOf, timers, engineVars, recorderVars>>
    /\ UNCHANGED <<silence, settings, gone, sweep>>

\* The end of __check_recording_state for an answer "s", or none.
CheckEnds(u, t, s) ==
    /\ \/ s = "dead" /\ ServerFinalize(u) /\ timers' = Freed({t})
       \/ s \in {"ready", "processing"} /\ ServerCancel(u, {t})
       \/ s \in {"recording", "created", "destroyed"}
          /\ UNCHANGED <<state, timerOf, timers, engineVars, recorderVars>>
    /\ UNCHANGED <<silence, settings, gone, sweep>>

\* The daemon goes on with the answer "s" of the application it called.
Resume(s) ==
    LET u == blocked.uid IN
        \/ /\ blocked.kind = "hello"
           /\ Greet(u)
           /\ state'[u] = "absent" <=> s \in {"dead", "destroyed"}
        \/ /\ blocked.kind = "get state"
           /\ CheckEnds(u, blocked.timer, s)
        \/ /\ blocked.kind = "stopped"
           /\ IF s \in {"dead", "destroyed"} THEN Finalize(u) ELSE UNCHANGED vars
        \/ /\ blocked.kind = "readied"
           /\ UNCHANGED vars

\* The application's main loop takes a message.  A check that finds a client
\* PROCESSING goes on to tell it that it is READY.
Receive(u) ==
    /\ Awake(u)
    /\ inbox[u] # <<>>
    /\ LET m == Head(inbox[u])
           rest == [inbox EXCEPT ![u] = Tail(@)]
       IN  /\ handle' = [handle EXCEPT ![u] = Told(m, @)]
           /\ \/ /\ ~m.awaited
                 /\ inbox' = rest
                 /\ UNCHANGED <<vars, blocked>>
              \/ /\ m.awaited
                 /\ Resume(handle[u])
                 /\ IF m.kind = "get state" /\ handle[u] = "processing"
                    THEN /\ blocked' = CallTo(u, "readied", NULL)
                         /\ inbox' = [rest EXCEPT ![u] =
                                Append(@, Message("readied", "ready", TRUE))]
                    ELSE inbox' = rest /\ blocked' = NoCall
    /\ UNCHANGED <<connects, tries, call, requests>>

\* Mutant of MisreadMessage: what is lost is not answered either, and the
\* daemon waits for good.
LosesTheQuestion(u) ==
    /\ "misread" \in Trouble
    /\ Awake(u)
    /\ Len(inbox[u]) > 1
    /\ inbox' = [inbox EXCEPT ![u] = Tail(@)]
    /\ UNCHANGED <<vars, clientVars, requests, blocked>>

\* listener_event_callback lets the D-Bus library dispatch what is queued
\* already, which knows no handler for it, before it looks for a message: of
\* several the oldest is answered with an error.  The daemon takes that for no
\* answer.
MisreadMessage(u) ==
    /\ "misread" \in Trouble
    /\ Awake(u)
    /\ Len(inbox[u]) > 1
    /\ inbox' = [inbox EXCEPT ![u] = Tail(@)]
    /\ IF Head(inbox[u]).awaited
       THEN Resume("dead") /\ blocked' = NoCall
       ELSE UNCHANGED <<vars, blocked>>
    /\ UNCHANGED <<clientVars, requests>>

\* Mutant of DaemonGivesUp: it waits for a process that is gone.
DaemonWaitsForTheDead ==
    /\ blocked # NoCall
    /\ handle[blocked.uid] # "dead"
    /\ "slow client" \in Trouble
    /\ Resume("dead")
    /\ inbox' = [inbox EXCEPT ![blocked.uid] = Unawaited(@)]
    /\ blocked' = NoCall
    /\ UNCHANGED <<clientVars, requests>>

\* No answer: the process is gone, or did not come to it in time.  One that
\* asks to be connected stays blocked longer than the daemon waits.
DaemonGivesUp ==
    /\ blocked # NoCall
    /\ LET u == blocked.uid IN
           /\ \/ handle[u] \in {"dead", "destroyed"}
              \/ Trouble \cap {"slow client", "misread"} # {}
              \/ call[u] = "initialize"
           /\ Resume("dead")
           /\ inbox' = [inbox EXCEPT ![u] = Unawaited(@)]
    /\ blocked' = NoCall
    /\ UNCHANGED <<clientVars, requests>>

-----------------------------------------------------------------------------
(* One-way messages, and what no application takes part in.                *)

ResultFor(u) ==
    /\ inbox' = Delivered(u, Message("result", "ready", FALSE))
    /\ UNCHANGED <<clientVars, requests, blocked>>

\* Mutant of FireTimeOut: the client is not told.
TimeOutInSilence(t) ==
    /\ DaemonFree
    /\ TimeOut(t)
    /\ UNCHANGED <<clientVars, requests, inbox, blocked>>

FireTimeOut(t) ==
    /\ DaemonFree
    /\ TimeOut(t)
    /\ \/ Processing = {} /\ UNCHANGED <<clientVars, requests, inbox, blocked>>
       \/ \E u \in Processing : ResultFor(u)

\* A success without a text is not forwarded.
EngineResult ==
    /\ Result
    /\ \/ state[job] = "processing" /\ ResultFor(job)
       \/ /\ state[job] # "processing" \/ "silent engine" \in Trouble
          /\ UNCHANGED <<clientVars, requests, inbox, blocked>>

DaemonAlone ==
    /\ \/ SilenceDetected
       \/ DaemonFree /\ CamcorderMessage
       \/ DaemonFree /\ StartSweep
       \/ DaemonFree /\ \E p \in Pid : SettingInitialize(p) \/ SettingFinalize(p) \/ SetEngine(p)
    /\ UNCHANGED <<clientVars, requests, inbox, blocked>>

SystemNext ==
    \/ \E u \in Uid : \/ Prepare(u) \/ GiveUp(u) \/ Die(u)
                      \/ Receive(u) \/ MisreadMessage(u) \/ AskHello(u)
                      \/ \E op \in Op : CallDaemon(u, op)
    \/ \E t \in TimerId : FireCheck(t) \/ FireTimeOut(t)
    \/ Serve \/ FireSilence \/ DaemonGivesUp
    \/ EngineResult \/ DaemonAlone

SystemSpec == SystemInit /\ [][SystemNext]_systemVars

\* Both main loops go on: every round of Ecore's runs the timers that are due
\* and then reads a message, so neither keeps the other from its turn for
\* ever; and a blocking call ends with its time-out.  A listener that loses
\* messages may leave the one that is left unread.  What is claimed below needs
\* neither the time-out of a processing nor the end of a silence.
SystemFairness ==
    /\ SF_systemVars(Serve)
    /\ SF_systemVars(\E t \in TimerId : FireCheck(t))
    /\ WF_systemVars(DaemonGivesUp)
    /\ "misread" \notin Trouble => \A u \in Uid : WF_systemVars(Receive(u))
    /\ \A u \in Uid : /\ WF_systemVars(AskHello(u))
                       /\ WF_systemVars(GiveUp(u))
                       /\ SF_systemVars(CallDaemon(u, "hello"))

-----------------------------------------------------------------------------
(* Properties.                                                             *)

\* Every variable keeps to its values, an awaited request is the one its
\* application is blocked in, and an awaited message the daemon's.
SystemTypeOK ==
    /\ handle \in [Uid -> HandleState \cup {"destroyed", "dead"}]
    /\ connects \in [Uid -> 0..MaxConnects]
    /\ tries \in [Uid -> 0..RetryCount]
    /\ call \in [Uid -> Request \cup {"none"}]
    /\ requests \in Seq(RequestType)
    /\ inbox \in [Uid -> Seq(MessageType)]
    /\ blocked \in CallType \cup {NoCall}
    /\ \A i \in DOMAIN requests :
          requests[i].awaited => call[requests[i].uid] = requests[i].op
    /\ \A u \in Uid : \A i \in DOMAIN inbox[u] :
          inbox[u][i].awaited => blocked.uid = u /\ blocked.kind = inbox[u][i].kind

\* While the daemon waits for what __check_recording_state asked, nothing else
\* ends that session or its timer: no result can come for it, no sweep runs.
CheckIsOfRecording ==
    blocked.kind = "get state" =>
        /\ MainLoop
        /\ blocked.uid \in Recording
        /\ blocked.timer \in TimerId
        /\ timers[blocked.timer].cb = "check"

\* Nobody waits for an answer that cannot come: what an application is blocked
\* in is in the daemon's queue, and what the daemon is blocked in is in the
\* inbox of an application that runs, whatever was given up, lost or served
\* late before (client/stt_dbus.c:893 and server/sttd_dbus.c:66 block on each
\* other).
WaitsCanEnd ==
    /\ \A u \in Uid : call[u] # "none" =>
          /\ handle[u] # "dead"
          /\ \E i \in DOMAIN requests : requests[i].uid = u /\ requests[i].awaited
    /\ blocked # NoCall /\ handle[blocked.uid] # "dead" =>
          \E i \in DOMAIN inbox[blocked.uid] : inbox[blocked.uid][i].awaited

\* The daemon among its applications is the daemon of SttServer: blocking
\* calls, late answers and requests nobody waits for any more make it do
\* nothing that SttServer does not allow, so what holds there holds here.
ImplementsServer == Spec

\* A session that leaves PROCESSING although nobody asked it to has a result
\* on the way to its application: a text, a failure or the time-out
\* (stt.h:569 "After processing of engine, stt_result_cb() is called").  A
\* silent engine, one that succeeds without a text, breaks it.
ResultIsAnnounced ==
    [][\A u \in Uid :
          /\ state[u] = "processing" /\ state'[u] = "ready"
          /\ requests' = requests /\ handle[u] # "dead"
          => Len(inbox'[u]) > Len(inbox[u])]_systemVars

\* Applications block on the daemon and the daemon on applications, but no
\* call lasts for ever.
NobodyWaitsForever ==
    /\ \A u \in Uid : []<>(call[u] = "none")
    /\ []<>(blocked = NoCall)

\* The daemon does not go on listening for an application that believes it is
\* not recording: a start whose answer was lost, a stop that was given up or an
\* application that died is found out by __check_recording_state.  Only a
\* change of engine, which takes the recognition away, takes the check with it.
OrphanRecordingEnds ==
    \A u \in Uid :
        []<>(u \notin Recording \/ handle[u] = "recording" \/ engine \notin Working)
=============================================================================
