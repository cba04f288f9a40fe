------------------------------ MODULE SttSettings ------------------------------
(***************************************************************************)
(* The settings menus and what they have the daemon do:                    *)
(* client/stt_setting.c over client/stt_setting_dbus.c, and the handlers   *)
(* sttd_dbus_server_setting_... over sttd_server_setting_....              *)
(*                                                                         *)
(* A menu is a process that makes one blocking call at a time and knows    *)
(* the daemon by one flag.  The daemon knows it by its pid until it says   *)
(* goodbye.  A call that is not answered in time returns an error, but its *)
(* request stays on its way and is served when the daemon comes to it.     *)
(* What the requests do to the engine, the settings and sttd.conf is       *)
(* SttEngineAgent, to which the sessions and the engines that come and go  *)
(* are left.                                                               *)
(***************************************************************************)
EXTENDS SttEngineAgent, Sequences

CONSTANTS
    Wishes,         \* what each menu asks for when it is initialized
    MaxRequests,    \* bound on the requests on their way, tries again apart
    Trouble         \* what may go wrong around the menus

Initialize == [op |-> "initialize"]
Finalize == [op |-> "finalize"]
ListEngines == [op |-> "list"]
ReadSetting == [op |-> "read"]
AskPlugin == [op |-> "plug-in"]     \* a setting the engine defines for itself
ChooseOption == [op : {"option"}, option : Option, value : 0..1]
ChooseLanguage == [op : {"language"}, language : Language]
ChooseEngine == [op : {"engine"}, engine : Engine]

Wish ==
    {ListEngines, ReadSetting, AskPlugin} \cup ChooseOption \cup ChooseLanguage \cup ChooseEngine
Ask == {Initialize, Finalize} \cup Wish

ASSUME SettingsAssumption ==
    /\ Wishes \in [Menu -> SUBSET Wish]
    /\ MaxRequests \in Nat /\ NULL \notin Ask
    /\ Trouble \subseteq {"misread", "crash", "kill"}

VARIABLES
    alive,          \* the menus that run
    initialized,    \* g_is_setting_initialized of each menu
    call,           \* what each menu is waiting for the answer to
    tries,          \* i of stt_setting_initialize
    requests,       \* what the daemon has not served, in the order of sending
    known,          \* the values of each option the menus reckon with
    doubt           \* menus that cannot know whether they are registered

menuVars == <<alive, initialized, call, tries, doubt>>
settingsVars == <<agentVars, menuVars, requests, known>>

\* CONNECTION_RETRY_COUNT
RetryCount == 2

Request == [menu : Menu, ask : Ask, awaited : BOOLEAN]

Sent(m, ask) == [menu |-> m, ask |-> ask, awaited |-> TRUE]
Idle(m) == call[m] = NULL
Waiting(m) == \E i \in DOMAIN requests : requests[i].menu = m /\ requests[i].awaited

SettingsInit ==
    /\ AgentInit
    /\ alive = Menu
    /\ initialized = [m \in Menu |-> FALSE]
    /\ call = [m \in Menu |-> NULL]
    /\ tries = [m \in Menu |-> 0]
    /\ requests = <<>>
    /\ known = [o \in Option |-> {Factory[o]}]
    /\ doubt = {}

-----------------------------------------------------------------------------
(* A menu calls, and its call returns.                                     *)

\* Every function of stt_setting.c: initialize only once, the others only when
\* that is done; the daemon is started by the message if it does not run.
Calls(m, ask) ==
    /\ m \in alive
    /\ Idle(m)
    /\ initialized[m] = (ask # Initialize)
    /\ Len(requests) < MaxRequests
    /\ call' = [call EXCEPT ![m] = ask]
    /\ tries' = [tries EXCEPT ![m] = IF ask = Initialize THEN 1 ELSE 0]
    /\ requests' = Append(requests, Sent(m, ask))
    /\ UNCHANGED <<agentVars, alive, initialized, doubt, known>>

\* Mutant of Again: a try too many.
TriesOnceMore(m) == call[m] = Initialize /\ tries[m] <= RetryCount

\* stt_setting_initialize tries again after an answer of any kind but two.
Again(m) == call[m] = Initialize /\ tries[m] < RetryCount

\* Mutant of Returns: finalize forgets the daemon whatever it answered.
ForgetsAnyway(m, answer) ==
    /\ initialized' = [initialized EXCEPT ![m] =
            CASE call[m] = Initialize -> answer = "ok"
              [] call[m] = Finalize -> FALSE
              [] OTHER -> @]
    /\ call' = [call EXCEPT ![m] = NULL]
    /\ tries' = [tries EXCEPT ![m] = 0]

\* A function of stt_setting.c returns.
Returns(m, answer) ==
    /\ initialized' = [initialized EXCEPT ![m] =
            CASE call[m] = Initialize -> answer = "ok"
              [] call[m] = Finalize -> answer # "ok"
              [] OTHER -> @]
    /\ call' = [call EXCEPT ![m] = NULL]
    /\ tries' = [tries EXCEPT ![m] = 0]

\* Mutant of Answered: the tries are not counted.
NeverCounts(m, answer, left) ==
    \/ /\ answer = "failed" /\ Again(m)
       /\ requests' = Append(left, Sent(m, Initialize))
       /\ UNCHANGED <<initialized, call, tries>>
    \/ /\ ~(answer = "failed" /\ Again(m))
       /\ Returns(m, answer)
       /\ requests' = left

\* What happens at a menu whose call is answered, or that gives it up, where
\* "left" are the requests then.
Answered(m, answer, left) ==
    \/ /\ answer = "failed" /\ Again(m)
       /\ tries' = [tries EXCEPT ![m] = @ + 1]
       /\ requests' = Append(left, Sent(m, Initialize))
       /\ UNCHANGED <<initialized, call>>
    \/ /\ ~(answer = "failed" /\ Again(m))
       /\ Returns(m, answer)
       /\ requests' = left

\* The menus' values of an option whose requests nobody waits for any more.
Stray(queue, o) ==
    {queue[i].ask.value : i \in {j \in DOMAIN queue :
        /\ ~queue[j].awaited
        /\ queue[j].ask \in ChooseOption
        /\ queue[j].ask.option = o}}

Abandoned(m) ==
    [i \in DOMAIN requests |->
        IF requests[i].menu = m THEN [requests[i] EXCEPT !.awaited = FALSE] ELSE requests[i]]

\* What a menu sent and does not wait for may still be done.
Reckons(m) ==
    known' = [o \in Option |-> known[o] \cup Stray(Abandoned(m), o)]

\* g_waiting_time is over, or the bus has told that there will be no answer.
GiveUp(m) ==
    /\ m \in alive
    /\ ~Idle(m)
    /\ Answered(m, "failed", Abandoned(m))
    /\ Reckons(m)
    /\ doubt' = IF Waiting(m) /\ call[m] \in {Initialize, Finalize}
                THEN doubt \cup {m} ELSE doubt
    /\ UNCHANGED <<agentVars, alive>>

\* A menu ends without finalizing, or is killed; the daemon is not told.
Exit(m) ==
    /\ "kill" \in Trouble
    /\ m \in alive
    /\ alive' = alive \ {m}
    /\ initialized' = [initialized EXCEPT ![m] = FALSE]
    /\ call' = [call EXCEPT ![m] = NULL]
    /\ tries' = [tries EXCEPT ![m] = 0]
    /\ requests' = Abandoned(m)
    /\ Reckons(m)
    /\ doubt' = doubt \ {m}
    /\ UNCHANGED agentVars

-----------------------------------------------------------------------------
(* The daemon serves a request.                                            *)

\* sttd_server_setting_initialize refuses a pid it has registered.
ServeInitialize(m, answer) ==
    \/ /\ answer = "no engine"
       /\ current.uuid = NULL /\ installed = {}
       /\ UNCHANGED agentVars
    \/ Connect(m) /\ answer = IF m \in clients' THEN "ok" ELSE "failed"
    \/ answer = "failed" /\ m \in clients /\ UNCHANGED agentVars

ServeFinalize(m, answer) == answer = "ok" /\ Disconnect(m)

\* An engine has to be loaded for the lists and the values, which are read only.
ServeRead(m, answer) ==
    /\ answer = IF m \in clients /\ current.loaded THEN "ok" ELSE "failed"
    /\ UNCHANGED agentVars

\* The plug-in is handed the setting, or lists those it has, as it likes; the
\* daemon keeps nothing of it.
ServePlugin(m, answer) ==
    /\ answer = "failed" \/ (answer = "ok" /\ m \in clients /\ current.loaded)
    /\ UNCHANGED agentVars

ServeList(m, answer) ==
    \/ answer = "ok" /\ m \in clients /\ GetEngineList
    \/ answer = "failed" /\ ~(m \in clients /\ current.loaded) /\ UNCHANGED agentVars

ServeOption(m, o, v, answer) ==
    \/ answer = "ok" /\ m \in clients /\ SetOption(o, v)
    \/ /\ answer = "failed"
       /\ ~(m \in clients /\ current.loaded /\ o \in Supports[current.uuid])
       /\ UNCHANGED agentVars

ServeLanguage(m, l, answer) ==
    \/ answer = "ok" /\ m \in clients /\ SetLanguage(l)
    \/ /\ answer = "failed"
       /\ ~(m \in clients /\ current.loaded /\ l \in Speaks[current.uuid])
       /\ UNCHANGED agentVars

\* The engine that is set is not loaded again, even if it is not loaded.
ServeEngine(m, e, answer) ==
    \/ /\ m \in clients /\ SetEngine(e)
       /\ answer = IF current' = EngineAt(e, TRUE, default) THEN "ok" ELSE "failed"
    \/ answer = "ok" /\ m \in clients /\ current.uuid = e /\ UNCHANGED agentVars
    \/ /\ answer = "failed"
       /\ m \notin clients \/ current.uuid = NULL
       /\ UNCHANGED agentVars

Handled(m, ask, answer) ==
    \/ ask = Initialize /\ ServeInitialize(m, answer)
    \/ ask = Finalize /\ ServeFinalize(m, answer)
    \/ ask = ListEngines /\ ServeList(m, answer)
    \/ ask = ReadSetting /\ ServeRead(m, answer)
    \/ ask = AskPlugin /\ ServePlugin(m, answer)
    \/ ask \in ChooseOption /\ ServeOption(m, ask.option, ask.value, answer)
    \/ ask \in ChooseLanguage /\ ServeLanguage(m, ask.language, answer)
    \/ ask \in ChooseEngine /\ ServeEngine(m, ask.engine, answer)

\* A menu that is told of a value reckons with that one, and with those it or
\* another has given up.
Learned(r, answer) ==
    known' = IF r.awaited /\ answer = "ok" /\ r.ask \in ChooseOption
             THEN [known EXCEPT ![r.ask.option] =
                      {r.ask.value} \cup Stray(Tail(requests), r.ask.option)]
             ELSE known

\* The daemon handles the oldest request; what it answers to a menu that does
\* not wait is dropped.
Serve ==
    /\ up
    /\ requests # <<>>
    /\ LET r == Head(requests)
       IN  \E answer \in {"ok", "failed", "no engine"} :
             /\ Handled(r.menu, r.ask, answer)
             /\ Learned(r, answer)
             /\ \/ /\ r.awaited
                   /\ Answered(r.menu, answer, Tail(requests))
                   /\ doubt' = IF answer = "ok" /\ r.ask \in {Initialize, Finalize}
                               THEN doubt \ {r.menu} ELSE doubt
                \/ /\ ~r.awaited
                   /\ requests' = Tail(requests)
                   /\ UNCHANGED <<initialized, call, tries, doubt>>
    /\ UNCHANGED alive

\* The daemon's loop lets the bus library dispatch the oldest of several
\* messages, which knows no handler for it: an error is the answer.
Misread ==
    /\ "misread" \in Trouble
    /\ up
    /\ Len(requests) > 1
    /\ requests' = Tail(requests)
    /\ UNCHANGED <<agentVars, menuVars, known>>

-----------------------------------------------------------------------------
(* Around the menus.                                                       *)

DaemonStarts ==
    /\ Boot
    /\ UNCHANGED <<menuVars, requests, known>>

\* The bus gives up the messages that were to start the daemon.
DaemonFails ==
    /\ BootFails
    /\ requests' = <<>>
    /\ UNCHANGED <<menuVars, known>>

\* With the daemon go the messages it has not read and the menus it knows.
DaemonDies ==
    /\ "crash" \in Trouble
    /\ \/ Crash /\ UNCHANGED known
       \/ /\ CrashInSave
          /\ known' = [o \in Option |-> known[o] \cup {Factory[o]}]
    /\ requests' = <<>>
    /\ doubt' = alive
    /\ UNCHANGED <<alive, initialized, call, tries>>

SettingsNext ==
    \/ \E m \in Menu : GiveUp(m) \/ Exit(m) \/ \E ask \in {Initialize, Finalize} \cup Wishes[m] : Calls(m, ask)
    \/ Serve \/ Misread
    \/ DaemonStarts \/ DaemonFails \/ DaemonDies

SettingsSpec == SettingsInit /\ [][SettingsNext]_settingsVars

\* No call waits for longer than g_waiting_time.
FairSettingsSpec ==
    /\ SettingsSpec
    /\ \A m \in Menu : WF_settingsVars(GiveUp(m))

-----------------------------------------------------------------------------
(* Properties.                                                             *)

\* Every variable keeps to its values.  An initialize has no more tries than
\* it may have, a request that is awaited is what its menu waits for, and a
\* menu waits for one at most.
SettingsTypeOK ==
    /\ alive \subseteq Menu /\ doubt \subseteq alive
    /\ initialized \in [Menu -> BOOLEAN]
    /\ call \in [Menu -> Ask \cup {NULL}]
    /\ tries \in [Menu -> 0..RetryCount]
    /\ requests \in Seq(Request)
    /\ known \in [Option -> SUBSET (0..1)]
    /\ \A m \in Menu : initialized[m] \/ ~Idle(m) => m \in alive
    /\ \A m \in Menu : ~Idle(m) => initialized[m] = (call[m] # Initialize)
    /\ \A i \in DOMAIN requests : requests[i].awaited =>
          /\ call[requests[i].menu] = requests[i].ask
          /\ \A j \in DOMAIN requests :
                requests[j].menu = requests[i].menu /\ requests[j].awaited => i = j

\* An option the daemon works with, or comes up with, is the last one a menu
\* was told it had set, unless a menu set another and was not told: late
\* requests, restarts and changes of engine bring no older one back.  Only a
\* daemon killed while it writes sttd.conf forgets (sttd_config.c:34).
AckedSettingHolds ==
    \A o \in Option :
        /\ up => default[o] \in known[o]
        /\ file # NULL => file.options[o] \in known[o]

\* A menu that is initialized is registered and the other way round, unless
\* the daemon died since or the menu gave an initialize or a finalize up that
\* was then served (stt_setting.c:35 against sttd_server.c:744).
SidesAgree ==
    \A m \in alive \ doubt : initialized[m] <=> m \in clients

\* Every call of a menu returns: initialize does not go on for ever with a
\* daemon that refuses it (stt_setting.c:52).
CallReturns == \A m \in Menu : []<>Idle(m)
=============================================================================
