# Verification project for the STT (speech-to-text) daemon and client library

The repository is the Tizen STT framework: a daemon (`server/`) that owns one
speech engine plug-in and one microphone recorder, and two client libraries
(`client/`), one for applications and one for the settings menu. They talk over
D-Bus. This directory holds TLA+ modules translated from that code, TLC
configurations for small instances, and TLAPS proofs.

## 1. Inventory

| Component | Source | State it keeps | Operations |
|---|---|---|---|
| Session manager | `server/sttd_server.c`, `sttd_client_data.c` | `g_client_list` (uid, state, timer pointer per session), `g_setting_client_list`, live Ecore timers | initialize, finalize, start, stop, cancel, setting initialize / finalize, result / partial / silence / audio callbacks, timers `__check_recording_state`, `__time_out_for_processing`, `__stop_by_silence`, `sttd_cleanup_client` |
| Engine agent | `server/sttd_engine_agent.c` | engine list, `g_cur_engine` (id, `is_loaded`, option cache), daemon defaults | load, unload, set engine, set default options / language, recognize start / audio / stop / cancel |
| Recorder | `server/sttd_recorder.c` | recorder state, camcorder handle, stream callback | set, start, stop, cancel, camcorder messages |
| Configuration | `server/sttd_config.c` | default engine, language, options; a file | load, save, getters and setters |
| Network monitor | `server/sttd_network.c` | `g_is_connected` | vconf notification |
| Daemon D-Bus | `server/sttd_dbus.c`, `sttd_dbus_server.c` | connection | one handler per method; blocking calls to clients (hello, get state, set state, error), one-way results |
| Main loop | `server/sttd_main.c` | - | starts everything, arms the 500 s clean-up timer |
| Application client | `client/stt.c`, `stt_client.c`, `stt_dbus.c` | per handle: current / before state, callbacks, the strings of the last result and the text of the last partial one; the handle allocator; Ecore timers that carry a handle | create, destroy, set and unset callbacks, prepare, unprepare, start, stop, cancel, D-Bus listener, deferred notifications |
| Settings client | `client/stt_setting.c`, `stt_setting_dbus.c` | one flag, `g_is_setting_initialized` | initialize (tried twice), finalize, get / set of engine, language and three options: each one blocking request |
| Engine plug-in | `server/sttp.h` (interface only) | external | start, set_recording, stop, cancel, result callback |


### How the parts interact

* **Application → daemon.** Every call of `client/stt.c` that concerns the
  daemon is one blocking D-Bus call (`client/stt_dbus.c`, 0.5 to 2 s). The
  request stays in the daemon's queue when the application gives it up.
* **Daemon → application.** `hello`, `get state`, `set state` and `error` are
  blocking calls too (`server/sttd_dbus.c`, 3 s); results and partial results
  are one-way. An application answers them from its main loop, so not while it
  is blocked in a call of its own.
* **Session manager → engine agent → plug-in** and **→ recorder → camcorder**
  are function calls. The plug-in calls back with results and with the end of
  speech, the camcorder with audio and messages.
* **Timers.** Ecore runs the daemon's and the application's main loops. A
  session has one timer at a time, kept as a pointer that is never cleared;
  the end of speech arms a timer that carries no session; a sweep every 500 s
  greets every application.
* **Settings menu → daemon.** One blocking request per setting; a menu is known by
  its pid, counts as a client for loading the engine and can change the engine
  under the applications. Several menus may run.
* **Listener → timer → callback.** In an application nothing is called where its
  cause is found: the listener and the calls arm a timer of zero delay, which
  looks the client up again when it runs.

### What is hard about it

* one engine and one microphone shared by all applications, with a state per
  session and none for "who holds the engine";
* blocking calls in both directions, with time-outs on both sides: late answers,
  requests served after they were given up, and state read before a blocking
  call and used after it;
* timers that outlive the session they were armed for, and timer pointers that
  outlive the timer;
* failures half way through start, stop, cancel and finalize;
* applications that die in any state, and an engine that never calls back;
* settings that live in four places at once (the plug-in, a cache, the daemon's
  defaults and a file), changed by menus while sessions run, and a daemon that
  may be killed while it writes the file;
* callbacks that are deferred to a later round of the main loop, may call any
  function of the library, and share one set of strings per handle;
* listeners that lose the oldest of several queued messages: they let the bus
  library dispatch what is queued before they look for a message themselves.

`PROJECT.json` lists every such place under "hazards", with its line and the
properties that watch it.

### What makes each part correct

| Component | It is correct if |
|---|---|
| Session manager | one session is busy at a time; a busy session can always be ended (own live timer); no handler deletes another session's timer; the engine works only for the session that is served; a dead client is dropped |
| Engine agent | loaded exactly while somebody is registered; the options a session sets are the ones the plug-in has; a failed change of engine leaves a usable one |
| Recorder | the microphone is open only while a session records, and whoever ends the recording reaches it; its frames are taken for what they are |
| Daemon D-Bus | a request is answered once; what the daemon knew before a blocking call still holds after it; every blocking call ends |
| Application client | the application knows its handle's state or is about to be told; what it is handed is not freed; a result that is next to be read is handed over; a prepare is answered and can be repeated; two handles share a number only when the numbers have come round |
| Settings client, configuration | what a menu was told it set is what the daemon works with and what a restart loads; menu and daemon agree on who is registered; every call returns |

## 2. Modules

| Module | Models | Built on |
|---|---|---|
| `SttSessions` | the abstract promise: members, one holder, its phase, the microphone | - |
| `SttEngineService` | the abstract engine: loaded for the first client and unloaded with the last, one recognition at a time | - |
| `SttMicrophone` | the recorder as the session manager sees it: its state, and whether it captures | - |
| `SttRecording` | the order in which the session manager calls the recorder | EXTENDS `SttMicrophone` |
| `SttServer` | the daemon's session manager with what it drives of the engine | EXTENDS `SttMicrophone`, INSTANCEs `SttSessions`, `SttEngineService`, `SttRecording` |
| `SttApi` | pure: which calls a handle's state allows, what they and the daemon's messages make of it | - |
| `SttSystem` | applications, D-Bus and the blocking daemon | EXTENDS `SttServer`, `SttApi` |
| `SttAgreement` | a history of which applications have lost track of their session | EXTENDS `SttSystem` |
| `SttEngineAgent` | the engine list, load and change of engine, the options and where they are kept, `sttd.conf`, the daemon's start and death | INSTANCEs `SttEngineService` |
| `SttRecorder` | the recorder itself: the camcorder of each recording, its format, the AMR file | INSTANCEs `SttRecording` |
| `SttClient` | the library inside one process: handles and their numbers, deferred callbacks, the memory of results, the rounds of the main loop | EXTENDS `SttApi`, INSTANCEs `SttSessions` |
| `SttSettings` | the settings menus, their requests and time-outs, and the daemon that serves them | EXTENDS `SttEngineAgent` |
| `SttServerProofs` | type correctness, `ServerInv`, the safety theorems of `SttServer` | EXTENDS `SttServer` |
| `SttServerRefinement` | `SttServer` implements `SttSessions`, uses the engine as `SttEngineService` says and the recorder as `SttRecording` does | EXTENDS `SttServerProofs` |
| `SttSystemProofs` | `SttSystem` implements `SttServer`; who waits, waits for what can come | EXTENDS `SttSystem`, `SttServerRefinement` |
| `SttAgreementProofs` | a handle is what its session is, unless it is in doubt | EXTENDS `SttAgreement`, `SttSystemProofs` |
| `SttEngineAgentProofs` | type correctness and the safety theorems of `SttEngineAgent`; it is the engine of `SttEngineService` | EXTENDS `SttEngineAgent` |
| `SttRecorderProofs` | type correctness, safety, and that `SttRecorder` implements `SttRecording` | EXTENDS `SttRecorder` |
| `SttClientProofs` | type correctness and the safety theorems of `SttClient`; the daemon it sees is the one of `SttSessions` | EXTENDS `SttClient` |
| `SttSettingsProofs` | type correctness and the safety theorems of `SttSettings` | EXTENDS `SttSettings`, `SttEngineAgentProofs` |
| `MCServer`, `MCSystem`, `MCAgreement`, `MCEngineAgent`, `MCRecorder`, `MCClient`, `MCSettings` | constants for TLC | |

`SttSystem` implements `SttServer`, which implements `SttSessions`. The modules that
model one part take the others for granted, and three small modules say what is
taken: each is a promise that one module is proved to keep and another to rely on.

| Promise | Kept by | Relied on by |
|---|---|---|
| `SttSessions`: one session is served at a time | `SttServer` (`ImplementsSessions`) | `SttClient`, whose daemon does no more (`DaemonServesSessions`) |
| `SttEngineService`: one engine for all clients, which works on one recognition | `SttEngineAgent` (`ProvidesEngine`) | `SttServer`, whose engine does no more (`UsesEngine`) |
| `SttRecording`: what a call does to the recorder, and when it comes | `SttRecorder` (`ImplementsMicrophone`, what it does) and `SttServer` (`DrivesRecorder`, when it comes) | both |

### SttServer and the code

| Variable | In the code |
|---|---|
| `state` | `client_info_s.state`; "absent" when the uid is not in `g_client_list` |
| `timerOf` | `client_info_s.timer`, a pointer that may dangle |
| `timers` | the live Ecore timers by address: callback, and the session they were armed for (a history the code does not keep) |
| `silence` | how many `__stop_by_silence` timers are pending |
| `settings` | `g_setting_client_list` |
| `engine`, `job` | `g_cur_engine.is_loaded`, what the plug-in does, the uid behind its `user_data` |
| `recorder`, `mic` | `g_objRecorer->state`, and whether the camcorder captures |
| `gone` | clients that are no longer there but registered |
| `sweep` | the uids `sttd_cleanup_client` has still to greet |

Each action is a whole handler: a D-Bus request (`Initialize`, `Finalize`,
`Start`, `Stop`, `Cancel`, `SettingInitialize`, `SettingFinalize`,
`SetEngine`), a timer callback (`CheckRecording`, `TimeOut`, `StopBySilence`,
`StartSweep` and `Greet`) or a callback of the engine or the camcorder
(`Result`, `SilenceDetected`, `CamcorderMessage`). `ServerFinalize`,
`ServerCancel` and `ServerStop` are the functions `sttd_server_finalize`,
`_cancel` and `_stop` that several handlers call. The sweep is a sequence of
actions because the daemon blocks in each greeting and the engine may call back
in between. Addresses of timers are reused, as an allocator does, so a dangling
pointer can come to name another session's timer. A handler that refuses a
request changes nothing and is a stuttering step.

`FaultyCalls` says which calls into other libraries may fail: loading the
engine, its audio format, the recorder, the camcorder, the plug-in's stop and
its cancel. The properties that need a plug-in that does what the header says
are checked without those faults, the others with all of them.

### SttApi, SttSystem and the code

| Variable | In the code |
|---|---|
| `handle` | `stt_client_s.current_state`; "destroyed", or "dead" with its process |
| `connects` | pending `__stt_connect_daemon` timers |
| `tries` | the loop variable of `__stt_connect_daemon` |
| `call` | the D-Bus request the application is blocked in |
| `requests` | the daemon's incoming D-Bus queue, in order; `awaited` until the application gives up |
| `inbox` | an application's incoming queue, in order |
| `blocked` | the call to an application the daemon is blocked in, with the timer whose callback made it |

`CallDaemon` sends a request, `Serve` runs the handler of `SttServer` and
answers, `GiveUp` is the application's time-out. The three handlers of the
daemon that call applications are split where they block: `AskHello`,
`FireCheck` and `FireSilence` send the question, and `Resume` goes on with the
answer, in `Receive` (the application's listener) or in `DaemonGivesUp`.
`blocked` keeps the daemon from dispatching meanwhile, but not the engine from
calling back, nor the end of speech. `Trouble` adds slowness that comes from
elsewhere: "slow daemon" (anything), "slow load" (an engine that takes long to load, while an
initialize is the daemon's next), "slow client", and "silent engine" (a recognition that succeeds without a text); and "misread", an
application's listener that loses the oldest of several messages
(`MisreadMessage`): the bus library answers it as an unknown method, which the
daemon takes for no answer. Without these an application's call times out only
while the daemon is itself blocked on an application that is blocked in a call.
"destroyed" is a handle whose process keeps its connection, for other handles: its
listener answers that it does not know the uid. Destroying the last handle closes
the connection as well (`client/stt.c:100`): the handle is destroyed and then
`Die` happens, after which the bus answers with an error and drops messages.
A refusal stands for STT_ERROR_OPERATION_FAILED and INVALID_PARAMETER, after which
`__stt_connect_daemon` asks again; ENGINE_NOT_FOUND, after which it does not, is the
answer of a daemon with no engine installed, which `SttServer` leaves out.

### SttAgreement and the code

The state of a handle (`stt_client_s.current_state`) and the state of its session
(`client_info_s.state`) are kept on both sides of D-Bus, and no code compares them but
`__check_recording_state`. `SttAgreement` adds one history variable to `SttSystem`:
`doubt`, the applications whose handle may be wrong. They are those that gave a
request up which the daemon may serve all the same, that the daemon gave up, whose
listener lost a message, whose session a failed stop made READY
(`server/sttd_server.c:666-672` against `client/stt.c:554`), or whose recognition
succeeded without a text; until the daemon grants them a new session. Its steps are
the steps of `SttSystem`; the history forbids none.

### SttEngineAgent and the code

`SttServer` sees an engine that is loaded or not, and that is all sessions need
of it. `SttEngineAgent` looks behind it, with handlers as atomic and with the
session manager reduced to who is registered and which recognition runs.

| Variable | In the code |
|---|---|
| `up`, `installed` | the daemon's process; the plug-ins in the two engine directories |
| `file`, `conf` | `sttd.conf` (NULL: empty) and the five variables of `sttd_config.c` |
| `list` | `g_engine_list` |
| `current` | `g_cur_engine`: `engine_uuid`, `is_loaded`, and its three options, the cache |
| `plugin` | the options the loaded plug-in was last told |
| `lang` | `g_cur_engine.default_lang` |
| `default` | `g_default_profanity_filter`, `_punctuation_override`, `_silence_detected` |
| `clients` | both client lists |
| `job` | the recognition, with what its session chose and whether silence could end it when it started |

`Connect` and `Disconnect` are initialize and finalize of a session or a menu,
`ConnectTo`, `Loaded` and `NotLoaded` the loading they share with `SetEngine`.
`Start` is `__set_option` and the start of the recognition: it tells the plug-in
only the options that differ from the cache, in the order of the code, and stops
at the first that is refused. `SetOption`, `SetLanguage`, `SetEngine` and
`GetEngineList` are what a menu may ask; the questions that change nothing are
left out. `Boot` is `sttd_initialize`. `Crash` ends the daemon between two
handlers; `CrashInSave` after the `fopen` that empties `sttd.conf`, which
`BootFails` finds: that start dies of the missing language, but has already
written a complete file. A daemon killed while it saves during a load or a start
ends in the same state, so one such action is enough.

### SttRecorder and the code

| Variable | In the code |
|---|---|
| `state`, `type`, `handle` | `g_objRecorer`: `state`, `audio_type`, `rec_handle` |
| `camcorder` | the state of every camcorder that was created and not destroyed |
| `format` | what the last camcorder was told to capture |
| `file` | whether `/tmp/stt_temp_<pid>` is there |
| `serving` | the session manager's part: what the one session that is served does |

`Set`, `Start` and `StartFails`, `CancelRecorder` and `StopRecorder` are the
functions `sttd_recorder_set`, `_start`, `_cancel` and `_stop`, with the helpers
they call; `Stop`, `Cancel`, `Finalize` and `Result` are the places of
`sttd_server.c` that call them or end the service. The camcorder library is
external: what is assumed of it stands at the head of the module. The state and
the camcorder can disagree (a set cancels the capture and keeps RECORDING, an
unsent file keeps RECORDING with a camcorder that is unrealized, a start
that fails keeps a camcorder in READY), and every call has to do in each of
these states what `SttMicrophone` says of it. `serving` moves as `SttRecording`
allows; that `SttServer` moves no other way is its property `DrivesRecorder`.

### SttClient and the code

`SttSystem` follows one handle per application and takes its callbacks for
granted. `SttClient` looks inside the process, with the daemon reduced to what
it may do to a session.

| Variable | In the code |
|---|---|
| `allocated` | `g_allocated_handle` |
| `client` | by address: `stt_s.handle` (0: freed) and its `stt_client_s`: `current_state`, which callbacks are set, and whether the strings, the list of texts and the partial text are held or were freed with the pointer kept. `age` (handles created since) and `told` (the state its state callback last found) are histories the code does not keep |
| `due`, `later` | Ecore's timers of this round, and those armed in it, in order |
| `running` | the callback the application is in; it may call everything from there |
| `stopped` | what the process does is not followed any further: it spins in `stt_client_destroy`, has freed something twice, or has freed one handle with the client of another |
| `sessions`, `up` | the daemon's session of each number, and its process |
| `inbox`, `parsed` | the messages `listener_event_callback` has not read, and how many of them libdbus holds in its queue and no longer the socket |

`Create` to `Ask` are the functions of `stt.h`. Each is called with a handle `h` and
looks the client up by the number in it, as the code does: `Finds(h, g)` says that
it gets the client of `g`, the first in the list with that number, which is
another's once two handles share one. The blocking calls leave what arrived before
their answer in libdbus' queue (`Blocks`), which is all that one that is refused,
or a question (`Ask`), changes. `RunTimer` is one timer of a round: `RunConnect` is
`__stt_connect_daemon`, `RunNotify` the four `__stt_notify_...`, up to the
callback, and `Return` what follows it. `Read` is the listener: with nothing queued
it takes the first message of those it finds on the socket, and with messages
queued it loses the oldest of them and takes the next, if there is one
(`client/stt_dbus.c:47`). Ecore calls it only when there is something on the socket,
so a message that is queued alone stays unread until another arrives. `Round`
is a round with nothing to read. The number of a destroyed handle reads as 0:
what the allocator leaves in freed memory is external, but a look-up that fails, or
finds the next handle at the same address, is what it can lead to.

### SttSettings and the code

| Variable | In the code |
|---|---|
| `alive`, `initialized` | the menus' processes and `g_is_setting_initialized` in each |
| `call`, `tries` | the function of `stt_setting.c` that blocks, and `i` of `stt_setting_initialize` |
| `requests` | the daemon's incoming queue; `awaited` until the menu gives the call up |
| `known`, `doubt` | histories: the values of each option the menus have to reckon with, and the menus that gave an initialize or a finalize up |

`Calls` sends the request of any function, `Serve` is its handler in the daemon
with its answer, which calls the actions of `SttEngineAgent`; `Answered` is what
the menu does with the answer and `GiveUp` its time-out. `Misread` is a request
the daemon's listener loses. `DaemonStarts`, `DaemonFails` and `DaemonDies` are
`Boot`, `BootFails` and the two crashes, with what they do to the queue.

## 3. Runs

| Run | Instance | Shows |
|---|---|---|
| `server_safety` | 2 sessions, 1 menu, 3 timer addresses, every fault but a refused stop or cancel | types; the engine serves the holder; a handler deletes only a live timer of its own session |
| `server_faults` | 2 sessions, 1 menu, 2 timer addresses, every fault, fair | one busy session, a live time-out of its own for whoever waits; each step is a step of `SttSessions` or invisible there, one of the engine of `SttEngineService`, and calls the recorder in the order of `SttRecording`; nobody waits for a result for ever; a dead client is dropped |
| `server_timeout` | violation | a time-out armed for a finalized session ends another session's processing (sttd_server.c:630) |
| `system_two` | 2 applications, slow daemon and clients, lost messages | requests and blocking calls stay matched; who waits, waits for what can still come; no processing ends without a result on its way; the blocking daemon is a daemon of `SttServer`; what it knew before `get state` holds after it |
| `system_liveness` | 1 application, 1 menu, slow loads, slow clients, lost messages, fair | a handle is what its session is, or a message says so, or its application has lost track; mutual blocking ends; the engine does not go on listening for an application that does not know of it, unless a menu changes the engine; repeated prepares arrive, also after an unprepare that was given up, unless an initialize that was given up has left a session |
| `engine_agent` | 2 engines, 2 languages, 1 session, 1 menu, every fault, crashes, fair | the user's defaults reach the plug-in and stay; the default language is spoken; settings survive a restart; a daemon that died comes up; the engine is the one of `SttEngineService` |
| `recorder` | 3 camcorders, every fault | types; a capture is the one a stop or a cancel reaches, of a session being recorded, in the format it is taken for; the recorder is the one `SttServer` is built on and in the order of `SttRecording` |
| `engine_choice` | violation | a session that chooses what the cache holds runs with what a menu gave the plug-in since (stt.h:478) |
| `client` | 1 address, the result callbacks, 3 unread messages, late answers, lost results, a daemon that dies, fair | types; what a callback is handed is not freed, and nothing of a result stays behind in the handle; a prepare is answered; a result that is next on the socket is handed over |
| `client_pair` | 2 handles that share timers, listener and numbers | two handles have one number only when one is as old as there are numbers; no change of state is kept from the application; the daemon they see serves one session at a time |
| `client_results` | violation | a result without texts hands the freed list of the one before to the callback and frees it again (stt.c:716) |
| `settings` | 2 menus, 2 engines, lost and late requests, engines that do not load, menus and a daemon that are killed, fair | types; what a menu was told it had set is what the daemon works with and comes up with; both sides agree on who is registered; every call returns |

### Known disagreements

Three disagreements of the code with its own words have a run (`server_timeout`,
`engine_choice`, `client_results`; PROJECT.json, "findings"). These are known from
the modelling and have none; the properties that pass are stated so that they
do not need what is false.

* `sttd_server_initialize` sets the recorder anew (`server/sttd_server.c:355`),
  which cancels the capture of another application's recording, against
  `client/stt.h:528`.
* After a menu changed the engine under a recording, the recording check
  (`server/sttd_server.c:534`) cancels a recognition the new engine does not
  have, is refused, and leaves the session RECORDING without a check.
* An initialize that is given up, because the engine loads slowly or the daemon is
  blocked on another application, is served late and registers the uid; the repetition
  and every later prepare is refused (`server/sttd_server.c:310`, `client/stt.c:155`)
  against `client/stt.h:375`. `PrepareArrives` excepts the application that is
  in `doubt` and registered: it says that nothing else keeps a prepare from
  arriving. Nothing but the sweep's finding it silent, or the daemon's death, lets
  such an application begin anew.
* Handle numbers wrap after 999 creations without a look at those in use
  (`client/stt_client.c:28`). A handle that is kept over as many gets a younger
  one with its number, and with it its uid: messages for one, and every call on the
  younger, go to the older's client, and a destroy of the younger frees the older's
  client. `NumbersComeRound` says when. A notification that a freed handle left can
  then hand out what was freed; `StringsAreNotFreed` excepts handles that share their
  number.
* A message that libdbus has queued is lost if another arrives, and stays unread
  until one does (`client/stt_dbus.c:47`): a result that arrives during a blocking
  call, or together with another message, may never be handed over, against
  `client/stt.h:569`. `ResultIsHandedOver` speaks of the results that are not queued.
* A cancel that is given up while the daemon blocks is served later, and its
  application stays PROCESSING for ever (`client/stt.c:605`, `client/stt.h:569`).
* A stop that the engine refuses makes the session READY and answers an error, and
  the handle stays RECORDING (`server/sttd_server.c:669`, `client/stt.c:554`): one of
  the ways into `doubt`.
* With "silent engine" in `Trouble`, `ResultIsAnnounced` fails: the result
  callback sends a success only if it has a text, and makes the session READY
  either way (`server/sttd_server.c:114-157`).
* An unprepared handle can leave CREATED again: `__stt_cb_set_state` takes the
  PROCESSING of a session whose finalize was given up (`client/stt.c:887`, against
  `client/stt.h:392`).
* A menu whose two initializes time out is registered all the same: every later
  initialize is refused and ends as a time-out (`client/stt_setting.c:55`, against
  `client/stt_setting.h:99`), finalize returns without asking, and the menu is
  locked out until the daemon dies.
* `client/stt_setting.h:100` and `:112` announce INVALID_STATE for a menu that is
  already, or not, initialized; `stt_setting.c` returns NONE.
* `set_engine` of the engine that is set but failed to load answers NONE and loads
  nothing (`server/sttd_engine_agent.c:1311`).
* Booleans travel as `DBUS_TYPE_INT32` read into, and written from, a `bool`
  (`server/sttd_dbus_server.c:1062`, `client/stt_setting_dbus.c:833`); marshalling
  is not modelled.

### Bounds

* *Two sessions* are the least that compete; sessions are alike, and every
  handler concerns one session and "the one that is busy", of which there is at
  most one. A third would only be a second bystander.
* *Three timer addresses* let two sessions and a stale timer live together, so
  an address can be freed and reused while a pointer to it is kept; with two,
  reuse still happens. `Arm` needs a free address: with none left the action
  waits, which the real allocator never does; so `server_safety`, where a deletion
  could hit the wrong one, has three, and `server_faults`, which pays for the
  faults and the fairness, two.
* *`MaxSilence` = 1*: these timers carry nothing; a second finds no recording
  session or does what the first would have done.
* *`MaxRequests`, `MaxUnread`, `MaxConnects`, `RetryCount`* bound the two D-Bus
  queues, the armed connects and the repetitions. Two requests are the least
  that show a request served after the next was sent; `MaxUnread` = 0 lets an
  application read what it was sent before it calls again (messages that arrive
  while it is blocked are still unread); a `RetryCount` of 2 is the least
  that repeats (the code has 3).
* `system_two` pays for its second application with one request, one try and no
  menu; the liveness run has one application, a menu and the larger bounds. What
  is proved of `SttSystem` holds for any number of each.
* *Two engines* with different languages and options, one language and one option
  in common: the least in which the language has to change with the engine, an
  option is kept by one and refused by the other, and "the first of the list"
  differs from "the one configured". A session leaves all options but one to the
  user (`MCChoices`); each option is decided on its own but for the order in which
  a refusal stops them, which the one chosen exercises. One session and one menu:
  a second of either changes nothing but who is the last to leave.
* *Three camcorders*: the one in use, one left behind by a failed start, and one
  more, so that the handle is overwritten and a start still follows. Each camcorder left
  behind is gone for good, so this bounds the failures of a behaviour; the
  proofs have no such bound. PCM in 8 and in 16 bits is one format: nothing in the
  recorder tells them apart.
* *`MaxHandle` and `MaxAge`*: the code has 999 numbers and no bound on how many
  creations a handle is kept over. In `client_pair` two numbers come round at the third
  creation, and a handle may be kept over three, so that it shares its number with a
  younger one and the calls of both go to one client; `client` has one handle,
  whose number is always the same. The proofs have no such bound.
* *`MaxTimers`, `MaxUnread`*: two timers are the least that show an order,
  such as two connects or a notification behind another; arming waits if both
  are used. Three unread messages, in `client`, are the least of which one is lost,
  one is read and one stays queued; `client_pair` has two, and no trouble with the
  daemon, which concerns each handle alone. A result of the engine is sent when there
  is room.
* *`Offered`*: a run offers the callbacks its properties are about: the two with
  strings in `client`, the state callback in `client_pair`. The error callback is
  handed nothing that is freed and is offered in neither; an error is armed and
  finds no callback. The proofs are for every choice.
* *Settings*: two menus, one of which changes an option while the other changes it
  too, the engine and the language; two requests on their way besides a second
  try, so that one that was given up is served between two others; two engines of
  which only one has the option. `RetryCount` is the code's 2.
* `CHECK_DEADLOCK FALSE` in the system, client and settings runs: applications
  and menus may all end, or a process stop, and then nothing is left to happen.
* Symmetry (sessions, timer addresses) is used only for safety properties.

### Fairness

* *Daemon timers* (`TimeOut` in `SttServer`, `FireCheck` in `SttSystem`): strong fairness. Each
  round of Ecore's loop runs all the timers that are due, and a timer that is due
  stays due, but a sweep or a handler in between disables the action for its
  duration, again and again; weak fairness would let the sweep shut it out, and
  the sweep recurs only every 500 s.
* *`Serve`*: strong, for the same reason: the socket is read in every round.
* *`StartSweep`, `Greet`, `AskHello`*: weak; the timer recurs, and the sweep goes
  on from client to client.
* *`Receive` (unless messages are lost), `GiveUp`, `DaemonGivesUp`*: weak; a main loop that is not blocked
  reads its socket, and a blocking call ends with its time-out.
* *`CallDaemon(u, "hello")`*: strong; it is a zero-delay timer.
* *`Boot`, `BootFails`*: weak; D-Bus starts the daemon when somebody calls it.
* *`MainLoop`* of `SttClient`: weak; Ecore goes round, and a callback returns. *`Start`*
  there: weak, as `Boot`.
* *`GiveUp(m)`* of `SttSettings`: weak; a blocking call ends with its time-out,
  whatever the daemon does. That the daemon ever serves is not assumed.
* Nothing is assumed of applications (no call, no death is ever forced), of the
  engine (it may never call back), of the camcorder or of the settings menu.

## 4. Proofs

All for every value of the constants that satisfies the ASSUMEs of the modules
(NULL is none of the sessions and timers; `MaxSilence`, the other bounds and
`RetryCount` are numbers; no application is a settings menu).

Four of the results state properties that no run checks separately:
`MicOnlyWhileRecording`, `EngineLoadedForClients`, `SilenceIsChosen` and
`CallsAreAsSeen` are proved, and a run would repeat what it already checks as a
step of `SttRecording` or `SttEngineService` (`SilenceIsChosen`, which no abstract
specification states, rests on its proof alone).

**`SttServer`.** The properties rest on one inductive invariant, `ServerInv`:
types, `AtMostOneBusy`, `EngineNeverMixesUp`, `MicOnlyWhileRecording` and
`ProcessingHasOwnTimeout`. None of the last three is inductive alone. A result
deletes the timer the *job's* session points to and makes that session READY; for
the time-out of a waiting session to survive it, the job must be that session
or the session must not be waiting. That is `EngineNeverMixesUp`: the plug-in
listens only for the recording session and decides only while nobody records, for
nobody but the waiting session. It holds because start is refused while anybody is
busy, which needs `AtMostOneBusy` to survive every handler. The step is proved
conjunct by conjunct (`TypeStep`, `BusyStep`, `EngineStep`, `MicStep`,
`TimeoutStep`), each with one case per action.

* `TypeCorrect`, `OneSessionAtATime`, `NoSecretRecording`, `TimeoutIsArmed`: from
  `ServerInv`, whatever fails.
* `DeletesOwnTimer`, `EngineNeverLeftWorking`: if the plug-in does not refuse to
  cancel, or to stop or cancel. Without the assumption they are false: a plug-in
  that refuses to cancel keeps working for a session that is READY.
* `EngineLifetime`: if the plug-in loads and names a known audio type. Otherwise
  the engine may be unloaded under those who are registered.
* `SessionsImplemented` (`SttServerRefinement`): the refinement mapping takes the
  registered sessions for the members, the one busy session for the holder and
  its state for the phase; `ServerInv` makes the mapping well defined.
* `EngineUsedAsPromised`: every step is one of `SttEngineService`, with the sessions
  and menus that are registered, "loaded" for an engine that is idle or works, and
  the job for as long as it works. Each handler either leaves the engine alone or
  ends what it works on (`EngineKept`), has it loaded for the first client or
  unloaded with the last (`SessionGoes`), or replaces it for a menu (`EngineForMenu`).
* `RecorderDrivenInOrder`: every step is one of `SttRecording`, with the phase of
  `SttSessions` for `serving`. It needs all of `ServerInv`: a capture is started
  while nobody is served, and a stop, a cancel and a result concern the one session
  that is (`ServesTheBusy`, `BusyEnds`).

**`SttSystem`.** `ServerImplemented` says that every behaviour of the blocking
daemon among its applications is one of `SttServer`, so that all of the above
holds there too (`SystemIsSafe` spells out the part that matters most). Each action
is a handler of `SttServer` or leaves its variables alone, except for the end of
`__check_recording_state`, which acts on what the daemon knew before it blocked.
`CheckIsOfRecording` states that this is still true; it is inductive together with
`ServerInv`, because the only thing that runs while the daemon is blocked and
changes a session is a result, and a result cannot come while a session records.
`CheckSurvivesTheWait` is that invariant as a theorem. `SystemTyped` needs more of
the two queues: an awaited request is the last of its application (`Orderly`), and an
awaited message the only one, of the application the daemon is blocked on
(`Asked`); without these a call that ends would leave one behind that is awaited
by nobody. `ResultsArrive` holds if "silent engine" is not in `Trouble`: requests
aside, only `EngineResult` and `FireTimeOut` take a session from PROCESSING to
READY (`OnlyAResultReadies`), and both send it a result first; that the job of an
engine that works is a session (`JobKnown`) is the invariant it needs.
`PromisesReachApplications` carries the three promises over from `SttServer`.
`WaitsCanAlwaysEnd` needs that what is awaited is lost only together with the wait:
the daemon takes an awaited request out of its queue only to answer it
(`TakenCanEnd`), questions and results that come into an inbox take nothing awaited
out of it (`AskCanEnd`, `ResultCanEnd`), and an application that is gone stays gone
(`GoneStaysGone`). `OrphansAreChecked` follows from `ServerInv` and `DeletesOwnTimer`:
if no handler deletes another's timer, the check armed by a start is there until
the recording ends.

**`SttAgreement`.** `HandlesAgree` rests on `Fits`, which says what a handle, its
session and the unread messages have to do with each other: READY is the last news
there is, and PROCESSING is told only to a handle that records, by a daemon that
waits for it. So no request of anybody is served between that message and its
being read, and a cancel cannot cross it (`NoQuestion`); a result that comes
meanwhile is behind it in the inbox (`ResultFits`). `Served` adds that a sure
application has nothing in the daemon's queue but what it waits for and a hello, and
`Callable` that a handle does not change while its application is blocked. For any
constants, and every `Trouble`.

**`SttEngineAgent`.** `AgentInv` is the conjunction of the five invariants of the
run with `PlugInFollows`, which makes `DefaultIsHonoured` inductive. A start
tells the plug-in only what differs from the cache, so an option left to the user
is right after it only if an option that does not differ was right before.
`PlugInFollows` says that much: a supported option is either the cached one or
the user's default, because a menu, the only one that changes an option behind the
cache, changes the default with it. The same weakness is why
`ChoiceIsHonoured` fails. The step is proved action by action; `LoadRests` is
shared by all that load. `AgentTypeCorrect`, `UserDefaultIsHonoured`,
`SilenceStaysChosen`, `LanguageStaysSpoken` and `NoSettingIsLost` follow, for
every value of the constants that satisfies `EngineAssumption`.
`EngineProvidedAsPromised` maps the clients, `is_loaded` and the session whose
recognition runs to `SttEngineService`. It needs `AgentTypeOK`, which says that a
recognition belongs to a loaded engine and a registered session, and that no
process is both an application and a menu (`ClientAssumption`).

**`SttRecorder`.** `CaptureIsReachable` is inductive together with the types:
every way to end a recording ends the capture of the handle (`NothingCaptured`),
and a new one starts only while no session is served, when nothing is captured
(`NobodyCaptures`). `TypeCorrect` and `AlwaysReachable` follow.
`MicrophoneImplemented` maps `mic` to "some camcorder records", which the
invariant makes "the camcorder of the handle records" (`OneCapture`): the calls
decide by the one, the session manager's model by the other. `EveryCallAsSeen` says
it call by call. With `RecorderDrivenInOrder`, what is proved of `SttServer` rests on
the recorder's code, called in the order in which `sttd_server.c` calls it, and not
on a summary of either.

**`SttClient`.** `ClientTypeOK` is inductive. `NumbersOnlyComeRound` rests on
`Numbered`: no two handles are of one age, the number of one that is younger than
`MaxHandle` creations is the counter's value as many creations ago, and two that are
less than that apart differ. That the next handle differs from all of these is the
only thing `NextNumber` gives; nothing forbids an older one. `ApplicationAlwaysTold`
rests on `Heard`: whoever changes a client's state arms a timer after it for a handle
that finds this client, and a timer leaves the queues only by telling; what makes
it hard is that a handle created or destroyed changes whom the others find
(`FindsAmongMore`, `FindsAmongLess`). `StringsNeverFreed` rests on `Notices`: of the
timers for results at most one waits, and none when the application is in such a
callback, because the listener reads only when the round is over; and what a handle
that is alone with its number is handed is its own. `ResultsAreNotKeptBack`: the
listener arms a timer for what it stores (`TakeHolds`), and a timer that leaves the
queues hands it over or frees it (`ReleasedHolds`), also when the callback was taken
away meanwhile; it needs that a client nobody finds holds nothing (`Untouched`).
`DaemonIsTheService` needs that at most one of all numbers is busy (`OneBusyIn`),
which every change of a session keeps (`OneBusyKept`); each is then a step of
`SttSessions` (`ServesOneSession`), but for the daemon's death.

**`SttSettings`.** `SettingsInv` extends `AgentInv` by what the queue means:
an awaited request is the last of its menu (`Orderly`), so that nothing of a menu
can be served after what it was told; what was given up is reckoned with
(`Reckoned`, `Doubtful`); and `sttd.conf`, or the factory's settings without
it, holds a known value, which a restart needs. `SettingsTyped`,
`AckedSettingAlwaysHolds` and `SidesAlwaysAgree` follow, for any menus and engines.
`AgentDriven` says that the daemon among its menus is the one of `SttEngineAgent`, so
its theorems hold behind the queue; `MenusShareEngine` draws them together.

**Only model-checked.** All liveness, which the prover cannot reach. Every other
property of a passing run is proved. Of some of the liveness properties the part
that is not fairness is a theorem too: a state in which nothing could help any
more is never reached.

| Liveness (TLC) | What is proved of it |
|---|---|
| `ProcessingEnds` | `TimeoutIsArmed`: who waits for a result has a live time-out of its own |
| `NobodyWaitsForever` | `WaitsCanAlwaysEnd`: what is waited for is in a queue that somebody reads |
| `OrphanRecordingEnds` | `OrphansAreChecked`: a recording has its live check, if the plug-in does not refuse to cancel |
| `ResultIsHandedOver` | `ResultsAreNotKeptBack`: a result in the handle has a timer or a callback |
| `CallReturns` | `SettingsTyped`: the tries are bounded |
| `GoneClientDropped`, `PrepareArrives`, `PrepareIsAnswered`, `ComesUp` | nothing: they say that something is tried again |

## 5. What is left out

* The daemon's read-only queries (languages, volume, engine list), partial
  results, logging and marshalling: they change no state that is modelled.
* The error call that follows a failed result: one-way results fail only when
  memory is out.
* Requests the daemon's listener loses are in `SttSettings` only; in `SttSystem`
  they would be one more request that is given up, but with two requests on
  their way, which the run of two applications cannot pay for.
* In `SttServer`, the daemon with no engine installed at all (`g_is_engine`
  false): every request that matters is refused. `SttEngineAgent` has it.
* In `SttEngineAgent`, what `SttServer` has already: an audio format of no known
  type, a plug-in that refuses to cancel, a session that ends in PROCESSING.
  Engine ids have one length, so that comparing a prefix is comparing; a crash
  between the two saves of a change of engine (language, then engine) leaves a
  file that is right for the old engine in all but a language it may not speak,
  which the next load replaces.
* `SttSystem` follows one handle per application; handles of one process share its
  main loop, which makes them less concurrent, not more, and are in `SttClient`.
* A handle that connects while it is already connected: `Prepare` is called once
  at a time (`MaxConnects` = 1).
* In `SttRecorder`, a temporary file that cannot be removed (an AMR stop would
  send the one before), and commit, cancel and stop that fail on a camcorder that
  records. Pause, destroy and the state's getter are called by nobody.
* In `SttClient`: the fork that starts the daemon with the first handle and the options
  of the next start (`SttEngineAgent` has them as the session's choices). Of the
  hello and get-state questions only the check's end is there; the messages the
  listener needs several rounds for while the daemon waits are in `SttSystem`.
* In `SttSettings`: what the lists contain, and the values of the settings an engine
  defines for itself, which go to the plug-in and are kept by nobody else.
* The network monitor: one flag that a notification writes; `sttd_server_start`
  refuses while it is off if the engine needs it, and a refused start is a
  stuttering step.

## 6. Plan

Done are the session manager with its abstract service and refinement (`SttServer`,
`SttSessions`), what it takes the engine and the recorder for (`SttEngineService`,
`SttRecording`), applications and daemon together with lost messages (`SttSystem`), who of them
agrees with its session (`SttAgreement`),
the engine agent, the recorder, the library inside one process (`SttClient`) and the
settings menus (`SttSettings`), each with its proofs. Left, in this order:

1. `__stop_by_silence` timers that remember the session they were armed for
   (`server/sttd_server.c:36`).
2. What the plug-in is sent by the recorder, so that a file sent twice can be told
   (`server/sttd_recorder.c:131`), and the camcorders that are left behind.
3. That an application in doubt gets out of it, under which behaviour of its own.
4. Proofs of what these add.
