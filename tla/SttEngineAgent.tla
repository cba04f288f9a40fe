---------------------------- MODULE SttEngineAgent ----------------------------
(***************************************************************************)
(* The engine agent and what it remembers: server/sttd_engine_agent.c over *)
(* server/sttd_config.c, driven by the settings menus and the sessions of  *)
(* server/sttd_server.c.                                                   *)
(*                                                                         *)
(* SttServer sees an engine that is loaded or not.  Here it is one of      *)
(* several, it comes and goes on the disk, and an option has four values:  *)
(* the one in the plug-in, the one cached in g_cur_engine, the default of  *)
(* the menus and the one in sttd.conf.  Handlers are atomic; the daemon    *)
(* may be killed between two of them or while it writes sttd.conf.  Ids    *)
(* are of one length, so a comparison of a prefix is a comparison.         *)
(***************************************************************************)
EXTENDS Naturals

CONSTANTS
    Engine,       \* engine ids
    Language,
    App, Menu,    \* sessions, and processes of the settings menu
    Speaks,       \* what foreach_langs of an engine gives
    Supports,     \* options an engine does not refuse to set
    Choices,      \* what sessions choose: 0 and 1 as such, 2 is AUTO
    FaultyCalls,  \* calls into the plug-in that may fail
    NULL          \* no engine, language or recognition, and an empty file

Option == {"profanity", "punctuation", "silence"}
Values == [Option -> 0..1]
Config == [engine : Engine \cup {NULL}, language : Language \cup {NULL}, options : Values]
Job == [app : App, choice : [Option -> 0..2], silence : 0..1]

ASSUME EngineAssumption ==
    /\ Speaks \in [Engine -> SUBSET Language]
    /\ Supports \in [Engine -> SUBSET Option]
    /\ Choices \subseteq [Option -> 0..2]
    /\ FaultyCalls \subseteq {"load", "format", "start"}
    /\ NULL \notin Engine \cup Language
    /\ NULL \notin Config \cup Job

\* g_client_list and g_setting_client_list, one set here, share nobody.
ASSUME ClientAssumption == App \cap Menu = {}

VARIABLES
    up,         \* the daemon runs
    installed,  \* the plug-ins in the two engine directories
    file,       \* sttd.conf
    conf,       \* g_engine_id, g_language, g_silence, g_profanity, g_punctuation
    list,       \* g_engine_list
    current,    \* g_cur_engine: which engine, is_loaded, and its options
    plugin,     \* the options the loaded plug-in works with
    lang,       \* g_cur_engine.default_lang
    default,    \* g_default_profanity_filter and the two others
    clients,    \* sessions and menus that are registered
    job         \* the recognition the plug-in is working on

configVars == <<file, conf>>
engineVars == <<list, current, plugin, lang, default>>
userVars == <<clients, job>>
agentVars == <<up, installed, configVars, engineVars, userVars>>

\* What sttd_config_initialize starts from.
Factory == [o \in Option |-> IF o = "silence" THEN 1 ELSE 0]
BlankConfig == [engine |-> NULL, language |-> NULL, options |-> Factory]

EngineAt(e, loaded, options) == [uuid |-> e, loaded |-> loaded, cache |-> options]
NoEngine == EngineAt(NULL, FALSE, Factory)
NoOptions == [o \in Option |-> 0]

\* The daemon is down, with the sttd.conf it was installed with.
AgentInit ==
    /\ up = FALSE
    /\ installed \in SUBSET Engine
    /\ \E e \in Engine, l \in Language :
          file = [engine |-> e, language |-> l, options |-> Factory]
    /\ conf = BlankConfig
    /\ list = {}
    /\ current = NoEngine
    /\ plugin = NoOptions
    /\ lang = NULL
    /\ default = Factory
    /\ clients = {}
    /\ job = NULL

-----------------------------------------------------------------------------
(* Configuration, loading and unloading.                                   *)

\* A sttd_config_set_...: the whole file is written again.
Save(k) == conf' = k /\ file' = k

\* Mutants of Loaded: the language found is not saved, the one of the engine
\* before is kept, or the options are left to the plug-in.
LoadedUnsaved(e, options, k) ==
    /\ e \in installed
    /\ current' = EngineAt(e, TRUE, options)
    /\ plugin' = [o \in Option |-> IF o \in Supports[e] THEN options[o] ELSE 0]
    /\ \E l \in IF lang \in Speaks[e] THEN {lang} ELSE Speaks[e] : lang' = l
    /\ Save(k)

LoadedWithOldLanguage(e, options, k) ==
    /\ e \in installed
    /\ current' = EngineAt(e, TRUE, options)
    /\ plugin' = [o \in Option |-> IF o \in Supports[e] THEN options[o] ELSE 0]
    /\ \/ lang # NULL /\ UNCHANGED lang /\ Save(k)
       \/ lang = NULL /\ \E l \in Speaks[e] : lang' = l /\ Save([k EXCEPT !.language = l])

LoadedWithoutOptions(e, options, k) ==
    /\ e \in installed
    /\ current' = EngineAt(e, TRUE, options)
    /\ plugin' = NoOptions
    /\ \/ lang \in Speaks[e] /\ UNCHANGED lang /\ Save(k)
       \/ /\ lang \notin Speaks[e]
          /\ \E l \in Speaks[e] : lang' = l /\ Save([k EXCEPT !.language = l])

\* sttd_engine_agent_load_current_engine succeeds for engine e, which gets the
\* cached options; a default language it does not speak is replaced and saved.
Loaded(e, options, k) ==
    /\ e \in installed
    /\ current' = EngineAt(e, TRUE, options)
    /\ plugin' = [o \in Option |-> IF o \in Supports[e] THEN options[o] ELSE 0]
    /\ \/ lang \in Speaks[e] /\ UNCHANGED lang /\ Save(k)
       \/ /\ lang \notin Speaks[e]
          /\ \E l \in Speaks[e] : lang' = l /\ Save([k EXCEPT !.language = l])

\* It fails: the file is gone, the engine has no language or is broken.
NotLoaded(e, options, k) ==
    /\ e \notin installed \/ Speaks[e] = {} \/ "load" \in FaultyCalls
    /\ current' = EngineAt(e, FALSE, options)
    /\ plugin' = NoOptions
    /\ Save(k)
    /\ UNCHANGED lang

\* Mutant of Unload: the recognition is not forgotten with its plug-in.
UnloadKeepsJob ==
    /\ current' = [current EXCEPT !.loaded = FALSE]
    /\ plugin' = NoOptions
    /\ UNCHANGED <<job, lang, configVars>>

\* sttd_engine_agent_unload_current_engine keeps the options it had cached.
Unload ==
    /\ current' = [current EXCEPT !.loaded = FALSE]
    /\ plugin' = NoOptions
    /\ job' = NULL
    /\ UNCHANGED <<lang, configVars>>

\* __internal_update_engine_list reads both engine directories.
UpdateEngineList == list' = installed

\* The engine of sttd.conf if it is there, else the first that was found.
Configured(k, found) == IF k.engine \in found THEN {k.engine} ELSE found

-----------------------------------------------------------------------------
(* The daemon starts and dies, and engines come and go.                    *)

\* Mutant of BootFails: an incomplete file is left as it is.
BootLeavesFile ==
    /\ ~up
    /\ file = NULL
    /\ UNCHANGED <<up, installed, file, conf, engineVars, userVars>>

\* An empty file leaves no language to copy (sttd_config.c:192): the daemon
\* dies, but has written a complete file with "(null)" for what was missing.
BootFails ==
    /\ ~up
    /\ file = NULL
    /\ file' = BlankConfig
    /\ UNCHANGED <<up, installed, conf, engineVars, userVars>>

\* sttd_initialize; without any engine the daemon runs nevertheless.
Boot ==
    /\ ~up
    /\ file # NULL
    /\ up' = TRUE
    /\ default' = file.options
    /\ lang' = file.language
    /\ UpdateEngineList
    /\ \/ installed = {} /\ current' = NoEngine /\ Save(file)
       \/ \E e \in Configured(file, installed) :
              /\ current' = EngineAt(e, FALSE, file.options)
              /\ Save([file EXCEPT !.engine = e])
    /\ UNCHANGED <<installed, plugin, userVars>>

Dies ==
    /\ up
    /\ up' = FALSE
    /\ conf' = BlankConfig
    /\ list' = {}
    /\ current' = NoEngine
    /\ plugin' = NoOptions
    /\ lang' = NULL
    /\ default' = Factory
    /\ clients' = {}
    /\ job' = NULL
    /\ UNCHANGED installed

Crash == Dies /\ UNCHANGED file

\* Killed between the fopen and the fclose of __sttd_config_save, for a menu.
CrashInSave ==
    /\ Dies
    /\ current.loaded
    /\ clients \cap Menu # {}
    /\ file' = NULL

Install(e) ==
    /\ installed' = installed \cup {e}
    /\ UNCHANGED <<up, configVars, engineVars, userVars>>

Remove(e) ==
    /\ installed' = installed \ {e}
    /\ UNCHANGED <<up, configVars, engineVars, userVars>>

-----------------------------------------------------------------------------
(* Sessions and menus come and go.                                         *)

\* A session needs a loaded engine that tells its audio format; one whose
\* format is of no known type is left to SttServer.
Registers(c, loaded) ==
    \/ (c \in Menu \/ loaded) /\ clients' = clients \cup {c}
    \/ c \in App /\ (~loaded \/ "format" \in FaultyCalls) /\ UNCHANGED clients

\* Only the first client has the engine loaded.
ConnectTo(c, e, options, k) ==
    \/ /\ clients = {} /\ ~current.loaded
       /\ \/ Loaded(e, options, k) /\ Registers(c, TRUE)
          \/ NotLoaded(e, options, k) /\ UNCHANGED clients
    \/ /\ clients # {} \/ current.loaded
       /\ Registers(c, current.loaded)
       /\ UNCHANGED <<current, plugin, lang, configVars>>

\* sttd_server_initialize and sttd_server_setting_initialize; a daemon that
\* found no engine so far looks again.
Connect(c) ==
    /\ up
    /\ c \notin clients
    /\ \/ /\ current.uuid # NULL
          /\ ConnectTo(c, current.uuid, current.cache, conf)
          /\ UNCHANGED list
       \/ /\ current.uuid = NULL
          /\ installed # {}
          /\ UpdateEngineList
          /\ \E e \in Configured(conf, installed) :
                ConnectTo(c, e, default, [conf EXCEPT !.engine = e])
    /\ UNCHANGED <<up, installed, default, job>>

\* The recognition of a session that goes is cancelled; a plug-in that refuses
\* to is left to SttServer.
JobWithout(c) == IF job # NULL /\ job.app = c THEN NULL ELSE job

\* Mutant of Disconnect: the settings menus are not counted.
DisconnectForgetsMenus(c) ==
    /\ up
    /\ c \in clients \cup Menu
    /\ clients' = clients \ {c}
    /\ IF clients' \subseteq Menu
       THEN Unload
       ELSE job' = JobWithout(c) /\ UNCHANGED <<current, plugin, lang, configVars>>
    /\ UNCHANGED <<up, installed, list, default>>

\* sttd_server_finalize and sttd_server_setting_finalize; only the latter goes
\* on when the client is not registered.
Disconnect(c) ==
    /\ up
    /\ c \in clients \cup Menu
    /\ clients' = clients \ {c}
    /\ IF clients' = {}
       THEN Unload
       ELSE job' = JobWithout(c) /\ UNCHANGED <<current, plugin, lang, configVars>>
    /\ UNCHANGED <<up, installed, list, default>>

-----------------------------------------------------------------------------
(* Recognitions.                                                           *)

\* __set_option goes through the options in this order and stops at the first
\* the plug-in refuses.
Before(o) ==
    CASE o = "profanity" -> {}
      [] o = "punctuation" -> {"profanity"}
      [] o = "silence" -> {"profanity", "punctuation"}

Wanted(choice) == [o \in Option |-> IF choice[o] = 2 THEN default[o] ELSE choice[o]]

\* The plug-in is only told what differs from the cache.
Told(wanted) == {o \in Option : wanted[o] # current.cache[o]}
Refused(wanted) == Told(wanted) \ Supports[current.uuid]
Reached(wanted) == {o \in Option : (Before(o) \cup {o}) \cap Refused(wanted) = {}}

\* The options of the session a reach the plug-in, and the recognition starts
\* if all of them did.
Start(a, choice) ==
    LET wanted == Wanted(choice)
        reached == Reached(wanted)
    IN  /\ up
        /\ a \in clients
        /\ current.loaded
        /\ job = NULL
        /\ current' = [current EXCEPT !.cache =
               [o \in Option |-> IF o \in reached THEN wanted[o] ELSE @[o]]]
        /\ plugin' = [o \in Option |->
               IF o \in reached \cap Told(wanted) THEN wanted[o] ELSE plugin[o]]
        /\ \/ /\ Refused(wanted) = {}
              /\ job' = [app |-> a, choice |-> choice, silence |-> wanted["silence"]]
           \/ /\ Refused(wanted) # {} \/ "start" \in FaultyCalls
              /\ UNCHANGED job
        /\ UNCHANGED <<up, installed, configVars, list, lang, default, clients>>

\* The result of the recognition, or its cancellation.
Finish ==
    /\ job # NULL
    /\ job' = NULL
    /\ UNCHANGED <<up, installed, configVars, engineVars, clients>>

-----------------------------------------------------------------------------
(* What a settings menu asks for.                                          *)

\* sttd_setting_client_is.
MenuAsks == up /\ clients \cap Menu # {}

GetEngineList ==
    /\ MenuAsks
    /\ current.loaded
    /\ UpdateEngineList
    /\ UNCHANGED <<up, installed, configVars, current, plugin, lang, default, userVars>>

\* Mutant of SetOption: it is not saved.
SetOptionUnsaved(o, v) ==
    /\ MenuAsks
    /\ current.loaded
    /\ o \in Supports[current.uuid]
    /\ plugin' = [plugin EXCEPT ![o] = v]
    /\ default' = [default EXCEPT ![o] = v]
    /\ UNCHANGED <<up, installed, configVars, list, current, lang, userVars>>

\* The plug-in is told and the default changes; the cache does not.
SetOption(o, v) ==
    /\ MenuAsks
    /\ current.loaded
    /\ o \in Supports[current.uuid]
    /\ plugin' = [plugin EXCEPT ![o] = v]
    /\ default' = [default EXCEPT ![o] = v]
    /\ Save([conf EXCEPT !.options[o] = v])
    /\ UNCHANGED <<up, installed, list, current, lang, userVars>>

SetLanguage(l) ==
    /\ MenuAsks
    /\ current.loaded
    /\ l \in Speaks[current.uuid]
    /\ lang' = l
    /\ Save([conf EXCEPT !.language = l])
    /\ UNCHANGED <<up, installed, list, current, plugin, default, userVars>>

\* sttd_engine_setting_set_engine.  The old engine is unloaded before the new
\* one is looked up, and comes back only if that one is unknown; the request
\* is refused where there is no old engine to come back to.
SetEngine(e) ==
    /\ MenuAsks
    /\ current.uuid \notin {e, NULL}
    /\ \/ /\ e \in list
          /\ \/ Loaded(e, default, [conf EXCEPT !.engine = e])
             \/ NotLoaded(e, default, conf)
       \/ /\ e \notin list
          /\ \/ Loaded(current.uuid, current.cache, conf)
             \/ NotLoaded(current.uuid, current.cache, conf)
    /\ job' = NULL
    /\ UNCHANGED <<up, installed, list, default, clients>>

AgentNext ==
    \/ Boot \/ BootFails \/ Crash \/ CrashInSave
    \/ Finish \/ GetEngineList
    \/ \E e \in Engine : Install(e) \/ Remove(e) \/ SetEngine(e)
    \/ \E c \in App \cup Menu : Connect(c) \/ Disconnect(c)
    \/ \E a \in App, choice \in Choices : Start(a, choice)
    \/ \E o \in Option, v \in 0..1 : SetOption(o, v)
    \/ \E l \in Language : SetLanguage(l)

AgentSpec == AgentInit /\ [][AgentNext]_agentVars

\* D-Bus starts the daemon when a client calls it, again and again.
FairAgentSpec == AgentSpec /\ WF_agentVars(Boot \/ BootFails)

-----------------------------------------------------------------------------
(* Properties.                                                             *)

\* Every variable keeps to its values, only a daemon that runs has an engine
\* loaded, and only a loaded engine works on a recognition.
AgentTypeOK ==
    /\ up \in BOOLEAN
    /\ installed \subseteq Engine
    /\ file \in Config \cup {NULL}
    /\ conf \in Config
    /\ list \subseteq Engine
    /\ current \in [uuid : Engine \cup {NULL}, loaded : BOOLEAN, cache : Values]
    /\ plugin \in Values
    /\ lang \in Language \cup {NULL}
    /\ default \in Values
    /\ clients \subseteq App \cup Menu
    /\ job \in Job \cup {NULL}
    /\ current.loaded => up /\ current.uuid # NULL
    /\ job # NULL => current.loaded

\* A supported option of the plug-in is the one cached or the user's default:
\* only a menu changes it behind the cache, and changes the default with it.
PlugInFollows ==
    current.loaded =>
        \A o \in Supports[current.uuid] :
            plugin[o] \in {current.cache[o], default[o]}

\* A session that leaves an option to the user's default (STT_OPTION_..._AUTO,
\* stt.h:223) gets it, whatever menus and earlier sessions have set, and a
\* menu that changes it during the recognition changes it there too
\* (sttd_engine_agent.c:873-975 against 1527-1661).
DefaultIsHonoured ==
    job # NULL =>
        \A o \in Supports[current.uuid] :
            job.choice[o] = 2 => plugin[o] = default[o]

\* Whether __detect_silence_cb lets silence end a recording is decided when the
\* recording starts: no menu and no other engine changes it under way.
SilenceIsChosen == job # NULL => current.cache["silence"] = job.silence

\* The language a session gets for "default" is one the loaded engine speaks,
\* whatever sttd.conf said and whichever engine was loaded before.
LanguageIsSpoken == current.loaded => lang \in Speaks[current.uuid]

\* What sttd.conf holds is what the menus were told: a restart at any moment
\* but in the middle of a save loses no setting.
SettingsAreKept ==
    up => /\ file = conf
          /\ file.options = default
          /\ file.language = lang

\* A daemon that died comes up, even when it died while it wrote sttd.conf.
ComesUp == ~up ~> up

\* stt.h:478 "Sets profanity filter" (and 494, 510): a recognition starts with
\* the options its session chose.
ChoiceIsHonoured ==
    [][job = NULL /\ job' # NULL =>
          \A o \in Supports[current.uuid] :
              job'.choice[o] # 2 => plugin'[o] = job'.choice[o]]_agentVars

-----------------------------------------------------------------------------
(* The promise SttEngineService makes, kept by this module.                *)

Service == INSTANCE SttEngineService WITH
    Session <- App, sessions <- clients \cap App, menus <- clients \cap Menu,
    loaded <- current.loaded, job <- IF job = NULL THEN NULL ELSE job.app

\* Whatever engines come and go, fail to load or are replaced, the session
\* manager has one engine: loaded for the first client, unloaded with the last,
\* working for one registered session at a time.
ProvidesEngine == Service!ServiceSpec
=============================================================================
