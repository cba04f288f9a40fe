------------------------- MODULE SttEngineAgentProofs -------------------------
(***************************************************************************)
(* Theorems about SttEngineAgent, for all engines, languages, options they *)
(* support, sessions, menus and failing calls.                             *)
(***************************************************************************)
EXTENDS SttEngineAgent, TLAPS

\* The inductive invariant.  DefaultIsHonoured needs PlugInFollows: a start
\* tells the plug-in only what differs from the cache.
AgentInv ==
    /\ AgentTypeOK
    /\ PlugInFollows
    /\ DefaultIsHonoured
    /\ SilenceIsChosen
    /\ LanguageIsSpoken
    /\ SettingsAreKept

\* What the invariant comes to where nothing is working on a recognition.
Resting ==
    /\ AgentTypeOK
    /\ PlugInFollows
    /\ LanguageIsSpoken
    /\ SettingsAreKept

\* Without a recognition the two properties of a recognition hold.
LEMMA RestingSuffices ==
    ASSUME Resting, job = NULL
    PROVE  AgentInv
BY DEF Resting, AgentInv, DefaultIsHonoured, SilenceIsChosen

-----------------------------------------------------------------------------
(* Loading.                                                                *)

\* A configuration stays one when an engine or a language is set.
LEMMA ConfigSet ==
    ASSUME NEW k \in Config
    PROVE  /\ k.engine \in Engine \cup {NULL}
           /\ k.language \in Language \cup {NULL}
           /\ k.options \in Values
           /\ \A e \in Engine \cup {NULL} :
                 /\ [k EXCEPT !.engine = e] \in Config
                 /\ [k EXCEPT !.engine = e].language = k.language
                 /\ [k EXCEPT !.engine = e].options = k.options
           /\ \A l \in Language \cup {NULL} :
                 /\ [k EXCEPT !.language = l] \in Config
                 /\ [k EXCEPT !.language = l].language = l
                 /\ [k EXCEPT !.language = l].options = k.options
BY SMT DEF Config

\* So it does when an option is set.
LEMMA ConfigOptionSet ==
    ASSUME NEW k \in Config, NEW o \in Option, NEW v \in 0..1
    PROVE  /\ [k EXCEPT !.options[o] = v] \in Config
           /\ [k EXCEPT !.options[o] = v].language = k.language
           /\ [k EXCEPT !.options[o] = v].options = [k.options EXCEPT ![o] = v]
<1>1. k.options \in Values
  BY SMT DEF Config
<1>2. [k.options EXCEPT ![o] = v] \in Values
  BY <1>1, SMT DEF Values
<1>3. QED
  BY <1>1, <1>2, SMT DEF Config

\* An engine that loads has the options cached for it, and the language kept
\* for sessions is one it speaks and the one that is saved.
LEMMA LoadedResult ==
    ASSUME AgentTypeOK, NEW e \in Engine, NEW options \in Values, NEW k \in Config,
           k.language = lang, Loaded(e, options, k)
    PROVE  /\ current' = EngineAt(e, TRUE, options)
           /\ current' \in [uuid : Engine \cup {NULL}, loaded : BOOLEAN, cache : Values]
           /\ plugin' \in Values
           /\ \A o \in Supports[e] : plugin'[o] = options[o]
           /\ lang' \in Speaks[e]
           /\ lang' \in Language
           /\ conf' \in Config /\ file' = conf'
           /\ conf'.language = lang' /\ conf'.options = k.options
<1>1. /\ Speaks[e] \subseteq Language
      /\ Supports[e] \subseteq Option
  BY EngineAssumption
<1>2. /\ current' = EngineAt(e, TRUE, options)
      /\ current' \in [uuid : Engine \cup {NULL}, loaded : BOOLEAN, cache : Values]
  BY SMT DEF Loaded, EngineAt
<1>3. plugin' \in Values /\ \A o \in Supports[e] : plugin'[o] = options[o]
  BY <1>1, SMT DEF Loaded, Values
<1>4. CASE lang \in Speaks[e] /\ UNCHANGED lang /\ Save(k)
  <2>1. lang' = lang /\ lang \in Speaks[e] /\ lang \in Language
    BY <1>1, <1>4
  <2>2. conf' = k /\ file' = k
    BY <1>4 DEF Save
  <2>3. QED
    BY <1>2, <1>3, <2>1, <2>2
<1>5. CASE \E l \in Speaks[e] : lang' = l /\ Save([k EXCEPT !.language = l])
  <2>1. PICK l \in Speaks[e] : lang' = l /\ Save([k EXCEPT !.language = l])
    BY <1>5
  <2>2. QED
    BY <1>1, <1>2, <1>3, <2>1, ConfigSet DEF Save
<1>6. QED
  BY <1>4, <1>5 DEF Loaded

\* One that fails to is the current engine nevertheless, and not loaded.
LEMMA NotLoadedResult ==
    ASSUME NEW e \in Engine, NEW options \in Values, NEW k, NotLoaded(e, options, k)
    PROVE  /\ current' \in [uuid : Engine \cup {NULL}, loaded : BOOLEAN, cache : Values]
           /\ current'.loaded = FALSE
           /\ plugin' \in Values
           /\ lang' = lang /\ conf' = k /\ file' = k
BY SMT DEF NotLoaded, EngineAt, NoOptions, Values, Save

\* Either way the daemon rests in the invariant, whatever engine it tried.
LEMMA LoadRests ==
    ASSUME AgentTypeOK, up, up' = up, installed' = installed,
           list' \subseteq Engine, default' = default,
           clients' \subseteq App \cup Menu, job' = NULL,
           NEW e \in Engine, NEW options \in Values, NEW k \in Config, NEW failed \in Config,
           k.language = lang, k.options = default,
           failed.language = lang, failed.options = default,
           Loaded(e, options, k) \/ NotLoaded(e, options, failed)
    PROVE  AgentInv'
<1>1. CASE Loaded(e, options, k)
  <2>1. /\ current' = EngineAt(e, TRUE, options)
        /\ current' \in [uuid : Engine \cup {NULL}, loaded : BOOLEAN, cache : Values]
        /\ plugin' \in Values
        /\ \A o \in Supports[e] : plugin'[o] = options[o]
        /\ lang' \in Speaks[e]
        /\ lang' \in Language
        /\ conf' \in Config /\ file' = conf'
        /\ conf'.language = lang' /\ conf'.options = k.options
    BY <1>1, LoadedResult
  <2>2. current'.uuid = e /\ current'.loaded = TRUE /\ current'.cache = options
    BY <2>1, SMT DEF EngineAt
  <2>3. e # NULL
    BY EngineAssumption
  <2>4. AgentTypeOK'
    BY <2>1, <2>2, <2>3 DEF AgentTypeOK
  <2>5. PlugInFollows' /\ LanguageIsSpoken'
    BY <2>1, <2>2 DEF PlugInFollows, LanguageIsSpoken
  <2>6. SettingsAreKept'
    BY <2>1 DEF SettingsAreKept
  <2>7. QED
    BY <2>4, <2>5, <2>6 DEF AgentInv, DefaultIsHonoured, SilenceIsChosen
<1>2. CASE NotLoaded(e, options, failed)
  <2>1. /\ current' \in [uuid : Engine \cup {NULL}, loaded : BOOLEAN, cache : Values]
        /\ current'.loaded = FALSE
        /\ plugin' \in Values
        /\ lang' = lang /\ conf' = failed /\ file' = failed
    BY <1>2, NotLoadedResult
  <2>2. AgentTypeOK'
    BY <2>1 DEF AgentTypeOK
  <2>3. QED
    BY <2>1, <2>2 DEF AgentInv, PlugInFollows, DefaultIsHonoured, SilenceIsChosen,
       LanguageIsSpoken, SettingsAreKept
<1>3. QED
  BY <1>1, <1>2

-----------------------------------------------------------------------------
(* The invariant is inductive.                                             *)

\* The installed sttd.conf and a daemon that is down satisfy it.
LEMMA AgentInitial == AgentInit => AgentInv
<1>1. SUFFICES ASSUME AgentInit PROVE AgentInv
  OBVIOUS
<1>2. Factory \in Values /\ NoOptions \in Values
  BY SMT DEF Factory, NoOptions, Values
<1>3. BlankConfig \in Config /\ file \in Config
  BY <1>1, <1>2, SMT DEF AgentInit, Config, BlankConfig
<1>4. /\ current \in [uuid : Engine \cup {NULL}, loaded : BOOLEAN, cache : Values]
      /\ current.loaded = FALSE
  BY <1>1, <1>2, SMT DEF AgentInit, NoEngine, EngineAt
<1>5. AgentTypeOK
  BY <1>1, <1>2, <1>3, <1>4 DEF AgentInit, AgentTypeOK
<1>6. Resting
  BY <1>1, <1>4, <1>5 DEF AgentInit, Resting, PlugInFollows, LanguageIsSpoken,
     SettingsAreKept
<1>7. QED
  BY <1>1, <1>6, RestingSuffices DEF AgentInit

\* A step that touches neither the daemon nor its file keeps the invariant.
LEMMA OutsideStep ==
    ASSUME AgentInv, installed' \subseteq Engine,
           UNCHANGED <<up, configVars, engineVars, userVars>>
    PROVE  AgentInv'
BY DEF AgentInv, AgentTypeOK, PlugInFollows, DefaultIsHonoured, SilenceIsChosen,
   LanguageIsSpoken, SettingsAreKept, configVars, engineVars, userVars

\* Starting the daemon reads the file that is there.
LEMMA BootStep == AgentInv /\ Boot => AgentInv'
<1>1. SUFFICES ASSUME AgentInv, Boot PROVE AgentInv'
  OBVIOUS
<1>2. file \in Config
  BY <1>1 DEF AgentInv, AgentTypeOK, Boot
<1>3. /\ file.options \in Values
      /\ file.language \in Language \cup {NULL}
      /\ Factory \in Values
  BY <1>2, ConfigSet, SMT DEF Factory, Values
<1>4. /\ current' \in [uuid : Engine \cup {NULL}, loaded : BOOLEAN, cache : Values]
      /\ current'.loaded = FALSE
      /\ conf' \in Config /\ file' = conf'
      /\ conf'.options = file.options /\ conf'.language = file.language
  <2>1. CASE installed = {} /\ current' = NoEngine /\ Save(file)
    <3>1. conf' = file /\ file' = file
      BY <2>1 DEF Save
    <3>2. /\ current' \in [uuid : Engine \cup {NULL}, loaded : BOOLEAN, cache : Values]
          /\ current'.loaded = FALSE
      BY <1>3, <2>1, SMT DEF NoEngine, EngineAt
    <3>3. QED
      BY <1>2, <3>1, <3>2
  <2>2. ASSUME NEW e \in Configured(file, installed),
               current' = EngineAt(e, FALSE, file.options),
               Save([file EXCEPT !.engine = e])
        PROVE  /\ current' \in [uuid : Engine \cup {NULL}, loaded : BOOLEAN, cache : Values]
               /\ current'.loaded = FALSE
               /\ conf' \in Config /\ file' = conf'
               /\ conf'.options = file.options /\ conf'.language = file.language
    <3>1. e \in Engine
      BY <1>1, <2>2 DEF AgentInv, AgentTypeOK, Configured
    <3>2. /\ current' \in [uuid : Engine \cup {NULL}, loaded : BOOLEAN, cache : Values]
          /\ current'.loaded = FALSE
      BY <1>3, <2>2, <3>1, SMT DEF EngineAt
    <3>3. conf' = [file EXCEPT !.engine = e] /\ file' = [file EXCEPT !.engine = e]
      BY <2>2 DEF Save
    <3>4. QED
      BY <1>2, <3>1, <3>2, <3>3, ConfigSet
  <2>3. QED
    BY <1>1, <2>1, <2>2 DEF Boot
<1>5. job' = NULL
  BY <1>1 DEF Boot, AgentInv, AgentTypeOK, userVars
<1>6. AgentTypeOK'
  BY <1>1, <1>2, <1>3, <1>4, <1>5 DEF Boot, UpdateEngineList, AgentInv, AgentTypeOK, userVars
<1>7. QED
  BY <1>1, <1>4, <1>5, <1>6 DEF Boot, AgentInv, PlugInFollows, DefaultIsHonoured,
     SilenceIsChosen, LanguageIsSpoken, SettingsAreKept

\* A daemon that dies leaves nothing but a file, whole or empty.
LEMMA DiesStep == AgentInv /\ (Crash \/ CrashInSave) => AgentInv'
<1>1. SUFFICES ASSUME AgentInv, Dies, file' \in {file, NULL} PROVE AgentInv'
  BY DEF Crash, CrashInSave
<1>2. Factory \in Values /\ NoOptions \in Values
  BY SMT DEF Factory, NoOptions, Values
<1>3. BlankConfig \in Config
  BY <1>2, SMT DEF Config, BlankConfig
<1>4. /\ current' \in [uuid : Engine \cup {NULL}, loaded : BOOLEAN, cache : Values]
      /\ current'.loaded = FALSE
  BY <1>1, <1>2, SMT DEF Dies, NoEngine, EngineAt
<1>5. AgentTypeOK'
  BY <1>1, <1>2, <1>3, <1>4 DEF Dies, AgentInv, AgentTypeOK
<1>6. QED
  BY <1>1, <1>4, <1>5 DEF Dies, AgentInv, PlugInFollows, DefaultIsHonoured,
     SilenceIsChosen, LanguageIsSpoken, SettingsAreKept

\* A start on an empty file dies too, and leaves a whole one.
LEMMA BootFailsStep == AgentInv /\ BootFails => AgentInv'
<1>1. SUFFICES ASSUME AgentInv, BootFails PROVE AgentInv'
  OBVIOUS
<1>2. BlankConfig \in Config
  BY SMT DEF Config, BlankConfig, Factory, Values
<1>3. AgentTypeOK'
  BY <1>1, <1>2 DEF BootFails, AgentInv, AgentTypeOK, engineVars, userVars
<1>4. QED
  BY <1>1, <1>3 DEF BootFails, AgentInv, PlugInFollows, DefaultIsHonoured,
     SilenceIsChosen, LanguageIsSpoken, SettingsAreKept, engineVars, userVars

\* The types of what is current, and of what is configured while the daemon runs.
LEMMA RunningFacts ==
    ASSUME AgentInv, up
    PROVE  /\ current.uuid \in Engine \cup {NULL}
           /\ current.cache \in Values
           /\ conf \in Config /\ file = conf
           /\ conf.options = default /\ conf.language = lang
<1>1. current \in [uuid : Engine \cup {NULL}, loaded : BOOLEAN, cache : Values]
  BY DEF AgentInv, AgentTypeOK
<1>2. current.uuid \in Engine \cup {NULL} /\ current.cache \in Values
  BY <1>1, SMT
<1>3. QED
  BY <1>2 DEF AgentInv, AgentTypeOK, SettingsAreKept

\* A client that comes has the engine loaded, or finds it as it is.
LEMMA ConnectToStep ==
    ASSUME AgentInv, up, NEW c \in App \cup Menu, NEW e \in Engine,
           NEW options \in Values, NEW k \in Config,
           k.language = lang, k.options = default,
           ConnectTo(c, e, options, k),
           list' \subseteq Engine,
           UNCHANGED <<up, installed, default, job>>
    PROVE  AgentInv'
<1>1. clients' \subseteq App \cup Menu
  BY DEF AgentInv, AgentTypeOK, ConnectTo, Registers
<1>2. CASE clients = {} /\ ~current.loaded /\ (Loaded(e, options, k) \/ NotLoaded(e, options, k))
  <2>1. job' = NULL
    BY <1>2 DEF AgentInv, AgentTypeOK
  <2>2. QED
    BY <1>1, <1>2, <2>1, LoadRests DEF AgentInv
<1>3. CASE UNCHANGED <<current, plugin, lang, configVars>>
  BY <1>1, <1>3 DEF AgentInv, AgentTypeOK, PlugInFollows, DefaultIsHonoured,
     SilenceIsChosen, LanguageIsSpoken, SettingsAreKept, configVars
<1>4. QED
  BY <1>2, <1>3 DEF ConnectTo

\* So does a connection, to the engine there is or to one found only now.
LEMMA ConnectStep ==
    ASSUME AgentInv, NEW c \in App \cup Menu, Connect(c)
    PROVE  AgentInv'
<1>1. up /\ UNCHANGED <<up, installed, default, job>>
  BY DEF Connect
<1>2. /\ current.uuid \in Engine \cup {NULL}
      /\ current.cache \in Values
      /\ conf \in Config /\ file = conf
      /\ conf.options = default /\ conf.language = lang
  BY <1>1, RunningFacts
<1>3. installed \subseteq Engine /\ list \subseteq Engine /\ default \in Values
  BY DEF AgentInv, AgentTypeOK
<1>4. CASE /\ current.uuid # NULL
           /\ ConnectTo(c, current.uuid, current.cache, conf)
           /\ UNCHANGED list
  BY <1>1, <1>2, <1>3, <1>4, ConnectToStep
<1>5. ASSUME UpdateEngineList, NEW e \in Configured(conf, installed),
             ConnectTo(c, e, default, [conf EXCEPT !.engine = e])
      PROVE  AgentInv'
  <2>1. e \in Engine
    BY <1>3, <1>5 DEF Configured
  <2>2. /\ [conf EXCEPT !.engine = e] \in Config
        /\ [conf EXCEPT !.engine = e].language = lang
        /\ [conf EXCEPT !.engine = e].options = default
    BY <1>2, <2>1, ConfigSet
  <2>3. QED
    BY <1>1, <1>3, <1>5, <2>1, <2>2, ConnectToStep DEF UpdateEngineList
<1>6. QED
  BY <1>4, <1>5 DEF Connect

\* The last client that goes has the engine unloaded and its recognition dropped.
LEMMA DisconnectStep ==
    ASSUME AgentInv, NEW c \in App \cup Menu, Disconnect(c)
    PROVE  AgentInv'
<1>1. /\ up /\ clients' \subseteq App \cup Menu
      /\ UNCHANGED <<up, installed, list, default>>
  BY DEF Disconnect, AgentInv, AgentTypeOK
<1>2. CASE Unload
  <2>1. /\ current' \in [uuid : Engine \cup {NULL}, loaded : BOOLEAN, cache : Values]
        /\ current'.loaded = FALSE
    <3>1. current \in [uuid : Engine \cup {NULL}, loaded : BOOLEAN, cache : Values]
      BY DEF AgentInv, AgentTypeOK
    <3>2. current' = [current EXCEPT !.loaded = FALSE]
      BY <1>2 DEF Unload
    <3>3. FALSE \in BOOLEAN
      OBVIOUS
    <3>4. ASSUME NEW r \in [uuid : Engine \cup {NULL}, loaded : BOOLEAN, cache : Values],
                 NEW b \in BOOLEAN
          PROVE  /\ [r EXCEPT !.loaded = b] \in
                       [uuid : Engine \cup {NULL}, loaded : BOOLEAN, cache : Values]
                 /\ [r EXCEPT !.loaded = b].loaded = b
      BY SMT
    <3>5. QED
      BY <3>1, <3>2, <3>3, <3>4
  <2>2. NoOptions \in Values
    BY SMT DEF NoOptions, Values
  <2>3. AgentTypeOK'
    BY <1>1, <1>2, <2>1, <2>2 DEF Unload, AgentInv, AgentTypeOK, configVars
  <2>4. QED
    BY <1>1, <1>2, <2>1, <2>3 DEF Unload, AgentInv, PlugInFollows, DefaultIsHonoured,
       SilenceIsChosen, LanguageIsSpoken, SettingsAreKept, configVars
<1>3. CASE job' = JobWithout(c) /\ UNCHANGED <<current, plugin, lang, configVars>>
  <2>1. job' \in {job, NULL}
    BY <1>3 DEF JobWithout
  <2>2. QED
    BY <1>1, <1>3, <2>1 DEF AgentInv, AgentTypeOK, PlugInFollows, DefaultIsHonoured,
       SilenceIsChosen, LanguageIsSpoken, SettingsAreKept, configVars
<1>4. QED
  BY <1>2, <1>3 DEF Disconnect

\* A start tells the plug-in what differs from the cache, which then is what
\* the session wanted.
LEMMA StartStep ==
    ASSUME AgentInv, NEW a \in App, NEW choice \in Choices, Start(a, choice)
    PROVE  AgentInv'
<1> DEFINE wanted == Wanted(choice)
<1> DEFINE reached == Reached(wanted)
<1>1. /\ up /\ current.loaded /\ job = NULL
      /\ UNCHANGED <<up, installed, configVars, list, lang, default, clients>>
  BY DEF Start
<1>2. /\ current \in [uuid : Engine \cup {NULL}, loaded : BOOLEAN, cache : Values]
      /\ plugin \in Values /\ default \in Values
  BY DEF AgentInv, AgentTypeOK
<1>3. choice \in [Option -> 0..2]
  BY EngineAssumption
<1>4. wanted \in Values
  BY <1>2, <1>3, SMT DEF Wanted, Values
<1>5. /\ current' = [current EXCEPT !.cache =
            [o \in Option |-> IF o \in reached THEN wanted[o] ELSE @[o]]]
      /\ plugin' = [o \in Option |->
            IF o \in reached \cap Told(wanted) THEN wanted[o] ELSE plugin[o]]
  BY DEF Start
<1> HIDE DEF wanted, reached
<1>6. /\ current' \in [uuid : Engine \cup {NULL}, loaded : BOOLEAN, cache : Values]
      /\ current'.uuid = current.uuid /\ current'.loaded
      /\ \A o \in Option : current'.cache[o] = IF o \in reached THEN wanted[o] ELSE current.cache[o]
  BY <1>1, <1>2, <1>4, <1>5, SMT DEF Values
<1>7. /\ plugin' \in Values
      /\ \A o \in Option :
            plugin'[o] = IF o \in reached \cap Told(wanted) THEN wanted[o] ELSE plugin[o]
  BY <1>2, <1>4, <1>5, SMT DEF Values
<1>8. Supports[current.uuid] \subseteq Option
  BY <1>1, <1>2, EngineAssumption, SMT DEF AgentInv, AgentTypeOK
<1>9. \A o \in Supports[current.uuid] : plugin[o] \in {current.cache[o], default[o]}
  BY <1>1 DEF AgentInv, PlugInFollows
<1>10. \A o \in Option : o \in Told(wanted) <=> wanted[o] # current.cache[o]
  BY DEF Told
<1>11. \A o \in Supports[current.uuid] :
          /\ plugin'[o] \in {current'.cache[o], default'[o]}
          /\ o \in reached /\ wanted[o] = default[o] => plugin'[o] = default[o]
  BY <1>1, <1>6, <1>7, <1>8, <1>9, <1>10
<1>13. job' \in Job \cup {NULL}
  <2>1. wanted["silence"] \in 0..1
    BY <1>4, SMT DEF Values, Option
  <2>2. [app |-> a, choice |-> choice, silence |-> wanted["silence"]] \in Job
    BY <1>3, <2>1, SMT DEF Job
  <2>3. QED
    BY <1>1, <2>2 DEF Start, wanted
<1>14. AgentTypeOK'
  BY <1>1, <1>6, <1>7, <1>13 DEF AgentInv, AgentTypeOK, configVars
<1>15. PlugInFollows' /\ LanguageIsSpoken' /\ SettingsAreKept'
  BY <1>1, <1>6, <1>11 DEF AgentInv, PlugInFollows, LanguageIsSpoken, SettingsAreKept,
     configVars
<1>16. CASE job' = NULL
  BY <1>14, <1>15, <1>16 DEF AgentInv, DefaultIsHonoured, SilenceIsChosen
<1>17. CASE /\ Refused(wanted) = {}
            /\ job' = [app |-> a, choice |-> choice, silence |-> wanted["silence"]]
  <2>1. reached = Option
    BY <1>17 DEF reached, Reached
  <2>2. job'.choice = choice /\ job'.silence = wanted["silence"]
    BY <1>17
  <2>3. \A o \in Option : choice[o] = 2 => wanted[o] = default[o]
    BY DEF wanted, Wanted
  <2>4. DefaultIsHonoured'
    BY <1>1, <1>6, <1>8, <1>11, <2>1, <2>2, <2>3 DEF DefaultIsHonoured
  <2>5. SilenceIsChosen'
    BY <1>6, <2>1, <2>2 DEF SilenceIsChosen, Option
  <2>6. QED
    BY <1>14, <1>15, <2>4, <2>5 DEF AgentInv
<1>18. QED
  BY <1>1, <1>16, <1>17 DEF Start, wanted

\* The end of a recognition, and a look at the engines there are.
LEMMA FinishStep == AgentInv /\ (Finish \/ GetEngineList) => AgentInv'
BY DEF AgentInv, Finish, GetEngineList, UpdateEngineList, AgentTypeOK, PlugInFollows, DefaultIsHonoured,
   SilenceIsChosen, LanguageIsSpoken, SettingsAreKept, configVars, engineVars, userVars

\* A menu sets the plug-in and the default alike, and saves.
LEMMA SetOptionStep ==
    ASSUME AgentInv, NEW o \in Option, NEW v \in 0..1, SetOption(o, v)
    PROVE  AgentInv'
<1>1. /\ up /\ current.loaded
      /\ UNCHANGED <<up, installed, list, current, lang, userVars>>
  BY DEF SetOption, MenuAsks
<1>2. plugin \in Values /\ default \in Values
  BY DEF AgentInv, AgentTypeOK
<1>3. conf \in Config /\ conf.options = default /\ conf.language = lang
  BY <1>1, RunningFacts
<1>4. /\ plugin' \in Values /\ default' \in Values
      /\ plugin'[o] = v /\ default'[o] = v
      /\ \A p \in Option \ {o} : plugin'[p] = plugin[p] /\ default'[p] = default[p]
  BY <1>2, SMT DEF SetOption, Values
<1>5. conf' = [conf EXCEPT !.options[o] = v] /\ file' = [conf EXCEPT !.options[o] = v]
  BY DEF SetOption, Save
<1>6. conf' \in Config /\ conf'.language = lang /\ conf'.options = default'
  <2>1. /\ [conf EXCEPT !.options[o] = v] \in Config
        /\ [conf EXCEPT !.options[o] = v].language = conf.language
        /\ [conf EXCEPT !.options[o] = v].options = [conf.options EXCEPT ![o] = v]
    BY <1>3, ConfigOptionSet
  <2>2. default' = [conf.options EXCEPT ![o] = v]
    BY <1>3 DEF SetOption
  <2>3. QED
    BY <1>3, <1>5, <2>1, <2>2, Zenon
<1>7. Supports[current.uuid] \subseteq Option
  BY <1>1, EngineAssumption, RunningFacts DEF AgentInv, AgentTypeOK
<1>8. AgentTypeOK'
  BY <1>1, <1>4, <1>5, <1>6 DEF AgentInv, AgentTypeOK, userVars
<1>9. PlugInFollows' /\ DefaultIsHonoured'
  BY <1>1, <1>4, <1>7 DEF AgentInv, PlugInFollows, DefaultIsHonoured, userVars
<1>10. SilenceIsChosen' /\ LanguageIsSpoken'
  BY <1>1 DEF AgentInv, SilenceIsChosen, LanguageIsSpoken, userVars
<1>11. SettingsAreKept'
  BY <1>1, <1>5, <1>6 DEF SettingsAreKept
<1>12. QED
  BY <1>8, <1>9, <1>10, <1>11 DEF AgentInv

\* A menu sets a language the engine speaks, and saves it.
LEMMA SetLanguageStep ==
    ASSUME AgentInv, NEW l \in Language, SetLanguage(l)
    PROVE  AgentInv'
<1>1. /\ up /\ lang' = l /\ l \in Speaks[current.uuid]
      /\ UNCHANGED <<up, installed, list, current, plugin, default, userVars>>
      /\ conf' = [conf EXCEPT !.language = l] /\ file' = [conf EXCEPT !.language = l]
  BY DEF SetLanguage, MenuAsks, Save
<1>2. conf' \in Config /\ conf'.language = l /\ conf'.options = default
  BY <1>1, RunningFacts, ConfigSet
<1>3. QED
  BY <1>1, <1>2 DEF AgentInv, AgentTypeOK, PlugInFollows, DefaultIsHonoured,
     SilenceIsChosen, LanguageIsSpoken, SettingsAreKept, userVars

\* A change of engine tries the new one, or the old one again.
LEMMA SetEngineStep ==
    ASSUME AgentInv, NEW e \in Engine, SetEngine(e)
    PROVE  AgentInv'
<1>1. /\ up /\ job' = NULL /\ current.uuid # NULL
      /\ UNCHANGED <<up, installed, list, default, clients>>
  BY DEF SetEngine, MenuAsks
<1>2. /\ current.uuid \in Engine \cup {NULL}
      /\ current.cache \in Values
      /\ conf \in Config /\ conf.options = default /\ conf.language = lang
  BY <1>1, RunningFacts
<1>3. AgentTypeOK /\ list \subseteq Engine /\ clients \subseteq App \cup Menu /\ default \in Values
  BY DEF AgentInv, AgentTypeOK
<1>4. CASE \/ Loaded(e, default, [conf EXCEPT !.engine = e])
           \/ NotLoaded(e, default, conf)
  <2>1. /\ [conf EXCEPT !.engine = e] \in Config
        /\ [conf EXCEPT !.engine = e].language = lang
        /\ [conf EXCEPT !.engine = e].options = default
    BY <1>2, ConfigSet
  <2>2. QED
    BY <1>1, <1>2, <1>3, <1>4, <2>1, LoadRests
<1>5. CASE \/ Loaded(current.uuid, current.cache, conf)
           \/ NotLoaded(current.uuid, current.cache, conf)
  BY <1>1, <1>2, <1>3, <1>5, LoadRests DEF SetEngine
<1>6. QED
  BY <1>4, <1>5 DEF SetEngine

\* Every step keeps the invariant.
LEMMA AgentStep == AgentInv /\ [AgentNext]_agentVars => AgentInv'
<1>1. SUFFICES ASSUME AgentInv, [AgentNext]_agentVars PROVE AgentInv'
  OBVIOUS
<1>2. CASE Boot \/ BootFails \/ Crash \/ CrashInSave
  BY <1>1, <1>2, BootStep, BootFailsStep, DiesStep
<1>3. CASE Finish \/ GetEngineList
  BY <1>1, <1>3, FinishStep
<1>4. ASSUME NEW e \in Engine, Install(e) \/ Remove(e) PROVE AgentInv'
  <2>1. installed \subseteq Engine
    BY <1>1 DEF AgentInv, AgentTypeOK
  <2>2. QED
    BY <1>1, <1>4, <2>1, OutsideStep DEF Install, Remove
<1>5. ASSUME NEW e \in Engine, SetEngine(e) PROVE AgentInv'
  BY <1>1, <1>5, SetEngineStep
<1>6. ASSUME NEW c \in App \cup Menu, Connect(c) \/ Disconnect(c) PROVE AgentInv'
  BY <1>1, <1>6, ConnectStep, DisconnectStep
<1>7. ASSUME NEW a \in App, NEW choice \in Choices, Start(a, choice) PROVE AgentInv'
  BY <1>1, <1>7, StartStep
<1>8. ASSUME NEW o \in Option, NEW v \in 0..1, SetOption(o, v) PROVE AgentInv'
  BY <1>1, <1>8, SetOptionStep
<1>9. ASSUME NEW l \in Language, SetLanguage(l) PROVE AgentInv'
  BY <1>1, <1>9, SetLanguageStep
<1>10. CASE UNCHANGED agentVars
  <2>1. installed' \subseteq Engine
    BY <1>1, <1>10 DEF AgentInv, AgentTypeOK, agentVars
  <2>2. QED
    BY <1>1, <1>10, <2>1, OutsideStep DEF agentVars
<1>11. QED
  BY <1>1, <1>2, <1>3, <1>4, <1>5, <1>6, <1>7, <1>8, <1>9, <1>10 DEF AgentNext

-----------------------------------------------------------------------------
(* What holds in every reachable state.                                    *)

\* The invariant is one of the specification.
LEMMA AgentInvHolds == AgentSpec => []AgentInv
BY AgentInitial, AgentStep, PTL DEF AgentSpec

\* Every variable keeps to its values, and a recognition to a loaded engine,
\* through every load, change of engine, crash and restart.
THEOREM AgentTypeCorrect == AgentSpec => []AgentTypeOK
BY AgentInvHolds, PTL DEF AgentInv

\* An option left to the user's default is the user's default in the plug-in
\* as long as the recognition runs, whatever menus and sessions have set.
THEOREM UserDefaultIsHonoured == AgentSpec => []DefaultIsHonoured
BY AgentInvHolds, PTL DEF AgentInv

\* Whether silence ends a recording is as it was when the recording started.
THEOREM SilenceStaysChosen == AgentSpec => []SilenceIsChosen
BY AgentInvHolds, PTL DEF AgentInv

\* The default language is one the loaded engine speaks.
THEOREM LanguageStaysSpoken == AgentSpec => []LanguageIsSpoken
BY AgentInvHolds, PTL DEF AgentInv

\* A daemon that runs has saved every setting it works with.
THEOREM NoSettingIsLost == AgentSpec => []SettingsAreKept
BY AgentInvHolds, PTL DEF AgentInv

-----------------------------------------------------------------------------
(* The engine that is provided.                                            *)

Sessions == clients \cap App
Menus == clients \cap Menu
JobSession == IF job = NULL THEN NULL ELSE job.app

EngineProvided == Service!ServiceNext \/ UNCHANGED Service!engineUse

\* Nobody comes or goes and the engine stays: nothing is seen of the step.
LEMMA NothingSeen ==
    ASSUME UNCHANGED clients, current'.loaded = current.loaded, UNCHANGED job
    PROVE  EngineProvided
BY DEF EngineProvided, Service!engineUse

\* Loading ends with an engine loaded, or not.
LEMMA LoadedSeen ==
    ASSUME NEW e, NEW options, NEW k
    PROVE  /\ Loaded(e, options, k) => current'.loaded = TRUE
           /\ NotLoaded(e, options, k) => current'.loaded = FALSE
BY SMT DEF Loaded, NotLoaded, EngineAt

\* What the step of a client is to the two kinds of clients.
LEMMA ClientKinds ==
    ASSUME NEW c \in App \cup Menu
    PROVE  /\ c \in App => /\ (clients \cup {c}) \cap App = Sessions \cup {c}
                           /\ (clients \cup {c}) \cap Menu = Menus
                           /\ (clients \ {c}) \cap App = Sessions \ {c}
                           /\ (clients \ {c}) \cap Menu = Menus
           /\ c \in Menu => /\ (clients \cup {c}) \cap App = Sessions
                            /\ (clients \cup {c}) \cap Menu = Menus \cup {c}
                            /\ (clients \ {c}) \cap App = Sessions
                            /\ (clients \ {c}) \cap Menu = Menus \ {c}
BY ClientAssumption DEF Sessions, Menus

\* Nobody uses the engine when nobody is registered.
LEMMA NobodyUses ==
    ASSUME AgentTypeOK
    PROVE  Service!Unused <=> clients = {}
BY DEF AgentTypeOK, Service!Unused

\* A client comes, has the engine loaded if it is the first, and is let in or
\* turned away.
LEMMA ArrivalSeen ==
    ASSUME AgentTypeOK, NEW c \in App \cup Menu, c \notin clients, UNCHANGED job,
           NEW e, NEW options, NEW k, ConnectTo(c, e, options, k)
    PROVE  EngineProvided
<1>1. ASSUME Registers(c, current'.loaded), current'.loaded \in BOOLEAN,
             current'.loaded = current.loaded \/ (clients = {} /\ current'.loaded),
             clients = {} => current'.loaded
      PROVE  EngineProvided
  <2>0. current.loaded \in BOOLEAN
    BY SMT DEF AgentTypeOK
  <2>1. CASE UNCHANGED clients
    <3>1. CASE current'.loaded = current.loaded
      BY <2>1, <3>1, NothingSeen
    <3>2. CASE clients = {} /\ current'.loaded
      <4>1. Service!LoadsInVain
        BY <2>1, <3>2, NobodyUses DEF Service!LoadsInVain
      <4>2. QED
        BY <4>1 DEF EngineProvided, Service!ServiceNext
    <3>3. QED
      BY <1>1, <3>1, <3>2
  <2>2. CASE c \in App /\ clients' = clients \cup {c} /\ current'.loaded
    <3>1. Service!SessionArrives(c)
      BY <1>1, <2>0, <2>2, ClientKinds, NobodyUses
         DEF Sessions, Menus, Service!SessionArrives
    <3>2. QED
      BY <2>2, <3>1 DEF EngineProvided, Service!ServiceNext
  <2>3. CASE c \in Menu /\ clients' = clients \cup {c}
    <3>1. current'.loaded = (current.loaded \/ Service!Unused)
      BY <1>1, <2>0, NobodyUses
    <3>2. Service!MenuArrives(c)
      BY <2>3, <3>1, ClientKinds DEF Sessions, Menus, Service!MenuArrives
    <3>3. QED
      BY <2>3, <3>2 DEF EngineProvided, Service!ServiceNext
  <2>4. QED
    BY <1>1, <2>1, <2>2, <2>3 DEF Registers
<1>2. CASE clients = {} /\ ~current.loaded /\ Loaded(e, options, k) /\ Registers(c, TRUE)
  BY <1>1, <1>2, LoadedSeen
<1>3. CASE ~current.loaded /\ NotLoaded(e, options, k) /\ UNCHANGED clients
  <2>1. current.loaded = FALSE
    BY <1>3, SMT DEF AgentTypeOK
  <2>2. QED
    BY <1>3, <2>1, LoadedSeen, NothingSeen
<1>4. CASE (clients # {} \/ current.loaded) /\ Registers(c, current.loaded) /\ UNCHANGED current
  <2>1. current.loaded \in BOOLEAN
    BY SMT DEF AgentTypeOK
  <2>2. QED
    BY <1>1, <1>4, <2>1
<1>5. QED
  BY <1>2, <1>3, <1>4 DEF ConnectTo

\* A client goes: the engine with the last one, and with a session its
\* recognition.
LEMMA DepartureSeen ==
    ASSUME AgentTypeOK, NEW c \in App \cup Menu, Disconnect(c)
    PROVE  EngineProvided
<1>1. clients' = clients \ {c} /\ (Service!Unused' <=> clients' = {})
  BY DEF AgentTypeOK, Disconnect, Service!Unused
<1>2. Unload => Service!Unloads
  <2>1. Unload => current'.loaded = FALSE
    BY SMT DEF AgentTypeOK, Unload
  <2>2. QED
    BY <2>1 DEF Unload, Service!Unloads
<1>3. CASE c \in App
  <2>1. c \in Sessions
    BY <1>3, ClientAssumption DEF Disconnect, Sessions
  <2>2. job' = JobWithout(c) => JobSession' \in {JobSession, NULL}
    BY DEF JobWithout, JobSession
  <2>3. Service!SessionLeaves(c)
    <3>1. Sessions' = Sessions \ {c} /\ Menus' = Menus
      BY <1>1, <1>3, ClientKinds DEF Sessions, Menus
    <3>2. CASE clients' = {}
      BY <1>1, <1>2, <2>1, <3>1, <3>2
         DEF Disconnect, Sessions, Menus, Service!SessionLeaves
    <3>3. CASE clients' # {} /\ job' = JobWithout(c) /\ UNCHANGED current
      BY <1>1, <2>1, <2>2, <3>1, <3>3
         DEF Sessions, Menus, JobSession, Service!SessionLeaves
    <3>4. QED
      BY <3>2, <3>3 DEF Disconnect
  <2>4. QED
    BY <1>3, <2>3 DEF EngineProvided, Service!ServiceNext
<1>4. CASE c \in Menu
  <2>1. JobWithout(c) = job
    BY <1>4, ClientAssumption DEF AgentTypeOK, Job, JobWithout
  <2>2. Service!MenuLeaves(c)
    BY <1>1, <1>2, <1>4, <2>1, ClientKinds
       DEF Disconnect, Sessions, Menus, JobSession, Service!MenuLeaves
  <2>3. QED
    BY <1>4, <2>2 DEF EngineProvided, Service!ServiceNext
<1>5. QED
  BY <1>3, <1>4

\* A recognition begins for a session that is registered, on a loaded engine
\* that works on no other.
LEMMA StartSeen ==
    ASSUME AgentTypeOK, NEW a \in App, NEW choice, Start(a, choice)
    PROVE  EngineProvided
<1>1. current.loaded = TRUE /\ current'.loaded = TRUE
  BY SMT DEF AgentTypeOK, Start
<1>2. CASE UNCHANGED job
  BY <1>1, <1>2, NothingSeen DEF Start
<1>3. CASE job' = [app |-> a, choice |-> choice, silence |-> Wanted(choice)["silence"]]
  <2>1. JobSession = NULL /\ JobSession' \in {a, NULL}
    BY <1>3 DEF Start, JobSession
  <2>2. CASE JobSession' = a
    <3>1. Service!Begins(a)
      BY <1>1, <2>1, <2>2 DEF Start, Sessions, JobSession, Service!Begins
    <3>2. QED
      BY <3>1 DEF EngineProvided, Service!ServiceNext
  <2>3. CASE JobSession' = NULL
    BY <1>1, <2>1, <2>3 DEF Start, JobSession, EngineProvided, Service!engineUse
  <2>4. QED
    BY <2>1, <2>2, <2>3
<1>4. QED
  BY <1>2, <1>3 DEF Start

\* Another engine is set for a menu, and may not load.
LEMMA ReplacementSeen ==
    ASSUME AgentTypeOK, NEW e, SetEngine(e)
    PROVE  EngineProvided
<1>1. Menus # {} /\ UNCHANGED clients /\ job' = NULL
  BY DEF SetEngine, MenuAsks, Menus
<1>2. current'.loaded \in BOOLEAN
  BY LoadedSeen DEF SetEngine
<1>3. Service!Replaced
  BY <1>1, <1>2 DEF Menus, Service!Replaced
<1>4. QED
  BY <1>3 DEF EngineProvided, Service!ServiceNext

\* A daemon that dies takes clients, engine and recognition with it.
LEMMA DeathSeen ==
    ASSUME Dies
    PROVE  EngineProvided
<1>1. current'.loaded = FALSE
  BY SMT DEF Dies, NoEngine, EngineAt
<1>2. Service!Dies
  BY <1>1 DEF Dies, Service!Dies, Service!Unloads
<1>3. QED
  BY <1>2 DEF EngineProvided, Service!ServiceNext

\* One that starts has loaded nothing yet.
LEMMA BootSeen ==
    ASSUME AgentTypeOK, Boot
    PROVE  EngineProvided
<1>1. current.loaded = FALSE /\ current'.loaded = FALSE
  <2>1. current.loaded \in BOOLEAN /\ (current.loaded => up) /\ ~up
    BY SMT DEF AgentTypeOK, Boot
  <2>2. NoEngine.loaded = FALSE /\ \A e : EngineAt(e, FALSE, file.options).loaded = FALSE
    BY SMT DEF NoEngine, EngineAt
  <2>3. current'.loaded = FALSE
    BY <2>2 DEF Boot
  <2>4. QED
    BY <2>1, <2>3
<1>2. QED
  BY <1>1, NothingSeen DEF Boot, userVars

\* Every step of the agent keeps the promise, or is none of the clients' matter.
LEMMA StepProvides ==
    ASSUME AgentTypeOK, [AgentNext]_agentVars
    PROVE  EngineProvided
<1>1. CASE Boot
  BY <1>1, BootSeen
<1>2. CASE Crash \/ CrashInSave
  BY <1>2, DeathSeen DEF Crash, CrashInSave
<1>3. CASE BootFails \/ GetEngineList \/ UNCHANGED agentVars
  BY <1>3, NothingSeen DEF BootFails, GetEngineList, agentVars, engineVars, userVars
<1>4. CASE Finish
  <2>1. Service!Ends
    BY <1>4 DEF Finish, engineVars, Service!Ends
  <2>2. QED
    BY <2>1 DEF EngineProvided, Service!ServiceNext
<1>5. ASSUME NEW e \in Engine, Install(e) \/ Remove(e) PROVE EngineProvided
  BY <1>5, NothingSeen DEF Install, Remove, engineVars, userVars
<1>6. ASSUME NEW e \in Engine, SetEngine(e) PROVE EngineProvided
  BY <1>6, ReplacementSeen
<1>7. ASSUME NEW c \in App \cup Menu, Connect(c) PROVE EngineProvided
  BY <1>7, ArrivalSeen DEF Connect
<1>8. ASSUME NEW c \in App \cup Menu, Disconnect(c) PROVE EngineProvided
  BY <1>8, DepartureSeen
<1>9. ASSUME NEW a \in App, NEW choice \in Choices, Start(a, choice) PROVE EngineProvided
  BY <1>9, StartSeen
<1>10. ASSUME NEW o \in Option, NEW v \in 0..1, SetOption(o, v) PROVE EngineProvided
  BY <1>10, NothingSeen DEF SetOption, userVars
<1>11. ASSUME NEW l \in Language, SetLanguage(l) PROVE EngineProvided
  BY <1>11, NothingSeen DEF SetLanguage, userVars
<1>12. QED
  BY <1>1, <1>2, <1>3, <1>4, <1>5, <1>6, <1>7, <1>8, <1>9, <1>10, <1>11 DEF AgentNext

\* Whatever engines come and go, fail to load, are replaced or lost with the
\* daemon, clients have the one engine SttEngineService promises.
THEOREM EngineProvidedAsPromised == AgentSpec => ProvidesEngine
<1>1. AgentInit => Service!ServiceInit
  BY SMT DEF AgentInit, NoEngine, EngineAt, Service!ServiceInit, Service!Unused
<1>2. AgentInv /\ [AgentNext]_agentVars => [Service!ServiceNext]_(Service!engineUse)
  BY StepProvides DEF EngineProvided, AgentInv
<1>3. QED
  BY <1>1, <1>2, AgentInvHolds, PTL DEF AgentSpec, ProvidesEngine, Service!ServiceSpec
=============================================================================
