--------------------------- MODULE SttEngineService ---------------------------
(***************************************************************************)
(* What the engine agent promises the session manager, and the session     *)
(* manager takes for granted: one engine for all clients.  It is loaded    *)
(* for the first of them and unloaded with the last; a session is let in   *)
(* only to an engine that is loaded; and it works on one recognition at a  *)
(* time, for a session that is registered when it begins.  Which engine it *)
(* is, its options and its language are SttEngineAgent's; what a           *)
(* recognition goes through is SttServer's.                                *)
(***************************************************************************)
CONSTANTS
    Session,    \* the sessions an application may open
    Menu,       \* processes of the settings menu
    NULL        \* no recognition

VARIABLES
    sessions,   \* the registered sessions
    menus,      \* the registered menus
    loaded,     \* an engine is loaded
    job         \* the session whose recognition it is working on

engineUse == <<sessions, menus, loaded, job>>

\* sttd_client_get_ref_count() is zero.
Unused == sessions = {} /\ menus = {}

ServiceInit == Unused /\ ~loaded /\ job = NULL

Unloads == ~loaded' /\ job' = NULL

\* A session that comes first has an engine loaded; one that comes when the
\* engine was lost is turned away.
SessionArrives(c) ==
    /\ c \notin sessions
    /\ loaded \/ Unused
    /\ loaded'
    /\ sessions' = sessions \cup {c}
    /\ UNCHANGED <<menus, job>>

\* A menu is let in all the same: it may set another engine.
MenuArrives(p) ==
    /\ p \notin menus
    /\ loaded' = (loaded \/ Unused)
    /\ menus' = menus \cup {p}
    /\ UNCHANGED <<sessions, job>>

\* The first session is turned away although the engine is loaded: the engine
\* stays, for the next one.
LoadsInVain ==
    /\ Unused
    /\ loaded'
    /\ UNCHANGED <<sessions, menus, job>>

\* Who leaves may end the recognition; nobody left, the engine goes.
SessionLeaves(c) ==
    /\ c \in sessions
    /\ sessions' = sessions \ {c}
    /\ \/ Unused' /\ Unloads
       \/ ~Unused' /\ UNCHANGED loaded /\ job' \in {job, NULL}
    /\ UNCHANGED menus

\* A menu takes nothing from the sessions, registered or not.
MenuLeaves(p) ==
    /\ menus' = menus \ {p}
    /\ \/ Unused' /\ Unloads
       \/ ~Unused' /\ UNCHANGED <<loaded, job>>
    /\ UNCHANGED sessions

Begins(c) ==
    /\ c \in sessions
    /\ loaded
    /\ job = NULL
    /\ job' = c
    /\ UNCHANGED <<sessions, menus, loaded>>

Ends ==
    /\ job' = NULL
    /\ UNCHANGED <<sessions, menus, loaded>>

\* A menu sets another engine, which may not load.
Replaced ==
    /\ menus # {}
    /\ loaded' \in BOOLEAN
    /\ job' = NULL
    /\ UNCHANGED <<sessions, menus>>

\* A session that comes finds that the engine's audio type is unknown: the
\* engine is unloaded, whoever uses it.
Rejects(c) ==
    /\ c \notin sessions
    /\ Unloads
    /\ UNCHANGED <<sessions, menus>>

\* The daemon dies.
Dies == sessions' = {} /\ menus' = {} /\ Unloads

ServiceNext ==
    \/ \E c \in Session : \/ SessionArrives(c) \/ SessionLeaves(c)
                          \/ Begins(c) \/ Rejects(c)
    \/ \E p \in Menu : MenuArrives(p) \/ MenuLeaves(p)
    \/ LoadsInVain \/ Ends \/ Replaced \/ Dies

ServiceSpec == ServiceInit /\ [][ServiceNext]_engineUse
=============================================================================
