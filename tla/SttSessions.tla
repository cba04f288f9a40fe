------------------------------ MODULE SttSessions ------------------------------
(***************************************************************************)
(* What the daemon promises its clients, without engine, timers or         *)
(* recorder: one recognition at a time.  A member takes the service to     *)
(* record, the recording is handed over for recognition, and the service   *)
(* is released.  The microphone opens only when the service is taken and   *)
(* is closed before the holder leaves its recording phase; it may be lost  *)
(* earlier, and somebody who joins may be the one who costs it.            *)
(***************************************************************************)
CONSTANTS
    Uid,    \* the sessions a client may open
    NULL    \* nobody; not a session

VARIABLES
    members,    \* the registered sessions
    holder,     \* the session that is being served
    phase,      \* what the service is doing for it
    microphone  \* open or closed

serviceVars == <<members, holder, phase, microphone>>

FreeService == holder' = NULL /\ phase' = "free" /\ microphone' = "closed"

SessionsInit ==
    /\ members = {}
    /\ holder = NULL
    /\ phase = "free"
    /\ microphone = "closed"

Join(u) ==
    /\ u \notin members
    /\ members' = members \cup {u}
    /\ microphone' \in {microphone, "closed"}
    /\ UNCHANGED <<holder, phase>>

Leave(u) ==
    /\ u \in members
    /\ members' = members \ {u}
    /\ IF holder = u THEN FreeService ELSE UNCHANGED <<holder, phase, microphone>>

Take(u) ==
    /\ u \in members
    /\ holder = NULL
    /\ holder' = u
    /\ phase' = "recording"
    /\ microphone' = "open"
    /\ UNCHANGED members

LoseMicrophone ==
    /\ microphone = "open"
    /\ microphone' = "closed"
    /\ UNCHANGED <<members, holder, phase>>

HandOver ==
    /\ phase = "recording"
    /\ phase' = "processing"
    /\ microphone' = "closed"
    /\ UNCHANGED <<members, holder>>

Release ==
    /\ holder # NULL
    /\ FreeService
    /\ UNCHANGED members

SessionsNext ==
    \/ \E u \in Uid : Join(u) \/ Leave(u) \/ Take(u)
    \/ LoseMicrophone \/ HandOver \/ Release

SessionsSpec == SessionsInit /\ [][SessionsNext]_serviceVars
=============================================================================
