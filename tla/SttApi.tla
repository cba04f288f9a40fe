-------------------------------- MODULE SttApi --------------------------------
(***************************************************************************)
(* The state of an application's handle, stt_client_s.current_state, and   *)
(* what the functions of client/stt.c and the daemon's messages make of    *)
(* it.  The functions are named after the D-Bus request they make:         *)
(* stt_unprepare is "finalize".                                          *)
(***************************************************************************)

HandleState == {"created", "ready", "recording", "processing"}

\* The states in which a function does not return STT_ERROR_INVALID_STATE.
\* __stt_connect_daemon, which begins with "hello" and goes on with
\* "initialize", runs later than stt_prepare looked, and looks at nothing.
CallableIn ==
    [hello    |-> HandleState,
     finalize |-> {"ready"},
     destroy  |-> HandleState,
     start    |-> {"ready"},
     stop     |-> {"recording"},
     cancel   |-> {"recording", "processing"}]

Op == DOMAIN CallableIn
Request == Op \cup {"initialize"}

\* The state a request that is granted leads to.
Reached ==
    [initialize |-> "ready",
     finalize   |-> "created",
     destroy    |-> "destroyed",
     start      |-> "recording",
     stop       |-> "processing",
     cancel     |-> "ready"]

\* Mutant of StateAfter: a call that failed counts as done.
StateAfterAnyway(op, s, granted) == IF op # "hello" THEN Reached[op] ELSE s

\* Mutant of StateAfter: __stt_connect_daemon leaves the handle CREATED.
ConnectsInVain(op, s, granted) ==
    IF op \in {"finalize", "destroy"} \/ (op \in {"start", "stop", "cancel"} /\ granted)
    THEN Reached[op] ELSE s

\* stt_unprepare and stt_destroy ignore what the daemon answers; the others
\* stay where they are unless it grants the request.
StateAfter(op, s, granted) ==
    IF op # "hello" /\ (granted \/ op \in {"finalize", "destroy"})
    THEN Reached[op] ELSE s

\* __stt_cb_set_state and __stt_cb_result take the state as it comes, whatever
\* the handle's own state is.
Told(message, s) ==
    IF s \in HandleState /\ message.state \in HandleState THEN message.state ELSE s
=============================================================================
