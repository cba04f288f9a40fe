------------------------------ MODULE SttClient ------------------------------
(***************************************************************************)
(* The client library inside one process: client/stt_client.c, the part    *)
(* of client/stt.c that answers the application through callbacks, and     *)
(* listener_event_callback of client/stt_dbus.c.                           *)
(*                                                                         *)
(* No callback of the application is called where its cause is found:      *)
(* each is armed as an Ecore timer of zero delay, which carries the        *)
(* address of the handle, and looks for the client again when it runs: for *)
(* the first one that has the number of the handle.  Ecore runs the timers *)
(* that were armed before a round first, then lets the listener read, when *)
(* there is anything on the socket.  The application may call any function *)
(* from its own events or from inside a callback.  The daemon is what      *)
(* SttServer and SttSystem show of it, seen from here.                     *)
(***************************************************************************)
EXTENDS SttApi, Integers, Sequences

CONSTANTS
    Handle,         \* the addresses malloc gives handles; a freed one is reused
    MaxHandle,      \* g_max_handle
    Offered,        \* the callbacks the application has
    MaxAge,         \* bound on the creations a handle is kept over
    MaxTimers,      \* bound on the timers that are armed
    MaxUnread,      \* bound on the messages that are unread
    Trouble,        \* what may go wrong with the daemon
    NULL

Callback == {"result", "partial", "state", "error"}

ASSUME ClientAssumption ==
    /\ MaxHandle \in Nat \ {0}
    /\ MaxAge \in Nat /\ MaxTimers \in Nat /\ MaxUnread \in Nat
    /\ Offered \subseteq Callback
    /\ Trouble \subseteq {"late answer", "lost result", "daemon dies"}
    /\ NULL \notin Handle

VARIABLES
    allocated,  \* g_allocated_handle
    client,     \* what is at each address: the handle and its stt_client_s
    due,        \* the timers of this round of the main loop that have not run
    later,      \* the timers armed in this round
    running,    \* the callback the application is in
    stopped,    \* the process spins in stt_client_destroy, or its heap is broken
    sessions,   \* the daemon's session of each handle number
    up,         \* the daemon runs
    inbox,      \* what the listener has not been given
    parsed      \* how many of them libdbus has taken off the socket already

clientVars ==
    <<allocated, client, due, later, running, stopped, sessions, up, inbox, parsed>>

Number == 1..MaxHandle
Heap == {"none", "held", "freed"}
Timer == [cb : Callback \cup {"connect"}, stt : Handle]
Message == [kind : {"texts", "no texts", "partial", "error", "processing", "ready"},
            uid : Number]

\* The handle at an address and its stt_client_s.  "age" is how many handles
\* were created since this one, so that the eldest is first in g_client_list,
\* and "told" the state the application knows of from its state callback.
Client ==
    [number : 0..MaxHandle, state : HandleState, callbacks : SUBSET Callback,
     strings : Heap, list : Heap, partial : Heap,
     age : Nat, told : HandleState]

Freed ==
    [number |-> 0, state |-> "created", callbacks |-> {},
     strings |-> "none", list |-> "none", partial |-> "none",
     age |-> 0, told |-> "created"]

Live == {h \in Handle : client[h].number # 0}

\* stt_client_get and stt_client_get_by_uid: looked for with the number of h,
\* the list shows the client of g first.
Finds(h, g) ==
    /\ h \in Live /\ g \in Live
    /\ client[g].number = client[h].number
    /\ \A k \in Live : client[k].number = client[h].number => client[k].age <= client[g].age

None == [cb |-> "none", stt |-> NULL]
TimerOf(cb, h) == [cb |-> cb, stt |-> h]
Armed == {due[i] : i \in DOMAIN due} \cup {later[i] : i \in DOMAIN later}

ClientInit ==
    /\ allocated = 0
    /\ client = [h \in Handle |-> Freed]
    /\ due = <<>> /\ later = <<>>
    /\ running = None
    /\ stopped = FALSE
    /\ sessions = [n \in Number |-> "absent"]
    /\ up = FALSE
    /\ inbox = <<>> /\ parsed = 0

\* ecore_timer_add(0, ...) outside of the listener.
Arm(cb, h) ==
    /\ Len(due) + Len(later) < MaxTimers
    /\ later' = Append(later, TimerOf(cb, h))

\* dbus_connection_send_with_reply_and_block reads until it has its answer, and
\* queues what came before it.
Blocks == parsed' = Len(inbox)

-----------------------------------------------------------------------------
(* The application.                                                        *)

\* Mutants of NextNumber: the wrap leaves the last number out, or never comes.
WrapsEarly(n) == IF n + 1 >= MaxHandle THEN 1 ELSE n + 1

NeverWraps(n) == n + 1

NextNumber(n) == IF n + 1 > MaxHandle THEN 1 ELSE n + 1

\* The numbers come round after MaxHandle creations, and nobody looks for the
\* ones in use.
Create(h) ==
    /\ ~stopped
    /\ h \notin Live
    /\ \A g \in Live : client[g].age < MaxAge
    /\ allocated' = NextNumber(allocated)
    /\ client' = [g \in Handle |->
            IF g = h THEN [Freed EXCEPT !.number = allocated']
            ELSE IF g \in Live THEN [client[g] EXCEPT !.age = @ + 1]
            ELSE client[g]]
    /\ UNCHANGED <<due, later, running, stopped, sessions, up, inbox, parsed>>

\* What stt_dbus_request_finalize leaves of the daemon's session.
Finalized(g) ==
    IF up THEN [sessions EXCEPT ![client[g].number] = "absent"] ELSE sessions

\* In each of the calls h is the handle passed and g the one whose client it
\* finds.  In a callback of that client stt_client_destroy waits for it to
\* end.  It frees the client it finds and the handle passed, so that the list
\* goes on naming a freed handle when they do not belong together: what the
\* process does from there is not followed.  The connection is closed with the
\* last handle.
Destroy(h, g) ==
    /\ ~stopped
    /\ Finds(h, g)
    /\ sessions' = IF client[g].state = "created" THEN sessions ELSE Finalized(g)
    /\ client' = [client EXCEPT ![g] = Freed]
    /\ stopped' = (running.stt = g \/ h # g)
    /\ IF Live = {g}
       THEN inbox' = <<>> /\ parsed' = 0
       ELSE /\ IF client[g].state = "created" THEN UNCHANGED parsed ELSE Blocks
            /\ UNCHANGED inbox
    /\ UNCHANGED <<allocated, due, later, running, up>>

\* stt_set_..._cb and stt_unset_..._cb.
SetCallback(h, g, cb) ==
    /\ ~stopped
    /\ Finds(h, g)
    /\ client[g].state = "created"
    /\ \E K \in {client[g].callbacks \cup {cb}, client[g].callbacks \ {cb}} :
            client' = [client EXCEPT ![g].callbacks = K,
                           ![g].told = IF cb = "state" THEN "created" ELSE @]
    /\ UNCHANGED <<allocated, due, later, running, stopped, sessions, up, inbox, parsed>>

Prepare(h, g) ==
    /\ ~stopped
    /\ Finds(h, g)
    /\ client[g].state = "created"
    /\ Arm("connect", h)
    /\ UNCHANGED <<allocated, client, due, running, stopped, sessions, up, inbox, parsed>>

Unprepare(h, g) ==
    /\ ~stopped
    /\ Finds(h, g)
    /\ client[g].state = "ready"
    /\ sessions' = Finalized(g)
    /\ Blocks
    /\ client' = [client EXCEPT ![g].state = "created"]
    /\ Arm("state", h)
    /\ UNCHANGED <<allocated, due, running, stopped, up, inbox>>

\* Mutant of Grantable: a start does not look at the other sessions.
GrantsBesideOthers(g, op) ==
    LET s == sessions[client[g].number]
    IN  CASE op = "start"  -> s = "ready"
          [] op = "stop"   -> s = "recording"
          [] op = "cancel" -> s \in {"recording", "processing"}

\* What the daemon's session must be for it to grant a request; there is one
\* microphone and one engine.
Grantable(g, op) ==
    LET s == sessions[client[g].number]
    IN  CASE op = "start"  -> /\ s = "ready"
                              /\ \A n \in Number :
                                    sessions[n] \notin {"recording", "processing"}
          [] op = "stop"   -> s = "recording"
          [] op = "cancel" -> s \in {"recording", "processing"}

\* stt_start, stt_stop and stt_cancel, granted; "late" when the answer came
\* after g_waiting_time, so that the function returned an error.
Call(h, g, op, late) ==
    /\ ~stopped
    /\ Finds(h, g)
    /\ client[g].state \in CallableIn[op]
    /\ up /\ Grantable(g, op)
    /\ sessions' = [sessions EXCEPT ![client[g].number] = Reached[op]]
    /\ Blocks
    /\ IF late
       THEN UNCHANGED <<client, later>>
       ELSE /\ client' = [client EXCEPT ![g].state = Reached[op]]
            /\ Arm("state", h)
    /\ UNCHANGED <<allocated, due, running, stopped, up, inbox>>

\* The same, refused, and what asks the daemon for the languages, the default
\* one, the volume or whether partial results are supported.
Ask(h) ==
    /\ ~stopped
    /\ h \in Live
    /\ Blocks
    /\ UNCHANGED <<allocated, client, due, later, running, stopped, sessions, up, inbox>>

-----------------------------------------------------------------------------
(* Rounds of the main loop.                                                *)

\* What a callback was handed is freed after it, also when the callback was not
\* registered any more, and the pointers to it are kept.
Freeing(heap) == IF heap = "none" THEN "none" ELSE "freed"

Released(c, cb) ==
    CASE cb = "result"  -> [c EXCEPT !.strings = Freeing(@), !.list = Freeing(@)]
      [] cb = "partial" -> [c EXCEPT !.partial = Freeing(@)]
      [] OTHER -> c

FreesAgain(c, cb) ==
    \/ cb = "result" /\ "freed" \in {c.strings, c.list}
    \/ cb = "partial" /\ c.partial = "freed"

\* A free of what was freed before goes unnoticed or aborts the process.
Release(g, cb) ==
    /\ client' = [client EXCEPT ![g] = Released(@, cb)]
    /\ stopped' \in {FALSE, FreesAgain(client[g], cb)}

\* The application's callback returns.
Return ==
    /\ ~stopped
    /\ running # None
    /\ Release(running.stt, running.cb)
    /\ running' = None
    /\ UNCHANGED <<allocated, due, later, sessions, up, inbox, parsed>>

\* stt_dbus_request_initialize: its outcome for the client and the session.
\* After a late answer the retries are refused, as any second one.
Connected(g, outcome) ==
    LET n == client[g].number
    IN  /\ (sessions[n] # "absent") => outcome = "timed out"
        /\ (outcome = "timed out" /\ sessions[n] = "absent") => "late answer" \in Trouble
        /\ sessions' = IF sessions[n] = "absent" /\ outcome # "no engine"
                       THEN [sessions EXCEPT ![n] = "ready"] ELSE sessions
        /\ client' = IF outcome = "granted"
                     THEN [client EXCEPT ![g].state = "ready"] ELSE client

\* Mutant of RunConnect: a connect that fails tells nobody.
FailsInSilence(h) ==
    /\ due' = Tail(due)
    /\ IF h \in Live THEN Blocks ELSE UNCHANGED parsed
    /\ IF up /\ h \in Live
       THEN \E g \in Live, outcome \in {"granted", "no engine", "timed out"} :
                /\ Finds(h, g)
                /\ Connected(g, outcome)
                /\ later' = IF outcome = "granted"
                            THEN Append(later, TimerOf("state", h)) ELSE later
       ELSE /\ later' = <<TimerOf("connect", h)>> \o later
            /\ UNCHANGED <<client, sessions>>

\* __stt_connect_daemon.  A daemon that does not answer hello is asked again
\* in the next round, and so it is when the handle is gone: the error code
\* returned then means "renew" to Ecore.  The client's state is not looked at.
RunConnect(h) ==
    /\ due' = Tail(due)
    /\ IF h \in Live THEN Blocks ELSE UNCHANGED parsed
    /\ IF up /\ h \in Live
       THEN \E g \in Live, outcome \in {"granted", "no engine", "timed out"} :
                /\ Finds(h, g)
                /\ Connected(g, outcome)
                /\ later' = Append(later,
                        TimerOf(IF outcome = "granted" THEN "state" ELSE "error", h))
       ELSE /\ later' = <<TimerOf("connect", h)>> \o later
            /\ UNCHANGED <<client, sessions>>

\* The callback of the client is called.
Notify(cb, g) ==
    /\ running' = TimerOf(cb, g)
    /\ client' = IF cb = "state"
                 THEN [client EXCEPT ![g].told = client[g].state] ELSE client
    /\ UNCHANGED stopped

\* Mutant of RunNotify: a notification without a callback does nothing.
KeepsUnregistered(cb, h) ==
    /\ due' = Tail(due)
    /\ \/ \E g \in Live : Finds(h, g) /\ cb \in client[g].callbacks /\ Notify(cb, g)
       \/ /\ \A g \in Live : Finds(h, g) => cb \notin client[g].callbacks
          /\ UNCHANGED <<client, running, stopped>>
    /\ UNCHANGED <<later, sessions>>

\* __stt_notify_result, __stt_notify_partial_result, __stt_notify_error and
\* __stt_notify_state_changed, up to the call of the callback.
RunNotify(cb, h) ==
    /\ due' = Tail(due)
    /\ \/ \E g \in Live : Finds(h, g) /\ cb \in client[g].callbacks /\ Notify(cb, g)
       \/ \E g \in Live : /\ Finds(h, g) /\ cb \notin client[g].callbacks
                          /\ Release(g, cb)
                          /\ UNCHANGED running
       \/ h \notin Live /\ UNCHANGED <<client, running, stopped>>
    /\ UNCHANGED <<later, sessions>>

RunTimer ==
    /\ ~stopped /\ running = None
    /\ due # <<>>
    /\ LET t == Head(due)
       IN  \/ t.cb = "connect" /\ RunConnect(t.stt) /\ UNCHANGED <<running, stopped>>
           \/ t.cb # "connect" /\ RunNotify(t.cb, t.stt) /\ UNCHANGED parsed
    /\ UNCHANGED <<allocated, up, inbox>>

\* Mutants of TakeResult: the strings are only taken the first time, a result
\* without texts is nothing to notify, and the state is told with the result.
TakesOnlyTheFirst(h, texts) ==
    LET c == client[h]
        wanted == "result" \in c.callbacks
        first == wanted /\ c.strings = "none"
    IN  /\ client' = [client EXCEPT ![h] =
                [c EXCEPT !.state = "ready",
                          !.strings = IF first THEN "held" ELSE @,
                          !.list = IF first /\ texts THEN "held" ELSE @]]
        /\ due' = later \o (IF wanted THEN <<TimerOf("result", h)>> ELSE <<>>)
                        \o (IF "state" \in c.callbacks
                            THEN <<TimerOf("state", h)>> ELSE <<>>)

NotifiesOnlyTexts(h, texts) ==
    /\ client' = [client EXCEPT ![h].state = "ready"]
    /\ due' = later \o (IF texts THEN <<TimerOf("result", h)>> ELSE <<>>)

TellsStateWithResult(h, texts) ==
    LET c == client[h]
        wanted == "result" \in c.callbacks
    IN  /\ client' = [client EXCEPT ![h] =
                [c EXCEPT !.state = "ready",
                          !.strings = IF wanted THEN "held" ELSE @,
                          !.list = IF wanted /\ texts THEN "held" ELSE @]]
        /\ due' = later \o (IF wanted THEN <<TimerOf("result", h), TimerOf("state", h)>>
                            ELSE <<>>)

\* __stt_cb_result: the handle's strings, and its state whatever it was.
TakeResult(h, texts) ==
    LET c == client[h]
        wanted == "result" \in c.callbacks
    IN  /\ client' = [client EXCEPT ![h] =
                [c EXCEPT !.state = "ready",
                          !.strings = IF wanted THEN "held" ELSE @,
                          !.list = IF wanted /\ texts THEN "held" ELSE @]]
        /\ due' = later \o (IF wanted THEN <<TimerOf("result", h)>> ELSE <<>>)
                        \o (IF "state" \in c.callbacks
                            THEN <<TimerOf("state", h)>> ELSE <<>>)

\* __stt_cb_partial_result
TakePartial(h) ==
    LET taken == client[h].state # "ready" /\ "partial" \in client[h].callbacks
    IN  /\ client' = IF taken THEN [client EXCEPT ![h].partial = "held"] ELSE client
        /\ due' = later \o (IF taken THEN <<TimerOf("partial", h)>> ELSE <<>>)

\* __stt_cb_error
TakeError(h) ==
    /\ due' = later \o (IF "error" \in client[h].callbacks
                        THEN <<TimerOf("error", h)>> ELSE <<>>)
    /\ UNCHANGED client

\* __stt_cb_set_state, whatever the handle has done since.
TakeState(h, s) ==
    /\ client' = [client EXCEPT ![h].state = s]
    /\ due' = later \o (IF client[h].state # s THEN <<TimerOf("state", h)>> ELSE <<>>)

Take(h, kind) ==
    \/ kind = "texts" /\ TakeResult(h, TRUE)
    \/ kind = "no texts" /\ TakeResult(h, FALSE)
    \/ kind = "partial" /\ TakePartial(h)
    \/ kind = "error" /\ TakeError(h)
    \/ kind \in {"processing", "ready"} /\ TakeState(h, kind)

RoundIsOver == running = None /\ due = <<>>

\* The branches of listener_event_callback; a client is looked for by its uid.
Handled(m) ==
    \/ \E g \in Live : client[g].number = m.uid /\ Finds(g, g) /\ Take(g, m.kind)
    \/ /\ \A g \in Live : client[g].number # m.uid
       /\ due' = later
       /\ UNCHANGED client

\* listener_event_callback, called when there is something on the socket.  With
\* nothing queued dbus_connection_read_write_dispatch reads some of it, and the
\* first message is handled; otherwise it dispatches the first that is queued,
\* which nobody has registered for, and the next that is queued is handled.
Read ==
    /\ ~stopped
    /\ RoundIsOver
    /\ parsed < Len(inbox)
    /\ \/ /\ parsed = 0
          /\ \E k \in 1..Len(inbox) : parsed' = k - 1
          /\ Handled(Head(inbox)) /\ inbox' = Tail(inbox)
       \/ /\ parsed = 1
          /\ due' = later /\ UNCHANGED client
          /\ inbox' = Tail(inbox) /\ parsed' = 0
       \/ /\ parsed > 1
          /\ Handled(inbox[2])
          /\ inbox' = Tail(Tail(inbox)) /\ parsed' = parsed - 2
    /\ later' = <<>>
    /\ UNCHANGED <<allocated, running, stopped, sessions, up>>

\* A round in which there is nothing to read.
Round ==
    /\ ~stopped
    /\ RoundIsOver
    /\ parsed = Len(inbox) /\ later # <<>>
    /\ due' = later /\ later' = <<>>
    /\ UNCHANGED <<allocated, client, running, stopped, sessions, up, inbox, parsed>>

-----------------------------------------------------------------------------
(* The daemon.                                                             *)

\* A message to a process that has closed its connection is dropped.
Sends(kind, n) ==
    /\ Len(inbox) < MaxUnread
    /\ inbox' = IF Live = {} THEN inbox ELSE Append(inbox, [kind |-> kind, uid |-> n])

\* __stop_by_silence
Silence(n) ==
    /\ sessions[n] = "recording"
    /\ sessions' = [sessions EXCEPT ![n] = "processing"]
    /\ Sends("processing", n)
    /\ UNCHANGED <<allocated, client, due, later, running, stopped, up, parsed>>

\* The engine's result, its failure or the time-out for it; "error" when the
\* result could not be sent.
Recognize(n, kind) ==
    /\ sessions[n] = "processing"
    /\ kind = "error" => "lost result" \in Trouble
    /\ sessions' = [sessions EXCEPT ![n] = "ready"]
    /\ Sends(kind, n)
    /\ UNCHANGED <<allocated, client, due, later, running, stopped, up, parsed>>

Partial(n) ==
    /\ sessions[n] \in {"recording", "processing"}
    /\ Sends("partial", n)
    /\ UNCHANGED <<allocated, client, due, later, running, stopped, sessions, up, parsed>>

\* __check_recording_state asks the handle, which answers from its main loop;
\* a message that was queued is dispatched in the round before the question is
\* read.  (Nor is it followed what happens between the rounds it takes when more
\* of them are.)
Check(n) ==
    /\ sessions[n] = "recording"
    /\ Len(inbox) <= 1 /\ parsed = Len(inbox)
    /\ ~stopped /\ running = None
    /\ \E g \in Live :
        /\ client[g].number = n /\ Finds(g, g)
        /\ \/ client[g].state = "ready" /\ inbox' = <<>>
           \/ client[g].state = "processing"
              /\ inbox' = <<[kind |-> "ready", uid |-> n]>>
    /\ parsed' = 0
    /\ sessions' = [sessions EXCEPT ![n] = "ready"]
    /\ UNCHANGED <<allocated, client, due, later, running, stopped, up>>

Start ==
    /\ ~up
    /\ up' = TRUE
    /\ UNCHANGED <<allocated, client, due, later, running, stopped, sessions, inbox, parsed>>

Die ==
    /\ "daemon dies" \in Trouble
    /\ up
    /\ up' = FALSE
    /\ sessions' = [n \in Number |-> "absent"]
    /\ UNCHANGED <<allocated, client, due, later, running, stopped, inbox, parsed>>

-----------------------------------------------------------------------------
MainLoop == Return \/ RunTimer \/ Read \/ Round

ApplicationNext ==
    \/ \E h \in Handle : Create(h) \/ Ask(h)
    \/ \E h, g \in Handle :
        \/ Destroy(h, g) \/ Prepare(h, g) \/ Unprepare(h, g)
        \/ \E cb \in Offered : SetCallback(h, g, cb)
        \/ \E op \in {"start", "stop", "cancel"}, late \in BOOLEAN :
                (late => "late answer" \in Trouble) /\ Call(h, g, op, late)

DaemonNext ==
    \/ \E n \in Number :
        \/ Silence(n) \/ Partial(n) \/ Check(n)
        \/ \E kind \in {"texts", "no texts", "error"} : Recognize(n, kind)
    \/ Start \/ Die

ClientNext == MainLoop \/ ApplicationNext \/ DaemonNext

ClientSpec == ClientInit /\ [][ClientNext]_clientVars

\* Ecore goes round, and D-Bus starts the daemon when it is greeted.
FairClientSpec ==
    /\ ClientSpec
    /\ WF_clientVars(MainLoop)
    /\ WF_clientVars(Start)

-----------------------------------------------------------------------------
(* Properties.                                                             *)

\* Every variable has its type; a timer that waits is of a handle that was
\* created, and the callback the application is in is of one that lives.
ClientTypeOK ==
    /\ allocated \in 0..MaxHandle
    /\ client \in [Handle -> Client]
    /\ due \in Seq(Timer) /\ later \in Seq(Timer)
    /\ running \in [cb : Callback, stt : Handle] \cup {None}
    /\ running # None => (running.stt \in Live \/ stopped)
    /\ stopped \in BOOLEAN /\ up \in BOOLEAN
    /\ sessions \in [Number -> {"absent", "ready", "recording", "processing"}]
    /\ inbox \in Seq(Message) /\ parsed \in 0..Len(inbox)

\* Two handles have one number, which is the uid the daemon knows the
\* application by, only when one of them has been kept over MaxHandle creations
\* or more: then messages for one go to the other, and a destroy of one frees
\* the client of the other (stt_client.c:29).
NumbersComeRound ==
    \A g, h \in Live :
        g # h /\ client[g].number = client[h].number /\ client[g].age <= client[h].age
            => client[h].age - client[g].age >= MaxHandle

\* An application that has a state callback knows the state of its client, or
\* a notification is on its way that will find the client: a change the daemon
\* caused is not missed, nor one of the application's that comes in between,
\* although the notification says what the state is when it runs (stt.c:742).
ApplicationIsTold ==
    ~stopped => \A g \in Live :
        "state" \in client[g].callbacks /\ client[g].told # client[g].state
            => \E h \in Live : Finds(h, g) /\ TimerOf("state", h) \in Armed

\* No other handle has the number of this one.
Alone(g) == \A h \in Live : client[h].number = client[g].number => h = g

\* What a result or a partial result is handed to the application in has not
\* been freed: the strings are the handle's, one set for all notifications
\* that are pending (stt.c:695, stt.c:820).  A handle that shares its number may
\* get the notification another one has left at an address.
StringsAreNotFreed ==
    running # None /\ ~stopped /\ Alone(running.stt) =>
        /\ running.cb = "result" => client[running.stt].strings # "freed"
        /\ running.cb = "partial" => client[running.stt].partial # "freed"

\* Nothing of a result stays with the handle but what is about to be handed
\* over, or freed if the application has taken its callback away: a result is
\* neither lost nor leaked by what runs between its two timers (stt.c:695).
NothingIsKeptBack ==
    LET Pending(cb, h) == TimerOf(cb, h) \in Armed \/ running = TimerOf(cb, h)
    IN  ~stopped => \A h \in Live :
            /\ "held" \in {client[h].strings, client[h].list} => Pending("result", h)
            /\ client[h].partial = "held" => Pending("partial", h)

\* The list of texts the result callback is handed has not been freed: "Free
\* result" (stt.c:714) is done with it once.
ResultIsFreedOnce ==
    running # None /\ ~stopped /\ running.cb = "result" =>
        client[running.stt].list # "freed"

\* stt_prepare is answered once the daemon keeps running: the client leaves
\* CREATED or an error is on its way to the application, unless it destroys
\* the handle or stops altogether (stt.c:112).
PrepareIsAnswered ==
    \A h \in Handle :
        TimerOf("connect", h) \in Armed /\ []up ~>
            \/ stopped
            \/ h \notin Live \/ \E g \in Live : Finds(h, g) /\ client[g].state # "created"
            \/ TimerOf("error", h) \in Armed

\* A result for the client of g is message i of what is unread.
ResultAt(i, g) ==
    /\ i \in DOMAIN inbox
    /\ inbox[i].kind \in {"texts", "no texts"} /\ inbox[i].uid = client[g].number
    /\ Finds(g, g)

\* A result that is next on the socket while nothing is queued before it is
\* handed to the application, unless a call of the application takes it off
\* the socket first, or it takes its callback away, destroys the handle or
\* stops altogether: neither the round that reads it nor the deferred timer
\* loses it, although both look for the client anew (stt.c:695, stt.c:766).
\* One that is queued may be dispatched to nobody (stt_dbus.c:47).
ResultIsHandedOver ==
    \A g \in Handle :
        ResultAt(1, g) /\ parsed = 0 ~>
            \/ running = TimerOf("result", g)
            \/ \E i \in 1..parsed : ResultAt(i, g)
            \/ stopped \/ g \notin Live \/ "result" \notin client[g].callbacks

\* The daemon that the handles see is, until it dies, the one of SttSessions,
\* which SttServer is shown to implement: it serves one session at a time, also
\* when a call came too late and was granted all the same.
Busy == {n \in Number : sessions[n] \in {"recording", "processing"}}

Holder == IF Busy = {} THEN 0 ELSE CHOOSE n \in Busy : TRUE

Daemon == INSTANCE SttSessions WITH
    Uid <- Number, NULL <- 0,
    members <- {n \in Number : sessions[n] # "absent"},
    holder <- Holder,
    phase <- IF Busy = {} THEN "free" ELSE sessions[Holder],
    microphone <- IF \E n \in Number : sessions[n] = "recording"
                  THEN "open" ELSE "closed"

DaemonServesSessions ==
    /\ Daemon!SessionsInit
    /\ [][Daemon!SessionsNext \/ ~up']_(Daemon!serviceVars)
=============================================================================
