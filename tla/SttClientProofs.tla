--------------------------- MODULE SttClientProofs ---------------------------
(***************************************************************************)
(* Theorems about SttClient: the types, when two handles get one number,   *)
(* that the application is told of every state, that what it is handed is  *)
(* not freed and not kept back, and that the daemon is the one of          *)
(* SttSessions.                                                            *)
(***************************************************************************)
EXTENDS SttClient, TLAPS

-----------------------------------------------------------------------------
(* Timers in a sequence.                                                   *)

Waits(t, s) == \E i \in DOMAIN s : s[i] = t

LEMMA WaitsInArmed ==
    \A t : t \in Armed <=> Waits(t, due) \/ Waits(t, later)
BY DEF Armed, Waits

LEMMA WaitsInTail ==
    ASSUME NEW s \in Seq(Timer), s # <<>>, NEW t
    PROVE  /\ Tail(s) \in Seq(Timer) /\ Head(s) \in Timer
           /\ Waits(t, s) <=> t = Head(s) \/ Waits(t, Tail(s))
<1>1. Tail(s) \in Seq(Timer) /\ Head(s) \in Timer /\ Len(s) \in Nat /\ Len(s) > 0
    OBVIOUS
<1>2. Waits(t, s) => t = Head(s) \/ Waits(t, Tail(s))
    <2>1. ASSUME NEW i \in DOMAIN s, s[i] = t, i # 1 PROVE Waits(t, Tail(s))
        <3>1. i - 1 \in DOMAIN Tail(s) /\ Tail(s)[i - 1] = s[i]
            BY <1>1, <2>1
        <3> QED BY <3>1, <2>1 DEF Waits
    <2> QED BY <2>1, <1>1 DEF Waits
<1>3. Waits(t, Tail(s)) => Waits(t, s)
    <2>1. ASSUME NEW i \in DOMAIN Tail(s), Tail(s)[i] = t PROVE Waits(t, s)
        <3>1. i + 1 \in DOMAIN s /\ s[i + 1] = Tail(s)[i]
            BY <1>1, <2>1
        <3> QED BY <3>1, <2>1 DEF Waits
    <2> QED BY <2>1 DEF Waits
<1>4. t = Head(s) => Waits(t, s)
    BY <1>1 DEF Waits
<1> QED BY <1>1, <1>2, <1>3, <1>4

LEMMA WaitsInConcat ==
    ASSUME NEW s \in Seq(Timer), NEW r \in Seq(Timer), NEW t
    PROVE  /\ s \o r \in Seq(Timer)
           /\ Waits(t, s \o r) <=> Waits(t, s) \/ Waits(t, r)
<1>1. s \o r \in Seq(Timer) /\ Len(s) \in Nat /\ Len(r) \in Nat
    OBVIOUS
<1>2. \A i \in DOMAIN s : i \in DOMAIN (s \o r) /\ (s \o r)[i] = s[i]
    BY <1>1
<1>3. \A i \in DOMAIN r : i + Len(s) \in DOMAIN (s \o r) /\ (s \o r)[i + Len(s)] = r[i]
    BY <1>1
<1>4. \A i \in DOMAIN (s \o r) : \/ i \in DOMAIN s
                                 \/ i - Len(s) \in DOMAIN r /\ (s \o r)[i] = r[i - Len(s)]
    BY <1>1
<1> QED BY <1>1, <1>2, <1>3, <1>4 DEF Waits

LEMMA WaitsInAppend ==
    ASSUME NEW s \in Seq(Timer), NEW x \in Timer, NEW t
    PROVE  /\ Append(s, x) \in Seq(Timer)
           /\ Waits(t, Append(s, x)) <=> Waits(t, s) \/ t = x
<1>1. Append(s, x) \in Seq(Timer) /\ Len(s) \in Nat
    OBVIOUS
<1>2. \A i \in DOMAIN s : i \in DOMAIN Append(s, x) /\ Append(s, x)[i] = s[i]
    BY <1>1
<1>3. Len(s) + 1 \in DOMAIN Append(s, x) /\ Append(s, x)[Len(s) + 1] = x
    BY <1>1
<1>4. \A i \in DOMAIN Append(s, x) : i \in DOMAIN s \/ i = Len(s) + 1
    BY <1>1
<1> QED BY <1>1, <1>2, <1>3, <1>4 DEF Waits

LEMMA WaitsInSmall ==
    /\ \A t : ~Waits(t, <<>>)
    /\ \A t, x : Waits(t, <<x>>) <=> t = x
    /\ <<>> \in Seq(Timer)
    /\ \A x \in Timer : <<x>> \in Seq(Timer)
BY DEF Waits

-----------------------------------------------------------------------------
(* Types.                                                                  *)

LEMMA BoundType == MaxHandle \in Nat /\ MaxHandle > 0
<1>1. MaxHandle \in Nat \ {0}
    BY ClientAssumption
<1> QED BY <1>1

LEMMA ReachedType ==
    \A op \in {"start", "stop", "cancel"} :
        Reached[op] \in {"ready", "recording", "processing"}
BY DEF Reached

LEMMA FreedType ==
    /\ Freed \in Client
    /\ Freed.number = 0 /\ Freed.state = "created" /\ Freed.told = "created"
    /\ Freed.age = 0 /\ Freed.callbacks = {}
    /\ Freed.strings = "none" /\ Freed.list = "none" /\ Freed.partial = "none"
<1>1. 0 \in 0..MaxHandle
    BY BoundType
<1>2. "none" \in Heap /\ "created" \in HandleState /\ {} \in SUBSET Callback /\ 0 \in Nat
    BY DEF Heap, HandleState
<1> QED BY <1>1, <1>2 DEF Freed, Client

\* What a record keeps when one field of it is assigned.
LEMMA ClientFields ==
    ASSUME NEW c \in Client
    PROVE  /\ c.number \in 0..MaxHandle /\ c.state \in HandleState
           /\ c.callbacks \in SUBSET Callback
           /\ c.strings \in Heap /\ c.list \in Heap /\ c.partial \in Heap
           /\ c.age \in Nat /\ c.told \in HandleState
BY DEF Client

LEMMA FieldAssigned ==
    ASSUME NEW c \in Client
    PROVE  /\ \A n \in 0..MaxHandle : [c EXCEPT !.number = n] \in Client
           /\ \A s \in HandleState : [c EXCEPT !.state = s] \in Client
           /\ \A K \in SUBSET Callback : [c EXCEPT !.callbacks = K] \in Client
           /\ \A x \in Heap : [c EXCEPT !.strings = x] \in Client
           /\ \A x \in Heap : [c EXCEPT !.list = x] \in Client
           /\ \A x \in Heap : [c EXCEPT !.partial = x] \in Client
           /\ \A n \in Nat : [c EXCEPT !.age = n] \in Client
           /\ \A s \in HandleState : [c EXCEPT !.told = s] \in Client
BY DEF Client

\* A change of state, or of what the application knows of it, is no more.
LEMMA StateAssigned ==
    ASSUME NEW c \in Client, NEW s \in HandleState
    PROVE  LET d == [c EXCEPT !.state = s]
           IN  /\ d \in Client /\ d.state = s
               /\ d.number = c.number /\ d.age = c.age
               /\ d.callbacks = c.callbacks /\ d.told = c.told
BY DEF Client

LEMMA SameHandles ==
    ASSUME NEW C \in [Handle -> Client], NEW D, NEW h \in Handle, NEW s,
           D = C \/ D = [C EXCEPT ![h].state = s] \/ D = [C EXCEPT ![h].told = s]
    PROVE  \A g \in Handle : D[g].number = C[g].number /\ D[g].age = C[g].age
BY DEF Client

LEMMA TimerType ==
    ASSUME NEW h \in Handle
    PROVE  \A cb \in Callback \cup {"connect"} : TimerOf(cb, h) \in Timer
BY DEF TimerOf, Timer

\* A step that leaves what a part of the type is about alone.
LEMMA TypedClient ==
    ASSUME ClientTypeOK, NEW h \in Handle, NEW c \in Client, c.number = client[h].number,
           client' = [client EXCEPT ![h] = c]
    PROVE  client' \in [Handle -> Client] /\ Live' = Live
<1>1. client \in [Handle -> Client]
    BY DEF ClientTypeOK
<1>2. client' \in [Handle -> Client]
    BY <1>1
<1>3. \A g \in Handle : client'[g].number = client[g].number
    BY <1>1
<1> QED BY <1>2, <1>3 DEF Live

LEMMA TypedArm ==
    ASSUME ClientTypeOK, NEW h \in Handle, NEW cb \in Callback \cup {"connect"}, Arm(cb, h)
    PROVE  later' \in Seq(Timer)
<1>1. TimerOf(cb, h) \in Timer /\ later \in Seq(Timer)
    BY TimerType DEF ClientTypeOK
<1> QED BY <1>1, WaitsInAppend DEF Arm

\* The two ways the library lets go of what a callback was handed.
LEMMA ReleasedType ==
    ASSUME NEW c \in Client, NEW cb \in Callback
    PROVE  /\ Released(c, cb) \in Client
           /\ Released(c, cb).number = c.number /\ Released(c, cb).state = c.state
           /\ Released(c, cb).told = c.told /\ Released(c, cb).callbacks = c.callbacks
           /\ Released(c, cb).age = c.age
           /\ cb # "result" => Released(c, cb).strings = c.strings
           /\ cb # "partial" => Released(c, cb).partial = c.partial
<1>1. \A x \in Heap : Freeing(x) \in Heap
    BY DEF Heap, Freeing
<1>2. c.strings \in Heap /\ c.list \in Heap /\ c.partial \in Heap
    BY ClientFields
<1>3. [c EXCEPT !.strings = Freeing(c.strings), !.list = Freeing(c.list)] \in Client
    BY <1>1, <1>2 DEF Client
<1>4. [c EXCEPT !.partial = Freeing(c.partial)] \in Client
    BY <1>1, <1>2 DEF Client
<1> QED BY <1>3, <1>4 DEF Released, Client

\* What the listener takes from a message: the client's strings and state, not
\* its number, its callbacks or what the application was told.
LEMMA TakeDoes ==
    ASSUME ClientTypeOK, NEW h \in Live, NEW kind, Take(h, kind)
    PROVE  /\ due' \in Seq(Timer)
           /\ \A t : Waits(t, later) => Waits(t, due')
           /\ \E c \in Client :
                /\ client' = [client EXCEPT ![h] = c]
                /\ c.number = client[h].number /\ c.age = client[h].age
                /\ c.callbacks = client[h].callbacks /\ c.told = client[h].told
                /\ c.state # client[h].state /\ "state" \in c.callbacks
                        => Waits(TimerOf("state", h), due')
<1>0. /\ h \in Handle /\ client[h] \in Client /\ client \in [Handle -> Client]
      /\ later \in Seq(Timer)
    BY DEF Live, ClientTypeOK
<1>t. \A cb \in Callback : <<TimerOf(cb, h)>> \in Seq(Timer) /\ <<>> \in Seq(Timer)
    BY <1>0, TimerType, WaitsInSmall
<1>c. {"result", "state", "partial", "error"} \subseteq Callback
    BY DEF Callback
<1>s. {"created", "ready", "recording", "processing"} = HandleState
    BY DEF HandleState
<1>u. client = [client EXCEPT ![h] = client[h]]
    BY <1>0
<1>1. ASSUME NEW texts \in BOOLEAN, TakeResult(h, texts)
      PROVE  /\ due' \in Seq(Timer)
             /\ \A t : Waits(t, later) => Waits(t, due')
             /\ \E c \in Client :
                  /\ client' = [client EXCEPT ![h] = c]
                  /\ c.number = client[h].number /\ c.age = client[h].age
                  /\ c.callbacks = client[h].callbacks /\ c.told = client[h].told
                  /\ c.state # client[h].state /\ "state" \in c.callbacks
                          => Waits(TimerOf("state", h), due')
    <2> DEFINE wanted == "result" \in client[h].callbacks
               r == IF wanted THEN <<TimerOf("result", h)>> ELSE <<>>
               n == IF "state" \in client[h].callbacks THEN <<TimerOf("state", h)>> ELSE <<>>
               c == [client[h] EXCEPT !.state = "ready",
                          !.strings = IF wanted THEN "held" ELSE @,
                          !.list = IF wanted /\ texts THEN "held" ELSE @]
    <2>1. c \in Client /\ c.number = client[h].number /\ c.age = client[h].age
          /\ c.callbacks = client[h].callbacks /\ c.told = client[h].told
        BY <1>0 DEF Client, Heap, HandleState
    <2>2. r \in Seq(Timer) /\ n \in Seq(Timer)
        BY <1>t, <1>c
    <2>3. client' = [client EXCEPT ![h] = c] /\ due' = (later \o r) \o n
        BY <1>1 DEF TakeResult
    <2>4. later \o r \in Seq(Timer) /\ \A t : Waits(t, later) => Waits(t, later \o r)
        BY <1>0, <2>2, WaitsInConcat
    <2>5. due' \in Seq(Timer)
          /\ \A t : Waits(t, due') <=> Waits(t, later \o r) \/ Waits(t, n)
        BY <2>2, <2>3, <2>4, WaitsInConcat
    <2>6. "state" \in c.callbacks => Waits(TimerOf("state", h), n)
        BY <2>1, WaitsInSmall
    <2> HIDE DEF c, r, n
    <2> QED BY <2>1, <2>3, <2>4, <2>5, <2>6
<1>2. ASSUME TakePartial(h)
      PROVE  /\ due' \in Seq(Timer)
             /\ \A t : Waits(t, later) => Waits(t, due')
             /\ \E c \in Client :
                  /\ client' = [client EXCEPT ![h] = c]
                  /\ c.number = client[h].number /\ c.age = client[h].age
                  /\ c.callbacks = client[h].callbacks /\ c.told = client[h].told
                  /\ c.state # client[h].state /\ "state" \in c.callbacks
                          => Waits(TimerOf("state", h), due')
    <2> DEFINE taken == client[h].state # "ready" /\ "partial" \in client[h].callbacks
               r == IF taken THEN <<TimerOf("partial", h)>> ELSE <<>>
               c == IF taken THEN [client[h] EXCEPT !.partial = "held"] ELSE client[h]
    <2>1. c \in Client /\ c.number = client[h].number /\ c.age = client[h].age
          /\ c.callbacks = client[h].callbacks /\ c.told = client[h].told
          /\ c.state = client[h].state
        BY <1>0 DEF Client, Heap
    <2>2. r \in Seq(Timer)
        BY <1>t, <1>c
    <2>3. client' = [client EXCEPT ![h] = c] /\ due' = later \o r
        BY <1>2, <1>u DEF TakePartial
    <2>4. due' \in Seq(Timer) /\ \A t : Waits(t, later) => Waits(t, due')
        BY <1>0, <2>2, <2>3, WaitsInConcat
    <2> HIDE DEF c, r
    <2> QED BY <2>1, <2>3, <2>4
<1>3. ASSUME TakeError(h)
      PROVE  /\ due' \in Seq(Timer)
             /\ \A t : Waits(t, later) => Waits(t, due')
             /\ client' = client
    <2> DEFINE r == IF "error" \in client[h].callbacks THEN <<TimerOf("error", h)>> ELSE <<>>
    <2>2. r \in Seq(Timer)
        BY <1>t, <1>c
    <2>3. client' = client /\ due' = later \o r
        BY <1>3 DEF TakeError
    <2> HIDE DEF r
    <2> QED BY <1>0, <2>2, <2>3, WaitsInConcat
<1>4. ASSUME NEW s \in {"processing", "ready"}, TakeState(h, s)
      PROVE  /\ due' \in Seq(Timer)
             /\ \A t : Waits(t, later) => Waits(t, due')
             /\ \E c \in Client :
                  /\ client' = [client EXCEPT ![h] = c]
                  /\ c.number = client[h].number /\ c.age = client[h].age
                  /\ c.callbacks = client[h].callbacks /\ c.told = client[h].told
                  /\ c.state # client[h].state /\ "state" \in c.callbacks
                          => Waits(TimerOf("state", h), due')
    <2> DEFINE r == IF client[h].state # s THEN <<TimerOf("state", h)>> ELSE <<>>
               c == [client[h] EXCEPT !.state = s]
    <2>1. c \in Client /\ c.number = client[h].number /\ c.age = client[h].age
          /\ c.callbacks = client[h].callbacks /\ c.told = client[h].told
          /\ c.state = s
        BY <1>0, <1>s DEF Client
    <2>2. r \in Seq(Timer)
        BY <1>t, <1>c
    <2>3. client' = [client EXCEPT ![h] = c] /\ due' = later \o r
        BY <1>4 DEF TakeState
    <2>4. due' \in Seq(Timer)
          /\ \A t : Waits(t, due') <=> Waits(t, later) \/ Waits(t, r)
        BY <1>0, <2>2, <2>3, WaitsInConcat
    <2>5. s # client[h].state => Waits(TimerOf("state", h), r)
        BY WaitsInSmall
    <2> HIDE DEF c, r
    <2> QED BY <2>1, <2>3, <2>4, <2>5
<1>5. CASE kind \in {"texts", "no texts"}
    BY <1>1, <1>5 DEF Take
<1>6. CASE kind = "error"
    BY <1>0, <1>3, <1>6, <1>u DEF Take
<1>7. CASE kind = "partial"
    BY <1>2, <1>7 DEF Take
<1>8. CASE kind \in {"processing", "ready"}
    BY <1>4, <1>8 DEF Take
<1> QED BY <1>5, <1>6, <1>7, <1>8 DEF Take

\* A connect, and what is left of it.
LEMMA RunConnectDoes ==
    ASSUME ClientTypeOK, due # <<>>, NEW h \in Handle, RunConnect(h)
    PROVE  /\ later' \in Seq(Timer)
           /\ \A t : Waits(t, later) => Waits(t, later')
           /\ sessions' \in [Number -> {"absent", "ready", "recording", "processing"}]
           /\ parsed' \in {parsed, Len(inbox)}
           /\ \/ client' = client
              \/ \E g \in Live : /\ client' = [client EXCEPT ![g].state = "ready"]
                                 /\ Finds(h, g)
                                 /\ Waits(TimerOf("state", h), later')
<1>p. parsed' \in {parsed, Len(inbox)}
    BY DEF RunConnect, Blocks
<1>0. /\ client \in [Handle -> Client] /\ later \in Seq(Timer)
      /\ sessions \in [Number -> {"absent", "ready", "recording", "processing"}]
    BY DEF ClientTypeOK
<1>t. /\ TimerOf("connect", h) \in Timer /\ TimerOf("state", h) \in Timer
      /\ TimerOf("error", h) \in Timer
    BY TimerType DEF Callback
<1>1. CASE ~(up /\ h \in Live)
    <2>1. later' = <<TimerOf("connect", h)>> \o later /\ client' = client /\ sessions' = sessions
        BY <1>1 DEF RunConnect
    <2>2. <<TimerOf("connect", h)>> \in Seq(Timer)
        BY <1>t, WaitsInSmall
    <2> QED BY <1>0, <1>p, <2>1, <2>2, WaitsInConcat
<1>2. CASE up /\ h \in Live
    <2>1. PICK g \in Live, outcome \in {"granted", "no engine", "timed out"} :
                /\ Finds(h, g)
                /\ Connected(g, outcome)
                /\ later' = Append(later,
                        TimerOf(IF outcome = "granted" THEN "state" ELSE "error", h))
        BY <1>2 DEF RunConnect
    <2>2. /\ later' \in Seq(Timer)
          /\ \A t : Waits(t, later) => Waits(t, later')
          /\ outcome = "granted" => Waits(TimerOf("state", h), later')
        BY <1>0, <1>t, <2>1, WaitsInAppend
    <2>3. sessions' \in [Number -> {"absent", "ready", "recording", "processing"}]
        BY <1>0, <2>1 DEF Connected
    <2>4. \/ outcome # "granted" /\ client' = client
          \/ outcome = "granted" /\ client' = [client EXCEPT ![g].state = "ready"]
        BY <2>1 DEF Connected
    <2> QED BY <1>p, <2>1, <2>2, <2>3, <2>4
<1> QED BY <1>1, <1>2

LEMMA ReleaseDoes ==
    ASSUME ClientTypeOK, NEW h \in Handle, NEW cb \in Callback, Release(h, cb)
    PROVE  /\ client' = [client EXCEPT ![h] = Released(client[h], cb)]
           /\ client' \in [Handle -> Client]
           /\ Live' = Live
           /\ stopped' \in BOOLEAN
<1>1. client' = [client EXCEPT ![h] = Released(client[h], cb)]
    BY DEF Release
<1>2. client[h] \in Client
    BY DEF ClientTypeOK
<1>3. stopped' \in BOOLEAN
    <2>1. FreesAgain(client[h], cb) \in BOOLEAN
        BY DEF FreesAgain
    <2> QED BY <2>1 DEF Release
<1> QED BY <1>1, <1>2, <1>3, ReleasedType, TypedClient

LEMMA MessageAppended ==
    ASSUME NEW s \in Seq(Message), NEW m \in Message, NEW k \in 0..Len(s)
    PROVE  Append(s, m) \in Seq(Message) /\ k \in 0..Len(Append(s, m))
OBVIOUS

\* A client that is found is the first with its number, and lives.
LEMMA FoundIsFirst ==
    ASSUME NEW h, NEW g, Finds(h, g)
    PROVE  /\ h \in Live /\ g \in Live /\ h \in Handle /\ g \in Handle
           /\ Finds(g, g) /\ client[g].number = client[h].number
BY DEF Finds, Live

\* What the listener does, whatever was on the socket.
LEMMA ReadDoes ==
    ASSUME ClientTypeOK, Read
    PROVE  /\ due = <<>> /\ later' = <<>> /\ running = None
           /\ UNCHANGED <<allocated, running, stopped, sessions, up>>
           /\ inbox' \in Seq(Message) /\ parsed' \in 0..Len(inbox')
           /\ \/ \E g \in Live, kind \in {m.kind : m \in Message} : Finds(g, g) /\ Take(g, kind)
              \/ due' = later /\ UNCHANGED client
<1>0. inbox \in Seq(Message) /\ parsed \in 0..Len(inbox) /\ parsed < Len(inbox)
    BY DEF ClientTypeOK, Read
<1>1. /\ Len(inbox) \in Nat /\ Len(inbox) > 0 /\ Head(inbox) \in Message
      /\ Tail(inbox) \in Seq(Message) /\ Len(Tail(inbox)) = Len(inbox) - 1
    BY <1>0
<1>2. ASSUME parsed > 1
      PROVE  /\ inbox[2] \in Message /\ Tail(Tail(inbox)) \in Seq(Message)
             /\ Len(Tail(Tail(inbox))) = Len(inbox) - 2
    <2>1. Len(inbox) > 2 /\ 2 \in 1..Len(inbox)
        BY <1>0, <1>2
    <2>2. inbox[2] \in Message
        BY <1>0, <2>1
    <2>3. ASSUME NEW q \in Seq(Message), Len(q) > 0
          PROVE  Tail(q) \in Seq(Message) /\ Len(Tail(q)) = Len(q) - 1
        BY <2>3
    <2>4. Len(Tail(inbox)) > 0
        BY <1>1, <2>1
    <2>5. /\ Tail(Tail(inbox)) \in Seq(Message)
          /\ Len(Tail(Tail(inbox))) = Len(Tail(inbox)) - 1
        BY <1>1, <2>3, <2>4
    <2> QED BY <1>1, <2>2, <2>5
<1>3. ASSUME NEW m \in Message, Handled(m)
      PROVE  \/ \E g \in Live, kind \in {x.kind : x \in Message} : Finds(g, g) /\ Take(g, kind)
             \/ due' = later /\ UNCHANGED client
    BY <1>3 DEF Handled
<1>4. /\ inbox' \in Seq(Message) /\ parsed' \in 0..Len(inbox')
      /\ (\E m \in Message : Handled(m)) \/ (due' = later /\ UNCHANGED client)
    <2>1. CASE parsed = 0
        <3>1. PICK k \in 1..Len(inbox) : parsed' = k - 1
            BY <2>1 DEF Read
        <3>2. Handled(Head(inbox)) /\ inbox' = Tail(inbox)
            BY <2>1 DEF Read
        <3> QED BY <1>1, <3>1, <3>2
    <2>2. CASE parsed = 1
        <3>1. due' = later /\ UNCHANGED client /\ inbox' = Tail(inbox) /\ parsed' = 0
            BY <2>2 DEF Read
        <3> QED BY <1>1, <3>1
    <2>3. CASE parsed > 1
        <3>1. Handled(inbox[2]) /\ inbox' = Tail(Tail(inbox)) /\ parsed' = parsed - 2
            BY <2>3 DEF Read
        <3> QED BY <1>0, <1>1, <1>2, <2>3, <3>1
    <2> QED BY <1>0, <2>1, <2>2, <2>3
<1>5. /\ due = <<>> /\ later' = <<>> /\ running = None
      /\ UNCHANGED <<allocated, running, stopped, sessions, up>>
    BY DEF Read, RoundIsOver
<1> QED BY <1>3, <1>4, <1>5

LEMMA TypedStep ==
    ASSUME ClientTypeOK, ClientNext
    PROVE  ClientTypeOK'
<1> DEFINE SessionType == [Number -> {"absent", "ready", "recording", "processing"}]
<1>0. /\ allocated \in 0..MaxHandle
      /\ client \in [Handle -> Client]
      /\ due \in Seq(Timer) /\ later \in Seq(Timer)
      /\ running \in [cb : Callback, stt : Handle] \cup {None}
      /\ running # None => (running.stt \in Live \/ stopped)
      /\ stopped \in BOOLEAN /\ up \in BOOLEAN
      /\ sessions \in SessionType
      /\ inbox \in Seq(Message) /\ parsed \in 0..Len(inbox)
    BY DEF ClientTypeOK
<1>b. Blocks => parsed' \in 0..Len(inbox)
    BY <1>0 DEF Blocks
<1>n. \A h \in Live : h \in Handle /\ client[h].number \in Number
    BY <1>0, BoundType DEF Live, Number, Client
<1>1. ASSUME NEW h \in Handle, Create(h) PROVE ClientTypeOK'
    <2>1. allocated' \in 0..MaxHandle
        BY <1>0, <1>1, BoundType DEF Create, NextNumber
    <2>2. [Freed EXCEPT !.number = allocated'] \in Client
        BY <2>1, FreedType, FieldAssigned
    <2>3. \A g \in Handle : [client[g] EXCEPT !.age = @ + 1] \in Client
        <3> TAKE g \in Handle
        <3>1. client[g] \in Client /\ client[g].age + 1 \in Nat
            BY <1>0, ClientFields
        <3> QED BY <3>1, FieldAssigned
    <2>4. /\ client' \in [Handle -> Client]
          /\ \A g \in Live : g # h /\ client'[g] = [client[g] EXCEPT !.age = @ + 1]
        BY <1>0, <1>1, <2>2, <2>3, <1>n DEF Create
    <2>5. \A g \in Live : g \in Live'
        <3> TAKE g \in Live
        <3>1. client[g] \in Client
            BY <1>0, <1>n
        <3>2. client'[g].number = client[g].number
            BY <2>4, <3>1 DEF Client
        <3> QED BY <3>2 DEF Live
    <2> QED BY <1>0, <1>1, <2>1, <2>4, <2>5 DEF ClientTypeOK, Create
<1>2. ASSUME NEW h \in Handle, NEW g \in Handle, Destroy(h, g) PROVE ClientTypeOK'
    <2>0. g \in Live
        BY <1>2, FoundIsFirst DEF Destroy
    <2>1. client' \in [Handle -> Client]
        BY <1>0, <1>2, FreedType DEF Destroy
    <2>2. \A k \in Live : k # g => k \in Live'
        BY <1>0, <1>2 DEF Destroy, Live
    <2>3. sessions' \in SessionType
        BY <1>0, <1>2 DEF Destroy, Finalized
    <2>4. inbox' \in Seq(Message) /\ parsed' \in 0..Len(inbox')
        <3>1. <<>> \in Seq(Message) /\ Len(<<>>) = 0 /\ 0 \in 0..0
            OBVIOUS
        <3>2. CASE Live = {g}
            BY <1>2, <3>1, <3>2 DEF Destroy
        <3>3. CASE Live # {g}
            BY <1>0, <1>2, <1>b, <3>3 DEF Destroy
        <3> QED BY <3>2, <3>3
    <2>5. stopped' \in BOOLEAN /\ (running.stt = g => stopped')
        BY <1>2 DEF Destroy
    <2>6. running' # None => (running'.stt \in Live' \/ stopped')
        BY <1>0, <1>2, <2>2, <2>5 DEF Destroy
    <2> QED BY <1>0, <1>2, <2>1, <2>3, <2>4, <2>5, <2>6 DEF ClientTypeOK, Destroy
<1>3. ASSUME NEW h \in Handle, NEW g \in Handle, NEW cb \in Offered, SetCallback(h, g, cb)
      PROVE  ClientTypeOK'
    <2>1. PICK K \in {client[g].callbacks \cup {cb}, client[g].callbacks \ {cb}} :
            client' = [client EXCEPT ![g].callbacks = K,
                           ![g].told = IF cb = "state" THEN "created" ELSE @]
        BY <1>3 DEF SetCallback
    <2>2. K \in SUBSET Callback /\ client[g] \in Client
        BY <1>0, ClientFields, ClientAssumption
    <2> DEFINE c == [client[g] EXCEPT !.callbacks = K,
                           !.told = IF cb = "state" THEN "created" ELSE @]
    <2>3. c \in Client /\ c.number = client[g].number
        BY <2>2 DEF Client, HandleState
    <2>4. client' = [client EXCEPT ![g] = c]
        BY <1>0, <2>1
    <2> HIDE DEF c
    <2>5. client' \in [Handle -> Client] /\ Live' = Live
        BY <2>3, <2>4, TypedClient
    <2> QED BY <1>0, <1>3, <2>5 DEF ClientTypeOK, SetCallback
<1>4. ASSUME NEW h \in Handle, NEW g \in Handle, Prepare(h, g) PROVE ClientTypeOK'
    <2>1. later' \in Seq(Timer)
        BY <1>4, TypedArm DEF Prepare
    <2>2. Live' = Live
        BY <1>4 DEF Prepare, Live
    <2> QED BY <1>0, <1>4, <2>1, <2>2 DEF ClientTypeOK, Prepare
<1>5. ASSUME NEW h \in Handle, NEW g \in Handle, Unprepare(h, g) PROVE ClientTypeOK'
    <2>1. later' \in Seq(Timer)
        BY <1>5, TypedArm DEF Unprepare, Callback
    <2>2. [client[g] EXCEPT !.state = "created"] \in Client
          /\ [client[g] EXCEPT !.state = "created"].number = client[g].number
        BY <1>0 DEF Client, HandleState
    <2>3. client' \in [Handle -> Client] /\ Live' = Live
        BY <1>0, <1>5, <2>2, TypedClient DEF Unprepare
    <2>4. sessions' \in SessionType
        BY <1>0, <1>5 DEF Unprepare, Finalized
    <2>5. parsed' \in 0..Len(inbox)
        BY <1>5, <1>b DEF Unprepare
    <2> QED BY <1>0, <1>5, <2>1, <2>3, <2>4, <2>5 DEF ClientTypeOK, Unprepare
<1>6. ASSUME NEW h \in Handle, NEW g \in Handle, NEW op \in {"start", "stop", "cancel"},
             NEW late \in BOOLEAN, Call(h, g, op, late)
      PROVE  ClientTypeOK'
    <2>1. Reached[op] \in {"ready", "recording", "processing"}
        BY ReachedType
    <2>2. sessions' \in SessionType /\ parsed' \in 0..Len(inbox)
        BY <1>0, <1>6, <1>b, <2>1 DEF Call
    <2>3. CASE late
        <3>1. Live' = Live
            BY <1>6, <2>3 DEF Call, Live
        <3> QED BY <1>0, <1>6, <2>2, <2>3, <3>1 DEF ClientTypeOK, Call
    <2>4. CASE ~late
        <3>1. later' \in Seq(Timer)
            BY <1>6, <2>4, TypedArm DEF Call, Callback
        <3>2. [client[g] EXCEPT !.state = Reached[op]] \in Client
              /\ [client[g] EXCEPT !.state = Reached[op]].number = client[g].number
            BY <1>0, <2>1 DEF Client, HandleState
        <3>3. client' \in [Handle -> Client] /\ Live' = Live
            BY <1>0, <1>6, <2>4, <3>2, TypedClient DEF Call
        <3> QED BY <1>0, <1>6, <2>2, <3>1, <3>3 DEF ClientTypeOK, Call
    <2> QED BY <2>3, <2>4
<1>12. ASSUME NEW h \in Handle, Ask(h) PROVE ClientTypeOK'
    <2>1. Live' = Live /\ parsed' \in 0..Len(inbox)
        BY <1>12, <1>b DEF Ask, Live
    <2> QED BY <1>0, <1>12, <2>1 DEF ClientTypeOK, Ask
<1>7. ASSUME Return PROVE ClientTypeOK'
    <2>1. running.stt \in Handle /\ running.cb \in Callback
        BY <1>0, <1>7 DEF Return
    <2>2. client' \in [Handle -> Client] /\ Live' = Live /\ stopped' \in BOOLEAN
        BY <1>7, <2>1, ReleaseDoes DEF Return
    <2> QED BY <1>0, <1>7, <2>2 DEF ClientTypeOK, Return
<1>8. ASSUME RunTimer PROVE ClientTypeOK'
    <2>1. due # <<>> /\ Head(due) \in Timer /\ Tail(due) \in Seq(Timer)
        BY <1>0, <1>8, WaitsInTail DEF RunTimer
    <2>2. Head(due).stt \in Handle /\ Head(due).cb \in Callback \cup {"connect"}
        BY <2>1 DEF Timer
    <2>3. CASE RunConnect(Head(due).stt) /\ UNCHANGED <<running, stopped>>
        <3>1. /\ later' \in Seq(Timer) /\ sessions' \in SessionType
              /\ parsed' \in {parsed, Len(inbox)}
              /\ \/ client' = client
                 \/ \E g \in Live : client' = [client EXCEPT ![g].state = "ready"]
            BY <2>1, <2>2, <2>3, RunConnectDoes
        <3>2. client' \in [Handle -> Client] /\ Live' = Live
            <4>1. CASE client' = client
                BY <1>0, <4>1 DEF Live
            <4>2. ASSUME NEW g \in Live, client' = [client EXCEPT ![g].state = "ready"]
                  PROVE  client' \in [Handle -> Client] /\ Live' = Live
                <5>1. g \in Handle /\ client[g] \in Client
                    BY <1>0, <1>n
                <5>2. [client[g] EXCEPT !.state = "ready"] \in Client
                      /\ [client[g] EXCEPT !.state = "ready"].number = client[g].number
                    BY <5>1 DEF Client, HandleState
                <5> QED BY <4>2, <5>1, <5>2, TypedClient
            <4> QED BY <3>1, <4>1, <4>2
        <3>3. due' = Tail(due)
            BY <2>3 DEF RunConnect
        <3>4. parsed' \in 0..Len(inbox)
            BY <1>0, <3>1
        <3> QED BY <1>0, <1>8, <2>1, <2>3, <3>1, <3>2, <3>3, <3>4 DEF ClientTypeOK, RunTimer
    <2>4. CASE /\ Head(due).cb # "connect" /\ RunNotify(Head(due).cb, Head(due).stt)
               /\ UNCHANGED parsed
        <3> DEFINE h == Head(due).stt
                   cb == Head(due).cb
        <3>1. h \in Handle /\ cb \in Callback
            BY <2>2, <2>4
        <3>2. due' = Tail(due) /\ UNCHANGED <<later, sessions, parsed>>
            BY <2>4 DEF RunNotify
        <3>3. running = None /\ UNCHANGED <<allocated, up, inbox>>
            BY <1>8 DEF RunTimer
        <3>4. ASSUME NEW g \in Live, Notify(cb, g) PROVE ClientTypeOK'
            <4>0. g \in Handle /\ client[g] \in Client
                BY <1>0, <1>n
            <4>1. [client[g] EXCEPT !.told = client[g].state] \in Client
                  /\ [client[g] EXCEPT !.told = client[g].state].number = client[g].number
                BY <4>0 DEF Client
            <4>2. client' \in [Handle -> Client] /\ Live' = Live
                <5>1. CASE cb # "state"
                    BY <1>0, <3>4, <5>1 DEF Live, Notify
                <5>2. CASE cb = "state"
                    <6>1. client' = [client EXCEPT ![g] = [client[g] EXCEPT !.told = client[g].state]]
                        BY <1>0, <3>4, <5>2 DEF Notify
                    <6> QED BY <4>0, <4>1, <6>1, TypedClient
                <5> QED BY <5>1, <5>2
            <4>3. running' \in [cb : Callback, stt : Handle] /\ running'.stt = g
                BY <3>1, <3>4, <4>0 DEF TimerOf, Notify
            <4>4. UNCHANGED stopped
                BY <3>4 DEF Notify
            <4> HIDE DEF h, cb
            <4> QED BY <1>0, <2>1, <3>2, <3>3, <4>2, <4>3, <4>4 DEF ClientTypeOK
        <3>5. ASSUME NEW g \in Live, Release(g, cb), UNCHANGED running PROVE ClientTypeOK'
            <4>1. client' \in [Handle -> Client] /\ Live' = Live /\ stopped' \in BOOLEAN
                BY <1>n, <3>1, <3>5, ReleaseDoes
            <4> HIDE DEF h, cb
            <4> QED BY <1>0, <2>1, <3>2, <3>3, <3>5, <4>1 DEF ClientTypeOK
        <3>6. CASE UNCHANGED <<client, running, stopped>>
            <4>1. Live' = Live
                BY <3>6 DEF Live
            <4> HIDE DEF h, cb
            <4> QED BY <1>0, <2>1, <3>2, <3>3, <3>6, <4>1 DEF ClientTypeOK
        <3> QED BY <2>4, <3>4, <3>5, <3>6 DEF RunNotify
    <2> QED BY <1>8, <2>3, <2>4 DEF RunTimer
<1>9. ASSUME Read PROVE ClientTypeOK'
    <2>1. /\ inbox' \in Seq(Message) /\ parsed' \in 0..Len(inbox')
          /\ later' \in Seq(Timer) /\ UNCHANGED <<allocated, running, stopped, sessions, up>>
        BY <1>9, ReadDoes, WaitsInSmall
    <2>2. ASSUME NEW g \in Live, NEW kind, Take(g, kind) PROVE ClientTypeOK'
        <3>2. due' \in Seq(Timer)
              /\ \E c \in Client : client' = [client EXCEPT ![g] = c] /\ c.number = client[g].number
            BY <2>2, TakeDoes
        <3>3. client' \in [Handle -> Client] /\ Live' = Live
            BY <1>n, <3>2, TypedClient
        <3> QED BY <1>0, <2>1, <3>2, <3>3 DEF ClientTypeOK
    <2>3. CASE due' = later /\ UNCHANGED client
        <3>1. Live' = Live
            BY <2>3 DEF Live
        <3> QED BY <1>0, <2>1, <2>3, <3>1 DEF ClientTypeOK
    <2> QED BY <1>9, <2>2, <2>3, ReadDoes
<1>10. ASSUME Round PROVE ClientTypeOK'
    <2>1. Live' = Live
        BY <1>10 DEF Round, Live
    <2> QED BY <1>0, <1>10, <2>1, WaitsInSmall DEF ClientTypeOK, Round
<1>11. ASSUME DaemonNext PROVE ClientTypeOK'
    <2>1. Live' = Live /\ UNCHANGED <<allocated, client, due, later, running, stopped>>
        BY <1>11 DEF DaemonNext, Silence, Recognize, Partial, Check, Start, Die, Live
    <2>2. ASSUME NEW kind \in {"texts", "no texts", "partial", "error", "processing", "ready"},
                 NEW n \in Number, Sends(kind, n)
          PROVE  inbox' \in Seq(Message) /\ parsed \in 0..Len(inbox')
        <3> DEFINE m == [kind |-> kind, uid |-> n]
        <3>1. m \in Message
            BY DEF Message
        <3>2. \/ inbox' = inbox
              \/ inbox' = Append(inbox, m)
            BY <2>2 DEF Sends
        <3>3. inbox \in Seq(Message)
            BY <1>0
        <3> HIDE DEF m
        <3>4. Append(inbox, m) \in Seq(Message) /\ parsed \in 0..Len(Append(inbox, m))
            BY <1>0, <3>1, <3>3, MessageAppended
        <3> QED BY <1>0, <3>2, <3>3, <3>4
    <2>3. inbox' \in Seq(Message) /\ parsed' \in 0..Len(inbox')
        <3>1. ASSUME NEW n \in Number, Check(n) PROVE inbox' \in Seq(Message) /\ parsed' = 0
            <4> DEFINE m == [kind |-> "ready", uid |-> n]
            <4>1. m \in Message
                BY DEF Message
            <4>2. <<m>> \in Seq(Message) /\ <<>> \in Seq(Message)
                BY <4>1
            <4> QED BY <3>1, <4>2 DEF Check
        <3>2. \A n \in Number : Check(n) => parsed' \in 0..Len(inbox')
            BY <3>1
        <3> QED
            BY <1>0, <1>11, <2>2, <3>1, <3>2
            DEF DaemonNext, Silence, Recognize, Partial, Start, Die
    <2>4. sessions' \in SessionType
        BY <1>0, <1>11 DEF DaemonNext, Silence, Recognize, Partial, Check, Start, Die
    <2>5. up' \in BOOLEAN
        BY <1>0, <1>11 DEF DaemonNext, Silence, Recognize, Partial, Check, Start, Die
    <2> QED BY <1>0, <2>1, <2>3, <2>4, <2>5 DEF ClientTypeOK
<1> QED
    BY <1>1, <1>2, <1>3, <1>4, <1>5, <1>6, <1>7, <1>8, <1>9, <1>10, <1>11, <1>12
    DEF ClientNext, ApplicationNext, MainLoop

LEMMA TypedStutter ==
    ASSUME ClientTypeOK, UNCHANGED clientVars
    PROVE  ClientTypeOK'
<1>1. Live' = Live
    BY DEF clientVars, Live
<1> QED BY <1>1 DEF ClientTypeOK, clientVars

\* Whatever the application, the daemon and Ecore do, in whatever order, the
\* variables keep their types and the callback the application is in belongs
\* to a handle that lives.
THEOREM ClientTyped == ClientSpec => []ClientTypeOK
<1>1. ClientInit => ClientTypeOK
    <2> SUFFICES ASSUME ClientInit PROVE ClientTypeOK
        OBVIOUS
    <2>1. allocated \in 0..MaxHandle
        BY BoundType DEF ClientInit
    <2>2. client \in [Handle -> Client]
        BY FreedType DEF ClientInit
    <2>3. due \in Seq(Timer) /\ later \in Seq(Timer)
        BY WaitsInSmall DEF ClientInit
    <2>4. inbox \in Seq(Message) /\ parsed \in 0..Len(inbox)
        BY DEF ClientInit
    <2>5. sessions \in [Number -> {"absent", "ready", "recording", "processing"}]
        BY DEF ClientInit
    <2> QED BY <2>1, <2>2, <2>3, <2>4, <2>5 DEF ClientInit, ClientTypeOK
<1>2. ClientTypeOK /\ [ClientNext]_clientVars => ClientTypeOK'
    BY TypedStep, TypedStutter
<1> QED BY <1>1, <1>2, PTL DEF ClientSpec

-----------------------------------------------------------------------------
(* Numbers.                                                                *)

DistinctAges == \A g, h \in Live : g # h => client[g].age # client[h].age

\* The number of a handle is the counter's value as many creations ago, as long
\* as the counter has not come round since.
NumberFromAge ==
    \A h \in Live :
        client[h].age < MaxHandle =>
            client[h].number = IF client[h].age < allocated
                               THEN allocated - client[h].age
                               ELSE allocated + MaxHandle - client[h].age

NumbersDifferNear ==
    \A g, h \in Live :
        client[g].age < client[h].age /\ client[h].age - client[g].age < MaxHandle
            => client[g].number # client[h].number

Numbered == DistinctAges /\ NumberFromAge /\ NumbersDifferNear

\* Only the two of them give a handle a number or an age.
CreatesOrDestroys == \E h, g \in Handle : Create(h) \/ Destroy(h, g)

LEMMA NumbersKept ==
    ASSUME ClientTypeOK, ClientNext, ~CreatesOrDestroys
    PROVE  /\ allocated' = allocated
           /\ \A k \in Handle : /\ client'[k].number = client[k].number
                                /\ client'[k].age = client[k].age
<1> DEFINE Kept == \A k \in Handle : /\ client'[k].number = client[k].number
                                     /\ client'[k].age = client[k].age
<1>0. /\ client \in [Handle -> Client] /\ due \in Seq(Timer)
      /\ running \in [cb : Callback, stt : Handle] \cup {None}
      /\ \A g \in Handle : client[g] \in Client
      /\ \A g \in Live : g \in Handle
    BY DEF ClientTypeOK, Live
<1>r. ASSUME NEW h \in Handle, NEW cb \in Callback, Release(h, cb)
      PROVE  Kept
    <2>1. client' = [client EXCEPT ![h] = Released(client[h], cb)]
        BY <1>r DEF Release
    <2> QED BY <1>0, <2>1, ReleasedType
<1>1. CASE DaemonNext
    BY <1>1 DEF DaemonNext, Silence, Recognize, Partial, Check, Start, Die
<1>2. ASSUME NEW h \in Handle, NEW g \in Handle, NEW cb \in Offered, SetCallback(h, g, cb)
      PROVE  allocated' = allocated /\ Kept
    <2>1. PICK K : client' = [client EXCEPT ![g].callbacks = K,
                                  ![g].told = IF cb = "state" THEN "created" ELSE @]
        BY <1>2 DEF SetCallback
    <2>2. \A k \in Handle : /\ client'[k].number = client[k].number
                            /\ client'[k].age = client[k].age
        BY <1>0, <2>1 DEF Client
    <2>3. allocated' = allocated
        BY <1>2 DEF SetCallback
    <2> QED BY <2>2, <2>3
<1>3. ASSUME NEW h \in Handle, NEW g \in Handle, Prepare(h, g) \/ Unprepare(h, g) \/ Ask(h)
      PROVE  allocated' = allocated /\ Kept
    <2>1. client' = client \/ client' = [client EXCEPT ![g].state = "created"]
        BY <1>3 DEF Prepare, Unprepare, Ask
    <2>2. allocated' = allocated
        BY <1>3 DEF Prepare, Unprepare, Ask
    <2>3. CASE client' = [client EXCEPT ![g].state = "created"]
        <3>1. client \in [Handle -> Client]
            BY <1>0
        <3>2. Kept
            BY <2>3, <3>1, SameHandles
        <3> QED BY <2>2, <3>2
    <2> QED BY <2>1, <2>2, <2>3
<1>4. ASSUME NEW h \in Handle, NEW g \in Handle, NEW op \in {"start", "stop", "cancel"},
             NEW late \in BOOLEAN, Call(h, g, op, late)
      PROVE  allocated' = allocated /\ Kept
    <2>1. client' = client \/ client' = [client EXCEPT ![g].state = Reached[op]]
        BY <1>4 DEF Call
    <2>2. allocated' = allocated
        BY <1>4 DEF Call
    <2>3. Kept
        <3>1. client \in [Handle -> Client]
            BY <1>0
        <3>2. CASE client' = client
            BY <3>2
        <3>3. CASE client' = [client EXCEPT ![g].state = Reached[op]]
            BY <3>1, <3>3, SameHandles
        <3> QED BY <2>1, <3>2, <3>3
    <2> QED BY <2>2, <2>3
<1>5. CASE Return
    <2>1. running.stt \in Handle /\ running.cb \in Callback
        BY <1>0, <1>5 DEF Return
    <2> QED BY <1>5, <1>r, <2>1 DEF Return
<1>6. CASE RunTimer
    <2>1. due # <<>> /\ Head(due) \in Timer
        BY <1>0, <1>6, WaitsInTail DEF RunTimer
    <2> DEFINE h == Head(due).stt
               cb == Head(due).cb
    <2>2. h \in Handle /\ cb \in Callback \cup {"connect"}
        BY <2>1 DEF Timer
    <2>a. allocated' = allocated
        BY <1>6 DEF RunTimer
    <2>s. ASSUME NEW g \in Handle, NEW s,
                 client' = [client EXCEPT ![g].state = s] \/ client' = [client EXCEPT ![g].told = s]
          PROVE  Kept
        <3>1. client \in [Handle -> Client]
            BY <1>0
        <3>2. CASE client' = [client EXCEPT ![g].state = s]
            BY <3>1, <3>2, SameHandles
        <3>3. CASE client' = [client EXCEPT ![g].told = s]
            BY <3>1, <3>3, SameHandles
        <3> QED BY <2>s, <3>2, <3>3
    <2>3. CASE RunConnect(h)
        <3>1. client' = client \/ \E g \in Live : client' = [client EXCEPT ![g].state = "ready"]
            BY <2>1, <2>2, <2>3, RunConnectDoes
        <3> HIDE DEF h
        <3> QED BY <1>0, <2>a, <2>s, <3>1
    <2>4. CASE cb # "connect" /\ RunNotify(cb, h)
        <3>1. \/ client' = client
              \/ \E g \in Live : client' = [client EXCEPT ![g].told = client[g].state]
              \/ \E g \in Live : Release(g, cb)
            BY <2>4 DEF RunNotify, Notify
        <3>2. cb \in Callback
            BY <2>2, <2>4
        <3> HIDE DEF h, cb
        <3> QED BY <1>0, <1>r, <2>a, <2>s, <3>1, <3>2
    <2> QED BY <1>6, <2>3, <2>4 DEF RunTimer
<1>7. CASE Read
    <2>1. allocated' = allocated
        BY <1>7, ReadDoes
    <2>2. ASSUME NEW h \in Live, NEW kind, Take(h, kind) PROVE Kept
        <3>1. PICK c \in Client : /\ client' = [client EXCEPT ![h] = c]
                                  /\ c.number = client[h].number /\ c.age = client[h].age
            BY <2>2, TakeDoes
        <3> QED BY <1>0, <3>1
    <2> QED BY <1>7, <2>1, <2>2, ReadDoes
<1>8. CASE Round
    BY <1>8 DEF Round
<1> HIDE DEF Kept
<1>9. allocated' = allocated /\ Kept
    BY <1>1, <1>2, <1>3, <1>4, <1>5, <1>6, <1>7, <1>8
    DEF ClientNext, ApplicationNext, MainLoop, CreatesOrDestroys, Kept
<1> QED BY <1>9 DEF Kept

\* What a creation and the end of a handle change of numbers and ages.
LEMMA CreateDoes ==
    ASSUME ClientTypeOK, NEW h \in Handle, Create(h)
    PROVE  /\ h \notin Live /\ h \in Live' /\ Live' = Live \cup {h}
           /\ client'[h] = [Freed EXCEPT !.number = allocated']
           /\ client'[h].number = allocated' /\ client'[h].age = 0
           /\ allocated' \in 1..MaxHandle
           /\ \A g \in Live : /\ g \in Handle /\ g # h
                              /\ client[g] \in Client
                              /\ client'[g] = [client[g] EXCEPT !.age = @ + 1]
                              /\ client'[g].number = client[g].number
                              /\ client'[g].age = client[g].age + 1
<1>0. /\ allocated \in 0..MaxHandle /\ client \in [Handle -> Client]
    BY DEF ClientTypeOK
<1>1. allocated' \in 1..MaxHandle
    BY <1>0, BoundType DEF Create, NextNumber
<1>2. client'[h] = [Freed EXCEPT !.number = allocated'] /\ h \notin Live
    BY DEF Create
<1>3. client'[h].number = allocated' /\ client'[h].age = 0
    BY <1>2, FreedType DEF Client
<1>4. ASSUME NEW g \in Live
      PROVE  /\ g \in Handle /\ g # h
             /\ client[g] \in Client
             /\ client'[g] = [client[g] EXCEPT !.age = @ + 1]
             /\ client'[g].number = client[g].number
             /\ client'[g].age = client[g].age + 1
    <2>1. g \in Handle /\ g # h /\ client[g] \in Client
        BY <1>0, <1>2 DEF Live
    <2>2. client'[g] = [client[g] EXCEPT !.age = @ + 1]
        BY <2>1 DEF Create
    <2> QED BY <2>1, <2>2 DEF Client
<1>5. \A g \in Handle : g # h /\ g \notin Live => client'[g] = client[g]
    BY DEF Create
<1>6. Live' = Live \cup {h}
    <2>1. \A g \in Handle : g \in Live' <=> g \in Live \cup {h}
        <3> TAKE g \in Handle
        <3>1. CASE g = h
            <4>1. client'[h].number # 0
                BY <1>1, <1>3
            <4> QED BY <3>1, <4>1 DEF Live
        <3>2. CASE g \in Live
            <4>1. client'[g].number = client[g].number /\ client[g].number # 0
                BY <1>4, <3>2 DEF Live
            <4> QED BY <3>2, <4>1 DEF Live
        <3>3. CASE g # h /\ g \notin Live
            <4>1. client'[g] = client[g]
                BY <1>5, <3>3
            <4> QED BY <3>3, <4>1 DEF Live
        <3> QED BY <3>1, <3>2, <3>3
    <2> QED BY <2>1 DEF Live
<1> QED BY <1>1, <1>2, <1>3, <1>4, <1>6

LEMMA DestroyDoes ==
    ASSUME ClientTypeOK, NEW h \in Handle, NEW g \in Handle, Destroy(h, g)
    PROVE  /\ Finds(h, g)
           /\ Live' = Live \ {g} /\ \A k \in Live' : k \in Live /\ k # g /\ client'[k] = client[k]
           /\ UNCHANGED <<allocated, due, later, running>>
           /\ stopped' = (running.stt = g \/ h # g)
<1>0. client \in [Handle -> Client]
    BY DEF ClientTypeOK
<1>1. client' = [client EXCEPT ![g] = Freed]
    BY DEF Destroy
<1>2. \A k \in Handle : client'[k] = IF k = g THEN Freed ELSE client[k]
    BY <1>0, <1>1
<1>3. Live' = Live \ {g}
    <2>1. \A k \in Handle : k \in Live' <=> k \in Live \ {g}
        BY <1>2, FreedType DEF Live
    <2> QED BY <2>1 DEF Live
<1> QED BY <1>2, <1>3 DEF Destroy, Live

\* As NumberFromAge puts it, with the counter at m.
NumberAt(n, x, m) == IF x < m THEN n = m - x ELSE n = m + MaxHandle - x

LEMMA NumberOneLater ==
    ASSUME NEW m \in 0..MaxHandle, NEW x \in Nat, NEW n, x + 1 < MaxHandle, NumberAt(n, x, m)
    PROVE  NumberAt(n, x + 1, NextNumber(m)) /\ n # NextNumber(m)
BY BoundType DEF NumberAt, NextNumber

LEMMA NumberedStep ==
    ASSUME ClientTypeOK, Numbered, ClientNext
    PROVE  Numbered'
<1>0. /\ allocated \in 0..MaxHandle /\ client \in [Handle -> Client]
      /\ \A g \in Live : g \in Handle /\ client[g].age \in Nat /\ client[g].number \in 0..MaxHandle
    BY ClientFields DEF ClientTypeOK, Live
<1>1. ASSUME NEW h \in Handle, Create(h) PROVE Numbered'
    <2>1. /\ h \notin Live /\ Live' = Live \cup {h}
          /\ client'[h].number = allocated' /\ client'[h].age = 0
          /\ allocated' \in 1..MaxHandle
          /\ \A g \in Live : g # h /\ client'[g].number = client[g].number
                             /\ client'[g].age = client[g].age + 1
        BY <1>1, CreateDoes
    <2>2. allocated' = NextNumber(allocated)
        BY <1>1 DEF Create
    <2>3. ASSUME NEW g \in Live, client'[g].age < MaxHandle
          PROVE  /\ NumberAt(client'[g].number, client'[g].age, allocated')
                 /\ client'[g].number # allocated'
        <3>1. client[g].age \in Nat /\ client[g].age + 1 < MaxHandle
            BY <1>0, <2>1, <2>3
        <3>2. NumberAt(client[g].number, client[g].age, allocated)
            BY <3>1, BoundType DEF Numbered, NumberFromAge, NumberAt
        <3>3. NumberAt(client[g].number, client[g].age + 1, allocated')
              /\ client[g].number # allocated'
            BY <1>0, <2>2, <3>1, <3>2, NumberOneLater
        <3> QED BY <2>1, <3>3
    <2>4. NumberFromAge'
        <3>1. NumberAt(client'[h].number, client'[h].age, allocated')
            <4>1. \A a \in 1..MaxHandle : NumberAt(a, 0, a)
                BY BoundType DEF NumberAt
            <4>2. allocated' \in 1..MaxHandle
                BY <2>1
            <4> QED BY <2>1, <4>1, <4>2
        <3> QED BY <2>1, <2>3, <3>1 DEF NumberFromAge, NumberAt
    <2>5. DistinctAges'
        <3> SUFFICES ASSUME NEW g \in Live', NEW k \in Live', g # k
                     PROVE  client'[g].age # client'[k].age
            BY DEF DistinctAges
        <3>1. CASE g \in Live /\ k \in Live
            <4>1. client[g].age # client[k].age /\ client[g].age \in Nat /\ client[k].age \in Nat
                BY <1>0, <3>1 DEF Numbered, DistinctAges
            <4> QED BY <2>1, <3>1, <4>1
        <3>2. CASE g = h /\ k \in Live
            <4>1. client[k].age \in Nat
                BY <1>0, <3>2
            <4> QED BY <2>1, <3>2, <4>1
        <3>3. CASE k = h /\ g \in Live
            <4>1. client[g].age \in Nat
                BY <1>0, <3>3
            <4> QED BY <2>1, <3>3, <4>1
        <3> QED BY <2>1, <3>1, <3>2, <3>3
    <2>6. NumbersDifferNear'
        <3> SUFFICES ASSUME NEW g \in Live', NEW k \in Live', client'[g].age < client'[k].age,
                            client'[k].age - client'[g].age < MaxHandle
                     PROVE  client'[g].number # client'[k].number
            BY DEF NumbersDifferNear
        <3>1. CASE g \in Live /\ k \in Live
            <4>1. client[g].age \in Nat /\ client[k].age \in Nat
                BY <1>0, <3>1
            <4>2. client[g].age < client[k].age /\ client[k].age - client[g].age < MaxHandle
                BY <2>1, <3>1, <4>1
            <4> QED BY <2>1, <3>1, <4>2 DEF Numbered, NumbersDifferNear
        <3>2. CASE g = h /\ k \in Live
            <4>1. client[k].age \in Nat
                BY <1>0, <3>2
            <4>2. client'[k].age < MaxHandle
                BY <2>1, <3>2, <4>1
            <4> QED BY <2>1, <2>3, <3>2, <4>2
        <3>3. CASE k = h /\ g \in Live
            <4>1. client[g].age \in Nat
                BY <1>0, <3>3
            <4> QED BY <2>1, <3>3, <4>1
        <3> QED BY <2>1, <3>1, <3>2, <3>3
    <2> QED BY <2>4, <2>5, <2>6 DEF Numbered
<1>2. ASSUME NEW h \in Handle, NEW g \in Handle, Destroy(h, g) PROVE Numbered'
    <2>1. allocated' = allocated /\ \A k \in Live' : k \in Live /\ client'[k] = client[k]
        BY <1>2, DestroyDoes
    <2> QED BY <2>1 DEF Numbered, DistinctAges, NumberFromAge, NumbersDifferNear
<1>3. CASE ~CreatesOrDestroys
    <2>1. /\ allocated' = allocated
          /\ \A g \in Handle : /\ client'[g].number = client[g].number
                               /\ client'[g].age = client[g].age
        BY <1>3, NumbersKept
    <2>2. Live' = Live /\ \A g \in Live : g \in Handle
        BY <2>1 DEF Live
    <2> QED BY <2>1, <2>2 DEF Numbered, DistinctAges, NumberFromAge, NumbersDifferNear
<1> QED BY <1>1, <1>2, <1>3 DEF CreatesOrDestroys

LEMMA AlwaysNumbered == ClientSpec => []Numbered
<1>1. ClientInit => Numbered
    <2> SUFFICES ASSUME ClientInit PROVE Numbered
        OBVIOUS
    <2>1. Live = {}
        BY FreedType DEF ClientInit, Live
    <2> QED BY <2>1 DEF Numbered, DistinctAges, NumberFromAge, NumbersDifferNear
<1>2. ClientTypeOK /\ Numbered /\ [ClientNext]_clientVars => Numbered'
    <2>1. ASSUME Numbered, UNCHANGED clientVars PROVE Numbered'
        <3>1. Live' = Live
            BY <2>1 DEF clientVars, Live
        <3> QED BY <2>1, <3>1
            DEF clientVars, Numbered, DistinctAges, NumberFromAge, NumbersDifferNear
    <2> QED BY <2>1, NumberedStep
<1> QED BY <1>1, <1>2, ClientTyped, PTL DEF ClientSpec

\* For any g_max_handle and any number of handles, two of them that live have
\* one number only when one was kept over as many creations as there are
\* numbers, or more.
THEOREM NumbersOnlyComeRound == ClientSpec => []NumbersComeRound
<1>1. ClientTypeOK /\ Numbered => NumbersComeRound
    <2> SUFFICES ASSUME ClientTypeOK, Numbered, NEW g \in Live, NEW h \in Live, g # h,
                        client[g].number = client[h].number, client[g].age <= client[h].age
                 PROVE  client[h].age - client[g].age >= MaxHandle
        BY DEF NumbersComeRound
    <2>1. client[g].age \in Nat /\ client[h].age \in Nat
        BY ClientFields DEF ClientTypeOK, Live
    <2>2. client[g].age # client[h].age
        BY DEF Numbered, DistinctAges
    <2>3. ~(client[h].age - client[g].age < MaxHandle)
        BY <2>1, <2>2 DEF Numbered, NumbersDifferNear
    <2> QED BY <2>1, <2>3, BoundType
<1> QED BY <1>1, ClientTyped, AlwaysNumbered, PTL

-----------------------------------------------------------------------------
(* Which client is found.                                                  *)

LEMMA FindsKept ==
    ASSUME \A k \in Handle : /\ client'[k].number = client[k].number
                             /\ client'[k].age = client[k].age
    PROVE  \A h, g : Finds(h, g)' <=> Finds(h, g)
BY DEF Finds, Live

LEMMA FindsOne ==
    ASSUME ClientTypeOK, DistinctAges, NEW h, NEW g, NEW j, NEW k,
           Finds(h, g), Finds(j, k), client[h].number = client[j].number
    PROVE  g = k
<1>1. /\ g \in Live /\ k \in Live
      /\ client[g].age <= client[k].age /\ client[k].age <= client[g].age
    BY DEF Finds
<1>2. client[g].age \in Nat /\ client[k].age \in Nat
    BY <1>1, ClientFields DEF ClientTypeOK, Live
<1> QED BY <1>1, <1>2 DEF DistinctAges

\* A handle that comes is found last, and one that goes makes way.
LEMMA FindsAmongMore ==
    ASSUME ClientTypeOK, NEW j \in Handle, Create(j), NEW h, NEW g, Finds(h, g)
    PROVE  Finds(h, g)'
<1>1. h \in Live /\ g \in Live
    BY DEF Finds
<1>2. /\ Live' = Live \cup {j} /\ client'[j].age = 0
      /\ \A k \in Live : client'[k].number = client[k].number
                         /\ client'[k].age = client[k].age + 1
    BY CreateDoes
<1>3. \A k \in Live : client[k].age \in Nat
    BY ClientFields DEF ClientTypeOK, Live
<1>4. ASSUME NEW k \in Live', client'[k].number = client'[h].number
      PROVE  client'[k].age <= client'[g].age
    <2>1. CASE k = j
        BY <1>1, <1>2, <1>3, <2>1
    <2>2. CASE k \in Live
        <3>1. client[k].age <= client[g].age
            BY <1>1, <1>2, <1>4, <2>2 DEF Finds
        <3> QED BY <1>1, <1>2, <1>3, <2>2, <3>1
    <2> QED BY <1>2, <2>1, <2>2
<1>5. h \in Live' /\ g \in Live' /\ client'[g].number = client'[h].number
    BY <1>1, <1>2 DEF Finds
<1> QED BY <1>4, <1>5 DEF Finds

LEMMA FindsAmongLess ==
    ASSUME Live' \subseteq Live, \A k \in Live' : client'[k] = client[k],
           NEW h \in Live', NEW g \in Live', Finds(h, g)
    PROVE  Finds(h, g)'
BY DEF Finds

-----------------------------------------------------------------------------
(* What the application knows.                                             *)

Pending(t) == Waits(t, due) \/ Waits(t, later)

Heard(g) ==
    "state" \in client[g].callbacks /\ client[g].told # client[g].state
        => \E h \in Live : Finds(h, g) /\ Pending(TimerOf("state", h))

LEMMA HeardIsPending ==
    ApplicationIsTold <=> (~stopped => \A h \in Live : Heard(h))
BY WaitsInArmed DEF ApplicationIsTold, Heard, Pending

\* A step changes what is at one address, and no notification that would find
\* another client is lost.
LEMMA HeardKept ==
    ASSUME ClientTypeOK, DistinctAges, \A g \in Live : Heard(g),
           NEW h \in Handle, NEW c \in Client, client' = [client EXCEPT ![h] = c],
           c.number = client[h].number, c.age = client[h].age,
           h \in Live => Heard(h)',
           \A k \in Live : ~Finds(k, h) /\ Pending(TimerOf("state", k))
                                => Pending(TimerOf("state", k))'
    PROVE  \A g \in Live' : Heard(g)'
<1>0. client \in [Handle -> Client]
    BY DEF ClientTypeOK
<1>1. Live' = Live
    BY TypedClient
<1>2. \A j, k : Finds(j, k)' <=> Finds(j, k)
    <2>1. \A k \in Handle : /\ client'[k].number = client[k].number
                            /\ client'[k].age = client[k].age
        BY <1>0
    <2> QED BY <2>1, FindsKept
<1>3. ASSUME NEW g \in Live, g # h PROVE Heard(g)'
    <2>1. g \in Handle /\ client'[g] = client[g] /\ Heard(g)
        BY <1>0, <1>3 DEF Live
    <2>2. ASSUME NEW k \in Live, Finds(k, g), Pending(TimerOf("state", k))
          PROVE  Finds(k, g)' /\ Pending(TimerOf("state", k))'
        <3>1. ~Finds(k, h)
            BY <1>3, <2>2, FindsOne
        <3> QED BY <1>2, <2>2, <3>1
    <2> QED BY <1>1, <2>1, <2>2 DEF Heard
<1> QED BY <1>1, <1>3

LEMMA HeardStays ==
    ASSUME \A g \in Live : Heard(g), UNCHANGED client,
           \A k \in Live : Pending(TimerOf("state", k)) => Pending(TimerOf("state", k))'
    PROVE  \A g \in Live' : Heard(g)'
<1>1. Live' = Live /\ \A j, k : Finds(j, k)' <=> Finds(j, k)
    BY FindsKept DEF Live
<1> QED BY <1>1 DEF Heard

\* The client that is told is the only one that a notification finds.
LEMMA HeardStep ==
    ASSUME ClientTypeOK, DistinctAges, ~stopped, \A g \in Live : Heard(g), ClientNext
    PROVE  stopped' \/ \A g \in Live' : Heard(g)'
<1>0. /\ client \in [Handle -> Client] /\ due \in Seq(Timer) /\ later \in Seq(Timer)
      /\ running \in [cb : Callback, stt : Handle] \cup {None}
      /\ \A g \in Handle : client[g] \in Client
      /\ \A g \in Live : g \in Handle
    BY DEF ClientTypeOK, Live
<1>c. "state" \in Callback
    BY DEF Callback
<1>s. ASSUME UNCHANGED <<client, due, later>>
      PROVE  \A g \in Live' : Heard(g)'
    <2>1. \A k \in Live : Pending(TimerOf("state", k)) => Pending(TimerOf("state", k))'
        BY <1>s DEF Pending, Waits
    <2> QED BY <1>s, <2>1, HeardStays
<1>a. ASSUME NEW h \in Handle, NEW cb \in Callback \cup {"connect"}, Arm(cb, h), due' = due
      PROVE  /\ \A t : Pending(t) => Pending(t)'
             /\ Pending(TimerOf(cb, h))'
    <2>1. TimerOf(cb, h) \in Timer /\ later' = Append(later, TimerOf(cb, h))
        BY <1>a, TimerType DEF Arm
    <2> QED BY <1>0, <1>a, <2>1, WaitsInAppend DEF Pending
<1>f. ASSUME NEW h \in Live, NEW g, Finds(h, g), Live' = Live, Pending(TimerOf("state", h))',
             \A k \in Handle : client'[k].number = client[k].number /\ client'[k].age = client[k].age
      PROVE  Heard(g)'
    <2>1. Finds(h, g)'
        BY <1>f, FindsKept
    <2> QED BY <1>f, <2>1 DEF Heard
<1>1. ASSUME NEW h \in Handle, Create(h) PROVE \A g \in Live' : Heard(g)'
    <2>0. /\ Live' = Live \cup {h} /\ client'[h] = [Freed EXCEPT !.number = allocated']
          /\ \A g \in Live : client[g] \in Client
                             /\ client'[g] = [client[g] EXCEPT !.age = @ + 1]
        BY <1>1, CreateDoes
    <2>1. client'[h].told = client'[h].state
        BY <2>0, FreedType DEF Client
    <2>2. UNCHANGED <<due, later>>
        BY <1>1 DEF Create
    <2>3. ASSUME NEW g \in Live PROVE Heard(g)'
        <3>1. /\ client'[g].callbacks = client[g].callbacks /\ client'[g].told = client[g].told
              /\ client'[g].state = client[g].state
            BY <2>0 DEF Client
        <3>2. ASSUME NEW k \in Live, Finds(k, g), Pending(TimerOf("state", k))
              PROVE  Finds(k, g)' /\ Pending(TimerOf("state", k))' /\ k \in Live'
            BY <1>1, <2>0, <2>2, <3>2, FindsAmongMore DEF Pending, Waits
        <3> QED BY <3>1, <3>2 DEF Heard
    <2>4. Heard(h)'
        BY <2>1 DEF Heard
    <2> QED BY <2>0, <2>3, <2>4
<1>2. ASSUME NEW h \in Handle, NEW g \in Handle, Destroy(h, g)
      PROVE  stopped' \/ \A k \in Live' : Heard(k)'
    <2>1. /\ Finds(h, g) /\ Live' = Live \ {g}
          /\ \A k \in Live' : k \in Live /\ k # g /\ client'[k] = client[k]
          /\ UNCHANGED <<due, later>> /\ stopped' = (running.stt = g \/ h # g)
        BY <1>2, DestroyDoes
    <2>2. ASSUME h = g, NEW k \in Live' PROVE Heard(k)'
        <3>1. ASSUME NEW j \in Live, Finds(j, k), Pending(TimerOf("state", j))
              PROVE  j \in Live' /\ Finds(j, k)' /\ Pending(TimerOf("state", j))'
            <4>1. j # g
                <5>1. CASE j = g
                    <6>1. k = g
                        BY <2>1, <2>2, <3>1, <5>1, FindsOne
                    <6> QED BY <2>1, <6>1
                <5> QED BY <5>1
            <4>2. j \in Live'
                BY <2>1, <4>1
            <4>3. Live' \subseteq Live
                BY <2>1
            <4>4. Finds(j, k)'
                BY <2>1, <2>2, <3>1, <4>2, <4>3, FindsAmongLess
            <4> QED BY <2>1, <3>1, <4>2, <4>4 DEF Pending, Waits
        <3>2. k \in Live /\ client'[k] = client[k]
            BY <2>1, <2>2
        <3> QED BY <3>1, <3>2 DEF Heard
    <2> QED BY <2>1, <2>2
<1>3. ASSUME NEW h \in Handle, NEW g \in Handle, NEW cb \in Offered, SetCallback(h, g, cb)
      PROVE  \A k \in Live' : Heard(k)'
    <2>1. PICK K \in {client[g].callbacks \cup {cb}, client[g].callbacks \ {cb}} :
            client' = [client EXCEPT ![g].callbacks = K,
                           ![g].told = IF cb = "state" THEN "created" ELSE @]
        BY <1>3 DEF SetCallback
    <2>2. K \in SUBSET Callback /\ client[g] \in Client
        BY <1>0, ClientFields, ClientAssumption
    <2> DEFINE c == [client[g] EXCEPT !.callbacks = K,
                           !.told = IF cb = "state" THEN "created" ELSE @]
    <2>3. c \in Client /\ c.number = client[g].number /\ c.callbacks = K
          /\ c.state = client[g].state /\ c.age = client[g].age
          /\ c.told = IF cb = "state" THEN "created" ELSE client[g].told
        BY <2>2 DEF Client, HandleState
    <2>4. client' = [client EXCEPT ![g] = c]
        BY <1>0, <2>1
    <2> HIDE DEF c
    <2>5. g \in Live /\ client[g].state = "created" /\ UNCHANGED <<due, later>>
        BY <1>3, FoundIsFirst DEF SetCallback
    <2>6. cb # "state" => ("state" \in K <=> "state" \in client[g].callbacks)
        OBVIOUS
    <2>8. \A t : Pending(t) => Pending(t)'
        BY <2>5 DEF Pending, Waits
    <2>a. client'[g] = c /\ Live' = Live
        BY <1>0, <2>3, <2>4, TypedClient
    <2>b. \A k \in Handle : client'[k].number = client[k].number /\ client'[k].age = client[k].age
        BY <1>0, <2>3, <2>4
    <2>7. Heard(g)'
        <3>1. CASE "state" \in c.callbacks /\ c.told # c.state
            <4>1. "state" \in client[g].callbacks /\ client[g].told # client[g].state
                BY <2>3, <2>5, <2>6, <3>1
            <4>2. PICK k \in Live : Finds(k, g) /\ Pending(TimerOf("state", k))
                BY <2>5, <4>1 DEF Heard
            <4> QED BY <1>f, <2>8, <2>a, <2>b, <4>2
        <3>2. CASE ~("state" \in c.callbacks /\ c.told # c.state)
            BY <2>a, <3>2 DEF Heard
        <3> QED BY <3>1, <3>2
    <2> QED BY <2>3, <2>4, <2>7, <2>8, HeardKept
<1>4. ASSUME NEW h \in Handle, NEW g \in Handle, Prepare(h, g) PROVE \A k \in Live' : Heard(k)'
    <2>1. \A t : Pending(t) => Pending(t)'
        BY <1>4, <1>a DEF Prepare
    <2>2. UNCHANGED client
        BY <1>4 DEF Prepare
    <2> QED BY <2>1, <2>2, HeardStays
<1>t. ASSUME NEW h \in Live, NEW g \in Live, Finds(h, g), NEW s \in HandleState,
             client' = [client EXCEPT ![g].state = s], Pending(TimerOf("state", h))',
             \A k \in Live : Pending(TimerOf("state", k)) => Pending(TimerOf("state", k))'
      PROVE  \A k \in Live' : Heard(k)'
    <2> DEFINE c == [client[g] EXCEPT !.state = s]
    <2>0. g \in Handle /\ client[g] \in Client
        BY <1>0
    <2>1. c \in Client /\ c.number = client[g].number /\ c.age = client[g].age
        BY <2>0, StateAssigned
    <2>2. client' = [client EXCEPT ![g] = c]
        BY <1>t
    <2> HIDE DEF c
    <2>3. Live' = Live
        BY <2>0, <2>1, <2>2, TypedClient
    <2>4. \A k \in Handle : client'[k].number = client[k].number /\ client'[k].age = client[k].age
        BY <1>0, <2>1, <2>2
    <2>5. Heard(g)'
        BY <1>f, <1>t, <2>3, <2>4
    <2> QED BY <1>t, <2>0, <2>1, <2>2, <2>5, HeardKept
<1>5. ASSUME NEW h \in Handle, NEW g \in Handle, Finds(h, g), NEW s \in HandleState,
             client' = [client EXCEPT ![g].state = s], Arm("state", h), due' = due
      PROVE  \A k \in Live' : Heard(k)'
    <2>1. (\A t : Pending(t) => Pending(t)') /\ Pending(TimerOf("state", h))'
        BY <1>5, <1>a, <1>c
    <2>2. h \in Live /\ g \in Live
        BY <1>5, FoundIsFirst
    <2> QED BY <1>5, <1>t, <2>1, <2>2
<1>6. ASSUME NEW h \in Handle, NEW g \in Handle, Unprepare(h, g) PROVE \A k \in Live' : Heard(k)'
    BY <1>5, <1>6 DEF Unprepare, HandleState
<1>7. ASSUME NEW h \in Handle, NEW g \in Handle, NEW op \in {"start", "stop", "cancel"},
             NEW late \in BOOLEAN, Call(h, g, op, late)
      PROVE  \A k \in Live' : Heard(k)'
    <2>1. Reached[op] \in HandleState
        BY ReachedType DEF HandleState
    <2>2. CASE late
        BY <1>7, <1>s, <2>2 DEF Call
    <2>3. CASE ~late
        BY <1>5, <1>7, <2>1, <2>3 DEF Call
    <2> QED BY <2>2, <2>3
<1>13. ASSUME NEW h \in Handle, Ask(h) PROVE \A k \in Live' : Heard(k)'
    BY <1>13, <1>s DEF Ask
<1>r. ASSUME NEW g \in Handle, NEW cb \in Callback, Release(g, cb),
             cb # "state" \/ "state" \notin client[g].callbacks,
             \A k \in Live : ~Finds(k, g) \/ cb # "state" =>
                (Pending(TimerOf("state", k)) => Pending(TimerOf("state", k))')
      PROVE  \A k \in Live' : Heard(k)'
    <2> DEFINE c == Released(client[g], cb)
    <2>1. client' = [client EXCEPT ![g] = c]
        BY <1>r DEF Release
    <2>2. c \in Client /\ c.number = client[g].number /\ c.state = client[g].state
          /\ c.told = client[g].told /\ c.callbacks = client[g].callbacks
          /\ c.age = client[g].age
        BY <1>0, ReleasedType
    <2> HIDE DEF c
    <2>3. Live' = Live /\ client'[g] = c
        BY <1>0, <2>1, <2>2, TypedClient
    <2>4. \A k \in Handle : client'[k].number = client[k].number /\ client'[k].age = client[k].age
        BY <1>0, <2>1, <2>2
    <2>5. g \in Live => Heard(g)'
        <3> SUFFICES ASSUME g \in Live, "state" \in c.callbacks, c.told # c.state
                     PROVE  Heard(g)'
            BY <2>3 DEF Heard
        <3>1. PICK k \in Live : Finds(k, g) /\ Pending(TimerOf("state", k))
            BY <2>2 DEF Heard
        <3>2. Pending(TimerOf("state", k))'
            BY <1>r, <2>2, <3>1
        <3> QED BY <1>f, <2>3, <2>4, <3>1, <3>2
    <2> QED BY <1>r, <2>1, <2>2, <2>5, HeardKept
<1>8. CASE Return
    <2>1. running.stt \in Handle /\ running.cb \in Callback
        BY <1>0, <1>8 DEF Return
    <2>2. UNCHANGED <<due, later>> /\ Release(running.stt, running.cb)
        BY <1>8 DEF Return
    <2>3. \A t : Pending(t) => Pending(t)'
        BY <2>2 DEF Pending, Waits
    <2>4. CASE running.cb # "state"
        BY <1>r, <2>1, <2>2, <2>3, <2>4
    <2>5. CASE running.cb = "state"
        <3>1. client' = client
            BY <1>0, <2>1, <2>2, <2>5 DEF Release, Released
        <3> QED BY <1>s, <2>2, <3>1
    <2> QED BY <2>4, <2>5
<1>9. CASE RunTimer
    <2>1. due # <<>> /\ Head(due) \in Timer /\ Tail(due) \in Seq(Timer)
          /\ \A t : Waits(t, due) => t = Head(due) \/ Waits(t, Tail(due))
        BY <1>0, <1>9, WaitsInTail DEF RunTimer
    <2>2. PICK h \in Handle, cb \in Callback \cup {"connect"} :
                h = Head(due).stt /\ cb = Head(due).cb
        BY <2>1 DEF Timer
    <2>3. \A k \in Live : TimerOf("state", k) = Head(due) => k = h /\ cb = "state"
        BY <2>2 DEF TimerOf
    <2>4. ASSUME due' = Tail(due), \A t : Waits(t, later) => Waits(t, later')
          PROVE  \A k \in Live : k # h \/ cb # "state" =>
                    (Pending(TimerOf("state", k)) => Pending(TimerOf("state", k))')
        BY <2>1, <2>3, <2>4 DEF Pending
    <2>5. CASE cb = "connect" /\ RunConnect(h)
        <3>1. /\ due' = Tail(due) /\ \A t : Waits(t, later) => Waits(t, later')
              /\ \/ client' = client
                 \/ \E g \in Live : /\ client' = [client EXCEPT ![g].state = "ready"]
                                    /\ Finds(h, g)
                                    /\ Waits(TimerOf("state", h), later')
            BY <2>1, <2>2, <2>5, RunConnectDoes DEF RunConnect
        <3>2. \A k \in Live : Pending(TimerOf("state", k)) => Pending(TimerOf("state", k))'
            BY <2>4, <2>5, <3>1
        <3>3. CASE client' = client
            BY <3>2, <3>3, HeardStays
        <3>4. ASSUME NEW g \in Live, client' = [client EXCEPT ![g].state = "ready"],
                     Finds(h, g), Waits(TimerOf("state", h), later')
              PROVE  \A k \in Live' : Heard(k)'
            <4>1. h \in Live /\ "ready" \in HandleState /\ Pending(TimerOf("state", h))'
                BY <3>4, FoundIsFirst DEF HandleState, Pending
            <4> QED BY <1>t, <3>2, <3>4, <4>1
        <3> QED BY <3>1, <3>3, <3>4
    <2>6. CASE cb # "connect" /\ RunNotify(cb, h)
        <3>0. cb \in Callback
            BY <2>2, <2>6
        <3>1. due' = Tail(due) /\ later' = later
            BY <2>6 DEF RunNotify
        <3>2. \A k \in Live : k # h \/ cb # "state" =>
                    (Pending(TimerOf("state", k)) => Pending(TimerOf("state", k))')
            BY <2>4, <3>1
        <3>3. ASSUME NEW g \in Live, Finds(h, g), Notify(cb, g)
              PROVE  \A k \in Live' : Heard(k)'
            <4>1. CASE cb = "state"
                <5> DEFINE c == [client[g] EXCEPT !.told = client[g].state]
                <5>0. g \in Handle /\ client[g] \in Client
                    BY <1>0
                <5>1. c \in Client /\ c.number = client[g].number /\ c.age = client[g].age
                      /\ c.told = c.state
                    BY <5>0 DEF Client
                <5>2. client' = [client EXCEPT ![g] = c]
                    BY <3>3, <4>1 DEF Notify
                <5>3. client'[g] = c
                    BY <1>0, <5>0, <5>2
                <5>4. Heard(g)'
                    BY <5>1, <5>3 DEF Heard
                <5> HIDE DEF c
                <5>5. \A k \in Live : ~Finds(k, g) /\ Pending(TimerOf("state", k))
                                        => Pending(TimerOf("state", k))'
                    BY <3>2, <3>3
                <5> QED BY <5>0, <5>1, <5>2, <5>4, <5>5, HeardKept
            <4>2. CASE cb # "state"
                <5>1. UNCHANGED client
                    BY <3>3, <4>2 DEF Notify
                <5> QED BY <3>2, <4>2, <5>1, HeardStays
            <4> QED BY <4>1, <4>2
        <3>4. ASSUME NEW g \in Live, Finds(h, g), cb \notin client[g].callbacks, Release(g, cb)
              PROVE  \A k \in Live' : Heard(k)'
            <4>1. \A k \in Live : ~Finds(k, g) \/ cb # "state" =>
                    (Pending(TimerOf("state", k)) => Pending(TimerOf("state", k))')
                BY <3>2, <3>4
            <4> QED BY <1>0, <1>r, <3>0, <3>4, <4>1
        <3>5. CASE h \notin Live /\ UNCHANGED client
            <4>1. \A k \in Live : Pending(TimerOf("state", k)) => Pending(TimerOf("state", k))'
                BY <3>2, <3>5
            <4> QED BY <3>5, <4>1, HeardStays
        <3> QED BY <2>6, <3>3, <3>4, <3>5 DEF RunNotify
    <2> QED BY <1>9, <2>2, <2>5, <2>6 DEF RunTimer
<1>10. CASE Read
    <2>1. due = <<>> /\ later' = <<>>
        BY <1>10, ReadDoes
    <2>2. ASSUME NEW g \in Live, NEW kind, Finds(g, g), Take(g, kind)
          PROVE  \A k \in Live' : Heard(k)'
        <3>0. g \in Handle
            BY <1>0
        <3>1. PICK c \in Client :
                /\ client' = [client EXCEPT ![g] = c]
                /\ c.number = client[g].number /\ c.age = client[g].age
                /\ c.callbacks = client[g].callbacks /\ c.told = client[g].told
                /\ c.state # client[g].state /\ "state" \in c.callbacks
                        => Waits(TimerOf("state", g), due')
            BY <2>2, TakeDoes
        <3>2. \A t : Waits(t, later) => Waits(t, due')
            BY <2>2, TakeDoes
        <3>3. \A t : Pending(t) => Pending(t)'
            BY <2>1, <3>2, WaitsInSmall DEF Pending
        <3>4. client'[g] = c /\ Live' = Live
            BY <1>0, <3>0, <3>1, TypedClient
        <3>5. \A k \in Handle : client'[k].number = client[k].number /\ client'[k].age = client[k].age
            BY <1>0, <3>1
        <3>6. Heard(g)'
            <4>1. CASE ~("state" \in c.callbacks /\ c.told # c.state)
                BY <3>4, <4>1 DEF Heard
            <4>2. CASE c.state # client[g].state /\ "state" \in c.callbacks
                <5>1. Pending(TimerOf("state", g))'
                    BY <3>1, <4>2 DEF Pending
                <5> QED BY <1>f, <2>2, <3>4, <3>5, <5>1
            <4>3. CASE c.state = client[g].state /\ "state" \in c.callbacks /\ c.told # c.state
                <5>1. PICK k \in Live : Finds(k, g) /\ Pending(TimerOf("state", k))
                    BY <3>1, <4>3 DEF Heard
                <5> QED BY <1>f, <3>3, <3>4, <3>5, <5>1
            <4> QED BY <4>1, <4>2, <4>3
        <3> QED BY <3>0, <3>1, <3>3, <3>6, HeardKept
    <2>3. CASE due' = later /\ UNCHANGED client
        <3>1. \A t : Pending(t) => Pending(t)'
            BY <2>1, <2>3, WaitsInSmall DEF Pending
        <3> QED BY <2>3, <3>1, HeardStays
    <2> QED BY <1>10, <2>2, <2>3, ReadDoes
<1>11. CASE Round
    <2>1. due = <<>> /\ due' = later /\ UNCHANGED client
        BY <1>11 DEF Round, RoundIsOver
    <2>2. \A t : Pending(t) => Pending(t)'
        BY <2>1, WaitsInSmall DEF Pending
    <2> QED BY <2>1, <2>2, HeardStays
<1>12. CASE DaemonNext
    BY <1>12, <1>s DEF DaemonNext, Silence, Recognize, Partial, Check, Start, Die
<1> QED
    BY <1>1, <1>2, <1>3, <1>4, <1>6, <1>7, <1>8, <1>9, <1>10, <1>11, <1>12, <1>13
    DEF ClientNext, ApplicationNext, MainLoop

\* What has stopped stays so.
LEMMA StoppedStays ==
    ASSUME stopped, [ClientNext]_clientVars
    PROVE  stopped'
BY DEF clientVars, ClientNext, MainLoop, Return, RunTimer, Read, Round, ApplicationNext,
       Create, Destroy, SetCallback, Prepare, Unprepare, Call, Ask, DaemonNext, Silence,
       Recognize, Partial, Check, Start, Die

\* An application with a state callback knows the state of each of its clients,
\* or a notification that will tell it waits, however its own calls, the
\* deferred notifications and the daemon's messages are interleaved, also when
\* two of its handles have one number.
THEOREM ApplicationAlwaysTold == ClientSpec => []ApplicationIsTold
<1>1. ClientInit => ApplicationIsTold
    BY FreedType DEF ClientInit, ApplicationIsTold, Live
<1>2. ClientTypeOK /\ Numbered /\ ApplicationIsTold /\ [ClientNext]_clientVars
        => ApplicationIsTold'
    <2> SUFFICES ASSUME ClientTypeOK, DistinctAges, ApplicationIsTold, [ClientNext]_clientVars
                 PROVE  ApplicationIsTold'
        BY DEF Numbered
    <2>1. CASE UNCHANGED clientVars
        BY <2>1 DEF clientVars, ApplicationIsTold, Armed, Live, Finds
    <2>2. CASE stopped
        <3>1. stopped'
            BY <2>2, StoppedStays
        <3> QED BY <3>1 DEF ApplicationIsTold
    <2>3. CASE ClientNext /\ ~stopped
        <3>1. \A g \in Live : Heard(g)
            BY <2>3, HeardIsPending
        <3>2. stopped' \/ \A g \in Live' : Heard(g)'
            BY <2>3, <3>1, HeardStep
        <3>3. ApplicationIsTold' <=> (~stopped' => \A g \in Live' : Heard(g)')
            BY DEF ApplicationIsTold, Heard, Pending, Armed, Waits
        <3> QED BY <3>2, <3>3
    <2> QED BY <2>1, <2>2, <2>3
<1> QED BY <1>1, <1>2, ClientTyped, AlwaysNumbered, PTL DEF ClientSpec

-----------------------------------------------------------------------------
(* Strings.                                                                *)

IsNotice(t) == t.cb \in {"result", "partial"}
NoNotice(s) == \A i \in DOMAIN s : ~IsNotice(s[i])
OneNotice(s) == \A i, j \in DOMAIN s : IsNotice(s[i]) /\ IsNotice(s[j]) => i = j

Readable(cb, h) ==
    /\ cb = "result" => client[h].strings # "freed"
    /\ cb = "partial" => client[h].partial # "freed"

\* The listener reads when no notification waits any more, so there is one for
\* strings at a time: the one in this round, or the one the application is in.
\* The application is in a callback of the first client with its number.
Notices ==
    /\ NoNotice(later)
    /\ OneNotice(due)
    /\ running # None /\ IsNotice(running) => NoNotice(due)
    /\ \A t \in Timer : Waits(t, due) => Readable(t.cb, t.stt)
    /\ running # None /\ ~stopped => Finds(running.stt, running.stt)
    /\ running # None /\ ~stopped /\ Alone(running.stt) => Readable(running.cb, running.stt)

LEMMA NoticesInConcat ==
    ASSUME NEW s \in Seq(Timer), NEW r \in Seq(Timer)
    PROVE  /\ NoNotice(s) /\ OneNotice(r) => OneNotice(s \o r)
           /\ OneNotice(s) /\ NoNotice(r) => OneNotice(s \o r)
           /\ NoNotice(s) /\ NoNotice(r) => NoNotice(s \o r)
<1>1. /\ s \o r \in Seq(Timer) /\ Len(s) \in Nat /\ Len(r) \in Nat
      /\ DOMAIN s = 1..Len(s) /\ DOMAIN r = 1..Len(r) /\ DOMAIN (s \o r) = 1..(Len(s) + Len(r))
    OBVIOUS
<1>2. \A i \in DOMAIN s : (s \o r)[i] = s[i]
    BY <1>1
<1>3. \A i \in DOMAIN (s \o r) : i \notin DOMAIN s =>
            i - Len(s) \in DOMAIN r /\ (s \o r)[i] = r[i - Len(s)]
    BY <1>1
<1>4. ASSUME NoNotice(s), OneNotice(r),
             NEW i \in DOMAIN (s \o r), NEW j \in DOMAIN (s \o r),
             IsNotice((s \o r)[i]), IsNotice((s \o r)[j])
      PROVE  i = j
    <2>1. i \notin DOMAIN s /\ j \notin DOMAIN s
        BY <1>2, <1>4 DEF NoNotice
    <2>2. i - Len(s) = j - Len(s)
        BY <1>3, <1>4, <2>1 DEF OneNotice
    <2> QED BY <1>1, <2>2
<1>5. ASSUME OneNotice(s), NoNotice(r),
             NEW i \in DOMAIN (s \o r), NEW j \in DOMAIN (s \o r),
             IsNotice((s \o r)[i]), IsNotice((s \o r)[j])
      PROVE  i = j
    <2>1. i \in DOMAIN s /\ j \in DOMAIN s
        BY <1>3, <1>5 DEF NoNotice
    <2> QED BY <1>2, <1>5, <2>1 DEF OneNotice
<1>6. ASSUME NoNotice(s), NoNotice(r), NEW i \in DOMAIN (s \o r)
      PROVE  ~IsNotice((s \o r)[i])
    BY <1>2, <1>3, <1>6 DEF NoNotice
<1> QED BY <1>4, <1>5, <1>6 DEF NoNotice, OneNotice

LEMMA NoticesInSmall ==
    /\ NoNotice(<<>>) /\ OneNotice(<<>>)
    /\ \A x : OneNotice(<<x>>)
    /\ \A x : ~IsNotice(x) => NoNotice(<<x>>)
    /\ \A s \in Seq(Timer) : NoNotice(s) => OneNotice(s)
BY DEF NoNotice, OneNotice

LEMMA NoticesInAppend ==
    ASSUME NEW s \in Seq(Timer), NEW x \in Timer, NoNotice(s), ~IsNotice(x)
    PROVE  NoNotice(Append(s, x))
<1>1. \A i \in DOMAIN Append(s, x) : 
            Append(s, x)[i] = x \/ (i \in DOMAIN s /\ Append(s, x)[i] = s[i])
    OBVIOUS
<1> QED BY <1>1 DEF NoNotice

LEMMA NoticesInTail ==
    ASSUME NEW s \in Seq(Timer), s # <<>>, OneNotice(s)
    PROVE  /\ OneNotice(Tail(s))
           /\ IsNotice(Head(s)) => NoNotice(Tail(s))
<1>1. \A i \in DOMAIN Tail(s) : /\ i \in Nat /\ i > 0
                               /\ i + 1 \in DOMAIN s /\ Tail(s)[i] = s[i + 1]
    OBVIOUS
<1>2. 1 \in DOMAIN s /\ Head(s) = s[1]
    OBVIOUS
<1>3. ASSUME NEW i \in DOMAIN Tail(s), NEW j \in DOMAIN Tail(s),
             IsNotice(Tail(s)[i]), IsNotice(Tail(s)[j])
      PROVE  i = j
    <2>1. i + 1 = j + 1
        BY <1>1, <1>3 DEF OneNotice
    <2> QED BY <1>1, <2>1
<1>4. ASSUME IsNotice(Head(s)), NEW i \in DOMAIN Tail(s) PROVE ~IsNotice(Tail(s)[i])
    <2>1. i + 1 # 1
        BY <1>1
    <2> QED BY <1>1, <1>2, <1>4, <2>1 DEF OneNotice
<1> QED BY <1>3, <1>4 DEF OneNotice, NoNotice

LEMMA NoticeWaits ==
    ASSUME NEW s, NEW t, NoNotice(s), Waits(t, s)
    PROVE  ~IsNotice(t)
BY DEF NoNotice, Waits

\* A step that frees no string, arms nothing that hands one out, and neither
\* destroys the client the application is in a callback of nor another one with
\* its number.
LEMMA NoticesKept ==
    ASSUME ClientTypeOK, Notices, UNCHANGED <<due, running>>, NoNotice(later'),
           \A h \in Handle : /\ client'[h].strings \in {client[h].strings, "none"}
                             /\ client'[h].partial \in {client[h].partial, "none"},
           running # None /\ ~stopped' => /\ ~stopped /\ Finds(running.stt, running.stt)'
                                         /\ (Alone(running.stt)' => Alone(running.stt))
    PROVE  Notices'
<1>1. \A cb, h : h \in Handle /\ Readable(cb, h) => Readable(cb, h)'
    BY DEF Readable
<1>2. \A t \in Timer : t.stt \in Handle
    BY DEF Timer
<1>3. running # None => running.stt \in Handle
    BY DEF ClientTypeOK
<1>4. \A t \in Timer : Waits(t, due') => Waits(t, due)
    OBVIOUS
<1>5. \A t \in Timer : Waits(t, due') => Readable(t.cb, t.stt)'
    BY <1>1, <1>2, <1>4 DEF Notices
<1>6. ASSUME running' # None, ~stopped', Alone(running.stt)'
      PROVE  Readable(running.cb, running.stt)'
    <2>1. running # None /\ ~stopped /\ Alone(running.stt)
        BY <1>6
    <2>2. Readable(running.cb, running.stt) /\ running.stt \in Handle
        BY <1>3, <2>1 DEF Notices
    <2> QED BY <1>1, <2>2 DEF Readable
<1>7. running' # None /\ ~stopped' => Finds(running.stt, running.stt)'
    OBVIOUS
<1> QED BY <1>5, <1>6, <1>7 DEF Notices

LEMMA NoticesKeptBySame ==
    ASSUME ClientTypeOK, Notices, UNCHANGED <<due, running, stopped>>, NoNotice(later'),
           \A h \in Handle : /\ client'[h].strings = client[h].strings
                             /\ client'[h].partial = client[h].partial
                             /\ client'[h].number = client[h].number
                             /\ client'[h].age = client[h].age
    PROVE  Notices'
<1>1. \A h, g : Finds(h, g)' <=> Finds(h, g)
    BY FindsKept
<1>2. running # None => running.stt \in Handle
    BY DEF ClientTypeOK
<1>3. running # None => (Alone(running.stt)' => Alone(running.stt))
    BY <1>2 DEF Alone, Live
<1>4. ASSUME running # None, ~stopped' PROVE Finds(running.stt, running.stt)'
    <2>1. PICK r : r = running.stt
        OBVIOUS
    <2>2. Finds(r, r)
        BY <1>4, <2>1 DEF Notices
    <2>3. Finds(r, r)'
        BY <1>1, <2>2
    <2> QED BY <2>1, <2>3 DEF Finds
<1> QED BY <1>3, <1>4, NoticesKept

LEMMA NoticesStep ==
    ASSUME ClientTypeOK, DistinctAges, Notices, ClientNext
    PROVE  Notices'
<1>0. /\ client \in [Handle -> Client] /\ due \in Seq(Timer) /\ later \in Seq(Timer)
      /\ running \in [cb : Callback, stt : Handle] \cup {None}
      /\ \A g \in Handle : client[g] \in Client
    BY DEF ClientTypeOK
<1>a. ASSUME NEW h \in Handle, NEW cb \in {"connect", "state", "error"}, Arm(cb, h)
      PROVE  NoNotice(later')
    <2>1. /\ TimerOf(cb, h) \in Timer /\ ~IsNotice(TimerOf(cb, h))
          /\ later' = Append(later, TimerOf(cb, h))
        BY <1>a, TimerType DEF Arm, IsNotice, TimerOf, Callback
    <2> QED BY <1>0, <2>1, NoticesInAppend DEF Notices
<1>n. NoNotice(later)
    BY DEF Notices
<1>1. ASSUME NEW h \in Handle, Create(h) PROVE Notices'
    <2>1. client'[h] = [Freed EXCEPT !.number = allocated']
          /\ \A g \in Handle : g # h =>
                client'[g] \in {client[g], [client[g] EXCEPT !.age = @ + 1]}
        BY <1>1 DEF Create
    <2>2. client'[h].strings = "none" /\ client'[h].partial = "none"
        BY <2>1, FreedType DEF Client
    <2>3. \A g \in Handle : g # h => client'[g].strings = client[g].strings
                                     /\ client'[g].partial = client[g].partial
        BY <1>0, <2>1 DEF Client
    <2>4. UNCHANGED <<due, later, running, stopped>>
        BY <1>1 DEF Create
    <2>5. ASSUME running # None, ~stopped PROVE Finds(running.stt, running.stt)'
        <3>1. PICK r : r = running.stt
            OBVIOUS
        <3>2. Finds(r, r)
            BY <2>5, <3>1 DEF Notices
        <3>3. Finds(r, r)'
            BY <1>1, <3>2, FindsAmongMore
        <3> QED BY <2>4, <3>1, <3>3 DEF Finds
    <2>6. /\ Live \subseteq Live'
          /\ \A g \in Live : client'[g].number = client[g].number
        BY <1>1, CreateDoes
    <2>7. running # None /\ ~stopped /\ Alone(running.stt)' => Alone(running.stt)
        <3>1. running # None /\ ~stopped => running.stt \in Live
            BY DEF Notices, Finds
        <3> QED BY <2>6, <3>1, <2>4 DEF Alone
    <2> QED BY <1>n, <2>2, <2>3, <2>4, <2>5, <2>7, NoticesKept
<1>2. ASSUME NEW h \in Handle, NEW g \in Handle, Destroy(h, g) PROVE Notices'
    <2>1. client' = [client EXCEPT ![g] = Freed] /\ UNCHANGED <<due, later, running>> /\ ~stopped
        BY <1>2 DEF Destroy
    <2>2. \A k \in Handle : client'[k] \in {client[k], Freed}
        BY <1>0, <2>1
    <2>3. /\ Finds(h, g) /\ Live' = Live \ {g}
          /\ \A k \in Live' : k \in Live /\ client'[k] = client[k]
          /\ stopped' = (running.stt = g \/ h # g)
        BY <1>2, DestroyDoes
    <2>4. ASSUME running # None, ~stopped'
          PROVE  /\ Finds(running.stt, running.stt)'
                 /\ Alone(running.stt)' => Alone(running.stt)
        <3>0. PICK r : r = running.stt
            OBVIOUS
        <3>1. Finds(r, r) /\ r # g /\ r \in Live
            BY <2>1, <2>3, <2>4, <3>0 DEF Notices, Finds
        <3>2. r \in Live' /\ Live' \subseteq Live
            BY <2>3, <3>1
        <3>3. Finds(r, r)'
            BY <2>3, <3>1, <3>2, FindsAmongLess
        <3>4. client[g].number # client[r].number
            <4>1. Finds(g, g)
                BY <2>3, FoundIsFirst
            <4> QED BY <3>1, <4>1, FindsOne
        <3>5. Alone(r)' => Alone(r)
            <4> SUFFICES ASSUME Alone(r)', NEW k \in Live, client[k].number = client[r].number
                         PROVE  k = r
                BY DEF Alone
            <4>0. k # g
                BY <3>4
            <4>1. k \in Live'
                BY <2>3, <4>0
            <4>2. client'[k].number = client'[r].number
                BY <2>3, <3>2, <4>1
            <4> QED BY <4>1, <4>2 DEF Alone
        <3>6. running'.stt = r
            BY <2>1, <3>0
        <3>7. Finds(running.stt, running.stt)'
            BY <3>3, <3>6 DEF Finds
        <3>8. Alone(running.stt)' => Alone(running.stt)
            BY <3>0, <3>5, <3>6 DEF Alone
        <3> QED BY <3>7, <3>8
    <2> QED BY <1>n, <2>1, <2>2, <2>4, FreedType, NoticesKept
<1>3. ASSUME NEW h \in Handle, NEW g \in Handle, NEW cb \in Offered, SetCallback(h, g, cb)
      PROVE  Notices'
    <2>0. PICK K : client' = [client EXCEPT ![g].callbacks = K,
                                  ![g].told = IF cb = "state" THEN "created" ELSE @]
        BY <1>3 DEF SetCallback
    <2>1. UNCHANGED <<due, later, running, stopped>>
        BY <1>3 DEF SetCallback
    <2>2. \A k \in Handle : /\ client'[k].strings = client[k].strings
                            /\ client'[k].partial = client[k].partial
                            /\ client'[k].number = client[k].number
                            /\ client'[k].age = client[k].age
        BY <1>0, <2>0 DEF Client
    <2> QED BY <1>n, <2>1, <2>2, NoticesKeptBySame
<1>4. ASSUME NEW h \in Handle, NEW g \in Handle, Prepare(h, g) PROVE Notices'
    <2>1. NoNotice(later') /\ UNCHANGED <<client, due, running, stopped>>
        BY <1>4, <1>a DEF Prepare
    <2> QED BY <2>1, NoticesKeptBySame
<1>5. ASSUME NEW g \in Handle, NEW s, client' = [client EXCEPT ![g].state = s]
      PROVE  \A k \in Handle : /\ client'[k].strings = client[k].strings
                               /\ client'[k].partial = client[k].partial
                               /\ client'[k].number = client[k].number
                               /\ client'[k].age = client[k].age
    BY <1>0, <1>5 DEF Client
<1>6. ASSUME NEW h \in Handle, NEW g \in Handle, Unprepare(h, g) PROVE Notices'
    <2>1. NoNotice(later') /\ UNCHANGED <<due, running, stopped>>
          /\ client' = [client EXCEPT ![g].state = "created"]
        BY <1>6, <1>a DEF Unprepare
    <2> QED BY <1>5, <2>1, NoticesKeptBySame
<1>7. ASSUME NEW h \in Handle, NEW g \in Handle, NEW op \in {"start", "stop", "cancel"},
             NEW late \in BOOLEAN, Call(h, g, op, late)
      PROVE  Notices'
    <2>2. CASE late
        <3>1. UNCHANGED <<client, due, later, running, stopped>>
            BY <1>7, <2>2 DEF Call
        <3> QED BY <1>n, <3>1, NoticesKeptBySame
    <2>3. CASE ~late
        <3>1. NoNotice(later') /\ UNCHANGED <<due, running, stopped>>
              /\ client' = [client EXCEPT ![g].state = Reached[op]]
            BY <1>7, <1>a, <2>3 DEF Call
        <3> QED BY <1>5, <3>1, NoticesKeptBySame
    <2> QED BY <2>2, <2>3
<1>13. ASSUME NEW h \in Handle, Ask(h) PROVE Notices'
    <2>1. UNCHANGED <<client, due, later, running, stopped>>
        BY <1>13 DEF Ask
    <2> QED BY <1>n, <2>1, NoticesKeptBySame
<1>r. ASSUME NEW h \in Handle, NEW cb \in Callback, Release(h, cb),
             NEW k \in Handle, NEW other, Readable(other, k), ~IsNotice(TimerOf(other, k)) \/ cb \notin {"result", "partial"}
      PROVE  Readable(other, k)'
    <2>1. client' = [client EXCEPT ![h] = Released(client[h], cb)]
        BY <1>r DEF Release
    <2>2. CASE cb \notin {"result", "partial"}
        <3>1. client' = client
            BY <1>0, <2>1, <2>2 DEF Released
        <3> QED BY <1>r, <3>1 DEF Readable
    <2>3. CASE ~IsNotice(TimerOf(other, k))
        BY <2>3 DEF IsNotice, TimerOf, Readable
    <2> QED BY <1>r, <2>2, <2>3
<1>8. CASE Return
    <2>1. /\ running.stt \in Handle /\ running.cb \in Callback
          /\ UNCHANGED <<due, later>> /\ running' = None
          /\ running # None /\ Release(running.stt, running.cb)
        BY <1>0, <1>8 DEF Return
    <2>2. ASSUME NEW t \in Timer, Waits(t, due) PROVE Readable(t.cb, t.stt)'
        <3>1. t.stt \in Handle /\ Readable(t.cb, t.stt) /\ t = TimerOf(t.cb, t.stt)
            BY <2>2 DEF Timer, Notices, TimerOf
        <3>2. IsNotice(running) => ~IsNotice(t)
            BY <2>1, <2>2, NoticeWaits DEF Notices
        <3> QED BY <1>r, <2>1, <3>1, <3>2 DEF IsNotice
    <2> QED BY <2>1, <2>2 DEF Notices
<1>9. CASE RunTimer
    <2>1. /\ due # <<>> /\ Head(due) \in Timer /\ Tail(due) \in Seq(Timer)
          /\ \A t : Waits(t, due) <=> t = Head(due) \/ Waits(t, Tail(due))
          /\ running = None
        BY <1>0, <1>9, WaitsInTail DEF RunTimer
    <2>2. PICK h \in Handle, cb \in Callback \cup {"connect"} : Head(due) = TimerOf(cb, h)
        BY <2>1 DEF Timer, TimerOf
    <2>3. h = Head(due).stt /\ cb = Head(due).cb
        BY <2>2 DEF TimerOf
    <2>4. OneNotice(Tail(due)) /\ (IsNotice(Head(due)) => NoNotice(Tail(due)))
        BY <1>0, <2>1, NoticesInTail DEF Notices
    <2>5. Readable(cb, h) /\ \A t \in Timer : Waits(t, Tail(due)) => Readable(t.cb, t.stt)
        BY <2>1, <2>3 DEF Notices
    <2>6. CASE RunConnect(h) /\ UNCHANGED running
        <3>1. due' = Tail(due)
            BY <2>6 DEF RunConnect
        <3>2. NoNotice(later')
            <4>1. /\ TimerOf("connect", h) \in Timer /\ ~IsNotice(TimerOf("connect", h))
                  /\ TimerOf("state", h) \in Timer /\ ~IsNotice(TimerOf("state", h))
                  /\ TimerOf("error", h) \in Timer /\ ~IsNotice(TimerOf("error", h))
                BY TimerType DEF IsNotice, TimerOf, Callback
            <4>2. CASE later' = <<TimerOf("connect", h)>> \o later
                <5>1. <<TimerOf("connect", h)>> \in Seq(Timer) /\ NoNotice(<<TimerOf("connect", h)>>)
                    BY <4>1, WaitsInSmall, NoticesInSmall
                <5> QED BY <1>0, <1>n, <4>2, <5>1, NoticesInConcat
            <4>3. CASE \E outcome : later' = Append(later,
                                TimerOf(IF outcome = "granted" THEN "state" ELSE "error", h))
                BY <1>0, <1>n, <4>1, <4>3, NoticesInAppend
            <4> QED BY <2>6, <4>2, <4>3 DEF RunConnect
        <3>3. \A g \in Handle : client'[g].strings = client[g].strings
                               /\ client'[g].partial = client[g].partial
            <4>1. client' = client \/ \E g \in Live : client' = [client EXCEPT ![g].state = "ready"]
                BY <2>1, <2>6, RunConnectDoes
            <4> QED BY <1>5, <4>1 DEF Live
        <3>4. \A t \in Timer : Waits(t, due') => Readable(t.cb, t.stt)'
            BY <2>5, <3>1, <3>3 DEF Readable, Timer
        <3> QED BY <2>1, <2>4, <2>6, <3>1, <3>2, <3>4 DEF Notices
    <2>7. CASE cb # "connect" /\ RunNotify(cb, h)
        <3>0. cb \in Callback /\ due' = Tail(due) /\ later' = later
            BY <2>7 DEF RunNotify
        <3>1. ASSUME NEW g \in Live, Finds(h, g), Notify(cb, g) PROVE Notices'
            <4>0. \/ client' = client
                  \/ client' = [client EXCEPT ![g].told = client[g].state]
                BY <3>1 DEF Notify
            <4>1. \A k \in Handle : /\ client'[k].strings = client[k].strings
                                    /\ client'[k].partial = client[k].partial
                                    /\ client'[k].number = client[k].number
                                    /\ client'[k].age = client[k].age
                <5>1. CASE client' = [client EXCEPT ![g].told = client[g].state]
                    <6>1. PICK s : s = client[g].state
                        OBVIOUS
                    <6>2. client' = [client EXCEPT ![g].told = s]
                        BY <5>1, <6>1
                    <6> QED BY <1>0, <6>2 DEF Client
                <5> QED BY <4>0, <5>1
            <4>2. \A t \in Timer : Waits(t, due') => Readable(t.cb, t.stt)'
                BY <2>5, <3>0, <4>1 DEF Readable, Timer
            <4>3. running' = TimerOf(cb, g) /\ running'.cb = cb /\ running'.stt = g
                BY <3>1 DEF TimerOf, Notify
            <4>4. Live' = Live /\ Finds(g, g)'
                <5>1. Finds(g, g)
                    BY <3>1, FoundIsFirst
                <5> QED BY <4>1, <5>1, FindsKept DEF Live
            <4>5. Alone(g)' => Readable(cb, g)'
                <5>1. client[g].number = client[h].number /\ h \in Live /\ h \in Handle /\ g \in Handle
                    BY <3>1, FoundIsFirst
                <5>2. Alone(g)' => h = g
                    BY <4>1, <4>4, <5>1 DEF Alone
                <5> QED BY <2>5, <4>1, <5>1, <5>2 DEF Readable
            <4>6. IsNotice(running') => NoNotice(due')
                BY <2>2, <2>4, <3>0, <4>3 DEF IsNotice, TimerOf
            <4>7. Finds(running.stt, running.stt)'
                  /\ (Alone(running.stt)' => Readable(running.cb, running.stt)')
                BY <4>3, <4>4, <4>5 DEF Finds, Alone, Readable
            <4> QED BY <1>n, <2>4, <3>0, <4>2, <4>6, <4>7 DEF Notices
        <3>2. ASSUME NEW g \in Live, Release(g, cb), UNCHANGED running PROVE Notices'
            <4>1. ASSUME NEW t \in Timer, Waits(t, Tail(due)) PROVE Readable(t.cb, t.stt)'
                <5>1. t.stt \in Handle /\ Readable(t.cb, t.stt) /\ t = TimerOf(t.cb, t.stt)
                    BY <2>5, <4>1 DEF Timer, TimerOf
                <5>2. IsNotice(TimerOf(cb, h)) => ~IsNotice(t)
                    BY <2>2, <2>4, <4>1, NoticeWaits
                <5>3. g \in Handle
                    BY DEF Live
                <5> QED BY <1>r, <3>0, <3>2, <5>1, <5>2, <5>3 DEF IsNotice, TimerOf
            <4> QED BY <1>n, <2>1, <2>4, <3>0, <3>2, <4>1 DEF Notices
        <3>3. CASE UNCHANGED <<client, running>>
            <4>1. \A t \in Timer : Waits(t, due') => Readable(t.cb, t.stt)'
                BY <2>5, <3>0, <3>3 DEF Readable
            <4> QED BY <1>n, <2>1, <2>4, <3>0, <3>3, <4>1 DEF Notices
        <3> QED BY <2>7, <3>1, <3>2, <3>3 DEF RunNotify
    <2> QED BY <1>9, <2>3, <2>6, <2>7 DEF RunTimer
<1>10. CASE Read
    <2>1. due = <<>> /\ later' = <<>> /\ running = None /\ running' = None
        BY <1>10, ReadDoes
    <2>2. NoNotice(later')
        BY <2>1, NoticesInSmall
    <2>3. ASSUME NEW h \in Live, NEW kind, Take(h, kind)
          PROVE  /\ OneNotice(due')
                 /\ \A t \in Timer : Waits(t, due') => Readable(t.cb, t.stt)'
        <3>0. h \in Handle /\ client[h] \in Client
            BY <1>0 DEF Live
        <3>t. /\ <<>> \in Seq(Timer)
              /\ \A cb \in Callback : <<TimerOf(cb, h)>> \in Seq(Timer)
            BY <3>0, TimerType, WaitsInSmall
        <3>c. {"result", "state", "partial", "error"} = Callback
            BY DEF Callback
        <3>n. /\ NoNotice(<<>>) /\ OneNotice(<<>>)
              /\ \A cb \in Callback : OneNotice(<<TimerOf(cb, h)>>)
              /\ NoNotice(<<TimerOf("state", h)>>) /\ NoNotice(<<TimerOf("error", h)>>)
            BY NoticesInSmall DEF IsNotice, TimerOf
        <3>w. ASSUME NEW t \in Timer, Waits(t, later) PROVE Readable(t.cb, t.stt)'
            <4>1. ~IsNotice(t)
                BY <1>n, <3>w, NoticeWaits
            <4> QED BY <4>1 DEF IsNotice, Readable
        <3>1. ASSUME NEW texts \in BOOLEAN, TakeResult(h, texts)
              PROVE  /\ OneNotice(due')
                     /\ \A t \in Timer : Waits(t, due') => Readable(t.cb, t.stt)'
            <4> DEFINE wanted == "result" \in client[h].callbacks
                       r == IF wanted THEN <<TimerOf("result", h)>> ELSE <<>>
                       n == IF "state" \in client[h].callbacks THEN <<TimerOf("state", h)>> ELSE <<>>
            <4>1. /\ due' = (later \o r) \o n
                  /\ wanted => client'[h].strings = "held"
                BY <1>0, <3>0, <3>1 DEF TakeResult, Client
            <4>2. r \in Seq(Timer) /\ n \in Seq(Timer) /\ OneNotice(r) /\ NoNotice(n)
                BY <3>t, <3>c, <3>n
            <4>3. \A t : (Waits(t, r) => wanted /\ t = TimerOf("result", h))
                        /\ (Waits(t, n) => t = TimerOf("state", h))
                BY WaitsInSmall
            <4> HIDE DEF r, n
            <4>4. later \o r \in Seq(Timer) /\ OneNotice(later \o r)
                  /\ \A t : Waits(t, later \o r) <=> Waits(t, later) \/ Waits(t, r)
                BY <1>0, <1>n, <4>2, NoticesInConcat, WaitsInConcat
            <4>5. OneNotice(due') /\ \A t : Waits(t, due') <=> Waits(t, later \o r) \/ Waits(t, n)
                BY <4>1, <4>2, <4>4, NoticesInConcat, WaitsInConcat
            <4>6. wanted => Readable("result", h)'
                BY <4>1 DEF Readable
            <4>7. Readable("state", h)'
                BY DEF Readable
            <4>8. ASSUME NEW t \in Timer, Waits(t, due') PROVE Readable(t.cb, t.stt)'
                <5>1. CASE Waits(t, r)
                    <6>1. wanted /\ t.cb = "result" /\ t.stt = h
                        BY <4>3, <5>1 DEF TimerOf
                    <6> QED BY <4>6, <6>1
                <5>2. CASE Waits(t, n)
                    <6>1. t.cb = "state" /\ t.stt = h
                        BY <4>3, <5>2 DEF TimerOf
                    <6> QED BY <4>7, <6>1
                <5> QED BY <3>w, <4>4, <4>5, <4>8, <5>1, <5>2
            <4> QED BY <4>5, <4>8
        <3>2. ASSUME TakePartial(h)
              PROVE  /\ OneNotice(due')
                     /\ \A t \in Timer : Waits(t, due') => Readable(t.cb, t.stt)'
            <4> DEFINE taken == client[h].state # "ready" /\ "partial" \in client[h].callbacks
                       r == IF taken THEN <<TimerOf("partial", h)>> ELSE <<>>
            <4>1. /\ due' = later \o r
                  /\ taken => client'[h].partial = "held"
                BY <1>0, <3>0, <3>2 DEF TakePartial, Client
            <4>2. r \in Seq(Timer) /\ OneNotice(r)
                BY <3>t, <3>c, <3>n
            <4>3. \A t : Waits(t, r) => taken /\ t = TimerOf("partial", h)
                BY WaitsInSmall
            <4> HIDE DEF r, taken
            <4>4. OneNotice(due') /\ \A t : Waits(t, due') <=> Waits(t, later) \/ Waits(t, r)
                BY <1>0, <1>n, <4>1, <4>2, NoticesInConcat, WaitsInConcat
            <4>5. ASSUME NEW t \in Timer, Waits(t, r) PROVE Readable(t.cb, t.stt)'
                BY <4>1, <4>3, <4>5 DEF Readable, TimerOf
            <4> QED BY <3>w, <4>4, <4>5
        <3>3. ASSUME NEW r \in Seq(Timer), NoNotice(r), due' = later \o r
              PROVE  /\ OneNotice(due')
                     /\ \A t \in Timer : Waits(t, due') => Readable(t.cb, t.stt)'
            <4>1. NoNotice(due') /\ due' \in Seq(Timer)
                BY <1>0, <1>n, <3>3, NoticesInConcat, WaitsInConcat
            <4>2. \A t \in Timer : Waits(t, due') => ~IsNotice(t)
                BY <4>1, NoticeWaits
            <4> QED BY <4>1, <4>2, NoticesInSmall DEF IsNotice, Readable
        <3>4. CASE TakeError(h)
            BY <3>3, <3>4, <3>t, <3>c, <3>n DEF TakeError
        <3>5. ASSUME NEW s, TakeState(h, s)
              PROVE  /\ OneNotice(due')
                     /\ \A t \in Timer : Waits(t, due') => Readable(t.cb, t.stt)'
            BY <3>3, <3>5, <3>t, <3>c, <3>n DEF TakeState
        <3> QED BY <2>3, <3>1, <3>2, <3>4, <3>5 DEF Take
    <2>4. CASE due' = later /\ UNCHANGED client
        <3>1. OneNotice(due')
            BY <1>0, <1>n, <2>4, NoticesInSmall
        <3>2. \A t \in Timer : Waits(t, due') => ~IsNotice(t)
            BY <1>n, <2>4, NoticeWaits
        <3>3. \A t \in Timer : Waits(t, due') => Readable(t.cb, t.stt)'
            BY <3>2 DEF IsNotice, Readable
        <3> QED BY <2>1, <2>2, <3>1, <3>3 DEF Notices
    <2>5. ASSUME NEW h \in Live, NEW kind, Take(h, kind) PROVE Notices'
        BY <2>1, <2>2, <2>3, <2>5 DEF Notices
    <2> QED BY <1>10, <2>4, <2>5, ReadDoes
<1>11. CASE Round
    <2>1. /\ due' = later /\ later' = <<>> /\ UNCHANGED client
          /\ running = None /\ running' = None
        BY <1>11 DEF Round, RoundIsOver
    <2>2. OneNotice(due') /\ NoNotice(later')
        BY <1>0, <1>n, <2>1, NoticesInSmall
    <2>3. \A t \in Timer : Waits(t, due') => ~IsNotice(t)
        BY <1>n, <2>1, NoticeWaits
    <2>4. \A t \in Timer : Waits(t, due') => Readable(t.cb, t.stt)'
        BY <2>3 DEF IsNotice, Readable
    <2> QED BY <2>1, <2>2, <2>4 DEF Notices
<1>12. CASE DaemonNext
    <2>1. UNCHANGED <<client, due, later, running, stopped>>
        BY <1>12 DEF DaemonNext, Silence, Recognize, Partial, Check, Start, Die
    <2> QED BY <1>n, <2>1, NoticesKeptBySame
<1> QED
    BY <1>1, <1>2, <1>3, <1>4, <1>6, <1>7, <1>8, <1>9, <1>10, <1>11, <1>12, <1>13
    DEF ClientNext, ApplicationNext, MainLoop

\* The application is never handed strings that were freed by a handle that has
\* its number for itself, however many results and partial results arrive, and
\* whatever it destroys and creates while their notifications wait.
THEOREM StringsNeverFreed == ClientSpec => []StringsAreNotFreed
<1>1. ClientInit => Notices
    <2> SUFFICES ASSUME ClientInit PROVE Notices
        OBVIOUS
    <2> QED BY NoticesInSmall, WaitsInSmall DEF ClientInit, Notices
<1>2. ClientTypeOK /\ Numbered /\ Notices /\ [ClientNext]_clientVars => Notices'
    <2>1. ASSUME ClientTypeOK, Notices, UNCHANGED clientVars PROVE Notices'
        <3>1. UNCHANGED <<client, due, later, running, stopped>>
            BY <2>1 DEF clientVars
        <3>2. NoNotice(later')
            BY <2>1, <3>1 DEF Notices
        <3> QED BY <2>1, <3>1, <3>2, NoticesKeptBySame
    <2> QED BY <2>1, NoticesStep DEF Numbered
<1>3. Notices => StringsAreNotFreed
    BY DEF Notices, StringsAreNotFreed, Readable
<1> QED BY <1>1, <1>2, <1>3, ClientTyped, AlwaysNumbered, PTL DEF ClientSpec

-----------------------------------------------------------------------------
(* Results on their way.                                                   *)

Notice == {"result", "partial"}

HoldsIn(c, cb) ==
    \/ cb = "result" /\ "held" \in {c.strings, c.list}
    \/ cb = "partial" /\ c.partial = "held"

OnItsWay(t) == Pending(t) \/ running = t

HandsOver(h) ==
    \A cb \in Notice : HoldsIn(client[h], cb) => OnItsWay(TimerOf(cb, h))

LEMMA KeptBackIsHeld ==
    NothingIsKeptBack <=> (~stopped => \A h \in Live : HandsOver(h))
BY WaitsInArmed DEF NothingIsKeptBack, HandsOver, HoldsIn, Notice, OnItsWay, Pending

\* A step at one address that loses no notification of another.
LEMMA HandsOverKept ==
    ASSUME ClientTypeOK, \A g \in Live : HandsOver(g),
           NEW h \in Handle, NEW c \in Client, client' = [client EXCEPT ![h] = c],
           c.number = client[h].number,
           h \in Live => HandsOver(h)',
           \A g \in Live, cb \in Notice :
                g # h /\ HoldsIn(client[g], cb) /\ OnItsWay(TimerOf(cb, g))
                    => OnItsWay(TimerOf(cb, g))'
    PROVE  \A g \in Live' : HandsOver(g)'
<1>1. Live' = Live
    BY TypedClient
<1>2. ASSUME NEW g \in Live, g # h PROVE HandsOver(g)'
    <2>1. g \in Handle /\ client'[g] = client[g] /\ HandsOver(g)
        BY <1>2 DEF ClientTypeOK, Live
    <2> QED BY <1>2, <2>1 DEF HandsOver
<1> QED BY <1>1, <1>2

\* A handle that is not found first with its number holds nothing, as messages
\* are given to the one that is.
Untouched(g) == Finds(g, g) \/ \A cb \in Notice : ~HoldsIn(client[g], cb)

\* What the listener puts into a handle, it announces.
LEMMA TakeHolds ==
    ASSUME ClientTypeOK, NEW h \in Live, NEW kind, Take(h, kind)
    PROVE  \A cb \in Notice : HoldsIn(client'[h], cb) =>
                HoldsIn(client[h], cb) \/ Waits(TimerOf(cb, h), due')
<1>0. /\ h \in Handle /\ client[h] \in Client /\ client \in [Handle -> Client]
      /\ later \in Seq(Timer)
    BY DEF Live, ClientTypeOK
<1>t. \A cb \in Callback : <<TimerOf(cb, h)>> \in Seq(Timer) /\ <<>> \in Seq(Timer)
    BY <1>0, TimerType, WaitsInSmall
<1>c. {"result", "state", "partial", "error"} \subseteq Callback
    BY DEF Callback
<1>1. ASSUME NEW texts, TakeResult(h, texts)
      PROVE  /\ HoldsIn(client'[h], "result") =>
                    HoldsIn(client[h], "result") \/ Waits(TimerOf("result", h), due')
             /\ client'[h].partial = client[h].partial
    <2> DEFINE wanted == "result" \in client[h].callbacks
               r == IF wanted THEN <<TimerOf("result", h)>> ELSE <<>>
               n == IF "state" \in client[h].callbacks THEN <<TimerOf("state", h)>> ELSE <<>>
    <2>1. /\ due' = (later \o r) \o n
          /\ client'[h].partial = client[h].partial
          /\ ~wanted => client'[h].strings = client[h].strings
                        /\ client'[h].list = client[h].list
        BY <1>0, <1>1 DEF TakeResult, Client
    <2>2. r \in Seq(Timer) /\ n \in Seq(Timer)
        BY <1>t, <1>c
    <2>3. wanted => Waits(TimerOf("result", h), r)
        BY WaitsInSmall
    <2> HIDE DEF r, n
    <2>4. later \o r \in Seq(Timer) /\ \A t : Waits(t, r) => Waits(t, later \o r)
        BY <1>0, <2>2, WaitsInConcat
    <2>5. \A t : Waits(t, later \o r) => Waits(t, due')
        BY <2>1, <2>2, <2>4, WaitsInConcat
    <2> QED BY <2>1, <2>3, <2>4, <2>5 DEF HoldsIn
<1>2. ASSUME TakePartial(h)
      PROVE  /\ HoldsIn(client'[h], "partial") =>
                    HoldsIn(client[h], "partial") \/ Waits(TimerOf("partial", h), due')
             /\ client'[h].strings = client[h].strings /\ client'[h].list = client[h].list
    <2> DEFINE taken == client[h].state # "ready" /\ "partial" \in client[h].callbacks
               r == IF taken THEN <<TimerOf("partial", h)>> ELSE <<>>
    <2>1. /\ due' = later \o r
          /\ client'[h].strings = client[h].strings /\ client'[h].list = client[h].list
          /\ ~taken => client'[h].partial = client[h].partial
        BY <1>0, <1>2 DEF TakePartial, Client
    <2>2. r \in Seq(Timer)
        BY <1>t, <1>c
    <2>3. taken => Waits(TimerOf("partial", h), r)
        BY WaitsInSmall
    <2> HIDE DEF r, taken
    <2>4. \A t : Waits(t, r) => Waits(t, due')
        BY <1>0, <2>1, <2>2, WaitsInConcat
    <2> QED BY <2>1, <2>3, <2>4 DEF HoldsIn
<1>3. TakeError(h) => client' = client
    BY DEF TakeError
<1>4. ASSUME NEW s, TakeState(h, s)
      PROVE  /\ client'[h].strings = client[h].strings /\ client'[h].list = client[h].list
             /\ client'[h].partial = client[h].partial
    BY <1>0, <1>4 DEF TakeState, Client
<1> DEFINE Announced == \A cb \in Notice : HoldsIn(client'[h], cb) =>
                            HoldsIn(client[h], cb) \/ Waits(TimerOf(cb, h), due')
<1>5. ASSUME NEW texts, TakeResult(h, texts) PROVE Announced
    BY <1>1, <1>5 DEF Notice, HoldsIn
<1>6. ASSUME TakePartial(h) PROVE Announced
    BY <1>2, <1>6 DEF Notice, HoldsIn
<1>7. ASSUME TakeError(h) PROVE Announced
    BY <1>3, <1>7
<1>8. ASSUME NEW s, TakeState(h, s) PROVE Announced
    BY <1>4, <1>8 DEF Notice, HoldsIn
<1> HIDE DEF Announced
<1>9. Announced
    BY <1>5, <1>6, <1>7, <1>8, Zenon DEF Take
<1> QED BY <1>9 DEF Announced

\* Letting go of a notification leaves nothing of it in the handle.
LEMMA ReleasedHolds ==
    ASSUME NEW c \in Client, NEW cb \in Callback
    PROVE  \A k \in Notice : HoldsIn(Released(c, cb), k) => k # cb /\ HoldsIn(c, k)
<1>1. \A x \in Heap : Freeing(x) # "held"
    BY DEF Heap, Freeing
<1>2. c.strings \in Heap /\ c.list \in Heap /\ c.partial \in Heap
    BY ClientFields
<1> QED BY <1>1, <1>2 DEF Released, HoldsIn, Notice, Client

LEMMA UntouchedStep ==
    ASSUME ClientTypeOK, \A g \in Live : Untouched(g), ClientNext
    PROVE  \A g \in Live' : Untouched(g)'
<1>0. /\ client \in [Handle -> Client] /\ due \in Seq(Timer)
      /\ running \in [cb : Callback, stt : Handle] \cup {None}
      /\ \A g \in Handle : client[g] \in Client
      /\ \A g \in Live : g \in Handle
    BY DEF ClientTypeOK, Live
<1>1. ASSUME NEW h \in Handle, Create(h) PROVE \A g \in Live' : Untouched(g)'
    <2>1. /\ Live' = Live \cup {h} /\ client'[h] = [Freed EXCEPT !.number = allocated']
          /\ \A g \in Live : client[g] \in Client
                             /\ client'[g] = [client[g] EXCEPT !.age = @ + 1]
        BY <1>1, CreateDoes
    <2>2. Untouched(h)'
        BY <2>1, FreedType DEF Untouched, HoldsIn, Client
    <2>3. ASSUME NEW g \in Live PROVE Untouched(g)'
        <3>1. /\ client'[g].strings = client[g].strings /\ client'[g].list = client[g].list
              /\ client'[g].partial = client[g].partial
            BY <2>1 DEF Client
        <3>2. Finds(g, g) => Finds(g, g)'
            BY <1>1, FindsAmongMore
        <3> QED BY <3>1, <3>2 DEF Untouched, HoldsIn
    <2> QED BY <2>1, <2>2, <2>3
<1>2. ASSUME NEW h \in Handle, NEW g \in Handle, Destroy(h, g) PROVE \A k \in Live' : Untouched(k)'
    <2>1. Live' \subseteq Live /\ \A k \in Live' : client'[k] = client[k]
        BY <1>2, DestroyDoes
    <2>2. ASSUME NEW k \in Live' PROVE Untouched(k)'
        <3>1. Untouched(k) /\ client'[k] = client[k]
            BY <2>1, <2>2
        <3>2. Finds(k, k) => Finds(k, k)'
            BY <2>1, <2>2, FindsAmongLess
        <3> QED BY <3>1, <3>2 DEF Untouched
    <2> QED BY <2>2
<1>3. CASE ~CreatesOrDestroys
    <2> DEFINE Gained(k, cb) == HoldsIn(client'[k], cb) /\ ~HoldsIn(client[k], cb)
               NoGain == \A k \in Live, cb \in Notice : Gained(k, cb) => Finds(k, k)
    <2>u. ASSUME UNCHANGED client PROVE NoGain
        BY <2>u
    <2>1. ASSUME NEW g \in Handle, NEW s, client' = [client EXCEPT ![g].state = s] PROVE NoGain
        BY <1>0, <2>1 DEF HoldsIn, Client
    <2>2. ASSUME NEW g \in Handle, NEW s, client' = [client EXCEPT ![g].told = s] PROVE NoGain
        BY <1>0, <2>2 DEF HoldsIn, Client
    <2>3. ASSUME NEW g \in Handle, NEW cb \in Callback, Release(g, cb) PROVE NoGain
        <3>1. client' = [client EXCEPT ![g] = Released(client[g], cb)]
            BY <2>3 DEF Release
        <3>2. \A k \in Notice : HoldsIn(Released(client[g], cb), k) => HoldsIn(client[g], k)
            BY <1>0, ReleasedHolds
        <3> QED BY <1>0, <3>1, <3>2
    <2>4. ASSUME NEW g \in Live, NEW kind, Finds(g, g), Take(g, kind) PROVE NoGain
        <3>1. PICK c \in Client : client' = [client EXCEPT ![g] = c]
            BY <2>4, TakeDoes
        <3> QED BY <1>0, <2>4, <3>1
    <2>5. ASSUME NEW h \in Handle, NEW g \in Handle, NEW cb \in Offered, SetCallback(h, g, cb)
          PROVE  NoGain
        <3>1. PICK K : client' = [client EXCEPT ![g].callbacks = K,
                                      ![g].told = IF cb = "state" THEN "created" ELSE @]
            BY <2>5 DEF SetCallback
        <3>2. \A k \in Handle : /\ client'[k].strings = client[k].strings
                                /\ client'[k].list = client[k].list
                                /\ client'[k].partial = client[k].partial
            BY <1>0, <3>1 DEF Client
        <3> QED BY <1>0, <3>2 DEF HoldsIn
    <2>6. ASSUME RunTimer PROVE NoGain
        <3>1. due # <<>> /\ Head(due) \in Timer
            BY <1>0, <2>6, WaitsInTail DEF RunTimer
        <3>2. PICK h \in Handle, cb \in Callback \cup {"connect"} :
                    h = Head(due).stt /\ cb = Head(due).cb
            BY <3>1 DEF Timer
        <3>3. CASE RunConnect(h)
            <4>1. client' = client \/ \E g \in Live : client' = [client EXCEPT ![g].state = "ready"]
                BY <3>1, <3>3, RunConnectDoes
            <4> QED BY <1>0, <2>1, <2>u, <4>1
        <3>4. CASE cb \in Callback /\ RunNotify(cb, h)
            <4>1. \/ client' = client
                  \/ \E g \in Live : client' = [client EXCEPT ![g].told = client[g].state]
                  \/ \E g \in Live : Release(g, cb)
                BY <3>4 DEF RunNotify, Notify
            <4> QED BY <1>0, <2>2, <2>3, <2>u, <3>4, <4>1
        <3> QED BY <2>6, <3>2, <3>3, <3>4 DEF RunTimer
    <2>7. ASSUME Read PROVE NoGain
        BY <2>4, <2>7, <2>u, ReadDoes
    <2>8. ASSUME Return PROVE NoGain
        <3>1. running.stt \in Handle /\ running.cb \in Callback
            BY <1>0, <2>8 DEF Return
        <3> QED BY <2>3, <2>8, <3>1 DEF Return
    <2>9. ASSUME NEW h \in Handle, NEW g \in Handle, Unprepare(h, g) PROVE NoGain
        BY <2>1, <2>9 DEF Unprepare
    <2>10. ASSUME NEW h \in Handle, NEW g \in Handle, NEW op \in {"start", "stop", "cancel"},
                  NEW late \in BOOLEAN, Call(h, g, op, late)
           PROVE  NoGain
        <3>1. client' = client \/ client' = [client EXCEPT ![g].state = Reached[op]]
            BY <2>10 DEF Call
        <3> QED BY <2>1, <2>u, <3>1
    <2>11. ASSUME NEW h \in Handle, NEW g \in Handle, Prepare(h, g) \/ Ask(h) PROVE NoGain
        BY <2>u, <2>11 DEF Prepare, Ask
    <2>12. ASSUME DaemonNext \/ Round PROVE NoGain
        BY <2>u, <2>12 DEF DaemonNext, Silence, Recognize, Partial, Check, Start, Die, Round
    <2> HIDE DEF NoGain
    <2>13. NoGain
        BY <1>3, <2>5, <2>6, <2>7, <2>8, <2>9, <2>10, <2>11, <2>12
        DEF ClientNext, ApplicationNext, MainLoop, CreatesOrDestroys
    <2>14. /\ \A k \in Handle : client'[k].number = client[k].number /\ client'[k].age = client[k].age
           /\ Live' = Live
        BY <1>3, NumbersKept DEF Live
    <2>15. \A k : Finds(k, k)' <=> Finds(k, k)
        BY <2>14, FindsKept
    <2> QED BY <2>13, <2>14, <2>15 DEF Untouched, NoGain
<1> QED BY <1>1, <1>2, <1>3 DEF CreatesOrDestroys

LEMMA HandsOverStep ==
    ASSUME ClientTypeOK, DistinctAges, ~stopped, ClientNext,
           \A g \in Live : HandsOver(g) /\ Untouched(g)
    PROVE  stopped' \/ \A g \in Live' : HandsOver(g)'
<1>0. /\ client \in [Handle -> Client] /\ due \in Seq(Timer) /\ later \in Seq(Timer)
      /\ running \in [cb : Callback, stt : Handle] \cup {None}
      /\ \A g \in Handle : client[g] \in Client
      /\ \A g \in Live : g \in Handle
    BY DEF ClientTypeOK, Live
<1>s. ASSUME UNCHANGED client, \A t : OnItsWay(t) => OnItsWay(t)'
      PROVE  \A g \in Live' : HandsOver(g)'
    <2>1. Live' = Live
        BY <1>s DEF Live
    <2> QED BY <1>s, <2>1 DEF HandsOver
<1>u. UNCHANGED <<due, later, running>> => \A t : OnItsWay(t) => OnItsWay(t)'
    BY DEF OnItsWay, Pending, Waits
<1>a. ASSUME NEW h \in Handle, NEW cb \in Callback \cup {"connect"}, Arm(cb, h),
             UNCHANGED <<due, running>>
      PROVE  \A t : OnItsWay(t) => OnItsWay(t)'
    <2>1. TimerOf(cb, h) \in Timer /\ later' = Append(later, TimerOf(cb, h))
        BY <1>a, TimerType DEF Arm
    <2> QED BY <1>0, <1>a, <2>1, WaitsInAppend DEF OnItsWay, Pending
<1>q. ASSUME NEW h \in Handle, NEW c \in Client, client' = [client EXCEPT ![h] = c],
             c.number = client[h].number, c.strings = client[h].strings,
             c.list = client[h].list, c.partial = client[h].partial,
             \A t : OnItsWay(t) => OnItsWay(t)'
      PROVE  \A g \in Live' : HandsOver(g)'
    <2>1. client'[h] = c
        BY <1>0, <1>q
    <2>2. h \in Live => HandsOver(h)'
        BY <1>q, <2>1 DEF HandsOver, HoldsIn
    <2> QED BY <1>q, <2>2, HandsOverKept
<1>t. ASSUME NEW h \in Handle, NEW s \in HandleState, client' = [client EXCEPT ![h].state = s],
             \A t : OnItsWay(t) => OnItsWay(t)'
      PROVE  \A g \in Live' : HandsOver(g)'
    <2> DEFINE c == [client[h] EXCEPT !.state = s]
    <2>1. c \in Client /\ c.number = client[h].number /\ c.strings = client[h].strings
          /\ c.list = client[h].list /\ c.partial = client[h].partial
        BY <1>0 DEF Client
    <2>2. client' = [client EXCEPT ![h] = c]
        BY <1>t
    <2> HIDE DEF c
    <2> QED BY <1>q, <1>t, <2>1, <2>2
<1>r. ASSUME NEW h \in Handle, NEW cb \in Callback, Release(h, cb),
             \A g \in Live, k \in Notice :
                HoldsIn(client[g], k) /\ OnItsWay(TimerOf(k, g)) /\ ~(g = h /\ k = cb)
                    => OnItsWay(TimerOf(k, g))'
      PROVE  \A g \in Live' : HandsOver(g)'
    <2> DEFINE c == Released(client[h], cb)
    <2>1. client' = [client EXCEPT ![h] = c] /\ client'[h] = c
        BY <1>0, <1>r DEF Release
    <2>2. c \in Client /\ c.number = client[h].number
          /\ \A k \in Notice : HoldsIn(c, k) => k # cb /\ HoldsIn(client[h], k)
        BY <1>0, ReleasedType, ReleasedHolds
    <2> HIDE DEF c
    <2>3. ASSUME h \in Live PROVE HandsOver(h)'
        BY <1>r, <2>1, <2>2, <2>3 DEF HandsOver
    <2> QED BY <1>r, <2>1, <2>2, <2>3, HandsOverKept
<1>1. ASSUME NEW h \in Handle, Create(h) PROVE \A g \in Live' : HandsOver(g)'
    <2>1. client'[h] = [Freed EXCEPT !.number = allocated']
        BY <1>1 DEF Create
    <2>2. HandsOver(h)'
        BY <2>1, FreedType DEF Client, HandsOver, HoldsIn
    <2>3. UNCHANGED <<due, later, running>>
        BY <1>1 DEF Create
    <2>4. ASSUME NEW g \in Live', g # h PROVE HandsOver(g)'
        <3>1. g \in Handle /\ client'[g] = IF g \in Live THEN [client[g] EXCEPT !.age = @ + 1]
                                           ELSE client[g]
            BY <1>1, <2>4 DEF Create, Live
        <3>2. g \in Live
            BY <2>4, <3>1 DEF Live
        <3>3. client'[g].strings = client[g].strings /\ client'[g].list = client[g].list
              /\ client'[g].partial = client[g].partial
            BY <1>0, <3>1, <3>2 DEF Client
        <3> QED BY <1>u, <2>3, <3>2, <3>3 DEF HandsOver, HoldsIn
    <2> QED BY <2>2, <2>4
<1>2. ASSUME NEW h \in Handle, NEW g \in Handle, Destroy(h, g)
      PROVE  \A k \in Live' : HandsOver(k)'
    <2>1. UNCHANGED <<due, later, running>> /\ \A k \in Live' : k \in Live /\ client'[k] = client[k]
        BY <1>2, DestroyDoes
    <2> QED BY <1>u, <2>1 DEF HandsOver
<1>3. ASSUME NEW h \in Handle, NEW g \in Handle, NEW cb \in Offered, SetCallback(h, g, cb)
      PROVE  \A k \in Live' : HandsOver(k)'
    <2>1. PICK K \in {client[g].callbacks \cup {cb}, client[g].callbacks \ {cb}} :
            client' = [client EXCEPT ![g].callbacks = K,
                           ![g].told = IF cb = "state" THEN "created" ELSE @]
        BY <1>3 DEF SetCallback
    <2>2. K \in SUBSET Callback /\ client[g] \in Client
        BY <1>0, ClientFields, ClientAssumption
    <2> DEFINE c == [client[g] EXCEPT !.callbacks = K,
                           !.told = IF cb = "state" THEN "created" ELSE @]
    <2>3. c \in Client /\ c.number = client[g].number /\ c.strings = client[g].strings
          /\ c.list = client[g].list /\ c.partial = client[g].partial
        BY <2>2 DEF Client, HandleState
    <2>4. client' = [client EXCEPT ![g] = c]
        BY <1>0, <2>1
    <2>5. UNCHANGED <<due, later, running>>
        BY <1>3 DEF SetCallback
    <2> HIDE DEF c
    <2> QED BY <1>q, <1>u, <2>3, <2>4, <2>5
<1>4. ASSUME NEW h \in Handle, NEW g \in Handle, Prepare(h, g) PROVE \A k \in Live' : HandsOver(k)'
    BY <1>4, <1>a, <1>s DEF Prepare
<1>6. ASSUME NEW h \in Handle, NEW g \in Handle, Unprepare(h, g)
      PROVE  \A k \in Live' : HandsOver(k)'
    <2>1. "state" \in Callback /\ "created" \in HandleState
        BY DEF Callback, HandleState
    <2> QED BY <1>6, <1>a, <1>t, <2>1 DEF Unprepare
<1>7. ASSUME NEW h \in Handle, NEW g \in Handle, NEW op \in {"start", "stop", "cancel"},
             NEW late \in BOOLEAN, Call(h, g, op, late)
      PROVE  \A k \in Live' : HandsOver(k)'
    <2>1. Reached[op] \in HandleState /\ "state" \in Callback
        BY ReachedType DEF HandleState, Callback
    <2>2. CASE late
        BY <1>7, <1>s, <1>u, <2>2 DEF Call
    <2>3. CASE ~late
        BY <1>7, <1>a, <1>t, <2>1, <2>3 DEF Call
    <2> QED BY <2>2, <2>3
<1>13. ASSUME NEW h \in Handle, Ask(h) PROVE \A k \in Live' : HandsOver(k)'
    <2>1. UNCHANGED <<client, due, later, running>>
        BY <1>13 DEF Ask
    <2> QED BY <1>s, <1>u, <2>1
<1>8. CASE Return
    <2>1. running.stt \in Handle /\ running.cb \in Callback
          /\ running = TimerOf(running.cb, running.stt)
        BY <1>0, <1>8 DEF Return, TimerOf
    <2>2. UNCHANGED <<due, later>> /\ Release(running.stt, running.cb)
        BY <1>8 DEF Return
    <2>3. \A t : OnItsWay(t) /\ t # running => OnItsWay(t)'
        BY <2>2 DEF OnItsWay, Pending, Waits
    <2>4. \A g, k : TimerOf(k, g) = running => g = running.stt /\ k = running.cb
        BY DEF TimerOf
    <2> QED BY <1>r, <2>1, <2>2, <2>3, <2>4
<1>9. CASE RunTimer
    <2>1. /\ due # <<>> /\ Head(due) \in Timer /\ running = None
          /\ \A t : Waits(t, due) => t = Head(due) \/ Waits(t, Tail(due))
        BY <1>0, <1>9, WaitsInTail DEF RunTimer
    <2>2. PICK h \in Handle, cb \in Callback \cup {"connect"} :
                h = Head(due).stt /\ cb = Head(due).cb /\ Head(due) = TimerOf(cb, h)
        BY <2>1 DEF Timer, TimerOf
    <2>3. \A t \in Timer : t # None
        BY DEF Timer, None, Callback
    <2>4. \A g \in Handle, k \in Notice : TimerOf(k, g) \in Timer
        BY TimerType DEF Notice, Callback
    <2>5. ASSUME due' = Tail(due), \A t : Waits(t, later) => Waits(t, later')
          PROVE  \A t \in Timer : OnItsWay(t) /\ t # TimerOf(cb, h) => OnItsWay(t)'
        BY <2>1, <2>2, <2>3, <2>5 DEF OnItsWay, Pending
    <2>6. CASE cb = "connect" /\ RunConnect(h) /\ UNCHANGED <<running, stopped>>
        <3>1. /\ due' = Tail(due) /\ \A t : Waits(t, later) => Waits(t, later')
              /\ client' = client \/ \E g \in Live : client' = [client EXCEPT ![g].state = "ready"]
            BY <2>1, <2>2, <2>6, RunConnectDoes DEF RunConnect
        <3>2. \A t \in Timer : OnItsWay(t) /\ t # TimerOf(cb, h) => OnItsWay(t)'
            BY <2>5, <3>1
        <3>3. \A g \in Handle, k \in Notice : TimerOf(k, g) # TimerOf(cb, h)
            BY <2>6 DEF TimerOf, Notice
        <3>4. \A g \in Handle, k \in Notice : OnItsWay(TimerOf(k, g)) => OnItsWay(TimerOf(k, g))'
            BY <2>4, <3>2, <3>3
        <3>5. CASE client' = client
            <4>1. Live' = Live
                BY <3>5 DEF Live
            <4> QED BY <1>0, <3>4, <3>5, <4>1 DEF HandsOver
        <3>6. ASSUME NEW g \in Live, client' = [client EXCEPT ![g].state = "ready"]
              PROVE  \A k \in Live' : HandsOver(k)'
            <4> DEFINE c == [client[g] EXCEPT !.state = "ready"]
            <4>0. g \in Handle /\ client[g] \in Client
                BY <1>0
            <4>1. c \in Client /\ c.number = client[g].number /\ c.strings = client[g].strings
                  /\ c.list = client[g].list /\ c.partial = client[g].partial
                BY <4>0 DEF Client, HandleState
            <4>2. client' = [client EXCEPT ![g] = c] /\ client'[g] = c
                BY <1>0, <3>6, <4>0
            <4> HIDE DEF c
            <4>3. HandsOver(g)'
                BY <3>4, <4>0, <4>1, <4>2 DEF HandsOver, HoldsIn
            <4> QED BY <1>0, <3>4, <4>0, <4>1, <4>2, <4>3, HandsOverKept
        <3> QED BY <3>1, <3>5, <3>6
    <2>7. CASE cb # "connect" /\ RunNotify(cb, h)
        <3>0. cb \in Callback /\ due' = Tail(due) /\ later' = later
            BY <2>2, <2>7 DEF RunNotify
        <3>1. \A t \in Timer : OnItsWay(t) /\ t # TimerOf(cb, h) => OnItsWay(t)'
            BY <2>5, <3>0
        <3>h. ASSUME NEW g \in Live, Finds(h, g), NEW k \in Live, NEW n \in Notice,
                     HoldsIn(client[k], n), TimerOf(n, k) = TimerOf(cb, h)
              PROVE  k = g /\ n = cb
            <4>1. k = h /\ n = cb
                BY <3>h DEF TimerOf
            <4>2. Finds(h, h)
                BY <3>h, <4>1 DEF Untouched
            <4> QED BY <3>h, <4>1, <4>2, FindsOne
        <3>2. ASSUME NEW g \in Live, Finds(h, g), Notify(cb, g)
              PROVE  \A k \in Live' : HandsOver(k)'
            <4>0. g \in Handle /\ client[g] \in Client
                BY <1>0
            <4>1. running' = TimerOf(cb, g)
                BY <3>2 DEF Notify
            <4>2. \A k \in Live, n \in Notice :
                    HoldsIn(client[k], n) /\ OnItsWay(TimerOf(n, k)) => OnItsWay(TimerOf(n, k))'
                <5> SUFFICES ASSUME NEW k \in Live, NEW n \in Notice, HoldsIn(client[k], n),
                                    OnItsWay(TimerOf(n, k))
                             PROVE  OnItsWay(TimerOf(n, k))'
                    OBVIOUS
                <5>1. CASE TimerOf(n, k) = TimerOf(cb, h)
                    <6>1. k = g /\ n = cb
                        BY <3>2, <3>h, <5>1
                    <6>2. running' = TimerOf(n, k)
                        BY <4>1, <6>1
                    <6> QED BY <6>2 DEF OnItsWay, TimerOf
                <5>2. CASE TimerOf(n, k) # TimerOf(cb, h)
                    BY <1>0, <2>4, <3>1, <5>2
                <5> QED BY <5>1, <5>2
            <4> DEFINE c == IF cb = "state" THEN [client[g] EXCEPT !.told = client[g].state]
                            ELSE client[g]
            <4>3. c \in Client /\ c.number = client[g].number /\ c.strings = client[g].strings
                  /\ c.list = client[g].list /\ c.partial = client[g].partial
                BY <4>0 DEF Client
            <4>4. client' = [client EXCEPT ![g] = c] /\ client'[g] = c
                BY <1>0, <3>2, <4>0 DEF Notify
            <4> HIDE DEF c
            <4>5. HandsOver(g)'
                BY <4>2, <4>3, <4>4 DEF HandsOver, HoldsIn
            <4> QED BY <4>0, <4>2, <4>3, <4>4, <4>5, HandsOverKept
        <3>3. ASSUME NEW g \in Live, Finds(h, g), Release(g, cb), UNCHANGED running
              PROVE  \A k \in Live' : HandsOver(k)'
            <4>1. \A k \in Live, n \in Notice :
                    HoldsIn(client[k], n) /\ OnItsWay(TimerOf(n, k)) /\ ~(k = g /\ n = cb)
                        => OnItsWay(TimerOf(n, k))'
                BY <1>0, <2>4, <3>1, <3>3, <3>h
            <4> QED BY <1>0, <1>r, <3>0, <3>3, <4>1
        <3>4. CASE h \notin Live /\ UNCHANGED <<client, running>>
            <4>1. Live' = Live /\ \A g \in Live : g \in Handle /\ g # h
                BY <1>0, <3>4 DEF Live
            <4>2. \A g \in Live, k \in Notice : TimerOf(k, g) # TimerOf(cb, h)
                BY <4>1 DEF TimerOf
            <4> QED BY <2>4, <3>1, <3>4, <4>1, <4>2 DEF HandsOver
        <3> QED BY <2>7, <3>2, <3>3, <3>4 DEF RunNotify
    <2> QED BY <1>9, <2>2, <2>6, <2>7 DEF RunTimer
<1>10. CASE Read
    <2>1. due = <<>> /\ later' = <<>> /\ running = None /\ running' = None
        BY <1>10, ReadDoes
    <2>2. ASSUME NEW h \in Live, NEW kind, Take(h, kind)
          PROVE  \A k \in Live' : HandsOver(k)'
        <3>2. PICK c \in Client : client' = [client EXCEPT ![h] = c]
                                  /\ c.number = client[h].number
            BY <2>2, TakeDoes
        <3>3. h \in Handle /\ \A t : Waits(t, later) => Waits(t, due')
            BY <2>2, TakeDoes DEF Live
        <3>4. \A t : OnItsWay(t) => OnItsWay(t)'
            BY <2>1, <3>3, WaitsInSmall DEF OnItsWay, Pending
        <3>5. \A cb \in Notice : HoldsIn(client'[h], cb) =>
                    HoldsIn(client[h], cb) \/ Waits(TimerOf(cb, h), due')
            BY <2>2, TakeHolds
        <3>6. HandsOver(h)'
            BY <3>4, <3>5 DEF HandsOver, OnItsWay, Pending
        <3> QED BY <3>2, <3>3, <3>4, <3>6, HandsOverKept
    <2>3. CASE due' = later /\ UNCHANGED client
        <3>1. \A t : OnItsWay(t) => OnItsWay(t)'
            BY <2>1, <2>3, WaitsInSmall DEF OnItsWay, Pending
        <3> QED BY <1>s, <2>3, <3>1
    <2> QED BY <1>10, <2>2, <2>3, ReadDoes
<1>11. CASE Round
    <2>1. due = <<>> /\ due' = later /\ UNCHANGED <<client, running>>
        BY <1>11 DEF Round, RoundIsOver
    <2>2. \A t : OnItsWay(t) => OnItsWay(t)'
        BY <2>1, WaitsInSmall DEF OnItsWay, Pending
    <2> QED BY <1>s, <2>1, <2>2
<1>12. CASE DaemonNext
    <2>1. UNCHANGED <<client, due, later, running>>
        BY <1>12 DEF DaemonNext, Silence, Recognize, Partial, Check, Start, Die
    <2> QED BY <1>s, <1>u, <2>1
<1> QED
    BY <1>1, <1>2, <1>3, <1>4, <1>6, <1>7, <1>8, <1>9, <1>10, <1>11, <1>12, <1>13
    DEF ClientNext, ApplicationNext, MainLoop

\* What a result has put into a handle is handed to the application or freed by
\* a timer that waits, or by the callback that runs: no order of calls,
\* messages, callbacks taken away and handles destroyed loses it or leaks it, also
\* when two handles have one number: then nothing is put into the younger one.
THEOREM ResultsAreNotKeptBack == ClientSpec => []NothingIsKeptBack
<1> DEFINE Inv == NothingIsKeptBack /\ \A g \in Live : Untouched(g)
<1>1. ClientInit => Inv
    BY FreedType DEF ClientInit, NothingIsKeptBack, Live
<1>2. ClientTypeOK /\ Numbered /\ Inv /\ [ClientNext]_clientVars => Inv'
    <2> SUFFICES ASSUME ClientTypeOK, DistinctAges, NothingIsKeptBack,
                        \A g \in Live : Untouched(g), [ClientNext]_clientVars
                 PROVE  NothingIsKeptBack' /\ \A g \in Live' : Untouched(g)'
        BY DEF Numbered
    <2>1. CASE UNCHANGED clientVars
        BY <2>1 DEF clientVars, NothingIsKeptBack, Armed, Live, Untouched, Finds
    <2>2. CASE ClientNext
        <3>1. \A g \in Live' : Untouched(g)'
            BY <2>2, UntouchedStep
        <3>2. CASE stopped
            <4>1. stopped'
                BY <3>2, StoppedStays
            <4> QED BY <3>1, <4>1 DEF NothingIsKeptBack
        <3>3. CASE ~stopped
            <4>1. \A g \in Live : HandsOver(g) /\ Untouched(g)
                BY <3>3, KeptBackIsHeld
            <4>2. stopped' \/ \A g \in Live' : HandsOver(g)'
                BY <2>2, <3>3, <4>1, HandsOverStep
            <4>3. NothingIsKeptBack' <=> (~stopped' => \A g \in Live' : HandsOver(g)')
                BY DEF NothingIsKeptBack, HandsOver, HoldsIn, Notice, OnItsWay, Pending, Armed, Waits
            <4> QED BY <3>1, <4>2, <4>3
        <3> QED BY <3>2, <3>3
    <2> QED BY <2>1, <2>2
<1>3. Inv => NothingIsKeptBack
    OBVIOUS
<1> QED BY <1>1, <1>2, <1>3, ClientTyped, AlwaysNumbered, PTL DEF ClientSpec

-----------------------------------------------------------------------------
(* The daemon the handles see.                                             *)

Session == [Number -> {"absent", "ready", "recording", "processing"}]

BusyIn(s) == {n \in Number : s[n] \in {"recording", "processing"}}

OneBusyIn(s) == \A m, n \in BusyIn(s) : m = n

MembersIn(s) == {n \in Number : s[n] # "absent"}

HolderIn(s) == IF BusyIn(s) = {} THEN 0 ELSE CHOOSE n \in BusyIn(s) : TRUE

PhaseIn(s) == IF BusyIn(s) = {} THEN "free" ELSE s[HolderIn(s)]

MicrophoneIn(s) ==
    IF \E n \in Number : s[n] = "recording" THEN "open" ELSE "closed"

\* The service one sees in the sessions.
LEMMA ServiceIn ==
    ASSUME NEW s \in Session, OneBusyIn(s)
    PROVE  /\ BusyIn(s) = {} => HolderIn(s) = 0 /\ PhaseIn(s) = "free"
                                /\ MicrophoneIn(s) = "closed"
           /\ \A n \in BusyIn(s) : /\ HolderIn(s) = n /\ PhaseIn(s) = s[n] /\ n # 0
                                   /\ MicrophoneIn(s) = IF s[n] = "recording"
                                                        THEN "open" ELSE "closed"
<1>1. ASSUME BusyIn(s) = {}
      PROVE  HolderIn(s) = 0 /\ PhaseIn(s) = "free" /\ MicrophoneIn(s) = "closed"
    BY <1>1 DEF HolderIn, PhaseIn, MicrophoneIn, BusyIn
<1>2. ASSUME NEW n \in BusyIn(s)
      PROVE  /\ HolderIn(s) = n /\ PhaseIn(s) = s[n] /\ n # 0
             /\ MicrophoneIn(s) = IF s[n] = "recording" THEN "open" ELSE "closed"
    <2>1. HolderIn(s) = n
        <3>1. BusyIn(s) # {} /\ (CHOOSE m \in BusyIn(s) : TRUE) \in BusyIn(s)
            OBVIOUS
        <3> QED BY <3>1 DEF HolderIn, OneBusyIn
    <2>2. PhaseIn(s) = s[n]
        BY <2>1 DEF PhaseIn
    <2>3. n \in Number /\ n # 0
        BY BoundType DEF BusyIn, Number
    <2>4. \A m \in Number : s[m] = "recording" => m = n
        BY DEF BusyIn, OneBusyIn
    <2> QED BY <2>1, <2>2, <2>3, <2>4 DEF MicrophoneIn
<1> QED BY <1>1, <1>2

LEMMA DaemonSees ==
    /\ Busy = BusyIn(sessions) /\ Holder = HolderIn(sessions)
    /\ Daemon!serviceVars = <<MembersIn(sessions), HolderIn(sessions),
                              PhaseIn(sessions), MicrophoneIn(sessions)>>
BY DEF Busy, Holder, BusyIn, HolderIn, PhaseIn, MembersIn, MicrophoneIn, Daemon!serviceVars

\* What may become of one session.
Serves(n, s, r) ==
    /\ r = [s EXCEPT ![n] = r[n]]
    /\ \/ r[n] = "absent"
       \/ s[n] = "absent" /\ r[n] = "ready"
       \/ s[n] = "ready" /\ r[n] = "recording" /\ BusyIn(s) = {}
       \/ s[n] = "recording" /\ r[n] = "processing"
       \/ s[n] \in {"recording", "processing"} /\ r[n] = "ready"

LEMMA OneBusyKept ==
    ASSUME NEW s \in Session, OneBusyIn(s), NEW n \in Number, NEW r \in Session, Serves(n, s, r)
    PROVE  OneBusyIn(r)
<1>1. \A m \in Number : m # n => r[m] = s[m]
    BY DEF Serves, Session
<1>2. \A m \in BusyIn(r) : m = n \/ m \in BusyIn(s)
    BY <1>1 DEF BusyIn
<1>3. n \in BusyIn(r) => n \in BusyIn(s) \/ BusyIn(s) = {}
    BY DEF BusyIn, Serves
<1> QED BY <1>2, <1>3 DEF OneBusyIn

LEMMA ServesOneSession ==
    ASSUME sessions \in Session, OneBusyIn(sessions), sessions' \in Session,
           NEW n \in Number, Serves(n, sessions, sessions')
    PROVE  Daemon!SessionsNext \/ UNCHANGED sessions
<1> DEFINE s == sessions
           r == sessions'
<1>1. OneBusyIn(r) /\ r[n] = sessions'[n] /\ \A m \in Number : m # n => r[m] = s[m]
    BY OneBusyKept DEF Serves, Session
<1>b. /\ \A m \in Number : m # n => (m \in BusyIn(r) <=> m \in BusyIn(s))
      /\ BusyIn(s) \subseteq Number /\ BusyIn(r) \subseteq Number
    BY <1>1 DEF BusyIn
<1>v. /\ MembersIn(s) = {m \in Number : s[m] # "absent"}
      /\ MembersIn(r) = {m \in Number : r[m] # "absent"}
    BY DEF MembersIn
<1>d. /\ (n \in BusyIn(s) <=> s[n] \in {"recording", "processing"})
      /\ (n \in BusyIn(r) <=> r[n] \in {"recording", "processing"})
    BY DEF BusyIn
<1>o. BusyIn(s) = {} \/ \E m \in BusyIn(s) : BusyIn(s) = {m}
    BY DEF OneBusyIn
<1>2. CASE r[n] = "absent"
    <2>1. CASE s[n] = "absent"
        <3>1. r = [s EXCEPT ![n] = s[n]]
            BY <1>2, <2>1 DEF Serves
        <3> QED BY <3>1 DEF Session
    <2>2. CASE s[n] # "absent"
        <3>1. MembersIn(r) = MembersIn(s) \ {n} /\ n \in MembersIn(s)
            BY <1>1, <1>2, <1>v, <2>2
        <3>2. IF HolderIn(s) = n
              THEN HolderIn(r) = 0 /\ PhaseIn(r) = "free" /\ MicrophoneIn(r) = "closed"
              ELSE HolderIn(r) = HolderIn(s) /\ PhaseIn(r) = PhaseIn(s)
                   /\ MicrophoneIn(r) = MicrophoneIn(s)
            <4>1. CASE n \in BusyIn(s)
                <5>1. BusyIn(r) = {}
                    BY <1>1, <1>2, <1>b, <1>d, <1>o, <4>1
                <5> QED BY <1>1, <4>1, <5>1, ServiceIn
            <4>2. CASE BusyIn(s) = {}
                <5>1. BusyIn(r) = {} /\ n # 0
                    BY <1>2, <1>b, <1>d, <4>2, BoundType DEF Number
                <5> QED BY <1>1, <4>2, <5>1, ServiceIn
            <4>3. ASSUME NEW m \in BusyIn(s), m # n
                  PROVE  /\ HolderIn(s) # n /\ HolderIn(r) = HolderIn(s)
                         /\ PhaseIn(r) = PhaseIn(s) /\ MicrophoneIn(r) = MicrophoneIn(s)
                <5>1. m \in BusyIn(r) /\ r[m] = s[m]
                    BY <1>1, <1>b, <4>3
                <5> QED BY <1>1, <4>3, <5>1, ServiceIn
            <4> QED BY <4>1, <4>2, <4>3
        <3>3. Daemon!Leave(n)
            BY <3>1, <3>2 DEF Daemon!Leave, Daemon!FreeService, MembersIn, HolderIn, PhaseIn,
                MicrophoneIn, Holder, Busy, BusyIn
        <3> QED BY <3>3 DEF Daemon!SessionsNext
    <2> QED BY <2>1, <2>2
<1>3. CASE s[n] = "absent" /\ r[n] = "ready"
    <2>1. MembersIn(r) = MembersIn(s) \cup {n} /\ n \notin MembersIn(s)
        BY <1>1, <1>3, <1>v
    <2>2. BusyIn(r) = BusyIn(s)
        BY <1>3, <1>b, <1>d
    <2>3. /\ HolderIn(r) = HolderIn(s) /\ PhaseIn(r) = PhaseIn(s)
          /\ MicrophoneIn(r) = MicrophoneIn(s)
        <3>1. CASE BusyIn(s) = {}
            BY <1>1, <2>2, <3>1, ServiceIn
        <3>2. ASSUME NEW m \in BusyIn(s)
              PROVE  /\ HolderIn(r) = HolderIn(s) /\ PhaseIn(r) = PhaseIn(s)
                     /\ MicrophoneIn(r) = MicrophoneIn(s)
            <4>1. m # n /\ r[m] = s[m]
                BY <1>1, <1>3, <1>b, <1>d, <3>2
            <4> QED BY <1>1, <2>2, <3>2, <4>1, ServiceIn
        <3> QED BY <3>1, <3>2
    <2>4. Daemon!Join(n)
        BY <2>1, <2>3 DEF Daemon!Join, MembersIn, HolderIn, PhaseIn, MicrophoneIn, Holder, Busy, BusyIn
    <2> QED BY <2>4 DEF Daemon!SessionsNext
<1>4. CASE s[n] = "ready" /\ r[n] = "recording" /\ BusyIn(s) = {}
    <2>1. MembersIn(r) = MembersIn(s) /\ n \in MembersIn(s) /\ n \in BusyIn(r)
        BY <1>1, <1>4, <1>v, <1>d
    <2>2. /\ HolderIn(s) = 0 /\ HolderIn(r) = n /\ PhaseIn(r) = "recording"
          /\ MicrophoneIn(r) = "open"
        BY <1>1, <1>4, <2>1, ServiceIn
    <2>3. Daemon!Take(n)
        BY <2>1, <2>2 DEF Daemon!Take, MembersIn, HolderIn, PhaseIn, MicrophoneIn, Holder, Busy, BusyIn
    <2> QED BY <2>3 DEF Daemon!SessionsNext
<1>5. CASE s[n] = "recording" /\ r[n] = "processing"
    <2>1. MembersIn(r) = MembersIn(s) /\ n \in BusyIn(s) /\ n \in BusyIn(r)
        BY <1>1, <1>5, <1>v, <1>d
    <2>2. /\ HolderIn(s) = HolderIn(r) /\ PhaseIn(s) = "recording" /\ PhaseIn(r) = "processing"
          /\ MicrophoneIn(r) = "closed"
        BY <1>1, <1>5, <2>1, ServiceIn
    <2>3. Daemon!HandOver
        BY <2>1, <2>2 DEF Daemon!HandOver, MembersIn, HolderIn, PhaseIn, MicrophoneIn, Holder, Busy, BusyIn
    <2> QED BY <2>3 DEF Daemon!SessionsNext
<1>6. CASE s[n] \in {"recording", "processing"} /\ r[n] = "ready"
    <2>1. MembersIn(r) = MembersIn(s) /\ n \in BusyIn(s) /\ BusyIn(r) = {}
        BY <1>1, <1>6, <1>v, <1>b, <1>d, <1>o
    <2>2. /\ HolderIn(s) # 0 /\ HolderIn(r) = 0 /\ PhaseIn(r) = "free"
          /\ MicrophoneIn(r) = "closed"
        BY <1>1, <2>1, ServiceIn
    <2>3. Daemon!Release
        BY <2>1, <2>2 DEF Daemon!Release, Daemon!FreeService, MembersIn, HolderIn, PhaseIn,
            MicrophoneIn, Holder, Busy, BusyIn
    <2> QED BY <2>3 DEF Daemon!SessionsNext
<1> QED BY <1>2, <1>3, <1>4, <1>5, <1>6 DEF Serves

LEMMA ServesBy ==
    ASSUME sessions \in Session, NEW n \in Number, NEW v,
           sessions' = [sessions EXCEPT ![n] = v],
           \/ v = "absent"
           \/ sessions[n] = "absent" /\ v = "ready"
           \/ sessions[n] = "ready" /\ v = "recording" /\ BusyIn(sessions) = {}
           \/ sessions[n] = "recording" /\ v = "processing"
           \/ sessions[n] \in {"recording", "processing"} /\ v = "ready"
    PROVE  Serves(n, sessions, sessions')
BY DEF Serves, Session

\* A step serves one session, or the daemon has died.
LEMMA DaemonStep ==
    ASSUME ClientTypeOK, OneBusyIn(sessions), ClientNext
    PROVE  \/ UNCHANGED sessions
           \/ \E n \in Number : Serves(n, sessions, sessions')
           \/ ~up' /\ sessions' = [n \in Number |-> "absent"]
<1>0. sessions \in Session /\ due \in Seq(Timer)
    BY DEF ClientTypeOK, Session
<1>n. \A h \in Live : client[h].number \in Number
    <2>1. \A h \in Live : client[h].number \in 0..MaxHandle /\ client[h].number # 0
        BY ClientFields DEF ClientTypeOK, Live
    <2> QED BY <2>1, BoundType DEF Number
<1>f. ASSUME NEW h \in Live, sessions' = sessions \/ sessions' = Finalized(h)
      PROVE  UNCHANGED sessions \/ \E n \in Number : Serves(n, sessions, sessions')
    <2>1. \/ UNCHANGED sessions
          \/ sessions' = [sessions EXCEPT ![client[h].number] = "absent"]
        BY <1>f DEF Finalized
    <2> QED BY <1>0, <1>n, <2>1, ServesBy
<1>1. ASSUME NEW h \in Handle, NEW g \in Handle, Destroy(h, g) \/ Unprepare(h, g)
      PROVE  UNCHANGED sessions \/ \E n \in Number : Serves(n, sessions, sessions')
    <2>1. g \in Live /\ (sessions' = sessions \/ sessions' = Finalized(g))
        BY <1>1, FoundIsFirst DEF Destroy, Unprepare
    <2> QED BY <1>f, <2>1
<1>2. ASSUME NEW h \in Handle, NEW g \in Handle, NEW op \in {"start", "stop", "cancel"},
             NEW late \in BOOLEAN, Call(h, g, op, late)
      PROVE  \E n \in Number : Serves(n, sessions, sessions')
    <2> DEFINE n == client[g].number
    <2>1. g \in Live /\ Grantable(g, op) /\ sessions' = [sessions EXCEPT ![n] = Reached[op]]
        BY <1>2, FoundIsFirst DEF Call
    <2>2. n \in Number
        BY <1>n, <2>1
    <2>3. CASE op = "start"
        <3>1. sessions[n] = "ready" /\ Reached[op] = "recording" /\ BusyIn(sessions) = {}
            BY <2>1, <2>3 DEF Grantable, Reached, BusyIn
        <3> HIDE DEF n
        <3> QED BY <1>0, <2>1, <2>2, <3>1, ServesBy
    <2>4. CASE op = "stop"
        <3>1. sessions[n] = "recording" /\ Reached[op] = "processing"
            BY <2>1, <2>4 DEF Grantable, Reached
        <3> HIDE DEF n
        <3> QED BY <1>0, <2>1, <2>2, <3>1, ServesBy
    <2>5. CASE op = "cancel"
        <3>1. sessions[n] \in {"recording", "processing"} /\ Reached[op] = "ready"
            BY <2>1, <2>5 DEF Grantable, Reached
        <3> HIDE DEF n
        <3> QED BY <1>0, <2>1, <2>2, <3>1, ServesBy
    <2> QED BY <2>3, <2>4, <2>5
<1>3. ASSUME NEW h \in Handle, RunConnect(h)
      PROVE  UNCHANGED sessions \/ \E n \in Number : Serves(n, sessions, sessions')
    <2>1. \/ UNCHANGED sessions
          \/ \E g \in Live : /\ sessions[client[g].number] = "absent"
                             /\ sessions' = [sessions EXCEPT ![client[g].number] = "ready"]
        BY <1>3 DEF RunConnect, Connected
    <2>2. ASSUME NEW g \in Live, sessions[client[g].number] = "absent",
                 sessions' = [sessions EXCEPT ![client[g].number] = "ready"]
          PROVE  \E n \in Number : Serves(n, sessions, sessions')
        BY <1>0, <1>n, <2>2, ServesBy
    <2> QED BY <2>1, <2>2
<1>4. CASE RunTimer
    <2>1. due # <<>> /\ Head(due) \in Timer
        BY <1>0, <1>4, WaitsInTail DEF RunTimer
    <2>2. Head(due).stt \in Handle
        BY <2>1 DEF Timer
    <2>3. RunConnect(Head(due).stt) \/ UNCHANGED sessions
        BY <1>4 DEF RunTimer, RunNotify
    <2> QED BY <1>3, <2>2, <2>3
<1>5. CASE Return \/ Read \/ Round
    BY <1>5 DEF Return, Read, Round
<1>6. ASSUME NEW h \in Handle, NEW g \in Handle,
             \/ Create(h) \/ Ask(h) \/ Prepare(h, g)
             \/ \E cb \in Offered : SetCallback(h, g, cb)
      PROVE  UNCHANGED sessions
    BY <1>6 DEF Create, Ask, SetCallback, Prepare
<1>c. \A h \in Handle : Create(h) \/ Ask(h) => UNCHANGED sessions
    BY DEF Create, Ask
<1>7. ASSUME NEW n \in Number, Silence(n)
      PROVE  Serves(n, sessions, sessions')
    BY <1>0, <1>7, ServesBy DEF Silence
<1>8. ASSUME NEW n \in Number, NEW kind, Recognize(n, kind)
      PROVE  Serves(n, sessions, sessions')
    BY <1>0, <1>8, ServesBy DEF Recognize
<1>9. ASSUME NEW n \in Number, Check(n)
      PROVE  Serves(n, sessions, sessions')
    BY <1>0, <1>9, ServesBy DEF Check
<1>10. ASSUME NEW n \in Number, Partial(n)
       PROVE  UNCHANGED sessions
    BY <1>10 DEF Partial
<1>11. Start => UNCHANGED sessions
    BY DEF Start
<1>12. Die => ~up' /\ sessions' = [n \in Number |-> "absent"]
    BY DEF Die
<1>13. CASE DaemonNext
    BY <1>7, <1>8, <1>9, <1>10, <1>11, <1>12, <1>13, Zenon DEF DaemonNext
<1>14. CASE MainLoop
    BY <1>4, <1>5, <1>14 DEF MainLoop
<1>15. CASE ApplicationNext
    BY <1>1, <1>2, <1>6, <1>c, <1>15, Zenon DEF ApplicationNext
<1> QED BY <1>13, <1>14, <1>15 DEF ClientNext

\* Until it dies, the daemon the handles see does nothing but what SttSessions
\* allows and SttServer is proved to do, for any number of handles whose
\* numbers come round, and whatever of its answers is late.
THEOREM DaemonIsTheService == ClientSpec => DaemonServesSessions
<1>1. ClientInit => OneBusyIn(sessions) /\ Daemon!SessionsInit
    <2> SUFFICES ASSUME ClientInit PROVE OneBusyIn(sessions) /\ Daemon!SessionsInit
        OBVIOUS
    <2>1. \A n \in Number : sessions[n] = "absent"
        BY DEF ClientInit
    <2>2. BusyIn(sessions) = {} /\ Busy = {}
        BY <2>1 DEF BusyIn, Busy
    <2> QED BY <2>1, <2>2 DEF OneBusyIn, Holder, Daemon!SessionsInit
<1>2. ClientTypeOK /\ ClientTypeOK' /\ OneBusyIn(sessions) /\ [ClientNext]_clientVars
        => OneBusyIn(sessions)' /\ [Daemon!SessionsNext \/ ~up']_(Daemon!serviceVars)
    <2> SUFFICES ASSUME ClientTypeOK, ClientTypeOK', OneBusyIn(sessions), [ClientNext]_clientVars
                 PROVE  OneBusyIn(sessions') /\ [Daemon!SessionsNext \/ ~up']_(Daemon!serviceVars)
        BY DEF OneBusyIn, BusyIn
    <2>0. sessions \in Session /\ sessions' \in Session
        BY DEF ClientTypeOK, Session
    <2>1. CASE UNCHANGED sessions
        BY <2>1, DaemonSees DEF Daemon!serviceVars, Holder, Busy
    <2>2. ASSUME NEW n \in Number, Serves(n, sessions, sessions')
          PROVE  OneBusyIn(sessions') /\ [Daemon!SessionsNext \/ ~up']_(Daemon!serviceVars)
        <3>1. Daemon!SessionsNext \/ UNCHANGED sessions
            BY <2>0, <2>2, ServesOneSession
        <3> QED BY <2>0, <2>1, <2>2, <3>1, OneBusyKept
    <2>3. CASE ~up' /\ sessions' = [n \in Number |-> "absent"]
        BY <2>3 DEF OneBusyIn, BusyIn
    <2>4. CASE UNCHANGED clientVars
        BY <2>1, <2>4 DEF clientVars
    <2> QED BY <2>1, <2>2, <2>3, <2>4, DaemonStep
<1> QED BY <1>1, <1>2, ClientTyped, PTL DEF ClientSpec, DaemonServesSessions
=============================================================================
