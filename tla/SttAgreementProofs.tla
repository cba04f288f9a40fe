-------------------------- MODULE SttAgreementProofs --------------------------
(***************************************************************************)
(* The handle of an application that has not lost track is what its        *)
(* session is, or a message that says so is unread (SttAgreement), for     *)
(* every value of the constants.                                           *)
(***************************************************************************)
EXTENDS SttAgreement, SttSystemProofs

Silent(messages) == \A i \in DOMAIN messages : messages[i].state = "none"

\* What a handle "h", its session "s" and the unread messages have to do with
\* each other.  PROCESSING is told only to a handle that is recording, while the
\* daemon waits for it; READY is the last news there is.
Fits(h, s, messages) ==
    \/ h = "destroyed" /\ s = "absent"
    \/ /\ h \in HandleState
       /\ \A i \in DOMAIN messages : messages[i].state = "processing" =>
             messages[i].awaited /\ h = "recording" /\ s \in {"processing", "ready"}
       /\ \A i \in DOMAIN messages : messages[i].state = "ready" =>
             /\ s = "ready" /\ h \in Busy
             /\ \A j \in DOMAIN messages : j > i => messages[j].state = "none"
       /\ \/ \E i \in DOMAIN messages : messages[i].state = "ready"
          \/ s = "processing" /\ \E i \in DOMAIN messages : messages[i].state = "processing"
          \/ Agrees(h, s) /\ Silent(messages)

\* What an application sent and does not wait for any more is harmless.
Served(queue, u) ==
    \A i \in DOMAIN queue :
        queue[i].uid = u /\ ~queue[i].awaited => queue[i].op = "hello"

\* A handle does not change while its application is blocked.
Callable ==
    \A u \in Uid : call[u] # "none" =>
        handle[u] \in IF call[u] = "initialize" THEN HandleState ELSE CallableIn[call[u]]

Agreed(u) == Fits(handle[u], state[u], inbox[u]) /\ Served(requests, u)

AgreementInv ==
    /\ SystemInv
    /\ Callable
    /\ \A u \in Uid \ doubt : handle[u] # "dead" => Agreed(u)

-----------------------------------------------------------------------------
(* Handles, sessions and unread messages.                                  *)

LEMMA InboxParts ==
    ASSUME NEW messages \in Seq(MessageType), NEW i \in DOMAIN messages
    PROVE  messages[i].state \in {"none", "processing", "ready"}
<1>1. messages[i] \in MessageType
  OBVIOUS
<1>2. QED
  BY <1>1 DEF MessageType

\* A message more, at the end.
LEMMA AppendParts ==
    ASSUME NEW messages \in Seq(MessageType), NEW m \in MessageType
    PROVE  LET p == Append(messages, m) IN
           \E last \in DOMAIN p \ DOMAIN messages :
              /\ p[last] = m
              /\ DOMAIN p = DOMAIN messages \cup {last}
              /\ \A i \in DOMAIN messages : p[i] = messages[i]
              /\ \A j \in DOMAIN p : ~(j > last)
<1> DEFINE p == Append(messages, m)
           last == Len(messages) + 1
<1>1. /\ last \in DOMAIN p \ DOMAIN messages
      /\ p[last] = m
      /\ DOMAIN p = DOMAIN messages \cup {last}
      /\ \A i \in DOMAIN messages : p[i] = messages[i]
      /\ \A j \in DOMAIN p : ~(j > last)
  BY SMT
<1>2. QED
  BY <1>1

\* A handle that is not busy, or whose session records, has no news.
LEMMA NoNews ==
    ASSUME NEW messages \in Seq(MessageType), NEW h, NEW s, Fits(h, s, messages),
           h \in {"created", "ready"} \/ s \in {"absent", "recording"}, h # "destroyed"
    PROVE  h \in HandleState /\ Agrees(h, s) /\ Silent(messages)
BY InboxParts DEF Fits, Silent, Agrees, Busy

LEMMA NoNewsFits ==
    ASSUME NEW messages, Silent(messages), NEW h \in HandleState, NEW s, Agrees(h, s)
    PROVE  Fits(h, s, messages)
BY DEF Fits, Silent

\* While the daemon waits for nobody, a session that waits for its result is
\* known to its application.
LEMMA NoQuestion ==
    ASSUME NEW messages \in Seq(MessageType), Unasked(messages),
           NEW h, Fits(h, "processing", messages)
    PROVE  h = "processing" /\ Silent(messages)
BY InboxParts DEF Fits, Silent, Agrees, Unasked

\* A message that says nothing of the state.
LEMMA QuestionFits ==
    ASSUME NEW messages \in Seq(MessageType), NEW h, NEW s, Fits(h, s, messages),
           NEW m \in MessageType, m.state = "none"
    PROVE  Fits(h, s, Append(messages, m))
<1> DEFINE p == Append(messages, m)
<1>1. PICK last \in DOMAIN p \ DOMAIN messages :
              /\ p[last] = m
              /\ DOMAIN p = DOMAIN messages \cup {last}
              /\ \A i \in DOMAIN messages : p[i] = messages[i]
              /\ \A j \in DOMAIN p : ~(j > last)
  BY AppendParts
<1> HIDE DEF p
<1>2. Fits(h, s, p)
  BY <1>1 DEF Fits, Silent
<1>3. QED
  BY <1>2 DEF p

\* The daemon stops a recording and asks its application to take the state.
LEMMA StoppedFits ==
    ASSUME NEW messages \in Seq(MessageType), NEW h, Fits(h, "recording", messages),
           NEW m \in MessageType, m.state = "processing", m.awaited = TRUE
    PROVE  Fits(h, "processing", Append(messages, m))
<1> DEFINE p == Append(messages, m)
<1>0. h = "recording" /\ Silent(messages)
  <2>1. h # "destroyed"
    BY DEF Fits, HandleState
  <2>2. QED
    BY <2>1, NoNews DEF Agrees
<1>1. PICK last \in DOMAIN p \ DOMAIN messages :
              /\ p[last] = m
              /\ DOMAIN p = DOMAIN messages \cup {last}
              /\ \A i \in DOMAIN messages : p[i] = messages[i]
              /\ \A j \in DOMAIN p : ~(j > last)
  BY AppendParts
<1> HIDE DEF p
<1>2. Fits(h, "processing", p)
  BY <1>0, <1>1 DEF Fits, Silent, HandleState
<1>3. QED
  BY <1>2 DEF p

\* The session that waits becomes ready, and the result is sent.
LEMMA ResultFits ==
    ASSUME NEW messages \in Seq(MessageType), NEW h, Fits(h, "processing", messages),
           NEW m \in MessageType, m.state = "ready"
    PROVE  Fits(h, "ready", Append(messages, m))
<1> DEFINE p == Append(messages, m)
<1>0. h \in HandleState /\ h \in Busy
      /\ \A i \in DOMAIN messages : messages[i].state # "ready"
  BY InboxParts DEF Fits, Agrees, Busy
<1>1. PICK last \in DOMAIN p \ DOMAIN messages :
              /\ p[last] = m
              /\ DOMAIN p = DOMAIN messages \cup {last}
              /\ \A i \in DOMAIN messages : p[i] = messages[i]
              /\ \A j \in DOMAIN p : ~(j > last)
  BY AppendParts
<1> HIDE DEF p
<1>2. \A i \in DOMAIN messages : messages[i].state = "processing" =>
         messages[i].awaited /\ h = "recording"
  BY <1>0 DEF Fits, HandleState
<1>3. Fits(h, "ready", p)
  BY <1>0, <1>1, <1>2 DEF Fits
<1>4. QED
  BY <1>3 DEF p

\* The application takes its oldest message.
LEMMA TakenFits ==
    ASSUME NEW messages \in Seq(MessageType), messages # <<>>, NEW h, NEW s,
           Fits(h, s, messages), NEW u, NEW b, Asked(messages, u, b)
    PROVE  Fits(Told(Head(messages), h), s, Tail(messages))
<1> DEFINE m == Head(messages)
           rest == Tail(messages)
<1>1. /\ m = messages[1] /\ 1 \in DOMAIN messages /\ m \in MessageType
      /\ rest \in Seq(MessageType)
      /\ \A i \in DOMAIN rest :
            i \in Nat \ {0} /\ i + 1 \in DOMAIN messages /\ rest[i] = messages[i + 1]
      /\ \A i \in DOMAIN messages : i # 1 =>
            i - 1 \in DOMAIN rest /\ rest[i - 1] = messages[i]
  BY SMT
<1>2. m.state \in {"none", "processing", "ready"}
  BY <1>1, InboxParts
<1>3. m.awaited => Unasked(rest)
  BY TailAsked
<1>4. \A i, j \in DOMAIN rest : j > i => j + 1 > i + 1
  BY <1>1
<1>5. \A i \in DOMAIN rest : i + 1 > 1
  BY <1>1
<1> HIDE DEF m, rest
<1>6. CASE h = "destroyed"
  BY <1>6 DEF Told, Fits, HandleState
<1>7. CASE h \in HandleState /\ m.state = "none"
  <2>1. Told(m, h) = h
    BY <1>7 DEF Told, HandleState
  <2>2. \A i \in DOMAIN messages : messages[i].state # "none" =>
           \E k \in DOMAIN rest : rest[k] = messages[i]
    BY <1>1, <1>7
  <2>3. Silent(messages) => Silent(rest)
    BY <1>1 DEF Silent
  <2>4. h # "destroyed"
    BY <1>7 DEF HandleState
  <2>5. \A i \in DOMAIN rest : rest[i].state = "processing" =>
             rest[i].awaited /\ h = "recording" /\ s \in {"processing", "ready"}
    BY <1>1, <2>4 DEF Fits
  <2>6. \A i \in DOMAIN rest : rest[i].state = "ready" =>
             /\ s = "ready" /\ h \in Busy
             /\ \A j \in DOMAIN rest : j > i => rest[j].state = "none"
    BY <1>1, <1>4, <2>4 DEF Fits
  <2>7. \/ \E i \in DOMAIN rest : rest[i].state = "ready"
        \/ s = "processing" /\ \E i \in DOMAIN rest : rest[i].state = "processing"
        \/ Agrees(h, s) /\ Silent(rest)
    BY <2>2, <2>3, <2>4 DEF Fits
  <2>8. QED
    BY <1>7, <2>1, <2>5, <2>6, <2>7 DEF Fits, m, rest
<1>8. CASE h \in HandleState /\ m.state = "processing"
  <2>1. Told(m, h) = "processing" /\ h # "destroyed"
    BY <1>8 DEF Told, HandleState
  <2>2. m.awaited /\ h = "recording" /\ s \in {"processing", "ready"}
    BY <1>1, <1>8, <2>1 DEF Fits
  <2>3. \A i \in DOMAIN rest : rest[i].state # "processing"
    BY <1>1, <1>3, <2>1, <2>2 DEF Fits, Unasked
  <2>4. \A i \in DOMAIN rest : rest[i].state = "ready" =>
             /\ s = "ready"
             /\ \A j \in DOMAIN rest : j > i => rest[j].state = "none"
    BY <1>1, <1>4, <2>1 DEF Fits
  <2>5. s = "ready" => \E i \in DOMAIN messages : messages[i].state = "ready"
    BY <2>1, <2>2 DEF Fits, Agrees
  <2>6. s = "ready" => \E i \in DOMAIN rest : rest[i].state = "ready"
    BY <1>1, <1>8, <2>5
  <2>7. s = "processing" => Silent(rest)
    BY <1>1, <2>3, <2>4, InboxParts DEF Silent
  <2>8. QED
    BY <2>1, <2>2, <2>3, <2>4, <2>6, <2>7 DEF Fits, HandleState, Busy, Agrees, m, rest
<1>9. CASE h \in HandleState /\ m.state = "ready"
  <2>1. Told(m, h) = "ready" /\ h # "destroyed"
    BY <1>9 DEF Told, HandleState
  <2>2. s = "ready" /\ Silent(rest)
    BY <1>1, <1>5, <1>9, <2>1 DEF Fits, Silent
  <2>3. QED
    BY <2>1, <2>2, NoNewsFits DEF HandleState, Agrees, m, rest
<1>10. QED
  BY <1>2, <1>6, <1>7, <1>8, <1>9 DEF Fits, m, rest

-----------------------------------------------------------------------------
(* Requests.                                                               *)

LEMMA TailServed ==
    ASSUME NEW queue \in Seq(RequestType), queue # <<>>, NEW u, Served(queue, u)
    PROVE  Served(Tail(queue), u)
<1>1. \A i \in DOMAIN Tail(queue) :
         i + 1 \in DOMAIN queue /\ Tail(queue)[i] = queue[i + 1]
  BY SMT
<1>2. QED
  BY <1>1 DEF Served

\* A request that is sent is awaited.
LEMMA SentServed ==
    ASSUME NEW queue \in Seq(RequestType), NEW u, Served(queue, u),
           NEW op \in Request, NEW v \in Uid
    PROVE  Served(Append(queue, RequestOf(op, v)), u)
<1> DEFINE r == RequestOf(op, v)
           p == Append(queue, r)
<1>1. r \in RequestType /\ r.awaited = TRUE
  BY SentParts
<1> HIDE DEF r
<1>2. \A i \in DOMAIN p : \/ i \in DOMAIN queue /\ p[i] = queue[i]
                          \/ p[i] = r
  BY <1>1, SMT
<1> HIDE DEF p
<1>3. Served(p, u)
  BY <1>1, <1>2 DEF Served
<1>4. QED
  BY <1>3 DEF p, r

\* An application gives up: another one, or one that only says hello.
LEMMA AbandonedServed ==
    ASSUME NEW queue \in Seq(RequestType), NEW u, Served(queue, u),
           NEW v, v # u \/ \A i \in DOMAIN queue :
               queue[i].awaited /\ queue[i].uid = u => queue[i].op = "hello"
    PROVE  Served(Abandoned(queue, v), u)
<1> DEFINE p == Abandoned(queue, v)
<1>1. \A i \in DOMAIN queue : queue[i] \in RequestType
  OBVIOUS
<1>2. /\ DOMAIN p = DOMAIN queue
      /\ \A i \in DOMAIN queue :
            /\ p[i].uid = queue[i].uid /\ p[i].op = queue[i].op
            /\ p[i].awaited <=> queue[i].awaited /\ queue[i].uid # v
  BY <1>1, RequestParts DEF Abandoned
<1> HIDE DEF p
<1>3. Served(p, u)
  BY <1>2 DEF Served
<1>4. QED
  BY <1>3 DEF p

\* A call that ends changes its own application, and leaves the queue as it is
\* or with one more request that is awaited.
LEMMA ReturnsAgreed ==
    ASSUME ApplicationsTyped, NEW v \in Uid, NEW granted, NEW queue \in Seq(RequestType),
           Returns(v, granted, queue)
    PROVE  /\ \A u \in Uid : Served(queue, u) => Served(requests', u)
           /\ \A u \in Uid \ {v} : handle'[u] = handle[u] /\ call'[u] = call[u]
           /\ \/ /\ AsksToInitialize(v, granted)
                 /\ call'[v] = "initialize" /\ handle' = handle
              \/ /\ ~AsksToInitialize(v, granted)
                 /\ call'[v] = "none" /\ requests' = queue
                 /\ handle'[v] = StateAfter(call[v], handle[v], granted)
<1>1. /\ handle \in [Uid -> HandleState \cup {"destroyed", "dead"}]
      /\ call \in [Uid -> Request \cup {"none"}]
  BY DEF ApplicationsTyped
<1>2. "initialize" \in Request
  BY RequestNames
<1>3. CASE AsksToInitialize(v, granted)
  <2>1. /\ requests' = Append(queue, RequestOf("initialize", v))
        /\ call' = [call EXCEPT ![v] = "initialize"]
        /\ handle' = handle
    BY <1>3 DEF Returns
  <2>2. \A u \in Uid : Served(queue, u) => Served(requests', u)
    BY <1>2, <2>1, SentServed
  <2>3. QED
    BY <1>1, <1>3, <2>1, <2>2
<1>4. CASE ~AsksToInitialize(v, granted)
  BY <1>1, <1>4 DEF Returns
<1>5. QED
  BY <1>3, <1>4

\* What an application that is blocked may call, it could call.
LEMMA CallableStep ==
    ASSUME SystemInv, Callable, [SystemNext]_systemVars
    PROVE  Callable'
<1>0. /\ handle \in [Uid -> HandleState \cup {"destroyed", "dead"}]
      /\ call \in [Uid -> Request \cup {"none"}]
      /\ ApplicationsTyped /\ requests \in Seq(RequestType) /\ Orderly(requests, call)
  BY DEF SystemInv, ApplicationsTyped
<1>1. CASE UNCHANGED <<handle, call>>
  BY <1>1 DEF Callable
<1>2. ASSUME NEW u \in Uid, NEW op \in Op, CallDaemon(u, op) PROVE Callable'
  <2>1. call[u] = "none" /\ handle[u] \in CallableIn[op] /\ op # "initialize"
    BY <1>2, RequestNames DEF CallDaemon, Awake
  <2>2. CASE handle' = [handle EXCEPT ![u] = "destroyed"] /\ UNCHANGED call
    BY <1>0, <2>1, <2>2 DEF Callable
  <2>3. CASE call' = [call EXCEPT ![u] = op] /\ UNCHANGED handle
    BY <1>0, <2>1, <2>3 DEF Callable
  <2>4. QED
    BY <1>2, <2>2, <2>3 DEF CallDaemon
<1>3. ASSUME NEW u \in Uid, NEW granted, NEW queue \in Seq(RequestType),
             Returns(u, granted, queue), call[u] # "none"
      PROVE  Callable'
  <2>1. CASE call'[u] = "none"
    BY <1>0, <1>3, <2>1, ReturnsAgreed DEF Callable
  <2>2. CASE /\ AsksToInitialize(u, granted)
             /\ call'[u] = "initialize" /\ handle' = handle
    <3>1. call[u] \in {"hello", "initialize"}
      BY <2>2 DEF AsksToInitialize
    <3>2. handle[u] \in HandleState
      BY <1>3, <3>1 DEF Callable, CallableIn
    <3>3. QED
      BY <1>0, <1>3, <2>2, <3>2, ReturnsAgreed DEF Callable
  <2>3. QED
    BY <1>0, <1>3, <2>1, <2>2, ReturnsAgreed
<1>4. ASSUME NEW u \in Uid, GiveUp(u) PROVE Callable'
  BY <1>0, <1>3, <1>4, AbandonedKeeps DEF GiveUp
<1>5. ASSUME NEW u \in Uid, Die(u) PROVE Callable'
  <2>1. /\ handle' = [handle EXCEPT ![u] = "dead"]
        /\ call' = [call EXCEPT ![u] = "none"]
    BY <1>5 DEF Die
  <2>2. QED
    BY <1>0, <2>1 DEF Callable
<1>6. CASE Serve
  <2> DEFINE r == Head(requests)
  <2>1. /\ r \in RequestType /\ Tail(requests) \in Seq(RequestType)
        /\ r.awaited => call[r.uid] = r.op
    BY <1>0, <1>6, TailKeeps DEF Serve
  <2>2. r.uid \in Uid /\ r.op \in Request
    BY <2>1, RequestParts
  <2>3. CASE r.awaited /\ Returns(r.uid, HasGranted(r.op, r.uid), Tail(requests))
    <3>1. call[r.uid] # "none"
      BY <2>1, <2>2, <2>3, RequestNames
    <3> HIDE DEF r
    <3>2. QED
      BY <1>3, <2>1, <2>2, <2>3, <3>1
  <2>4. CASE UNCHANGED clientVars
    BY <1>1, <2>4 DEF clientVars
  <2>5. QED
    BY <1>6, <2>3, <2>4 DEF Serve
<1>7. ASSUME NEW u \in Uid, Receive(u) PROVE Callable'
  <2>1. PICK m : handle' = [handle EXCEPT ![u] = Told(m, @)]
    BY <1>7 DEF Receive
  <2>2. call[u] = "none" /\ call' = call
    BY <1>7 DEF Receive, Awake
  <2>3. QED
    BY <1>0, <2>1, <2>2 DEF Callable
<1>8. QED
  BY <1>1, <1>2, <1>4, <1>5, <1>6, <1>7
     DEF SystemNext, systemVars, clientVars, Prepare, MisreadMessage, AskHello, Ask,
         FireCheck, FireTimeOut, ResultFor, FireSilence, DaemonGivesUp, EngineResult,
         DaemonAlone

-----------------------------------------------------------------------------
(* What the daemon does to a session.                                      *)

LEMMA StateTyped ==
    SystemInv => state \in [Uid -> AppState \cup {"absent"}]
BY DEF SystemInv, ServerInv, TypeOK

LEMMA HandlerIsOfItsOwn ==
    ASSUME SystemInv, NEW v \in Uid, NEW op, Handler(op, v) \/ Refuses(op, v)
    PROVE  \A u \in Uid \ {v} : state'[u] = state[u]
<1>1. CASE UNCHANGED state
  BY <1>1
<1>2. CASE \E s : state' = [state EXCEPT ![v] = s]
  BY <1>2, StateTyped
<1>3. QED
  BY <1>1, <1>2 DEF Handler, Refuses, vars, Initialize, Finalize, ServerFinalize, Start,
     Stop, ServerStop, Cancel, ServerCancel

LEMMA ResumeIsOfItsOwn ==
    ASSUME SystemInv, NEW s, Resume(s)
    PROVE  /\ blocked.uid \in Uid
           /\ \A u \in Uid \ {blocked.uid} : state'[u] = state[u]
<1>1. blocked \in CallType
  BY NotBlocked DEF Resume, SystemInv
<1>2. blocked.uid \in Uid
  BY <1>1 DEF CallType
<1>3. CASE UNCHANGED state
  BY <1>2, <1>3
<1>4. CASE \E t : state' = [state EXCEPT ![blocked.uid] = t]
  BY <1>2, <1>4, StateTyped
<1>5. QED
  BY <1>3, <1>4 DEF Resume, vars, Greet, CheckEnds, ServerCancel, Finalize, ServerFinalize

\* The request an application waits for is served: its call makes of the handle
\* what the handler makes of the session.
LEMMA ServeFits ==
    ASSUME SystemInv, Callable, NEW u \in Uid, NEW op \in Request, call[u] = op,
           Handler(op, u) \/ Refuses(op, u),
           ~(op = "stop" /\ state[u] = "recording" /\ state'[u] = "ready"),
           Fits(handle[u], state[u], inbox[u]), Unasked(inbox[u])
    PROVE  /\ AsksToInitialize(u, HasGranted(op, u)) => state'[u] = state[u]
           /\ ~AsksToInitialize(u, HasGranted(op, u)) =>
                 Fits(StateAfter(op, handle[u], HasGranted(op, u)), state'[u], inbox[u])
<1> DEFINE h == handle[u]
           granted == HasGranted(op, u)
<1>1. inbox[u] \in Seq(MessageType) /\ state \in [Uid -> AppState \cup {"absent"}]
  BY StateTyped DEF SystemInv, InboxesTyped
<1>2. op \in {"hello", "initialize", "finalize", "destroy", "start", "stop", "cancel"}
  BY RequestNames
<1>3. h \in IF op = "initialize" THEN HandleState ELSE CallableIn[op]
  BY <1>2 DEF Callable
<1>4. CASE op = "hello"
  <2>1. UNCHANGED vars
    BY <1>4 DEF Handler, Refuses
  <2>2. StateAfter(op, h, granted) = h /\ state'[u] = state[u]
    BY <1>4, <2>1 DEF StateAfter, vars
  <2>3. QED
    BY <2>2
\* Refused, or without effect.
<1>5. CASE op # "hello" /\ state' = state /\ op \notin {"finalize", "destroy"}
  <2>1. ~granted
    BY <1>5 DEF HasGranted
  <2>2. StateAfter(op, h, granted) = h
    BY <1>5, <2>1 DEF StateAfter
  <2>3. QED
    BY <1>5, <2>2
<1>6. CASE op = "initialize" /\ state' # state
  <2>1. Initialize(u)
    BY <1>6 DEF Handler, Refuses, vars
  <2>2. state[u] = "absent" /\ state'[u] = "ready"
    BY <1>1, <1>6, <2>1 DEF Initialize
  <2>3. granted
    BY <1>6, <2>2 DEF HasGranted, Granted
  <2>4. h # "destroyed"
    BY <1>3, <1>6 DEF HandleState
  <2>5. Silent(inbox[u])
    BY <1>1, <2>2, <2>4, NoNews
  <2>6. Fits("ready", "ready", inbox[u])
    BY <2>5, NoNewsFits DEF HandleState, Agrees
  <2>7. ~AsksToInitialize(u, granted) /\ StateAfter(op, h, granted) = "ready"
    BY <1>6, <2>3 DEF AsksToInitialize, StateAfter, Reached
  <2>8. QED
    BY <2>2, <2>6, <2>7
<1>7. CASE op = "finalize"
  <2>1. h = "ready"
    BY <1>3, <1>7 DEF CallableIn
  <2>2. state[u] = "ready" /\ Silent(inbox[u])
    BY <1>1, <2>1, NoNews DEF Agrees
  <2>3. ServerFinalize(u)
    BY <1>7, <2>2 DEF Handler, Refuses, Finalize
  <2>4. state'[u] = "absent"
    BY <1>1, <2>3 DEF ServerFinalize
  <2>5. Fits("created", "absent", inbox[u])
    BY <2>2, NoNewsFits DEF HandleState, Agrees
  <2>6. ~AsksToInitialize(u, granted) /\ StateAfter(op, h, granted) = "created"
    BY <1>7 DEF AsksToInitialize, StateAfter, Reached
  <2>7. QED
    BY <2>4, <2>5, <2>6
<1>8. CASE op = "destroy"
  <2>1. state'[u] = "absent"
    <3>1. CASE ServerFinalize(u)
      BY <1>1, <3>1 DEF ServerFinalize
    <3>2. CASE state[u] = "absent" /\ UNCHANGED vars
      BY <3>2 DEF vars
    <3>3. QED
      BY <1>8, <3>1, <3>2 DEF Handler, Refuses, Finalize
  <2>2. ~AsksToInitialize(u, granted) /\ StateAfter(op, h, granted) = "destroyed"
    BY <1>8 DEF AsksToInitialize, StateAfter, Reached
  <2>3. QED
    BY <2>1, <2>2 DEF Fits
<1>9. CASE op = "start" /\ state' # state
  <2>1. h = "ready"
    BY <1>3, <1>9 DEF CallableIn
  <2>2. Silent(inbox[u])
    BY <1>1, <2>1, NoNews
  <2>3. state'[u] = "recording"
    BY <1>1, <1>9 DEF Handler, Refuses, vars, Start
  <2>4. ~AsksToInitialize(u, granted) /\ StateAfter(op, h, granted) = "recording"
    BY <1>9, <2>3 DEF AsksToInitialize, StateAfter, Reached, HasGranted, Granted
  <2>5. QED
    BY <2>2, <2>3, <2>4, NoNewsFits DEF HandleState, Agrees
<1>10. CASE op = "stop" /\ state' # state
  <2>1. ServerStop(u, silence)
    BY <1>10 DEF Handler, Refuses, vars, Stop
  <2>2. state[u] = "recording" /\ state'[u] = "processing"
    BY <1>1, <1>10, <2>1 DEF ServerStop
  <2>3. h # "destroyed"
    BY <1>3, <1>10 DEF CallableIn
  <2>4. Silent(inbox[u])
    BY <1>1, <2>2, <2>3, NoNews
  <2>5. ~AsksToInitialize(u, granted) /\ StateAfter(op, h, granted) = "processing"
    BY <1>10, <2>2 DEF AsksToInitialize, StateAfter, Reached, HasGranted, Granted
  <2>6. QED
    BY <2>2, <2>4, <2>5, NoNewsFits DEF HandleState, Agrees
<1>11. CASE op = "cancel" /\ state' # state
  <2>1. ServerCancel(u, {})
    BY <1>11 DEF Handler, Refuses, vars, Cancel
  <2>2. state[u] \in Busy /\ state'[u] = "ready"
    BY <1>1, <1>11, <2>1 DEF ServerCancel
  <2>3. h # "destroyed"
    BY <1>3, <1>11 DEF CallableIn
  <2>4. Silent(inbox[u])
    BY <1>1, <2>2, <2>3, NoNews, NoQuestion DEF Busy
  <2>5. ~AsksToInitialize(u, granted) /\ StateAfter(op, h, granted) = "ready"
    BY <1>11, <2>2 DEF AsksToInitialize, StateAfter, Reached, HasGranted, Granted
  <2>6. QED
    BY <2>2, <2>4, <2>5, NoNewsFits DEF HandleState, Agrees
<1>12. QED
  BY <1>2, <1>4, <1>5, <1>6, <1>7, <1>8, <1>9, <1>10, <1>11

-----------------------------------------------------------------------------
(* Steps.                                                                  *)

\* The request the daemon serves next.
LEMMA NextRequest ==
    ASSUME SystemInv, Serve
    PROVE  LET r == Head(requests) IN
           /\ r \in RequestType /\ r.uid \in Uid /\ r.op \in Request
           /\ Tail(requests) \in Seq(RequestType)
           /\ Handler(r.op, r.uid) \/ Refuses(r.op, r.uid)
           /\ \/ /\ r.awaited /\ call[r.uid] = r.op /\ call[r.uid] # "none"
                 /\ \A i \in DOMAIN Tail(requests) : Tail(requests)[i].uid # r.uid
                 /\ Returns(r.uid, HasGranted(r.op, r.uid), Tail(requests))
              \/ /\ ~r.awaited
                 /\ requests' = Tail(requests) /\ UNCHANGED clientVars
<1> DEFINE r == Head(requests)
<1>1. /\ r \in RequestType /\ Tail(requests) \in Seq(RequestType)
      /\ r.awaited => /\ call[r.uid] = r.op
                      /\ \A i \in DOMAIN Tail(requests) : Tail(requests)[i].uid # r.uid
  BY TailKeeps DEF Serve, SystemInv
<1>2. r.uid \in Uid /\ r.op \in Request /\ r.op # "none"
  BY <1>1, RequestParts, RequestNames
<1> HIDE DEF r
<1>3. /\ Handler(r.op, r.uid) \/ Refuses(r.op, r.uid)
      /\ IF r.awaited
         THEN Returns(r.uid, HasGranted(r.op, r.uid), Tail(requests))
         ELSE requests' = Tail(requests) /\ UNCHANGED clientVars
  BY DEF Serve, r
<1>4. QED
  BY <1>1, <1>2, <1>3 DEF r

\* An application is blocked only in what its handle allows, so one that is gone
\* is not, and does not come back.
LEMMA DeadStays ==
    ASSUME SystemInv, Callable, SystemNext, NEW u \in Uid, handle[u] = "dead"
    PROVE  handle'[u] = "dead"
<1>0. /\ handle \in [Uid -> HandleState \cup {"destroyed", "dead"}]
      /\ call \in [Uid -> Request \cup {"none"}]
  BY DEF SystemInv, ApplicationsTyped
<1>1. call[u] = "none"
  <2>1. \A op \in Op : "dead" \notin CallableIn[op]
    BY RequestNames DEF CallableIn, HandleState
  <2>2. QED
    BY <1>0, <2>1 DEF Callable, Request, HandleState
<1>2. QED
  BY <1>1, GoneStaysGone

\* An application that begins anew knows its session.
LEMMA BeginsAgreed ==
    ASSUME SystemInv, Callable, SystemNext, NEW u \in Uid, BeginsAnew(u),
           handle'[u] # "dead"
    PROVE  Fits(handle'[u], state'[u], inbox'[u]) /\ Served(requests', u)
<1>0. /\ handle \in [Uid -> HandleState \cup {"destroyed", "dead"}]
      /\ call \in [Uid -> Request \cup {"none"}]
      /\ ApplicationsTyped /\ requests \in Seq(RequestType) /\ Orderly(requests, call)
  BY DEF SystemInv, ApplicationsTyped
<1>1. /\ call[u] = "initialize" /\ call'[u] = "none"
      /\ state[u] = "absent" /\ state'[u] = "ready" /\ inbox[u] = <<>>
  BY DEF BeginsAnew
<1>2. ~ UNCHANGED call /\ ~ UNCHANGED vars
  BY <1>1 DEF vars
<1>3. ASSUME NEW v \in Uid, NEW op \in Op, CallDaemon(v, op) PROVE FALSE
  BY <1>2, <1>3 DEF CallDaemon
<1>4. ASSUME NEW v \in Uid, GiveUp(v) PROVE FALSE
  BY <1>2, <1>4 DEF GiveUp
<1>5. ASSUME NEW v \in Uid, Die(v) PROVE FALSE
  <2>1. /\ handle' = [handle EXCEPT ![v] = "dead"]
        /\ call' = [call EXCEPT ![v] = "none"]
    BY <1>5 DEF Die
  <2>2. v = u
    BY <1>0, <1>1, <2>1
  <2>3. QED
    BY <1>0, <2>1, <2>2
<1>6. Serve
  BY <1>2, <1>3, <1>4, <1>5
     DEF SystemNext, clientVars, Prepare, Receive, MisreadMessage, AskHello, Ask,
         FireCheck, FireTimeOut, ResultFor, FireSilence, DaemonGivesUp, EngineResult,
         DaemonAlone
<1> DEFINE r == Head(requests)
           granted == HasGranted(r.op, r.uid)
<1>7. /\ r.uid \in Uid /\ Tail(requests) \in Seq(RequestType)
      /\ Handler(r.op, r.uid) \/ Refuses(r.op, r.uid)
      /\ r.awaited /\ call[r.uid] = r.op
      /\ \A i \in DOMAIN Tail(requests) : Tail(requests)[i].uid # r.uid
      /\ Returns(r.uid, granted, Tail(requests))
  BY <1>2, <1>6, NextRequest DEF clientVars
<1> HIDE DEF r
<1>8. r.uid = u /\ r.op = "initialize"
  BY <1>1, <1>7, HandlerIsOfItsOwn
<1>9. granted
  BY <1>1, <1>8 DEF HasGranted, Granted
<1> HIDE DEF granted
<1>10. ~AsksToInitialize(u, granted)
  BY <1>1, <1>9 DEF AsksToInitialize
<1>11. requests' = Tail(requests) /\ handle'[u] = "ready"
  <2>1. Returns(u, granted, Tail(requests)) /\ Tail(requests) \in Seq(RequestType)
    BY <1>7, <1>8
  <2>2. requests' = Tail(requests) /\ handle'[u] = StateAfter(call[u], handle[u], granted)
    BY <1>0, <1>10, <2>1, ReturnsAgreed
  <2>3. StateAfter("initialize", handle[u], granted) = "ready"
    BY <1>9 DEF StateAfter, Reached
  <2>4. QED
    BY <1>1, <2>2, <2>3
<1>12. Served(requests', u)
  BY <1>7, <1>8, <1>11 DEF Served
<1>13. inbox'[u] = <<>>
  BY <1>1, <1>6 DEF Serve
<1>14. Fits("ready", "ready", <<>>)
  BY NoNewsFits DEF Silent, HandleState, Agrees
<1>15. QED
  BY <1>1, <1>11, <1>12, <1>13, <1>14

\* Requests and calls that end: of the application itself, one that it waited
\* for or that said hello; of another, any.
LEMMA RequestsKeepAgreement ==
    ASSUME SystemInv, Callable, NEW u \in Uid, Agreed(u), ~LosesTrack(u),
           handle'[u] # "dead",
           \/ Serve
           \/ \E v \in Uid : GiveUp(v) \/ Die(v) \/ \E op \in Op : CallDaemon(v, op)
    PROVE  Fits(handle'[u], state'[u], inbox'[u]) /\ Served(requests', u)
<1>0. /\ handle \in [Uid -> HandleState \cup {"destroyed", "dead"}]
      /\ call \in [Uid -> Request \cup {"none"}]
      /\ ApplicationsTyped /\ requests \in Seq(RequestType) /\ Orderly(requests, call)
      /\ inbox \in [Uid -> Seq(MessageType)]
      /\ Fits(handle[u], state[u], inbox[u]) /\ Served(requests, u)
  BY DEF SystemInv, ApplicationsTyped, InboxesTyped, Agreed
<1>1. ASSUME NEW v \in Uid, GiveUp(v)
      PROVE  Fits(handle'[u], state'[u], inbox'[u]) /\ Served(requests', u)
  <2> DEFINE queue == Abandoned(requests, v)
  <2>1. /\ call[v] # "none" /\ Returns(v, FALSE, queue)
        /\ state' = state /\ inbox' = inbox
    BY <1>1 DEF GiveUp, vars
  <2>2. v = u => call[u] = "hello"
    BY <1>1 DEF LosesTrack, GivesUpRequest
  <2>3. queue \in Seq(RequestType)
    BY <1>0, AbandonedKeeps
  <2>4. Served(queue, u)
    BY <1>0, <2>2, AbandonedServed DEF Orderly
  <2> HIDE DEF queue
  <2>5. Served(requests', u)
    BY <1>0, <2>1, <2>3, <2>4, ReturnsAgreed
  <2>6. handle'[u] = handle[u]
    BY <1>0, <2>1, <2>2, <2>3, ReturnsAgreed DEF StateAfter
  <2>7. QED
    BY <1>0, <2>1, <2>5, <2>6
<1>2. ASSUME NEW v \in Uid, Die(v)
      PROVE  Fits(handle'[u], state'[u], inbox'[u]) /\ Served(requests', u)
  <2>1. /\ handle' = [handle EXCEPT ![v] = "dead"]
        /\ requests' = Abandoned(requests, v)
        /\ inbox' = [inbox EXCEPT ![v] = <<>>]
        /\ state' = state
    BY <1>2 DEF Die, Crash, vars
  <2>2. v # u
    BY <1>0, <2>1
  <2>3. Served(requests', u)
    BY <1>0, <2>1, <2>2, AbandonedServed
  <2>4. QED
    BY <1>0, <2>1, <2>2, <2>3
<1>3. ASSUME NEW v \in Uid, NEW op \in Op, CallDaemon(v, op)
      PROVE  Fits(handle'[u], state'[u], inbox'[u]) /\ Served(requests', u)
  <2>1. state' = state /\ inbox' = inbox
    BY <1>3 DEF CallDaemon, vars
  <2>2. CASE /\ handle[v] = "created" /\ requests' = requests
             /\ handle' = [handle EXCEPT ![v] = "destroyed"]
    <3>1. CASE v = u
      <4>1. state[u] = "absent"
        BY <1>0, <2>2, <3>1, NoNews DEF Agrees
      <4>2. QED
        BY <1>0, <2>1, <2>2, <3>1, <4>1 DEF Fits
    <3>2. CASE v # u
      BY <1>0, <2>1, <2>2, <3>2
    <3>3. QED
      BY <3>1, <3>2
  <2>3. CASE requests' = Append(requests, RequestOf(op, v)) /\ handle' = handle
    BY <1>0, <2>1, <2>3, SentServed, RequestNames
  <2>4. QED
    BY <1>3, <2>2, <2>3 DEF CallDaemon
<1>4. CASE Serve
  <2> DEFINE r == Head(requests)
             granted == HasGranted(r.op, r.uid)
  <2>1. /\ r \in RequestType /\ r.uid \in Uid /\ r.op \in Request
        /\ Tail(requests) \in Seq(RequestType)
        /\ Handler(r.op, r.uid) \/ Refuses(r.op, r.uid)
        /\ \/ /\ r.awaited /\ call[r.uid] = r.op
              /\ \A i \in DOMAIN Tail(requests) : Tail(requests)[i].uid # r.uid
              /\ Returns(r.uid, granted, Tail(requests))
           \/ /\ ~r.awaited
              /\ requests' = Tail(requests) /\ UNCHANGED clientVars
    BY <1>4, NextRequest
  <2>2. inbox' = inbox /\ blocked = NoCall /\ requests # <<>>
    BY <1>4 DEF Serve, DaemonFree
  <2>3. Served(Tail(requests), u)
    BY <1>0, <2>2, TailServed
  <2>4. Served(requests', u)
    BY <1>0, <2>1, <2>3, ReturnsAgreed
  <2>5. CASE r.uid # u
    <3>1. handle'[u] = handle[u]
      <4>1. CASE Returns(r.uid, granted, Tail(requests))
        <5> HIDE DEF r, granted
        <5>1. QED
          BY <1>0, <2>1, <2>5, <4>1, ReturnsAgreed
      <4>2. QED
        BY <2>1, <4>1 DEF clientVars
    <3>2. state'[u] = state[u]
      BY <2>1, <2>5, HandlerIsOfItsOwn
    <3>3. QED
      BY <1>0, <2>2, <2>4, <3>1, <3>2
  <2>6. CASE r.uid = u /\ ~r.awaited
    <3>1. r.op = "hello"
      <4>1. r = requests[1] /\ 1 \in DOMAIN requests
        BY <1>0, <2>2, SMT
      <4>2. QED
        BY <1>0, <2>6, <4>1 DEF Served
    <3>2. UNCHANGED vars
      BY <2>1, <3>1 DEF Handler, Refuses
    <3>3. state' = state /\ handle' = handle
      BY <2>1, <2>6, <3>2 DEF vars, clientVars
    <3>4. QED
      BY <1>0, <2>2, <2>4, <3>3
  <2>7. CASE r.uid = u /\ r.awaited
    <3> DEFINE op == r.op
    <3>1. /\ op \in Request /\ call[u] = op
          /\ Handler(op, u) \/ Refuses(op, u)
          /\ Returns(u, HasGranted(op, u), Tail(requests))
      BY <2>1, <2>7
    <3>2. ~(op = "stop" /\ state[u] = "recording" /\ state'[u] = "ready")
      BY DEF LosesTrack, StopFails
    <3>3. Unasked(inbox[u])
      <4>1. blocked.uid # u
        BY <2>2, NullAssumption DEF NoCall
      <4>2. QED
        BY <4>1, OthersUnasked DEF SystemInv
    <3> HIDE DEF op
    <3>4. /\ AsksToInitialize(u, HasGranted(op, u)) => state'[u] = state[u]
          /\ ~AsksToInitialize(u, HasGranted(op, u)) =>
                Fits(StateAfter(op, handle[u], HasGranted(op, u)), state'[u], inbox[u])
      BY <1>0, <3>1, <3>2, <3>3, ServeFits
    <3>5. \/ AsksToInitialize(u, HasGranted(op, u)) /\ handle' = handle
          \/ /\ ~AsksToInitialize(u, HasGranted(op, u))
             /\ handle'[u] = StateAfter(op, handle[u], HasGranted(op, u))
      <4> DEFINE yes == HasGranted(op, u)
      <4>1. Returns(u, yes, Tail(requests)) /\ Tail(requests) \in Seq(RequestType)
        BY <2>1, <3>1
      <4> HIDE DEF yes
      <4>2. \/ AsksToInitialize(u, yes) /\ handle' = handle
            \/ ~AsksToInitialize(u, yes) /\ handle'[u] = StateAfter(call[u], handle[u], yes)
        BY <1>0, <4>1, ReturnsAgreed
      <4>3. QED
        BY <3>1, <4>2 DEF yes
    <3>6. QED
      BY <1>0, <2>2, <2>4, <3>4, <3>5
  <2>8. QED
    BY <2>1, <2>5, <2>6, <2>7
<1>5. QED
  BY <1>1, <1>2, <1>3, <1>4

\* A message that is read: nothing is done to the session meanwhile.
LEMMA ReceiveKeepsAgreement ==
    ASSUME SystemInv, Callable, NEW u \in Uid, Agreed(u), NEW v \in Uid, Receive(v)
    PROVE  Fits(handle'[u], state'[u], inbox'[u]) /\ Served(requests', u)
<1>0. /\ handle \in [Uid -> HandleState \cup {"destroyed", "dead"}]
      /\ inbox \in [Uid -> Seq(MessageType)] /\ Asked(inbox[v], v, blocked)
      /\ Fits(handle[u], state[u], inbox[u]) /\ Served(requests, u)
      /\ state \in [Uid -> AppState \cup {"absent"}]
  BY StateTyped DEF SystemInv, ApplicationsTyped, InboxesTyped, Agreed
<1> DEFINE m == Head(inbox[v])
           rest == [inbox EXCEPT ![v] = Tail(@)]
<1>1. /\ inbox[v] # <<>> /\ requests' = requests
      /\ handle' = [handle EXCEPT ![v] = Told(m, @)]
      /\ \/ ~m.awaited /\ inbox' = rest /\ UNCHANGED vars
         \/ /\ m.awaited /\ Resume(handle[v])
            /\ IF m.kind = "get state" /\ handle[v] = "processing"
               THEN inbox' = [rest EXCEPT ![v] =
                        Append(@, Message("readied", "ready", TRUE))]
               ELSE inbox' = rest
  BY DEF Receive
<1>2. m.awaited => blocked.uid = v /\ blocked.kind = m.kind
  BY <1>0, <1>1, TailAsked
<1> HIDE DEF m
<1>3. CASE v # u
  <2>1. state'[u] = state[u]
    BY <1>1, <1>2, <1>3, ResumeIsOfItsOwn DEF vars
  <2>2. handle'[u] = handle[u] /\ inbox'[u] = inbox[u]
    BY <1>0, <1>1, <1>3
  <2>3. QED
    BY <1>0, <1>1, <2>1, <2>2
<1>4. CASE v = u
  <2>1. inbox' = rest /\ state'[u] = state[u]
    <3>1. CASE ~m.awaited
      BY <1>1, <3>1 DEF vars
    <3>2. CASE m.awaited /\ m.kind = "get state"
      <4>1. state[u] = "recording"
        BY <1>2, <1>4, <3>2 DEF SystemInv, CheckIsOfRecording, Recording
      <4>2. handle[u] = "recording"
        <5>1. handle[u] # "destroyed"
          BY <1>0, <4>1 DEF Fits, HandleState
        <5>2. QED
          BY <1>0, <4>1, <5>1, NoNews DEF Agrees
      <4>3. CheckEnds(u, blocked.timer, "recording")
        BY <1>1, <1>2, <1>4, <3>2, <4>2 DEF Resume
      <4>4. state' = state
        BY <4>3 DEF CheckEnds
      <4>5. QED
        BY <1>1, <1>4, <3>2, <4>2, <4>4
    <3>3. CASE m.awaited /\ m.kind # "get state"
      <4>1. inbox' = rest /\ Resume(handle[u]) /\ blocked.uid = u
            /\ blocked.kind # "get state"
        BY <1>1, <1>2, <1>4, <3>3
      <4>2. handle[u] = "destroyed" => state[u] = "absent"
        BY <1>0 DEF Fits, HandleState
      <4>3. handle[u] # "dead"
        BY <1>0 DEF Fits, HandleState
      <4>4. CASE /\ Greet(u)
                 /\ state'[u] = "absent" <=> handle[u] \in {"dead", "destroyed"}
        <5>1. state' = state \/ state'[u] = "absent"
          BY <1>0, <4>4 DEF Greet, ServerFinalize
        <5>2. QED
          BY <4>1, <4>2, <4>3, <4>4, <5>1
      <4>5. CASE UNCHANGED vars
        BY <4>1, <4>5 DEF vars
      <4>6. CASE handle[u] \in {"dead", "destroyed"} /\ Finalize(u)
        BY <4>2, <4>3, <4>6 DEF Finalize, ServerFinalize
      <4>7. QED
        BY <4>1, <4>4, <4>5, <4>6 DEF Resume
    <3>4. QED
      BY <3>1, <3>2, <3>3
  <2>2. handle'[u] = Told(Head(inbox[u]), handle[u]) /\ inbox'[u] = Tail(inbox[u])
    BY <1>0, <1>1, <1>4, <2>1 DEF m
  <2>3. Fits(Told(Head(inbox[u]), handle[u]), state[u], Tail(inbox[u]))
    BY <1>0, <1>1, <1>4, TakenFits
  <2>4. QED
    BY <1>0, <1>1, <2>1, <2>2, <2>3
<1>5. QED
  BY <1>3, <1>4

\* Everything else the daemon does by itself: what it does to the session it
\* tells the application, or that is in doubt.
LEMMA DaemonKeepsAgreement ==
    ASSUME SystemInv, NEW u \in Uid, Agreed(u), ~LosesTrack(u),
           \/ \E v \in Uid : MisreadMessage(v) \/ AskHello(v)
           \/ \E t \in TimerId : FireCheck(t) \/ FireTimeOut(t)
           \/ FireSilence \/ DaemonGivesUp \/ EngineResult \/ DaemonAlone
    PROVE  Fits(handle'[u], state'[u], inbox'[u]) /\ Served(requests', u)
<1>0. /\ inbox \in [Uid -> Seq(MessageType)]
      /\ Fits(handle[u], state[u], inbox[u]) /\ Served(requests, u)
      /\ state \in [Uid -> AppState \cup {"absent"}]
      /\ AtMostOneBusy
  BY StateTyped DEF SystemInv, ServerInv, InboxesTyped, Agreed
<1>1. handle' = handle /\ requests' = requests
  BY DEF MisreadMessage, AskHello, Ask, FireCheck, FireTimeOut, ResultFor, FireSilence,
     DaemonGivesUp, EngineResult, DaemonAlone, clientVars
<1>2. CASE state'[u] = state[u] /\ inbox'[u] = inbox[u]
  BY <1>0, <1>1, <1>2
<1>3. ASSUME NEW v \in Uid, NEW t, NEW k \in {"hello", "get state"},
             Ask(v, k, t, "none"), UNCHANGED vars
      PROVE  Fits(handle'[u], state'[u], inbox'[u]) /\ Served(requests', u)
  <2> DEFINE m == Message(k, "none", TRUE)
  <2>1. m \in MessageType /\ m.state = "none"
    BY DEF Message, MessageType
  <2>2. inbox' = Delivered(v, m) /\ state' = state
    BY <1>3 DEF Ask, vars
  <2> HIDE DEF m
  <2>3. inbox'[u] = inbox[u] \/ inbox'[u] = Append(inbox[u], m)
    BY <1>0, <2>2 DEF Delivered
  <2>4. Fits(handle[u], state[u], Append(inbox[u], m))
    BY <1>0, <2>1, QuestionFits
  <2>5. QED
    BY <1>0, <1>1, <2>2, <2>3, <2>4
\* The session is done, and the result is sent.
<1>4. ASSUME state[u] = "processing", state'[u] = "ready", ResultFor(u)
      PROVE  Fits(handle'[u], state'[u], inbox'[u]) /\ Served(requests', u)
  <2> DEFINE m == Message("result", "ready", FALSE)
  <2>1. m \in MessageType /\ m.state = "ready"
    BY DEF Message, MessageType
  <2>2. handle[u] # "dead"
    BY <1>0 DEF Fits, HandleState
  <2>3. inbox' = [inbox EXCEPT ![u] = Append(@, m)]
    BY <1>4, <2>2 DEF ResultFor, Delivered
  <2> HIDE DEF m
  <2>4. Fits(handle[u], "ready", Append(inbox[u], m))
    BY <1>0, <1>4, <2>1, ResultFits
  <2>5. QED
    BY <1>0, <1>1, <1>4, <2>3, <2>4
<1>5. ASSUME NEW v \in Uid, MisreadMessage(v)
      PROVE  Fits(handle'[u], state'[u], inbox'[u]) /\ Served(requests', u)
  <2>1. v # u
    BY <1>5 DEF LosesTrack
  <2>2. inbox[v] # <<>> /\ inbox'[u] = inbox[u]
    BY <1>0, <1>5, <2>1 DEF MisreadMessage
  <2>3. Head(inbox[v]).awaited => blocked.uid = v
    BY <2>2, TailAsked DEF SystemInv, InboxesTyped
  <2>4. state'[u] = state[u]
    BY <1>5, <2>1, <2>3, ResumeIsOfItsOwn DEF MisreadMessage, vars
  <2>5. QED
    BY <1>2, <2>2, <2>4
<1>6. ASSUME NEW v \in Uid, AskHello(v)
      PROVE  Fits(handle'[u], state'[u], inbox'[u]) /\ Served(requests', u)
  BY <1>3, <1>6 DEF AskHello
<1>7. ASSUME NEW t \in TimerId, FireCheck(t)
      PROVE  Fits(handle'[u], state'[u], inbox'[u]) /\ Served(requests', u)
  <2>1. CASE Recording = {} /\ CheckRecording(t) /\ inbox' = inbox
    <3>1. state' = state
      BY <2>1 DEF CheckRecording
    <3>2. QED
      BY <1>2, <2>1, <3>1
  <2>2. ASSUME NEW v \in Recording, UNCHANGED vars, Ask(v, "get state", t, "none")
        PROVE  Fits(handle'[u], state'[u], inbox'[u]) /\ Served(requests', u)
    BY <1>3, <2>2 DEF Recording
  <2>3. QED
    BY <1>7, <2>1, <2>2 DEF FireCheck
<1>8. ASSUME NEW t \in TimerId, FireTimeOut(t)
      PROVE  Fits(handle'[u], state'[u], inbox'[u]) /\ Served(requests', u)
  <2>1. CASE Processing = {}
    <3>1. state' = state /\ inbox' = inbox
      BY <1>8, <2>1 DEF FireTimeOut, TimeOut
    <3>2. QED
      BY <1>2, <3>1
  <2>2. CASE Processing # {}
    <3>1. PICK v \in Processing : state' = [state EXCEPT ![v] = "ready"]
      BY <1>8, <2>2 DEF FireTimeOut, TimeOut
    <3>2. \A w \in Processing : w = v
      BY <1>0, <3>1 DEF AtMostOneBusy, Processing, Busy
    <3>3. ResultFor(v)
      BY <1>8, <2>2, <3>2 DEF FireTimeOut
    <3>4. v \in Uid /\ state[v] = "processing"
      BY <3>1 DEF Processing
    <3>5. CASE v = u
      BY <1>0, <1>4, <3>1, <3>3, <3>4, <3>5
    <3>6. CASE v # u
      <4>1. state'[u] = state[u] /\ inbox'[u] = inbox[u]
        BY <1>0, <3>1, <3>3, <3>4, <3>6 DEF ResultFor, Delivered
      <4>2. QED
        BY <1>2, <4>1
    <3>7. QED
      BY <3>5, <3>6
  <2>3. QED
    BY <2>1, <2>2
<1>9. CASE FireSilence
  <2>1. CASE StopBySilence /\ Recording = {} /\ inbox' = inbox
    <3>1. state' = state
      BY <2>1 DEF StopBySilence
    <3>2. QED
      BY <1>2, <2>1, <3>1
  <2>2. ASSUME NEW v \in Recording, ServerStop(v, silence - 1),
               IF state'[v] = "processing"
               THEN Ask(v, "stopped", NULL, "processing")
               ELSE inbox' = inbox
        PROVE  Fits(handle'[u], state'[u], inbox'[u]) /\ Served(requests', u)
    <3>1. v \in Uid /\ state[v] = "recording"
      BY DEF Recording
    <3>2. CASE v # u
      <4>1. state'[u] = state[u]
        BY <1>0, <2>2, <3>1, <3>2 DEF ServerStop
      <4>2. inbox'[u] = inbox[u]
        BY <1>0, <2>2, <3>1, <3>2 DEF Ask, Delivered
      <4>3. QED
        BY <1>2, <4>1, <4>2
    <3>3. CASE v = u
      <4>1. state'[u] = "processing"
        <5>1. state'[u] \in {"processing", "ready"}
          BY <1>0, <2>2, <3>1, <3>3 DEF ServerStop
        <5>2. state'[u] # "ready"
          BY <1>1, <3>1, <3>3 DEF LosesTrack, StopFails
        <5>3. QED
          BY <5>1, <5>2
      <4> DEFINE m == Message("stopped", "processing", TRUE)
      <4>2. m \in MessageType /\ m.state = "processing" /\ m.awaited = TRUE
        BY DEF Message, MessageType
      <4>3. handle[u] # "dead"
        BY <1>0 DEF Fits, HandleState
      <4>4. inbox' = [inbox EXCEPT ![u] = Append(@, m)]
        BY <2>2, <3>3, <4>1, <4>3 DEF Ask, Delivered
      <4> HIDE DEF m
      <4>5. Fits(handle[u], "processing", Append(inbox[u], m))
        BY <1>0, <3>1, <3>3, <4>2, StoppedFits
      <4>6. QED
        BY <1>0, <1>1, <4>1, <4>4, <4>5
    <3>4. QED
      BY <3>2, <3>3
  <2>3. QED
    BY <1>9, <2>1, <2>2 DEF FireSilence
<1>10. CASE DaemonGivesUp
  <2>1. blocked.uid # u /\ Resume("dead")
    BY <1>10 DEF LosesTrack, IsGivenUp, DaemonGivesUp
  <2>2. state'[u] = state[u]
    BY <2>1, ResumeIsOfItsOwn
  <2>3. inbox'[u] = inbox[u]
    BY <1>0, <1>10, <2>1 DEF DaemonGivesUp
  <2>4. QED
    BY <1>2, <2>2, <2>3
<1>11. CASE EngineResult
  <2>1. job \in Uid /\ engine = "deciding"
    BY <1>11 DEF EngineResult, Result, SystemInv, JobKnown, Working
  <2>2. state[job] # "recording"
    BY <2>1 DEF SystemInv, ServerInv, EngineNeverMixesUp, Recording
  <2>3. /\ \A v \in Uid \ {job} : state'[v] = state[v]
        /\ state[job] = "processing" => state'[job] = "ready"
        /\ state[job] # "processing" => state'[job] = state[job]
    BY <1>0, <1>11, <2>1, <2>2 DEF EngineResult, Result, AppState
  <2>4. CASE job = u /\ state[u] = "processing"
    <3>1. ResultFor(u)
      BY <1>11, <2>4 DEF EngineResult, LosesTrack, EndsInSilence
    <3>2. QED
      BY <1>4, <2>3, <2>4, <3>1
  <2>5. CASE job = u /\ state[u] # "processing"
    BY <1>2, <1>11, <2>3, <2>5 DEF EngineResult
  <2>6. CASE job # u
    <3>1. inbox'[u] = inbox[u]
      BY <1>0, <1>11, <2>1, <2>6 DEF EngineResult, ResultFor, Delivered
    <3>2. QED
      BY <1>2, <2>3, <2>6, <3>1
  <2>7. QED
    BY <2>4, <2>5, <2>6
<1>12. CASE DaemonAlone
  <2>1. state' = state /\ inbox' = inbox
    BY <1>12 DEF DaemonAlone, SilenceDetected, CamcorderMessage, StartSweep,
       SettingInitialize, SettingFinalize, SetEngine
  <2>2. QED
    BY <1>2, <2>1
<1>13. QED
  BY <1>5, <1>6, <1>7, <1>8, <1>9, <1>10, <1>11, <1>12

\* Whoever is not in doubt after a step knows its session.
LEMMA AgreedStep ==
    ASSUME AgreementInv, AgreementNext, NEW u \in Uid, u \notin doubt',
           handle'[u] # "dead"
    PROVE  Agreed(u)'
<1>1. SystemInv /\ Callable /\ SystemNext
  BY DEF AgreementInv, AgreementNext
<1>2. ~LosesTrack(u) /\ (u \notin doubt \/ BeginsAnew(u))
  BY DEF AgreementNext
<1>3. Fits(handle'[u], state'[u], inbox'[u]) /\ Served(requests', u)
  <2>1. CASE BeginsAnew(u)
    BY <1>1, <2>1, BeginsAgreed
  <2>2. CASE u \notin doubt
    <3>1. handle[u] # "dead"
      BY <1>1, DeadStays
    <3>2. Agreed(u)
      BY <2>2, <3>1 DEF AgreementInv
    <3>3. ASSUME NEW v \in Uid, Prepare(v)
          PROVE  Fits(handle'[u], state'[u], inbox'[u]) /\ Served(requests', u)
      <4>1. handle' = handle /\ state' = state /\ inbox' = inbox /\ requests' = requests
        BY <3>3 DEF Prepare, vars
      <4>2. QED
        BY <3>2, <4>1 DEF Agreed
    <3>4. CASE \/ Serve
               \/ \E v \in Uid : GiveUp(v) \/ Die(v) \/ \E op \in Op : CallDaemon(v, op)
      BY <1>1, <1>2, <3>2, <3>4, RequestsKeepAgreement
    <3>5. ASSUME NEW v \in Uid, Receive(v)
          PROVE  Fits(handle'[u], state'[u], inbox'[u]) /\ Served(requests', u)
      BY <1>1, <3>2, <3>5, ReceiveKeepsAgreement
    <3>6. CASE \/ \E v \in Uid : MisreadMessage(v) \/ AskHello(v)
               \/ \E t \in TimerId : FireCheck(t) \/ FireTimeOut(t)
               \/ FireSilence \/ DaemonGivesUp \/ EngineResult \/ DaemonAlone
      BY <1>1, <1>2, <3>2, <3>6, DaemonKeepsAgreement
    <3>7. QED
      BY <1>1, <3>3, <3>4, <3>5, <3>6 DEF SystemNext
  <2>3. QED
    BY <1>2, <2>1, <2>2
<1>4. QED
  BY <1>3 DEF Agreed, Fits, Served, Silent, Agrees

LEMMA AgreementInvariantHolds == AgreementSpec => []AgreementInv
<1>1. AgreementInit => AgreementInv
  <2> SUFFICES ASSUME AgreementInit PROVE AgreementInv
    OBVIOUS
  <2>1. SystemInit
    BY DEF AgreementInit
  <2>2. SystemInv
    BY <2>1, InitialSystem
  <2>3. Callable
    BY <2>1 DEF SystemInit, Callable
  <2>4. ASSUME NEW u \in Uid PROVE Agreed(u)
    <3>1. /\ handle[u] = "created" /\ state[u] = "absent"
          /\ inbox[u] = <<>> /\ requests = <<>>
      BY <2>1 DEF SystemInit, Init
    <3>2. Fits("created", "absent", <<>>) /\ Served(<<>>, u)
      BY NoNewsFits DEF Silent, HandleState, Agrees, Served
    <3>3. QED
      BY <3>1, <3>2 DEF Agreed
  <2>5. QED
    BY <2>2, <2>3, <2>4 DEF AgreementInv
<1>2. AgreementInv /\ [AgreementNext]_agreementVars => AgreementInv'
  <2> SUFFICES ASSUME AgreementInv, [AgreementNext]_agreementVars PROVE AgreementInv'
    OBVIOUS
  <2>1. SystemInv /\ Callable /\ [SystemNext]_systemVars
    BY DEF AgreementInv, AgreementNext, agreementVars
  <2>2. SystemInv'
    BY <2>1, SystemInvStep
  <2>3. Callable'
    BY <2>1, CallableStep
  <2>4. CASE AgreementNext
    BY <2>2, <2>3, <2>4, AgreedStep DEF AgreementInv
  <2>5. CASE UNCHANGED agreementVars
    <3>1. /\ doubt' = doubt /\ handle' = handle /\ state' = state /\ inbox' = inbox
          /\ requests' = requests
      BY <2>5 DEF agreementVars, systemVars, vars, clientVars
    <3>2. \A u \in Uid : Agreed(u)' <=> Agreed(u)
      BY <3>1 DEF Agreed, Fits, Served, Silent, Agrees
    <3>3. QED
      BY <2>2, <2>3, <3>1, <3>2 DEF AgreementInv
  <2>6. QED
    BY <2>4, <2>5
<1>3. QED
  BY <1>1, <1>2, PTL DEF AgreementSpec

\* The handle of an application is what the daemon has its session for, for any
\* number of applications that block, time out and are interrupted by one
\* another, unless a message that says so is unread or the application is one
\* of those that lost track (client/stt.c:554, client/stt.c:887).
THEOREM HandlesAgree == AgreementSpec => []SessionsAgree
<1>1. AgreementInv => SessionsAgree
  <2> SUFFICES ASSUME AgreementInv, NEW u \in Uid \ doubt,
                      handle[u] # "dead", inbox[u] = <<>>
               PROVE  Agrees(handle[u], state[u])
    BY DEF SessionsAgree
  <2>1. Fits(handle[u], state[u], <<>>)
    BY DEF AgreementInv, Agreed
  <2>2. QED
    BY <2>1 DEF Fits, Agrees
<1>2. QED
  BY <1>1, AgreementInvariantHolds, PTL
=============================================================================
