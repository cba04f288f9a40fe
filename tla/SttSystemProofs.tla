--------------------------- MODULE SttSystemProofs ---------------------------
(***************************************************************************)
(* The daemon among its applications (SttSystem) is the daemon of          *)
(* SttServer, for every value of the constants.  Only the end of a check   *)
(* needs an invariant: the daemon goes on with what it knew before it      *)
(* blocked.                                                                *)
(***************************************************************************)
EXTENDS SttSystem, SttServerRefinement

\* What the daemon does for a request, or does not, is a step of SttServer.
LEMMA HandlerIsServerStep ==
    ASSUME NEW op, NEW u \in Uid, Handler(op, u) \/ Refuses(op, u)
    PROVE  [Next]_vars
BY DEF Handler, Refuses, Next

\* So is the end of a check, if it is still of the session that records.
LEMMA CheckIsServerStep ==
    ASSUME MainLoop, NEW u \in Recording, NEW t \in TimerId,
           timers[t].cb = "check", NEW s, CheckEnds(u, t, s)
    PROVE  [Next]_vars
<1>1. CASE s = "dead" /\ ServerFinalize(u) /\ timers' = Freed({t})
  BY <1>1 DEF CheckEnds, CheckRecording, Next
<1>2. CASE s \in {"ready", "processing"} /\ ServerCancel(u, {t})
  BY <1>2 DEF CheckEnds, CheckRecording, Next
<1>3. CASE UNCHANGED <<state, timerOf, timers, engineVars, recorderVars>>
  BY <1>3 DEF CheckEnds, vars, engineVars, recorderVars
<1>4. QED
  BY <1>1, <1>2, <1>3 DEF CheckEnds

\* The applications' variables keep to their values; a connect that runs is
\* armed, and only initialize is repeated.
ApplicationsTyped ==
    /\ handle \in [Uid -> HandleState \cup {"destroyed", "dead"}]
    /\ connects \in [Uid -> 0..MaxConnects]
    /\ tries \in [Uid -> 0..RetryCount]
    /\ call \in [Uid -> Request \cup {"none"}]
    /\ \A u \in Uid : call[u] # "initialize" => tries[u] = 0
    /\ \A u \in Uid : call[u] \in {"hello", "initialize"} => connects[u] > 0

\* An awaited request is what its application is blocked in, and the last one
\* of that application.
Orderly(queue, calls) ==
    \A i \in DOMAIN queue : queue[i].awaited =>
        /\ calls[queue[i].uid] = queue[i].op
        /\ \A j \in DOMAIN queue : j > i => queue[j].uid # queue[i].uid

\* An awaited message of application u is the one the daemon is blocked in.
Unasked(messages) == \A i \in DOMAIN messages : ~messages[i].awaited

Asked(messages, u, b) ==
    \A i \in DOMAIN messages : messages[i].awaited =>
        /\ b.uid = u /\ b.kind = messages[i].kind
        /\ \A j \in DOMAIN messages : messages[j].awaited => i = j

InboxesTyped ==
    /\ inbox \in [Uid -> Seq(MessageType)]
    /\ \A u \in Uid : Asked(inbox[u], u, blocked)

JobKnown == engine \in Working => job \in Uid

\* What holds in every state.  ServerInv is needed because the engine calls
\* back while the daemon waits: it must not do so for the session that records.
SystemInv ==
    /\ ServerInv
    /\ JobKnown
    /\ CheckIsOfRecording
    /\ ApplicationsTyped
    /\ requests \in Seq(RequestType)
    /\ Orderly(requests, call)
    /\ blocked \in CallType \cup {NoCall}
    /\ InboxesTyped

-----------------------------------------------------------------------------
(* Requests and their queue.                                               *)

\* What a request consists of.
LEMMA RequestParts ==
    ASSUME NEW r \in RequestType
    PROVE  /\ r.op \in Request /\ r.uid \in Uid /\ r.awaited \in BOOLEAN
           /\ [r EXCEPT !.awaited = FALSE] \in RequestType
           /\ [r EXCEPT !.awaited = FALSE].op = r.op
           /\ [r EXCEPT !.awaited = FALSE].uid = r.uid
           /\ [r EXCEPT !.awaited = FALSE].awaited = FALSE
<1>1. r \in [op : Request, uid : Uid, awaited : BOOLEAN]
  BY DEF RequestType
<1>2. r.op \in Request /\ r.uid \in Uid /\ r.awaited \in BOOLEAN
  BY <1>1, SMT
<1>3. ASSUME NEW b \in BOOLEAN
      PROVE  /\ [r EXCEPT !.awaited = b] \in [op : Request, uid : Uid, awaited : BOOLEAN]
             /\ [r EXCEPT !.awaited = b].op = r.op
             /\ [r EXCEPT !.awaited = b].uid = r.uid
             /\ [r EXCEPT !.awaited = b].awaited = b
  BY <1>1, SMT
<1>4. QED
  BY <1>2, <1>3 DEF RequestType

\* The names of the requests.
LEMMA RequestNames ==
    /\ Op = {"hello", "finalize", "destroy", "start", "stop", "cancel"}
    /\ Request = Op \cup {"initialize"}
    /\ "none" \notin Request /\ "initialize" \notin Op
<1>1. Op = {"hello", "finalize", "destroy", "start", "stop", "cancel"}
  BY DEF Op, CallableIn
<1>2. QED
  BY <1>1 DEF Request

\* A request that is sent is awaited.
LEMMA SentParts ==
    ASSUME NEW op \in Request, NEW u \in Uid
    PROVE  /\ RequestOf(op, u) \in RequestType
           /\ RequestOf(op, u).op = op /\ RequestOf(op, u).uid = u
           /\ RequestOf(op, u).awaited = TRUE
BY SMT DEF RequestOf, RequestType

\* The queue without its oldest request keeps its order; if that was awaited,
\* none of its application is left.
LEMMA TailKeeps ==
    ASSUME NEW queue \in Seq(RequestType), queue # <<>>, NEW calls, Orderly(queue, calls)
    PROVE  /\ Head(queue) \in RequestType /\ Tail(queue) \in Seq(RequestType)
           /\ Orderly(Tail(queue), calls)
           /\ Head(queue).awaited =>
                 /\ calls[Head(queue).uid] = Head(queue).op
                 /\ \A i \in DOMAIN Tail(queue) : Tail(queue)[i].uid # Head(queue).uid
<1>1. /\ Head(queue) \in RequestType /\ Head(queue) = queue[1] /\ 1 \in DOMAIN queue
      /\ Tail(queue) \in Seq(RequestType)
      /\ \A i \in DOMAIN Tail(queue) :
            i \in Nat /\ i + 1 \in DOMAIN queue /\ Tail(queue)[i] = queue[i + 1]
  BY SMT
<1>2. \A i \in DOMAIN Tail(queue) : i + 1 > 1
  <2>1. DOMAIN Tail(queue) \subseteq Nat \ {0}
    BY SMT
  <2>2. QED
    BY <2>1, SMT
<1>3. \A i, j \in DOMAIN Tail(queue) : j > i => j + 1 > i + 1
  BY <1>1, SMT
<1>4. Orderly(Tail(queue), calls)
  BY <1>1, <1>3 DEF Orderly
<1>5. QED
  BY <1>1, <1>2, <1>4 DEF Orderly

\* The queue keeps its order with a request of an application that awaits no
\* other; of the calls only that application's may differ.
LEMMA AppendKeeps ==
    ASSUME NEW queue \in Seq(RequestType), NEW calls, NEW newcalls,
           NEW op \in Request, NEW u \in Uid,
           Orderly(queue, calls), newcalls[u] = op,
           \A v \in Uid \ {u} : newcalls[v] = calls[v],
           \A i \in DOMAIN queue : queue[i].awaited => queue[i].uid # u
    PROVE  /\ Append(queue, RequestOf(op, u)) \in Seq(RequestType)
           /\ Orderly(Append(queue, RequestOf(op, u)), newcalls)
<1> DEFINE r == RequestOf(op, u)
           p == Append(queue, r)
<1>1. r \in RequestType /\ r.uid = u /\ r.op = op /\ r.awaited = TRUE
  BY SentParts
<1> HIDE DEF r
<1>2. /\ p \in Seq(RequestType)
      /\ \A i \in DOMAIN p : \/ i \in DOMAIN queue /\ p[i] = queue[i]
                             \/ i \notin DOMAIN queue /\ p[i] = r
      /\ \A i, j \in DOMAIN p : i \notin DOMAIN queue /\ j > i => FALSE
  BY <1>1, SMT
<1>3. \A i \in DOMAIN queue : queue[i].uid \in Uid
  BY RequestParts, \A i \in DOMAIN queue : queue[i] \in RequestType
<1> HIDE DEF p
<1>4. Orderly(p, newcalls)
  <2>1. SUFFICES ASSUME NEW i \in DOMAIN p, p[i].awaited
                 PROVE  /\ newcalls[p[i].uid] = p[i].op
                        /\ \A j \in DOMAIN p : j > i => p[j].uid # p[i].uid
    BY DEF Orderly
  <2>2. CASE i \in DOMAIN queue /\ p[i] = queue[i]
    BY <1>1, <1>2, <1>3, <2>1, <2>2 DEF Orderly
  <2>3. CASE i \notin DOMAIN queue /\ p[i] = r
    BY <1>1, <1>2, <2>3
  <2>4. QED
    BY <1>2, <2>2, <2>3
<1>5. QED
  BY <1>2, <1>4 DEF p, r

\* An application that gives up awaits nothing of what it sent; its call may
\* end.
LEMMA AbandonedKeeps ==
    ASSUME NEW queue \in Seq(RequestType), NEW u \in Uid, NEW calls, NEW newcalls,
           Orderly(queue, calls), \A v \in Uid \ {u} : newcalls[v] = calls[v]
    PROVE  /\ Abandoned(queue, u) \in Seq(RequestType)
           /\ Orderly(Abandoned(queue, u), newcalls)
           /\ \A i \in DOMAIN Abandoned(queue, u) :
                 Abandoned(queue, u)[i].awaited => Abandoned(queue, u)[i].uid # u
<1> DEFINE p == Abandoned(queue, u)
<1>1. \A i \in DOMAIN queue : queue[i] \in RequestType
  BY SMT
<1>2. DOMAIN p = DOMAIN queue
  BY DEF Abandoned
<1>3. \A i \in DOMAIN queue :
        /\ p[i] \in RequestType
        /\ p[i].uid = queue[i].uid /\ p[i].op = queue[i].op
        /\ p[i].awaited <=> queue[i].awaited /\ queue[i].uid # u
  BY <1>1, RequestParts DEF Abandoned
<1>4. p \in Seq(RequestType)
  <2>1. PICK n \in Nat : DOMAIN queue = 1..n
    BY SMT
  <2>2. p = [i \in 1..n |-> p[i]]
    BY <2>1 DEF Abandoned
  <2>3. \A i \in 1..n : p[i] \in RequestType
    BY <1>3, <2>1
  <2>4. [i \in 1..n |-> p[i]] \in Seq(RequestType)
    <3> HIDE DEF p
    <3>1. QED
      BY <2>1, <2>3, SMT
  <2>5. QED
    BY <2>2, <2>4
<1>5. \A i \in DOMAIN queue : queue[i].uid \in Uid
  BY <1>1, RequestParts
<1> HIDE DEF p
<1>6. Orderly(p, newcalls)
  BY <1>2, <1>3, <1>5 DEF Orderly
<1>7. QED
  BY <1>2, <1>3, <1>4, <1>6 DEF p

-----------------------------------------------------------------------------
(* Steps of an application and its requests.                               *)

\* The call of an application ends, or goes on with the next request.
LEMMA ReturnsKeeps ==
    ASSUME ApplicationsTyped, NEW u \in Uid, call[u] # "none", NEW granted,
           NEW queue \in Seq(RequestType), Orderly(queue, call),
           \A i \in DOMAIN queue : queue[i].awaited => queue[i].uid # u,
           Returns(u, granted, queue)
    PROVE  /\ ApplicationsTyped' /\ requests' \in Seq(RequestType)
           /\ Orderly(requests', call')
<1>1. /\ handle \in [Uid -> HandleState \cup {"destroyed", "dead"}]
      /\ connects \in [Uid -> 0..MaxConnects] /\ tries \in [Uid -> 0..RetryCount]
      /\ call \in [Uid -> Request \cup {"none"}]
  BY DEF ApplicationsTyped
<1>2. MaxConnects \in Nat /\ RetryCount \in Nat /\ RetryCount > 0
  <2>1. MaxConnects \in Nat /\ RetryCount \in Nat \ {0}
    BY SystemAssumption, Zenon
  <2>2. QED
    BY <2>1
<1>3. CASE AsksToInitialize(u, granted)
  <2>1. /\ requests' = Append(queue, RequestOf("initialize", u))
        /\ tries' = [tries EXCEPT ![u] = @ + 1]
        /\ call' = [call EXCEPT ![u] = "initialize"]
        /\ UNCHANGED <<handle, connects>>
    BY <1>3 DEF Returns
  <2>2. /\ call[u] \in {"hello", "initialize"}
        /\ call[u] = "hello" => tries[u] = 0
        /\ call[u] = "initialize" => tries[u] < RetryCount
    BY <1>3 DEF AsksToInitialize, ApplicationsTyped
  <2>3. tries[u] + 1 \in 0..RetryCount
    BY <1>1, <1>2, <2>2
  <2>4. tries' \in [Uid -> 0..RetryCount] /\ \A v \in Uid \ {u} : tries'[v] = tries[v]
    BY <1>1, <2>1, <2>3
  <2>5. /\ call' \in [Uid -> Request \cup {"none"}] /\ call'[u] = "initialize"
        /\ \A v \in Uid \ {u} : call'[v] = call[v]
    BY <1>1, <2>1, RequestNames
  <2>6. ApplicationsTyped'
    BY <2>1, <2>2, <2>4, <2>5 DEF ApplicationsTyped
  <2>7. requests' \in Seq(RequestType) /\ Orderly(requests', call')
    BY <2>1, <2>5, RequestNames, AppendKeeps
  <2>8. QED
    BY <2>6, <2>7
<1>4. CASE ~AsksToInitialize(u, granted)
  <2>1. /\ requests' = queue
        /\ tries' = [tries EXCEPT ![u] = 0]
        /\ call' = [call EXCEPT ![u] = "none"]
        /\ handle' = [handle EXCEPT ![u] = StateAfter(call[u], @, granted)]
        /\ connects' = [connects EXCEPT ![u] = IF call[u] = "initialize" THEN @ - 1 ELSE @]
    BY <1>4 DEF Returns
  <2>2. tries' \in [Uid -> 0..RetryCount] /\ tries'[u] = 0
        /\ \A v \in Uid \ {u} : tries'[v] = tries[v]
    BY <1>1, <1>2, <2>1
  <2>3. /\ call' \in [Uid -> Request \cup {"none"}] /\ call'[u] = "none"
        /\ \A v \in Uid \ {u} : call'[v] = call[v]
    BY <1>1, <2>1
  <2>4. /\ connects' \in [Uid -> 0..MaxConnects]
        /\ \A v \in Uid \ {u} : connects'[v] = connects[v]
    <3>1. connects[u] \in 0..MaxConnects /\ (call[u] = "initialize" => connects[u] > 0)
      BY <1>1 DEF ApplicationsTyped
    <3>2. (IF call[u] = "initialize" THEN connects[u] - 1 ELSE connects[u]) \in 0..MaxConnects
      BY <1>2, <3>1
    <3>3. QED
      BY <1>1, <2>1, <3>2
  <2>5. handle' \in [Uid -> HandleState \cup {"destroyed", "dead"}]
    <3>1. \A op \in Request \ {"hello"} : Reached[op] \in HandleState \cup {"destroyed"}
      BY RequestNames DEF Reached, HandleState
    <3>2. call[u] \in Request
      BY <1>1
    <3>3. StateAfter(call[u], handle[u], granted) \in HandleState \cup {"destroyed", "dead"}
      BY <1>1, <3>1, <3>2 DEF StateAfter
    <3>4. QED
      BY <1>1, <2>1, <3>3
  <2>6. ApplicationsTyped'
    BY <2>2, <2>3, <2>4, <2>5 DEF ApplicationsTyped
  <2>7. \A i \in DOMAIN queue : queue[i].uid \in Uid
    BY RequestParts, \A i \in DOMAIN queue : queue[i] \in RequestType
  <2>8. Orderly(requests', call')
    BY <2>1, <2>3, <2>7 DEF Orderly
  <2>9. QED
    BY <2>1, <2>6, <2>8
<1>5. QED
  BY <1>3, <1>4

-----------------------------------------------------------------------------
(* The daemon waits for a session, of which SttServer knows.               *)

LEMMA NotBlocked == blocked = NoCall => blocked.kind = "none"
BY DEF NoCall

LEMMA BlockedStep ==
    ASSUME TypeOK, blocked \in CallType \cup {NoCall}, [SystemNext]_systemVars
    PROVE  blocked' \in CallType \cup {NoCall}
<1>1. ASSUME NEW u \in Uid, NEW t \in TimerId \cup {NULL},
             NEW k \in {"hello", "get state", "stopped", "readied"},
             blocked' = CallTo(u, k, t)
      PROVE  blocked' \in CallType
  BY <1>1 DEF CallTo, CallType
<1>2. ASSUME NEW u \in Uid, AskHello(u) PROVE blocked' \in CallType
  BY <1>1, <1>2 DEF AskHello, Ask
<1>3. ASSUME NEW t \in TimerId, FireCheck(t), blocked' # blocked
      PROVE  blocked' \in CallType
  BY <1>1, <1>3 DEF FireCheck, Ask, Recording
<1>4. CASE FireSilence /\ blocked' # blocked
  BY <1>1, <1>4 DEF FireSilence, Ask, Recording
<1>5. ASSUME NEW u \in Uid, Receive(u) \/ MisreadMessage(u), blocked' # blocked
      PROVE  blocked' \in CallType \cup {NoCall}
  BY <1>1, <1>5 DEF Receive, MisreadMessage
<1>6. CASE DaemonGivesUp
  BY <1>6 DEF DaemonGivesUp
<1>7. CASE blocked' = blocked
  BY <1>7
<1>8. QED
  BY <1>2, <1>3, <1>4, <1>5, <1>6, <1>7
     DEF SystemNext, systemVars, Prepare, CallDaemon, GiveUp, Die, Serve, FireTimeOut,
         ResultFor, EngineResult, DaemonAlone

\* What the daemon does when a call to an application ends.
LEMMA ResumeIsServerStep ==
    ASSUME SystemInv, NEW s, Resume(s)
    PROVE  [Next]_vars
<1> USE DEF SystemInv
<1>1. blocked \in CallType
  BY NotBlocked DEF Resume
<1>2. blocked.uid \in Uid
  BY <1>1 DEF CallType
<1>3. CASE blocked.kind = "hello" /\ Greet(blocked.uid)
  BY <1>2, <1>3 DEF Next
<1>4. CASE blocked.kind = "get state" /\ CheckEnds(blocked.uid, blocked.timer, s)
  BY <1>4, CheckIsServerStep DEF CheckIsOfRecording
<1>5. CASE Finalize(blocked.uid) \/ UNCHANGED vars
  BY <1>2, <1>5 DEF Next
<1>6. QED
  BY <1>3, <1>4, <1>5 DEF Resume

LEMMA SystemStepIsServerStep ==
    ASSUME SystemInv, [SystemNext]_systemVars
    PROVE  [Next]_vars
<1>1. ASSUME NEW u \in Uid, Die(u) PROVE [Next]_vars
  BY <1>1 DEF Die, Next
<1>2. ASSUME NEW u \in Uid, Receive(u) \/ MisreadMessage(u) PROVE [Next]_vars
  BY <1>2, ResumeIsServerStep DEF Receive, MisreadMessage
<1>3. CASE DaemonGivesUp
  BY <1>3, ResumeIsServerStep DEF DaemonGivesUp
<1>4. ASSUME NEW t \in TimerId, FireCheck(t) \/ FireTimeOut(t) PROVE [Next]_vars
  BY <1>4 DEF FireCheck, FireTimeOut, Next
<1>5. CASE Serve
  <2>1. Head(requests).uid \in Uid
    <3>1. Head(requests) \in RequestType
      BY <1>5, SMT DEF Serve, SystemInv
    <3>2. QED
      BY <3>1 DEF RequestType
  <2>2. QED
    BY <1>5, <2>1, HandlerIsServerStep DEF Serve
<1>6. CASE FireSilence
  <2>1. MainLoop /\ silence > 0
    BY <1>6 DEF FireSilence, DaemonFree
  <2>2. ASSUME NEW u \in Recording, ServerStop(u, silence - 1),
               UNCHANGED <<settings, gone, sweep>>
        PROVE  [Next]_vars
    BY <2>1, <2>2 DEF StopBySilence, Next
  <2>3. CASE StopBySilence
    BY <2>3 DEF Next
  <2>4. QED
    BY <1>6, <2>2, <2>3 DEF FireSilence
<1>7. CASE EngineResult \/ DaemonAlone
  BY <1>7 DEF EngineResult, DaemonAlone, Next
<1>8. CASE UNCHANGED vars
  BY <1>8
<1>9. QED
  BY <1>1, <1>2, <1>3, <1>4, <1>5, <1>6, <1>7, <1>8
     DEF SystemNext, systemVars, Prepare, CallDaemon, GiveUp, AskHello

-----------------------------------------------------------------------------
(* The check keeps to the session that records.                            *)

\* The daemon does nothing while it is blocked.
LEMMA CheckStep ==
    ASSUME SystemInv, [SystemNext]_systemVars
    PROVE  CheckIsOfRecording'
<1> USE DEF CheckIsOfRecording
<1>0. CheckIsOfRecording
  BY DEF SystemInv
<1>1. CASE blocked' = blocked /\ UNCHANGED <<state, timers, sweep>>
  BY <1>0, <1>1 DEF MainLoop, Recording
<1>2. ASSUME blocked'.kind # "get state" PROVE CheckIsOfRecording'
  BY <1>2
<1>3. ASSUME blocked = NoCall, blocked' = blocked PROVE CheckIsOfRecording'
  BY <1>2, <1>3, NotBlocked
<1>4. ASSUME NEW t \in TimerId, FireCheck(t) PROVE CheckIsOfRecording'
  <2>1. CASE UNCHANGED blocked
    BY <1>3, <1>4, <2>1 DEF FireCheck, DaemonFree
  <2>2. ASSUME NEW u \in Recording, UNCHANGED vars, Ask(u, "get state", t, "none")
        PROVE  CheckIsOfRecording'
    <3>1. blocked'.uid = u /\ blocked'.timer = t
      BY <2>2 DEF Ask, CallTo
    <3>2. QED
      BY <1>4, <2>2, <3>1 DEF FireCheck, DaemonFree, MainLoop, Recording, vars
  <2>3. QED
    BY <1>4, <2>1, <2>2 DEF FireCheck
<1>5. CASE FireSilence
  <2>1. CASE UNCHANGED blocked
    BY <1>3, <1>5, <2>1 DEF FireSilence, DaemonFree
  <2>2. ASSUME NEW u, Ask(u, "stopped", NULL, "processing")
        PROVE  CheckIsOfRecording'
    BY <1>2, <2>2 DEF Ask, CallTo
  <2>3. QED
    BY <1>5, <2>1, <2>2 DEF FireSilence
<1>6. ASSUME NEW u \in Uid, Receive(u) PROVE CheckIsOfRecording'
  <2>1. CASE UNCHANGED <<vars, blocked>>
    BY <1>1, <2>1 DEF vars
  <2>2. CASE blocked' = CallTo(u, "readied", NULL) \/ blocked' = NoCall
    <3>1. blocked'.kind \in {"readied", "none"}
      BY <2>2 DEF CallTo, NoCall
    <3>2. QED
      BY <1>2, <3>1
  <2>3. QED
    BY <1>6, <2>1, <2>2 DEF Receive
<1>7. ASSUME DaemonGivesUp \/ \E u \in Uid : MisreadMessage(u)
      PROVE  CheckIsOfRecording'
  <2>1. CASE blocked' = NoCall
    BY <1>2, <2>1 DEF NoCall
  <2>2. CASE UNCHANGED <<vars, blocked>>
    BY <1>1, <2>2 DEF vars
  <2>3. QED
    BY <1>7, <2>1, <2>2 DEF DaemonGivesUp, MisreadMessage
<1>8. ASSUME NEW u \in Uid, AskHello(u) PROVE CheckIsOfRecording'
  BY <1>2, <1>8 DEF AskHello, Ask, CallTo
\* A result is decided only while nobody records, so it ends no check.
<1>9. CASE EngineResult
  <2>1. engine = "deciding" => Recording = {}
    BY DEF SystemInv, ServerInv, EngineNeverMixesUp
  <2>2. blocked.kind # "get state"
    BY <1>0, <1>9, <2>1 DEF EngineResult, Result
  <2>3. blocked' = blocked
    BY <1>9 DEF EngineResult, ResultFor
  <2>4. QED
    BY <2>2, <2>3
<1>10. CASE DaemonAlone
  <2>1. blocked' = blocked
    BY <1>10 DEF DaemonAlone
  <2>2. CASE SilenceDetected
    BY <1>1, <2>1, <2>2 DEF SilenceDetected
  <2>3. CASE DaemonFree
    BY <1>3, <2>1, <2>3 DEF DaemonFree
  <2>4. QED
    BY <1>10, <2>2, <2>3 DEF DaemonAlone
<1>11. CASE Serve \/ \E t \in TimerId : FireTimeOut(t)
  BY <1>3, <1>11 DEF Serve, FireTimeOut, ResultFor, DaemonFree
<1>12. ASSUME NEW u \in Uid, Die(u) PROVE CheckIsOfRecording'
  BY <1>1, <1>12 DEF Die, Crash, vars
<1>13. CASE UNCHANGED <<vars, blocked>>
  BY <1>1, <1>13 DEF vars
<1>14. QED
  BY <1>4, <1>5, <1>6, <1>7, <1>8, <1>9, <1>10, <1>11, <1>12, <1>13
     DEF SystemNext, systemVars, Prepare, CallDaemon, GiveUp

-----------------------------------------------------------------------------
(* An engine that works does so for a session.                             *)

LEMMA JobStep ==
    ASSUME TypeOK, JobKnown, [Next]_vars
    PROVE  JobKnown'
<1> USE DEF TypeOK, AppState, JobKnown, Busy, Working, Recording, Processing, engineVars, recorderVars
<1>1. ASSUME NEW u \in Uid, Initialize(u) PROVE JobKnown'
  BY <1>1, SMT DEF Initialize, LoadedEngine, EngineUnload
<1>2. ASSUME NEW u \in Uid, Finalize(u) PROVE JobKnown'
  BY <1>2, SMT DEF Finalize, ServerFinalize, EngineUnload, EngineCancel,
     EngineCancelRefused
<1>3. ASSUME NEW u \in Uid, Start(u) PROVE JobKnown'
  BY <1>3, SMT DEF Start
<1>4. ASSUME NEW u \in Uid, Stop(u) PROVE JobKnown'
  BY <1>4, SMT DEF Stop, ServerStop, EngineStop, EngineStopRefused
<1>5. ASSUME NEW u \in Uid, Cancel(u) PROVE JobKnown'
  BY <1>5, SMT DEF Cancel, ServerCancel, EngineCancel, EngineCancelRefused
<1>6. ASSUME NEW u \in Uid, Crash(u) PROVE JobKnown'
  BY <1>6, SMT DEF Crash
<1>7. ASSUME NEW u \in Uid, Greet(u) PROVE JobKnown'
  BY <1>7, SMT DEF Greet, ServerFinalize, EngineUnload, EngineCancel,
     EngineCancelRefused
<1>8. ASSUME NEW t \in TimerId, CheckRecording(t) PROVE JobKnown'
  <2>1. CASE /\ Recording = {}
             /\ UNCHANGED <<state, timerOf, engineVars, recorderVars>>
    BY <2>1, SMT
  <2>2. ASSUME NEW u \in Recording, ServerFinalize(u) PROVE JobKnown'
    BY <2>2, SMT DEF ServerFinalize, EngineUnload, EngineCancel, EngineCancelRefused
  <2>3. ASSUME NEW u \in Recording, ServerCancel(u, {t}) PROVE JobKnown'
    BY <2>3, SMT DEF ServerCancel, EngineCancel, EngineCancelRefused
  <2>4. QED
    BY <1>8, <2>1, <2>2, <2>3 DEF CheckRecording
<1>9. ASSUME NEW t \in TimerId, TimeOut(t) PROVE JobKnown'
  BY <1>9, SMT DEF TimeOut, EngineCancel, EngineCancelRefused
<1>10. ASSUME NEW p \in Pid, SettingInitialize(p) PROVE JobKnown'
  BY <1>10, SMT DEF SettingInitialize, LoadedEngine
<1>11. ASSUME NEW p \in Pid, SettingFinalize(p) PROVE JobKnown'
  BY <1>11, SMT DEF SettingFinalize, EngineUnload
<1>12. ASSUME NEW p \in Pid, SetEngine(p) PROVE JobKnown'
  BY <1>12, SMT DEF SetEngine
<1>13. CASE StopBySilence
  <2>1. CASE UNCHANGED <<state, timerOf, timers, engineVars, recorderVars>>
    BY <2>1, SMT
  <2>2. ASSUME NEW u \in Recording, ServerStop(u, silence - 1) PROVE JobKnown'
    BY <2>2, SMT DEF ServerStop, EngineStop, EngineStopRefused
  <2>3. ASSUME NEW u \in Recording, StopThenFinalize(u) PROVE JobKnown'
    BY <2>3, SMT DEF StopThenFinalize, EngineUnload, EngineCancel
  <2>4. QED
    BY <1>13, <2>1, <2>2, <2>3 DEF StopBySilence
<1>14. CASE Result
  BY <1>14, SMT DEF Result
<1>15. CASE SilenceDetected
  BY <1>15, SMT DEF SilenceDetected
<1>16. CASE CamcorderMessage
  BY <1>16, SMT DEF CamcorderMessage
<1>17. CASE StartSweep
  BY <1>17, SMT DEF StartSweep
<1>18. CASE UNCHANGED vars
  BY <1>18, SMT DEF vars
<1>19. QED
  BY <1>1, <1>2, <1>3, <1>4, <1>5, <1>6, <1>7, <1>8, <1>9, <1>10, <1>11, <1>12,
     <1>13, <1>14, <1>15, <1>16, <1>17, <1>18 DEF Next

-----------------------------------------------------------------------------
(* Applications and their requests.                                        *)

\* Only its own calls, their answers and what it is told change an application.
LEMMA ApplicationStep ==
    ASSUME SystemInv, [SystemNext]_systemVars
    PROVE  /\ ApplicationsTyped' /\ requests' \in Seq(RequestType)
           /\ Orderly(requests', call')
<1> DEFINE Kept == /\ ApplicationsTyped' /\ requests' \in Seq(RequestType)
                   /\ Orderly(requests', call')
<1>0. /\ ApplicationsTyped /\ requests \in Seq(RequestType) /\ Orderly(requests, call)
      /\ \A i \in DOMAIN requests : requests[i] \in RequestType
  BY DEF SystemInv
<1>1. CASE UNCHANGED <<clientVars, requests>>
  BY <1>0, <1>1 DEF clientVars, ApplicationsTyped
<1>2. ASSUME NEW u \in Uid, Prepare(u) PROVE Kept
  <2>1. connects' = [connects EXCEPT ![u] = @ + 1] /\ connects[u] < MaxConnects
    BY <1>2 DEF Prepare
  <2>2. connects \in [Uid -> 0..MaxConnects] /\ MaxConnects \in Nat
    BY <1>0, SystemAssumption DEF ApplicationsTyped
  <2>3. connects' \in [Uid -> 0..MaxConnects] /\ \A v \in Uid : connects'[v] >= connects[v]
    BY <2>1, <2>2
  <2>4. \A v \in Uid : connects[v] > 0 => connects'[v] > 0
    BY <2>2, <2>3
  <2>5. QED
    BY <1>0, <1>2, <2>3, <2>4 DEF Prepare, ApplicationsTyped
<1>3. ASSUME NEW u \in Uid, NEW op \in Op, CallDaemon(u, op) PROVE Kept
  <2>1. call[u] = "none" /\ (op = "hello" => connects[u] > 0) /\ UNCHANGED <<connects, tries>>
    BY <1>3 DEF CallDaemon, Awake
  <2>2. CASE handle' = [handle EXCEPT ![u] = "destroyed"] /\ UNCHANGED <<requests, call>>
    BY <1>0, <2>1, <2>2 DEF ApplicationsTyped
  <2>3. CASE /\ requests' = Append(requests, RequestOf(op, u))
             /\ call' = [call EXCEPT ![u] = op] /\ UNCHANGED handle
    <3>1. call \in [Uid -> Request \cup {"none"}] /\ op \in Request /\ op # "initialize"
      BY <1>0, RequestNames DEF ApplicationsTyped
    <3>2. /\ call' \in [Uid -> Request \cup {"none"}] /\ call'[u] = op
          /\ \A v \in Uid \ {u} : call'[v] = call[v]
      BY <2>3, <3>1
    <3>3. ApplicationsTyped'
      BY <1>0, <2>1, <2>3, <3>1, <3>2 DEF ApplicationsTyped
    <3>4. \A i \in DOMAIN requests : requests[i].awaited => requests[i].uid # u
      BY <1>0, <2>1, RequestParts, RequestNames DEF Orderly
    <3>5. QED
      BY <1>0, <2>3, <3>1, <3>2, <3>3, <3>4, AppendKeeps
  <2>4. QED
    BY <1>3, <2>2, <2>3 DEF CallDaemon
<1>4. ASSUME NEW u \in Uid, GiveUp(u) PROVE Kept
  <2>1. call[u] # "none" /\ Returns(u, FALSE, Abandoned(requests, u))
    BY <1>4 DEF GiveUp
  <2>2. QED
    BY <1>0, <2>1, AbandonedKeeps, ReturnsKeeps
<1>5. ASSUME NEW u \in Uid, Die(u) PROVE Kept
  <2>1. /\ handle' = [handle EXCEPT ![u] = "dead"]
        /\ connects' = [connects EXCEPT ![u] = 0]
        /\ tries' = [tries EXCEPT ![u] = 0]
        /\ call' = [call EXCEPT ![u] = "none"]
        /\ requests' = Abandoned(requests, u)
    BY <1>5 DEF Die
  <2>2. MaxConnects \in Nat /\ RetryCount \in Nat
    BY SystemAssumption
  <2>3. 0 \in 0..MaxConnects /\ 0 \in 0..RetryCount
    BY <2>2
  <2>4. \A v \in Uid \ {u} : /\ call'[v] = call[v] /\ tries'[v] = tries[v]
                             /\ connects'[v] = connects[v]
    BY <1>0, <2>1 DEF ApplicationsTyped
  <2>5. call'[u] = "none" /\ tries'[u] = 0
    BY <1>0, <2>1 DEF ApplicationsTyped
  <2>6. /\ handle' \in [Uid -> HandleState \cup {"destroyed", "dead"}]
        /\ connects' \in [Uid -> 0..MaxConnects] /\ tries' \in [Uid -> 0..RetryCount]
        /\ call' \in [Uid -> Request \cup {"none"}]
    BY <1>0, <2>1, <2>3 DEF ApplicationsTyped
  <2>7. ApplicationsTyped'
    BY <1>0, <2>4, <2>5, <2>6 DEF ApplicationsTyped
  <2>8. QED
    BY <1>0, <2>1, <2>4, <2>7, AbandonedKeeps
<1>6. CASE Serve
  <2> DEFINE r == Head(requests)
  <2>1. requests # <<>>
    BY <1>6 DEF Serve
  <2>2. /\ r \in RequestType /\ Tail(requests) \in Seq(RequestType)
        /\ Orderly(Tail(requests), call)
        /\ r.awaited => /\ call[r.uid] = r.op
                        /\ \A i \in DOMAIN Tail(requests) : Tail(requests)[i].uid # r.uid
    BY <1>0, <2>1, TailKeeps
  <2>3. r.uid \in Uid /\ r.op \in Request
    BY <2>2, RequestParts
  <2>4. CASE r.awaited /\ Returns(r.uid, HasGranted(r.op, r.uid), Tail(requests))
    <3>1. call[r.uid] # "none"
      BY <2>2, <2>3, <2>4, RequestNames
    <3> HIDE DEF r
    <3>2. QED
      BY <1>0, <2>2, <2>3, <2>4, <3>1, ReturnsKeeps
  <2>5. CASE ~r.awaited /\ requests' = Tail(requests) /\ UNCHANGED clientVars
    BY <1>0, <2>2, <2>5 DEF clientVars, ApplicationsTyped
  <2>6. QED
    BY <1>6, <2>4, <2>5 DEF Serve
<1>7. ASSUME NEW u \in Uid, Receive(u) PROVE Kept
  <2>1. PICK m : handle' = [handle EXCEPT ![u] = Told(m, @)]
    BY <1>7 DEF Receive
  <2>2. handle' \in [Uid -> HandleState \cup {"destroyed", "dead"}]
    BY <1>0, <2>1 DEF ApplicationsTyped, Told
  <2>3. QED
    BY <1>0, <1>7, <2>2 DEF Receive, ApplicationsTyped
<1>8. QED
  BY <1>1, <1>2, <1>3, <1>4, <1>5, <1>6, <1>7
     DEF SystemNext, systemVars, clientVars, MisreadMessage, AskHello, Ask, FireCheck,
         FireTimeOut, ResultFor, FireSilence, DaemonGivesUp, EngineResult, DaemonAlone

-----------------------------------------------------------------------------
(* Messages and inboxes.                                                   *)

\* A message the daemon sends, and one it does not wait for any more.
LEMMA MessageParts ==
    ASSUME NEW k \in {"hello", "get state", "stopped", "readied", "result"},
           NEW s \in {"none", "processing", "ready"}, NEW a \in BOOLEAN
    PROVE  /\ Message(k, s, a) \in MessageType
           /\ Message(k, s, a).kind = k /\ Message(k, s, a).awaited = a
BY DEF Message, MessageType

LEMMA UnawaitedMessage ==
    ASSUME NEW m \in MessageType
    PROVE  /\ [m EXCEPT !.awaited = FALSE] \in MessageType
           /\ [m EXCEPT !.awaited = FALSE].awaited = FALSE
BY DEF MessageType

LEMMA UnaskedIsAsked ==
    ASSUME NEW messages, Unasked(messages), NEW u, NEW b
    PROVE  Asked(messages, u, b)
BY DEF Unasked, Asked

\* The inbox without its oldest message.
LEMMA TailAsked ==
    ASSUME NEW messages \in Seq(MessageType), messages # <<>>, NEW u, NEW b,
           Asked(messages, u, b)
    PROVE  /\ Head(messages) \in MessageType /\ Tail(messages) \in Seq(MessageType)
           /\ Asked(Tail(messages), u, b)
           /\ Head(messages).awaited => /\ Unasked(Tail(messages))
                                        /\ b.uid = u /\ b.kind = Head(messages).kind
<1>1. /\ Head(messages) \in MessageType /\ Head(messages) = messages[1]
      /\ 1 \in DOMAIN messages
      /\ Tail(messages) \in Seq(MessageType)
      /\ \A i \in DOMAIN Tail(messages) :
            i \in Nat \ {0} /\ i + 1 \in DOMAIN messages /\ Tail(messages)[i] = messages[i + 1]
  BY SMT
<1>2. \A i \in DOMAIN Tail(messages) : i + 1 # 1
  BY <1>1
<1>3. \A i, j \in DOMAIN Tail(messages) : i + 1 = j + 1 => i = j
  BY <1>1
<1>4. QED
  BY <1>1, <1>2, <1>3 DEF Asked, Unasked

\* The inbox with a message more, awaited only if no other is.
LEMMA AppendAsked ==
    ASSUME NEW messages \in Seq(MessageType), NEW m \in MessageType, NEW u, NEW b,
           Asked(messages, u, b),
           m.awaited => Unasked(messages) /\ b.uid = u /\ b.kind = m.kind
    PROVE  /\ Append(messages, m) \in Seq(MessageType)
           /\ Asked(Append(messages, m), u, b)
<1> DEFINE p == Append(messages, m)
<1>1. /\ p \in Seq(MessageType)
      /\ \A i \in DOMAIN p : \/ i \in DOMAIN messages /\ p[i] = messages[i]
                             \/ i \notin DOMAIN messages /\ p[i] = m
      /\ \A i, j \in DOMAIN p : i \notin DOMAIN messages /\ j \notin DOMAIN messages => i = j
  BY SMT
<1> HIDE DEF p
<1>2. Asked(p, u, b)
  BY <1>1 DEF Asked, Unasked
<1>3. QED
  BY <1>1, <1>2 DEF p

LEMMA UnawaitedParts ==
    ASSUME NEW messages \in Seq(MessageType)
    PROVE  Unawaited(messages) \in Seq(MessageType) /\ Unasked(Unawaited(messages))
<1>1. \A i \in DOMAIN messages : messages[i] \in MessageType
  BY SMT
<1>2. \A i \in DOMAIN messages : /\ Unawaited(messages)[i] \in MessageType
                                 /\ Unawaited(messages)[i].awaited = FALSE
  BY <1>1, UnawaitedMessage DEF Unawaited
<1>3. DOMAIN Unawaited(messages) = DOMAIN messages
  BY DEF Unawaited
<1>4. PICK n \in Nat : DOMAIN messages = 1..n
  BY SMT
<1>5. Unawaited(messages) = [i \in 1..n |-> Unawaited(messages)[i]]
  BY <1>4 DEF Unawaited
<1>6. [i \in 1..n |-> Unawaited(messages)[i]] \in Seq(MessageType)
  BY <1>2, <1>4, SMT
<1>7. QED
  BY <1>2, <1>3, <1>5, <1>6 DEF Unasked

\* Nobody but the application the daemon is blocked on has a message it awaits.
LEMMA OthersUnasked ==
    ASSUME InboxesTyped, NEW u \in Uid, blocked.uid # u
    PROVE  Unasked(inbox[u])
BY DEF InboxesTyped, Asked, Unasked

\* The daemon sends a call and blocks on it.
LEMMA AskKeeps ==
    ASSUME InboxesTyped, blocked = NoCall, NEW u \in Uid, NEW t,
           NEW k \in {"hello", "get state", "stopped", "readied"},
           NEW s \in {"none", "processing", "ready"}, Ask(u, k, t, s)
    PROVE  InboxesTyped'
<1>1. blocked.uid \notin Uid
  BY NullAssumption DEF NoCall
<1>2. \A v \in Uid : Unasked(inbox[v]) /\ inbox[v] \in Seq(MessageType)
  BY <1>1, OthersUnasked DEF InboxesTyped
<1>3. blocked' = CallTo(u, k, t) /\ blocked'.uid = u /\ blocked'.kind = k
  BY DEF Ask, CallTo
<1> DEFINE m == Message(k, s, TRUE)
<1>4. m \in MessageType /\ m.kind = k /\ m.awaited = TRUE
  BY DEF Message, MessageType
<1> HIDE DEF m
<1>5. CASE handle[u] = "dead"
  BY <1>2, <1>5, UnaskedIsAsked DEF Ask, Delivered, InboxesTyped
<1>6. CASE handle[u] # "dead"
  <2>1. inbox' = [inbox EXCEPT ![u] = Append(@, m)]
    BY <1>6 DEF Ask, Delivered, m
  <2>2. Append(inbox[u], m) \in Seq(MessageType) /\ Asked(Append(inbox[u], m), u, blocked')
    BY <1>2, <1>3, <1>4, AppendAsked, UnaskedIsAsked
  <2>3. \A v \in Uid \ {u} : Asked(inbox[v], v, blocked')
    BY <1>2, UnaskedIsAsked
  <2>4. QED
    BY <2>1, <2>2, <2>3 DEF InboxesTyped
<1>7. QED
  BY <1>5, <1>6

\* A result is sent, which nobody waits for.
LEMMA ResultKeeps ==
    ASSUME InboxesTyped, NEW u \in Uid, ResultFor(u)
    PROVE  InboxesTyped'
<1> DEFINE m == Message("result", "ready", FALSE)
<1>1. m \in MessageType /\ m.awaited = FALSE
  BY MessageParts
<1>2. inbox' = Delivered(u, m) /\ blocked' = blocked
  BY DEF ResultFor
<1> HIDE DEF m
<1>3. Append(inbox[u], m) \in Seq(MessageType) /\ Asked(Append(inbox[u], m), u, blocked)
  BY <1>1, AppendAsked DEF InboxesTyped
<1>4. QED
  BY <1>2, <1>3 DEF Delivered, InboxesTyped

\* An application takes a message, or loses it.
LEMMA TakenKeeps ==
    ASSUME InboxesTyped, NEW u \in Uid, inbox[u] # <<>>
    PROVE  LET rest == [inbox EXCEPT ![u] = Tail(@)]
           IN  /\ rest \in [Uid -> Seq(MessageType)]
               /\ \A v \in Uid : Asked(rest[v], v, blocked)
               /\ Head(inbox[u]).awaited =>
                     blocked.uid = u /\ \A v \in Uid : Unasked(rest[v])
<1>1. /\ inbox \in [Uid -> Seq(MessageType)]
      /\ \A v \in Uid : Asked(inbox[v], v, blocked)
  BY DEF InboxesTyped
<1>2. /\ Tail(inbox[u]) \in Seq(MessageType) /\ Asked(Tail(inbox[u]), u, blocked)
      /\ Head(inbox[u]).awaited => Unasked(Tail(inbox[u])) /\ blocked.uid = u
  BY <1>1, TailAsked
<1> DEFINE rest == [inbox EXCEPT ![u] = Tail(@)]
<1>3. /\ rest \in [Uid -> Seq(MessageType)] /\ rest[u] = Tail(inbox[u])
      /\ \A v \in Uid \ {u} : rest[v] = inbox[v]
  BY <1>1, <1>2
<1> HIDE DEF rest
<1>4. Head(inbox[u]).awaited => \A v \in Uid : Unasked(rest[v])
  BY <1>2, <1>3, OthersUnasked
<1>5. \A v \in Uid : Asked(rest[v], v, blocked)
  BY <1>1, <1>2, <1>3
<1>6. QED
  BY <1>2, <1>3, <1>4, <1>5 DEF rest

LEMMA InboxStep ==
    ASSUME SystemInv, [SystemNext]_systemVars
    PROVE  InboxesTyped'
<1>0. InboxesTyped
  BY DEF SystemInv
<1>1. CASE UNCHANGED <<inbox, blocked>>
  BY <1>0, <1>1 DEF InboxesTyped
<1>2. ASSUME NEW u \in Uid, AskHello(u) PROVE InboxesTyped'
  BY <1>0, <1>2, AskKeeps DEF AskHello
<1>3. ASSUME NEW t \in TimerId, FireCheck(t) PROVE InboxesTyped'
  BY <1>0, <1>1, <1>3, AskKeeps DEF FireCheck, DaemonFree, Recording
<1>4. CASE FireSilence
  <2>1. blocked = NoCall
    BY <1>4 DEF FireSilence, DaemonFree
  <2>2. ASSUME NEW u \in Recording, Ask(u, "stopped", NULL, "processing")
        PROVE  InboxesTyped'
    BY <1>0, <2>1, <2>2, AskKeeps DEF Recording
  <2>3. QED
    BY <1>1, <1>4, <2>2 DEF FireSilence
<1>5. ASSUME NEW u \in Uid, Receive(u) PROVE InboxesTyped'
  <2> DEFINE m == Head(inbox[u])
             rest == [inbox EXCEPT ![u] = Tail(@)]
  <2>1. /\ rest \in [Uid -> Seq(MessageType)]
        /\ \A v \in Uid : Asked(rest[v], v, blocked)
        /\ m.awaited => blocked.uid = u /\ \A v \in Uid : Unasked(rest[v])
    BY <1>0, <1>5, TakenKeeps DEF Receive
  <2>2. CASE inbox' = rest /\ UNCHANGED blocked
    BY <2>1, <2>2 DEF InboxesTyped
  <2>3. CASE m.awaited /\ inbox' = rest /\ blocked' = NoCall
    BY <2>1, <2>3, UnaskedIsAsked DEF InboxesTyped
  <2>4. CASE /\ m.awaited /\ blocked' = CallTo(u, "readied", NULL)
             /\ inbox' = [rest EXCEPT ![u] = Append(@, Message("readied", "ready", TRUE))]
    <3> DEFINE n == Message("readied", "ready", TRUE)
    <3>1. n \in MessageType /\ n.kind = "readied" /\ n.awaited = TRUE
      BY MessageParts
    <3>2. blocked'.uid = u /\ blocked'.kind = "readied"
      BY <2>4 DEF CallTo
    <3> HIDE DEF n, rest, m
    <3>3. Append(rest[u], n) \in Seq(MessageType) /\ Asked(Append(rest[u], n), u, blocked')
      BY <2>1, <2>4, <3>1, <3>2, AppendAsked, UnaskedIsAsked
    <3>4. inbox' = [rest EXCEPT ![u] = Append(@, n)]
      BY <2>4 DEF n
    <3>5. \A v \in Uid \ {u} : Asked(rest[v], v, blocked')
      BY <2>1, <2>4, UnaskedIsAsked
    <3>6. QED
      BY <2>1, <3>3, <3>4, <3>5 DEF InboxesTyped
  <2>5. QED
    BY <1>5, <2>2, <2>3, <2>4 DEF Receive
<1>6. ASSUME NEW u \in Uid, MisreadMessage(u) PROVE InboxesTyped'
  <2>1. inbox[u] # <<>>
    BY <1>0, <1>6 DEF MisreadMessage, InboxesTyped
  <2>2. CASE UNCHANGED blocked
    BY <1>0, <1>6, <2>1, <2>2, TakenKeeps DEF MisreadMessage, InboxesTyped
  <2>3. CASE Head(inbox[u]).awaited
    <3> DEFINE rest == [inbox EXCEPT ![u] = Tail(@)]
    <3>1. rest \in [Uid -> Seq(MessageType)] /\ \A v \in Uid : Unasked(rest[v])
      BY <1>0, <2>1, <2>3, TakenKeeps
    <3>2. inbox' = rest
      BY <1>6 DEF MisreadMessage
    <3>3. QED
      BY <3>1, <3>2, UnaskedIsAsked DEF InboxesTyped
  <2>4. QED
    BY <1>6, <2>2, <2>3 DEF MisreadMessage
<1>7. CASE DaemonGivesUp
  <2> DEFINE u == blocked.uid
  <2>1. inbox' = [inbox EXCEPT ![u] = Unawaited(@)] /\ blocked # NoCall
    BY <1>7 DEF DaemonGivesUp
  <2>2. u \in Uid
    BY <2>1 DEF SystemInv, CallType
  <2>3. Unawaited(inbox[u]) \in Seq(MessageType) /\ Unasked(Unawaited(inbox[u]))
    BY <1>0, <2>2, UnawaitedParts DEF InboxesTyped
  <2>4. \A v \in Uid \ {u} : Unasked(inbox[v])
    BY <1>0, OthersUnasked
  <2>5. \A v \in Uid : inbox'[v] \in Seq(MessageType) /\ Unasked(inbox'[v])
    BY <1>0, <2>1, <2>2, <2>3, <2>4 DEF InboxesTyped
  <2>6. inbox' \in [Uid -> Seq(MessageType)]
    BY <1>0, <2>1, <2>2, <2>3 DEF InboxesTyped
  <2>7. QED
    BY <2>5, <2>6, UnaskedIsAsked DEF InboxesTyped
<1>8. ASSUME NEW t \in TimerId, FireTimeOut(t) PROVE InboxesTyped'
  BY <1>0, <1>1, <1>8, ResultKeeps DEF FireTimeOut, Processing
<1>9. CASE EngineResult
  <2>1. engine = "deciding" => job \in Uid
    BY DEF SystemInv, JobKnown, Working
  <2>2. QED
    BY <1>0, <1>1, <1>9, <2>1, ResultKeeps DEF EngineResult, Result
<1>10. ASSUME NEW u \in Uid, Die(u) PROVE InboxesTyped'
  <2>1. <<>> \in Seq(MessageType) /\ Unasked(<<>>)
    BY DEF Unasked
  <2>2. inbox' = [inbox EXCEPT ![u] = <<>>] /\ blocked' = blocked
    BY <1>10 DEF Die
  <2>3. QED
    BY <1>0, <2>1, <2>2, UnaskedIsAsked DEF InboxesTyped
<1>11. QED
  BY <1>1, <1>2, <1>3, <1>4, <1>5, <1>6, <1>7, <1>8, <1>9, <1>10
     DEF SystemNext, systemVars, Prepare, CallDaemon, GiveUp, Serve, DaemonAlone

-----------------------------------------------------------------------------

LEMMA InitialSystem ==
    ASSUME SystemInit
    PROVE  SystemInv
<1>1. ServerInv
  BY InitialInvariant DEF SystemInit
<1>2. CheckIsOfRecording
  BY NotBlocked DEF SystemInit, CheckIsOfRecording
<1>3. JobKnown
  BY DEF SystemInit, Init, JobKnown, Working
<1>4. ApplicationsTyped
  <2>0. MaxConnects \in Nat /\ RetryCount \in Nat
    BY SystemAssumption, Zenon
  <2>1. 0 \in 0..MaxConnects /\ 0 \in 0..RetryCount
    BY <2>0
  <2>2. "created" \in HandleState /\ "none" \notin {"hello", "initialize"}
    BY DEF HandleState
  <2>3. QED
    BY <2>1, <2>2 DEF SystemInit, ApplicationsTyped
<1>5. requests \in Seq(RequestType) /\ Orderly(requests, call)
  BY DEF SystemInit, Orderly
<1>6. InboxesTyped
  <2>1. <<>> \in Seq(MessageType) /\ Unasked(<<>>)
    BY DEF Unasked
  <2>2. inbox = [u \in Uid |-> <<>>]
    BY DEF SystemInit
  <2>3. QED
    BY <2>1, <2>2, UnaskedIsAsked DEF InboxesTyped
<1>7. blocked \in CallType \cup {NoCall}
  BY DEF SystemInit
<1>8. QED
  BY <1>1, <1>2, <1>3, <1>4, <1>5, <1>6, <1>7 DEF SystemInv

LEMMA SystemInvStep ==
    ASSUME SystemInv, [SystemNext]_systemVars
    PROVE  SystemInv'
<1>1. [Next]_vars
  BY SystemStepIsServerStep
<1>2. ServerInv'
  BY <1>1, InvariantStep DEF SystemInv
<1>3. JobKnown'
  BY <1>1, JobStep DEF SystemInv, ServerInv
<1>4. CheckIsOfRecording'
  BY CheckStep
<1>5. /\ ApplicationsTyped' /\ requests' \in Seq(RequestType)
      /\ Orderly(requests', call')
  BY ApplicationStep
<1>6. blocked' \in CallType \cup {NoCall}
  BY BlockedStep DEF SystemInv, ServerInv
<1>7. InboxesTyped'
  BY InboxStep
<1>8. Orderly(requests, call)'
  BY <1>5 DEF Orderly
<1>9. QED
  BY <1>2, <1>3, <1>4, <1>5, <1>6, <1>7, <1>8 DEF SystemInv

LEMMA SystemInvariantHolds == SystemSpec => []SystemInv
<1>1. SystemInit => SystemInv
  BY InitialSystem
<1>2. SystemInv /\ [SystemNext]_systemVars => SystemInv'
  BY SystemInvStep
<1>3. QED
  BY <1>1, <1>2, PTL DEF SystemSpec

\* An application that is blocked waits for its own request, and the daemon
\* for its own question: an answer is never taken for another's, although
\* requests that were given up, and questions nobody waits for any more, are
\* still on their way.
THEOREM SystemTyped == SystemSpec => []SystemTypeOK
<1>1. SystemInv => SystemTypeOK
  BY DEF SystemInv, ApplicationsTyped, Orderly, InboxesTyped, Asked, SystemTypeOK
<1>2. QED
  BY <1>1, SystemInvariantHolds, PTL

\* While the daemon waits for the answer __check_recording_state asked for,
\* the session it asked about goes on recording and its timer lives: what the
\* daemon read before it blocked is still true when it goes on.
THEOREM CheckSurvivesTheWait == SystemSpec => []CheckIsOfRecording
<1>1. SystemInv => CheckIsOfRecording
  BY DEF SystemInv
<1>2. QED
  BY <1>1, SystemInvariantHolds, PTL

\* Every behaviour of the daemon among its applications, with its blocking
\* calls, abandoned requests and late answers, is one of SttServer.
THEOREM ServerImplemented == SystemSpec => ImplementsServer
<1>1. SystemInit => Init
  BY DEF SystemInit
<1>2. SystemInv /\ [SystemNext]_systemVars => [Next]_vars
  BY SystemStepIsServerStep
<1>3. QED
  BY <1>1, <1>2, SystemInvariantHolds, PTL DEF SystemSpec, ImplementsServer, Spec

\* So what SttServer promises whatever fails, it promises to applications that
\* time out, repeat and die: one busy session, no capture behind its back, and
\* a time-out for the one that waits.
THEOREM SystemIsSafe ==
    SystemSpec => [](AtMostOneBusy /\ MicOnlyWhileRecording /\ ProcessingHasOwnTimeout)
<1>1. SystemInv => AtMostOneBusy /\ MicOnlyWhileRecording /\ ProcessingHasOwnTimeout
  BY DEF SystemInv, ServerInv
<1>2. QED
  BY <1>1, SystemInvariantHolds, PTL

\* Applications see the service SttSessions promises, share the engine as
\* SttEngineService does and are recorded in the order SttRecorder relies on,
\* however requests and answers cross: what the daemon promises survives its
\* blocking calls and what it serves too late.
THEOREM PromisesReachApplications ==
    SystemSpec => ImplementsSessions /\ UsesEngine /\ DrivesRecorder
BY ServerImplemented, SessionsImplemented, EngineUsedAsPromised, RecorderDrivenInOrder, PTL
   DEF ImplementsServer

\* Where the plug-in does not refuse to cancel, every recording with an engine
\* at work has its __check_recording_state armed: one that its application has
\* lost track of, by a start answered too late, a stop given up or its death,
\* will be asked about and found.
THEOREM OrphansAreChecked ==
    ASSUME "cancel" \notin FaultyCalls
    PROVE  SystemSpec => [](\A u \in Recording : engine \in Working =>
                              \E t \in TimerId : timers[t] = TimerFor("check", u))
<1>1. SystemInv /\ DeletedTimerIsOwn =>
         \A u \in Recording : engine \in Working =>
             \E t \in TimerId : timers[t] = TimerFor("check", u)
  BY DEF SystemInv, ServerInv, EngineNeverMixesUp, DeletedTimerIsOwn, Working
<1>2. Spec => []DeletedTimerIsOwn
  BY DeletesOwnTimer
<1>3. SystemSpec => []DeletedTimerIsOwn
  BY <1>2, ServerImplemented, PTL DEF ImplementsServer
<1>4. QED
  BY <1>1, <1>3, SystemInvariantHolds, PTL

-----------------------------------------------------------------------------
(* Waiting.                                                                *)

\* Application u has a request in the queue that it awaits, and the daemon one
\* of its own in an inbox.
Queued(queue, u) == \E i \in DOMAIN queue : queue[i].uid = u /\ queue[i].awaited
Questioned(messages) == \E i \in DOMAIN messages : messages[i].awaited

\* A request stays awaited until it is served or given up.
LEMMA QueuedStays ==
    ASSUME NEW queue \in Seq(RequestType), NEW u \in Uid, Queued(queue, u)
    PROVE  /\ \A r \in RequestType : Queued(Append(queue, r), u)
           /\ ~(Head(queue).uid = u /\ Head(queue).awaited) => Queued(Tail(queue), u)
           /\ \A v \in Uid \ {u} : Queued(Abandoned(queue, v), u)
<1>1. PICK i \in DOMAIN queue : queue[i].uid = u /\ queue[i].awaited
  BY DEF Queued
<1>2. ASSUME NEW r \in RequestType PROVE Queued(Append(queue, r), u)
  <2>1. i \in DOMAIN Append(queue, r) /\ Append(queue, r)[i] = queue[i]
    BY SMT
  <2>2. QED
    BY <1>1, <2>1 DEF Queued
<1>3. ASSUME ~(Head(queue).uid = u /\ Head(queue).awaited) PROVE Queued(Tail(queue), u)
  <2>1. Head(queue) = queue[1] /\ i \in Nat \ {0}
    BY SMT
  <2>2. i # 1
    BY <1>1, <1>3, <2>1
  <2>3. i - 1 \in DOMAIN Tail(queue) /\ Tail(queue)[i - 1] = queue[i]
    BY <2>1, <2>2, SMT
  <2>4. QED
    BY <1>1, <2>3 DEF Queued
<1>4. ASSUME NEW v \in Uid \ {u} PROVE Queued(Abandoned(queue, v), u)
  <2>1. i \in DOMAIN Abandoned(queue, v) /\ Abandoned(queue, v)[i] = queue[i]
    BY <1>1 DEF Abandoned
  <2>2. QED
    BY <1>1, <2>1 DEF Queued
<1>5. QED
  BY <1>2, <1>3, <1>4

\* A request that is sent is one more of its application that is awaited.
LEMMA SentIsQueued ==
    ASSUME NEW queue \in Seq(RequestType), NEW op \in Request, NEW u \in Uid
    PROVE  Queued(Append(queue, RequestOf(op, u)), u)
<1> DEFINE r == RequestOf(op, u)
<1>1. r \in RequestType /\ r.uid = u /\ r.awaited
  BY SentParts
<1> HIDE DEF r
<1>2. /\ Len(queue) + 1 \in DOMAIN Append(queue, r)
      /\ Append(queue, r)[Len(queue) + 1] = r
  BY <1>1, SMT
<1>3. QED
  BY <1>1, <1>2 DEF Queued, r

\* The same of messages.
LEMMA QuestionStays ==
    ASSUME NEW messages \in Seq(MessageType)
    PROVE  /\ \A m \in MessageType : /\ Questioned(messages) => Questioned(Append(messages, m))
                                     /\ m.awaited => Questioned(Append(messages, m))
           /\ messages # <<>> /\ Questioned(messages) /\ ~Head(messages).awaited
                 => Questioned(Tail(messages))
<1>1. ASSUME NEW m \in MessageType
      PROVE  /\ Len(messages) + 1 \in DOMAIN Append(messages, m)
             /\ Append(messages, m)[Len(messages) + 1] = m
             /\ \A i \in DOMAIN messages : /\ i \in DOMAIN Append(messages, m)
                                           /\ Append(messages, m)[i] = messages[i]
  BY <1>1, SMT
<1>2. ASSUME messages # <<>>, NEW i \in DOMAIN messages, messages[i].awaited,
             ~Head(messages).awaited
      PROVE  Questioned(Tail(messages))
  <2>1. Head(messages) = messages[1] /\ i \in Nat \ {0}
    BY <1>2, SMT
  <2>2. i # 1
    BY <1>2, <2>1
  <2>3. i - 1 \in DOMAIN Tail(messages) /\ Tail(messages)[i - 1] = messages[i]
    BY <2>1, <2>2, SMT
  <2>4. QED
    BY <1>2, <2>3 DEF Questioned
<1>3. QED
  BY <1>1, <1>2 DEF Questioned

\* The two halves of the invariant.
CallsCanEnd ==
    \A u \in Uid : call[u] # "none" => handle[u] # "dead" /\ Queued(requests, u)
QuestionCanEnd ==
    blocked # NoCall /\ handle[blocked.uid] # "dead" => Questioned(inbox[blocked.uid])

LEMMA WaitsHalved == WaitsCanEnd <=> CallsCanEnd /\ QuestionCanEnd
BY DEF WaitsCanEnd, CallsCanEnd, QuestionCanEnd, Queued, Questioned

\* An application whose call goes on has sent the next request.
LEMMA ReturnsCanEnd ==
    ASSUME ApplicationsTyped, NEW u \in Uid, handle[u] # "dead", NEW granted,
           NEW queue \in Seq(RequestType),
           \A v \in Uid \ {u} : call[v] # "none" => handle[v] # "dead" /\ Queued(queue, v),
           Returns(u, granted, queue)
    PROVE  CallsCanEnd'
<1>1. call \in [Uid -> Request \cup {"none"}]
      /\ handle \in [Uid -> HandleState \cup {"destroyed", "dead"}]
  BY DEF ApplicationsTyped
<1>2. CASE AsksToInitialize(u, granted)
  <2>1. /\ requests' = Append(queue, RequestOf("initialize", u)) /\ UNCHANGED handle
        /\ \A v \in Uid \ {u} : call'[v] = call[v]
    BY <1>1, <1>2 DEF Returns
  <2>2. "initialize" \in Request /\ RequestOf("initialize", u) \in RequestType
    BY RequestNames, SentParts
  <2>3. Queued(requests', u)
    BY <2>1, <2>2, SentIsQueued
  <2>4. \A v \in Uid \ {u} : Queued(queue, v) => Queued(requests', v)
    BY <2>1, <2>2, QueuedStays
  <2>5. QED
    BY <2>1, <2>3, <2>4 DEF CallsCanEnd
<1>3. CASE ~AsksToInitialize(u, granted)
  <2>1. /\ requests' = queue /\ call'[u] = "none"
        /\ \A v \in Uid \ {u} : call'[v] = call[v] /\ handle'[v] = handle[v]
    BY <1>1, <1>3 DEF Returns
  <2>2. QED
    BY <2>1 DEF CallsCanEnd
<1>4. QED
  BY <1>2, <1>3

\* A request is sent before its application blocks, and leaves the queue only
\* with an answer that ends the call or sends the next.
LEMMA CallsStep ==
    ASSUME SystemInv, CallsCanEnd, [SystemNext]_systemVars
    PROVE  CallsCanEnd'
<1>0. /\ ApplicationsTyped /\ requests \in Seq(RequestType) /\ Orderly(requests, call)
      /\ call \in [Uid -> Request \cup {"none"}]
      /\ handle \in [Uid -> HandleState \cup {"destroyed", "dead"}]
  BY DEF SystemInv, ApplicationsTyped
<1>1. CASE UNCHANGED <<handle, call, requests>>
  BY <1>1 DEF CallsCanEnd, Queued
<1>2. ASSUME NEW u \in Uid, NEW op \in Op, CallDaemon(u, op) PROVE CallsCanEnd'
  <2>1. CASE handle' = [handle EXCEPT ![u] = "destroyed"] /\ UNCHANGED <<requests, call>>
    BY <1>0, <2>1 DEF CallsCanEnd, Queued
  <2>2. CASE /\ requests' = Append(requests, RequestOf(op, u))
             /\ call' = [call EXCEPT ![u] = op] /\ UNCHANGED handle
    <3>1. op \in Request /\ RequestOf(op, u) \in RequestType
      BY RequestNames, SentParts
    <3>2. Queued(requests', u)
      BY <1>0, <2>2, <3>1, SentIsQueued
    <3>3. \A v \in Uid : Queued(requests, v) => Queued(requests', v)
      BY <1>0, <2>2, <3>1, QueuedStays
    <3>4. handle[u] # "dead" /\ \A v \in Uid \ {u} : call'[v] = call[v]
      BY <1>0, <1>2, <2>2 DEF CallDaemon, Awake
    <3>5. QED
      BY <2>2, <3>2, <3>3, <3>4 DEF CallsCanEnd
  <2>3. QED
    BY <1>2, <2>1, <2>2 DEF CallDaemon
<1>3. ASSUME NEW u \in Uid, GiveUp(u) PROVE CallsCanEnd'
  <2>1. call[u] # "none" /\ Returns(u, FALSE, Abandoned(requests, u))
    BY <1>3 DEF GiveUp
  <2>2. \A v \in Uid \ {u} : Queued(requests, v) => Queued(Abandoned(requests, u), v)
    BY <1>0, QueuedStays
  <2>3. Abandoned(requests, u) \in Seq(RequestType)
    BY <1>0, AbandonedKeeps
  <2>4. handle[u] # "dead"
    BY <2>1 DEF CallsCanEnd
  <2>5. \A v \in Uid \ {u} :
           call[v] # "none" => handle[v] # "dead" /\ Queued(Abandoned(requests, u), v)
    BY <2>2 DEF CallsCanEnd
  <2>6. QED
    BY <1>0, <2>1, <2>3, <2>4, <2>5, ReturnsCanEnd
<1>4. ASSUME NEW u \in Uid, Die(u) PROVE CallsCanEnd'
  <2>1. /\ requests' = Abandoned(requests, u) /\ call'[u] = "none"
        /\ \A v \in Uid \ {u} : call'[v] = call[v] /\ handle'[v] = handle[v]
    BY <1>0, <1>4 DEF Die
  <2>2. \A v \in Uid \ {u} : Queued(requests, v) => Queued(requests', v)
    BY <1>0, <2>1, QueuedStays
  <2>3. QED
    BY <2>1, <2>2 DEF CallsCanEnd
<1>5. CASE Serve
  <2> DEFINE r == Head(requests)
             q == Tail(requests)
             granted == HasGranted(r.op, r.uid)
  <2>1. requests # <<>>
    BY <1>5 DEF Serve
  <2>2. /\ r \in RequestType /\ q \in Seq(RequestType)
        /\ r.awaited => call[r.uid] = r.op
    BY <1>0, <2>1, TailKeeps
  <2>3. r.uid \in Uid /\ r.op \in Request
    BY <2>2, RequestParts
  <2>4. \A v \in Uid : Queued(requests, v) /\ (r.awaited => v # r.uid) => Queued(q, v)
    BY <1>0, QueuedStays
  <2>5. CASE r.awaited /\ Returns(r.uid, granted, q)
    <3>1. call[r.uid] # "none"
      BY <2>2, <2>3, <2>5, RequestNames
    <3>2. handle[r.uid] # "dead"
      BY <2>3, <3>1 DEF CallsCanEnd
    <3>3. \A v \in Uid \ {r.uid} : call[v] # "none" => handle[v] # "dead" /\ Queued(q, v)
      BY <2>4 DEF CallsCanEnd
    <3> HIDE DEF r, q, granted
    <3>4. QED
      BY <1>0, <2>2, <2>3, <2>5, <3>2, <3>3, ReturnsCanEnd
  <2>6. CASE ~r.awaited /\ requests' = q /\ UNCHANGED clientVars
    BY <2>4, <2>6 DEF CallsCanEnd, clientVars
  <2>7. QED
    BY <1>5, <2>5, <2>6 DEF Serve
<1>6. ASSUME NEW u \in Uid, Receive(u) PROVE CallsCanEnd'
  <2>1. PICK m : handle' = [handle EXCEPT ![u] = Told(m, @)]
    BY <1>6 DEF Receive
  <2>2. "dead" \notin HandleState
    BY DEF HandleState
  <2>3. \A v \in Uid : handle[v] # "dead" => handle'[v] # "dead"
    BY <1>0, <2>1, <2>2 DEF Told
  <2>4. QED
    BY <1>6, <2>3 DEF Receive, CallsCanEnd, Queued
<1>7. QED
  BY <1>1, <1>2, <1>3, <1>4, <1>5, <1>6
     DEF SystemNext, systemVars, clientVars, Prepare, MisreadMessage, AskHello, Ask,
         FireCheck, FireTimeOut, ResultFor, FireSilence, DaemonGivesUp, EngineResult,
         DaemonAlone

\* A process that is gone does not come back: nothing answers it any more.
LEMMA GoneStaysGone ==
    ASSUME SystemInv, [SystemNext]_systemVars, NEW u \in Uid,
           handle[u] = "dead", call[u] = "none"
    PROVE  handle'[u] = "dead"
<1>0. /\ ApplicationsTyped /\ requests \in Seq(RequestType) /\ Orderly(requests, call)
      /\ handle \in [Uid -> HandleState \cup {"destroyed", "dead"}]
  BY DEF SystemInv, ApplicationsTyped
<1>1. ASSUME NEW v \in Uid \ {u}, NEW s, handle' = [handle EXCEPT ![v] = s]
      PROVE  handle'[u] = "dead"
  BY <1>0, <1>1
<1>2. ASSUME NEW v \in Uid, NEW granted, NEW queue, call[v] # "none",
             Returns(v, granted, queue)
      PROVE  handle'[u] = "dead"
  <2>1. v # u
    BY <1>2
  <2>2. \/ UNCHANGED handle
        \/ handle' = [handle EXCEPT ![v] = StateAfter(call[v], @, granted)]
    BY <1>2 DEF Returns
  <2>3. QED
    BY <1>0, <2>1, <2>2
<1>3. CASE Serve
  <2> DEFINE r == Head(requests)
             granted == HasGranted(r.op, r.uid)
             q == Tail(requests)
  <2>1. requests # <<>>
    BY <1>3 DEF Serve
  <2>2. r \in RequestType /\ (r.awaited => call[r.uid] = r.op)
    BY <1>0, <2>1, TailKeeps
  <2>3. r.uid \in Uid /\ (r.awaited => call[r.uid] # "none")
    BY <2>2, RequestParts, RequestNames
  <2>4. \/ r.awaited /\ Returns(r.uid, granted, q)
        \/ UNCHANGED clientVars
    BY <1>3 DEF Serve
  <2> HIDE DEF r, granted, q
  <2>5. QED
    BY <1>2, <2>3, <2>4 DEF clientVars
<1>4. ASSUME NEW v \in Uid, Receive(v) \/ Die(v) \/ GiveUp(v) PROVE handle'[u] = "dead"
  <2>1. CASE Receive(v)
    <3>1. PICK m : v # u /\ handle' = [handle EXCEPT ![v] = Told(m, @)]
      BY <2>1 DEF Receive, Awake
    <3>2. QED
      BY <1>0, <3>1
  <2>2. CASE Die(v)
    BY <1>0, <2>2 DEF Die
  <2>3. CASE GiveUp(v)
    BY <1>2, <2>3 DEF GiveUp
  <2>4. QED
    BY <1>4, <2>1, <2>2, <2>3
<1>5. ASSUME NEW v \in Uid, NEW op \in Op, CallDaemon(v, op) PROVE handle'[u] = "dead"
  BY <1>0, <1>1, <1>5 DEF CallDaemon, Awake
<1>6. CASE UNCHANGED handle
  BY <1>6
<1>7. QED
  BY <1>3, <1>4, <1>5, <1>6
     DEF SystemNext, systemVars, clientVars, Prepare, MisreadMessage, AskHello, Ask,
         FireCheck, FireTimeOut, ResultFor, FireSilence, DaemonGivesUp, EngineResult,
         DaemonAlone

\* The daemon blocks on a message it has just sent, or on a process that is gone.
LEMMA AskCanEnd ==
    ASSUME InboxesTyped, NEW u \in Uid, NEW t,
           NEW k \in {"hello", "get state", "stopped", "readied"},
           NEW s \in {"none", "processing", "ready"}, Ask(u, k, t, s)
    PROVE  QuestionCanEnd'
<1> DEFINE m == Message(k, s, TRUE)
<1>1. m \in MessageType /\ m.awaited
  BY MessageParts
<1> HIDE DEF m
<1>2. /\ inbox' = Delivered(u, m) /\ blocked'.uid = u /\ UNCHANGED handle
      /\ inbox \in [Uid -> Seq(MessageType)]
  BY DEF Ask, CallTo, clientVars, InboxesTyped, m
<1>3. Questioned(Append(inbox[u], m))
  BY <1>1, <1>2, QuestionStays
<1>4. QED
  BY <1>2, <1>3 DEF Delivered, QuestionCanEnd

\* A message more takes none away.
LEMMA ResultCanEnd ==
    ASSUME InboxesTyped, QuestionCanEnd, NEW u \in Uid, ResultFor(u)
    PROVE  QuestionCanEnd'
<1> DEFINE m == Message("result", "ready", FALSE)
<1>1. m \in MessageType
  BY MessageParts
<1>2. inbox' = Delivered(u, m) /\ UNCHANGED <<handle, blocked>>
      /\ inbox \in [Uid -> Seq(MessageType)]
  BY DEF ResultFor, clientVars, InboxesTyped
<1> HIDE DEF m
<1>3. Questioned(inbox[u]) => Questioned(Append(inbox[u], m))
  BY <1>1, <1>2, QuestionStays
<1>4. QED
  BY <1>2, <1>3 DEF Delivered, QuestionCanEnd

\* An application that takes or loses a message either ends the daemon's wait,
\* begins the next, or leaves the message the daemon waits for.
LEMMA TakenCanEnd ==
    ASSUME InboxesTyped, QuestionCanEnd, NEW u \in Uid, handle[u] # "dead",
           inbox[u] # <<>>, ~Head(inbox[u]).awaited,
           inbox' = [inbox EXCEPT ![u] = Tail(@)], UNCHANGED blocked,
           \A v \in Uid : handle[v] = "dead" => handle'[v] = "dead",
           blocked \in CallType \cup {NoCall}
    PROVE  QuestionCanEnd'
<1>1. inbox \in [Uid -> Seq(MessageType)]
  BY DEF InboxesTyped
<1>2. Questioned(inbox[u]) => Questioned(Tail(inbox[u]))
  BY <1>1, QuestionStays
<1>3. blocked # NoCall => blocked.uid \in Uid
  BY DEF CallType
<1>4. QED
  BY <1>1, <1>2, <1>3 DEF QuestionCanEnd

LEMMA QuestionStep ==
    ASSUME SystemInv, CallsCanEnd, QuestionCanEnd, [SystemNext]_systemVars
    PROVE  QuestionCanEnd'
<1>0. /\ InboxesTyped /\ inbox \in [Uid -> Seq(MessageType)]
      /\ blocked \in CallType \cup {NoCall}
  BY DEF SystemInv, InboxesTyped
<1>1. \A u \in Uid : handle[u] = "dead" => handle'[u] = "dead"
  BY GoneStaysGone DEF CallsCanEnd
<1>2. blocked # NoCall => blocked.uid \in Uid
  BY <1>0 DEF CallType
<1>3. CASE UNCHANGED <<inbox, blocked>>
  BY <1>1, <1>2, <1>3 DEF QuestionCanEnd
<1>4. CASE blocked' = NoCall
  BY <1>4 DEF QuestionCanEnd
<1>5. ASSUME NEW u \in Uid, AskHello(u) PROVE QuestionCanEnd'
  BY <1>0, <1>5, AskCanEnd DEF AskHello
<1>6. ASSUME NEW t \in TimerId, FireCheck(t) PROVE QuestionCanEnd'
  BY <1>0, <1>3, <1>6, AskCanEnd DEF FireCheck, Recording
<1>7. CASE FireSilence
  BY <1>0, <1>3, <1>7, AskCanEnd DEF FireSilence, Recording
<1>8. ASSUME NEW u \in Uid, Receive(u) PROVE QuestionCanEnd'
  <2> DEFINE m == Head(inbox[u])
             rest == [inbox EXCEPT ![u] = Tail(@)]
  <2>1. inbox[u] # <<>> /\ handle[u] # "dead"
    BY <1>8 DEF Receive, Awake
  <2>2. CASE ~m.awaited /\ inbox' = rest /\ UNCHANGED blocked
    BY <1>0, <1>1, <2>1, <2>2, TakenCanEnd
  <2>3. CASE /\ blocked' = CallTo(u, "readied", NULL)
             /\ inbox' = [rest EXCEPT ![u] = Append(@, Message("readied", "ready", TRUE))]
    <3> DEFINE n == Message("readied", "ready", TRUE)
    <3>1. n \in MessageType /\ n.awaited
      BY MessageParts
    <3> HIDE DEF n
    <3>2. Tail(inbox[u]) \in Seq(MessageType)
      BY <1>0, <2>1
    <3>3. inbox'[u] = Append(Tail(inbox[u]), n) /\ blocked'.uid = u
      BY <1>0, <2>3 DEF CallTo, n
    <3>4. Questioned(inbox'[u])
      BY <3>1, <3>2, <3>3, QuestionStays
    <3>5. QED
      BY <3>3, <3>4 DEF QuestionCanEnd
  <2>4. QED
    BY <1>4, <1>8, <2>2, <2>3 DEF Receive
<1>9. ASSUME NEW u \in Uid, MisreadMessage(u) PROVE QuestionCanEnd'
  <2>1. inbox[u] # <<>> /\ handle[u] # "dead" /\ inbox' = [inbox EXCEPT ![u] = Tail(@)]
    BY <1>0, <1>9 DEF MisreadMessage, Awake
  <2>2. CASE ~Head(inbox[u]).awaited /\ UNCHANGED blocked
    BY <1>0, <1>1, <2>1, <2>2, TakenCanEnd
  <2>3. QED
    BY <1>4, <1>9, <2>2 DEF MisreadMessage
<1>10. ASSUME NEW t \in TimerId, FireTimeOut(t) PROVE QuestionCanEnd'
  BY <1>0, <1>3, <1>10, ResultCanEnd DEF FireTimeOut, Processing
<1>11. CASE EngineResult
  <2>1. engine = "deciding" => job \in Uid
    BY DEF SystemInv, JobKnown, Working
  <2>2. QED
    BY <1>0, <1>3, <1>11, <2>1, ResultCanEnd DEF EngineResult, Result
<1>12. ASSUME NEW u \in Uid, Die(u) PROVE QuestionCanEnd'
  <2>1. handle'[u] = "dead" /\ UNCHANGED blocked
    BY <1>12 DEF Die, SystemInv, ApplicationsTyped
  <2>2. \A v \in Uid \ {u} : inbox'[v] = inbox[v]
    BY <1>0, <1>12 DEF Die
  <2>3. QED
    BY <1>1, <1>2, <2>1, <2>2 DEF QuestionCanEnd
<1>13. QED
  BY <1>3, <1>4, <1>5, <1>6, <1>7, <1>8, <1>9, <1>10, <1>11, <1>12
     DEF SystemNext, systemVars, Prepare, CallDaemon, GiveUp, Serve, DaemonGivesUp,
         DaemonAlone

\* Nobody ever waits for what is not on its way: no order of deaths, time-outs,
\* late answers and lost messages leaves an application without its request, or
\* the daemon without its question.  With fair main loops that is why every
\* wait ends.
THEOREM WaitsCanAlwaysEnd == SystemSpec => []WaitsCanEnd
<1>1. SystemInit => CallsCanEnd /\ QuestionCanEnd
  BY DEF SystemInit, CallsCanEnd, QuestionCanEnd
<1>2. SystemInv /\ CallsCanEnd /\ QuestionCanEnd /\ [SystemNext]_systemVars
         => CallsCanEnd' /\ QuestionCanEnd'
  BY CallsStep, QuestionStep
<1>3. CallsCanEnd /\ QuestionCanEnd => WaitsCanEnd
  BY WaitsHalved
<1>4. QED
  BY <1>1, <1>2, <1>3, SystemInvariantHolds, PTL DEF SystemSpec

-----------------------------------------------------------------------------
(* Results.                                                                *)

\* A request that is served leaves the queue; what follows it may be added.
LEMMA ServedLeaves ==
    ASSUME NEW queue \in Seq(RequestType), queue # <<>>
    PROVE  Tail(queue) # queue
<1>1. Len(Tail(queue)) # Len(queue)
  BY SMT
<1>2. QED
  BY <1>1

LEMMA AppendIsLonger ==
    ASSUME NEW messages \in Seq(MessageType), NEW m \in MessageType
    PROVE  Len(Append(messages, m)) > Len(messages)
<1>1. Len(messages) \in Nat
  OBVIOUS
<1>2. Len(Append(messages, m)) = Len(messages) + 1
  OBVIOUS
<1>3. QED
  BY <1>1, <1>2

\* Of all the daemon does, a request aside, only a result and the time-out make
\* a session that waits ready.
LEMMA OnlyAResultReadies ==
    ASSUME SystemInv, [SystemNext]_systemVars, "silent engine" \notin Trouble,
           NEW v \in Uid, state[v] = "processing", state'[v] = "ready",
           requests' = requests
    PROVE  ResultFor(v)
<1> USE DEF Recording, Processing
<1>0. state \in [Uid -> AppState \cup {"absent"}] /\ AtMostOneBusy /\ requests \in Seq(RequestType)
  BY DEF SystemInv, ServerInv, TypeOK
<1>1. CASE UNCHANGED vars
  BY <1>1 DEF vars
<1>2. ASSUME NEW u \in Uid, ServerFinalize(u) PROVE FALSE
  BY <1>0, <1>2 DEF ServerFinalize
<1>3. ASSUME NEW u \in Recording, NEW fired, ServerCancel(u, fired) PROVE FALSE
  BY <1>0, <1>3 DEF ServerCancel
<1>4. ASSUME NEW u \in Recording, NEW pending, ServerStop(u, pending) PROVE FALSE
  BY <1>0, <1>4 DEF ServerStop
<1>5. ASSUME NEW s, Resume(s) PROVE FALSE
  <2>1. blocked \in CallType
    BY <1>5, NotBlocked DEF Resume, SystemInv
  <2>2. blocked.uid \in Uid
    BY <2>1 DEF CallType
  <2>3. blocked.kind = "get state" => blocked.uid \in Recording
    BY DEF SystemInv, CheckIsOfRecording
  <2>4. CASE Greet(blocked.uid)
    BY <1>2, <2>2, <2>4 DEF Greet
  <2>5. CASE blocked.kind = "get state" /\ CheckEnds(blocked.uid, blocked.timer, s)
    BY <1>2, <1>3, <2>2, <2>3, <2>5 DEF CheckEnds
  <2>6. CASE Finalize(blocked.uid)
    BY <1>2, <2>2, <2>6 DEF Finalize
  <2>7. QED
    BY <1>1, <1>5, <2>4, <2>5, <2>6 DEF Resume, vars
<1>6. ASSUME NEW u \in Uid, Die(u) PROVE FALSE
  BY <1>1, <1>6 DEF Die, Crash, vars
<1>7. ASSUME NEW t \in TimerId, FireCheck(t) PROVE FALSE
  BY <1>1, <1>2, <1>3, <1>7 DEF FireCheck, CheckRecording, vars
<1>8. ASSUME NEW t \in TimerId, FireTimeOut(t) PROVE ResultFor(v)
  BY <1>0, <1>8 DEF FireTimeOut, AtMostOneBusy, Busy
<1>9. CASE Serve
  <2> DEFINE r == Head(requests)
  <2>1. /\ r \in RequestType /\ Tail(requests) \in Seq(RequestType)
        /\ r.awaited => call[r.uid] = r.op
    BY <1>9, TailKeeps DEF Serve, SystemInv
  <2>2. r.uid \in Uid /\ Tail(requests) # requests
    BY <1>0, <1>9, <2>1, RequestParts, ServedLeaves DEF Serve
  <2>3. r.awaited /\ Returns(r.uid, HasGranted(r.op, r.uid), Tail(requests))
    BY <1>9, <2>2 DEF Serve
  <2>4. AsksToInitialize(r.uid, HasGranted(r.op, r.uid))
    BY <2>2, <2>3 DEF Returns
  <2>5. r.op \in {"hello", "initialize"}
    BY <2>1, <2>3, <2>4 DEF AsksToInitialize
  <2>6. Handler(r.op, r.uid) \/ UNCHANGED vars
    BY <1>9 DEF Serve, Refuses
  <2> HIDE DEF r
  <2>7. Initialize(r.uid)
    <3>1. ~UNCHANGED vars
      BY DEF vars
    <3>2. Handler(r.op, r.uid)
      BY <2>6, <3>1
    <3>3. r.op \notin {"finalize", "destroy", "start", "stop", "cancel"}
      BY <2>5
    <3>4. QED
      BY <3>2, <3>3 DEF Handler
  <2>8. QED
    BY <1>0, <2>2, <2>7 DEF Initialize
<1>10. CASE FireSilence
  BY <1>1, <1>4, <1>10 DEF FireSilence, StopBySilence, vars
<1>11. CASE EngineResult
  <2>1. v = job
    BY <1>0, <1>11 DEF EngineResult, Result
  <2>2. QED
    BY <1>11, <2>1 DEF EngineResult
<1>12. CASE DaemonAlone
  BY <1>12 DEF DaemonAlone, SilenceDetected, CamcorderMessage, StartSweep,
     SettingInitialize, SettingFinalize, SetEngine
<1>13. QED
  BY <1>1, <1>5, <1>6, <1>7, <1>8, <1>9, <1>10, <1>11, <1>12
     DEF SystemNext, systemVars, Prepare, CallDaemon, GiveUp, AskHello,
         Receive, MisreadMessage, DaemonGivesUp

\* With an engine that never succeeds without a text, no session stops waiting
\* in silence: whatever ends PROCESSING, short of the application's own request
\* or its death, has put a result into its inbox (stt.h:569).
THEOREM ResultsArrive ==
    "silent engine" \notin Trouble => (SystemSpec => ResultIsAnnounced)
<1> SUFFICES ASSUME "silent engine" \notin Trouble
             PROVE  SystemSpec => ResultIsAnnounced
  OBVIOUS
<1> DEFINE Announced ==
      \A u \in Uid :
          /\ state[u] = "processing" /\ state'[u] = "ready"
          /\ requests' = requests /\ handle[u] # "dead"
          => Len(inbox'[u]) > Len(inbox[u])
<1>1. SystemInv /\ [SystemNext]_systemVars => [Announced]_systemVars
  <2> SUFFICES ASSUME SystemInv, [SystemNext]_systemVars, NEW u \in Uid,
                      state[u] = "processing", state'[u] = "ready",
                      requests' = requests, handle[u] # "dead"
               PROVE  Len(inbox'[u]) > Len(inbox[u])
    OBVIOUS
  <2>1. ResultFor(u)
    BY OnlyAResultReadies
  <2> DEFINE m == Message("result", "ready", FALSE)
  <2>2. inbox' = [inbox EXCEPT ![u] = Append(@, m)]
    BY <2>1 DEF ResultFor, Delivered
  <2>3. inbox \in [Uid -> Seq(MessageType)] /\ m \in MessageType
    BY MessageParts DEF SystemInv, InboxesTyped
  <2> HIDE DEF m
  <2>4. inbox'[u] = Append(inbox[u], m)
    BY <2>2, <2>3
  <2>5. inbox[u] \in Seq(MessageType)
    BY <2>3
  <2>6. QED
    BY <2>3, <2>4, <2>5, AppendIsLonger
<1>2. QED
  BY <1>1, SystemInvariantHolds, PTL DEF SystemSpec, ResultIsAnnounced
=============================================================================
