--------------------------- MODULE SttSettingsProofs ---------------------------
(***************************************************************************)
(* Theorems about SttSettings, for all engines, menus, what they ask for   *)
(* and what goes wrong around them.                                        *)
(***************************************************************************)
EXTENDS SttSettings, SttEngineAgentProofs

\* The variables of the menus keep to their values.
MenusTyped ==
    /\ alive \subseteq Menu /\ doubt \subseteq alive
    /\ initialized \in [Menu -> BOOLEAN]
    /\ call \in [Menu -> Ask \cup {NULL}]
    /\ tries \in [Menu -> 0..RetryCount]
    /\ \A m \in Menu : initialized[m] \/ ~Idle(m) => m \in alive
    /\ \A m \in Menu : ~Idle(m) => (initialized[m] <=> call[m] # Initialize)

\* An awaited request is what its menu waits for, and the last of that menu.
Orderly(q, c) ==
    \A i \in DOMAIN q : q[i].awaited =>
        /\ c[q[i].menu] = q[i].ask
        /\ \A j \in DOMAIN q : j > i => q[j].menu # q[i].menu

\* The menus reckon with what was given up and may still be served.
Reckoned(q, k) ==
    \A i \in DOMAIN q :
        ~q[i].awaited /\ q[i].ask \in ChooseOption => q[i].ask.value \in k[q[i].ask.option]

\* A menu that gave an initialize or a finalize up is in doubt until none is
\* on its way any more.
Doubtful(q, a, d) ==
    \A i \in DOMAIN q :
        ~q[i].awaited /\ q[i].ask \in {Initialize, Finalize} /\ q[i].menu \in a
            => q[i].menu \in d

\* The inductive invariant.  The daemon serves in the order of sending, so
\* that nothing of a menu is on its way after the request it waits for.
SettingsInv ==
    /\ AgentInv
    /\ MenusTyped
    /\ requests \in Seq(Request)
    /\ known \in [Option -> SUBSET (0..1)]
    /\ Orderly(requests, call)
    /\ Reckoned(requests, known)
    /\ Doubtful(requests, alive, doubt)
    /\ \A o \in Option : up => default[o] \in known[o]
    /\ \A o \in Option : file # NULL => file.options[o] \in known[o]
    /\ \A o \in Option : file = NULL => Factory[o] \in known[o]
    /\ SidesAgree

-----------------------------------------------------------------------------
(* Requests and queues.                                                    *)

\* What a request consists of.
LEMMA RequestParts ==
    ASSUME NEW r \in Request
    PROVE  /\ r.menu \in Menu /\ r.ask \in Ask /\ r.awaited \in BOOLEAN
           /\ [r EXCEPT !.awaited = FALSE] \in Request
           /\ [r EXCEPT !.awaited = FALSE].menu = r.menu
           /\ [r EXCEPT !.awaited = FALSE].ask = r.ask
           /\ [r EXCEPT !.awaited = FALSE].awaited = FALSE
<1>1. r \in [menu : Menu, ask : Ask, awaited : BOOLEAN]
  BY DEF Request
<1>2. r.menu \in Menu /\ r.ask \in Ask /\ r.awaited \in BOOLEAN
  BY <1>1, SMT
<1>3. FALSE \in BOOLEAN
  OBVIOUS
<1>4. ASSUME NEW b \in BOOLEAN
      PROVE  /\ [r EXCEPT !.awaited = b] \in [menu : Menu, ask : Ask, awaited : BOOLEAN]
             /\ [r EXCEPT !.awaited = b].menu = r.menu
             /\ [r EXCEPT !.awaited = b].ask = r.ask
             /\ [r EXCEPT !.awaited = b].awaited = b
  BY <1>1, SMT
<1>5. QED
  BY <1>2, <1>3, <1>4 DEF Request

\* A request that is sent is awaited.
LEMMA SentParts ==
    ASSUME NEW m \in Menu, NEW ask \in Ask
    PROVE  /\ Sent(m, ask) \in Request
           /\ Sent(m, ask).menu = m /\ Sent(m, ask).ask = ask
           /\ Sent(m, ask).awaited = TRUE
BY SMT DEF Request, Sent

\* What is asked for is of one kind, and what is chosen of an option is one of
\* its values.
LEMMA AskParts ==
    /\ Initialize \in Ask /\ Finalize \in Ask /\ Initialize # Finalize
    /\ \A ask \in ChooseOption :
          ask \notin {Initialize, Finalize} /\ ask.option \in Option /\ ask.value \in 0..1
    /\ \A ask \in {ListEngines, ReadSetting, AskPlugin} \cup ChooseLanguage \cup ChooseEngine :
          ask \notin {Initialize, Finalize} /\ ask \notin ChooseOption
    /\ \A ask \in ChooseLanguage : ask.language \in Language
    /\ \A ask \in ChooseEngine : ask.engine \in Engine
<1>1. /\ Initialize.op = "initialize" /\ Finalize.op = "finalize"
      /\ ListEngines.op = "list" /\ ReadSetting.op = "read" /\ AskPlugin.op = "plug-in"
  BY SMT DEF Initialize, Finalize, ListEngines, ReadSetting, AskPlugin
<1>2. /\ \A ask \in ChooseOption :
            ask.op = "option" /\ ask.option \in Option /\ ask.value \in 0..1
      /\ \A ask \in ChooseLanguage : ask.op = "language" /\ ask.language \in Language
      /\ \A ask \in ChooseEngine : ask.op = "engine" /\ ask.engine \in Engine
  BY SMT DEF ChooseOption, ChooseLanguage, ChooseEngine
<1>3. Initialize \in Ask /\ Finalize \in Ask
  BY DEF Ask
<1>4. QED
  BY <1>1, <1>2, <1>3, SMT

\* The queue without its oldest request.
LEMMA TailParts ==
    ASSUME NEW q \in Seq(Request), q # <<>>
    PROVE  /\ Head(q) \in Request /\ Head(q) = q[1] /\ 1 \in DOMAIN q
           /\ Tail(q) \in Seq(Request)
           /\ \A i \in DOMAIN Tail(q) :
                 i \in Nat /\ i + 1 \in DOMAIN q /\ Tail(q)[i] = q[i + 1]
BY SMT

\* A queue keeps its order without its oldest request.
LEMMA TailKeeps ==
    ASSUME NEW q \in Seq(Request), q # <<>>, NEW c, NEW k, NEW a, NEW d,
           Orderly(q, c), Reckoned(q, k), Doubtful(q, a, d)
    PROVE  /\ Orderly(Tail(q), c) /\ Reckoned(Tail(q), k) /\ Doubtful(Tail(q), a, d)
           /\ Head(q).awaited =>
                 \A i \in DOMAIN Tail(q) : Tail(q)[i].menu # Head(q).menu
<1>1. /\ Head(q) = q[1] /\ 1 \in DOMAIN q
      /\ \A i \in DOMAIN Tail(q) :
            i \in Nat /\ i + 1 \in DOMAIN q /\ Tail(q)[i] = q[i + 1]
  BY TailParts
<1>2. \A i \in DOMAIN Tail(q) : i + 1 > 1
  <2>1. DOMAIN Tail(q) \subseteq Nat \ {0}
    BY SMT
  <2>2. QED
    BY <2>1, SMT
<1>3. \A i, j \in DOMAIN Tail(q) : j > i => j + 1 > i + 1
  BY <1>1, SMT
<1>4. Orderly(Tail(q), c)
  BY <1>1, <1>3 DEF Orderly
<1>5. Reckoned(Tail(q), k) /\ Doubtful(Tail(q), a, d)
  BY <1>1 DEF Reckoned, Doubtful
<1>6. QED
  BY <1>1, <1>2, <1>4, <1>5 DEF Orderly

\* The queue with a request more.
LEMMA AppendParts ==
    ASSUME NEW q \in Seq(Request), NEW r \in Request
    PROVE  /\ Append(q, r) \in Seq(Request)
           /\ \A i \in DOMAIN Append(q, r) :
                 \/ i \in DOMAIN q /\ Append(q, r)[i] = q[i]
                 \/ i \notin DOMAIN q /\ Append(q, r)[i] = r
           /\ \A i \in DOMAIN q : i \in DOMAIN Append(q, r)
           /\ \A i, j \in DOMAIN Append(q, r) : i \notin DOMAIN q /\ j > i => FALSE
BY SMT

\* A queue keeps its order with a request of a menu that awaits no other.
LEMMA AppendKeeps ==
    ASSUME NEW q \in Seq(Request), NEW c, NEW k, NEW a, NEW d,
           NEW m \in Menu, NEW ask \in Ask,
           Orderly(q, c), Reckoned(q, k), Doubtful(q, a, d),
           c[m] = ask,
           \A i \in DOMAIN q : q[i].awaited => q[i].menu # m
    PROVE  /\ Append(q, Sent(m, ask)) \in Seq(Request)
           /\ Orderly(Append(q, Sent(m, ask)), c)
           /\ Reckoned(Append(q, Sent(m, ask)), k)
           /\ Doubtful(Append(q, Sent(m, ask)), a, d)
<1> DEFINE r == Sent(m, ask)
           p == Append(q, r)
<1>1. r \in Request /\ r.menu = m /\ r.ask = ask /\ r.awaited = TRUE
  BY SentParts
<1> HIDE DEF r
<1>2. /\ p \in Seq(Request)
      /\ \A i \in DOMAIN p : \/ i \in DOMAIN q /\ p[i] = q[i]
                             \/ i \notin DOMAIN q /\ p[i] = r
      /\ \A i, j \in DOMAIN p : i \notin DOMAIN q /\ j > i => FALSE
  BY <1>1, AppendParts
<1> HIDE DEF p
<1>3. Orderly(p, c)
  <2>1. SUFFICES ASSUME NEW i \in DOMAIN p, p[i].awaited
                 PROVE  /\ c[p[i].menu] = p[i].ask
                        /\ \A j \in DOMAIN p : j > i => p[j].menu # p[i].menu
    BY DEF Orderly
  <2>2. CASE i \in DOMAIN q /\ p[i] = q[i]
    BY <1>1, <1>2, <2>1, <2>2 DEF Orderly
  <2>3. CASE i \notin DOMAIN q /\ p[i] = r
    BY <1>1, <1>2, <2>3
  <2>4. QED
    BY <1>2, <2>2, <2>3
<1>4. Reckoned(p, k) /\ Doubtful(p, a, d)
  BY <1>1, <1>2 DEF Reckoned, Doubtful
<1>5. QED
  BY <1>2, <1>3, <1>4 DEF p, r

\* A menu that gives up awaits nothing of what it sent.
LEMMA AbandonedParts ==
    ASSUME requests \in Seq(Request), NEW m \in Menu
    PROVE  /\ Abandoned(m) \in Seq(Request)
           /\ DOMAIN Abandoned(m) = DOMAIN requests
           /\ \A i \in DOMAIN requests :
                 /\ Abandoned(m)[i].menu = requests[i].menu
                 /\ Abandoned(m)[i].ask = requests[i].ask
                 /\ Abandoned(m)[i].awaited <=>
                       requests[i].awaited /\ requests[i].menu # m
<1>1. \A i \in DOMAIN requests : requests[i] \in Request
  BY SMT
<1>2. \A i \in DOMAIN requests :
        /\ Abandoned(m)[i] \in Request
        /\ Abandoned(m)[i].menu = requests[i].menu
        /\ Abandoned(m)[i].ask = requests[i].ask
        /\ Abandoned(m)[i].awaited <=> requests[i].awaited /\ requests[i].menu # m
  BY <1>1, RequestParts DEF Abandoned
<1>3. DOMAIN Abandoned(m) = DOMAIN requests
  BY DEF Abandoned
<1>4. Abandoned(m) \in Seq(Request)
  <2>1. PICK n \in Nat : DOMAIN requests = 1..n
    BY SMT
  <2>2. Abandoned(m) = [i \in 1..n |-> Abandoned(m)[i]]
    BY <2>1 DEF Abandoned
  <2>3. \A i \in 1..n : Abandoned(m)[i] \in Request
    BY <1>2, <2>1
  <2>4. [i \in 1..n |-> Abandoned(m)[i]] \in Seq(Request)
    BY <2>1, <2>3, SMT
  <2>5. QED
    BY <2>2, <2>4
<1>5. QED
  BY <1>2, <1>3, <1>4

-----------------------------------------------------------------------------
(* The menus' side of a step.                                              *)

\* A function returns: only its menu's variables change, as it was answered.
LEMMA ReturnsKeeps ==
    ASSUME MenusTyped, NEW m \in Menu, ~Idle(m), NEW answer,
           Returns(m, answer), UNCHANGED alive, doubt' \subseteq alive
    PROVE  /\ MenusTyped'
           /\ call'[m] = NULL
           /\ \A n \in Menu \ {m} : call'[n] = call[n] /\ initialized'[n] = initialized[n]
           /\ call[m] \notin {Initialize, Finalize} => initialized'[m] = initialized[m]
           /\ call[m] = Initialize => (initialized'[m] <=> answer = "ok")
           /\ call[m] = Finalize => (initialized'[m] <=> answer # "ok")
<1> DEFINE v == CASE call[m] = Initialize -> answer = "ok"
                  [] call[m] = Finalize -> answer # "ok"
                  [] OTHER -> initialized[m]
<1>1. /\ initialized \in [Menu -> BOOLEAN] /\ call \in [Menu -> Ask \cup {NULL}]
      /\ tries \in [Menu -> 0..RetryCount]
  BY DEF MenusTyped
<1>2. initialized' = [initialized EXCEPT ![m] = v]
  BY DEF Returns
<1>3. /\ call[m] = Initialize => (v <=> answer = "ok")
      /\ call[m] = Finalize => (v <=> answer # "ok")
      /\ call[m] \notin {Initialize, Finalize} => v = initialized[m]
      /\ v \in BOOLEAN
  BY <1>1, AskParts, Zenon
<1> HIDE DEF v
<1>4. /\ initialized' \in [Menu -> BOOLEAN] /\ initialized'[m] = v
      /\ \A n \in Menu \ {m} : initialized'[n] = initialized[n]
  BY <1>1, <1>2, <1>3
<1>5. /\ call' \in [Menu -> Ask \cup {NULL}] /\ call'[m] = NULL
      /\ \A n \in Menu \ {m} : call'[n] = call[n]
  BY <1>1 DEF Returns
<1>6. tries' \in [Menu -> 0..RetryCount]
  BY <1>1, SMT DEF Returns, RetryCount
<1>7. m \in alive
  BY DEF MenusTyped
<1>8. MenusTyped'
  BY <1>4, <1>5, <1>6, <1>7, Zenon DEF MenusTyped, Idle
<1>9. QED
  BY <1>3, <1>4, <1>5, <1>8, Zenon

\* A call is answered: the queue keeps its order, and so do the menus.
LEMMA AnsweredKeeps ==
    ASSUME MenusTyped, NEW m \in Menu, ~Idle(m), NEW answer, NEW left \in Seq(Request),
           Answered(m, answer, left), UNCHANGED alive, doubt' \subseteq alive,
           Orderly(left, call), Reckoned(left, known'), Doubtful(left, alive, doubt'),
           \A i \in DOMAIN left : left[i].awaited => left[i].menu # m
    PROVE  /\ MenusTyped'
           /\ requests' \in Seq(Request)
           /\ Orderly(requests', call') /\ Reckoned(requests', known')
           /\ Doubtful(requests', alive', doubt')
           /\ \A n \in Menu \ {m} : initialized'[n] = initialized[n]
           /\ call[m] \notin {Initialize, Finalize} => initialized'[m] = initialized[m]
           /\ call[m] = Initialize => (initialized'[m] <=> answer = "ok")
           /\ call[m] = Finalize => (initialized'[m] <=> answer # "ok")
<1>1. CASE /\ answer = "failed" /\ Again(m)
           /\ tries' = [tries EXCEPT ![m] = @ + 1]
           /\ requests' = Append(left, Sent(m, Initialize))
           /\ UNCHANGED <<initialized, call>>
  <2>1. call[m] = Initialize /\ tries[m] < RetryCount
    BY <1>1 DEF Again
  <2>2. tries \in [Menu -> 0..RetryCount]
    BY DEF MenusTyped
  <2>3. tries' \in [Menu -> 0..RetryCount]
    BY <1>1, <2>1, <2>2, SMT DEF RetryCount
  <2>4. MenusTyped'
    BY <1>1, <2>3 DEF MenusTyped, Idle
  <2>5. ~initialized[m]
    BY <2>1 DEF MenusTyped
  <2>6. /\ requests' \in Seq(Request)
        /\ Orderly(requests', call) /\ Reckoned(requests', known')
        /\ Doubtful(requests', alive, doubt')
    BY <1>1, <2>1, AskParts, AppendKeeps
  <2>7. Initialize # Finalize
    BY AskParts
  <2>8. QED
    BY <1>1, <2>1, <2>4, <2>5, <2>6, <2>7
<1>2. CASE Returns(m, answer) /\ requests' = left
  <2>1. /\ MenusTyped'
        /\ \A n \in Menu \ {m} : call'[n] = call[n] /\ initialized'[n] = initialized[n]
        /\ call[m] \notin {Initialize, Finalize} => initialized'[m] = initialized[m]
        /\ call[m] = Initialize => (initialized'[m] <=> answer = "ok")
        /\ call[m] = Finalize => (initialized'[m] <=> answer # "ok")
    BY <1>2, ReturnsKeeps
  <2>2. \A i \in DOMAIN left : left[i].menu \in Menu
    <3>1. \A i \in DOMAIN left : left[i] \in Request
      BY SMT
    <3>2. QED
      BY <3>1, RequestParts
  <2>3. Orderly(left, call')
    BY <2>1, <2>2 DEF Orderly
  <2>4. QED
    BY <1>2, <2>1, <2>3, Zenon
<1>3. QED
  BY <1>1, <1>2 DEF Answered

-----------------------------------------------------------------------------
(* Steps of a menu.                                                        *)

\* The requests a menu abandons keep their order, and what may come of them is
\* reckoned with.
LEMMA AbandonedKeeps ==
    ASSUME SettingsInv, NEW m \in Menu, Reckons(m)
    PROVE  /\ Abandoned(m) \in Seq(Request)
           /\ Orderly(Abandoned(m), call)
           /\ Reckoned(Abandoned(m), known')
           /\ \A i \in DOMAIN Abandoned(m) :
                 Abandoned(m)[i].awaited => Abandoned(m)[i].menu # m
           /\ known' \in [Option -> SUBSET (0..1)]
           /\ \A o \in Option : known[o] \subseteq known'[o]
<1>1. /\ requests \in Seq(Request) /\ Orderly(requests, call)
      /\ known \in [Option -> SUBSET (0..1)]
  BY DEF SettingsInv
<1> DEFINE q == Abandoned(m)
<1>2. /\ q \in Seq(Request) /\ DOMAIN q = DOMAIN requests
      /\ \A i \in DOMAIN requests :
            /\ q[i].menu = requests[i].menu
            /\ q[i].ask = requests[i].ask
            /\ q[i].awaited <=> requests[i].awaited /\ requests[i].menu # m
  BY <1>1, AbandonedParts
<1>3. known' = [o \in Option |-> known[o] \cup Stray(q, o)]
  BY DEF Reckons
<1> HIDE DEF q
<1>4. Orderly(q, call)
  BY <1>1, <1>2 DEF Orderly
<1>5. \A o \in Option : Stray(q, o) \subseteq 0..1
  BY AskParts DEF Stray
<1>6. known' \in [Option -> SUBSET (0..1)]
  BY <1>1, <1>3, <1>5
<1>7. Reckoned(q, known')
  <2>1. SUFFICES ASSUME NEW i \in DOMAIN q, ~q[i].awaited, q[i].ask \in ChooseOption
                 PROVE  q[i].ask.value \in known'[q[i].ask.option]
    BY DEF Reckoned
  <2>2. q[i].ask.option \in Option
    BY <2>1, AskParts
  <2>3. q[i].ask.value \in Stray(q, q[i].ask.option)
    BY <2>1 DEF Stray
  <2>4. QED
    BY <1>3, <2>2, <2>3
<1>8. QED
  BY <1>1, <1>2, <1>3, <1>4, <1>6, <1>7 DEF q

\* A call that is made is the one its menu waits for.
LEMMA CallsStep ==
    ASSUME SettingsInv, NEW m \in Menu, NEW ask \in Ask, Calls(m, ask)
    PROVE  SettingsInv'
<1>1. /\ m \in alive /\ call[m] = NULL /\ (initialized[m] <=> ask # Initialize)
      /\ call' = [call EXCEPT ![m] = ask]
      /\ requests' = Append(requests, Sent(m, ask))
      /\ UNCHANGED <<agentVars, alive, initialized, doubt, known>>
  <2>1. initialized[m] \in BOOLEAN
    BY DEF SettingsInv, MenusTyped
  <2>2. QED
    BY <2>1 DEF Calls, Idle
<1>2. /\ requests \in Seq(Request) /\ Orderly(requests, call)
      /\ Reckoned(requests, known) /\ Doubtful(requests, alive, doubt)
      /\ call \in [Menu -> Ask \cup {NULL}] /\ tries \in [Menu -> 0..RetryCount]
  BY DEF SettingsInv, MenusTyped
<1>3. /\ \A i \in DOMAIN requests : requests[i].awaited => requests[i].menu # m
      /\ \A i \in DOMAIN requests : requests[i].menu \in Menu /\ requests[i].ask \in Ask
  <2>1. \A i \in DOMAIN requests : requests[i] \in Request
    BY <1>2, SMT
  <2>2. \A i \in DOMAIN requests : requests[i].menu \in Menu /\ requests[i].ask \in Ask
    BY <2>1, RequestParts
  <2>3. NULL \notin Ask
    BY SettingsAssumption
  <2>4. QED
    BY <1>1, <1>2, <2>2, <2>3 DEF Orderly
<1>4. /\ call' \in [Menu -> Ask \cup {NULL}] /\ call'[m] = ask
      /\ \A n \in Menu \ {m} : call'[n] = call[n]
  BY <1>1, <1>2
<1>5. tries' \in [Menu -> 0..RetryCount]
  BY <1>2, SMT DEF Calls, RetryCount
<1>6. Orderly(requests, call')
  BY <1>2, <1>3, <1>4 DEF Orderly
<1>7. /\ requests' \in Seq(Request) /\ Orderly(requests', call')
      /\ Reckoned(requests', known) /\ Doubtful(requests', alive, doubt)
  BY <1>1, <1>2, <1>3, <1>4, <1>6, AppendKeeps
<1>8. MenusTyped'
  BY <1>1, <1>4, <1>5, Zenon DEF SettingsInv, MenusTyped, Idle
<1>9. AgentInv'
  BY <1>1, AgentStep DEF SettingsInv
<1>10. QED
  BY <1>1, <1>7, <1>8, <1>9 DEF SettingsInv, SidesAgree, agentVars, configVars, engineVars, userVars

\* A menu that gives up cannot know what comes of its request.
LEMMA GiveUpStep ==
    ASSUME SettingsInv, NEW m \in Menu, GiveUp(m)
    PROVE  SettingsInv'
<1>0. PICK answer : answer = "failed"
  OBVIOUS
<1>1. /\ m \in alive /\ ~Idle(m) /\ Answered(m, "failed", Abandoned(m)) /\ Reckons(m)
      /\ UNCHANGED agentVars /\ UNCHANGED alive
      /\ doubt' = IF Waiting(m) /\ call[m] \in {Initialize, Finalize}
                  THEN doubt \cup {m} ELSE doubt
  BY DEF GiveUp
<1>2. /\ MenusTyped /\ requests \in Seq(Request) /\ Orderly(requests, call)
      /\ Doubtful(requests, alive, doubt) /\ doubt \subseteq alive
      /\ initialized \in [Menu -> BOOLEAN]
      /\ (initialized[m] <=> call[m] # Initialize)
  BY <1>1 DEF SettingsInv, MenusTyped
<1>3. doubt \subseteq doubt' /\ doubt' \subseteq alive
  BY <1>1, <1>2
<1>4. /\ Abandoned(m) \in Seq(Request) /\ Orderly(Abandoned(m), call)
      /\ Reckoned(Abandoned(m), known')
      /\ \A i \in DOMAIN Abandoned(m) :
            Abandoned(m)[i].awaited => Abandoned(m)[i].menu # m
      /\ known' \in [Option -> SUBSET (0..1)]
      /\ \A o \in Option : known[o] \subseteq known'[o]
  BY <1>1, AbandonedKeeps
<1>5. Doubtful(Abandoned(m), alive, doubt')
  <2>1. /\ DOMAIN Abandoned(m) = DOMAIN requests
        /\ \A i \in DOMAIN requests :
              /\ Abandoned(m)[i].menu = requests[i].menu
              /\ Abandoned(m)[i].ask = requests[i].ask
              /\ Abandoned(m)[i].awaited <=>
                    requests[i].awaited /\ requests[i].menu # m
    BY <1>2, AbandonedParts
  <2>2. SUFFICES ASSUME NEW i \in DOMAIN requests,
                        ~(requests[i].awaited /\ requests[i].menu # m),
                        requests[i].ask \in {Initialize, Finalize},
                        requests[i].menu \in alive
                 PROVE  requests[i].menu \in doubt'
    BY <2>1 DEF Doubtful
  <2>3. CASE ~requests[i].awaited
    BY <1>2, <1>3, <2>2, <2>3 DEF Doubtful
  <2>4. CASE requests[i].awaited /\ requests[i].menu = m
    <3>1. Waiting(m)
      BY <2>4 DEF Waiting
    <3>2. call[m] = requests[i].ask
      BY <1>2, <2>4 DEF Orderly
    <3>3. QED
      BY <1>1, <2>2, <2>4, <3>1, <3>2
  <2>5. QED
    BY <2>2, <2>3, <2>4
<1>6. /\ MenusTyped' /\ requests' \in Seq(Request)
      /\ Orderly(requests', call') /\ Reckoned(requests', known')
      /\ Doubtful(requests', alive', doubt')
      /\ \A n \in Menu \ {m} : initialized'[n] = initialized[n]
      /\ call[m] \notin {Initialize, Finalize} => initialized'[m] = initialized[m]
      /\ call[m] = Initialize => (initialized'[m] <=> answer = "ok")
      /\ call[m] = Finalize => (initialized'[m] <=> answer # "ok")
  <2>1. UNCHANGED alive /\ doubt' \subseteq alive
    BY <1>1, <1>3
  <2>2. Answered(m, answer, Abandoned(m))
    BY <1>1, <1>0
  <2>3. PICK left : left = Abandoned(m)
    OBVIOUS
  <2>4. /\ left \in Seq(Request) /\ Answered(m, answer, left)
        /\ Orderly(left, call) /\ Reckoned(left, known') /\ Doubtful(left, alive, doubt')
        /\ \A i \in DOMAIN left : left[i].awaited => left[i].menu # m
    BY <1>4, <1>5, <2>2, <2>3
  <2>5. MenusTyped /\ ~Idle(m)
    BY <1>1, <1>2
  <2>6. QED
    BY <2>1, <2>4, <2>5, AnsweredKeeps
<1>7. answer # "ok"
  BY <1>0
<1>8. \A n \in Menu : initialized'[n] <=> initialized[n]
  BY <1>2, <1>6, <1>7, AskParts, Zenon
<1>9. SidesAgree'
  <2>1. alive \subseteq Menu /\ UNCHANGED <<clients, alive>>
    BY <1>1 DEF SettingsInv, MenusTyped, agentVars, userVars
  <2>2. SidesAgree
    BY DEF SettingsInv
  <2>3. QED
    BY <1>3, <1>8, <2>1, <2>2, Zenon DEF SidesAgree
<1>10. AgentInv'
  BY <1>1, AgentStep DEF SettingsInv
<1>11. UNCHANGED <<up, file, default>>
  BY <1>1 DEF agentVars, configVars, engineVars
<1>12. QED
  BY <1>4, <1>6, <1>9, <1>10, <1>11 DEF SettingsInv

\* A menu that is gone leaves requests nobody waits for.
LEMMA ExitStep ==
    ASSUME SettingsInv, NEW m \in Menu, Exit(m)
    PROVE  SettingsInv'
<1>1. /\ m \in alive /\ alive' = alive \ {m} /\ doubt' = doubt \ {m}
      /\ initialized' = [initialized EXCEPT ![m] = FALSE]
      /\ call' = [call EXCEPT ![m] = NULL] /\ tries' = [tries EXCEPT ![m] = 0]
      /\ requests' = Abandoned(m) /\ Reckons(m) /\ UNCHANGED agentVars
  BY DEF Exit
<1>2. /\ MenusTyped /\ requests \in Seq(Request) /\ Doubtful(requests, alive, doubt)
      /\ SidesAgree
  BY DEF SettingsInv
<1>3. /\ requests' \in Seq(Request) /\ Orderly(requests', call)
      /\ Reckoned(requests', known')
      /\ \A i \in DOMAIN requests' : requests'[i].awaited => requests'[i].menu # m
      /\ known' \in [Option -> SUBSET (0..1)]
      /\ \A o \in Option : known[o] \subseteq known'[o]
  BY <1>1, AbandonedKeeps
<1>4. /\ initialized \in [Menu -> BOOLEAN] /\ call \in [Menu -> Ask \cup {NULL}]
      /\ tries \in [Menu -> 0..RetryCount]
  BY <1>2 DEF MenusTyped
<1>5. /\ initialized' \in [Menu -> BOOLEAN] /\ ~initialized'[m]
      /\ \A n \in Menu \ {m} : initialized'[n] = initialized[n]
  BY <1>1, <1>4
<1>6. /\ call' \in [Menu -> Ask \cup {NULL}] /\ call'[m] = NULL
      /\ \A n \in Menu \ {m} : call'[n] = call[n]
  BY <1>1, <1>4
<1>7. tries' \in [Menu -> 0..RetryCount]
  BY <1>1, <1>4, SMT DEF RetryCount
<1>8. MenusTyped'
  BY <1>1, <1>2, <1>5, <1>6, <1>7, Zenon DEF MenusTyped, Idle
<1>9. Orderly(requests', call')
  <2>1. \A i \in DOMAIN requests' : requests'[i] \in Request
    BY <1>3, SMT
  <2>2. \A i \in DOMAIN requests' : requests'[i].menu \in Menu
    BY <2>1, RequestParts
  <2>3. QED
    BY <1>3, <1>6, <2>2 DEF Orderly
<1>10. Doubtful(requests', alive', doubt')
  <2>1. /\ DOMAIN requests' = DOMAIN requests
        /\ \A i \in DOMAIN requests :
              /\ requests'[i].menu = requests[i].menu
              /\ requests'[i].ask = requests[i].ask
              /\ requests'[i].awaited <=> requests[i].awaited /\ requests[i].menu # m
    BY <1>1, <1>2, AbandonedParts
  <2>2. QED
    BY <1>1, <1>2, <2>1 DEF Doubtful
<1>11. SidesAgree'
  <2>1. alive \subseteq Menu /\ UNCHANGED clients
    BY <1>1, <1>2 DEF MenusTyped, agentVars, userVars
  <2>2. QED
    BY <1>1, <1>2, <1>5, <2>1, Zenon DEF SidesAgree
<1>12. AgentInv'
  BY <1>1, AgentStep DEF SettingsInv
<1>13. UNCHANGED <<up, file, default>>
  BY <1>1 DEF agentVars, configVars, engineVars
<1>14. QED
  BY <1>3, <1>8, <1>9, <1>10, <1>11, <1>12, <1>13 DEF SettingsInv

-----------------------------------------------------------------------------
(* The daemon's side of a step.                                            *)

\* What handling a request does to the registrations and the defaults.
LEMMA HandledParts ==
    ASSUME SettingsInv, up, NEW m \in Menu, NEW ask \in Ask, NEW answer,
           Handled(m, ask, answer)
    PROVE  /\ AgentInv' /\ up'
           /\ ask \in ChooseOption /\ answer = "ok" =>
                 default' = [default EXCEPT ![ask.option] = ask.value]
           /\ ~(ask \in ChooseOption /\ answer = "ok") => default' = default
           /\ \A n \in Menu \ {m} : n \in clients' <=> n \in clients
           /\ ask = Initialize /\ answer = "ok" => m \in clients'
           /\ ask = Initialize /\ answer # "ok" => clients' = clients
           /\ ask = Finalize => answer = "ok" /\ m \notin clients'
           /\ ask \notin {Initialize, Finalize} => clients' = clients
<1>1. AgentInv /\ up
  BY DEF SettingsInv
<1>2. /\ Initialize # Finalize
      /\ \A a \in ChooseOption :
            a \notin {Initialize, Finalize} /\ a.option \in Option /\ a.value \in 0..1
      /\ \A a \in {ListEngines, ReadSetting, AskPlugin} \cup ChooseLanguage \cup ChooseEngine :
            a \notin {Initialize, Finalize} /\ a \notin ChooseOption
      /\ \A a \in ChooseLanguage : a.language \in Language
      /\ \A a \in ChooseEngine : a.engine \in Engine
  BY AskParts
<1>3. UNCHANGED agentVars => AgentInv' /\ up' /\ UNCHANGED <<default, clients>>
  BY <1>1, AgentStep DEF agentVars, engineVars, userVars
<1>4. ~("ok" = "failed") /\ ~("ok" = "no engine")
  OBVIOUS
<1>5. CASE ask = Initialize /\ ServeInitialize(m, answer)
  <2>1. CASE UNCHANGED agentVars /\ answer \in {"no engine", "failed"}
    BY <1>2, <1>3, <1>4, <1>5, <2>1
  <2>2. CASE Connect(m) /\ answer = IF m \in clients' THEN "ok" ELSE "failed"
    <3>1. AgentInv'
      BY <1>1, <2>2, AgentStep DEF AgentNext
    <3>2. up' /\ default' = default
      BY <1>1, <2>2 DEF Connect
    <3>3. clients' = clients \/ clients' = clients \cup {m}
      BY <2>2 DEF Connect, ConnectTo, Registers
    <3>4. answer = "ok" <=> m \in clients'
      BY <1>4, <2>2
    <3>5. QED
      BY <1>2, <1>5, <3>1, <3>2, <3>3, <3>4
  <2>3. QED
    BY <1>5, <2>1, <2>2 DEF ServeInitialize
<1>6. CASE ask = Finalize /\ ServeFinalize(m, answer)
  <2>1. Disconnect(m) /\ answer = "ok"
    BY <1>6 DEF ServeFinalize
  <2>2. AgentInv'
    BY <1>1, <2>1, AgentStep DEF AgentNext
  <2>3. up' /\ default' = default /\ clients' = clients \ {m}
    BY <1>1, <2>1 DEF Disconnect
  <2>4. QED
    BY <1>2, <1>6, <2>1, <2>2, <2>3
<1>7. CASE \/ ask = ListEngines /\ ServeList(m, answer)
           \/ ask = ReadSetting /\ ServeRead(m, answer)
           \/ ask = AskPlugin /\ ServePlugin(m, answer)
           \/ ask \in ChooseLanguage /\ ServeLanguage(m, ask.language, answer)
           \/ ask \in ChooseEngine /\ ServeEngine(m, ask.engine, answer)
  <2>1. ask \notin {Initialize, Finalize} /\ ask \notin ChooseOption
    BY <1>2, <1>7
  <2>2. /\ ask \in ChooseLanguage => ask.language \in Language
        /\ ask \in ChooseEngine => ask.engine \in Engine
    BY <1>2
  <2>3. \/ UNCHANGED agentVars \/ GetEngineList
        \/ \E l \in Language : SetLanguage(l)
        \/ \E e \in Engine : SetEngine(e)
    BY <1>7, <2>2 DEF ServeList, ServeRead, ServePlugin, ServeLanguage, ServeEngine
  <2>4. AgentInv'
    BY <1>1, <2>3, AgentStep DEF AgentNext
  <2>5. up' /\ UNCHANGED <<default, clients>>
    BY <1>1, <1>3, <2>3 DEF GetEngineList, SetLanguage, SetEngine, userVars
  <2>6. QED
    BY <2>1, <2>4, <2>5
<1>8. CASE ask \in ChooseOption /\ ServeOption(m, ask.option, ask.value, answer)
  <2>1. ask \notin {Initialize, Finalize} /\ ask.option \in Option /\ ask.value \in 0..1
    BY <1>2, <1>8
  <2>2. CASE answer = "ok" /\ SetOption(ask.option, ask.value)
    <3>1. AgentInv'
      BY <1>1, <2>1, <2>2, AgentStep DEF AgentNext
    <3>2. up' /\ clients' = clients /\ default' = [default EXCEPT ![ask.option] = ask.value]
      BY <1>1, <2>2 DEF SetOption, userVars
    <3>3. QED
      BY <1>8, <2>1, <2>2, <3>1, <3>2
  <2>3. CASE answer = "failed" /\ UNCHANGED agentVars
    BY <1>3, <1>4, <2>1, <2>3
  <2>4. QED
    BY <1>8, <2>2, <2>3 DEF ServeOption
<1>9. QED
  BY <1>5, <1>6, <1>7, <1>8 DEF Handled

\* A daemon that runs has in sttd.conf what it works with.
LEMMA RunningFile ==
    ASSUME AgentInv, up
    PROVE  file # NULL /\ file.options = default
<1>1. conf \in Config /\ file = conf /\ file.options = default
  BY DEF AgentInv, AgentTypeOK, SettingsAreKept
<1>2. NULL \notin Config
  BY EngineAssumption
<1>3. QED
  BY <1>1, <1>2

\* What the menus reckon with after a request: the default it set is in it, and
\* so is what requests that nobody waits for may still set.
LEMMA LearnedKeeps ==
    ASSUME SettingsInv, up, requests # <<>>, NEW answer,
           Handled(Head(requests).menu, Head(requests).ask, answer),
           Learned(Head(requests), answer)
    PROVE  /\ known' \in [Option -> SUBSET (0..1)]
           /\ Reckoned(Tail(requests), known')
           /\ \A o \in Option : default'[o] \in known'[o]
<1> DEFINE r == Head(requests)
           q == Tail(requests)
<1>1. /\ requests \in Seq(Request) /\ Orderly(requests, call)
      /\ Reckoned(requests, known) /\ Doubtful(requests, alive, doubt)
      /\ known \in [Option -> SUBSET (0..1)]
      /\ \A o \in Option : default[o] \in known[o]
      /\ default \in Values
  BY DEF SettingsInv, AgentInv, AgentTypeOK
<1>2. /\ r \in Request /\ r = requests[1] /\ 1 \in DOMAIN requests
      /\ Reckoned(q, known)
  BY <1>1, TailParts, TailKeeps
<1>3. r.menu \in Menu /\ r.ask \in Ask /\ r.awaited \in BOOLEAN
  BY <1>2, RequestParts
<1>4. r.ask \in ChooseOption => r.ask.option \in Option /\ r.ask.value \in 0..1
  BY AskParts
<1>5. /\ r.ask \in ChooseOption /\ answer = "ok" =>
            default' = [default EXCEPT ![r.ask.option] = r.ask.value]
      /\ ~(r.ask \in ChooseOption /\ answer = "ok") => default' = default
  BY <1>3, HandledParts
<1>6. known' = IF r.awaited /\ answer = "ok" /\ r.ask \in ChooseOption
               THEN [known EXCEPT ![r.ask.option] =
                        {r.ask.value} \cup Stray(q, r.ask.option)]
               ELSE known
  BY DEF Learned
<1>7. \A o \in Option : Stray(q, o) \subseteq 0..1
  BY AskParts DEF Stray
<1>8. \A i \in DOMAIN q : ~q[i].awaited /\ q[i].ask \in ChooseOption =>
         /\ q[i].ask.option \in Option
         /\ q[i].ask.value \in Stray(q, q[i].ask.option)
  BY AskParts DEF Stray
<1>9. ~r.awaited /\ r.ask \in ChooseOption => r.ask.value \in known[r.ask.option]
  BY <1>1, <1>2 DEF Reckoned
<1> HIDE DEF r, q
<1>10. CASE r.awaited /\ answer = "ok" /\ r.ask \in ChooseOption
  <2>1. /\ known' \in [Option -> SUBSET (0..1)]
        /\ known'[r.ask.option] = {r.ask.value} \cup Stray(q, r.ask.option)
        /\ \A o \in Option \ {r.ask.option} : known'[o] = known[o]
    <3>1. {r.ask.value} \cup Stray(q, r.ask.option) \in SUBSET (0..1)
      BY <1>4, <1>7, <1>10
    <3>2. known' = [known EXCEPT ![r.ask.option] =
                       {r.ask.value} \cup Stray(q, r.ask.option)]
      BY <1>6, <1>10
    <3>3. QED
      BY <1>1, <1>4, <1>10, <3>1, <3>2
  <2>2. /\ default'[r.ask.option] = r.ask.value
        /\ \A o \in Option \ {r.ask.option} : default'[o] = default[o]
    BY <1>1, <1>4, <1>5, <1>10 DEF Values
  <2>3. Reckoned(q, known')
    BY <1>2, <1>8, <2>1 DEF Reckoned
  <2>4. QED
    BY <1>1, <2>1, <2>2, <2>3 DEF q
<1>11. CASE ~(r.awaited /\ answer = "ok" /\ r.ask \in ChooseOption)
  <2>1. known' = known
    BY <1>6, <1>11
  <2>2. \A o \in Option : default'[o] \in known[o]
    <3>1. CASE r.ask \in ChooseOption /\ answer = "ok"
      <4>1. r.ask.value \in known[r.ask.option] /\ r.ask.option \in Option
        BY <1>4, <1>9, <1>11, <3>1
      <4>2. /\ default'[r.ask.option] = r.ask.value
            /\ \A o \in Option \ {r.ask.option} : default'[o] = default[o]
        BY <1>1, <1>5, <3>1, <4>1 DEF Values
      <4>3. QED
        BY <1>1, <4>1, <4>2
    <3>2. CASE ~(r.ask \in ChooseOption /\ answer = "ok")
      BY <1>1, <1>5, <3>2
    <3>3. QED
      BY <3>1, <3>2
  <2>3. QED
    BY <1>1, <1>2, <2>1, <2>2 DEF q
<1>12. QED
  BY <1>10, <1>11

\* The daemon serves a request, and its menu learns of it if it waits.
LEMMA ServeStep == SettingsInv /\ Serve => SettingsInv'
<1>1. SUFFICES ASSUME SettingsInv, Serve PROVE SettingsInv'
  OBVIOUS
<1> DEFINE q == Tail(requests)
<1>2. PICK r : r = Head(requests)
  OBVIOUS
<1>3. PICK answer \in {"ok", "failed", "no engine"} :
        /\ Handled(r.menu, r.ask, answer)
        /\ Learned(r, answer)
        /\ \/ /\ r.awaited
              /\ Answered(r.menu, answer, q)
              /\ doubt' = IF answer = "ok" /\ r.ask \in {Initialize, Finalize}
                          THEN doubt \ {r.menu} ELSE doubt
           \/ /\ ~r.awaited
              /\ requests' = q
              /\ UNCHANGED <<initialized, call, tries, doubt>>
  BY <1>1, <1>2 DEF Serve
<1>4. up /\ requests # <<>> /\ UNCHANGED alive
  BY <1>1 DEF Serve
<1>5. /\ requests \in Seq(Request) /\ Orderly(requests, call) /\ Reckoned(requests, known)
      /\ Doubtful(requests, alive, doubt) /\ MenusTyped /\ SidesAgree
      /\ alive \subseteq Menu /\ doubt \subseteq alive
  BY <1>1 DEF SettingsInv, MenusTyped
<1>6. /\ r \in Request /\ r = requests[1] /\ 1 \in DOMAIN requests
      /\ q \in Seq(Request)
      /\ Orderly(q, call) /\ Doubtful(q, alive, doubt)
      /\ r.awaited => \A i \in DOMAIN q : q[i].menu # r.menu
  BY <1>2, <1>4, <1>5, TailParts, TailKeeps
<1>7. r.menu \in Menu /\ r.ask \in Ask
  BY <1>6, RequestParts
<1>8. PICK m \in Menu : m = r.menu
  BY <1>7
<1>9. /\ known' \in [Option -> SUBSET (0..1)] /\ Reckoned(q, known')
      /\ \A o \in Option : default'[o] \in known'[o]
  BY <1>1, <1>2, <1>3, <1>4, LearnedKeeps
<1>10. /\ AgentInv' /\ up'
       /\ \A n \in Menu \ {m} : n \in clients' <=> n \in clients
       /\ r.ask = Initialize /\ answer = "ok" => m \in clients'
       /\ r.ask = Initialize /\ answer # "ok" => clients' = clients
       /\ r.ask = Finalize => answer = "ok" /\ m \notin clients'
       /\ r.ask \notin {Initialize, Finalize} => clients' = clients
  BY <1>1, <1>3, <1>4, <1>7, <1>8, HandledParts
<1>11. file' # NULL /\ file'.options = default'
  <2>1. AgentInv /\ up => file # NULL /\ file.options = default
    BY RunningFile
  <2>2. (AgentInv /\ up => file # NULL /\ file.options = default)'
    BY <2>1, RunningFile, PTL
  <2>3. QED
    BY <1>10, <2>2
<1>12. SUFFICES /\ MenusTyped' /\ requests' \in Seq(Request)
                /\ Orderly(requests', call') /\ Reckoned(requests', known')
                /\ Doubtful(requests', alive', doubt') /\ SidesAgree'
  BY <1>9, <1>10, <1>11 DEF SettingsInv
<1>13. CASE /\ r.awaited /\ Answered(m, answer, q)
            /\ doubt' = IF answer = "ok" /\ r.ask \in {Initialize, Finalize}
                        THEN doubt \ {m} ELSE doubt
  <2>1. call[m] = r.ask
    BY <1>5, <1>6, <1>8, <1>13 DEF Orderly
  <2>2. ~Idle(m)
    BY <1>7, <2>1, SettingsAssumption DEF Idle
  <2>3. doubt' \subseteq alive /\ doubt \ {m} \subseteq doubt'
    BY <1>5, <1>13
  <2>4. \A i \in DOMAIN q : q[i].menu # m
    BY <1>6, <1>8, <1>13
  <2>5. Doubtful(q, alive, doubt')
    BY <1>6, <2>3, <2>4 DEF Doubtful
  <2>6. /\ MenusTyped' /\ requests' \in Seq(Request)
        /\ Orderly(requests', call') /\ Reckoned(requests', known')
        /\ Doubtful(requests', alive', doubt')
        /\ \A n \in Menu \ {m} : initialized'[n] = initialized[n]
        /\ call[m] \notin {Initialize, Finalize} => initialized'[m] = initialized[m]
        /\ call[m] = Initialize => (initialized'[m] <=> answer = "ok")
        /\ call[m] = Finalize => (initialized'[m] <=> answer # "ok")
    <3>1. PICK left : left = q
      OBVIOUS
    <3>2. /\ left \in Seq(Request) /\ Answered(m, answer, left)
          /\ Orderly(left, call) /\ Reckoned(left, known') /\ Doubtful(left, alive, doubt')
          /\ \A i \in DOMAIN left : left[i].awaited => left[i].menu # m
      BY <1>6, <1>9, <1>13, <2>4, <2>5, <3>1
    <3>3. QED
      BY <1>4, <1>5, <2>2, <2>3, <3>2, AnsweredKeeps
  <2>7. m \in alive /\ (initialized[m] <=> call[m] # Initialize)
    BY <1>5, <2>2 DEF MenusTyped
  <2>8. ASSUME NEW n \in alive \ doubt' PROVE initialized'[n] <=> n \in clients'
    <3>1. CASE n # m
      <4>1. n \in Menu \ {m} /\ n \in alive \ doubt
        BY <1>5, <2>3, <2>8, <3>1
      <4>2. QED
        BY <1>5, <1>10, <2>6, <4>1 DEF SidesAgree
    <3>2. CASE n = m /\ r.ask = Initialize /\ answer = "ok"
      BY <1>10, <2>1, <2>6, <3>2
    <3>3. CASE n = m /\ r.ask = Initialize /\ answer # "ok"
      <4>1. m \in alive \ doubt /\ ~initialized[m]
        BY <1>13, <2>1, <2>7, <2>8, <3>3
      <4>2. m \notin clients
        BY <1>5, <4>1 DEF SidesAgree
      <4>3. QED
        BY <1>10, <2>1, <2>6, <3>3, <4>2
    <3>4. CASE n = m /\ r.ask = Finalize
      BY <1>10, <2>1, <2>6, <3>4
    <3>5. CASE n = m /\ r.ask \notin {Initialize, Finalize}
      <4>1. m \in alive \ doubt
        BY <1>13, <2>8, <3>5
      <4>2. QED
        BY <1>5, <1>10, <2>1, <2>6, <3>5, <4>1 DEF SidesAgree
    <3>6. QED
      BY <3>1, <3>2, <3>3, <3>4, <3>5
  <2>9. SidesAgree'
    BY <1>4, <2>8 DEF SidesAgree
  <2>10. QED
    BY <2>6, <2>9
<1>14. CASE ~r.awaited /\ requests' = q /\ UNCHANGED <<initialized, call, tries, doubt>>
  <2>1. MenusTyped'
    BY <1>4, <1>5, <1>14 DEF MenusTyped, Idle
  <2>2. r.ask \in {Initialize, Finalize} /\ m \in alive => m \in doubt
    BY <1>5, <1>6, <1>8, <1>14 DEF Doubtful
  <2>3. ASSUME NEW n \in alive \ doubt PROVE n \in clients' <=> n \in clients
    <3>1. CASE n # m
      BY <1>5, <1>10, <2>3, <3>1
    <3>2. CASE n = m
      BY <1>10, <2>2, <2>3, <3>2
    <3>3. QED
      BY <3>1, <3>2
  <2>4. SidesAgree'
    BY <1>4, <1>5, <1>14, <2>3 DEF SidesAgree
  <2>5. QED
    BY <1>4, <1>6, <1>9, <1>14, <2>1, <2>4
<1>15. QED
  BY <1>3, <1>8, <1>13, <1>14

\* A message that is misread is one less in the queue.
LEMMA MisreadStep == SettingsInv /\ Misread => SettingsInv'
<1>1. SUFFICES ASSUME SettingsInv, Misread PROVE SettingsInv'
  OBVIOUS
<1>2. /\ requests' = Tail(requests) /\ UNCHANGED <<agentVars, menuVars, known>>
      /\ requests \in Seq(Request) /\ Orderly(requests, call)
      /\ Reckoned(requests, known) /\ Doubtful(requests, alive, doubt)
  BY <1>1 DEF Misread, SettingsInv
<1>3. requests # <<>>
  BY <1>1, <1>2, SMT DEF Misread
<1>4. /\ requests' \in Seq(Request) /\ Orderly(requests', call)
      /\ Reckoned(requests', known) /\ Doubtful(requests', alive, doubt)
  BY <1>2, <1>3, TailParts, TailKeeps
<1>5. AgentInv'
  BY <1>1, <1>2, AgentStep DEF SettingsInv
<1>6. QED
  BY <1>1, <1>2, <1>4, <1>5 DEF SettingsInv, MenusTyped, Idle, SidesAgree, menuVars,
     agentVars, configVars, engineVars, userVars

\* A daemon that starts takes its options from sttd.conf.
LEMMA DaemonStartsStep == SettingsInv /\ DaemonStarts => SettingsInv'
<1>1. SUFFICES ASSUME SettingsInv, Boot, UNCHANGED <<menuVars, requests, known>>
               PROVE  SettingsInv'
  BY DEF DaemonStarts
<1>2. AgentInv' /\ up'
  BY <1>1, AgentStep DEF SettingsInv, AgentNext, Boot
<1>3. file # NULL /\ default' = file.options /\ clients' = clients
  BY <1>1 DEF Boot, userVars
<1>4. (AgentInv /\ up => file # NULL /\ file.options = default)'
  BY RunningFile, PTL
<1>5. file' # NULL /\ file'.options = default'
  BY <1>2, <1>4
<1>6. QED
  BY <1>1, <1>2, <1>3, <1>5 DEF SettingsInv, MenusTyped, Idle, SidesAgree, menuVars

\* One that cannot leaves the factory's options, which the menus reckon with.
LEMMA DaemonFailsStep == SettingsInv /\ DaemonFails => SettingsInv'
<1>1. SUFFICES ASSUME SettingsInv, BootFails, requests' = <<>>, UNCHANGED <<menuVars, known>>
               PROVE  SettingsInv'
  BY DEF DaemonFails
<1>2. AgentInv'
  BY <1>1, AgentStep DEF SettingsInv, AgentNext
<1>3. /\ ~up /\ file = NULL /\ file' = BlankConfig
      /\ UNCHANGED <<up, default, clients>>
  BY <1>1 DEF BootFails, engineVars, userVars
<1>4. file' # NULL /\ file'.options = Factory
  <2>1. BlankConfig.options = Factory
    BY DEF BlankConfig
  <2>2. BlankConfig \in Config /\ NULL \notin Config
    <3>1. Factory \in Values
      BY SMT DEF Factory, Values
    <3>2. QED
      BY <3>1, EngineAssumption, SMT DEF BlankConfig, Config
  <2>3. QED
    BY <1>3, <2>1, <2>2
<1>5. /\ requests' \in Seq(Request) /\ Orderly(requests', call')
      /\ Reckoned(requests', known') /\ Doubtful(requests', alive', doubt')
  <2>1. DOMAIN <<>> = {} /\ <<>> \in Seq(Request)
    BY SMT
  <2>2. QED
    BY <1>1, <2>1 DEF Orderly, Reckoned, Doubtful
<1>6. QED
  BY <1>1, <1>2, <1>3, <1>4, <1>5 DEF SettingsInv, MenusTyped, Idle, SidesAgree, menuVars

\* After the death of the daemon every menu is in doubt.
LEMMA DaemonDiesStep == SettingsInv /\ DaemonDies => SettingsInv'
<1>1. SUFFICES ASSUME SettingsInv, DaemonDies PROVE SettingsInv'
  OBVIOUS
<1>2. /\ requests' = <<>> /\ doubt' = alive
      /\ UNCHANGED <<alive, initialized, call, tries>>
      /\ \/ Crash /\ UNCHANGED known
         \/ /\ CrashInSave
            /\ known' = [o \in Option |-> known[o] \cup {Factory[o]}]
  BY <1>1 DEF DaemonDies
<1>3. AgentInv' /\ ~up' /\ up
  BY <1>1, <1>2, AgentStep DEF SettingsInv, AgentNext, Crash, CrashInSave, Dies
<1>4. file # NULL
  BY <1>1, <1>3, RunningFile DEF SettingsInv
<1>5. /\ requests' \in Seq(Request) /\ Orderly(requests', call')
      /\ Reckoned(requests', known') /\ Doubtful(requests', alive', doubt')
  <2>1. DOMAIN <<>> = {} /\ <<>> \in Seq(Request)
    BY SMT
  <2>2. QED
    BY <1>2, <2>1 DEF Orderly, Reckoned, Doubtful
<1>6. MenusTyped' /\ SidesAgree'
  BY <1>1, <1>2 DEF SettingsInv, MenusTyped, Idle, SidesAgree
<1>7. known \in [Option -> SUBSET (0..1)]
  BY <1>1 DEF SettingsInv
<1>8. CASE Crash /\ UNCHANGED known
  BY <1>1, <1>3, <1>4, <1>5, <1>6, <1>8 DEF SettingsInv, Crash
<1>9. CASE CrashInSave /\ known' = [o \in Option |-> known[o] \cup {Factory[o]}]
  <2>1. file' = NULL
    BY <1>9 DEF CrashInSave
  <2>2. \A o \in Option : Factory[o] \in 0..1
    BY SMT DEF Factory
  <2>3. /\ known' \in [Option -> SUBSET (0..1)]
        /\ \A o \in Option : Factory[o] \in known'[o]
    BY <1>7, <1>9, <2>2
  <2>4. QED
    BY <1>3, <1>5, <1>6, <2>1, <2>3 DEF SettingsInv
<1>10. QED
  BY <1>2, <1>8, <1>9

-----------------------------------------------------------------------------
(* What holds in every reachable state.                                    *)

\* The menus start with a daemon that is down.
LEMMA SettingsInitial == SettingsInit => SettingsInv
<1>1. SUFFICES ASSUME SettingsInit PROVE SettingsInv
  OBVIOUS
<1>2. AgentInv
  BY <1>1, AgentInitial DEF SettingsInit
<1>3. \A o \in Option : Factory[o] \in 0..1
  BY SMT DEF Factory
<1>4. known \in [Option -> SUBSET (0..1)] /\ \A o \in Option : known[o] = {Factory[o]}
  BY <1>1, <1>3 DEF SettingsInit
<1>5. ~up /\ clients = {} /\ file.options = Factory
  BY <1>1 DEF SettingsInit, AgentInit
<1>6. /\ requests \in Seq(Request) /\ Orderly(requests, call)
      /\ Reckoned(requests, known) /\ Doubtful(requests, alive, doubt)
  <2>1. DOMAIN <<>> = {} /\ <<>> \in Seq(Request)
    BY SMT
  <2>2. QED
    BY <1>1, <2>1 DEF SettingsInit, Orderly, Reckoned, Doubtful
<1>7. 0 \in 0..RetryCount
  BY SMT DEF RetryCount
<1>8. MenusTyped
  BY <1>1, <1>7 DEF SettingsInit, MenusTyped, Idle
<1>9. SidesAgree
  BY <1>1, <1>5 DEF SettingsInit, SidesAgree
<1>10. QED
  BY <1>2, <1>4, <1>5, <1>6, <1>8, <1>9 DEF SettingsInv

\* Every step keeps the invariant.
LEMMA SettingsStep == SettingsInv /\ [SettingsNext]_settingsVars => SettingsInv'
<1>1. SUFFICES ASSUME SettingsInv, [SettingsNext]_settingsVars PROVE SettingsInv'
  OBVIOUS
<1>2. ASSUME NEW m \in Menu, GiveUp(m) \/ Exit(m) PROVE SettingsInv'
  BY <1>1, <1>2, GiveUpStep, ExitStep
<1>3. ASSUME NEW m \in Menu, NEW ask \in {Initialize, Finalize} \cup Wishes[m], Calls(m, ask)
      PROVE  SettingsInv'
  <2>1. ask \in Ask
    BY <1>3, SettingsAssumption DEF Ask
  <2>2. QED
    BY <1>1, <1>3, <2>1, CallsStep
<1>4. CASE Serve \/ Misread
  BY <1>1, <1>4, ServeStep, MisreadStep
<1>5. CASE DaemonStarts \/ DaemonFails \/ DaemonDies
  BY <1>1, <1>5, DaemonStartsStep, DaemonFailsStep, DaemonDiesStep
<1>6. CASE UNCHANGED settingsVars
  <2>1. UNCHANGED agentVars /\ UNCHANGED menuVars /\ UNCHANGED requests /\ UNCHANGED known
    BY <1>6 DEF settingsVars
  <2>2. AgentInv'
    BY <1>1, <2>1, AgentStep DEF SettingsInv
  <2>3. QED
    BY <1>1, <2>1, <2>2 DEF SettingsInv, MenusTyped, Idle, SidesAgree, menuVars,
       agentVars, configVars, engineVars, userVars
<1>7. QED
  BY <1>1, <1>2, <1>3, <1>4, <1>5, <1>6 DEF SettingsNext

\* The invariant is one of the specification.
LEMMA SettingsInvHolds == SettingsSpec => []SettingsInv
BY SettingsInitial, SettingsStep, PTL DEF SettingsSpec

\* A menu waits for at most one request, and for the one it sent, however many
\* of its requests are on their way.
THEOREM SettingsTyped == SettingsSpec => []SettingsTypeOK
<1>1. SettingsInv => SettingsTypeOK
  <2>1. SUFFICES ASSUME SettingsInv PROVE SettingsTypeOK
    OBVIOUS
  <2>2. MenusTyped /\ requests \in Seq(Request) /\ Orderly(requests, call)
    BY <2>1 DEF SettingsInv
  <2>3. ASSUME NEW i \in DOMAIN requests, requests[i].awaited,
               NEW j \in DOMAIN requests,
               requests[j].menu = requests[i].menu, requests[j].awaited
        PROVE  i = j
    <3>1. ~(j > i) /\ ~(i > j)
      BY <2>2, <2>3 DEF Orderly
    <3>2. i \in Nat /\ j \in Nat
      BY <2>2, SMT
    <3>3. QED
      BY <3>1, <3>2, SMT
  <2>4. \A m \in Menu : ~Idle(m) => initialized[m] = (call[m] # Initialize)
    <3>1. initialized \in [Menu -> BOOLEAN]
      BY <2>2 DEF MenusTyped
    <3>2. QED
      BY <2>2, <3>1 DEF MenusTyped
  <2>5. QED
    BY <2>1, <2>2, <2>3, <2>4 DEF SettingsTypeOK, SettingsInv, MenusTyped, Orderly
<1>2. QED
  BY <1>1, SettingsInvHolds, PTL

\* What a menu was told it had set is what the daemon works with and comes up
\* with, through late requests, restarts and changes of engine.
THEOREM AckedSettingAlwaysHolds == SettingsSpec => []AckedSettingHolds
<1>1. SettingsInv => AckedSettingHolds
  BY DEF SettingsInv, AckedSettingHolds
<1>2. QED
  BY <1>1, SettingsInvHolds, PTL

\* A menu and the daemon disagree about their connection only after the death
\* of the daemon, or a call that was given up and served nevertheless.
THEOREM SidesAlwaysAgree == SettingsSpec => []SidesAgree
<1>1. SettingsInv => SidesAgree
  BY DEF SettingsInv
<1>2. QED
  BY <1>1, SettingsInvHolds, PTL

-----------------------------------------------------------------------------
(* The engine agent behind the menus.                                      *)

\* What a request has the daemon do is a step of SttEngineAgent.
LEMMA HandledIsAgentStep ==
    ASSUME NEW m \in Menu, NEW ask \in Ask, NEW answer, Handled(m, ask, answer)
    PROVE  [AgentNext]_agentVars
<1>1. /\ \A a \in ChooseOption : a.option \in Option /\ a.value \in 0..1
      /\ \A a \in ChooseLanguage : a.language \in Language
      /\ \A a \in ChooseEngine : a.engine \in Engine
  BY AskParts
<1>2. CASE ServeInitialize(m, answer)
  BY <1>2 DEF ServeInitialize, AgentNext
<1>3. CASE ServeFinalize(m, answer)
  BY <1>3 DEF ServeFinalize, AgentNext
<1>4. CASE ServeList(m, answer) \/ ServeRead(m, answer) \/ ServePlugin(m, answer)
  BY <1>4 DEF ServeList, ServeRead, ServePlugin, AgentNext
<1>5. CASE ask \in ChooseOption /\ ServeOption(m, ask.option, ask.value, answer)
  BY <1>1, <1>5 DEF ServeOption, AgentNext
<1>6. CASE ask \in ChooseLanguage /\ ServeLanguage(m, ask.language, answer)
  BY <1>1, <1>6 DEF ServeLanguage, AgentNext
<1>7. CASE ask \in ChooseEngine /\ ServeEngine(m, ask.engine, answer)
  BY <1>1, <1>7 DEF ServeEngine, AgentNext
<1>8. QED
  BY <1>2, <1>3, <1>4, <1>5, <1>6, <1>7 DEF Handled

\* So is every other step, or it leaves the agent alone.
LEMMA SettingsStepIsAgentStep ==
    ASSUME SettingsInv, [SettingsNext]_settingsVars
    PROVE  [AgentNext]_agentVars
<1>1. CASE Serve
  <2>1. PICK answer : Handled(Head(requests).menu, Head(requests).ask, answer)
    BY <1>1 DEF Serve
  <2>2. requests \in Seq(Request) /\ requests # <<>>
    BY <1>1 DEF Serve, SettingsInv
  <2>3. Head(requests) \in Request
    BY <2>2, SMT
  <2>4. Head(requests).menu \in Menu /\ Head(requests).ask \in Ask
    BY <2>3, RequestParts
  <2>5. QED
    BY <2>1, <2>4, HandledIsAgentStep
<1>2. ASSUME NEW m \in Menu, NEW ask, Calls(m, ask) \/ GiveUp(m) \/ Exit(m)
      PROVE  UNCHANGED agentVars
  BY <1>2 DEF Calls, GiveUp, Exit
<1>3. CASE Misread \/ UNCHANGED settingsVars
  BY <1>3 DEF Misread, settingsVars
<1>4. CASE DaemonStarts \/ DaemonFails \/ DaemonDies
  BY <1>4 DEF DaemonStarts, DaemonFails, DaemonDies, AgentNext
<1>5. QED
  BY <1>1, <1>2, <1>3, <1>4 DEF SettingsNext

\* Menus that repeat requests, give them up, are killed, and have them served
\* late or by another daemon than they were sent to, make the engine agent do
\* nothing that SttEngineAgent does not allow.
THEOREM AgentDriven == SettingsSpec => AgentSpec
<1>1. SettingsInit => AgentInit
  BY DEF SettingsInit
<1>2. SettingsInv /\ [SettingsNext]_settingsVars => [AgentNext]_agentVars
  BY SettingsStepIsAgentStep
<1>3. QED
  BY <1>1, <1>2, SettingsInvHolds, PTL DEF SettingsSpec, AgentSpec

\* So the one engine is there for them as SttEngineService promises, and no
\* setting, language or default is lost on the way.
THEOREM MenusShareEngine ==
    SettingsSpec => /\ ProvidesEngine
                    /\ [](SettingsAreKept /\ LanguageIsSpoken)
<1>1. AgentInv => SettingsAreKept /\ LanguageIsSpoken
  BY DEF AgentInv
<1>2. QED
  BY <1>1, AgentDriven, EngineProvidedAsPromised, AgentInvHolds, PTL
=============================================================================
