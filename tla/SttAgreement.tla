---------------------------- MODULE SttAgreement ----------------------------
(***************************************************************************)
(* What an application takes its handle for, and what the daemon takes its *)
(* session for: SttSystem with a history of who has lost track.            *)
(*                                                                         *)
(* The two states are kept on both sides of D-Bus (client/stt.c and        *)
(* server/sttd_client_data.c) and never compared, but for a session that   *)
(* records.  An application is in doubt from when an answer, a question or *)
(* a message did not arrive until the daemon lets it begin anew.           *)
(***************************************************************************)
EXTENDS SttSystem

VARIABLE
    doubt       \* applications whose handle may be wrong about their session

agreementVars == <<systemVars, doubt>>

\* A request was given up which the daemon may serve all the same.
GivesUpRequest(u) == GiveUp(u) /\ call[u] # "hello"

\* The daemon takes the application for dead, or does not tell it of a stop.
IsGivenUp(u) == DaemonGivesUp /\ blocked.uid = u

\* sttd_server_stop makes the session READY although it reports a failure.
StopFails(u) ==
    /\ state[u] = "recording" /\ state'[u] = "ready"
    /\ requests' = requests \/ Head(requests).op = "stop"

\* The engine succeeds without a text.
EndsInSilence(u) ==
    EngineResult /\ job = u /\ state[u] = "processing" /\ inbox' = inbox

LosesTrack(u) ==
    \/ GivesUpRequest(u) \/ IsGivenUp(u) \/ MisreadMessage(u)
    \/ StopFails(u) \/ EndsInSilence(u)

\* The application waits for its session to begin, and nothing it was told
\* before is still to be read.
BeginsAnew(u) ==
    /\ call[u] = "initialize" /\ call'[u] = "none"
    /\ state[u] = "absent" /\ state'[u] = "ready"
    /\ inbox[u] = <<>>

AgreementInit == SystemInit /\ doubt = {}

AgreementNext ==
    /\ SystemNext
    /\ doubt' = {u \in Uid :
          /\ handle'[u] # "dead"
          /\ LosesTrack(u) \/ (u \in doubt /\ ~BeginsAnew(u))}

AgreementSpec == AgreementInit /\ [][AgreementNext]_agreementVars

FairAgreementSpec == AgreementSpec /\ SystemFairness

-----------------------------------------------------------------------------

Agrees(h, s) == IF h \in {"created", "destroyed"} THEN s = "absent" ELSE s = h

\* A handle is what its session is, unless a message that says so is unread or
\* its application has lost track: requests and messages of two that block on
\* each other, time-outs, silence and other applications do not part them.
SessionsAgree ==
    \A u \in Uid \ doubt :
        handle[u] # "dead" /\ inbox[u] = <<>> => Agrees(handle[u], state[u])

\* stt.h:375 "@post If this function is called, the STT state will be
\* #STT_STATE_READY": an application that prepares again and again gets there.
\* Only a session that an initialize has left with the daemon after the
\* application gave it up keeps it from that: initialize of a uid that is
\* registered is refused.
PrepareArrives ==
    \A u \in Uid : []<><<Prepare(u)>>_agreementVars =>
        []<>(handle[u] # "created" \/ u \in doubt \cap Registered)
=============================================================================
