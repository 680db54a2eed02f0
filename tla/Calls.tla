--------------------------------- MODULE Calls ---------------------------------
(***************************************************************************)
(* internal/server/callbridge.go: phone calls placed from the stage.  The  *)
(* handler that dials, the carrier's webhooks and its media stream, the AI *)
(* session, the goodbye and the duration cap each end the call when they   *)
(* see it end; endCall does it once, and then closes what is connected.    *)
(* The carrier answers in its own time: a call may be picked up, or be     *)
(* over, before the handler has put it in the table.                       *)
(***************************************************************************)
EXTENDS Naturals, FiniteSets

CONSTANTS Call, MaxConcurrentCalls

ASSUME CallsAssumption == MaxConcurrentCalls \in Nat

VARIABLES dialling,   \* of each call: what handleCall has done
          line,       \* of each call, at the carrier
          listed,     \* calls in the table, by their call control id
          ending,     \* of each call: whether endCall has marked it as closed, has
                      \* closed the carrier's stream, and has done all
          mediaConn,  \* of each call: the carrier's WebSocket
          aiConn,     \* of each call: the WebSocket of the AI session
          wrapUp,     \* of each call: none, given (finish_call) and reported, or late
          reports,    \* of each call
          late        \* history: calls checked while another was, and calls whose
                      \* stream, or AI session, was being set up as endCall looked

callVars == <<dialling, line, listed, ending, mediaConn, aiConn, wrapUp, reports, late>>

CallsInit ==
  /\ dialling = [c \in Call |-> "no"] /\ line = [c \in Call |-> "none"]
  /\ listed = {} /\ ending = [c \in Call |-> "no"]
  /\ mediaConn = [c \in Call |-> "none"] /\ aiConn = [c \in Call |-> "none"]
  /\ wrapUp = [c \in Call |-> "none"] /\ reports = [c \in Call |-> 0]
  /\ late = [checked |-> {}, stream |-> {}, session |-> {}]

--------------------------------------------------------------------------------
\* handleCall: activeCalls, the request to the carrier, the table.

CheckCap(c) ==
  /\ dialling[c] = "no" /\ Cardinality(listed) < MaxConcurrentCalls
  /\ dialling' = [dialling EXCEPT ![c] = "checked"]
  /\ late' = IF \E d \in Call \ {c} : dialling[d] \in {"checked", "dialled"}
               THEN [late EXCEPT !.checked = @ \cup {c}] ELSE late
  /\ UNCHANGED <<line, listed, ending, mediaConn, aiConn, wrapUp, reports>>

\* Or the carrier refuses.
DialCall(c) ==
  /\ dialling[c] = "checked"
  /\ \/ /\ dialling' = [dialling EXCEPT ![c] = "dialled"]
        /\ line' = [line EXCEPT ![c] = "ringing"]
     \/ dialling' = [dialling EXCEPT ![c] = "failed"] /\ UNCHANGED line
  /\ UNCHANGED <<listed, ending, mediaConn, aiConn, wrapUp, reports, late>>

\* Or the answer is lost: the phone rings and nobody knows the call.
ListCall(c) ==
  /\ dialling[c] = "dialled"
  /\ \/ dialling' = [dialling EXCEPT ![c] = "listed"] /\ listed' = listed \cup {c}
     \/ dialling' = [dialling EXCEPT ![c] = "failed"] /\ UNCHANGED listed
  /\ UNCHANGED <<line, ending, mediaConn, aiConn, wrapUp, reports, late>>

--------------------------------------------------------------------------------
\* endCall.

\* Mutant of Ended: the one who comes second closes and reports again.
MutantEnded(c) ==
  /\ ending' = [ending EXCEPT ![c] = "marked"] /\ listed' = listed \ {c}
  /\ wrapUp' = [wrapUp EXCEPT ![c] = IF @ = "given" THEN "reported" ELSE @]

\* The first one marks the call, with the wrap-up it has.
Ended(c) ==
  IF ending[c] # "no"
    THEN UNCHANGED <<ending, listed, wrapUp>>
    ELSE /\ ending' = [ending EXCEPT ![c] = "marked"] /\ listed' = listed \ {c}
         /\ wrapUp' = [wrapUp EXCEPT ![c] = IF @ = "given" THEN "reported" ELSE @]

\* It closes the stream that is bound now ...
CloseStream(c) ==
  /\ ending[c] = "marked"
  /\ ending' = [ending EXCEPT ![c] = "streamClosed"]
  /\ mediaConn' = [mediaConn EXCEPT ![c] = IF @ = "bound" THEN "closed" ELSE @]
  /\ late' = IF mediaConn[c] = "known" THEN [late EXCEPT !.stream = @ \cup {c}] ELSE late
  /\ UNCHANGED <<dialling, line, listed, aiConn, wrapUp, reports>>

\* ... then the AI session that is there now, and reports.
CloseSession(c) ==
  /\ ending[c] = "streamClosed"
  /\ ending' = [ending EXCEPT ![c] = "done"]
  /\ aiConn' = [aiConn EXCEPT ![c] = IF @ = "open" THEN "closed" ELSE @]
  /\ late' = IF mediaConn[c] = "known" \/ aiConn[c] = "opening"
               THEN [late EXCEPT !.session = @ \cup {c}] ELSE late
  /\ reports' = [reports EXCEPT ![c] = @ + 1]
  /\ UNCHANGED <<dialling, line, listed, mediaConn, wrapUp>>

LineOver(c) == line' = [line EXCEPT ![c] = IF @ = "none" THEN @ ELSE "over"]

\* The duration cap, and the goodbye after finish_call, hang up.
HangUp(c) ==
  /\ dialling[c] = "listed"
  /\ ending[c] = "no" \/ wrapUp[c] # "none"
  /\ LineOver(c) /\ Ended(c)
  /\ UNCHANGED <<dialling, mediaConn, aiConn, reports, late>>

--------------------------------------------------------------------------------
\* The carrier.

PickUp(c) ==
  /\ line[c] = "ringing"
  /\ line' = [line EXCEPT ![c] = "answered"]
  /\ mediaConn' = [mediaConn EXCEPT ![c] = "connected"]
  /\ UNCHANGED <<dialling, listed, ending, aiConn, wrapUp, reports, late>>

CallerLeaves(c) ==
  /\ line[c] \in {"ringing", "answered"}
  /\ LineOver(c)
  /\ UNCHANGED <<dialling, listed, ending, mediaConn, aiConn, wrapUp, reports, late>>

\* handleCallEvent, call.hangup; a call that is not in the table is ignored.
HangupWebhook(c) ==
  /\ line[c] = "over" /\ c \in listed
  /\ Ended(c)
  /\ UNCHANGED <<dialling, line, mediaConn, aiConn, reports, late>>

--------------------------------------------------------------------------------
\* handleTelnyxMedia and startPhoneSession.

\* "start": the call is looked up, under callsMu ...
FindCall(c) ==
  /\ mediaConn[c] = "connected"
  /\ mediaConn' = [mediaConn EXCEPT ![c] = IF c \in listed THEN "known" ELSE "closed"]
  /\ UNCHANGED <<dialling, line, listed, ending, aiConn, wrapUp, reports, late>>

\* ... and given its stream, under its own lock, though it may have ended.
StartMedia(c) ==
  /\ mediaConn[c] = "known"
  /\ mediaConn' = [mediaConn EXCEPT ![c] = "bound"]
  /\ aiConn' = [aiConn EXCEPT ![c] = "opening"]
  /\ UNCHANGED <<dialling, line, listed, ending, wrapUp, reports, late>>

OpenAI(c) ==
  /\ aiConn[c] = "opening"
  /\ aiConn' = [aiConn EXCEPT ![c] = "open"]
  /\ UNCHANGED <<dialling, line, listed, ending, mediaConn, wrapUp, reports, late>>

\* The session cannot be opened: hang up.
OpenAIFails(c) ==
  /\ aiConn[c] = "opening"
  /\ LineOver(c) /\ Ended(c)
  /\ aiConn' = [aiConn EXCEPT ![c] = "closed"]
  /\ UNCHANGED <<dialling, mediaConn, reports, late>>

\* The stream ends; its handler is busy while the session is being opened.
MediaStops(c) ==
  /\ mediaConn[c] = "bound" /\ aiConn[c] # "opening"
  /\ Ended(c)
  /\ UNCHANGED <<dialling, line, mediaConn, aiConn, reports, late>>

--------------------------------------------------------------------------------
\* The AI session.

FinishCall(c) ==
  /\ aiConn[c] = "open" /\ wrapUp[c] = "none"
  /\ wrapUp' = [wrapUp EXCEPT ![c] = IF ending[c] = "no" THEN "given" ELSE "late"]
  /\ UNCHANGED <<dialling, line, listed, ending, mediaConn, aiConn, reports, late>>

\* The reader ends and calls endCall.
AIStops(c) ==
  /\ aiConn[c] = "open"
  /\ Ended(c)
  /\ UNCHANGED <<dialling, line, mediaConn, aiConn, reports, late>>

CallsNext ==
  \E c \in Call :
    \/ CheckCap(c) \/ DialCall(c) \/ ListCall(c) \/ HangUp(c)
    \/ PickUp(c) \/ CallerLeaves(c) \/ HangupWebhook(c)
    \/ FindCall(c) \/ StartMedia(c) \/ OpenAI(c) \/ OpenAIFails(c) \/ MediaStops(c)
    \/ FinishCall(c) \/ AIStops(c) \/ CloseStream(c) \/ CloseSession(c)

CallsSpec == CallsInit /\ [][CallsNext]_callVars

--------------------------------------------------------------------------------
(***************************************************************************)
(* Whoever ends a call, and however many do, the stage gets one report of  *)
(* it, with the wrap-up if the AI gave one before, and no connection stays *)
(* open, but for a stream whose handler had found the call, and an AI      *)
(* session that was being set up, as endCall looked for them.  More calls  *)
(* than the cap are only made by handlers that overlap.                    *)
(***************************************************************************)
CallsEndOnce ==
  /\ \A c \in Call : reports[c] = (IF ending[c] = "done" THEN 1 ELSE 0)
  /\ \A c \in Call : ending[c] # "no" => wrapUp[c] # "given"
  /\ \A c \in Call : ending[c] = "done" =>
       /\ mediaConn[c] = "bound" => c \in late.stream
       /\ aiConn[c] \in {"opening", "open"} => c \in late.session
  /\ Cardinality(listed \ late.checked) <= MaxConcurrentCalls

CallsTypeOK ==
  /\ dialling \in [Call -> {"no", "checked", "dialled", "listed", "failed"}]
  /\ line \in [Call -> {"none", "ringing", "answered", "over"}]
  /\ ending \in [Call -> {"no", "marked", "streamClosed", "done"}]
  /\ mediaConn \in [Call -> {"none", "connected", "known", "bound", "closed"}]
  /\ aiConn \in [Call -> {"none", "opening", "open", "closed"}]
================================================================================
