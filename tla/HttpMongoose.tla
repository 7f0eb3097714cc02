---------------------------- MODULE HttpMongoose ----------------------------
(***************************************************************************)
(* The desktop transport, matrix_http_mongoose.c: one connection, one      *)
(* request at a time, and three loops that poll until a flag is set.       *)
(*                                                                         *)
(* MatrixHttpGet, Post and Put differ in the request they print and are    *)
(* one call here.  A call connects when connected is not set, clears       *)
(* dataReceived, prints the request and polls until the callback has set   *)
(* dataReceived.  Nothing is polled between calls, so that a connection    *)
(* the server closes meanwhile is still taken to be connected, and no loop *)
(* looks at anything but its own flag.                                     *)
(*                                                                         *)
(* The server either gives the length of an answer and keeps the           *)
(* connection, or ends the answer by closing it.  On a close, mongoose     *)
(* calls the callback with MG_EV_CLOSE and then delivers what it has of an *)
(* answer as a message (mongoose.c, mg_call and http_cb).                  *)
(*                                                                         *)
(* An unused definition right before another with the same parameters is   *)
(* that one with a fault (see the README).                                 *)
(***************************************************************************)
EXTENDS Naturals

CONSTANTS
    MaxRequests,    \* calls made (bounds the model)
    Nothing         \* no answer

ASSUME HttpAssumption ==
    /\ MaxRequests \in Nat
    /\ Nothing \notin [req : 1 .. MaxRequests, whole : BOOLEAN]
    /\ Nothing \notin [req : 1 .. MaxRequests, sized : BOOLEAN, whole : BOOLEAN]

VARIABLES
    \* MatrixHttpConnection and the call in progress
    pc,             \* connecting, sending, waiting, idle
    request,        \* number of the call; 0 in MatrixHttpInit
    connected,      \* hc->connected
    dataReceived,   \* hc->dataReceived
    data,           \* what the callback copied last, an answer
    \* the connection in the event manager, and the network
    link,           \* none, dialling, open, or closed by the server
    asked,          \* request on its way to the server, 0 if none
    answer,         \* what the server has sent of an answer
    \* history
    lost            \* the connection went before this call's answer was sent

clientVars == <<pc, request, connected, dataReceived, data>>
netVars    == <<link, asked, answer>>
vars == <<clientVars, netVars, lost>>

-----------------------------------------------------------------------------

Data == [req : 1 .. MaxRequests, whole : BOOLEAN]

Answer == [req : 1 .. MaxRequests, sized : BOOLEAN, whole : BOOLEAN]

\* MatrixHttpInit dials at once.
Init ==
    /\ pc = "connecting"
    /\ request = 0
    /\ connected = FALSE
    /\ dataReceived = FALSE
    /\ data = Nothing
    /\ link = "dialling"
    /\ asked = 0
    /\ answer = Nothing
    /\ lost = FALSE

\* Whether a call has to connect first.
MustConnectNever == FALSE
MustConnect == ~connected

\* MatrixHttpGet, Post or Put is called.
Call ==
    /\ pc = "idle"
    /\ request < MaxRequests
    /\ request' = request + 1
    /\ IF MustConnect
       THEN pc' = "connecting" /\ link' = "dialling"
       ELSE pc' = "sending" /\ link' = link
    /\ lost' = (link' = "closed")
    /\ UNCHANGED <<connected, dataReceived, data, asked, answer>>

\* MG_EV_CONNECT ends the loop of MatrixHttpConnect.
PollConnected ==
    /\ pc = "connecting"
    /\ link \in {"open", "closed"}
    /\ connected' = TRUE
    /\ pc' = (IF request = 0 THEN "idle" ELSE "sending")
    /\ UNCHANGED <<request, dataReceived, data, netVars, lost>>

\* hc->dataReceived = false, then mg_printf into the connection's buffer.
ClearedNever == dataReceived
Cleared == FALSE
Send ==
    /\ pc = "sending"
    /\ dataReceived' = Cleared
    /\ asked' = (IF link = "open" THEN request ELSE 0)
    /\ pc' = "waiting"
    /\ UNCHANGED <<request, connected, data, link, answer, lost>>

\* What a message handled now leaves in the caller's buffer: an answer that is
\* cut short is copied all the same.
CopiedOrEmpty ==
    IF answer = Nothing THEN [req |-> 0, whole |-> TRUE]
    ELSE [req |-> answer.req, whole |-> answer.whole]
Copied ==
    IF answer = Nothing THEN data
    ELSE [req |-> answer.req, whole |-> answer.whole]

Complete == answer # Nothing /\ answer.sized /\ answer.whole

\* MG_EV_HTTP_MSG: an answer of known length is there.
DisconnectedByMessage == FALSE
ConnectedAfterMessage == connected
PollMessage ==
    /\ pc = "waiting"
    /\ Complete
    /\ data' = Copied
    /\ dataReceived' = TRUE
    /\ answer' = Nothing
    /\ connected' = ConnectedAfterMessage
    /\ UNCHANGED <<pc, request, link, asked, lost>>

\* MG_EV_CLOSE, and what there is of an answer as a message.  A loop that
\* waits to be connected goes on waiting.
StaysConnected == connected
ConnectedAfterClose == FALSE
PollClose ==
    /\ pc \in {"connecting", "waiting"}
    /\ link = "closed"
    /\ ~Complete
    /\ link' = "none"
    /\ connected' = ConnectedAfterClose
    /\ data' = Copied
    /\ dataReceived' = (dataReceived \/ answer # Nothing)
    /\ answer' = Nothing
    /\ UNCHANGED <<pc, request, asked, lost>>

\* dataReceived ends the loop, and with it the call.
Return ==
    /\ pc = "waiting"
    /\ dataReceived
    /\ pc' = "idle"
    /\ UNCHANGED <<request, connected, dataReceived, data, netVars, lost>>

-----------------------------------------------------------------------------
(* The network and the server (external).                                  *)

Accept ==
    /\ link = "dialling"
    /\ link' = "open"
    /\ UNCHANGED <<clientVars, asked, answer, lost>>

\* The first part of an answer: the headers and perhaps some of the body.
Answering(sized) ==
    /\ link = "open"
    /\ asked # 0
    /\ answer = Nothing
    /\ answer' = [req |-> asked, sized |-> sized, whole |-> FALSE]
    /\ asked' = 0
    /\ UNCHANGED <<clientVars, link, lost>>

Answered ==
    /\ link = "open"
    /\ answer # Nothing /\ ~answer.whole
    /\ answer' = [answer EXCEPT !.whole = TRUE]
    /\ UNCHANGED <<clientVars, link, asked, lost>>

\* An answer without a length ends with the connection.
EndOfAnswer ==
    /\ link = "open"
    /\ answer # Nothing /\ ~answer.sized /\ answer.whole
    /\ link' = "closed"
    /\ UNCHANGED <<clientVars, asked, answer, lost>>

\* The connection goes at any other time: a refused dial, a reset, an idle
\* timeout, or the close that follows an answer to an HTTP/1.0 request.  What
\* has been sent may be discarded with it.
Refuse ==
    /\ link = "dialling"
    /\ link' = "none"
    /\ lost' = TRUE
    /\ UNCHANGED <<clientVars, asked, answer>>

Drop ==
    /\ link = "open"
    /\ link' = "closed"
    /\ asked' = 0
    /\ answer' \in {answer, Nothing}
    /\ lost' = (lost \/ answer' = Nothing \/ ~answer.whole)
    /\ UNCHANGED clientVars

-----------------------------------------------------------------------------

Client ==
    \/ PollConnected
    \/ Send
    \/ PollMessage
    \/ PollClose
    \/ Return

Server ==
    \/ Accept
    \/ \E sized \in BOOLEAN : Answering(sized)
    \/ Answered
    \/ EndOfAnswer

Next == Call \/ Client \/ Server \/ Refuse \/ Drop

Spec == Init /\ [][Next]_vars

\* The loops poll again and again; a server that has not dropped the
\* connection accepts, answers, and finishes its answers.
FairSpec == Spec /\ WF_vars(Client) /\ WF_vars(Server)

-----------------------------------------------------------------------------
(* Properties                                                              *)

TypeOK ==
    /\ pc \in {"connecting", "sending", "waiting", "idle"}
    /\ request \in 0 .. MaxRequests
    /\ connected \in BOOLEAN
    /\ dataReceived \in BOOLEAN
    /\ data \in Data \cup {Nothing}
    /\ link \in {"none", "dialling", "open", "closed"}
    /\ asked \in 0 .. MaxRequests
    /\ answer \in Answer \cup {Nothing}
    /\ lost \in BOOLEAN

\* What a call returns is the answer to its own request, never one that an
\* earlier request left behind, through lost connections and reconnects.
AnswerMatches ==
    pc = "idle" /\ request > 0 => data # Nothing /\ data.req = request

\* An answer cut short by a lost connection is returned like a whole one, but
\* only with the connection known to be gone: the next call connects again.
CutShortReconnects ==
    pc = "idle" /\ data # Nothing => data.whole \/ (~connected /\ link = "none")

\* The request is printed into a connection that mongoose still has: a pointer
\* to one it has freed is never used.
WritesToConnection == pc = "sending" => link # "none" /\ connected

\* A call dials only when the manager has no connection: no connection is left
\* behind to answer into the buffer of a later call.
OneConnection == [][ link' = "dialling" => link \in {"none", "dialling"} ]_vars

\* A call returns unless its own connection is lost before the answer is sent;
\* what was lost in earlier calls does not matter.
CallReturns == (pc # "idle") ~> (pc = "idle" \/ lost)

=============================================================================
