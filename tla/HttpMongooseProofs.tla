------------------------- MODULE HttpMongooseProofs -------------------------
(***************************************************************************)
(* The safety of the desktop transport, for any number of calls.           *)
(*                                                                         *)
(* TypeOK and the four properties are not inductive: that the flag         *)
(* dataReceived stands for an answer to this very request rests on where   *)
(* requests and answers can be at all, which Phases says.                  *)
(***************************************************************************)
EXTENDS HttpMongoose, TLAPS

\* The flag connected and the connection agree, except while connecting.
Linked ==
    /\ pc = "connecting" => ~connected
    /\ pc = "sending" => connected
    /\ pc # "connecting" => /\ link # "dialling"
                            /\ connected <=> (link # "none")

\* A request is on its way, or its answer, or the answer has been copied; and
\* only in a call that waits.
Phases ==
    /\ pc \in {"sending", "waiting"} => request > 0
    /\ request = 0 => data = Nothing
    /\ asked # 0 => /\ asked = request
                    /\ pc = "waiting" /\ ~dataReceived /\ answer = Nothing
    /\ answer # Nothing => /\ answer.req = request
                           /\ pc = "waiting" /\ ~dataReceived

\* What is in the buffer once the call is over, or about to be.
Delivered ==
    (pc = "idle" /\ request > 0) \/ (pc = "waiting" /\ dataReceived) =>
        /\ data # Nothing
        /\ data.req = request
        /\ data.whole \/ (~connected /\ link = "none")

IInv == TypeOK /\ Linked /\ Phases /\ Delivered

-----------------------------------------------------------------------------

\* A call never starts without a connection, an answer or a request of its own:
\* the invariant holds at first and is kept by every step of client and network.
LEMMA InvInit == Init => IInv
<1> SUFFICES ASSUME Init PROVE IInv
  OBVIOUS
<1>1. TypeOK
  <2>1. 0 \in 0 .. MaxRequests
    BY HttpAssumption
  <2> QED
    BY <2>1, Zenon DEF Init, TypeOK
<1>2. Linked
  BY DEF Init, Linked
<1>3. Phases
  BY DEF Init, Phases
<1>4. Delivered
  BY DEF Init, Delivered
<1> QED
  BY <1>1, <1>2, <1>3, <1>4 DEF IInv

\* See InvInit.
LEMMA InvStep == IInv /\ [Next]_vars => IInv'
<1> SUFFICES ASSUME IInv, [Next]_vars PROVE IInv'
  OBVIOUS
<1>0. MaxRequests \in Nat
  BY HttpAssumption
<1> USE <1>0 DEF clientVars, netVars
<1>1. CASE Call
  BY <1>1 DEF Call, MustConnect, IInv, TypeOK, Linked, Phases, Delivered
<1>2. CASE PollConnected
  BY <1>2 DEF PollConnected, IInv, TypeOK, Linked, Phases, Delivered
<1>3. CASE Send
  BY <1>3 DEF Send, Cleared, IInv, TypeOK, Linked, Phases, Delivered
<1>4. CASE PollMessage
  <2>1. Copied \in Data /\ Copied.req = request /\ Copied.whole
    BY <1>4 DEF PollMessage, Complete, Copied, Data, Answer, IInv, TypeOK, Phases
  <2>2. TypeOK'
    BY <1>4, <2>1 DEF PollMessage, ConnectedAfterMessage, IInv, TypeOK
  <2>3. Linked'
    BY <1>4 DEF PollMessage, ConnectedAfterMessage, IInv, Linked
  <2>4. Phases'
    <3>1. asked = 0
      BY <1>4 DEF PollMessage, Complete, IInv, Phases
    <3> QED
      BY <1>4, <3>1 DEF PollMessage, IInv, TypeOK, Phases
  <2>5. Delivered'
    <3>1. data' # Nothing
      BY <1>4, <2>1, HttpAssumption DEF PollMessage, Data
    <3>2. data'.req = request' /\ data'.whole
      BY <1>4, <2>1 DEF PollMessage
    <3> QED
      BY <3>1, <3>2, Zenon DEF Delivered
  <2> QED
    BY <2>2, <2>3, <2>4, <2>5 DEF IInv
<1>5. CASE PollClose
  <2>1. IF answer = Nothing THEN Copied = data
        ELSE Copied \in Data /\ Copied.req = request
    BY <1>5 DEF PollClose, Copied, Data, Answer, IInv, TypeOK, Phases
  <2>2. TypeOK'
    BY <1>5, <2>1 DEF PollClose, ConnectedAfterClose, IInv, TypeOK
  <2>3. Linked'
    BY <1>5 DEF PollClose, ConnectedAfterClose, IInv, Linked
  <2>4. Phases'
    BY <1>5, <2>1 DEF PollClose, IInv, TypeOK, Linked, Phases
  <2>5. Delivered'
    BY <1>5, <2>1, HttpAssumption
       DEF PollClose, ConnectedAfterClose, Data, IInv, Phases, Delivered
  <2> QED
    BY <2>2, <2>3, <2>4, <2>5 DEF IInv
<1>6. CASE Return
  BY <1>6 DEF Return, IInv, TypeOK, Linked, Phases, Delivered
<1>7. CASE Server
  <2>1. CASE Accept
    BY <2>1 DEF Accept, IInv, TypeOK, Linked, Phases, Delivered
  <2>2. ASSUME NEW sized \in BOOLEAN, Answering(sized) PROVE IInv'
    BY <2>2 DEF Answering, Answer, IInv, TypeOK, Linked, Phases, Delivered
  <2>3. CASE Answered
    BY <2>3 DEF Answered, Answer, IInv, TypeOK, Linked, Phases, Delivered
  <2>4. CASE EndOfAnswer
    BY <2>4 DEF EndOfAnswer, IInv, TypeOK, Linked, Phases, Delivered
  <2> QED
    BY <1>7, <2>1, <2>2, <2>3, <2>4 DEF Server
<1>8. CASE Refuse
  BY <1>8 DEF Refuse, IInv, TypeOK, Linked, Phases, Delivered
<1>9. CASE Drop
  BY <1>9 DEF Drop, IInv, TypeOK, Linked, Phases, Delivered
<1>10. CASE UNCHANGED vars
  BY <1>10 DEF vars, IInv, TypeOK, Linked, Phases, Delivered
<1> QED
  BY <1>1, <1>2, <1>3, <1>4, <1>5, <1>6, <1>7, <1>8, <1>9, <1>10 DEF Next, Client

\* The invariant of the transport, from which the theorems below follow.
LEMMA Invariant == Spec => []IInv
  BY InvInit, InvStep, PTL DEF Spec

-----------------------------------------------------------------------------

\* The transport's state always has its type.
THEOREM TypeCorrect == Spec => []TypeOK
<1>1. IInv => TypeOK
  BY DEF IInv
<1> QED
  BY <1>1, Invariant, PTL

\* A call of MatrixHttpGet, Post or Put returns the answer to its own request.
THEOREM AnswersMatch == Spec => []AnswerMatches
<1>1. IInv => AnswerMatches
  BY DEF IInv, Delivered, AnswerMatches
<1> QED
  BY <1>1, Invariant, PTL

\* After an answer that was cut short the next call connects again.
THEOREM CutShortIsNoticed == Spec => []CutShortReconnects
<1>1. IInv => CutShortReconnects
  BY HttpAssumption DEF IInv, TypeOK, Phases, Delivered, CutShortReconnects
<1> QED
  BY <1>1, Invariant, PTL

\* No request is printed into a connection that mongoose has freed.
THEOREM WritesAreSafe == Spec => []WritesToConnection
<1>1. IInv => WritesToConnection
  BY DEF IInv, Linked, WritesToConnection
<1> QED
  BY <1>1, Invariant, PTL

\* There is never a second connection.
THEOREM NeverTwoConnections == Spec => OneConnection
<1>1. IInv /\ [Next]_vars =>
        [link' = "dialling" => link \in {"none", "dialling"}]_vars
  <2> SUFFICES ASSUME IInv, Next, link' = "dialling"
               PROVE  link \in {"none", "dialling"}
    OBVIOUS
  <2> QED
    BY DEF Next, Client, Server, Call, MustConnect, PollConnected, Send,
       PollMessage, PollClose, Return, Accept, Answering, Answered,
       EndOfAnswer, Refuse, Drop, netVars, IInv, TypeOK, Linked
<1> QED
  BY <1>1, Invariant, PTL DEF Spec, OneConnection

=============================================================================
