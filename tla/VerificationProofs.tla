-------------------------- MODULE VerificationProofs --------------------------
(***************************************************************************)
(* Theorems about Verification, for any number of peers and attempts and   *)
(* whatever is lost or cancelled.  Whatever is asked at once, the replies  *)
(* go to the device they are meant for and the client is verified by a     *)
(* confirmed code only.  As long as no two verifications overlap and no    *)
(* answer is handled again, every event is answered in its own             *)
(* transaction, no dead SAS object is used and none leaks.                 *)
(***************************************************************************)
EXTENDS Verification, SequenceTheorems, TLAPS

Stages == Waiting \cup {"idle", "cancelled", "done"}

\* The types of what the other invariants speak of; TypeOK comes last.
TypeInv ==
    /\ sasObjects \in Seq(SasObject)
    /\ olmSas \in DOMAIN sasObjects \cup {Null}
    /\ inbox \in Seq(Event) /\ fetched \in 0 .. Len(inbox)
    /\ answer \in Seq(Event) /\ again \in 0 .. MaxFailures
    /\ toPeer \in [Peers -> Seq(Message)]
    /\ stage \in [Peers -> Stages]
    /\ requests \in 0 .. MaxAttempts
    /\ attempt \in [Peers -> 0 .. requests]
    /\ \A p \in Peers : stage[p] # "idle" => attempt[p] >= 1

\* The statics belong together.
StaticsPaired ==
    \/ transactionId = Null /\ verifyFrom = Null
    \/ transactionId \in Txns /\ verifyFrom = transactionId[1]

\* A peer goes on to its key, and from there to its MAC, only after the client
\* has created a SAS object.
SasThere ==
    \/ olmSas # Null
    \/ /\ \A p \in Peers : /\ stage[p] \notin {"keyed", "comparing"}
                           /\ \A n \in DOMAIN toPeer[p] :
                                toPeer[p][n].type # "accept"
       /\ \A n \in DOMAIN inbox : inbox[n].type \notin {"key", "mac"}
       /\ \A n \in DOMAIN answer : answer[n].type \notin {"key", "mac"}

\* A peer sends its MAC only in a transaction the user confirmed.
MacsConfirmed ==
    /\ \A n \in DOMAIN inbox : inbox[n].type = "mac" => inbox[n].txn \in confirms
    /\ \A n \in DOMAIN answer : answer[n].type = "mac" => answer[n].txn \in confirms

IInv ==
    /\ TypeInv
    /\ StaticsPaired
    /\ SasThere
    /\ RepliesPaired
    /\ MacsConfirmed
    /\ VerifiedMeansConfirmed

-----------------------------------------------------------------------------
(* The queues                                                              *)

\* A PUT, arrived or not, only adds some of its messages to the peer's queue.
LEMMA Sent ==
    ASSUME NEW p, NEW msgs \in Seq(Message), Send(p, msgs),
           toPeer \in [Peers -> Seq(Message)]
    PROVE  /\ toPeer' \in [Peers -> Seq(Message)]
           /\ \A q \in Peers : \A n \in DOMAIN toPeer'[q] :
                \/ n \in DOMAIN toPeer[q] /\ toPeer'[q][n] = toPeer[q][n]
                \/ q = p /\ \E m \in DOMAIN msgs : toPeer'[q][n] = msgs[m]
<1>1. PICK arrived \in IF LossyPut
                       THEN {<<>>, msgs} \cup
                            { <<m>> : m \in { msgs[n] : n \in DOMAIN msgs } }
                       ELSE {msgs} :
        toPeer' = [toPeer EXCEPT ![p] = @ \o arrived]
  BY DEF Send
<1>2. /\ arrived \in Seq(Message)
      /\ \A n \in DOMAIN arrived : \E m \in DOMAIN msgs : arrived[n] = msgs[m]
  <2>1. CASE arrived = <<>>
    BY <2>1
  <2>2. CASE arrived = msgs
    BY <2>2
  <2>3. ASSUME NEW m \in DOMAIN msgs, arrived = <<msgs[m]>>
        PROVE  <1>2!1 /\ <1>2!2
    BY <2>3
  <2> QED
    BY <1>1, <2>1, <2>2, <2>3
<1>3. ASSUME NEW q \in Peers, q = p
      PROVE  /\ toPeer'[q] \in Seq(Message)
             /\ \A n \in DOMAIN toPeer'[q] :
                  \/ n \in DOMAIN toPeer[q] /\ toPeer'[q][n] = toPeer[q][n]
                  \/ \E m \in DOMAIN msgs : toPeer'[q][n] = msgs[m]
  <2>1. toPeer'[q] = toPeer[q] \o arrived /\ toPeer[q] \in Seq(Message)
    BY <1>1, <1>3
  <2>2. ASSUME NEW n \in DOMAIN toPeer'[q]
        PROVE  \/ n \in DOMAIN toPeer[q] /\ toPeer'[q][n] = toPeer[q][n]
               \/ n - Len(toPeer[q]) \in DOMAIN arrived
                  /\ toPeer'[q][n] = arrived[n - Len(toPeer[q])]
    BY <1>2, <2>1
  <2> QED
    BY <1>2, <2>1, <2>2
<1>4. ASSUME NEW q \in Peers, q # p PROVE toPeer'[q] = toPeer[q]
  BY <1>1, <1>4
<1>5. toPeer' \in [Peers -> Seq(Message)]
  BY <1>1, <1>3, <1>4
<1> QED
  BY <1>3, <1>4, <1>5

\* A peer takes or drops the first message.
LEMMA Taken ==
    ASSUME NEW p \in Peers, toPeer[p] # <<>>,
           toPeer' = [toPeer EXCEPT ![p] = Tail(@)],
           toPeer \in [Peers -> Seq(Message)]
    PROVE  /\ toPeer' \in [Peers -> Seq(Message)]
           /\ \A q \in Peers : \A n \in DOMAIN toPeer'[q] :
                \E m \in DOMAIN toPeer[q] : toPeer'[q][n] = toPeer[q][m]
           /\ 1 \in DOMAIN toPeer[p] /\ Head(toPeer[p]) = toPeer[p][1]
<1>1. /\ toPeer[p] \in Seq(Message) /\ Len(toPeer[p]) \in Nat \ {0}
      /\ Head(toPeer[p]) = toPeer[p][1]
  BY EmptySeq
<1>2. /\ toPeer'[p] \in Seq(Message)
      /\ Len(toPeer'[p]) = Len(toPeer[p]) - 1
      /\ \A n \in 1 .. Len(toPeer[p]) - 1 : toPeer'[p][n] = toPeer[p][n + 1]
  BY <1>1
<1>3. \A n \in DOMAIN toPeer'[p] : \E m \in DOMAIN toPeer[p] :
        toPeer'[p][n] = toPeer[p][m]
  BY <1>1, <1>2
<1>4. \A q \in Peers \ {p} : toPeer'[q] = toPeer[q]
  OBVIOUS
<1>5. toPeer' \in [Peers -> Seq(Message)]
  BY <1>2, <1>4
<1>6. \A q \in Peers : \A n \in DOMAIN toPeer'[q] :
        \E m \in DOMAIN toPeer[q] : toPeer'[q][n] = toPeer[q][m]
  BY <1>3, <1>4
<1>7. 1 \in DOMAIN toPeer[p]
  BY <1>1
<1> QED
  BY <1>1, <1>5, <1>6, <1>7

\* An event for the client.
LEMMA Posted ==
    ASSUME NEW type, NEW txn, [type |-> type, txn |-> txn] \in Event,
           Post(type, txn), inbox \in Seq(Event)
    PROVE  /\ inbox' \in Seq(Event) /\ Len(inbox') >= Len(inbox)
           /\ \A n \in DOMAIN inbox' :
                \/ n \in DOMAIN inbox /\ inbox'[n] = inbox[n]
                \/ inbox'[n] = [type |-> type, txn |-> txn]
<1> DEFINE event == [type |-> type, txn |-> txn]
<1>1. inbox' = Append(inbox, event) /\ event \in Event
  BY DEF Post
<1> HIDE DEF event
<1>2. /\ inbox' \in Seq(Event) /\ Len(inbox') = Len(inbox) + 1
      /\ \A n \in 1 .. Len(inbox) : inbox'[n] = inbox[n]
      /\ inbox'[Len(inbox) + 1] = event
  BY <1>1
<1>3. DOMAIN inbox' = 1 .. Len(inbox) + 1 /\ Len(inbox) \in Nat
  BY <1>2
<1> QED
  BY <1>2, <1>3 DEF event

\* The client handles the first event.
LEMMA Handled ==
    ASSUME NEW type, Handle(type), inbox \in Seq(Event), fetched \in 0 .. Len(inbox)
    PROVE  /\ inbox' \in Seq(Event) /\ fetched' \in 0 .. Len(inbox')
           /\ UNCHANGED <<answer, again>>
           /\ \A n \in DOMAIN inbox' :
                \E m \in DOMAIN inbox : inbox'[n] = inbox[m]
           /\ 1 \in DOMAIN inbox /\ Head(inbox) = inbox[1]
           /\ inbox[1] \in Event /\ inbox[1].type = type
<1>1. /\ inbox' = Tail(inbox) /\ Len(inbox) \in Nat \ {0}
      /\ Head(inbox) = inbox[1] /\ inbox[1].type = type
      /\ fetched' = fetched - 1 /\ fetched > 0 /\ UNCHANGED <<answer, again>>
  BY EmptySeq DEF Handle, Take
<1>2. /\ inbox' \in Seq(Event) /\ Len(inbox') = Len(inbox) - 1
      /\ \A n \in 1 .. Len(inbox) - 1 : inbox'[n] = inbox[n + 1]
  BY <1>1
<1> QED
  BY <1>1, <1>2

\* An answer, the next one or the last one once more: no event is new.
LEMMA Fetched ==
    ASSUME TypeInv, Sync \/ SyncAgain
    PROVE  /\ inbox' \in Seq(Event) /\ fetched' \in 0 .. Len(inbox')
           /\ answer' \in Seq(Event) /\ again' \in 0 .. MaxFailures
           /\ \A n \in DOMAIN inbox' :
                \/ \E m \in DOMAIN inbox : inbox'[n] = inbox[m]
                \/ \E m \in DOMAIN answer : inbox'[n] = answer[m]
           /\ \A n \in DOMAIN answer' :
                \/ \E m \in DOMAIN inbox : answer'[n] = inbox[m]
                \/ \E m \in DOMAIN answer : answer'[n] = answer[m]
           /\ UNCHANGED <<clientVars, toPeer, peerVars, putLost>>
           /\ again' = 0 => inbox' = inbox /\ again = 0
<1>1. /\ inbox \in Seq(Event) /\ answer \in Seq(Event)
      /\ again \in 0 .. MaxFailures /\ MaxFailures \in Nat
      /\ Len(inbox) \in Nat /\ Len(answer) \in Nat
  BY VerificationAssumption DEF TypeInv
<1>2. CASE Sync
  BY <1>1, <1>2 DEF Sync
<1>3. CASE SyncAgain
  <2>1. /\ inbox' = answer \o inbox /\ fetched' = Len(answer) /\ answer' = answer
        /\ again' = again + 1 /\ again < MaxFailures
        /\ UNCHANGED <<clientVars, toPeer, peerVars, putLost>>
    BY <1>3 DEF SyncAgain
  <2>2. inbox' \in Seq(Event) /\ Len(inbox') = Len(answer) + Len(inbox)
    BY <1>1, <2>1
  <2>3. ASSUME NEW n \in DOMAIN inbox'
        PROVE  \/ \E m \in DOMAIN inbox : inbox'[n] = inbox[m]
               \/ \E m \in DOMAIN answer : inbox'[n] = answer[m]
    <3>1. \/ n \in DOMAIN answer /\ inbox'[n] = answer[n]
          \/ /\ n - Len(answer) \in DOMAIN inbox
             /\ inbox'[n] = inbox[n - Len(answer)]
      BY <1>1, <2>1, <2>2
    <3> QED
      BY <3>1
  <2> QED
    BY <1>1, <2>1, <2>2, <2>3
<1> QED
  BY <1>2, <1>3

-----------------------------------------------------------------------------

LEMMA InvInit == Init => IInv
<1> SUFFICES ASSUME Init PROVE IInv
  OBVIOUS
<1>1. 0 \in 0 .. MaxAttempts /\ 0 \in 0 .. MaxFailures
  BY VerificationAssumption
<1>2. TypeInv
  BY <1>1 DEF Init, TypeInv, Stages
<1> QED
  BY <1>2 DEF Init, IInv, StaticsPaired, SasThere, RepliesPaired,
              MacsConfirmed, VerifiedMeansConfirmed

\* What the client sends under its transaction goes to the peer of that
\* transaction, and an accept only with a SAS object.
LEMMA RepliesStayPaired ==
    ASSUME IInv, NEW txn, NEW p,
           \/ txn = Null /\ p = Null
           \/ txn \in Txns /\ p = txn[1],
           NEW msgs \in Seq(Message),
           \A m \in DOMAIN msgs : msgs[m].txn = txn,
           Send(p, msgs)
    PROVE  RepliesPaired'
<1> SUFFICES ASSUME NEW q \in Peers, NEW n \in DOMAIN toPeer'[q]
             PROVE  toPeer'[q][n].txn[1] = q
  BY DEF RepliesPaired
<1>1. CASE n \in DOMAIN toPeer[q] /\ toPeer'[q][n] = toPeer[q][n]
  BY <1>1 DEF IInv, RepliesPaired
<1>2. CASE q = p /\ \E m \in DOMAIN msgs : toPeer'[q][n] = msgs[m]
  BY <1>2, VerificationAssumption
<1>3. toPeer \in [Peers -> Seq(Message)]
  BY DEF IInv, TypeInv
<1> QED
  BY <1>1, <1>2, <1>3, Sent

\* Taking an event leaves the facts about the others.
LEMMA HandledKeeps ==
    ASSUME IInv, NEW type, Handle(type), confirms' = confirms
    PROVE  /\ inbox' \in Seq(Event) /\ fetched' \in 0 .. Len(inbox')
           /\ UNCHANGED <<answer, again>>
           /\ MacsConfirmed'
           /\ \A n \in DOMAIN inbox' : \E m \in DOMAIN inbox : inbox'[n] = inbox[m]
           /\ Head(inbox) \in Event
           /\ Head(inbox).type = type
           /\ type = "mac" => Head(inbox).txn \in confirms
           /\ type \in {"key", "mac"} => olmSas # Null
<1>1. inbox \in Seq(Event) /\ fetched \in 0 .. Len(inbox)
  BY DEF IInv, TypeInv
<1>2. MacsConfirmed'
  BY <1>1, Handled DEF IInv, MacsConfirmed
<1> QED
  BY <1>1, <1>2, Handled DEF IInv, MacsConfirmed, SasThere

LEMMA FreeKeepsType ==
    ASSUME TypeInv, NEW sas \in DOMAIN sasObjects, Free(sas)
    PROVE  sasObjects' \in Seq(SasObject) /\ DOMAIN sasObjects' = DOMAIN sasObjects
<1>1. CASE Live(sas)
  <2> DEFINE dead == [sasObjects[sas] EXCEPT !.live = FALSE]
  <2>0. sasObjects[sas] \in SasObject
    BY DEF TypeInv
  <2>1. dead \in SasObject
    BY <2>0 DEF SasObject
  <2>2. sasObjects' = [sasObjects EXCEPT ![sas] = dead]
    BY <1>1 DEF Free
  <2> HIDE DEF dead
  <2> QED
    BY <2>1, <2>2 DEF TypeInv
<1>2. CASE ~ Live(sas)
  BY <1>2 DEF Free, TypeInv
<1> QED
  BY <1>1, <1>2

-----------------------------------------------------------------------------
(* The client                                                              *)

LEMMA RequestKeepsInv == IInv /\ HandleRequest => IInv'
<1> SUFFICES ASSUME IInv, HandleRequest PROVE IInv'
  OBVIOUS
<1> DEFINE e == Head(inbox)
           msgs == <<Msg("ready", e.txn, Null, Null, TRUE)>>
<1>1. /\ Handle("request") /\ confirms' = confirms
      /\ transactionId' = e.txn /\ verifyFrom' = e.txn[1]
      /\ UNCHANGED <<olmSas, verified, stage, attempt, requests>>
  BY DEF HandleRequest, TransactionOf, SenderOf, peerVars
<1>2. /\ inbox' \in Seq(Event) /\ fetched' \in 0 .. Len(inbox')
      /\ UNCHANGED <<answer, again>> /\ MacsConfirmed' /\ e \in Event
      /\ \A n \in DOMAIN inbox' : \E m \in DOMAIN inbox : inbox'[n] = inbox[m]
  BY <1>1, HandledKeeps
<1>3. e.txn \in Txns
  BY <1>2 DEF Event
<1>4. msgs \in Seq(Message) /\ DOMAIN msgs = {1} /\ msgs[1].txn = e.txn
      /\ msgs[1].type = "ready"
  BY <1>3 DEF Msg, Message
<1>5. Send(e.txn[1], msgs)
  BY <1>1 DEF HandleRequest
<1>6. /\ toPeer' \in [Peers -> Seq(Message)]
      /\ \A q \in Peers : \A n \in DOMAIN toPeer'[q] :
           \/ n \in DOMAIN toPeer[q] /\ toPeer'[q][n] = toPeer[q][n]
           \/ toPeer'[q][n].type = "ready"
  <2> HIDE DEF msgs
  <2> QED
    BY <1>4, <1>5, Sent DEF IInv, TypeInv
<1>7. RepliesPaired'
  <2> HIDE DEF msgs
  <2> QED
    BY <1>3, <1>4, <1>5, RepliesStayPaired
<1>8. sasObjects' \in Seq(SasObject) /\ olmSas \in DOMAIN sasObjects' \cup {Null}
  <2>1. CASE olmSas = Null
    BY <2>1 DEF HandleRequest, DropOldSas, IInv, TypeInv
  <2>2. CASE olmSas # Null
    BY <2>2, FreeKeepsType DEF HandleRequest, DropOldSas, IInv, TypeInv
  <2> QED
    BY <2>1, <2>2
<1>9. StaticsPaired'
  BY <1>1, <1>3 DEF StaticsPaired
<1>10. SasThere'
  BY <1>1, <1>2, <1>6 DEF IInv, SasThere
<1> QED
  BY <1>1, <1>2, <1>6, <1>7, <1>8, <1>9, <1>10
  DEF IInv, TypeInv, VerifiedMeansConfirmed

\* start, key and mac answer in the transaction of the statics.
LEMMA ReplyKeepsInv ==
    ASSUME IInv, NEW type, Handle(type),
           NEW msgs \in Seq(Message),
           \A m \in DOMAIN msgs : msgs[m].txn = transactionId,
           Send(verifyFrom, msgs),
           UNCHANGED <<transactionId, verifyFrom, stage, attempt, requests, confirms>>,
           sasObjects' \in Seq(SasObject),
           olmSas' \in DOMAIN sasObjects', olmSas' # Null,
           verified' = verified \/ confirms # {}
    PROVE  IInv'
<1>1. /\ inbox' \in Seq(Event) /\ fetched' \in 0 .. Len(inbox')
      /\ UNCHANGED <<answer, again>> /\ MacsConfirmed'
  BY HandledKeeps
<1>2. toPeer' \in [Peers -> Seq(Message)]
  BY Sent DEF IInv, TypeInv
<1>3. StaticsPaired /\ StaticsPaired'
  BY DEF IInv, StaticsPaired
<1>4. RepliesPaired'
  <2>1. \/ transactionId = Null /\ verifyFrom = Null
        \/ transactionId \in Txns /\ verifyFrom = transactionId[1]
    BY <1>3 DEF StaticsPaired
  <2> QED
    BY <2>1, RepliesStayPaired
<1> QED
  BY <1>1, <1>2, <1>3, <1>4
  DEF IInv, TypeInv, SasThere, VerifiedMeansConfirmed

LEMMA StartKeepsInv == IInv /\ HandleStart => IInv'
<1> SUFFICES ASSUME IInv, HandleStart PROVE IInv'
  OBVIOUS
<1> DEFINE e == Head(inbox)
           fresh == [live |-> TRUE, theirKey |-> Null]
           msgs == <<Msg("accept", transactionId, olmSas', e.txn, TRUE)>>
<1>1. /\ Handle("start") /\ Send(verifyFrom, msgs)
      /\ UNCHANGED <<transactionId, verifyFrom, verified, stage, attempt, requests,
                     confirms>>
  BY DEF HandleStart, peerVars
<1>2. e \in Event /\ transactionId \in Txns \cup {Null}
  BY <1>1, HandledKeeps DEF IInv, StaticsPaired
<1>3. /\ sasObjects' \in Seq(SasObject) /\ Len(sasObjects') = Len(sasObjects) + 1
      /\ Len(sasObjects) \in Nat /\ olmSas' = Len(sasObjects')
  <2>1. fresh \in SasObject /\ sasObjects \in Seq(SasObject)
    BY DEF SasObject, IInv, TypeInv
  <2>2. sasObjects' = Append(sasObjects, fresh) /\ olmSas' = Len(sasObjects')
    BY DEF HandleStart, NewSas
  <2> HIDE DEF fresh
  <2> QED
    BY <2>1, <2>2
<1>4. olmSas' \in DOMAIN sasObjects' /\ olmSas' \in SasIds
      /\ olmSas' # Null
  BY <1>3, VerificationAssumption DEF SasIds
<1>5. msgs \in Seq(Message) /\ \A m \in DOMAIN msgs : msgs[m].txn = transactionId
  BY <1>2, <1>4 DEF Msg, Message, Event
<1> HIDE DEF msgs
<1> QED
  BY <1>1, <1>3, <1>4, <1>5, ReplyKeepsInv DEF IInv, VerifiedMeansConfirmed

LEMMA KeyKeepsInv == IInv /\ HandleKey => IInv'
<1> SUFFICES ASSUME IInv, HandleKey PROVE IInv'
  OBVIOUS
<1> DEFINE e == Head(inbox)
<1>1. /\ Handle("key")
      /\ UNCHANGED <<transactionId, verifyFrom, olmSas, verified, stage, attempt, requests,
                     confirms>>
  BY DEF HandleKey, peerVars
<1>2. e \in Event /\ olmSas # Null /\ transactionId \in Txns \cup {Null}
  BY <1>1, HandledKeeps DEF IInv, StaticsPaired
<1>3. /\ sasObjects \in Seq(SasObject) /\ olmSas \in DOMAIN sasObjects
      /\ olmSas \in SasIds
  BY <1>2 DEF IInv, TypeInv, SasIds
<1>4. PICK ours \in Read(olmSas, olmSas), theirs \in Read(olmSas, e.txn) :
        /\ sasObjects' = [sasObjects EXCEPT ![olmSas].theirKey = theirs]
        /\ Send(verifyFrom, <<Msg("key", transactionId, ours, Null, TRUE)>>)
  BY DEF HandleKey
<1>5. ours \in SasIds \cup {Null} /\ theirs \in Txns \cup {Null}
  BY <1>2, <1>3 DEF Read, Event
<1>6. sasObjects' \in Seq(SasObject) /\ DOMAIN sasObjects' = DOMAIN sasObjects
  <2> DEFINE keyed == [sasObjects[olmSas] EXCEPT !.theirKey = theirs]
  <2>0. sasObjects[olmSas] \in SasObject
    BY <1>3
  <2>1. keyed \in SasObject
    BY <1>5, <2>0 DEF SasObject
  <2>2. sasObjects' = [sasObjects EXCEPT ![olmSas] = keyed]
    BY <1>4
  <2> HIDE DEF keyed
  <2> QED
    BY <1>3, <2>1, <2>2
<1> DEFINE msgs == <<Msg("key", transactionId, ours, Null, TRUE)>>
<1>7. msgs \in Seq(Message) /\ \A m \in DOMAIN msgs : msgs[m].txn = transactionId
  BY <1>2, <1>5 DEF Msg, Message
<1>8. Send(verifyFrom, msgs)
  BY <1>4
<1> HIDE DEF msgs
<1> QED
  BY <1>1, <1>2, <1>3, <1>6, <1>7, <1>8, ReplyKeepsInv
  DEF IInv, VerifiedMeansConfirmed

LEMMA MacKeepsInv == IInv /\ HandleMac => IInv'
<1> SUFFICES ASSUME IInv, HandleMac PROVE IInv'
  OBVIOUS
<1>1. /\ Handle("mac") /\ Free(olmSas)
      /\ UNCHANGED <<transactionId, verifyFrom, olmSas, stage, attempt, requests, confirms>>
  BY DEF HandleMac, peerVars
<1>2. olmSas # Null /\ confirms # {} /\ transactionId \in Txns \cup {Null}
  BY <1>1, HandledKeeps DEF IInv, StaticsPaired
<1>3. /\ sasObjects \in Seq(SasObject) /\ olmSas \in DOMAIN sasObjects
      /\ olmSas \in SasIds
  BY <1>2 DEF IInv, TypeInv, SasIds
<1>4. PICK bound \in Read(olmSas, sasObjects[olmSas].theirKey),
          keysOk \in IF MayLackMasterKey THEN BOOLEAN ELSE {TRUE} :
        Send(verifyFrom, <<Msg("mac", transactionId, olmSas, bound, keysOk),
                           Msg("done", transactionId, Null, Null, TRUE)>>)
  BY DEF HandleMac
<1>5. bound \in Txns \cup {Null} /\ keysOk \in BOOLEAN
  <2>1. sasObjects[olmSas] \in SasObject
    BY <1>3
  <2>2. sasObjects[olmSas].theirKey \in Txns \cup {Null}
    BY <2>1 DEF SasObject
  <2> QED
    BY <2>2 DEF Read
<1>6. sasObjects' \in Seq(SasObject) /\ olmSas \in DOMAIN sasObjects'
  BY <1>1, <1>3, FreeKeepsType DEF IInv
<1> DEFINE mac == Msg("mac", transactionId, olmSas, bound, keysOk)
           done == Msg("done", transactionId, Null, Null, TRUE)
           msgs == <<mac, done>>
<1>7. /\ mac \in Message /\ mac.txn = transactionId
      /\ done \in Message /\ done.txn = transactionId
  BY <1>2, <1>3, <1>5 DEF Msg, Message
<1>8. Send(verifyFrom, msgs)
  BY <1>4
<1> HIDE DEF mac, done
<1>9. msgs \in Seq(Message) /\ \A m \in DOMAIN msgs : msgs[m].txn = transactionId
  BY <1>7
<1> HIDE DEF msgs
<1> QED
  BY <1>1, <1>2, <1>6, <1>8, <1>9, ReplyKeepsInv

\* Fetching an answer, or going through the last one again, changes no more than
\* what is to be handled.
LEMMA SyncKeepsInv ==
    ASSUME IInv, Sync \/ SyncAgain PROVE IInv'
<1>1. /\ inbox' \in Seq(Event) /\ fetched' \in 0 .. Len(inbox')
      /\ answer' \in Seq(Event) /\ again' \in 0 .. MaxFailures
      /\ \A n \in DOMAIN inbox' :
           \/ \E m \in DOMAIN inbox : inbox'[n] = inbox[m]
           \/ \E m \in DOMAIN answer : inbox'[n] = answer[m]
      /\ \A n \in DOMAIN answer' :
           \/ \E m \in DOMAIN inbox : answer'[n] = inbox[m]
           \/ \E m \in DOMAIN answer : answer'[n] = answer[m]
      /\ UNCHANGED <<clientVars, toPeer, peerVars>>
  BY Fetched DEF IInv
<1>2. TypeInv'
  BY <1>1 DEF IInv, TypeInv, clientVars, peerVars
<1>3. SasThere'
  BY <1>1 DEF IInv, SasThere, clientVars, peerVars
<1>4. MacsConfirmed'
  BY <1>1 DEF IInv, MacsConfirmed, peerVars
<1> QED
  BY <1>1, <1>2, <1>3, <1>4
  DEF IInv, StaticsPaired, RepliesPaired, VerifiedMeansConfirmed, clientVars,
      peerVars

-----------------------------------------------------------------------------
(* The peers                                                               *)

\* What a peer may do: take messages away, post a request or a start, or, once
\* there is a SAS object, a key or the MAC of a confirmed transaction.
LEMMA PeerKeepsInv ==
    ASSUME IInv, UNCHANGED localVars,
           toPeer' \in [Peers -> Seq(Message)],
           \A q \in Peers : \A n \in DOMAIN toPeer'[q] :
               \E m \in DOMAIN toPeer[q] : toPeer'[q][n] = toPeer[q][m],
           inbox' \in Seq(Event), Len(inbox') >= Len(inbox),
           \A n \in DOMAIN inbox' :
               \/ n \in DOMAIN inbox /\ inbox'[n] = inbox[n]
               \/ /\ inbox'[n].type \in {"key", "mac"} => olmSas # Null
                  /\ inbox'[n].type = "mac" => inbox'[n].txn \in confirms',
           confirms \subseteq confirms',
           requests' \in 0 .. MaxAttempts,
           attempt' \in [Peers -> 0 .. requests'],
           \A q \in Peers : stage'[q] # "idle" => attempt'[q] >= 1,
           stage' \in [Peers -> Stages],
           \A q \in Peers : stage'[q] \in {"keyed", "comparing"} =>
               stage[q] \in {"keyed", "comparing"} \/ olmSas # Null
    PROVE  IInv'
<1>1. /\ sasObjects' = sasObjects /\ olmSas' = olmSas /\ verified' = verified
      /\ transactionId' = transactionId /\ verifyFrom' = verifyFrom
      /\ fetched' = fetched /\ answer' = answer /\ again' = again
  BY DEF localVars, clientVars, syncVars
<1>2. TypeInv'
  <2>1. fetched' \in 0 .. Len(inbox')
    BY <1>1 DEF IInv, TypeInv
  <2> QED
    BY <1>1, <2>1 DEF IInv, TypeInv
<1>3. StaticsPaired' /\ VerifiedMeansConfirmed'
  BY <1>1 DEF IInv, StaticsPaired, VerifiedMeansConfirmed
<1>4. RepliesPaired'
  BY DEF IInv, RepliesPaired
<1>5. MacsConfirmed'
  BY <1>1 DEF IInv, MacsConfirmed
<1>6. SasThere'
  <2>1. CASE olmSas # Null
    BY <1>1, <2>1 DEF SasThere
  <2>2. CASE olmSas = Null
    <3>1. /\ \A q \in Peers : /\ stage[q] \notin {"keyed", "comparing"}
                             /\ \A n \in DOMAIN toPeer[q] :
                                  toPeer[q][n].type # "accept"
          /\ \A n \in DOMAIN inbox : inbox[n].type \notin {"key", "mac"}
          /\ \A n \in DOMAIN answer : answer[n].type \notin {"key", "mac"}
      BY <2>2 DEF IInv, SasThere
    <3>2. \A q \in Peers : stage'[q] \notin {"keyed", "comparing"}
      BY <2>2, <3>1
    <3>3. \A q \in Peers : \A n \in DOMAIN toPeer'[q] :
            toPeer'[q][n].type # "accept"
      BY <3>1
    <3>4. \A n \in DOMAIN inbox' : inbox'[n].type \notin {"key", "mac"}
      BY <2>2, <3>1
    <3> QED
      BY <1>1, <3>1, <3>2, <3>3, <3>4 DEF SasThere
  <2> QED
    BY <2>1, <2>2
<1> QED
  BY <1>2, <1>3, <1>4, <1>5, <1>6 DEF IInv

\* Before a peer has its current stage, something from the client was taken.
LEMMA ReceiveKeeps ==
    ASSUME IInv, NEW p \in Peers, NEW type, Receive(p, type)
    PROVE  /\ toPeer' \in [Peers -> Seq(Message)]
           /\ \A q \in Peers : \A n \in DOMAIN toPeer'[q] :
                \E m \in DOMAIN toPeer[q] : toPeer'[q][n] = toPeer[q][m]
           /\ type = "accept" => olmSas # Null
           /\ Expects(p) = type
           /\ type # "nothing" => stage[p] # "idle"
<1>1. /\ toPeer[p] # <<>> /\ Head(toPeer[p]).type = type /\ Expects(p) = type
      /\ toPeer' = [toPeer EXCEPT ![p] = Tail(@)]
      /\ toPeer \in [Peers -> Seq(Message)]
  BY DEF Receive, IInv, TypeInv
<1> QED
  BY <1>1, Taken, SMTT(30) DEF IInv, SasThere, Expects

LEMMA PeerPosts ==
    ASSUME IInv, NEW p \in Peers, NEW txn \in Txns,
           NEW type \in {"request", "start", "key", "mac"}, Post(type, txn),
           type \in {"key", "mac"} => olmSas # Null,
           type = "mac" => txn \in confirms'
    PROVE  /\ inbox' \in Seq(Event) /\ Len(inbox') >= Len(inbox)
           /\ \A n \in DOMAIN inbox' :
                \/ n \in DOMAIN inbox /\ inbox'[n] = inbox[n]
                \/ /\ inbox'[n].type \in {"key", "mac"} => olmSas # Null
                   /\ inbox'[n].type = "mac" => inbox'[n].txn \in confirms'
<1>1. [type |-> type, txn |-> txn] \in Event
  BY DEF Event
<1>2. inbox \in Seq(Event)
  BY DEF IInv, TypeInv
<1> QED
  BY <1>1, <1>2, Posted

LEMMA PeerStepKeepsInv ==
    ASSUME IInv, NEW p \in Peers, Peer(p) \/ PeerRequest(p) \/ PeerCancel(p)
    PROVE  IInv'
<1>0. /\ toPeer \in [Peers -> Seq(Message)] /\ inbox \in Seq(Event)
      /\ stage \in [Peers -> Stages] /\ requests \in 0 .. MaxAttempts
      /\ attempt \in [Peers -> 0 .. requests]
      /\ \A q \in Peers : stage[q] # "idle" => attempt[q] >= 1
      /\ stage[p] # "idle" => Txn(p) \in Txns
  BY VerificationAssumption DEF IInv, TypeInv, Txn, Txns
<1>1. ASSUME PeerStart(p) PROVE IInv'
  <2>1. /\ UNCHANGED localVars /\ UNCHANGED <<attempt, requests, confirms>>
        /\ stage' = [stage EXCEPT ![p] = "started"]
        /\ Receive(p, "ready") /\ Post("start", Txn(p))
    BY <1>1 DEF PeerStart, GoTo
  <2>2. stage[p] # "idle"
    BY <2>1, ReceiveKeeps
  <2> QED
    BY <1>0, <2>1, <2>2, ReceiveKeeps, PeerPosts, PeerKeepsInv DEF Stages, Waiting
<1>2. ASSUME PeerSendKey(p) PROVE IInv'
  <2>1. /\ UNCHANGED localVars /\ UNCHANGED <<attempt, requests, confirms>>
        /\ stage' = [stage EXCEPT ![p] = "keyed"]
        /\ Receive(p, "accept") /\ Post("key", Txn(p))
    BY <1>2 DEF PeerSendKey, GoTo
  <2>2. olmSas # Null /\ stage[p] # "idle"
    BY <2>1, ReceiveKeeps
  <2> QED
    BY <1>0, <2>1, <2>2, ReceiveKeeps, PeerPosts, PeerKeepsInv DEF Stages, Waiting
<1>3. ASSUME PeerCheckKey(p) PROVE IInv'
  <2>1. /\ UNCHANGED localVars
        /\ UNCHANGED <<attempt, requests, confirms, inbox>>
        /\ \/ stage' = [stage EXCEPT ![p] = "comparing"]
           \/ stage' = [stage EXCEPT ![p] = "cancelled"]
        /\ Receive(p, "key")
    BY <1>3 DEF PeerCheckKey, GoTo
  <2>2. stage[p] = "keyed"
    <3>1. Expects(p) = "key"
      BY <2>1, ReceiveKeeps
    <3> QED
      BY <3>1 DEF Expects
  <2>3. inbox' \in Seq(Event) /\ Len(inbox') >= Len(inbox)
    <3>1. inbox \in Seq(Event)
      BY DEF IInv, TypeInv
    <3> QED
      BY <2>1, <3>1
  <2>4. /\ requests' \in 0 .. MaxAttempts /\ attempt' \in [Peers -> 0 .. requests']
        /\ confirms \subseteq confirms'
        /\ \A n \in DOMAIN inbox' : n \in DOMAIN inbox /\ inbox'[n] = inbox[n]
    BY <2>1 DEF IInv, TypeInv
  <2>5. /\ stage' \in [Peers -> Stages]
        /\ \A q \in Peers : stage'[q] # "idle" => attempt'[q] >= 1
        /\ \A q \in Peers : stage'[q] \in {"keyed", "comparing"} =>
             stage[q] \in {"keyed", "comparing"} \/ olmSas # Null
    BY <2>1, <2>2 DEF IInv, TypeInv, Stages, Waiting
  <2> QED
    BY <2>1, <2>3, <2>4, <2>5, ReceiveKeeps, PeerKeepsInv
<1>4. ASSUME Confirm(p) PROVE IInv'
  <2>1. /\ UNCHANGED localVars /\ UNCHANGED <<attempt, requests, toPeer>>
        /\ stage[p] = "comparing"
    BY <1>4 DEF Confirm
  <2>2. olmSas # Null
    BY <2>1 DEF IInv, SasThere
  <2>3. CASE /\ stage' = [stage EXCEPT ![p] = "confirmed"]
             /\ Post("mac", Txn(p)) /\ confirms' = confirms \cup {Txn(p)}
    BY <1>0, <2>1, <2>2, <2>3, PeerPosts, PeerKeepsInv DEF Stages, Waiting
  <2>4. CASE /\ stage' = [stage EXCEPT ![p] = "cancelled"]
             /\ UNCHANGED <<inbox, confirms>>
    BY <1>0, <2>1, <2>4, PeerKeepsInv DEF Stages, Waiting
  <2> QED
    BY <1>4, <2>3, <2>4 DEF Confirm, GoTo
<1>5. ASSUME PeerCheckMac(p) \/ PeerDone(p) PROVE IInv'
  <2>1. /\ UNCHANGED localVars
        /\ UNCHANGED <<attempt, requests, confirms, inbox>>
        /\ \E s \in {"macOk", "cancelled", "done"} :
             stage' = [stage EXCEPT ![p] = s]
        /\ Receive(p, "mac") \/ Receive(p, "done")
    BY <1>5 DEF PeerCheckMac, PeerDone, GoTo
  <2>2. stage[p] # "idle"
    BY <2>1, ReceiveKeeps
  <2> QED
    BY <1>0, <2>1, <2>2, ReceiveKeeps, PeerKeepsInv DEF Stages, Waiting
<1>6. ASSUME PeerDrop(p) PROVE IInv'
  <2>1. /\ UNCHANGED localVars
        /\ UNCHANGED <<attempt, requests, confirms, inbox, stage>>
        /\ toPeer[p] # <<>> /\ toPeer' = [toPeer EXCEPT ![p] = Tail(@)]
    BY <1>6 DEF PeerDrop, peerVars
  <2> QED
    BY <1>0, <2>1, Taken, PeerKeepsInv
<1>7. ASSUME PeerRequest(p) PROVE IInv'
  <2>1. /\ UNCHANGED localVars /\ UNCHANGED <<toPeer, confirms>>
        /\ requests < MaxAttempts /\ requests' = requests + 1
        /\ attempt' = [attempt EXCEPT ![p] = @ + 1]
        /\ stage' = [stage EXCEPT ![p] = "requested"]
        /\ Post("request", <<p, attempt[p] + 1>>)
    BY <1>7 DEF PeerRequest, GoTo
  <2>2. /\ requests' \in 0 .. MaxAttempts /\ attempt' \in [Peers -> 0 .. requests']
        /\ \A q \in Peers : attempt'[q] >= attempt[q]
        /\ attempt'[p] >= 1 /\ <<p, attempt[p] + 1>> \in Txns
    BY <1>0, <2>1, VerificationAssumption DEF Txns
  <2> QED
    BY <1>0, <2>1, <2>2, PeerPosts, PeerKeepsInv DEF Stages, Waiting
<1>8. ASSUME PeerCancel(p) PROVE IInv'
  <2>1. /\ UNCHANGED localVars
        /\ UNCHANGED <<inbox, toPeer, attempt, requests, confirms>>
        /\ stage' = [stage EXCEPT ![p] = "cancelled"] /\ stage[p] # "idle"
    BY <1>8 DEF PeerCancel, GoTo, Waiting
  <2> QED
    BY <1>0, <2>1, PeerKeepsInv DEF Stages, Waiting
<1> QED
  BY <1>1, <1>2, <1>3, <1>4, <1>5, <1>6, <1>7, <1>8 DEF Peer

-----------------------------------------------------------------------------

LEMMA InvStep == IInv /\ [Next]_vars => IInv'
<1> SUFFICES ASSUME IInv, [Next]_vars PROVE IInv'
  OBVIOUS
<1>1. CASE Handlers
  BY <1>1, RequestKeepsInv, StartKeepsInv, KeyKeepsInv, MacKeepsInv DEF Handlers
<1>4. CASE Sync \/ SyncAgain
  BY <1>4, SyncKeepsInv
<1>2. CASE \E p \in Peers : Peer(p) \/ PeerRequest(p) \/ PeerCancel(p)
  BY <1>2, PeerStepKeepsInv
<1>3. CASE UNCHANGED vars
  BY <1>3 DEF vars, localVars, clientVars, syncVars, peerVars, IInv, TypeInv,
              StaticsPaired, SasThere, RepliesPaired, MacsConfirmed,
              VerifiedMeansConfirmed
<1> QED
  BY <1>1, <1>2, <1>3, <1>4 DEF Next, Client

\* Every reply a peer gets is of a transaction of its own, however the requests
\* of several peers and their events interleave (matrix.c 890-1145).
THEOREM RepliesArePaired == Spec => []RepliesPaired
<1>1. IInv => RepliesPaired
  BY DEF IInv
<1> QED
  BY <1>1, InvInit, InvStep, PTL DEF Spec

\* verified is set only after the user has confirmed a code, though the mac
\* handler does not look at what the peer's MACs say (matrix.c 1030-1145).
THEOREM ConfirmedFirst == Spec => []VerifiedMeansConfirmed
<1>1. IInv => VerifiedMeansConfirmed
  BY DEF IInv
<1> QED
  BY <1>1, InvInit, InvStep, PTL DEF Spec

-----------------------------------------------------------------------------
(* Types                                                                   *)

\* Before the first request is handled there is nothing to answer.
NothingToAnswer ==
    transactionId = Null =>
        /\ \A p \in Peers : /\ stage[p] \in {"idle", "requested", "cancelled"}
                            /\ toPeer[p] = <<>>
        /\ \A n \in DOMAIN inbox : inbox[n].type = "request"
        /\ \A n \in DOMAIN answer : answer[n].type = "request"

LEMMA NothingToAnswerStep ==
    ASSUME IInv, NothingToAnswer, [Next]_vars PROVE NothingToAnswer'
<1>0. Null \notin Txns /\ inbox \in Seq(Event) /\ fetched \in 0 .. Len(inbox)
  BY VerificationAssumption DEF Txns, IInv, TypeInv
<1>1. ASSUME HandleRequest PROVE NothingToAnswer'
  <2>1. Head(inbox) \in Event /\ transactionId' = Head(inbox).txn
    BY <1>1, HandledKeeps DEF HandleRequest, TransactionOf, peerVars
  <2> QED
    BY <1>0, <2>1 DEF NothingToAnswer, Event
<1>2. ASSUME NEW type \in {"start", "key", "mac"}, Handle(type),
             transactionId' = transactionId
      PROVE  NothingToAnswer'
  BY <1>0, <1>2, Handled DEF NothingToAnswer
<1>3. CASE Handlers
  BY <1>1, <1>2, <1>3 DEF Handlers, HandleStart, HandleKey, HandleMac
<1>7. CASE Sync \/ SyncAgain
  BY <1>7, Fetched DEF NothingToAnswer, IInv, clientVars, peerVars
<1>4. ASSUME NEW p \in Peers, Peer(p) \/ PeerRequest(p) \/ PeerCancel(p),
             transactionId = Null
      PROVE  NothingToAnswer'
  <2>1. /\ toPeer[p] = <<>> /\ stage[p] \notin {"comparing"}
        /\ \A q \in Peers : stage[q] \in {"idle", "requested", "cancelled"}
        /\ \A q \in Peers : toPeer[q] = <<>>
        /\ \A n \in DOMAIN inbox : inbox[n].type = "request"
        /\ \A n \in DOMAIN answer : answer[n].type = "request"
        /\ answer' = answer
    BY <1>4 DEF NothingToAnswer, Peer, PeerStart, PeerSendKey, PeerCheckKey,
                Confirm, PeerCheckMac, PeerDone, PeerDrop, PeerRequest,
                PeerCancel, localVars, syncVars
  <2>2. stage \in [Peers -> Stages]
    BY DEF IInv, TypeInv
  <2>3. CASE PeerRequest(p)
    <3>1. /\ stage' = [stage EXCEPT ![p] = "requested"] /\ toPeer' = toPeer
          /\ Post("request", <<p, attempt[p] + 1>>)
          /\ requests < MaxAttempts
      BY <2>3 DEF PeerRequest, GoTo
    <3>2. <<p, attempt[p] + 1>> \in Txns
      BY <3>1, VerificationAssumption DEF Txns, IInv, TypeInv
    <3>3. \A n \in DOMAIN inbox' : inbox'[n].type = "request"
      <4>1. [type |-> "request", txn |-> <<p, attempt[p] + 1>>] \in Event
        BY <3>2 DEF Event
      <4>2. inbox \in Seq(Event)
        BY DEF IInv, TypeInv
      <4>3. \A n \in DOMAIN inbox' :
              \/ n \in DOMAIN inbox /\ inbox'[n] = inbox[n]
              \/ inbox'[n] = [type |-> "request", txn |-> <<p, attempt[p] + 1>>]
        BY <3>1, <4>1, <4>2, Posted
      <4> QED
        BY <2>1, <4>3
    <3> QED
      BY <2>1, <2>2, <3>1, <3>3 DEF NothingToAnswer
  <2>4. CASE PeerCancel(p)
    BY <2>1, <2>2, <2>4 DEF PeerCancel, GoTo, NothingToAnswer
  <2> QED
    BY <1>4, <2>1, <2>3, <2>4
    DEF Peer, PeerStart, PeerSendKey, PeerCheckKey, Confirm, PeerCheckMac,
        PeerDone, PeerDrop, Receive
<1>5. ASSUME NEW p \in Peers, Peer(p) \/ PeerRequest(p) \/ PeerCancel(p)
      PROVE  NothingToAnswer'
  <2>1. transactionId' = transactionId
    BY <1>5 DEF Peer, PeerStart, PeerSendKey, PeerCheckKey, Confirm,
                PeerCheckMac, PeerDone, PeerDrop, PeerRequest, PeerCancel,
                localVars, clientVars
  <2> QED
    BY <1>4, <1>5, <2>1 DEF NothingToAnswer
<1>6. CASE UNCHANGED vars
  BY <1>6 DEF vars, localVars, clientVars, syncVars, peerVars, NothingToAnswer
<1> QED
  BY <1>3, <1>5, <1>6, <1>7 DEF Next, Client

\* The client's own steps on what TypeInv does not speak of.
LEMMA ClientKeepsTypes ==
    ASSUME IInv, IInv', NothingToAnswer, TypeOK, Handlers PROVE TypeOK'
<1>1. /\ UNCHANGED <<commitment, sasKey, confirms, overlap, attempt, requests,
                     stage>>
      /\ putLost' \in BOOLEAN /\ verified' \in BOOLEAN
  BY DEF Handlers, HandleRequest, HandleStart, HandleKey, HandleMac, peerVars,
         Send, TypeOK
<1>2. crashed' \in BOOLEAN /\ fault' \subseteq {"used", "freed twice"}
  <2>1. crashed \in BOOLEAN /\ fault \subseteq {"used", "freed twice"}
    BY DEF TypeOK
  <2>2. ASSUME Free(olmSas) PROVE <1>2
    BY <2>1, <2>2 DEF Free
  <2>3. CASE HandleRequest
    BY <2>1, <2>2, <2>3 DEF HandleRequest, DropOldSas
  <2>4. CASE HandleStart
    BY <2>1, <2>4 DEF HandleStart
  <2>5. CASE HandleKey
    BY <2>1, <2>5 DEF HandleKey
  <2>6. CASE HandleMac
    BY <2>2, <2>6 DEF HandleMac
  <2> QED
    BY <2>3, <2>4, <2>5, <2>6 DEF Handlers
<1>3. transactionId' \in Txns \cup {Null} /\ verifyFrom' \in Peers \cup {Null}
  <2>1. \A t \in Txns : t[1] \in Peers
    BY DEF Txns
  <2> QED
    BY <2>1 DEF IInv, StaticsPaired
<1>4. shown' = Null \/ shown' \in [txn : Txns, sas : SasIds \cup {Null},
                                   key : Txns \cup {Null}]
  <2>1. CASE HandleKey
    <3>1. /\ Handle("key") /\ confirms' = confirms
          /\ \E ours \in Read(olmSas, olmSas),
                theirs \in Read(olmSas, Head(inbox).txn) :
               shown' = [txn |-> transactionId, sas |-> ours, key |-> theirs]
      BY <2>1 DEF HandleKey, peerVars
    <3>2. Head(inbox) \in Event /\ olmSas # Null
          /\ inbox[1].type = "key" /\ 1 \in DOMAIN inbox
      BY <3>1, HandledKeeps, Handled DEF IInv, TypeInv
    <3>3. transactionId \in Txns
      BY <3>2 DEF NothingToAnswer, IInv, StaticsPaired
    <3>4. olmSas \in SasIds /\ Head(inbox).txn \in Txns
      BY <3>2 DEF IInv, TypeInv, SasIds, Event
    <3> QED
      BY <3>1, <3>3, <3>4 DEF Read
  <2>2. CASE ~HandleKey
    BY <2>2 DEF Handlers, HandleRequest, HandleStart, HandleMac, TypeOK
  <2> QED
    BY <2>1, <2>2
<1> QED
  BY <1>1, <1>2, <1>3, <1>4 DEF TypeOK, IInv, TypeInv, Stages

LEMMA PeerKeepsTypes ==
    ASSUME IInv, IInv', TypeOK, NEW p \in Peers,
           Peer(p) \/ PeerRequest(p) \/ PeerCancel(p)
    PROVE  TypeOK'
<1>1. UNCHANGED localVars
  BY DEF Peer, PeerStart, PeerSendKey, PeerCheckKey, Confirm, PeerCheckMac,
         PeerDone, PeerDrop, PeerRequest, PeerCancel
<1>2. toPeer[p] # <<>> => /\ Head(toPeer[p]).sas \in SasIds \cup {Null}
                          /\ Head(toPeer[p]).bound \in Txns \cup {Null}
  <2> SUFFICES ASSUME toPeer[p] # <<>>
               PROVE  Head(toPeer[p]) \in Message
    BY DEF Message
  <2>1. toPeer[p] \in Seq(Message)
    BY DEF IInv, TypeInv
  <2> QED
    BY <2>1, EmptySeq
<1>3. commitment' \in [Peers -> (SasIds \cup {Null}) \X (Txns \cup {Null})]
  <2>1. CASE PeerSendKey(p)
    <3>1. commitment' = [commitment EXCEPT ![p] = <<Head(toPeer[p]).sas,
                                                   Head(toPeer[p]).bound>>]
      BY <2>1 DEF PeerSendKey
    <3>2. <<Head(toPeer[p]).sas, Head(toPeer[p]).bound>>
             \in (SasIds \cup {Null}) \X (Txns \cup {Null})
      BY <1>2, <2>1 DEF PeerSendKey, Receive
    <3> QED
      BY <3>1, <3>2 DEF TypeOK
  <2>2. CASE PeerRequest(p)
    BY <2>2 DEF PeerRequest, TypeOK
  <2>3. CASE ~PeerSendKey(p) /\ ~PeerRequest(p)
    BY <2>3 DEF Peer, PeerStart, PeerCheckKey, Confirm, PeerCheckMac, PeerDone,
                PeerDrop, PeerCancel, TypeOK, peerVars
  <2> QED
    BY <2>1, <2>2, <2>3
<1>4. sasKey' \in [Peers -> SasIds \cup {Null}]
  BY <1>2 DEF Peer, PeerStart, PeerSendKey, PeerCheckKey, Confirm, PeerCheckMac,
         PeerDone, PeerDrop, PeerRequest, PeerCancel, TypeOK, Receive, peerVars
<1>5. confirms' \subseteq Txns
  <2>1. stage[p] = "comparing" => Txn(p) \in Txns
    BY VerificationAssumption, SMTT(30) DEF IInv, TypeInv, Txn, Txns
  <2>2. CASE Confirm(p)
    <3>1. confirms' = confirms \cup {Txn(p)} \/ confirms' = confirms
      BY <2>2 DEF Confirm
    <3>2. stage[p] = "comparing"
      BY <2>2 DEF Confirm
    <3> QED
      BY <2>1, <3>1, <3>2, ZenonT(60) DEF TypeOK
  <2>3. CASE ~Confirm(p)
    <3>1. confirms' = confirms
      BY <2>3 DEF Peer, PeerStart, PeerSendKey, PeerCheckKey, PeerCheckMac,
                  PeerDone, PeerDrop, PeerRequest, PeerCancel, peerVars
    <3> QED
      BY <3>1 DEF TypeOK
  <2> QED
    BY <2>2, <2>3
<1>6. overlap' \in BOOLEAN
  BY DEF Peer, PeerStart, PeerSendKey, PeerCheckKey, Confirm, PeerCheckMac,
         PeerDone, PeerDrop, PeerRequest, PeerCancel, TypeOK, peerVars
<1> QED
  BY <1>1, <1>3, <1>4, <1>5, <1>6
  DEF TypeOK, IInv, TypeInv, Stages, localVars, clientVars, syncVars

\* The variables keep their types; the attempts of a peer never exceed the
\* requests made, and the code shown is always of a transaction.
THEOREM TypeCorrect == Spec => []TypeOK
<1>1. Init => TypeOK /\ NothingToAnswer
  <2>1. 0 \in 0 .. MaxAttempts
    BY VerificationAssumption
  <2> SUFFICES ASSUME Init PROVE TypeOK /\ NothingToAnswer
    OBVIOUS
  <2>2. /\ attempt \in [Peers -> 0 .. requests] /\ requests \in 0 .. MaxAttempts
        /\ stage \in [Peers -> Waiting \cup {"idle", "cancelled", "done"}]
        /\ toPeer \in [Peers -> Seq(Message)] /\ sasKey \in [Peers -> SasIds \cup {Null}]
        /\ commitment \in [Peers -> (SasIds \cup {Null}) \X (Txns \cup {Null})]
    BY <2>1 DEF Init
  <2>3. TypeOK
    BY <2>2, InvInit DEF Init, TypeOK, IInv, TypeInv
  <2>4. NothingToAnswer
    BY DEF Init, NothingToAnswer
  <2> QED
    BY <2>3, <2>4
<1>2. IInv /\ IInv' /\ NothingToAnswer /\ TypeOK /\ [Next]_vars => TypeOK'
  <2> SUFFICES ASSUME IInv, IInv', NothingToAnswer, TypeOK, [Next]_vars
               PROVE  TypeOK'
    OBVIOUS
  <2>1. CASE UNCHANGED vars
    BY <2>1 DEF vars, localVars, clientVars, syncVars, peerVars, TypeOK
  <2>2. CASE Sync \/ SyncAgain
    BY <2>2, Fetched, ZenonT(60) DEF IInv, TypeOK, clientVars, peerVars
  <2> QED
    BY <2>1, <2>2, ClientKeepsTypes, PeerKeepsTypes DEF Next, Client
<1>3. IInv /\ NothingToAnswer /\ [Next]_vars => NothingToAnswer'
  BY NothingToAnswerStep
<1> QED
  BY <1>1, <1>2, <1>3, InvInit, InvStep, PTL DEF Spec


-----------------------------------------------------------------------------
(* One verification at a time                                              *)

\* No event, reply or transaction is of an attempt still to come.
Made(txn) == txn[2] <= attempt[txn[1]]

NoneAhead ==
    /\ \A n \in DOMAIN inbox : Made(inbox[n].txn)
    /\ \A n \in DOMAIN answer : Made(answer[n].txn)
    /\ \A p \in Peers : \A n \in DOMAIN toPeer[p] :
         toPeer[p][n].txn # Null => Made(toPeer[p][n].txn)
    /\ transactionId # Null => Made(transactionId)

Asking(p) == stage[p] \in Waiting

OneAsks == \A p, q \in Peers : Asking(p) /\ Asking(q) => p = q

NoneLive == \A s \in DOMAIN sasObjects : ~sasObjects[s].live

\* The event a peer has posted to get to its stage.
EventAt(s) == CASE s = "started"   -> "start"
                [] s = "keyed"     -> "key"
                [] s = "confirmed" -> "mac"
                [] OTHER           -> "none"

\* What the client may have sent in a transaction before it handles the
\* peer's event, and once it has handled it.
SentBefore(s) ==
    CASE s = "started" -> {"ready"}
      [] s = "keyed"   -> {"ready", "accept"}
      [] OTHER         -> {"ready", "accept", "key"}

SentAfter(s) ==
    CASE s = "requested"              -> {"ready"}
      [] s = "started"                -> {"ready", "accept"}
      [] s \in {"keyed", "comparing"} -> {"ready", "accept", "key"}
      [] OTHER                        -> {"ready", "accept", "key", "mac", "done"}

Within(p, types) ==
    \A n \in DOMAIN toPeer[p] :
        toPeer[p][n].txn = Txn(p) => toPeer[p][n].type \in types

\* The peer's request is the last event; nothing else is of its attempt.
Coming(p) ==
    /\ stage[p] = "requested"
    /\ inbox # <<>>
    /\ inbox[Len(inbox)] = [type |-> "request", txn |-> Txn(p)]
    /\ \A n \in DOMAIN inbox : inbox[n].txn = Txn(p) => n = Len(inbox)
    /\ transactionId # Txn(p)
    /\ Within(p, {})

\* The client is in the peer's transaction, and its event is the only one.
Posed(p) ==
    /\ transactionId = Txn(p)
    /\ stage[p] \in {"started", "keyed", "confirmed"}
    /\ inbox = << [type |-> EventAt(stage[p]), txn |-> Txn(p)] >>
    /\ Within(p, SentBefore(stage[p]))

\* The client is in the peer's transaction and has handled all of its events.
Answered(p) ==
    /\ transactionId = Txn(p)
    /\ inbox = <<>>
    /\ Within(p, SentAfter(stage[p]))
    /\ stage[p] = "requested" => NoneLive
    /\ stage[p] \in {"started", "keyed", "comparing"} => Live(olmSas)

Turns == \A p \in Peers : Asking(p) => Coming(p) \/ Posed(p) \/ Answered(p)

\* Only the first event may be other than a request, and what it needs of the
\* statics is there: its transaction, and a live SAS object from start on.
FrontFits ==
    \A n \in DOMAIN inbox : inbox[n].type # "request" =>
        /\ n = 1
        /\ inbox[n].txn = transactionId
        /\ inbox[n].type = "start" => NoneLive
        /\ inbox[n].type # "start" => Live(olmSas)

OneLive == \A s \in DOMAIN sasObjects : sasObjects[s].live => olmSas = s

Vouched ==
    \A p \in Peers : \A i \in DOMAIN toPeer[p] :
        toPeer[p][i].type \in {"mac", "done"} => toPeer[p][i].txn \in confirms

\* A request in the inbox after one that was handled, or after another one, is
\* the second at least; only then an object can be freed twice.
IsRequest(n) == n \in DOMAIN inbox /\ inbox[n].type = "request"

RequestsCounted ==
    /\ olmSas # Null => transactionId # Null
    /\ transactionId # Null => requests >= 1
    /\ \A n \in DOMAIN inbox : IsRequest(n) =>
         /\ requests >= 1
         /\ transactionId # Null => requests >= 2
         /\ \A m \in DOMAIN inbox : IsRequest(m) /\ m # n => requests >= 2

FaultsLate ==
    /\ "used" \notin fault
    /\ fault # {} => requests >= 2

InTurn ==
    /\ OneAsks
    /\ Turns
    /\ FrontFits
    /\ OneLive
    /\ Vouched
    /\ RequestsCounted
    /\ FaultsLate

OrderInv ==
    /\ NothingToAnswer
    /\ NoneAhead
    /\ InOrder => InTurn

(* What the client sends and takes, more precisely                         *)

\* Every reply this step adds is in the current transaction.
Adds(types) ==
    \A q \in Peers : \A n \in DOMAIN toPeer'[q] :
        \/ n \in DOMAIN toPeer[q] /\ toPeer'[q][n] = toPeer[q][n]
        \/ toPeer'[q][n].txn = transactionId' /\ toPeer'[q][n].type \in types

LEMMA SentAdds ==
    ASSUME IInv, NEW S, NEW types, NEW p, NEW msgs \in Seq(S), Send(p, msgs),
           \A m \in S : m.txn = transactionId' /\ m.type \in types
    PROVE  Adds(types)
<1>1. PICK arrived \in IF LossyPut
                       THEN {<<>>, msgs} \cup
                            { <<m>> : m \in { msgs[n] : n \in DOMAIN msgs } }
                       ELSE {msgs} :
        toPeer' = [toPeer EXCEPT ![p] = @ \o arrived]
  BY DEF Send
<1>2. arrived \in Seq(S)
  <2>1. CASE arrived = <<>>
    BY <2>1
  <2>2. CASE arrived = msgs
    BY <2>2
  <2>3. ASSUME NEW m \in DOMAIN msgs, arrived = <<msgs[m]>>
        PROVE  arrived \in Seq(S)
    BY <2>3
  <2> QED
    BY <1>1, <2>1, <2>2, <2>3
<1>3. toPeer \in [Peers -> Seq(Message)]
  BY DEF IInv, TypeInv
<1> SUFFICES ASSUME NEW q \in Peers, NEW n \in DOMAIN toPeer'[q]
             PROVE  \/ n \in DOMAIN toPeer[q] /\ toPeer'[q][n] = toPeer[q][n]
                    \/ toPeer'[q][n] \in S
  BY DEF Adds
<1>4. CASE q # p
  BY <1>1, <1>3, <1>4
<1>5. CASE q = p
  <2>1. toPeer'[q] = toPeer[q] \o arrived /\ toPeer[q] \in Seq(Message)
    BY <1>1, <1>3, <1>5
  <2>2. \/ n \in DOMAIN toPeer[q] /\ toPeer'[q][n] = toPeer[q][n]
        \/ /\ n - Len(toPeer[q]) \in DOMAIN arrived
           /\ toPeer'[q][n] = arrived[n - Len(toPeer[q])]
    BY <1>2, <2>1
  <2> QED
    BY <1>2, <2>2
<1> QED
  BY <1>4, <1>5

LEMMA ClientAdds ==
    ASSUME IInv
    PROVE  /\ HandleRequest => Adds({"ready"})
           /\ HandleStart => Adds({"accept"})
           /\ HandleKey => Adds({"key"})
           /\ HandleMac => Adds({"mac", "done"})
<1>1. ASSUME HandleRequest PROVE Adds({"ready"})
  <2> DEFINE m == Msg("ready", transactionId', Null, Null, TRUE)
             S == {m}
  <2>1. \A x \in S : x.txn = transactionId' /\ x.type \in {"ready"}
    BY DEF Msg
  <2>2. Send(verifyFrom', <<m>>)
    BY <1>1 DEF HandleRequest
  <2> HIDE DEF m
  <2>3. <<m>> \in Seq(S)
    OBVIOUS
  <2> HIDE DEF S
  <2> QED
    BY <2>1, <2>2, <2>3, SentAdds
<1>2. ASSUME HandleStart PROVE Adds({"accept"})
  <2> DEFINE m == Msg("accept", transactionId, olmSas', Head(inbox).txn, TRUE)
             S == {m}
  <2>1. \A x \in S : x.txn = transactionId' /\ x.type \in {"accept"}
    BY <1>2 DEF Msg, HandleStart
  <2>2. Send(verifyFrom, <<m>>)
    BY <1>2 DEF HandleStart
  <2> HIDE DEF m
  <2>3. <<m>> \in Seq(S)
    OBVIOUS
  <2> HIDE DEF S
  <2> QED
    BY <2>1, <2>2, <2>3, SentAdds
<1>3. ASSUME HandleKey PROVE Adds({"key"})
  <2>1. PICK ours \in Read(olmSas, olmSas) :
          Send(verifyFrom, <<Msg("key", transactionId, ours, Null, TRUE)>>)
    BY <1>3 DEF HandleKey
  <2> DEFINE m == Msg("key", transactionId, ours, Null, TRUE)
             S == {m}
  <2>2. \A x \in S : x.txn = transactionId' /\ x.type \in {"key"}
    BY <1>3 DEF Msg, HandleKey
  <2>3. Send(verifyFrom, <<m>>)
    BY <2>1
  <2> HIDE DEF m
  <2>4. <<m>> \in Seq(S)
    OBVIOUS
  <2> HIDE DEF S
  <2> QED
    BY <2>2, <2>3, <2>4, SentAdds
<1>4. ASSUME HandleMac PROVE Adds({"mac", "done"})
  <2>1. PICK bound \in Read(olmSas, sasObjects[olmSas].theirKey),
             keysOk \in IF MayLackMasterKey THEN BOOLEAN ELSE {TRUE} :
          Send(verifyFrom, <<Msg("mac", transactionId, olmSas, bound, keysOk),
                             Msg("done", transactionId, Null, Null, TRUE)>>)
    BY <1>4 DEF HandleMac
  <2> DEFINE m1 == Msg("mac", transactionId, olmSas, bound, keysOk)
             m2 == Msg("done", transactionId, Null, Null, TRUE)
  <2>2. \A m \in {m1, m2} : m.txn = transactionId' /\ m.type \in {"mac", "done"}
    BY <1>4 DEF Msg, HandleMac
  <2>3. Send(verifyFrom, <<m1, m2>>)
    BY <2>1
  <2> HIDE DEF m1, m2
  <2>4. <<m1, m2>> \in Seq({m1, m2})
    OBVIOUS
  <2> QED
    BY <2>2, <2>3, <2>4, SentAdds, ZenonT(60)
<1> QED
  BY <1>1, <1>2, <1>3, <1>4

LEMMA EventTaken ==
    ASSUME NEW type, Handle(type), inbox \in Seq(Event), fetched \in 0 .. Len(inbox)
    PROVE  /\ Len(inbox) \in Nat \ {0} /\ DOMAIN inbox = 1 .. Len(inbox)
           /\ Head(inbox) = inbox[1] /\ inbox[1].type = type
           /\ DOMAIN inbox' = 1 .. Len(inbox) - 1
           /\ Len(inbox') = Len(inbox) - 1
           /\ \A n \in DOMAIN inbox' :
                n + 1 \in DOMAIN inbox /\ inbox'[n] = inbox[n + 1]
           /\ Len(inbox) = 1 => inbox' = <<>>
           /\ Len(inbox) > 1 => inbox' # <<>>
<1>1. /\ inbox' = Tail(inbox) /\ Len(inbox) \in Nat \ {0}
      /\ Head(inbox) = inbox[1] /\ inbox[1].type = type
  BY EmptySeq DEF Handle, Take
<1>2. /\ inbox' \in Seq(Event) /\ Len(inbox') = Len(inbox) - 1
      /\ \A n \in 1 .. Len(inbox) - 1 : inbox'[n] = inbox[n + 1]
  BY <1>1
<1>3. \A n \in DOMAIN inbox' :
        n + 1 \in DOMAIN inbox /\ inbox'[n] = inbox[n + 1]
  BY <1>1, <1>2
<1>4. (Len(inbox) = 1 => inbox' = <<>>) /\ (Len(inbox) > 1 => inbox' # <<>>)
  <2>1. inbox' = <<>> <=> Len(inbox') = 0
    BY <1>2, EmptySeq
  <2> QED
    BY <1>1, <1>2, <2>1
<1>5. DOMAIN inbox = 1 .. Len(inbox) /\ DOMAIN inbox' = 1 .. Len(inbox) - 1
  BY <1>1, <1>2
<1> QED
  BY <1>1, <1>2, <1>3, <1>4, <1>5

LEMMA EventPosted ==
    ASSUME NEW type, NEW txn, [type |-> type, txn |-> txn] \in Event,
           Post(type, txn), inbox \in Seq(Event)
    PROVE  /\ Len(inbox) \in Nat /\ DOMAIN inbox = 1 .. Len(inbox)
           /\ inbox' # <<>> /\ Len(inbox') = Len(inbox) + 1
           /\ DOMAIN inbox' = 1 .. Len(inbox) + 1
           /\ \A n \in DOMAIN inbox : inbox'[n] = inbox[n]
           /\ inbox'[Len(inbox) + 1] = [type |-> type, txn |-> txn]
<1> DEFINE event == [type |-> type, txn |-> txn]
<1>1. inbox' = Append(inbox, event) /\ event \in Event
  BY DEF Post
<1> HIDE DEF event
<1>2. /\ inbox' \in Seq(Event) /\ Len(inbox') = Len(inbox) + 1
      /\ \A n \in 1 .. Len(inbox) : inbox'[n] = inbox[n]
      /\ inbox'[Len(inbox) + 1] = event
  BY <1>1
<1> QED
  BY <1>2, EmptySeq DEF event

-----------------------------------------------------------------------------

\* What an event handled says of the client's state, while it is in turn.
LEMMA EventFits ==
    ASSUME IInv, OrderInv, InOrder,
           NEW type \in {"start", "key", "mac"}, Handle(type)
    PROVE  /\ inbox[1].txn = transactionId /\ transactionId # Null
           /\ type = "start" => NoneLive
           /\ type # "start" => Live(olmSas)
           /\ type = "mac" => transactionId \in confirms
           /\ \A n \in DOMAIN inbox' : inbox'[n].type = "request"
<1>1. inbox \in Seq(Event) /\ fetched \in 0 .. Len(inbox) /\ InTurn
  BY DEF IInv, TypeInv, OrderInv
<1>2. 1 \in DOMAIN inbox /\ inbox[1].type = type
  BY <1>1, EventTaken
<1>3. \A n \in DOMAIN inbox' : inbox'[n].type = "request"
  <2> SUFFICES ASSUME NEW n \in DOMAIN inbox' PROVE inbox'[n].type = "request"
    OBVIOUS
  <2>1. n + 1 \in DOMAIN inbox /\ inbox'[n] = inbox[n + 1] /\ n + 1 # 1
    BY <1>1, EventTaken
  <2> QED
    BY <1>1, <2>1 DEF InTurn, FrontFits
<1> QED
  BY <1>1, <1>2, <1>3 DEF InTurn, FrontFits, OrderInv, NothingToAnswer, IInv,
                          MacsConfirmed

\* Handling an event takes the counts on: fewer requests wait than before.
LEMMA CountsStay ==
    ASSUME IInv, OrderInv, InOrder,
           NEW type, Handle(type), UNCHANGED requests,
           \/ transactionId' = transactionId
           \/ type = "request" /\ transactionId' \in Txns,
           olmSas' # Null => transactionId # Null
    PROVE  RequestsCounted'
<1>1. /\ inbox \in Seq(Event) /\ fetched \in 0 .. Len(inbox)
      /\ RequestsCounted /\ requests \in Nat
  BY VerificationAssumption DEF IInv, TypeInv, OrderInv, InTurn
<1>2. /\ 1 \in DOMAIN inbox /\ inbox[1].type = type
      /\ DOMAIN inbox' = 1 .. Len(inbox) - 1 /\ Len(inbox) \in Nat
      /\ \A n \in DOMAIN inbox' :
           n + 1 \in DOMAIN inbox /\ inbox'[n] = inbox[n + 1]
  BY <1>1, EventTaken
<1>3. Null \notin Txns
  BY VerificationAssumption DEF Txns
<1>4. transactionId' # Null => requests' >= 1
  BY <1>1, <1>2 DEF RequestsCounted, IsRequest
<1>5. olmSas' # Null => transactionId' # Null
  BY <1>3
<1>6. ASSUME NEW n \in DOMAIN inbox', inbox'[n].type = "request"
      PROVE  /\ requests >= 1
             /\ transactionId' # Null => requests >= 2
             /\ \A m \in DOMAIN inbox' :
                  inbox'[m].type = "request" /\ m # n => requests >= 2
  <2>1. /\ n + 1 \in DOMAIN inbox /\ inbox[n + 1].type = "request"
        /\ n + 1 # 1 /\ IsRequest(n + 1)
    BY <1>2, <1>6 DEF IsRequest
  <2>2. transactionId' # Null => requests >= 2
    <3>1. CASE type = "request"
      <4>1. IsRequest(1)
        BY <1>2, <3>1 DEF IsRequest
      <4> QED
        BY <1>1, <1>2, <2>1, <4>1 DEF RequestsCounted
    <3>2. CASE transactionId' = transactionId
      BY <1>1, <2>1, <3>2 DEF RequestsCounted
    <3> QED
      BY <3>1, <3>2
  <2>3. ASSUME NEW m \in DOMAIN inbox', inbox'[m].type = "request", m # n
        PROVE  requests >= 2
    <3>1. m + 1 \in DOMAIN inbox /\ IsRequest(m + 1) /\ m + 1 # n + 1
      BY <1>2, <2>3 DEF IsRequest
    <3> QED
      BY <1>1, <2>1, <3>1 DEF RequestsCounted
  <2> QED
    BY <1>1, <2>1, <2>2, <2>3 DEF RequestsCounted
<1> QED
  BY <1>4, <1>5, <1>6 DEF RequestsCounted, IsRequest

\* start, key or mac in turn, answered in the transaction of the statics.
LEMMA ReplyKeepsTurn ==
    ASSUME IInv, OrderInv, InOrder,
           NEW type \in {"start", "key", "mac"}, Handle(type),
           NEW types, Adds(types),
           \/ type = "start" /\ types = {"accept"}
           \/ type = "key" /\ types = {"key"}
           \/ type = "mac" /\ types = {"mac", "done"},
           UNCHANGED <<transactionId, stage, attempt, requests, confirms, fault>>,
           OneLive', type # "mac" => Live(olmSas)'
    PROVE  InTurn'
<1>1. /\ inbox \in Seq(Event) /\ fetched \in 0 .. Len(inbox) /\ OneAsks /\ Turns /\ FrontFits /\ Vouched
      /\ FaultsLate
  BY DEF IInv, TypeInv, OrderInv, InTurn
<1>2. /\ inbox[1].type = type
      /\ DOMAIN inbox = 1 .. Len(inbox) /\ Len(inbox) \in Nat \ {0}
      /\ DOMAIN inbox' = 1 .. Len(inbox) - 1 /\ Len(inbox') = Len(inbox) - 1
      /\ \A n \in DOMAIN inbox' :
           n + 1 \in DOMAIN inbox /\ inbox'[n] = inbox[n + 1]
      /\ Len(inbox) = 1 => inbox' = <<>>
      /\ Len(inbox) > 1 => inbox' # <<>>
  BY <1>1, EventTaken
<1>3. /\ inbox[1].txn = transactionId /\ transactionId # Null
      /\ type = "mac" => transactionId \in confirms
      /\ \A n \in DOMAIN inbox' : inbox'[n].type = "request"
  BY EventFits
<1>4. \A p \in Peers : Txn(p)' = Txn(p)
  BY DEF Txn
<1>5. ASSUME NEW p \in Peers, Asking(p)'
      PROVE  (Coming(p) \/ Posed(p) \/ Answered(p))'
  <2>1. Asking(p) /\ stage'[p] = stage[p]
    BY <1>5 DEF Asking
  <2>2. CASE Coming(p)
    <3>1. Len(inbox) > 1 /\ inbox' # <<>>
      BY <1>2, <2>2 DEF Coming
    <3>2. inbox'[Len(inbox')] = [type |-> "request", txn |-> Txn(p)]
      BY <1>2, <2>2, <3>1 DEF Coming
    <3>3. \A n \in DOMAIN inbox' : inbox'[n].txn = Txn(p) => n = Len(inbox')
      BY <1>2, <2>2 DEF Coming
    <3>4. transactionId # Txn(p) /\ stage'[p] = "requested"
      BY <2>1, <2>2 DEF Coming
    <3>5. \A n \in DOMAIN toPeer'[p] : toPeer'[p][n].txn # Txn(p)
      BY <2>2, <3>4 DEF Coming, Within, Adds
    <3> QED
      BY <1>4, <3>1, <3>2, <3>3, <3>4, <3>5 DEF Coming, Within
  <2>3. CASE Answered(p)
    BY <1>2, <2>3 DEF Answered
  <2>4. CASE Posed(p)
    <3>1. /\ Len(inbox) = 1 /\ inbox[1].type = EventAt(stage[p]) /\ inbox' = <<>>
          /\ stage[p] \in {"started", "keyed", "confirmed"}
      BY <1>2, <2>4 DEF Posed
    <3>2. /\ stage[p] = "started" => type = "start"
          /\ stage[p] = "keyed" => type = "key"
          /\ stage[p] = "confirmed" => type = "mac"
      BY <1>2, <3>1 DEF EventAt
    <3>3. ASSUME NEW n \in DOMAIN toPeer'[p], toPeer'[p][n].txn = Txn(p)
          PROVE  toPeer'[p][n].type \in SentAfter(stage[p])
      <4>1. CASE n \in DOMAIN toPeer[p] /\ toPeer'[p][n] = toPeer[p][n]
        <5>1. toPeer'[p][n].type \in SentBefore(stage[p])
          BY <2>4, <3>3, <4>1 DEF Posed, Within
        <5> QED
          BY <3>1, <5>1 DEF SentBefore, SentAfter
      <4>2. CASE toPeer'[p][n].type \in types
        BY <3>1, <3>2, <4>2 DEF SentAfter
      <4> QED
        BY <4>1, <4>2 DEF Adds
    <3>4. stage[p] \in {"started", "keyed", "comparing"} => Live(olmSas)'
      BY <3>1, <3>2
    <3>5. transactionId' = Txn(p)'
      BY <1>4, <2>4 DEF Posed
    <3> QED
      BY <1>4, <2>1, <3>1, <3>3, <3>4, <3>5 DEF Answered, Within
  <2> QED
    BY <1>1, <2>1, <2>2, <2>3, <2>4 DEF Turns
<1>6. OneAsks' /\ Turns'
  BY <1>1, <1>5 DEF OneAsks, Asking, Turns
<1>7. FrontFits'
  BY <1>3 DEF FrontFits
<1>8. Vouched'
  BY <1>1, <1>3 DEF Vouched, Adds
<1>9. RequestsCounted'
  BY <1>3, CountsStay
<1> QED
  BY <1>1, <1>6, <1>7, <1>8, <1>9 DEF InTurn, FaultsLate

\* free() leaves no object but others than olmSas's, so none.
LEMMA FreedNoneLive ==
    ASSUME TypeInv, OneLive, olmSas \in DOMAIN sasObjects, olmSas # Null,
           Free(olmSas)
    PROVE  /\ NoneLive'
           /\ Live(olmSas) => fault' = fault
           /\ fault' = fault \/ fault' = fault \cup {"freed twice"}
<1>1. CASE Live(olmSas)
  <2>1. sasObjects' = [sasObjects EXCEPT ![olmSas].live = FALSE] /\ fault' = fault
    BY <1>1 DEF Free
  <2>2. \A n \in DOMAIN sasObjects : sasObjects[n] \in SasObject
    BY DEF TypeInv
  <2>3. sasObjects'[olmSas].live = FALSE
    BY <2>1, <2>2 DEF SasObject
  <2>4. \A n \in DOMAIN sasObjects' : n # olmSas => ~sasObjects'[n].live
    BY <2>1 DEF OneLive
  <2> QED
    BY <2>1, <2>3, <2>4 DEF NoneLive
<1>2. CASE ~Live(olmSas)
  BY <1>2 DEF Free, OneLive, NoneLive, Live
<1> QED
  BY <1>1, <1>2

LEMMA RequestKeepsTurn ==
    ASSUME IInv, OrderInv, InOrder, HandleRequest PROVE InTurn'
<1> DEFINE e == inbox[1]
<1>1. /\ Handle("request") /\ Adds({"ready"}) /\ transactionId' = Head(inbox).txn
      /\ UNCHANGED <<olmSas, stage, attempt, requests, confirms>> /\ DropOldSas
      /\ Head(inbox) \in Event
  BY ClientAdds, HandledKeeps DEF HandleRequest, TransactionOf, peerVars
<1>2. /\ inbox \in Seq(Event) /\ fetched \in 0 .. Len(inbox) /\ OneAsks /\ Turns /\ FrontFits /\ OneLive
      /\ Vouched /\ RequestsCounted /\ FaultsLate
  BY DEF IInv, TypeInv, OrderInv, InTurn
<1>3. /\ e.type = "request" /\ transactionId' = e.txn /\ e.txn \in Txns
      /\ DOMAIN inbox = 1 .. Len(inbox) /\ Len(inbox) \in Nat \ {0}
      /\ DOMAIN inbox' = 1 .. Len(inbox) - 1 /\ Len(inbox') = Len(inbox) - 1
      /\ \A n \in DOMAIN inbox' :
           n + 1 \in DOMAIN inbox /\ inbox'[n] = inbox[n + 1]
      /\ Len(inbox) = 1 => inbox' = <<>>
      /\ Len(inbox) > 1 => inbox' # <<>>
  BY <1>1, <1>2, EventTaken DEF Event
<1>4. /\ NoneLive' /\ "used" \notin fault'
      /\ fault' = fault \/ requests >= 2
  <2>1. CASE olmSas = Null
    <3>1. UNCHANGED <<sasObjects, fault>>
      BY <1>1, <2>1 DEF DropOldSas
    <3>2. Null \notin DOMAIN sasObjects
      BY VerificationAssumption DEF IInv, TypeInv
    <3> QED
      BY <1>2, <2>1, <3>1, <3>2 DEF OneLive, NoneLive, FaultsLate
  <2>2. CASE olmSas # Null
    <3>1. TypeInv /\ Free(olmSas) /\ olmSas \in DOMAIN sasObjects
      BY <1>1, <2>2 DEF DropOldSas, IInv, TypeInv
    <3>2. requests >= 2
      BY <1>2, <1>3, <2>2 DEF RequestsCounted, IsRequest
    <3>3. /\ NoneLive'
          /\ fault' = fault \/ fault' = fault \cup {"freed twice"}
      BY <1>2, <2>2, <3>1, FreedNoneLive
    <3> QED
      BY <1>2, <3>2, <3>3 DEF FaultsLate
  <2> QED
    BY <2>1, <2>2
<1>5. \A p \in Peers : Txn(p)' = Txn(p)
  BY <1>1 DEF Txn
<1>6. ASSUME NEW p \in Peers, Asking(p)'
      PROVE  (Coming(p) \/ Posed(p) \/ Answered(p))'
  <2>1. Asking(p) /\ stage'[p] = stage[p]
    BY <1>1, <1>6 DEF Asking
  <2>2. ~Answered(p) /\ ~Posed(p)
    BY <1>3 DEF Answered, Posed, EventAt
  <2>3. Coming(p) /\ stage'[p] = "requested"
    BY <1>2, <2>1, <2>2 DEF Turns, Coming
  <2>4. CASE Len(inbox) = 1
    <3>1. inbox' = <<>> /\ transactionId' = Txn(p)
      BY <1>3, <2>3, <2>4 DEF Coming
    <3>2. Within(p, {"ready"})'
      BY <1>1, <1>5, <2>3 DEF Within, Coming, Adds
    <3> QED
      BY <1>4, <1>5, <2>3, <3>1, <3>2 DEF Answered, SentAfter
  <2>5. CASE Len(inbox) > 1
    <3>1. inbox' # <<>>
          /\ inbox'[Len(inbox')] = [type |-> "request", txn |-> Txn(p)]
      BY <1>3, <2>3, <2>5 DEF Coming
    <3>2. \A n \in DOMAIN inbox' : inbox'[n].txn = Txn(p) => n = Len(inbox')
      BY <1>3, <2>3 DEF Coming
    <3>3. transactionId' # Txn(p)
      BY <1>3, <2>3, <2>5 DEF Coming
    <3>4. \A n \in DOMAIN toPeer'[p] : toPeer'[p][n].txn # Txn(p)
      BY <1>1, <2>3, <3>3 DEF Coming, Within, Adds
    <3> QED
      BY <1>5, <2>3, <3>1, <3>2, <3>3, <3>4 DEF Coming, Within
  <2> QED
    BY <1>3, <2>4, <2>5
<1>7. OneAsks' /\ Turns'
  BY <1>1, <1>2, <1>6 DEF OneAsks, Asking, Turns
<1>8. FrontFits'
  <2>1. \A n \in DOMAIN inbox' : inbox'[n].type = "request"
    BY <1>2, <1>3 DEF FrontFits
  <2> QED
    BY <2>1 DEF FrontFits
<1>9. Vouched' /\ OneLive'
  BY <1>1, <1>2, <1>4 DEF Vouched, Adds, OneLive, NoneLive
<1>10. RequestsCounted'
  <2>1. olmSas' # Null => transactionId # Null
    BY <1>1, <1>2 DEF RequestsCounted
  <2> QED
    BY <1>1, <1>3, <2>1, CountsStay
<1>11. FaultsLate'
  BY <1>1, <1>2, <1>4 DEF FaultsLate
<1> QED
  BY <1>7, <1>8, <1>9, <1>10, <1>11 DEF InTurn

LEMMA StartKeepsTurn ==
    ASSUME IInv, OrderInv, InOrder, HandleStart PROVE InTurn'
<1>1. /\ Handle("start") /\ Adds({"accept"})
      /\ UNCHANGED <<transactionId, stage, attempt, requests, confirms, fault>>
  BY ClientAdds DEF HandleStart, peerVars
<1>2. NoneLive /\ sasObjects \in Seq(SasObject)
  BY <1>1, EventFits DEF IInv, TypeInv
<1>3. /\ Len(sasObjects) \in Nat /\ DOMAIN sasObjects' = 1 .. Len(sasObjects) + 1
      /\ \A n \in 1 .. Len(sasObjects) : sasObjects'[n] = sasObjects[n]
      /\ sasObjects'[Len(sasObjects) + 1].live
      /\ olmSas' = Len(sasObjects) + 1
  <2> DEFINE fresh == [live |-> TRUE, theirKey |-> Null]
  <2>1. fresh \in SasObject /\ fresh.live
    BY DEF SasObject
  <2>2. sasObjects' = Append(sasObjects, fresh) /\ olmSas' = Len(sasObjects')
    BY DEF HandleStart, NewSas
  <2> HIDE DEF fresh
  <2> QED
    BY <1>2, <2>1, <2>2
<1>4. OneLive'
  BY <1>2, <1>3 DEF OneLive, NoneLive
<1>5. Live(olmSas)'
  BY <1>3, VerificationAssumption DEF Live
<1> QED
  BY <1>1, <1>4, <1>5, ReplyKeepsTurn

LEMMA KeyKeepsTurn ==
    ASSUME IInv, OrderInv, InOrder, HandleKey PROVE InTurn'
<1>1. /\ Handle("key") /\ Adds({"key"})
      /\ UNCHANGED <<transactionId, olmSas, stage, attempt, requests, confirms>>
  BY ClientAdds DEF HandleKey, peerVars
<1>2. Live(olmSas) /\ olmSas # Null /\ TypeInv /\ OneLive
  BY <1>1, EventFits DEF Live, IInv, OrderInv, InTurn
<1>3. fault' = fault
  BY <1>2 DEF HandleKey
<1>4. PICK theirs : sasObjects' = [sasObjects EXCEPT ![olmSas].theirKey = theirs]
  BY DEF HandleKey
<1>5. /\ DOMAIN sasObjects' = DOMAIN sasObjects
      /\ \A n \in DOMAIN sasObjects : sasObjects'[n].live = sasObjects[n].live
  <2>1. \A n \in DOMAIN sasObjects : sasObjects[n] \in SasObject
    BY <1>2 DEF TypeInv
  <2> QED
    BY <1>2, <1>4, <2>1 DEF SasObject, TypeInv
<1>6. OneLive' /\ Live(olmSas)'
  BY <1>1, <1>2, <1>5 DEF OneLive, Live, TypeInv
<1> QED
  BY <1>1, <1>3, <1>6, ReplyKeepsTurn

LEMMA MacKeepsTurn ==
    ASSUME IInv, OrderInv, InOrder, HandleMac PROVE InTurn'
<1>1. /\ Handle("mac") /\ Adds({"mac", "done"}) /\ Free(olmSas)
      /\ UNCHANGED <<transactionId, olmSas, stage, attempt, requests, confirms>>
  BY ClientAdds DEF HandleMac, peerVars
<1>2. Live(olmSas) /\ olmSas # Null /\ TypeInv /\ OneLive
  BY <1>1, EventFits DEF Live, IInv, OrderInv, InTurn
<1>3. fault' = fault /\ NoneLive'
  BY <1>1, <1>2, FreedNoneLive DEF TypeInv
<1>4. OneLive'
  BY <1>3 DEF OneLive, NoneLive
<1> QED
  BY <1>1, <1>3, <1>4, ReplyKeepsTurn

\* A step of the peer that asks: what it takes was for it, nobody else asks,
\* and the client's state stays.
LEMMA AskingKeepsTurn ==
    ASSUME IInv, OrderInv, InOrder, NEW p \in Peers, Asking(p), UNCHANGED localVars,
           UNCHANGED <<attempt, requests>>, confirms \subseteq confirms',
           NEW s \in Stages, stage' = [stage EXCEPT ![p] = s],
           \A q \in Peers : \A n \in DOMAIN toPeer'[q] :
               \E m \in DOMAIN toPeer[q] : toPeer'[q][n] = toPeer[q][m],
           FrontFits', RequestsCounted',
           s \in Waiting => (Coming(p) \/ Posed(p) \/ Answered(p))'
    PROVE  InTurn'
<1>1. /\ OneAsks /\ OneLive /\ Vouched /\ FaultsLate
      /\ stage \in [Peers -> Stages]
  BY DEF OrderInv, InTurn, IInv, TypeInv
<1>2. \A q \in Peers : Asking(q)' => q = p
  BY <1>1 DEF OneAsks, Asking
<1>3. OneAsks'
  BY <1>2 DEF OneAsks
<1>4. Asking(p)' => s \in Waiting
  BY <1>1 DEF Asking
<1>5. Turns'
  <2> SUFFICES ASSUME NEW q \in Peers, Asking(q)'
               PROVE  (Coming(q) \/ Posed(q) \/ Answered(q))'
    BY DEF Turns
  <2> QED
    BY <1>2, <1>4
<1>6. OneLive' /\ FaultsLate'
  BY <1>1 DEF OneLive, FaultsLate, localVars, clientVars
<1>7. Vouched'
  BY <1>1 DEF Vouched
<1> QED
  BY <1>3, <1>5, <1>6, <1>7 DEF InTurn

\* A peer that gets what it waits for has had its last event handled.
LEMMA ReceivedAnswered ==
    ASSUME OrderInv, InOrder, NEW p \in Peers, NEW type,
           type \in {"ready", "accept", "key", "mac", "done"}, Receive(p, type),
           toPeer \in [Peers -> Seq(Message)]
    PROVE  /\ Answered(p) /\ Asking(p)
           /\ type = "ready" => stage[p] = "requested"
           /\ type = "accept" => stage[p] = "started"
           /\ type = "key" => stage[p] = "keyed"
           /\ type = "mac" => stage[p] = "confirmed"
           /\ type = "done" => stage[p] = "macOk"
<1>1. /\ toPeer[p] # <<>> /\ Head(toPeer[p]).txn = Txn(p)
      /\ Head(toPeer[p]).type = type /\ Expects(p) = type
      /\ 1 \in DOMAIN toPeer[p] /\ Head(toPeer[p]) = toPeer[p][1]
  BY Taken DEF Receive
<1>2. \/ type = "ready" /\ stage[p] = "requested"
      \/ type = "accept" /\ stage[p] = "started"
      \/ type = "key" /\ stage[p] = "keyed"
      \/ type = "mac" /\ stage[p] = "confirmed"
      \/ type = "done" /\ stage[p] = "macOk"
  BY <1>1 DEF Expects
<1>3. Asking(p)
  BY <1>2 DEF Asking, Waiting
<1>4. ~Coming(p)
  BY <1>1 DEF Coming, Within
<1>5. ~Posed(p)
  BY <1>1, <1>2 DEF Posed, Within, SentBefore
<1> QED
  BY <1>2, <1>3, <1>4, <1>5 DEF OrderInv, InTurn, Turns

\* It may post its next event, which then is the only one.
LEMMA PosedNext ==
    ASSUME IInv, OrderInv, InOrder, NEW p \in Peers, Answered(p), Asking(p),
           NEW s \in {"started", "keyed", "confirmed"},
           Post(EventAt(s), Txn(p)), stage' = [stage EXCEPT ![p] = s],
           UNCHANGED localVars, UNCHANGED <<attempt, requests>>,
           \A n \in DOMAIN toPeer'[p] :
               \E m \in DOMAIN toPeer[p] : toPeer'[p][n] = toPeer[p][m],
           \/ stage[p] = "requested" /\ s = "started"
           \/ stage[p] = "started" /\ s = "keyed"
           \/ stage[p] = "comparing" /\ s = "confirmed"
    PROVE  Posed(p)' /\ FrontFits' /\ RequestsCounted'
<1> DEFINE event == [type |-> EventAt(s), txn |-> Txn(p)]
<1>1. /\ inbox = <<>> /\ transactionId = Txn(p) /\ Within(p, SentAfter(stage[p]))
      /\ stage[p] = "requested" => NoneLive
      /\ stage[p] \in {"started", "keyed", "comparing"} => Live(olmSas)
  BY DEF Answered
<1>2. inbox' = <<event>> /\ event.type = EventAt(s) /\ event.txn = Txn(p)
  BY <1>1 DEF Post
<1>3. /\ stage'[p] = s /\ Txn(p)' = Txn(p)
      /\ EventAt(s) \in {"start", "key", "mac"}
      /\ EventAt(s) = "start" <=> s = "started"
  BY DEF IInv, TypeInv, Txn, EventAt
<1>4. /\ transactionId' = transactionId /\ NoneLive' = NoneLive
      /\ Live(olmSas)' = Live(olmSas) /\ olmSas' = olmSas
  BY DEF localVars, clientVars, NoneLive, Live
<1>5. Posed(p)'
  <2>1. Within(p, SentBefore(s))'
    BY <1>1, <1>3 DEF Within, SentBefore, SentAfter
  <2>2. SentBefore(stage[p])' = SentBefore(s) /\ EventAt(stage[p])' = EventAt(s)
    BY <1>3
  <2> QED
    BY <1>1, <1>2, <1>3, <1>4, <2>1, <2>2 DEF Posed, Within
<1> HIDE DEF event
<1>6. inbox'[1].type \in {"start", "key", "mac"} /\ DOMAIN inbox' = {1}
      /\ inbox'[1].type = EventAt(s) /\ inbox'[1].txn = Txn(p)
  BY <1>2, <1>3
<1>7. FrontFits'
  BY <1>1, <1>3, <1>4, <1>6 DEF FrontFits
<1>8. RequestsCounted'
  <2>1. RequestsCounted
    BY DEF OrderInv, InTurn
  <2>2. \A n \in DOMAIN inbox' : ~IsRequest(n)'
    BY <1>6 DEF IsRequest
  <2> QED
    BY <1>4, <2>1, <2>2 DEF RequestsCounted
<1> QED
  BY <1>5, <1>7, <1>8

\* Without a new event nothing but the peer's stage and queue change.
LEMMA NothingPosted ==
    ASSUME OrderInv, InOrder, UNCHANGED localVars,
           UNCHANGED <<attempt, requests, inbox>>
    PROVE  FrontFits' /\ RequestsCounted'
<1>1. FrontFits /\ RequestsCounted
  BY DEF OrderInv, InTurn
<1> QED
  BY <1>1 DEF FrontFits, RequestsCounted, IsRequest, NoneLive, Live, localVars,
              clientVars

LEMMA AnsweredStill ==
    ASSUME IInv, NEW p \in Peers, Answered(p), UNCHANGED localVars,
           UNCHANGED <<attempt, inbox>>,
           NEW s, stage' = [stage EXCEPT ![p] = s],
           \/ stage[p] = "keyed" /\ s = "comparing"
           \/ stage[p] = "confirmed" /\ s = "macOk",
           \A n \in DOMAIN toPeer'[p] :
               \E m \in DOMAIN toPeer[p] : toPeer'[p][n] = toPeer[p][m]
    PROVE  Answered(p)'
<1>1. stage'[p] = s /\ Txn(p)' = Txn(p) /\ SentAfter(stage[p]) = SentAfter(s)
  BY DEF IInv, TypeInv, Txn, SentAfter
<1>2. Within(p, SentAfter(s))'
  BY <1>1 DEF Answered, Within
<1>3. SentAfter(stage[p])' = SentAfter(s)
  BY <1>1
<1>4. transactionId' = transactionId /\ Live(olmSas)' = Live(olmSas)
  BY DEF localVars, clientVars, Live
<1> QED
  BY <1>1, <1>2, <1>3, <1>4 DEF Answered, Within

LEMMA PeerKeepsTurn ==
    ASSUME IInv, OrderInv, InOrder, NEW p \in Peers, Peer(p) \/ PeerCancel(p)
    PROVE  InTurn'
<1>0. /\ toPeer \in [Peers -> Seq(Message)] /\ stage \in [Peers -> Stages]
      /\ UNCHANGED localVars /\ UNCHANGED <<attempt, requests>>
  BY DEF IInv, TypeInv, Peer, PeerStart, PeerSendKey, PeerCheckKey, Confirm,
         PeerCheckMac, PeerDone, PeerDrop, PeerCancel, peerVars
<1>1. CASE PeerStart(p)
  <2>1. /\ stage' = [stage EXCEPT ![p] = "started"] /\ UNCHANGED confirms
        /\ Receive(p, "ready") /\ Post(EventAt("started"), Txn(p))
    BY <1>1 DEF PeerStart, GoTo, EventAt
  <2>2. Answered(p) /\ Asking(p) /\ stage[p] = "requested"
    BY <1>0, <2>1, ReceivedAnswered
  <2>3. Posed(p)' /\ FrontFits' /\ RequestsCounted'
    BY <1>0, <2>1, <2>2, ReceiveKeeps, PosedNext
  <2> QED
    BY <1>0, <2>1, <2>2, <2>3, ReceiveKeeps, AskingKeepsTurn DEF Stages, Waiting
<1>2. CASE PeerSendKey(p)
  <2>1. /\ stage' = [stage EXCEPT ![p] = "keyed"] /\ UNCHANGED confirms
        /\ Receive(p, "accept") /\ Post(EventAt("keyed"), Txn(p))
    BY <1>2 DEF PeerSendKey, GoTo, EventAt
  <2>2. Answered(p) /\ Asking(p) /\ stage[p] = "started"
    BY <1>0, <2>1, ReceivedAnswered
  <2>3. Posed(p)' /\ FrontFits' /\ RequestsCounted'
    BY <1>0, <2>1, <2>2, ReceiveKeeps, PosedNext
  <2> QED
    BY <1>0, <2>1, <2>2, <2>3, ReceiveKeeps, AskingKeepsTurn DEF Stages, Waiting
<1>3. CASE PeerCheckKey(p)
  <2>1. /\ UNCHANGED <<confirms, inbox>> /\ Receive(p, "key")
        /\ \/ stage' = [stage EXCEPT ![p] = "comparing"]
           \/ stage' = [stage EXCEPT ![p] = "cancelled"]
    BY <1>3 DEF PeerCheckKey, GoTo
  <2>2. Answered(p) /\ Asking(p) /\ stage[p] = "keyed"
    BY <1>0, <2>1, ReceivedAnswered
  <2>3. stage' = [stage EXCEPT ![p] = "comparing"] => Answered(p)'
    BY <1>0, <2>1, <2>2, ReceiveKeeps, AnsweredStill
  <2>4. FrontFits' /\ RequestsCounted'
    BY <1>0, <2>1, NothingPosted
  <2>5. "comparing" \in Stages /\ "cancelled" \in Stages /\ "cancelled" \notin Waiting
    BY DEF Stages, Waiting
  <2> QED
    BY <1>0, <2>1, <2>2, <2>3, <2>4, <2>5, ReceiveKeeps, AskingKeepsTurn
<1>4. CASE Confirm(p)
  <2>1. /\ stage[p] = "comparing" /\ UNCHANGED toPeer /\ Asking(p)
    BY <1>4 DEF Confirm, Asking, Waiting
  <2>2. \A q \in Peers : \A n \in DOMAIN toPeer'[q] :
          \E m \in DOMAIN toPeer[q] : toPeer'[q][n] = toPeer[q][m]
    BY <2>1
  <2>3. CASE /\ stage' = [stage EXCEPT ![p] = "confirmed"]
             /\ Post("mac", Txn(p)) /\ confirms' = confirms \cup {Txn(p)}
    <3>1. Answered(p)
      BY <2>1 DEF OrderInv, InTurn, Turns, Coming, Posed
    <3>2. Post(EventAt("confirmed"), Txn(p))
      BY <2>3 DEF EventAt
    <3>3. Posed(p)' /\ FrontFits' /\ RequestsCounted'
      BY <1>0, <2>1, <2>2, <2>3, <3>1, <3>2, PosedNext
    <3> QED
      BY <1>0, <2>1, <2>2, <2>3, <3>3, AskingKeepsTurn DEF Stages, Waiting
  <2>4. CASE /\ stage' = [stage EXCEPT ![p] = "cancelled"]
             /\ UNCHANGED <<inbox, confirms>>
    <3>1. FrontFits' /\ RequestsCounted'
      BY <1>0, <2>4, NothingPosted
    <3> QED
      BY <1>0, <2>1, <2>2, <2>4, <3>1, AskingKeepsTurn DEF Stages, Waiting
  <2> QED
    BY <1>4, <2>3, <2>4 DEF Confirm, GoTo
<1>5. CASE PeerCheckMac(p)
  <2>1. /\ UNCHANGED <<confirms, inbox>> /\ Receive(p, "mac")
        /\ \/ stage' = [stage EXCEPT ![p] = "macOk"]
           \/ stage' = [stage EXCEPT ![p] = "cancelled"]
    BY <1>5 DEF PeerCheckMac, GoTo
  <2>2. Answered(p) /\ Asking(p) /\ stage[p] = "confirmed"
    BY <1>0, <2>1, ReceivedAnswered
  <2>3. stage' = [stage EXCEPT ![p] = "macOk"] => Answered(p)'
    BY <1>0, <2>1, <2>2, ReceiveKeeps, AnsweredStill
  <2>4. FrontFits' /\ RequestsCounted'
    BY <1>0, <2>1, NothingPosted
  <2>5. "macOk" \in Stages /\ "cancelled" \in Stages /\ "cancelled" \notin Waiting
    BY DEF Stages, Waiting
  <2> QED
    BY <1>0, <2>1, <2>2, <2>3, <2>4, <2>5, ReceiveKeeps, AskingKeepsTurn
<1>6. CASE PeerDone(p)
  <2>1. /\ UNCHANGED <<confirms, inbox>> /\ Receive(p, "done")
        /\ stage' = [stage EXCEPT ![p] = "done"]
    BY <1>6 DEF PeerDone, GoTo
  <2>2. Asking(p)
    BY <1>0, <2>1, ReceivedAnswered
  <2>3. FrontFits' /\ RequestsCounted'
    BY <1>0, <2>1, NothingPosted
  <2> QED
    BY <1>0, <2>1, <2>2, <2>3, ReceiveKeeps, AskingKeepsTurn DEF Stages, Waiting
<1>7. CASE PeerCancel(p)
  <2>1. /\ UNCHANGED <<confirms, inbox, toPeer>> /\ Asking(p)
        /\ stage' = [stage EXCEPT ![p] = "cancelled"]
    BY <1>7 DEF PeerCancel, GoTo, Asking
  <2>2. \A q \in Peers : \A n \in DOMAIN toPeer'[q] :
          \E m \in DOMAIN toPeer[q] : toPeer'[q][n] = toPeer[q][m]
    BY <2>1
  <2>3. FrontFits' /\ RequestsCounted'
    BY <1>0, <2>1, NothingPosted
  <2> QED
    BY <1>0, <2>1, <2>2, <2>3, AskingKeepsTurn DEF Stages, Waiting
<1>8. CASE PeerDrop(p)
  <2>1. /\ UNCHANGED <<confirms, inbox, stage>>
        /\ toPeer[p] # <<>> /\ toPeer' = [toPeer EXCEPT ![p] = Tail(@)]
    BY <1>8 DEF PeerDrop, peerVars
  <2>2. \A q \in Peers : \A n \in DOMAIN toPeer'[q] :
          \E m \in DOMAIN toPeer[q] : toPeer'[q][n] = toPeer[q][m]
    BY <1>0, <2>1, Taken
  <2>3. FrontFits' /\ RequestsCounted'
    BY <1>0, <2>1, NothingPosted
  <2>4. ASSUME NEW q \in Peers, Asking(q)'
        PROVE  (Coming(q) \/ Posed(q) \/ Answered(q))'
    <3>1. Coming(q) \/ Posed(q) \/ Answered(q)
      BY <2>1, <2>4 DEF OrderInv, InTurn, Turns, Asking
    <3>2. /\ Txn(q)' = Txn(q) /\ transactionId' = transactionId
          /\ NoneLive' = NoneLive /\ Live(olmSas)' = Live(olmSas)
      BY <1>0 DEF Txn, localVars, clientVars, NoneLive, Live
    <3>3. \A types : Within(q, types) => Within(q, types)'
      BY <2>2, <3>2 DEF Within
    <3>4. Coming(q) => Coming(q)'
      BY <2>1, <3>2, <3>3 DEF Coming
    <3>5. Within(q, SentBefore(stage[q])) => Within(q, SentBefore(stage[q]))'
      BY <2>1, <2>2, <3>2 DEF Within
    <3>6. Within(q, SentAfter(stage[q])) => Within(q, SentAfter(stage[q]))'
      BY <2>1, <2>2, <3>2 DEF Within
    <3>7. Posed(q) => Posed(q)'
      BY <2>1, <3>2, <3>5 DEF Posed
    <3>8. Answered(q) => Answered(q)'
      BY <2>1, <3>2, <3>6 DEF Answered
    <3> QED
      BY <3>1, <3>4, <3>7, <3>8
  <2>5. Turns' /\ OneAsks'
    BY <2>1, <2>4 DEF Turns, OrderInv, InTurn, OneAsks, Asking
  <2>6. OneLive' /\ FaultsLate'
    BY <1>0 DEF OrderInv, InTurn, OneLive, FaultsLate, localVars, clientVars
  <2>7. Vouched'
    BY <2>1, <2>2 DEF OrderInv, InTurn, Vouched
  <2> QED
    BY <2>3, <2>5, <2>6, <2>7 DEF InTurn
<1> QED
  BY <1>1, <1>2, <1>3, <1>4, <1>5, <1>6, <1>7, <1>8 DEF Peer

\* A request nobody else waits beside is the last event, of a new attempt.
LEMMA AskKeepsTurn ==
    ASSUME IInv, OrderInv, NEW p \in Peers, PeerRequest(p), InOrder'
    PROVE  InTurn'
<1>1. /\ UNCHANGED localVars /\ UNCHANGED <<toPeer, confirms>>
      /\ requests < MaxAttempts /\ requests' = requests + 1
      /\ attempt' = [attempt EXCEPT ![p] = @ + 1]
      /\ stage' = [stage EXCEPT ![p] = "requested"]
      /\ Post("request", <<p, attempt[p] + 1>>)
      /\ ~Asking(p) /\ InOrder /\ \A q \in Peers \ {p} : ~Asking(q)
  BY DEF PeerRequest, GoTo, Asking, Waiting, InOrder, localVars, syncVars
<1>2. /\ inbox \in Seq(Event) /\ InTurn /\ stage \in [Peers -> Stages]
      /\ attempt \in [Peers -> 0 .. requests] /\ requests \in Nat
      /\ toPeer \in [Peers -> Seq(Message)]
  BY <1>1, VerificationAssumption DEF IInv, TypeInv, OrderInv
<1> DEFINE txn == <<p, attempt[p] + 1>>
           event == [type |-> "request", txn |-> txn]
<1>3. txn \in Txns /\ event \in Event /\ ~Made(txn)
  BY <1>1, <1>2, VerificationAssumption DEF Txns, Event, Made
<1>4. Txn(p)' = txn /\ stage'[p] = "requested"
  BY <1>1, <1>2 DEF Txn
<1>5. /\ inbox' # <<>> /\ Len(inbox') = Len(inbox) + 1 /\ Len(inbox) \in Nat
      /\ DOMAIN inbox = 1 .. Len(inbox) /\ DOMAIN inbox' = 1 .. Len(inbox) + 1
      /\ \A n \in DOMAIN inbox : inbox'[n] = inbox[n]
      /\ inbox'[Len(inbox) + 1] = event
  BY <1>1, <1>2, <1>3, EventPosted
<1>6. Coming(p)'
  <2>1. \A n \in DOMAIN inbox : inbox[n].txn # txn
    BY <1>3 DEF OrderInv, NoneAhead
  <2>2. \A n \in DOMAIN toPeer[p] : toPeer[p][n].txn # txn
    BY <1>3, VerificationAssumption DEF OrderInv, NoneAhead, Txns
  <2>3. transactionId # txn /\ transactionId' = transactionId
    BY <1>1, <1>3, VerificationAssumption
    DEF OrderInv, NoneAhead, Txns, localVars, clientVars
  <2>4. \A n \in DOMAIN inbox' : inbox'[n].txn = txn => n = Len(inbox')
    BY <1>5, <2>1
  <2> QED
    BY <1>1, <1>4, <1>5, <2>2, <2>3, <2>4 DEF Coming, Within
<1>7. OneAsks' /\ Turns'
  BY <1>1, <1>2, <1>6 DEF OneAsks, Turns, Asking
<1>8. /\ NoneLive' = NoneLive /\ Live(olmSas)' = Live(olmSas)
      /\ transactionId' = transactionId /\ olmSas' = olmSas
      /\ sasObjects' = sasObjects /\ fault' = fault
  BY <1>1 DEF localVars, clientVars, NoneLive, Live
<1>9. event.type = "request"
  OBVIOUS
<1> HIDE DEF event, txn
<1>10. FrontFits'
  <2>1. ASSUME NEW n \in DOMAIN inbox', inbox'[n].type # "request"
        PROVE  n \in DOMAIN inbox /\ inbox'[n] = inbox[n]
    BY <1>5, <1>9, <2>1
  <2> QED
    BY <1>2, <1>8, <2>1 DEF InTurn, FrontFits
<1>11. RequestsCounted'
  <2>1. RequestsCounted
    BY <1>2 DEF InTurn
  <2>2. (olmSas' # Null => transactionId' # Null)
        /\ (transactionId' # Null => requests' >= 2)
    BY <1>1, <1>2, <1>8, <2>1 DEF RequestsCounted
  <2>3. \A n \in DOMAIN inbox : IsRequest(n) => requests' >= 2
    BY <1>1, <1>2, <2>1 DEF RequestsCounted
  <2>4. \A n \in DOMAIN inbox' :
          IsRequest(n)' => \/ n \in DOMAIN inbox /\ IsRequest(n)
                           \/ n = Len(inbox) + 1
    BY <1>5 DEF IsRequest
  <2>5. requests' >= 1
    BY <1>1, <1>2
  <2>6. ASSUME NEW n \in DOMAIN inbox', IsRequest(n)'
        PROVE  /\ requests' >= 1
               /\ transactionId' # Null => requests' >= 2
               /\ \A m \in DOMAIN inbox' : IsRequest(m)' /\ m # n => requests' >= 2
    BY <2>2, <2>3, <2>4, <2>5, <2>6
  <2>7. transactionId' # Null => requests' >= 1
    BY <2>5
  <2> QED
    BY <2>2, <2>6, <2>7 DEF RequestsCounted
<1>12. OneLive' /\ FaultsLate' /\ Vouched'
  BY <1>1, <1>2, <1>8 DEF InTurn, OneLive, FaultsLate, Vouched
<1> QED
  BY <1>7, <1>10, <1>11, <1>12 DEF InTurn

LEMMA NoneAheadStep ==
    ASSUME IInv, NoneAhead, [Next]_vars PROVE NoneAhead'
<1>0. /\ inbox \in Seq(Event) /\ fetched \in 0 .. Len(inbox)
      /\ answer \in Seq(Event) /\ toPeer \in [Peers -> Seq(Message)]
      /\ attempt \in [Peers -> 0 .. requests] /\ requests \in Nat
      /\ Null \notin Txns
  BY VerificationAssumption DEF IInv, TypeInv, Txns
<1>1. CASE Handlers
  <2>1. PICK type : Handle(type)
    BY <1>1 DEF Handlers, HandleRequest, HandleStart, HandleKey, HandleMac
  <2>2. /\ \A n \in DOMAIN inbox' : \E m \in DOMAIN inbox : inbox'[n] = inbox[m]
        /\ 1 \in DOMAIN inbox /\ Head(inbox) = inbox[1]
    BY <1>0, <2>1, Handled
  <2>3. PICK types : Adds(types)
    BY <1>1, ClientAdds DEF Handlers
  <2>4. /\ transactionId' = transactionId \/ transactionId' = inbox[1].txn
        /\ attempt' = attempt /\ answer' = answer
    BY <1>0, <1>1, <2>1, <2>2, Handled DEF Handlers, HandleRequest, HandleStart, HandleKey, HandleMac,
                      TransactionOf, peerVars
  <2>5. \A t : Made(t)' = Made(t)
    BY <2>4 DEF Made
  <2>6. transactionId' # Null => Made(transactionId')
    BY <2>2, <2>4 DEF NoneAhead
  <2>7. ASSUME NEW q \in Peers, NEW n \in DOMAIN toPeer'[q],
               toPeer'[q][n].txn # Null
        PROVE  Made(toPeer'[q][n].txn)
    BY <2>3, <2>6, <2>7 DEF Adds, NoneAhead
  <2>8. \A n \in DOMAIN inbox' : Made(inbox'[n].txn)
    BY <2>2 DEF NoneAhead
  <2> QED
    BY <2>4, <2>6, <2>7, <2>8 DEF NoneAhead, Made
<1>2. ASSUME NEW p \in Peers, Peer(p) \/ PeerRequest(p) \/ PeerCancel(p)
      PROVE  NoneAhead'
  <2>1. /\ transactionId' = transactionId /\ answer' = answer
        /\ attempt' = attempt \/ attempt' = [attempt EXCEPT ![p] = @ + 1]
    BY <1>2 DEF Peer, PeerStart, PeerSendKey, PeerCheckKey, Confirm,
                PeerCheckMac, PeerDone, PeerDrop, PeerRequest, PeerCancel,
                localVars, clientVars, syncVars, peerVars
  <2>2. \A q \in Peers : attempt[q] \in Nat /\ attempt'[q] \in Nat
                         /\ attempt'[q] >= attempt[q]
    <3>1. \A q \in Peers : attempt[q] \in Nat
      BY <1>0
    <3>2. CASE attempt' = attempt
      BY <3>1, <3>2
    <3>3. CASE attempt' = [attempt EXCEPT ![p] = @ + 1]
      <4>1. \A q \in Peers :
              attempt'[q] = IF q = p THEN attempt[q] + 1 ELSE attempt[q]
        BY <1>0, <3>3
      <4> QED
        BY <3>1, <4>1
    <3> QED
      BY <2>1, <3>2, <3>3
  <2>3. ASSUME NEW t \in Txns, Made(t)
        PROVE  t[2] <= attempt'[t[1]]
    BY <2>2, <2>3 DEF Made, Txns
  <2>4. \A q \in Peers : \A n \in DOMAIN toPeer'[q] :
          \E m \in DOMAIN toPeer[q] : toPeer'[q][n] = toPeer[q][m]
    <3>1. \/ toPeer' = toPeer
          \/ toPeer[p] # <<>> /\ toPeer' = [toPeer EXCEPT ![p] = Tail(@)]
      BY <1>2 DEF Peer, PeerStart, PeerSendKey, PeerCheckKey, Confirm,
                  PeerCheckMac, PeerDone, PeerDrop, PeerRequest, PeerCancel,
                  Receive
    <3>2. CASE toPeer' = toPeer
      BY <3>2
    <3> QED
      BY <1>0, <3>1, <3>2, Taken
  <2>5. \/ inbox' = inbox
        \/ /\ attempt' = attempt /\ stage[p] # "idle"
           /\ \E type \in {"start", "key", "mac"} : Post(type, Txn(p))
        \/ /\ Post("request", <<p, attempt[p] + 1>>) /\ requests < MaxAttempts
           /\ attempt' = [attempt EXCEPT ![p] = @ + 1]
    BY <1>2 DEF Peer, PeerStart, PeerSendKey, PeerCheckKey, Confirm,
                PeerCheckMac, PeerDone, PeerDrop, PeerRequest, PeerCancel,
                peerVars, Receive, Expects
  <2>6. \A n \in DOMAIN inbox' : inbox'[n].txn[2] <= attempt'[inbox'[n].txn[1]]
    <3>1. \A n \in DOMAIN inbox : inbox[n].txn[2] <= attempt'[inbox[n].txn[1]]
      <4>1. \A n \in DOMAIN inbox : inbox[n] \in Event
        BY <1>0
      <4>2. \A n \in DOMAIN inbox : inbox[n].txn \in Txns
        BY <4>1 DEF Event
      <4> QED
        BY <2>3, <4>2 DEF NoneAhead
    <3>2. ASSUME NEW type \in {"start", "key", "mac"}, Post(type, Txn(p)),
                 attempt' = attempt, stage[p] # "idle"
          PROVE  <2>6
      <4>1. Txn(p) \in Txns /\ Txn(p)[2] <= attempt'[Txn(p)[1]]
        BY <1>0, <3>2, VerificationAssumption DEF Txn, Txns, IInv, TypeInv
      <4>2. [type |-> type, txn |-> Txn(p)] \in Event
        BY <4>1 DEF Event
      <4>3. \A n \in DOMAIN inbox' : \/ /\ n \in DOMAIN inbox
                                       /\ inbox'[n] = inbox[n]
                                    \/ inbox'[n].txn = Txn(p)
        BY <1>0, <3>2, <4>2, Posted
      <4> QED
        BY <3>1, <4>1, <4>3
    <3>3. ASSUME Post("request", <<p, attempt[p] + 1>>), requests < MaxAttempts,
                 attempt' = [attempt EXCEPT ![p] = @ + 1]
          PROVE  <2>6
      <4> DEFINE txn == <<p, attempt[p] + 1>>
      <4>1. txn \in Txns /\ txn[2] <= attempt'[txn[1]]
        BY <1>0, <3>3, VerificationAssumption DEF Txns
      <4>2. [type |-> "request", txn |-> txn] \in Event
        BY <4>1 DEF Event
      <4>3. Post("request", txn)
        BY <3>3
      <4> HIDE DEF txn
      <4> QED
        BY <1>0, <3>1, <4>1, <4>2, <4>3, Posted
    <3> QED
      BY <2>5, <3>1, <3>2, <3>3
  <2>7. \A q \in Peers : \A n \in DOMAIN toPeer[q] :
          toPeer[q][n].txn \in Txns \cup {Null}
    <3>1. \A q \in Peers : \A n \in DOMAIN toPeer[q] : toPeer[q][n] \in Message
      BY <1>0
    <3> QED
      BY <3>1 DEF Message
  <2>8. transactionId \in Txns \cup {Null}
    BY DEF IInv, StaticsPaired
  <2>9. \A q \in Peers : \A n \in DOMAIN toPeer'[q] :
          toPeer'[q][n].txn # Null =>
              toPeer'[q][n].txn[2] <= attempt'[toPeer'[q][n].txn[1]]
    BY <2>3, <2>4, <2>7 DEF NoneAhead
  <2>10. transactionId' # Null => transactionId'[2] <= attempt'[transactionId'[1]]
    BY <2>1, <2>3, <2>8 DEF NoneAhead
  <2>11. \A n \in DOMAIN answer : answer[n].txn[2] <= attempt'[answer[n].txn[1]]
    <3>1. \A n \in DOMAIN answer : answer[n] \in Event
      BY <1>0
    <3>2. \A n \in DOMAIN answer : answer[n].txn \in Txns
      BY <3>1 DEF Event
    <3> QED
      BY <2>3, <3>2 DEF NoneAhead
  <2> QED
    BY <2>1, <2>6, <2>9, <2>10, <2>11 DEF NoneAhead, Made
<1>3. CASE UNCHANGED vars
  BY <1>3 DEF vars, localVars, clientVars, syncVars, peerVars, NoneAhead, Made
<1>4. CASE Sync \/ SyncAgain
  BY <1>4, Fetched DEF IInv, NoneAhead, Made, clientVars, peerVars
<1> QED
  BY <1>1, <1>2, <1>3, <1>4 DEF Next, Client

LEMMA OrderInit == Init => OrderInv
  BY DEF Init, OrderInv, NothingToAnswer, NoneAhead, InTurn, OneAsks, Asking,
         Waiting, Turns, FrontFits, OneLive, Vouched, RequestsCounted,
         IsRequest, FaultsLate

LEMMA OrderStep == IInv /\ OrderInv /\ [Next]_vars => OrderInv'
<1> SUFFICES ASSUME IInv, OrderInv, [Next]_vars PROVE OrderInv'
  OBVIOUS
<1>1. NothingToAnswer' /\ NoneAhead'
  BY NothingToAnswerStep, NoneAheadStep DEF OrderInv
<1>2. ASSUME InOrder' PROVE InTurn'
  <2>1. CASE Handlers
    <3>1. InOrder
      <4>1. overlap' = overlap /\ again' = again
        BY <2>1 DEF Handlers, HandleRequest, HandleStart, HandleKey, HandleMac,
                    Handle, Take, peerVars
      <4> QED
        BY <1>2, <4>1 DEF InOrder
    <3> QED
      BY <2>1, <3>1, RequestKeepsTurn, StartKeepsTurn, KeyKeepsTurn, MacKeepsTurn
      DEF Handlers
  <2>2. ASSUME NEW p \in Peers, PeerRequest(p) PROVE InTurn'
    BY <1>2, <2>2, AskKeepsTurn
  <2>3. ASSUME NEW p \in Peers, Peer(p) \/ PeerCancel(p) PROVE InTurn'
    <3>1. InOrder
      BY <1>2, <2>3 DEF Peer, PeerStart, PeerSendKey, PeerCheckKey, Confirm,
                        PeerCheckMac, PeerDone, PeerDrop, PeerCancel, peerVars,
                        localVars, syncVars, InOrder
    <3> QED
      BY <2>3, <3>1, PeerKeepsTurn
  <2>4. CASE UNCHANGED vars \/ Sync \/ SyncAgain
    <3>1. UNCHANGED <<clientVars, inbox, toPeer, peerVars>> /\ InOrder
      <4>1. CASE UNCHANGED vars
        BY <1>2, <4>1 DEF vars, localVars, syncVars, peerVars, InOrder
      <4>2. CASE Sync \/ SyncAgain
        BY <1>2, <4>2, Fetched DEF IInv, InOrder, peerVars
      <4> QED
        BY <2>4, <4>1, <4>2
    <3>2. InTurn
      BY <3>1 DEF OrderInv
    <3> QED
      BY <3>1, <3>2
      DEF clientVars, peerVars, InTurn, OneAsks, Asking, Turns, Coming,
          Posed, Answered, Within, Txn, FrontFits, NoneLive, Live, OneLive,
          Vouched, RequestsCounted, IsRequest, FaultsLate
  <2> QED
    BY <2>1, <2>2, <2>3, <2>4 DEF Next, Client
<1> QED
  BY <1>1, <1>2 DEF OrderInv

LEMMA OrderKept == Spec => [](IInv /\ OrderInv)
  BY InvInit, InvStep, OrderInit, OrderStep, PTL DEF Spec

\* While no two verifications overlap and no answer is handled again, the key and
\* mac handlers never use a SAS object that was freed, and nothing is freed twice
\* before there has been a second request (matrix.c 887-1145).
THEOREM SafeAlone == Spec => []SafeUntilAskedAgain
<1>1. IInv /\ OrderInv => SafeUntilAskedAgain
  BY DEF OrderInv, InTurn, FaultsLate, SafeUntilAskedAgain
<1> QED
  BY <1>1, OrderKept, PTL

\* While no two verifications overlap and no answer is handled again, the only
\* object allocated is olmSas's, however often a peer gives up and asks again.
THEOREM NothingLeaks == Spec => []NoSasLeak
<1>1. IInv /\ OrderInv => NoSasLeak
  BY DEF OrderInv, InTurn, OneLive, NoSasLeak
<1> QED
  BY <1>1, OrderKept, PTL

\* The client sends its mac and done in a transaction whose code the user has
\* confirmed, while no two verifications overlap and no answer is handled again,
\* and is verified by a confirmed one only, whatever happens.
THEOREM VouchedInTurn == Spec => []VouchesForConfirmed
<1>1. IInv /\ OrderInv => VouchesForConfirmed
  BY DEF IInv, OrderInv, InTurn, Vouched, VouchesForConfirmed
<1> QED
  BY <1>1, OrderKept, PTL

\* The handlers of start, key and mac do not look at the event's transaction,
\* yet the one they answer in is the event's, while no two verifications
\* overlap and no answer is handled again.
THEOREM AnswersInTurn == Spec => AnswersEvent
<1>1. IInv /\ OrderInv =>
        [Handlers /\ InOrder => transactionId' = Head(inbox).txn]_vars
  <2> SUFFICES ASSUME IInv, OrderInv, Handlers, InOrder
               PROVE  transactionId' = Head(inbox).txn
    OBVIOUS
  <2>1. ASSUME NEW type \in {"start", "key", "mac"}, Handle(type),
               transactionId' = transactionId
        PROVE  transactionId' = Head(inbox).txn
    <3>1. Head(inbox) = inbox[1]
      BY <2>1, EventTaken DEF IInv, TypeInv
    <3> QED
      BY <2>1, <3>1, EventFits
  <2>2. CASE HandleRequest
    BY <2>2 DEF HandleRequest, TransactionOf
  <2> QED
    BY <2>1, <2>2 DEF Handlers, HandleStart, HandleKey, HandleMac
<1> QED
  BY <1>1, OrderKept, PTL DEF AnswersEvent

=============================================================================
