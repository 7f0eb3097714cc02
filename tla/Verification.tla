---------------------------- MODULE Verification ----------------------------
(***************************************************************************)
(* Interactive device verification (SAS), the responder implemented by     *)
(* MatrixClientHandleEvent (matrix.c 875-1145) against conforming peers.   *)
(*                                                                         *)
(* The handlers keep one verification in three static variables,           *)
(* transactionId, verifyFromDeviceId and olmSas.  Only a request looks at  *)
(* who sent an event and for which transaction; start, key and mac act on  *)
(* the statics.  SAS objects come from malloc and go with free, and the    *)
(* pointer is never reset: using or freeing a dead object is recorded in   *)
(* fault and followed by what such a build can do.                         *)
(*                                                                         *)
(* A peer is another device of the user.  It sends request, waits for      *)
(* ready, sends start, waits for accept, sends its key, waits for the      *)
(* client's, lets the user compare the codes, sends mac and waits for mac  *)
(* and done.  It cancels when it likes and tries again with a fresh        *)
(* transaction.  The client has no handler for cancel and done: these      *)
(* events leave it unchanged and are not modelled.                         *)
(*                                                                         *)
(* MatrixClientSync handles the events of one answer after the other.  A   *)
(* GET that fails leaves the last answer in the buffer, and all of its     *)
(* events are handled again (1357-1365).                                   *)
(*                                                                         *)
(* An unused definition right before another with the same parameters is   *)
(* that one with a fault (see the README).                                 *)
(***************************************************************************)
EXTENDS Naturals, Sequences

CONSTANTS
    Peers,              \* devices that may verify the client
    MaxAttempts,        \* requests the peers make (bounds the model)
    MaxFailures,        \* GETs of the client that fail (bounds the model)
    LossyPut,           \* a PUT of the client may fail without it noticing
    MayLackMasterKey,   \* RequestMasterKey may find no key
    Null                \* the null pointer, an unset transaction or device

ASSUME VerificationAssumption ==
    /\ MaxAttempts \in Nat \ {0}
    /\ MaxFailures \in Nat
    /\ LossyPut \in BOOLEAN
    /\ MayLackMasterKey \in BOOLEAN
    /\ Null \notin Peers
    /\ Null \notin Nat
    /\ Null \notin Peers \X Nat

\* A transaction is named by its peer and the number of the attempt.  It also
\* stands for the ephemeral key the peer makes for it.
Txns == Peers \X (1 .. MaxAttempts)

\* SAS objects are numbered in the order of their creation.
SasIds == Nat \ {0}

VARIABLES
    \* the client
    transactionId,  \* static transactionId
    verifyFrom,     \* static verifyFromDeviceId
    olmSas,         \* static olmSas: the id of a SAS object
    sasObjects,     \* every SAS object ever created, in order
    verified,       \* client->verified
    shown,          \* the code printed last, as what it is computed from
    crashed,
    fault,          \* dead objects were used: "used", "freed twice"
    fetched,        \* events of the buffer still to be handled
    answer,         \* all events of the buffer
    \* between client and peers
    inbox,          \* to-device events for the client, those it has fetched
                    \* first, then those the server holds
    toPeer,         \* peer -> messages the server holds for it
    \* the peers
    stage,          \* peer -> where it is in the protocol
    attempt,        \* peer -> number of its current attempt
    requests,       \* how many requests they made together
    commitment,     \* peer -> what the accept message committed to
    sasKey,         \* peer -> the client's key, the id of its SAS object
    \* history, read by the properties only
    confirms,       \* transactions whose code the user confirmed
    again,          \* answers handled once more after a GET that failed
    putLost,        \* some message of the client was lost
    overlap         \* a peer asked while another was still verifying

clientVars == <<transactionId, verifyFrom, olmSas, sasObjects, verified,
                shown, crashed, fault>>
syncVars   == <<fetched, answer, again>>
peerVars   == <<stage, attempt, requests, commitment, sasKey, confirms,
                overlap>>
\* what only the client's steps change
localVars  == <<clientVars, syncVars, putLost>>
vars == <<localVars, inbox, toPeer, peerVars>>

-----------------------------------------------------------------------------

SasObject == [live : BOOLEAN, theirKey : Txns \cup {Null}]

Event == [type : {"request", "start", "key", "mac"}, txn : Txns]

\* sas: the SAS object whose public key, commitment or MAC is in the message;
\* bound: the start event an accept commits to, the peer key a MAC depends on;
\* keysOk: the MACs are over the keys the peer knows.
Message == [type : {"ready", "accept", "key", "mac", "done"},
            txn : Txns \cup {Null}, sas : SasIds \cup {Null},
            bound : Txns \cup {Null}, keysOk : BOOLEAN]

Msg(type, txn, sas, bound, keysOk) ==
    [type |-> type, txn |-> txn, sas |-> sas, bound |-> bound,
     keysOk |-> keysOk]

Waiting == {"requested", "started", "keyed", "comparing", "confirmed", "macOk"}

Init ==
    /\ transactionId = Null
    /\ verifyFrom = Null
    /\ olmSas = Null
    /\ sasObjects = <<>>
    /\ verified = FALSE
    /\ shown = Null
    /\ crashed = FALSE
    /\ fault = {}
    /\ fetched = 0
    /\ answer = <<>>
    /\ inbox = <<>>
    /\ toPeer = [p \in Peers |-> <<>>]
    /\ stage = [p \in Peers |-> "idle"]
    /\ attempt = [p \in Peers |-> 0]
    /\ requests = 0
    /\ commitment = [p \in Peers |-> <<Null, Null>>]
    /\ sasKey = [p \in Peers |-> Null]
    /\ confirms = {}
    /\ again = 0
    /\ putLost = FALSE
    /\ overlap = FALSE

-----------------------------------------------------------------------------
(* The client                                                              *)

Live(sas) == sas # Null /\ sasObjects[sas].live

\* What a read of a SAS object gives: what is there, or anything else once the
\* memory is no longer the object's.
Read(sas, content) == IF Live(sas) THEN {content} ELSE {content, Null}

\* MatrixClientSync when the last answer has been handled: the next one has what
\* came since.
Sync ==
    /\ ~crashed
    /\ fetched = 0
    /\ fetched' = Len(inbox)
    /\ answer' = inbox
    /\ UNCHANGED <<clientVars, again, inbox, toPeer, peerVars, putLost>>

\* The GET fails: HandleSync goes through the old buffer.
SyncAgainLosing ==
    /\ ~crashed
    /\ fetched = 0
    /\ answer # <<>>
    /\ again < MaxFailures
    /\ again' = again + 1
    /\ fetched' = Len(answer)
    /\ inbox' = answer
    /\ UNCHANGED <<clientVars, answer, toPeer, peerVars, putLost>>

SyncAgain ==
    /\ ~crashed
    /\ fetched = 0
    /\ answer # <<>>
    /\ again < MaxFailures
    /\ again' = again + 1
    /\ fetched' = Len(answer)
    /\ inbox' = answer \o inbox
    /\ UNCHANGED <<clientVars, answer, toPeer, peerVars, putLost>>

\* The next event of the answer.
Take ==
    /\ ~crashed
    /\ fetched > 0
    /\ fetched' = fetched - 1
    /\ inbox' = Tail(inbox)
    /\ UNCHANGED <<answer, again>>

HandleFallingThrough(type) ==
    /\ Take
    /\ Head(inbox).type = type \/ (type = "mac" /\ Head(inbox).type = "key")

Handle(type) ==
    /\ Take
    /\ Head(inbox).type = type

\* SendToDevice: one PUT per message; its result is not looked at.
Send(p, msgs) ==
    \E arrived \in IF LossyPut THEN {<<>>, msgs} \cup { <<m>> : m \in
                                    { msgs[i] : i \in DOMAIN msgs } }
                               ELSE {msgs} :
        /\ toPeer' = [toPeer EXCEPT ![p] = @ \o arrived]
        /\ putLost' = (putLost \/ arrived # msgs)

\* free(sas).  Freeing a dead object aborts, or goes unnoticed.
Free(sas) ==
    IF Live(sas)
    THEN /\ sasObjects' = [sasObjects EXCEPT ![sas].live = FALSE]
         /\ UNCHANGED <<crashed, fault>>
    ELSE /\ fault' = fault \cup {"freed twice"}
         /\ crashed' \in BOOLEAN
         /\ UNCHANGED sasObjects

\* What a request leaves in the statics: the sender's transaction and device,
\* and the SAS object of the verification before freed.
TransactionKept(e) == IF transactionId = Null THEN e.txn ELSE transactionId
TransactionOf(e) == e.txn

SenderKept(e) == IF verifyFrom = Null THEN e.txn[1] ELSE verifyFrom
SenderSwapped(e) == e.txn[2]
SenderOf(e) == e.txn[1]

DropNothing == UNCHANGED <<sasObjects, crashed, fault>>
DropOldSas ==
    IF olmSas # Null THEN Free(olmSas)
                     ELSE UNCHANGED <<sasObjects, crashed, fault>>

\* "m.key.verification.request": restart with the sender's transaction.
HandleRequest ==
    /\ Handle("request")
    /\ transactionId' = TransactionOf(Head(inbox))
    /\ verifyFrom' = SenderOf(Head(inbox))
    /\ DropOldSas
    /\ Send(verifyFrom', <<Msg("ready", transactionId', Null, Null, TRUE)>>)
    /\ UNCHANGED <<olmSas, verified, shown, peerVars>>

\* olm_sas(malloc(...)), whatever olmSas was.
NewSasIfNull ==
    IF olmSas # Null THEN UNCHANGED <<sasObjects, olmSas>>
    ELSE /\ sasObjects' = Append(sasObjects, [live |-> TRUE, theirKey |-> Null])
         /\ olmSas' = Len(sasObjects')
NewSas ==
    /\ sasObjects' = Append(sasObjects, [live |-> TRUE, theirKey |-> Null])
    /\ olmSas' = Len(sasObjects')

\* "m.key.verification.start": a new SAS object and the commitment to its key.
HandleStart ==
    /\ Handle("start")
    /\ NewSas
    /\ Send(verifyFrom,
            <<Msg("accept", transactionId, olmSas', Head(inbox).txn, TRUE)>>)
    /\ UNCHANGED <<transactionId, verifyFrom, verified, shown, crashed, fault,
                   peerVars>>

\* "m.key.verification.key": take the peer's key, send ours, print the code.
HandleKey ==
    /\ Handle("key")
    /\ \E ours \in Read(olmSas, olmSas), theirs \in Read(olmSas, Head(inbox).txn) :
         /\ sasObjects' = [sasObjects EXCEPT ![olmSas].theirKey = theirs]
         /\ shown' = [txn |-> transactionId, sas |-> ours, key |-> theirs]
         /\ Send(verifyFrom, <<Msg("key", transactionId, ours, Null, TRUE)>>)
    /\ IF Live(olmSas)
       THEN UNCHANGED <<crashed, fault>>
       ELSE fault' = fault \cup {"used"} /\ crashed' \in BOOLEAN
    /\ UNCHANGED <<transactionId, verifyFrom, olmSas, verified, peerVars>>

\* "m.key.verification.mac": MAC the own signing key and the master key, say
\* done, free the object.  RequestMasterKey's result is not looked at.
HandleMac ==
    /\ Handle("mac")
    /\ \E bound \in Read(olmSas, sasObjects[olmSas].theirKey),
          keysOk \in IF MayLackMasterKey THEN BOOLEAN ELSE {TRUE} :
         Send(verifyFrom, <<Msg("mac", transactionId, olmSas, bound, keysOk),
                            Msg("done", transactionId, Null, Null, TRUE)>>)
    /\ Free(olmSas)
    /\ verified' = TRUE
    /\ UNCHANGED <<transactionId, verifyFrom, olmSas, shown, peerVars>>

Handlers == HandleRequest \/ HandleStart \/ HandleKey \/ HandleMac

Client == Sync \/ Handlers

-----------------------------------------------------------------------------
(* The peers, as the code in HandleEvent expects them (external).          *)

Txn(p) == <<p, attempt[p]>>

Post(type, txn) == inbox' = Append(inbox, [type |-> type, txn |-> txn])

GoTo(p, s) == stage' = [stage EXCEPT ![p] = s]

Expects(p) ==
    CASE stage[p] = "requested" -> "ready"
      [] stage[p] = "started"   -> "accept"
      [] stage[p] = "keyed"     -> "key"
      [] stage[p] = "confirmed" -> "mac"
      [] stage[p] = "macOk"     -> "done"
      [] OTHER                  -> "nothing"

\* The peer takes the message it waits for.
Receive(p, type) ==
    /\ toPeer[p] # <<>>
    /\ Head(toPeer[p]).txn = Txn(p)
    /\ Expects(p) = type
    /\ Head(toPeer[p]).type = type
    /\ toPeer' = [toPeer EXCEPT ![p] = Tail(@)]

PeerRequest(p) ==
    /\ stage[p] \in {"idle", "cancelled", "done"}
    /\ requests < MaxAttempts
    /\ requests' = requests + 1
    /\ attempt' = [attempt EXCEPT ![p] = @ + 1]
    /\ commitment' = [commitment EXCEPT ![p] = <<Null, Null>>]
    /\ sasKey' = [sasKey EXCEPT ![p] = Null]
    /\ GoTo(p, "requested")
    /\ Post("request", <<p, attempt[p] + 1>>)
    /\ overlap' = (overlap \/ \E q \in Peers \ {p} : stage[q] \in Waiting)
    /\ UNCHANGED <<localVars, toPeer, confirms>>

PeerStart(p) ==
    /\ Receive(p, "ready")
    /\ GoTo(p, "started")
    /\ Post("start", Txn(p))
    /\ UNCHANGED <<localVars, attempt, requests, commitment, sasKey, confirms,
                   overlap>>

PeerSendKey(p) ==
    /\ Receive(p, "accept")
    /\ commitment' = [commitment EXCEPT ![p] = <<Head(toPeer[p]).sas,
                                                 Head(toPeer[p]).bound>>]
    /\ GoTo(p, "keyed")
    /\ Post("key", Txn(p))
    /\ UNCHANGED <<localVars, attempt, requests, sasKey, confirms, overlap>>

\* The key must be the one committed to, for the peer's own start.
PeerCheckKey(p) ==
    /\ Receive(p, "key")
    /\ sasKey' = [sasKey EXCEPT ![p] = Head(toPeer[p]).sas]
    /\ IF commitment[p] = <<Head(toPeer[p]).sas, Txn(p)>>
       THEN GoTo(p, "comparing")
       ELSE GoTo(p, "cancelled")
    /\ UNCHANGED <<localVars, attempt, requests, commitment, inbox, confirms,
                   overlap>>

\* The user compares the code the client printed last with the peer's own.
Confirm(p) ==
    /\ stage[p] = "comparing"
    /\ IF shown = [txn |-> Txn(p), sas |-> sasKey[p], key |-> Txn(p)]
       THEN /\ GoTo(p, "confirmed")
            /\ Post("mac", Txn(p))
            /\ confirms' = confirms \cup {Txn(p)}
       ELSE /\ GoTo(p, "cancelled")
            /\ UNCHANGED <<inbox, confirms>>
    /\ UNCHANGED <<localVars, attempt, requests, commitment, sasKey, toPeer,
                   overlap>>

PeerCheckMac(p) ==
    /\ Receive(p, "mac")
    /\ IF /\ Head(toPeer[p]).sas = sasKey[p]
          /\ Head(toPeer[p]).bound = Txn(p)
          /\ Head(toPeer[p]).keysOk
       THEN GoTo(p, "macOk")
       ELSE GoTo(p, "cancelled")
    /\ UNCHANGED <<localVars, attempt, requests, commitment, sasKey, inbox,
                   confirms, overlap>>

PeerDone(p) ==
    /\ Receive(p, "done")
    /\ GoTo(p, "done")
    /\ UNCHANGED <<localVars, attempt, requests, commitment, sasKey, inbox,
                   confirms, overlap>>

\* A message of another transaction, or out of turn, is dropped.
PeerDrop(p) ==
    /\ toPeer[p] # <<>>
    /\ \/ Head(toPeer[p]).txn # Txn(p)
       \/ Head(toPeer[p]).type # Expects(p)
    /\ stage[p] # "comparing"
    /\ toPeer' = [toPeer EXCEPT ![p] = Tail(@)]
    /\ UNCHANGED <<localVars, inbox, peerVars>>

\* The user cancels, or the verification times out.
PeerCancel(p) ==
    /\ stage[p] \in Waiting
    /\ GoTo(p, "cancelled")
    /\ UNCHANGED <<localVars, inbox, toPeer, attempt, requests, commitment,
                   sasKey, confirms, overlap>>

Peer(p) ==
    \/ PeerStart(p)
    \/ PeerSendKey(p)
    \/ PeerCheckKey(p)
    \/ Confirm(p)
    \/ PeerCheckMac(p)
    \/ PeerDone(p)
    \/ PeerDrop(p)

-----------------------------------------------------------------------------

Next ==
    \/ Client \/ SyncAgain
    \/ \E p \in Peers : Peer(p) \/ PeerRequest(p) \/ PeerCancel(p)

Spec == Init /\ [][Next]_vars

\* The client syncs in a loop and a conforming peer answers; nobody is obliged
\* to start or to cancel a verification.
FairSpec == Spec /\ WF_vars(Client) /\ \A p \in Peers : WF_vars(Peer(p))

-----------------------------------------------------------------------------
(* Properties                                                              *)

TypeOK ==
    /\ transactionId \in Txns \cup {Null}
    /\ verifyFrom \in Peers \cup {Null}
    /\ sasObjects \in Seq(SasObject)
    /\ olmSas \in DOMAIN sasObjects \cup {Null}
    /\ verified \in BOOLEAN
    /\ shown = Null \/ shown \in [txn : Txns, sas : SasIds \cup {Null},
                                  key : Txns \cup {Null}]
    /\ crashed \in BOOLEAN
    /\ fault \subseteq {"used", "freed twice"}
    /\ inbox \in Seq(Event)
    /\ fetched \in 0 .. Len(inbox)
    /\ answer \in Seq(Event)
    /\ again \in 0 .. MaxFailures
    /\ toPeer \in [Peers -> Seq(Message)]
    /\ stage \in [Peers -> Waiting \cup {"idle", "cancelled", "done"}]
    /\ requests \in 0 .. MaxAttempts
    /\ attempt \in [Peers -> 0 .. requests]
    /\ commitment \in [Peers -> (SasIds \cup {Null}) \X (Txns \cup {Null})]
    /\ sasKey \in [Peers -> SasIds \cup {Null}]
    /\ confirms \subseteq Txns
    /\ putLost \in BOOLEAN
    /\ overlap \in BOOLEAN

\* "data is cleared when verification is finished or started" (matrix.c
\* 887-889): the handlers never touch or free a SAS object that is gone.
MemorySafe == fault = {}

\* Verifications do not overlap, and no event is handled a second time.
InOrder == ~overlap /\ again = 0

\* Unless a peer asks while another is still verifying, or an answer is handled
\* again, no dead object is ever read or written, and none is freed before there
\* is a second request.
SafeUntilAskedAgain ==
    InOrder =>
        /\ "used" \notin fault
        /\ fault # {} => requests >= 2

\* Every SAS object still allocated is the one olmSas points to, unless two
\* verifications overlap or an answer is handled again: none leaks, whatever is
\* cancelled and asked again.
NoSasLeak ==
    InOrder => \A s \in DOMAIN sasObjects : sasObjects[s].live => olmSas = s

\* transactionId and verifyFromDeviceId are always of one and the same
\* request: no peer is sent a reply under a transaction of someone else.
RepliesPaired ==
    \A p \in Peers : \A i \in DOMAIN toPeer[p] : toPeer[p][i].txn[1] = p

\* Though start, key and mac never look at the event's transaction, the client
\* answers every event in the transaction it belongs to, unless verifications
\* overlap or an answer is handled again.
AnswersEvent ==
    [][ Handlers /\ InOrder => transactionId' = Head(inbox).txn ]_vars

\* The client calls itself verified only after the user has confirmed a code.
VerifiedMeansConfirmed == verified => confirms # {}

\* It vouches for its keys only in a transaction that was confirmed, unless
\* verifications overlap or an answer is handled again; even then it calls itself
\* verified only after a code was confirmed.
VouchesForConfirmed ==
    /\ VerifiedMeansConfirmed
    /\ InOrder => \A p \in Peers : \A i \in DOMAIN toPeer[p] :
         toPeer[p][i].type \in {"mac", "done"} => toPeer[p][i].txn \in confirms

\* A peer that waits for the client gets what it waits for: every request is
\* completed unless the peer gives up, the client is gone, an answer was lost
\* (nothing is sent again) or another verification came between.
RequestCompletes ==
    \A p \in Peers :
        (stage[p] = "requested") ~>
            (stage[p] \in {"done", "cancelled"} \/ crashed \/ putLost
             \/ overlap)

=============================================================================
