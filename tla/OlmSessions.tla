----------------------------- MODULE OlmSessions -----------------------------
(***************************************************************************)
(* The client's table of Olm sessions and the to-device messages that go   *)
(* through it: MatrixClientSendToDeviceEncrypted, the m.room.encrypted     *)
(* branch of MatrixClientHandleEvent, and GetOlmSession, NewOlmSessionIn   *)
(* and NewOlmSessionOut below them (matrix.c 280-405, 1146-1194,           *)
(* 1553-1757).                                                             *)
(*                                                                         *)
(* A session is found again by its deviceId, which is a pointer: to the    *)
(* caller's string for a session made while sending, and to the static     *)
(* verifyFromDeviceId for one made while handling an event.  The sender of *)
(* an event is not read: it is taken to be the device of the last          *)
(* verification request.  Slots are used up and never given back.          *)
(*                                                                         *)
(* A device and its identity key have one name here.  A session object     *)
(* remembers the identity key and the one-time key it was made with, and   *)
(* sid, the ratchet both ends share.                                       *)
(*                                                                         *)
(* MatrixClientSync handles the events of one answer after the other.  A   *)
(* GET that fails leaves the last answer in the buffer, and its events are *)
(* handled again (1357-1365): Olm opens a message of type 1 only once, but *)
(* one of type 0 makes a new session again, as one-time keys stay.         *)
(*                                                                         *)
(* An unused definition right before another with the same parameters is   *)
(* that one with a fault (see the README).                                 *)
(***************************************************************************)
EXTENDS Naturals, Sequences, SequencesExt

CONSTANTS
    Devices,            \* the user's other devices
    NUM_OLM_SESSIONS,   \* capacity of client->olmSessions
    MaxReceived,        \* messages the other devices send, ...
    MaxFailures,        \* ... GETs that fail (they bound the model)
    VerifiedFirst,      \* devices write only after asking for verification
    KeyMayMiss,         \* RequestDeviceKey may find no key
    OtkMayRunOut,       \* keys/claim may return no one-time key
    Null                \* an empty string, an unset pointer

ASSUME OlmAssumption ==
    /\ NUM_OLM_SESSIONS \in Nat \ {0}
    /\ MaxReceived \in Nat
    /\ MaxFailures \in Nat
    /\ {VerifiedFirst, KeyMayMiss, OtkMayRunOut} \subseteq BOOLEAN
    /\ Null \notin Devices
    /\ Null \notin Nat

VARIABLES
    \* the client
    verifyFrom,     \* static verifyFromDeviceId
    sessions,       \* client->olmSessions[0 .. numOlmSessions-1]
    keyIn,          \* static deviceKey of NewOlmSessionIn
    keyOut,         \* static deviceKey of NewOlmSessionOut
    known,          \* devices whose key the device cache holds
    decrypted,      \* static decrypted: the plaintext in the buffer
    opened,         \* slot and text of what the sessions have decrypted
    crashed,
    fetched,        \* events of the buffer still to be handled
    answer,         \* all events of the buffer
    again,          \* GETs that failed
    \* the messages
    inbox,          \* to-device events for the client, those it has fetched
                    \* first, then those the server holds
    sent,           \* messages the client has sent
    received,       \* messages the other devices have sent so far
    \* the other devices
    current,        \* device -> the ratchet it encrypts with
    acked,          \* device -> it has received a message on that ratchet
    asked,          \* devices that have asked for verification
    \* history
    handled,        \* plaintexts the client has handled
    replayed,       \* a plaintext was handled again
    lost,           \* a message of a device could not be decrypted
    upset           \* something irregular has happened, see Irregular

syncVars    == <<fetched, answer, again>>
clientVars  == <<verifyFrom, sessions, keyIn, keyOut, known, decrypted,
                 opened, crashed>>
peerVars    == <<received, current, acked, asked>>
historyVars == <<handled, replayed, lost, upset>>
vars == <<clientVars, syncVars, inbox, sent, peerVars, historyVars>>

-----------------------------------------------------------------------------

\* A ratchet is made by a device (its name) or by the client (a slot number).
Ratchets == Devices \cup (1 .. NUM_OLM_SESSIONS)

Session == [aliased : BOOLEAN, label : Devices \cup {Null},
            key : Devices \cup {Null}, otk : Devices \cup {Null},
            sid : Ratchets]

Event == [from : Devices, type : {0, 1}, sid : Ratchets,
          text : 1 .. MaxReceived]

Sent == [to : Devices, key : Devices \cup {Null}, otk : Devices \cup {Null},
         sid : Ratchets, named : BOOLEAN]

Init ==
    /\ verifyFrom = Null
    /\ sessions = <<>>
    /\ keyIn = Null
    /\ keyOut = Null
    /\ known = {}
    /\ decrypted = Null
    /\ opened = {}
    /\ crashed = FALSE
    /\ fetched = 0
    /\ answer = <<>>
    /\ again = 0
    /\ inbox = <<>>
    /\ sent = {}
    /\ received = 0
    /\ current = [d \in Devices |-> d]
    /\ acked = [d \in Devices |-> FALSE]
    /\ asked = {}
    /\ handled = {}
    /\ replayed = FALSE
    /\ lost = FALSE
    /\ upset = FALSE

-----------------------------------------------------------------------------
(* The table                                                               *)

LabelOf(s) == IF s.aliased THEN verifyFrom ELSE s.label

\* GetOlmSession: the slots strcmp finds, of which it takes the first.
SlotsOf(d) == { i \in DOMAIN sessions : LabelOf(sessions[i]) = d }

LastSlot(d) == CHOOSE i \in SlotsOf(d) : \A j \in SlotsOf(d) : i >= j
FirstSlot(d) == CHOOSE i \in SlotsOf(d) : \A j \in SlotsOf(d) : i <= j

FullLate == Len(sessions) > NUM_OLM_SESSIONS
Full == Len(sessions) >= NUM_OLM_SESSIONS

\* RequestDeviceKey: the outcomes a lookup of d can have (see DeviceCache).  A
\* device found once is always found; the empty name never is.
KeyFound(d) ==
    IF d = Null THEN {FALSE}
    ELSE IF d \in known \/ ~KeyMayMiss THEN {TRUE}
    ELSE BOOLEAN

\* On a miss the static buffer keeps the key of the last device found.
KeyBufferUnset(found, d, buffer) == buffer
KeyBuffer(found, d, buffer) == IF found THEN d ELSE buffer

Learnt(found, d) == IF found THEN {d} ELSE {}

\* From here on nothing is promised: a key or a one-time key was missing, a slot
\* was, a second device asked for verification, a device wrote that had not asked
\* last, or an answer is handled again.
Irregular(what) == upset' = (upset \/ what)

Stranger(m) == m.from # verifyFrom

\* MatrixOlmSessionFrom: made from the one-time key the message names; olm
\* refuses it, and the slot stays zeroed, if the identity key differs.
InSession(d, key, m) ==
    [aliased |-> TRUE, label |-> Null,
     key |-> IF key = m.from THEN key ELSE Null,
     otk |-> IF key = m.from THEN m.from ELSE Null, sid |-> m.sid]

\* MatrixOlmSessionTo made in the slot behind the next free one.
OutSessionPastEnd(aliased, d, key, otk) ==
    [aliased |-> aliased, label |-> IF aliased THEN Null ELSE d,
     key |-> key, otk |-> IF key = Null THEN Null ELSE otk,
     sid |-> Len(sessions) + 2]

\* MatrixOlmSessionTo, called with a pointer to verifyFromDeviceId or to the
\* caller's name for d.  olm refuses an empty key.
OutSession(aliased, d, key, otk) ==
    [aliased |-> aliased, label |-> IF aliased THEN Null ELSE d,
     key |-> key, otk |-> IF key = Null THEN Null ELSE otk,
     sid |-> Len(sessions) + 1]

\* ClaimOnetimeKey: without a key in the answer the buffer is uninitialised.
Claimed(d) == IF OtkMayRunOut THEN {d, Null} ELSE {d}

\* With a full table the callers go on with an uninitialised pointer: a crash
\* or some slot.
AnySlot == DOMAIN sessions

-----------------------------------------------------------------------------
(* Receiving                                                               *)

\* MatrixClientSync when the last answer has been handled: the next one has what
\* came since.
Sync ==
    /\ ~crashed
    /\ fetched = 0
    /\ fetched' = Len(inbox)
    /\ answer' = inbox
    /\ UNCHANGED <<clientVars, again, inbox, sent, peerVars, historyVars>>

\* The GET fails: HandleSync goes through the old buffer.
SyncAgain ==
    /\ ~crashed
    /\ fetched = 0
    /\ answer # <<>>
    /\ again < MaxFailures
    /\ again' = again + 1
    /\ fetched' = Len(answer)
    /\ inbox' = answer \o inbox
    /\ Irregular(TRUE)
    /\ UNCHANGED <<clientVars, answer, sent, peerVars, handled, replayed, lost>>

\* Decrypt in slot i of table, and handle what the buffer holds then: on a
\* failure, the plaintext of the message before.
Decrypt(table, i, m) ==
    LET ok == /\ table[i].key # Null
              /\ table[i].sid = m.sid
              /\ <<i, m.text>> \notin opened
    IN  /\ decrypted' = (IF ok THEN m.text ELSE decrypted)
        /\ opened' = (IF ok THEN opened \cup {<<i, m.text>>} ELSE opened)
        /\ lost' = (lost \/ ~ok)
        /\ handled' = handled \cup ({decrypted'} \ {Null})
        /\ replayed' = (replayed \/ decrypted' \in handled)

Receive(type) ==
    /\ ~crashed
    /\ fetched > 0
    /\ Head(inbox).type = type
    /\ fetched' = fetched - 1
    /\ inbox' = Tail(inbox)
    /\ UNCHANGED <<verifyFrom, answer, again, sent, peerVars>>

\* Type 0: always a new session, whether one is known or not.
ReceivePreKey ==
    /\ Receive(0)
    /\ ~Full
    /\ \E found \in KeyFound(verifyFrom) :
         /\ keyIn' = KeyBuffer(found, verifyFrom, keyIn)
         /\ known' = known \cup Learnt(found, verifyFrom)
         /\ Irregular(~found \/ Stranger(Head(inbox)))
    /\ sessions' = Append(sessions, InSession(verifyFrom, keyIn', Head(inbox)))
    /\ Decrypt(sessions', Len(sessions'), Head(inbox))
    /\ UNCHANGED <<keyOut, crashed>>

\* Type 1 with a session of that label.
ReceiveKnown ==
    /\ Receive(1)
    /\ SlotsOf(verifyFrom) # {}
    /\ Decrypt(sessions, FirstSlot(verifyFrom), Head(inbox))
    /\ Irregular(Stranger(Head(inbox)))
    /\ UNCHANGED <<sessions, keyIn, keyOut, known, crashed>>

\* Type 1 without: a new outgoing session, which cannot decrypt the message.
ReceiveUnknown ==
    /\ Receive(1)
    /\ SlotsOf(verifyFrom) = {}
    /\ ~Full
    /\ \E found \in KeyFound(verifyFrom), otk \in Claimed(verifyFrom) :
         /\ keyOut' = KeyBuffer(found, verifyFrom, keyOut)
         /\ known' = known \cup Learnt(found, verifyFrom)
         /\ sessions' = Append(sessions,
                               OutSession(TRUE, verifyFrom, keyOut', otk))
         /\ Irregular(~found \/ otk = Null \/ Stranger(Head(inbox)))
    /\ Decrypt(sessions', Len(sessions'), Head(inbox))
    /\ UNCHANGED <<keyIn, crashed>>

\* The table is full: an uninitialised MatrixOlmSession pointer is used.
ReceiveNoSlot ==
    /\ \/ Receive(0)
       \/ Receive(1) /\ SlotsOf(verifyFrom) = {}
    /\ Full
    /\ Irregular(TRUE)
    /\ \/ crashed' = TRUE /\ UNCHANGED <<decrypted, opened, handled, replayed,
                                       lost>>
       \/ /\ crashed' = FALSE
          /\ \E i \in AnySlot : Decrypt(sessions, i, Head(inbox))
    /\ UNCHANGED <<sessions, keyIn, keyOut, known>>

-----------------------------------------------------------------------------
(* Sending                                                                 *)

\* The rest of SendToDeviceEncrypted: encrypt in slot i of table and address
\* the ciphertext to the key found for d, an uninitialised buffer on a miss.
Encrypt(table, i, d, named) ==
    sent' = sent \cup {[to |-> d, key |-> table[i].key, otk |-> table[i].otk,
                        sid |-> table[i].sid, named |-> named]}

SendKnown(d) ==
    /\ ~crashed
    /\ SlotsOf(d) # {}
    /\ \E named \in KeyFound(d) :
         /\ known' = known \cup Learnt(named, d)
         /\ Irregular(~named)
         /\ Encrypt(sessions, FirstSlot(d), d, named)
    /\ UNCHANGED <<verifyFrom, sessions, keyIn, keyOut, decrypted, opened,
                   crashed, syncVars, inbox, peerVars, handled, replayed, lost>>

SendNew(d) ==
    /\ ~crashed
    /\ SlotsOf(d) = {}
    /\ ~Full
    /\ \E found \in KeyFound(d), named \in KeyFound(d), otk \in Claimed(d) :
         /\ found => named
         /\ keyOut' = KeyBuffer(found, d, keyOut)
         /\ known' = known \cup Learnt(named, d)
         /\ sessions' = Append(sessions, OutSession(FALSE, d, keyOut', otk))
         /\ Irregular(~found \/ otk = Null)
         /\ Encrypt(sessions', Len(sessions'), d, named)
    /\ UNCHANGED <<verifyFrom, keyIn, decrypted, opened, crashed, syncVars,
                   inbox, peerVars, handled, replayed, lost>>

SendNoSlot(d) ==
    /\ ~crashed
    /\ SlotsOf(d) = {}
    /\ Full
    /\ \E named \in KeyFound(d) :
         /\ known' = known \cup Learnt(named, d)
         /\ \/ crashed' = TRUE /\ UNCHANGED sent
            \/ crashed' = FALSE /\ \E i \in AnySlot :
                                      Encrypt(sessions, i, d, named)
    /\ Irregular(TRUE)
    /\ UNCHANGED <<verifyFrom, sessions, keyIn, keyOut, decrypted, opened,
                   syncVars, inbox, peerVars, handled, replayed, lost>>

\* Or ClaimOnetimeKey dies of the pointer mjson_find did not set.
ClaimCrash ==
    /\ ~crashed
    /\ OtkMayRunOut
    /\ ~Full
    /\ \/ \E d \in Devices : SlotsOf(d) = {}
       \/ fetched > 0 /\ Head(inbox).type = 1 /\ SlotsOf(verifyFrom) = {}
    /\ crashed' = TRUE
    /\ Irregular(TRUE)
    /\ UNCHANGED <<verifyFrom, sessions, keyIn, keyOut, known, decrypted, opened,
                   syncVars, inbox, sent, peerVars, handled, replayed, lost>>

-----------------------------------------------------------------------------
(* The other devices (external)                                            *)

\* A verification request of d is handled (see Verification), after what was
\* written before it, or anywhere when its answer is handled again.
AskVerification(d) ==
    /\ ~crashed
    /\ \/ inbox = <<>>
       \/ again > 0 /\ d \in asked
    /\ verifyFrom' = d
    /\ asked' = asked \cup {d}
    /\ Irregular(verifyFrom \notin {Null, d})
    /\ UNCHANGED <<sessions, keyIn, keyOut, known, decrypted, opened, crashed,
                   syncVars, inbox, sent, received, current, acked, handled,
                   replayed, lost>>

\* Type 0 until the client has answered on the ratchet, type 1 from then on.
Write(d) ==
    /\ received < MaxReceived
    /\ VerifiedFirst => d \in asked
    /\ received' = received + 1
    /\ inbox' = Append(inbox, [from |-> d, type |-> IF acked[d] THEN 1 ELSE 0,
                               sid |-> current[d], text |-> received'])
    /\ UNCHANGED <<clientVars, syncVars, sent, current, acked, asked,
                   historyVars>>

\* d can read what was encrypted for its keys: on its own ratchet, or on one
\* made with its identity key and its one-time key.
Readable(m) == m.named /\ m.key = m.to /\ m.otk = m.to

\* A message is read, once or again: d goes on with the ratchet it came on.
Read(d, m) ==
    /\ m.to = d
    /\ Readable(m)
    /\ current' = [current EXCEPT ![d] = m.sid]
    /\ acked' = [acked EXCEPT ![d] = TRUE]
    /\ UNCHANGED <<clientVars, syncVars, inbox, sent, received, asked,
                   historyVars>>

-----------------------------------------------------------------------------

Next ==
    \/ Sync \/ SyncAgain
    \/ ReceivePreKey \/ ReceiveKnown \/ ReceiveUnknown \/ ReceiveNoSlot
    \/ \E d \in Devices : SendKnown(d) \/ SendNew(d) \/ SendNoSlot(d)
    \/ ClaimCrash
    \/ \E d \in Devices : AskVerification(d) \/ Write(d)
    \/ \E d \in Devices, m \in sent : Read(d, m)

Spec == Init /\ [][Next]_vars

-----------------------------------------------------------------------------
(* Properties                                                              *)

TypeOK ==
    /\ verifyFrom \in Devices \cup {Null}
    /\ sessions \in Seq(Session)
    /\ keyIn \in Devices \cup {Null}
    /\ keyOut \in Devices \cup {Null}
    /\ known \subseteq Devices
    /\ decrypted \in (1 .. MaxReceived) \cup {Null}
    /\ opened \subseteq Nat \X (1 .. MaxReceived)
    /\ crashed \in BOOLEAN
    /\ inbox \in Seq(Event)
    /\ fetched \in 0 .. Len(inbox)
    /\ answer \in Seq(Event)
    /\ again \in 0 .. MaxFailures
    /\ sent \subseteq Sent
    /\ received \in 0 .. MaxReceived
    /\ current \in [Devices -> Ratchets]
    /\ acked \in [Devices -> BOOLEAN]
    /\ asked \subseteq Devices
    /\ handled \subseteq 1 .. MaxReceived
    /\ replayed \in BOOLEAN
    /\ lost \in BOOLEAN
    /\ upset \in BOOLEAN

\* The table stays within its array, and a session object outlives every later
\* call: only entries behind the last are written.
TableAppendOnly ==
    [][ IsPrefix(sessions, sessions') /\ Len(sessions') <= NUM_OLM_SESSIONS ]_vars

\* A device keeps the session it is found under until the next verification
\* request, whatever is received and sent meanwhile.
SlotSticks ==
    [][ \A d \in Devices : SlotsOf(d) # {} /\ verifyFrom' = verifyFrom =>
           SlotsOf(d)' # {} /\ FirstSlot(d)' = FirstSlot(d) ]_vars

\* As long as nothing irregular has happened, every message of a device is
\* decrypted and its plaintext handled once, though repeated type 0 messages
\* make a session each and the first session is used ever after.
EachHandledOnce == upset \/ (~lost /\ ~replayed)

\* As long as nothing irregular has happened, a message sent to a device is one
\* that device can read, also when another device verifies.
SentIsReadable == upset \/ \A m \in sent : Readable(m)

\* "create a new olm session with device userId/deviceId and store it locally"
\* (matrix.h 395): the session found for a device was made with that device.
SessionsAreLabelled ==
    \A d \in Devices : SlotsOf(d) # {} => sessions[FirstSlot(d)].key \in {d, Null}

=============================================================================
