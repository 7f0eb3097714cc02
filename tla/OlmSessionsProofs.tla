-------------------------- MODULE OlmSessionsProofs --------------------------
(***************************************************************************)
(* Theorems about OlmSessions, for any number of devices, slots and        *)
(* messages: what the table promises whatever fails, and that messages are *)
(* decrypted once and can be read until something irregular happens.       *)
(***************************************************************************)
EXTENDS OlmSessions, SequenceTheorems, WellFoundedInduction, TLAPS

\* A message with this ratchet is one for the session d is found under.
OnFirst(d, sid) == SlotsOf(d) # {} /\ sessions[FirstSlot(d)].sid = sid

\* A session is found under the device whose keys it was made with.
Owned ==
    \A i \in DOMAIN sessions :
        /\ LabelOf(sessions[i]) \in Devices
        /\ sessions[i].key = LabelOf(sessions[i])
        /\ sessions[i].otk = LabelOf(sessions[i])

\* What the client has sent, and what comes back on a ratchet of its own, is of
\* the session that is still found.
SentOnFirst == \A m \in sent : Readable(m) /\ OnFirst(m.to, m.sid)
AckedOnFirst == \A d \in Devices : acked[d] => OnFirst(d, current[d])
InboxOnFirst ==
    \A n \in DOMAIN inbox :
        inbox[n].type = 1 => OnFirst(inbox[n].from, inbox[n].sid)

\* The messages in the inbox are new to the client, and no two are the same.
TextsNew ==
    /\ \A t \in handled : t <= received
    /\ \A pair \in opened : pair[2] \in handled
    /\ \A n \in DOMAIN inbox : /\ inbox[n].text <= received
                               /\ inbox[n].text \notin handled
    /\ \A n, k \in DOMAIN inbox : n < k => inbox[n].text < inbox[k].text

Regular ==
    /\ Owned
    /\ SentOnFirst
    /\ AckedOnFirst
    /\ InboxOnFirst
    /\ TextsNew
    /\ ~lost /\ ~replayed

IInv == TypeOK /\ (upset \/ (Regular /\ again = 0))

-----------------------------------------------------------------------------
(* The table                                                               *)

\* The slots found for a device have a first one.
NatLess == { pair \in Nat \X Nat : pair[1] < pair[2] }

LEMMA FirstOf ==
    ASSUME NEW S \in SUBSET Nat, S # {}
    PROVE  \E i \in S : \A j \in S : i <= j
<1>1. IsWellFoundedOn(NatLess, Nat)
  BY NatLessThanWellFounded DEF OpToRel, NatLess
<1>2. PICK i \in S : \A j \in S : <<j, i>> \notin NatLess
  BY <1>1, WFMin
<1>3. \A j \in S : ~(j < i)
  BY <1>2 DEF NatLess
<1> QED
  BY <1>3

LEMMA FirstSlotFound ==
    ASSUME sessions \in Seq(Session), NEW d, SlotsOf(d) # {}
    PROVE  /\ FirstSlot(d) \in SlotsOf(d)
           /\ FirstSlot(d) \in DOMAIN sessions
           /\ LabelOf(sessions[FirstSlot(d)]) = d
           /\ \A j \in SlotsOf(d) : FirstSlot(d) <= j
<1>1. SlotsOf(d) \in SUBSET Nat
  BY DEF SlotsOf
<1>2. \E i \in SlotsOf(d) : \A j \in SlotsOf(d) : i <= j
  BY <1>1, FirstOf
<1>3. /\ FirstSlot(d) \in SlotsOf(d)
      /\ \A j \in SlotsOf(d) : FirstSlot(d) <= j
  BY <1>2 DEF FirstSlot
<1> QED
  BY <1>3 DEF SlotsOf

\* Every step leaves the table as it is or appends to it.
Extended ==
    \/ sessions' = sessions
    \/ ~Full /\ \E s \in Session : sessions' = Append(sessions, s)

LEMMA ExtendedKeeps ==
    ASSUME sessions \in Seq(Session), Extended
    PROVE  /\ sessions' \in Seq(Session)
           /\ Len(sessions) <= Len(sessions')
           /\ \A i \in DOMAIN sessions : i \in DOMAIN sessions' /\ sessions'[i] = sessions[i]
           /\ \A i \in DOMAIN sessions' \ DOMAIN sessions :
                i = Len(sessions') /\ i = Len(sessions) + 1
  BY AppendProperties DEF Extended

\* As long as no session is renamed, the one found for a device stays found.
LEMMA FirstStays ==
    ASSUME sessions \in Seq(Session), Extended,
           \A i \in DOMAIN sessions :
               LabelOf(sessions[i])' = LabelOf(sessions[i]),
           NEW d, SlotsOf(d) # {}
    PROVE  /\ SlotsOf(d)' # {}
           /\ FirstSlot(d)' = FirstSlot(d)
           /\ sessions'[FirstSlot(d)'] = sessions[FirstSlot(d)]
<1>1. /\ FirstSlot(d) \in SlotsOf(d) /\ FirstSlot(d) \in DOMAIN sessions
      /\ \A j \in SlotsOf(d) : FirstSlot(d) <= j
  BY FirstSlotFound
<1>2. /\ sessions' \in Seq(Session)
      /\ \A i \in DOMAIN sessions : i \in DOMAIN sessions' /\ sessions'[i] = sessions[i]
      /\ \A i \in DOMAIN sessions' \ DOMAIN sessions : i = Len(sessions) + 1
  BY ExtendedKeeps
<1>3. \A i \in DOMAIN sessions : i \in SlotsOf(d)' <=> i \in SlotsOf(d)
  BY <1>2 DEF SlotsOf
<1>4. FirstSlot(d) \in SlotsOf(d)'
  BY <1>1, <1>3
<1>5. \A j \in SlotsOf(d)' : FirstSlot(d) <= j
  <2> SUFFICES ASSUME NEW j \in SlotsOf(d)' PROVE FirstSlot(d) <= j
    OBVIOUS
  <2>1. j \in DOMAIN sessions'
    BY DEF SlotsOf
  <2>2. CASE j \in DOMAIN sessions
    BY <1>1, <1>3, <2>2
  <2>3. CASE j \notin DOMAIN sessions
    BY <1>1, <1>2, <2>1, <2>3
  <2> QED
    BY <2>2, <2>3
<1>6. /\ FirstSlot(d)' \in SlotsOf(d)'
      /\ \A j \in SlotsOf(d)' : FirstSlot(d)' <= j
  BY <1>4, <1>5 DEF FirstSlot
<1>7. SlotsOf(d)' \in SUBSET Nat
  BY <1>2 DEF SlotsOf
<1>8. FirstSlot(d)' = FirstSlot(d)
  BY <1>4, <1>5, <1>6, <1>7
<1> QED
  BY <1>1, <1>2, <1>4, <1>8

LEMMA OnFirstStays ==
    ASSUME sessions \in Seq(Session), Extended,
           \A i \in DOMAIN sessions :
               LabelOf(sessions[i])' = LabelOf(sessions[i]),
           NEW d, NEW sid, OnFirst(d, sid)
    PROVE  OnFirst(d, sid)'
  BY FirstStays DEF OnFirst

-----------------------------------------------------------------------------
(* Types, and that every step extends the table                            *)

LEMMA InitInv == Init => IInv
<1> SUFFICES ASSUME Init PROVE IInv
  OBVIOUS
<1>1. TypeOK
  <2>1. sessions \in Seq(Session) /\ inbox \in Seq(Event) /\ answer \in Seq(Event)
        /\ fetched \in 0 .. Len(inbox)
    BY DEF Init
  <2>2. received \in 0 .. MaxReceived /\ again \in 0 .. MaxFailures
    BY OlmAssumption DEF Init
  <2>3. current \in [Devices -> Ratchets] /\ acked \in [Devices -> BOOLEAN]
    BY DEF Init, Ratchets
  <2> QED
    BY <2>1, <2>2, <2>3 DEF Init, TypeOK
<1>2. Regular
  BY DEF Init, Regular, Owned, SentOnFirst, AckedOnFirst, InboxOnFirst, TextsNew
<1>3. again = 0
  BY DEF Init
<1> QED
  BY <1>1, <1>2, <1>3 DEF IInv

\* An event is taken.
LEMMA Received ==
    ASSUME TypeOK, NEW type, Receive(type)
    PROVE  /\ inbox # <<>> /\ inbox' = Tail(inbox)
           /\ Head(inbox) \in Event /\ Head(inbox) = inbox[1]
           /\ Head(inbox).type = type
           /\ Head(inbox).from \in Devices /\ Head(inbox).sid \in Ratchets
           /\ Head(inbox).text \in 1 .. MaxReceived
           /\ 1 \in DOMAIN inbox
           /\ inbox' \in Seq(Event) /\ fetched' \in 0 .. Len(inbox')
           /\ \A n \in DOMAIN inbox' :
                n + 1 \in DOMAIN inbox /\ inbox'[n] = inbox[n + 1] /\ n \in Nat /\ n > 0
           /\ UNCHANGED <<verifyFrom, answer, again, sent, received, current, acked,
                          asked>>
<1>0. /\ inbox \in Seq(Event) /\ fetched \in 0 .. Len(inbox) /\ fetched > 0
      /\ fetched' = fetched - 1
  BY DEF TypeOK, Receive
<1>1. /\ inbox # <<>> /\ inbox' = Tail(inbox)
      /\ Head(inbox).type = type
      /\ UNCHANGED <<verifyFrom, answer, again, sent, received, current, acked,
                     asked>>
  BY <1>0 DEF Receive, peerVars
<1>2. Head(inbox) = inbox[1] /\ 1 \in DOMAIN inbox
  BY <1>0, <1>1, EmptySeq
<1>3. Head(inbox) \in Event
  BY <1>0, <1>1
<1>4. /\ inbox' \in Seq(Event) /\ Len(inbox') = Len(inbox) - 1
      /\ \A n \in DOMAIN inbox' :
           n + 1 \in DOMAIN inbox /\ inbox'[n] = inbox[n + 1] /\ n \in Nat /\ n > 0
  BY <1>0, <1>1, HeadTailProperties
<1>5. fetched' \in 0 .. Len(inbox')
  BY <1>0, <1>4
<1> QED
  BY <1>1, <1>2, <1>3, <1>4, <1>5 DEF Event

\* An answer, the next one or the last one once more.
LEMMA FetchedType ==
    ASSUME TypeOK, Sync \/ SyncAgain
    PROVE  TypeOK' /\ Extended
<1>1. /\ inbox \in Seq(Event) /\ answer \in Seq(Event)
      /\ again \in 0 .. MaxFailures /\ MaxFailures \in Nat
      /\ Len(inbox) \in Nat /\ Len(answer) \in Nat
  BY OlmAssumption DEF TypeOK
<1>2. /\ inbox' \in Seq(Event) /\ fetched' \in 0 .. Len(inbox')
      /\ answer' \in Seq(Event) /\ again' \in 0 .. MaxFailures
      /\ upset' \in BOOLEAN
  <2>1. CASE Sync
    BY <1>1, <2>1 DEF Sync, historyVars, TypeOK
  <2>2. CASE SyncAgain
    <3>1. /\ inbox' = answer \o inbox /\ fetched' = Len(answer) /\ answer' = answer
          /\ again' = again + 1 /\ again < MaxFailures /\ upset' \in BOOLEAN
      BY <2>2 DEF SyncAgain, Irregular, TypeOK
    <3>2. inbox' \in Seq(Event) /\ Len(inbox') = Len(answer) + Len(inbox)
      BY <1>1, <3>1
    <3> QED
      BY <1>1, <3>1, <3>2
  <2> QED
    BY <2>1, <2>2
<1>3. UNCHANGED <<clientVars, sent, peerVars, handled, replayed, lost>>
  BY DEF Sync, SyncAgain, historyVars
<1> QED
  BY <1>2, <1>3 DEF TypeOK, Extended, clientVars, peerVars

LEMMA DecryptKeepsType ==
    ASSUME TypeOK, NEW table, NEW i \in Nat, NEW m \in Event,
           Decrypt(table, i, m)
    PROVE  /\ decrypted' \in (1 .. MaxReceived) \cup {Null}
           /\ opened' \subseteq Nat \X (1 .. MaxReceived)
           /\ handled' \subseteq 1 .. MaxReceived
           /\ lost' \in BOOLEAN /\ replayed' \in BOOLEAN
<1>1. m.text \in 1 .. MaxReceived
  BY DEF Event
<1>2. /\ decrypted' = m.text \/ decrypted' = decrypted
      /\ opened' = opened \cup {<<i, m.text>>} \/ opened' = opened
      /\ handled' = handled \cup ({decrypted'} \ {Null})
      /\ lost' \in BOOLEAN /\ replayed' \in BOOLEAN
  BY DEF Decrypt, TypeOK
<1>3. /\ decrypted \in (1 .. MaxReceived) \cup {Null}
      /\ opened \subseteq Nat \X (1 .. MaxReceived)
      /\ handled \subseteq 1 .. MaxReceived
  BY DEF TypeOK
<1>4. handled' \subseteq 1 .. MaxReceived
  BY <1>1, <1>2, <1>3
<1>5. opened' \subseteq Nat \X (1 .. MaxReceived)
  BY <1>1, <1>2, <1>3
<1> QED
  BY <1>1, <1>2, <1>3, <1>4, <1>5

LEMMA SessionTypes ==
    ASSUME TypeOK, ~Full
    PROVE  /\ \A m \in Event, key \in Devices \cup {Null} :
                InSession(verifyFrom, key, m) \in Session
           /\ \A aliased \in BOOLEAN : \A d, key, otk \in Devices \cup {Null} :
                OutSession(aliased, d, key, otk) \in Session
<1>1. Len(sessions) + 1 \in Ratchets
  BY OlmAssumption DEF TypeOK, Full, Ratchets
<1> QED
  BY <1>1 DEF InSession, OutSession, Session, Event

LEMMA Encrypted ==
    ASSUME TypeOK, NEW table \in Seq(Session), NEW i \in DOMAIN table,
           NEW d \in Devices, NEW named \in BOOLEAN, Encrypt(table, i, d, named)
    PROVE  sent' \subseteq Sent
<1>1. table[i] \in Session
  OBVIOUS
<1> QED
  BY <1>1 DEF Encrypt, TypeOK, Session, Sent

LEMMA LookupTypes ==
    ASSUME TypeOK, NEW d \in Devices \cup {Null}, NEW found \in KeyFound(d)
    PROVE  /\ found \in BOOLEAN
           /\ found => d \in Devices
           /\ known \cup Learnt(found, d) \subseteq Devices
           /\ \A buffer \in Devices \cup {Null} :
                KeyBuffer(found, d, buffer) \in Devices \cup {Null}
           /\ Claimed(d) \subseteq Devices \cup {Null}
  BY DEF KeyFound, Learnt, KeyBuffer, Claimed, TypeOK

LEMMA PreKeyType ==
    ASSUME TypeOK, ReceivePreKey
    PROVE  TypeOK' /\ Extended
<1> DEFINE m == Head(inbox)
<1>0. Receive(0) /\ ~Full /\ verifyFrom \in Devices \cup {Null}
  BY DEF ReceivePreKey, TypeOK
<1>1. PICK found \in KeyFound(verifyFrom) :
        /\ keyIn' = KeyBuffer(found, verifyFrom, keyIn)
        /\ known' = known \cup Learnt(found, verifyFrom)
        /\ Irregular(~found \/ Stranger(m))
  BY DEF ReceivePreKey
<1>2. keyIn' \in Devices \cup {Null} /\ known' \subseteq Devices /\ found \in BOOLEAN
  BY <1>0, <1>1, LookupTypes DEF TypeOK
<1>3. m \in Event /\ inbox' \in Seq(Event) /\ fetched' \in 0 .. Len(inbox')
  BY <1>0, Received
<1>4. /\ InSession(verifyFrom, keyIn', m) \in Session
      /\ sessions' = Append(sessions, InSession(verifyFrom, keyIn', m))
      /\ Decrypt(sessions', Len(sessions'), m)
  BY <1>0, <1>2, <1>3, SessionTypes DEF ReceivePreKey
<1>5. Extended
  BY <1>0, <1>4 DEF Extended
<1>6. /\ sessions' \in Seq(Session)
      /\ decrypted' \in (1 .. MaxReceived) \cup {Null}
      /\ opened' \subseteq Nat \X (1 .. MaxReceived)
      /\ handled' \subseteq 1 .. MaxReceived
      /\ lost' \in BOOLEAN /\ replayed' \in BOOLEAN
  <2>1. sessions' \in Seq(Session) /\ Len(sessions') \in Nat
    BY <1>5, ExtendedKeeps DEF TypeOK
  <2> QED
    BY <1>3, <1>4, <2>1, DecryptKeepsType
<1>7. upset' \in BOOLEAN
  BY <1>1 DEF Irregular, TypeOK, Stranger
<1>8. UNCHANGED <<keyOut, crashed, verifyFrom, answer, again, sent, received, current,
                  acked, asked>>
  BY DEF ReceivePreKey, Receive, peerVars
<1> QED
  BY <1>2, <1>3, <1>5, <1>6, <1>7, <1>8 DEF TypeOK

LEMMA KnownType ==
    ASSUME TypeOK, ReceiveKnown
    PROVE  TypeOK' /\ Extended
<1>1. /\ Receive(1) /\ Decrypt(sessions, FirstSlot(verifyFrom), Head(inbox))
      /\ upset' \in BOOLEAN
      /\ UNCHANGED <<sessions, keyIn, keyOut, known, crashed>>
  BY DEF ReceiveKnown, Irregular, TypeOK, Stranger
<1>2. /\ Head(inbox) \in Event
      /\ inbox' \in Seq(Event) /\ fetched' \in 0 .. Len(inbox')
      /\ UNCHANGED <<verifyFrom, answer, again, sent, received, current, acked,
                     asked>>
  BY <1>1, Received
<1>3. FirstSlot(verifyFrom) \in Nat
  <2>1. SlotsOf(verifyFrom) # {} /\ sessions \in Seq(Session)
    BY DEF ReceiveKnown, TypeOK
  <2> QED
    BY <2>1, FirstSlotFound
<1>4. /\ decrypted' \in (1 .. MaxReceived) \cup {Null}
      /\ opened' \subseteq Nat \X (1 .. MaxReceived)
      /\ handled' \subseteq 1 .. MaxReceived
      /\ lost' \in BOOLEAN /\ replayed' \in BOOLEAN
  BY <1>1, <1>2, <1>3, DecryptKeepsType
<1> QED
  BY <1>1, <1>2, <1>4 DEF TypeOK, Extended

LEMMA UnknownType ==
    ASSUME TypeOK, ReceiveUnknown
    PROVE  TypeOK' /\ Extended
<1> DEFINE m == Head(inbox)
<1>0. Receive(1) /\ ~Full /\ verifyFrom \in Devices \cup {Null}
  BY DEF ReceiveUnknown, TypeOK
<1>1. PICK found \in KeyFound(verifyFrom), otk \in Claimed(verifyFrom) :
         /\ keyOut' = KeyBuffer(found, verifyFrom, keyOut)
         /\ known' = known \cup Learnt(found, verifyFrom)
         /\ sessions' = Append(sessions,
                               OutSession(TRUE, verifyFrom, keyOut', otk))
         /\ Irregular(~found \/ otk = Null \/ Stranger(m))
  BY DEF ReceiveUnknown
<1>2. /\ keyOut' \in Devices \cup {Null} /\ known' \subseteq Devices
      /\ otk \in Devices \cup {Null} /\ found \in BOOLEAN
  BY <1>0, <1>1, LookupTypes DEF TypeOK
<1>3. m \in Event /\ inbox' \in Seq(Event) /\ fetched' \in 0 .. Len(inbox')
  BY <1>0, Received
<1>4. OutSession(TRUE, verifyFrom, keyOut', otk) \in Session
  BY <1>0, <1>2, SessionTypes
<1>5. Extended
  BY <1>0, <1>1, <1>4 DEF Extended
<1>6. Decrypt(sessions', Len(sessions'), m)
  BY DEF ReceiveUnknown
<1>7. /\ sessions' \in Seq(Session)
      /\ decrypted' \in (1 .. MaxReceived) \cup {Null}
      /\ opened' \subseteq Nat \X (1 .. MaxReceived)
      /\ handled' \subseteq 1 .. MaxReceived
      /\ lost' \in BOOLEAN /\ replayed' \in BOOLEAN
  <2>1. sessions' \in Seq(Session) /\ Len(sessions') \in Nat
    BY <1>5, ExtendedKeeps DEF TypeOK
  <2> QED
    BY <1>3, <1>6, <2>1, DecryptKeepsType
<1>8. upset' \in BOOLEAN
  BY <1>1, <1>2 DEF Irregular, TypeOK, Stranger
<1>9. UNCHANGED <<keyIn, crashed, verifyFrom, answer, again, sent, received, current,
                  acked, asked>>
  BY DEF ReceiveUnknown, Receive, peerVars
<1> QED
  BY <1>2, <1>3, <1>5, <1>7, <1>8, <1>9 DEF TypeOK

LEMMA NoSlotType ==
    ASSUME TypeOK, ReceiveNoSlot
    PROVE  TypeOK' /\ Extended
<1>1. PICK type : Receive(type)
  BY DEF ReceiveNoSlot
<1>2. /\ Head(inbox) \in Event
      /\ inbox' \in Seq(Event) /\ fetched' \in 0 .. Len(inbox')
      /\ UNCHANGED <<verifyFrom, answer, again, sent, received, current, acked,
                     asked>>
  BY <1>1, Received
<1>3. UNCHANGED <<sessions, keyIn, keyOut, known>> /\ upset' \in BOOLEAN
  BY DEF ReceiveNoSlot, Irregular, TypeOK
<1>4. \/ crashed' = TRUE /\ UNCHANGED <<decrypted, opened, handled, replayed, lost>>
      \/ crashed' = FALSE /\ \E i \in AnySlot : Decrypt(sessions, i, Head(inbox))
  BY DEF ReceiveNoSlot
<1>5. /\ crashed' \in BOOLEAN
      /\ decrypted' \in (1 .. MaxReceived) \cup {Null}
      /\ opened' \subseteq Nat \X (1 .. MaxReceived)
      /\ handled' \subseteq 1 .. MaxReceived
      /\ lost' \in BOOLEAN /\ replayed' \in BOOLEAN
  <2>1. CASE crashed' = TRUE /\ UNCHANGED <<decrypted, opened, handled, replayed, lost>>
    BY <2>1 DEF TypeOK
  <2>2. ASSUME NEW i \in AnySlot, crashed' = FALSE, Decrypt(sessions, i, Head(inbox))
        PROVE  <1>5
    <3>1. i \in Nat
      BY DEF AnySlot, TypeOK
    <3> QED
      BY <1>2, <2>2, <3>1, DecryptKeepsType
  <2> QED
    BY <1>4, <2>1, <2>2
<1> QED
  BY <1>2, <1>3, <1>5 DEF TypeOK, Extended

LEMMA SendKnownType ==
    ASSUME TypeOK, NEW d \in Devices, SendKnown(d)
    PROVE  TypeOK' /\ Extended
<1>1. PICK named \in KeyFound(d) :
         /\ known' = known \cup Learnt(named, d)
         /\ Irregular(~named)
         /\ Encrypt(sessions, FirstSlot(d), d, named)
  BY DEF SendKnown
<1>2. /\ named \in BOOLEAN /\ known' \subseteq Devices
  BY <1>1, LookupTypes
<1>3. sent' \subseteq Sent
  <2>1. SlotsOf(d) # {} /\ sessions \in Seq(Session)
    BY DEF SendKnown, TypeOK
  <2>2. FirstSlot(d) \in DOMAIN sessions
    BY <2>1, FirstSlotFound
  <2> QED
    BY <1>1, <1>2, <2>1, <2>2, Encrypted
<1>4. UNCHANGED <<verifyFrom, sessions, keyIn, keyOut, decrypted, opened, crashed,
                  fetched, answer, again, inbox, received, current, acked, asked, handled, replayed, lost>>
  BY DEF SendKnown, peerVars, syncVars
<1>5. upset' \in BOOLEAN
  BY <1>1, <1>2 DEF Irregular, TypeOK
<1> QED
  BY <1>2, <1>3, <1>4, <1>5 DEF TypeOK, Extended

LEMMA SendNewType ==
    ASSUME TypeOK, NEW d \in Devices, SendNew(d)
    PROVE  TypeOK' /\ Extended
<1>0. ~Full
  BY DEF SendNew
<1>1. PICK found \in KeyFound(d), named \in KeyFound(d), otk \in Claimed(d) :
         /\ keyOut' = KeyBuffer(found, d, keyOut)
         /\ known' = known \cup Learnt(named, d)
         /\ sessions' = Append(sessions, OutSession(FALSE, d, keyOut', otk))
         /\ Irregular(~found \/ otk = Null)
         /\ Encrypt(sessions', Len(sessions'), d, named)
  BY DEF SendNew
<1>2. /\ named \in BOOLEAN /\ found \in BOOLEAN /\ known' \subseteq Devices
      /\ keyOut' \in Devices \cup {Null} /\ otk \in Devices \cup {Null}
  BY <1>1, LookupTypes DEF TypeOK
<1>3. OutSession(FALSE, d, keyOut', otk) \in Session
  BY <1>0, <1>2, SessionTypes
<1>4. Extended
  BY <1>0, <1>1, <1>3 DEF Extended
<1>5. sessions' \in Seq(Session) /\ Len(sessions') \in DOMAIN sessions'
  <2>1. sessions \in Seq(Session)
    BY DEF TypeOK
  <2>2. sessions' \in Seq(Session) /\ Len(sessions') = Len(sessions) + 1
    BY <1>1, <1>3, <2>1, AppendProperties
  <2> QED
    BY <2>1, <2>2
<1>6. sent' \subseteq Sent
  BY <1>1, <1>2, <1>5, Encrypted
<1>7. UNCHANGED <<verifyFrom, keyIn, decrypted, opened, crashed, fetched, answer,
                  again, inbox, received, current, acked, asked, handled, replayed, lost>>
  BY DEF SendNew, peerVars, syncVars
<1>8. upset' \in BOOLEAN
  BY <1>1, <1>2 DEF Irregular, TypeOK
<1> QED
  BY <1>2, <1>4, <1>5, <1>6, <1>7, <1>8 DEF TypeOK

LEMMA SendNoSlotType ==
    ASSUME TypeOK, NEW d \in Devices, SendNoSlot(d)
    PROVE  TypeOK' /\ Extended
<1>1. PICK named \in KeyFound(d) :
         /\ known' = known \cup Learnt(named, d)
         /\ \/ crashed' = TRUE /\ UNCHANGED sent
            \/ crashed' = FALSE /\ \E i \in AnySlot :
                                      Encrypt(sessions, i, d, named)
  BY DEF SendNoSlot
<1>2. named \in BOOLEAN /\ known' \subseteq Devices
  BY <1>1, LookupTypes
<1>3. sent' \subseteq Sent /\ crashed' \in BOOLEAN
  BY <1>1, <1>2, Encrypted, ZenonT(60) DEF AnySlot, TypeOK
<1>4. UNCHANGED <<verifyFrom, sessions, keyIn, keyOut, decrypted, opened, fetched,
                  answer, again, inbox, received, current, acked, asked, handled, replayed, lost>>
  BY DEF SendNoSlot, peerVars, syncVars
<1>5. upset' \in BOOLEAN
  BY DEF SendNoSlot, Irregular, TypeOK
<1> QED
  BY <1>2, <1>3, <1>4, <1>5 DEF TypeOK, Extended

LEMMA WriteType ==
    ASSUME TypeOK, NEW d \in Devices, Write(d)
    PROVE  TypeOK' /\ Extended
<1> DEFINE m == [from |-> d, type |-> IF acked[d] THEN 1 ELSE 0,
                 sid |-> current[d], text |-> received']
<1>1. received' \in 1 .. MaxReceived /\ received' \in 0 .. MaxReceived
  BY OlmAssumption DEF Write, TypeOK
<1>2. m \in Event
  BY <1>1 DEF Event, TypeOK
<1>3. inbox' = Append(inbox, m)
  BY DEF Write
<1> HIDE DEF m
<1>4. inbox' \in Seq(Event) /\ fetched \in 0 .. Len(inbox')
  <2>1. inbox \in Seq(Event) /\ fetched \in 0 .. Len(inbox)
    BY DEF TypeOK
  <2>2. inbox' \in Seq(Event) /\ Len(inbox') = Len(inbox) + 1
    BY <1>2, <1>3, <2>1, AppendProperties
  <2> QED
    BY <2>1, <2>2
<1>5. UNCHANGED <<clientVars, syncVars, sent, current, acked, asked, historyVars>>
  BY DEF Write
<1> QED
  BY <1>1, <1>4, <1>5 DEF TypeOK, Extended, clientVars, syncVars, historyVars

LEMMA ReadType ==
    ASSUME TypeOK, NEW d \in Devices, NEW m \in sent, Read(d, m)
    PROVE  TypeOK' /\ Extended
<1>1. m.sid \in Ratchets
  BY DEF TypeOK, Sent
<1>2. /\ current' = [current EXCEPT ![d] = m.sid]
      /\ acked' = [acked EXCEPT ![d] = TRUE]
      /\ UNCHANGED <<clientVars, syncVars, inbox, sent, received, asked, historyVars>>
  BY DEF Read
<1> QED
  BY <1>1, <1>2 DEF TypeOK, Extended, clientVars, syncVars, historyVars

LEMMA StepType ==
    ASSUME TypeOK, [Next]_vars
    PROVE  TypeOK' /\ Extended
<1>1. CASE ClaimCrash
  BY <1>1 DEF ClaimCrash, Irregular, TypeOK, Extended, peerVars, syncVars
<1>2. ASSUME NEW d \in Devices, AskVerification(d)
      PROVE  TypeOK' /\ Extended
  BY <1>2 DEF AskVerification, Irregular, TypeOK, Extended, syncVars
<1>3. CASE UNCHANGED vars
  BY <1>3 DEF TypeOK, Extended, vars, clientVars, syncVars, peerVars, historyVars
<1> QED
  BY <1>1, <1>2, <1>3, FetchedType, PreKeyType, KnownType, UnknownType, NoSlotType,
     SendKnownType, SendNewType, SendNoSlotType, WriteType, ReadType DEF Next

-----------------------------------------------------------------------------
(* As long as nothing irregular happens                                    *)

LEMMA LabelsStay ==
    ASSUME sessions \in Seq(Session), Extended, verifyFrom' = verifyFrom
    PROVE  \A i \in DOMAIN sessions :
             LabelOf(sessions[i])' = LabelOf(sessions[i])
  BY ExtendedKeeps DEF LabelOf

LEMMA AllOnFirstStay ==
    ASSUME sessions \in Seq(Session), Extended, verifyFrom' = verifyFrom
    PROVE  \A d, sid : OnFirst(d, sid) => OnFirst(d, sid)'
  BY LabelsStay, OnFirstStays

\* A new session of the device it is found under.
LEMMA OwnedStays ==
    ASSUME sessions \in Seq(Session), Owned, NEW s \in Session,
           sessions' = Append(sessions, s), verifyFrom' = verifyFrom, ~Full,
           LabelOf(s) \in Devices, s.key = LabelOf(s), s.otk = LabelOf(s)
    PROVE  Owned'
<1>1. /\ sessions' \in Seq(Session) /\ Len(sessions') = Len(sessions) + 1
      /\ sessions'[Len(sessions) + 1] = s
      /\ \A i \in DOMAIN sessions : sessions'[i] = sessions[i]
  BY AppendProperties
<1>2. \A i \in DOMAIN sessions' : i \in DOMAIN sessions \/ i = Len(sessions) + 1
  BY <1>1
<1>3. \A i \in DOMAIN sessions :
        /\ LabelOf(sessions[i])' = LabelOf(sessions[i])
        /\ sessions'[i].key = sessions[i].key /\ sessions'[i].otk = sessions[i].otk
  BY <1>1 DEF LabelOf
<1>4. ASSUME NEW i \in DOMAIN sessions', i = Len(sessions) + 1
      PROVE  LabelOf(sessions[i])' = LabelOf(s)
  BY <1>1, <1>4 DEF LabelOf
<1>5. ASSUME NEW i \in DOMAIN sessions'
      PROVE  /\ LabelOf(sessions[i])' \in Devices
             /\ sessions'[i].key = LabelOf(sessions[i])'
             /\ sessions'[i].otk = LabelOf(sessions[i])'
  <2>1. CASE i \in DOMAIN sessions
    BY <1>3, <2>1 DEF Owned
  <2>2. CASE i = Len(sessions) + 1
    BY <1>1, <1>4, <2>2
  <2> QED
    BY <1>2, <2>1, <2>2
<1> QED
  BY <1>5 DEF Owned

\* A message for a session that can open it is handled, for the first time.
LEMMA DecryptsOnce ==
    ASSUME TypeOK, Regular, NEW type, Receive(type), NEW table, NEW i,
           Decrypt(table, i, Head(inbox)),
           table[i].key # Null, table[i].sid = Head(inbox).sid
    PROVE  TextsNew' /\ ~lost' /\ ~replayed'
<1> DEFINE text == Head(inbox).text
<1>0. <<i, text>> \notin opened
  <2>1. text \notin handled
    BY Received DEF Regular, TextsNew
  <2> QED
    BY <2>1 DEF Regular, TextsNew
<1>1. /\ decrypted' = text /\ opened' = opened \cup {<<i, text>>}
      /\ text \in 1 .. MaxReceived
      /\ handled' = handled \cup ({decrypted'} \ {Null})
      /\ lost' => lost
      /\ replayed' => replayed \/ decrypted' \in handled
  BY <1>0, Received DEF Decrypt, TypeOK
<1>2. /\ Head(inbox) = inbox[1] /\ 1 \in DOMAIN inbox /\ received' = received
      /\ \A n \in DOMAIN inbox' :
           n + 1 \in DOMAIN inbox /\ inbox'[n] = inbox[n + 1] /\ n \in Nat /\ n > 0
  BY Received
<1>3. /\ ~lost /\ ~replayed
      /\ \A t \in handled : t <= received
      /\ \A n \in DOMAIN inbox : /\ inbox[n].text <= received
                                 /\ inbox[n].text \notin handled
      /\ \A n, k \in DOMAIN inbox : n < k => inbox[n].text < inbox[k].text
  BY DEF Regular, TextsNew
<1>4. \A n \in DOMAIN inbox : inbox[n].text \in Nat
  <2>1. \A n \in DOMAIN inbox : inbox[n] \in Event
    BY DEF TypeOK
  <2> QED
    BY <2>1, OlmAssumption DEF Event
<1>5. text = inbox[1].text
  BY <1>2
<1> HIDE DEF text
<1>6. ~lost' /\ ~replayed'
  BY <1>1, <1>2, <1>3, <1>5
<1>7. \A t \in handled' : t <= received'
  BY <1>1, <1>2, <1>3, <1>5
<1>8. ASSUME NEW n \in DOMAIN inbox'
      PROVE  inbox'[n].text <= received' /\ inbox'[n].text \notin handled'
  <2>1. n + 1 \in DOMAIN inbox /\ inbox'[n] = inbox[n + 1] /\ 1 < n + 1
    BY <1>2
  <2>2. inbox[1].text < inbox[n + 1].text
    BY <1>2, <1>3, <2>1
  <2>3. inbox'[n].text # text
    BY <1>2, <1>4, <1>5, <2>1, <2>2
  <2> QED
    BY <1>1, <1>2, <1>3, <2>1, <2>3
<1>9. ASSUME NEW n \in DOMAIN inbox', NEW k \in DOMAIN inbox', n < k
      PROVE  inbox'[n].text < inbox'[k].text
  <2>1. /\ n + 1 \in DOMAIN inbox /\ inbox'[n] = inbox[n + 1]
        /\ k + 1 \in DOMAIN inbox /\ inbox'[k] = inbox[k + 1]
        /\ n + 1 < k + 1
    BY <1>2, <1>9
  <2> QED
    BY <1>3, <2>1
<1>10. \A pair \in opened' : pair[2] \in handled'
  <2>1. text \in handled'
    <3>1. text # Null
      BY <1>1, OlmAssumption
    <3> QED
      BY <1>1, <3>1
  <2>2. \A pair \in opened : pair[2] \in handled'
    BY <1>1 DEF Regular, TextsNew
  <2> QED
    BY <1>1, <2>1, <2>2
<1> QED
  BY <1>6, <1>7, <1>8, <1>9, <1>10 DEF TextsNew

\* The parts of Regular that handling an event leaves alone.
LEMMA ReceiveKeeps ==
    ASSUME TypeOK, Regular, NEW type, Receive(type), Extended
    PROVE  SentOnFirst' /\ AckedOnFirst' /\ InboxOnFirst'
<1>1. /\ UNCHANGED <<verifyFrom, sent, current, acked>>
      /\ \A n \in DOMAIN inbox' : n + 1 \in DOMAIN inbox /\ inbox'[n] = inbox[n + 1]
  BY Received
<1>2. \A d, sid : OnFirst(d, sid) => OnFirst(d, sid)'
  BY <1>1, AllOnFirstStay DEF TypeOK
<1>3. SentOnFirst'
  <2>1. \A m \in sent : Readable(m) /\ OnFirst(m.to, m.sid)'
    BY <1>2 DEF Regular, SentOnFirst
  <2> QED
    BY <1>1, <2>1 DEF SentOnFirst, Readable
<1>4. AckedOnFirst'
  <2> SUFFICES ASSUME NEW d \in Devices, acked'[d]
               PROVE  OnFirst(d, current[d])'
    BY DEF AckedOnFirst
  <2>1. PICK sid : sid = current[d]
    OBVIOUS
  <2>2. OnFirst(d, sid)'
    BY <1>1, <1>2, <2>1 DEF Regular, AckedOnFirst
  <2> QED
    BY <1>1, <2>1, <2>2 DEF OnFirst
<1>5. InboxOnFirst'
  <2> SUFFICES ASSUME NEW n \in DOMAIN inbox', inbox'[n].type = 1
               PROVE  OnFirst(inbox[n].from, inbox[n].sid)'
    BY DEF InboxOnFirst
  <2>1. PICK m : m = inbox[n + 1] /\ m = inbox'[n] /\ n + 1 \in DOMAIN inbox
    BY <1>1
  <2>2. OnFirst(m.from, m.sid)'
    BY <1>2, <2>1 DEF Regular, InboxOnFirst
  <2> QED
    BY <2>1, <2>2 DEF OnFirst, FirstSlot, SlotsOf, LabelOf
<1> QED
  BY <1>3, <1>4, <1>5

LEMMA PreKeyRegular ==
    ASSUME TypeOK, Regular, ReceivePreKey, ~upset', Extended
    PROVE  Regular'
<1> DEFINE m == Head(inbox)
           s == InSession(verifyFrom, keyIn', m)
<1>0. Receive(0) /\ ~Full /\ sessions \in Seq(Session)
  BY DEF ReceivePreKey, TypeOK
<1>1. PICK found \in KeyFound(verifyFrom) :
        /\ keyIn' = KeyBuffer(found, verifyFrom, keyIn)
        /\ Irregular(~found \/ Stranger(m))
  BY DEF ReceivePreKey
<1>2. found /\ m.from = verifyFrom
  BY <1>1 DEF Irregular, Stranger
<1>3. verifyFrom \in Devices /\ keyIn' = verifyFrom
  BY <1>1, <1>2 DEF KeyFound, KeyBuffer, TypeOK
<1>4. m \in Event /\ verifyFrom' = verifyFrom
  BY <1>0, Received
<1>5. s \in Session
  BY <1>0, <1>3, <1>4, SessionTypes
<1>6. s.aliased /\ s.key = verifyFrom /\ s.otk = verifyFrom /\ s.sid = m.sid
  BY <1>2, <1>3 DEF InSession
<1>7. sessions' = Append(sessions, s) /\ Decrypt(sessions', Len(sessions'), m)
  BY DEF ReceivePreKey
<1>8. sessions'[Len(sessions')] = s
  BY <1>0, <1>5, <1>7, AppendProperties
<1> HIDE DEF s
<1>9. Owned'
  BY <1>0, <1>3, <1>4, <1>5, <1>6, <1>7, OwnedStays DEF LabelOf, Regular
<1>10. TextsNew' /\ ~lost' /\ ~replayed'
  BY <1>0, <1>3, <1>6, <1>7, <1>8, DecryptsOnce, OlmAssumption
<1> QED
  BY <1>0, <1>9, <1>10, ReceiveKeeps DEF Regular

LEMMA KnownRegular ==
    ASSUME TypeOK, Regular, ReceiveKnown, ~upset', Extended
    PROVE  Regular'
<1> DEFINE m == Head(inbox)
           i == FirstSlot(verifyFrom)
<1>0. /\ Receive(1) /\ SlotsOf(verifyFrom) # {} /\ sessions \in Seq(Session)
      /\ sessions' = sessions /\ Decrypt(sessions, i, m)
      /\ Irregular(Stranger(m))
  BY DEF ReceiveKnown, TypeOK
<1>1. m.from = verifyFrom
  BY <1>0 DEF Irregular, Stranger
<1>2. /\ m = inbox[1] /\ 1 \in DOMAIN inbox /\ m.type = 1
      /\ verifyFrom' = verifyFrom
  BY <1>0, Received
<1>3. sessions[i].sid = m.sid
  BY <1>1, <1>2 DEF Regular, InboxOnFirst, OnFirst
<1>4. sessions[i].key # Null
  <2>1. i \in DOMAIN sessions
    BY <1>0, FirstSlotFound
  <2> QED
    BY <2>1, OlmAssumption DEF Regular, Owned
<1> HIDE DEF i
<1>5. TextsNew' /\ ~lost' /\ ~replayed'
  BY <1>0, <1>3, <1>4, DecryptsOnce
<1>6. Owned'
  BY <1>0, <1>2 DEF Regular, Owned, LabelOf
<1> QED
  BY <1>0, <1>5, <1>6, ReceiveKeeps DEF Regular

\* A device writes on a ratchet of the client only when the client has a session
\* for it.
LEMMA UnknownIrregular ==
    ASSUME TypeOK, Regular, ReceiveUnknown
    PROVE  upset'
<1>1. /\ Receive(1) /\ SlotsOf(verifyFrom) = {}
      /\ \E what \in BOOLEAN : Irregular(what \/ Stranger(Head(inbox)))
  BY DEF ReceiveUnknown, Irregular
<1>2. Head(inbox) = inbox[1] /\ 1 \in DOMAIN inbox /\ Head(inbox).type = 1
  BY <1>1, Received
<1>3. SlotsOf(Head(inbox).from) # {}
  BY <1>2 DEF Regular, InboxOnFirst, OnFirst
<1> QED
  BY <1>1, <1>3 DEF Irregular, Stranger

\* The parts of Regular that need nothing but the table, the labels and what
\* was sent before.
LEMMA SendKeeps ==
    ASSUME TypeOK, Regular, Extended,
           UNCHANGED <<verifyFrom, inbox, received, current, acked, opened,
                       handled, replayed, lost>>,
           NEW m, sent' = sent \cup {m}, Readable(m), OnFirst(m.to, m.sid)'
    PROVE  /\ SentOnFirst' /\ AckedOnFirst' /\ InboxOnFirst' /\ TextsNew'
           /\ ~lost' /\ ~replayed'
<1>1. \A d, sid : OnFirst(d, sid) => OnFirst(d, sid)'
  BY AllOnFirstStay DEF TypeOK
<1>2. SentOnFirst'
  <2>1. \A n \in sent : Readable(n) /\ OnFirst(n.to, n.sid)'
    BY <1>1 DEF Regular, SentOnFirst
  <2>2. \A n \in sent' : Readable(n) /\ OnFirst(n.to, n.sid)'
    BY <2>1
  <2> QED
    BY <2>2 DEF SentOnFirst, Readable
<1>3. AckedOnFirst'
  <2> SUFFICES ASSUME NEW d \in Devices, acked'[d]
               PROVE  OnFirst(d, current[d])'
    BY DEF AckedOnFirst
  <2>1. PICK sid : sid = current[d]
    OBVIOUS
  <2>2. OnFirst(d, sid)'
    BY <1>1, <2>1 DEF Regular, AckedOnFirst
  <2> QED
    BY <2>1, <2>2 DEF OnFirst
<1>4. InboxOnFirst'
  <2> SUFFICES ASSUME NEW n \in DOMAIN inbox', inbox'[n].type = 1
               PROVE  OnFirst(inbox[n].from, inbox[n].sid)'
    BY DEF InboxOnFirst
  <2>1. PICK e : e = inbox[n] /\ e = inbox'[n]
    OBVIOUS
  <2>2. OnFirst(e.from, e.sid)'
    BY <1>1, <2>1 DEF Regular, InboxOnFirst
  <2> QED
    BY <2>1, <2>2 DEF OnFirst, FirstSlot, SlotsOf, LabelOf
<1>5. TextsNew' /\ ~lost' /\ ~replayed'
  BY DEF Regular, TextsNew
<1> QED
  BY <1>2, <1>3, <1>4, <1>5

LEMMA SendKnownRegular ==
    ASSUME TypeOK, Regular, NEW d \in Devices, SendKnown(d), ~upset', Extended
    PROVE  Regular'
<1> DEFINE i == FirstSlot(d)
<1>1. PICK named \in KeyFound(d) :
         Irregular(~named) /\ Encrypt(sessions, i, d, named)
  BY DEF SendKnown
<1>2. named = TRUE
  BY <1>1 DEF Irregular, KeyFound
<1>3. /\ SlotsOf(d) # {} /\ sessions \in Seq(Session) /\ sessions' = sessions
      /\ UNCHANGED <<verifyFrom, inbox, received, current, acked, opened,
                     handled, replayed, lost>>
  BY DEF SendKnown, TypeOK, peerVars
<1>4. i \in DOMAIN sessions /\ LabelOf(sessions[i]) = d
  BY <1>3, FirstSlotFound
<1>5. sessions[i].key = d /\ sessions[i].otk = d
  BY <1>4 DEF Regular, Owned
<1>6. PICK m : m = [to |-> d, key |-> sessions[i].key, otk |-> sessions[i].otk,
                    sid |-> sessions[i].sid, named |-> named]
  OBVIOUS
<1>7. sent' = sent \cup {m}
  BY <1>1, <1>6 DEF Encrypt
<1>8. Readable(m)
  BY <1>2, <1>5, <1>6 DEF Readable
<1>9. m.to = d /\ m.sid = sessions[i].sid
  BY <1>6
<1>10. OnFirst(m.to, m.sid)
  BY <1>3, <1>9 DEF OnFirst
<1>11. OnFirst(m.to, m.sid)'
  BY <1>3, <1>10, AllOnFirstStay
<1>12. Owned'
  BY <1>3 DEF Regular, Owned, LabelOf
<1> QED
  BY <1>3, <1>7, <1>8, <1>11, <1>12, SendKeeps DEF Regular

LEMMA SendNewRegular ==
    ASSUME TypeOK, Regular, NEW d \in Devices, SendNew(d), ~upset', Extended
    PROVE  Regular'
<1> DEFINE s == OutSession(FALSE, d, d, d)
<1>1. PICK found \in KeyFound(d), named \in KeyFound(d), otk \in Claimed(d) :
         /\ found => named
         /\ keyOut' = KeyBuffer(found, d, keyOut)
         /\ sessions' = Append(sessions, OutSession(FALSE, d, keyOut', otk))
         /\ Irregular(~found \/ otk = Null)
         /\ Encrypt(sessions', Len(sessions'), d, named)
  BY DEF SendNew
<1>2. named = TRUE /\ otk = d /\ keyOut' = d
  BY <1>1 DEF Irregular, KeyFound, KeyBuffer, Claimed
<1>3. /\ SlotsOf(d) = {} /\ ~Full /\ sessions \in Seq(Session)
      /\ UNCHANGED <<verifyFrom, inbox, received, current, acked, opened,
                     handled, replayed, lost>>
  BY DEF SendNew, TypeOK, peerVars
<1>4. sessions' = Append(sessions, s)
  BY <1>1, <1>2
<1>5. s \in Session
  BY <1>3, SessionTypes
<1>6. ~s.aliased /\ s.label = d /\ s.key = d /\ s.otk = d
  BY OlmAssumption DEF OutSession
<1> HIDE DEF s
<1>7. /\ sessions' \in Seq(Session) /\ Len(sessions') = Len(sessions) + 1
      /\ sessions'[Len(sessions')] = s /\ Len(sessions') \in DOMAIN sessions'
      /\ \A i \in DOMAIN sessions' : i # Len(sessions') =>
           i \in DOMAIN sessions /\ sessions'[i] = sessions[i]
  <2>1. /\ sessions' \in Seq(Session) /\ Len(sessions') = Len(sessions) + 1
        /\ sessions'[Len(sessions) + 1] = s
        /\ \A i \in 1 .. Len(sessions) : sessions'[i] = sessions[i]
    BY <1>3, <1>4, <1>5, AppendProperties
  <2>2. DOMAIN sessions' = 1 .. Len(sessions')
    BY <2>1
  <2> QED
    BY <1>3, <2>1, <2>2
<1>8. PICK m : m = [to |-> d, key |-> s.key, otk |-> s.otk, sid |-> s.sid,
                    named |-> TRUE]
  OBVIOUS
<1>9. sent' = sent \cup {m}
  BY <1>1, <1>2, <1>7, <1>8 DEF Encrypt
<1>10. Readable(m) /\ m.to = d /\ m.sid = s.sid
  BY <1>6, <1>8 DEF Readable
<1>11. SlotsOf(d)' = {Len(sessions')}
  <2>2. \A i \in DOMAIN sessions' : i # Len(sessions') => i \notin SlotsOf(d)'
    BY <1>3, <1>7 DEF SlotsOf, LabelOf
  <2>3. Len(sessions') \in SlotsOf(d)'
    BY <1>6, <1>7 DEF SlotsOf, LabelOf
  <2>4. SlotsOf(d)' \subseteq DOMAIN sessions'
    BY DEF SlotsOf
  <2> QED
    BY <2>2, <2>3, <2>4
<1>12. OnFirst(m.to, m.sid)'
  <2>1. FirstSlot(d)' = Len(sessions')
    <3>1. \A i \in SlotsOf(d)' : i = Len(sessions')
      BY <1>11
    <3>2. Len(sessions') <= Len(sessions') /\ Len(sessions') \in SlotsOf(d)'
      BY <1>7, <1>11
    <3> QED
      BY <3>1, <3>2 DEF FirstSlot
  <2> QED
    BY <1>7, <1>10, <1>11, <2>1 DEF OnFirst
<1>13. Owned'
  BY <1>3, <1>4, <1>5, <1>6, OwnedStays DEF LabelOf, Regular
<1> QED
  BY <1>3, <1>9, <1>10, <1>12, <1>13, SendKeeps DEF Regular

\* What depends on the table only.
LEMMA SameTable ==
    ASSUME Regular, UNCHANGED <<sessions, verifyFrom>>
    PROVE  /\ Owned'
           /\ sent' = sent => SentOnFirst'
           /\ acked' = acked /\ current' = current => AckedOnFirst'
           /\ inbox' = inbox => InboxOnFirst'
<1>1. \A d, sid : OnFirst(d, sid)' <=> OnFirst(d, sid)
  BY DEF OnFirst, FirstSlot, SlotsOf, LabelOf
<1>2. Owned'
  BY DEF Regular, Owned, LabelOf
<1>3. ASSUME sent' = sent PROVE SentOnFirst'
  BY <1>3, <1>1 DEF Regular, SentOnFirst, Readable
<1>4. ASSUME acked' = acked, current' = current PROVE AckedOnFirst'
  BY <1>4 DEF Regular, AckedOnFirst, OnFirst, FirstSlot, SlotsOf, LabelOf
<1>5. ASSUME inbox' = inbox PROVE InboxOnFirst'
  BY <1>5 DEF Regular, InboxOnFirst, OnFirst, FirstSlot, SlotsOf, LabelOf
<1> QED
  BY <1>2, <1>3, <1>4, <1>5

\* The first verification request names no session anew.
LEMMA AskRegular ==
    ASSUME TypeOK, Regular, again = 0, NEW d \in Devices, AskVerification(d),
           ~upset'
    PROVE  Regular'
<1>1. /\ verifyFrom \in {Null, d} /\ verifyFrom' = d /\ inbox' = inbox
      /\ UNCHANGED <<sessions, sent, received, current, acked, opened, handled,
                     replayed, lost>>
  BY DEF AskVerification, Irregular
<1>2. sessions \in Seq(Session) /\ Extended
  BY <1>1 DEF TypeOK, Extended
<1>3. \A i \in DOMAIN sessions : LabelOf(sessions[i])' = LabelOf(sessions[i])
  BY <1>1, OlmAssumption DEF Regular, Owned, LabelOf
<1>4. \A x, sid : OnFirst(x, sid) => OnFirst(x, sid)'
  BY <1>2, <1>3, OnFirstStays
<1>5. Owned'
  BY <1>1, <1>3 DEF Regular, Owned
<1>6. SentOnFirst'
  <2>1. \A m \in sent : Readable(m) /\ OnFirst(m.to, m.sid)'
    BY <1>4 DEF Regular, SentOnFirst
  <2> QED
    BY <1>1, <2>1 DEF SentOnFirst, Readable
<1>7. AckedOnFirst'
  <2> SUFFICES ASSUME NEW x \in Devices, acked'[x]
               PROVE  OnFirst(x, current[x])'
    BY DEF AckedOnFirst
  <2>1. PICK sid : sid = current[x]
    OBVIOUS
  <2>2. OnFirst(x, sid)'
    BY <1>1, <1>4, <2>1 DEF Regular, AckedOnFirst
  <2> QED
    BY <1>1, <2>1, <2>2 DEF OnFirst
<1>8. InboxOnFirst'
  <2>1. inbox' = <<>>
    BY <1>1 DEF AskVerification
  <2> QED
    BY <2>1 DEF InboxOnFirst
<1> QED
  BY <1>1, <1>5, <1>6, <1>7, <1>8 DEF Regular, TextsNew

LEMMA WriteRegular ==
    ASSUME TypeOK, Regular, NEW d \in Devices, Write(d)
    PROVE  Regular'
<1>0. /\ sessions' = sessions /\ verifyFrom' = verifyFrom
      /\ UNCHANGED <<sent, current, acked, opened, handled, lost, replayed>>
      /\ received \in Nat /\ received' = received + 1
      /\ inbox \in Seq(Event)
  BY OlmAssumption DEF Write, clientVars, historyVars, TypeOK
<1>1. PICK m : m = [from |-> d, type |-> IF acked[d] THEN 1 ELSE 0,
                    sid |-> current[d], text |-> received']
  OBVIOUS
<1>2. m \in Event
  BY <1>0, <1>1, OlmAssumption DEF Event, TypeOK, Write
<1>3. inbox' = Append(inbox, m)
  BY <1>1 DEF Write
<1>4. /\ \A n \in DOMAIN inbox' : n \in DOMAIN inbox \/ n = Len(inbox) + 1
      /\ \A n \in DOMAIN inbox : inbox'[n] = inbox[n]
      /\ inbox'[Len(inbox) + 1] = m
  BY <1>0, <1>2, <1>3, AppendProperties
<1>5. Owned' /\ SentOnFirst' /\ AckedOnFirst'
  BY <1>0, SameTable
<1>6. InboxOnFirst'
  <2> SUFFICES ASSUME NEW n \in DOMAIN inbox', inbox'[n].type = 1
               PROVE  OnFirst(inbox[n].from, inbox[n].sid)'
    BY DEF InboxOnFirst
  <2>1. OnFirst(inbox'[n].from, inbox'[n].sid)
    <3>1. CASE n \in DOMAIN inbox
      BY <1>4, <3>1 DEF Regular, InboxOnFirst
    <3>2. CASE n = Len(inbox) + 1
      <4>1. acked[d] /\ inbox'[n].from = d /\ inbox'[n].sid = current[d]
        BY <1>1, <1>4, <3>2
      <4>2. OnFirst(d, current[d])
        BY <4>1 DEF Regular, AckedOnFirst
      <4> QED
        BY <4>1, <4>2
    <3> QED
      BY <1>4, <3>1, <3>2
  <2> QED
    BY <1>0, <2>1 DEF OnFirst, FirstSlot, SlotsOf, LabelOf
<1>7. TextsNew'
  <2>0. \A pair \in opened' : pair[2] \in handled'
    BY <1>0 DEF Regular, TextsNew
  <2>1. /\ \A t \in handled : t <= received /\ t \in Nat
        /\ \A n \in DOMAIN inbox : /\ inbox[n].text <= received
                                   /\ inbox[n].text \notin handled
                                   /\ inbox[n].text \in Nat
        /\ \A n, k \in DOMAIN inbox : n < k => inbox[n].text < inbox[k].text
    <3>1. \A n \in DOMAIN inbox : inbox[n] \in Event
      BY <1>0
    <3>2. \A n \in DOMAIN inbox : inbox[n].text \in Nat
      BY <3>1, OlmAssumption DEF Event
    <3>3. \A t \in handled : t \in Nat
      BY OlmAssumption DEF TypeOK
    <3> QED
      BY <3>2, <3>3 DEF Regular, TextsNew
  <2>2. m.text = received + 1
    BY <1>0, <1>1
  <2>3. \A n \in DOMAIN inbox : n < Len(inbox) + 1 /\ n \in Nat
    BY <1>0
  <2>4. \A t \in handled' : t <= received'
    BY <1>0, <2>1
  <2>5. \A n \in DOMAIN inbox' : inbox'[n].text <= received' /\ inbox'[n].text \notin handled'
    BY <1>0, <1>4, <2>1, <2>2
  <2>6. \A n, k \in DOMAIN inbox' : n < k => inbox'[n].text < inbox'[k].text
    BY <1>0, <1>4, <2>1, <2>2, <2>3
  <2> QED
    BY <2>0, <2>4, <2>5, <2>6 DEF TextsNew
<1> QED
  BY <1>0, <1>5, <1>6, <1>7 DEF Regular

LEMMA ReadRegular ==
    ASSUME TypeOK, Regular, NEW d \in Devices, NEW m \in sent, Read(d, m)
    PROVE  Regular'
<1>1. /\ m.to = d
      /\ current' = [current EXCEPT ![d] = m.sid]
      /\ acked' = [acked EXCEPT ![d] = TRUE]
      /\ UNCHANGED <<sessions, verifyFrom, inbox, sent, received, opened, handled,
                     lost, replayed>>
  BY DEF Read, clientVars, historyVars
<1>2. /\ Owned' /\ SentOnFirst' /\ InboxOnFirst' /\ TextsNew'
      /\ ~lost' /\ ~replayed'
  <2>1. TextsNew' /\ ~lost' /\ ~replayed'
    BY <1>1 DEF Regular, TextsNew
  <2> QED
    BY <1>1, <2>1, SameTable
<1>3. AckedOnFirst'
  <2> SUFFICES ASSUME NEW x \in Devices, acked'[x]
               PROVE  OnFirst(x, current[x])'
    BY DEF AckedOnFirst
  <2>1. OnFirst(x, current'[x])
    <3>1. CASE x = d
      BY <1>1, <3>1 DEF Regular, SentOnFirst, TypeOK
    <3>2. CASE x # d
      BY <1>1, <3>2 DEF Regular, AckedOnFirst, TypeOK
    <3> QED
      BY <3>1, <3>2
  <2> QED
    BY <1>1, <2>1 DEF OnFirst, FirstSlot, SlotsOf, LabelOf
<1> QED
  BY <1>2, <1>3 DEF Regular

-----------------------------------------------------------------------------

\* An answer that is handled again is irregular.
LEMMA AgainStays ==
    ASSUME again = 0, [Next]_vars, ~upset'
    PROVE  again' = 0
<1>1. CASE Sync \/ SyncAgain
  BY <1>1 DEF Sync, SyncAgain, Irregular
<1>2. CASE \E type : Receive(type)
  BY <1>2 DEF Receive
<1>3. CASE UNCHANGED syncVars
  BY <1>3 DEF syncVars
<1> QED
  BY <1>1, <1>2, <1>3
  DEF Next, vars, ReceivePreKey, ReceiveKnown, ReceiveUnknown, ReceiveNoSlot,
      SendKnown, SendNew, SendNoSlot, ClaimCrash, AskVerification, Write, Read

LEMMA StepRegular ==
    ASSUME TypeOK, Regular, again = 0, [Next]_vars, ~upset', Extended
    PROVE  Regular'
<1>1. CASE ReceiveNoSlot \/ ClaimCrash \/ \E d \in Devices : SendNoSlot(d)
  BY <1>1 DEF ReceiveNoSlot, ClaimCrash, SendNoSlot, Irregular
<1>2. CASE UNCHANGED vars
  <2>1. TextsNew' /\ ~lost' /\ ~replayed'
    BY <1>2 DEF vars, clientVars, peerVars, historyVars, Regular, TextsNew
  <2> QED
    BY <1>2, <2>1, SameTable DEF vars, clientVars, peerVars, Regular
<1>3. CASE Sync
  <2>1. /\ UNCHANGED <<sessions, verifyFrom, sent, acked, current, inbox, received>>
        /\ UNCHANGED <<opened, handled, lost, replayed>>
    BY <1>3 DEF Sync, clientVars, peerVars, historyVars
  <2>2. TextsNew' /\ ~lost' /\ ~replayed'
    BY <2>1 DEF Regular, TextsNew
  <2> QED
    BY <2>1, <2>2, SameTable DEF Regular
<1>4. CASE SyncAgain
  BY <1>4 DEF SyncAgain, Irregular
<1> QED
  BY <1>1, <1>2, <1>3, <1>4, PreKeyRegular, KnownRegular, UnknownIrregular, SendKnownRegular,
     SendNewRegular, AskRegular, WriteRegular, ReadRegular DEF Next

\* What is irregular stays so.
LEMMA UpsetStays ==
    ASSUME TypeOK, upset, [Next]_vars
    PROVE  upset'
  BY DEF Next, vars, historyVars, Irregular, ReceivePreKey, ReceiveKnown,
         ReceiveUnknown, ReceiveNoSlot, SendKnown, SendNew, SendNoSlot,
         Sync, SyncAgain, ClaimCrash, AskVerification, Write, Read

LEMMA InvStep == IInv /\ [Next]_vars => IInv'
<1> SUFFICES ASSUME IInv, [Next]_vars PROVE IInv'
  OBVIOUS
<1>1. TypeOK' /\ Extended
  BY StepType DEF IInv
<1>2. upset' \/ (Regular' /\ again' = 0)
  BY <1>1, UpsetStays, StepRegular, AgainStays DEF IInv
<1> QED
  BY <1>1, <1>2 DEF IInv

\* The tables, keys, events and messages of the Olm channel have their types
\* whatever fails: no slot behind the last is ever written (matrix.c 280-405).
THEOREM TypeCorrect == Spec => []TypeOK
<1>1. IInv => TypeOK
  BY DEF IInv
<1> QED
  BY <1>1, InitInv, InvStep, PTL DEF Spec

\* Until something irregular happens every message is decrypted and handled
\* once, though type 0 messages make a session each (matrix.c 1146-1194).
THEOREM MessagesAreHandledOnce == Spec => []EachHandledOnce
<1>1. IInv => EachHandledOnce
  BY DEF IInv, Regular, EachHandledOnce
<1> QED
  BY <1>1, InitInv, InvStep, PTL DEF Spec

\* Until something irregular happens every device can read what is sent to it,
\* whoever verifies meanwhile (matrix.c 1681-1757).
THEOREM RepliesAreReadable == Spec => []SentIsReadable
<1>1. IInv => SentIsReadable
  BY DEF IInv, Regular, SentOnFirst, SentIsReadable
<1> QED
  BY <1>1, InitInv, InvStep, PTL DEF Spec

Fits == Len(sessions) <= NUM_OLM_SESSIONS

\* Session objects are never moved, overwritten or made past the end of the
\* array, so pointers to them stay good (matrix.c 1553-1644).
THEOREM TableIsAppendedTo == Spec => TableAppendOnly
<1> DEFINE Grows == /\ IsPrefix(sessions, sessions')
                    /\ Len(sessions') <= NUM_OLM_SESSIONS
<1>1. IInv /\ Fits /\ [Next]_vars => Fits' /\ [Grows]_vars
  <2> SUFFICES ASSUME IInv, Fits, [Next]_vars PROVE Fits' /\ Grows
    OBVIOUS
  <2>1. Extended /\ sessions \in Seq(Session)
    BY StepType DEF IInv, TypeOK
  <2>2. /\ sessions' \in Seq(Session)
        /\ Len(sessions) <= Len(sessions')
        /\ \A i \in DOMAIN sessions : sessions'[i] = sessions[i]
    BY <2>1, ExtendedKeeps
  <2>3. Len(sessions') <= NUM_OLM_SESSIONS
    <3>1. CASE sessions' = sessions
      BY <3>1 DEF Fits
    <3>2. ASSUME NEW s \in Session, ~Full, sessions' = Append(sessions, s)
          PROVE  Len(sessions') <= NUM_OLM_SESSIONS
      <4>1. Len(sessions') = Len(sessions) + 1
        BY <2>1, <3>2, AppendProperties
      <4> QED
        BY <2>1, <3>2, <4>1, OlmAssumption DEF Full
    <3> QED
      BY <2>1, <3>1, <3>2 DEF Extended
  <2>4. SubSeq(sessions, 1, Len(sessions)) = SubSeq(sessions', 1, Len(sessions))
    <3>1. Len(sessions) \in Nat /\ Len(sessions') \in Nat
      BY <2>1, <2>2
    <3>2. \A i \in 1 .. Len(sessions) : sessions[i] = sessions'[i]
      BY <2>1, <2>2
    <3> QED
      BY <2>1, <2>2, <3>1, <3>2
  <2> QED
    BY <2>2, <2>3, <2>4 DEF IsPrefix, Fits
<1>2. Init => Fits
  BY OlmAssumption DEF Init, Fits
<1> QED
  BY <1>1, <1>2, InitInv, InvStep, PTL DEF Spec, TableAppendOnly

\* The session found for a device is the same until the next verification
\* request (matrix.c 1553-1570).
THEOREM SlotsStick == Spec => SlotSticks
<1> DEFINE Sticks == \A d \in Devices :
                       SlotsOf(d) # {} /\ verifyFrom' = verifyFrom =>
                         SlotsOf(d)' # {} /\ FirstSlot(d)' = FirstSlot(d)
<1>1. IInv /\ [Next]_vars => [Sticks]_vars
  <2> SUFFICES ASSUME IInv, [Next]_vars, NEW d \in Devices, SlotsOf(d) # {},
                      verifyFrom' = verifyFrom
               PROVE  SlotsOf(d)' # {} /\ FirstSlot(d)' = FirstSlot(d)
    OBVIOUS
  <2>1. Extended /\ sessions \in Seq(Session)
    BY StepType DEF IInv, TypeOK
  <2> QED
    BY <2>1, LabelsStay, FirstStays
<1> QED
  BY <1>1, InitInv, InvStep, PTL DEF Spec, SlotSticks
=============================================================================
