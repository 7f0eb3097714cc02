----------------------------- MODULE MegolmRooms -----------------------------
(***************************************************************************)
(* Encrypted rooms between one sending client and the devices that read    *)
(* along, all of them this library: NewMegolmOutSession, its sharing,      *)
(* SendEventEncrypted and SendEvent on one side, HandleSync, the m.room_key*)
(* branch of HandleEvent and HandleRoomEvent on the other (matrix.c        *)
(* 408-503, 793-872, 1195-1323, 1391-1511).                                *)
(*                                                                         *)
(* Both tables have NUM_MEGOLM_SESSIONS slots that are never given back.   *)
(* A session's id is the number of its slot in the sender's table, which   *)
(* are all different.  The Olm channel a key is shared through is taken to *)
(* work the first time an answer is handled (see OlmSessions).             *)
(*                                                                         *)
(* A slot for an incoming session has 232 bytes for olm's session, the     *)
(* size of an outgoing one; olm writes 304.  The last 72, which hold the   *)
(* end of the ratchet and the key that signs, lie in the room id of the    *)
(* next slot or, for the last slot, in the number of slots in use and the  *)
(* first outgoing session.  The readers are taken to have no outgoing      *)
(* sessions and room ids of less than 60 characters, so that nothing else  *)
(* writes there.                                                           *)
(*                                                                         *)
(* A request to the server is named by the clock, in seconds.  The server  *)
(* takes a second request of the same path and name for a retry of the     *)
(* first and drops it.  A PUT that fails is not noticed.  A GET that fails *)
(* leaves the last answer in the buffer, which is handled again; what an   *)
(* answer that is cut off does is in EspNode.                              *)
(*                                                                         *)
(* An unused definition right before another with the same parameters is   *)
(* that one with a fault (see the README).                                 *)
(***************************************************************************)
EXTENDS Integers, Sequences, SequencesExt

CONSTANTS
    Rooms,                  \* rooms the sender writes to
    Devices,                \* devices that read
    NUM_MEGOLM_SESSIONS,    \* capacity of both tables
    MaxSent,                \* messages, ...
    MaxShared,              \* ... shared or forwarded keys, ...
    MaxSeconds,             \* ... seconds, ...
    MaxFailures             \* ... and failed requests (they bound the model)

ASSUME MegolmAssumption ==
    /\ NUM_MEGOLM_SESSIONS \in Nat \ {0}
    /\ {MaxSent, MaxShared, MaxSeconds, MaxFailures} \subseteq Nat
    /\ {"to-device", "overrun"} \cap Rooms = {}

VARIABLES
    \* the sender
    out,        \* client->megolmOutSessions: the room of each
    index,      \* session -> index of its next message
    sent,       \* the messages sent, in order; a text is its place in here
    crashed,
    now,        \* time(NULL)
    failures,   \* requests that failed so far, the readers' GETs included
    \* the server
    timeline,   \* events of the rooms
    taken,      \* names of the requests it has had
    queue,      \* device -> to-device events: keys of sessions
    shared,     \* keys put into queues so far
    keyed,      \* device -> sessions whose key has been in its queue
    \* the devices that read
    in,         \* device -> client->megolmInSessions
    count,      \* device -> client->numMegolmInSessions
    dead,       \* device -> it has crashed, or written outside the client
    seen,       \* device -> events of the timeline it has had (next_batch)
    had,        \* device -> to-device events of the last answer
    since,      \* device -> events of the timeline before the last answer
    keys,       \* device -> to-device events of the answer still to be handled
    todo,       \* device -> positions in the timeline of its room events, in
                \* rooms not begun yet, ...
    here,       \* ... and in the room that has been begun
    decrypted,  \* device -> static decrypted of HandleRoomEvent, 0 at first
    handled,    \* device -> texts passed to HandleEvent
    stale       \* device -> rooms and sessions of the events for which another
                \* event's text was passed on

senderVars == <<out, index, sent, crashed, now>>
serverVars == <<timeline, taken, queue, shared, keyed>>
tableVars == <<in, count, dead>>
answerVars == <<seen, had, since>>
handlerVars == <<keys, todo, here, decrypted, handled, stale>>
readerVars == <<tableVars, answerVars, handlerVars>>
vars == <<failures, senderVars, serverVars, readerVars>>

-----------------------------------------------------------------------------

Sids  == 1 .. NUM_MEGOLM_SESSIONS
Texts == 1 .. MaxSent

\* keyed: the devices to which the session's key had gone out before.
RoomEvent == [room : Rooms, sid : Sids, idx : Nat, text : Texts,
              keyed : SUBSET Devices]

\* from: the message index the key starts with.  A forwarded key is in a format
\* that olm_init_inbound_group_session refuses.
RoomKey == [room : Rooms, sid : Sids, from : Nat, forwarded : BOOLEAN]

\* A room id that another slot's session has been written over.
Overrun == "overrun"

\* made: olm took the key.  whole: nothing has been written over olm's session.
InSession == [room : Rooms \cup {Overrun}, sid : Sids, from : Nat,
              made : BOOLEAN, whole : BOOLEAN]

\* An int that something else has been written over, as far as the size of the
\* table tells them apart.
AnyCount == -1 .. NUM_MEGOLM_SESSIONS + 1

Init ==
    /\ out = <<>>
    /\ index = [s \in Sids |-> 0]
    /\ sent = <<>>
    /\ crashed = FALSE
    /\ now = 0
    /\ failures = 0
    /\ timeline = <<>>
    /\ taken = {}
    /\ queue = [d \in Devices |-> <<>>]
    /\ shared = 0
    /\ keyed = [d \in Devices |-> {}]
    /\ in = [d \in Devices |-> <<>>]
    /\ count = [d \in Devices |-> 0]
    /\ dead = [d \in Devices |-> FALSE]
    /\ seen = [d \in Devices |-> 0]
    /\ had = [d \in Devices |-> <<>>]
    /\ since = [d \in Devices |-> 0]
    /\ keys = [d \in Devices |-> <<>>]
    /\ todo = [d \in Devices |-> {}]
    /\ here = [d \in Devices |-> {}]
    /\ decrypted = [d \in Devices |-> 0]
    /\ handled = [d \in Devices |-> {}]
    /\ stale = [d \in Devices |-> {}]

-----------------------------------------------------------------------------
(* The sender                                                              *)

\* GetMegolmOutSession: the first slot of the room.
LastOutOf(room) == SelectLastInSeq(out, LAMBDA r : r = room)
OutOf(room) == SelectInSeq(out, LAMBDA r : r = room)

FullLate == Len(out) > NUM_MEGOLM_SESSIONS
Full == Len(out) >= NUM_MEGOLM_SESSIONS

\* The application calls NewMegolmOutSession; nothing looks for an old one.
NewOutSession(room) ==
    /\ ~crashed
    /\ ~Full
    /\ out' = Append(out, room)
    /\ UNCHANGED <<failures, index, sent, crashed, now, serverVars, readerVars>>

\* The name of a request: the path, which has the room in it, and the time.
TxnOnce(path) == <<path, 0>>
Txn(path) == <<path, now>>

\* A PUT may fail, or the server refuse it: on the ESP32 it returns true all the
\* same, and no caller looks at what it returns.
Put(path, fails) ==
    /\ fails => failures < MaxFailures
    /\ failures' = IF fails THEN failures + 1 ELSE failures
    /\ taken' = IF fails THEN taken ELSE taken \cup {Txn(path)}

\* MatrixClientSendEvent: PUT .../rooms/room/send/m.room.encrypted/time.
SendEvent(room, sid, fails) ==
    /\ Put(room, fails)
    /\ timeline' =
         IF fails \/ Txn(room) \in taken THEN timeline
         ELSE Append(timeline,
                [room |-> room, sid |-> sid, idx |-> index[sid],
                 text |-> Len(sent) + 1,
                 keyed |-> { d \in Devices : sid \in keyed[d] }])
    /\ sent' = Append(sent, [room |-> room, second |-> now, lost |-> fails])
    /\ index' = [index EXCEPT ![sid] = @ + 1]

\* SendEventEncrypted in the session of the room, a new one if there is none.
SendEncrypted(room) ==
    /\ ~crashed
    /\ Len(sent) < MaxSent
    /\ \E fails \in BOOLEAN :
         IF OutOf(room) # 0
         THEN out' = out /\ SendEvent(room, OutOf(room), fails)
         ELSE /\ ~Full
              /\ out' = Append(out, room)
              /\ SendEvent(room, Len(out'), fails)
    /\ UNCHANGED <<crashed, now, queue, shared, keyed, readerVars>>

\* With a full table outSession is an uninitialised pointer: a crash or a slot.
SendNoSlot(room) ==
    /\ ~crashed
    /\ Len(sent) < MaxSent
    /\ OutOf(room) = 0
    /\ Full
    /\ \/ /\ crashed' = TRUE
          /\ UNCHANGED <<failures, index, sent, timeline, taken>>
       \/ /\ crashed' = FALSE
          /\ \E sid \in DOMAIN out, fails \in BOOLEAN : SendEvent(room, sid, fails)
    /\ UNCHANGED <<out, now, queue, shared, keyed, readerVars>>

\* session->key is read once, when the session is made.
KeyNow(sid) == index[sid]
KeyFrom(sid) == 0

\* ShareMegolmOutSession: PUT .../sendToDevice/m.room.encrypted/time.  The path
\* does not have the device in it.
Share(sid, d) ==
    /\ ~crashed
    /\ shared < MaxShared
    /\ shared' = shared + 1
    /\ \E fails \in BOOLEAN :
         /\ Put("to-device", fails)
         /\ IF fails \/ Txn("to-device") \in taken
            THEN UNCHANGED <<queue, keyed>>
            ELSE /\ queue' = [queue EXCEPT ![d] = Append(@,
                       [room |-> out[sid], sid |-> sid, from |-> KeyFrom(sid),
                        forwarded |-> FALSE])]
                 /\ keyed' = [keyed EXCEPT ![d] = @ \cup {sid}]
    /\ UNCHANGED <<senderVars, timeline, readerVars>>

\* Time passes.
Tick ==
    /\ now < MaxSeconds
    /\ now' = now + 1
    /\ UNCHANGED <<failures, out, index, sent, crashed, serverVars, readerVars>>

\* Another device (external) answers a key request of d.
Forward(sid, d) ==
    /\ shared < MaxShared
    /\ shared' = shared + 1
    /\ queue' = [queue EXCEPT ![d] = Append(@,
           [room |-> out[sid], sid |-> sid, from |-> 0, forwarded |-> TRUE])]
    /\ UNCHANGED <<failures, senderVars, timeline, taken, keyed, readerVars>>

-----------------------------------------------------------------------------
(* The devices that read                                                   *)

\* The last answer has been handled.
Done(d) == ~dead[d] /\ keys[d] = <<>> /\ todo[d] = {} /\ here[d] = {}

\* MatrixClientSync of device d: the answer has the to-device events and the
\* room events since the last one.
Sync(d) ==
    /\ Done(d)
    /\ had' = [had EXCEPT ![d] = queue[d]]
    /\ keys' = [keys EXCEPT ![d] = queue[d]]
    /\ queue' = [queue EXCEPT ![d] = <<>>]
    /\ since' = [since EXCEPT ![d] = seen[d]]
    /\ todo' = [todo EXCEPT ![d] = (seen[d] + 1) .. Len(timeline)]
    /\ seen' = [seen EXCEPT ![d] = Len(timeline)]
    /\ UNCHANGED <<failures, senderVars, timeline, taken, shared, keyed, tableVars,
                   here, decrypted, handled, stale>>

\* The GET fails and the last answer is handled again.  What Olm will not open a
\* second time leaves the last plaintext where it was: any key of the answer may
\* come instead of each.
SyncAgain(d) ==
    /\ Done(d)
    /\ failures < MaxFailures
    /\ failures' = failures + 1
    /\ \E again \in [DOMAIN had[d] -> Range(had[d])] :
          keys' = [keys EXCEPT ![d] = again]
    /\ todo' = [todo EXCEPT ![d] = (since[d] + 1) .. seen[d]]
    /\ UNCHANGED <<senderVars, serverVars, tableVars, answerVars,
                   here, decrypted, handled, stale>>

\* What is written for a session reaches from the end of the slot before, over
\* its own slot, to the room id of the slot after it.
Stored(table, slot, session) ==
    [i \in 1 .. IF slot > Len(table) THEN slot ELSE Len(table) |->
        CASE i = slot     -> session
          [] i = slot - 1 -> [table[i] EXCEPT !.whole = FALSE]
          [] i = slot + 1 -> [table[i] EXCEPT !.room = Overrun]
          [] OTHER        -> table[i]]

CountIfMade(slot, made) == IF made THEN {slot} ELSE {slot - 1}

\* After the last slot the number of slots in use has part of a ratchet in it,
\* or zeros when olm refused the key; then it is increased by one.
CountAfter(slot, made) ==
    CASE slot < NUM_MEGOLM_SESSIONS -> {slot}
      [] slot = NUM_MEGOLM_SESSIONS /\ made -> AnyCount
      [] OTHER -> {1}

\* NewMegolmInSession: the next slot, also when the session is known and when
\* olm refuses the key.  A negative number of slots is less than the table's.
NewInSession(d, key) ==
    LET slot == count[d] + 1
        session == [room |-> key.room, sid |-> key.sid, from |-> key.from,
                    made |-> ~key.forwarded, whole |-> TRUE]
    IN  \/ count[d] >= NUM_MEGOLM_SESSIONS /\ UNCHANGED tableVars
        \/ /\ count[d] < 0
           /\ dead' = [dead EXCEPT ![d] = TRUE]
           /\ UNCHANGED <<in, count>>
        \/ /\ slot \in 1 .. NUM_MEGOLM_SESSIONS
           /\ in' = [in EXCEPT ![d] = Stored(@, slot, session)]
           /\ \E c \in CountAfter(slot, session.made) :
                count' = [count EXCEPT ![d] = c]
           /\ dead' = dead

\* HandleSync goes through the to-device events first: m.room_key and
\* m.forwarded_room_key.
HandleKey(d) ==
    /\ ~dead[d]
    /\ keys[d] # <<>>
    /\ NewInSession(d, Head(keys[d]))
    /\ keys' = [keys EXCEPT ![d] = Tail(@)]
    /\ UNCHANGED <<failures, senderVars, serverVars, answerVars, todo, here,
                   decrypted, handled, stale>>

\* Then through the rooms, in the order the answer has them in, and through the
\* events of each.
DirectAnyTime(d) == TRUE
DirectFirst(d) == keys[d] = <<>>

OfRoom(d, room) == { i \in todo[d] : timeline[i].room = room }

\* The events of the room to go on with.
Ahead(d) ==
    IF here[d] # {} THEN {here[d]}
                    ELSE { OfRoom(d, room) : room \in Rooms } \ {{}}

\* GetMegolmInSession: the first slot in use with the room and the id.
SlotOf(table, room, sid) ==
    SelectInSeq(table, LAMBDA s : s.room = room /\ s.sid = sid)
Found(d, e) == SlotOf(in[d], e.room, e.sid) \in 1 .. count[d]

\* MegolmInSessionDecrypt writes to the buffer only what it can decrypt.
Opens(session, e) ==
    session.made /\ session.whole /\ session.sid = e.sid /\ session.from <= e.idx

\* HandleRoomEvent: the buffer is handled whether it could be decrypted or not.
Pass(d, e, text) ==
    /\ decrypted' = [decrypted EXCEPT ![d] = text]
    /\ handled' = [handled EXCEPT ![d] = @ \cup ({text} \ {0})]
    /\ stale' = [stale EXCEPT ![d] =
                   IF text = e.text THEN @ ELSE @ \cup {<<e.room, e.sid>>}]

Decrypt(d, e) ==
    LET session == in[d][SlotOf(in[d], e.room, e.sid)]
    IN  /\ Pass(d, e, IF Opens(session, e) THEN e.text ELSE decrypted[d])
        /\ UNCHANGED tableVars

\* In the last slot the count has altered the ratchet, and moving the ratchet
\* forward alters the count.
Altered(d, slot) == slot = NUM_MEGOLM_SESSIONS /\ in[d][slot].made

DecryptLast(d, e) ==
    LET session == in[d][NUM_MEGOLM_SESSIONS]
    IN  /\ \E opened \in BOOLEAN :
             Pass(d, e, IF opened /\ Opens(session, e) THEN e.text
                                                      ELSE decrypted[d])
        /\ \E c \in AnyCount : count' = [count EXCEPT ![d] = c]
        /\ UNCHANGED <<in, dead>>

\* "megolm session not known".  A number of slots greater than the table's makes
\* the search leave the table, and perhaps the memory of the process.
NotKnown(d) ==
    /\ \/ dead' = dead
       \/ /\ count[d] > NUM_MEGOLM_SESSIONS
          /\ dead' = [dead EXCEPT ![d] = TRUE]
    /\ UNCHANGED <<in, count, decrypted, handled, stale>>

HandleRoomEvent(d) ==
    /\ ~dead[d]
    /\ DirectFirst(d)
    /\ \E events \in Ahead(d) :
         LET e == timeline[Min(events)]
             slot == SlotOf(in[d], e.room, e.sid)
         IN  /\ \/ ~Found(d, e) /\ NotKnown(d)
                \/ Found(d, e) /\ ~Altered(d, slot) /\ Decrypt(d, e)
                \/ Found(d, e) /\ Altered(d, slot) /\ DecryptLast(d, e)
             /\ todo' = [todo EXCEPT ![d] = @ \ events]
             /\ here' = [here EXCEPT ![d] = events \ {Min(events)}]
    /\ UNCHANGED <<failures, senderVars, serverVars, answerVars, keys>>

-----------------------------------------------------------------------------

Next ==
    \/ \E room \in Rooms :
          NewOutSession(room) \/ SendEncrypted(room) \/ SendNoSlot(room)
    \/ Tick
    \/ \E d \in Devices :
          \/ \E sid \in DOMAIN out : Share(sid, d) \/ Forward(sid, d)
          \/ Sync(d) \/ SyncAgain(d) \/ HandleKey(d) \/ HandleRoomEvent(d)

Spec == Init /\ [][Next]_vars

-----------------------------------------------------------------------------
(* Properties                                                              *)

TypeOK ==
    /\ failures \in 0 .. MaxFailures
    /\ out \in Seq(Rooms) /\ Len(out) <= NUM_MEGOLM_SESSIONS
    /\ index \in [Sids -> 0 .. MaxSent]
    /\ sent \in Seq([room : Rooms, second : 0 .. MaxSeconds, lost : BOOLEAN])
    /\ Len(sent) <= MaxSent
    /\ crashed \in BOOLEAN
    /\ now \in 0 .. MaxSeconds
    /\ timeline \in Seq(RoomEvent)
    /\ taken \subseteq (Rooms \cup {"to-device"}) \X (0 .. MaxSeconds)
    /\ queue \in [Devices -> Seq(RoomKey)]
    /\ shared \in 0 .. MaxShared
    /\ keyed \in [Devices -> SUBSET Sids]
    /\ in \in [Devices -> Seq(InSession)]
    /\ \A d \in Devices : Len(in[d]) <= NUM_MEGOLM_SESSIONS
    /\ count \in [Devices -> AnyCount]
    /\ dead \in [Devices -> BOOLEAN]
    /\ seen \in [Devices -> 0 .. MaxSent]
    /\ had \in [Devices -> Seq(RoomKey)]
    /\ since \in [Devices -> 0 .. MaxSent]
    /\ keys \in [Devices -> Seq(RoomKey)]
    /\ todo \in [Devices -> SUBSET (1 .. MaxSent)]
    /\ here \in [Devices -> SUBSET (1 .. MaxSent)]
    /\ decrypted \in [Devices -> Texts \cup {0}]
    /\ handled \in [Devices -> SUBSET Texts]
    /\ stale \in [Devices -> SUBSET (Rooms \X Sids)]

\* The number of slots in use is right, and the last of them is whole, until a
\* session is written to the last slot of the table: there it goes over the end.
\* No reader crashes before that.
CountHoldsUntilFull ==
    \A d \in Devices :
        \/ Len(in[d]) = NUM_MEGOLM_SESSIONS
        \/ /\ count[d] = Len(in[d])
           /\ ~dead[d]
           /\ \A i \in DOMAIN in[d] : in[d][i].whole <=> i = count[d]

\* The first session of the event's room and id does not open: the table has been
\* full, another key came after it, or it came first as a forwarded key.
Spoiled(d, room, sid) ==
    LET slot == SlotOf(in[d], room, sid)
    IN  \/ Len(in[d]) = NUM_MEGOLM_SESSIONS
        \/ slot # 0 /\ (slot < Len(in[d]) \/ ~in[d][slot].made)

HasHandled(d, i) == i \in 1 .. seen[d] /\ i \notin todo[d] \cup here[d]

\* A device for which the key of the room's session was on the server before the
\* message handles the message when it gets to it, unless the session is spoiled.
KeyHolderReads ==
    \A d \in Devices : \A i \in DOMAIN timeline :
        LET e == timeline[i]
        IN  HasHandled(d, i) /\ d \in e.keyed /\ out[e.sid] = e.room =>
                e.text \in handled[d] \/ Spoiled(d, e.room, e.sid)

\* What is passed on for an event is the event's own text, unless the session is
\* spoiled: a shared key opens the messages sent before it as well.
StaleOnlyWhereSpoiled ==
    \A d \in Devices : \A rs \in stale[d] : Spoiled(d, rs[1], rs[2])

\* "create a new incoming megolm session and store it locally" (matrix.h 359):
\* with no more keys under way than the table has room for, and none that olm
\* refuses, who has the key reads.
StoredKeysOpen ==
    \A d \in Devices : \A i \in DOMAIN timeline :
        LET e == timeline[i]
        IN  /\ HasHandled(d, i) /\ d \in e.keyed /\ out[e.sid] = e.room
            /\ shared <= NUM_MEGOLM_SESSIONS
            /\ \A j \in DOMAIN in[d] : in[d][j].made
            => e.text \in handled[d]

\* All messages of a room that go out in a session of that room go out in the
\* same one, however many are made for it: sharing that one is enough.
OneSessionPerRoom ==
    \A i, j \in DOMAIN timeline :
        LET e == timeline[i]
            f == timeline[j]
        IN  e.room = f.room /\ out[e.sid] = e.room /\ out[f.sid] = f.room
                => e.sid = f.sid

InTimeline(text) == \E i \in DOMAIN timeline : timeline[i].text = text

\* A message that does not reach its room though its PUT did not fail was
\* preceded, in the same second, by one to the same room that did.
MissingOnlyInSameSecond ==
    \A t \in DOMAIN sent :
        \/ InTimeline(t)
        \/ sent[t].lost
        \/ \E u \in 1 .. t - 1 : /\ sent[u].room = sent[t].room
                                 /\ sent[u].second = sent[t].second
                                 /\ InTimeline(u)

=============================================================================
