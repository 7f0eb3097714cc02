-------------------------- MODULE MegolmRoomsProofs --------------------------
(***************************************************************************)
(* Theorems about MegolmRooms, for any number of rooms, devices, slots and *)
(* messages: what has gone out of the sender's table, which messages get   *)
(* to their room, and what the devices that read make of them.             *)
(***************************************************************************)
EXTENDS MegolmRooms, SequenceTheorems, WellFoundedInduction, TLAPS

\* What is named anywhere is there: sessions, texts, positions.
Bounds ==
    /\ Len(timeline) <= Len(sent)
    /\ \A s \in Sids : index[s] <= Len(sent)
    /\ \A i \in DOMAIN timeline : /\ timeline[i].sid \in DOMAIN out
                                  /\ timeline[i].text \in DOMAIN sent
    /\ \A d \in Devices : /\ seen[d] <= Len(timeline)
                          /\ since[d] <= seen[d]
                          /\ todo[d] \cup here[d] \subseteq 1 .. seen[d]
                          /\ keyed[d] \subseteq DOMAIN out

\* A session is stored within the table because the number of slots in use is
\* right until the table is full.
TypeInv == TypeOK /\ Bounds /\ CountHoldsUntilFull

-----------------------------------------------------------------------------
(* First slots and first positions                                         *)

NatLess == { pair \in Nat \X Nat : pair[1] < pair[2] }

\* A set of numbers that is not empty has a least one.
LEMMA MinOf ==
    ASSUME NEW S \in SUBSET Nat, S # {}
    PROVE  Min(S) \in S /\ \A j \in S : Min(S) <= j
<1>1. IsWellFoundedOn(NatLess, Nat)
  BY NatLessThanWellFounded DEF OpToRel, NatLess
<1>2. PICK i \in S : \A j \in S : <<j, i>> \notin NatLess
  BY <1>1, WFMin
<1>3. \A j \in S : ~(j < i)
  BY <1>2 DEF NatLess
<1>4. i \in S /\ \A j \in S : i <= j
  BY <1>2, <1>3
<1> QED
  BY <1>4 DEF Min

\* GetMegolmOutSession finds the first slot of the room, if there is one.
SlotsOf(list, room) == { i \in 1 .. Len(list) : list[i] = room }

FirstSlot(list, room) ==
    IF SlotsOf(list, room) # {} THEN Min(SlotsOf(list, room)) ELSE 0

LEMMA FirstFound ==
    ASSUME NEW S, NEW list \in Seq(S), NEW room
    PROVE  \/ /\ FirstSlot(list, room) = 0
              /\ \A i \in DOMAIN list : list[i] # room
           \/ /\ FirstSlot(list, room) \in DOMAIN list
              /\ FirstSlot(list, room) # 0
              /\ list[FirstSlot(list, room)] = room
              /\ \A i \in DOMAIN list :
                   list[i] = room => FirstSlot(list, room) <= i
<1> DEFINE slots == SlotsOf(list, room)
<1>1. FirstSlot(list, room) = IF slots # {} THEN Min(slots) ELSE 0
  BY DEF FirstSlot
<1>2. /\ slots = { i \in 1 .. Len(list) : list[i] = room }
      /\ slots \in SUBSET Nat /\ DOMAIN list = 1 .. Len(list) /\ Len(list) \in Nat
  BY DEF SlotsOf
<1> HIDE DEF slots
<1>3. slots # {} => Min(slots) \in slots /\ \A j \in slots : Min(slots) <= j
  BY <1>2, MinOf
<1> QED
  BY <1>1, <1>2, <1>3

LEMMA OutIsFirst ==
    ASSUME NEW room
    PROVE  /\ OutOf(room) = FirstSlot(out, room)
           /\ OutOf(room)' = FirstSlot(out', room)
  BY DEF OutOf, SelectInSeq, FirstSlot, SlotsOf

LEMMA OutFound ==
    ASSUME NEW S, out \in Seq(S), NEW room
    PROVE  \/ /\ OutOf(room) = 0
              /\ \A i \in DOMAIN out : out[i] # room
           \/ /\ OutOf(room) \in DOMAIN out /\ OutOf(room) # 0
              /\ out[OutOf(room)] = room
              /\ \A i \in DOMAIN out : out[i] = room => OutOf(room) <= i
  BY FirstFound, OutIsFirst

\* The session it finds for a room stays the one it finds.
LEMMA FirstStays ==
    ASSUME NEW S, NEW list \in Seq(S), NEW longer \in Seq(S), NEW room,
           DOMAIN list \subseteq DOMAIN longer,
           \A i \in DOMAIN list : longer[i] = list[i],
           FirstSlot(list, room) # 0
    PROVE  FirstSlot(longer, room) = FirstSlot(list, room)
<1> DEFINE i == FirstSlot(list, room)
           k == FirstSlot(longer, room)
<1>1. /\ i \in DOMAIN list /\ list[i] = room
      /\ \A j \in DOMAIN list : list[j] = room => i <= j
  BY FirstFound
<1>2. /\ k \in DOMAIN longer /\ longer[k] = room
      /\ \A j \in DOMAIN longer : longer[j] = room => k <= j
  <2>1. i \in DOMAIN longer /\ longer[i] = room
    BY <1>1
  <2> QED
    BY <2>1, FirstFound
<1> HIDE DEF i, k
<1>3. /\ DOMAIN list = 1 .. Len(list) /\ Len(list) \in Nat
      /\ DOMAIN longer = 1 .. Len(longer) /\ Len(longer) \in Nat
  OBVIOUS
<1>4. k <= i /\ i \in Nat /\ k \in Nat
  BY <1>1, <1>2, <1>3
<1>5. k \in DOMAIN list
  BY <1>1, <1>2, <1>3, <1>4
<1>6. i <= k
  BY <1>1, <1>2, <1>5
<1>7. i = k
  BY <1>4, <1>6
<1> QED
  BY <1>7 DEF i, k

\* GetMegolmInSession finds the first slot of the room and the session.
Fits(slot, room, sid) == slot.room = room /\ slot.sid = sid

LEMMA SlotFound ==
    ASSUME NEW S, NEW table \in Seq(S), NEW room, NEW sid
    PROVE  \/ /\ SlotOf(table, room, sid) = 0
              /\ \A i \in DOMAIN table : ~Fits(table[i], room, sid)
           \/ /\ SlotOf(table, room, sid) \in DOMAIN table /\ SlotOf(table, room, sid) # 0
              /\ Fits(table[SlotOf(table, room, sid)], room, sid)
              /\ \A i \in DOMAIN table :
                   Fits(table[i], room, sid) => SlotOf(table, room, sid) <= i
<1> DEFINE slots == { i \in 1 .. Len(table) : Fits(table[i], room, sid) }
<1>1. SlotOf(table, room, sid) = IF slots # {} THEN Min(slots) ELSE 0
  BY DEF SlotOf, SelectInSeq, Fits
<1>2. /\ slots \in SUBSET Nat /\ DOMAIN table = 1 .. Len(table)
      /\ Len(table) \in Nat
  OBVIOUS
<1>3. slots # {} => Min(slots) \in slots /\ \A j \in slots : Min(slots) <= j
  BY <1>2, MinOf
<1> QED
  BY <1>1, <1>2, <1>3

\* A slot found stays the one that is found when the table grows.
LEMMA SlotStays ==
    ASSUME NEW S, NEW table \in Seq(S), NEW longer \in Seq(S), NEW room,
           NEW sid,
           DOMAIN table \subseteq DOMAIN longer,
           \A i \in DOMAIN table : /\ longer[i].room = table[i].room
                                   /\ longer[i].sid = table[i].sid,
           SlotOf(table, room, sid) # 0
    PROVE  SlotOf(longer, room, sid) = SlotOf(table, room, sid)
<1> DEFINE i == SlotOf(table, room, sid)
           k == SlotOf(longer, room, sid)
<1>1. /\ i \in DOMAIN table /\ Fits(table[i], room, sid)
      /\ \A j \in DOMAIN table : Fits(table[j], room, sid) => i <= j
  BY SlotFound
<1>2. /\ k \in DOMAIN longer /\ Fits(longer[k], room, sid)
      /\ \A j \in DOMAIN longer : Fits(longer[j], room, sid) => k <= j
  <2>1. i \in DOMAIN longer /\ Fits(longer[i], room, sid)
    BY <1>1 DEF Fits
  <2> QED
    BY <2>1, SlotFound
<1>3. k <= i /\ k \in DOMAIN table
  <2>0. i \in DOMAIN longer /\ Fits(longer[i], room, sid)
    BY <1>1 DEF Fits
  <2>1. k <= i
    <3> HIDE DEF i, k
    <3> QED
      BY <1>2, <2>0
  <2>2. DOMAIN table = 1 .. Len(table) /\ DOMAIN longer = 1 .. Len(longer)
        /\ Len(table) \in Nat /\ Len(longer) \in Nat
    OBVIOUS
  <2> HIDE DEF i, k
  <2> QED
    BY <1>1, <1>2, <2>1, <2>2
<1>4. i <= k
  BY <1>1, <1>2, <1>3 DEF Fits
<1>5. i \in Nat /\ k \in Nat
  <2>1. DOMAIN table = 1 .. Len(table)
    OBVIOUS
  <2> HIDE DEF i, k
  <2> QED
    BY <1>1, <1>3, <2>1
<1> HIDE DEF i, k
<1>6. i = k
  BY <1>3, <1>4, <1>5
<1> QED
  BY <1>6 DEF i, k

-----------------------------------------------------------------------------
(* Types: the sender                                                       *)

\* The sender's table is only appended to.
Grows ==
    /\ out' \in Seq(Rooms) /\ Len(out') <= NUM_MEGOLM_SESSIONS
    /\ DOMAIN out \subseteq DOMAIN out'
    /\ \A i \in DOMAIN out : out'[i] = out[i]

LEMMA OutGrows ==
    ASSUME TypeOK, NEW room \in Rooms,
           \/ out' = out
           \/ ~Full /\ out' = Append(out, room)
    PROVE  Grows
<1>1. CASE out' = out
  BY <1>1 DEF Grows, TypeOK
<1>2. CASE ~Full /\ out' = Append(out, room)
  <2>1. out \in Seq(Rooms) /\ Len(out) \in Nat /\ Len(out) < NUM_MEGOLM_SESSIONS
    BY <1>2, MegolmAssumption DEF TypeOK, Full
  <2>2. /\ out' \in Seq(Rooms) /\ Len(out') = Len(out) + 1
        /\ \A i \in 1 .. Len(out) : out'[i] = out[i]
    BY <1>2, <2>1
  <2> QED
    BY <2>1, <2>2, MegolmAssumption DEF Grows
<1> QED
  BY <1>1, <1>2

\* A message goes onto the timeline unless the name of its request is taken.
EventOf(room, sid) ==
    [room |-> room, sid |-> sid, idx |-> index[sid], text |-> Len(sent) + 1,
     keyed |-> { d \in Devices : sid \in keyed[d] }]

Arrives(room, sid) ==
    /\ Txn(room) \notin taken
    /\ Len(timeline') = Len(timeline) + 1
    /\ \A i \in DOMAIN timeline : timeline'[i] = timeline[i]
    /\ timeline'[Len(timeline) + 1] = EventOf(room, sid)

LEMMA SendKeepsTypes ==
    ASSUME TypeInv, NEW room \in Rooms, NEW sid \in Sids, Len(sent) < MaxSent,
           NEW fails \in BOOLEAN, SendEvent(room, sid, fails)
    PROVE  /\ index' \in [Sids -> 0 .. MaxSent]
           /\ \A s \in Sids : index'[s] <= Len(sent')
           /\ sent' \in Seq([room : Rooms, second : 0 .. MaxSeconds, lost : BOOLEAN])
           /\ Len(sent) \in Nat /\ Len(sent') = Len(sent) + 1
           /\ \A t \in DOMAIN sent : sent'[t] = sent[t]
           /\ sent'[Len(sent) + 1] = [room |-> room, second |-> now, lost |-> fails]
           /\ failures' \in 0 .. MaxFailures
           /\ taken' \subseteq (Rooms \cup {"to-device"}) \X (0 .. MaxSeconds)
           /\ timeline' \in Seq(RoomEvent)
           /\ \/ /\ fails \/ Txn(room) \in taken
                 /\ timeline' = timeline /\ taken' = taken
              \/ /\ ~fails /\ Arrives(room, sid)
                 /\ taken' = taken \cup {Txn(room)}
<1>0. /\ index \in [Sids -> 0 .. MaxSent] /\ \A s \in Sids : index[s] <= Len(sent)
      /\ sent \in Seq([room : Rooms, second : 0 .. MaxSeconds, lost : BOOLEAN])
      /\ Len(sent) \in Nat /\ now \in 0 .. MaxSeconds
      /\ timeline \in Seq(RoomEvent) /\ Len(timeline) \in Nat
      /\ taken \subseteq (Rooms \cup {"to-device"}) \X (0 .. MaxSeconds)
      /\ MaxSent \in Nat /\ MaxFailures \in Nat /\ failures \in 0 .. MaxFailures
  BY MegolmAssumption DEF TypeInv, TypeOK, Bounds
<1>1. /\ taken' = IF fails THEN taken ELSE taken \cup {Txn(room)}
      /\ sent' = Append(sent, [room |-> room, second |-> now, lost |-> fails])
      /\ index' = [index EXCEPT ![sid] = @ + 1]
      /\ fails => failures < MaxFailures
      /\ failures' = IF fails THEN failures + 1 ELSE failures
  BY DEF SendEvent, Put
<1>2. /\ sent' \in Seq([room : Rooms, second : 0 .. MaxSeconds, lost : BOOLEAN])
      /\ Len(sent') = Len(sent) + 1
      /\ \A t \in DOMAIN sent : sent'[t] = sent[t]
      /\ sent'[Len(sent) + 1] = [room |-> room, second |-> now, lost |-> fails]
  <2> DEFINE m == [room |-> room, second |-> now, lost |-> fails]
             Sent == [room : Rooms, second : 0 .. MaxSeconds, lost : BOOLEAN]
  <2>1. m \in Sent /\ sent \in Seq(Sent)
    BY <1>0
  <2>2. sent' = Append(sent, m)
    BY <1>1
  <2> HIDE DEF m, Sent
  <2>3. /\ sent' \in Seq(Sent)
        /\ Len(sent') = Len(sent) + 1 /\ sent'[Len(sent) + 1] = m
        /\ \A t \in 1 .. Len(sent) : sent'[t] = sent[t]
    BY <1>0, <2>1, <2>2
  <2>4. DOMAIN sent = 1 .. Len(sent)
    BY <2>1
  <2> QED
    BY <2>3, <2>4 DEF m, Sent
<1>3. /\ index' \in [Sids -> 0 .. MaxSent]
      /\ \A s \in Sids : index'[s] <= Len(sent')
  <2>1. \A s \in Sids : /\ index'[s] = IF s = sid THEN index[s] + 1 ELSE index[s]
                        /\ index[s] \in 0 .. MaxSent /\ index[s] <= Len(sent)
    BY <1>0, <1>1
  <2>2. \A s \in Sids : index'[s] \in 0 .. MaxSent /\ index'[s] <= Len(sent')
    BY <1>0, <1>2, <2>1, SMTT(30)
  <2> QED
    BY <1>0, <1>1, <2>2
<1>4. /\ taken' \subseteq (Rooms \cup {"to-device"}) \X (0 .. MaxSeconds)
      /\ failures' \in 0 .. MaxFailures
  <2>1. Txn(room) \in (Rooms \cup {"to-device"}) \X (0 .. MaxSeconds)
    BY <1>0 DEF Txn
  <2>2. failures' \in 0 .. MaxFailures
    BY <1>0, <1>1
  <2> QED
    BY <1>0, <1>1, <2>1, <2>2
<1>5. /\ timeline' \in Seq(RoomEvent)
      /\ \/ /\ fails \/ Txn(room) \in taken
            /\ timeline' = timeline /\ taken' = taken
         \/ /\ ~fails /\ Arrives(room, sid)
            /\ taken' = taken \cup {Txn(room)}
  <2>1. CASE fails \/ Txn(room) \in taken
    <3>1. timeline' = timeline
      BY <2>1 DEF SendEvent
    <3>2. taken' = taken
      BY <1>1, <2>1
    <3> QED
      BY <1>0, <2>1, <3>1, <3>2
  <2>2. CASE ~fails /\ Txn(room) \notin taken
    <3> DEFINE e == EventOf(room, sid)
    <3>1. timeline' = Append(timeline, e)
      BY <2>2 DEF SendEvent, EventOf
    <3>2. e \in RoomEvent
      <4>1. index[sid] \in Nat /\ Len(sent) + 1 \in Texts
        BY <1>0 DEF Texts
      <4>2. { d \in Devices : sid \in keyed[d] } \in SUBSET Devices
        OBVIOUS
      <4> QED
        BY <4>1, <4>2 DEF RoomEvent, EventOf
    <3> HIDE DEF e
    <3>3. /\ timeline' \in Seq(RoomEvent) /\ Len(timeline') = Len(timeline) + 1
          /\ timeline'[Len(timeline) + 1] = e
          /\ \A i \in 1 .. Len(timeline) : timeline'[i] = timeline[i]
      BY <1>0, <3>1, <3>2
    <3>4. DOMAIN timeline = 1 .. Len(timeline) /\ e = EventOf(room, sid)
      BY <1>0 DEF e
    <3>5. Arrives(room, sid)
      BY <2>2, <3>3, <3>4 DEF Arrives
    <3>6. taken' = taken \cup {Txn(room)}
      BY <1>1, <2>2
    <3> QED
      BY <2>2, <3>3, <3>5, <3>6
  <2> QED
    BY <2>1, <2>2
<1> QED
  BY <1>0, <1>1, <1>2, <1>3, <1>4, <1>5

\* The session a message is sent in.
LEMMA SendsIn ==
    ASSUME TypeInv, NEW room \in Rooms, SendEncrypted(room) \/ SendNoSlot(room)
    PROVE  /\ Grows
           /\ UNCHANGED <<now, queue, shared, keyed, readerVars>>
           /\ crashed' \in BOOLEAN /\ Len(sent) < MaxSent
           /\ \/ UNCHANGED <<failures, index, sent, timeline, taken>>
              \/ \E sid \in DOMAIN out', fails \in BOOLEAN :
                   /\ SendEvent(room, sid, fails)
                   /\ sid \in Sids
                   /\ \/ OutOf(room) = sid
                      \/ /\ OutOf(room) = 0
                         /\ \/ sid = Len(out) + 1
                            \/ sid \in DOMAIN out /\ out' = out
<1>0. out \in Seq(Rooms) /\ Len(out) \in Nat /\ Len(out) <= NUM_MEGOLM_SESSIONS
  BY DEF TypeInv, TypeOK
<1>1. \/ out' = out
      \/ ~Full /\ out' = Append(out, room)
  BY DEF SendEncrypted, SendNoSlot
<1>2. Grows
  BY <1>1, OutGrows DEF TypeInv
<1>3. DOMAIN out' \subseteq Sids
  <2>1. DOMAIN out' = 1 .. Len(out') /\ Len(out') \in Nat
        /\ Len(out') <= NUM_MEGOLM_SESSIONS
    BY <1>2 DEF Grows
  <2> QED
    BY <2>1, MegolmAssumption DEF Sids
<1>4. CASE SendEncrypted(room) /\ OutOf(room) # 0
  <2>1. /\ OutOf(room) \in DOMAIN out
        /\ \E fails \in BOOLEAN : SendEvent(room, OutOf(room), fails)
    BY <1>0, <1>4, OutFound DEF SendEncrypted
  <2>2. OutOf(room) \in DOMAIN out'
    BY <1>2, <2>1 DEF Grows
  <2> QED
    BY <1>2, <1>3, <1>4, <2>1, <2>2 DEF SendEncrypted, TypeInv, TypeOK
<1>5. CASE SendEncrypted(room) /\ OutOf(room) = 0
  <2>1. /\ out' = Append(out, room)
        /\ \E fails \in BOOLEAN : SendEvent(room, Len(out'), fails)
        /\ UNCHANGED <<crashed, now, queue, shared, keyed, readerVars>>
        /\ Len(sent) < MaxSent
    BY <1>5 DEF SendEncrypted
  <2>2. Len(out') = Len(out) + 1 /\ Len(out') \in DOMAIN out'
    BY <1>0, <2>1
  <2> QED
    BY <1>2, <1>3, <1>5, <2>1, <2>2 DEF TypeInv, TypeOK
<1>6. CASE SendNoSlot(room)
  <2>1. /\ out' = out /\ UNCHANGED <<now, queue, shared, keyed, readerVars>>
        /\ crashed' \in BOOLEAN /\ Len(sent) < MaxSent /\ OutOf(room) = 0
        /\ \/ UNCHANGED <<failures, index, sent, timeline, taken>>
           \/ \E sid \in DOMAIN out, fails \in BOOLEAN : SendEvent(room, sid, fails)
    BY <1>6 DEF SendNoSlot
  <2> QED
    BY <1>2, <1>3, <2>1
<1> QED
  BY <1>4, <1>5, <1>6

LEMMA SendKeepsTypeInv ==
    ASSUME TypeInv, NEW room \in Rooms, SendEncrypted(room) \/ SendNoSlot(room)
    PROVE  TypeInv'
<1>1. /\ Grows /\ UNCHANGED <<now, queue, shared, keyed, readerVars>>
      /\ crashed' \in BOOLEAN /\ Len(sent) < MaxSent
      /\ \/ UNCHANGED <<failures, index, sent, timeline, taken>>
         \/ \E sid \in DOMAIN out', fails \in BOOLEAN :
              SendEvent(room, sid, fails) /\ sid \in Sids
  BY SendsIn
<1>2. /\ out' \in Seq(Rooms) /\ Len(out') <= NUM_MEGOLM_SESSIONS
      /\ DOMAIN out \subseteq DOMAIN out'
  BY <1>1 DEF Grows
<1>3. /\ UNCHANGED <<in, count, dead, seen, had, since>>
      /\ UNCHANGED <<keys, todo, here, decrypted, handled, stale>>
  BY <1>1 DEF readerVars, tableVars, answerVars, handlerVars
<1>4. CASE UNCHANGED <<failures, index, sent, timeline, taken>>
  BY <1>1, <1>2, <1>3, <1>4 DEF TypeInv, TypeOK, Bounds, CountHoldsUntilFull
<1>5. ASSUME NEW sid \in DOMAIN out', sid \in Sids, NEW fails \in BOOLEAN,
             SendEvent(room, sid, fails)
      PROVE  TypeInv'
  <2>1. /\ index' \in [Sids -> 0 .. MaxSent]
        /\ \A s \in Sids : index'[s] <= Len(sent')
        /\ sent' \in Seq([room : Rooms, second : 0 .. MaxSeconds, lost : BOOLEAN])
        /\ Len(sent) \in Nat /\ Len(sent') = Len(sent) + 1
        /\ failures' \in 0 .. MaxFailures
        /\ taken' \subseteq (Rooms \cup {"to-device"}) \X (0 .. MaxSeconds)
        /\ timeline' \in Seq(RoomEvent)
        /\ timeline' = timeline \/ Arrives(room, sid)
    BY <1>1, <1>5, SendKeepsTypes
  <2>2. DOMAIN sent' = 1 .. Len(sent) + 1 /\ DOMAIN sent = 1 .. Len(sent)
    BY <2>1 DEF TypeInv, TypeOK
  <2>3. /\ Len(timeline') <= Len(sent') /\ Len(timeline) <= Len(timeline')
        /\ \A i \in DOMAIN timeline' : /\ timeline'[i].sid \in DOMAIN out'
                                       /\ timeline'[i].text \in DOMAIN sent'
    <3>1. /\ timeline \in Seq(RoomEvent) /\ DOMAIN timeline = 1 .. Len(timeline)
          /\ Len(timeline) \in Nat /\ Len(timeline) <= Len(sent)
          /\ \A i \in DOMAIN timeline : /\ timeline[i].sid \in DOMAIN out
                                        /\ timeline[i].text \in DOMAIN sent
      BY DEF TypeInv, TypeOK, Bounds
    <3>2. CASE timeline' = timeline
      BY <1>2, <2>1, <2>2, <3>1, <3>2
    <3>3. CASE Arrives(room, sid)
      <4>1. DOMAIN timeline' = 1 .. Len(timeline) + 1
        BY <2>1, <3>3 DEF Arrives
      <4>2. /\ timeline'[Len(timeline) + 1].sid = sid
            /\ timeline'[Len(timeline) + 1].text = Len(sent) + 1
        BY <3>3 DEF Arrives, EventOf
      <4>3. \A i \in DOMAIN timeline' :
              \/ i \in DOMAIN timeline /\ timeline'[i] = timeline[i]
              \/ i = Len(timeline) + 1
        BY <3>1, <3>3, <4>1 DEF Arrives
      <4>4. Len(timeline') = Len(timeline) + 1 /\ sid \in DOMAIN out'
        BY <1>5, <3>3 DEF Arrives
      <4>5. DOMAIN sent \subseteq DOMAIN sent' /\ Len(sent) + 1 \in DOMAIN sent'
        BY <2>1, <2>2
      <4>6. \A i \in DOMAIN timeline' : /\ timeline'[i].sid \in DOMAIN out'
                                        /\ timeline'[i].text \in DOMAIN sent'
        BY <1>2, <3>1, <4>2, <4>3, <4>4, <4>5
      <4> QED
        BY <2>1, <3>1, <4>4, <4>6
    <3> QED
      BY <2>1, <3>2, <3>3
  <2>4. Len(sent') <= MaxSent
    BY <1>1, <2>1, MegolmAssumption
  <2>5. TypeOK'
    BY <1>1, <1>2, <1>3, <2>1, <2>4 DEF TypeInv, TypeOK
  <2>6. Bounds'
    <3>1. \A d \in Devices : /\ seen'[d] <= Len(timeline')
                             /\ since'[d] <= seen'[d]
                             /\ todo'[d] \cup here'[d] \subseteq 1 .. seen'[d]
                             /\ keyed'[d] \subseteq DOMAIN out'
      <4>1. \A d \in Devices : seen[d] \in Nat /\ Len(timeline) \in Nat
                               /\ Len(timeline') \in Nat
        BY <2>1 DEF TypeInv, TypeOK
      <4> QED
        BY <1>1, <1>2, <1>3, <2>3, <4>1 DEF TypeInv, Bounds
    <3> QED
      BY <2>1, <2>3, <3>1 DEF Bounds
  <2> QED
    BY <1>3, <2>5, <2>6 DEF TypeInv, CountHoldsUntilFull
<1> QED
  BY <1>1, <1>4, <1>5

LEMMA NewOutKeepsTypeInv ==
    ASSUME TypeInv, NEW room \in Rooms, NewOutSession(room) PROVE TypeInv'
<1>1. /\ ~Full /\ out' = Append(out, room)
      /\ UNCHANGED <<failures, index, sent, crashed, now, serverVars, readerVars>>
  BY DEF NewOutSession
<1>2. Grows
  BY <1>1, OutGrows DEF TypeInv
<1> QED
  BY <1>1, <1>2 DEF TypeInv, TypeOK, Bounds, CountHoldsUntilFull, Grows, serverVars,
     readerVars, tableVars, answerVars, handlerVars

\* A key for a device goes to the end of its queue.
LEMMA Queued ==
    ASSUME TypeInv, NEW d \in Devices, NEW key \in RoomKey,
           queue' = [queue EXCEPT ![d] = Append(@, key)]
    PROVE  /\ queue' \in [Devices -> Seq(RoomKey)]
           /\ \A q \in Devices : \A n \in DOMAIN queue[q] :
                n \in DOMAIN queue'[q] /\ queue'[q][n] = queue[q][n]
           /\ \A q \in Devices : \A n \in DOMAIN queue'[q] :
                \/ n \in DOMAIN queue[q] /\ queue'[q][n] = queue[q][n]
                \/ q = d /\ queue'[q][n] = key
           /\ \E n \in DOMAIN queue'[d] : queue'[d][n] = key
<1>1. queue \in [Devices -> Seq(RoomKey)]
  BY DEF TypeInv, TypeOK
<1>2. queue'[d] = Append(queue[d], key) /\ queue[d] \in Seq(RoomKey)
  BY <1>1
<1>3. /\ queue'[d] \in Seq(RoomKey) /\ Len(queue'[d]) = Len(queue[d]) + 1
      /\ Len(queue[d]) \in Nat /\ queue'[d][Len(queue[d]) + 1] = key
      /\ \A n \in 1 .. Len(queue[d]) : queue'[d][n] = queue[d][n]
  BY <1>2
<1>4. \A q \in Devices : q # d => queue'[q] = queue[q]
  BY <1>1
<1>5. queue' \in [Devices -> Seq(RoomKey)]
  BY <1>1, <1>3
<1>6. DOMAIN queue[d] = 1 .. Len(queue[d])
      /\ DOMAIN queue'[d] = 1 .. Len(queue[d]) + 1
  BY <1>2, <1>3
<1> QED
  BY <1>3, <1>4, <1>5, <1>6

\* The key of a session, shared or forwarded, starts with its first message.
LEMMA KeysSent ==
    ASSUME TypeInv, NEW sid \in DOMAIN out, NEW d \in Devices,
           Share(sid, d) \/ Forward(sid, d)
    PROVE  /\ UNCHANGED <<senderVars, timeline, readerVars>>
           /\ shared' \in 0 .. MaxShared /\ failures' \in 0 .. MaxFailures
           /\ taken' = taken \/ taken' = taken \cup {Txn("to-device")}
           /\ \/ UNCHANGED <<queue, keyed>>
              \/ \E forwarded \in BOOLEAN :
                   /\ queue' = [queue EXCEPT ![d] = Append(@,
                         [room |-> out[sid], sid |-> sid, from |-> 0,
                          forwarded |-> forwarded])]
                   /\ keyed' = IF forwarded THEN keyed
                               ELSE [keyed EXCEPT ![d] = @ \cup {sid}]
<1>1. /\ shared \in 0 .. MaxShared /\ shared < MaxShared /\ shared' = shared + 1
      /\ failures \in 0 .. MaxFailures
  BY DEF TypeInv, TypeOK, Share, Forward
<1>2. shared' \in 0 .. MaxShared
  BY <1>1, MegolmAssumption
<1>3. CASE Share(sid, d)
  <2>1. PICK fails \in BOOLEAN :
          /\ Put("to-device", fails)
          /\ IF fails \/ Txn("to-device") \in taken
             THEN UNCHANGED <<queue, keyed>>
             ELSE /\ queue' = [queue EXCEPT ![d] = Append(@,
                        [room |-> out[sid], sid |-> sid, from |-> 0,
                         forwarded |-> FALSE])]
                  /\ keyed' = [keyed EXCEPT ![d] = @ \cup {sid}]
    BY <1>3 DEF Share, KeyFrom
  <2>2. /\ failures' \in 0 .. MaxFailures
        /\ taken' = taken \/ taken' = taken \cup {Txn("to-device")}
    BY <1>1, <2>1, MegolmAssumption DEF Put
  <2> QED
    BY <1>2, <1>3, <2>1, <2>2 DEF Share
<1>4. CASE Forward(sid, d)
  BY <1>1, <1>2, <1>4 DEF Forward
<1> QED
  BY <1>3, <1>4

LEMMA KeyTyped ==
    ASSUME TypeInv, NEW sid \in DOMAIN out, NEW forwarded \in BOOLEAN
    PROVE  [room |-> out[sid], sid |-> sid, from |-> 0, forwarded |-> forwarded]
               \in RoomKey
<1>1. out \in Seq(Rooms) /\ Len(out) <= NUM_MEGOLM_SESSIONS
  BY DEF TypeInv, TypeOK
<1>2. out[sid] \in Rooms /\ sid \in Sids
  BY <1>1, MegolmAssumption DEF Sids
<1> QED
  BY <1>2 DEF RoomKey

LEMMA KeysKeepTypeInv ==
    ASSUME TypeInv, NEW sid \in DOMAIN out, NEW d \in Devices,
           Share(sid, d) \/ Forward(sid, d)
    PROVE  TypeInv'
<1>1. /\ UNCHANGED <<senderVars, timeline, readerVars>>
      /\ shared' \in 0 .. MaxShared /\ failures' \in 0 .. MaxFailures
      /\ taken' = taken \/ taken' = taken \cup {Txn("to-device")}
      /\ \/ UNCHANGED <<queue, keyed>>
         \/ \E forwarded \in BOOLEAN :
              /\ queue' = [queue EXCEPT ![d] = Append(@,
                    [room |-> out[sid], sid |-> sid, from |-> 0,
                     forwarded |-> forwarded])]
              /\ keyed' = IF forwarded THEN keyed
                          ELSE [keyed EXCEPT ![d] = @ \cup {sid}]
  BY KeysSent
<1>2. taken' \subseteq (Rooms \cup {"to-device"}) \X (0 .. MaxSeconds)
  BY <1>1 DEF TypeInv, TypeOK, Txn
<1>3. /\ queue' \in [Devices -> Seq(RoomKey)]
      /\ keyed' \in [Devices -> SUBSET Sids]
      /\ \A q \in Devices : keyed'[q] \subseteq DOMAIN out
  <2>1. /\ queue \in [Devices -> Seq(RoomKey)]
        /\ keyed \in [Devices -> SUBSET Sids]
        /\ \A q \in Devices : keyed[q] \subseteq DOMAIN out
        /\ DOMAIN out \subseteq Sids
    <3>1. out \in Seq(Rooms) /\ Len(out) <= NUM_MEGOLM_SESSIONS
      BY DEF TypeInv, TypeOK
    <3>2. DOMAIN out \subseteq Sids
      BY <3>1, MegolmAssumption DEF Sids
    <3> QED
      BY <3>2 DEF TypeInv, TypeOK, Bounds
  <2>2. ASSUME NEW forwarded \in BOOLEAN,
               queue' = [queue EXCEPT ![d] = Append(@,
                  [room |-> out[sid], sid |-> sid, from |-> 0,
                   forwarded |-> forwarded])],
               keyed' = IF forwarded THEN keyed
                        ELSE [keyed EXCEPT ![d] = @ \cup {sid}]
        PROVE  <1>3
    <3>1. queue' \in [Devices -> Seq(RoomKey)]
      BY <2>2, KeyTyped, Queued
    <3>2. CASE keyed' = keyed
      BY <2>1, <3>1, <3>2
    <3>3. CASE keyed' = [keyed EXCEPT ![d] = @ \cup {sid}]
      BY <2>1, <3>1, <3>3
    <3> QED
      BY <2>2, <3>2, <3>3
  <2> QED
    BY <1>1, <2>1, <2>2
<1> QED
  BY <1>1, <1>2, <1>3
  DEF TypeInv, TypeOK, Bounds, CountHoldsUntilFull, senderVars,
      readerVars, tableVars, answerVars, handlerVars

-----------------------------------------------------------------------------
(* Types: the devices that read                                            *)

\* The event a device goes on with is one of those it still has to handle, and
\* the only one it takes off them.
LEMMA NextEvent ==
    ASSUME TypeInv, NEW d \in Devices, NEW events \in Ahead(d)
    PROVE  /\ Min(events) \in todo[d] \cup here[d]
           /\ Min(events) \in 1 .. seen[d] /\ Min(events) \in DOMAIN timeline
           /\ timeline[Min(events)] \in RoomEvent
           /\ timeline[Min(events)].text \in Texts
           /\ timeline[Min(events)].idx \in Nat
           /\ events \subseteq todo[d] \cup here[d]
           /\ todo[d] \cup here[d] =
                (todo[d] \ events) \cup (events \ {Min(events)}) \cup {Min(events)}
<1>1. /\ events # {} /\ events \subseteq todo[d] \cup here[d]
      /\ events = here[d] \/ (here[d] = {} /\ events \subseteq todo[d])
  BY DEF Ahead, OfRoom
<1>2. /\ todo[d] \cup here[d] \subseteq 1 .. seen[d]
      /\ seen[d] <= Len(timeline) /\ seen[d] \in Nat
      /\ timeline \in Seq(RoomEvent)
  BY MegolmAssumption DEF TypeInv, TypeOK, Bounds
<1>3. events \in SUBSET Nat
  BY <1>1, <1>2
<1>4. Min(events) \in events
  BY <1>1, <1>3, MinOf
<1>5. Min(events) \in 1 .. seen[d] /\ Min(events) \in DOMAIN timeline
  BY <1>1, <1>2, <1>4
<1>6. timeline[Min(events)] \in RoomEvent
  BY <1>2, <1>5
<1>7. timeline[Min(events)].text \in Texts /\ timeline[Min(events)].idx \in Nat
  BY <1>6 DEF RoomEvent
<1> QED
  BY <1>1, <1>4, <1>5, <1>6, <1>7

\* An answer, the next one or the last one once more, is taken up when the one
\* before it has been handled.
LEMMA AnswerKeepsTypeInv ==
    ASSUME TypeInv, NEW d \in Devices, Sync(d) \/ SyncAgain(d) PROVE TypeInv'
<1>1. /\ here[d] = {} /\ todo[d] = {}
      /\ UNCHANGED <<senderVars, timeline, taken, shared, keyed, tableVars, here,
                     decrypted, handled, stale>>
  BY DEF Sync, SyncAgain, Done, serverVars
<1>2. /\ Len(timeline) \in 0 .. MaxSent /\ MaxSent \in Nat /\ MaxFailures \in Nat
      /\ failures \in 0 .. MaxFailures
      /\ \A q \in Devices : /\ seen[q] \in Nat /\ seen[q] <= Len(timeline)
                            /\ since[q] \in Nat /\ since[q] <= seen[q]
  <2>1. /\ Len(timeline) \in Nat /\ Len(sent) \in Nat /\ Len(sent) <= MaxSent
        /\ Len(timeline) <= Len(sent) /\ MaxSent \in Nat /\ MaxFailures \in Nat
    BY MegolmAssumption DEF TypeInv, TypeOK, Bounds
  <2> QED
    BY <2>1 DEF TypeInv, TypeOK, Bounds
<1>3. PICK from, to \in 0 .. Len(timeline) :
        /\ todo' = [todo EXCEPT ![d] = (from + 1) .. to]
        /\ seen' = [seen EXCEPT ![d] = to]
        /\ since' = [since EXCEPT ![d] = from]
        /\ from <= to
  <2> DEFINE Given(from, to) ==
               /\ todo' = [todo EXCEPT ![d] = (from + 1) .. to]
               /\ seen' = [seen EXCEPT ![d] = to]
               /\ since' = [since EXCEPT ![d] = from]
               /\ from <= to
  <2>1. CASE Sync(d)
    <3>1. Given(seen[d], Len(timeline))
      BY <1>2, <2>1 DEF Sync
    <3>2. seen[d] \in 0 .. Len(timeline) /\ Len(timeline) \in 0 .. Len(timeline)
      BY <1>2
    <3> HIDE DEF Given
    <3>3. \E from, to \in 0 .. Len(timeline) : Given(from, to)
      BY <3>1, <3>2
    <3> QED
      BY <3>3 DEF Given
  <2>2. CASE SyncAgain(d)
    <3>1. /\ seen' = [seen EXCEPT ![d] = seen[d]]
          /\ since' = [since EXCEPT ![d] = since[d]]
      BY <2>2 DEF SyncAgain, answerVars, TypeInv, TypeOK
    <3>2. Given(since[d], seen[d])
      BY <1>2, <2>2, <3>1 DEF SyncAgain
    <3>3. since[d] \in 0 .. Len(timeline) /\ seen[d] \in 0 .. Len(timeline)
      BY <1>2
    <3> HIDE DEF Given
    <3>4. \E from, to \in 0 .. Len(timeline) : Given(from, to)
      BY <3>2, <3>3
    <3> QED
      BY <3>4 DEF Given
  <2> QED
    BY <2>1, <2>2
<1>4. /\ keys' \in [Devices -> Seq(RoomKey)] /\ queue' \in [Devices -> Seq(RoomKey)]
      /\ had' \in [Devices -> Seq(RoomKey)] /\ failures' \in 0 .. MaxFailures
  <2>1. /\ keys \in [Devices -> Seq(RoomKey)] /\ queue \in [Devices -> Seq(RoomKey)]
        /\ had \in [Devices -> Seq(RoomKey)]
    BY DEF TypeInv, TypeOK
  <2>2. CASE Sync(d)
    BY <1>2, <2>1, <2>2 DEF Sync
  <2>3. CASE SyncAgain(d)
    <3>1. PICK again \in [DOMAIN had[d] -> Range(had[d])] :
            keys' = [keys EXCEPT ![d] = again]
      BY <2>3 DEF SyncAgain
    <3>2. again \in Seq(RoomKey)
      <4>1. had[d] \in Seq(RoomKey)
        BY <2>1
      <4>2. DOMAIN had[d] = 1 .. Len(had[d]) /\ Len(had[d]) \in Nat
            /\ Range(had[d]) \subseteq RoomKey
        BY <4>1 DEF Range
      <4>3. again \in [1 .. Len(had[d]) -> RoomKey]
        BY <4>2
      <4> QED
        BY <4>2, <4>3, SeqDef
    <3>3. UNCHANGED <<queue, had>> /\ failures' \in 0 .. MaxFailures
      BY <1>2, <2>3 DEF SyncAgain, serverVars, answerVars
    <3> QED
      BY <2>1, <3>1, <3>2, <3>3
  <2> QED
    BY <2>2, <2>3
<1>5. /\ todo' \in [Devices -> SUBSET (1 .. MaxSent)]
      /\ seen' \in [Devices -> 0 .. MaxSent] /\ since' \in [Devices -> 0 .. MaxSent]
      /\ \A q \in Devices : /\ todo'[q] \cup here'[q] \subseteq 1 .. seen'[q]
                            /\ seen'[q] <= Len(timeline) /\ since'[q] <= seen'[q]
  <2>1. (from + 1) .. to \subseteq 1 .. to /\ from \in 0 .. MaxSent /\ to \in 0 .. MaxSent
    BY <1>2
  <2>2. (from + 1) .. to \subseteq 1 .. MaxSent
    BY <1>2, <2>1
  <2>3. /\ todo \in [Devices -> SUBSET (1 .. MaxSent)]
        /\ seen \in [Devices -> 0 .. MaxSent] /\ since \in [Devices -> 0 .. MaxSent]
        /\ \A q \in Devices : todo[q] \cup here[q] \subseteq 1 .. seen[q]
    BY DEF TypeInv, TypeOK, Bounds
  <2>4. /\ todo' \in [Devices -> SUBSET (1 .. MaxSent)]
        /\ seen' \in [Devices -> 0 .. MaxSent] /\ since' \in [Devices -> 0 .. MaxSent]
    BY <1>3, <2>1, <2>2, <2>3
  <2>5. /\ todo'[d] = (from + 1) .. to /\ here'[d] = {}
        /\ seen'[d] = to /\ since'[d] = from
    BY <1>1, <1>3, <2>3
  <2>6. \A q \in Devices : q # d => /\ todo'[q] = todo[q] /\ here'[q] = here[q]
                                    /\ seen'[q] = seen[q] /\ since'[q] = since[q]
    BY <1>1, <1>3, <2>3
  <2>7. \A q \in Devices : /\ todo'[q] \cup here'[q] \subseteq 1 .. seen'[q]
                           /\ seen'[q] <= Len(timeline) /\ since'[q] <= seen'[q]
    BY <1>2, <1>3, <2>1, <2>3, <2>5, <2>6
  <2> QED
    BY <2>4, <2>7
<1> QED
  BY <1>1, <1>4, <1>5
  DEF TypeInv, TypeOK, Bounds, CountHoldsUntilFull, senderVars, tableVars

SessionOf(key) ==
    [room |-> key.room, sid |-> key.sid, from |-> key.from,
     made |-> ~key.forwarded, whole |-> TRUE]

\* What a key does to a table that is not full.
Appends(d, key) ==
    /\ Len(in[d]) < NUM_MEGOLM_SESSIONS
    /\ Len(in'[d]) = Len(in[d]) + 1
    /\ \A i \in 1 .. Len(in[d]) : /\ in'[d][i].room = in[d][i].room
                                  /\ in'[d][i].sid = in[d][i].sid
                                  /\ in'[d][i].made = in[d][i].made
                                  /\ ~in'[d][i].whole
    /\ in'[d][Len(in[d]) + 1] = SessionOf(key)
    /\ dead' = dead
    /\ Len(in'[d]) # NUM_MEGOLM_SESSIONS => count'[d] = Len(in'[d])

\* A table that is full stays full, whatever is in its slots.
StaysFull(d) ==
    Len(in[d]) = NUM_MEGOLM_SESSIONS /\ Len(in'[d]) = NUM_MEGOLM_SESSIONS

LEMMA KeyStored ==
    ASSUME TypeInv, NEW d \in Devices, NEW key \in RoomKey, NewInSession(d, key)
    PROVE  /\ in' \in [Devices -> Seq(InSession)]
           /\ count' \in [Devices -> AnyCount] /\ dead' \in [Devices -> BOOLEAN]
           /\ \A q \in Devices : q # d => /\ in'[q] = in[q] /\ count'[q] = count[q]
                                          /\ dead'[q] = dead[q]
           /\ \A i \in DOMAIN in'[d] : \/ in'[d][i].from = key.from
                                       \/ /\ i \in DOMAIN in[d]
                                          /\ in'[d][i].from = in[d][i].from
           /\ Appends(d, key) \/ StaysFull(d)
<1>1. /\ in \in [Devices -> Seq(InSession)]
      /\ count \in [Devices -> AnyCount] /\ dead \in [Devices -> BOOLEAN]
      /\ \A q \in Devices : Len(in[q]) \in Nat /\ Len(in[q]) <= NUM_MEGOLM_SESSIONS
      /\ NUM_MEGOLM_SESSIONS \in Nat \ {0}
  BY MegolmAssumption DEF TypeInv, TypeOK
<1>2. Len(in[d]) # NUM_MEGOLM_SESSIONS =>
        /\ count[d] = Len(in[d]) /\ ~dead[d]
        /\ \A i \in DOMAIN in[d] : in[d][i].whole <=> i = count[d]
  BY DEF TypeInv, CountHoldsUntilFull
<1>3. count[d] \in Int
  BY <1>1 DEF AnyCount
<1>4. CASE UNCHANGED in
  <2>1. CASE UNCHANGED tableVars /\ count[d] >= NUM_MEGOLM_SESSIONS
    BY <1>1, <1>2, <1>3, <2>1 DEF tableVars, StaysFull
  <2>2. CASE /\ count[d] < 0 /\ dead' = [dead EXCEPT ![d] = TRUE]
             /\ UNCHANGED <<in, count>>
    BY <1>1, <1>2, <1>3, <2>2 DEF StaysFull
  <2>3. CASE /\ count[d] + 1 \in 1 .. NUM_MEGOLM_SESSIONS
             /\ in' = [in EXCEPT ![d] = Stored(@, count[d] + 1, SessionOf(key))]
             /\ \E c \in CountAfter(count[d] + 1, ~key.forwarded) :
                  count' = [count EXCEPT ![d] = c]
             /\ dead' = dead
    <3>1. CASE Len(in[d]) = NUM_MEGOLM_SESSIONS
      <4>1. count' \in [Devices -> AnyCount]
        BY <1>1, <2>3 DEF CountAfter, AnyCount
      <4>2. \A q \in Devices : q # d => count'[q] = count[q]
        BY <1>1, <2>3
      <4> QED
        BY <1>1, <1>4, <2>3, <3>1, <4>1, <4>2 DEF StaysFull
    <3>2. CASE Len(in[d]) # NUM_MEGOLM_SESSIONS
      <4>1. in'[d] = Stored(in[d], Len(in[d]) + 1, SessionOf(key))
        BY <1>1, <1>2, <2>3, <3>2
      <4>2. DOMAIN in'[d] = 1 .. Len(in[d]) + 1
        BY <1>1, <4>1 DEF Stored
      <4>3. DOMAIN in[d] = 1 .. Len(in[d])
        BY <1>1
      <4> QED
        BY <1>1, <1>4, <4>2, <4>3
    <3> QED
      BY <3>1, <3>2
  <2> QED
    BY <2>1, <2>2, <2>3 DEF NewInSession, SessionOf
<1>5. CASE /\ count[d] + 1 \in 1 .. NUM_MEGOLM_SESSIONS
           /\ in' = [in EXCEPT ![d] = Stored(@, count[d] + 1, SessionOf(key))]
           /\ \E c \in CountAfter(count[d] + 1, ~key.forwarded) :
                count' = [count EXCEPT ![d] = c]
           /\ dead' = dead
  <2> DEFINE slot == count[d] + 1
             session == SessionOf(key)
             table == in[d]
  <2>0. PICK n : n = Len(table)
    OBVIOUS
  <2>1. /\ session \in InSession /\ session.from = key.from /\ session.whole
        /\ session.room \in Rooms
    BY DEF SessionOf, InSession, RoomKey
  <2>2. table \in Seq(InSession) /\ n \in Nat /\ n <= NUM_MEGOLM_SESSIONS
        /\ \A i \in 1 .. n : table[i] \in InSession
    BY <1>1, <2>0
  <2>3. slot \in 1 .. NUM_MEGOLM_SESSIONS /\ slot <= n + 1
        /\ (n # NUM_MEGOLM_SESSIONS => slot = n + 1)
    <3>1. slot \in 1 .. NUM_MEGOLM_SESSIONS /\ count[d] \in Int
      BY <1>3, <1>5
    <3>2. CASE n # NUM_MEGOLM_SESSIONS
      <4>1. count[d] = n
        BY <1>2, <2>0, <3>2
      <4> QED
        BY <2>2, <3>1, <4>1
    <3>3. CASE n = NUM_MEGOLM_SESSIONS
      <4> HIDE DEF slot
      <4> QED
        BY <1>1, <3>1, <3>3
    <3> QED
      BY <3>2, <3>3
  <2>4. PICK m : m = IF slot > n THEN slot ELSE n
    OBVIOUS
  <2>5. m \in Nat /\ m <= NUM_MEGOLM_SESSIONS /\ m <= n + 1
        /\ (m = n + 1 => slot = m) /\ n <= m /\ (m = n \/ m = n + 1)
    BY <1>1, <2>2, <2>3, <2>4
  <2>6. in'[d] = [i \in 1 .. m |->
                    CASE i = slot     -> session
                      [] i = slot - 1 -> [table[i] EXCEPT !.whole = FALSE]
                      [] i = slot + 1 -> [table[i] EXCEPT !.room = Overrun]
                      [] OTHER        -> table[i]]
    BY <1>1, <1>5, <2>0, <2>4 DEF Stored
  <2> HIDE DEF slot, session, table
  <2>7. ASSUME NEW i \in 1 .. m
        PROVE  \/ i = slot /\ in'[d][i] = session
               \/ /\ i # slot /\ i \in 1 .. n
                  /\ in'[d][i] \in InSession
                  /\ in'[d][i].from = table[i].from
                  /\ in'[d][i].sid = table[i].sid
                  /\ in'[d][i].made = table[i].made
                  /\ i = slot - 1 => ~in'[d][i].whole
                  /\ i < slot => in'[d][i].room = table[i].room
                  /\ i < slot - 1 => in'[d][i].whole = table[i].whole
    <3>1. CASE i = slot
      BY <2>6, <3>1
    <3>2. CASE i # slot
      <4>1. i \in 1 .. n
        BY <2>2, <2>3, <2>5, <3>2
      <4>2. table[i] \in InSession
        BY <2>2, <4>1
      <4>3. /\ [table[i] EXCEPT !.whole = FALSE] \in InSession
            /\ [table[i] EXCEPT !.room = Overrun] \in InSession
        BY <4>2 DEF InSession
      <4>4. slot \in Int
        BY <2>3
      <4>5. CASE i = slot - 1
        <5>1. in'[d][i] = [table[i] EXCEPT !.whole = FALSE]
          BY <2>6, <4>4, <4>5
        <5>2. /\ in'[d][i].room = table[i].room /\ in'[d][i].sid = table[i].sid
              /\ in'[d][i].from = table[i].from /\ in'[d][i].made = table[i].made
              /\ ~in'[d][i].whole
          BY <4>2, <5>1 DEF InSession
        <5>3. in'[d][i] \in InSession
          BY <4>3, <5>1
        <5>4. ~(i < slot - 1)
          BY <4>4, <4>5
        <5> QED
          BY <3>2, <4>1, <5>2, <5>3, <5>4
      <4>6. CASE i = slot + 1
        <5>1. in'[d][i] = [table[i] EXCEPT !.room = Overrun]
          BY <2>6, <3>2, <4>4, <4>6
        <5> QED
          BY <3>2, <4>1, <4>2, <4>3, <4>4, <4>6, <5>1 DEF InSession
      <4>7. CASE i # slot - 1 /\ i # slot + 1
        <5>1. in'[d][i] = table[i]
          BY <2>6, <3>2, <4>7
        <5> QED
          BY <3>2, <4>1, <4>2, <4>7, <5>1
      <4> QED
        BY <4>5, <4>6, <4>7
    <3> QED
      BY <3>1, <3>2
  <2>8. in'[d] \in Seq(InSession) /\ Len(in'[d]) = m /\ DOMAIN in'[d] = 1 .. m
    <3>1. DOMAIN in'[d] = 1 .. m
      BY <2>6
    <3>2. \A i \in 1 .. m : in'[d][i] \in InSession
      BY <2>1, <2>7
    <3>3. in'[d] \in [1 .. m -> InSession]
      BY <2>6, <3>2
    <3>4. in'[d] \in Seq(InSession)
      BY <2>5, <3>3, SeqDef
    <3> QED
      BY <2>5, <3>1, <3>4
  <2>9. in' \in [Devices -> Seq(InSession)]
        /\ \A q \in Devices : q # d => in'[q] = in[q]
    <3>1. in' = [in EXCEPT ![d] = in'[d]]
      BY <1>1, <1>5
    <3> QED
      BY <1>1, <2>8, <3>1
  <2>10. /\ count' \in [Devices -> AnyCount]
         /\ \A q \in Devices : q # d => count'[q] = count[q]
         /\ slot < NUM_MEGOLM_SESSIONS => count'[d] = slot
    <3>1. PICK c \in CountAfter(slot, ~key.forwarded) : count' = [count EXCEPT ![d] = c]
      BY <1>5 DEF slot
    <3>2. c \in AnyCount /\ (slot < NUM_MEGOLM_SESSIONS => c = slot)
      BY <1>1, <2>3, <3>1 DEF CountAfter, AnyCount
    <3> QED
      BY <1>1, <3>1, <3>2
  <2>11. \A i \in DOMAIN in'[d] : \/ in'[d][i].from = key.from
                                  \/ /\ i \in DOMAIN in[d]
                                     /\ in'[d][i].from = in[d][i].from
    <3>1. DOMAIN in[d] = 1 .. n
      BY <2>0, <2>2 DEF table
    <3> QED
      BY <2>1, <2>7, <2>8, <3>1 DEF table
  <2>12. CASE n = NUM_MEGOLM_SESSIONS
    <3>1. m = NUM_MEGOLM_SESSIONS
      BY <1>1, <2>2, <2>5, <2>12
    <3>2. StaysFull(d)
      BY <2>0, <2>8, <2>12, <3>1 DEF StaysFull, table
    <3> QED
      BY <1>1, <1>5, <2>9, <2>10, <2>11, <3>2
  <2>13. CASE n # NUM_MEGOLM_SESSIONS
    <3>1. slot = n + 1 /\ m = n + 1 /\ n < NUM_MEGOLM_SESSIONS
      BY <1>1, <2>2, <2>3, <2>4, <2>13
    <3>2. ASSUME NEW i \in 1 .. n
          PROVE  /\ in'[d][i].room = table[i].room
                 /\ in'[d][i].sid = table[i].sid
                 /\ in'[d][i].made = table[i].made
                 /\ ~in'[d][i].whole
      <4>1. i \in 1 .. m /\ i # slot /\ i < slot
        BY <2>2, <3>1
      <4>2. /\ in'[d][i].room = table[i].room
            /\ in'[d][i].sid = table[i].sid
            /\ in'[d][i].made = table[i].made
            /\ i = slot - 1 => ~in'[d][i].whole
            /\ i < slot - 1 => in'[d][i].whole = table[i].whole
        BY <2>7, <4>1
      <4>3. i < slot - 1 => ~table[i].whole
        <5>1. count[d] = n /\ \A k \in 1 .. n : table[k].whole => k = n
          BY <1>2, <2>0, <2>2, <2>13 DEF table
        <5> QED
          BY <2>2, <3>1, <5>1
      <4> QED
        BY <2>2, <3>1, <4>1, <4>2, <4>3
    <3>3. in'[d][n + 1] = session
      BY <2>2, <2>7, <3>1
    <3>4. Len(in'[d]) # NUM_MEGOLM_SESSIONS => count'[d] = Len(in'[d])
      BY <1>1, <2>2, <2>8, <2>10, <3>1
    <3>5. Appends(d, key)
      BY <1>5, <2>0, <2>8, <3>1, <3>2, <3>3, <3>4 DEF Appends, table, session
    <3> QED
      BY <1>1, <1>5, <2>9, <2>10, <2>11, <3>5
  <2> QED
    BY <2>12, <2>13
<1> QED
  BY <1>4, <1>5 DEF NewInSession, SessionOf, tableVars

\* The number of slots in use stays right until the table is full.
LEMMA KeyKeepsCount ==
    ASSUME TypeInv, NEW d \in Devices, NEW key \in RoomKey, NewInSession(d, key)
    PROVE  /\ \A q \in Devices : Len(in'[q]) <= NUM_MEGOLM_SESSIONS
           /\ CountHoldsUntilFull'
<1>0. /\ in \in [Devices -> Seq(InSession)] /\ in' \in [Devices -> Seq(InSession)]
      /\ dead \in [Devices -> BOOLEAN] /\ NUM_MEGOLM_SESSIONS \in Nat
      /\ \A q \in Devices : /\ Len(in[q]) \in Nat /\ Len(in'[q]) \in Nat
                            /\ DOMAIN in'[q] = 1 .. Len(in'[q])
                            /\ Len(in[q]) <= NUM_MEGOLM_SESSIONS
  <2>1. /\ in \in [Devices -> Seq(InSession)] /\ dead \in [Devices -> BOOLEAN]
        /\ NUM_MEGOLM_SESSIONS \in Nat
        /\ \A q \in Devices : Len(in[q]) <= NUM_MEGOLM_SESSIONS
    BY MegolmAssumption DEF TypeInv, TypeOK
  <2>2. in' \in [Devices -> Seq(InSession)]
    BY KeyStored
  <2> QED
    BY <2>1, <2>2
<1>1. /\ Appends(d, key) \/ StaysFull(d)
      /\ \A q \in Devices : q # d => /\ in'[q] = in[q] /\ count'[q] = count[q]
                                     /\ dead'[q] = dead[q]
  BY KeyStored
<1>2. ASSUME NEW q \in Devices
      PROVE  /\ Len(in'[q]) <= NUM_MEGOLM_SESSIONS
             /\ \/ Len(in'[q]) = NUM_MEGOLM_SESSIONS
                \/ /\ count'[q] = Len(in'[q]) /\ ~dead'[q]
                   /\ \A i \in DOMAIN in'[q] : in'[q][i].whole <=> i = count'[q]
  <2>1. CASE q # d
    <3>1. /\ in'[q] = in[q] /\ count'[q] = count[q] /\ dead'[q] = dead[q]
      BY <1>1, <2>1
    <3> QED
      BY <1>0, <3>1 DEF TypeInv, CountHoldsUntilFull
  <2>2. CASE q = d /\ StaysFull(d)
    BY <1>0, <2>2 DEF StaysFull
  <2>3. CASE q = d /\ Appends(d, key)
    <3>1. ~dead[d]
      BY <1>0, <2>3 DEF Appends, TypeInv, CountHoldsUntilFull
    <3>2. /\ Len(in'[d]) = Len(in[d]) + 1 /\ Len(in[d]) < NUM_MEGOLM_SESSIONS
          /\ in'[d][Len(in[d]) + 1].whole /\ dead'[d] = dead[d]
          /\ \A i \in 1 .. Len(in[d]) : ~in'[d][i].whole
          /\ Len(in'[d]) # NUM_MEGOLM_SESSIONS => count'[d] = Len(in'[d])
      BY <2>3 DEF Appends, SessionOf
    <3> QED
      BY <1>0, <2>3, <3>1, <3>2
  <2> QED
    BY <1>1, <2>1, <2>2, <2>3
<1> QED
  BY <1>2 DEF CountHoldsUntilFull

LEMMA HandleKeyKeepsTypeInv ==
    ASSUME TypeInv, NEW d \in Devices, HandleKey(d) PROVE TypeInv'
<1>1. /\ keys[d] # <<>> /\ keys' = [keys EXCEPT ![d] = Tail(@)]
      /\ NewInSession(d, Head(keys[d]))
      /\ UNCHANGED <<failures, senderVars, serverVars, answerVars, todo, here,
                     decrypted, handled, stale>>
  BY DEF HandleKey
<1>2. keys \in [Devices -> Seq(RoomKey)]
  BY DEF TypeInv, TypeOK
<1>3. Head(keys[d]) \in RoomKey /\ keys' \in [Devices -> Seq(RoomKey)]
  <2>1. keys[d] \in Seq(RoomKey) /\ keys[d] # <<>>
    BY <1>1, <1>2
  <2>2. Head(keys[d]) \in RoomKey /\ Tail(keys[d]) \in Seq(RoomKey)
    BY <2>1, EmptySeq
  <2> QED
    BY <1>1, <1>2, <2>2
<1>4. /\ in' \in [Devices -> Seq(InSession)]
      /\ count' \in [Devices -> AnyCount] /\ dead' \in [Devices -> BOOLEAN]
      /\ \A q \in Devices : Len(in'[q]) <= NUM_MEGOLM_SESSIONS
      /\ CountHoldsUntilFull'
  BY <1>1, <1>3, KeyStored, KeyKeepsCount
<1> QED
  BY <1>1, <1>3, <1>4
  DEF TypeInv, TypeOK, Bounds, senderVars, serverVars, answerVars

\* What one event does to the device that handles it.
Handles(d, e) ==
    \/ ~Found(d, e) /\ NotKnown(d)
    \/ Found(d, e) /\ ~Altered(d, SlotOf(in[d], e.room, e.sid)) /\ Decrypt(d, e)
    \/ Found(d, e) /\ Altered(d, SlotOf(in[d], e.room, e.sid)) /\ DecryptLast(d, e)

LEMMA HandlesOne ==
    ASSUME NEW d, HandleRoomEvent(d)
    PROVE  \E events \in Ahead(d) :
             /\ Handles(d, timeline[Min(events)])
             /\ todo' = [todo EXCEPT ![d] = @ \ events]
             /\ here' = [here EXCEPT ![d] = events \ {Min(events)}]
  BY DEF HandleRoomEvent, Handles

\* Nothing, or the event's text, or the text before it, is passed on.  The count
\* is only touched in a table that is full.
LEMMA HandlesPasses ==
    ASSUME TypeInv, NEW d \in Devices, NEW e, Handles(d, e)
    PROVE  /\ in' = in
           /\ \/ UNCHANGED <<decrypted, handled, stale>>
              \/ Pass(d, e, e.text) \/ Pass(d, e, decrypted[d])
           /\ count' \in [Devices -> AnyCount] /\ dead' \in [Devices -> BOOLEAN]
           /\ \A q \in Devices : \/ count'[q] = count[q] /\ dead'[q] = dead[q]
                                 \/ Len(in[q]) = NUM_MEGOLM_SESSIONS
<1>1. /\ count \in [Devices -> AnyCount] /\ dead \in [Devices -> BOOLEAN]
      /\ in[d] \in Seq(InSession) /\ Len(in[d]) <= NUM_MEGOLM_SESSIONS
      /\ NUM_MEGOLM_SESSIONS \in Nat
  BY MegolmAssumption DEF TypeInv, TypeOK
<1>2. CASE NotKnown(d)
  <2>1. count[d] > NUM_MEGOLM_SESSIONS => Len(in[d]) = NUM_MEGOLM_SESSIONS
    <3>1. Len(in[d]) \in Nat
      BY <1>1
    <3> QED
      BY <1>1, <3>1 DEF TypeInv, CountHoldsUntilFull
  <2> QED
    BY <1>1, <1>2, <2>1 DEF NotKnown
<1>3. CASE Decrypt(d, e)
  BY <1>1, <1>3 DEF Decrypt, tableVars
<1>4. CASE Found(d, e) /\ Altered(d, SlotOf(in[d], e.room, e.sid)) /\ DecryptLast(d, e)
  <2>1. SlotOf(in[d], e.room, e.sid) = NUM_MEGOLM_SESSIONS
    BY <1>4 DEF Altered
  <2>2. SlotOf(in[d], e.room, e.sid) \in DOMAIN in[d]
    BY <1>1, <2>1, SlotFound, MegolmAssumption
  <2>3. Len(in[d]) = NUM_MEGOLM_SESSIONS
    BY <1>1, <2>1, <2>2
  <2>4. PICK c \in AnyCount : count' = [count EXCEPT ![d] = c]
    BY <1>4 DEF DecryptLast
  <2>5. \A q \in Devices : q # d => count'[q] = count[q]
    BY <1>1, <2>4
  <2>6. UNCHANGED <<in, dead>>
    BY <1>4 DEF DecryptLast
  <2>7. Pass(d, e, e.text) \/ Pass(d, e, decrypted[d])
    BY <1>4 DEF DecryptLast
  <2> QED
    BY <1>1, <2>3, <2>4, <2>5, <2>6, <2>7
<1> QED
  BY <1>2, <1>3, <1>4 DEF Handles

LEMMA PassTyped ==
    ASSUME TypeInv, NEW d \in Devices, NEW e \in RoomEvent, NEW text \in Texts \cup {0},
           Pass(d, e, text)
    PROVE  /\ decrypted' \in [Devices -> Texts \cup {0}]
           /\ handled' \in [Devices -> SUBSET Texts]
           /\ stale' \in [Devices -> SUBSET (Rooms \X Sids)]
           /\ handled'[d] = handled[d] \cup ({text} \ {0})
           /\ stale'[d] = IF text = e.text THEN stale[d]
                          ELSE stale[d] \cup {<<e.room, e.sid>>}
           /\ \A q \in Devices : q # d => handled'[q] = handled[q] /\ stale'[q] = stale[q]
<1>1. /\ decrypted \in [Devices -> Texts \cup {0}]
      /\ handled \in [Devices -> SUBSET Texts]
      /\ stale \in [Devices -> SUBSET (Rooms \X Sids)]
  BY DEF TypeInv, TypeOK
<1>2. <<e.room, e.sid>> \in Rooms \X Sids
  BY DEF RoomEvent
<1>3. /\ decrypted' = [decrypted EXCEPT ![d] = text]
      /\ handled' = [handled EXCEPT ![d] = @ \cup ({text} \ {0})]
      /\ stale' = [stale EXCEPT ![d] =
                     IF text = e.text THEN @ ELSE @ \cup {<<e.room, e.sid>>}]
  BY DEF Pass
<1>4. decrypted' \in [Devices -> Texts \cup {0}]
  BY <1>1, <1>3
<1>5. /\ handled' \in [Devices -> SUBSET Texts]
      /\ handled'[d] = handled[d] \cup ({text} \ {0})
      /\ \A q \in Devices : q # d => handled'[q] = handled[q]
  BY <1>1, <1>3
<1>6. /\ stale' \in [Devices -> SUBSET (Rooms \X Sids)]
      /\ stale'[d] = IF text = e.text THEN stale[d]
                     ELSE stale[d] \cup {<<e.room, e.sid>>}
      /\ \A q \in Devices : q # d => stale'[q] = stale[q]
  BY <1>1, <1>2, <1>3
<1> QED
  BY <1>4, <1>5, <1>6

LEMMA HandleEventKeepsTypeInv ==
    ASSUME TypeInv, NEW d \in Devices, HandleRoomEvent(d) PROVE TypeInv'
<1>1. PICK events \in Ahead(d) :
        /\ Handles(d, timeline[Min(events)])
        /\ todo' = [todo EXCEPT ![d] = @ \ events]
        /\ here' = [here EXCEPT ![d] = events \ {Min(events)}]
  BY HandlesOne
<1>2. UNCHANGED <<failures, senderVars, serverVars, answerVars, keys>>
  BY DEF HandleRoomEvent
<1>3. PICK e : e = timeline[Min(events)]
  OBVIOUS
<1>4. e \in RoomEvent /\ e.text \in Texts /\ events \subseteq todo[d] \cup here[d]
  BY <1>3, NextEvent
<1>5. /\ todo \in [Devices -> SUBSET (1 .. MaxSent)]
      /\ here \in [Devices -> SUBSET (1 .. MaxSent)]
      /\ decrypted \in [Devices -> Texts \cup {0}]
      /\ handled \in [Devices -> SUBSET Texts]
      /\ stale \in [Devices -> SUBSET (Rooms \X Sids)]
      /\ \A q \in Devices : todo[q] \cup here[q] \subseteq 1 .. seen[q]
  BY DEF TypeInv, TypeOK, Bounds
<1>6. /\ todo' \in [Devices -> SUBSET (1 .. MaxSent)]
      /\ here' \in [Devices -> SUBSET (1 .. MaxSent)]
      /\ \A q \in Devices : todo'[q] \cup here'[q] \subseteq todo[q] \cup here[q]
  <2>1. events \in SUBSET (1 .. MaxSent)
    BY <1>4, <1>5
  <2> QED
    BY <1>1, <1>4, <1>5, <2>1
<1>7. /\ in' = in
      /\ \/ UNCHANGED <<decrypted, handled, stale>>
         \/ Pass(d, e, e.text) \/ Pass(d, e, decrypted[d])
      /\ count' \in [Devices -> AnyCount] /\ dead' \in [Devices -> BOOLEAN]
      /\ \A q \in Devices : \/ count'[q] = count[q] /\ dead'[q] = dead[q]
                            \/ Len(in[q]) = NUM_MEGOLM_SESSIONS
  BY <1>1, <1>3, HandlesPasses
<1>8. /\ decrypted' \in [Devices -> Texts \cup {0}]
      /\ handled' \in [Devices -> SUBSET Texts]
      /\ stale' \in [Devices -> SUBSET (Rooms \X Sids)]
  BY <1>4, <1>5, <1>7, PassTyped
<1>9. CountHoldsUntilFull'
  BY <1>7 DEF TypeInv, CountHoldsUntilFull
<1> QED
  BY <1>2, <1>5, <1>6, <1>7, <1>8, <1>9
  DEF TypeInv, TypeOK, Bounds, senderVars, serverVars, answerVars

LEMMA TypeInvInit == Init => TypeInv
<1> SUFFICES ASSUME Init PROVE TypeInv
  OBVIOUS
<1>1. /\ 0 \in 0 .. MaxSent /\ 0 \in 0 .. MaxSeconds /\ 0 \in 0 .. MaxShared
      /\ 0 \in 0 .. MaxFailures /\ 0 \in AnyCount
  BY MegolmAssumption DEF AnyCount
<1>2. /\ out \in Seq(Rooms) /\ Len(out) <= NUM_MEGOLM_SESSIONS
      /\ sent \in Seq([room : Rooms, second : 0 .. MaxSeconds, lost : BOOLEAN])
      /\ timeline \in Seq(RoomEvent)
      /\ Len(sent) <= MaxSent /\ Len(timeline) <= Len(sent)
      /\ DOMAIN timeline = {}
  BY MegolmAssumption DEF Init
<1>3. index \in [Sids -> 0 .. MaxSent] /\ \A s \in Sids : index[s] <= Len(sent)
  BY <1>1 DEF Init
<1>4. /\ queue \in [Devices -> Seq(RoomKey)] /\ keys \in [Devices -> Seq(RoomKey)]
      /\ had \in [Devices -> Seq(RoomKey)] /\ in \in [Devices -> Seq(InSession)]
      /\ \A d \in Devices : Len(in[d]) <= NUM_MEGOLM_SESSIONS
  BY MegolmAssumption DEF Init
<1>5. /\ seen \in [Devices -> 0 .. MaxSent] /\ since \in [Devices -> 0 .. MaxSent]
      /\ count \in [Devices -> AnyCount] /\ dead \in [Devices -> BOOLEAN]
      /\ todo \in [Devices -> SUBSET (1 .. MaxSent)]
      /\ here \in [Devices -> SUBSET (1 .. MaxSent)]
      /\ keyed \in [Devices -> SUBSET Sids]
      /\ decrypted \in [Devices -> Texts \cup {0}]
      /\ handled \in [Devices -> SUBSET Texts]
      /\ stale \in [Devices -> SUBSET (Rooms \X Sids)]
  BY <1>1 DEF Init
<1>6. \A d \in Devices : /\ seen[d] <= Len(timeline) /\ since[d] <= seen[d]
                         /\ todo[d] \cup here[d] \subseteq 1 .. seen[d]
                         /\ keyed[d] \subseteq DOMAIN out
  BY DEF Init
<1>7. /\ crashed \in BOOLEAN /\ now \in 0 .. MaxSeconds /\ shared \in 0 .. MaxShared
      /\ failures \in 0 .. MaxFailures
      /\ taken \subseteq (Rooms \cup {"to-device"}) \X (0 .. MaxSeconds)
  BY <1>1 DEF Init
<1>8. CountHoldsUntilFull
  BY DEF Init, CountHoldsUntilFull
<1> QED
  BY <1>2, <1>3, <1>4, <1>5, <1>6, <1>7, <1>8 DEF TypeInv, TypeOK, Bounds

LEMMA TypeInvStep == TypeInv /\ [Next]_vars => TypeInv'
<1> SUFFICES ASSUME TypeInv, [Next]_vars PROVE TypeInv'
  OBVIOUS
<1>1. CASE Tick
  <2>1. now' \in 0 .. MaxSeconds
    BY <1>1, MegolmAssumption DEF Tick, TypeInv, TypeOK
  <2> QED
    BY <1>1, <2>1 DEF Tick, TypeInv, TypeOK, Bounds, CountHoldsUntilFull, serverVars,
       readerVars, tableVars, answerVars, handlerVars
<1>2. CASE UNCHANGED vars
  BY <1>2 DEF vars, senderVars, serverVars, readerVars, tableVars, answerVars,
     handlerVars, TypeInv, TypeOK, Bounds, CountHoldsUntilFull
<1> QED
  BY <1>1, <1>2, NewOutKeepsTypeInv, SendKeepsTypeInv, KeysKeepTypeInv,
     AnswerKeepsTypeInv, HandleKeyKeepsTypeInv, HandleEventKeepsTypeInv DEF Next

\* The variables keep their types: the sender's table has no more sessions than
\* slots and a message is of a session the sender has; a reader's number of slots
\* in use may become any number once it has been overwritten (NewMegolmInSession,
\* NewMegolmOutSession).
THEOREM TypeCorrect == Spec => []TypeOK
<1>1. TypeInv => TypeOK
  BY DEF TypeInv
<1> QED
  BY <1>1, TypeInvInit, TypeInvStep, PTL DEF Spec

\* Until its last slot is written a reader's number of slots in use is right, only
\* the session stored last is whole, and the reader does not crash (the memory of
\* MatrixMegolmInSession is 72 bytes too small for olm's session).
THEOREM CountHolds == Spec => []CountHoldsUntilFull
<1>1. TypeInv => CountHoldsUntilFull
  BY DEF TypeInv
<1> QED
  BY <1>1, TypeInvInit, TypeInvStep, PTL DEF Spec

-----------------------------------------------------------------------------
(* What reaches a room                                                     *)

\* A message in a session of its own room is in the first of them.
FirstUsed ==
    \A i \in DOMAIN timeline :
        LET e == timeline[i]
        IN  out[e.sid] = e.room => e.sid = OutOf(e.room)

\* A name that is taken came with a message that arrived.
TakenArrived ==
    \A name \in taken :
        name[1] \in Rooms =>
            \E u \in DOMAIN sent : /\ sent[u].room = name[1]
                                   /\ sent[u].second = name[2]
                                   /\ InTimeline(u)

SenderInv == TypeInv /\ FirstUsed /\ TakenArrived /\ MissingOnlyInSameSecond

\* Making sessions does not change the one that is used.
LEMMA GrowsKeepsFirstUsed ==
    ASSUME TypeInv, FirstUsed, Grows
    PROVE  \A i \in DOMAIN timeline :
             LET e == timeline[i]
             IN  out'[e.sid] = e.room => e.sid = FirstSlot(out', e.room)
<1> SUFFICES ASSUME NEW i \in DOMAIN timeline,
                    out'[timeline[i].sid] = timeline[i].room
             PROVE  timeline[i].sid = FirstSlot(out', timeline[i].room)
  OBVIOUS
<1> DEFINE e == timeline[i]
<1>1. /\ out \in Seq(Rooms) /\ out' \in Seq(Rooms) /\ e.sid \in DOMAIN out
      /\ DOMAIN out \subseteq DOMAIN out'
      /\ \A s \in DOMAIN out : out'[s] = out[s]
  BY DEF TypeInv, TypeOK, Bounds, Grows
<1>2. out[e.sid] = e.room
  BY <1>1
<1>3. e.sid = OutOf(e.room)
  BY <1>2 DEF FirstUsed
<1>4. OutOf(e.room) # 0
  BY <1>1, <1>2, OutFound
<1>5. FirstSlot(out', e.room) = FirstSlot(out, e.room)
  BY <1>1, <1>4, FirstStays, OutIsFirst
<1> QED
  BY <1>3, <1>5, OutIsFirst

LEMMA SendKeepsFirstUsed ==
    ASSUME TypeInv, FirstUsed, NEW room \in Rooms,
           SendEncrypted(room) \/ SendNoSlot(room)
    PROVE  FirstUsed'
<1>1. Grows
  BY SendsIn
<1>2. \A i \in DOMAIN timeline :
        LET e == timeline[i]
        IN  out'[e.sid] = e.room => e.sid = FirstSlot(out', e.room)
  BY <1>1, GrowsKeepsFirstUsed
<1>3. CASE timeline' = timeline
  BY <1>2, <1>3, OutIsFirst DEF FirstUsed
<1>4. ASSUME NEW sid \in DOMAIN out', NEW fails \in BOOLEAN,
             SendEvent(room, sid, fails), sid \in Sids,
             Len(sent) < MaxSent,
             \/ OutOf(room) = sid
             \/ /\ OutOf(room) = 0
                /\ \/ sid = Len(out) + 1
                   \/ sid \in DOMAIN out /\ out' = out,
             timeline' # timeline
      PROVE  FirstUsed'
  <2>1. Arrives(room, sid) /\ timeline' \in Seq(RoomEvent)
    BY <1>4, SendKeepsTypes
  <2>2. /\ out \in Seq(Rooms) /\ out' \in Seq(Rooms)
        /\ timeline \in Seq(RoomEvent) /\ Len(timeline) \in Nat
        /\ DOMAIN out = 1 .. Len(out) /\ Len(out) \in Nat
        /\ DOMAIN out \subseteq DOMAIN out'
        /\ \A s \in DOMAIN out : out'[s] = out[s]
    BY <1>1 DEF TypeInv, TypeOK, Grows
  <2>3. out'[sid] = room => sid = OutOf(room)'
    <3>1. CASE OutOf(room) = sid
      <4>1. sid \in Nat \ {0}
        BY <1>4, MegolmAssumption DEF Sids
      <4>2. FirstSlot(out', room) = FirstSlot(out, room)
        BY <2>2, <3>1, <4>1, FirstStays, OutIsFirst
      <4> QED
        BY <3>1, <4>2, OutIsFirst
    <3>2. CASE OutOf(room) = 0 /\ sid = Len(out) + 1
      <4>1. \A s \in DOMAIN out : out'[s] # room
        BY <2>2, <3>2, OutFound
      <4>2. ASSUME out'[sid] = room PROVE sid = FirstSlot(out', room)
        <5> DEFINE k == FirstSlot(out', room)
        <5>1. k \in DOMAIN out' /\ out'[k] = room /\ k <= sid
          BY <1>4, <2>2, <4>2, FirstFound
        <5> HIDE DEF k
        <5>2. k \notin DOMAIN out /\ k \in Nat /\ k >= 1
          BY <2>2, <4>1, <5>1
        <5>3. k = sid
          BY <2>2, <3>2, <5>1, <5>2
        <5> QED
          BY <5>3 DEF k
      <4> QED
        BY <4>2, OutIsFirst
    <3>3. CASE OutOf(room) = 0 /\ sid \in DOMAIN out /\ out' = out
      BY <2>2, <3>3, OutFound
    <3> QED
      BY <1>4, <3>1, <3>2, <3>3
  <2>4. /\ timeline'[Len(timeline) + 1].sid = sid
        /\ timeline'[Len(timeline) + 1].room = room
    BY <2>1 DEF Arrives, EventOf
  <2>5. \A i \in DOMAIN timeline' : \/ i \in DOMAIN timeline /\ timeline'[i] = timeline[i]
                                   \/ i = Len(timeline) + 1
    BY <2>1, <2>2 DEF Arrives
  <2> QED
    BY <1>2, <2>3, <2>4, <2>5, OutIsFirst DEF FirstUsed
<1> QED
  BY <1>3, <1>4, SendsIn

\* What MissingOnlyInSameSecond says of one message.
NotMissing(t) ==
    \/ InTimeline(t)
    \/ sent[t].lost
    \/ \E u \in 1 .. t - 1 : /\ sent[u].room = sent[t].room
                             /\ sent[u].second = sent[t].second
                             /\ InTimeline(u)

LEMMA AllNotMissing ==
    /\ MissingOnlyInSameSecond <=> \A t \in DOMAIN sent : NotMissing(t)
    /\ MissingOnlyInSameSecond' <=> \A t \in DOMAIN sent' : NotMissing(t)'
  BY DEF MissingOnlyInSameSecond, NotMissing

\* Messages that have arrived stay where they are.
LEMMA SendKeepsTaken ==
    ASSUME TypeInv, TakenArrived, MissingOnlyInSameSecond, NEW room \in Rooms,
           NEW sid \in Sids, Len(sent) < MaxSent, NEW fails \in BOOLEAN,
           SendEvent(room, sid, fails)
    PROVE  TakenArrived' /\ MissingOnlyInSameSecond'
<1>0. PICK t : t = Len(sent) + 1
  BY Zenon
<1>1. /\ Len(sent) \in Nat /\ Len(sent') = t /\ t = Len(sent) + 1
      /\ \A u \in DOMAIN sent : sent'[u] = sent[u]
      /\ sent'[t] = [room |-> room, second |-> now, lost |-> fails]
      /\ DOMAIN sent = 1 .. Len(sent) /\ DOMAIN sent' = 1 .. t
      /\ \/ /\ fails \/ Txn(room) \in taken
            /\ timeline' = timeline /\ taken' = taken
         \/ /\ ~fails /\ Arrives(room, sid)
            /\ taken' = taken \cup {Txn(room)}
  <2>1. Len(sent) \in Nat /\ DOMAIN sent = 1 .. Len(sent)
    BY DEF TypeInv, TypeOK
  <2>2. sent' \in Seq([room : Rooms, second : 0 .. MaxSeconds, lost : BOOLEAN])
    BY SendKeepsTypes
  <2>3. DOMAIN sent' = 1 .. Len(sent')
    BY <2>2
  <2> QED
    BY <1>0, <2>1, <2>3, SendKeepsTypes, Zenon
<1>2. timeline \in Seq(RoomEvent) /\ timeline' \in Seq(RoomEvent)
  BY SendKeepsTypes DEF TypeInv, TypeOK
<1>3. ASSUME NEW u, InTimeline(u) PROVE InTimeline(u)'
  <2>1. PICK i \in DOMAIN timeline : timeline[i].text = u
    BY <1>3 DEF InTimeline
  <2>2. i \in DOMAIN timeline' /\ timeline'[i] = timeline[i]
    BY <1>1, <1>2 DEF Arrives
  <2> QED
    BY <2>1, <2>2 DEF InTimeline
\* What was said of the messages before stays true.
<1>4. ASSUME NEW name \in taken, name[1] \in Rooms
      PROVE  \E u \in DOMAIN sent : /\ sent'[u].room = name[1]
                                    /\ sent'[u].second = name[2]
                                    /\ InTimeline(u)'
  <2>1. PICK u \in DOMAIN sent : /\ sent[u].room = name[1]
                                /\ sent[u].second = name[2] /\ InTimeline(u)
    BY <1>4 DEF TakenArrived
  <2> QED
    BY <1>1, <1>3, <2>1
<1>5. ASSUME NEW v \in DOMAIN sent PROVE NotMissing(v)'
  <2>1. NotMissing(v) /\ v \in 1 .. Len(sent)
    BY <1>1, AllNotMissing
  <2>2. \A u \in 1 .. v - 1 : u \in DOMAIN sent
    BY <1>1, <2>1
  <2> QED
    BY <1>1, <1>3, <2>1, <2>2 DEF NotMissing
\* The new one is lost, or has a name that is taken, or arrives.
<1>6. CASE fails \/ Txn(room) \in taken
  <2>1. taken' = taken
    BY <1>1, <1>6 DEF Arrives
  <2>2. NotMissing(t)'
    <3>1. CASE fails
      BY <1>1, <3>1 DEF NotMissing
    <3>2. CASE Txn(room) \in taken
      <4>1. PICK u \in DOMAIN sent : /\ sent'[u].room = room
                                    /\ sent'[u].second = now /\ InTimeline(u)'
        BY <1>4, <3>2 DEF Txn
      <4>2. u \in 1 .. t - 1
        BY <1>1
      <4> QED
        BY <1>1, <4>1, <4>2 DEF NotMissing
    <3> QED
      BY <1>6, <3>1, <3>2
  <2>3. \A v \in DOMAIN sent' : NotMissing(v)'
    BY <1>1, <1>5, <2>2
  <2>4. TakenArrived'
    <3>1. DOMAIN sent \subseteq DOMAIN sent'
      BY <1>1
    <3> QED
      BY <1>4, <2>1, <3>1 DEF TakenArrived
  <2> QED
    BY <2>3, <2>4, AllNotMissing
<1>7. CASE ~fails /\ Txn(room) \notin taken
  <2>0. Arrives(room, sid) /\ taken' = taken \cup {Txn(room)}
    BY <1>1, <1>7
  <2>1. InTimeline(t)'
    <3>1. Len(timeline) + 1 \in DOMAIN timeline'
      BY <1>2, <2>0 DEF Arrives
    <3>2. timeline'[Len(timeline) + 1].text = t
      BY <1>0, <2>0 DEF Arrives, EventOf
    <3> QED
      BY <3>1, <3>2 DEF InTimeline
  <2>2. ASSUME NEW name \in taken', name[1] \in Rooms
        PROVE  \E u \in DOMAIN sent' : /\ sent'[u].room = name[1]
                                       /\ sent'[u].second = name[2]
                                       /\ InTimeline(u)'
    <3>1. CASE name \in taken
      BY <1>1, <1>4, <2>2, <3>1
    <3>2. CASE name = Txn(room)
      <4>1. sent'[t].room = name[1] /\ sent'[t].second = name[2]
        BY <1>1, <3>2 DEF Txn
      <4>2. t \in DOMAIN sent'
        BY <1>1
      <4> QED
        BY <2>1, <4>1, <4>2
    <3> QED
      BY <2>0, <2>2, <3>1, <3>2
  <2>3. \A v \in DOMAIN sent' : NotMissing(v)'
    BY <1>1, <1>5, <2>1 DEF NotMissing
  <2> QED
    BY <2>2, <2>3, AllNotMissing DEF TakenArrived
<1> QED
  BY <1>6, <1>7

\* A request for keys is not one for a room.
LEMMA KeysKeepTaken ==
    ASSUME TakenArrived, UNCHANGED <<sent, timeline>>,
           taken' = taken \/ taken' = taken \cup {Txn("to-device")}
    PROVE  TakenArrived'
<1>1. \A name \in taken' : name[1] \in Rooms => name \in taken
  BY MegolmAssumption DEF Txn
<1> QED
  BY <1>1 DEF TakenArrived, InTimeline

LEMMA SenderInvStep == SenderInv /\ [Next]_vars => SenderInv'
<1> SUFFICES ASSUME SenderInv, [Next]_vars PROVE SenderInv'
  OBVIOUS
<1>0. TypeInv /\ TypeInv'
  BY TypeInvStep DEF SenderInv
<1>1. ASSUME NEW room \in Rooms, NewOutSession(room) PROVE SenderInv'
  <2>1. Grows
    BY <1>0, <1>1, OutGrows DEF NewOutSession, TypeInv
  <2>2. UNCHANGED <<sent, timeline, taken>>
    BY <1>1 DEF NewOutSession, serverVars
  <2>3. FirstUsed'
    BY <1>0, <2>1, <2>2, GrowsKeepsFirstUsed, OutIsFirst DEF SenderInv, FirstUsed
  <2> QED
    BY <1>0, <2>2, <2>3
    DEF SenderInv, TakenArrived, MissingOnlyInSameSecond, InTimeline
<1>2. ASSUME NEW room \in Rooms, SendEncrypted(room) \/ SendNoSlot(room)
      PROVE  SenderInv'
  <2>1. FirstUsed'
    BY <1>2, SendKeepsFirstUsed DEF SenderInv
  <2>2. \/ UNCHANGED <<sent, timeline, taken>>
        \/ \E sid \in Sids, fails \in BOOLEAN :
             SendEvent(room, sid, fails) /\ Len(sent) < MaxSent
    BY <1>0, <1>2, SendsIn
  <2>3. CASE UNCHANGED <<sent, timeline, taken>>
    BY <1>0, <2>1, <2>3
    DEF SenderInv, TakenArrived, MissingOnlyInSameSecond, InTimeline
  <2>4. CASE \E sid \in Sids, fails \in BOOLEAN :
               SendEvent(room, sid, fails) /\ Len(sent) < MaxSent
    BY <1>0, <2>1, <2>4, SendKeepsTaken DEF SenderInv
  <2> QED
    BY <2>2, <2>3, <2>4
<1>3. ASSUME NEW d \in Devices, NEW sid \in DOMAIN out,
             Share(sid, d) \/ Forward(sid, d)
      PROVE  SenderInv'
  <2>1. /\ UNCHANGED <<out, sent, timeline>>
        /\ taken' = taken \/ taken' = taken \cup {Txn("to-device")}
    BY <1>0, <1>3, KeysSent DEF senderVars
  <2>2. TakenArrived'
    BY <2>1, KeysKeepTaken DEF SenderInv
  <2>3. \A room : OutOf(room)' = OutOf(room)
    BY <2>1, OutIsFirst
  <2> QED
    BY <1>0, <2>1, <2>2, <2>3
    DEF SenderInv, FirstUsed, MissingOnlyInSameSecond, InTimeline
<1>4. ASSUME UNCHANGED <<out, sent, timeline, taken>> PROVE SenderInv'
  <2>1. \A room : OutOf(room)' = OutOf(room)
    BY <1>4, OutIsFirst
  <2> QED
    BY <1>0, <1>4, <2>1
    DEF SenderInv, FirstUsed, TakenArrived, MissingOnlyInSameSecond, InTimeline
<1>5. Tick \/ UNCHANGED vars => UNCHANGED <<out, sent, timeline, taken>>
  BY DEF Tick, vars, senderVars, serverVars
<1>6. ASSUME NEW d \in Devices,
             Sync(d) \/ SyncAgain(d) \/ HandleKey(d) \/ HandleRoomEvent(d)
      PROVE  UNCHANGED <<out, sent, timeline, taken>>
  BY <1>6 DEF Sync, SyncAgain, HandleKey, HandleRoomEvent, senderVars, serverVars
<1> QED
  BY <1>1, <1>2, <1>3, <1>4, <1>5, <1>6 DEF Next

LEMMA SenderInvInit == Init => SenderInv
<1> SUFFICES ASSUME Init PROVE SenderInv
  OBVIOUS
<1>1. DOMAIN sent = {} /\ DOMAIN timeline = {} /\ taken = {}
  BY DEF Init
<1> QED
  BY <1>1, TypeInvInit
  DEF SenderInv, FirstUsed, TakenArrived, MissingOnlyInSameSecond

\* All messages of a room that go out in a session of the room go out in one
\* and the same, whatever sessions are made for it (GetMegolmOutSession takes the
\* first).
THEOREM OneForARoom == Spec => []OneSessionPerRoom
<1>1. SenderInv => OneSessionPerRoom
  BY DEF SenderInv, FirstUsed, OneSessionPerRoom
<1> QED
  BY <1>1, SenderInvInit, SenderInvStep, PTL DEF Spec

\* A message whose PUT did not fail is missing from its room only when one to the
\* same room had arrived in the same second (MatrixClientSendEvent names its
\* request by the time).
THEOREM OnlySecondOnesGoMissing == Spec => []MissingOnlyInSameSecond
<1>1. SenderInv => MissingOnlyInSameSecond
  BY DEF SenderInv
<1> QED
  BY <1>1, SenderInvInit, SenderInvStep, PTL DEF Spec

-----------------------------------------------------------------------------
(* Where a key is                                                          *)

\* A key starts with the first message of its session, so it opens all of them.
FromStart ==
    \A d \in Devices :
        /\ \A n \in DOMAIN queue[d] : queue[d][n].from = 0
        /\ \A n \in DOMAIN had[d] : had[d][n].from = 0
        /\ \A n \in DOMAIN keys[d] : keys[d][n].from = 0
        /\ \A n \in DOMAIN in[d] : in[d][n].from = 0

\* An event names the devices its session was shared with before.
KeyedFirst ==
    \A i \in DOMAIN timeline :
        \A d \in timeline[i].keyed : timeline[i].sid \in keyed[d]

HasKey(list, sid) ==
    \E n \in DOMAIN list : list[n].sid = sid /\ list[n].room = out[sid]

\* The answer a device is handling has the key, or the table does, or the table
\* had no slot for it.
Given(d, sid) ==
    \/ HasKey(keys[d], sid)
    \/ HasKey(in[d], sid)
    \/ Len(in[d]) = NUM_MEGOLM_SESSIONS

\* A key that was shared does not get lost on its way.
KeysKept ==
    \A d \in Devices : \A sid \in keyed[d] : HasKey(queue[d], sid) \/ Given(d, sid)

\* It is not in a later answer than the events that were sent after it.
AnswerHasKey ==
    \A d \in Devices : \A i \in 1 .. seen[d] :
        d \in timeline[i].keyed => Given(d, timeline[i].sid)

KeyInv == FromStart /\ KeyedFirst /\ KeysKept /\ AnswerHasKey

\* The timeline is appended to, and an event names devices that have the key.
LEMMA TimelineGrows ==
    ASSUME TypeInv, NEW room \in Rooms, SendEncrypted(room) \/ SendNoSlot(room)
    PROVE  /\ \A i \in DOMAIN timeline :
                i \in DOMAIN timeline' /\ timeline'[i] = timeline[i]
           /\ \A i \in DOMAIN timeline' :
                \/ i \in DOMAIN timeline
                \/ \A d \in timeline'[i].keyed : timeline'[i].sid \in keyed[d]
<1>1. CASE timeline' = timeline
  BY <1>1
<1>2. CASE timeline' # timeline
  <2>1. PICK sid \in Sids, fails \in BOOLEAN :
          SendEvent(room, sid, fails) /\ Len(sent) < MaxSent
    BY <1>2, SendsIn
  <2>2. Arrives(room, sid) /\ timeline' \in Seq(RoomEvent)
    BY <1>2, <2>1, SendKeepsTypes
  <2>3. timeline \in Seq(RoomEvent) /\ Len(timeline) \in Nat
        /\ DOMAIN timeline = 1 .. Len(timeline)
        /\ DOMAIN timeline' = 1 .. Len(timeline) + 1
    BY <2>2 DEF TypeInv, TypeOK, Arrives
  <2>4. /\ timeline'[Len(timeline) + 1].sid = sid
        /\ timeline'[Len(timeline) + 1].keyed = { d \in Devices : sid \in keyed[d] }
    BY <2>2 DEF Arrives, EventOf
  <2> QED
    BY <2>2, <2>3, <2>4 DEF Arrives
<1> QED
  BY <1>1, <1>2

LEMMA SendKeepsKeyInv ==
    ASSUME TypeInv, KeyInv, NEW room \in Rooms,
           SendEncrypted(room) \/ SendNoSlot(room)
    PROVE  KeyInv'
<1>1. Grows /\ UNCHANGED <<queue, keyed, keys, had, in, seen>>
  BY SendsIn DEF readerVars, tableVars, answerVars, handlerVars
<1>2. ASSUME NEW d \in Devices, NEW sid \in DOMAIN out
      PROVE  /\ HasKey(queue[d], sid) => HasKey(queue[d], sid)'
             /\ Given(d, sid) => Given(d, sid)'
  BY <1>1 DEF Grows, HasKey, Given
<1>3. FromStart'
  BY <1>1 DEF KeyInv, FromStart
<1>4. KeyedFirst'
  BY <1>1, TimelineGrows DEF KeyInv, KeyedFirst
<1>5. KeysKept'
  BY <1>1, <1>2 DEF KeyInv, KeysKept, TypeInv, Bounds
<1>6. ASSUME NEW d \in Devices, NEW i \in 1 .. seen'[d], d \in timeline'[i].keyed
      PROVE  Given(d, timeline[i].sid)'
  <2>1. i \in 1 .. seen[d] /\ i \in DOMAIN timeline
    BY <1>1, <1>6, MegolmAssumption DEF TypeInv, TypeOK, Bounds
  <2>2. timeline'[i] = timeline[i] /\ timeline[i].sid \in DOMAIN out
    BY <2>1, TimelineGrows DEF TypeInv, Bounds
  <2>3. PICK sid \in DOMAIN out : sid = timeline[i].sid
    BY <2>2
  <2>4. Given(d, sid)
    BY <1>6, <2>1, <2>2, <2>3 DEF KeyInv, AnswerHasKey
  <2>5. Given(d, sid)' /\ sid = timeline'[i].sid
    BY <1>2, <2>2, <2>3, <2>4
  <2> QED
    BY <2>5
<1>7. AnswerHasKey'
  BY <1>6 DEF AnswerHasKey
<1> QED
  BY <1>3, <1>4, <1>5, <1>7 DEF KeyInv

\* What a longer list of sessions leaves in place.
LEMMA OutKeepsKeyInv ==
    ASSUME TypeInv, KeyInv, Grows,
           UNCHANGED <<timeline, queue, keyed, keys, had, in, seen>>
    PROVE  KeyInv'
<1>1. ASSUME NEW d \in Devices, NEW sid \in DOMAIN out
      PROVE  /\ HasKey(queue[d], sid) => HasKey(queue[d], sid)'
             /\ Given(d, sid) => Given(d, sid)'
  BY DEF Grows, HasKey, Given
<1>2. FromStart' /\ KeyedFirst'
  BY DEF KeyInv, FromStart, KeyedFirst
<1>3. KeysKept'
  BY <1>1 DEF KeyInv, KeysKept, TypeInv, Bounds
<1>4. ASSUME NEW d \in Devices, NEW i \in 1 .. seen[d], d \in timeline[i].keyed
      PROVE  Given(d, timeline[i].sid)'
  <2>1. i \in DOMAIN timeline
    BY <1>4, MegolmAssumption DEF TypeInv, TypeOK, Bounds
  <2>2. PICK sid \in DOMAIN out : sid = timeline[i].sid
    BY <2>1 DEF TypeInv, Bounds
  <2>3. Given(d, sid)' /\ sid = timeline'[i].sid
    BY <1>1, <1>4, <2>2 DEF KeyInv, AnswerHasKey
  <2> QED
    BY <2>3
<1>5. AnswerHasKey'
  BY <1>4 DEF AnswerHasKey
<1> QED
  BY <1>2, <1>3, <1>5 DEF KeyInv

LEMMA KeysKeepKeyInv ==
    ASSUME TypeInv, KeyInv, NEW sid \in DOMAIN out, NEW d \in Devices,
           Share(sid, d) \/ Forward(sid, d)
    PROVE  KeyInv'
<1>1. UNCHANGED <<out, timeline, keys, had, in, seen>>
  BY KeysSent DEF senderVars, readerVars, tableVars, answerVars, handlerVars
<1>2. ASSUME NEW q \in Devices, NEW s PROVE Given(q, s)' <=> Given(q, s)
  BY <1>1 DEF Given, HasKey
<1>3. AnswerHasKey'
  BY <1>1, <1>2 DEF KeyInv, AnswerHasKey
<1>4. CASE UNCHANGED <<queue, keyed>>
  BY <1>1, <1>3, <1>4 DEF KeyInv, FromStart, KeyedFirst, KeysKept, HasKey, Given
<1>5. ASSUME NEW forwarded \in BOOLEAN,
             queue' = [queue EXCEPT ![d] = Append(@,
                [room |-> out[sid], sid |-> sid, from |-> 0,
                 forwarded |-> forwarded])],
             keyed' = IF forwarded THEN keyed
                      ELSE [keyed EXCEPT ![d] = @ \cup {sid}]
      PROVE  KeyInv'
  <2>0. PICK key \in RoomKey :
          key = [room |-> out[sid], sid |-> sid, from |-> 0,
                 forwarded |-> forwarded]
    BY KeyTyped
  <2>1. /\ \A q \in Devices : \A n \in DOMAIN queue[q] :
             n \in DOMAIN queue'[q] /\ queue'[q][n] = queue[q][n]
        /\ \A q \in Devices : \A n \in DOMAIN queue'[q] :
             \/ n \in DOMAIN queue[q] /\ queue'[q][n] = queue[q][n]
             \/ q = d /\ queue'[q][n] = key
        /\ \E n \in DOMAIN queue'[d] : queue'[d][n] = key
    <3>1. queue' = [queue EXCEPT ![d] = Append(@, key)]
      BY <1>5, <2>0
    <3>2. \A q \in Devices : \A n \in DOMAIN queue[q] :
            n \in DOMAIN queue'[q] /\ queue'[q][n] = queue[q][n]
      BY <3>1, Queued
    <3>3. \A q \in Devices : \A n \in DOMAIN queue'[q] :
            \/ n \in DOMAIN queue[q] /\ queue'[q][n] = queue[q][n]
            \/ q = d /\ queue'[q][n] = key
      BY <3>1, Queued
    <3>4. \E n \in DOMAIN queue'[d] : queue'[d][n] = key
      BY <3>1, Queued
    <3> QED
      BY <3>2, <3>3, <3>4
  <2>2. key.from = 0 /\ key.sid = sid /\ key.room = out[sid]
    BY <2>0
  <2>3. FromStart'
    BY <1>1, <2>1, <2>2 DEF KeyInv, FromStart
  <2>4. keyed \in [Devices -> SUBSET Sids]
    BY DEF TypeInv, TypeOK
  <2>5. \A q \in Devices : \A s :
          (s \in keyed[q] => s \in keyed'[q])
          /\ (s \in keyed'[q] => s \in keyed[q] \/ (q = d /\ s = sid))
    BY <1>5, <2>4
  <2>6. KeyedFirst'
    <3>1. timeline \in Seq(RoomEvent)
      BY DEF TypeInv, TypeOK
    <3>2. ASSUME NEW i \in DOMAIN timeline
          PROVE  timeline[i].keyed \subseteq Devices
      <4>1. timeline[i] \in RoomEvent
        BY <3>1
      <4> QED
        BY <4>1 DEF RoomEvent
    <3> QED
      BY <1>1, <2>5, <3>2 DEF KeyInv, KeyedFirst
  <2>7. ASSUME NEW q \in Devices, NEW s \in keyed'[q]
        PROVE  HasKey(queue[q], s)' \/ Given(q, s)'
    <3>1. CASE s \in keyed[q]
      BY <1>1, <1>2, <2>1, <3>1 DEF KeyInv, KeysKept, HasKey
    <3>2. CASE q = d /\ s = sid
      BY <1>1, <2>1, <2>2, <3>2 DEF HasKey
    <3> QED
      BY <2>5, <3>1, <3>2
  <2>8. KeysKept'
    BY <2>7 DEF KeysKept
  <2> QED
    BY <1>3, <2>3, <2>6, <2>8 DEF KeyInv
<1> QED
  BY <1>4, <1>5, KeysSent

LEMMA SyncKeepsKeyInv ==
    ASSUME TypeInv, KeyInv, NEW d \in Devices, Sync(d) PROVE KeyInv'
<1>1. /\ UNCHANGED <<out, timeline, keyed, in>> /\ keys[d] = <<>>
      /\ keys' = [keys EXCEPT ![d] = queue[d]]
      /\ had' = [had EXCEPT ![d] = queue[d]]
      /\ queue' = [queue EXCEPT ![d] = <<>>]
      /\ seen' = [seen EXCEPT ![d] = Len(timeline)]
  BY DEF Sync, Done, senderVars, tableVars
<1>2. /\ keys \in [Devices -> Seq(RoomKey)] /\ queue \in [Devices -> Seq(RoomKey)]
      /\ seen \in [Devices -> 0 .. MaxSent] /\ had \in [Devices -> Seq(RoomKey)]
      /\ timeline \in Seq(RoomEvent)
  BY DEF TypeInv, TypeOK
<1>3. /\ keys'[d] = queue[d] /\ had'[d] = queue[d] /\ DOMAIN queue'[d] = {} /\ seen'[d] = Len(timeline)
      /\ \A q \in Devices : q # d => /\ keys'[q] = keys[q] /\ queue'[q] = queue[q]
                                     /\ seen'[q] = seen[q] /\ had'[q] = had[q]
  BY <1>1, <1>2
<1>4. ASSUME NEW q \in Devices, NEW s
      PROVE  /\ Given(q, s) => Given(q, s)'
             /\ HasKey(queue[q], s) => Given(q, s)' \/ HasKey(queue[q], s)'
             /\ q = d => ~HasKey(queue[q], s)'
  <2>1. DOMAIN keys[d] = {}
    BY <1>1
  <2>2. CASE q = d
    BY <1>1, <1>3, <2>1, <2>2 DEF Given, HasKey
  <2>3. CASE q # d
    BY <1>1, <1>3, <2>3 DEF Given, HasKey
  <2> QED
    BY <2>2, <2>3
<1>5. FromStart'
  BY <1>1, <1>3 DEF KeyInv, FromStart
<1>6. KeyedFirst'
  BY <1>1 DEF KeyInv, KeyedFirst
<1>7. KeysKept'
  BY <1>1, <1>4 DEF KeyInv, KeysKept
<1>8. ASSUME NEW q \in Devices, NEW i \in 1 .. seen'[q], q \in timeline[i].keyed
      PROVE  Given(q, timeline[i].sid)'
  <2>1. PICK s : s = timeline[i].sid
    OBVIOUS
  <2>2. CASE q = d
    <3>1. i \in DOMAIN timeline
      BY <1>2, <1>3, <1>8, <2>2
    <3>2. s \in keyed[d]
      BY <1>8, <2>1, <2>2, <3>1 DEF KeyInv, KeyedFirst
    <3>3. Given(d, s)'
      BY <1>4, <2>2, <3>2 DEF KeyInv, KeysKept
    <3> QED
      BY <1>1, <2>1, <2>2, <3>3
  <2>3. CASE q # d
    <3>1. Given(q, s)
      BY <1>3, <1>8, <2>1, <2>3 DEF KeyInv, AnswerHasKey
    <3>2. Given(q, s)'
      BY <1>4, <3>1
    <3> QED
      BY <1>1, <2>1, <3>2
  <2> QED
    BY <2>2, <2>3
<1>9. AnswerHasKey'
  BY <1>1, <1>8 DEF AnswerHasKey
<1> QED
  BY <1>5, <1>6, <1>7, <1>9 DEF KeyInv

\* Keys that come again are keys that came.
LEMMA SyncAgainKeepsKeyInv ==
    ASSUME TypeInv, KeyInv, NEW d \in Devices, SyncAgain(d) PROVE KeyInv'
<1>1. /\ UNCHANGED <<out, timeline, queue, keyed, in, seen, had>> /\ keys[d] = <<>>
      /\ \E again \in [DOMAIN had[d] -> Range(had[d])] :
            keys' = [keys EXCEPT ![d] = again]
  BY DEF SyncAgain, Done, senderVars, serverVars, tableVars, answerVars
<1>2. PICK again \in [DOMAIN had[d] -> Range(had[d])] :
        keys' = [keys EXCEPT ![d] = again]
  BY <1>1
<1>3. /\ keys'[d] = again /\ \A q \in Devices : q # d => keys'[q] = keys[q]
  BY <1>2 DEF TypeInv, TypeOK
<1>4. \A n \in DOMAIN again : again[n].from = 0
  <2>1. \A key \in Range(had[d]) : key.from = 0
    BY DEF KeyInv, FromStart, Range
  <2> QED
    BY <1>2, <2>1
<1>5. ASSUME NEW q \in Devices, NEW s, Given(q, s) PROVE Given(q, s)'
  <2>1. ~HasKey(keys[d], s)
    BY <1>1 DEF HasKey
  <2>2. CASE q = d
    BY <1>1, <1>5, <2>1, <2>2 DEF Given, HasKey
  <2>3. CASE q # d
    BY <1>1, <1>3, <1>5, <2>3 DEF Given, HasKey
  <2> QED
    BY <2>2, <2>3
<1>6. FromStart'
  <2>1. \A q \in Devices : \A n \in DOMAIN keys'[q] : keys'[q][n].from = 0
    BY <1>3, <1>4 DEF KeyInv, FromStart
  <2> QED
    BY <1>1, <2>1 DEF KeyInv, FromStart
<1>7. KeyedFirst'
  BY <1>1 DEF KeyInv, KeyedFirst
<1>8. KeysKept'
  BY <1>1, <1>5 DEF KeyInv, KeysKept, HasKey
<1>9. AnswerHasKey'
  BY <1>1, <1>5 DEF KeyInv, AnswerHasKey
<1> QED
  BY <1>6, <1>7, <1>8, <1>9 DEF KeyInv

LEMMA HandleKeyKeepsKeyInv ==
    ASSUME TypeInv, KeyInv, NEW d \in Devices, HandleKey(d) PROVE KeyInv'
<1>1. /\ UNCHANGED <<out, timeline, keyed, queue, seen, had>> /\ keys[d] # <<>>
      /\ keys' = [keys EXCEPT ![d] = Tail(@)]
      /\ NewInSession(d, Head(keys[d]))
  BY DEF HandleKey, senderVars, serverVars, answerVars
<1>2. keys \in [Devices -> Seq(RoomKey)] /\ in \in [Devices -> Seq(InSession)]
  BY DEF TypeInv, TypeOK
<1>3. PICK key \in RoomKey : key = Head(keys[d])
  BY <1>1, <1>2, EmptySeq
<1>4. /\ in' \in [Devices -> Seq(InSession)]
      /\ \A q \in Devices : q # d => in'[q] = in[q] /\ keys'[q] = keys[q]
      /\ Appends(d, key) \/ StaysFull(d)
  BY <1>1, <1>2, <1>3, KeyStored
<1>5. /\ keys'[d] = Tail(keys[d]) /\ keys[d] \in Seq(RoomKey)
      /\ in[d] \in Seq(InSession) /\ in'[d] \in Seq(InSession)
  BY <1>1, <1>2, <1>4
<1>6. /\ Len(keys[d]) \in Nat /\ keys[d][1] = key
      /\ DOMAIN keys[d] = 1 .. Len(keys[d])
      /\ DOMAIN keys'[d] = 1 .. Len(keys[d]) - 1
      /\ \A n \in 1 .. Len(keys[d]) - 1 : keys'[d][n] = keys[d][n + 1]
  <2>1. /\ Len(Tail(keys[d])) = Len(keys[d]) - 1
        /\ \A n \in 1 .. Len(Tail(keys[d])) : Tail(keys[d])[n] = keys[d][n + 1]
        /\ Tail(keys[d]) \in Seq(RoomKey)
    BY <1>1, <1>5, HeadTailProperties
  <2>2. Head(keys[d]) = keys[d][1]
    BY <1>5
  <2>3. Len(keys[d]) \in Nat /\ DOMAIN keys[d] = 1 .. Len(keys[d])
        /\ DOMAIN Tail(keys[d]) = 1 .. Len(Tail(keys[d]))
    BY <1>5, <2>1
  <2> QED
    BY <1>3, <1>5, <2>1, <2>2, <2>3
<1>7. ASSUME Appends(d, key)
      PROVE  /\ \A n \in DOMAIN in[d] : /\ n \in DOMAIN in'[d]
                                        /\ in'[d][n].room = in[d][n].room
                                        /\ in'[d][n].sid = in[d][n].sid
             /\ Len(in[d]) + 1 \in DOMAIN in'[d]
             /\ in'[d][Len(in[d]) + 1].room = key.room
             /\ in'[d][Len(in[d]) + 1].sid = key.sid
  <2>1. /\ DOMAIN in[d] = 1 .. Len(in[d]) /\ Len(in[d]) \in Nat
        /\ Len(in'[d]) = Len(in[d]) + 1 /\ DOMAIN in'[d] = 1 .. Len(in'[d])
    BY <1>5, <1>7 DEF Appends
  <2>2. in'[d][Len(in[d]) + 1].room = key.room /\ in'[d][Len(in[d]) + 1].sid = key.sid
    BY <1>7 DEF Appends, SessionOf
  <2>3. \A n \in 1 .. Len(in[d]) : /\ in'[d][n].room = in[d][n].room
                                   /\ in'[d][n].sid = in[d][n].sid
    BY <1>7 DEF Appends
  <2> QED
    BY <2>1, <2>2, <2>3
<1>8. FromStart'
  <2>1. key.from = 0
    BY <1>1, <1>3, <1>5, <1>6, EmptySeq DEF KeyInv, FromStart
  <2>2. \A n \in DOMAIN keys'[d] : n + 1 \in DOMAIN keys[d]
    BY <1>6
  <2>3. \A n \in DOMAIN keys'[d] : keys'[d][n].from = 0
    BY <1>6, <2>2 DEF KeyInv, FromStart
  <2>4. \A n \in DOMAIN in'[d] : in'[d][n].from = 0
    BY <1>1, <1>3, <2>1, KeyStored, ZenonT(60) DEF KeyInv, FromStart
  <2>5. ASSUME NEW q \in Devices
        PROVE  /\ \A n \in DOMAIN keys'[q] : keys'[q][n].from = 0
               /\ \A n \in DOMAIN in'[q] : in'[q][n].from = 0
    <3>1. CASE q = d
      BY <2>3, <2>4, <3>1
    <3>2. CASE q # d
      BY <1>4, <3>2 DEF KeyInv, FromStart
    <3> QED
      BY <3>1, <3>2
  <2> QED
    BY <1>1, <2>5 DEF KeyInv, FromStart
<1>9. ASSUME NEW q \in Devices, NEW s, Given(q, s) PROVE Given(q, s)'
  <2>1. CASE q # d
    BY <1>1, <1>4, <1>9, <2>1 DEF Given, HasKey
  <2>2. CASE q = d /\ StaysFull(d)
    BY <2>2 DEF Given, StaysFull
  <2>3. CASE q = d /\ Appends(d, key)
    <3>1. CASE HasKey(keys[d], s)
      <4>1. PICK n \in DOMAIN keys[d] : keys[d][n].sid = s
                                       /\ keys[d][n].room = out[s]
        BY <3>1 DEF HasKey
      <4>2. CASE n = 1
        <5>1. HasKey(in[d], s)'
          BY <1>1, <1>6, <1>7, <2>3, <4>1, <4>2 DEF HasKey
        <5> QED
          BY <2>3, <5>1 DEF Given
      <4>3. CASE n # 1
        <5>1. n - 1 \in DOMAIN keys'[d] /\ keys'[d][n - 1] = keys[d][n]
          BY <1>6, <4>1, <4>3
        <5>2. HasKey(keys[d], s)'
          BY <1>1, <4>1, <5>1 DEF HasKey
        <5> QED
          BY <2>3, <5>2 DEF Given
      <4> QED
        BY <4>2, <4>3
    <3>2. CASE HasKey(in[d], s)
      <4>1. HasKey(in[d], s)'
        BY <1>1, <1>7, <2>3, <3>2 DEF HasKey
      <4> QED
        BY <2>3, <4>1 DEF Given
    <3>3. CASE Len(in[d]) = NUM_MEGOLM_SESSIONS
      <4>1. Len(in[d]) < NUM_MEGOLM_SESSIONS /\ NUM_MEGOLM_SESSIONS \in Nat
        BY <2>3, MegolmAssumption DEF Appends
      <4> QED
        BY <3>3, <4>1
    <3> QED
      BY <1>9, <2>3, <3>1, <3>2, <3>3 DEF Given
  <2> QED
    BY <1>4, <2>1, <2>2, <2>3
<1>10. KeyedFirst'
  BY <1>1 DEF KeyInv, KeyedFirst
<1>11. KeysKept'
  BY <1>1, <1>9 DEF KeyInv, KeysKept, HasKey
<1>12. AnswerHasKey'
  BY <1>1, <1>9 DEF KeyInv, AnswerHasKey
<1> QED
  BY <1>8, <1>10, <1>11, <1>12 DEF KeyInv

LEMMA KeyInvStep == TypeInv /\ KeyInv /\ [Next]_vars => KeyInv'
<1> SUFFICES ASSUME TypeInv, KeyInv, [Next]_vars PROVE KeyInv'
  OBVIOUS
<1>1. ASSUME NEW room \in Rooms, NewOutSession(room) PROVE KeyInv'
  <2>1. Grows
    BY <1>1, OutGrows DEF NewOutSession, TypeInv
  <2>2. UNCHANGED <<timeline, queue, keyed, keys, had, in, seen>>
    BY <1>1 DEF NewOutSession, serverVars, readerVars, tableVars, answerVars,
     handlerVars
  <2> QED
    BY <2>1, <2>2, OutKeepsKeyInv
<1>2. ASSUME UNCHANGED <<out, timeline, queue, keyed, keys, had, in, seen>>
      PROVE  KeyInv'
  <2>1. Grows
    BY <1>2 DEF Grows, TypeInv, TypeOK
  <2> QED
    BY <1>2, <2>1, OutKeepsKeyInv
<1>3. Tick \/ UNCHANGED vars => UNCHANGED <<out, timeline, queue, keyed, keys, had,
                                          in, seen>>
  BY DEF Tick, vars, senderVars, serverVars, readerVars, tableVars, answerVars,
     handlerVars
<1>4. ASSUME NEW d \in Devices, HandleRoomEvent(d)
      PROVE  UNCHANGED <<out, timeline, queue, keyed, keys, had, in, seen>>
  <2>1. UNCHANGED <<out, timeline, queue, keyed, keys, had, seen>>
    BY <1>4 DEF HandleRoomEvent, senderVars, serverVars, answerVars
  <2>2. in' = in
    <3>1. PICK e : Handles(d, e)
      BY <1>4, HandlesOne
    <3> QED
      BY <3>1, HandlesPasses
  <2> QED
    BY <2>1, <2>2
<1> QED
  BY <1>1, <1>2, <1>3, <1>4, SendKeepsKeyInv, KeysKeepKeyInv, SyncKeepsKeyInv,
     SyncAgainKeepsKeyInv, HandleKeyKeepsKeyInv DEF Next

LEMMA KeyInvInit == Init => KeyInv
<1> SUFFICES ASSUME Init PROVE KeyInv
  OBVIOUS
<1>1. \A d \in Devices : /\ DOMAIN queue[d] = {} /\ DOMAIN keys[d] = {}
                         /\ DOMAIN had[d] = {}
                         /\ DOMAIN in[d] = {} /\ keyed[d] = {} /\ seen[d] = 0
  BY DEF Init
<1>2. DOMAIN timeline = {}
  BY DEF Init
<1> QED
  BY <1>1, <1>2 DEF KeyInv, FromStart, KeyedFirst, KeysKept, AnswerHasKey

-----------------------------------------------------------------------------
(* What the devices make of the messages                                   *)

Read(d, e) == e.text \in handled[d] \/ Spoiled(d, e.room, e.sid)

ReadInv == TypeInv /\ KeyInv /\ KeyHolderReads /\ StaleOnlyWhereSpoiled

\* KeyHolderReads, in the words of the proof.
LEMMA ReadersOf ==
    /\ KeyHolderReads <=>
         \A d \in Devices : \A i \in DOMAIN timeline :
             /\ HasHandled(d, i) /\ d \in timeline[i].keyed
             /\ out[timeline[i].sid] = timeline[i].room
             => Read(d, timeline[i])
    /\ KeyHolderReads' <=>
         \A d \in Devices : \A i \in DOMAIN timeline' :
             \A e : /\ e = timeline'[i] /\ HasHandled(d, i)' /\ d \in e.keyed
                    /\ out'[e.sid] = e.room
                    => Read(d, e)'
  BY DEF KeyHolderReads, Read

\* A table keeps what it has, or is full.
KeepsIn(d) ==
    \/ in'[d] = in[d]
    \/ StaysFull(d)
    \/ /\ Len(in[d]) < NUM_MEGOLM_SESSIONS
       /\ DOMAIN in[d] \subseteq DOMAIN in'[d]
       /\ Len(in[d]) <= Len(in'[d])
       /\ \A n \in DOMAIN in[d] : /\ in'[d][n].room = in[d][n].room
                                  /\ in'[d][n].sid = in[d][n].sid
                                  /\ in'[d][n].made = in[d][n].made

\* A session that is spoiled stays so.
LEMMA SpoiledStays ==
    ASSUME NEW d, NEW room, NEW sid,
           in[d] \in Seq(InSession), in'[d] \in Seq(InSession),
           KeepsIn(d), Spoiled(d, room, sid)
    PROVE  Spoiled(d, room, sid)'
<1> DEFINE slot == SlotOf(in[d], room, sid)
<1>1. CASE in'[d] = in[d]
  BY <1>1 DEF Spoiled
<1>2. CASE StaysFull(d)
  BY <1>2 DEF StaysFull, Spoiled
<1>3. CASE ~(in'[d] = in[d]) /\ ~StaysFull(d)
  <2>1. /\ Len(in[d]) < NUM_MEGOLM_SESSIONS
        /\ DOMAIN in[d] \subseteq DOMAIN in'[d]
        /\ Len(in[d]) <= Len(in'[d])
        /\ \A n \in DOMAIN in[d] : /\ in'[d][n].room = in[d][n].room
                                   /\ in'[d][n].sid = in[d][n].sid
                                   /\ in'[d][n].made = in[d][n].made
    BY <1>3 DEF KeepsIn
  <2>2. Len(in[d]) \in Nat /\ Len(in'[d]) \in Nat /\ DOMAIN in[d] = 1 .. Len(in[d])
    OBVIOUS
  <2>3. slot # 0 /\ (slot < Len(in[d]) \/ ~in[d][slot].made)
    BY <2>1, <2>2, MegolmAssumption DEF Spoiled
  <2>4. SlotOf(in'[d], room, sid) = slot
    BY <2>1, <2>3, SlotStays
  <2>5. slot \in DOMAIN in[d]
    BY <2>3, SlotFound
  <2> HIDE DEF slot
  <2>6. slot < Len(in'[d]) \/ ~in'[d][slot].made
    BY <2>1, <2>2, <2>3, <2>5
  <2> QED
    BY <2>3, <2>4, <2>6 DEF Spoiled
<1> QED
  BY <1>1, <1>2, <1>3

\* A step that handles no event keeps what has been read.
LEMMA KeepsReads ==
    ASSUME TypeInv, KeyHolderReads, StaleOnlyWhereSpoiled,
           in' \in [Devices -> Seq(InSession)],
           \A d \in Devices : KeepsIn(d),
           \A i \in DOMAIN timeline : timeline'[i] = timeline[i],
           \A s \in DOMAIN out : out'[s] = out[s],
           UNCHANGED <<handled, stale>>,
           \A d \in Devices, i \in DOMAIN timeline' :
               HasHandled(d, i)' => HasHandled(d, i)
    PROVE  KeyHolderReads' /\ StaleOnlyWhereSpoiled'
<1>1. ASSUME NEW d \in Devices, NEW i \in DOMAIN timeline',
             NEW e, e = timeline'[i], HasHandled(d, i)', d \in e.keyed,
             out'[e.sid] = e.room
      PROVE  Read(d, e)'
  <2>1. HasHandled(d, i)
    BY <1>1
  <2>2. i \in DOMAIN timeline
    BY <2>1, MegolmAssumption DEF HasHandled, TypeInv, TypeOK, Bounds
  <2>3. e = timeline[i] /\ e.sid \in DOMAIN out
    BY <1>1, <2>2 DEF TypeInv, Bounds
  <2>4. Read(d, e)
    BY <1>1, <2>1, <2>2, <2>3, ReadersOf
  <2>5. in[d] \in Seq(InSession) /\ in'[d] \in Seq(InSession)
    BY DEF TypeInv, TypeOK
  <2> QED
    BY <2>4, <2>5, SpoiledStays DEF Read
<1>2. KeyHolderReads'
  BY <1>1, ReadersOf
<1>3. ASSUME NEW d \in Devices, NEW rs \in stale'[d]
      PROVE  Spoiled(d, rs[1], rs[2])'
  <2>1. in[d] \in Seq(InSession) /\ in'[d] \in Seq(InSession)
    BY DEF TypeInv, TypeOK
  <2>2. Spoiled(d, rs[1], rs[2])
    BY <1>3 DEF StaleOnlyWhereSpoiled
  <2>3. PICK room, sid : room = rs[1] /\ sid = rs[2]
    OBVIOUS
  <2>4. Spoiled(d, room, sid)'
    BY <2>1, <2>2, <2>3, SpoiledStays
  <2> QED
    BY <2>3, <2>4
<1>4. StaleOnlyWhereSpoiled'
  BY <1>3 DEF StaleOnlyWhereSpoiled
<1> QED
  BY <1>2, <1>4

\* An event of a session that is not spoiled is opened if the session is known.
LEMMA UnspoiledOpens ==
    ASSUME TypeInv, FromStart, NEW d \in Devices, NEW e \in RoomEvent,
           Handles(d, e), ~Spoiled(d, e.room, e.sid)
    PROVE  \/ SlotOf(in[d], e.room, e.sid) = 0 /\ UNCHANGED <<decrypted, handled, stale>>
           \/ Pass(d, e, e.text)
<1> DEFINE slot == SlotOf(in[d], e.room, e.sid)
<1>1. /\ in[d] \in Seq(InSession) /\ Len(in[d]) \in Nat
      /\ DOMAIN in[d] = 1 .. Len(in[d])
      /\ Len(in[d]) <= NUM_MEGOLM_SESSIONS /\ NUM_MEGOLM_SESSIONS \in Nat
      /\ e.idx \in Nat
  BY MegolmAssumption DEF TypeInv, TypeOK, RoomEvent
<1>2. /\ Len(in[d]) < NUM_MEGOLM_SESSIONS /\ count[d] = Len(in[d])
      /\ \A i \in DOMAIN in[d] : in[d][i].whole <=> i = Len(in[d])
  BY <1>1 DEF Spoiled, TypeInv, CountHoldsUntilFull
<1>3. CASE slot = 0
  <2>1. ~Found(d, e)
    BY <1>1, <1>2, <1>3 DEF Found
  <2>2. NotKnown(d)
    BY <2>1 DEF Handles
  <2> QED
    BY <1>3, <2>2 DEF NotKnown
<1>4. CASE slot # 0
  <2>1. slot \in DOMAIN in[d] /\ Fits(in[d][slot], e.room, e.sid)
    BY <1>1, <1>4, SlotFound
  <2>2. ~(slot < Len(in[d])) /\ in[d][slot].made
    BY <1>4 DEF Spoiled
  <2> HIDE DEF slot
  <2>3. slot = Len(in[d]) /\ in[d][slot].whole /\ slot # NUM_MEGOLM_SESSIONS
    BY <1>1, <1>2, <2>1, <2>2
  <2>4. ~Altered(d, slot)
    BY <2>3 DEF Altered
  <2>5. slot \in 1 .. count[d]
    BY <1>1, <1>2, <2>1
  <2>6. Decrypt(d, e)
    BY <2>4, <2>5 DEF Handles, Found, slot
  <2>7. in[d][slot].from = 0
    BY <2>1 DEF FromStart
  <2>8. Opens(in[d][slot], e)
    BY <1>1, <2>1, <2>2, <2>3, <2>7 DEF Opens, Fits
  <2> QED
    BY <2>6, <2>8 DEF Decrypt, slot
<1> QED
  BY <1>3, <1>4

LEMMA HandleEventKeepsReads ==
    ASSUME ReadInv, NEW d \in Devices, HandleRoomEvent(d)
    PROVE  KeyHolderReads' /\ StaleOnlyWhereSpoiled'
<1>0. TypeInv /\ FromStart
  BY DEF ReadInv, KeyInv
<1>1. PICK events \in Ahead(d) :
        /\ Handles(d, timeline[Min(events)])
        /\ todo' = [todo EXCEPT ![d] = @ \ events]
        /\ here' = [here EXCEPT ![d] = events \ {Min(events)}]
  BY HandlesOne
<1>2. UNCHANGED <<out, timeline, seen, keys>> /\ keys[d] = <<>>
  BY DEF HandleRoomEvent, DirectFirst, senderVars, serverVars, answerVars
<1>3. PICK e : e = timeline[Min(events)]
  OBVIOUS
<1>4. /\ e \in RoomEvent /\ e.text \in Texts
      /\ Min(events) \in 1 .. seen[d] /\ Min(events) \in DOMAIN timeline
      /\ todo[d] \cup here[d] =
           (todo[d] \ events) \cup (events \ {Min(events)}) \cup {Min(events)}
  BY <1>0, <1>3, NextEvent
<1>5. /\ todo \in [Devices -> SUBSET (1 .. MaxSent)]
      /\ here \in [Devices -> SUBSET (1 .. MaxSent)]
      /\ decrypted \in [Devices -> Texts \cup {0}]
      /\ handled \in [Devices -> SUBSET Texts]
      /\ \A q \in Devices : in[q] \in Seq(InSession)
  BY <1>0 DEF TypeInv, TypeOK
<1>6. /\ in' = in
      /\ \/ UNCHANGED <<decrypted, handled, stale>>
         \/ Pass(d, e, e.text) \/ Pass(d, e, decrypted[d])
  BY <1>0, <1>1, <1>3, HandlesPasses
<1>7. PICK text \in Texts \cup {0} :
        /\ \/ UNCHANGED <<handled, stale>>
           \/ /\ handled'[d] = handled[d] \cup ({text} \ {0})
              /\ stale'[d] = IF text = e.text THEN stale[d]
                             ELSE stale[d] \cup {<<e.room, e.sid>>}
        /\ \A q \in Devices : q # d => handled'[q] = handled[q] /\ stale'[q] = stale[q]
        /\ ~Spoiled(d, e.room, e.sid) =>
              \/ SlotOf(in[d], e.room, e.sid) = 0 /\ UNCHANGED <<handled, stale>>
              \/ text = e.text /\ handled'[d] = handled[d] \cup ({text} \ {0})
                               /\ stale'[d] = stale[d]
  <2>1. e.text \in Texts \cup {0} /\ decrypted[d] \in Texts \cup {0}
    BY <1>4, <1>5
  <2>2. CASE Pass(d, e, e.text)
    BY <1>0, <1>4, <2>1, <2>2, PassTyped
  <2>3. CASE UNCHANGED <<decrypted, handled, stale>> /\ ~Pass(d, e, e.text)
    <3>1. ~Spoiled(d, e.room, e.sid) => SlotOf(in[d], e.room, e.sid) = 0
      BY <1>0, <1>1, <1>3, <1>4, <2>3, UnspoiledOpens
    <3> QED
      BY <2>1, <2>3, <3>1
  <2>4. CASE /\ Pass(d, e, decrypted[d]) /\ ~Pass(d, e, e.text)
             /\ ~UNCHANGED <<decrypted, handled, stale>>
    <3>1. Spoiled(d, e.room, e.sid)
      BY <1>0, <1>1, <1>3, <1>4, <2>4, UnspoiledOpens
    <3>2. /\ handled'[d] = handled[d] \cup ({decrypted[d]} \ {0})
          /\ stale'[d] = IF decrypted[d] = e.text THEN stale[d]
                         ELSE stale[d] \cup {<<e.room, e.sid>>}
          /\ \A q \in Devices : q # d => handled'[q] = handled[q] /\ stale'[q] = stale[q]
      <4>1. stale \in [Devices -> SUBSET (Rooms \X Sids)]
        BY <1>0 DEF TypeInv, TypeOK
      <4>2. /\ handled' = [handled EXCEPT ![d] = @ \cup ({decrypted[d]} \ {0})]
            /\ stale' = [stale EXCEPT ![d] = IF decrypted[d] = e.text THEN @
                                            ELSE @ \cup {<<e.room, e.sid>>}]
        BY <2>4 DEF Pass
      <4> QED
        BY <1>5, <4>1, <4>2
    <3> QED
      BY <2>1, <3>1, <3>2
  <2> QED
    BY <1>6, <2>2, <2>3, <2>4
<1>8. \A q \in Devices : handled[q] \subseteq handled'[q]
  BY <1>7
<1>9. \A q \in Devices : \A room, sid : Spoiled(q, room, sid)' <=> Spoiled(q, room, sid)
  BY <1>6 DEF Spoiled
<1>10. d \in e.keyed /\ out[e.sid] = e.room => Read(d, e)'
  <2> SUFFICES ASSUME d \in e.keyed, out[e.sid] = e.room, ~Spoiled(d, e.room, e.sid)
               PROVE  e.text \in handled'[d]
    BY <1>9 DEF Read
  <2>1. Given(d, e.sid)
    BY <1>3, <1>4 DEF ReadInv, KeyInv, AnswerHasKey
  <2>2. SlotOf(in[d], e.room, e.sid) # 0
    <3>1. ~HasKey(keys[d], e.sid) /\ Len(in[d]) # NUM_MEGOLM_SESSIONS
      BY <1>2 DEF HasKey, Spoiled
    <3>2. HasKey(in[d], e.sid)
      BY <2>1, <3>1 DEF Given
    <3>3. PICK n \in DOMAIN in[d] : in[d][n].sid = e.sid /\ in[d][n].room = e.room
      BY <3>2 DEF HasKey
    <3> QED
      BY <1>5, <3>3, SlotFound DEF Fits
  <2>3. text = e.text /\ handled'[d] = handled[d] \cup ({text} \ {0})
    BY <1>7, <2>2
  <2>4. e.text # 0
    BY <1>4 DEF Texts
  <2> QED
    BY <2>3, <2>4
<1>11. ASSUME NEW q \in Devices, NEW i \in DOMAIN timeline',
              NEW f, f = timeline'[i], HasHandled(q, i)', q \in f.keyed,
              out'[f.sid] = f.room
       PROVE  Read(q, f)'
  <2>1. CASE q = d /\ i = Min(events)
    BY <1>2, <1>3, <1>10, <1>11, <2>1
  <2>2. CASE ~(q = d /\ i = Min(events))
    <3>1. HasHandled(q, i)
      <4>1. CASE q = d
        BY <1>1, <1>2, <1>4, <1>5, <1>11, <2>2, <4>1 DEF HasHandled
      <4>2. CASE q # d
        BY <1>1, <1>2, <1>5, <1>11, <4>2 DEF HasHandled
      <4> QED
        BY <4>1, <4>2
    <3>2. Read(q, f)
      BY <1>2, <1>11, <3>1, ReadersOf DEF ReadInv
    <3> QED
      BY <1>8, <1>9, <3>2 DEF Read
  <2> QED
    BY <2>1, <2>2
<1>12. KeyHolderReads'
  BY <1>11, ReadersOf
<1>13. ASSUME NEW q \in Devices, NEW rs \in stale'[q]
       PROVE  Spoiled(q, rs[1], rs[2])'
  <2>1. CASE rs \in stale[q]
    BY <1>9, <2>1 DEF ReadInv, StaleOnlyWhereSpoiled
  <2>2. CASE rs \notin stale[q]
    <3>1. q = d /\ rs = <<e.room, e.sid>>
      BY <1>7, <1>13, <2>2
    <3>2. Spoiled(d, e.room, e.sid)
      BY <1>7, <1>13, <2>2, <3>1
    <3> QED
      BY <1>9, <3>1, <3>2
  <2> QED
    BY <2>1, <2>2
<1>14. StaleOnlyWhereSpoiled'
  BY <1>13 DEF StaleOnlyWhereSpoiled
<1> QED
  BY <1>12, <1>14

LEMMA ReadInvStep == ReadInv /\ [Next]_vars => ReadInv'
<1> SUFFICES ASSUME ReadInv, [Next]_vars PROVE ReadInv'
  OBVIOUS
<1>0. TypeInv /\ TypeInv' /\ KeyInv'
  BY TypeInvStep, KeyInvStep DEF ReadInv
<1>1. in' \in [Devices -> Seq(InSession)]
  BY <1>0 DEF TypeInv, TypeOK
<1>2. ASSUME UNCHANGED readerVars,
             \A i \in DOMAIN timeline : timeline'[i] = timeline[i],
             \A s \in DOMAIN out : out'[s] = out[s]
      PROVE  KeyHolderReads' /\ StaleOnlyWhereSpoiled'
  <2>1. UNCHANGED <<in, handled, stale, seen, todo, here>>
    BY <1>2 DEF readerVars, tableVars, answerVars, handlerVars
  <2>2. \A d \in Devices : KeepsIn(d)
    BY <2>1 DEF KeepsIn
  <2>3. \A d \in Devices, i \in DOMAIN timeline' : HasHandled(d, i)' => HasHandled(d, i)
    BY <2>1 DEF HasHandled
  <2> QED
    BY <1>0, <1>1, <1>2, <2>1, <2>2, <2>3, KeepsReads DEF ReadInv
<1>3. ASSUME NEW room \in Rooms, NewOutSession(room)
      PROVE  KeyHolderReads' /\ StaleOnlyWhereSpoiled'
  <2>1. Grows /\ UNCHANGED <<timeline, readerVars>>
    BY <1>0, <1>3, OutGrows DEF NewOutSession, TypeInv, serverVars
  <2> QED
    BY <1>2, <2>1 DEF Grows
<1>4. ASSUME NEW room \in Rooms, SendEncrypted(room) \/ SendNoSlot(room)
      PROVE  KeyHolderReads' /\ StaleOnlyWhereSpoiled'
  <2>1. Grows /\ UNCHANGED readerVars
    BY <1>0, <1>4, SendsIn
  <2>2. \A i \in DOMAIN timeline : timeline'[i] = timeline[i]
    BY <1>0, <1>4, TimelineGrows
  <2> QED
    BY <1>2, <2>1, <2>2 DEF Grows
<1>5. ASSUME NEW d \in Devices, NEW sid \in DOMAIN out,
             Share(sid, d) \/ Forward(sid, d)
      PROVE  KeyHolderReads' /\ StaleOnlyWhereSpoiled'
  <2>1. UNCHANGED <<out, timeline, readerVars>>
    BY <1>0, <1>5, KeysSent DEF senderVars
  <2> QED
    BY <1>2, <2>1
\* What an answer has, once more or for the first time, is not handled yet.
<1>6. ASSUME NEW d \in Devices, Sync(d) \/ SyncAgain(d)
      PROVE  KeyHolderReads' /\ StaleOnlyWhereSpoiled'
  <2>1. /\ UNCHANGED <<out, timeline, in, here, handled, stale>>
        /\ todo[d] = {} /\ here[d] = {}
    BY <1>6 DEF Sync, SyncAgain, Done, senderVars, serverVars, tableVars
  <2>2. /\ todo \in [Devices -> SUBSET (1 .. MaxSent)]
        /\ seen \in [Devices -> 0 .. MaxSent]
        /\ Len(timeline) \in Nat /\ MaxSent \in Nat
    <3>1. timeline \in Seq(RoomEvent)
      BY <1>0 DEF TypeInv, TypeOK
    <3>2. Len(timeline) \in Nat
      BY <3>1
    <3> QED
      BY <1>0, <3>2, MegolmAssumption DEF TypeInv, TypeOK
  <2>3. ASSUME NEW q \in Devices, NEW i \in DOMAIN timeline', HasHandled(q, i)'
        PROVE  HasHandled(q, i)
    <3>1. CASE Sync(d) /\ q = d
      <4>1. /\ seen'[d] = Len(timeline) /\ here'[d] = {}
            /\ todo'[d] = (seen[d] + 1) .. Len(timeline) /\ seen[d] \in Nat
        BY <2>1, <2>2, <3>1 DEF Sync
      <4> QED
        BY <2>1, <2>2, <2>3, <3>1, <4>1 DEF HasHandled
    <3>2. CASE SyncAgain(d) /\ q = d
      <4>1. seen' = seen
        BY <3>2 DEF SyncAgain, answerVars
      <4> QED
        BY <2>1, <2>3, <3>2, <4>1 DEF HasHandled
    <3>3. CASE q # d
      <4>1. seen'[q] = seen[q] /\ todo'[q] = todo[q] /\ here'[q] = here[q]
        BY <1>6, <2>1, <2>2, <3>3 DEF Sync, SyncAgain, answerVars
      <4> QED
        BY <2>3, <4>1 DEF HasHandled
    <3> QED
      BY <1>6, <3>1, <3>2, <3>3
  <2>4. \A q \in Devices : KeepsIn(q)
    BY <2>1 DEF KeepsIn
  <2> QED
    BY <1>0, <1>1, <2>1, <2>3, <2>4, KeepsReads DEF ReadInv
<1>7. ASSUME NEW d \in Devices, HandleKey(d)
      PROVE  KeyHolderReads' /\ StaleOnlyWhereSpoiled'
  <2>1. /\ UNCHANGED <<out, timeline, seen, todo, here, handled, stale>>
        /\ keys[d] # <<>> /\ NewInSession(d, Head(keys[d]))
    BY <1>7 DEF HandleKey, senderVars, serverVars, answerVars
  <2>2. keys[d] \in Seq(RoomKey) /\ \A q \in Devices : in[q] \in Seq(InSession)
    BY <1>0 DEF TypeInv, TypeOK
  <2>3. PICK key \in RoomKey : key = Head(keys[d])
    BY <2>1, <2>2, EmptySeq
  <2>4. /\ \A q \in Devices : q # d => in'[q] = in[q]
        /\ Appends(d, key) \/ StaysFull(d)
    BY <1>0, <2>1, <2>3, KeyStored
  <2>5. KeepsIn(d)
    <3>1. CASE StaysFull(d)
      BY <3>1 DEF KeepsIn
    <3>2. CASE Appends(d, key)
      <4>1. /\ DOMAIN in[d] = 1 .. Len(in[d]) /\ Len(in[d]) \in Nat
            /\ Len(in'[d]) = Len(in[d]) + 1 /\ in'[d] \in Seq(InSession)
        BY <1>1, <2>2, <3>2 DEF Appends
      <4>2. DOMAIN in[d] \subseteq DOMAIN in'[d] /\ Len(in[d]) <= Len(in'[d])
        BY <4>1
      <4> QED
        BY <3>2, <4>1, <4>2 DEF Appends, KeepsIn
    <3> QED
      BY <2>4, <3>1, <3>2
  <2>6. \A q \in Devices : KeepsIn(q)
    BY <2>4, <2>5 DEF KeepsIn
  <2>7. \A q \in Devices, i \in DOMAIN timeline' : HasHandled(q, i)' => HasHandled(q, i)
    BY <2>1 DEF HasHandled
  <2> QED
    BY <1>0, <1>1, <2>1, <2>6, <2>7, KeepsReads DEF ReadInv
<1>8. ASSUME NEW d \in Devices, HandleRoomEvent(d)
      PROVE  KeyHolderReads' /\ StaleOnlyWhereSpoiled'
  BY <1>8, HandleEventKeepsReads
<1>9. Tick \/ UNCHANGED vars => UNCHANGED <<out, timeline, readerVars>>
  BY DEF Tick, vars, senderVars, serverVars
<1>10. KeyHolderReads' /\ StaleOnlyWhereSpoiled'
  BY <1>2, <1>3, <1>4, <1>5, <1>6, <1>7, <1>8, <1>9 DEF Next
<1> QED
  BY <1>0, <1>10 DEF ReadInv

LEMMA ReadInvInit == Init => ReadInv
<1> SUFFICES ASSUME Init PROVE ReadInv
  OBVIOUS
<1>1. \A d \in Devices : seen[d] = 0 /\ stale[d] = {}
  BY DEF Init
<1> QED
  BY <1>1, TypeInvInit, KeyInvInit
  DEF ReadInv, KeyHolderReads, HasHandled, StaleOnlyWhereSpoiled

\* A device handles the messages sent after its key of their session, whatever
\* comes in between, unless its table has been full, it stored another key after
\* that session's, or the session's first key was a forwarded one (HandleSync
\* handles the to-device events before the rooms).
THEOREM KeyHoldersRead == Spec => []KeyHolderReads
<1>1. ReadInv => KeyHolderReads
  BY DEF ReadInv
<1> QED
  BY <1>1, ReadInvInit, ReadInvStep, PTL DEF Spec

\* A device passes on another event's text (the static buffer of HandleRoomEvent)
\* only for events whose session is spoiled in that way.
THEOREM StaleWhereSpoiled == Spec => []StaleOnlyWhereSpoiled
<1>1. ReadInv => StaleOnlyWhereSpoiled
  BY DEF ReadInv
<1> QED
  BY <1>1, ReadInvInit, ReadInvStep, PTL DEF Spec

=============================================================================
