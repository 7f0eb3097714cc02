---------------------------- MODULE EspNodeProofs ----------------------------
(***************************************************************************)
(* Theorems about EspNode: what wifi_init reports, what the sync loop      *)
(* reads out of its buffer and which events it handles, for any number of  *)
(* retries, events and failures and a buffer of any size.                  *)
(***************************************************************************)
EXTENDS EspNode, SequenceTheorems, FiniteSetTheorems, WellFoundedInduction,
        TLAPS

EventNames == {"STA_START", "STA_DISCONNECTED", "GOT_IP"}

\* What is in the event loop's queue while wifi_init has not returned: the
\* handler is never behind by more than one attempt to join.
QueueInv ==
    /\ events \in Seq(EventNames)
    /\ link = "off" => \/ Len(events) = 0
                       \/ Len(events) = 1 /\ events[1] = "STA_START"
    /\ link = "connecting" => Len(events) = 0
    /\ link = "up" => \/ Len(events) = 0
                      \/ Len(events) = 1 /\ events[1] = "GOT_IP"
    /\ link = "down" => \/ Len(events) = 0
                        \/ Len(events) = 1 /\ events[1] = "STA_DISCONNECTED"
                        \/ /\ Len(events) = 2
                           /\ events[1] = "GOT_IP"
                           /\ events[2] = "STA_DISCONNECTED"
    /\ link \in {"off", "connecting", "up", "down"}
    /\ main \in {"start", "started", "waiting", "woken", "returned"}
    /\ main = "start" => link = "off" /\ Len(events) = 0
    /\ main = "returned" => Len(events) = 0

\* The handler sets the fail bit when it asks for no further attempt, and nobody
\* else does; wifi_init is woken by a bit that is set.
GivenUpInv ==
    /\ "fail" \in bits => link = "down" /\ Len(events) = 0
    /\ bits \subseteq {"connected", "fail"}
    /\ result \subseteq bits
    /\ main \in {"woken", "returned"} => "connected" \in result \/ "fail" \in result

WifiInv == QueueInv /\ GivenUpInv

-----------------------------------------------------------------------------

LEMMA WifiInvInit == Init => WifiInv
  BY DEF Init, Wifi!Init, EventNames, WifiInv, QueueInv, GivenUpInv

\* What the radio puts into the queue and the handler takes out of it.
LEMMA Posted ==
    ASSUME NEW e \in EventNames, Wifi!Post(e), events \in Seq(EventNames),
           main # "returned"
    PROVE  /\ events' \in Seq(EventNames)
           /\ Len(events') = Len(events) + 1
           /\ \A n \in 1 .. Len(events) : events'[n] = events[n]
           /\ events'[Len(events) + 1] = e
  BY DEF Wifi!Post

LEMMA Handled ==
    ASSUME NEW e \in EventNames, Wifi!Handle(e), events \in Seq(EventNames)
    PROVE  /\ events' \in Seq(EventNames)
           /\ Len(events) \in Nat \ {0}
           /\ Len(events') = Len(events) - 1
           /\ \A n \in 1 .. Len(events) - 1 : events'[n] = events[n + 1]
           /\ events[1] = e
           /\ main \in {"started", "waiting", "woken"}
  BY DEF Wifi!Handle

\* The two tasks and the radio, one action after the other.
LEMMA WifiInvStep == WifiInv /\ Wifi!Next => WifiInv'
<1> SUFFICES ASSUME WifiInv, Wifi!Next PROVE WifiInv'
  OBVIOUS
<1>0. events \in Seq(EventNames) /\ Len(events) \in Nat
  BY DEF WifiInv, QueueInv
<1>1. CASE Wifi!Start
  <2>1. /\ events' \in Seq(EventNames)
        /\ Len(events') = Len(events) + 1
        /\ events'[Len(events) + 1] = "STA_START"
    BY <1>0, <1>1 DEF Wifi!Start, EventNames
  <2> QED
    BY <1>0, <1>1, <2>1 DEF Wifi!Start, EventNames, WifiInv, QueueInv, GivenUpInv
<1>2. CASE Wifi!Wait
  BY <1>2 DEF Wifi!Wait, EventNames, WifiInv, QueueInv, GivenUpInv
<1>3. CASE Wifi!Return
  <2>1. events' \in Seq(EventNames) /\ Len(events') = 0
    BY <1>3 DEF Wifi!Return
  <2> QED
    BY <1>3, <2>1 DEF Wifi!Return, EventNames, WifiInv, QueueInv, GivenUpInv
<1>4. CASE Wifi!OnStart
  <2>1. Wifi!Handle("STA_START")
    BY <1>4 DEF Wifi!OnStart
  <2> QED
    BY <1>0, <1>4, <2>1, Handled
    DEF Wifi!OnStart, EventNames, WifiInv, QueueInv, GivenUpInv
<1>5. CASE Wifi!OnDisconnectedRetry
  <2>1. Wifi!Handle("STA_DISCONNECTED")
    BY <1>5 DEF Wifi!OnDisconnectedRetry
  <2> QED
    BY <1>0, <1>5, <2>1, Handled
    DEF Wifi!OnDisconnectedRetry, EventNames, WifiInv, QueueInv, GivenUpInv
<1>6. CASE Wifi!OnDisconnectedGiveUp
  <2>1. Wifi!Handle("STA_DISCONNECTED")
    BY <1>6 DEF Wifi!OnDisconnectedGiveUp
  <2>2. link = "down" /\ Len(events) = 1
    BY <1>0, <2>1, Handled DEF EventNames, WifiInv, QueueInv
  <2>3. QueueInv'
    BY <1>0, <1>6, <2>1, <2>2, Handled
    DEF Wifi!OnDisconnectedGiveUp, Wifi!SetBits, EventNames, WifiInv, QueueInv
  <2>4. /\ bits' = bits \cup {"fail"}
        /\ \/ main' = "woken" /\ result' = bits'
           \/ main' = main /\ result' = result
        /\ link' = link
    BY <1>6 DEF Wifi!OnDisconnectedGiveUp, Wifi!SetBits
  <2>5. Len(events') = Len(events) - 1
    BY <1>0, <2>1, Handled DEF EventNames
  <2>6. bits' \subseteq {"connected", "fail"} /\ result' \subseteq bits'
    BY <2>4 DEF WifiInv, GivenUpInv
  <2>7. main' \in {"woken", "returned"} =>
          "connected" \in result' \/ "fail" \in result'
    BY <2>4 DEF WifiInv, GivenUpInv
  <2>8. link' = "down" /\ Len(events') = 0
    BY <2>2, <2>4, <2>5
  <2> QED
    BY <2>3, <2>6, <2>7, <2>8 DEF WifiInv, GivenUpInv
<1>7. CASE Wifi!OnGotIp
  <2>1. Wifi!Handle("GOT_IP")
    BY <1>7 DEF Wifi!OnGotIp
  <2>2. "fail" \notin bits
    BY <1>0, <2>1, Handled DEF EventNames, WifiInv, GivenUpInv
  <2>3. QueueInv'
    <3>0. /\ events' \in Seq(EventNames) /\ events[1] = "GOT_IP"
          /\ Len(events) \in Nat \ {0} /\ Len(events') = Len(events) - 1
          /\ \A n \in 1 .. Len(events) - 1 : events'[n] = events[n + 1]
      BY <1>0, <2>1, Handled DEF EventNames
    <3>1. \/ link = "up" /\ Len(events') = 0
          \/ link = "down" /\ Len(events') = 1 /\ events'[1] = "STA_DISCONNECTED"
      <4>1. \/ link = "up" /\ Len(events) = 1
            \/ link = "down" /\ Len(events) = 2 /\ events[2] = "STA_DISCONNECTED"
        BY <3>0 DEF WifiInv, QueueInv
      <4>2. Len(events) = 2 => events'[1] = events[2]
        BY <3>0
      <4> QED
        BY <3>0, <4>1, <4>2
    <3>2. main \in {"started", "waiting", "woken"} /\ main' \in {main, "woken"}
      BY <1>0, <1>7, <2>1, Handled DEF Wifi!OnGotIp, Wifi!SetBits, EventNames
    <3> QED
      BY <1>7, <3>0, <3>1, <3>2 DEF Wifi!OnGotIp, QueueInv
  <2>4. /\ bits' = bits \cup {"connected"}
        /\ \/ main' = "woken" /\ result' = bits'
           \/ main' = main /\ result' = result
        /\ link' = link
    BY <1>7 DEF Wifi!OnGotIp, Wifi!SetBits
  <2>5. Len(events') = Len(events) - 1
    BY <1>0, <2>1, Handled DEF EventNames
  <2> QED
    BY <1>0, <2>2, <2>3, <2>4, <2>5 DEF WifiInv, GivenUpInv
<1>8. CASE Wifi!Join
  <2>1. Wifi!Post("GOT_IP")
    BY <1>8 DEF Wifi!Join
  <2>2. CASE main = "returned"
    BY <1>8, <2>1, <2>2 DEF Wifi!Join, Wifi!Post, EventNames, WifiInv, QueueInv, GivenUpInv
  <2>3. CASE main # "returned"
    BY <1>0, <1>8, <2>1, <2>3, Posted
    DEF Wifi!Join, EventNames, WifiInv, QueueInv, GivenUpInv
  <2> QED
    BY <2>2, <2>3
<1>9. CASE Wifi!Refused
  <2>1. Wifi!Post("STA_DISCONNECTED")
    BY <1>9 DEF Wifi!Refused
  <2>2. CASE main = "returned"
    BY <1>9, <2>1, <2>2 DEF Wifi!Refused, Wifi!Post, EventNames, WifiInv, QueueInv, GivenUpInv
  <2>3. CASE main # "returned"
    BY <1>0, <1>9, <2>1, <2>3, Posted
    DEF Wifi!Refused, EventNames, WifiInv, QueueInv, GivenUpInv
  <2> QED
    BY <2>2, <2>3
<1>10. CASE Wifi!Drop
  <2>1. Wifi!Post("STA_DISCONNECTED")
    BY <1>10 DEF Wifi!Drop
  <2>2. CASE main = "returned"
    BY <1>10, <2>1, <2>2 DEF Wifi!Drop, Wifi!Post, EventNames, WifiInv, QueueInv, GivenUpInv
  <2>3. CASE main # "returned"
    BY <1>0, <1>10, <2>1, <2>3, Posted
    DEF Wifi!Drop, EventNames, WifiInv, QueueInv, GivenUpInv
  <2> QED
    BY <2>2, <2>3
<1> QED
  BY <1>1, <1>2, <1>3, <1>4, <1>5, <1>6, <1>7, <1>8, <1>9, <1>10
  DEF Wifi!Next, Wifi!Main, Wifi!Handler, Wifi!Radio

\* Nothing else of the node touches what wifi_init and the handler use.
LEMMA NodeStepKeepsWifiInv == WifiInv /\ [Next]_vars => WifiInv'
<1> SUFFICES ASSUME WifiInv, [Next]_vars PROVE WifiInv'
  OBVIOUS
<1>1. CASE WifiStep
  BY <1>1, WifiInvStep DEF WifiStep
<1>2. CASE UNCHANGED wifiVars
  BY <1>2 DEF wifiVars, EventNames, WifiInv, QueueInv, GivenUpInv
<1>3. WifiStep \/ UNCHANGED wifiVars
  BY DEF Next, Loop, vars, PostEvent, SyncRequest, ServerAnswer, BodyArrives,
         BodyEnds, GetFails, GetFailsOffline, SyncHandle
<1> QED
  BY <1>1, <1>2, <1>3

\* wifi_init reports a failure only when every attempt has ended, however the
\* main task and the event loop's task interleave (wifi.c 32-107).
THEOREM FailuresAreFinal == Spec => []FailureIsFinal
<1>1. WifiInv => FailureIsFinal
  <2> SUFFICES ASSUME WifiInv, "connected" \notin result,
                      main \in {"woken", "returned"}
               PROVE  link = "down" /\ events = <<>>
    BY DEF FailureIsFinal, Wifi!FailureIsFinal
  <2>1. "fail" \in bits
    BY DEF WifiInv, GivenUpInv
  <2>2. link = "down" /\ Len(events) = 0 /\ events \in Seq(EventNames)
    BY <2>1 DEF WifiInv, QueueInv, GivenUpInv
  <2> QED
    BY <2>2, EmptySeq
<1> QED
  BY <1>1, WifiInvInit, NodeStepKeepsWifiInv, PTL DEF Spec
-----------------------------------------------------------------------------
(* Types: wifi_init                                                        *)

LEMMA WifiTypesStep == Wifi!TypeOK /\ Wifi!Next => Wifi!TypeOK'
<1> SUFFICES ASSUME Wifi!TypeOK, Wifi!Next PROVE Wifi!TypeOK'
  OBVIOUS
<1>0. events \in Seq(EventNames) /\ MaxRetry \in Nat
  BY NodeAssumption DEF Wifi!TypeOK, Wifi!WifiAssumption, EventNames
<1>1. CASE Wifi!Start
  <2>1. events' \in Seq(EventNames)
    BY <1>0, <1>1 DEF Wifi!Start, EventNames
  <2> QED
    BY <1>1, <2>1 DEF Wifi!Start, Wifi!TypeOK, EventNames
<1>2. CASE Wifi!Wait
  BY <1>2 DEF Wifi!Wait, Wifi!TypeOK
<1>3. CASE Wifi!Return
  <2>1. events' \in Seq(EventNames)
    BY <1>3 DEF Wifi!Return
  <2> QED
    BY <1>3, <2>1 DEF Wifi!Return, Wifi!TypeOK, EventNames
<1>4. CASE Wifi!Handler
  <2>1. PICK e \in EventNames : Wifi!Handle(e)
    BY <1>4
    DEF Wifi!Handler, Wifi!OnStart, Wifi!OnDisconnectedRetry,
        Wifi!OnDisconnectedGiveUp, Wifi!OnGotIp, EventNames
  <2>2. events' \in Seq(EventNames)
    BY <1>0, <2>1, Handled
  <2>3. CASE Wifi!OnDisconnectedRetry
    <3>1. s_retry_num' \in 0 .. MaxRetry
      BY <1>0, <2>3 DEF Wifi!OnDisconnectedRetry, Wifi!TypeOK
    <3> QED
      BY <3>1, <1>0, <2>2, <2>3 DEF Wifi!OnDisconnectedRetry, Wifi!TypeOK, EventNames
  <2>4. CASE Wifi!OnStart
    BY <2>2, <2>4 DEF Wifi!OnStart, Wifi!TypeOK, EventNames
  <2>5. CASE Wifi!OnDisconnectedGiveUp
    BY <2>2, <2>5
    DEF Wifi!OnDisconnectedGiveUp, Wifi!SetBits, Wifi!TypeOK, Wifi!Bits, EventNames
  <2>6. CASE Wifi!OnGotIp
    <3>1. /\ s_retry_num' = 0 /\ link' = link /\ bits' = bits \cup {"connected"}
          /\ \/ main' = "woken" /\ result' = bits'
             \/ main' = main /\ result' = result
      BY <2>6 DEF Wifi!OnGotIp, Wifi!SetBits
    <3>2. s_retry_num' \in 0 .. MaxRetry
      BY <1>0, <3>1
    <3> QED
      BY <2>2, <3>1, <3>2 DEF Wifi!TypeOK, Wifi!Bits, EventNames
  <2> QED
    BY <1>4, <2>3, <2>4, <2>5, <2>6 DEF Wifi!Handler
<1>5. CASE Wifi!Join \/ Wifi!Refused \/ Wifi!Drop
  <2>1. events' \in Seq(EventNames)
    BY <1>0, <1>5 DEF Wifi!Join, Wifi!Refused, Wifi!Drop, Wifi!Post, EventNames
  <2> QED
    BY <1>5, <2>1
    DEF Wifi!Join, Wifi!Refused, Wifi!Drop, Wifi!TypeOK, EventNames
<1> QED
  BY <1>1, <1>2, <1>3, <1>4, <1>5 DEF Wifi!Next, Wifi!Main, Wifi!Radio

-----------------------------------------------------------------------------
(* The text in the buffer                                                  *)

Cells == Sync!Part \cup {Nul}

Buffers == [1 .. Cap -> Cells]

NatLess == { pair \in Nat \X Nat : pair[1] < pair[2] }

\* A set of numbers that is not empty has a least one.
LEMMA MinOf ==
    ASSUME NEW S \in SUBSET Nat, S # {}
    PROVE  Min(S) \in S /\ \A j \in S : Min(S) <= j
<1>1. IsWellFoundedOn(NatLess, Nat)
  BY NatLessThanWellFounded DEF OpToRel, NatLess
<1>2. PICK i \in S : \A j \in S : <<j, i>> \notin NatLess
  BY <1>1, WFMin
<1>3. \A j \in S : ~(j < i)
  BY <1>2 DEF NatLess
<1>4. i \in S /\ \A j \in S : i <= j
  BY <1>2, <1>3
<1> QED
  BY <1>4 DEF Min

NulsOf(buffer) == { i \in 1 .. Len(buffer) : buffer[i] = Nul }

FirstNul(buffer) == IF NulsOf(buffer) # {} THEN Min(NulsOf(buffer)) ELSE 0

TextOf(buffer) ==
    IF FirstNul(buffer) = 0 THEN buffer ELSE SubSeq(buffer, 1, FirstNul(buffer) - 1)

LEMMA TextIs == Http!Text = TextOf(data) /\ Http!Text' = TextOf(data')
  BY DEF Http!Text, Http!SelectInSeq, Http!Min, Min, TextOf, FirstNul, NulsOf

LEMMA BufferIsSeq ==
    ASSUME NEW buffer \in Buffers
    PROVE  /\ buffer \in Seq(Cells) /\ Len(buffer) = Cap
           /\ DOMAIN buffer = 1 .. Cap /\ Cap \in Nat \ {0}
<1>1. Cap \in Nat \ {0}
  BY NodeAssumption DEF Http!HttpAssumption
<1>2. buffer \in Seq(Cells)
  BY <1>1, SeqDef DEF Buffers
<1>3. Len(buffer) = Cap /\ DOMAIN buffer = 1 .. Cap
  BY <1>1, <1>2, LenProperties DEF Buffers
<1> QED
  BY <1>1, <1>2, <1>3

\* The text ends before the first NUL, or with the buffer.
LEMMA TextEnds ==
    ASSUME NEW buffer \in Buffers
    PROVE  /\ TextOf(buffer) \in Seq(Sync!Part)
           /\ Len(TextOf(buffer)) \in 0 .. Cap
           /\ \A i \in 1 .. Len(TextOf(buffer)) :
                TextOf(buffer)[i] = buffer[i] /\ buffer[i] # Nul
           /\ Len(TextOf(buffer)) < Cap => buffer[Len(TextOf(buffer)) + 1] = Nul
<1>1. /\ buffer \in Seq(Cells) /\ Len(buffer) = Cap
      /\ DOMAIN buffer = 1 .. Cap /\ Cap \in Nat \ {0}
  BY BufferIsSeq
<1>2. \A i \in 1 .. Cap : buffer[i] \in Cells
  BY DEF Buffers
<1>3. CASE NulsOf(buffer) = {}
  <2>1. TextOf(buffer) = buffer
    BY <1>3 DEF TextOf, FirstNul
  <2>2. \A i \in 1 .. Cap : buffer[i] # Nul
    BY <1>1, <1>3 DEF NulsOf
  <2>3. \A i \in 1 .. Cap : buffer[i] \in Sync!Part
    BY <1>2, <2>2 DEF Cells
  <2>4. buffer \in [1 .. Cap -> Sync!Part]
    BY <2>3 DEF Buffers
  <2>5. buffer \in Seq(Sync!Part)
    BY <1>1, <2>4, SeqDef
  <2> QED
    BY <1>1, <2>1, <2>2, <2>5
<1>4. CASE NulsOf(buffer) # {}
  <2>1. PICK k : k = Min(NulsOf(buffer))
    OBVIOUS
  <2>2. NulsOf(buffer) \in SUBSET Nat
    BY <1>1 DEF NulsOf
  <2>3. k \in NulsOf(buffer) /\ \A j \in NulsOf(buffer) : k <= j
    BY <1>4, <2>1, <2>2, MinOf
  <2>4. k \in 1 .. Cap /\ buffer[k] = Nul
    BY <1>1, <2>3 DEF NulsOf
  <2>5. \A i \in 1 .. k - 1 : i \in 1 .. Cap /\ buffer[i] # Nul
    BY <1>1, <2>3, <2>4 DEF NulsOf
  <2>6. TextOf(buffer) = SubSeq(buffer, 1, k - 1)
    BY <1>4, <2>1, <2>4 DEF TextOf, FirstNul
  <2>7. /\ TextOf(buffer) \in Seq(Cells) /\ Len(TextOf(buffer)) = k - 1
        /\ \A i \in 1 .. k - 1 : TextOf(buffer)[i] = buffer[i]
    BY <1>1, <2>4, <2>6, SubSeqProperties
  <2>8. \A i \in 1 .. k - 1 : TextOf(buffer)[i] \in Sync!Part
    BY <1>2, <2>5, <2>7 DEF Cells
  <2>9. TextOf(buffer) \in Seq(Sync!Part)
    <3>1. TextOf(buffer) = [i \in 1 .. k - 1 |-> TextOf(buffer)[i]]
      BY <2>7, LenProperties
    <3>2. TextOf(buffer) \in [1 .. k - 1 -> Sync!Part]
      BY <2>8, <3>1
    <3>3. k - 1 \in Nat
      BY <2>4
    <3> QED
      BY <3>2, <3>3, SeqDef
  <2> QED
    BY <1>1, <2>4, <2>5, <2>7, <2>9
<1> QED
  BY <1>3, <1>4

\* A buffer that was written up to a place, with a NUL behind it.
LEMMA TextUpTo ==
    ASSUME NEW buffer \in Buffers, NEW m \in 1 .. Cap,
           \A i \in 1 .. m : buffer[i] # Nul,
           m < Cap => buffer[m + 1] = Nul
    PROVE  Len(TextOf(buffer)) = m
<1>1. PICK l \in 0 .. Cap : l = Len(TextOf(buffer))
  BY TextEnds
<1>2. \A i \in 1 .. l : buffer[i] # Nul
  BY <1>1, TextEnds
<1>3. l < Cap => buffer[l + 1] = Nul
  BY <1>1, TextEnds
<1>4. Cap \in Nat
  BY BufferIsSeq
<1>5. ~(l < m)
  BY <1>3, <1>4
<1>6. ~(m < l)
  BY <1>2, <1>4
<1> QED
  BY <1>1, <1>4, <1>5, <1>6

-----------------------------------------------------------------------------
(* The answer to a sync                                                    *)

Names == {"next_batch", "to_device", "rooms"}

LEMMA MaxOfTwo ==
    ASSUME NEW a \in Nat, NEW b \in Nat
    PROVE  Sync!Max({a, b}) = IF a >= b THEN a ELSE b
<1> DEFINE m == IF a >= b THEN a ELSE b
<1>1. m \in {a, b} /\ \A y \in {a, b} : m >= y
  OBVIOUS
<1>2. ASSUME NEW x \in {a, b}, \A y \in {a, b} : x >= y PROVE x = m
  BY <1>1, <1>2
<1> HIDE DEF m
<1>3. Sync!Max({a, b}) = m
  BY <1>1, <1>2 DEF Sync!Max
<1> QED
  BY <1>3 DEF m

\* A server writes each of the three members once.
LEMMA OrderHasAll ==
    ASSUME NEW order \in Orders
    PROVE  {order[1], order[2], order[3]} = Names
<1>1. order \in Sync!SetToSeqs(Names)
  BY NodeAssumption DEF Sync!SyncAssumption, Names
<1>2. Sync!Cardinality(Names) = 3
  <2> DEFINE One == {"next_batch"}
             Two == One \cup {"to_device"}
  <2>1. Cardinality(One) = 1 /\ IsFiniteSet(One) /\ "to_device" \notin One
    BY FS_Singleton
  <2>2. "rooms" \notin Two /\ Names = Two \cup {"rooms"}
    BY DEF Names
  <2> HIDE DEF One
  <2>3. Cardinality(Two) = 2 /\ IsFiniteSet(Two)
    BY <2>1, FS_AddElement
  <2> HIDE DEF Two
  <2>4. Cardinality(Names) = 3
    BY <2>2, <2>3, FS_AddElement
  <2> QED
    BY <2>4 DEF Sync!Cardinality, Cardinality
<1>3. /\ order \in [1 .. 3 -> Names]
      /\ \A i, j \in 1 .. 3 : i # j => order[i] # order[j]
  BY <1>1, <1>2 DEF Sync!SetToSeqs
<1>4. /\ order[1] \in Names /\ order[2] \in Names /\ order[3] \in Names
      /\ order[1] # order[2] /\ order[1] # order[3] /\ order[2] # order[3]
  BY <1>3
<1> QED
  BY <1>4 DEF Names

Has(text, part) == \E i \in DOMAIN text : text[i] = part

LEMMA HasEither ==
    ASSUME NEW S, NEW s \in Seq(S), NEW t \in Seq(S), NEW part
    PROVE  Has(s \o t, part) <=> Has(s, part) \/ Has(t, part)
<1>1. /\ s \o t \in Seq(S) /\ Len(s) \in Nat /\ Len(t) \in Nat
      /\ DOMAIN s = 1 .. Len(s) /\ DOMAIN t = 1 .. Len(t)
      /\ DOMAIN (s \o t) = 1 .. Len(s) + Len(t)
      /\ \A i \in 1 .. Len(s) + Len(t) :
           (s \o t)[i] = IF i <= Len(s) THEN s[i] ELSE t[i - Len(s)]
  BY ConcatProperties, LenProperties
<1>2. ASSUME Has(s \o t, part) PROVE Has(s, part) \/ Has(t, part)
  <2>1. PICK i \in 1 .. Len(s) + Len(t) : (s \o t)[i] = part
    BY <1>1, <1>2 DEF Has
  <2>2. CASE i <= Len(s)
    BY <1>1, <2>1, <2>2 DEF Has
  <2>3. CASE ~(i <= Len(s))
    <3>1. i - Len(s) \in DOMAIN t /\ t[i - Len(s)] = part
      BY <1>1, <2>1, <2>3
    <3> QED
      BY <3>1 DEF Has
  <2> QED
    BY <2>2, <2>3
<1>3. ASSUME Has(s, part) PROVE Has(s \o t, part)
  BY <1>1, <1>3 DEF Has
<1>4. ASSUME Has(t, part) PROVE Has(s \o t, part)
  <2>1. PICK i \in 1 .. Len(t) : t[i] = part
    BY <1>1, <1>4 DEF Has
  <2>2. /\ i + Len(s) \in DOMAIN (s \o t)
        /\ (s \o t)[i + Len(s)] = part
    BY <1>1, <2>1
  <2> QED
    BY <2>2 DEF Has
<1> QED
  BY <1>2, <1>3, <1>4

LEMMA FoundIn ==
    ASSUME NEW text
    PROVE  /\ \A e : e \in Sync!EventsIn(text)
                      <=> \E part : Has(text, part) /\ e \in part.events
           /\ \A b : b \in Sync!BatchesIn(text)
                      <=> \E part : /\ Has(text, part)
                                   /\ part.member = "next_batch"
                                   /\ b = part.batch
<1>1. \A e : e \in Sync!EventsIn(text)
             <=> \E part : Has(text, part) /\ e \in part.events
  BY DEF Sync!EventsIn, Has
<1>2. \A b : b \in Sync!BatchesIn(text)
             <=> \E part : Has(text, part) /\ part.member = "next_batch"
                          /\ b = part.batch
  BY DEF Sync!BatchesIn, Sync!ToSet, Has
<1> QED
  BY <1>1, <1>2

\* The events of a kind that the client is still to be told about.
Asked(kind, e) ==
    /\ e \in DOMAIN log
    /\ log[e] = kind
    /\ e > since
    /\ kind = "to_device" => e > acked

ServerTypes ==
    /\ log \in Seq({"to_device", "rooms"}) /\ Len(log) <= MaxEvents
    /\ since \in 0 .. MaxEvents
    /\ acked \in 0 .. MaxEvents

\* What is in a member a server writes.
LEMMA MemberIs ==
    ASSUME NEW m \in Names, ServerTypes
    PROVE  /\ Sync!Member(m) \in Seq(Sync!Part)
           /\ \A e : (\E part : Has(Sync!Member(m), part) /\ e \in part.events)
                      <=> m # "next_batch" /\ Asked(m, e)
           /\ \A b : (\E part : /\ Has(Sync!Member(m), part)
                               /\ part.member = "next_batch" /\ b = part.batch)
                      <=> m = "next_batch" /\ b = Len(log)
<1>0. /\ MaxEvents \in Nat /\ Len(log) \in 0 .. MaxEvents
      /\ DOMAIN log \subseteq 1 .. MaxEvents
  BY NodeAssumption DEF ServerTypes, Sync!SyncAssumption
<1>1. ASSUME NEW p PROVE \A part : Has(<<p>>, part) <=> part = p
  BY DEF Has
<1>2. CASE m = "next_batch"
  <2>1. PICK p : p = [member |-> m, batch |-> Len(log), events |-> {}]
    OBVIOUS
  <2>2. Sync!Member(m) = <<p>>
    BY <1>2, <2>1 DEF Sync!Member
  <2>3. p \in Sync!Part
    BY <1>0, <1>2, <2>1 DEF Sync!Part
  <2>4. <<p>> \in Seq(Sync!Part)
    BY <2>3
  <2>5. \A part : Has(Sync!Member(m), part) <=> part = p
    BY <1>1, <2>2
  <2>6. p.member = m /\ p.batch = Len(log) /\ p.events = {}
    BY <2>1
  <2> QED
    BY <1>2, <2>2, <2>4, <2>5, <2>6
<1>3. CASE m # "next_batch"
  <2>1. PICK found : found = { e \in DOMAIN log : Asked(m, e) }
    OBVIOUS
  <2>2. Sync!Member(m) = Sync!Events(m, found)
    <3>1. CASE m = "rooms"
      BY <2>1, <3>1 DEF Sync!Member, Sync!EventsSince, Asked
    <3>2. CASE m = "to_device"
      <4>1. Sync!Max({since, acked}) = IF since >= acked THEN since ELSE acked
        BY MaxOfTwo, <1>0 DEF ServerTypes
      <4>2. \A e \in DOMAIN log :
              e > Sync!Max({since, acked}) <=> e > since /\ e > acked
        BY <1>0, <4>1 DEF ServerTypes
      <4>3. Sync!EventsSince(m, Sync!Max({since, acked})) = found
        BY <2>1, <3>2, <4>2 DEF Sync!EventsSince, Asked
      <4> QED
        BY <3>2, <4>3 DEF Sync!Member
    <3> QED
      BY <1>3, <3>1, <3>2 DEF Names
  <2>3. \A e : e \in found <=> Asked(m, e)
    BY <2>1 DEF Asked
  <2>4. CASE found = {}
    <3>1. Sync!Member(m) = <<>>
      BY <2>2, <2>4 DEF Sync!Events
    <3>2. \A part : ~Has(Sync!Member(m), part)
      BY <3>1 DEF Has
    <3> QED
      BY <1>3, <2>3, <2>4, <3>1, <3>2
  <2>5. CASE found # {}
    <3>1. PICK p : p = [member |-> m, batch |-> 0, events |-> found]
      OBVIOUS
    <3>2. Sync!Member(m) = <<p>>
      BY <2>2, <2>5, <3>1 DEF Sync!Events
    <3>3. p \in Sync!Part
      BY <1>0, <2>1, <3>1 DEF Sync!Part, Names
    <3>4. <<p>> \in Seq(Sync!Part)
      BY <3>3
    <3> QED
      BY <1>1, <1>3, <2>3, <3>1, <3>2, <3>4
  <2> QED
    BY <2>4, <2>5
<1> QED
  BY <1>2, <1>3

\* What is in an answer, whatever the order of its members.
LEMMA BodyIs ==
    ASSUME NEW order \in Orders, ServerTypes
    PROVE  /\ Sync!Body(order) \in Seq(Sync!Part) /\ Sync!Body(order) # <<>>
           /\ \A e : e \in Sync!EventsIn(Sync!Body(order))
                      <=> Asked("to_device", e) \/ Asked("rooms", e)
           /\ \A b : b \in Sync!BatchesIn(Sync!Body(order)) <=> b = Len(log)
<1> DEFINE M1 == Sync!Member(order[1])
           M2 == Sync!Member(order[2])
           M3 == Sync!Member(order[3])
<1>1. {order[1], order[2], order[3]} = Names
  BY OrderHasAll
<1>2. order[1] \in Names /\ order[2] \in Names /\ order[3] \in Names
  BY <1>1
<1>3. M1 \in Seq(Sync!Part) /\ M2 \in Seq(Sync!Part) /\ M3 \in Seq(Sync!Part)
  BY <1>2, MemberIs
<1>4. Sync!Body(order) = M1 \o M2 \o M3
  BY DEF Sync!Body
<1> HIDE DEF M1, M2, M3
<1>5. M1 \o M2 \in Seq(Sync!Part) /\ M1 \o M2 \o M3 \in Seq(Sync!Part)
  BY <1>3, ConcatProperties
<1>6. \A part : Has(Sync!Body(order), part)
                <=> Has(M1, part) \/ Has(M2, part) \/ Has(M3, part)
  <2>1. \A part : Has(M1 \o M2, part) <=> Has(M1, part) \/ Has(M2, part)
    BY <1>3, HasEither
  <2>2. \A part : Has(M1 \o M2 \o M3, part) <=> Has(M1 \o M2, part) \/ Has(M3, part)
    BY <1>3, <1>5, HasEither
  <2> QED
    BY <1>4, <2>1, <2>2
<1>7. \A part : Has(Sync!Body(order), part)
                <=> \E m \in Names : Has(Sync!Member(m), part)
  BY <1>1, <1>6 DEF M1, M2, M3
<1>8. \A e : e \in Sync!EventsIn(Sync!Body(order))
             <=> Asked("to_device", e) \/ Asked("rooms", e)
  <2>1. ASSUME NEW e
        PROVE  (\E m \in Names : \E part : Has(Sync!Member(m), part)
                                            /\ e \in part.events)
                  <=> Asked("to_device", e) \/ Asked("rooms", e)
    <3>1. \A m \in Names :
            (\E part : Has(Sync!Member(m), part) /\ e \in part.events)
               <=> m # "next_batch" /\ Asked(m, e)
      BY MemberIs
    <3> QED
      BY <3>1 DEF Names
  <2> QED
    BY <1>7, <2>1, FoundIn
<1>9. \A b : b \in Sync!BatchesIn(Sync!Body(order)) <=> b = Len(log)
  <2>1. ASSUME NEW b
        PROVE  (\E m \in Names : \E part :
                  /\ Has(Sync!Member(m), part)
                  /\ part.member = "next_batch" /\ b = part.batch)
                  <=> b = Len(log)
    <3>1. \A m \in Names :
            (\E part : /\ Has(Sync!Member(m), part)
                      /\ part.member = "next_batch" /\ b = part.batch)
               <=> m = "next_batch" /\ b = Len(log)
      BY MemberIs
    <3> QED
      BY <3>1 DEF Names
  <2> QED
    BY <1>7, <2>1, FoundIn
<1>10. Sync!Body(order) # <<>>
  <2>1. \E part : Has(Sync!Body(order), part)
    BY <1>9, FoundIn
  <2> QED
    BY <2>1 DEF Has
<1> QED
  BY <1>4, <1>5, <1>8, <1>9, <1>10

-----------------------------------------------------------------------------
(* The sync loop                                                           *)

LoopTypes ==
    /\ Wifi!TypeOK
    /\ ServerTypes
    /\ nextBatch \in 0 .. MaxEvents /\ syncing \in BOOLEAN
    /\ body \in Seq(Sync!Part)
    /\ handled \subseteq 1 .. MaxEvents /\ again \subseteq handled
    /\ missed \subseteq 1 .. MaxEvents /\ trouble \in BOOLEAN
    /\ data \in Buffers /\ dataLen \in 0 .. Cap
    /\ call \in {"idle", "sent", "body", "returned"}
    /\ rest \in Seq(Sync!Part)
    /\ adjacent \in BOOLEAN /\ failures \in 0 .. MaxFailures

Settled == handled \cup missed

\* Every event up to a batch the client or the server knows was handled or has
\* been missed.  Before the first trouble only those events were handled.
SyncInv ==
    /\ nextBatch <= Len(log) /\ since <= Len(log) /\ acked <= Len(log)
    /\ 1 .. nextBatch \subseteq Settled
    /\ 1 .. since \subseteq Settled
    /\ 1 .. acked \subseteq Settled
    /\ ~trouble => /\ again = {}
                   /\ handled \subseteq 1 .. (IF syncing THEN since ELSE nextBatch)

\* The answer has what is missing up to its batch, and nothing that was asked
\* for before.
AnswerInv ==
    /\ \A e \in Sync!EventsIn(body) : e > since /\ e \in 1 .. Len(log)
    /\ \A b \in Sync!BatchesIn(body) :
         /\ since <= b /\ b <= Len(log)
         /\ Sync!EventsIn(body) \subseteq 1 .. b
         /\ 1 .. b \subseteq Settled \cup Sync!EventsIn(body)
    /\ body # <<>> => Sync!BatchesIn(body) # {}

\* A text that is left over from an earlier call has been read.
OldText ==
    /\ Sync!EventsIn(Http!Text) \subseteq handled
    /\ \A b \in Sync!BatchesIn(Http!Text) : b <= Len(log) /\ 1 .. b \subseteq Settled

Copying ==
    /\ dataLen <= Len(body)
    /\ \A i \in 1 .. dataLen : data[i] = body[i]
    /\ dataLen \in 1 .. Cap - 1 => data[dataLen + 1] = Nul

Remaining ==
    /\ Len(rest) <= Len(body)
    /\ dataLen = Http!Smaller(Len(body) - Len(rest), Cap)
    /\ \A i \in 1 .. Len(rest) : rest[i] = body[Len(body) - Len(rest) + i]

BufferInv ==
    /\ syncing <=> call # "idle"
    /\ call = "sent" => dataLen = 0 /\ body = <<>>
    /\ syncing /\ dataLen = 0 => nextBatch = since
    /\ call = "idle" \/ dataLen = 0 => OldText
    /\ call \in {"body", "returned"} => Copying
    /\ call = "body" => Remaining

LoopInv == LoopTypes /\ SyncInv /\ AnswerInv /\ BufferInv

LEMMA TypesAre == LoopTypes => TypeOK
  BY DEF LoopTypes, TypeOK, ServerTypes, Sync!TypeOK, Buffers, Cells

LEMMA Constants ==
    /\ Cap \in Nat \ {0} /\ MaxEvents \in Nat /\ MaxFailures \in Nat
    /\ Nul \notin Sync!Part
  BY NodeAssumption DEF Http!HttpAssumption, Sync!SyncAssumption

\* What the loop has when it reads an answer that has begun to arrive.
LEMMA TextRead ==
    ASSUME LoopTypes, Copying, dataLen > 0
    PROVE  /\ IsPrefix(Http!Text, body)
           /\ Sync!EventsIn(Http!Text) \subseteq Sync!EventsIn(body)
           /\ Sync!BatchesIn(Http!Text) \subseteq Sync!BatchesIn(body)
<1>1. /\ data \in Buffers /\ dataLen \in 1 .. Cap /\ body \in Seq(Sync!Part)
      /\ Cap \in Nat /\ Len(body) \in Nat /\ DOMAIN body = 1 .. Len(body)
      /\ dataLen <= Len(body) /\ dataLen \in Nat
  BY Constants DEF Copying, LoopTypes
<1>2. \A i \in 1 .. dataLen : data[i] = body[i] /\ data[i] # Nul
  <2>1. \A i \in 1 .. dataLen : body[i] \in Sync!Part
    BY <1>1
  <2> QED
    BY <2>1, Constants DEF Copying
<1>3. dataLen < Cap => data[dataLen + 1] = Nul
  BY <1>1 DEF Copying
<1>4. PICK text : text = Http!Text /\ text = TextOf(data)
  BY TextIs
<1>5. Len(text) = dataLen
  BY <1>1, <1>2, <1>3, <1>4, TextUpTo
<1>6. text \in Seq(Sync!Part) /\ \A i \in 1 .. dataLen : text[i] = body[i]
  BY <1>1, <1>2, <1>4, <1>5, TextEnds
<1>7. DOMAIN text = 1 .. dataLen /\ DOMAIN text \subseteq DOMAIN body
  BY <1>1, <1>5, <1>6, LenProperties
<1>8. SubSeq(text, 1, dataLen) = SubSeq(body, 1, dataLen)
  <2>1. /\ SubSeq(text, 1, dataLen) \in Seq(Sync!Part)
        /\ Len(SubSeq(text, 1, dataLen)) = dataLen
        /\ \A i \in 1 .. dataLen : SubSeq(text, 1, dataLen)[i] = text[i]
    BY <1>1, <1>5, <1>6, <1>7, SubSeqProperties
  <2>2. /\ SubSeq(body, 1, dataLen) \in Seq(Sync!Part)
        /\ Len(SubSeq(body, 1, dataLen)) = dataLen
        /\ \A i \in 1 .. dataLen : SubSeq(body, 1, dataLen)[i] = body[i]
    BY <1>1, SubSeqProperties
  <2> QED
    BY <1>6, <2>1, <2>2, SeqEqual
<1>9. IsPrefix(text, body)
  BY <1>1, <1>5, <1>8 DEF IsPrefix
<1>10. \A part : Has(text, part) => Has(body, part)
  BY <1>6, <1>7 DEF Has
<1> QED
  BY <1>4, <1>9, <1>10, FoundIn

\* The text is the same as long as the buffer is.
LEMMA TextStays ==
    ASSUME UNCHANGED data PROVE Http!Text' = Http!Text
  BY TextIs

\* What the two other parties do leaves the loop as it is.
LEMMA OthersKeepLoopInv ==
    ASSUME LoopInv, LoopTypes', UNCHANGED <<httpVars, syncVars>> PROVE LoopInv'
<1>1. Http!Text' = Http!Text
  BY TextStays DEF httpVars
<1> QED
  BY <1>1
  DEF httpVars, syncVars, LoopInv, SyncInv, AnswerInv, BufferInv, OldText, Copying,
      Remaining, Settled

LEMMA WifiKeepsLoopInv ==
    ASSUME LoopInv, WifiStep \/ UNCHANGED vars PROVE LoopInv'
<1>1. Wifi!TypeOK'
  BY WifiTypesStep DEF WifiStep, vars, wifiVars, LoopInv, LoopTypes, Wifi!TypeOK
<1>2. UNCHANGED <<httpVars, syncVars, nodeVars>>
  BY DEF WifiStep, vars
<1>3. LoopTypes'
  BY <1>1, <1>2
  DEF httpVars, syncVars, nodeVars, LoopInv, LoopTypes, ServerTypes
<1> QED
  BY <1>2, <1>3, OthersKeepLoopInv

LEMMA PostEventKeepsLoopInv ==
    ASSUME LoopInv, PostEvent PROVE LoopInv'
<1>1. PICK kind \in {"to_device", "rooms"} :
        Len(log) < MaxEvents /\ log' = Append(log, kind)
  BY DEF PostEvent, Sync!PostEvent
<1>2. /\ UNCHANGED <<wifiVars, httpVars, nodeVars>>
      /\ UNCHANGED <<nextBatch, syncing, since, acked, body, handled, again, missed,
                     trouble>>
  BY DEF PostEvent, Sync!PostEvent, Sync!clientVars, Sync!historyVars
<1>3. /\ log \in Seq({"to_device", "rooms"}) /\ Len(log) \in Nat
      /\ MaxEvents \in Nat
  BY Constants DEF LoopInv, LoopTypes, ServerTypes
<1>4. log' \in Seq({"to_device", "rooms"}) /\ Len(log') = Len(log) + 1
  BY <1>1, <1>3
<1>5. ServerTypes'
  BY <1>1, <1>2, <1>3, <1>4 DEF ServerTypes, LoopInv, LoopTypes
<1>6. Wifi!TypeOK'
  BY <1>2 DEF LoopInv, LoopTypes, Wifi!TypeOK, wifiVars
<1>7. LoopTypes'
  BY <1>2, <1>5, <1>6 DEF LoopInv, LoopTypes, httpVars, nodeVars
<1>8. Http!Text' = Http!Text
  BY <1>2, TextStays DEF httpVars
<1>9. \A n \in Nat : n <= Len(log) => n <= Len(log')
  BY <1>3, <1>4
<1>10. nextBatch \in Nat /\ since \in Nat /\ acked \in Nat
  BY DEF LoopInv, LoopTypes, ServerTypes
<1>11. SyncInv'
  BY <1>2, <1>9, <1>10 DEF LoopInv, SyncInv, Settled
<1>12. AnswerInv'
  <2>1. ASSUME NEW b \in Sync!BatchesIn(body) PROVE b <= Len(log')
    <3>1. b <= Len(log) /\ b \in Nat
      <4>1. \A part : Has(body, part) => part \in Sync!Part
        BY DEF Has, LoopInv, LoopTypes
      <4>2. PICK part : Has(body, part) /\ b = part.batch
        BY FoundIn
      <4>3. b \in 0 .. MaxEvents
        BY <4>1, <4>2 DEF Sync!Part
      <4> QED
        BY <4>3 DEF LoopInv, AnswerInv
    <3> QED
      BY <1>9, <3>1
  <2>2. 1 .. Len(log) \subseteq 1 .. Len(log')
    BY <1>3, <1>4
  <2> QED
    BY <1>2, <2>1, <2>2 DEF LoopInv, AnswerInv, Settled
<1>13. BufferInv'
  <2>1. OldText => OldText'
    <3> SUFFICES ASSUME OldText PROVE OldText'
      OBVIOUS
    <3>1. ASSUME NEW b \in Sync!BatchesIn(Http!Text) PROVE b <= Len(log')
      <4>1. Http!Text \in Seq(Sync!Part)
        BY TextIs, TextEnds DEF LoopInv, LoopTypes
      <4>2. \A part : Has(Http!Text, part) => part \in Sync!Part
        BY <4>1 DEF Has
      <4>3. PICK part : Has(Http!Text, part) /\ b = part.batch
        BY FoundIn
      <4>4. b \in 0 .. MaxEvents
        BY <4>2, <4>3 DEF Sync!Part
      <4> QED
        BY <1>9, <4>4 DEF OldText
    <3> QED
      BY <1>2, <1>8, <3>1 DEF OldText, Settled
  <2>2. UNCHANGED <<data, dataLen, call, rest>>
    BY <1>2 DEF httpVars
  <2> QED
    BY <1>2, <2>1, <2>2 DEF LoopInv, BufferInv, Copying, Remaining
<1> QED
  BY <1>7, <1>11, <1>12, <1>13 DEF LoopInv

LEMMA NothingIn == Sync!EventsIn(<<>>) = {} /\ Sync!BatchesIn(<<>>) = {}
<1>1. \A part : ~Has(<<>>, part)
  BY DEF Has
<1> QED
  BY <1>1, FoundIn

LEMMA RequestKeepsLoopInv ==
    ASSUME LoopInv, SyncRequest PROVE LoopInv'
<1>1. /\ ~syncing /\ syncing' = TRUE /\ since' = nextBatch /\ body' = <<>>
      /\ call = "idle" /\ call' = "sent" /\ dataLen' = 0
      /\ UNCHANGED <<nextBatch, log, acked, handled, again, missed, trouble, data,
                     rest>>
      /\ UNCHANGED <<wifiVars, nodeVars>>
  BY DEF SyncRequest, Sync!Request, Http!Call
<1>2. 0 \in 0 .. Cap
  BY Constants
<1>3. LoopTypes'
  BY <1>1, <1>2
  DEF LoopInv, LoopTypes, ServerTypes, Wifi!TypeOK, wifiVars, nodeVars
<1>4. SyncInv'
  BY <1>1 DEF LoopInv, SyncInv, Settled
<1>5. AnswerInv'
  BY <1>1, NothingIn DEF AnswerInv
<1>6. OldText'
  <2>1. OldText
    BY <1>1 DEF LoopInv, BufferInv
  <2>2. Http!Text' = Http!Text
    BY <1>1, TextStays
  <2> QED
    BY <1>1, <2>1, <2>2 DEF OldText, Settled
<1>7. BufferInv'
  BY <1>1, <1>6 DEF BufferInv
<1> QED
  BY <1>3, <1>4, <1>5, <1>7 DEF LoopInv

LEMMA AnswerKeepsLoopInv ==
    ASSUME LoopInv, ServerAnswer PROVE LoopInv'
<1>1. PICK order \in Orders : Sync!Answer(order)
  BY DEF ServerAnswer
<1>2. /\ syncing /\ body' = Sync!Body(order) /\ acked' = Sync!Max({since, acked})
      /\ call = "sent" /\ call' = "body" /\ rest' = body'
      /\ UNCHANGED <<nextBatch, syncing, since, log, handled, again, missed, trouble>>
      /\ UNCHANGED <<data, dataLen>> /\ UNCHANGED <<wifiVars, nodeVars>>
  BY <1>1 DEF ServerAnswer, Sync!Answer, Sync!clientVars, Http!Answer
<1>3. ServerTypes /\ LoopTypes /\ SyncInv /\ BufferInv
  BY DEF LoopInv, LoopTypes
<1>4. /\ body' \in Seq(Sync!Part) /\ body' # <<>>
      /\ \A e : e \in Sync!EventsIn(body')
                <=> Asked("to_device", e) \/ Asked("rooms", e)
      /\ \A b : b \in Sync!BatchesIn(body') <=> b = Len(log)
  BY <1>2, <1>3, BodyIs
<1>5. acked' \in {since, acked}
  BY <1>2, <1>3, MaxOfTwo DEF ServerTypes
<1>6. LoopTypes'
  BY <1>2, <1>3, <1>4, <1>5
  DEF LoopTypes, ServerTypes, Wifi!TypeOK, wifiVars, nodeVars
<1>7. SyncInv'
  BY <1>2, <1>3, <1>5 DEF SyncInv, Settled
<1>8. AnswerInv'
  <2>1. \A e \in Sync!EventsIn(body') : e > since /\ e \in 1 .. Len(log)
    BY <1>3, <1>4 DEF Asked, ServerTypes
  <2>2. 1 .. Len(log) \subseteq Settled \cup Sync!EventsIn(body')
    <3> SUFFICES ASSUME NEW e \in 1 .. Len(log), e \notin Settled
                 PROVE  e \in Sync!EventsIn(body')
      OBVIOUS
    <3>1. e \in DOMAIN log /\ log[e] \in {"to_device", "rooms"}
      BY <1>3 DEF ServerTypes
    <3>2. e > since /\ e > acked
      BY <1>3 DEF ServerTypes, SyncInv
    <3> QED
      BY <1>4, <3>1, <3>2 DEF Asked
  <2> QED
    BY <1>2, <1>3, <1>4, <2>1, <2>2 DEF AnswerInv, SyncInv, Settled, ServerTypes
<1>9. OldText'
  <2>1. OldText
    BY <1>2, <1>3 DEF BufferInv
  <2>2. Http!Text' = Http!Text
    BY <1>2, TextStays
  <2> QED
    BY <1>2, <2>1, <2>2 DEF OldText, Settled
<1>10. dataLen = 0 /\ nextBatch = since
  BY <1>2, <1>3 DEF BufferInv
<1>11. Len(body') \in Nat
  BY <1>4
<1>12. Copying'
  BY <1>2, <1>10, <1>11 DEF Copying
<1>13. Remaining'
  BY <1>2, <1>10, <1>11, Constants DEF Remaining, Http!Smaller
<1>14. BufferInv'
  BY <1>2, <1>3, <1>9, <1>10, <1>12, <1>13 DEF BufferInv
<1> QED
  BY <1>6, <1>7, <1>8, <1>14 DEF LoopInv

\* Copying what fits leaves the beginning of the answer in the buffer.
LEMMA OnDataCopies ==
    ASSUME LoopTypes, Copying, Remaining, NEW n \in 1 .. Len(rest), Http!OnData(n),
           UNCHANGED body
    PROVE  /\ data' \in Buffers /\ dataLen' \in 1 .. Cap
           /\ rest' \in Seq(Sync!Part)
           /\ Copying' /\ Remaining'
<1> DEFINE c == Http!Smaller(n, Cap - dataLen)
<1>1. /\ data' = IF c = 0 THEN data ELSE Http!Copied(c, dataLen)
      /\ dataLen' = dataLen + c
      /\ rest' = SubSeq(rest, n + 1, Len(rest))
  BY DEF Http!OnData
<1>2. /\ Cap \in Nat \ {0} /\ dataLen \in 0 .. Cap /\ data \in Buffers
      /\ rest \in Seq(Sync!Part) /\ body \in Seq(Sync!Part)
      /\ Len(rest) \in Nat /\ Len(body) \in Nat /\ n \in Nat \ {0}
      /\ Len(rest) <= Len(body)
  BY Constants DEF LoopTypes, Remaining
<1>3. /\ c \in Nat /\ c <= n /\ c <= Cap - dataLen
      /\ c = n \/ c = Cap - dataLen
      /\ c = 0 => dataLen = Cap
  BY <1>2 DEF Http!Smaller
<1>4. PICK k \in Nat : k = Len(body) - Len(rest)
  BY <1>2
<1>5. /\ dataLen = Http!Smaller(k, Cap)
      /\ \A i \in 1 .. Len(rest) : rest[i] = body[k + i]
  BY <1>4 DEF Remaining
<1> HIDE DEF c
<1>6. /\ rest' \in Seq(Sync!Part) /\ Len(rest') = Len(rest) - n
      /\ \A i \in 1 .. Len(rest) - n : rest'[i] = rest[n + i]
  <2>1. \A i \in n + 1 .. Len(rest) : rest[i] \in Sync!Part
    BY <1>2
  <2>2. /\ rest' \in Seq(Sync!Part)
        /\ Len(rest') = IF n + 1 <= Len(rest) THEN Len(rest) - (n + 1) + 1 ELSE 0
        /\ \A i \in 1 .. Len(rest) - (n + 1) + 1 : rest'[i] = rest[(n + 1) + i - 1]
    BY <1>1, <1>2, <2>1, SubSeqProperties
  <2> QED
    BY <1>2, <2>2
<1>7. dataLen' \in 1 .. Cap /\ dataLen' = Http!Smaller(k + n, Cap)
  <2>1. dataLen = IF k < Cap THEN k ELSE Cap
    BY <1>5 DEF Http!Smaller
  <2>2. c = IF n < Cap - dataLen THEN n ELSE Cap - dataLen
    BY DEF c, Http!Smaller
  <2>3. Http!Smaller(k + n, Cap) = IF k + n < Cap THEN k + n ELSE Cap
    BY DEF Http!Smaller
  <2>4. CASE k < Cap /\ n < Cap - k
    BY <1>1, <1>2, <2>1, <2>2, <2>3, <2>4
  <2>5. CASE k < Cap /\ ~(n < Cap - k)
    BY <1>1, <1>2, <2>1, <2>2, <2>3, <2>5
  <2>6. CASE ~(k < Cap)
    BY <1>1, <1>2, <2>1, <2>2, <2>3, <2>6
  <2> QED
    BY <2>4, <2>5, <2>6
<1>8. Remaining'
  <2>1. \A i \in 1 .. Len(rest) - n : rest'[i] = body[k + n + i]
    <3> SUFFICES ASSUME NEW i \in 1 .. Len(rest) - n
                 PROVE  rest'[i] = body[k + n + i]
      OBVIOUS
    <3>1. n + i \in 1 .. Len(rest) /\ k + (n + i) = k + n + i
      BY <1>2
    <3> QED
      BY <1>5, <1>6, <3>1
  <2>2. Len(body) - Len(rest') = k + n
    BY <1>2, <1>4, <1>6
  <2>3. \A i \in 1 .. Len(rest') : rest'[i] = body[Len(body) - Len(rest') + i]
    BY <1>6, <2>1, <2>2
  <2>4. Len(rest') <= Len(body)
    BY <1>2, <1>6
  <2> QED
    BY <1>7, <2>2, <2>3, <2>4 DEF Remaining
<1>9. dataLen < Cap => dataLen = k
  BY <1>2, <1>5 DEF Http!Smaller
<1>10. CASE c = 0
  BY <1>1, <1>2, <1>3, <1>6, <1>7, <1>8, <1>10 DEF Copying
<1>11. CASE c # 0
  <2>1. dataLen = k /\ dataLen < Cap
    BY <1>2, <1>3, <1>9, <1>11
  <2>2. data' = Http!Copied(c, dataLen) /\ DOMAIN data = 1 .. Cap
    BY <1>1, <1>11 DEF LoopTypes, Buffers
  <2>3. \A i \in 1 .. Cap :
          data'[i] = IF i \in dataLen + 1 .. dataLen + c THEN rest[i - dataLen]
                     ELSE IF i = dataLen + c + 1 THEN Nul ELSE data[i]
    <3> SUFFICES ASSUME NEW i \in 1 .. Cap
                 PROVE  data'[i] =
                          IF i \in dataLen + 1 .. dataLen + c THEN rest[i - dataLen]
                          ELSE IF i = dataLen + c + 1 THEN Nul ELSE data[i]
      OBVIOUS
    <3>1. data'[i] = CASE i \in dataLen + 1 .. dataLen + c -> rest[i - dataLen]
                       [] i = dataLen + c + 1             -> Nul
                       [] OTHER                           -> data[i]
      BY <2>2 DEF Http!Copied
    <3>2. ~(i \in dataLen + 1 .. dataLen + c /\ i = dataLen + c + 1)
      BY <1>2, <1>3
    <3> QED
      BY <3>1, <3>2
  <2>4. \A i \in dataLen + 1 .. dataLen + c :
          /\ i - dataLen \in 1 .. Len(rest)
          /\ rest[i - dataLen] = body[i] /\ rest[i - dataLen] \in Sync!Part
    <3> SUFFICES ASSUME NEW i \in dataLen + 1 .. dataLen + c
                 PROVE  /\ i - dataLen \in 1 .. Len(rest)
                        /\ rest[i - dataLen] = body[i]
                        /\ rest[i - dataLen] \in Sync!Part
      OBVIOUS
    <3>1. PICK j \in 1 .. Len(rest) : j = i - dataLen /\ k + j = i
      BY <1>2, <1>3, <2>1
    <3>2. rest[j] = body[k + j] /\ rest[j] \in Sync!Part
      BY <1>2, <1>5
    <3> QED
      BY <3>1, <3>2
  <2>5. data' \in Buffers
    <3>1. \A i \in 1 .. Cap : data'[i] \in Cells
      BY <2>3, <2>4 DEF LoopTypes, Buffers, Cells
    <3>2. data' = [i \in 1 .. Cap |-> data'[i]]
      BY <2>2 DEF Http!Copied
    <3> QED
      BY <3>1, <3>2 DEF Buffers
  <2>6. \A i \in 1 .. dataLen' : data'[i] = body[i]
    <3> SUFFICES ASSUME NEW i \in 1 .. dataLen' PROVE data'[i] = body[i]
      OBVIOUS
    <3>1. i \in 1 .. Cap /\ i # dataLen + c + 1
      BY <1>1, <1>2, <1>3, <1>7
    <3>2. CASE i \in dataLen + 1 .. dataLen + c
      BY <2>3, <2>4, <3>1, <3>2
    <3>3. CASE i \notin dataLen + 1 .. dataLen + c
      <4>1. i \in 1 .. dataLen
        BY <1>1, <1>2, <1>3, <3>3
      <4> QED
        BY <2>3, <3>1, <3>3, <4>1 DEF Copying
    <3> QED
      BY <3>2, <3>3
  <2>7. dataLen' \in 1 .. Cap - 1 => data'[dataLen' + 1] = Nul
    <3> SUFFICES ASSUME dataLen' \in 1 .. Cap - 1 PROVE data'[dataLen' + 1] = Nul
      OBVIOUS
    <3>1. /\ dataLen' + 1 \in 1 .. Cap /\ dataLen' + 1 = dataLen + c + 1
          /\ dataLen' + 1 \notin dataLen + 1 .. dataLen + c
      BY <1>1, <1>2, <1>3
    <3> QED
      BY <2>3, <3>1
  <2>8. dataLen' <= Len(body)
    BY <1>1, <1>2, <1>3, <1>4, <2>1
  <2> QED
    BY <1>6, <1>7, <1>8, <2>5, <2>6, <2>7, <2>8 DEF Copying
<1> QED
  BY <1>10, <1>11

LEMMA BodyArrivesKeepsLoopInv ==
    ASSUME LoopInv, BodyArrives PROVE LoopInv'
<1>1. PICK n \in 1 .. Len(rest) :
        /\ Http!OnData(n)
        /\ nextBatch' = IF adjacent /\ Http!Overruns(n) THEN 0 ELSE nextBatch
  BY DEF BodyArrives
<1>2. UNCHANGED <<wifiVars, syncing, since, log, acked, body, handled, again, missed,
                  trouble, nodeVars>>
  BY DEF BodyArrives
<1>3. call = "body" /\ call' = "body"
  BY <1>1 DEF Http!OnData
<1>4. LoopTypes /\ SyncInv /\ Copying /\ Remaining /\ syncing
  BY <1>3 DEF LoopInv, BufferInv
<1>5. /\ data' \in Buffers /\ dataLen' \in 1 .. Cap /\ rest' \in Seq(Sync!Part)
      /\ Copying' /\ Remaining'
  BY <1>1, <1>2, <1>4, OnDataCopies
<1>6. nextBatch' \in {0, nextBatch} /\ MaxEvents \in Nat
  BY <1>1, Constants
<1>7. LoopTypes'
  BY <1>2, <1>3, <1>4, <1>5, <1>6, Constants
  DEF LoopTypes, ServerTypes, Wifi!TypeOK, wifiVars, nodeVars
<1>8. SyncInv'
  <2>1. nextBatch' <= Len(log) /\ 1 .. nextBatch' \subseteq Settled
    BY <1>4, <1>6 DEF SyncInv, LoopTypes, ServerTypes
  <2> QED
    BY <1>2, <1>4, <2>1 DEF SyncInv, Settled
<1>9. AnswerInv'
  BY <1>2 DEF LoopInv, AnswerInv, Settled
<1>10. BufferInv'
  <2>1. dataLen' # 0
    BY <1>5, Constants
  <2> QED
    BY <1>2, <1>3, <1>4, <1>5, <2>1 DEF BufferInv
<1> QED
  BY <1>7, <1>8, <1>9, <1>10 DEF LoopInv

\* The call ends, or fails, with what there is.
LEMMA EndKeepsLoopInv ==
    ASSUME LoopInv, BodyEnds \/ GetFails \/ GetFailsOffline PROVE LoopInv'
<1>1. /\ Http!Finish \/ Http!Fail
      /\ UNCHANGED <<wifiVars, syncVars, adjacent>>
      /\ failures' \in 0 .. MaxFailures
  <2>1. failures \in 0 .. MaxFailures /\ MaxFailures \in Nat
    BY Constants DEF LoopInv, LoopTypes
  <2> QED
    BY <2>1 DEF BodyEnds, GetFails, GetFailsOffline, nodeVars
<1>2. /\ call' = "returned" /\ rest' \in {rest, <<>>}
      /\ call \in {"sent", "body"} /\ UNCHANGED <<data, dataLen>>
  BY <1>1 DEF Http!Finish, Http!Fail
<1>3. rest' \in Seq(Sync!Part)
  <2>1. rest \in Seq(Sync!Part) /\ <<>> \in Seq(Sync!Part)
    BY DEF LoopInv, LoopTypes
  <2> QED
    BY <1>2, <2>1
<1>4. LoopTypes'
  BY <1>1, <1>2, <1>3
  DEF LoopInv, LoopTypes, ServerTypes, Wifi!TypeOK, wifiVars, syncVars
<1>5. SyncInv' /\ AnswerInv'
  BY <1>1 DEF LoopInv, SyncInv, AnswerInv, Settled, syncVars
<1>6. Http!Text' = Http!Text
  BY <1>2, TextStays
<1>7. OldText => OldText'
  BY <1>1, <1>6 DEF OldText, Settled, syncVars
<1>8. Copying
  <2>1. Len(body) \in Nat /\ Cap \in Nat
    BY Constants DEF LoopInv, LoopTypes
  <2>2. CASE call = "sent"
    <3>1. dataLen = 0
      BY <2>2 DEF LoopInv, BufferInv
    <3> QED
      BY <2>1, <3>1 DEF Copying
  <2>3. CASE call = "body"
    BY <2>3 DEF LoopInv, BufferInv
  <2> QED
    BY <1>2, <2>2, <2>3
<1>9. BufferInv'
  BY <1>1, <1>2, <1>7, <1>8 DEF LoopInv, BufferInv, Copying, syncVars
<1> QED
  BY <1>4, <1>5, <1>9 DEF LoopInv

\* What HandleSync makes of the text, old or new, whole or cut.
LEMMA HandleKeepsLoopInv ==
    ASSUME LoopInv, SyncHandle PROVE LoopInv'
<1> DEFINE found == Sync!EventsIn(Http!Text)
           batches == Sync!BatchesIn(Http!Text)
           asked == Sync!EventsIn(body)
<1>1. /\ call = "returned" /\ call' = "idle"
      /\ UNCHANGED <<data, dataLen, rest>> /\ UNCHANGED <<wifiVars, nodeVars>>
      /\ syncing /\ ~syncing' /\ syncing' \in BOOLEAN
      /\ nextBatch' \in IF batches = {} THEN {nextBatch} ELSE batches
      /\ handled' = handled \cup found
      /\ again' = again \cup (handled \cap found)
      /\ missed' = missed \cup (asked \ found)
      /\ trouble' = (trouble \/ Http!Text # body)
      /\ UNCHANGED <<since, log, acked, body>>
  BY DEF SyncHandle, Http!Return, Sync!HandleSync, Sync!FoundEvents,
         Sync!serverVars
<1>2. LoopTypes /\ SyncInv /\ AnswerInv /\ BufferInv
  BY DEF LoopInv
<1>3. MaxEvents \in Nat /\ Len(log) \in Nat /\ Len(log) <= MaxEvents
  BY <1>2, Constants DEF LoopTypes, ServerTypes
<1>4. found \subseteq 1 .. MaxEvents /\ batches \subseteq 0 .. MaxEvents
  <2>1. Http!Text \in Seq(Sync!Part)
    BY <1>2, TextIs, TextEnds DEF LoopTypes
  <2>2. \A part : Has(Http!Text, part) =>
          /\ part.batch \in 0 .. MaxEvents
          /\ part.events \subseteq 1 .. MaxEvents
    <3>1. \A part : Has(Http!Text, part) => part \in Sync!Part
      BY <2>1 DEF Has
    <3> QED
      BY <3>1 DEF Sync!Part
  <2> QED
    BY <2>2, FoundIn
<1>5. asked \subseteq 1 .. MaxEvents
  BY <1>2, <1>3 DEF AnswerInv
<1>6. Settled \subseteq Settled' /\ asked \subseteq Settled'
      /\ handled \subseteq handled'
  BY <1>1 DEF Settled
<1>7. \/ dataLen = 0 /\ OldText
      \/ found \subseteq asked /\ batches \subseteq Sync!BatchesIn(body)
  <2>1. dataLen \in Nat
    BY <1>2, Constants DEF LoopTypes
  <2>2. CASE dataLen = 0
    BY <1>2, <2>2 DEF BufferInv
  <2>3. CASE dataLen > 0
    BY <1>1, <1>2, <2>3, TextRead DEF BufferInv
  <2> QED
    BY <2>1, <2>2, <2>3
<1>8. \A b \in batches : b <= Len(log) /\ 1 .. b \subseteq Settled'
  <2>1. CASE OldText
    BY <1>6, <2>1 DEF OldText
  <2>2. CASE batches \subseteq Sync!BatchesIn(body)
    BY <1>2, <1>6, <2>2 DEF AnswerInv
  <2> QED
    BY <1>7, <2>1, <2>2
<1>9. /\ nextBatch' \in 0 .. MaxEvents /\ nextBatch' <= Len(log)
      /\ 1 .. nextBatch' \subseteq Settled'
  BY <1>1, <1>2, <1>4, <1>6, <1>8 DEF SyncInv, LoopTypes
<1>10. LoopTypes'
  <2>1. handled' \subseteq 1 .. MaxEvents /\ missed' \subseteq 1 .. MaxEvents
        /\ again' \subseteq handled' /\ trouble' \in BOOLEAN
    BY <1>1, <1>2, <1>4, <1>5 DEF LoopTypes
  <2> HIDE DEF found, batches, asked
  <2> QED
    BY <1>1, <1>2, <1>9, <2>1
    DEF LoopTypes, ServerTypes, Wifi!TypeOK, wifiVars, nodeVars
<1>11. ASSUME ~trouble' PROVE again' = {} /\ handled' \subseteq 1 .. nextBatch'
  <2>1. ~trouble /\ Http!Text = body
    BY <1>1, <1>11
  <2>2. /\ again = {} /\ handled \subseteq 1 .. since
        /\ found = asked /\ batches = Sync!BatchesIn(body)
    BY <1>1, <1>2, <2>1 DEF SyncInv
  <2>3. since \in Nat /\ \A e \in asked : e > since
    BY <1>2 DEF AnswerInv, LoopTypes, ServerTypes
  <2>4. again' = {}
    <3>1. ASSUME NEW e, e \in handled, e \in asked PROVE FALSE
      <4>1. e \in 1 .. since
        BY <2>2, <3>1
      <4>2. e > since
        BY <2>3, <3>1
      <4> QED
        BY <2>3, <4>1, <4>2
    <3>2. handled \cap found = {}
      BY <2>2, <3>1
    <3> QED
      BY <1>1, <2>2, <3>2
  <2>5. CASE body # <<>>
    <3>1. nextBatch' \in Sync!BatchesIn(body)
      BY <1>1, <1>2, <2>2, <2>5 DEF AnswerInv
    <3>2. /\ since <= nextBatch' /\ asked \subseteq 1 .. nextBatch'
          /\ nextBatch' \in Nat
      BY <1>2, <1>9, <3>1 DEF AnswerInv
    <3>3. 1 .. since \subseteq 1 .. nextBatch'
      BY <2>3, <3>2
    <3> QED
      BY <1>1, <2>2, <2>4, <3>2, <3>3
  <2>6. CASE body = <<>>
    <3>1. asked = {} /\ batches = {}
      BY <2>2, <2>6, NothingIn
    <3>2. nextBatch' = nextBatch
      BY <1>1, <3>1
    <3>3. dataLen = 0
      <4>1. Copying /\ Len(body) = 0 /\ dataLen \in Nat
        BY <1>1, <1>2, <2>6, Constants DEF BufferInv, LoopTypes
      <4> QED
        BY <4>1 DEF Copying
    <3>4. nextBatch = since
      BY <1>1, <1>2, <3>3 DEF BufferInv
    <3> QED
      BY <1>1, <2>2, <2>4, <3>1, <3>2, <3>4
  <2> QED
    BY <2>5, <2>6
<1>12. SyncInv'
  <2>1. /\ nextBatch' <= Len(log') /\ since' <= Len(log') /\ acked' <= Len(log')
        /\ 1 .. nextBatch' \subseteq Settled'
        /\ 1 .. since' \subseteq Settled' /\ 1 .. acked' \subseteq Settled'
    BY <1>1, <1>2, <1>6, <1>9 DEF SyncInv
  <2> HIDE DEF found, batches, asked
  <2> QED
    BY <1>1, <1>11, <2>1 DEF SyncInv
<1>13. AnswerInv'
  BY <1>1, <1>2, <1>6 DEF AnswerInv
<1>14. OldText'
  <2>1. Http!Text' = Http!Text
    BY <1>1, TextStays
  <2> QED
    BY <1>1, <1>8, <2>1 DEF OldText
<1>15. BufferInv'
  BY <1>1, <1>14 DEF BufferInv
<1> QED
  BY <1>10, <1>12, <1>13, <1>15 DEF LoopInv

LEMMA LoopInvStep == LoopInv /\ [Next]_vars => LoopInv'
<1> SUFFICES ASSUME LoopInv, [Next]_vars PROVE LoopInv'
  OBVIOUS
<1> QED
  BY WifiKeepsLoopInv, PostEventKeepsLoopInv, RequestKeepsLoopInv,
     AnswerKeepsLoopInv, BodyArrivesKeepsLoopInv, EndKeepsLoopInv,
     HandleKeepsLoopInv DEF Next, Loop

LEMMA LoopInvInit == Init => LoopInv
<1> SUFFICES ASSUME Init PROVE LoopInv
  OBVIOUS
<1>1. /\ Wifi!Init /\ Http!Init /\ Sync!Init /\ adjacent \in BOOLEAN /\ failures = 0
  BY DEF Init
<1>2. Wifi!TypeOK
  <2>1. MaxRetry \in Nat
    BY NodeAssumption DEF Wifi!WifiAssumption
  <2> QED
    BY <1>1, <2>1 DEF Wifi!Init, Wifi!TypeOK
<1>3. data \in Buffers /\ \A i \in 1 .. Cap : data[i] = Nul
  BY <1>1 DEF Http!Init, Buffers, Cells
<1>4. /\ nextBatch = 0 /\ syncing = FALSE /\ since = 0 /\ log = <<>> /\ acked = 0
      /\ body = <<>> /\ handled = {} /\ again = {} /\ missed = {} /\ trouble = FALSE
      /\ dataLen = 0 /\ call = "idle" /\ rest = <<>>
  BY <1>1 DEF Http!Init, Sync!Init
<1>5. LoopTypes
  <2>1. /\ body \in Seq(Sync!Part) /\ rest \in Seq(Sync!Part)
        /\ log \in Seq({"to_device", "rooms"}) /\ Len(log) <= MaxEvents
    BY <1>4, Constants
  <2>2. 0 \in 0 .. MaxEvents /\ 0 \in 0 .. Cap /\ 0 \in 0 .. MaxFailures
    BY Constants
  <2>3. ServerTypes
    BY <1>4, <2>1, <2>2 DEF ServerTypes
  <2>4. /\ handled \subseteq 1 .. MaxEvents /\ again \subseteq handled
        /\ missed \subseteq 1 .. MaxEvents /\ trouble \in BOOLEAN
        /\ syncing \in BOOLEAN /\ call \in {"idle", "sent", "body", "returned"}
    BY <1>4
  <2> QED
    BY <1>1, <1>2, <1>3, <1>4, <2>1, <2>2, <2>3, <2>4 DEF LoopTypes
<1>6. Len(log) = 0
  BY <1>4
<1>7. SyncInv
  BY <1>4, <1>6 DEF SyncInv, Settled
<1>8. AnswerInv
  BY <1>4, NothingIn DEF AnswerInv
<1>9. OldText
  <2>1. Len(TextOf(data)) \in 0 .. Cap /\ TextOf(data) \in Seq(Sync!Part)
        /\ \A i \in 1 .. Len(TextOf(data)) : data[i] # Nul
    BY <1>3, TextEnds
  <2>2. Len(TextOf(data)) = 0
    BY <1>3, <2>1, Constants
  <2>3. Http!Text = <<>>
    BY <2>1, <2>2, TextIs, EmptySeq
  <2> QED
    BY <2>3, NothingIn DEF OldText
<1> QED
  BY <1>4, <1>5, <1>7, <1>8, <1>9 DEF LoopInv, BufferInv

LEMMA LoopInvHolds == Spec => []LoopInv
<1> QED
  BY LoopInvInit, LoopInvStep, PTL DEF Spec

\* The node's variables keep their types.
THEOREM TypeCorrect == Spec => []TypeOK
<1>1. LoopInv => TypeOK
  BY TypesAre DEF LoopInv
<1> QED
  BY <1>1, LoopInvHolds, PTL

\* What HandleSync reads once some of an answer has arrived is the beginning of
\* that answer, in a buffer of any size that nobody clears
\* (_http_event_handler).
THEOREM OneAnswerIsRead == Spec => []ReadsOneAnswer
<1>1. LoopInv => ReadsOneAnswer
  <2> SUFFICES ASSUME LoopInv, call \in {"body", "returned"}, dataLen > 0
               PROVE  IsPrefix(Http!Text, body)
    BY DEF ReadsOneAnswer
  <2> QED
    BY TextRead DEF LoopInv, BufferInv
<1> QED
  BY <1>1, LoopInvHolds, PTL

\* The loop does not pass over an event of an answer that it got, and hands it
\* on once as long as each text it reads is the answer (HandleSync).
THEOREM EventsAreHandledOnce == Spec => []HandledOnce
<1>1. LoopInv => HandledOnce
  BY DEF HandledOnce, Sync!HandledOnce, LoopInv, SyncInv, Settled
<1> QED
  BY <1>1, LoopInvHolds, PTL

=============================================================================
