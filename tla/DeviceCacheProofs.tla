-------------------------- MODULE DeviceCacheProofs --------------------------
(***************************************************************************)
(* Theorems about DeviceCache, for any set of devices and generations, any *)
(* capacity and any of the irregular answers.                              *)
(***************************************************************************)
EXTENDS DeviceCache, TLAPS

-----------------------------------------------------------------------------
(* Type correctness                                                        *)

\* An answer to keys/query, fresh or stale, is a well-formed answer.
LEMMA PostOutcomesTyped ==
    ASSUME TypeOK, NEW a \in PostOutcomes
    PROVE  a \in Answer
<1>1. EmptyAnswer \in Answer
  BY DEF EmptyAnswer, Answer
<1>2. AccountAnswer \in Answer
  <2>1. AccountAnswer.entries \in SUBSET Entry
    BY DEF AccountAnswer, Entry, Keys, TypeOK
  <2>2. publishedMaster \in Keys \cup {NoKey}
    BY DEF TypeOK, Keys
  <2> QED
    BY <2>1, <2>2 DEF AccountAnswer, Answer
<1>3. ASSUME NEW d \in Devices
      PROVE  WithoutKey(AccountAnswer, d) \in Answer
  <2>1. [id |-> d, key |-> NoKey] \in Entry
    BY DEF Entry
  <2> QED
    BY <1>2, <2>1 DEF WithoutKey, Answer
<1> QED
  BY <1>1, <1>2, <1>3 DEF PostOutcomes, FreshAnswers, TypeOK

\* What a scan finds is a key (or the empty master key).
LEMMA FoundKeysTyped ==
    ASSUME TypeOK, NEW k \in FoundKeys(target), Found(target)
    PROVE  k \in Keys
<1>1. CASE target = Master
  BY <1>1 DEF FoundKeys, Found, TypeOK
<1>2. CASE target # Master
  <2>1. PICK i \in DOMAIN devices : k = devices[i].key
    BY <1>2 DEF FoundKeys
  <2>2. devices[i] \in Stored
    BY DEF TypeOK
  <2> QED
    BY <2>1, <2>2 DEF Stored
<1> QED
  BY <1>1, <1>2

LEMMA TypeInit == Init => TypeOK
<1> SUFFICES ASSUME Init PROVE TypeOK
  OBVIOUS
<1>1. EmptyAnswer \in Answer
  BY DEF EmptyAnswer, Answer
<1>2. publishedMaster \in ({Master} \X Gens) \cup {NoKey}
  BY DEF Init, KeysOf
<1>3. Garbage \in Keys
  BY DEF Keys
<1>4. devices \in Seq(Stored)
  BY DEF Init
<1> QED
  BY <1>1, <1>2, <1>3, <1>4 DEF Init, TypeOK

LEMMA TypeStep == TypeOK /\ [Next]_vars => TypeOK'
<1> SUFFICES ASSUME TypeOK, [Next]_vars PROVE TypeOK'
  OBVIOUS
<1> USE DEF serverVars, clientVars
<1>1. ASSUME NEW t \in Devices \cup {Master}, Call(t) PROVE TypeOK'
  BY <1>1 DEF Call, TypeOK
<1>2. CASE ScanHit
  <2>1. reply' \in Keys
    BY <1>2, FoundKeysTyped DEF ScanHit
  <2> QED
    BY <1>2, <2>1 DEF ScanHit, TypeOK
<1>3. CASE ScanMiss
  BY <1>3 DEF ScanMiss, TypeOK
<1>4. CASE QueryFull
  BY <1>4 DEF QueryFull, TypeOK
<1>5. CASE Query
  <2>1. response' \in Answer
    BY <1>5, PostOutcomesTyped DEF Query
  <2>2. offered' \in BOOLEAN /\ odd' \in BOOLEAN
    BY <1>5 DEF Query, TypeOK
  <2> QED
    BY <1>5, <2>1, <2>2 DEF Query, TypeOK
<1>6. CASE StoreMaster
  <2>1. masterKey' \in Keys \cup {NoKey} /\ todo' \in SUBSET Entry
    BY <1>6 DEF StoreMaster, TypeOK, Answer
  <2> QED
    BY <1>6, <2>1 DEF StoreMaster, TypeOK, Keys
<1>7. CASE StoreMasterUninitialised
  <2>1. [id |-> Garbage, key |-> Garbage] \in Entry /\ Garbage \in Keys
    BY DEF Entry, Keys
  <2>2. response.entries \in SUBSET Entry
    BY DEF TypeOK, Answer
  <2>3. todo' \in SUBSET Entry
    BY <1>7, <2>1, <2>2 DEF StoreMasterUninitialised
  <2> QED
    BY <1>7, <2>1, <2>3 DEF StoreMasterUninitialised, TypeOK
<1>8. ASSUME NEW e \in todo, StoreDevice(e) PROVE TypeOK'
  <2>1. e \in Entry
    BY DEF TypeOK
  <2>2. dKey' \in Keys
    BY <1>8, <2>1 DEF StoreDevice, ParsedKey, TypeOK, Entry
  <2>3. devices' \in Seq(Stored)
    <3>1. [id |-> e.id, key |-> dKey'] \in Stored
      BY <2>1, <2>2 DEF Entry, Stored
    <3> QED
      BY <1>8, <3>1 DEF StoreDevice, File, Filed, TypeOK
  <2> QED
    BY <1>8, <2>2, <2>3 DEF StoreDevice, TypeOK
<1>9. CASE StoreFull
  BY <1>9 DEF StoreFull, TypeOK
<1>10. CASE StoreDone
  BY <1>10 DEF StoreDone, TypeOK
<1>11. ASSUME NEW d \in Devices, NEW k \in Devices \X Gens, Publish(d, k)
       PROVE TypeOK'
  BY <1>11 DEF Publish, TypeOK
<1>12. ASSUME NEW d \in Devices, Withdraw(d) PROVE TypeOK'
  BY <1>12 DEF Withdraw, TypeOK
<1>13. ASSUME NEW k \in {Master} \X Gens, ResetMaster(k) PROVE TypeOK'
  BY <1>13 DEF ResetMaster, TypeOK
<1>14. CASE UNCHANGED vars
  BY <1>14 DEF vars, TypeOK
<1> QED
  BY <1>1, <1>2, <1>3, <1>4, <1>5, <1>6, <1>7, <1>8, <1>9, <1>10, <1>11,
     <1>12, <1>13, <1>14 DEF Next, Client, Account

\* Every reachable state is well typed.
THEOREM TypeCorrect == Spec => []TypeOK
<1> QED
  BY TypeInit, TypeStep, PTL DEF Spec

-----------------------------------------------------------------------------
(* The table                                                               *)

\* The only step that touches the table either leaves it alone or adds one
\* entry behind the others, for an id the table does not have, while there is
\* room.
TableStep ==
    \/ devices' = devices
    \/ \E s \in Stored : /\ devices' = Append(devices, s)
                         /\ s.id \notin Ids(devices)
                         /\ Len(devices) < NUM_DEVICES

LEMMA TableSteps == TypeOK /\ [Next]_vars => TableStep
<1> SUFFICES ASSUME TypeOK, [Next]_vars PROVE TableStep
  OBVIOUS
<1> USE DEF serverVars, clientVars, TableStep
<1>1. ASSUME NEW e \in todo, StoreDevice(e) PROVE TableStep
  <2>1. e \in Entry
    BY DEF TypeOK
  <2>2. dKey' \in Keys
    BY <1>1, <2>1 DEF StoreDevice, ParsedKey, TypeOK, Entry
  <2>3. [id |-> e.id, key |-> dKey'] \in Stored
    BY <2>1, <2>2 DEF Entry, Stored
  <2>4. Len(devices) < NUM_DEVICES
    BY <1>1, CacheAssumption DEF StoreDevice, Full, TypeOK
  <2> QED
    BY <1>1, <2>3, <2>4 DEF StoreDevice, File, Filed
<1>2. ASSUME NEW t \in Devices \cup {Master}, Call(t) PROVE TableStep
  BY <1>2 DEF Call
<1>3. CASE ScanHit \/ ScanMiss \/ QueryFull \/ Query
  BY <1>3 DEF ScanHit, ScanMiss, QueryFull, Query
<1>4. CASE StoreMaster \/ StoreMasterUninitialised \/ StoreFull \/ StoreDone
  BY <1>4 DEF StoreMaster, StoreMasterUninitialised, StoreFull, StoreDone
<1>5. CASE Account
  BY <1>5 DEF Account, Publish, Withdraw, ResetMaster
<1>6. CASE UNCHANGED vars
  BY <1>6 DEF vars
<1> QED
  BY <1>1, <1>2, <1>3, <1>4, <1>5, <1>6 DEF Next, Client

LEMMA TableSoundStep == TypeOK /\ TableSound /\ [Next]_vars => TableSound'
<1> SUFFICES ASSUME TypeOK, TableSound, TableStep PROVE TableSound'
  BY TableSteps
<1>1. CASE devices' = devices
  BY <1>1 DEF TableSound
<1>2. ASSUME NEW s \in Stored, devices' = Append(devices, s),
             s.id \notin Ids(devices), Len(devices) < NUM_DEVICES
      PROVE  TableSound'
  <2>1. devices \in Seq(Stored) /\ Len(devices) \in Nat
    BY DEF TypeOK
  <2>2. Len(devices') <= NUM_DEVICES
    BY <1>2, <2>1, CacheAssumption
  <2>3. DOMAIN devices' = DOMAIN devices \cup {Len(devices) + 1}
    BY <1>2, <2>1
  <2>4. \A i \in DOMAIN devices : devices'[i] = devices[i]
    BY <1>2, <2>1
  <2>5. devices'[Len(devices) + 1] = s
    BY <1>2, <2>1
  <2>6. \A i \in DOMAIN devices : devices[i].id # s.id
    BY <1>2 DEF Ids
  <2>7. ASSUME NEW i \in DOMAIN devices', NEW j \in DOMAIN devices',
               devices'[i].id = devices'[j].id
        PROVE  i = j
    BY <2>3, <2>4, <2>5, <2>6, <2>7 DEF TableSound
  <2> QED
    BY <2>2, <2>7 DEF TableSound
<1> QED
  BY <1>1, <1>2 DEF TableStep

\* The table never overflows and never holds a device twice, whatever the
\* answers of the server look like.
THEOREM TableIsSound == Spec => []TableSound
<1>1. Init => TableSound
  BY CacheAssumption DEF Init, TableSound
<1> QED
  BY <1>1, TableSoundStep, TypeCorrect, PTL DEF Spec

\* Once filed, a device keeps its place and its key.
THEOREM KeysArePinned == Spec => KeysPinned
<1>1. TypeOK /\ [Next]_vars =>
        [ /\ Len(devices') >= Len(devices)
          /\ \A i \in DOMAIN devices : devices'[i] = devices[i] ]_vars
  <2> SUFFICES ASSUME TypeOK, TableStep
               PROVE  /\ Len(devices') >= Len(devices)
                      /\ \A i \in DOMAIN devices : devices'[i] = devices[i]
    BY TableSteps
  <2> devices \in Seq(Stored)
    BY DEF TypeOK
  <2> QED
    BY DEF TableStep
<1> QED
  BY <1>1, TypeCorrect, PTL DEF Spec, KeysPinned

-----------------------------------------------------------------------------
(* Keys belong to the device they are filed under                          *)

\* KeysBelong is not inductive: the keys come from the account, through the
\* answer (which may be used again later) and through the entries the loop has
\* still to visit.
OfDevice(e) == e.id \in Devices /\ e.key \in KeysOf(e.id)

Held ==
    /\ \A i \in DOMAIN devices : devices[i].key \in KeysOf(devices[i].id)
    /\ masterKey \in KeysOf(Master) \cup {NoKey}
    /\ reply \in KeysOf(target) \cup {NoKey, Pending}

Genuine(a) ==
    /\ a.master \in KeysOf(Master) \cup {NoKey}
    /\ \A e \in a.entries : e.key # NoKey => OfDevice(e)

BelongInv ==
    /\ \A d \in Devices : published[d] \in KeysOf(d) \cup {NoKey}
    /\ publishedMaster \in KeysOf(Master) \cup {NoKey}
    /\ Genuine(response)
    /\ ~odd => /\ Held
               /\ pc = "master" => ~Odd(response)
               /\ pc = "store" => \A e \in todo : OfDevice(e)

LEMMA BelongInit == Init => BelongInv
<1> SUFFICES ASSUME Init PROVE BelongInv
  OBVIOUS
<1>1. Genuine(response)
  BY DEF Init, EmptyAnswer, Genuine
<1>2. Held
  BY DEF Init, Held
<1> QED
  BY <1>1, <1>2 DEF Init, BelongInv

\* Whatever the server answers, and also when the transport failed, the keys in
\* the buffer are those of the devices they are listed under.
LEMMA AnswersAreGenuine ==
    ASSUME BelongInv, NEW a \in PostOutcomes
    PROVE  Genuine(a)
<1>1. Genuine(AccountAnswer)
  BY DEF BelongInv, AccountAnswer, Genuine, OfDevice
<1>2. Genuine(EmptyAnswer)
  BY DEF EmptyAnswer, Genuine
<1>3. ASSUME NEW d \in Devices PROVE Genuine(WithoutKey(AccountAnswer, d))
  <2>1. /\ WithoutKey(AccountAnswer, d).master = AccountAnswer.master
        /\ WithoutKey(AccountAnswer, d).entries
             \subseteq AccountAnswer.entries \cup {[id |-> d, key |-> NoKey]}
    BY DEF WithoutKey, AccountAnswer
  <2> QED
    BY <1>1, <2>1 DEF Genuine
<1> QED
  BY <1>1, <1>2, <1>3 DEF PostOutcomes, FreshAnswers, BelongInv

LEMMA BelongStep == TypeOK /\ BelongInv /\ [Next]_vars => BelongInv'
<1> SUFFICES ASSUME TypeOK, BelongInv, [Next]_vars PROVE BelongInv'
  OBVIOUS
<1> USE DEF serverVars, clientVars
<1>1. ASSUME NEW t \in Devices \cup {Master}, Call(t) PROVE BelongInv'
  BY <1>1 DEF Call, BelongInv, Held, Genuine
<1>2. CASE ScanHit
  <2>1. ASSUME ~odd PROVE reply' \in KeysOf(target)
    <3>1. CASE target = Master
      BY <1>2, <2>1, <3>1 DEF ScanHit, Found, FoundKeys, BelongInv, Held
    <3>2. CASE target # Master
      <4>1. PICK i \in DOMAIN devices : /\ devices[i].id = target
                                        /\ reply' = devices[i].key
        BY <1>2, <3>2 DEF ScanHit, FoundKeys
      <4> QED
        BY <2>1, <4>1 DEF BelongInv, Held
    <3> QED
      BY <3>1, <3>2
  <2> QED
    BY <1>2, <2>1 DEF ScanHit, BelongInv, Held, Genuine
<1>3. CASE ScanMiss
  BY <1>3 DEF ScanMiss, BelongInv, Held, Genuine
<1>4. CASE QueryFull
  BY <1>4 DEF QueryFull, BelongInv, Held, Genuine
<1>5. CASE Query
  <2>1. Genuine(response')
    BY <1>5, AnswersAreGenuine DEF Query
  <2>2. ~odd' => ~odd /\ ~Odd(response')
    BY <1>5 DEF Query
  <2>3. Held => Held'
    BY <1>5 DEF Query, Held
  <2>4. UNCHANGED serverVars /\ pc' = "master"
    BY <1>5 DEF Query
  <2>5. Genuine(response)' /\ (~Odd(response') => ~Odd(response)')
    BY <2>1 DEF Genuine, Odd
  <2> QED
    BY <2>2, <2>3, <2>4, <2>5 DEF BelongInv
<1>6. CASE StoreMaster
  <2>1. ASSUME ~odd
        PROVE  /\ masterKey' \in KeysOf(Master)
               /\ \A e \in todo' : OfDevice(e)
    BY <1>6, <2>1 DEF StoreMaster, BelongInv, Genuine, Odd
  <2> QED
    BY <1>6, <2>1 DEF StoreMaster, BelongInv, Held, Genuine
<1>7. CASE StoreMasterUninitialised
  <2>1. odd /\ odd'
    BY <1>7 DEF StoreMasterUninitialised, BelongInv, Odd
  <2> QED
    BY <1>7, <2>1 DEF StoreMasterUninitialised, BelongInv, Genuine
<1>8. ASSUME NEW e \in todo, StoreDevice(e) PROVE BelongInv'
  <2>1. ASSUME ~odd PROVE Held'
    <3>1. e \in Entry /\ e.id \in Devices /\ e.key \in KeysOf(e.id)
      BY <1>8, <2>1 DEF StoreDevice, BelongInv, OfDevice, TypeOK
    <3>2. e.key \in Keys
      BY <3>1, CacheAssumption DEF Entry, KeysOf, Keys
    <3>3. dKey' = e.key
      BY <1>8, <3>2, CacheAssumption DEF StoreDevice, ParsedKey
    <3>4. devices \in Seq(Stored)
      BY DEF TypeOK
    <3>5. \A i \in DOMAIN devices' :
             devices'[i].key \in KeysOf(devices'[i].id)
      <4>1. CASE devices' = devices
        BY <2>1, <4>1 DEF BelongInv, Held
      <4>2. CASE devices' = Append(devices, [id |-> e.id, key |-> e.key])
        BY <2>1, <3>1, <3>4, <4>2 DEF BelongInv, Held
      <4> QED
        BY <1>8, <3>3, <4>1, <4>2 DEF StoreDevice, File, Filed
    <3> QED
      BY <1>8, <2>1, <3>5 DEF StoreDevice, BelongInv, Held
  <2> QED
    BY <1>8, <2>1 DEF StoreDevice, BelongInv, Genuine
<1>9. CASE StoreFull
  BY <1>9 DEF StoreFull, BelongInv, Held, Genuine
<1>10. CASE StoreDone
  BY <1>10 DEF StoreDone, BelongInv, Held, Genuine
<1>11. ASSUME NEW d \in Devices, NEW k \in Devices \X Gens, Publish(d, k)
       PROVE BelongInv'
  <2>1. (\A x \in Devices : published[x] \in KeysOf(x) \cup {NoKey})'
    BY <1>11 DEF Publish, BelongInv, TypeOK
  <2> QED
    BY <1>11, <2>1 DEF Publish, BelongInv, Held, Genuine, Odd
<1>12. ASSUME NEW d \in Devices, Withdraw(d) PROVE BelongInv'
  <2>1. (\A x \in Devices : published[x] \in KeysOf(x) \cup {NoKey})'
    BY <1>12 DEF Withdraw, BelongInv, TypeOK
  <2> QED
    BY <1>12, <2>1 DEF Withdraw, BelongInv, Held, Genuine, Odd
<1>13. ASSUME NEW k \in {Master} \X Gens, ResetMaster(k) PROVE BelongInv'
  BY <1>13 DEF ResetMaster, BelongInv, Held, Genuine, Odd
<1>14. CASE UNCHANGED vars
  BY <1>14 DEF vars, BelongInv, Held, Genuine, Odd
<1> QED
  BY <1>1, <1>2, <1>3, <1>4, <1>5, <1>6, <1>7, <1>8, <1>9, <1>10, <1>11,
     <1>12, <1>13, <1>14 DEF Next, Client, Account

\* Until an irregular answer is used, every key the client holds or hands out
\* is one its owner generated, also when posts fail and answers are used twice.
THEOREM KeysDoBelong == Spec => []KeysBelong
<1>1. BelongInv => KeysBelong
  BY DEF BelongInv, Held, KeysBelong
<1> QED
  BY <1>1, BelongInit, BelongStep, TypeCorrect, PTL DEF Spec

-----------------------------------------------------------------------------
(* A lookup gives up only for a reason                                     *)

\* Where a target that was offered can be: found, left out by a full table,
\* or still to come out of the answer at hand.
Reached == Found(target) \/ (target \in Devices /\ Full)

MissInv ==
    /\ response.kind = "error" => response.entries = {}
    /\ pc = "query" => ~Found(target)
    /\ offered =>
          /\ pc \in {"scan", "query"} => Reached
          /\ pc = "master" => \/ Reached
                              \/ target = Master /\ response.master # NoKey
                              \/ /\ target \in Devices
                                 /\ target \in { e.id : e \in response.entries }
          /\ pc = "store"  => \/ Reached
                              \/ /\ target \in Devices
                                 /\ target \in { e.id : e \in todo }
          /\ pc = "idle" /\ reply = NoKey => target \in Devices /\ Full

\* A row once in the table stays findable, and a full table stays full.
LEMMA ReachedStays ==
    ASSUME TypeOK, TableStep, target' = target, Reached,
           masterKey # NoKey => masterKey' # NoKey
    PROVE  Reached'
<1>1. devices \in Seq(Stored) /\ NUM_DEVICES \in Nat
  BY CacheAssumption DEF TypeOK
<1>2. Len(devices') >= Len(devices) /\ Len(devices') \in Nat
  BY <1>1 DEF TableStep
<1>3. Ids(devices) \subseteq Ids(devices')
  <2>1. CASE devices' = devices
    BY <2>1 DEF Ids
  <2>2. ASSUME NEW s \in Stored, devices' = Append(devices, s)
        PROVE  Ids(devices) \subseteq Ids(devices')
    BY <1>1, <2>2 DEF Ids
  <2> QED
    BY <2>1, <2>2 DEF TableStep
<1> QED
  BY <1>1, <1>2, <1>3 DEF Reached, Found, Full

LEMMA MissInit == Init => MissInv
BY DEF Init, MissInv, EmptyAnswer

LEMMA MissStep == TypeOK /\ MissInv /\ [Next]_vars => MissInv'
<1> SUFFICES ASSUME TypeOK, MissInv, [Next]_vars PROVE MissInv'
  OBVIOUS
<1> USE DEF serverVars, clientVars
<1>1. TableStep
  BY TableSteps
<1>2. ASSUME NEW t \in Devices \cup {Master}, Call(t) PROVE MissInv'
  BY <1>2 DEF Call, MissInv
<1>3. CASE ScanHit
  <2>1. reply' # NoKey
    BY <1>3, FoundKeysTyped, CacheAssumption DEF ScanHit
  <2> QED
    BY <1>3, <2>1 DEF ScanHit, MissInv
<1>4. CASE ScanMiss
  <2>1. offered => target \in Devices /\ Full
    BY <1>4 DEF ScanMiss, MissInv, Reached
  <2>2. UNCHANGED <<devices, masterKey, target, response, offered>>
    BY <1>4 DEF ScanMiss
  <2> QED
    BY <1>4, <2>1, <2>2 DEF ScanMiss, MissInv, Reached, Found, Full, Ids
<1>5. CASE QueryFull
  BY <1>5 DEF QueryFull, MissInv, Reached, Found, Full
<1>6. CASE Query
  <2>1. response' \in Answer
    BY <1>6, PostOutcomesTyped DEF Query
  <2>2. (response.kind = "error" => response.entries = {})'
    <3>1. response' \in FreshAnswers \/ response' = response
      BY <1>6 DEF Query, PostOutcomes
    <3>2. AccountAnswer.kind = "keys"
      BY DEF AccountAnswer
    <3>3. \A d \in Devices : WithoutKey(AccountAnswer, d).kind = "keys"
      BY DEF WithoutKey, AccountAnswer
    <3>4. EmptyAnswer.entries = {}
      BY DEF EmptyAnswer
    <3> QED
      BY <3>1, <3>2, <3>3, <3>4 DEF MissInv, FreshAnswers
  <2>3. ASSUME offered', ~Reached
        PROVE  \/ target = Master /\ response'.master # NoKey
               \/ /\ target \in Devices
                  /\ target \in { e.id : e \in response'.entries }
    <3>1. ~offered
      BY <1>6, <2>3 DEF Query, MissInv
    <3>2. \A e \in response'.entries : e.id \in Devices \cup {Garbage}
      BY <2>1 DEF Answer, Entry
    <3> QED
      BY <1>6, <2>3, <3>1, <3>2, CacheAssumption DEF Query, TypeOK
  <2>4. Reached' <=> Reached
    BY <1>6 DEF Query, Reached, Found, Full
  <2> QED
    BY <1>6, <2>2, <2>3, <2>4 DEF Query, MissInv
<1>7. CASE StoreMaster
  <2>1. Reached => Reached'
    BY <1>7 DEF StoreMaster, Reached, Found, Full
  <2>2. target = Master => Reached'
    BY <1>7 DEF StoreMaster, Reached, Found
  <2> QED
    BY <1>7, <2>1, <2>2 DEF StoreMaster, MissInv
<1>8. CASE StoreMasterUninitialised
  <2>1. Garbage # NoKey
    BY CacheAssumption DEF Keys
  <2>2. Reached => Reached'
    BY <1>8, <2>1 DEF StoreMasterUninitialised, Reached, Found, Full
  <2>3. response.kind = "error" \/ todo' = response.entries
    BY <1>8 DEF StoreMasterUninitialised
  <2> QED
    BY <1>8, <2>2, <2>3 DEF StoreMasterUninitialised, MissInv
<1>9. ASSUME NEW e \in todo, StoreDevice(e) PROVE MissInv'
  <2>1. Reached => Reached'
    BY <1>1, <1>9, ReachedStays DEF StoreDevice
  <2>2. target \in Devices /\ target = e.id => Reached'
    <3> SUFFICES ASSUME target \in Devices, target = e.id
                 PROVE  target \in Ids(devices')
      BY <1>9, CacheAssumption DEF StoreDevice, Reached, Found
    <3>1. devices \in Seq(Stored)
      BY DEF TypeOK
    <3>2. CASE e.id \in Ids(devices)
      BY <1>9, <3>2 DEF StoreDevice, File, Filed
    <3>3. CASE e.id \notin Ids(devices)
      <4>1. devices' = Append(devices, [id |-> e.id, key |-> dKey'])
        BY <1>9, <3>3 DEF StoreDevice, File, Filed
      <4>2. /\ Len(devices) + 1 \in DOMAIN devices'
            /\ devices'[Len(devices) + 1] = [id |-> e.id, key |-> dKey']
        BY <3>1, <4>1
      <4> QED
        BY <4>2 DEF Ids
    <3> QED
      BY <3>2, <3>3
  <2> QED
    BY <1>9, <2>1, <2>2 DEF StoreDevice, MissInv
<1>10. CASE StoreFull
  <2>1. offered => Reached
    BY <1>10 DEF StoreFull, MissInv, Reached
  <2>2. Reached' <=> Reached
    BY <1>10 DEF StoreFull, Reached, Found, Full
  <2> QED
    BY <1>10, <2>1, <2>2 DEF StoreFull, MissInv
<1>11. CASE StoreDone
  <2>1. offered => Reached
    BY <1>11 DEF StoreDone, MissInv
  <2>2. Reached' <=> Reached
    BY <1>11 DEF StoreDone, Reached, Found, Full
  <2> QED
    BY <1>11, <2>1, <2>2 DEF StoreDone, MissInv
<1>12. CASE Account \/ UNCHANGED vars
  <2>1. UNCHANGED <<clientVars, pc, target, todo, reply, offered>>
    BY <1>12 DEF Account, Publish, Withdraw, ResetMaster, vars
  <2> QED
    BY <2>1 DEF MissInv, Reached, Found, Full, Ids
<1> QED
  BY <1>2, <1>3, <1>4, <1>5, <1>6, <1>7, <1>8, <1>9, <1>10, <1>11, <1>12
  DEF Next, Client

\* No lookup fails on a key that an answer carried while there was room for it.
THEOREM MissesAreExplained == Spec => []MissExplained
<1>1. TypeOK /\ TableSound /\ MissInv => MissExplained
  BY CacheAssumption DEF TypeOK, TableSound, MissInv, MissExplained, Full
<1> QED
  BY <1>1, MissInit, MissStep, TypeCorrect, TableIsSound, PTL DEF Spec

-----------------------------------------------------------------------------
(* The cache implements the directory                                      *)

LEMMA DirectoryInit == Init => Directory!Init
BY DEF Init, Directory!Init

\* A lookup in progress has no reply yet, and one that returned has.
ReplyInv == (pc = "idle") <=> (reply # Pending)

LEMMA ReplyInit == Init => ReplyInv
BY CacheAssumption DEF Init, ReplyInv

LEMMA ReplyStep == TypeOK /\ ReplyInv /\ [Next]_vars => ReplyInv'
<1> SUFFICES ASSUME TypeOK, ReplyInv, [Next]_vars PROVE ReplyInv'
  OBVIOUS
<1> USE DEF serverVars, clientVars, ReplyInv
<1>0. Pending # NoKey /\ Pending \notin Keys
  BY CacheAssumption
<1>1. ASSUME NEW t \in Devices \cup {Master}, Call(t) PROVE ReplyInv'
  BY <1>1 DEF Call
<1>2. CASE ScanHit
  BY <1>0, <1>2, FoundKeysTyped DEF ScanHit
<1>3. CASE ScanMiss
  BY <1>0, <1>3 DEF ScanMiss
<1>4. CASE QueryFull \/ Query
  BY <1>4 DEF QueryFull, Query
<1>5. CASE StoreMaster \/ StoreMasterUninitialised
  BY <1>5 DEF StoreMaster, StoreMasterUninitialised
<1>6. CASE (\E e \in todo : StoreDevice(e)) \/ StoreFull \/ StoreDone
  BY <1>6 DEF StoreDevice, StoreFull, StoreDone
<1>7. CASE Account \/ UNCHANGED vars
  BY <1>7 DEF Account, Publish, Withdraw, ResetMaster, vars
<1> QED
  BY <1>1, <1>2, <1>3, <1>4, <1>5, <1>6, <1>7 DEF Next, Client

\* The table as the directory sees it.
Pairs == { <<devices[i].id, devices[i].key>> : i \in DOMAIN devices }

\* Filing a device is learning it.
LEMMA FilingLearns ==
    ASSUME TypeOK, pc # "idle", ReplyInv, NEW e \in todo, StoreDevice(e)
    PROVE  [Directory!Next]_(Directory!vars)
<1> USE DEF serverVars, clientVars, Directory!vars
<1>0. dKey' \in Keys
  BY DEF TypeOK, StoreDevice, ParsedKey, Entry
<1>1. PICK k \in Keys : k = dKey'
  BY <1>0
<1>2. devices \in Seq(Stored)
  BY DEF TypeOK
<1>3. CASE e.id \in Ids(devices)
  BY <1>3 DEF StoreDevice, File, Filed
<1>4. CASE e.id \notin Ids(devices)
  <2>1. devices' = Append(devices, [id |-> e.id, key |-> k])
    BY <1>1, <1>4 DEF StoreDevice, File, Filed
  <2>2. DOMAIN devices' = DOMAIN devices \cup {Len(devices) + 1}
    BY <1>2, <2>1
  <2>3. \A i \in DOMAIN devices : devices'[i] = devices[i]
    BY <1>2, <2>1
  <2>4. devices'[Len(devices) + 1] = [id |-> e.id, key |-> k]
    BY <1>2, <2>1
  <2>5. Pairs' = Pairs \cup {<<e.id, k>>}
    BY <2>2, <2>3, <2>4 DEF Pairs
  <2>6. e.id \notin { p[1] : p \in Pairs }
    BY <1>4 DEF Ids, Pairs
  <2>7. e.id \in (Devices \cup {Master, Garbage}) \ {Master}
    BY CacheAssumption DEF TypeOK, Entry
  <2>8. reply = Pending /\ UNCHANGED <<masterKey, target, reply>>
    <3>1. pc = "store" /\ UNCHANGED <<masterKey, target, reply>>
      BY DEF StoreDevice
    <3> QED
      BY <3>1 DEF ReplyInv
  <2>9. Directory!Learn(e.id, k)
    BY <2>5, <2>6, <2>8 DEF Directory!Learn, Directory!KnownIds, Pairs
  <2> QED
    BY <2>7, <2>9 DEF Directory!Next
<1> QED
  BY <1>3, <1>4

\* A scan that ends the lookup is an answer of the directory.
LEMMA ScanAnswers ==
    ASSUME TypeOK, ReplyInv, ScanHit \/ ScanMiss
    PROVE  [Directory!Next]_(Directory!vars)
<1> USE DEF serverVars, clientVars, Directory!vars
<1>1. reply = Pending
  BY DEF ScanHit, ScanMiss, ReplyInv
<1>2. CASE reply' = reply
  BY <1>2 DEF ScanHit, ScanMiss
<1>3. CASE reply' # reply /\ target = Master
  <2>1. reply' = masterKey
    BY <1>3 DEF ScanHit, ScanMiss, Found, FoundKeys
  <2>2. Directory!AnswerMaster
    BY <1>1, <1>3, <2>1 DEF ScanHit, ScanMiss, Directory!AnswerMaster
  <2> QED
    BY <2>2 DEF Directory!Next
<1>4. CASE reply' # reply /\ target # Master
  <2>1. CASE ScanHit
    <3>1. PICK i \in DOMAIN devices : /\ devices[i].id = target
                                      /\ reply' = devices[i].key
      BY <1>4, <2>1 DEF ScanHit, FoundKeys
    <3>2. <<target, reply'>> \in Pairs
      BY <3>1 DEF Pairs
    <3>3. Directory!AnswerDevice
      BY <1>1, <1>4, <2>1, <3>2 DEF ScanHit, Directory!AnswerDevice, Pairs
    <3> QED
      BY <3>3 DEF Directory!Next
  <2>2. CASE ScanMiss
    <3>1. target \notin Ids(devices) /\ reply' = NoKey
      BY <1>4, <2>2 DEF ScanMiss, Found
    <3>2. target \notin { p[1] : p \in Pairs }
      BY <3>1 DEF Ids, Pairs
    <3>3. Directory!AnswerDevice
      BY <1>1, <1>4, <2>2, <3>1, <3>2 DEF ScanMiss, Directory!AnswerDevice,
                                          Directory!KnownIds, Pairs
    <3> QED
      BY <3>3 DEF Directory!Next
  <2> QED
    BY <2>1, <2>2
<1> QED
  BY <1>2, <1>3, <1>4

\* Every step of the cache is a step of the directory or leaves it alone.
LEMMA DirectoryStep ==
    TypeOK /\ ReplyInv /\ [Next]_vars => [Directory!Next]_(Directory!vars)
<1> SUFFICES ASSUME TypeOK, ReplyInv, [Next]_vars
             PROVE  [Directory!Next]_(Directory!vars)
  OBVIOUS
<1> USE DEF serverVars, clientVars, Directory!vars
<1>1. ASSUME NEW t \in Devices \cup {Master}, Call(t)
      PROVE  [Directory!Next]_(Directory!vars)
  <2>1. Directory!Ask(t)
    BY <1>1 DEF Call, Directory!Ask, ReplyInv
  <2> QED
    BY <2>1 DEF Directory!Next
<1>2. CASE ScanHit \/ ScanMiss
  BY <1>2, ScanAnswers
<1>3. CASE QueryFull \/ Query \/ StoreFull \/ StoreDone
  BY <1>3 DEF QueryFull, Query, StoreFull, StoreDone
<1>4. CASE StoreMaster \/ StoreMasterUninitialised
  <2>1. masterKey' = masterKey \/ masterKey' \in Keys
    BY <1>4 DEF StoreMaster, StoreMasterUninitialised, TypeOK, Answer, Keys
  <2>2. UNCHANGED <<devices, target, reply>> /\ reply = Pending
    BY <1>4 DEF StoreMaster, StoreMasterUninitialised, ReplyInv
  <2>3. CASE masterKey' \in Keys
    <3>1. Directory!LearnMaster(masterKey')
      BY <2>2 DEF Directory!LearnMaster
    <3> QED
      BY <2>3, <3>1 DEF Directory!Next
  <2> QED
    BY <2>1, <2>2, <2>3
<1>5. ASSUME NEW e \in todo, StoreDevice(e)
      PROVE  [Directory!Next]_(Directory!vars)
  <2>1. pc # "idle"
    BY <1>5 DEF StoreDevice
  <2> QED
    BY <1>5, <2>1, FilingLearns
<1>6. CASE Account \/ UNCHANGED vars
  BY <1>6 DEF Account, Publish, Withdraw, ResetMaster, vars
<1> QED
  BY <1>1, <1>2, <1>3, <1>4, <1>5, <1>6 DEF Next, Client

\* The cache keeps what KeyDirectory promises: it pins what it learns and
\* answers from what it has learnt.
THEOREM CacheImplementsDirectory == Spec => ImplementsDirectory
<1>1. Spec => []ReplyInv
  BY ReplyInit, ReplyStep, TypeCorrect, PTL DEF Spec
<1> QED
  BY <1>1, DirectoryInit, DirectoryStep, TypeCorrect, PTL
  DEF Spec, ImplementsDirectory, Directory!Spec

=============================================================================
