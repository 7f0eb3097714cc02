-------------------------- MODULE OneTimeKeysProofs --------------------------
(***************************************************************************)
(* Theorems about OneTimeKeys, for any number of keys and devices.         *)
(*                                                                         *)
(* The properties rest on the shape of the two lists: the account holds    *)
(* the newest keys, numbered downwards without a gap, and the text, as old *)
(* as it may be, is such a list from the beginning of the account.         *)
(***************************************************************************)
EXTENDS OneTimeKeys, TLAPS

\* The newest keys, as many as the account holds.
AccountInv ==
    /\ Len(keys) = IF generated < MaxKeys THEN generated ELSE MaxKeys
    /\ \A n \in 1 .. Len(keys) : keys[n] = generated + 1 - n

\* The first keys of the account: what was listed when it had no more.
ListInv ==
    list # NoList =>
        /\ Len(list) <= generated
        /\ \A n \in 1 .. Len(list) : list[n] = Len(list) + 1 - n

\* Whatever the server or a device has was offered.
OfferedInv ==
    /\ pool \subseteq offered
    /\ \A c \in claims : c[2] \in offered

IInv == TypeOK /\ AccountInv /\ ListInv /\ OfferedInv /\ OfferedInTime

-----------------------------------------------------------------------------

\* An account without keys has nothing to offer.
LEMMA InvInit == Init => IInv
<1> SUFFICES ASSUME Init PROVE IInv
  OBVIOUS
<1>1. MaxGenerated \in Nat /\ MaxKeys \in Nat /\ 0 < MaxKeys
  BY KeysAssumption
<1>2. TypeOK
  <2>1. keys \in Seq(Keys) /\ Len(keys) <= MaxKeys
    BY <1>1 DEF Init
  <2>2. generated \in 0 .. MaxGenerated
    BY <1>1 DEF Init
  <2> QED
    BY <2>1, <2>2 DEF Init, TypeOK
<1>3. AccountInv
  BY <1>1 DEF Init, AccountInv
<1>4. ListInv /\ OfferedInv /\ OfferedInTime
  BY DEF Init, ListInv, OfferedInv, OfferedInTime, Keys
<1> QED
  BY <1>2, <1>3, <1>4 DEF IInv

\* New keys come to the front and push the oldest out.
LEMMA GenerateInv ==
    ASSUME IInv, NEW n \in 1 .. RandomKeys, Generate(n)
    PROVE  IInv'
<1> DEFINE new == [k \in 1 .. n |-> generated + n + 1 - k]
           all == new \o keys
           len == IF Len(all) < MaxKeys THEN Len(all) ELSE MaxKeys
<1>0. /\ RandomKeys \in Nat /\ MaxKeys \in Nat /\ MaxGenerated \in Nat /\ n \in Nat
      /\ generated \in Nat /\ Len(keys) \in Nat /\ n >= 1
      /\ generated' = generated + n /\ generated + n <= MaxGenerated
  BY KeysAssumption DEF Generate, IInv, TypeOK
<1>1. new \in Seq(1 .. generated + n) /\ Len(new) = n
  BY <1>0
<1>2. keys \in Seq(1 .. generated + n)
  BY <1>0 DEF IInv, TypeOK, Keys
<1>3. /\ all \in Seq(1 .. generated + n)
      /\ Len(all) = n + Len(keys)
      /\ \A k \in 1 .. Len(all) : all[k] = IF k <= n THEN new[k] ELSE keys[k - n]
  BY <1>0, <1>1, <1>2
<1>4. \A k \in 1 .. Len(all) : all[k] = generated + n + 1 - k
  BY <1>0, <1>3 DEF IInv, AccountInv
<1>5. /\ len \in 0 .. Len(all)
      /\ len = IF generated' < MaxKeys THEN generated' ELSE MaxKeys
  BY <1>0, <1>3 DEF IInv, AccountInv
<1>6. keys' = SubSeq(all, 1, len)
  BY DEF Generate, Inserted
<1> HIDE DEF new, all, len
<1>7. /\ keys' \in Seq(1 .. generated')
      /\ Len(keys') = len
      /\ \A k \in 1 .. len : keys'[k] = all[k]
  BY <1>0, <1>3, <1>5, <1>6
<1>8. AccountInv'
  <2>1. \A k \in 1 .. len : keys'[k] = generated' + 1 - k
    <3> SUFFICES ASSUME NEW k \in 1 .. len PROVE keys'[k] = generated' + 1 - k
      OBVIOUS
    <3>1. k \in 1 .. Len(all) /\ k \in Nat
      BY <1>0, <1>3, <1>5
    <3> QED
      BY <1>0, <1>4, <1>7, <3>1
  <2> QED
    BY <1>5, <1>7, <2>1 DEF AccountInv
<1>9. TypeOK'
  <2>1. list' \in Seq(1 .. generated') \cup {NoList}
    BY <1>0 DEF Generate, IInv, TypeOK, Keys
  <2>2. Len(keys') <= MaxKeys
    BY <1>0, <1>5, <1>7
  <2>3. Keys \subseteq Keys' /\ claims' \subseteq Devices \X Keys'
    BY <1>0 DEF Keys, Generate, IInv, TypeOK
  <2> QED
    <3>1. Keys' = 1 .. generated' /\ generated' \in 0 .. MaxGenerated
      BY <1>0 DEF Keys
    <3>2. /\ crashed' \in BOOLEAN /\ fresh' \in BOOLEAN
          /\ pool' = pool /\ offered' = offered
          /\ pool \subseteq Keys /\ offered \subseteq Keys
      BY DEF Generate, IInv, TypeOK
    <3> QED
      BY <1>7, <2>1, <2>2, <2>3, <3>1, <3>2 DEF TypeOK
<1>10. ListInv' /\ OfferedInv' /\ OfferedInTime'
  <2>1. list # NoList => Len(list) \in Nat
    BY DEF IInv, TypeOK
  <2> QED
    BY <1>0, <2>1 DEF Generate, IInv, ListInv, OfferedInv, OfferedInTime
<1> QED
  BY <1>8, <1>9, <1>10 DEF IInv

\* The text is a list of the first keys before and after it is written, and it is
\* all of them unless it did not fit.
LEMMA ListedInv ==
    ASSUME IInv
    PROVE  LET l == Listed(keys) IN
           l # NoList =>
             /\ l \in Seq(Keys)
             /\ Len(l) <= generated
             /\ \A n \in 1 .. Len(l) : l[n] = Len(l) + 1 - n
             /\ generated <= ListCap => Len(l) = generated
<1>0. /\ ListCap \in Nat /\ MaxKeys \in Nat /\ ListCap < MaxKeys
      /\ generated \in Nat /\ Len(keys) \in Nat
  BY KeysAssumption DEF IInv, TypeOK
<1>1. CASE Len(keys) <= ListCap
  BY <1>0, <1>1 DEF Listed, IInv, TypeOK, AccountInv
<1>2. CASE ~ (Len(keys) <= ListCap)
  BY <1>0, <1>2 DEF Listed, IInv, TypeOK, AccountInv, ListInv
<1> QED
  BY <1>1, <1>2

\* A request has the whole of such a list or nothing: nothing beyond what fits,
\* and all keys while they fit.
LEMMA RequestedInv ==
    ASSUME IInv, NEW l, l = Listed(keys), l # NoList
    PROVE  /\ Requested(l) \subseteq Keys
           /\ Requested(l) \subseteq 1 .. RequestCap
           /\ generated <= RequestCap => Requested(l) = Keys
<1>0. /\ ListCap \in Nat /\ RequestCap \in Nat /\ RequestCap <= ListCap
      /\ generated \in Nat
  BY KeysAssumption DEF IInv, TypeOK
<1>1. /\ l \in Seq(Keys) /\ Len(l) \in Nat /\ DOMAIN l = 1 .. Len(l)
      /\ Len(l) <= generated
      /\ \A n \in 1 .. Len(l) : l[n] = Len(l) + 1 - n
      /\ generated <= ListCap => Len(l) = generated
  BY ListedInv
<1>2. ToSet(l) = 1 .. Len(l)
  <2>1. ASSUME NEW k \in 1 .. Len(l) PROVE k \in ToSet(l)
    <3>1. Len(l) + 1 - k \in DOMAIN l /\ l[Len(l) + 1 - k] = k
      BY <1>1
    <3> QED
      BY <3>1 DEF ToSet
  <2>2. ASSUME NEW k \in ToSet(l) PROVE k \in 1 .. Len(l)
    BY <1>1 DEF ToSet
  <2> QED
    BY <2>1, <2>2
<1> DEFINE len == Len(l)
<1>5. len \in Nat /\ len <= generated /\ (generated <= ListCap => len = generated)
  BY <1>1
<1>3. CASE Len(l) <= RequestCap
  <2>0. len <= RequestCap
    BY <1>3
  <2>1. Requested(l) = 1 .. len
    BY <1>2, <1>3 DEF Requested
  <2> HIDE DEF len
  <2>2. generated <= RequestCap => len = generated
    BY <1>0, <1>5
  <2>3. 1 .. len \subseteq 1 .. generated /\ 1 .. len \subseteq 1 .. RequestCap
    BY <1>0, <1>5, <2>0
  <2> QED
    BY <2>1, <2>2, <2>3 DEF Keys
<1>4. CASE ~ (Len(l) <= RequestCap)
  <2>1. Requested(l) = {}
    BY <1>4 DEF Requested
  <2>2. ~ (len <= RequestCap)
    BY <1>4
  <2> HIDE DEF len
  <2>3. ~ (generated <= RequestCap)
    BY <1>0, <1>5, <2>2
  <2> QED
    BY <2>1, <2>3
<1> QED
  BY <1>3, <1>4

\* What arrives is in time, and what does not leaves everything as it was.
LEMMA UploadInv == IInv /\ Upload => IInv'
<1> SUFFICES ASSUME IInv, Upload PROVE IInv'
  OBVIOUS
<1>1. list' = Listed(keys) /\ list' # NoList
  BY DEF Upload
<1>2. /\ keys' = keys /\ generated' = generated
      /\ crashed' = crashed /\ claims' = claims
  BY DEF Upload
<1>3. ListInv' /\ list' \in Seq(Keys)
  BY <1>1, <1>2, ListedInv DEF ListInv
<1>4. CASE Accept(Requested(list'))
  <2>1. /\ Requested(list') \subseteq Keys
        /\ Requested(list') \subseteq 1 .. RequestCap
        /\ generated <= RequestCap => Requested(list') = Keys
    BY <1>1, RequestedInv
  <2> QED
    BY <1>2, <1>3, <1>4, <2>1
    DEF Accept, IInv, TypeOK, AccountInv, OfferedInv, OfferedInTime, Keys
<1>5. CASE UNCHANGED <<pool, offered, fresh>>
  BY <1>2, <1>3, <1>5
  DEF IInv, TypeOK, AccountInv, OfferedInv, OfferedInTime, Keys
<1> QED
  BY <1>4, <1>5 DEF Upload

\* Without a list there are more keys than a request holds.
LEMMA UploadUnlistedInv == IInv /\ UploadUnlisted => IInv'
<1> SUFFICES ASSUME IInv, UploadUnlisted PROVE IInv'
  OBVIOUS
<1>1. ~ (generated <= RequestCap)
  <2>1. /\ ListCap \in Nat /\ RequestCap \in Nat /\ RequestCap <= ListCap
        /\ generated \in Nat /\ MaxKeys \in Nat /\ ListCap < MaxKeys
    BY KeysAssumption DEF IInv, TypeOK
  <2>2. keys # NoList
    <3>1. keys \in Seq(Nat)
      BY DEF IInv, TypeOK, Keys
    <3> QED
      BY <3>1, KeysAssumption
  <2>3. Len(keys) > ListCap
    BY <2>2, <2>1 DEF UploadUnlisted, Listed, IInv, TypeOK
  <2> QED
    BY <2>1, <2>3 DEF IInv, AccountInv
<1>2. /\ keys' = keys /\ generated' = generated /\ list' = list
      /\ claims' = claims /\ pool' = pool /\ offered' = offered
      /\ crashed' \in BOOLEAN /\ fresh' \in BOOLEAN
  BY DEF UploadUnlisted, Accept, IInv, TypeOK
<1> QED
  BY <1>1, <1>2
  DEF IInv, TypeOK, AccountInv, ListInv, OfferedInv, OfferedInTime, Keys

\* Every step keeps the invariant; what the server and the devices do moves
\* offered keys.
LEMMA InvStep == IInv /\ [Next]_vars => IInv'
<1> SUFFICES ASSUME IInv, [Next]_vars PROVE IInv'
  OBVIOUS
<1>1. ASSUME NEW n \in 1 .. RandomKeys, Generate(n) PROVE IInv'
  BY <1>1, GenerateInv
<1>2. CASE Upload
  BY <1>2, UploadInv
<1>3. CASE UploadUnlisted
  BY <1>3, UploadUnlistedInv
<1>4. ASSUME NEW d \in Devices, NEW k \in 1 .. MaxGenerated, Open(d, k) PROVE IInv'
  BY <1>4 DEF Open, KeysAfter, IInv, TypeOK, AccountInv, ListInv, OfferedInv,
              OfferedInTime, Keys
<1>5. ASSUME NEW d \in Devices, NEW k \in pool, Claim(d, k) PROVE IInv'
  <2>1. k \in Keys /\ k \in offered
    BY DEF IInv, TypeOK, OfferedInv
  <2> QED
    <3>1. /\ pool' \subseteq pool
          /\ claims' = claims \cup {<<d, k>>}
          /\ UNCHANGED <<keys, generated, list, crashed, offered, fresh>>
      BY <1>5 DEF Claim
    <3>2. claims' \subseteq Devices \X Keys
      BY <2>1, <3>1 DEF IInv, TypeOK
    <3>3. OfferedInv'
      BY <2>1, <3>1 DEF IInv, OfferedInv
    <3> QED
      BY <3>1, <3>2, <3>3 DEF IInv, TypeOK, AccountInv, ListInv, OfferedInTime, Keys
<1>6. CASE UNCHANGED vars
  BY <1>6 DEF vars, IInv, TypeOK, AccountInv, ListInv, OfferedInv,
              OfferedInTime, Keys
<1> QED
  BY <1>1, <1>2, <1>3, <1>4, <1>5, <1>6 DEF Next, Client

\* The invariant holds from the start.
LEMMA Invariant == Spec => []IInv
  BY InvInit, InvStep, PTL DEF Spec

-----------------------------------------------------------------------------

\* The account and what the server and the devices have of it keep their types.
THEOREM TypeCorrect == Spec => []TypeOK
<1>1. IInv => TypeOK
  BY DEF IInv
<1> QED
  BY <1>1, Invariant, PTL

\* Whichever of the keys a device is given, the account can open a session with
\* it, for accounts and limits of any size.
THEOREM KeysAreUsable == Spec => []KeysUsable
<1>1. IInv => KeysUsable
  <2> SUFFICES ASSUME IInv, NEW k \in pool \cup { c[2] : c \in claims },
                      ~ (generated - k >= MaxKeys)
               PROVE  k \in ToSet(keys)
    BY DEF KeysUsable
  <2>1. k \in 1 .. generated /\ generated \in Nat /\ MaxKeys \in Nat
    BY KeysAssumption DEF IInv, TypeOK, OfferedInv, Keys
  <2>2. /\ generated + 1 - k \in 1 .. Len(keys)
        /\ keys[generated + 1 - k] = k
    BY <2>1 DEF IInv, TypeOK, AccountInv
  <2> QED
    BY <2>2 DEF IInv, TypeOK, ToSet
<1> QED
  BY <1>1, Invariant, PTL

\* An account offers its first RequestCap keys, all of them whenever an upload
\* arrives, and none after.
THEOREM KeysAreOfferedInTime == Spec => []OfferedInTime
<1>1. IInv => OfferedInTime
  BY DEF IInv
<1> QED
  BY <1>1, Invariant, PTL

=============================================================================
