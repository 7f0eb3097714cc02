-------------------------- MODULE CanonicalizeProofs --------------------------
(***************************************************************************)
(* Theorems about Canonicalize: the exchange sort puts the keys of any     *)
(* object in order and loses none, and the merges write the entries in     *)
(* this order, which is the one of canonical JSON for plain keys.          *)
(***************************************************************************)
EXTENDS Canonicalize, WellFoundedInduction, TLAPS

USE DEF Key

-----------------------------------------------------------------------------
(* Least elements                                                          *)

NatLess == { pair \in Nat \X Nat : pair[1] < pair[2] }

LEMMA FirstOf ==
    ASSUME NEW S \in SUBSET Nat, S # {}
    PROVE  \E k \in S : \A l \in S : k <= l
<1>1. IsWellFoundedOn(NatLess, Nat)
  BY NatLessThanWellFounded DEF OpToRel, NatLess
<1>2. PICK k \in S : \A l \in S : <<l, k>> \notin NatLess
  BY <1>1, WFMin
<1>3. \A l \in S : ~ (l < k)
  BY <1>2 DEF NatLess
<1> QED
  BY <1>3

-----------------------------------------------------------------------------
(* The comparison is a strict order                                        *)

\* What is greater than something greater is greater: strncmp on the shorter
\* length can be sorted by, though it calls a beginning equal to the whole.
LEMMA GreaterTransitive ==
    ASSUME NEW a \in Key, NEW b \in Key, NEW c \in Key,
           Greater(a, b), Greater(b, c)
    PROVE  Greater(a, c)
<1>1. PICK p \in DOMAIN a \cap DOMAIN b :
        a[p] > b[p] /\ \A m \in 1 .. p - 1 : a[m] = b[m]
  BY DEF Greater
<1>2. PICK q \in DOMAIN b \cap DOMAIN c :
        b[q] > c[q] /\ \A m \in 1 .. q - 1 : b[m] = c[m]
  BY DEF Greater
<1>3. /\ DOMAIN a = 1 .. Len(a) /\ DOMAIN b = 1 .. Len(b) /\ DOMAIN c = 1 .. Len(c)
      /\ Len(a) \in Nat /\ Len(b) \in Nat /\ Len(c) \in Nat
  OBVIOUS
<1>4. CASE p <= q
  <2>1. p \in DOMAIN a \cap DOMAIN c
    BY <1>1, <1>2, <1>3, <1>4
  <2>2. a[p] \in Nat /\ b[p] \in Nat /\ c[p] \in Nat
    BY <2>1, <1>1
  <2>3. a[p] > b[p] /\ b[p] >= c[p]
    <3>1. CASE p = q
      BY <3>1, <1>1, <1>2, <2>2
    <3>2. CASE p < q
      <4>1. p \in 1 .. q - 1
        BY <3>2, <1>1, <1>2, <1>3
      <4>2. b[p] = c[p]
        BY <4>1, <1>2
      <4> QED
        BY <4>2, <1>1, <2>2
    <3> QED
      BY <3>1, <3>2, <1>3, <1>4, <1>1, <1>2
  <2>5. a[p] > c[p]
    BY <2>2, <2>3, SMTT(30)
  <2>4. \A m \in 1 .. p - 1 : a[m] = c[m]
    BY <1>1, <1>2, <1>3, <1>4
  <2> QED
    BY <2>1, <2>4, <2>5 DEF Greater
<1>5. CASE q < p
  <2>1. q \in DOMAIN a \cap DOMAIN c
    BY <1>1, <1>2, <1>3, <1>5
  <2>2. a[q] > c[q]
    <3>1. q \in 1 .. p - 1
      BY <1>1, <1>2, <1>3, <1>5
    <3> QED
      BY <3>1, <1>1, <1>2
  <2>3. \A m \in 1 .. q - 1 : a[m] = c[m]
    BY <1>1, <1>2, <1>3, <1>5
  <2> QED
    BY <2>1, <2>2, <2>3 DEF Greater
<1> QED
  BY <1>1, <1>2, <1>3, <1>4, <1>5

LEMMA GreaterAsymmetric ==
    ASSUME NEW a \in Key, NEW b \in Key, Greater(a, b)
    PROVE  ~ Greater(b, a)
<1> SUFFICES ASSUME Greater(b, a) PROVE FALSE
  OBVIOUS
<1>1. PICK p \in DOMAIN a \cap DOMAIN b :
        a[p] > b[p] /\ \A m \in 1 .. p - 1 : a[m] = b[m]
  BY DEF Greater
<1>2. PICK q \in DOMAIN b \cap DOMAIN a :
        b[q] > a[q] /\ \A m \in 1 .. q - 1 : b[m] = a[m]
  BY DEF Greater
<1>3. /\ p \in Nat /\ q \in Nat /\ p >= 1 /\ q >= 1
      /\ a[p] \in Nat /\ b[p] \in Nat /\ a[q] \in Nat /\ b[q] \in Nat
  BY <1>1, <1>2
<1>4. p < q \/ q < p \/ p = q
  BY <1>3
<1> QED
  BY <1>1, <1>2, <1>3, <1>4

-----------------------------------------------------------------------------
(* Type correctness                                                        *)

IndexInv ==
    /\ pc = "collect" => keys = <<>> /\ i = 1 /\ j = 1
    /\ pc \in {"sort", "merge", "done"} => Len(keys) = Len(object)
    /\ pc = "sort" => j \in i .. Len(keys) + 1

TypeInv == TypeOK /\ IndexInv

\* The text is empty and nothing is sorted before the keys are collected.
LEMMA TypeInit == Init => TypeInv
<1> SUFFICES ASSUME Init PROVE TypeInv
  OBVIOUS
<1>1. object \in Seq(Input) /\ Len(object) \in Nat /\ OutCap \in Nat
  BY CanonicalizeAssumption DEF Init
<1>2. /\ 1 \in 1 .. Len(object) + 1
      /\ 0 \in 0 .. OutCap
      /\ keys \in Seq(Key)
      /\ out \in Seq(Entry)
  BY <1>1 DEF Init
<1> QED
  BY <1>1, <1>2 DEF Init, TypeInv, TypeOK, IndexInv

\* The values of an object are values or null.
LEMMA ValuesAtType ==
    ASSUME TypeInv, NEW path, NEW v \in ValuesAt(path)
    PROVE  v \in Values \cup {Null}
<1>1. PICK n \in DOMAIN object : v = object[n].value
  BY DEF ValuesAt, ToSet
<1>2. object[n] \in Input
  BY DEF TypeInv, TypeOK
<1> QED
  BY <1>1, <1>2 DEF Input

\* What mjson_find leaves in valPtr is a value, null or garbage.
LEMMA FoundType ==
    ASSUME TypeInv, NEW key \in Key, NEW v \in Found(key)
    PROVE  v \in Values \cup {Null, Garbage}
<1>1. CASE NotFound(key)
  BY <1>1 DEF TypeInv, TypeOK, Found
<1>2. CASE ~ NotFound(key)
  BY <1>2, ValuesAtType DEF Found
<1> QED
  BY <1>1, <1>2

\* Lengths are numbers, whatever valPtr points to.
LEMMA LengthsType ==
    ASSUME NEW v \in Values \cup {Null, Garbage}, NEW len \in LengthsOf(v)
    PROVE  len \in Nat
<1>1. EntrySize \in Nat /\ ValueLen \in [Values -> Nat]
  BY CanonicalizeAssumption
<1>2. CASE v = Garbage
  BY <1>1, <1>2 DEF LengthsOf
<1>3. CASE v # Garbage /\ v = Null
  BY <1>3 DEF LengthsOf
<1>4. CASE v # Garbage /\ v # Null
  <2>1. v \in Values /\ len = ValueLen[v]
    BY <1>4 DEF LengthsOf
  <2> QED
    BY <1>1, <2>1
<1> QED
  BY <1>2, <1>3, <1>4

\* Exchanging two keys of a list keeps the rest in place.
LEMMA ExchangedType ==
    ASSUME TypeInv, NEW m \in DOMAIN keys, NEW n \in DOMAIN keys
    PROVE  /\ Exchanged(m, n) \in Seq(Key)
           /\ Len(Exchanged(m, n)) = Len(keys)
  BY DEF TypeInv, TypeOK, Exchanged

\* Every step of the three loops keeps the types, and the indices in range.
LEMMA TypeStep == TypeInv /\ [Next]_vars => TypeInv'
<1> SUFFICES ASSUME TypeInv, [Next]_vars PROVE TypeInv'
  OBVIOUS
<1>0. OutCap \in Nat /\ Len(object) \in Nat /\ Len(keys) \in Nat
  BY CanonicalizeAssumption DEF TypeInv, TypeOK, IndexInv
<1>1. CASE Collect
  <2>1. keys' \in Seq(Key) /\ Len(keys') = Len(object)
    <3>1. \A n \in DOMAIN object : object[n].key \in Key
      <4>1. \A n \in DOMAIN object : object[n] \in Input
        BY DEF TypeInv, TypeOK
      <4> QED
        BY <4>1 DEF Input
    <3>2. DOMAIN object = 1 .. Len(object)
      BY DEF TypeInv, TypeOK
    <3> QED
      BY <1>0, <1>1, <3>1, <3>2 DEF Collect
  <2> QED
    BY <1>0, <1>1, <2>1 DEF Collect, TypeInv, TypeOK, IndexInv
<1>2. CASE Compare
  <2>1. keys' \in Seq(Key) /\ Len(keys') = Len(keys)
    <3>1. i \in DOMAIN keys /\ j \in DOMAIN keys
      BY <1>2 DEF Compare, TypeInv, TypeOK, IndexInv
    <3> QED
      BY <1>2, <3>1, ExchangedType DEF Compare, TypeInv, TypeOK
  <2> QED
    BY <1>0, <1>2, <2>1 DEF Compare, TypeInv, TypeOK, IndexInv
<1>3. CASE NextPass
  BY <1>0, <1>3 DEF NextPass, TypeInv, TypeOK, IndexInv
<1>4. CASE Sorted
  BY <1>0, <1>4 DEF Sorted, TypeInv, TypeOK, IndexInv
<1>5. CASE Merge
  <2>1. keys[i] \in Key /\ Len(keys[i]) \in Nat
    BY <1>5 DEF Merge, TypeInv, TypeOK
  <2>2. value' \in Values \cup {Null, Garbage}
    BY <1>5, <2>1, FoundType DEF Merge
  <2>3. out' \in Seq(Entry)
    <3>1. [key |-> keys[i], value |-> value'] \in Entry
      BY <2>1, <2>2 DEF Entry
    <3>2. out' = out \/ out' = Append(out, [key |-> keys[i], value |-> value'])
      BY <1>5 DEF Merge
    <3>3. out \in Seq(Entry)
      BY DEF TypeInv, TypeOK
    <3> QED
      BY <3>1, <3>2, <3>3
  <2>4. used' \in 0 .. OutCap
    <3>1. used \in 0 .. OutCap
      BY DEF TypeInv, TypeOK
    <3>2. PICK len \in LengthsOf(value') :
            \/ used' = used
            \/ Fits(keys[i], len) /\ used' = used + Room(keys[i], len)
      BY <1>5 DEF Merge
    <3>3. len \in Nat
      BY <2>2, LengthsType
    <3> QED
      BY <1>0, <2>1, <3>1, <3>2, <3>3 DEF Fits, Room
  <2>5. i' \in 1 .. Len(object) + 1
    BY <1>0, <1>5 DEF Merge, TypeInv, TypeOK, IndexInv
  <2> QED
    BY <1>5, <2>2, <2>3, <2>4, <2>5 DEF Merge, TypeInv, TypeOK, IndexInv
<1>6. CASE MergeCrashes
  BY <1>6 DEF MergeCrashes, TypeInv, TypeOK, IndexInv
<1>7. CASE Return
  BY <1>7 DEF Return, TypeInv, TypeOK, IndexInv
<1>8. CASE UNCHANGED vars
  BY <1>8 DEF vars, TypeInv, TypeOK, IndexInv
<1> QED
  BY <1>1, <1>2, <1>3, <1>4, <1>5, <1>6, <1>7, <1>8 DEF Next

\* JsonCanonicalize keeps its indices in range and its text within the buffer,
\* whatever the object.
THEOREM TypeCorrect == Spec => []TypeOK
<1>1. TypeInv => TypeOK
  BY DEF TypeInv
<1> QED
  BY <1>1, TypeInit, TypeStep, PTL DEF Spec
-----------------------------------------------------------------------------
(* The sort                                                                *)

\* The keys before i are in order among themselves and with all that follow, and
\* no key behind i that the inner loop has passed comes before the one at i.
SortInv ==
    /\ pc \in {"sort", "merge", "done"} => ToSet(keys) = ToSet(KeysOf(object))
    /\ pc = "sort" =>
         /\ \A m, n \in DOMAIN keys : m < i /\ m < n => ~ Greater(keys[m], keys[n])
         /\ \A n \in DOMAIN keys : n \in i .. j - 1 => ~ Greater(keys[i], keys[n])
    /\ pc \in {"merge", "done"} =>
         \A m, n \in DOMAIN keys : m < n => ~ Greater(keys[m], keys[n])

\* Nothing is sorted before the keys are collected.
LEMMA SortInit == Init => SortInv
  BY DEF Init, SortInv

\* An exchange keeps the order of what is sorted: the smaller key comes to the
\* front, and whatever was not smaller than the greater one is not smaller than
\* it.
LEMMA CompareSorts == TypeInv /\ SortInv /\ Compare => SortInv'
<1> SUFFICES ASSUME TypeInv, SortInv, Compare PROVE SortInv'
  OBVIOUS
<1>1. /\ keys \in Seq(Key) /\ DOMAIN keys = 1 .. Len(keys) /\ Len(keys) \in Nat
      /\ i \in DOMAIN keys /\ j \in DOMAIN keys /\ i <= j
      /\ \A n \in DOMAIN keys : keys[n] \in Key
      /\ pc = "sort" /\ pc' = "sort" /\ i' = i /\ j' = j + 1 /\ object' = object
  BY DEF Compare, TypeInv, TypeOK, IndexInv
<1>2. CASE ~ Greater(keys[i], keys[j])
  BY <1>1, <1>2 DEF Compare, SortInv
<1>3. CASE Greater(keys[i], keys[j])
  <2>1. /\ keys' = [keys EXCEPT ![i] = keys[j], ![j] = keys[i]]
        /\ DOMAIN keys' = DOMAIN keys
    BY <1>3 DEF Compare, Exchanged
  <2>2. i # j
    BY <1>1, <1>3, GreaterAsymmetric
  <2>3. /\ keys'[i] = keys[j]
        /\ keys'[j] = keys[i]
        /\ \A n \in DOMAIN keys \ {i, j} : keys'[n] = keys[n]
    BY <1>1, <2>1, <2>2
  <2>4. ToSet(keys') = ToSet(keys)
    BY <1>1, <2>1, <2>3 DEF ToSet
  <2>5. ASSUME NEW m \in DOMAIN keys, NEW n \in DOMAIN keys, m < i, m < n
        PROVE  ~ Greater(keys'[m], keys'[n])
    <3>0. m \in Nat /\ n \in Nat /\ i \in Nat /\ j \in Nat
      BY <1>1
    <3>1. keys'[m] = keys[m]
      <4>1. m \notin {i, j}
        BY <1>1, <2>5, <3>0
      <4> QED
        BY <2>3, <4>1
    <3>2. PICK k \in DOMAIN keys : m < k /\ keys'[n] = keys[k]
      <4>1. CASE n = i
        BY <1>1, <2>3, <2>5, <3>0, <4>1
      <4>2. CASE n = j
        BY <1>1, <2>3, <2>5, <3>0, <4>2
      <4>3. CASE n \notin {i, j}
        BY <2>3, <2>5, <4>3
      <4> QED
        BY <4>1, <4>2, <4>3
    <3> QED
      BY <1>1, <2>5, <3>1, <3>2 DEF SortInv
  <2>6. ASSUME NEW n \in DOMAIN keys, n \in i .. j
        PROVE  ~ Greater(keys'[i], keys'[n])
    <3>1. CASE n = i
      BY <1>1, <2>3, <3>1, GreaterAsymmetric
    <3>2. CASE n = j
      BY <1>1, <1>3, <2>3, <3>2, GreaterAsymmetric
    <3>3. CASE n \notin {i, j}
      <4>1. ~ Greater(keys[i], keys[n])
        BY <1>1, <2>6, <3>3 DEF SortInv
      <4>2. keys'[n] = keys[n] /\ keys[n] \in Key
        BY <1>1, <2>3, <3>3
      <4> QED
        BY <1>1, <1>3, <2>3, <4>1, <4>2, GreaterTransitive
    <3> QED
      BY <3>1, <3>2, <3>3
  <2>7. ToSet(keys)' = ToSet(KeysOf(object))'
    <3>1. ToSet(keys)' = ToSet(keys') /\ ToSet(KeysOf(object))' = ToSet(KeysOf(object))
      BY <1>1 DEF ToSet, KeysOf
    <3> QED
      BY <1>1, <2>4, <3>1 DEF SortInv
  <2>8. i' .. j' - 1 = i .. j
    BY <1>1
  <2> QED
    BY <1>1, <2>1, <2>5, <2>6, <2>7, <2>8 DEF SortInv
<1> QED
  BY <1>2, <1>3

\* Every step keeps the order: a pass that ends leaves its key in front of all
\* that follow, and after the last pass that is every key.
LEMMA SortStep == TypeInv /\ SortInv /\ [Next]_vars => SortInv'
<1> SUFFICES ASSUME TypeInv, SortInv, [Next]_vars PROVE SortInv'
  OBVIOUS
<1>0. DOMAIN keys = 1 .. Len(keys) /\ Len(keys) \in Nat /\ i \in Nat /\ j \in Nat
  BY DEF TypeInv, TypeOK
<1>1. CASE Collect
  <2>1. keys' = KeysOf(object) /\ object' = object /\ i' = 1 /\ j' = 1
    BY <1>1 DEF Collect, KeysOf, TypeInv, IndexInv
  <2>2. DOMAIN keys' = DOMAIN object
    BY <2>1 DEF KeysOf
  <2>3. DOMAIN object = 1 .. Len(object)
    BY DEF TypeInv, TypeOK
  <2>4. KeysOf(object)' = KeysOf(object)
    BY <2>1 DEF KeysOf
  <2> QED
    BY <1>1, <2>1, <2>2, <2>3, <2>4 DEF Collect, SortInv
<1>2. CASE Compare
  BY <1>2, CompareSorts
<1>3. CASE NextPass
  <2>1. \A n \in DOMAIN keys : i < n => ~ Greater(keys[i], keys[n])
    BY <1>0, <1>3 DEF NextPass, SortInv
  <2>2. \A m, n \in DOMAIN keys : m < i + 1 /\ m < n => ~ Greater(keys[m], keys[n])
    BY <1>0, <1>3, <2>1 DEF NextPass, SortInv
  <2> QED
    BY <1>0, <1>3, <2>2 DEF NextPass, SortInv, KeysOf
<1>4. CASE Sorted
  BY <1>0, <1>4 DEF Sorted, SortInv, KeysOf
<1>5. CASE Merge
  BY <1>5 DEF Merge, SortInv, KeysOf
<1>6. CASE MergeCrashes
  BY <1>6 DEF MergeCrashes, SortInv, KeysOf
<1>7. CASE Return
  BY <1>7 DEF Return, SortInv, KeysOf
<1>8. CASE UNCHANGED vars
  BY <1>8 DEF vars, SortInv, KeysOf
<1> QED
  BY <1>1, <1>2, <1>3, <1>4, <1>5, <1>6, <1>7, <1>8 DEF Next

\* The exchange sort of JsonCanonicalize is right for any number of keys: when it
\* is over no key is greater than one behind it, and the keys are those of the
\* object.
THEOREM KeysAreInOrder == Spec => []InOrder
<1>1. SortInv => InOrder
  BY DEF SortInv, InOrder
<1> QED
  BY <1>1, TypeInit, TypeStep, SortInit, SortStep, PTL DEF Spec

-----------------------------------------------------------------------------
(* The merges                                                              *)

\* Each key is in the list once, and no input changes.
Distinct ==
    /\ object \in Objects
    /\ \A m, n \in DOMAIN keys : keys[m] = keys[n] => m = n

\* What is written comes from the keys merged so far, in their order.
Merged(n) == n \in DOMAIN keys /\ n < i

InKeyOrder ==
    /\ \A m \in DOMAIN out : \E k \in DOMAIN keys : Merged(k) /\ out[m].key = keys[k]
    /\ \A m, n \in DOMAIN out : \A k, l \in DOMAIN keys :
         out[m].key = keys[k] /\ out[n].key = keys[l] /\ m < n => k < l

OwnValues == \A m \in DOMAIN out : Misread(out[m].key) \/ out[m] \in ToSet(object)

Written(e) ==
    \/ Misread(e.key)
    \/ e.value = Null
    \/ e \in ToSet(out)
    \/ Room(e.key, ValueLen[e.value]) >= EntrySize
    \/ used + Room(e.key, ValueLen[e.value]) >= OutCap

MergedWritten ==
    \A e \in ToSet(object) :
        (\E k \in DOMAIN keys : Merged(k) /\ keys[k] = e.key) => Written(e)

MergeInv ==
    /\ Distinct
    /\ pc \in {"collect", "sort"} => out = <<>>
    /\ pc \in {"merge", "done"} => InKeyOrder /\ OwnValues /\ MergedWritten
    /\ pc = "done" => i > Len(keys)

\* Nothing is written at first.
LEMMA MergeInit == Init => MergeInv
  BY DEF Init, MergeInv, Distinct

\* Neither collecting nor exchanging makes a key appear twice.
LEMMA DistinctStep == TypeInv /\ Distinct /\ [Next]_vars => Distinct'
<1> SUFFICES ASSUME TypeInv, Distinct, [Next]_vars PROVE Distinct'
  OBVIOUS
<1>1. CASE Collect
  <2>1. ASSUME NEW m \in DOMAIN object, NEW n \in DOMAIN object,
               object[m].key = object[n].key
        PROVE  m = n
    <3>1. object[n] \in Input
      BY DEF TypeInv, TypeOK
    <3>2. IsPrefix(object[m].key, object[n].key)
      BY <2>1, <3>1 DEF IsPrefix, Input
    <3> QED
      BY <3>2, CanonicalizeAssumption DEF Distinct
  <2>2. DOMAIN keys' = DOMAIN object /\ \A n \in DOMAIN object : keys'[n] = object[n].key
    BY <1>1 DEF Collect
  <2>3. object' \in Objects
    BY <1>1 DEF Collect, Distinct
  <2> QED
    BY <2>1, <2>2, <2>3 DEF Distinct
<1>2. CASE Compare
  <2>1. /\ i \in DOMAIN keys /\ j \in DOMAIN keys /\ object' = object
    BY <1>2 DEF Compare, TypeInv, TypeOK, IndexInv
  <2>2. CASE keys' = keys
    BY <2>1, <2>2 DEF Distinct
  <2>3. CASE keys' = Exchanged(i, j)
    <3>1. /\ DOMAIN keys' = DOMAIN keys
          /\ keys'[j] = keys[i]
          /\ i # j => keys'[i] = keys[j]
          /\ \A n \in DOMAIN keys \ {i, j} : keys'[n] = keys[n]
      BY <2>1, <2>3 DEF Exchanged, TypeInv, TypeOK
    <3> QED
      BY <2>1, <3>1 DEF Distinct
  <2> QED
    BY <1>2, <2>2, <2>3 DEF Compare
<1>3. CASE UNCHANGED <<object, keys>>
  BY <1>3 DEF Distinct
<1> QED
  BY <1>1, <1>2, <1>3
     DEF Next, NextPass, Sorted, Merge, MergeCrashes, Return, vars

\* A key without its quote has the other characters.
LEMMA BareOf ==
    ASSUME NEW key \in Key, EndsQuoted(key)
    PROVE  /\ Len(key) \in Nat \ {0} /\ DOMAIN key = 1 .. Len(key)
           /\ key[Len(key)] = 34
           /\ Bare(key) \in Seq(Nat) /\ Len(Bare(key)) = Len(key) - 1
           /\ DOMAIN Bare(key) = 1 .. Len(key) - 1
           /\ \A m \in 1 .. Len(key) - 1 : Bare(key)[m] = key[m]
<1>1. /\ Len(key) \in Nat \ {0} /\ DOMAIN key = 1 .. Len(key)
      /\ key[Len(key)] = 34
  BY DEF EndsQuoted
<1> QED
  BY <1>1 DEF Bare

\* Two keys are the same if they are without their quotes.
LEMMA BareTells ==
    ASSUME NEW a \in Key, NEW b \in Key, EndsQuoted(a), EndsQuoted(b),
           Bare(a) = Bare(b)
    PROVE  a = b
<1>1. /\ DOMAIN a = 1 .. Len(a) /\ DOMAIN b = 1 .. Len(b)
      /\ Len(a) \in Nat \ {0} /\ Len(b) \in Nat \ {0}
      /\ a[Len(a)] = 34 /\ b[Len(b)] = 34
  BY BareOf
<1>2. /\ Len(Bare(a)) = Len(a) - 1 /\ Len(Bare(b)) = Len(b) - 1
      /\ \A m \in 1 .. Len(a) - 1 : Bare(a)[m] = a[m]
      /\ \A m \in 1 .. Len(b) - 1 : Bare(b)[m] = b[m]
  BY BareOf
<1>3. Len(a) = Len(b)
  <2> DEFINE k == Len(a)
             l == Len(b)
  <2>1. k - 1 = l - 1
    BY <1>2
  <2>2. k \in Nat /\ l \in Nat
    BY <1>1
  <2> HIDE DEF k, l
  <2>3. k = l
    BY <2>1, <2>2
  <2> QED
    BY <2>3 DEF k, l
<1>4. ASSUME NEW m \in 1 .. Len(a) PROVE a[m] = b[m]
  <2>1. CASE m = Len(a)
    BY <1>1, <1>3, <2>1
  <2>2. CASE m # Len(a)
    <3> DEFINE k == Len(a)
    <3>1. k \in Nat /\ m \in 1 .. k /\ m # k
      BY <1>1, <2>2, Zenon
    <3> HIDE DEF k
    <3>2. m \in 1 .. k - 1
      BY <3>1
    <3>3. m \in 1 .. Len(a) - 1
      BY <3>2 DEF k
    <3>4. Bare(a)[m] = a[m]
      BY <1>2, <3>3, Zenon
    <3>5. Bare(a)[m] = b[m]
      BY <1>2, <1>3, <3>3, Zenon
    <3> QED
      BY <3>4, <3>5
  <2> QED
    BY <2>1, <2>2
<1> QED
  BY <1>3, <1>4

\* The path of a key that is neither long nor read otherwise is the key.
LEMMA PathIsKey ==
    ASSUME NEW key \in Key, EndsQuoted(key), ~ Misread(key)
    PROVE  Path(key) = Bare(key) /\ ~ InPath(Path(key))
<1>1. Path(key) = Bare(key)
  <2>1. Len(key) - 1 <= QuerySize - 3
    BY BareOf, CanonicalizeAssumption DEF Misread
  <2> QED
    BY <2>1 DEF Path, Bare
<1>2. ToSet(Bare(key)) \subseteq ToSet(key)
  <2>1. /\ DOMAIN key = 1 .. Len(key) /\ Len(key) \in Nat \ {0}
        /\ DOMAIN Bare(key) = 1 .. Len(key) - 1
        /\ \A m \in 1 .. Len(key) - 1 : Bare(key)[m] = key[m]
    BY BareOf
  <2>2. 1 .. Len(key) - 1 \subseteq DOMAIN key
    BY <2>1
  <2> QED
    BY <2>1, <2>2 DEF ToSet
<1> QED
  BY <1>1, <1>2 DEF Misread, InPath

\* The entries of an object are inputs, and their keys end with a quote.
LEMMA KeysQuoted ==
    ASSUME TypeInv, Distinct, NEW n \in DOMAIN object
    PROVE  object[n] \in Input /\ EndsQuoted(object[n].key) /\ object[n].key \in Key
<1>1. object[n] \in Input
  BY DEF TypeInv, TypeOK
<1>2. EndsQuoted(object[n].key)
  BY CanonicalizeAssumption DEF Distinct
<1> QED
  BY <1>1, <1>2 DEF Input

\* The value a merge finds for a key that is not misread is the object's.
LEMMA OwnEntry ==
    ASSUME TypeInv, Distinct, NEW e \in ToSet(object), ~ Misread(e.key),
           NEW v \in Found(e.key)
    PROVE  e = [key |-> e.key, value |-> v]
<1>1. PICK m \in DOMAIN object : e = object[m]
  BY DEF ToSet
<1>2. e \in Input /\ EndsQuoted(e.key) /\ e.key \in Key
  BY <1>1, KeysQuoted
<1>3. Path(e.key) = Bare(e.key) /\ ~ InPath(Path(e.key))
  BY <1>2, PathIsKey
<1>4. v \in ValuesAt(Bare(e.key))
  <2>1. e.value \in ValuesAt(Bare(e.key))
    BY DEF ValuesAt
  <2>2. ~ NotFound(e.key)
    BY <1>3, <2>1 DEF NotFound
  <2> QED
    BY <1>3, <2>2 DEF Found
<1>5. PICK n \in DOMAIN object : Bare(object[n].key) = Bare(e.key) /\ v = object[n].value
  BY <1>4 DEF ValuesAt, ToSet
<1>6. object[n] \in Input /\ EndsQuoted(object[n].key) /\ object[n].key \in Key
  BY KeysQuoted
<1>7. object[n].key = e.key
  BY <1>2, <1>5, <1>6, BareTells
<1>8. IsPrefix(object[m].key, object[n].key)
  BY <1>1, <1>2, <1>7 DEF IsPrefix
<1>9. m = n
  BY <1>8, CanonicalizeAssumption DEF Distinct
<1> QED
  BY <1>1, <1>2, <1>5, <1>9 DEF Input

\* What did not fit into the text does not fit into a longer one.
LEMMA StillNoRoom ==
    ASSUME NEW u \in Nat, NEW v \in Nat, NEW r \in Nat, NEW c \in Nat,
           v >= u, u + r >= c
    PROVE  v + r >= c
  OBVIOUS

\* A merge adds the entry of its key at the end, or nothing.
LEMMA MergeKeeps ==
    ASSUME TypeInv, SortInv, MergeInv, Merge
    PROVE  (InKeyOrder /\ OwnValues /\ MergedWritten)'
<1> DEFINE key == keys[i]
           entry == [key |-> key, value |-> value']
<1>1. /\ i \in DOMAIN keys /\ i' = i + 1 /\ keys' = keys /\ object' = object
      /\ i \in Nat /\ DOMAIN keys \subseteq Nat /\ key \in Key
      /\ value' \in Found(key) /\ out \in Seq(Entry) /\ pc = "merge"
  BY DEF Merge, TypeInv, TypeOK, IndexInv
<1>2. /\ InKeyOrder /\ OwnValues /\ MergedWritten /\ Distinct
      /\ ToSet(keys) = ToSet(KeysOf(object))
  BY <1>1 DEF MergeInv, SortInv
<1>3. PICK e \in ToSet(object) : e.key = key
  <2>1. key \in ToSet(KeysOf(object))
    BY <1>1, <1>2 DEF ToSet
  <2> QED
    BY <2>1 DEF ToSet, KeysOf
<1>4. ~ Misread(key) => e = entry
  BY <1>1, <1>2, <1>3, OwnEntry
<1>5. used \in Nat /\ used' \in Nat /\ used' >= used /\ OutCap \in Nat
  <2>1. used \in Nat /\ OutCap \in Nat
    BY CanonicalizeAssumption DEF TypeInv, TypeOK
  <2>2. PICK len \in LengthsOf(value') : used' = used \/ used' = used + Room(key, len)
    BY DEF Merge
  <2>3. len \in Nat
    BY <1>1, FoundType, LengthsType
  <2>4. Room(key, len) \in Nat
    BY <1>1, <2>3 DEF Room
  <2> QED
    BY <2>1, <2>2, <2>4
<1>6. entry \in Entry
  <2>1. value' \in Values \cup {Null, Garbage}
    BY <1>1, FoundType
  <2> QED
    BY <1>1, <2>1 DEF Entry
<1>7. out' = out \/ out' = Append(out, entry)
  BY <1>1 DEF Merge
<1>8. out' # out =>
        /\ DOMAIN out' = DOMAIN out \cup {Len(out) + 1}
        /\ out'[Len(out) + 1] = entry
        /\ \A m \in DOMAIN out : out'[m] = out[m] /\ m < Len(out) + 1
  <2> SUFFICES ASSUME out' # out
               PROVE  /\ DOMAIN out' = DOMAIN out \cup {Len(out) + 1}
                      /\ out'[Len(out) + 1] = entry
                      /\ \A m \in DOMAIN out : out'[m] = out[m] /\ m < Len(out) + 1
    OBVIOUS
  <2>1. out' = Append(out, entry) /\ out \in Seq(Entry)
    BY <1>1, <1>7
  <2> HIDE DEF entry
  <2>2. /\ Len(out') = Len(out) + 1 /\ Len(out) \in Nat
        /\ DOMAIN out = 1 .. Len(out) /\ DOMAIN out' = 1 .. Len(out')
    BY <1>6, <2>1
  <2>3. out'[Len(out) + 1] = entry /\ \A m \in 1 .. Len(out) : out'[m] = out[m]
    BY <1>6, <2>1
  <2> QED
    BY <2>2, <2>3
<1>9. \A n : Merged(n)' <=> (n \in DOMAIN keys /\ (n = i \/ Merged(n)))
  BY <1>1 DEF Merged
<1>10. InKeyOrder'
  <2>1. CASE out' = out
    BY <1>1, <1>2, <1>9, <2>1 DEF InKeyOrder
  <2>2. CASE out' # out
    <3>1. \A m \in DOMAIN out' : \E k \in DOMAIN keys :
            (k = i \/ Merged(k)) /\ out'[m].key = keys[k]
      BY <1>1, <1>2, <1>8, <2>2 DEF InKeyOrder
    <3>2. ASSUME NEW m \in DOMAIN out', NEW n \in DOMAIN out',
                 NEW k \in DOMAIN keys, NEW l \in DOMAIN keys,
                 out'[m].key = keys[k], out'[n].key = keys[l], m < n
          PROVE  k < l
      <4>1. m \in DOMAIN out /\ out'[m] = out[m]
        BY <1>1, <1>8, <2>2, <3>2
      <4>2. CASE n \in DOMAIN out
        BY <1>2, <1>8, <2>2, <3>2, <4>1, <4>2 DEF InKeyOrder
      <4>3. CASE n = Len(out) + 1
        <5>1. l = i
          BY <1>1, <1>2, <1>8, <2>2, <3>2, <4>3 DEF Distinct
        <5>2. k < i
          BY <1>2, <3>2, <4>1 DEF InKeyOrder, Merged, Distinct
        <5> QED
          BY <5>1, <5>2
      <4> QED
        BY <1>8, <2>2, <4>2, <4>3
    <3> QED
      BY <1>1, <1>9, <3>1, <3>2 DEF InKeyOrder
  <2> QED
    BY <2>1, <2>2
<1>11. OwnValues'
  <2>1. Misread(entry.key) \/ entry \in ToSet(object)
    BY <1>3, <1>4
  <2>2. CASE out' = out
    BY <1>1, <1>2, <2>2 DEF OwnValues
  <2>3. CASE out' # out
    <3> HIDE DEF entry
    <3> QED
      BY <1>1, <1>2, <1>8, <2>1, <2>3 DEF OwnValues
  <2> QED
    BY <2>2, <2>3
<1>12. MergedWritten'
  <2> SUFFICES ASSUME NEW o \in ToSet(object),
                      NEW k \in DOMAIN keys, k = i \/ Merged(k), keys[k] = o.key
               PROVE  Written(o)'
    BY <1>1, <1>9 DEF MergedWritten
  <2>1. ToSet(out) \subseteq ToSet(out')
    BY <1>8 DEF ToSet
  <2>2. CASE Misread(o.key)
    BY <2>2 DEF Written
  <2>3. CASE o.value = Null
    BY <2>3 DEF Written
  <2>4. CASE ~ Misread(o.key) /\ o.value # Null
    <3> DEFINE room == Room(o.key, ValueLen[o.value])
    <3>1. room \in Nat /\ o.value \in Values
      <4>1. o \in Input
        BY DEF TypeInv, TypeOK, ToSet
      <4>2. o.value \in Values /\ Len(o.key) \in Nat
        BY <2>4, <4>1 DEF Input
      <4>3. ValueLen[o.value] \in Nat
        BY <4>2, CanonicalizeAssumption
      <4> QED
        BY <4>2, <4>3 DEF Room
    <3>2. CASE Merged(k)
      <4>1. Written(o)
        BY <1>2, <3>2 DEF MergedWritten
      <4>2. Written(o)' <=> \/ o \in ToSet(out') \/ room >= EntrySize
                            \/ used' + room >= OutCap
        BY <2>4 DEF Written
      <4>3. o \in ToSet(out) \/ room >= EntrySize \/ used + room >= OutCap
        BY <2>4, <4>1 DEF Written
      <4> HIDE DEF room
      <4>4. ASSUME used + room >= OutCap PROVE used' + room >= OutCap
        <5>1. room \in Nat /\ used \in Nat /\ used' \in Nat /\ OutCap \in Nat
          BY <1>5, <3>1
        <5>2. used' >= used
          BY <1>5
        <5> QED
          BY <4>4, <5>1, <5>2, StillNoRoom
      <4>5. o \in ToSet(out) => o \in ToSet(out')
        BY <2>1
      <4> QED
        BY <4>2, <4>3, <4>4, <4>5, Zenon
    <3>3. CASE k = i
      <4>1. o = entry
        BY <1>1, <1>2, <2>4, <3>3, OwnEntry
      <4>2. value' = o.value
        BY <4>1
      <4>3. LengthsOf(value') = {ValueLen[o.value]}
        BY <2>4, <3>1, <4>2, CanonicalizeAssumption DEF LengthsOf
      <4>4. CASE Whole(key, ValueLen[o.value]) /\ Fits(key, ValueLen[o.value])
        <5>1. out' = Append(out, entry)
          BY <2>4, <4>2, <4>3, <4>4 DEF Merge
        <5>2. out' # out
          BY <1>1, <1>6, <5>1
        <5>3. entry \in ToSet(out')
          <6> HIDE DEF entry
          <6> QED
            BY <1>8, <5>2 DEF ToSet
        <5> QED
          BY <4>1, <5>3 DEF Written
      <4>5. CASE ~ Whole(key, ValueLen[o.value])
        <5>1. room >= EntrySize
          BY <3>1, <3>3, <4>5, CanonicalizeAssumption DEF Whole
        <5> QED
          BY <5>1 DEF Written
      <4>6. CASE ~ Fits(key, ValueLen[o.value])
        <5>1. used + room >= OutCap
          BY <1>5, <3>1, <3>3, <4>6 DEF Fits
        <5>2. used' + room >= OutCap
          <6> HIDE DEF room
          <6> QED
            BY <1>5, <3>1, <5>1
        <5> QED
          BY <5>2 DEF Written
      <4> QED
        BY <4>4, <4>5, <4>6
    <3> QED
      BY <3>2, <3>3
  <2> QED
    BY <2>2, <2>3, <2>4
<1> QED
  BY <1>10, <1>11, <1>12

\* Collecting and sorting write nothing, and what follows only adds.
LEMMA MergeStep == TypeInv /\ SortInv /\ MergeInv /\ [Next]_vars => MergeInv'
<1> SUFFICES ASSUME TypeInv, SortInv, MergeInv, [Next]_vars PROVE MergeInv'
  OBVIOUS
<1>1. Distinct'
  BY DistinctStep DEF MergeInv
<1>2. CASE Collect
  BY <1>1, <1>2 DEF Collect, MergeInv
<1>3. CASE Compare
  BY <1>1, <1>3 DEF Compare, MergeInv
<1>4. CASE NextPass
  BY <1>1, <1>4 DEF NextPass, MergeInv
<1>5. CASE Sorted
  <2>1. out = <<>> /\ out' = <<>> /\ i' = 1 /\ keys' = keys /\ pc' = "merge"
    BY <1>5 DEF Sorted, MergeInv
  <2>2. \A k \in DOMAIN keys : ~ Merged(k)'
    BY <2>1 DEF Merged, TypeInv, TypeOK
  <2> QED
    BY <1>1, <2>1, <2>2 DEF MergeInv, InKeyOrder, OwnValues, MergedWritten
<1>6. CASE Merge
  BY <1>1, <1>6, MergeKeeps DEF Merge, MergeInv
<1>7. CASE UNCHANGED <<object, keys, i, out, used>> /\ (pc' = pc \/ pc' = "crashed")
  BY <1>1, <1>7 DEF MergeInv, InKeyOrder, OwnValues, MergedWritten, Written, Merged
<1>8. CASE Return
  BY <1>1, <1>8
     DEF Return, MergeInv, InKeyOrder, OwnValues, MergedWritten, Written, Merged
<1> QED
  BY <1>2, <1>3, <1>4, <1>5, <1>6, <1>7, <1>8 DEF Next, MergeCrashes, vars

-----------------------------------------------------------------------------
(* The order of canonical JSON                                             *)

\* Two keys of one object differ somewhere, and there is a first place.
LEMMA FirstDifference ==
    ASSUME NEW a \in Key, NEW b \in Key, ~ IsPrefix(a, b), ~ IsPrefix(b, a)
    PROVE  \E n \in DOMAIN a \cap DOMAIN b :
             a[n] # b[n] /\ \A m \in 1 .. n - 1 : a[m] = b[m]
<1> DEFINE D == { n \in DOMAIN a \cap DOMAIN b : a[n] # b[n] }
<1>1. /\ DOMAIN a = 1 .. Len(a) /\ DOMAIN b = 1 .. Len(b)
      /\ Len(a) \in Nat /\ Len(b) \in Nat
  OBVIOUS
<1>2. D # {}
  <2> SUFFICES ASSUME D = {} PROVE FALSE
    OBVIOUS
  <2>1. CASE Len(a) <= Len(b)
    BY <1>1, <2>1 DEF IsPrefix
  <2>2. CASE Len(b) <= Len(a)
    BY <1>1, <2>2 DEF IsPrefix
  <2> QED
    BY <1>1, <2>1, <2>2
<1>3. PICK n \in D : \A m \in D : n <= m
  <2>1. D \in SUBSET Nat
    BY <1>1
  <2> HIDE DEF D
  <2> QED
    BY <1>2, <2>1, FirstOf
<1>4. ASSUME NEW m \in 1 .. n - 1 PROVE a[m] = b[m]
  <2>1. m \in DOMAIN a \cap DOMAIN b /\ ~ (n <= m)
    BY <1>1
  <2> QED
    BY <1>3, <2>1
<1> QED
  BY <1>3, <1>4

\* The comparison of strncmp, quotes and all, is the order of canonical JSON for
\* keys of one object that have no character below the quote.
LEMMA PlainOrder ==
    ASSUME NEW a \in Key, NEW b \in Key, EndsQuoted(a), EndsQuoted(b),
           ~ IsPrefix(a, b), ~ IsPrefix(b, a), ~ Greater(a, b),
           \A c \in ToSet(a) \cup ToSet(b) : c >= 34
    PROVE  Precedes(Bare(a), Bare(b))
<1>1. /\ DOMAIN a = 1 .. Len(a) /\ DOMAIN b = 1 .. Len(b)
      /\ Len(a) \in Nat \ {0} /\ Len(b) \in Nat \ {0}
      /\ a[Len(a)] = 34 /\ b[Len(b)] = 34
  BY DEF EndsQuoted
<1>2. PICK n \in DOMAIN a \cap DOMAIN b :
        a[n] # b[n] /\ \A m \in 1 .. n - 1 : a[m] = b[m]
  BY FirstDifference
<1>3. /\ n \in Nat \ {0} /\ n <= Len(a) /\ n <= Len(b)
      /\ a[n] \in Nat /\ b[n] \in Nat /\ a[n] >= 34 /\ a[n] < b[n]
  <2>1. ~ (a[n] > b[n])
    BY <1>2 DEF Greater
  <2>2. a[n] >= 34
    BY DEF ToSet
  <2> QED
    BY <1>1, <1>2, <2>1, <2>2
<1>4. n < Len(b)
  BY <1>1, <1>3
<1>5. /\ Bare(a) \in Seq(Nat) /\ Len(Bare(a)) = Len(a) - 1
      /\ \A m \in 1 .. Len(a) - 1 : Bare(a)[m] = a[m]
      /\ Bare(b) \in Seq(Nat) /\ Len(Bare(b)) = Len(b) - 1
      /\ \A m \in 1 .. Len(b) - 1 : Bare(b)[m] = b[m]
      /\ DOMAIN Bare(a) = 1 .. Len(a) - 1 /\ DOMAIN Bare(b) = 1 .. Len(b) - 1
  BY BareOf
<1>6. CASE n < Len(a)
  <2>1. n \in DOMAIN Bare(a) \cap DOMAIN Bare(b) /\ Bare(a)[n] < Bare(b)[n]
    <3>1. n \in 1 .. Len(a) - 1 /\ n \in 1 .. Len(b) - 1
      BY <1>1, <1>3, <1>4, <1>6
    <3>2. Bare(a)[n] = a[n] /\ Bare(b)[n] = b[n]
      BY <1>5, <3>1
    <3> QED
      BY <1>3, <1>5, <3>1, <3>2
  <2>2. SubSeq(Bare(a), 1, n - 1) = SubSeq(Bare(b), 1, n - 1)
    <3> DEFINE A == Bare(a)
               B == Bare(b)
    <3>1. /\ n \in Nat \ {0} /\ Len(a) \in Nat /\ Len(b) \in Nat
          /\ n < Len(a) /\ n < Len(b)
      BY <1>1, <1>3, <1>4, <1>6
    <3>2. /\ A \in Seq(Nat) /\ Len(A) = Len(a) - 1
          /\ B \in Seq(Nat) /\ Len(B) = Len(b) - 1
      BY <1>5
    <3>3. \A m \in 1 .. n - 1 : A[m] = B[m]
      <4> SUFFICES ASSUME NEW m \in 1 .. n - 1 PROVE A[m] = B[m]
        OBVIOUS
      <4>1. m \in 1 .. Len(a) - 1 /\ m \in 1 .. Len(b) - 1
        BY <3>1
      <4> QED
        BY <1>2, <1>5, <4>1
    <3> HIDE DEF A, B
    <3>4. n - 1 \in Nat /\ n - 1 <= Len(A) /\ n - 1 <= Len(B)
      <4>1. n - 1 \in Nat /\ n - 1 <= Len(a) - 1 /\ n - 1 <= Len(b) - 1
        BY <3>1
      <4> QED
        BY <3>2, <4>1
    <3>5. SubSeq(A, 1, n - 1) = SubSeq(B, 1, n - 1)
      BY <3>2, <3>3, <3>4
    <3> QED
      BY <3>5 DEF A, B
  <2> QED
    BY <2>1, <2>2 DEF Precedes
<1>7. CASE n = Len(a)
  <2> DEFINE A == Bare(a)
             B == Bare(b)
  <2>1. /\ A \in Seq(Nat) /\ B \in Seq(Nat)
        /\ Len(A) = n - 1 /\ Len(B) > n - 1 /\ Len(B) \in Nat
    <3>1. /\ A \in Seq(Nat) /\ Len(A) = Len(a) - 1
          /\ B \in Seq(Nat) /\ Len(B) = Len(b) - 1
      BY <1>5
    <3>2. n = Len(a) /\ Len(a) \in Nat \ {0} /\ Len(b) \in Nat /\ n < Len(b)
      BY <1>1, <1>4, <1>7
    <3> HIDE DEF A, B
    <3> QED
      BY <3>1, <3>2
  <2>2. ASSUME NEW m \in 1 .. n - 1 PROVE A[m] = B[m]
    <3>1. m \in 1 .. Len(a) - 1 /\ m \in 1 .. Len(b) - 1
      BY <1>1, <1>3, <1>4, <1>7
    <3> QED
      BY <1>2, <1>5, <3>1
  <2> HIDE DEF A, B
  <2>3. A = SubSeq(B, 1, Len(A)) /\ A # B /\ Len(A) <= Len(B)
    BY <2>1, <2>2
  <2>4. IsStrictPrefix(A, B)
    BY <2>3 DEF IsStrictPrefix, IsPrefix
  <2> QED
    BY <2>4 DEF Precedes, A, B
<1> QED
  BY <1>3, <1>6, <1>7

\* JsonCanonicalize writes the entries in the order of canonical JSON if the keys
\* are plain, each with its own value and none left out, of those whose path is
\* neither cut nor read otherwise, that are no longer than newEntry, and that the
\* text has room for.
THEOREM CanonicalIsWritten == Spec => []Canonical
<1>1. TypeInv /\ SortInv /\ MergeInv => Canonical
  <2> SUFFICES ASSUME TypeInv, SortInv, MergeInv, pc = "done" PROVE Canonical
    BY DEF Canonical
  <2>1. /\ InKeyOrder /\ OwnValues /\ MergedWritten /\ Distinct
        /\ ToSet(keys) = ToSet(KeysOf(object))
        /\ \A m, n \in DOMAIN keys : m < n => ~ Greater(keys[m], keys[n])
        /\ \A k \in DOMAIN keys : Merged(k)
    BY DEF MergeInv, SortInv, Merged, TypeInv, TypeOK
  <2>2. \A k \in DOMAIN keys : \E n \in DOMAIN object : keys[k] = object[n].key
    BY <2>1 DEF ToSet, KeysOf
  <2>3. ASSUME Plain, NEW m \in DOMAIN out, NEW n \in DOMAIN out, m < n
        PROVE  Precedes(Bare(out[m].key), Bare(out[n].key))
    <3>1. PICK k \in DOMAIN keys : out[m].key = keys[k]
      BY <2>1 DEF InKeyOrder
    <3>2. PICK l \in DOMAIN keys : out[n].key = keys[l]
      BY <2>1 DEF InKeyOrder
    <3>3. k < l
      BY <2>1, <2>3, <3>1, <3>2 DEF InKeyOrder
    <3>4. k # l /\ keys[k] # keys[l] /\ ~ Greater(keys[k], keys[l])
          /\ keys[k] \in Key /\ keys[l] \in Key
      BY <2>1, <3>3 DEF Distinct, TypeInv, TypeOK
    <3>5. PICK p \in DOMAIN object : keys[k] = object[p].key
      BY <2>2
    <3>6. PICK q \in DOMAIN object : keys[l] = object[q].key
      BY <2>2
    <3>7. p # q /\ object \in Objects
      BY <2>1, <3>4, <3>5, <3>6 DEF Distinct
    <3>8. /\ EndsQuoted(keys[k]) /\ EndsQuoted(keys[l])
          /\ ~ IsPrefix(keys[k], keys[l]) /\ ~ IsPrefix(keys[l], keys[k])
      BY <3>5, <3>6, <3>7, CanonicalizeAssumption
    <3>9. \A c \in ToSet(keys[k]) \cup ToSet(keys[l]) : c >= 34
      <4>1. object[p] \in ToSet(object) /\ object[q] \in ToSet(object)
        BY DEF ToSet
      <4> QED
        BY <2>3, <3>5, <3>6, <4>1 DEF Plain
    <3> QED
      BY <3>1, <3>2, <3>4, <3>8, <3>9, PlainOrder
  <2>4. \A e \in ToSet(out) : Misread(e.key) \/ e \in ToSet(object)
    <3>1. \A e \in ToSet(out) : \E m \in DOMAIN out : e = out[m]
      BY DEF ToSet
    <3> QED
      BY <2>1, <3>1 DEF OwnValues
  <2>5. \A e \in ToSet(object) : Written(e)
    <3>1. \A e \in ToSet(object) : e.key \in ToSet(KeysOf(object))
      BY DEF ToSet, KeysOf
    <3>2. \A e \in ToSet(object) : \E k \in DOMAIN keys : keys[k] = e.key
      BY <2>1, <3>1 DEF ToSet
    <3> QED
      BY <2>1, <3>2 DEF MergedWritten
  <2> QED
    BY <2>3, <2>4, <2>5 DEF Canonical, Written
<1> QED
  BY <1>1, TypeInit, TypeStep, SortInit, SortStep, MergeInit, MergeStep,
     PTL DEF Spec

=============================================================================
