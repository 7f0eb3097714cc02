----------------------------- MODULE DeviceCache -----------------------------
(***************************************************************************)
(* The client's table of device keys and its master key (matrix.c          *)
(* 1773-1974).                                                             *)
(*                                                                         *)
(* A lookup scans client->devices; on a miss it posts keys/query and files *)
(* the answer, then scans again.  RequestDeviceKey and RequestSigningKey   *)
(* call FindDevice, RequestDeviceKeys and FindDevice in turn, and          *)
(* FindDevice itself queries between two scans: flattened, a lookup that   *)
(* never hits is scan, query, scan, query, scan, query, scan.              *)
(* RequestMasterKey is scan, query, scan.                                  *)
(*                                                                         *)
(* The two keys of a device (curve25519, ed25519) are parsed and copied    *)
(* together and are one value here.  A key is <<owner, generation>>, so    *)
(* that a key filed under another device's id can be told apart.           *)
(*                                                                         *)
(* The account on the server changes at any moment: devices appear, log    *)
(* out, or log in again under the same id with fresh keys.                 *)
(*                                                                         *)
(* An unused definition right before another with the same parameters is   *)
(* that one with a fault (see the README).                                 *)
(***************************************************************************)
EXTENDS Naturals, Sequences

CONSTANTS
    Devices,        \* device ids of the user's account
    Gens,           \* generations of keys
    NUM_DEVICES,    \* capacity of client->devices
    Irregular,      \* the irregular answers that can happen, see below
    Master,         \* the name of the master key as a lookup target
    NoKey,          \* an absent key
    Garbage,        \* what an uninitialised buffer holds
    Pending         \* the reply of a lookup that has not returned

\* noMaster   the account has no cross-signing keys for a while
\* noKey      a device has published no curve25519/ed25519 key of its own
\* error      the server answers with an error object (an expired token)
\* lost       the ESP32 transport fails, and says true all the same
Irregularities == {"noMaster", "noKey", "error", "lost"}

KeysOf(owner) == {owner} \X Gens

Keys == ((Devices \cup {Master}) \X Gens) \cup {Garbage}

ASSUME CacheAssumption ==
    /\ NUM_DEVICES \in Nat \ {0}
    /\ Irregular \subseteq Irregularities
    /\ Master \notin Devices
    /\ Garbage \notin Devices \cup {Master}
    /\ Garbage \notin (Devices \cup {Master}) \X Gens
    /\ NoKey \notin Keys
    /\ Pending \notin Keys \cup {NoKey}

VARIABLES
    \* the server's side of the account
    published,      \* device -> its key, NoKey when it is not listed
    publishedMaster,
    \* the client
    devices,        \* client->devices[0 .. numDevices-1]
    masterKey,      \* client->masterKey, NoKey when empty
    response,       \* the static responseBuffer of RequestDeviceKeys
    \* the lookup in progress
    pc,             \* scan, query, master, store; idle or crashed
    target,         \* the device id asked for, or Master
    tries,          \* keys/query calls made by this lookup
    todo,           \* entries of the answer the loop has still to visit
    dKey,           \* deviceKey field of the loop's local MatrixDevice d
    reply,          \* what the last lookup gave its caller
    \* history, read by the properties only
    offered,        \* the target was in an answer of this lookup
    odd             \* an irregular answer was used

serverVars  == <<published, publishedMaster>>
clientVars  == <<devices, masterKey, response>>
vars == <<serverVars, clientVars, pc, target, tries, todo, dKey, reply,
          offered, odd>>

-----------------------------------------------------------------------------

Entry == [id : Devices \cup {Garbage}, key : Keys \cup {NoKey}]

Answer == [kind : {"keys", "error"}, master : Keys \cup {NoKey},
           entries : SUBSET Entry]

Stored == [id : Devices \cup {Garbage}, key : Keys]

\* The object the server has for the account: the devices that have keys.
AccountAnswer ==
    [kind    |-> "keys",
     master  |-> publishedMaster,
     entries |-> { [id |-> d, key |-> published[d]] :
                     d \in { x \in Devices : published[x] # NoKey } }]

\* No keys of this user: an error object, or the buffer before any answer.
EmptyAnswer == [kind |-> "error", master |-> NoKey, entries |-> {}]

\* A device that publishes without the keys the client looks for.
WithoutKey(a, d) ==
    [a EXCEPT !.entries =
        { e \in @ : e.id # d } \cup { [id |-> d, key |-> NoKey] }]

FreshAnswers ==
    {AccountAnswer}
    \cup (IF "error" \in Irregular THEN {EmptyAnswer} ELSE {})
    \cup (IF "noKey" \in Irregular
          THEN { WithoutKey(AccountAnswer, d) : d \in Devices } ELSE {})

\* When the transport fails nothing is written: the last answer is still there.
PostOutcomes ==
    FreshAnswers \cup (IF "lost" \in Irregular THEN {response} ELSE {})

\* No object of this user, no master key in it, or a device without its keys.
Odd(a) ==
    \/ a.kind = "error"
    \/ a.master = NoKey
    \/ \E e \in a.entries : e.key = NoKey

Ids(seq) == { seq[i].id : i \in DOMAIN seq }

FullLate == Len(devices) > NUM_DEVICES
Full == Len(devices) >= NUM_DEVICES

Queries(t) == IF t = Master THEN 1 ELSE 3

Found(t) == IF t = Master THEN masterKey # NoKey ELSE t \in Ids(devices)

\* strcmp scan of the array, first match; or the master key
FoundKeysOfFirst(t) == IF t = Master THEN {masterKey} ELSE {devices[1].key}
FoundKeys(t) ==
    IF t = Master THEN {masterKey}
    ELSE { devices[i].key : i \in { j \in DOMAIN devices :
              /\ devices[j].id = t
              /\ \A h \in 1 .. j - 1 : devices[h].id # t } }

\* A field mjson_get_string does not find keeps what the last round of the loop
\* left in d.
ParsedKeyCleared(e) == e.key
ParsedKeyOnce(e) == IF dKey = Garbage THEN e.key ELSE dKey
ParsedKey(e) == IF e.key = NoKey THEN dKey ELSE e.key

\* foundDevice: the loop over the whole table
FiledAny(id) == devices # <<>>
Filed(id) == id \in Ids(devices)

\* The table after a round of the loop: known devices keep their entry.
FileNewest(d) ==
    IF Filed(d.id)
    THEN [i \in DOMAIN devices |->
             IF devices[i].id = d.id THEN d ELSE devices[i]]
    ELSE Append(devices, d)
File(d) == IF Filed(d.id) THEN devices ELSE Append(devices, d)

-----------------------------------------------------------------------------

Init ==
    /\ published \in [Devices -> (Devices \X Gens) \cup {NoKey}]
    /\ \A d \in Devices : published[d] \in KeysOf(d) \cup {NoKey}
    /\ publishedMaster \in KeysOf(Master)
                       \cup (IF "noMaster" \in Irregular THEN {NoKey} ELSE {})
    /\ devices = <<>>
    /\ masterKey = NoKey
    /\ response = EmptyAnswer
    /\ pc = "idle"
    /\ target = Master
    /\ tries = 0
    /\ todo = {}
    /\ dKey = Garbage
    /\ reply = NoKey
    /\ offered = FALSE
    /\ odd = FALSE

\* A handler calls RequestDeviceKey, RequestSigningKey or RequestMasterKey.
Call(t) ==
    /\ pc = "idle"
    /\ pc' = "scan"
    /\ target' = t
    /\ tries' = 0
    /\ reply' = Pending
    /\ offered' = FALSE
    /\ UNCHANGED <<serverVars, clientVars, todo, dKey, odd>>

ScanHit ==
    /\ pc = "scan"
    /\ Found(target)
    /\ reply' \in FoundKeys(target)
    /\ pc' = "idle"
    /\ UNCHANGED <<serverVars, clientVars, target, tries, todo, dKey,
                   offered, odd>>

ScanMiss ==
    /\ pc = "scan"
    /\ ~Found(target)
    /\ IF tries < Queries(target)
       THEN pc' = "query" /\ reply' = reply
       ELSE pc' = "idle"  /\ reply' = NoKey
    /\ UNCHANGED <<serverVars, clientVars, target, tries, todo, dKey,
                   offered, odd>>

\* RequestDeviceKeys with a full table does not even ask.
QueryFull ==
    /\ pc = "query"
    /\ Full
    /\ tries' = tries + 1
    /\ pc' = "scan"
    /\ UNCHANGED <<serverVars, clientVars, target, todo, dKey, reply,
                   offered, odd>>

\* MatrixHttpPost returns true whatever happened, in both transports.
Query ==
    /\ pc = "query"
    /\ ~Full
    /\ tries' = tries + 1
    /\ response' \in PostOutcomes
    /\ offered' = \/ offered
                  \/ /\ target = Master
                     /\ response'.master # NoKey
                  \/ \E e \in response'.entries : e.id = target
    /\ odd' = (odd \/ Odd(response'))
    /\ pc' = "master"
    /\ UNCHANGED <<serverVars, devices, masterKey, target, todo, dKey, reply>>

\* Both loops start from what mjson_find stored in s and slen; the first find
\* that misses leaves them uninitialised.
StoreMaster ==
    /\ pc = "master"
    /\ response.master # NoKey
    /\ masterKey' = response.master
    /\ todo' = response.entries
    /\ pc' = "store"
    /\ dKey' = Garbage
    /\ UNCHANGED <<serverVars, devices, response, target, tries, reply,
                   offered, odd>>

\* Whatever s points to: no string in it, some string, or no readable memory.
StoreMasterUninitialised ==
    /\ pc = "master"
    /\ response.master = NoKey
    /\ masterKey' \in {masterKey, Garbage}
    /\ todo' \in {response.entries} \cup
                 (IF response.kind = "error"
                  THEN {{[id |-> Garbage, key |-> Garbage]}} ELSE {})
    /\ pc' \in {"store", "crashed"}
    /\ dKey' = Garbage
    /\ UNCHANGED <<serverVars, devices, response, target, tries, reply,
                   offered, odd>>

\* One round of the loop: parse the entry into d, then file d.
StoreDevice(e) ==
    /\ pc = "store"
    /\ e \in todo
    /\ dKey' = ParsedKey(e)
    /\ ~Full
    /\ devices' = File([id |-> e.id, key |-> dKey'])
    /\ todo' = todo \ {e}
    /\ UNCHANGED <<serverVars, masterKey, response, pc, target, tries, reply,
                   offered, odd>>

\* The first entry met with a full table ends the loop.
StoreFull ==
    /\ pc = "store"
    /\ todo # {}
    /\ Full
    /\ todo' = {}
    /\ pc' = "scan"
    /\ UNCHANGED <<serverVars, clientVars, target, tries, dKey, reply,
                   offered, odd>>

StoreDone ==
    /\ pc = "store"
    /\ todo = {}
    /\ pc' = "scan"
    /\ UNCHANGED <<serverVars, clientVars, target, tries, todo, dKey, reply,
                   offered, odd>>

-----------------------------------------------------------------------------
(* The account, seen from the server.                                      *)

\* A device logs in, or logs in again with new keys under its old id.
Publish(d, k) ==
    /\ k \in KeysOf(d)
    /\ published' = [published EXCEPT ![d] = k]
    /\ UNCHANGED <<publishedMaster, clientVars, pc, target, tries, todo, dKey,
                   reply, offered, odd>>

Withdraw(d) ==
    /\ published' = [published EXCEPT ![d] = NoKey]
    /\ UNCHANGED <<publishedMaster, clientVars, pc, target, tries, todo, dKey,
                   reply, offered, odd>>

ResetMaster(k) ==
    /\ k \in KeysOf(Master)
    /\ publishedMaster' = k
    /\ UNCHANGED <<published, clientVars, pc, target, tries, todo, dKey, reply,
                   offered, odd>>

-----------------------------------------------------------------------------

Client ==
    \/ ScanHit
    \/ ScanMiss
    \/ QueryFull
    \/ Query
    \/ StoreMaster
    \/ StoreMasterUninitialised
    \/ \E e \in todo : StoreDevice(e)
    \/ StoreFull
    \/ StoreDone

Account ==
    \/ \E d \in Devices, k \in Devices \X Gens : Publish(d, k)
    \/ \E d \in Devices : Withdraw(d)
    \/ \E k \in {Master} \X Gens : ResetMaster(k)

Next ==
    \/ \E t \in Devices \cup {Master} : Call(t)
    \/ Client
    \/ Account

Spec == Init /\ [][Next]_vars

-----------------------------------------------------------------------------
(* Properties                                                              *)

TypeOK ==
    /\ published \in [Devices -> (Devices \X Gens) \cup {NoKey}]
    /\ publishedMaster \in ({Master} \X Gens) \cup {NoKey}
    /\ devices \in Seq(Stored)
    /\ masterKey \in Keys \cup {NoKey}
    /\ response \in Answer
    /\ pc \in {"idle", "scan", "query", "master", "store", "crashed"}
    /\ target \in Devices \cup {Master}
    /\ tries \in Nat
    /\ todo \in SUBSET Entry
    /\ dKey \in Keys
    /\ reply \in Keys \cup {NoKey, Pending}
    /\ offered \in BOOLEAN
    /\ odd \in BOOLEAN

\* The table never holds more than NUM_DEVICES devices nor one device twice,
\* over any number of answers, repeated, stale or garbled: FindDevice's first
\* match is then the only one.
TableSound ==
    /\ Len(devices) <= NUM_DEVICES
    /\ \A i, j \in DOMAIN devices : devices[i].id = devices[j].id => i = j

\* As long as every answer used was regular, fresh or left over, every key the
\* client holds, or has given to a caller, belongs to the device (or master key)
\* it stands for.
KeysBelong ==
    ~odd =>
        /\ \A i \in DOMAIN devices : devices[i].key \in KeysOf(devices[i].id)
        /\ masterKey \in KeysOf(Master) \cup {NoKey}
        /\ reply \in KeysOf(target) \cup {NoKey, Pending}

\* A lookup gives up only on what no answer offered it, or on a full table:
\* nothing an answer carried is lost between the loop and the second scan.
MissExplained ==
    pc = "idle" /\ reply = NoKey /\ offered =>
        target \in Devices /\ Len(devices) = NUM_DEVICES

\* Keys are pinned: once filed, a device keeps its place and its key whatever
\* the account does, so a key compared by a user stays the key that is used.
KeysPinned ==
    [][ /\ Len(devices') >= Len(devices)
        /\ \A i \in DOMAIN devices : devices'[i] = devices[i] ]_vars

\* "lookup the master key for this user and if not present get it from server"
\* (matrix.h 440): what is returned came from the server.
MasterKeyFromServer == target = Master => reply # Garbage

Directory == INSTANCE KeyDirectory WITH
    Names  <- Devices \cup {Master, Garbage},
    known  <- { <<devices[i].id, devices[i].key>> : i \in DOMAIN devices },
    master <- masterKey,
    answer <- reply

\* The cache is a directory that pins what it learns and answers from it.
ImplementsDirectory == Directory!Spec

=============================================================================
