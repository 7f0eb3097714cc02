----------------------------- MODULE OneTimeKeys -----------------------------
(***************************************************************************)
(* The one-time keys of an account: MatrixClientGenerateOnetimeKeys and    *)
(* MatrixClientUploadOnetimeKeys (matrix.c 553-628), the account of the    *)
(* Olm library they drive, and the homeserver that hands the keys to other *)
(* devices, which open sessions with them (NewOlmSessionIn).               *)
(*                                                                         *)
(* Nothing marks a key as published or removes one that was used, so every *)
(* upload offers all of them.  Three limits apply to that: the randomness  *)
(* for one call, the static text olm lists the keys in, which keeps the    *)
(* list before when the keys do not fit, and the request, which is cut     *)
(* when they do not fit.                                                   *)
(*                                                                         *)
(* A key is its number: its id in the account.                             *)
(*                                                                         *)
(* An unused definition right before another with the same parameters is   *)
(* that one with a fault (see the README).                                 *)
(***************************************************************************)
EXTENDS Integers, Sequences, SequencesExt

CONSTANTS
    Devices,        \* other devices, which claim keys
    RandomKeys,     \* keys OLM_ONETIME_KEYS_RANDOM_SIZE is enough for: 10
    RequestCap,     \* keys KEYS_UPLOAD_REQUEST_SIZE is enough for: 17
    ListCap,        \* keys onetimeKeysBuffer is enough for: 18
    MaxKeys,        \* MAX_ONE_TIME_KEYS of olm: 100
    MaxGenerated,   \* keys ever generated (bounds the model)
    NoList

ASSUME KeysAssumption ==
    /\ {RandomKeys, RequestCap, ListCap, MaxKeys, MaxGenerated} \subseteq Nat
    /\ RequestCap <= ListCap
    /\ ListCap < MaxKeys
    /\ NoList \notin Seq(Nat)

VARIABLES
    keys,           \* one_time_keys of the account, the newest first
    generated,      \* next_one_time_key_id
    list,           \* onetimeKeysBuffer; NoList while it is empty
    crashed,
    \* the homeserver and the other devices
    pool,           \* keys the server will hand out
    claims,         \* <<d, k>>: d got k and has not used it yet
    \* history
    offered,        \* keys that have reached the server
    fresh           \* ... and an upload has, since the last keys were made

vars == <<keys, generated, list, crashed, pool, claims, offered, fresh>>

Init ==
    /\ keys = <<>>
    /\ generated = 0
    /\ list = NoList
    /\ crashed = FALSE
    /\ pool = {}
    /\ claims = {}
    /\ offered = {}
    /\ fresh = FALSE

-----------------------------------------------------------------------------
(* The client                                                              *)

\* List::insert at the front; what is beyond the capacity falls off the end.
Inserted(n) ==
    LET all == [i \in 1 .. n |-> generated + n + 1 - i] \o keys
    IN  SubSeq(all, 1, IF Len(all) < MaxKeys THEN Len(all) ELSE MaxKeys)

\* Any other number, a negative one too, asks for more randomness than there is.
Generate(n) ==
    /\ n \in 1 .. RandomKeys
    /\ generated + n <= MaxGenerated
    /\ keys' = Inserted(n)
    /\ generated' = generated + n
    /\ fresh' = FALSE
    /\ UNCHANGED <<list, crashed, pool, claims, offered>>

\* olm_account_one_time_keys: all keys, or an error and the text as it was.
Listed(ks) == IF Len(ks) <= ListCap THEN ks ELSE list

\* The keys of the list that a request has, if it is JSON still (a cut that falls
\* right behind a comma, which would be mended, is left out).
RequestedCut(ks) == { ks[i] : i \in DOMAIN ks \cap 1 .. RequestCap }
Requested(ks) == IF Len(ks) <= RequestCap THEN ToSet(ks) ELSE {}

\* The server keeps what it has under the same id.
Accept(ks) ==
    /\ pool' = pool \cup ks
    /\ offered' = offered \cup ks
    /\ fresh' = TRUE

\* The result of the POST, which may get lost, is ignored.
Upload ==
    /\ Listed(keys) # NoList
    /\ list' = Listed(keys)
    /\ \/ Accept(Requested(list'))
       \/ UNCHANGED <<pool, offered, fresh>>
    /\ UNCHANGED <<keys, generated, crashed, claims>>

\* Nothing was ever listed: mjson_find leaves keys and keysLen uninitialised,
\* and mjson_next reads them.
UploadUnlisted ==
    /\ Listed(keys) = NoList
    /\ \/ crashed' = TRUE /\ UNCHANGED <<pool, offered, fresh>>
       \/ Accept({}) /\ UNCHANGED crashed
       \/ UNCHANGED <<crashed, pool, offered, fresh>>
    /\ UNCHANGED <<keys, generated, list, claims>>

\* NewOlmSessionIn looks the key up in the account and leaves it there.
KeysAfterRemoval(k) == SelectSeq(keys, LAMBDA x : x # k)
KeysAfter(k) == keys

Open(d, k) ==
    /\ <<d, k>> \in claims
    /\ claims' = claims \ {<<d, k>>}
    /\ keys' = KeysAfter(k)
    /\ UNCHANGED <<generated, list, crashed, pool, offered, fresh>>

-----------------------------------------------------------------------------
(* The homeserver: a device claims a key (external)                        *)

Claim(d, k) ==
    /\ k \in pool
    /\ pool' = pool \ {k}
    /\ claims' = claims \cup {<<d, k>>}
    /\ UNCHANGED <<keys, generated, list, crashed, offered, fresh>>

-----------------------------------------------------------------------------

Client ==
    \/ \E n \in 1 .. RandomKeys : Generate(n)
    \/ Upload
    \/ UploadUnlisted
    \/ \E d \in Devices, k \in 1 .. MaxGenerated : Open(d, k)

Next ==
    /\ ~crashed
    /\ Client \/ \E d \in Devices, k \in pool : Claim(d, k)

Spec == Init /\ [][Next]_vars

-----------------------------------------------------------------------------
(* Properties                                                              *)

Keys == 1 .. generated

TypeOK ==
    /\ generated \in 0 .. MaxGenerated
    /\ keys \in Seq(Keys)
    /\ Len(keys) <= MaxKeys
    /\ list \in Seq(Keys) \cup {NoList}
    /\ crashed \in BOOLEAN
    /\ pool \subseteq Keys
    /\ claims \subseteq Devices \X Keys
    /\ offered \subseteq Keys
    /\ fresh \in BOOLEAN

\* Whatever key the server hands out, again or for the first time, however old
\* the list it came from, a session can be opened with it; only a key as old as
\* the capacity of the account may be gone.
KeysUsable ==
    \A k \in pool \cup { c[2] : c \in claims } :
        k \in ToSet(keys) \/ generated - k >= MaxKeys

\* While all keys fit a request, an upload that arrives has offered all of them,
\* whatever was lost before.  From then on none does: the keys that ever reach
\* the server in the life of an account are among the first RequestCap.
OfferedInTime ==
    /\ fresh /\ generated <= RequestCap => Keys \subseteq offered
    /\ offered \subseteq 1 .. RequestCap

=============================================================================
