----------------------------- MODULE Canonicalize -----------------------------
(***************************************************************************)
(* JsonCanonicalize (matrix.c 112-173), which writes an object with its    *)
(* keys in order, for the commitment of a verification (matrix.c 943).     *)
(*                                                                         *)
(* It collects the keys with their quotes, sorts them by exchange, then    *)
(* looks each value up by the path of its key and merges the entry into    *)
(* the text written so far.  Comparing the quotes as well keeps a key from *)
(* being the beginning of another, but puts it behind those that go on     *)
(* with a character below the quote.  The path is cut at JSON_QUERY_SIZE,  *)
(* so a long key is given the value of one it goes on from, and it is not  *)
(* escaped: a dot, a bracket or a backslash is read otherwise.  If nothing *)
(* is found, what is printed is what valPtr, uninitialised in each round,  *)
(* points to.  An entry is lost if it is longer than JSON_MAX_ENTRY_SIZE   *)
(* or the text has no room for it.                                         *)
(*                                                                         *)
(* A key is the sequence of its characters with the closing quote.  No key *)
(* is in an object twice.  Values are strings, of which only the length    *)
(* counts, or null.                                                        *)
(*                                                                         *)
(* An unused definition right before another with the same parameters is   *)
(* that one with a fault (see the README).                                 *)
(***************************************************************************)
EXTENDS Integers, Sequences, SequencesExt

CONSTANTS
    Objects,        \* inputs: sequences of [key, value]
    Values, Null, Garbage,
    ValueLen,       \* how long a value is, with its quotes
    MaxIndices,     \* JSON_MAX_INDICES
    QuerySize,      \* JSON_QUERY_SIZE
    EntrySize,      \* JSON_MAX_ENTRY_SIZE
    OutCap          \* size of the output

Key == Seq(Nat)
Input == [key : Key, value : Values \cup {Null}]
Entry == [key : Key, value : Values \cup {Null, Garbage}]

\* A key ends with its quote.  Only an escaped quote can be inside, so no key is
\* the beginning of another.
EndsQuoted(key) == key # <<>> /\ key[Len(key)] = 34

ASSUME CanonicalizeAssumption ==
    /\ Objects \subseteq Seq(Input)
    /\ \A o \in Objects : \A n \in DOMAIN o : EndsQuoted(o[n].key)
    /\ \A o \in Objects : \A m, n \in DOMAIN o :
         IsPrefix(o[m].key, o[n].key) => m = n
    /\ Null \notin Values
    /\ Garbage \notin Values
    /\ ValueLen \in [Values -> Nat]
    /\ MaxIndices \in Nat
    /\ QuerySize \in Nat
    /\ QuerySize >= 3
    /\ EntrySize \in Nat
    /\ OutCap \in Nat

VARIABLES
    object,         \* sIn
    pc,             \* collect, sort, merge, done or crashed
    keys,
    i, j,
    value,          \* what valPtr points to
    out,            \* the entries that are whole in sOut
    used            \* ... and the room they take

vars == <<object, pc, keys, i, j, value, out, used>>

Init ==
    /\ object \in Objects
    /\ pc = "collect"
    /\ keys = <<>>
    /\ i = 1
    /\ j = 1
    /\ value = Garbage
    /\ out = <<>>
    /\ used = 0

-----------------------------------------------------------------------------

\* One key after the other, whatever the size of the array.
Collect ==
    /\ pc = "collect"
    /\ keys' = [n \in DOMAIN object |-> object[n].key]
    /\ pc' = IF Len(object) > MaxIndices THEN "crashed" ELSE "sort"
    /\ UNCHANGED <<object, i, j, value, out, used>>

\* strncmp(a, b, MIN of the lengths) > 0
GreaterAtStart(a, b) == a # <<>> /\ b # <<>> /\ a[1] > b[1]
Greater(a, b) ==
    \E n \in DOMAIN a \cap DOMAIN b :
        a[n] > b[n] /\ \A m \in 1 .. n - 1 : a[m] = b[m]

Overwritten(m, n) == [keys EXCEPT ![m] = keys[n]]
Exchanged(m, n) == [keys EXCEPT ![m] = keys[n], ![n] = keys[m]]

Compare ==
    /\ pc = "sort"
    /\ i <= Len(keys)
    /\ j <= Len(keys)
    /\ keys' = IF Greater(keys[i], keys[j]) THEN Exchanged(i, j) ELSE keys
    /\ j' = j + 1
    /\ UNCHANGED <<object, pc, i, value, out, used>>

NextPass ==
    /\ pc = "sort"
    /\ i <= Len(keys)
    /\ j > Len(keys)
    /\ i' = i + 1
    /\ j' = i + 1
    /\ UNCHANGED <<object, pc, keys, value, out, used>>

Sorted ==
    /\ pc = "sort"
    /\ i > Len(keys)
    /\ pc' = "merge"
    /\ i' = 1
    /\ UNCHANGED <<object, keys, j, value, out, used>>

Bare(key) == SubSeq(key, 1, Len(key) - 1)

\* jp: "$." and the NUL leave the key three characters less.
Path(key) ==
    SubSeq(key, 1, IF Len(key) - 1 <= QuerySize - 3 THEN Len(key) - 1 ELSE QuerySize - 3)

\* Characters that mjson_find reads otherwise in a path: . [ \
InPath(path) == ToSet(path) \cap {46, 91, 92} # {}

ValuesAt(path) == { e.value : e \in { o \in ToSet(object) : Bare(o.key) = path } }

NotFound(key) == InPath(Path(key)) \/ ValuesAt(Path(key)) = {}

\* What valPtr points to: a value, or, if there is none, what it did in the round
\* before or anything else, which the merge may print or not take.
Found(key) ==
    IF NotFound(key) THEN {value, Garbage, Null} ELSE ValuesAt(Path(key))

LengthsOf(v) ==
    IF v = Garbage THEN 0 .. EntrySize ELSE IF v = Null THEN {0} ELSE {ValueLen[v]}

\* The opening quote, the colon, and the comma or the brace in front.
Room(key, len) == Len(key) + len + 3

\* An entry is read though its closing brace is cut off, but not if more is.
Whole(key, len) == Room(key, len) < EntrySize

FitsAlways(key, len) == TRUE
\* mjson_print_fixed_buf cuts what does not fit; the closing brace may be cut.
Fits(key, len) == used + Room(key, len) < OutCap

\* The next merge drops a cut entry at the end of the text; null adds nothing.
Merge ==
    /\ pc = "merge"
    /\ i <= Len(keys)
    /\ i' = i + 1
    /\ value' \in Found(keys[i])
    /\ \E len \in LengthsOf(value') :
         IF value' # Null /\ Whole(keys[i], len) /\ Fits(keys[i], len)
         THEN /\ out' = Append(out, [key |-> keys[i], value |-> value'])
              /\ used' = used + Room(keys[i], len)
         ELSE UNCHANGED <<out, used>>
    /\ UNCHANGED <<object, pc, keys, j>>

\* valPtr points to nowhere, or to a text that is not one value.
MergeCrashes ==
    /\ pc = "merge"
    /\ i <= Len(keys)
    /\ NotFound(keys[i])
    /\ pc' = "crashed"
    /\ UNCHANGED <<object, keys, i, j, value, out, used>>

Return ==
    /\ pc = "merge"
    /\ i > Len(keys)
    /\ pc' = "done"
    /\ UNCHANGED <<object, keys, i, j, value, out, used>>

Next ==
    \/ Collect \/ Compare \/ NextPass \/ Sorted
    \/ Merge \/ MergeCrashes \/ Return

Spec == Init /\ [][Next]_vars

-----------------------------------------------------------------------------
(* Properties                                                              *)

KeysOf(o) == [n \in DOMAIN o |-> o[n].key]

TypeOK ==
    /\ object \in Seq(Input)
    /\ pc \in {"collect", "sort", "merge", "done", "crashed"}
    /\ keys \in Seq(Key)
    /\ i \in 1 .. Len(object) + 1
    /\ j \in 1 .. Len(object) + 1
    /\ value \in Values \cup {Null, Garbage}
    /\ out \in Seq(Entry)
    /\ used \in 0 .. OutCap

\* After the loops no key is greater than one behind it, and each is there still,
\* though the exchanges move keys that were in order already.
InOrder ==
    pc \in {"merge", "done"} =>
        /\ ToSet(keys) = ToSet(KeysOf(object))
        /\ \A m, n \in DOMAIN keys : m < n => ~ Greater(keys[m], keys[n])

\* The order of canonical JSON: by the first character that differs, a beginning
\* first.
Precedes(a, b) ==
    \/ IsStrictPrefix(a, b)
    \/ \E n \in DOMAIN a \cap DOMAIN b :
         a[n] < b[n] /\ SubSeq(a, 1, n - 1) = SubSeq(b, 1, n - 1)

\* No key has a character below the quote.
Plain == \A e \in ToSet(object) : \A c \in ToSet(e.key) : c >= 34

\* The path of the key is cut or reads otherwise.
Misread(key) == InPath(key) \/ Len(key) - 1 > QuerySize - 3

\* What is written is in the order of canonical JSON if the keys are plain.  An
\* entry is written with its own value, unless its path is misread or the value is
\* null; or left out because it is longer than newEntry, or because it does not
\* fit, were it even last.
Canonical ==
    pc = "done" =>
        /\ Plain => \A m, n \in DOMAIN out :
                      m < n => Precedes(Bare(out[m].key), Bare(out[n].key))
        /\ \A e \in ToSet(out) : Misread(e.key) \/ e \in ToSet(object)
        /\ \A e \in ToSet(object) :
             \/ Misread(e.key)
             \/ e.value = Null
             \/ e \in ToSet(out)
             \/ Room(e.key, ValueLen[e.value]) >= EntrySize
             \/ used + Room(e.key, ValueLen[e.value]) >= OutCap

=============================================================================
