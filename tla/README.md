# TLA+ models of MatrixClientLibrary

MatrixClientLibrary is a small Matrix client in C for desktops and the ESP32: it
logs in, publishes Olm keys, verifies itself against another device of the user
(SAS), exchanges encrypted to-device messages (Olm), and writes and reads
encrypted rooms (Megolm). It is one thread of straight-line code around fixed
tables and static buffers. What makes it hard is not parallelism inside the
program but everything around it: the homeserver and the other devices move
between two calls, several peers share one set of static variables, requests
fail without the caller noticing, tables fill up and never empty, and buffers
keep what an earlier call left in them.

All paths below are relative to the repository; `matrix.c` is `src/src/matrix.c`.

## 1. Inventory

| component | code | state | modelled in |
|---|---|---|---|
| device key cache | `matrix.c` 1773-1974 | `devices`, `masterKey`, static `responseBuffer` | `DeviceCache`, promise in `KeyDirectory` |
| device verification | `matrix.c` 875-1145 | static `transactionId`, `verifyFromDeviceId`, `olmSas`; `verified` | `Verification` |
| Olm sessions | `matrix.c` 280-405, 675-734, 1146-1194, 1553-1757 | `olmSessions`, static `deviceKey` and `decrypted` | `OlmSessions` |
| Megolm sessions, room events | `matrix.c` 407-503, 817-873, 1195-1253, 1391-1510 | `megolmInSessions`, `megolmOutSessions`, static `decrypted` | `MegolmRooms` |
| sync and dispatch | `matrix.c` 1256-1368 | `next_batch` and the buffer of the caller | `SyncLoop`; the order of one answer in `MegolmRooms` |
| sending, transaction ids | `matrix.c` 793-813, 1646-1679 | none; the clock | `MegolmRooms.SendEvent`, `Share` (partly) |
| HTTP, desktop | `matrix_http_mongoose.c` | `connected`, `dataReceived`, `data`, the connection | `HttpMongoose` |
| HTTP, ESP32 | `matrix_http_esp32.c` | `data`, `dataLen`, `dataCap` | `HttpEsp32`; its failed POST also in `DeviceCache` |
| Olm account, one-time keys | `matrix.c` 216-278, 554-672 | the Olm account, static `onetimeKeysBuffer` | `OneTimeKeys` (partly) |
| login and identity | `matrix.c` 518-552, 736-790 | token, device id | not modelled |
| JSON utilities | `matrix.c` 85-214 | none | `Canonicalize` (partly) |
| ESP32 Wi-Fi set-up | `esp32/esp_project/main/wifi.c` | event group, retry counter | `EspWifi` |
| ESP32 program | `esp32/esp_project/main/Verify.c` | static `syncBuffer`, `nextBatch` | `EspNode`: Wi-Fi, then the sync loop |
| other examples, command line | `examples` | none | callers; their orders of calls are behaviours of the models |
| vendored olm, mjson, mongoose | `ext` | - | only what decides what this client does: olm's list of one-time keys, mjson's paths and merge |

How they interact. `MatrixClientSync` gets an answer over HTTP and hands it to
`HandleSync`, which passes each to-device event to `HandleEvent` and then each
room event to `HandleRoomEvent`; both may call `HandleEvent` again on what they
decrypt. The handlers of a verification send their replies with `SendToDevice`
and look keys up in the device cache; the Olm branch looks up or makes a session
under the device name the last verification request left behind; room keys
arrive through Olm and open room events. Each of these calls is a request over
the one HTTP connection, and each ignores most of the results it gets.

What makes each component correct:

- *cache*: no device twice, never beyond the table, a key always of its device,
  a key never silently replaced, a miss only for a reason;
- *verification*: no dead SAS object used or freed, none leaked, replies in the
  right transaction to the right device, MACs only after the user confirmed;
- *Olm sessions*: the session found for a device is that device's and stays so,
  every message is decrypted and handled once, every reply is readable;
- *rooms*: who holds a room's key reads what follows it, never another event's
  text in its place; one session per room; a message lost only with its request;
  the tables hold what was put into them;
- *HTTP*: a call returns the answer to its own request, and returns;
- *sync*: no event is handled twice, and each is in the end unless a cut answer or
  a lost link explains it;
- *Wi-Fi*: a failure reported is final;
- *one-time keys*: every key another device may get can still be opened, and new
  keys reach the server;
- *canonical JSON*: the keys in order, each with its own value, none left out but for
  its length or want of room.

`PROJECT.json` lists the hazards of this code line by line, with the properties
that cover each, or the reason why none does yet.

## 2. Modules

### DeviceCache and KeyDirectory

`DeviceCache` has one action per step of a lookup. `Call` is a call of
`RequestDeviceKey`, `RequestSigningKey` or `RequestMasterKey`; `ScanHit` and
`ScanMiss` are `FindDevice`'s scan; `Query` is the POST to `keys/query`, with
`QueryFull` its early return; `StoreMaster`, `StoreDevice`, `StoreFull` and
`StoreDone` file the answer, entry by entry. The flattened order of scans and
queries is in the module's header. `Publish`, `Withdraw` and `ResetMaster` are
the account changing at any moment. The constant `Irregular` switches on what a
regular server and transport do not do: error objects, accounts without a master
key, devices without keys, and POSTs of the ESP32 transport that fail and say
true, so that the buffer of the query before is parsed again. Where `mjson_find`
fails and its outputs are read uninitialised (1905-1914), the model chooses among
what the memory may hold, or crashes.

`KeyDirectory` is the abstract promise of `matrix.h`: a directory that pins the
first key it learns for a device and answers from what it knows. The refinement
maps the table to a set of pairs (`DeviceCache!Directory`).

### Verification

The four handlers are four actions of the client; `Send` is `SendToDevice`,
whose PUT may be lost. `Sync` fetches what has come since the last answer
(`fetched` counts the events still to be handled, `answer` keeps them all);
`SyncAgain` is a GET that fails, after which `MatrixClientSync` handles the buffer
it has once more, from the first event to the last (1357-1365), requests, starts
and MACs among them. SAS objects are numbered in order of their `malloc`, and
using or freeing a dead one is recorded in `fault` and followed by anything such
a build may do. Peers conform to the protocol: they check the commitment, the
code (compared by a user with what the client printed last) and the MACs, drop
messages of other transactions, cancel when they like and ask again with a fresh
transaction. The SAS arithmetic, MAC texts and emoji are abstracted to what they
depend on: a code is the transaction and the two keys it is computed from.

### OlmSessions

The session table, the receiving branch of `HandleEvent`, `GetOlmSession`,
`NewOlmSessionIn/Out`, `ClaimOnetimeKey` and `SendToDeviceEncrypted`, against the
user's other devices, which use type 0 until they have an answer. A session made
while handling an event carries a pointer to `verifyFromDeviceId`, not a copy,
and is therefore `aliased`: its label changes with the variable. The constants
`KeyMayMiss` and `OtkMayRunOut` let lookups fail; the static key buffers then keep
the key of the lookup before. A full table makes the callers go on with an
uninitialised pointer: a crash or some slot. `Sync` and `SyncAgain` are as in
`Verification`: a message of type 1 that is handled again does not open again
(`opened`), one of type 0 gets another session. Handling the decrypted text is
abstracted to recording it; what a decrypted event does in turn is the business
of the other modules.

### MegolmRooms

One client that writes and devices that read, all of them this library. The
writer's half is `NewMegolmOutSession`, `ShareMegolmOutSession`,
`SendEventEncrypted` and `SendEvent`; requests are named by path and second, and
the server drops a name it has had. A PUT may fail without the writer noticing
(`Put`, and `lost` in `sent`): the message does not arrive, and the session's index
goes on. The reader's half is `Sync`, which fetches an
answer (`keys`, `todo`), and then one step per event of it, as `HandleSync` calls its
handlers: `HandleKey` for the to-device events, and when these are done
(`DirectFirst`) `HandleRoomEvent` for one room after the other, with its buffer that
keeps the last plaintext. The rooms come in any order; `here` holds the rest of the
room that has been begun. `SyncAgain` is a GET that fails: the room events of the
last answer (from `since`) come again, and for each of its to-device events
any key that was in it, since what Olm does not open twice leaves an
older plaintext in the buffer. `Forward` is another device that
forwards a key, which this library cannot import and counts all the same. The
Olm channel that carries the keys is taken to work; `OlmSessions` has its own
failures.

The table of incoming sessions is modelled with its memory. A slot has 232 bytes for
olm's session (`matrix.h` 42 and 192), and olm writes 304, so `Stored` does three
things: it fills its slot, ends what the slot before could open (`whole`, whose last
72 bytes, the signing key among them, it writes over), and puts bytes of olm's in
the place of the room id of the slot after (`Overrun`). Behind the last slot lies
`numMegolmInSessions`: `CountAfter` gives it any value, as far as the code's
comparisons tell values apart (`AnyCount`), and `DecryptLast` gives it another with
each message the last session tries, which may then open or not. A negative number
makes the next key be written outside the client, one greater than the table makes
the search leave it (`dead`). Taken for granted are readers without outgoing
sessions, whose table comes next in memory, and room ids of less than 60 characters,
so that the error code olm leaves at the end of a session it cannot use lies behind the
room id of the next slot.

### HttpMongoose

The `connected` and `dataReceived` flags, the callback and the three polling
loops, against a network that refuses, drops and closes connections at any time
and a server that ends its answers by length or by closing. Get, Post and Put
are one `Call`. Lengths and texts are left out. Calls return true always; the
`if (! requestResult)` of their callers is therefore never taken in the models.

### EspNode, of EspWifi, SyncLoop and HttpEsp32

`EspWifi` has two tasks: `Start`, `Wait` and `Return` are `wifi_init`, run by the
main task; the `On...` actions are `event_handler`, run by the event loop's task
on a queue of events; the radio joins, is refused or drops at any time. `SyncLoop`
is `MatrixClientSync` with `HandleSync`, and a server that repeats what the client
has not acknowledged. `HttpEsp32` copies an answer into the caller's buffer piece
by piece. `EspNode` joins the three as `app_main` does: what `HandleSync` reads is
whatever text is in the buffer when the GET has returned, be it whole, cut, or of
an earlier answer. A body is a sequence of members (`Member`), in an order the
server chooses, and a buffer cell holds one.
A member counts as found if all of it is there, as mjson's scan has it. Where the
NUL behind a full buffer goes depends on the layout: `adjacent` is chosen at the
start and says that it empties `nextBatch`.

### OneTimeKeys

`Generate` and `Upload` are the two calls of the library, `Open` is what a new
incoming session does with the account, `Claim` another device at the server. Keys
are numbered as olm numbers them. The limits of the randomness, the request, the
list and the account (10, 17, 18 and 100 keys) are constants of which only the
order matters. The limits 17 and 18 follow from the sizes: a listed key takes 55
characters of `onetimeKeysBuffer`'s 1024, and a signed one about 230, depending on
the ids, of the request's 4096.

### Canonicalize

`JsonCanonicalize` loop by loop: `Collect`, the exchange sort (`Compare`,
`NextPass`, `Sorted`), and one `Merge` per key, or `MergeCrashes` where the value
was not found and an uninitialised pointer is printed. Keys are sequences of
character codes, because their comparison is what matters; values are strings of
which only the length counts (`ValueLen`), or null. Three buffers cut: the path at
`JSON_QUERY_SIZE` (`Path`), so that a long key is given the value of the key it
begins with; the entry at `JSON_MAX_ENTRY_SIZE` (`Whole`), so that it is no JSON and
not merged; and the output (`Fits`). `Room` counts the characters of an entry.
`Canonical` compares with the definition of canonical JSON (`Precedes`), not with
another sort.

### History variables

Properties that only hold until something irregular happens read a history variable
that says so, set by the action in which it happens and read by no guard: `odd` (an
irregular answer was used), `overlap` (two verifications at once), `again` (answers
handled again; it also bounds them), `upset` (a lookup, claim or decryption failed, or
an answer is handled again), `lost` of a message sent (its PUT failed), `trouble`
(`HandleSync` was given something else than the answer).

### Faulty variants

Before some definitions stands another with the same parameters that nothing uses
(`FullLate` before `Full`, `CopiedOrEmpty` before `Copied`): the code with a
plausible bug. `PROJECT.json` says under `mutants` which
property each of them breaks, so that no property is one that cannot fail.

## 3. Runs

| run | instance | shows |
|---|---|---|
| `DeviceCache` | 2 devices and garbled ids, 2 key generations, table of 2, all irregularities | table sound, keys belong until an irregular answer, pinned, misses explained, implements `KeyDirectory` |
| `DeviceCacheNoMaster` | 1 generation, no master key | violation: uninitialised memory returned as master key |
| `VerificationRetry` | 2 peers, 2 attempts, 1 failed GET, lost PUTs, master key may lack | replies paired, verified only after a confirmation, verification completes; and unless verifications overlap or an answer is handled again: events answered in their transaction, no leak, nothing dangles before a second request, MACs only in confirmed transactions |
| `VerificationCleared` | 1 peer, 2 attempts | violation: double free on the second request |
| `OlmSessions` | 2 devices, 3 messages, table of 2, missing keys, 1 failed GET | every message handled once, replies readable, table only appended to, a device's session sticks |
| `OlmSessionsLabel` | 2 devices, 2 messages | violation: a request renames the sessions of another device |
| `MegolmRooms` | 2 rooms, 1 reader, tables of 3, 2 messages, 2 keys, 2 seconds, 1 failed request | key holders read and no text is stale but in spoiled sessions, the count holds until the last slot is filled, one session per room, only same-second messages missing besides those whose PUT failed |
| `MegolmRoomsTwoKeys` | the same, tables of 2, no failure | violation: the second key that is stored ends the first session |
| `HttpMongoose` | 4 calls | answers match calls, cut answers reconnect, no freed connection used, one connection, calls return |
| `EspNode` | 3 retries, 3 events, buffer of 2 for answers of up to 3, 1 failed GET, layouts | the text read is of one answer, events handled once and in the end, a Wi-Fi failure is final |
| `OneTimeKeys` | 2 devices, limits 2, 3, 4, 5, 7 keys | keys handed out can be opened; all are offered while they fit, and none later |
| `Canonicalize` | every order of 4 of 8 keys, one null, one value too long, one key longer than its path; 5 keys | keys sorted, output in canonical order with own values, left out only for length or room |

Why the bounds are enough. Tables of two are the library's own sizes for Olm and
Megolm sessions (`matrix.h` 49-52) and the smallest with a first slot, a last slot
and a full table; `MegolmRooms` has three, so that there is a slot with one before
and one after it, and keys that come again fill the third. The
ten of the device table behave as two do, since the code
compares the count with the size and with nothing else (the proofs cover every
size). With garbled ids there are more devices than slots. Two peers are
enough to mix statics up, and two attempts to have one that is cancelled or still on
its way and another, of the same peer or of the other. One failed GET brings every
event of an answer twice, and in `Verification` next to new ones. Two messages in two
rooms and two seconds are in the same second or not and in the same room or not.
Four calls have one before a lost connection, one during, one after and one more
that must not see any of it. Three events give an answer that is larger than the
buffer, one that fills it and one that does not; one failed GET leaves an old answer
in front of a retry. Seven keys pass every limit of 2, 3, 4 and 5 and push two keys
out of the account. Four keys of eight contain prefixes, a character below the quote,
a dot and one longer than the path in every order; the output has room for two to
four of them, and one value is too long for an entry under any key but the shortest.
Symmetry is used in safety runs only.

`CHECK_DEADLOCK FALSE` is given where the system does stop: a crashed client, or
peers, messages, keys and calls that are bounded by the instance and used up.
`EspNode` never stops and is checked for deadlock.

Fairness. The client is one thread that does not stop in the middle of a call, so
its steps are weakly fair (`WF_vars(Client)`). In `Verification` it syncs in a loop, as
the examples do, and a peer that waits is fair as well, but no one has to begin or
cancel a verification, and no GET to fail; that a PUT of the client does not return is
the business of `HttpMongoose`. In `HttpMongoose`
the server is fair while the connection lasts: it accepts, answers and finishes;
losing a connection is never forced and never excluded, and `CallReturns` says
that nothing but the loss of the call's own connection makes it hang. In `EspNode`
both tasks run, an attempt to join ends one way or the other and a server that is
reached answers; the link never has to come up or to drop, nor a GET to fail.

### What the violations say

- `DeviceCacheNoMaster`: an account without cross-signing makes `RequestDeviceKeys`
  read `s` and `slen` uninitialised (`matrix.c` 1905-1914).
- `VerificationCleared`: `free(olmSas)` (1142) leaves the pointer, and the next
  request frees it again (900). The comment at 887 says the data is cleared.
- `OlmSessionsLabel`: sessions made in `HandleEvent` keep a pointer to the static
  `verifyFromDeviceId` (290, 1171); the next request renames them all.
- `MegolmRoomsTwoKeys`: `MatrixMegolmInSession` has the memory of an outgoing session
  (232 bytes, `matrix.h` 42 and 192) for an incoming one of 304
  (`ext/olm/src/inbound_group_session.c` 37-59; `matrix.c` 420-427). In tables of two
  the second key that is stored writes over the end of the first one's session, and
  no message of that room opens any more.

### What the conditions of the properties say

Some properties hold up to a point, and what lies behind it is what the code does:

- `MissingOnlyInSameSecond`: `(int)time(NULL)` as transaction id (802) makes the
  second of two messages of a second look like a retry; `examples/Verify.c` 72
  sends ten in a loop. A PUT that fails loses its message in any second.
- `SafeUntilAskedAgain`, `NoSasLeak`, `AnswersEvent`: a MAC that is handled again
  after a failed GET (1357-1365) reads and frees the object it freed the first time, a
  start that is handled again leaves the first object allocated, both within one
  verification of one peer. So does another peer's request in between.
- `KeyHolderReads` and `StaleOnlyWhereSpoiled`: a session is spoiled once another key
  has been stored behind it or the table is full. Of two ordinary keys the first one's
  room is no longer read, and its events are answered with the plaintext before
  (456, 1245).
- `Canonical`: a key longer than the path is given another key's value, and an entry
  longer than 1024 characters is left out though the output has room (152-160).

## 4. Proofs

TLAPS checks these for every value of the constants that the modules' ASSUMEs allow.

`DeviceCacheProofs`: `TypeCorrect`, `TableIsSound`, `KeysArePinned`, `KeysDoBelong`,
`MissesAreExplained` and `CacheImplementsDirectory`. `TableSound` is inductive with
the type; the step that matters is `File`, which appends only an id it has not found
and only below the capacity. `KeysBelong` is not inductive: a key passes through the
answer, the entries still to visit and the local variable `d`, so `BelongInv` says of
each of these places whose key it holds, until an irregular answer is used.
`MissExplained` needs `MissInv`, which follows an offered target from the answer
through the loop into the table, or to the moment the table is found full. The
refinement rests on `ReplyInv` (a reply is pending exactly while a lookup runs) and on
lemmas that a filing learns one pair and that a scan answers from the pairs.

`HttpMongooseProofs`: `TypeCorrect`, `AnswersMatch`, `CutShortIsNoticed`,
`WritesAreSafe` and `NeverTwoConnections`, for any number of calls. The four are
not inductive: that `dataReceived` stands for an answer to this very request
depends on where requests and answers can be at all. `IInv` adds three parts:
`Linked` ties `connected` to the connection, `Phases` says in which phase of a call
a request, an answer or neither is on its way, and `Delivered` says what is in the
buffer when the flag is set.

`OneTimeKeysProofs`: `TypeCorrect`, `KeysAreUsable` and `KeysAreOfferedInTime`, for
any limits in the order that `KeysAssumption` states. The inductive part is that the
account is always the newest keys in order (`keys[i] = generated + 1 - i`, up to the
capacity) and that the static list holds the first keys of the account, however old it
is: from the two follows what a request that is not cut holds.

`CanonicalizeProofs`: `TypeCorrect`, `KeysAreInOrder` and `CanonicalIsWritten`, for
objects of any size, any keys and any sizes of the buffers. The comparison on the
shorter length calls a beginning and the whole equal, and keys that are equal to a
third need not be equal to each other; but "greater" is transitive and asymmetric, and
that is all the sort needs (lemmas `GreaterTransitive`, `GreaterAsymmetric`). The
invariant of the two loops, `SortInv`, is that no key before `i` is greater than any
behind it, and `keys[i]` not greater than those the inner loop has passed. `MergeInv`
follows the merges: the entries written come from the keys before `i`, in their order
(`InKeyOrder`, for which no key may be there twice), with the value of the object
unless the path is misread (`OwnValues`), and a key before `i` is left out only for a
reason (`MergedWritten`). A path that is neither cut nor read otherwise is its key
without the quote (`PathIsKey`), and no other key has the same (`BareTells`). That the
order of the comparison is the one of canonical JSON (`PlainOrder`) takes what JSON says
of keys, which `CanonicalizeAssumption` states: a key ends with its quote and none is
the beginning of another, since a quote inside is escaped. Two keys then have a first
difference, and where it is the quote of one, that one comes first unless the other
goes on below it.

`VerificationProofs`: `TypeCorrect`, `RepliesArePaired` and `ConfirmedFirst` hold for
any number of peers, attempts and failures, overlapping or not, events handled once or
again. Their invariant `IInv` says that
the two statics are of one request (`StaticsPaired`), that MACs in the inbox and in
the answer are of confirmed transactions, and that no key or MAC comes before a SAS
object was created (`SasThere`, without which the key read from the object would not
have a type). `TypeCorrect` takes one fact more, `NothingToAnswer`: before the first
request is handled, nothing but requests comes.
`SafeAlone`, `NothingLeaks`, `VouchedInTurn` and `AnswersInTurn` are about
verifications that do not overlap and answers that are handled once (`InOrder`), and
none is inductive: whether a handler finds the
static variables as it needs them depends on where the one peer that asks stands.
`OrderInv` says so. `OneAsks`: at most one peer is in the middle of a verification;
`Turns`: its last event is still in the inbox, as a request (`Coming`) or the only one
(`Posed`), or it has been handled (`Answered`), and what the client may have sent so far
follows from that; `FrontFits`: only the first event of the inbox is
other than a request, it is of the current transaction, and from the start on a live
object is there for it; `FaultsLate`: what can be freed twice takes two requests.
`NoneAhead` keeps transactions that are not made yet out of all queues, so that a new
one is new.

`OlmSessionsProofs`: `TypeCorrect`, `TableIsAppendedTo`, `SlotsStick`,
`MessagesAreHandledOnce` and `RepliesAreReadable`, for any number of devices, slots and
messages. The first two hold whatever fails. For the others the invariant is
`TypeOK /\ (upset \/ (Regular /\ again = 0))`: until something irregular happens each session is found
under the device whose keys it was made with, every message sent or on a ratchet of the
client's is of the session found first, and the texts in the inbox are new and in order.

`MegolmRoomsProofs`: `TypeCorrect`, `CountHolds`, `OneForARoom`,
`OnlySecondOnesGoMissing`, `KeyHoldersRead` and `StaleWhereSpoiled`, for any number of
rooms, devices, slots, messages, seconds and failures. `CountHoldsUntilFull` is
inductive with the type (`TypeInv`): until the last slot is filled the number of slots
in use is right, only the last of them is whole, and nothing has crashed. The sender's
part, `SenderInv`, rests on `FirstUsed` (what went out in a session of its
room used the first one, and a new one does not come before it) and `TakenArrived` (a
name the server has had is that of a message that arrived). The readers' part follows
a key from the queue into the answer and into the table: in `KeyInv`, `KeysKept` says
that a device to which a session's key went out has it in the queue, in the answer or in
the table, unless the table has been full, and `AnswerHasKey` that no key a device has to
have for an event it has fetched is left in the queue, which is where the order of the
two loops of `HandleSync` is needed. `ReadInv` adds what was read. A session that is not
spoiled is the last one stored and whole, so it opens what comes after its key
(`UnspoiledOpens`), and a spoiled one stays spoiled (`SpoiledStays`).

`EspNodeProofs`: `FailuresAreFinal`, `TypeCorrect`, `OneAnswerIsRead` and
`EventsAreHandledOnce`, for any buffer, order of the members, and number of retries,
events and failures. For the first: the handler is behind by at most one attempt
(`QueueInv` says what the queue can hold for each state of the link), and the fail bit
is set only with the link down and the queue empty (`GivenUpInv`). The others take
`LoopInv`, which runs through server, transport and client: `SyncInv` (all events up to
the batches that client and server know are handled or missed), `AnswerInv` (the answer
on its way has just the events between its batch and the one asked for) and `BufferInv`
(what the buffer holds in each phase of a call: text that has been read, or the part
of the answer that has come, with a NUL behind it where there is room).

Some proofs need the first element of a set or sequence: the first slot of a device,
the first event of a room (`SelectInSeq`, `Min`), the first difference of two keys.
That a nonempty set of numbers has a least one is taken from `WellFoundedInduction`,
with the order as a set of pairs, where no theorem with an operator parameter is
needed.

Only model-checked: what needs fairness (`RequestCompletes`,
`CallReturns`, `EventHandled`), which is out of the prover's reach. Every other property
of a passing run is a theorem.

## 5. Not modelled, and the plan

Next: `OneTimeKeys` joined to `OlmSessions`, which takes a one-time key as given.

Left out for good:

- log output, the texts of requests and answers beyond what a property depends on,
  cryptography (Olm and Megolm are what their functions promise);
- login, account registration and device deletion: straight-line requests that fill
  the user id, device id and token once;
- `JsonEscape` (one loop over one string), `JsonSign` (one merge of a fixed text) and
  `UploadDeviceKeys` (one text, one POST): no state, no order, within reach of a test;
- `MatrixOlmSessionUnpickle` and the pickling of the account, which nothing calls in
  the course of a session;
- the vendored libraries. olm, mjson and mongoose with their cryptographic primitives
  are over nine tenths of the lines of this repository. They are third-party code with
  their own projects; they are modelled at the places where their limits decide what
  this client does. The lines the modules map are therefore a small share of the
  repository, and most of `matrix.c`, the two transports and `wifi.c`.
