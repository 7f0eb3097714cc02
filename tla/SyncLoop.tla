------------------------------ MODULE SyncLoop ------------------------------
(***************************************************************************)
(* MatrixClientSync and MatrixClientHandleSync (matrix.c 1254-1368), and   *)
(* the homeserver they ask.  How the answer gets into the buffer is left   *)
(* to the transport: HandleSync is given the text found there.             *)
(*                                                                         *)
(* The answer to a sync is an object of three members in any order:        *)
(* next_batch, to_device with the direct events and rooms.join with the    *)
(* room events since the batch the client names.  A member is found in a   *)
(* text if and only if it is there as a whole: the scanner stops when it   *)
(* has it and does not mind that the rest is missing.  The numbers of the  *)
(* server's log stand for the batches and the events.                      *)
(*                                                                         *)
(* An unused definition right before another with the same parameters is   *)
(* that one with a fault (see the README).                                 *)
(***************************************************************************)
EXTENDS Naturals, Sequences, SequencesExt, FiniteSetsExt

CONSTANTS
    MaxEvents,      \* events the server gets (bounds the model)
    Orders          \* orders in which a server writes the members

SyncAssumption ==
    /\ MaxEvents \in Nat
    /\ Orders \subseteq SetToSeqs({"next_batch", "to_device", "rooms"})

VARIABLES
    \* the client
    nextBatch,      \* 0 when empty
    syncing,        \* the GET of a sync is in progress
    \* the homeserver
    since,          \* the batch named by the current GET
    log,            \* every event for this client: "to_device" or "rooms"
    acked,          \* direct events up to here have been deleted
    \* history
    body,           \* what the server answered to the current GET
    handled,        \* events handed to HandleEvent or HandleRoomEvent
    again,          \* ... more than once
    missed,         \* events of answers of which they did not arrive
    trouble         \* HandleSync was given something else than the answer

clientVars  == <<nextBatch, syncing>>
serverVars  == <<since, log, acked>>
historyVars == <<body, handled, again, missed, trouble>>
-----------------------------------------------------------------------------

Part == [member : {"next_batch", "to_device", "rooms"},
         batch : 0 .. MaxEvents, events : SUBSET (1 .. MaxEvents)]

EventsIn(text) == UNION { text[i].events : i \in DOMAIN text }

BatchesIn(text) ==
    { p.batch : p \in { q \in ToSet(text) : q.member = "next_batch" } }

Init ==
    /\ nextBatch = 0
    /\ syncing = FALSE
    /\ since = 0
    /\ log = <<>>
    /\ acked = 0
    /\ body = <<>>
    /\ handled = {}
    /\ again = {}
    /\ missed = {}
    /\ trouble = FALSE

-----------------------------------------------------------------------------
(* The homeserver (external)                                               *)

PostEvent(kind) ==
    /\ Len(log) < MaxEvents
    /\ log' = Append(log, kind)
    /\ UNCHANGED <<clientVars, since, acked, historyVars>>

EventsSince(kind, from) == { e \in DOMAIN log : log[e] = kind /\ e > from }

Events(kind, found) ==
    IF found = {} THEN <<>>
    ELSE << [member |-> kind, batch |-> 0, events |-> found] >>

\* Direct events are deleted once a later batch is named; members without
\* events are left out.
Member(m) ==
    CASE m = "next_batch" -> << [member |-> m, batch |-> Len(log), events |-> {}] >>
      [] m = "to_device"  -> Events(m, EventsSince(m, Max({since, acked})))
      [] m = "rooms"      -> Events(m, EventsSince(m, since))

Body(order) == Member(order[1]) \o Member(order[2]) \o Member(order[3])

Answer(order) ==
    /\ syncing
    /\ body' = Body(order)
    /\ acked' = Max({since, acked})
    /\ UNCHANGED <<clientVars, since, log, handled, again, missed, trouble>>

-----------------------------------------------------------------------------
(* The client                                                              *)

\* Sync: the URL names next_batch when there is one.
Request ==
    /\ ~syncing
    /\ syncing' = TRUE
    /\ since' = nextBatch
    /\ body' = <<>>
    /\ UNCHANGED <<nextBatch, log, acked, handled, again, missed, trouble>>

\* The events the two loops find in a text.
FoundEventsIfDirect(text) ==
    IF \E p \in ToSet(text) : p.member = "to_device" THEN EventsIn(text)
    ELSE {}
FoundEvents(text) == EventsIn(text)

\* The batch found is stored first, whatever becomes of the events.
HandleSync(text) ==
    /\ syncing
    /\ syncing' = FALSE
    /\ nextBatch' \in IF BatchesIn(text) = {} THEN {nextBatch}
                                              ELSE BatchesIn(text)
    /\ handled' = handled \cup FoundEvents(text)
    /\ again' = again \cup (handled \cap FoundEvents(text))
    /\ missed' = missed \cup (EventsIn(body) \ EventsIn(text))
    /\ trouble' = (trouble \/ text # body)
    /\ UNCHANGED <<serverVars, body>>

-----------------------------------------------------------------------------
(* Properties                                                              *)

TypeOK ==
    /\ nextBatch \in 0 .. MaxEvents
    /\ syncing \in BOOLEAN
    /\ since \in 0 .. MaxEvents
    /\ log \in Seq({"to_device", "rooms"})
    /\ acked \in 0 .. MaxEvents
    /\ body \in Seq(Part)
    /\ handled \subseteq 1 .. MaxEvents
    /\ again \subseteq handled
    /\ missed \subseteq 1 .. MaxEvents
    /\ trouble \in BOOLEAN

\* An event before the batch the client has stored was handled, unless an answer
\* that had it did not arrive as a whole; and it was handled once, unless
\* HandleSync was given an old or a cut text.
HandledOnce ==
    /\ 1 .. nextBatch \subseteq handled \cup missed
    /\ ~trouble => again = {}

=============================================================================
