------------------------------- MODULE EspNode -------------------------------
(***************************************************************************)
(* A client on an ESP32 (esp32/esp_project/main/Verify.c): wifi_init, then *)
(* MatrixClientSync in a loop, through the ESP32 transport.  EspWifi,      *)
(* SyncLoop and HttpEsp32 composed.                                        *)
(*                                                                         *)
(* syncBuffer and nextBatch are static arrays declared one after the       *)
(* other.  If the linker places them so, the NUL that goes behind a full   *)
(* syncBuffer empties nextBatch.                                           *)
(*                                                                         *)
(* Left out: the calls between wifi_init and the loop and those the        *)
(* handlers make, which use other buffers, and the end of the loop when    *)
(* the device is verified (see Verification).                              *)
(***************************************************************************)
EXTENDS Naturals, Sequences, SequencesExt

CONSTANTS
    MaxRetry,       \* see EspWifi
    Cap, Nul,       \* see HttpEsp32
    MaxEvents,      \* see SyncLoop
    Orders,
    MaxFailures     \* GETs that fail though the link is up

VARIABLES
    main, result, s_retry_num, bits, events, link,
    data, dataLen, call, rest,
    nextBatch, syncing, since, log, acked, body, handled, again, missed,
    trouble,
    adjacent,       \* nextBatch lies behind syncBuffer
    failures        \* GETs that have failed though the link is up

Wifi == INSTANCE EspWifi
Http == INSTANCE HttpEsp32
Sync == INSTANCE SyncLoop

ASSUME NodeAssumption ==
    /\ Wifi!WifiAssumption
    /\ Http!HttpAssumption
    /\ Sync!SyncAssumption
    /\ Nul \notin Sync!Part
    /\ MaxFailures \in Nat

wifiVars == <<main, result, s_retry_num, bits, events, link>>
httpVars == <<data, dataLen, call, rest>>
syncVars == <<nextBatch, syncing, since, log, acked, body, handled, again,
              missed, trouble>>
nodeVars == <<adjacent, failures>>
vars == <<wifiVars, httpVars, syncVars, nodeVars>>

Init ==
    /\ Wifi!Init
    /\ Http!Init
    /\ Sync!Init
    /\ adjacent \in BOOLEAN
    /\ failures = 0

-----------------------------------------------------------------------------

WifiStep ==
    /\ Wifi!Next
    /\ UNCHANGED <<httpVars, syncVars, nodeVars>>

PostEvent ==
    /\ \E kind \in {"to_device", "rooms"} : Sync!PostEvent(kind)
    /\ UNCHANGED <<wifiVars, httpVars, nodeVars>>

\* The loop calls MatrixClientSync, and that MatrixHttpGet.
SyncRequest ==
    /\ main = "returned"
    /\ Sync!Request
    /\ Http!Call
    /\ UNCHANGED <<wifiVars, nodeVars>>

ServerAnswer ==
    /\ link = "up"
    /\ \E order \in Orders : Sync!Answer(order)
    /\ Http!Answer(body')
    /\ UNCHANGED <<wifiVars, nodeVars>>

BodyArrives ==
    /\ link = "up"
    /\ \E n \in 1 .. Len(rest) :
         /\ Http!OnData(n)
         /\ nextBatch' = IF adjacent /\ Http!Overruns(n) THEN 0 ELSE nextBatch
    /\ UNCHANGED <<wifiVars, syncing, since, log, acked, body, handled, again,
                   missed, trouble, nodeVars>>

BodyEnds ==
    /\ Http!Finish
    /\ UNCHANGED <<wifiVars, syncVars, nodeVars>>

GetFails ==
    /\ link = "up"
    /\ failures < MaxFailures
    /\ failures' = failures + 1
    /\ Http!Fail
    /\ UNCHANGED <<wifiVars, syncVars, adjacent>>

\* Without the link perform fails at once or when its 20 seconds are over.
GetFailsOffline ==
    /\ link # "up"
    /\ Http!Fail
    /\ UNCHANGED <<wifiVars, syncVars, nodeVars>>

\* MatrixHttpGet returns and HandleSync reads the buffer, whatever is in it.
SyncHandle ==
    /\ Http!Return
    /\ Sync!HandleSync(Http!Text)
    /\ UNCHANGED <<wifiVars, nodeVars>>

Loop == SyncRequest \/ BodyArrives \/ BodyEnds \/ GetFailsOffline \/ SyncHandle

Next == WifiStep \/ PostEvent \/ ServerAnswer \/ GetFails \/ Loop

\* Tasks run; an attempt to join ends; the server answers; the link may drop, a
\* GET may fail, and events come when they come.
Spec ==
    /\ Init
    /\ [][Next]_vars
    /\ WF_vars(WifiStep /\ Wifi!Main)
    /\ WF_vars(WifiStep /\ Wifi!Handler)
    /\ WF_vars(WifiStep /\ Wifi!Radio)
    /\ WF_vars(ServerAnswer)
    /\ WF_vars(Loop)

-----------------------------------------------------------------------------
(* Properties                                                              *)

TypeOK ==
    /\ Wifi!TypeOK
    /\ Sync!TypeOK
    /\ data \in [1 .. Cap -> Sync!Part \cup {Nul}]
    /\ dataLen \in 0 .. Cap
    /\ call \in {"idle", "sent", "body", "returned"}
    /\ rest \in Seq(Sync!Part)
    /\ adjacent \in BOOLEAN
    /\ failures \in 0 .. MaxFailures

\* Once some of an answer has arrived, what the client reads is the beginning of
\* that answer and nothing of an earlier one, though the buffer is not cleared,
\* answers outgrow it and GETs fail on the way.
ReadsOneAnswer ==
    call \in {"body", "returned"} /\ dataLen > 0 => IsPrefix(Http!Text, body)

HandledOnce == Sync!HandledOnce

FailureIsFinal == Wifi!FailureIsFinal

\* The loop gets every event in the end, or has lost it in an answer that was
\* cut, or the link was lost after wifi_init had returned, or could not be made.
EventHandled ==
    \A e \in 1 .. MaxEvents :
        (Len(log) >= e) ~> (e \in handled \cup missed \/ Wifi!Offline)

=============================================================================
