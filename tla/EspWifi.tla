------------------------------- MODULE EspWifi -------------------------------
(***************************************************************************)
(* Joining the access point on an ESP32: wifi_init, run by the main task,  *)
(* and event_handler, run by the event loop's task                         *)
(* (esp32/esp_project/main/wifi.c).                                        *)
(*                                                                         *)
(* The handler asks for the connection and asks again, three times, when   *)
(* it is refused or lost; wifi_init waits for one of two bits, unregisters *)
(* the handler and returns.  From then on nobody connects again.           *)
(*                                                                         *)
(* An unused definition right before another with the same parameters is   *)
(* that one with a fault (see the README).                                 *)
(***************************************************************************)
EXTENDS Naturals, Sequences

CONSTANT MaxRetry       \* retries without an address in between: 3

WifiAssumption == MaxRetry \in Nat

VARIABLES
    main,           \* where wifi_init is
    result,         \* the bits xEventGroupWaitBits has returned to it
    s_retry_num,
    bits,           \* s_wifi_event_group
    events,         \* the event loop's queue
    link            \* the radio: off, connecting, up or down

Bits == {"connected", "fail"}

Init ==
    /\ main = "start"
    /\ result = {}
    /\ s_retry_num = 0
    /\ bits = {}
    /\ events = <<>>
    /\ link = "off"

-----------------------------------------------------------------------------
(* wifi_init                                                               *)

\* Register the handler and start the radio, which posts STA_START.
Start ==
    /\ main = "start"
    /\ main' = "started"
    /\ events' = Append(events, "STA_START")
    /\ UNCHANGED <<result, s_retry_num, bits, link>>

\* xEventGroupWaitBits returns at once when a bit is set, or blocks for ever.
Wait ==
    /\ main = "started"
    /\ main' = IF bits # {} THEN "woken" ELSE "waiting"
    /\ result' = bits
    /\ UNCHANGED <<s_retry_num, bits, events, link>>

\* Whichever bit it was: unregister the handler, delete the group, return.
Return ==
    /\ main = "woken"
    /\ main' = "returned"
    /\ events' = <<>>
    /\ UNCHANGED <<result, s_retry_num, bits, link>>

Main == Start \/ Wait \/ Return

-----------------------------------------------------------------------------
(* event_handler                                                           *)

Handle(event) ==
    /\ main \in {"started", "waiting", "woken"}
    /\ events # <<>>
    /\ Head(events) = event
    /\ events' = Tail(events)

SetBitsOnly(b) == bits' = bits \cup {b} /\ UNCHANGED <<main, result>>
\* xEventGroupSetBits: the value at that moment is what a waiting task gets.
SetBits(b) ==
    /\ bits' = bits \cup {b}
    /\ IF main = "waiting" THEN main' = "woken" /\ result' = bits'
                           ELSE UNCHANGED <<main, result>>

OnStart ==
    /\ Handle("STA_START")
    /\ link' = "connecting"
    /\ UNCHANGED <<main, result, s_retry_num, bits>>

OnDisconnectedRetry ==
    /\ Handle("STA_DISCONNECTED")
    /\ s_retry_num < MaxRetry
    /\ s_retry_num' = s_retry_num + 1
    /\ link' = "connecting"
    /\ UNCHANGED <<main, result, bits>>

OnDisconnectedTryOn ==
    /\ Handle("STA_DISCONNECTED")
    /\ s_retry_num >= MaxRetry
    /\ SetBits("fail")
    /\ link' = "connecting"
    /\ UNCHANGED s_retry_num
OnDisconnectedGiveUp ==
    /\ Handle("STA_DISCONNECTED")
    /\ s_retry_num >= MaxRetry
    /\ SetBits("fail")
    /\ UNCHANGED <<s_retry_num, link>>

OnGotIp ==
    /\ Handle("GOT_IP")
    /\ s_retry_num' = 0
    /\ SetBits("connected")
    /\ UNCHANGED link

Handler == OnStart \/ OnDisconnectedRetry \/ OnDisconnectedGiveUp \/ OnGotIp

-----------------------------------------------------------------------------
(* The radio (external)                                                    *)

\* An event; nobody reads it once wifi_init has returned.
Post(event) ==
    events' = IF main = "returned" THEN events ELSE Append(events, event)

Join ==
    /\ link = "connecting"
    /\ link' = "up"
    /\ Post("GOT_IP")
    /\ UNCHANGED <<main, result, s_retry_num, bits>>

Refused ==
    /\ link = "connecting"
    /\ link' = "down"
    /\ Post("STA_DISCONNECTED")
    /\ UNCHANGED <<main, result, s_retry_num, bits>>

\* The access point goes away.
Drop ==
    /\ link = "up"
    /\ link' = "down"
    /\ Post("STA_DISCONNECTED")
    /\ UNCHANGED <<main, result, s_retry_num, bits>>

Radio == Join \/ Refused

-----------------------------------------------------------------------------

Next == Main \/ Handler \/ Radio \/ Drop

\* wifi_init has returned and nobody will bring the link up again.
Offline == main = "returned" /\ link = "down"

TypeOK ==
    /\ main \in {"start", "started", "waiting", "woken", "returned"}
    /\ result \subseteq Bits
    /\ s_retry_num \in 0 .. MaxRetry
    /\ bits \subseteq Bits
    /\ events \in Seq({"STA_START", "STA_DISCONNECTED", "GOT_IP"})
    /\ link \in {"off", "connecting", "up", "down"}

\* wifi_init reports a failure only when every attempt has ended: no connection
\* is being made, or held, that nobody would use.
FailureIsFinal ==
    "connected" \notin result /\ main \in {"woken", "returned"} =>
        link = "down" /\ events = <<>>

=============================================================================
