------------------------------ MODULE HttpEsp32 ------------------------------
(***************************************************************************)
(* The ESP32 transport (src/matrix_http_esp32.c): MatrixHttpGet, Post and  *)
(* Put, which block in esp_http_client_perform, and _http_event_handler,   *)
(* which perform calls with each piece of the answer's body.               *)
(*                                                                         *)
(* The handler copies what fits behind what is there and a NUL behind it,  *)
(* which is the byte after the buffer when the buffer is full.  All three  *)
(* calls return true, whether perform failed or not; nothing clears the    *)
(* buffer.                                                                 *)
(*                                                                         *)
(* A body is a sequence of parts, and a part takes one cell of the buffer. *)
(*                                                                         *)
(* An unused definition right before another with the same parameters is   *)
(* that one with a fault (see the README).                                 *)
(***************************************************************************)
EXTENDS Integers, Sequences, SequencesExt

CONSTANTS
    Cap,        \* dataCap
    Nul         \* the terminating NUL

HttpAssumption == Cap \in Nat \ {0}

VARIABLES
    data,       \* the caller's buffer
    dataLen,
    call,       \* idle, sent (no body yet), body, or returned
    rest        \* what of the body has still to arrive

\* MIN of sys/param.h
Unbounded(a, b) == a
Smaller(a, b) == IF a < b THEN a ELSE b

Init ==
    /\ data = [i \in 1 .. Cap |-> Nul]
    /\ dataLen = 0
    /\ call = "idle"
    /\ rest = <<>>

-----------------------------------------------------------------------------

\* MatrixHttpGet, Post or Put up to esp_http_client_perform.
Call ==
    /\ call = "idle"
    /\ call' = "sent"
    /\ dataLen' = 0
    /\ UNCHANGED <<data, rest>>

\* The server answers (external).
Answer(body) ==
    /\ call = "sent"
    /\ call' = "body"
    /\ rest' = body
    /\ UNCHANGED <<data, dataLen>>

\* The buffer after n parts were copied behind the len that are there.
CopiedUnterminated(n, len) ==
    [i \in DOMAIN data |->
        IF i \in len + 1 .. len + n THEN rest[i - len] ELSE data[i]]
Copied(n, len) ==
    [i \in DOMAIN data |->
        CASE i \in len + 1 .. len + n -> rest[i - len]
          [] i = len + n + 1          -> Nul
          [] OTHER                    -> data[i]]

\* HTTP_EVENT_ON_DATA with the next n parts of the body.
OnData(n) ==
    /\ call = "body"
    /\ n \in 1 .. Len(rest)
    /\ LET copy_len == Smaller(n, Cap - dataLen)
       IN  /\ data' = IF copy_len = 0 THEN data ELSE Copied(copy_len, dataLen)
           /\ dataLen' = dataLen + copy_len
    /\ rest' = SubSeq(rest, n + 1, Len(rest))
    /\ UNCHANGED call

\* perform returns ESP_OK.
Finish ==
    /\ call = "body"
    /\ rest = <<>>
    /\ call' = "returned"
    /\ UNCHANGED <<data, dataLen, rest>>

\* perform fails before the body or within it.  The caller cannot tell.
Fail ==
    /\ call = "sent" \/ (call = "body" /\ rest # <<>>)
    /\ call' = "returned"
    /\ rest' = <<>>
    /\ UNCHANGED <<data, dataLen>>

\* The call returns true.
Return ==
    /\ call = "returned"
    /\ call' = "idle"
    /\ UNCHANGED <<data, dataLen, rest>>

\* The NUL goes to the byte behind the buffer.
Overruns(n) == Cap - dataLen \in 1 .. n

\* What strlen and the JSON scanner see of the buffer.
Text ==
    LET end == SelectInSeq(data, LAMBDA c : c = Nul)
    IN  IF end = 0 THEN data ELSE SubSeq(data, 1, end - 1)

=============================================================================
