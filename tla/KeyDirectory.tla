---------------------------- MODULE KeyDirectory ----------------------------
(***************************************************************************)
(* What the Request*Key functions of matrix.h promise a caller: a          *)
(* directory that pins the first key it learns for a device, forgets       *)
(* nothing, and answers each question from what it knows.                  *)
(*                                                                         *)
(* How keys are learnt (the server, the local array, how often the server  *)
(* is asked) is left to the implementation, DeviceCache.                   *)
(***************************************************************************)

CONSTANTS
    Names,      \* what can be asked for: the devices and the master key
    Master,     \* the name under which the master key is asked for
    Keys,       \* the keys that can be learnt
    NoKey,      \* the answer "not found"
    Pending     \* no answer yet

VARIABLES
    known,      \* set of <<device, key>> pairs
    master,     \* the master key, NoKey until one is learnt
    target,     \* what the current question asks for
    answer      \* its answer

vars == <<known, master, target, answer>>

-----------------------------------------------------------------------------

KnownIds == { p[1] : p \in known }

Init ==
    /\ known = {}
    /\ master = NoKey
    /\ target = Master
    /\ answer = NoKey

Ask(t) ==
    /\ answer # Pending
    /\ target' = t
    /\ answer' = Pending
    /\ UNCHANGED <<known, master>>

\* A device is learnt at most once: its key is pinned by the first answer.
Learn(d, k) ==
    /\ answer = Pending
    /\ d \notin KnownIds
    /\ known' = known \cup {<<d, k>>}
    /\ UNCHANGED <<master, target, answer>>

\* The master key is replaced by every answer of the server that has one.
LearnMaster(k) ==
    /\ answer = Pending
    /\ master' = k
    /\ UNCHANGED <<known, target, answer>>

AnswerDevice ==
    /\ answer = Pending
    /\ target # Master
    /\ \/ <<target, answer'>> \in known
       \/ answer' = NoKey /\ target \notin KnownIds
    /\ UNCHANGED <<known, master, target>>

AnswerMaster ==
    /\ answer = Pending
    /\ target = Master
    /\ answer' = master
    /\ UNCHANGED <<known, master, target>>

Next ==
    \/ \E t \in Names : Ask(t)
    \/ \E d \in Names \ {Master}, k \in Keys : Learn(d, k)
    \/ \E k \in Keys : LearnMaster(k)
    \/ AnswerDevice
    \/ AnswerMaster

Spec == Init /\ [][Next]_vars

=============================================================================
