------------------------------ MODULE Channel ------------------------------
(***************************************************************************)
(* What msgq promises its users: one publisher, and readers that each      *)
(* receive messages whole, in the order of publication and none of them    *)
(* twice.  Nobody waits: a reader that falls behind loses messages, and    *)
(* only such a reader does.                                                *)
(*                                                                         *)
(* A reader adrift is promised nothing.  Msgq says when that happens.      *)
(***************************************************************************)
EXTENDS Naturals, Sequences

CONSTANTS
    Readers,
    Sizes,          \* the sizes of messages
    Lossy,          \* readers that asked for the latest message only
    Backlog         \* unread messages that a reader may have without losing any

VARIABLES
    joining,        \* readers that are subscribing
    log,            \* the messages published so far (their sizes)
    got,            \* reader -> the number of the last message it received
    lagged,         \* readers that have fallen behind since they subscribed
    adrift          \* readers that are promised nothing

vars == <<joining, log, got, lagged, adrift>>

Init == /\ joining = {}
        /\ log = << >>
        /\ got = [r \in Readers |-> 0]
        /\ lagged = {}
        /\ adrift = {}

Publish == /\ \E size \in Sizes : log' = Append(log, size)
           /\ UNCHANGED <<joining, got, lagged, adrift>>

(* A reader that keeps up receives the message after its last one, one     *)
(* that has lagged a later one than its last.                              *)
Deliver(r) ==
    /\ r \notin adrift
    /\ \E m \in got[r] + 1 .. Len(log) :
           /\ r \in lagged \cup Lossy \/ m = got[r] + 1
           /\ got' = [got EXCEPT ![r] = m]
    /\ UNCHANGED <<joining, log, lagged, adrift>>

(* A subscription starts with the next message to be published; until it   *)
(* is complete, it may start afresh.                                       *)
Subscribe(r) == /\ r \in joining
                /\ got' = [got EXCEPT ![r] = Len(log)]
                /\ lagged' = lagged \ {r}
                /\ UNCHANGED <<joining, log, adrift>>

(* Readers come and go; they fall behind, go adrift or recover from it.  A *)
(* subscription completed while a message is being sent may miss it.       *)
Drift == /\ joining' \in SUBSET Readers
         /\ lagged \subseteq lagged'
         /\ \A r \in lagged' \ lagged : \/ r \in adrift \ adrift'
                                        \/ r \in joining \ joining'
                                        \/ Len(log) - got[r] > Backlog
         /\ adrift \ adrift' \subseteq lagged'
         /\ UNCHANGED <<log, got>>

Next == \/ Publish
        \/ Drift
        \/ \E r \in Readers : Deliver(r) \/ Subscribe(r)

Spec == Init /\ [][Next]_vars
=============================================================================
