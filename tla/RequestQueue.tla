---------------------------- MODULE RequestQueue ----------------------------
(***************************************************************************)
(* What the ring of the HTTP client promises: a bounded first-in first-out *)
(* queue of requests between the caller and the sending thread.            *)
(***************************************************************************)
EXTENDS Naturals, Sequences

CONSTANTS
    Request,     \* the requests
    Capacity,    \* the most the queue holds
    NULL         \* no request

VARIABLES
    queue,       \* the requests that wait
    taken        \* the request the sending thread has, or NULL

vars == <<queue, taken>>

Init == queue = <<>> /\ taken = NULL

AddItem(r) ==
    /\ Len(queue) < Capacity
    /\ queue' = Append(queue, r)
    /\ UNCHANGED taken

GetItem ==
    /\ queue # <<>>
    /\ taken = NULL
    /\ taken' = Head(queue)
    /\ queue' = Tail(queue)

Deleted ==
    /\ taken # NULL
    /\ taken' = NULL
    /\ UNCHANGED queue

Next == GetItem \/ Deleted \/ \E r \in Request : AddItem(r)

Spec == Init /\ [][Next]_vars
=============================================================================
