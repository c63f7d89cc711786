---------------------------- MODULE ClientRegistry ----------------------------
(***************************************************************************)
(* What TCPServer promises of its clients, with no thread, lock, queue or  *)
(* completion in it.  A socket handle is opened by accept, joins the       *)
(* registry once, with a context that no other client has, and leaves it   *)
(* once, when its context is given back and its socket is closed: all      *)
(* three in one step.  No socket is closed in any other way, and none      *)
(* that is in the registry changes context.                                *)
(***************************************************************************)
EXTENDS Functions

CONSTANTS Handle,    \* the values a socket handle can take
          Addr       \* the addresses of contexts

VARIABLES open,      \* the handles that are open sockets
          contextOf  \* for each registered client, its context

Init ==
    /\ open = {}
    /\ contextOf = [h \in {} |-> {}]

Accept(h) ==
    /\ h \notin open
    /\ open' = open \cup {h}
    /\ UNCHANGED contextOf

Join(h, a) ==
    /\ h \in open \ DOMAIN contextOf
    /\ a \notin Range(contextOf)
    /\ contextOf' = [x \in DOMAIN contextOf \cup {h} |-> IF x = h THEN a ELSE contextOf[x]]
    /\ UNCHANGED open

Leave(h) ==
    /\ h \in DOMAIN contextOf
    /\ contextOf' = Restrict(contextOf, DOMAIN contextOf \ {h})
    /\ open' = open \ {h}

Next == \E h \in Handle :
    \/ Accept(h)
    \/ \E a \in Addr : Join(h, a)
    \/ Leave(h)

Spec == Init /\ [][Next]_<<open, contextOf>>
=============================================================================
