------------------------------ MODULE Watching ------------------------------
(***************************************************************************)
(* What the WebSocket manager promises: a relation between connected       *)
(* clients and the products they watch.  A client that leaves takes all    *)
(* its pairs with it and a client that is not connected watches nothing.   *)
(***************************************************************************)
CONSTANTS Clients, Products

VARIABLES
    connected,   \* the clients the manager serves
    watching     \* pairs of a client and a product

vars == <<connected, watching>>

Init == connected = {} /\ watching = {}

Join(c) ==
    /\ c \notin connected
    /\ connected' = connected \cup {c}
    /\ UNCHANGED watching

Watch(c, P) ==
    /\ c \in connected
    /\ watching' = watching \cup ({c} \X P)
    /\ UNCHANGED connected

Unwatch(c, P) ==
    /\ watching' = watching \ ({c} \X P)
    /\ UNCHANGED connected

Leave(c) ==
    /\ connected' = connected \ {c}
    /\ watching' = watching \ ({c} \X Products)

Next == \E c \in Clients :
           \/ Join(c)
           \/ Leave(c)
           \/ \E P \in SUBSET Products : Watch(c, P) \/ Unwatch(c, P)

Spec == Init /\ [][Next]_vars
=============================================================================
