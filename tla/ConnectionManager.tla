------------------------- MODULE ConnectionManager -------------------------
(***************************************************************************)
(* The frontend WebSocket manager: one endpoint coroutine per client and   *)
(* broadcasts that fan a message out to a snapshot of the subscribers.     *)
(* The manager's lock is only held over code that does not await, so what  *)
(* it protects is one step here.                                           *)
(***************************************************************************)
EXTENDS FiniteSets

CONSTANTS
    Clients,      \* client ids (a fresh uuid per connection)
    Products,     \* product ids
    Casts         \* broadcasts in a behaviour

VARIABLES
    open,         \* clients whose end of the socket is still open
    endpoint,     \* websocket_endpoint of each client
    clients,      \* keys of _clients
    tracked,      \* keys of _client_products
    products,     \* values of _client_products
    entries,      \* keys of _subscriptions
    subs,         \* values of _subscriptions
    cast          \* the broadcasts

table == <<clients, tracked, products, entries, subs>>
vars  == <<open, endpoint, clients, tracked, products, entries, subs, cast>>

\* snap and got are history: the snapshot, and who has received the message.
NewCast == [pc |-> "new", snap |-> {}, todo |-> {}, dead |-> {}, got |-> {}]

CastRecord == [pc : {"new", "sending", "reaping", "done"},
               snap : SUBSET Clients, todo : SUBSET Clients,
               dead : SUBSET Clients, got : SUBSET Clients]

TypeOK ==
    /\ open \subseteq Clients
    /\ endpoint \in [Clients -> {"absent", "reading", "replying", "done"}]
    /\ clients \subseteq Clients
    /\ tracked \subseteq Clients
    /\ products \in [Clients -> SUBSET Products]
    /\ entries \subseteq Products
    /\ subs \in [Products -> SUBSET Clients]
    /\ cast \in [Casts -> CastRecord]

Init ==
    /\ open = {}
    /\ endpoint = [c \in Clients |-> "absent"]
    /\ clients = {}
    /\ tracked = {}
    /\ products = [c \in Clients |-> {}]
    /\ entries = {}
    /\ subs = [p \in Products |-> {}]
    /\ cast = [b \in Casts |-> NewCast]

-----------------------------------------------------------------------------
(* The manager's operations on its tables. *)

Connect(c) ==
    /\ endpoint[c] = "absent"
    /\ open' = open \cup {c}
    /\ clients' = clients \cup {c}
    /\ tracked' = tracked \cup {c}
    /\ products' = [products EXCEPT ![c] = {}]
    /\ endpoint' = [endpoint EXCEPT ![c] = "replying"]
    /\ UNCHANGED <<entries, subs, cast>>

\* The product's set without c; an entry whose set becomes empty is deleted.
Discard(c, P) ==
    /\ subs' = [p \in Products |-> IF p \in P \cap entries THEN subs[p] \ {c} ELSE subs[p]]
    /\ entries' = {p \in entries : p \in P => subs[p] # {c}}

(* Operators named Mutant... are not part of the specification: each is a     *)
(* plausible bug, put in the place of the definition that follows it to show  *)
(* which property notices.                                                    *)

\* disconnect that forgets the client but not its subscriptions.
MutantForgetOnly(c) ==
    /\ clients' = clients \ {c}
    /\ tracked' = tracked \ {c}
    /\ products' = [products EXCEPT ![c] = {}]
    /\ UNCHANGED <<entries, subs>>

\* disconnect: the rows of the client in every table.
Drop(c) ==
    /\ clients' = clients \ {c}
    /\ tracked' = tracked \ {c}
    /\ products' = [products EXCEPT ![c] = {}]
    /\ Discard(c, products[c])

\* subscribe without the test at the top.
MutantSubscribeAnyone(c, P) ==
    /\ subs' = [p \in Products |-> IF p \in P THEN subs[p] \cup {c} ELSE subs[p]]
    /\ entries' = entries \cup P
    /\ products' = [products EXCEPT ![c] = @ \cup P]
    /\ UNCHANGED <<clients, tracked>>

\* subscribe: nothing for a client that was dropped meanwhile.
AddSubscriptions(c, P) ==
    IF c \notin clients THEN UNCHANGED table
    ELSE /\ subs' = [p \in Products |-> IF p \in P THEN subs[p] \cup {c} ELSE subs[p]]
         /\ entries' = entries \cup P
         /\ products' = [products EXCEPT ![c] = @ \cup P]
         /\ UNCHANGED <<clients, tracked>>

-----------------------------------------------------------------------------
(* websocket_endpoint.  A message that arrived before the socket went down   *)
(* can still be read after a broadcast has dropped the client.               *)

Subscribe(c) ==
    /\ endpoint[c] = "reading"
    /\ \E P \in SUBSET Products \ {{}} : AddSubscriptions(c, P)
    /\ endpoint' = [endpoint EXCEPT ![c] = "replying"]
    /\ UNCHANGED <<open, cast>>

Unsubscribe(c) ==
    /\ endpoint[c] = "reading"
    /\ \E P \in SUBSET Products \ {{}} :
          /\ Discard(c, P)
          /\ products' = IF c \in tracked THEN [products EXCEPT ![c] = @ \ P] ELSE products
    /\ UNCHANGED <<open, endpoint, clients, tracked, cast>>

\* ping, and the messages answered with an error.
OtherMessage(c) ==
    /\ endpoint[c] = "reading"
    /\ endpoint' = [endpoint EXCEPT ![c] = "replying"]
    /\ UNCHANGED <<open, table, cast>>

\* send_to_client: a failing send drops the client, an absent client is skipped.
Reply(c) ==
    /\ endpoint[c] = "replying"
    /\ endpoint' = [endpoint EXCEPT ![c] = "reading"]
    /\ \/ UNCHANGED table
       \/ c \in clients \ open /\ Drop(c)
    /\ UNCHANGED <<open, cast>>

\* An endpoint without its finally clause.
MutantNoFinally(c) ==
    /\ endpoint[c] = "reading"
    /\ endpoint' = [endpoint EXCEPT ![c] = "done"]
    /\ open' = open \ {c}
    /\ UNCHANGED <<table, cast>>

\* The receive raises, or the message handler does; then the finally clause.
EndpointEnds(c) ==
    /\ endpoint[c] = "reading"
    /\ endpoint' = [endpoint EXCEPT ![c] = "done"]
    /\ open' = open \ {c}
    /\ Drop(c)
    /\ UNCHANGED cast

PeerGone(c) ==
    /\ c \in open
    /\ open' = open \ {c}
    /\ UNCHANGED <<endpoint, table, cast>>

-----------------------------------------------------------------------------
(* broadcast_ticker, broadcast_signal and broadcast_all. *)

\* The snapshot, under the lock: one product's clients, or everybody.
StartCast(b) ==
    /\ cast[b].pc = "new"
    /\ \E S \in {subs[p] : p \in entries} \cup {clients} :
          cast' = [cast EXCEPT ![b] = [NewCast EXCEPT !.pc = IF S = {} THEN "done" ELSE "sending",
                                                      !.snap = S, !.todo = S]]
    /\ UNCHANGED <<open, endpoint, table>>

\* An exception ends the whole fan-out: gather without return_exceptions and
\* _send_to without its except clause.
MutantFirstFailureEnds(b, c) ==
    /\ cast[b].pc = "sending" /\ c \in cast[b].todo
    /\ cast' = IF c \in open
               THEN [cast EXCEPT ![b].todo = @ \ {c}, ![b].got = @ \cup {c}]
               ELSE [cast EXCEPT ![b].todo = {}, ![b].dead = @ \cup {c}]
    /\ UNCHANGED <<open, endpoint, table>>

\* One _send_to of the gather.  A client that was dropped since the snapshot is
\* skipped, unless its send had already begun: then that fails.
SendTo(b, c) ==
    /\ cast[b].pc = "sending" /\ c \in cast[b].todo
    /\ \/ /\ c \in clients \cap open
          /\ cast' = [cast EXCEPT ![b].todo = @ \ {c}, ![b].got = @ \cup {c}]
       \/ /\ c \notin clients \cap open
          /\ \E fails \in BOOLEAN :
                cast' = [cast EXCEPT ![b].todo = @ \ {c},
                                     ![b].dead = IF fails THEN @ \cup {c} ELSE @]
    /\ UNCHANGED <<open, endpoint, table>>

SendsDone(b) ==
    /\ cast[b].pc = "sending" /\ cast[b].todo = {}
    /\ cast' = [cast EXCEPT ![b].pc = IF cast[b].dead = {} THEN "done" ELSE "reaping"]
    /\ UNCHANGED <<open, endpoint, table>>

\* disconnect for one of the clients whose send failed; its close is awaited
\* before the next one.
Reap(b, c) ==
    /\ cast[b].pc = "reaping" /\ c \in cast[b].dead
    /\ Drop(c)
    /\ cast' = [cast EXCEPT ![b].dead = @ \ {c},
                            ![b].pc = IF cast[b].dead = {c} THEN "done" ELSE "reaping"]
    /\ UNCHANGED <<open, endpoint>>

-----------------------------------------------------------------------------
Endpoint(c) == Connect(c) \/ Subscribe(c) \/ Unsubscribe(c) \/ OtherMessage(c)
                 \/ Reply(c) \/ EndpointEnds(c)
Cast(b)     == StartCast(b) \/ (\E c \in Clients : SendTo(b, c) \/ Reap(b, c)) \/ SendsDone(b)

Next == \/ \E c \in Clients : Endpoint(c) \/ PeerGone(c)
        \/ \E b \in Casts : Cast(b)

Spec == Init /\ [][Next]_vars

\* A coroutine that can run does.  A socket that is down still yields the
\* messages that had arrived, then its receive raises: hence strong fairness.
Fairness ==
    /\ \A c \in Clients : WF_vars(Reply(c)) /\ SF_vars(c \notin open /\ EndpointEnds(c))
    /\ \A b \in Casts : WF_vars((\E c \in Clients : SendTo(b, c) \/ Reap(b, c)) \/ SendsDone(b))

FairSpec == Spec /\ Fairness

-----------------------------------------------------------------------------
(* Properties *)

\* The two indexes are each other's inverse, know only clients the manager
\* serves, and hold no entry for a product nobody watches: disconnect cleans
\* exactly what subscribe recorded, in any order of drops and late messages.
IndexesAgree ==
    /\ tracked = clients
    /\ \A c \in Clients, p \in Products : c \in subs[p] <=> p \in products[c]
    /\ \A p \in Products : subs[p] \subseteq clients
    /\ \A p \in Products : p \in entries <=> subs[p] # {}

\* One dead client does not cost the others a message: when a broadcast is
\* done, each client of the snapshot that is still served has received it.
SnapshotIsServed ==
    \A b \in Casts : cast[b].pc = "done" => cast[b].snap \cap clients \cap open \subseteq cast[b].got

\* A client whose socket is down is forgotten by the manager.
DeadClientIsDropped ==
    \A c \in Clients : c \in clients \ open ~> c \notin clients

\* The manager implements the relation of Watching.
Watchers == INSTANCE Watching WITH
    connected <- clients,
    watching  <- {w \in Clients \X Products : w[1] \in subs[w[2]]}

ImplementsWatching == Watchers!Spec
=============================================================================
