-------------------------- MODULE ConnectionProofs --------------------------
(***************************************************************************)
(* Proofs about the WebSocket manager, for any clients, products and       *)
(* broadcasts: its indexes agree, it implements Watching, and a dead       *)
(* client costs nobody else a message.                                     *)
(***************************************************************************)
EXTENDS ConnectionManager, TLAPS

\* A client the manager knows has an endpoint, so a connection starts clean.
KnownHaveEndpoint ==
    /\ \A c \in clients : endpoint[c] # "absent"
    /\ \A b \in Casts : \A c \in cast[b].snap : endpoint[c] # "absent"

\* Under way: everybody of the snapshot who is still there has received the
\* message or is still to be sent it.
CastInv ==
    \A b \in Casts :
       /\ cast[b].pc = "new" => cast[b].snap = {}
       /\ cast[b].pc # "new" =>
             cast[b].snap \cap clients \cap open \subseteq cast[b].got \cup cast[b].todo
       /\ cast[b].pc \in {"reaping", "done"} => cast[b].todo = {}

Inv == TypeOK /\ IndexesAgree /\ KnownHaveEndpoint /\ CastInv

-----------------------------------------------------------------------------
(* The manager's operations on the tables. *)

TableType ==
    /\ clients \subseteq Clients
    /\ tracked \subseteq Clients
    /\ products \in [Clients -> SUBSET Products]
    /\ entries \subseteq Products
    /\ subs \in [Products -> SUBSET Clients]

\* Discarding leaves every other client's subscriptions as they were, and
\* deletes exactly the entries it empties.
LEMMA DiscardFacts ==
    ASSUME TableType, IndexesAgree, NEW c \in Clients, NEW P \in SUBSET Products, Discard(c, P)
    PROVE  /\ subs' \in [Products -> SUBSET Clients]
           /\ entries' \subseteq Products
           /\ \A p \in Products : subs'[p] = IF p \in P THEN subs[p] \ {c} ELSE subs[p]
           /\ \A p \in Products : p \in entries' <=> subs'[p] # {}
<1>1. \A p \in Products : subs'[p] = IF p \in P THEN subs[p] \ {c} ELSE subs[p]
  <2> SUFFICES ASSUME NEW p \in Products PROVE subs'[p] = IF p \in P THEN subs[p] \ {c} ELSE subs[p]
    OBVIOUS
  <2>1. p \notin entries => subs[p] = {}
    BY DEF IndexesAgree
  <2> QED
    BY <2>1 DEF Discard
<1>2. subs' \in [Products -> SUBSET Clients]
  BY DEF Discard, TableType
<1>3. entries' \subseteq Products
  BY DEF Discard, TableType
<1>4. \A p \in Products : p \in entries' <=> subs'[p] # {}
  <2> SUFFICES ASSUME NEW p \in Products PROVE p \in entries' <=> subs'[p] # {}
    OBVIOUS
  <2>1. p \in entries' <=> p \in entries /\ (p \in P => subs[p] # {c})
    BY DEF Discard
  <2>2. p \in entries <=> subs[p] # {}
    BY DEF IndexesAgree
  <2> QED
    BY <1>1, <2>1, <2>2
<1> QED
  BY <1>1, <1>2, <1>3, <1>4

\* disconnect keeps the indexes in agreement.
LEMMA DropKeeps ==
    ASSUME TableType, IndexesAgree, NEW c \in Clients, Drop(c)
    PROVE  TableType' /\ IndexesAgree' /\ clients' = clients \ {c}
<1>1. products[c] \in SUBSET Products /\ Discard(c, products[c])
  BY DEF Drop, TableType
<1>2. /\ subs' \in [Products -> SUBSET Clients]
      /\ entries' \subseteq Products
      /\ \A p \in Products : subs'[p] = IF p \in products[c] THEN subs[p] \ {c} ELSE subs[p]
      /\ \A p \in Products : p \in entries' <=> subs'[p] # {}
  BY <1>1, DiscardFacts
<1>3. TableType'
  BY <1>2 DEF Drop, TableType
<1>4. \A d \in Clients, p \in Products : d \in subs'[p] <=> p \in products'[d]
  BY <1>2 DEF Drop, IndexesAgree, TableType
<1>5. \A p \in Products : subs'[p] \subseteq clients'
  BY <1>2 DEF Drop, IndexesAgree, TableType
<1> QED
  BY <1>2, <1>3, <1>4, <1>5 DEF Drop, IndexesAgree

\* subscribe does too, whoever calls it.
LEMMA SubscribeKeeps ==
    ASSUME TableType, IndexesAgree, NEW c \in Clients, NEW P \in SUBSET Products,
           AddSubscriptions(c, P)
    PROVE  TableType' /\ IndexesAgree' /\ clients' = clients
<1>1. CASE c \notin clients
  BY <1>1 DEF AddSubscriptions, table, TableType, IndexesAgree
<1>2. CASE c \in clients
  <2>1. TableType'
    BY <1>2 DEF AddSubscriptions, TableType
  <2>2. \A d \in Clients, p \in Products : d \in subs'[p] <=> p \in products'[d]
    BY <1>2 DEF AddSubscriptions, TableType, IndexesAgree
  <2>3. \A p \in Products : subs'[p] \subseteq clients' /\ (p \in entries' <=> subs'[p] # {})
    BY <1>2 DEF AddSubscriptions, TableType, IndexesAgree
  <2> QED
    BY <1>2, <2>1, <2>2, <2>3 DEF AddSubscriptions, IndexesAgree
<1> QED
  BY <1>1, <1>2

\* And unsubscribe.
LEMMA UnsubscribeKeeps ==
    ASSUME TypeOK, IndexesAgree, NEW c \in Clients, Unsubscribe(c)
    PROVE  TableType' /\ IndexesAgree' /\ clients' = clients
<1> USE DEF TypeOK
<1>1. PICK P \in SUBSET Products :
         /\ Discard(c, P)
         /\ products' = IF c \in tracked THEN [products EXCEPT ![c] = @ \ P] ELSE products
  BY DEF Unsubscribe
<1>2. /\ subs' \in [Products -> SUBSET Clients]
      /\ entries' \subseteq Products
      /\ \A p \in Products : subs'[p] = IF p \in P THEN subs[p] \ {c} ELSE subs[p]
      /\ \A p \in Products : p \in entries' <=> subs'[p] # {}
  BY <1>1, DiscardFacts DEF TableType
<1>3. TableType'
  BY <1>1, <1>2 DEF Unsubscribe, TableType
<1>4. \A d \in Clients, p \in Products : d \in subs'[p] <=> p \in products'[d]
  <2>1. CASE c \in tracked
    BY <2>1, <1>1, <1>2 DEF IndexesAgree
  <2>2. CASE c \notin tracked
    BY <2>2, <1>1, <1>2 DEF IndexesAgree
  <2> QED
    BY <2>1, <2>2
<1>5. \A p \in Products : subs'[p] \subseteq clients'
  BY <1>2 DEF Unsubscribe, IndexesAgree
<1> QED
  BY <1>2, <1>3, <1>4, <1>5 DEF Unsubscribe, IndexesAgree

-----------------------------------------------------------------------------
(* The inductive invariant. *)

LEMMA InitInv == Init => Inv
BY DEF Init, Inv, TypeOK, IndexesAgree, KnownHaveEndpoint, CastInv, NewCast, CastRecord

\* What an endpoint does to the tables cannot break the broadcasts under way:
\* clients and open sockets only disappear, unless the endpoint was absent.
LEMMA EndpointKeepsCasts ==
    ASSUME Inv, UNCHANGED cast, NEW c \in Clients,
           open' \subseteq open \cup {c}, clients' \subseteq clients \cup {c},
           \/ open' \subseteq open /\ clients' \subseteq clients
           \/ endpoint[c] = "absent"
    PROVE  CastInv'
<1> SUFFICES ASSUME NEW b \in Casts, cast[b].pc # "new"
             PROVE  cast[b].snap \cap clients' \cap open' \subseteq cast[b].got \cup cast[b].todo
  BY DEF Inv, CastInv
<1>1. endpoint[c] = "absent" => c \notin cast[b].snap
  BY DEF Inv, KnownHaveEndpoint
<1> QED
  BY <1>1 DEF Inv, CastInv

LEMMA EndpointKeepsInv == ASSUME Inv, NEW c \in Clients, Endpoint(c) \/ PeerGone(c) PROVE Inv'
<1> USE DEF Inv
<1>0. TableType
  BY DEF TypeOK, TableType
<1>1. CASE Connect(c)
  <2>1. TypeOK'
    BY <1>1 DEF Connect, TypeOK
  <2>2. c \notin clients /\ products' = [products EXCEPT ![c] = {}]
    BY <1>1 DEF Connect, KnownHaveEndpoint
  <2>3. \A p \in Products : c \notin subs[p]
    BY <2>2 DEF IndexesAgree
  <2>4. IndexesAgree'
    BY <1>1, <2>2, <2>3 DEF Connect, IndexesAgree, TypeOK
  <2>5. KnownHaveEndpoint'
    BY <1>1 DEF Connect, KnownHaveEndpoint, TypeOK
  <2>6. CastInv'
    BY <1>1, EndpointKeepsCasts DEF Connect
  <2> QED
    BY <2>1, <2>4, <2>5, <2>6
<1>2. ASSUME TableType', IndexesAgree', clients' \subseteq clients, open' \subseteq open,
             UNCHANGED cast, endpoint' \in [Clients -> {"absent", "reading", "replying", "done"}],
             \A d \in Clients : endpoint[d] # "absent" => endpoint'[d] # "absent"
      PROVE  Inv'
  <2>1. TypeOK'
    BY <1>2 DEF TypeOK, TableType
  <2>2. KnownHaveEndpoint'
    BY <1>2 DEF KnownHaveEndpoint, TypeOK, CastRecord
  <2>3. CastInv'
    BY <1>2, EndpointKeepsCasts
  <2> QED
    BY <1>2, <2>1, <2>2, <2>3
<1>3. CASE Subscribe(c)
  <2>1. PICK P \in SUBSET Products : AddSubscriptions(c, P)
    BY <1>3 DEF Subscribe
  <2>2. TableType' /\ IndexesAgree' /\ clients' = clients
    BY <1>0, <2>1, SubscribeKeeps
  <2> QED
    BY <1>2, <1>3, <2>2 DEF Subscribe, TypeOK
<1>4. CASE Unsubscribe(c)
  <2>1. TableType' /\ IndexesAgree' /\ clients' = clients
    BY <1>4, UnsubscribeKeeps
  <2> QED
    BY <1>2, <1>4, <2>1 DEF Unsubscribe, TypeOK
<1>5. CASE OtherMessage(c)
  <2>1. TableType' /\ IndexesAgree' /\ clients' = clients
    BY <1>5, <1>0 DEF OtherMessage, table, TableType, IndexesAgree
  <2> QED
    BY <1>2, <1>5, <2>1 DEF OtherMessage, TypeOK
<1>6. CASE Reply(c)
  <2>1. TableType' /\ IndexesAgree' /\ clients' \subseteq clients
    <3>1. CASE UNCHANGED table
      BY <3>1, <1>0 DEF table, TableType, IndexesAgree
    <3>2. CASE Drop(c)
      BY <3>2, <1>0, DropKeeps
    <3> QED
      BY <1>6, <3>1, <3>2 DEF Reply
  <2> QED
    BY <1>2, <1>6, <2>1 DEF Reply, TypeOK
<1>7. CASE EndpointEnds(c)
  <2>1. TableType' /\ IndexesAgree' /\ clients' \subseteq clients
    BY <1>7, <1>0, DropKeeps DEF EndpointEnds
  <2> QED
    BY <1>2, <1>7, <2>1 DEF EndpointEnds, TypeOK
<1>8. CASE PeerGone(c)
  <2>1. TableType' /\ IndexesAgree' /\ clients' = clients
    BY <1>8, <1>0 DEF PeerGone, table, TableType, IndexesAgree
  <2> QED
    BY <1>2, <1>8, <2>1 DEF PeerGone, TypeOK
<1> QED
  BY <1>1, <1>3, <1>4, <1>5, <1>6, <1>7, <1>8 DEF Endpoint

\* A broadcast's step: its new record has the type and what CastInv asks.
LEMMA CastUpdate ==
    ASSUME Inv, NEW b \in Casts, NEW r \in CastRecord, cast' = [cast EXCEPT ![b] = r],
           UNCHANGED <<open, endpoint, table>>,
           r.snap = cast[b].snap \/ r.snap \subseteq clients,
           r.pc = "new" => r.snap = {},
           r.pc # "new" => r.snap \cap clients \cap open \subseteq r.got \cup r.todo,
           r.pc \in {"reaping", "done"} => r.todo = {}
    PROVE  Inv'
<1> USE DEF Inv
<1>1. cast' \in [Casts -> CastRecord] /\ cast'[b] = r /\ \A a \in Casts \ {b} : cast'[a] = cast[a]
  BY DEF TypeOK
<1>2. TypeOK' /\ IndexesAgree'
  BY <1>1 DEF TypeOK, IndexesAgree, table
<1>3. KnownHaveEndpoint'
  BY <1>1 DEF KnownHaveEndpoint, table
<1>4. CastInv'
  <2> SUFFICES ASSUME NEW a \in Casts
               PROVE  /\ cast'[a].pc = "new" => cast'[a].snap = {}
                      /\ cast'[a].pc # "new" =>
                            cast'[a].snap \cap clients \cap open \subseteq cast'[a].got \cup cast'[a].todo
                      /\ cast'[a].pc \in {"reaping", "done"} => cast'[a].todo = {}
    BY DEF CastInv, table
  <2>1. CASE a = b
    BY <2>1, <1>1
  <2>2. CASE a # b
    BY <2>2, <1>1 DEF CastInv
  <2> QED
    BY <2>1, <2>2
<1> QED
  BY <1>2, <1>3, <1>4

LEMMA CastKeepsInv == ASSUME Inv, NEW b \in Casts, Cast(b) PROVE Inv'
<1> USE DEF Inv
<1>0. TableType
  BY DEF TypeOK, TableType
<1>r. cast \in [Casts -> CastRecord] /\ cast[b] \in CastRecord
  BY DEF TypeOK
<1>2. CASE StartCast(b)
  <2>1. PICK S \in {subs[p] : p \in entries} \cup {clients} :
           cast' = [cast EXCEPT ![b] = [NewCast EXCEPT !.pc = IF S = {} THEN "done" ELSE "sending",
                                                       !.snap = S, !.todo = S]]
    BY <1>2 DEF StartCast
  <2>2. S \subseteq clients /\ S \subseteq Clients
    BY DEF IndexesAgree, TypeOK
  <2> DEFINE x == IF S = {} THEN "done" ELSE "sending"
             r == [NewCast EXCEPT !.pc = x, !.snap = S, !.todo = S]
  <2>3. cast' = [cast EXCEPT ![b] = r]
    BY <2>1
  <2>x. x \in {"done", "sending"} /\ (x = "done" => S = {})
    OBVIOUS
  <2> HIDE DEF x
  <2>4. r \in CastRecord
    BY <2>2, <2>x DEF CastRecord, NewCast
  <2>5. /\ r.snap = S /\ r.todo = S /\ r.got = {}
        /\ r.pc \in {"done", "sending"} /\ (r.pc = "done" => S = {})
    BY <2>x DEF NewCast
  <2> HIDE DEF r
  <2> QED
    BY <1>2, <2>2, <2>3, <2>4, <2>5, CastUpdate DEF StartCast
<1>3. ASSUME NEW c \in Clients, SendTo(b, c) PROVE Inv'
  <2>0. cast[b].pc = "sending" /\ UNCHANGED <<open, endpoint, table>>
    BY <1>3 DEF SendTo
  <2>1. CASE c \in clients \cap open /\ cast' = [cast EXCEPT ![b].todo = @ \ {c}, ![b].got = @ \cup {c}]
    <3> DEFINE r == [cast[b] EXCEPT !.todo = @ \ {c}, !.got = @ \cup {c}]
    <3>1. cast' = [cast EXCEPT ![b] = r]
      BY <2>1, <1>r
    <3>2. /\ r \in CastRecord
          /\ r.snap = cast[b].snap /\ r.pc = cast[b].pc
          /\ r.got \cup r.todo = cast[b].got \cup {c} \cup cast[b].todo
      BY <1>r DEF CastRecord
    <3> HIDE DEF r
    <3> QED
      BY <2>0, <3>1, <3>2, CastUpdate DEF CastInv
  <2>2. ASSUME c \notin clients \cap open, NEW fails \in BOOLEAN,
               cast' = [cast EXCEPT ![b].todo = @ \ {c},
                                    ![b].dead = IF fails THEN @ \cup {c} ELSE @]
        PROVE  Inv'
    <3> DEFINE D == IF fails THEN cast[b].dead \cup {c} ELSE cast[b].dead
               r == [cast[b] EXCEPT !.todo = @ \ {c}, !.dead = D]
    <3>1. cast' = [cast EXCEPT ![b] = r]
      BY <2>2, <1>r
    <3>2. D \in SUBSET Clients
      BY <1>r DEF CastRecord
    <3> HIDE DEF D
    <3>3. /\ r \in CastRecord
          /\ r.snap = cast[b].snap /\ r.pc = cast[b].pc
          /\ r.got = cast[b].got /\ r.todo = cast[b].todo \ {c}
      BY <1>r, <3>2 DEF CastRecord
    <3> HIDE DEF r
    <3>4. r.snap \cap clients \cap open \subseteq r.got \cup r.todo
      BY <2>0, <2>2, <3>3 DEF CastInv
    <3> QED
      BY <2>0, <3>1, <3>3, <3>4, CastUpdate
  <2> QED
    BY <1>3, <2>1, <2>2 DEF SendTo
<1>4. CASE SendsDone(b)
  <2> DEFINE d == IF cast[b].dead = {} THEN "done" ELSE "reaping"
             r == [cast[b] EXCEPT !.pc = d]
  <2>1. cast' = [cast EXCEPT ![b] = r]
    BY <1>4, <1>r DEF SendsDone
  <2>2. d \in {"done", "reaping"}
    OBVIOUS
  <2> HIDE DEF d
  <2>3. /\ r \in CastRecord
        /\ r.snap = cast[b].snap /\ r.pc = d
        /\ r.got = cast[b].got /\ r.todo = cast[b].todo
    BY <1>r, <2>2 DEF CastRecord
  <2> HIDE DEF r
  <2> QED
    BY <1>4, <2>1, <2>2, <2>3, CastUpdate DEF SendsDone, CastInv
<1>5. ASSUME NEW c \in Clients, Reap(b, c) PROVE Inv'
  <2>1. TableType' /\ IndexesAgree' /\ clients' = clients \ {c}
    BY <1>5, <1>0, DropKeeps DEF Reap
  <2> DEFINE d == IF cast[b].dead = {c} THEN "done" ELSE "reaping"
             r == [cast[b] EXCEPT !.dead = @ \ {c}, !.pc = d]
  <2>2. cast' = [cast EXCEPT ![b] = r]
    BY <1>5, <1>r DEF Reap
  <2>3. d \in {"done", "reaping"}
    OBVIOUS
  <2> HIDE DEF d
  <2>4. /\ r \in CastRecord
        /\ r.snap = cast[b].snap /\ r.pc = d
        /\ r.got = cast[b].got /\ r.todo = cast[b].todo
    BY <1>r, <2>3 DEF CastRecord
  <2> HIDE DEF r
  <2>5. cast' \in [Casts -> CastRecord] /\ cast'[b] = r /\ \A a \in Casts \ {b} : cast'[a] = cast[a]
    BY <1>r, <2>2, <2>4
  <2>6. TypeOK'
    BY <1>5, <2>1, <2>5 DEF Reap, TypeOK, TableType
  <2>7. \A a \in Casts : /\ cast'[a].snap = cast[a].snap
                         /\ cast'[a].got = cast[a].got /\ cast'[a].todo = cast[a].todo
                         /\ cast'[a].pc = "new" <=> cast[a].pc = "new"
                         /\ cast'[a].pc \in {"reaping", "done"} <=> cast[a].pc \in {"reaping", "done"}
    BY <1>5, <2>3, <2>4, <2>5 DEF Reap
  <2>8. KnownHaveEndpoint'
    BY <1>5, <2>1, <2>7 DEF Reap, KnownHaveEndpoint
  <2>9. CastInv'
    BY <1>5, <2>1, <2>7 DEF Reap, CastInv
  <2> QED
    BY <2>1, <2>6, <2>8, <2>9
<1> QED
  BY <1>2, <1>3, <1>4, <1>5 DEF Cast

LEMMA NextInv == Inv /\ [Next]_vars => Inv'
<1> SUFFICES ASSUME Inv, [Next]_vars PROVE Inv'
  OBVIOUS
<1>1. CASE UNCHANGED vars
  BY <1>1 DEF vars, Inv, TypeOK, IndexesAgree, KnownHaveEndpoint, CastInv
<1> QED
  BY <1>1, EndpointKeepsInv, CastKeepsInv DEF Next

LEMMA Invariance == Spec => []Inv
BY InitInv, NextInv, PTL DEF Spec

\* The subscription tables agree in every reachable state.
THEOREM TablesAgree == Spec => []IndexesAgree
<1>1. Inv => IndexesAgree
  BY DEF Inv
<1> QED
  BY Invariance, <1>1, PTL

\* When a broadcast is done, the clients that were and still are there have it.
THEOREM NobodyIsSkipped == Spec => []SnapshotIsServed
<1>1. Inv => SnapshotIsServed
  <2> SUFFICES ASSUME Inv, NEW b \in Casts, cast[b].pc = "done"
               PROVE  cast[b].snap \cap clients \cap open \subseteq cast[b].got
    BY DEF SnapshotIsServed
  <2> QED
    BY DEF Inv, CastInv
<1> QED
  BY Invariance, <1>1, PTL

-----------------------------------------------------------------------------
(* The manager implements Watching. *)

Pairs == {w \in Clients \X Products : w[1] \in subs[w[2]]}

\* disconnect is Leave: the client's pairs go, and only those.
LEMMA DropIsLeave ==
    ASSUME TableType, IndexesAgree, NEW c \in Clients, Drop(c)
    PROVE  Watchers!Leave(c)
<1>1. clients' = clients \ {c}
  BY DEF Drop
<1>2. products[c] \in SUBSET Products /\ Discard(c, products[c])
  BY DEF Drop, TableType
<1>3. \A p \in Products : subs'[p] = IF p \in products[c] THEN subs[p] \ {c} ELSE subs[p]
  BY <1>2, DiscardFacts
<1>4. \A p \in Products : subs'[p] = subs[p] \ {c}
  BY <1>3 DEF IndexesAgree
<1>5. Pairs' = Pairs \ ({c} \X Products)
  BY <1>4 DEF Pairs
<1> QED
  BY <1>1, <1>5 DEF Watchers!Leave, Pairs

LEMMA StepImplements ==
    ASSUME Inv, [Next]_vars
    PROVE  [Watchers!Next]_Watchers!vars
<1> USE DEF Inv
<1>0. TableType
  BY DEF TypeOK, TableType
<1>s. ASSUME UNCHANGED table PROVE UNCHANGED Watchers!vars
  BY <1>s DEF table, Watchers!vars
<1>l. ASSUME NEW c \in Clients, Drop(c) PROVE Watchers!Next
  BY <1>0, <1>l, DropIsLeave DEF Watchers!Next
<1>1. ASSUME NEW c \in Clients, Connect(c) PROVE Watchers!Next
  <2>1. c \notin clients
    BY <1>1 DEF Connect, KnownHaveEndpoint
  <2>2. Watchers!Join(c)
    BY <1>1, <2>1 DEF Connect, Watchers!Join
  <2> QED
    BY <2>2 DEF Watchers!Next
<1>2. ASSUME NEW c \in Clients, Subscribe(c) PROVE [Watchers!Next]_Watchers!vars
  <2>1. PICK P \in SUBSET Products : AddSubscriptions(c, P)
    BY <1>2 DEF Subscribe
  <2>2. CASE c \notin clients
    BY <2>1, <2>2, <1>s DEF AddSubscriptions
  <2>3. CASE c \in clients
    <3>1. \A p \in Products : subs'[p] = IF p \in P THEN subs[p] \cup {c} ELSE subs[p]
      BY <2>1, <2>3 DEF AddSubscriptions
    <3>2. Pairs' = Pairs \cup ({c} \X P)
      BY <3>1 DEF Pairs, TypeOK
    <3>3. Watchers!Watch(c, P)
      BY <2>1, <2>3, <3>2 DEF AddSubscriptions, Watchers!Watch, Pairs
    <3> QED
      BY <3>3 DEF Watchers!Next
  <2> QED
    BY <2>2, <2>3
<1>3. ASSUME NEW c \in Clients, Unsubscribe(c) PROVE Watchers!Next
  <2>1. PICK P \in SUBSET Products : Discard(c, P)
    BY <1>3 DEF Unsubscribe
  <2>2. \A p \in Products : subs'[p] = IF p \in P THEN subs[p] \ {c} ELSE subs[p]
    BY <1>0, <2>1, DiscardFacts
  <2>3. Pairs' = Pairs \ ({c} \X P)
    BY <2>2 DEF Pairs
  <2>4. Watchers!Unwatch(c, P)
    BY <1>3, <2>3 DEF Unsubscribe, Watchers!Unwatch, Pairs
  <2> QED
    BY <2>4 DEF Watchers!Next
<1>4. ASSUME NEW c \in Clients, OtherMessage(c) \/ PeerGone(c) PROVE UNCHANGED Watchers!vars
  BY <1>4, <1>s DEF OtherMessage, PeerGone
<1>5. ASSUME NEW c \in Clients, Reply(c) PROVE [Watchers!Next]_Watchers!vars
  BY <1>5, <1>s, <1>l DEF Reply
<1>6. ASSUME NEW c \in Clients, EndpointEnds(c) PROVE Watchers!Next
  BY <1>6, <1>l DEF EndpointEnds
<1>7. ASSUME NEW b \in Casts, Cast(b) PROVE [Watchers!Next]_Watchers!vars
  BY <1>7, <1>s, <1>l DEF Cast, StartCast, SendTo, SendsDone, Reap
<1>8. CASE UNCHANGED vars
  BY <1>8, <1>s DEF vars, table
<1> QED
  BY <1>1, <1>2, <1>3, <1>4, <1>5, <1>6, <1>7, <1>8 DEF Next, Endpoint

\* Every behaviour of the manager is a behaviour of the relation.
THEOREM ManagerImplementsWatching == Spec => ImplementsWatching
<1>1. Init => Watchers!Init
  BY DEF Init, Watchers!Init
<1>2. Inv /\ [Next]_vars => [Watchers!Next]_Watchers!vars
  BY StepImplements
<1> QED
  BY <1>1, <1>2, Invariance, PTL DEF Spec, ImplementsWatching, Watchers!Spec
=============================================================================
