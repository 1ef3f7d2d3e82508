--------------------------- MODULE CoinbaseStream ---------------------------
(***************************************************************************)
(* The Coinbase client: the same task as a Gate.io stream over one         *)
(* connection, but a product counts as subscribed from the moment it is    *)
(* asked for, and every connection begins by asking for all of them.       *)
(***************************************************************************)
CONSTANTS
    Products,     \* products
    Defaults      \* settings.default_product_list

VARIABLES
    pc,           \* where _run_forever is
    subscribed,   \* _subscribed_products
    pending,      \* _pending_subscriptions
    sending,      \* products of the send that is awaited
    remote,       \* subscriptions the exchange keeps for the open connection
    wanted,       \* history: products anybody ever asked for
    lost          \* history, as in GateStream: nothing is lost here

vars == <<pc, subscribed, pending, sending, remote, wanted, lost>>

Awaiting == {"resending", "flushing"}

Init ==
    /\ pc = "waiting"
    /\ subscribed = Defaults
    /\ pending = {}
    /\ sending = {}
    /\ remote = {}
    /\ wanted = Defaults
    /\ lost = {}

\* Operators named Mutant... are plausible bugs, not part of the specification.

\* add_products that leaves the set of subscriptions to the send.
MutantQueueOnly(P) ==
    /\ pending' = pending \cup (P \ subscribed)
    /\ wanted' = wanted \cup P
    /\ UNCHANGED <<pc, subscribed, sending, remote, lost>>

AddProducts(P) ==
    /\ subscribed' = subscribed \cup P
    /\ pending' = pending \cup (P \ subscribed)
    /\ wanted' = wanted \cup P
    /\ UNCHANGED <<pc, sending, remote, lost>>

\* All subscriptions are asked for; the queue keeps what is asked for twice.
Connect ==
    /\ pc = "waiting"
    /\ remote' = {}
    /\ sending' = subscribed
    /\ pc' = IF subscribed = {} THEN "listening" ELSE "resending"
    /\ UNCHANGED <<subscribed, pending, wanted, lost>>

\* The awaited sends, of the heartbeat and the ticker channel, return.
Sent ==
    /\ pc \in Awaiting
    /\ pc' = "listening"
    /\ remote' = remote \cup sending
    /\ sending' = {}
    /\ UNCHANGED <<subscribed, pending, wanted, lost>>

SendFails ==
    /\ pc \in Awaiting
    /\ pc' = "waiting"
    /\ remote' = {} /\ sending' = {}
    /\ UNCHANGED <<subscribed, pending, wanted, lost>>

\* A message arrives and the queue is not empty.
Message ==
    /\ pc = "listening"
    /\ pending # {}
    /\ pc' = "flushing" /\ sending' = pending /\ pending' = {}
    /\ UNCHANGED <<subscribed, remote, wanted, lost>>

Disconnect ==
    /\ pc = "listening"
    /\ pc' = "waiting"
    /\ remote' = {}
    /\ UNCHANGED <<subscribed, pending, sending, wanted, lost>>

Next == \/ \E P \in SUBSET Products \ {{}} : AddProducts(P)
        \/ Connect \/ Sent \/ SendFails \/ Message \/ Disconnect

\* As for GateStream: heartbeats keep messages coming.
Fairness == WF_vars(Connect) /\ WF_vars(Message) /\ SF_vars(Sent) /\ WF_vars(Sent \/ SendFails)

-----------------------------------------------------------------------------
\* While the client listens, a product it counts as subscribed is subscribed
\* at the exchange or still queued: sends that failed included.
SubscribedIsServed == pc = "listening" => subscribed = remote \cup pending
=============================================================================
