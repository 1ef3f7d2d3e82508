----------------------------- MODULE GateStream -----------------------------
(***************************************************************************)
(* One market stream of the Gate.io client: a task that connects, listens, *)
(* and reconnects, and the products queued for it by frontend clients.     *)
(* Queueing does not await, so it falls between any two steps of the task. *)
(* A product enters "subscribed" only after the send that asks for it.     *)
(***************************************************************************)
CONSTANTS
    Products,     \* products of this market
    Defaults      \* settings.default_product_list

VARIABLES
    pc,           \* where _run_stream_forever is
    subscribed,   \* stream.subscribed
    pending,      \* stream.pending_subscribe
    sending,      \* products of the send that is awaited
    remote,       \* subscriptions the exchange keeps for the open connection
    wanted,       \* history: products anybody ever asked for
    lost          \* history: products whose send failed, not asked for since

vars == <<pc, subscribed, pending, sending, remote, wanted, lost>>

\* Between connections; awaiting a send after connecting (of what was
\* subscribed, of what is pending) or inside a message handler; listening.
Places  == {"waiting", "resending", "first", "listening", "flushing"}
Awaiting == {"resending", "first", "flushing"}

TypeOK ==
    /\ pc \in Places
    /\ subscribed \subseteq Products
    /\ pending \subseteq Products
    /\ sending \subseteq Products
    /\ remote \subseteq Products
    /\ wanted \subseteq Products
    /\ lost \subseteq Products

Init ==
    /\ pc = "waiting"
    /\ subscribed = {}
    /\ pending = Defaults
    /\ sending = {}
    /\ remote = {}
    /\ wanted = Defaults
    /\ lost = {}

\* _queue_subscribe for each product of a frontend subscribe message.
AddProducts(P) ==
    /\ pending' = pending \cup (P \ subscribed)
    /\ wanted' = wanted \cup P
    /\ lost' = lost \ P
    /\ UNCHANGED <<pc, subscribed, sending, remote>>

\* The pending products are taken off the queue before their send is awaited.
TakePending(place) ==
    IF pending = {} THEN pc' = "listening" /\ sending' = {} /\ UNCHANGED pending
    ELSE pc' = place /\ sending' = pending /\ pending' = {}

\* Operators named Mutant... are plausible bugs, not part of the specification.

\* Connecting anew without subscribing again.
MutantPendingOnly ==
    /\ pc = "waiting"
    /\ remote' = {}
    /\ TakePending("first")
    /\ UNCHANGED <<subscribed, wanted, lost>>

\* A connection opens: what was subscribed is asked for again, then the rest.
Connect ==
    /\ pc = "waiting"
    /\ remote' = {}
    /\ IF subscribed # {}
       THEN pc' = "resending" /\ sending' = subscribed /\ UNCHANGED pending
       ELSE TakePending("first")
    /\ UNCHANGED <<subscribed, wanted, lost>>

\* Clearing the queue when the send has returned.
MutantClearAfterSend ==
    /\ pc \in Awaiting
    /\ remote' = remote \cup sending
    /\ subscribed' = subscribed \cup sending
    /\ pending' = {}
    /\ pc' = "listening" /\ sending' = {}
    /\ UNCHANGED <<wanted, lost>>

\* The awaited send returns.
Sent ==
    /\ pc \in Awaiting
    /\ remote' = remote \cup sending
    /\ subscribed' = subscribed \cup sending
    /\ IF pc = "resending" THEN TakePending("first")
                           ELSE pc' = "listening" /\ sending' = {} /\ UNCHANGED pending
    /\ UNCHANGED <<wanted, lost>>

\* It raises: the connection is given up, and with it what was taken off the
\* queue and is not subscribed yet.
SendFails ==
    /\ pc \in Awaiting
    /\ pc' = "waiting"
    /\ remote' = {} /\ sending' = {}
    /\ lost' = lost \cup (sending \ (subscribed \cup pending))
    /\ UNCHANGED <<subscribed, pending, wanted>>

\* A message arrives, if only the pong of the 15 s ping: the queue is looked at
\* before the message is.
Message ==
    /\ pc = "listening"
    /\ pending # {}
    /\ TakePending("flushing")
    /\ UNCHANGED <<subscribed, remote, wanted, lost>>

\* The connection closes, or the ticker callback raises.
Disconnect ==
    /\ pc = "listening"
    /\ pc' = "waiting"
    /\ remote' = {}
    /\ UNCHANGED <<subscribed, pending, sending, wanted, lost>>

Next == \/ \E P \in SUBSET Products \ {{}} : AddProducts(P)
        \/ Connect \/ Sent \/ SendFails \/ Message \/ Disconnect

Spec == Init /\ [][Next]_vars

\* The task goes on: it reconnects after every backoff, messages keep coming
\* (the ping is answered), and neither every send of old products fails nor
\* every send of new ones.
Fairness ==
    /\ WF_vars(Connect) /\ WF_vars(Message) /\ WF_vars(Sent \/ SendFails)
    /\ SF_vars(pc = "resending" /\ Sent) /\ SF_vars(pc # "resending" /\ Sent)

-----------------------------------------------------------------------------
\* While it listens the client believes exactly what the exchange has:
\* reconnects restore everything that was ever subscribed.
RemoteIsSubscribed == pc = "listening" => remote = subscribed

\* Everything asked for is somewhere, but for what a failed send took with it.
OnlyFailuresLose == wanted \ lost \subseteq subscribed \cup pending \cup sending
=============================================================================
