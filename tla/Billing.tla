------------------------------ MODULE Billing ------------------------------
(***************************************************************************)
(* The paid plan of one user: checkouts with Stripe and Razorpay, the      *)
(* webhooks by which the providers report what became of a subscription,   *)
(* and the two rows they change, the subscription and the user's tier.     *)
(*                                                                         *)
(* A provider delivers each event until it is answered with success, so an *)
(* event may come twice, late, or beside another one.  A request reads its *)
(* rows in separate statements and commits only the columns it changed with*)
(* respect to what it read.  The providers themselves are external.        *)
(***************************************************************************)
EXTENDS Integers, FiniteSets

CONSTANTS
    StripeSubs,   \* ids of the Stripe subscriptions that may be bought
    RazorpaySubs, \* and of the Razorpay ones
    PlanOf,       \* paid plan of each
    Requests,     \* HTTP requests that may be in progress together
    MaxEras,      \* bound on the processes that run one after the other
    MaxEvents,    \* bound on the events the providers send
    None          \* no subscription id

VARIABLES
    row,          \* subscriptions: the user's row
    tier,         \* users.subscription_tier
    processed,    \* billing_events: ids of the events handled
    request,      \* checkouts and webhooks in progress
    era,          \* the running process
    opened,       \* external: subscriptions a checkout has created
    sent,         \* external: events the providers deliver
    applied,      \* history: how often each event was handled
    outdated,     \* history: requests in progress whose rows were written since they read them
    stale,        \* history: such a request has committed
    disorder      \* history: an event was handled out of order, or again

provider == <<opened, sent>>
history  == <<applied, outdated, stale, disorder>>
vars     == <<row, tier, processed, request, era, provider, history>>

Subs  == StripeSubs \cup RazorpaySubs
Plans == {"free"} \cup {PlanOf[s] : s \in Subs}

ASSUME BillingAssumption ==
    /\ StripeSubs \cap RazorpaySubs = {}
    /\ None \notin Subs
    /\ PlanOf \in [Subs -> {"starter", "pro"}]
    /\ MaxEras \in Nat \ {0}
    /\ MaxEvents \in Nat

(* Events.  "start" is checkout.session.completed or subscription.activated, *)
(* "renew" an update to active or subscription.charged, "fail" is            *)
(* invoice.payment_failed or subscription.pending, "lapse" an update to      *)
(* past_due, "end" a deletion, cancellation or halt.                         *)
Kinds  == {"start", "renew", "fail", "lapse", "end"}
Events == [sub : Subs, kind : Kinds]
Event(s, k) == [sub |-> s, kind |-> k]
Happened(s, k) == Event(s, k) \in sent

\* Position of an event in the life of its subscription.
Rank(e) == CASE e.kind = "start" -> 1
             [] e.kind \in {"fail", "lapse"} -> 2
             [] e.kind = "renew" -> 3
             [] e.kind = "end" -> 4

(* The id an event is recorded under.  Where Razorpay's body has none it is   *)
(* hash(payload), which differs from one Python process to the next.          *)
EventId(e) == [event |-> e, era |-> IF e.sub \in RazorpaySubs THEN era ELSE 0]

Absent == [plan |-> "absent"]
NewRow == [plan |-> "free", status |-> "active", pid |-> None, sid |-> None]
Rows   == [plan : Plans, status : {"active", "past_due", "canceled"},
           pid : Subs \cup {None}, sid : StripeSubs \cup {None}]

Idle   == [pc |-> "idle"]
Unread == "unread"
Ids    == [event : Events, era : 0..MaxEras]

Jobs ==
    {Idle}
    \cup [pc : {"checkout"}, sub : Subs, row : Rows \cup {Absent}]
    \cup [pc : {"half", "read"}, event : Events, id : Ids,
          row : Rows \cup {Absent}, tier : Plans \cup {Unread}]

\* The values the tables and the requests can hold.
TypeOK ==
    /\ row \in Rows \cup {Absent}
    /\ tier \in Plans
    /\ processed \subseteq Ids
    /\ request \in [Requests -> Jobs]
    /\ era \in 1..MaxEras
    /\ opened \subseteq Subs
    /\ sent \subseteq Events
    /\ applied \in [Events -> Nat]
    /\ outdated \subseteq Requests
    /\ stale \in BOOLEAN
    /\ disorder \in BOOLEAN

Init ==
    /\ row \in {Absent, NewRow}
    /\ tier = "free"
    /\ processed = {}
    /\ request = [r \in Requests |-> Idle]
    /\ era = 1
    /\ opened = {}
    /\ sent = {}
    /\ applied = [e \in Events |-> 0]
    /\ outdated = {}
    /\ stale = FALSE
    /\ disorder = FALSE

-----------------------------------------------------------------------------
(* What a request makes of the rows it read.                               *)

\* The row is found by the user named in the event, and created if need be;
\* otherwise by a subscription id it holds.
ByUser(e) == e.kind = "start" \/ (e.kind = "renew" /\ e.sub \in RazorpaySubs)

Known(e, r) ==
    \/ ByUser(e)
    \/ /\ r # Absent
       /\ \/ r.pid = e.sub
          \/ e.sub \in StripeSubs /\ r.sid = e.sub

\* get_or_create_subscription
GetOrCreate(r) == IF r = Absent THEN NewRow ELSE r

\* The status apply_subscription_state is called with, or that is set alone.
StatusOf(e) == CASE e.kind \in {"start", "renew"} -> "active"
                 [] e.kind \in {"fail", "lapse"} -> "past_due"
                 [] e.kind = "end" -> "canceled"

PlanAfter(e) == IF StatusOf(e) = "active" THEN PlanOf[e.sub] ELSE "free"

MutantRenewSkipsUser(e, t) == IF e.kind \in {"fail", "renew"} THEN t ELSE PlanAfter(e)

TierAfter(e, t) == IF e.kind = "fail" THEN t ELSE PlanAfter(e)

RowAfter(e, r) ==
    [plan   |-> IF e.kind = "fail" THEN r.plan ELSE PlanAfter(e),
     status |-> StatusOf(e),
     pid    |-> IF ByUser(e) THEN e.sub ELSE r.pid,
     sid    |-> IF ByUser(e) /\ e.sub \in StripeSubs THEN e.sub ELSE r.sid]

\* A Razorpay checkout enters the subscription before anything is paid.
MutantStripeToo(s, r) ==
    IF s \in RazorpaySubs THEN [r EXCEPT !.pid = s, !.plan = PlanOf[s]] ELSE [r EXCEPT !.plan = PlanOf[s]]

RowAfterCheckout(s, r) ==
    IF s \in RazorpaySubs THEN [r EXCEPT !.pid = s, !.plan = PlanOf[s]] ELSE r

\* An UPDATE names the columns whose value differs from the one that was read.
Update(now, read, new) ==
    [c \in {"plan", "status", "pid", "sid"} |-> IF new[c] = read[c] THEN now[c] ELSE new[c]]

UpdateTier(now, read, new) == IF new = read THEN now ELSE new

\* INSERT of a second row for the user violates subscriptions.user_id.
Collides(read) == read = Absent /\ row # Absent

Write(read, new) ==
    row' = IF read = Absent THEN new ELSE Update(row, read, new)

-----------------------------------------------------------------------------
(* Requests.                                                               *)

Become(r, job) == request' = [request EXCEPT ![r] = job]

\* A request that ends may have written what others in progress have read.
RowRead(job)  == job.pc \in {"checkout", "read"} \/ (job.pc = "half" /\ ~ByUser(job.event))
TierRead(job) == \/ job.pc = "half" /\ ByUser(job.event)
                 \/ job.pc = "read" /\ job.tier # Unread

Ends(r) ==
    /\ Become(r, Idle)
    /\ outdated' = {q \in Requests \ {r} :
                       \/ q \in outdated
                       \/ row' # row /\ RowRead(request[q])
                       \/ tier' # tier /\ TierRead(request[q])}

\* create_checkout: reads the row and, in the same step, creates the
\* subscription at the provider with a blocking call.
Checkout(r, s) ==
    /\ request[r] = Idle
    /\ s \notin opened
    /\ opened' = opened \cup {s}
    /\ Become(r, [pc |-> "checkout", sub |-> s, row |-> row])
    /\ UNCHANGED <<row, tier, processed, era, sent, history>>

MutantTierAtCheckout(r) ==
    /\ request[r].pc = "checkout"
    /\ LET job == request[r] IN
       /\ ~Collides(job.row)
       /\ Write(job.row, RowAfterCheckout(job.sub, GetOrCreate(job.row)))
       /\ stale' = (stale \/ r \in outdated)
    /\ tier' = IF request[r].sub \in RazorpaySubs THEN PlanOf[request[r].sub] ELSE tier
    /\ UNCHANGED <<processed, era, provider, applied, disorder>>
    /\ Ends(r)

CheckoutCommit(r) ==
    /\ request[r].pc = "checkout"
    /\ LET job == request[r] IN
       /\ ~Collides(job.row)
       /\ Write(job.row, RowAfterCheckout(job.sub, GetOrCreate(job.row)))
       /\ stale' = (stale \/ r \in outdated)
    /\ UNCHANGED <<tier, processed, era, provider, applied, disorder>>
    /\ Ends(r)

\* Nobody is sent to the page of a Stripe session whose checkout failed;
\* Razorpay has mailed the link.
CheckoutFails(r) ==
    /\ request[r].pc = "checkout"
    /\ Collides(request[r].row)
    /\ opened' = IF request[r].sub \in StripeSubs THEN opened \ {request[r].sub} ELSE opened
    /\ UNCHANGED <<row, tier, processed, era, sent, applied, stale, disorder>>
    /\ Ends(r)

\* handle_webhook up to its first read: an event that is recorded is answered
\* at once, which changes nothing.
Webhook(r, e) ==
    /\ request[r] = Idle
    /\ e \in sent
    /\ EventId(e) \notin processed
    /\ Become(r, [pc   |-> IF Known(e, row) THEN "half" ELSE "read",
                  event |-> e,
                  id   |-> EventId(e),
                  row  |-> IF ByUser(e) THEN Absent ELSE row,
                  tier |-> IF ByUser(e) THEN tier ELSE Unread])
    /\ UNCHANGED <<row, tier, processed, era, provider, history>>

\* The second read: the subscription after the user, or the user after it.
WebhookReads(r) ==
    /\ request[r].pc = "half"
    /\ Become(r, IF ByUser(request[r].event)
                 THEN [request[r] EXCEPT !.pc = "read", !.row = row]
                 ELSE [request[r] EXCEPT !.pc = "read", !.tier = tier])
    /\ UNCHANGED <<row, tier, processed, era, provider, history>>

InOrder(e) ==
    /\ applied[e] = 0
    /\ \A f \in sent : f.sub = e.sub =>
          /\ Rank(f) < Rank(e) => applied[f] > 0
          /\ Rank(f) > Rank(e) => applied[f] = 0

MutantNoConstraint(r) ==
    /\ request[r].pc = "read"
    /\ LET job == request[r]
           e   == job.event
       IN
       /\ processed' = processed \cup {job.id}
       /\ IF Known(e, job.row)
          THEN /\ ~Collides(job.row)
               /\ Write(job.row, RowAfter(e, GetOrCreate(job.row)))
               /\ tier' = UpdateTier(tier, job.tier, TierAfter(e, job.tier))
          ELSE UNCHANGED <<row, tier>>
       /\ stale' = (stale \/ r \in outdated)
       /\ applied' = [applied EXCEPT ![e] = @ + 1]
       /\ disorder' = (disorder \/ ~InOrder(e))
    /\ UNCHANGED <<era, provider>>
    /\ Ends(r)

\* The event is recorded by the commit that handles it; unknown ones too.
WebhookCommit(r) ==
    /\ request[r].pc = "read"
    /\ LET job == request[r]
           e   == job.event
       IN
       /\ job.id \notin processed
       /\ processed' = processed \cup {job.id}
       /\ IF Known(e, job.row)
          THEN /\ ~Collides(job.row)
               /\ Write(job.row, RowAfter(e, GetOrCreate(job.row)))
               /\ tier' = UpdateTier(tier, job.tier, TierAfter(e, job.tier))
          ELSE UNCHANGED <<row, tier>>
       /\ stale' = (stale \/ r \in outdated)
       /\ applied' = [applied EXCEPT ![e] = @ + 1]
       /\ disorder' = (disorder \/ ~InOrder(e))
    /\ UNCHANGED <<era, provider>>
    /\ Ends(r)

\* uq_billing_event_provider_id or subscriptions.user_id: rolled back, 400.
WebhookFails(r) ==
    /\ request[r].pc = "read"
    /\ request[r].id \in processed \/ (Known(request[r].event, request[r].row) /\ Collides(request[r].row))
    /\ UNCHANGED <<row, tier, processed, era, provider, applied, stale, disorder>>
    /\ Ends(r)

\* The process ends with what was not committed, and another one starts.
Restart ==
    /\ era < MaxEras
    /\ era' = era + 1
    /\ request' = [r \in Requests |-> Idle]
    /\ outdated' = {}
    /\ UNCHANGED <<row, tier, processed, provider, applied, stale, disorder>>

-----------------------------------------------------------------------------
(* The providers.                                                          *)

Send(es) ==
    /\ Cardinality(sent \cup es) <= MaxEvents
    /\ sent' = sent \cup es
    /\ UNCHANGED <<row, tier, processed, request, era, opened, history>>

Pay(s) ==
    /\ s \in opened
    /\ ~Happened(s, "start")
    /\ Send({Event(s, "start")})

Lapse(s) ==
    /\ Happened(s, "start")
    /\ ~Happened(s, "fail") /\ ~Happened(s, "renew") /\ ~Happened(s, "end")
    /\ Send({Event(s, "fail")} \cup IF s \in StripeSubs THEN {Event(s, "lapse")} ELSE {})

Renew(s) ==
    /\ Happened(s, "start")
    /\ ~Happened(s, "renew") /\ ~Happened(s, "end")
    /\ Send({Event(s, "renew")})

End(s) ==
    /\ Happened(s, "start")
    /\ ~Happened(s, "end")
    /\ Send({Event(s, "end")})

Next ==
    \/ \E r \in Requests :
          \/ \E s \in Subs : Checkout(r, s)
          \/ CheckoutCommit(r)
          \/ CheckoutFails(r)
          \/ \E e \in Events : Webhook(r, e)
          \/ WebhookReads(r)
          \/ WebhookCommit(r)
          \/ WebhookFails(r)
    \/ Restart
    \/ \E s \in Subs : Pay(s) \/ Lapse(s) \/ Renew(s) \/ End(s)

Spec == Init /\ [][Next]_vars

-----------------------------------------------------------------------------
(* Properties.                                                             *)

AllSettled ==
    /\ \A r \in Requests : request[r] = Idle
    /\ \A e \in sent : applied[e] > 0

Running(s) == Happened(s, "start") /\ ~Happened(s, "end")
Late(s)    == Happened(s, "fail") /\ ~Happened(s, "renew")

\* The row names a Razorpay checkout nobody has paid for.
Abandoned == row # Absent /\ row.pid \in RazorpaySubs /\ ~Happened(row.pid, "start")

\* However often and beside whatever a Stripe event is delivered, its effects
\* are committed once; a Razorpay event's once per process
\* (record_billing_event and the constraint on billing_events).
OncePerId ==
    \A e \in Events : applied[e] <= IF e.sub \in StripeSubs THEN 1 ELSE era

\* Nobody has a paid tier without having paid for a subscription of that plan,
\* in whatever order events and checkouts are committed.
PaidTierWasBought ==
    tier # "free" => \E s \in Subs : PlanOf[s] = tier /\ Happened(s, "start")

\* When every event has been handled, each in its order and over current rows,
\* a paid tier belongs to a subscription that still runs, but for a Razorpay
\* checkout that made the row forget the subscription before it.
UnpaidTierEnds ==
    (AllSettled /\ ~disorder /\ ~stale /\ ~Abandoned) =>
        (tier # "free" => \E s \in Subs : PlanOf[s] = tier /\ Running(s))

\* And the one subscription a user has, running and paid, gives its tier.
PaidTierIsServed ==
    \A s \in Subs :
        (/\ AllSettled /\ ~disorder /\ ~stale
         /\ Running(s) /\ ~Late(s)
         /\ \A z \in Subs \ {s} : ~Happened(z, "start"))
        => tier = PlanOf[s]

SettledTierFollows == UnpaidTierEnds /\ PaidTierIsServed

\* The tier in the subscription and the tier of the user are kept in step, but
\* for a Razorpay checkout that is not paid, unless a request acted on
\* rows that had changed since it read them.
TiersAgree ==
    (row # Absent /\ ~stale /\ row.plan # tier) =>
        /\ row.pid \in RazorpaySubs
        /\ row.plan = PlanOf[row.pid]
        /\ applied[Event(row.pid, "start")] = 0

=============================================================================
