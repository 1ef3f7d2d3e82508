--------------------------- MODULE BillingProofs ---------------------------
(***************************************************************************)
(* Proofs about billing, for any subscriptions, requests and restarts: the *)
(* effects of an event are committed once per id it is recorded under, and *)
(* a paid tier was paid for whatever the order of requests and events.     *)
(***************************************************************************)
EXTENDS Billing, TLAPS

\* How often an event may be handled: once under each of its ids so far.
Allowed(e) == IF e.sub \in StripeSubs THEN 1 ELSE era

\* A webhook in progress belongs to the running process and to an event that
\* was sent; an event whose present id is not recorded may be handled once more.
JobsInv ==
    \A r \in Requests : request[r].pc \in {"half", "read"} =>
        /\ request[r].event \in sent
        /\ request[r].id = EventId(request[r].event)

CountInv ==
    \A e \in Events :
        /\ applied[e] <= Allowed(e)
        /\ EventId(e) \notin processed => applied[e] < Allowed(e)

\* A row, once there, stays.
RowsInv ==
    \A r \in Requests :
        (request[r].pc # "idle" /\ request[r].row # Absent) => row # Absent

StartedInv == \A e \in sent : Happened(e.sub, "start")

Inv == TypeOK /\ JobsInv /\ RowsInv /\ CountInv /\ StartedInv /\ PaidTierWasBought

\* The part of the state the events and their ids are in.
EventVars == <<processed, era, sent, applied>>

LEMMA InitInv == Init => Inv
<1> SUFFICES ASSUME Init PROVE Inv
  OBVIOUS
<1>1. TypeOK
  <2>1. NewRow \in Rows
    BY DEF NewRow, Rows, Plans
  <2>2. row \in Rows \cup {Absent} /\ tier \in Plans
    BY <2>1 DEF Init, Plans
  <2>3. request \in [Requests -> Jobs]
    BY DEF Init, Jobs
  <2>4. stale \in BOOLEAN /\ disorder \in BOOLEAN
    BY DEF Init
  <2>5. era \in 1..MaxEras
    BY BillingAssumption DEF BillingAssumption, Init
  <2> QED
    BY <2>2, <2>3, <2>4, <2>5 DEF Init, TypeOK
<1>2. JobsInv /\ RowsInv
  BY DEF Init, JobsInv, RowsInv, Idle
<1>3. CountInv
  BY DEF Init, CountInv, Allowed
<1>4. StartedInv /\ PaidTierWasBought
  BY DEF Init, StartedInv, PaidTierWasBought
<1> QED
  BY <1>1, <1>2, <1>3, <1>4 DEF Inv

LEMMA KindOfEvent ==
    ASSUME NEW e \in Events
    PROVE  /\ StatusOf(e) \in {"active", "past_due", "canceled"}
           /\ StatusOf(e) = "active" => e.kind \in {"start", "renew"}
           /\ PlanAfter(e) \in Plans
           /\ PlanAfter(e) # "free" => PlanAfter(e) = PlanOf[e.sub]
           /\ e.sub \in Subs
<1>1. e.sub \in Subs /\ e.kind \in Kinds
  BY DEF Events
<1>2. StatusOf(e) \in {"active", "past_due", "canceled"}
  BY <1>1 DEF StatusOf, Kinds
<1>3. StatusOf(e) = "active" => e.kind \in {"start", "renew"}
  BY <1>1 DEF StatusOf, Kinds
<1> QED
  BY <1>1, <1>2, <1>3 DEF PlanAfter, Plans

\* What a request writes is a row again.
LEMMA RowIsWritten ==
    ASSUME NEW read \in Rows \cup {Absent}, NEW new \in Rows, row \in Rows \cup {Absent},
           ~Collides(read), read # Absent => row # Absent, Write(read, new)
    PROVE  row' \in Rows
<1>1. CASE read = Absent
  BY <1>1 DEF Write
<1>2. CASE read # Absent /\ row # Absent
  BY <1>2 DEF Write, Update, Rows
<1> QED
  BY <1>1, <1>2 DEF Collides

LEMMA RowAfterIsRow ==
    ASSUME NEW e \in Events, NEW r \in Rows \cup {Absent}, Known(e, r)
    PROVE  RowAfter(e, GetOrCreate(r)) \in Rows
<1>1. GetOrCreate(r) \in Rows
  BY DEF GetOrCreate, NewRow, Rows, Plans
<1>2. e.sub \in Subs /\ PlanAfter(e) \in Plans /\ StatusOf(e) \in {"active", "past_due", "canceled"}
  BY KindOfEvent
<1> QED
  BY <1>1, <1>2 DEF RowAfter, Rows

LEMMA RowAfterCheckoutIsRow ==
    ASSUME NEW s \in Subs, NEW r \in Rows \cup {Absent}
    PROVE  RowAfterCheckout(s, GetOrCreate(r)) \in Rows
<1>1. GetOrCreate(r) \in Rows
  BY DEF GetOrCreate, NewRow, Rows, Plans
<1>2. PlanOf[s] \in Plans
  BY DEF Plans
<1> QED
  BY <1>1, <1>2 DEF RowAfterCheckout, Rows

\* A request's job changes to another job, and nothing that is counted does.
LEMMA Becoming ==
    ASSUME Inv, NEW r \in Requests, NEW job \in Jobs, Become(r, job),
           row' \in Rows \cup {Absent}, row # Absent => row' # Absent,
           tier' = tier, UNCHANGED EventVars, opened' \subseteq Subs,
           outdated' \subseteq Requests, stale' \in BOOLEAN, disorder' \in BOOLEAN,
           job.pc \in {"half", "read"} => job.event \in sent /\ job.id = EventId(job.event),
           (job.pc # "idle" /\ job.row # Absent) => row # Absent
    PROVE  Inv'
<1>1. TypeOK'
  BY DEF Inv, TypeOK, Become, EventVars
<1>2. JobsInv'
  <2> SUFFICES ASSUME NEW q \in Requests, (request[q].pc \in {"half", "read"})'
               PROVE  (request[q].event \in sent /\ request[q].id = EventId(request[q].event))'
    BY DEF JobsInv
  <2>0. era' = era /\ sent' = sent /\ request \in [Requests -> Jobs]
    BY DEF EventVars, Inv, TypeOK
  <2>1. CASE q = r
    BY <2>0, <2>1 DEF Become, EventId
  <2>2. CASE q # r
    BY <2>0, <2>2 DEF Become, EventId, Inv, JobsInv
  <2> QED
    BY <2>1, <2>2
<1>3. RowsInv'
  BY DEF Inv, TypeOK, RowsInv, Become
<1>4. CountInv' /\ StartedInv' /\ PaidTierWasBought'
  BY DEF Inv, CountInv, StartedInv, PaidTierWasBought, Allowed, EventId, Happened, EventVars
<1> QED
  BY <1>1, <1>2, <1>3, <1>4 DEF Inv

LEMMA CheckoutStep ==
    ASSUME Inv, NEW r \in Requests, NEW s \in Subs, Checkout(r, s)
    PROVE  Inv'
<1> DEFINE job == [pc |-> "checkout", sub |-> s, row |-> row]
<1>1. job \in Jobs
  BY DEF Inv, TypeOK, Jobs
<1> QED
  BY <1>1, Becoming DEF Checkout, Inv, TypeOK, EventVars, history

LEMMA CheckoutCommitStep ==
    ASSUME Inv, NEW r \in Requests, CheckoutCommit(r)
    PROVE  Inv'
<1> DEFINE job == request[r]
<1>1. job.sub \in Subs /\ job.row \in Rows \cup {Absent} /\ job.pc = "checkout"
  BY DEF Inv, TypeOK, Jobs, CheckoutCommit, Idle
<1>2. job.row # Absent => row # Absent
  BY <1>1 DEF Inv, RowsInv
<1>3. row' \in Rows
  <2> DEFINE new == RowAfterCheckout(job.sub, GetOrCreate(job.row))
  <2>1. new \in Rows
    BY <1>1, RowAfterCheckoutIsRow
  <2>2. ~Collides(job.row) /\ Write(job.row, new)
    BY DEF CheckoutCommit
  <2>3. row \in Rows \cup {Absent}
    BY DEF Inv, TypeOK
  <2> HIDE DEF new, job
  <2> QED
    BY <1>1, <1>2, <2>1, <2>2, <2>3, RowIsWritten
<1>4. Absent \notin Rows
  BY DEF Absent, Rows
<1>5. Idle \in Jobs /\ Idle.pc = "idle"
  BY DEF Idle, Jobs
<1> QED
  BY <1>3, <1>4, <1>5, Becoming DEF CheckoutCommit, Ends, Inv, TypeOK, EventVars, provider

LEMMA RequestEnds ==
    ASSUME Inv, NEW r \in Requests, CheckoutFails(r) \/ WebhookFails(r)
    PROVE  Inv'
<1>1. Idle \in Jobs /\ Idle.pc = "idle"
  BY DEF Idle, Jobs
<1>2. Become(r, Idle) /\ row' = row /\ tier' = tier /\ UNCHANGED EventVars
      /\ outdated' \subseteq Requests /\ stale' = stale /\ disorder' = disorder
  BY DEF CheckoutFails, WebhookFails, Ends, EventVars, provider
<1>3. opened' \subseteq Subs
  BY DEF CheckoutFails, WebhookFails, provider, Inv, TypeOK
<1> QED
  BY <1>1, <1>2, <1>3, Becoming DEF Inv, TypeOK

LEMMA WebhookStep ==
    ASSUME Inv, NEW r \in Requests, NEW e \in Events, Webhook(r, e)
    PROVE  Inv'
<1> DEFINE job == [pc   |-> IF Known(e, row) THEN "half" ELSE "read",
                   event |-> e,
                   id   |-> EventId(e),
                   row  |-> IF ByUser(e) THEN Absent ELSE row,
                   tier |-> IF ByUser(e) THEN tier ELSE Unread]
<1>1. EventId(e) \in Ids
  BY BillingAssumption DEF BillingAssumption, EventId, Ids, Inv, TypeOK
<1>2. job \in Jobs
  BY <1>1 DEF Inv, TypeOK, Jobs
<1>3. /\ job.pc \in {"half", "read"} => job.event \in sent /\ job.id = EventId(job.event)
      /\ (job.pc # "idle" /\ job.row # Absent) => row # Absent
  BY DEF Webhook
<1>4. Become(r, job) /\ row' = row /\ tier' = tier /\ UNCHANGED EventVars
      /\ opened' = opened /\ outdated' = outdated /\ stale' = stale /\ disorder' = disorder
  BY DEF Webhook, EventVars, history, provider
<1> HIDE DEF job
<1> QED
  BY <1>2, <1>3, <1>4, Becoming DEF Inv, TypeOK

\* The fields of a webhook in progress.
LEMMA WebhookJob ==
    ASSUME Inv, NEW r \in Requests, request[r].pc \in {"half", "read"}
    PROVE  LET job == request[r] IN
           /\ job \in [pc : {"half", "read"}, event : Events, id : Ids,
                       row : Rows \cup {Absent}, tier : Plans \cup {Unread}]
           /\ job.event \in sent
           /\ job.id = EventId(job.event)
           /\ job.row # Absent => row # Absent
<1>1. request[r] \in Jobs /\ request[r] # Idle /\ request[r].pc # "checkout"
  BY DEF Inv, TypeOK, Idle
<1> QED
  BY <1>1 DEF Inv, Jobs, JobsInv, RowsInv

LEMMA WebhookReadsStep ==
    ASSUME Inv, NEW r \in Requests, WebhookReads(r)
    PROVE  Inv'
<1> DEFINE job == request[r]
           next == IF ByUser(job.event) THEN [job EXCEPT !.pc = "read", !.row = row]
                                        ELSE [job EXCEPT !.pc = "read", !.tier = tier]
<1>1. /\ job \in [pc : {"half", "read"}, event : Events, id : Ids,
                  row : Rows \cup {Absent}, tier : Plans \cup {Unread}]
      /\ job.event \in sent /\ job.id = EventId(job.event)
      /\ job.row # Absent => row # Absent
  BY WebhookJob DEF WebhookReads
<1>2. row \in Rows \cup {Absent} /\ tier \in Plans
  BY DEF Inv, TypeOK
<1>3. /\ next \in [pc : {"half", "read"}, event : Events, id : Ids,
                   row : Rows \cup {Absent}, tier : Plans \cup {Unread}]
      /\ next.event = job.event /\ next.id = job.id
      /\ next.row # Absent => row # Absent
  <2> HIDE DEF job
  <2> QED
    BY <1>1, <1>2
<1>4. Become(r, next) /\ row' = row /\ tier' = tier /\ UNCHANGED EventVars
      /\ opened' = opened /\ outdated' = outdated /\ stale' = stale /\ disorder' = disorder
  BY DEF WebhookReads, EventVars, history, provider
<1> HIDE DEF next, job
<1>5. next \in Jobs
  BY <1>3 DEF Jobs
<1> QED
  BY <1>1, <1>3, <1>4, <1>5, Becoming DEF Inv, TypeOK

\* Handling an event under a new id uses up one of the times it is allowed.
LEMMA CountStep ==
    ASSUME Inv, NEW e \in Events, EventId(e) \notin processed, era' = era,
           processed' = processed \cup {EventId(e)},
           applied' = [applied EXCEPT ![e] = @ + 1]
    PROVE  CountInv'
<1> SUFFICES ASSUME NEW f \in Events
             PROVE  /\ applied'[f] <= Allowed(f)'
                    /\ (EventId(f))' \notin processed' => applied'[f] < Allowed(f)'
  BY DEF CountInv
<1>1. Allowed(f)' = Allowed(f) /\ EventId(f)' = EventId(f)
  BY DEF Allowed, EventId
<1>2. /\ applied[f] <= Allowed(f) /\ (EventId(f) \notin processed => applied[f] < Allowed(f))
      /\ applied[f] \in Nat /\ Allowed(f) \in Nat
  BY BillingAssumption DEF BillingAssumption, Inv, CountInv, TypeOK, Allowed
<1>3. CASE f = e
  <2>1. applied'[f] = applied[f] + 1 /\ EventId(f) \in processed'
    BY <1>3 DEF Inv, TypeOK
  <2> QED
    BY <1>1, <1>2, <1>3, <2>1
<1>4. CASE f # e
  BY <1>1, <1>2, <1>4 DEF Inv, TypeOK
<1> QED
  BY <1>3, <1>4

\* What the commit makes of the two rows: a row again, and a tier that is the
\* one before, free, or that of the event's subscription.
LEMMA CommittedRows ==
    ASSUME Inv, NEW r \in Requests, WebhookCommit(r)
    PROVE  /\ row' \in Rows \cup {Absent}
           /\ row # Absent => row' # Absent
           /\ tier' \in {tier, "free", PlanOf[request[r].event.sub]}
<1> DEFINE job == request[r]
           e   == job.event
<1>1. /\ job \in [pc : {"half", "read"}, event : Events, id : Ids,
                  row : Rows \cup {Absent}, tier : Plans \cup {Unread}]
      /\ job.row # Absent => row # Absent
  BY WebhookJob DEF WebhookCommit
<1>2. row \in Rows \cup {Absent} /\ Absent \notin Rows
  BY DEF Inv, TypeOK, Absent, Rows
<1>3. CASE ~Known(e, job.row)
  BY <1>2, <1>3 DEF WebhookCommit
<1>4. CASE Known(e, job.row)
  <2>1. ~Collides(job.row) /\ Write(job.row, RowAfter(e, GetOrCreate(job.row)))
        /\ tier' = UpdateTier(tier, job.tier, TierAfter(e, job.tier))
    BY <1>4 DEF WebhookCommit
  <2>2. RowAfter(e, GetOrCreate(job.row)) \in Rows
    BY <1>1, <1>4, RowAfterIsRow
  <2>3. row' \in Rows
    <3> DEFINE new == RowAfter(e, GetOrCreate(job.row))
    <3> HIDE DEF new, job
    <3> QED
      BY <1>1, <1>2, <2>1, <2>2, RowIsWritten
  <2>4. PlanAfter(e) \in {"free", PlanOf[e.sub]}
    BY <1>1, KindOfEvent
  <2>5. tier' \in {tier, "free", PlanOf[e.sub]}
    BY <2>1, <2>4 DEF UpdateTier, TierAfter
  <2> QED
    BY <1>2, <2>3, <2>5
<1> QED
  BY <1>3, <1>4

LEMMA WebhookCommitStep ==
    ASSUME Inv, NEW r \in Requests, WebhookCommit(r)
    PROVE  Inv'
<1> DEFINE e == request[r].event
<1>1. e \in Events /\ e \in sent /\ request[r].id = EventId(e) /\ request[r].id \in Ids
  BY WebhookJob DEF WebhookCommit
<1>2. /\ EventId(e) \notin processed
      /\ processed' = processed \cup {EventId(e)}
      /\ applied' = [applied EXCEPT ![e] = @ + 1]
      /\ era' = era /\ sent' = sent /\ opened' = opened
      /\ request' = [request EXCEPT ![r] = Idle]
  BY <1>1 DEF WebhookCommit, Ends, Become, provider
<1>3. /\ row' \in Rows \cup {Absent}
      /\ row # Absent => row' # Absent
      /\ tier' \in {tier, "free", PlanOf[e.sub]}
  BY CommittedRows
<1>4. e.sub \in Subs /\ PlanOf[e.sub] \in Plans /\ "free" \in Plans
  BY <1>1 DEF Events, Plans
<1> HIDE DEF e
<1>5. TypeOK'
  <2>1. outdated' \subseteq Requests /\ stale' \in BOOLEAN /\ disorder' \in BOOLEAN
    BY DEF WebhookCommit, Ends, Inv, TypeOK
  <2>2. Idle \in Jobs
    BY DEF Jobs
  <2>3. applied' \in [Events -> Nat]
    BY <1>1, <1>2 DEF Inv, TypeOK
  <2>4. tier' \in Plans /\ processed' \subseteq Ids
    BY <1>1, <1>2, <1>3, <1>4 DEF Inv, TypeOK
  <2> QED
    BY <1>2, <1>3, <2>1, <2>2, <2>3, <2>4 DEF Inv, TypeOK
<1>6. JobsInv' /\ RowsInv'
  <2>1. Idle.pc = "idle"
    BY DEF Idle
  <2>2. request \in [Requests -> Jobs]
    BY DEF Inv, TypeOK
  <2> QED
    BY <1>2, <1>3, <2>1, <2>2 DEF Inv, JobsInv, RowsInv, EventId
<1>7. CountInv'
  BY <1>1, <1>2, CountStep
<1>8. StartedInv' /\ PaidTierWasBought'
  <2>1. Happened(e.sub, "start")
    BY <1>1 DEF Inv, StartedInv
  <2> QED
    BY <1>2, <1>3, <1>4, <2>1 DEF Inv, StartedInv, PaidTierWasBought, Happened
<1> QED
  BY <1>5, <1>6, <1>7, <1>8 DEF Inv

\* A new process has new ids for Razorpay's events, and no requests.
LEMMA RestartStep ==
    ASSUME Inv, Restart
    PROVE  Inv'
<1>1. era \in 1..MaxEras /\ era + 1 <= MaxEras /\ MaxEras \in Nat
  BY BillingAssumption DEF BillingAssumption, Inv, TypeOK, Restart
<1>2. TypeOK'
  BY <1>1 DEF Inv, TypeOK, Restart, Jobs, provider
<1>3. JobsInv' /\ RowsInv'
  BY DEF Restart, JobsInv, RowsInv, Idle
<1>4. CountInv'
  <2> SUFFICES ASSUME NEW f \in Events
               PROVE  /\ applied'[f] <= Allowed(f)'
                      /\ (EventId(f))' \notin processed' => applied'[f] < Allowed(f)'
    BY DEF CountInv
  <2>1. applied' = applied /\ processed' = processed /\ era' = era + 1
    BY DEF Restart
  <2>2. /\ applied[f] <= Allowed(f) /\ (EventId(f) \notin processed => applied[f] < Allowed(f))
        /\ applied[f] \in Nat
    BY DEF Inv, CountInv, TypeOK
  <2>3. CASE f.sub \in StripeSubs
    BY <2>1, <2>2, <2>3, BillingAssumption DEF BillingAssumption, Allowed, EventId
  <2>4. CASE f.sub \notin StripeSubs
    BY <1>1, <2>1, <2>2, <2>4 DEF Allowed
  <2> QED
    BY <2>3, <2>4
<1>5. StartedInv' /\ PaidTierWasBought'
  BY DEF Inv, StartedInv, PaidTierWasBought, Happened, Restart, provider
<1> QED
  BY <1>2, <1>3, <1>4, <1>5 DEF Inv

\* What the providers send belongs to a subscription that was started.
LEMMA SendStep ==
    ASSUME Inv, NEW s \in Subs, NEW es \in SUBSET [sub : {s}, kind : Kinds], Send(es),
           Happened(s, "start") \/ Event(s, "start") \in es
    PROVE  Inv'
<1>1. es \subseteq Events /\ sent' = sent \cup es
  BY DEF Events, Send
<1>2. UNCHANGED <<row, tier, processed, request, era, opened, applied, outdated, stale, disorder>>
  BY DEF Send, history
<1>3. TypeOK'
  BY <1>1, <1>2 DEF Inv, TypeOK
<1>4. JobsInv' /\ RowsInv' /\ CountInv'
  BY <1>1, <1>2 DEF Inv, JobsInv, RowsInv, CountInv, EventId, Allowed
<1>5. StartedInv'
  BY <1>1 DEF Inv, StartedInv, Happened, Event
<1>6. PaidTierWasBought'
  BY <1>1, <1>2 DEF Inv, PaidTierWasBought, Happened
<1> QED
  BY <1>3, <1>4, <1>5, <1>6 DEF Inv

LEMMA ProviderStep ==
    ASSUME Inv, NEW s \in Subs, Pay(s) \/ Lapse(s) \/ Renew(s) \/ End(s)
    PROVE  Inv'
<1>1. CASE Pay(s)
  <2>1. {Event(s, "start")} \in SUBSET [sub : {s}, kind : Kinds]
    BY DEF Event, Kinds
  <2> QED
    BY <1>1, <2>1, SendStep DEF Pay
<1>2. CASE Lapse(s)
  <2> DEFINE es == {Event(s, "fail")} \cup IF s \in StripeSubs THEN {Event(s, "lapse")} ELSE {}
  <2>1. es \in SUBSET [sub : {s}, kind : Kinds]
    BY DEF Event, Kinds
  <2>2. Send(es) /\ Happened(s, "start")
    BY <1>2 DEF Lapse
  <2> QED
    BY <2>1, <2>2, SendStep
<1>3. CASE Renew(s)
  <2>1. {Event(s, "renew")} \in SUBSET [sub : {s}, kind : Kinds]
    BY DEF Event, Kinds
  <2> QED
    BY <1>3, <2>1, SendStep DEF Renew
<1>4. CASE End(s)
  <2>1. {Event(s, "end")} \in SUBSET [sub : {s}, kind : Kinds]
    BY DEF Event, Kinds
  <2> QED
    BY <1>4, <2>1, SendStep DEF End
<1> QED
  BY <1>1, <1>2, <1>3, <1>4

LEMMA Invariance == Spec => []Inv
<1>1. Inv /\ [Next]_vars => Inv'
  <2> SUFFICES ASSUME Inv, [Next]_vars PROVE Inv'
    OBVIOUS
  <2>1. ASSUME NEW r \in Requests, NEW s \in Subs, Checkout(r, s) PROVE Inv'
    BY <2>1, CheckoutStep
  <2>2. ASSUME NEW r \in Requests, NEW e \in Events, Webhook(r, e) PROVE Inv'
    BY <2>2, WebhookStep
  <2>3. ASSUME NEW r \in Requests, CheckoutFails(r) \/ WebhookFails(r) PROVE Inv'
    BY <2>3, RequestEnds
  <2>4. CASE UNCHANGED vars
    BY <2>4 DEF vars, provider, history, Inv, TypeOK, JobsInv, RowsInv, CountInv, StartedInv,
                PaidTierWasBought, Happened, EventId, Allowed
  <2> QED
    BY <2>1, <2>2, <2>3, <2>4, CheckoutCommitStep, WebhookReadsStep, WebhookCommitStep,
       RestartStep, ProviderStep DEF Next
<1> QED
  BY <1>1, InitInv, PTL DEF Spec

\* The tables and the requests hold what they should, in every reachable state.
THEOREM BillingTypes == Spec => []TypeOK
BY Invariance, PTL DEF Inv

\* An event's effects are committed once under each id it is recorded under:
\* once for Stripe, once per process for Razorpay (record_billing_event).
THEOREM EventsOnce == Spec => []OncePerId
<1>1. Inv => OncePerId
  BY DEF Inv, CountInv, OncePerId, Allowed
<1> QED
  BY <1>1, Invariance, PTL

\* No order of checkouts, webhooks and restarts gives a paid tier to somebody
\* who has not paid for a subscription of that plan.
THEOREM PaidTiersWereBought == Spec => []PaidTierWasBought
BY Invariance, PTL DEF Inv

-----------------------------------------------------------------------------
(* The tier that is paid for.  As long as no request commits over rows that  *)
(* were written since it read them, a commit's effect is that of a single    *)
(* step on the rows as they are; and when events are handled in their order, *)
(* the tier is that of the subscription the row names.                       *)

\* What a request has read still stands, unless it was overtaken; an event
\* that is handled has both rows read.
CurrentInv ==
    \A r \in Requests :
        /\ r \notin outdated =>
              /\ RowRead(request[r]) => request[r].row = row
              /\ TierRead(request[r]) => request[r].tier = tier
        /\ request[r].pc = "half" /\ ByUser(request[r].event) => request[r].tier # Unread
        /\ request[r].pc = "read" /\ request[r].tier = Unread => ~Known(request[r].event, request[r].row)

\* Only what is sent is handled, and a lapse is sent with the failure; the
\* tier changes in the commit that makes the row.
SentInv ==
    /\ row = Absent => tier = "free"
    /\ \A e \in Events : applied[e] > 0 => e \in sent
    /\ \A s \in Subs : Happened(s, "lapse") => Happened(s, "fail")
    /\ \A s \in RazorpaySubs : Happened(s, "start") => s \in opened

Names(s) == row # Absent /\ row.pid = s

\* A Razorpay checkout in progress: its subscription is new to the row, and
\* not paid, unless the request has been overtaken.
CheckoutInv ==
    /\ \A s \in RazorpaySubs : Names(s) => s \in opened
    /\ \A r \in Requests : request[r].pc = "checkout" /\ request[r].sub \in RazorpaySubs =>
          /\ request[r].sub \in opened
          /\ r \notin outdated => ~Names(request[r].sub) /\ applied[Event(request[r].sub, "start")] = 0

UnstaleInv == ~stale => CheckoutInv /\ TiersAgree

\* The paid tier's subscription is in the row and not ended, or the row names
\* a checkout that is not paid.
Sourced ==
    tier # "free" =>
        /\ row # Absent
        /\ \/ \E s \in Subs :
                 /\ PlanOf[s] = tier
                 /\ row.pid = s \/ (s \in StripeSubs /\ row.sid = s)
                 /\ applied[Event(s, "start")] > 0 /\ applied[Event(s, "end")] = 0
           \/ row.pid \in RazorpaySubs /\ applied[Event(row.pid, "start")] = 0

PaidUp(s) ==
    /\ applied[Event(s, "end")] = 0
    /\ \/ applied[Event(s, "fail")] = 0 /\ applied[Event(s, "lapse")] = 0
       \/ applied[Event(s, "renew")] > 0

\* The only subscription is the one the row is of, and gives the tier.
Only(s) ==
    (\A z \in Subs \ {s} : ~Happened(z, "start")) /\ applied[Event(s, "start")] > 0 =>
        /\ row # Absent
        /\ s \in StripeSubs => row.sid = s
        /\ PaidUp(s) => tier = PlanOf[s]

OrderInv == ~stale /\ ~disorder => Sourced /\ \A s \in Subs : Only(s)

TierInv == CurrentInv /\ SentInv /\ UnstaleInv /\ OrderInv


LEMMA NotUnread == Unread \notin Plans /\ Absent \notin Rows /\ Idle.pc = "idle"
BY BillingAssumption DEF BillingAssumption, Unread, Plans, Absent, Rows, Idle

LEMMA EventsAre ==
    /\ \A s \in Subs : \A k \in Kinds : Event(s, k) \in Events
    /\ \A e \in Events : e = Event(e.sub, e.kind) /\ e.sub \in Subs /\ e.kind \in Kinds
BY DEF Event, Events

LEMMA InitTierInv == Init => TierInv
<1> SUFFICES ASSUME Init PROVE TierInv
  OBVIOUS
<1>1. CurrentInv
  BY DEF Init, CurrentInv, RowRead, TierRead, Idle
<1>2. SentInv
  BY DEF Init, SentInv, Happened
<1>3. UnstaleInv
  <2>1. row # Absent => row.pid = None /\ row.plan = "free"
    BY DEF Init, NewRow
  <2>2. None \notin RazorpaySubs
    BY BillingAssumption DEF BillingAssumption, Subs
  <2>3. CheckoutInv
    BY <2>1, <2>2, NotUnread DEF Init, CheckoutInv, Names
  <2>4. TiersAgree
    BY <2>1 DEF Init, TiersAgree
  <2> QED
    BY <2>3, <2>4 DEF UnstaleInv
<1>4. OrderInv
  <2>1. Sourced
    BY DEF Init, Sourced
  <2>2. \A s \in Subs : Only(s)
    BY EventsAre DEF Init, Only, Kinds
  <2> QED
    BY <2>1, <2>2 DEF OrderInv
<1> QED
  BY <1>1, <1>2, <1>3, <1>4 DEF TierInv

\* Written over the row that was read, all of a row's columns are the new ones.
LEMMA WrittenWhole ==
    ASSUME NEW new \in Rows, row \in Rows \cup {Absent}, Write(row, new)
    PROVE  row' = new
<1>1. CASE row = Absent
  BY <1>1 DEF Write
<1>2. CASE row # Absent
  <2>1. row \in Rows /\ row' = Update(row, row, new)
    BY <1>2 DEF Write
  <2>2. row' = [c \in {"plan", "status", "pid", "sid"} |-> new[c]]
    BY <2>1 DEF Update
  <2> QED
    BY <2>2 DEF Rows
<1> QED
  BY <1>1, <1>2

\* A checkout that was not overtaken enters its subscription in the row as it is.
LEMMA CheckoutEffect ==
    ASSUME Inv, CurrentInv, NEW r \in Requests, CheckoutCommit(r), r \notin outdated
    PROVE  /\ request[r].sub \in Subs
           /\ row' = RowAfterCheckout(request[r].sub, GetOrCreate(row))
           /\ row' \in Rows
           /\ UNCHANGED <<tier, applied, opened, sent, disorder>>
<1> DEFINE new == RowAfterCheckout(request[r].sub, GetOrCreate(row))
<1>1. request[r].sub \in Subs /\ row \in Rows \cup {Absent}
  BY DEF Inv, TypeOK, Jobs, CheckoutCommit, Idle
<1>2. request[r].row = row
  BY DEF CurrentInv, RowRead, CheckoutCommit
<1>3. new \in Rows
  BY <1>1, RowAfterCheckoutIsRow
<1>4. Write(row, new)
  BY <1>2 DEF CheckoutCommit
<1>5. row' = new
  <2> HIDE DEF new
  <2> QED
    BY <1>1, <1>3, <1>4, WrittenWhole
<1> QED
  BY <1>1, <1>3, <1>5 DEF CheckoutCommit, provider

\* And a webhook has the effect of its event on both rows as they are.
LEMMA WebhookEffect ==
    ASSUME Inv, CurrentInv, NEW r \in Requests, WebhookCommit(r), r \notin outdated,
           NEW e, e = request[r].event
    PROVE  /\ e \in Events /\ e \in sent
           /\ Known(e, row) => /\ row' = RowAfter(e, GetOrCreate(row)) /\ row' \in Rows
                               /\ tier' = TierAfter(e, tier)
           /\ ~Known(e, row) => row' = row /\ tier' = tier
           /\ applied' = [applied EXCEPT ![e] = applied[e] + 1]
           /\ disorder' = (disorder \/ ~InOrder(e))
           /\ UNCHANGED <<opened, sent>>
<1> DEFINE job == request[r]
<1>1. e \in Events /\ e \in sent /\ job.pc = "read"
  BY WebhookJob DEF WebhookCommit
<1>2. row \in Rows \cup {Absent}
  BY DEF Inv, TypeOK
<1>3. job.row = row
  BY <1>1 DEF CurrentInv, RowRead
<1>4. Known(e, row) => job.tier = tier
  BY <1>1, <1>3 DEF CurrentInv, TierRead
<1>5. ASSUME Known(e, row)
      PROVE  row' = RowAfter(e, GetOrCreate(row)) /\ row' \in Rows /\ tier' = TierAfter(e, tier)
  <2> DEFINE new == RowAfter(e, GetOrCreate(row))
  <2>1. Write(row, new) /\ tier' = UpdateTier(tier, tier, TierAfter(e, tier))
    BY <1>3, <1>4, <1>5 DEF WebhookCommit
  <2>2. new \in Rows
    BY <1>1, <1>2, <1>5, RowAfterIsRow
  <2>3. row' = new
    <3> HIDE DEF new
    <3> QED
      BY <1>2, <2>1, <2>2, WrittenWhole
  <2> QED
    BY <2>1, <2>2, <2>3 DEF UpdateTier
<1>6. ~Known(e, row) => row' = row /\ tier' = tier
  BY <1>3 DEF WebhookCommit
<1>7. applied' = [applied EXCEPT ![e] = applied[e] + 1] /\ disorder' = (disorder \/ ~InOrder(e))
  BY DEF WebhookCommit
<1> QED
  BY <1>1, <1>5, <1>6, <1>7 DEF WebhookCommit, provider

\* A request that ends leaves the others' reads current, or marks them outdated.
LEMMA EndsCurrent ==
    ASSUME Inv, CurrentInv, NEW r \in Requests, Ends(r)
    PROVE  CurrentInv'
<1> SUFFICES ASSUME NEW q \in Requests
             PROVE  /\ q \notin outdated' =>
                          /\ RowRead(request'[q]) => request'[q].row = row'
                          /\ TierRead(request'[q]) => request'[q].tier = tier'
                    /\ request'[q].pc = "half" /\ ByUser(request'[q].event) => request'[q].tier # Unread
                    /\ request'[q].pc = "read" /\ request'[q].tier = Unread
                          => ~Known(request'[q].event, request'[q].row)
  BY DEF CurrentInv, RowRead, TierRead, ByUser, Known
<1>1. CASE q = r
  <2>1. request'[q].pc = "idle"
    BY <1>1, NotUnread DEF Ends, Become, Inv, TypeOK
  <2> QED
    BY <2>1 DEF RowRead, TierRead
<1>2. CASE q # r
  <2>1. request'[q] = request[q]
    BY <1>2 DEF Ends, Become, Inv, TypeOK
  <2>2. q \notin outdated' => /\ q \notin outdated
                              /\ RowRead(request[q]) => row' = row
                              /\ TierRead(request[q]) => tier' = tier
    BY <1>2 DEF Ends
  <2>3. /\ q \notin outdated =>
              /\ RowRead(request[q]) => request[q].row = row
              /\ TierRead(request[q]) => request[q].tier = tier
        /\ request[q].pc = "half" /\ ByUser(request[q].event) => request[q].tier # Unread
        /\ request[q].pc = "read" /\ request[q].tier = Unread
              => ~Known(request[q].event, request[q].row)
    BY DEF CurrentInv
  <2> QED
    BY <2>1, <2>2, <2>3
<1> QED
  BY <1>1, <1>2

\* A request that takes a step without writing has what it read from the rows
\* as they are.
LEMMA ReadsCurrent ==
    ASSUME Inv, CurrentInv, NEW r \in Requests, NEW job, Become(r, job),
           UNCHANGED <<row, tier, outdated>>,
           r \notin outdated =>
              /\ RowRead(job) => job.row = row
              /\ TierRead(job) => job.tier = tier,
           job.pc = "half" /\ ByUser(job.event) => job.tier # Unread,
           job.pc = "read" /\ job.tier = Unread => ~Known(job.event, job.row)
    PROVE  CurrentInv'
<1> SUFFICES ASSUME NEW q \in Requests
             PROVE  /\ q \notin outdated =>
                          /\ RowRead(request'[q]) => request'[q].row = row
                          /\ TierRead(request'[q]) => request'[q].tier = tier
                    /\ request'[q].pc = "half" /\ ByUser(request'[q].event) => request'[q].tier # Unread
                    /\ request'[q].pc = "read" /\ request'[q].tier = Unread
                          => ~Known(request'[q].event, request'[q].row)
  BY DEF CurrentInv, RowRead, TierRead, ByUser, Known
<1>1. CASE q = r
  <2>1. request'[q] = job
    BY <1>1 DEF Become, Inv, TypeOK
  <2> QED
    BY <1>1, <2>1
<1>2. CASE q # r
  <2>1. request'[q] = request[q]
    BY <1>2 DEF Become, Inv, TypeOK
  <2> QED
    BY <2>1 DEF CurrentInv
<1> QED
  BY <1>1, <1>2

\* Rows and counts that stand keep what is said of them, whatever is sent.
LEMMA RowsStand ==
    ASSUME TierInv, UNCHANGED <<row, tier, applied, stale, disorder>>, sent \subseteq sent'
    PROVE  (~stale' => TiersAgree') /\ OrderInv'
<1>1. ~stale' => TiersAgree'
  BY DEF TierInv, UnstaleInv, TiersAgree
<1>2. OrderInv'
  <2> SUFFICES ASSUME ~stale', ~disorder' PROVE Sourced' /\ \A s \in Subs : Only(s)'
    BY DEF OrderInv
  <2>1. Sourced /\ \A s \in Subs : Only(s)
    BY DEF TierInv, OrderInv
  <2>2. Sourced'
    BY <2>1 DEF Sourced
  <2>3. ASSUME NEW s \in Subs PROVE Only(s)'
    <3>1. (\A z \in Subs \ {s} : ~Happened(z, "start"))' => \A z \in Subs \ {s} : ~Happened(z, "start")
      BY DEF Happened
    <3>2. PaidUp(s)' <=> PaidUp(s)
      BY DEF PaidUp
    <3> QED
      BY <2>1, <3>1, <3>2 DEF Only
  <2> QED
    BY <2>2, <2>3
<1> QED
  BY <1>1, <1>2

\* Requests that go on, and subscriptions that stay open, keep the checkouts.
LEMMA CheckoutsStand ==
    ASSUME Inv, CheckoutInv, UNCHANGED <<row, applied>>,
           \A s \in RazorpaySubs : s \in opened => s \in opened',
           \A q \in Requests : request'[q].pc = "checkout" =>
               request'[q] = request[q] /\ (q \in outdated => q \in outdated')
    PROVE  CheckoutInv'
BY DEF CheckoutInv, Names

LEMMA CheckoutTier ==
    ASSUME Inv, TierInv, NEW r \in Requests, NEW s \in Subs, Checkout(r, s)
    PROVE  TierInv'
<1> DEFINE job == [pc |-> "checkout", sub |-> s, row |-> row]
<1>1. /\ Become(r, job) /\ s \notin opened /\ opened' = opened \cup {s}
      /\ UNCHANGED <<row, tier, sent, applied, outdated, stale, disorder>>
  BY DEF Checkout, history
<1>2. CurrentInv'
  BY <1>1, ReadsCurrent DEF TierInv, RowRead, TierRead
<1>3. SentInv'
  BY <1>1 DEF TierInv, SentInv, Happened
<1>4. UnstaleInv'
  <2> SUFFICES ASSUME ~stale' PROVE CheckoutInv' /\ TiersAgree'
    BY DEF UnstaleInv
  <2>1. CheckoutInv
    BY <1>1 DEF TierInv, UnstaleInv
  <2>2. \A z \in RazorpaySubs : Names(z)' => z \in opened'
    BY <1>1, <2>1 DEF CheckoutInv, Names
  <2>3. ASSUME NEW q \in Requests, request'[q].pc = "checkout", request'[q].sub \in RazorpaySubs
        PROVE  /\ request'[q].sub \in opened'
               /\ q \notin outdated' => /\ ~(row' # Absent /\ row'.pid = request'[q].sub)
                                        /\ applied'[Event(request'[q].sub, "start")] = 0
    <3>1. CASE q = r
      <4>1. request'[q].sub = s
        BY <1>1, <3>1 DEF Become, Inv, TypeOK
      <4>2. s \in RazorpaySubs /\ Event(s, "start") \in Events
        BY <2>3, <4>1, EventsAre DEF Kinds
      <4>3. ~Names(s)
        BY <1>1, <2>1, <4>2 DEF CheckoutInv
      <4>4. ~Happened(s, "start")
        BY <1>1, <4>2 DEF TierInv, SentInv
      <4>5. applied[Event(s, "start")] = 0
        BY <4>2, <4>4 DEF TierInv, SentInv, Happened, Inv, TypeOK
      <4> QED
        BY <1>1, <4>1, <4>3, <4>5 DEF Names
    <3>2. CASE q # r
      <4>1. request'[q] = request[q]
        BY <1>1, <3>2 DEF Become, Inv, TypeOK
      <4> QED
        BY <1>1, <2>1, <2>3, <4>1 DEF CheckoutInv, Names
    <3> QED
      BY <3>1, <3>2
  <2>4. CheckoutInv'
    BY <2>2, <2>3 DEF CheckoutInv, Names
  <2>5. TiersAgree'
    BY <1>1, RowsStand
  <2> QED
    BY <2>4, <2>5
<1>5. OrderInv'
  BY <1>1, RowsStand
<1> QED
  BY <1>2, <1>3, <1>4, <1>5 DEF TierInv

LEMMA WebhookTier ==
    ASSUME Inv, TierInv, NEW r \in Requests,
           (\E e \in Events : Webhook(r, e)) \/ WebhookReads(r)
    PROVE  TierInv'
<1>1. UNCHANGED <<row, tier, opened, sent, applied, outdated, stale, disorder>>
  BY DEF Webhook, WebhookReads, provider, history
<1>2. tier # Unread
  BY NotUnread DEF Inv, TypeOK
<1>3. CurrentInv'
  <2>1. ASSUME NEW e \in Events, Webhook(r, e) PROVE CurrentInv'
    <3> DEFINE job == [pc   |-> IF Known(e, row) THEN "half" ELSE "read",
                       event |-> e,
                       id   |-> EventId(e),
                       row  |-> IF ByUser(e) THEN Absent ELSE row,
                       tier |-> IF ByUser(e) THEN tier ELSE Unread]
    <3>1. Become(r, job)
      BY <2>1 DEF Webhook
    <3>2. RowRead(job) => job.row = row
      BY DEF RowRead, Known
    <3>3. TierRead(job) => job.tier = tier
      BY DEF TierRead
    <3>4. job.pc = "half" /\ ByUser(job.event) => job.tier # Unread
      BY <1>2
    <3>5. job.pc = "read" => ~Known(job.event, job.row)
      BY DEF Known
    <3> HIDE DEF job
    <3> QED
      BY <1>1, <3>1, <3>2, <3>3, <3>4, <3>5, ReadsCurrent DEF TierInv
  <2>2. ASSUME WebhookReads(r) PROVE CurrentInv'
    <3> DEFINE old == request[r]
               job == IF ByUser(old.event) THEN [old EXCEPT !.pc = "read", !.row = row]
                                           ELSE [old EXCEPT !.pc = "read", !.tier = tier]
    <3>1. Become(r, job) /\ old.pc = "half"
      BY <2>2 DEF WebhookReads
    <3>2. old \in [pc : {"half", "read"}, event : Events, id : Ids,
                   row : Rows \cup {Absent}, tier : Plans \cup {Unread}]
      BY <3>1, WebhookJob
    <3>3. /\ r \notin outdated =>
                /\ RowRead(old) => old.row = row
                /\ TierRead(old) => old.tier = tier
          /\ ByUser(old.event) => old.tier # Unread
      BY <3>1 DEF TierInv, CurrentInv
    <3>4. CASE ByUser(old.event)
      <4>1. job.pc = "read" /\ job.event = old.event /\ job.row = row /\ job.tier = old.tier
        BY <3>2, <3>4
      <4>2. r \notin outdated => job.tier = tier
        BY <3>1, <3>3, <3>4, <4>1 DEF TierRead
      <4> HIDE DEF job, old
      <4> QED
        BY <1>1, <3>1, <3>3, <3>4, <4>1, <4>2, ReadsCurrent DEF TierInv
    <3>5. CASE ~ByUser(old.event)
      <4>1. job.pc = "read" /\ job.event = old.event /\ job.row = old.row /\ job.tier = tier
        BY <3>2, <3>5
      <4>2. r \notin outdated => job.row = row
        BY <3>1, <3>3, <3>5, <4>1 DEF RowRead
      <4> HIDE DEF job, old
      <4> QED
        BY <1>1, <1>2, <3>1, <4>1, <4>2, ReadsCurrent DEF TierInv
    <3> QED
      BY <3>4, <3>5
  <2> QED
    BY <2>1, <2>2
<1>4. SentInv'
  BY <1>1 DEF TierInv, SentInv, Happened
<1>5. \A q \in Requests : request'[q].pc = "checkout" => request'[q] = request[q]
  <2> SUFFICES ASSUME NEW q \in Requests, q = r PROVE request'[q].pc # "checkout"
    BY DEF Webhook, WebhookReads, Become, Inv, TypeOK
  <2>1. CASE \E e \in Events : Webhook(r, e)
    BY <2>1 DEF Webhook, Become, Inv, TypeOK
  <2>2. CASE WebhookReads(r)
    <3>1. request[r] \in [pc : {"half", "read"}, event : Events, id : Ids,
                          row : Rows \cup {Absent}, tier : Plans \cup {Unread}]
      BY <2>2, WebhookJob DEF WebhookReads
    <3> QED
      BY <2>2, <3>1 DEF WebhookReads, Become, Inv, TypeOK
  <2> QED
    BY <2>1, <2>2
<1>6. UnstaleInv' /\ OrderInv'
  <2>1. (~stale' => TiersAgree') /\ OrderInv'
    BY <1>1, RowsStand
  <2>2. ~stale' => CheckoutInv'
    BY <1>1, <1>5, CheckoutsStand DEF TierInv, UnstaleInv
  <2> QED
    BY <2>1, <2>2 DEF UnstaleInv
<1> QED
  BY <1>3, <1>4, <1>6 DEF TierInv

LEMMA FailsTier ==
    ASSUME Inv, TierInv, NEW r \in Requests, CheckoutFails(r) \/ WebhookFails(r)
    PROVE  TierInv'
<1>1. Ends(r) /\ UNCHANGED <<row, tier, sent, applied, stale, disorder>>
  BY DEF CheckoutFails, WebhookFails, provider
<1>2. \A s \in RazorpaySubs : s \in opened => s \in opened'
  BY BillingAssumption DEF BillingAssumption, CheckoutFails, WebhookFails, provider
<1>3. CurrentInv'
  BY <1>1, EndsCurrent DEF TierInv
<1>4. SentInv'
  BY <1>1, <1>2 DEF TierInv, SentInv, Happened
<1>5. \A q \in Requests : request'[q].pc = "checkout" =>
          request'[q] = request[q] /\ (q \in outdated => q \in outdated')
  <2> SUFFICES ASSUME NEW q \in Requests, request'[q].pc = "checkout"
               PROVE  request'[q] = request[q] /\ (q \in outdated => q \in outdated')
    OBVIOUS
  <2>1. q # r
    BY <1>1, NotUnread DEF Ends, Become, Inv, TypeOK
  <2> QED
    BY <1>1, <2>1 DEF Ends, Become, Inv, TypeOK
<1>6. (~stale' => TiersAgree') /\ OrderInv'
  BY <1>1, RowsStand
<1>7. ~stale' => CheckoutInv'
  BY <1>1, <1>2, <1>5, CheckoutsStand DEF TierInv, UnstaleInv
<1> QED
  BY <1>3, <1>4, <1>6, <1>7 DEF TierInv, UnstaleInv

LEMMA RestartTier ==
    ASSUME Inv, TierInv, Restart
    PROVE  TierInv'
<1>1. /\ UNCHANGED <<row, tier, opened, sent, applied, stale, disorder>>
      /\ \A q \in Requests : request'[q].pc = "idle"
  BY NotUnread DEF Restart, provider
<1>2. CurrentInv'
  BY <1>1 DEF CurrentInv, RowRead, TierRead
<1>3. SentInv'
  BY <1>1 DEF TierInv, SentInv, Happened
<1>4. (~stale' => TiersAgree') /\ OrderInv'
  BY <1>1, RowsStand
<1>5. ~stale' => CheckoutInv'
  BY <1>1, CheckoutsStand DEF TierInv, UnstaleInv
<1> QED
  BY <1>2, <1>3, <1>4, <1>5 DEF TierInv, UnstaleInv

LEMMA SendTier ==
    ASSUME Inv, TierInv, NEW es \in SUBSET Events, Send(es),
           \A s \in Subs : Event(s, "lapse") \in es => Event(s, "fail") \in es,
           \A s \in RazorpaySubs : Event(s, "start") \in es => s \in opened
    PROVE  TierInv'
<1>1. sent' = sent \cup es /\ UNCHANGED <<row, tier, request, opened, applied, outdated, stale, disorder>>
  BY DEF Send, history
<1>2. CurrentInv'
  BY <1>1 DEF TierInv, CurrentInv, RowRead, TierRead, ByUser, Known
<1>3. SentInv'
  BY <1>1 DEF TierInv, SentInv, Happened
<1>4. (~stale' => TiersAgree') /\ OrderInv'
  BY <1>1, RowsStand
<1>5. ~stale' => CheckoutInv'
  BY <1>1, CheckoutsStand DEF TierInv, UnstaleInv
<1> QED
  BY <1>2, <1>3, <1>4, <1>5 DEF TierInv, UnstaleInv

LEMMA ProviderTier ==
    ASSUME Inv, TierInv, NEW s \in Subs, Pay(s) \/ Lapse(s) \/ Renew(s) \/ End(s)
    PROVE  TierInv'
<1>1. CASE Pay(s)
  <2>1. s \in opened /\ Send({Event(s, "start")}) /\ {Event(s, "start")} \in SUBSET Events
    BY <1>1, EventsAre DEF Pay, Kinds
  <2> QED
    BY <2>1, SendTier DEF Event
<1>2. CASE Lapse(s)
  <2> DEFINE es == {Event(s, "fail")} \cup IF s \in StripeSubs THEN {Event(s, "lapse")} ELSE {}
  <2>1. Send(es) /\ es \in SUBSET Events
    BY <1>2, EventsAre DEF Lapse, Kinds
  <2>2. \A z \in Subs : Event(z, "lapse") \in es => Event(z, "fail") \in es
    BY DEF Event
  <2>3. \A z \in RazorpaySubs : Event(z, "start") \notin es
    BY DEF Event
  <2> HIDE DEF es
  <2> QED
    BY <2>1, <2>2, <2>3, SendTier
<1>3. CASE Renew(s)
  <2>1. Send({Event(s, "renew")}) /\ {Event(s, "renew")} \in SUBSET Events
    BY <1>3, EventsAre DEF Renew, Kinds
  <2> QED
    BY <2>1, SendTier DEF Event
<1>4. CASE End(s)
  <2>1. Send({Event(s, "end")}) /\ {Event(s, "end")} \in SUBSET Events
    BY <1>4, EventsAre DEF End, Kinds
  <2> QED
    BY <2>1, SendTier DEF Event
<1> QED
  BY <1>1, <1>2, <1>3, <1>4

\* Both commits count one more event or none, of those that were sent.
LEMMA CommitStand ==
    ASSUME Inv, TierInv, NEW r \in Requests, CheckoutCommit(r) \/ WebhookCommit(r)
    PROVE  CurrentInv' /\ SentInv'
<1>1. Ends(r) /\ UNCHANGED <<opened, sent>>
  BY DEF CheckoutCommit, WebhookCommit, provider
<1>2. CurrentInv'
  BY <1>1, EndsCurrent DEF TierInv
<1>3. row' = Absent => tier' = "free"
  <2>1. CASE CheckoutCommit(r)
    <3>1. row' = Absent => row = Absent
      <4>1. request[r].row \in Rows \cup {Absent} /\ request[r].sub \in Subs
        BY <2>1 DEF CheckoutCommit, Inv, TypeOK, Jobs, Idle
      <4>2. request[r].row # Absent => row # Absent
        BY <2>1 DEF CheckoutCommit, Inv, RowsInv
      <4>3. RowAfterCheckout(request[r].sub, GetOrCreate(request[r].row)) \in Rows
        BY <4>1, RowAfterCheckoutIsRow
      <4>4. row' \in Rows
        <5> DEFINE read == request[r].row
                   new == RowAfterCheckout(request[r].sub, GetOrCreate(request[r].row))
        <5>1. ~Collides(read) /\ Write(read, new) /\ row \in Rows \cup {Absent}
          BY <2>1 DEF CheckoutCommit, Inv, TypeOK
        <5> HIDE DEF read, new
        <5> QED
          BY <4>1, <4>2, <4>3, <5>1, RowIsWritten DEF read, new
      <4> QED
        BY <4>4, NotUnread
    <3> QED
      BY <2>1, <3>1 DEF CheckoutCommit, TierInv, SentInv
  <2>2. CASE WebhookCommit(r)
    <3>1. row' = Absent => row = Absent
      BY <2>2, CommittedRows
    <3>2. CASE Known(request[r].event, request[r].row)
      <4> DEFINE read == request[r].row
                 new == RowAfter(request[r].event, GetOrCreate(read))
      <4>1. request[r].event \in Events /\ read \in Rows \cup {Absent} /\ (read # Absent => row # Absent)
        BY <2>2, WebhookJob DEF WebhookCommit
      <4>2. new \in Rows
        BY <3>2, <4>1, RowAfterIsRow
      <4>3. ~Collides(read) /\ Write(read, new) /\ row \in Rows \cup {Absent}
        BY <2>2, <3>2 DEF WebhookCommit, Inv, TypeOK
      <4>4. row' \in Rows
        <5> HIDE DEF read, new
        <5> QED
          BY <4>1, <4>2, <4>3, RowIsWritten
      <4> QED
        BY <4>4, NotUnread
    <3>3. CASE ~Known(request[r].event, request[r].row)
      BY <2>2, <3>3 DEF WebhookCommit, TierInv, SentInv
    <3> QED
      BY <3>2, <3>3
  <2> QED
    BY <2>1, <2>2
<1>4. \A e \in Events : applied'[e] > 0 => e \in sent'
  <2>1. CASE CheckoutCommit(r)
    BY <1>1, <2>1 DEF CheckoutCommit, TierInv, SentInv
  <2>2. CASE WebhookCommit(r)
    <3>1. request[r].event \in sent
      BY <2>2, WebhookJob DEF WebhookCommit
    <3>2. applied' = [applied EXCEPT ![request[r].event] = @ + 1]
      BY <2>2 DEF WebhookCommit
    <3> QED
      BY <1>1, <3>1, <3>2 DEF TierInv, SentInv, Inv, TypeOK
  <2> QED
    BY <2>1, <2>2
<1>5. SentInv'
  BY <1>1, <1>3, <1>4 DEF TierInv, SentInv, Happened
<1> QED
  BY <1>2, <1>5

\* The checkouts in progress, when another request has written the row of its
\* own checkout or of its event.
LEMMA CheckoutsAfterWrite ==
    ASSUME Inv, CheckoutInv, NEW r \in Requests, Ends(r), opened' = opened,
           \A s \in RazorpaySubs : Names(s)' => s \in opened,
           \A s \in RazorpaySubs :
               row' = row /\ ~Names(s) /\ applied[Event(s, "start")] = 0 => applied'[Event(s, "start")] = 0
    PROVE  CheckoutInv'
<1> SUFFICES ASSUME NEW q \in Requests, request'[q].pc = "checkout", request'[q].sub \in RazorpaySubs
             PROVE  /\ request'[q].sub \in opened'
                    /\ q \notin outdated' => /\ ~(row' # Absent /\ row'.pid = request'[q].sub)
                                             /\ applied'[Event(request'[q].sub, "start")] = 0
  BY DEF CheckoutInv, Names
<1>1. q # r
  BY NotUnread DEF Ends, Become, Inv, TypeOK
<1>2. request'[q] = request[q]
  BY <1>1 DEF Ends, Become, Inv, TypeOK
<1>3. q \notin outdated' => q \notin outdated /\ row' = row
  BY <1>1, <1>2 DEF Ends, RowRead
<1> QED
  BY <1>2, <1>3 DEF CheckoutInv, Names

LEMMA CheckoutCommitTier ==
    ASSUME Inv, TierInv, NEW r \in Requests, CheckoutCommit(r)
    PROVE  TierInv'
<1> DEFINE s == request[r].sub
<1>1. CurrentInv' /\ SentInv'
  BY CommitStand
<1>2. SUFFICES ASSUME ~stale' PROVE CheckoutInv' /\ TiersAgree' /\ (~disorder' => Sourced' /\ \A z \in Subs : Only(z)')
  BY <1>1 DEF TierInv, UnstaleInv, OrderInv
<1>3. /\ request[r].pc = "checkout" /\ ~stale /\ r \notin outdated /\ Ends(r)
      /\ CheckoutInv /\ TiersAgree
      /\ disorder' = disorder
  BY <1>2 DEF CheckoutCommit, TierInv, UnstaleInv
<1>4. /\ s \in Subs
      /\ row' = RowAfterCheckout(s, GetOrCreate(row))
      /\ row' \in Rows
      /\ UNCHANGED <<tier, applied, opened, sent>>
  BY <1>3, CheckoutEffect DEF TierInv
<1>5. row' # Absent /\ row \in Rows \cup {Absent}
  BY <1>4, NotUnread DEF Inv, TypeOK
<1>6. CASE s \in RazorpaySubs
  <2>1. row'.pid = s /\ row'.plan = PlanOf[s] /\ (row # Absent => row'.sid = row.sid)
    BY <1>4, <1>5, <1>6 DEF RowAfterCheckout, GetOrCreate, NewRow, Rows
  <2>2. s \in opened /\ applied[Event(s, "start")] = 0
    BY <1>3, <1>6 DEF CheckoutInv
  <2> HIDE DEF s
  <2>3. CheckoutInv'
    BY <1>3, <1>4, <2>1, <2>2, CheckoutsAfterWrite DEF Names
  <2>4. TiersAgree'
    BY <1>4, <1>6, <2>1, <2>2 DEF TiersAgree
  <2>5. Sourced'
    BY <1>4, <1>5, <1>6, <2>1, <2>2 DEF Sourced
  <2>6. ASSUME ~disorder', NEW z \in Subs PROVE Only(z)'
    <3>1. Only(z)
      BY <1>3, <2>6 DEF TierInv, OrderInv
    <3>2. Happened(z, "start")' = Happened(z, "start") /\ PaidUp(z)' = PaidUp(z)
          /\ (\A y \in Subs \ {z} : ~Happened(y, "start"))' = (\A y \in Subs \ {z} : ~Happened(y, "start"))
      BY <1>4 DEF Happened, PaidUp
    <3> QED
      BY <1>4, <1>5, <2>1, <3>1, <3>2 DEF Only
  <2> QED
    BY <2>3, <2>4, <2>5, <2>6
<1>7. CASE s \notin RazorpaySubs
  <2>1. row' = GetOrCreate(row)
    BY <1>4, <1>7 DEF RowAfterCheckout
  <2>2. CASE row # Absent
    <3>1. row' = row
      BY <2>1, <2>2 DEF GetOrCreate
    <3>2. CheckoutInv'
      BY <1>3, <1>4, <3>1, CheckoutsAfterWrite DEF Names, CheckoutInv
    <3>3. UNCHANGED <<row, tier, applied, stale, disorder>> /\ sent \subseteq sent'
      BY <1>2, <1>3, <1>4, <3>1 DEF CheckoutCommit, Inv, TypeOK
    <3> QED
      BY <1>2, <3>2, <3>3, RowsStand DEF OrderInv
  <2>3. CASE row = Absent
    <3>1. row' = NewRow /\ tier' = "free"
      BY <1>4, <2>1, <2>3 DEF GetOrCreate, TierInv, SentInv
    <3>2. row'.pid \notin RazorpaySubs /\ row'.plan = "free"
      BY <3>1, BillingAssumption DEF BillingAssumption, NewRow, Subs
    <3>3. CheckoutInv'
      BY <1>3, <1>4, <3>2, CheckoutsAfterWrite DEF Names
    <3>4. TiersAgree' /\ Sourced'
      BY <3>1, <3>2 DEF TiersAgree, Sourced
    <3>5. ASSUME ~disorder', NEW z \in Subs PROVE Only(z)'
      <4>1. Only(z)
        BY <1>3, <3>5 DEF TierInv, OrderInv
      <4>2. (\A y \in Subs \ {z} : ~Happened(y, "start"))' = (\A y \in Subs \ {z} : ~Happened(y, "start"))
        BY <1>4 DEF Happened
      <4> QED
        BY <1>4, <2>3, <4>1, <4>2 DEF Only
    <3> QED
      BY <3>3, <3>4, <3>5
  <2> QED
    BY <2>2, <2>3
<1> QED
  BY <1>6, <1>7

LEMMA EventsDiffer ==
    ASSUME NEW e \in Events, NEW s, NEW k, Event(s, k) \in Events
    PROVE  /\ e # Event(s, k) => e.sub # s \/ e.kind # k
           /\ Event(s, k).sub = s /\ Event(s, k).kind = k
BY DEF Event, Events

\* The counts after a commit, and what is known of the other events of the
\* subscription when the event came in its order.
LEMMA CountsAfter ==
    ASSUME Inv, TierInv, NEW e \in Events, e \in sent,
           applied' = [applied EXCEPT ![e] = applied[e] + 1]
    PROVE  /\ \A s \in Subs : \A k \in Kinds :
                 /\ e.sub = s /\ e.kind = k => applied'[Event(s, k)] > 0
                 /\ ~(e.sub = s /\ e.kind = k) => applied'[Event(s, k)] = applied[Event(s, k)]
           /\ e.sub \in Subs
           /\ Happened(e.sub, "start")
           /\ InOrder(e) =>
                 /\ e.kind # "start" => applied[Event(e.sub, "start")] > 0
                 /\ e.kind # "end" => applied[Event(e.sub, "end")] = 0
                 /\ e.kind \in {"fail", "lapse"} => applied[Event(e.sub, "renew")] = 0
<1>1. \A s \in Subs : \A k \in Kinds : Event(s, k) \in Events
  BY EventsAre
<1>2. applied \in [Events -> Nat]
  BY DEF Inv, TypeOK
<1>3. ASSUME NEW s \in Subs, NEW k \in Kinds
      PROVE  /\ e.sub = s /\ e.kind = k => applied'[Event(s, k)] > 0
             /\ ~(e.sub = s /\ e.kind = k) => applied'[Event(s, k)] = applied[Event(s, k)]
  <2>1. (e.sub = s /\ e.kind = k) <=> e = Event(s, k)
    BY <1>1, EventsAre, EventsDiffer
  <2> QED
    BY <1>1, <1>2, <2>1
<1>4. e.sub \in Subs /\ e.kind \in Kinds
  BY EventsAre
<1>5. Happened(e.sub, "start")
  BY DEF Inv, StartedInv
<1>6. ASSUME InOrder(e)
      PROVE  /\ e.kind # "start" => applied[Event(e.sub, "start")] > 0
             /\ e.kind # "end" => applied[Event(e.sub, "end")] = 0
             /\ e.kind \in {"fail", "lapse"} => applied[Event(e.sub, "renew")] = 0
  <2>1. \A k \in Kinds : Event(e.sub, k).sub = e.sub /\ Event(e.sub, k).kind = k
    BY DEF Event
  <2>2. \A k \in Kinds : applied[Event(e.sub, k)] = 0 \/ Event(e.sub, k) \in sent
    BY <1>1, <1>2, <1>4 DEF TierInv, SentInv
  <2>3. e.kind # "start" => applied[Event(e.sub, "start")] > 0
    <3>1. Event(e.sub, "start") \in sent
      BY <1>5 DEF Happened
    <3>2. e.kind # "start" => Rank(Event(e.sub, "start")) < Rank(e)
      BY <1>4, <2>1 DEF Rank, Kinds
    <3> QED
      BY <1>6, <2>1, <3>1, <3>2 DEF InOrder, Kinds
  <2>4. e.kind # "end" => applied[Event(e.sub, "end")] = 0
    <3>1. e.kind # "end" => Rank(Event(e.sub, "end")) > Rank(e)
      BY <1>4, <2>1 DEF Rank, Kinds
    <3> QED
      BY <1>6, <2>1, <2>2, <3>1 DEF InOrder, Kinds
  <2>5. e.kind \in {"fail", "lapse"} => applied[Event(e.sub, "renew")] = 0
    <3>1. e.kind \in {"fail", "lapse"} => Rank(Event(e.sub, "renew")) > Rank(e)
      BY <1>4, <2>1 DEF Rank, Kinds
    <3> QED
      BY <1>6, <2>1, <2>2, <3>1 DEF InOrder, Kinds
  <2> QED
    BY <2>3, <2>4, <2>5
<1> QED
  BY <1>3, <1>4, <1>5, <1>6

\* The rows after an event that was handled over the rows as they are.
LEMMA RowsAfter ==
    ASSUME Inv, TierInv, NEW r \in Requests, WebhookCommit(r), r \notin outdated,
           NEW e, e = request[r].event
    PROVE  /\ e \in Events /\ e \in sent /\ e.kind \in Kinds
           /\ row # Absent => row' # Absent
           /\ Known(e, row) /\ row # Absent /\ ~ByUser(e) => row'.pid = row.pid /\ row'.sid = row.sid
           /\ Known(e, row) /\ row # Absent /\ ByUser(e) => e.sub \in StripeSubs \/ row'.sid = row.sid
           /\ ByUser(e) => Known(e, row) /\ row'.pid = e.sub /\ (e.sub \in StripeSubs => row'.sid = e.sub)
           /\ Known(e, row) => row' # Absent
           /\ Known(e, row) /\ e.kind = "fail" => row # Absent /\ row'.plan = row.plan /\ tier' = tier
           /\ Known(e, row) /\ e.kind # "fail" => row'.plan = PlanAfter(e) /\ tier' = PlanAfter(e)
           /\ ~Known(e, row) => row' = row /\ tier' = tier
<1>1. /\ e \in Events /\ e \in sent
      /\ Known(e, row) => /\ row' = RowAfter(e, GetOrCreate(row)) /\ row' \in Rows
                          /\ tier' = TierAfter(e, tier)
      /\ ~Known(e, row) => row' = row /\ tier' = tier
  BY WebhookEffect DEF TierInv
<1>2. e.kind \in Kinds
  BY <1>1, EventsAre
<1>3. Known(e, row) => row' # Absent
  BY <1>1, NotUnread
<1>4. ByUser(e) => Known(e, row)
  BY DEF Known
<1>5. Known(e, row) => /\ row'.pid = IF ByUser(e) THEN e.sub ELSE GetOrCreate(row).pid
                       /\ row'.sid = IF ByUser(e) /\ e.sub \in StripeSubs THEN e.sub ELSE GetOrCreate(row).sid
                       /\ row'.plan = IF e.kind = "fail" THEN GetOrCreate(row).plan ELSE PlanAfter(e)
  BY <1>1 DEF RowAfter
<1>6. row # Absent => GetOrCreate(row) = row
  BY DEF GetOrCreate
<1>7. Known(e, row) /\ e.kind = "fail" => row # Absent
  BY DEF Known, ByUser
<1>8. Known(e, row) => tier' = IF e.kind = "fail" THEN tier ELSE PlanAfter(e)
  BY <1>1 DEF TierAfter
<1> QED
  BY <1>1, <1>2, <1>3, <1>4, <1>5, <1>6, <1>7, <1>8

LEMMA KindsAre ==
    /\ \A e : e.kind = "start" => ByUser(e)
    /\ \A e \in Events : /\ e.kind \in {"fail", "lapse", "end"} => ~ByUser(e)
                         /\ e.kind \in {"start", "renew"} => PlanAfter(e) = PlanOf[e.sub]
                         /\ e.kind \in {"lapse", "end"} => PlanAfter(e) = "free"
                         /\ e.kind = "renew" /\ e.sub \in RazorpaySubs => ByUser(e)
BY DEF ByUser, PlanAfter, StatusOf

LEMMA WebhookUnstale ==
    ASSUME Inv, TierInv, NEW r \in Requests, WebhookCommit(r), ~stale'
    PROVE  CheckoutInv' /\ TiersAgree'
<1> DEFINE e == request[r].event
<1>1. r \notin outdated /\ ~stale /\ Ends(r) /\ UNCHANGED <<opened, sent>>
      /\ applied' = [applied EXCEPT ![e] = applied[e] + 1]
  BY DEF WebhookCommit, provider
<1>2. CheckoutInv /\ TiersAgree
  BY <1>1 DEF TierInv, UnstaleInv
<1>3. e \in Events /\ e \in sent
  BY WebhookJob DEF WebhookCommit
<1> HIDE DEF e
<1>4. /\ \A s \in Subs : ~(e.sub = s /\ e.kind = "start") => applied'[Event(s, "start")] = applied[Event(s, "start")]
      /\ e.sub \in Subs /\ Happened(e.sub, "start")
  BY <1>1, <1>3, CountsAfter DEF Kinds
<1>5. /\ row # Absent => row' # Absent
      /\ Known(e, row) /\ row # Absent /\ ~ByUser(e) => row'.pid = row.pid /\ row'.sid = row.sid
      /\ ByUser(e) => Known(e, row) /\ row'.pid = e.sub
      /\ Known(e, row) => row' # Absent
      /\ Known(e, row) /\ e.kind = "fail" => row # Absent /\ row'.plan = row.plan /\ tier' = tier
      /\ Known(e, row) /\ e.kind # "fail" => row'.plan = PlanAfter(e) /\ tier' = PlanAfter(e)
      /\ ~Known(e, row) => row' = row /\ tier' = tier
  BY <1>1, RowsAfter DEF e
<1>6. ~ByUser(e) /\ Known(e, row) => row # Absent
  BY DEF Known
<1>7. CheckoutInv'
  <2>1. ASSUME NEW s \in RazorpaySubs, Names(s)' PROVE s \in opened
    <3>1. CASE ByUser(e)
      BY <1>4, <1>5, <2>1, <3>1 DEF Names, TierInv, SentInv
    <3>2. CASE ~ByUser(e)
      BY <1>2, <1>5, <1>6, <2>1, <3>2 DEF Names, CheckoutInv
    <3> QED
      BY <3>1, <3>2
  <2>2. ASSUME NEW s \in RazorpaySubs, row' = row, ~Names(s), applied[Event(s, "start")] = 0
        PROVE  applied'[Event(s, "start")] = 0
    <3>1. s \in Subs
      BY DEF Subs
    <3>2. CASE e.sub = s /\ e.kind = "start"
      BY <1>5, <2>2, <3>2, KindsAre DEF Names
    <3> QED
      BY <1>4, <2>2, <3>1, <3>2
  <2> QED
    BY <1>1, <1>2, <2>1, <2>2, CheckoutsAfterWrite
<1>8. TiersAgree'
  <2> SUFFICES ASSUME row' # Absent, row'.plan # tier'
               PROVE  /\ row'.pid \in RazorpaySubs
                      /\ row'.plan = PlanOf[row'.pid]
                      /\ applied'[Event(row'.pid, "start")] = 0
    BY DEF TiersAgree
  <2>1. row # Absent /\ row'.pid = row.pid /\ row'.plan = row.plan /\ tier' = tier /\ e.kind # "start"
    BY <1>3, <1>5, <1>6, KindsAre
  <2>2. /\ row.pid \in RazorpaySubs
        /\ row.plan = PlanOf[row.pid]
        /\ applied[Event(row.pid, "start")] = 0
    BY <1>1, <1>2, <2>1 DEF TiersAgree
  <2>3. row.pid \in Subs
    BY <2>2 DEF Subs
  <2> QED
    BY <1>4, <2>1, <2>2, <2>3
<1> QED
  BY <1>7, <1>8

LEMMA WebhookOrder ==
    ASSUME Inv, TierInv, NEW r \in Requests, WebhookCommit(r), ~stale', ~disorder'
    PROVE  Sourced' /\ \A s \in Subs : Only(s)'
<1> DEFINE e == request[r].event
<1>1. /\ r \notin outdated /\ ~stale /\ ~disorder /\ InOrder(e) /\ sent' = sent
      /\ applied' = [applied EXCEPT ![e] = applied[e] + 1]
  BY DEF WebhookCommit, provider
<1>2. Sourced /\ \A s \in Subs : Only(s)
  BY <1>1 DEF TierInv, OrderInv
<1>3. e \in Events /\ e \in sent /\ e.kind \in Kinds
  BY WebhookJob, EventsAre DEF WebhookCommit
<1> HIDE DEF e
<1>4. /\ \A s \in Subs : \A k \in Kinds :
            /\ e.sub = s /\ e.kind = k => applied'[Event(s, k)] > 0
            /\ ~(e.sub = s /\ e.kind = k) => applied'[Event(s, k)] = applied[Event(s, k)]
      /\ e.sub \in Subs /\ Happened(e.sub, "start")
      /\ e.kind # "start" => applied[Event(e.sub, "start")] > 0
      /\ e.kind # "end" => applied[Event(e.sub, "end")] = 0
      /\ e.kind \in {"fail", "lapse"} => applied[Event(e.sub, "renew")] = 0
  BY <1>1, <1>3, CountsAfter
<1>5. /\ row # Absent => row' # Absent
      /\ Known(e, row) /\ row # Absent /\ ~ByUser(e) => row'.pid = row.pid /\ row'.sid = row.sid
      /\ Known(e, row) /\ row # Absent /\ ByUser(e) => e.sub \in StripeSubs \/ row'.sid = row.sid
      /\ ByUser(e) => Known(e, row) /\ row'.pid = e.sub /\ (e.sub \in StripeSubs => row'.sid = e.sub)
      /\ Known(e, row) => row' # Absent
      /\ Known(e, row) /\ e.kind = "fail" => row # Absent /\ row'.plan = row.plan /\ tier' = tier
      /\ Known(e, row) /\ e.kind # "fail" => row'.plan = PlanAfter(e) /\ tier' = PlanAfter(e)
      /\ ~Known(e, row) => row' = row /\ tier' = tier
  BY <1>1, RowsAfter DEF e
<1>6. ~ByUser(e) /\ Known(e, row) =>
          row # Absent /\ (row.pid = e.sub \/ (e.sub \in StripeSubs /\ row.sid = e.sub))
  BY DEF Known
<1>7. applied \in [Events -> Nat]
  BY DEF Inv, TypeOK
<1>8. Sourced'
  <2> SUFFICES ASSUME tier' # "free"
               PROVE  /\ row' # Absent
                      /\ \/ \E s \in Subs :
                              /\ PlanOf[s] = tier'
                              /\ row'.pid = s \/ (s \in StripeSubs /\ row'.sid = s)
                              /\ applied'[Event(s, "start")] > 0 /\ applied'[Event(s, "end")] = 0
                         \/ row'.pid \in RazorpaySubs /\ applied'[Event(row'.pid, "start")] = 0
    BY DEF Sourced
  <2>1. CASE tier' = tier /\ ~ByUser(e) /\ row # Absent /\ row'.pid = row.pid /\ row'.sid = row.sid
             /\ (e.kind = "end" => ~Known(e, row))
    <3>1. e.kind # "start" /\ row' # Absent
      BY <1>5, <2>1, KindsAre
    <3>2. CASE row.pid \in RazorpaySubs /\ applied[Event(row.pid, "start")] = 0
      BY <1>4, <2>1, <3>1, <3>2 DEF Subs, Kinds
    <3>3. CASE \E s \in Subs : /\ PlanOf[s] = tier
                               /\ row.pid = s \/ (s \in StripeSubs /\ row.sid = s)
                               /\ applied[Event(s, "start")] > 0 /\ applied[Event(s, "end")] = 0
      <4>1. PICK s \in Subs : /\ PlanOf[s] = tier
                              /\ row.pid = s \/ (s \in StripeSubs /\ row.sid = s)
                              /\ applied[Event(s, "start")] > 0 /\ applied[Event(s, "end")] = 0
        BY <3>3
      <4>2. ~(e.sub = s /\ e.kind = "end")
        BY <2>1, <4>1 DEF Known
      <4>3. applied'[Event(s, "start")] > 0 /\ applied'[Event(s, "end")] = 0
        BY <1>4, <3>1, <4>1, <4>2 DEF Kinds
      <4> QED
        BY <2>1, <3>1, <4>1, <4>3
    <3> QED
      BY <1>2, <2>1, <3>2, <3>3 DEF Sourced
  <2>2. CASE Known(e, row) /\ e.kind \in {"start", "renew"}
    <3>1. tier' = PlanOf[e.sub] /\ row' # Absent
      BY <1>3, <1>5, <2>2, KindsAre
    <3>2. row'.pid = e.sub \/ (e.sub \in StripeSubs /\ row'.sid = e.sub)
      BY <1>5, <1>6, <2>2
    <3>3. applied'[Event(e.sub, "start")] > 0 /\ applied'[Event(e.sub, "end")] = 0
      <4>1. e.kind = "start" => applied'[Event(e.sub, "start")] > 0
        BY <1>4 DEF Kinds
      <4>2. e.kind = "renew" => applied'[Event(e.sub, "start")] > 0
        BY <1>4 DEF Kinds
      <4>3. applied'[Event(e.sub, "end")] = 0
        BY <1>4, <2>2 DEF Kinds
      <4> QED
        BY <2>2, <4>1, <4>2, <4>3
    <3> QED
      BY <1>4, <3>1, <3>2, <3>3
  <2>3. ~(Known(e, row) /\ e.kind \in {"lapse", "end"})
    BY <1>3, <1>5, KindsAre
  <2>4. CASE Known(e, row) /\ e.kind = "fail"
    BY <1>3, <1>5, <2>1, <2>4, KindsAre
  <2>5. CASE ~Known(e, row)
    <3>1. tier' = tier /\ row' = row /\ ~ByUser(e) /\ row # Absent
      BY <1>2, <1>5, <2>5 DEF Sourced
    <3> QED
      BY <2>1, <2>5, <3>1
  <2> QED
    BY <1>3, <2>2, <2>3, <2>4, <2>5 DEF Kinds
<1>9. ASSUME NEW s \in Subs PROVE Only(s)'
  <2> SUFFICES ASSUME \A z \in Subs \ {s} : ~Happened(z, "start")', applied'[Event(s, "start")] > 0
               PROVE  /\ row' # Absent
                      /\ s \in StripeSubs => row'.sid = s
                      /\ PaidUp(s)' => tier' = PlanOf[s]
    BY DEF Only
  <2>1. \A z \in Subs \ {s} : ~Happened(z, "start")
    BY <1>1 DEF Happened
  <2>2. e.sub = s
    BY <1>4, <2>1
  <2>3. CASE e.kind = "start"
    BY <1>3, <1>5, <2>2, <2>3, KindsAre
  <2>4. CASE e.kind # "start"
    <3>1. /\ row # Absent /\ row' # Absent
          /\ s \in StripeSubs => row.sid = s
          /\ PaidUp(s) => tier = PlanOf[s]
      BY <1>2, <1>4, <1>5, <2>1, <2>2, <2>4 DEF Only
    <3>2. s \in StripeSubs => row'.sid = s
      BY <1>5, <2>2, <3>1
    <3>3. PaidUp(s)' => tier' = PlanOf[s]
      <4> SUFFICES ASSUME /\ applied'[Event(s, "end")] = 0
                          /\ \/ applied'[Event(s, "fail")] = 0 /\ applied'[Event(s, "lapse")] = 0
                             \/ applied'[Event(s, "renew")] > 0
                   PROVE  tier' = PlanOf[s]
        BY DEF PaidUp
      <4>1. e.kind # "end"
        BY <1>4, <2>2 DEF Kinds
      <4>2. e.kind \notin {"fail", "lapse"}
        <5>1. e.kind \in {"fail", "lapse"} => applied'[Event(s, "renew")] = 0
          BY <1>4, <2>2 DEF Kinds
        <5>2. /\ e.kind = "fail" => applied'[Event(s, "fail")] > 0
              /\ e.kind = "lapse" => applied'[Event(s, "lapse")] > 0
          BY <1>4, <2>2 DEF Kinds
        <5> QED
          BY <5>1, <5>2
      <4>3. e.kind = "renew"
        BY <1>3, <2>4, <4>1, <4>2 DEF Kinds
      <4>4. Known(e, row)
        <5>1. CASE s \in StripeSubs
          BY <2>2, <3>1, <5>1 DEF Known
        <5>2. CASE s \in RazorpaySubs
          BY <1>3, <1>5, <2>2, <4>3, <5>2, KindsAre
        <5> QED
          BY <5>1, <5>2 DEF Subs
      <4> QED
        BY <1>3, <1>5, <2>2, <4>3, <4>4, KindsAre
    <3> QED
      BY <3>1, <3>2, <3>3
  <2> QED
    BY <2>3, <2>4
<1> QED
  BY <1>8, <1>9

LEMMA TierInvariance == Spec => [](Inv /\ TierInv)
<1>1. Inv /\ TierInv /\ Inv' /\ [Next]_vars => TierInv'
  <2> SUFFICES ASSUME Inv, TierInv, Inv', [Next]_vars PROVE TierInv'
    OBVIOUS
  <2>1. ASSUME NEW r \in Requests, NEW s \in Subs, Checkout(r, s) PROVE TierInv'
    BY <2>1, CheckoutTier
  <2>2. ASSUME NEW r \in Requests, (\E e \in Events : Webhook(r, e)) \/ WebhookReads(r) PROVE TierInv'
    BY <2>2, WebhookTier
  <2>3. ASSUME NEW r \in Requests, CheckoutFails(r) \/ WebhookFails(r) PROVE TierInv'
    BY <2>3, FailsTier
  <2>4. ASSUME NEW r \in Requests, WebhookCommit(r) PROVE TierInv'
    BY <2>4, CommitStand, WebhookUnstale, WebhookOrder DEF TierInv, UnstaleInv, OrderInv
  <2>5. CASE UNCHANGED vars
    <3>1. UNCHANGED <<row, tier, request, opened, sent, applied, outdated, stale, disorder>>
      BY <2>5 DEF vars, provider, history
    <3>2. CurrentInv' /\ SentInv'
      BY <3>1 DEF TierInv, CurrentInv, RowRead, TierRead, ByUser, Known, SentInv, Happened
    <3>3. (~stale' => TiersAgree') /\ OrderInv'
      BY <3>1, RowsStand
    <3>4. ~stale' => CheckoutInv'
      BY <3>1, CheckoutsStand DEF TierInv, UnstaleInv
    <3> QED
      BY <3>2, <3>3, <3>4 DEF TierInv, UnstaleInv
  <2> QED
    BY <2>1, <2>2, <2>3, <2>4, <2>5, CheckoutCommitTier, RestartTier, ProviderTier DEF Next
<1> QED
  BY <1>1, Invariance, InitTierInv, PTL DEF Spec

\* The plan in the subscription and the tier of the user agree, but for a
\* Razorpay checkout not yet paid, as long as no request has committed over rows
\* that were written since it read them (subscription_sync.py).
THEOREM TiersKeptInStep == Spec => []TiersAgree
<1>1. TierInv => TiersAgree
  BY DEF TierInv, UnstaleInv, TiersAgree
<1> QED
  BY <1>1, TierInvariance, PTL

\* When every event has been handled in its order and over current rows, the
\* tier is that of a subscription that runs, and the one subscription that is
\* running and paid is served (the webhook handlers of both providers).
THEOREM TierFollowsTheEvents == Spec => []SettledTierFollows
<1>1. Inv /\ TierInv => SettledTierFollows
  <2> SUFFICES ASSUME Inv, TierInv PROVE UnpaidTierEnds /\ PaidTierIsServed
    BY DEF SettledTierFollows
  <2>1. \A s \in Subs : \A k \in Kinds : Event(s, k) \in Events
    BY EventsAre
  <2>2. \A s \in Subs : \A k \in Kinds : applied[Event(s, k)] > 0 \/ applied[Event(s, k)] = 0
    BY <2>1 DEF Inv, TypeOK
  <2>3. \A s \in Subs : \A k \in Kinds : applied[Event(s, k)] > 0 => Happened(s, k)
    BY <2>1 DEF TierInv, SentInv, Happened
  <2>4. AllSettled => \A s \in Subs : \A k \in Kinds : Happened(s, k) => applied[Event(s, k)] > 0
    BY DEF AllSettled, Happened
  <2>5. UnpaidTierEnds
    <3> SUFFICES ASSUME AllSettled, ~disorder, ~stale, ~Abandoned, tier # "free"
                 PROVE  \E s \in Subs : PlanOf[s] = tier /\ Running(s)
      BY DEF UnpaidTierEnds
    <3>1. /\ row # Absent
          /\ \/ \E s \in Subs :
                  /\ PlanOf[s] = tier
                  /\ applied[Event(s, "start")] > 0 /\ applied[Event(s, "end")] = 0
             \/ row.pid \in RazorpaySubs /\ applied[Event(row.pid, "start")] = 0
      BY DEF TierInv, OrderInv, Sourced
    <3>2. ASSUME row.pid \in RazorpaySubs, applied[Event(row.pid, "start")] = 0 PROVE FALSE
      BY <2>4, <3>1, <3>2 DEF Abandoned, Subs, Kinds
    <3>3. PICK s \in Subs : /\ PlanOf[s] = tier
                            /\ applied[Event(s, "start")] > 0 /\ applied[Event(s, "end")] = 0
      BY <3>1, <3>2
    <3>4. Running(s)
      BY <2>3, <2>4, <3>3 DEF Running, Kinds
    <3> QED
      BY <3>3, <3>4
  <2>6. PaidTierIsServed
    <3> SUFFICES ASSUME NEW s \in Subs, AllSettled, ~disorder, ~stale, Running(s), ~Late(s),
                        \A z \in Subs \ {s} : ~Happened(z, "start")
                 PROVE  tier = PlanOf[s]
      BY DEF PaidTierIsServed
    <3>1. Only(s)
      BY DEF TierInv, OrderInv
    <3>2. applied[Event(s, "start")] > 0 /\ applied[Event(s, "end")] = 0
      BY <2>2, <2>3, <2>4 DEF Running, Kinds
    <3>3. \/ applied[Event(s, "fail")] = 0 /\ applied[Event(s, "lapse")] = 0
          \/ applied[Event(s, "renew")] > 0
      <4>1. CASE Happened(s, "renew")
        BY <2>4, <4>1 DEF Kinds
      <4>2. CASE ~Happened(s, "fail")
        <5>1. ~Happened(s, "lapse")
          BY <4>2 DEF TierInv, SentInv
        <5> QED
          BY <2>2, <2>3, <4>2, <5>1 DEF Kinds
      <4> QED
        BY <4>1, <4>2 DEF Late
    <3> QED
      BY <3>1, <3>2, <3>3 DEF Only, PaidUp
  <2> QED
    BY <2>5, <2>6
<1> QED
  BY <1>1, TierInvariance, PTL
=============================================================================
