------------------------------- MODULE Alerts -------------------------------
(***************************************************************************)
(* The price alerts of one product: the requests that create, change and   *)
(* delete them, and the check of every ticker, which announces the alerts  *)
(* the price has just crossed to the frontend, queues a Telegram message   *)
(* for those that want one, and marks them triggered.                      *)
(*                                                                         *)
(* The check remembers the last price in memory before it opens its        *)
(* session, and announces before it commits.  It is awaited by the         *)
(* exchange client, so no two checks overlap; requests run between any two *)
(* of its awaits.                                                          *)
(***************************************************************************)
EXTENDS Naturals

CONSTANTS
    Alerts,          \* ids of price_alerts rows
    Prices,          \* the prices tickers bring
    Targets,         \* the prices alerts are set to
    MaxActivations,  \* bound: how often one alert is created or switched on
    MaxFaults,       \* bound: failed statements and restarts
    None             \* no last price, no alert, no such row, no change

Row == [active : BOOLEAN, target : Targets, above : BOOLEAN, telegram : BOOLEAN]

ASSUME AlertsAssumption ==
    /\ Prices \subseteq Nat
    /\ Targets \subseteq Nat
    /\ None \notin Nat \cup Alerts \cup Row
    /\ MaxActivations \in Nat
    /\ MaxFaults \in Nat

VARIABLES
    row,          \* price_alerts, as committed
    deleted,      \* alerts whose row has been deleted
    last,         \* the cached last price of the product
    check,        \* check_alerts_for_ticker
    edit,         \* per alert: what a PATCH in progress will write
    activations,  \* history: how often an alert was created or switched on
    announced,    \* history: how often it was announced to the frontend
    posted,       \* history: how many Telegram messages were committed for it
    recorded,     \* history: how often its trigger was committed
    armed,        \* history: active alerts whose price was seen short of the target
    faults,       \* history: failed statements and restarts
    failures      \* history: checks that did not reach their last commit

history == <<activations, announced, posted, recorded, armed, faults, failures>>
vars    == <<row, deleted, last, check, edit, history>>

Edit == [active : BOOLEAN \cup {None}, target : Targets \cup {None},
         telegram : BOOLEAN \cup {None}]

IdleCheck == [pc |-> "idle", prev |-> None, price |-> None, todo |-> {},
              telegram |-> {}, dirty |-> {}, sending |-> None]

TypeOK ==
    /\ row \in [Alerts -> Row \cup {None}]
    /\ deleted \subseteq Alerts
    /\ last \in Prices \cup {None}
    /\ check \in [pc : {"idle", "opening", "looping"},
                  prev : Prices \cup {None}, price : Prices \cup {None},
                  todo : SUBSET Alerts, telegram : SUBSET Alerts,
                  dirty : SUBSET Alerts, sending : Alerts \cup {None}]
    /\ edit \in [Alerts -> Edit \cup {None}]
    /\ activations \in [Alerts -> Nat]
    /\ announced \in [Alerts -> Nat]
    /\ posted \in [Alerts -> Nat]
    /\ recorded \in [Alerts -> Nat]
    /\ armed \subseteq Alerts
    /\ faults \in Nat
    /\ failures \in Nat

Init ==
    /\ row = [a \in Alerts |-> None]
    /\ deleted = {}
    /\ last = None
    /\ check = IdleCheck
    /\ edit = [a \in Alerts |-> None]
    /\ activations = [a \in Alerts |-> 0]
    /\ announced = [a \in Alerts |-> 0]
    /\ posted = [a \in Alerts |-> 0]
    /\ recorded = [a \in Alerts |-> 0]
    /\ armed = {}
    /\ faults = 0
    /\ failures = 0

-----------------------------------------------------------------------------
Active(a) == row[a] # None /\ row[a].active

\* The price has not reached the alert's target.
Short(r, price) == IF r.above THEN price < r.target ELSE price > r.target

MutantCrossedStrictly(r, prev, price) ==
    /\ prev # None
    /\ IF r.above THEN prev <= r.target /\ r.target < price
                  ELSE prev >= r.target /\ r.target > price

\* _crossed
Crossed(r, prev, price) ==
    /\ prev # None
    /\ IF r.above THEN prev < r.target /\ r.target <= price
                  ELSE prev > r.target /\ r.target >= price

\* An alert that takes the form r is armed if the last price is short of it.
Arm(a, r) == IF r.active /\ last # None /\ Short(r, last)
             THEN armed \cup {a} ELSE armed \ {a}

-----------------------------------------------------------------------------
(* Requests *)

\* create_alert
Create(a, r) ==
    /\ row[a] = None /\ a \notin deleted
    /\ activations[a] < MaxActivations
    /\ r.active
    /\ row' = [row EXCEPT ![a] = r]
    /\ activations' = [activations EXCEPT ![a] = @ + 1]
    /\ armed' = Arm(a, r)
    /\ UNCHANGED <<deleted, last, check, edit, announced, posted, recorded,
                   faults, failures>>

\* update_alert up to its commit: of the fields the payload names, the ORM will
\* write those that differ from what was read.
Differs(new, old) == new = None \/ new # old

StartUpdate(a, e) ==
    /\ row[a] # None /\ edit[a] = None
    /\ Differs(e.active, row[a].active)
    /\ Differs(e.target, row[a].target)
    /\ Differs(e.telegram, row[a].telegram)
    /\ e.active = TRUE => activations[a] < MaxActivations
    /\ edit' = [edit EXCEPT ![a] = e]
    /\ UNCHANGED <<row, deleted, last, check, history>>

Edited(r, e) == [r EXCEPT !.active   = IF e.active = None THEN @ ELSE e.active,
                          !.target   = IF e.target = None THEN @ ELSE e.target,
                          !.telegram = IF e.telegram = None THEN @ ELSE e.telegram]

\* The commit of update_alert.  A row deleted meanwhile makes it fail.
FinishUpdate(a) ==
    /\ edit[a] # None
    /\ edit' = [edit EXCEPT ![a] = None]
    /\ IF row[a] = None
       THEN UNCHANGED <<row, activations, armed>>
       ELSE LET r == Edited(row[a], edit[a]) IN
            /\ row' = [row EXCEPT ![a] = r]
            /\ activations' = [activations EXCEPT ![a] =
                                  IF edit[a].active = TRUE THEN @ + 1 ELSE @]
            /\ armed' = IF [r EXCEPT !.telegram = row[a].telegram] = row[a]
                        THEN armed ELSE Arm(a, r)
    /\ UNCHANGED <<deleted, last, check, announced, posted, recorded, faults,
                   failures>>

\* delete_alert
Delete(a) ==
    /\ row[a] # None
    /\ row' = [row EXCEPT ![a] = None]
    /\ deleted' = deleted \cup {a}
    /\ armed' = armed \ {a}
    /\ UNCHANGED <<last, check, edit, activations, announced, posted, recorded,
                   faults, failures>>

-----------------------------------------------------------------------------
(* check_alerts_for_ticker *)

\* The last price moves on before anything else.
Ticker(price) ==
    /\ check = IdleCheck
    /\ last' = price
    /\ check' = [IdleCheck EXCEPT !.pc = "opening", !.prev = last, !.price = price]
    /\ armed' = armed \cup {a \in Alerts : Active(a) /\ Short(row[a], price)}
    /\ UNCHANGED <<row, deleted, edit, activations, announced, posted, recorded,
                   faults, failures>>

MutantSelectAll ==
    {a \in Alerts : row[a] # None /\ Crossed(row[a], check.prev, check.price)}

\* The alerts of the SELECT that will trigger.
Triggering == {a \in Alerts : Active(a) /\ Crossed(row[a], check.prev, check.price)}

SelectAlerts ==
    /\ check.pc = "opening"
    /\ check' = IF Triggering = {} THEN IdleCheck
                ELSE [IdleCheck EXCEPT !.pc = "looping", !.todo = Triggering,
                          !.telegram = {a \in Triggering : row[a].telegram}]
    /\ UNCHANGED <<row, deleted, last, edit, history>>

\* One round of the loop, up to the end of broadcast_all: the row's object is
\* marked triggered and the frontend is told.
Announce(a) ==
    /\ check.pc = "looping" /\ check.sending = None /\ a \in check.todo
    /\ announced' = [announced EXCEPT ![a] = @ + 1]
    /\ check' = [check EXCEPT !.todo = @ \ {a}, !.dirty = @ \cup {a},
                              !.sending = IF a \in check.telegram THEN a ELSE None]
    /\ UNCHANGED <<row, deleted, last, edit, activations, posted, recorded,
                   armed, faults, failures>>

\* An UPDATE of a row that is gone raises StaleDataError.
Stale == check.dirty \cap deleted # {}

\* The session's changes are committed: the alerts marked so far are triggered.
CommitTriggers ==
    /\ ~Stale
    /\ row' = [a \in Alerts |-> IF a \in check.dirty
                                THEN [row[a] EXCEPT !.active = FALSE] ELSE row[a]]
    /\ recorded' = [a \in Alerts |-> IF a \in check.dirty
                                     THEN recorded[a] + 1 ELSE recorded[a]]
    /\ armed' = armed \ check.dirty
    /\ UNCHANGED <<deleted, last, edit, activations, announced, faults, failures>>

MutantPostAlone ==
    /\ check.sending # None
    /\ posted' = [posted EXCEPT ![check.sending] = @ + 1]
    /\ check' = [check EXCEPT !.sending = None]
    /\ UNCHANGED <<row, deleted, last, edit, activations, announced, recorded,
                   armed, faults, failures>>

\* send_manual and db.commit(): the message and the triggers in one transaction;
\* then the message is put on the queue.  After the last alert all that is left
\* to commit is the message's status.
Post ==
    /\ check.sending # None
    /\ posted' = [posted EXCEPT ![check.sending] = @ + 1]
    /\ check' = IF check.todo = {} THEN IdleCheck
                ELSE [check EXCEPT !.dirty = {}, !.sending = None]
    /\ CommitTriggers

\* The commit after the loop.
CheckCommits ==
    /\ check.pc = "looping" /\ check.sending = None /\ check.todo = {}
    /\ check' = IdleCheck
    /\ UNCHANGED posted
    /\ CommitTriggers

\* A failing SELECT ends the check.  A failing transaction undoes the triggers
\* it would have committed, and expires the session's objects: the next round
\* of the loop cannot read its alert and raises, so the check ends here too.
CheckFails ==
    /\ \/ check.pc = "opening"
       \/ check.pc = "looping" /\ (check.sending # None \/ check.todo = {})
    /\ IF Stale THEN UNCHANGED faults
       ELSE faults < MaxFaults /\ faults' = faults + 1
    /\ failures' = failures + 1
    /\ check' = IdleCheck
    /\ UNCHANGED <<row, deleted, last, edit, activations, announced, posted,
                   recorded, armed>>

-----------------------------------------------------------------------------
\* TTLCache.get: no ticker for an hour.
ForgetPrice ==
    /\ check = IdleCheck /\ last # None
    /\ last' = None
    /\ armed' = {}
    /\ UNCHANGED <<row, deleted, check, edit, activations, announced, posted,
                   recorded, faults, failures>>

\* The process stops and starts again.
Restart ==
    /\ faults < MaxFaults
    /\ faults' = faults + 1
    /\ failures' = failures + 1
    /\ last' = None
    /\ check' = IdleCheck
    /\ edit' = [a \in Alerts |-> None]
    /\ armed' = {}
    /\ UNCHANGED <<row, deleted, activations, announced, posted, recorded>>

Request(a) == \/ \E r \in Row : Create(a, r)
              \/ \E e \in Edit : StartUpdate(a, e)
              \/ FinishUpdate(a)
              \/ Delete(a)

Next ==
    \/ \E a \in Alerts : Request(a) \/ Announce(a)
    \/ \E price \in Prices : Ticker(price)
    \/ SelectAlerts
    \/ Post
    \/ CheckCommits
    \/ CheckFails
    \/ ForgetPrice
    \/ Restart

Spec == Init /\ [][Next]_vars

-----------------------------------------------------------------------------
\* However often a check fails and is repeated, an alert gets at most one
\* Telegram message each time it is switched on: the message and the trigger
\* are committed together.
OneMessagePerActivation == \A a \in Alerts : posted[a] <= activations[a]

\* A trigger in the table was announced: no commit in the middle of the loop
\* records an alert the loop has not come to.
RecordedWasAnnounced == \A a \in Alerts : recorded[a] <= announced[a]

\* The frontend hears of an alert again only if it was switched on again, or a
\* check failed after announcing it.
RepeatNeedsFailure ==
    \A a \in Alerts : announced[a] <= activations[a] + failures

\* As long as no check fails, no crossing is missed, whatever is edited
\* meanwhile: after a check the price is still short of the target of every
\* active alert that it was ever seen short of.
NoCrossingMissed ==
    (failures = 0 /\ check = IdleCheck) => \A a \in armed : Short(row[a], last)
=============================================================================
