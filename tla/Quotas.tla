------------------------------- MODULE Quotas -------------------------------
(***************************************************************************)
(* Daily quotas of costly requests (app/core/quotas.py), the request's     *)
(* session they are charged in (get_db, get_optional_db) and the plan the  *)
(* limit comes from.  The counter is one row per user, key and day.  A     *)
(* request reads the row, compares it, and adds one to the value it READ;  *)
(* the new value reaches the table with the first commit of the request's  *)
(* session, which may be long after other requests have read the same row. *)
(*                                                                         *)
(* A request's steps are its own module's (Scripts, Insights): between two *)
(* of them it awaits something and any other request may move.             *)
(***************************************************************************)
EXTENDS Naturals, FiniteSets

CONSTANTS
    Requests,       \* the requests of the day under study
    Users,          \* who sends them
    Admins,         \* the users whose role is "admin"
    Tiers,          \* the plans
    Limits,         \* [Tiers -> Nat]: the settings QUOTA_<key>_<tier>
    None

Keys == {"ai_insight", "script_run", "script_backtest"}

ASSUME QuotasAssumption ==
    /\ IsFiniteSet(Requests)
    /\ Admins \subseteq Users
    /\ Limits \in [Tiers -> Nat]
    /\ None \notin Nat \cup Keys \cup Users \cup Requests

VARIABLES
    tier,       \* [Users -> Tiers]: users.subscription_tier, which Billing writes
    count,      \* [Users \X Keys -> Nat or None]: today's committed rows
    at,         \* [Requests -> STRING]: where a request is
    who,        \* [Requests -> Users or None]
    limit,      \* [Requests -> Nat]: the limit of the plan the user had on arrival
    charge,     \* [Requests -> what its open session holds for the quota, or None]
    settled,    \* [Requests -> Keys or None]: the charge a request has committed (ghost)
    overlapped, \* the rows two requests held at once (ghost)
    faulted     \* requests a database error or a restart has hit (ghost)

quotaVars == <<tier, count, at, who, limit, charge, settled, overlapped, faulted>>

ChargeType == [key : Keys, count : Nat \cup {None}, inserted : BOOLEAN]

ASSUME ChargeAssumption == None \notin ChargeType

Ended == {"idle", "ok", "failed"}

QuotasInit ==
    /\ tier \in [Users -> Tiers]
    /\ count = [row \in Users \X Keys |-> None]
    /\ at = [r \in Requests |-> "idle"]
    /\ who = [r \in Requests |-> None]
    /\ limit = [r \in Requests |-> 0]
    /\ charge = [r \in Requests |-> None]
    /\ settled = [r \in Requests |-> None]
    /\ overlapped = {}
    /\ faulted = {}

(* The session ends with an exception: everything not committed is undone.  *)
RolledBack(r) ==
    /\ at' = [at EXCEPT ![r] = "failed"]
    /\ charge' = [charge EXCEPT ![r] = None]
    /\ UNCHANGED <<tier, count, who, limit, settled, overlapped, faulted>>

(* The same for a database error, which may come at any statement.          *)
Fault(r) ==
    /\ at[r] \notin Ended
    /\ at' = [at EXCEPT ![r] = "failed"]
    /\ charge' = [charge EXCEPT ![r] = None]
    /\ faulted' = faulted \cup {r}
    /\ UNCHANGED <<tier, count, who, limit, settled, overlapped>>

(* The process restarts: the server rolls every open session back.          *)
Restarted ==
    LET open == {r \in Requests : at[r] \notin Ended}
    IN  /\ at' = [r \in Requests |-> IF r \in open THEN "failed" ELSE at[r]]
        /\ charge' = [r \in Requests |-> None]
        /\ faulted' = faulted \cup open
        /\ UNCHANGED <<tier, count, who, limit, settled, overlapped>>

(* A step that neither reads nor writes what a quota is about.              *)
Steps(r, here, next) ==
    /\ at[r] = here
    /\ at' = [at EXCEPT ![r] = next]
    /\ UNCHANGED <<tier, count, who, limit, charge, settled, overlapped, faulted>>

(* The limit is compared after the addition has been written.               *)
MutantCharge(r, key, next) ==
    /\ at' = [at EXCEPT ![r] = next]
    /\ charge' = [charge EXCEPT ![r] =
           [key |-> key, inserted |-> FALSE, count |-> IF count[<<who[r], key>>] = None THEN 1 ELSE count[<<who[r], key>>] + 1]]
    /\ UNCHANGED <<tier, count, who, limit, settled, overlapped, faulted>>

(* check_and_increment_quota: an administrator passes.  The row is read     *)
(* now; a missing one is inserted with count 0 by the flush, which Insert   *)
(* is about.  One that has reached the limit refuses the request.           *)
Charge(r, key, next) ==
    LET row == <<who[r], key>>
        others == {q \in Requests \ {r} :
                      charge[q] # None /\ <<who[q], charge[q].key>> = row}
    IN  IF who[r] \in Admins
        THEN /\ at' = [at EXCEPT ![r] = next]
             /\ UNCHANGED <<tier, count, who, limit, charge, settled, overlapped, faulted>>
        ELSE IF count[row] # None /\ count[row] >= limit[r]
        THEN RolledBack(r)
        ELSE /\ at' = [at EXCEPT ![r] = IF count[row] = None THEN "inserting" ELSE next]
             /\ charge' = [charge EXCEPT ![r] =
                    [key |-> key, inserted |-> FALSE,
                     count |-> IF count[row] = None THEN None ELSE count[row] + 1]]
             /\ overlapped' = IF others = {} THEN overlapped ELSE overlapped \cup {row}
             /\ UNCHANGED <<tier, count, who, limit, settled, faulted>>

(* _get_or_create_quota's flush of a new row.  The unique index makes it    *)
(* wait for another session's uncommitted row; when that one committed, the *)
(* insert raises IntegrityError and the request fails.                      *)
Insert(r, next) ==
    LET row == <<who[r], charge[r].key>>
    IN  /\ at[r] = "inserting"
        /\ \A q \in Requests \ {r} :
              charge[q] # None => ~ (charge[q].inserted /\ <<who[q], charge[q].key>> = row)
        /\ IF count[row] # None \/ limit[r] = 0
           THEN RolledBack(r)
           ELSE /\ charge' = [charge EXCEPT ![r].count = 1, ![r].inserted = TRUE]
                /\ at' = [at EXCEPT ![r] = next]
                /\ UNCHANGED <<tier, count, who, limit, settled, overlapped, faulted>>

(* The quota's share of a commit: the value computed when the row was read. *)
(* The first commit of a session settles the charge.                        *)
Settled(r) ==
    LET row == <<who[r], charge[r].key>>
    IN  IF charge[r] = None
        THEN UNCHANGED <<count, charge, settled>>
        ELSE /\ count' = [count EXCEPT ![row] = charge[r].count]
             /\ settled' = [settled EXCEPT ![r] = charge[r].key]
             /\ charge' = [charge EXCEPT ![r] = None]

(* _tier_limit of the user get_current_user loads when a request arrives.   *)
TierLimit(u) == Limits[tier[u]]

Arrive(r, u, next) ==
    /\ at[r] = "idle"
    /\ at' = [at EXCEPT ![r] = next]
    /\ who' = [who EXCEPT ![r] = u]
    /\ limit' = [limit EXCEPT ![r] = TierLimit(u)]
    /\ UNCHANGED <<tier, count, charge, settled, overlapped, faulted>>

(* Billing writes another plan to the user (external to this module).       *)
ChangeTier(u, t) ==
    /\ tier[u] # t
    /\ tier' = [tier EXCEPT ![u] = t]
    /\ UNCHANGED <<count, at, who, limit, charge, settled, overlapped, faulted>>

QuotasTypeOK ==
    /\ tier \in [Users -> Tiers]
    /\ count \in [Users \X Keys -> Nat \cup {None}]
    /\ who \in [Requests -> Users \cup {None}]
    /\ limit \in [Requests -> Nat]
    /\ charge \in [Requests -> ChargeType \cup {None}]
    /\ settled \in [Requests -> Keys \cup {None}]
    /\ overlapped \subseteq Users \X Keys
    /\ faulted \subseteq Requests

Counted(row) == IF count[row] = None THEN 0 ELSE count[row]

Uses(row) == Cardinality({r \in Requests : <<who[r], settled[r]>> = row})

(* Every request that went through is in the counter, unless two of them    *)
(* held its row at once; the counter never says more than went through, and *)
(* never more than the largest plan allows (check_and_increment_quota).     *)
EveryUseIsCounted ==
    \A row \in Users \X Keys :
        /\ Counted(row) <= Uses(row)
        /\ row \notin overlapped => Counted(row) = Uses(row)
        /\ \E t \in Tiers : Counted(row) <= Limits[t]
=============================================================================
