---------------------------- MODULE PaperTrading ----------------------------
(***************************************************************************)
(* Simulated trades of one user in one product: the requests that open,    *)
(* close and delete them, and the check that every ticker runs, which      *)
(* fills pending limit orders and fires stops and targets.                 *)
(*                                                                         *)
(* Every session reads, awaits, and writes what it computed from what it   *)
(* read; nothing locks the rows in between.  A flush and its commit are one*)
(* step: the database serialises the writers of a row.  Prices, quantities *)
(* and fees are whole numbers; 0 is an absent price.                       *)
(***************************************************************************)
EXTENDS Integers, FiniteSets, FiniteSetsExt

CONSTANTS
    Ids,          \* primary keys of paper_trades, never reused
    Requests,     \* close requests that may be in progress together
    Prices,       \* prices, positive
    Payloads,     \* what users open: see PayloadRecord
    MaxQty,       \* bound on a quantity
    FeePercent,   \* fee_pct
    MaxBusy,      \* bound on the sessions in progress (1: no overlap)
    None          \* no id

VARIABLES
    trades,       \* the table: row of each id present
    used,         \* ids given out
    request,      \* close_paper_trade of each request
    check,        \* check_paper_orders_for_ticker
    price,        \* price of the last ticker
    origin,       \* history: the opened trade a row was split from
    opened,       \* history: quantity each trade was opened with
    removed       \* history: quantity deleted of each opened trade

history == <<origin, opened, removed>>
vars    == <<trades, used, request, check, price, history>>

Sides      == {"long", "short"}
Quantities == 1..MaxQty
Price0     == Prices \cup {0}

PayloadRecord == [side : Sides, entry : Prices, quantity : Quantities,
                  limit : Price0, stop : Price0, target : Price0]

Row == [side : Sides, entry : Prices, quantity : Quantities,
        limit : Price0, stop : Price0, target : Price0,
        pending : BOOLEAN, closed : BOOLEAN, exit : Price0, pnl : Int]

ASSUME PaperAssumption ==
    /\ Prices \subseteq Nat \ {0}
    /\ MaxQty \in Nat
    /\ FeePercent \in Nat
    /\ Payloads \subseteq PayloadRecord
    /\ None \notin Ids

\* A table is a function on the ids present.
IsTable(f) == f = [i \in DOMAIN f |-> f[i]] /\ DOMAIN f \subseteq Ids /\ \A i \in DOMAIN f : f[i] \in Row

Insert(f, i, row) == [j \in DOMAIN f \cup {i} |-> IF j = i THEN row ELSE f[j]]

Idle == [pc |-> "idle"]

Closing == [pc : {"closing"}, id : Ids, seen : Row, quantity : Quantities, exit : Prices]

TypeOK ==
    /\ IsTable(trades)
    /\ used \subseteq Ids
    /\ DOMAIN trades \subseteq used
    /\ request \in [Requests -> {Idle} \cup Closing]
    /\ \/ check = Idle
       \/ check = [pc |-> "checking", batch |-> check.batch] /\ IsTable(check.batch) /\ price # 0
    /\ price \in Price0
    /\ origin \in [Ids -> Ids \cup {None}]
    /\ opened \in [Ids -> 0..MaxQty]
    /\ removed \in [Ids -> Nat]

Init ==
    /\ trades = [i \in {} |-> None]
    /\ used = {}
    /\ request = [r \in Requests |-> Idle]
    /\ check = Idle
    /\ price = 0
    /\ origin = [i \in Ids |-> None]
    /\ opened = [i \in Ids |-> 0]
    /\ removed = [i \in Ids |-> 0]

Busy == Cardinality({r \in Requests : request[r] # Idle}) + (IF check = Idle THEN 0 ELSE 1)

-----------------------------------------------------------------------------
(* The arithmetic.                                                           *)

\* Net profit in hundredths, after fees on both legs.
ClosedPnl(side, entry, exit, quantity) ==
    LET gross == IF side = "long" THEN (exit - entry) * quantity ELSE (entry - exit) * quantity
        fees  == (entry + exit) * quantity * FeePercent
    IN  100 * gross - fees

LimitShouldFill(t, p) ==
    LET limit == IF t.limit # 0 THEN t.limit ELSE t.entry
    IN  IF t.side = "long" THEN p <= limit ELSE p >= limit

StopHit(t, p) ==
    t.stop # 0 /\ IF t.side = "long" THEN p <= t.stop ELSE p >= t.stop

\* The same comparison on both sides.
TargetHit(t, p) == t.target # 0 /\ p >= t.target

Close(t, exit, pnl) == [t EXCEPT !.exit = exit, !.pnl = pnl, !.closed = TRUE]

-----------------------------------------------------------------------------
(* The requests.  Operators named Mutant... are plausible bugs, not part of  *)
(* the specification.                                                        *)

NewTrade(payload) ==
    [side |-> payload.side, quantity |-> payload.quantity,
     entry |-> IF payload.limit # 0 THEN payload.limit ELSE payload.entry,
     limit |-> payload.limit, stop |-> payload.stop, target |-> payload.target,
     pending |-> payload.limit # 0, closed |-> FALSE, exit |-> 0, pnl |-> 0]

\* A market order carries no limit here; only a limit order is pending.
OpenTrade ==
    \E i \in Ids \ used, payload \in Payloads :
        /\ trades' = Insert(trades, i, NewTrade(payload))
        /\ used' = used \cup {i}
        /\ origin' = [origin EXCEPT ![i] = i]
        /\ opened' = [opened EXCEPT ![i] = payload.quantity]
        /\ UNCHANGED <<request, check, price, removed>>

\* close_paper_trade without its test for a pending order.
MutantClosePending(r) ==
    \E i \in DOMAIN trades, q \in Quantities, exit \in Prices :
        /\ request[r] = Idle /\ Busy < MaxBusy
        /\ ~ trades[i].closed
        /\ q <= trades[i].quantity
        /\ request' = [request EXCEPT ![r] = [pc |-> "closing", id |-> i, seen |-> trades[i],
                                              quantity |-> q, exit |-> exit]]
        /\ UNCHANGED <<trades, used, check, price, history>>

\* close_paper_trade up to its first write: the row is read and tested.
StartClose(r) ==
    \E i \in DOMAIN trades, q \in Quantities, exit \in Prices :
        /\ request[r] = Idle /\ Busy < MaxBusy
        /\ ~ trades[i].closed
        /\ ~ trades[i].pending
        /\ q <= trades[i].quantity
        /\ request' = [request EXCEPT ![r] = [pc |-> "closing", id |-> i, seen |-> trades[i],
                                              quantity |-> q, exit |-> exit]]
        /\ UNCHANGED <<trades, used, check, price, history>>

\* The row inserted for the part that is closed: everything but the limit.
ClosedPart(c, pnl) ==
    [Close(c.seen, c.exit, pnl) EXCEPT !.quantity = c.quantity, !.limit = 0]

\* Closing the row itself with the quantity asked for.
MutantDropRemainder(r) ==
    LET c == request[r]
        pnl == ClosedPnl(c.seen.side, c.seen.entry, c.exit, c.quantity)
    IN  /\ c # Idle /\ c.id \in DOMAIN trades /\ c.quantity < c.seen.quantity
        /\ trades' = [trades EXCEPT ![c.id] = [Close(@, c.exit, pnl) EXCEPT !.quantity = c.quantity]]
        /\ request' = [request EXCEPT ![r] = Idle]
        /\ UNCHANGED <<used, check, price, history>>

\* Part of the trade: a closed row for it is inserted, and the remainder, as
\* computed from the row that was read, is written over the row's quantity.
PartialClose(r) ==
    LET c == request[r]
        pnl == ClosedPnl(c.seen.side, c.seen.entry, c.exit, c.quantity)
    IN  /\ c # Idle /\ c.id \in DOMAIN trades /\ c.quantity < c.seen.quantity
        /\ \E i \in Ids \ used :
              /\ trades' = Insert([trades EXCEPT ![c.id].quantity = c.seen.quantity - c.quantity],
                                  i, ClosedPart(c, pnl))
              /\ used' = used \cup {i}
              /\ origin' = [origin EXCEPT ![i] = origin[c.id]]
        /\ request' = [request EXCEPT ![r] = Idle]
        /\ UNCHANGED <<check, price, opened, removed>>

\* All of it: the columns that changed are written, the quantity is not one.
FullClose(r) ==
    LET c == request[r]
        pnl == ClosedPnl(c.seen.side, c.seen.entry, c.exit, c.quantity)
    IN  /\ c # Idle /\ c.id \in DOMAIN trades /\ c.quantity = c.seen.quantity
        /\ trades' = [trades EXCEPT ![c.id] = Close(@, c.exit, pnl)]
        /\ request' = [request EXCEPT ![r] = Idle]
        /\ UNCHANGED <<used, check, price, history>>

\* The update finds no row, or the database fails: get_db rolls back.
CloseFails(r) ==
    /\ request[r] # Idle
    /\ request' = [request EXCEPT ![r] = Idle]
    /\ UNCHANGED <<trades, used, check, price, history>>

QuantityOf(S) == MapThenSumSet(LAMBDA i : trades[i].quantity, S)
SplitFrom(i)  == {j \in DOMAIN trades : origin[j] = i}

Delete(S) ==
    /\ trades' = [j \in DOMAIN trades \ S |-> trades[j]]
    /\ removed' = [i \in Ids |-> removed[i] + QuantityOf(SplitFrom(i) \cap S)]
    /\ UNCHANGED <<used, request, check, price, origin, opened>>

\* Any trade of the user may be deleted, open or closed: its read tests nothing
\* that changes, so read and delete are one step.
DeleteTrade == \E i \in DOMAIN trades : Delete({i})

\* Deletes what was closed when the list was read; the retention job deletes
\* what was closed before its cutoff.
ClearClosed == \E S \in SUBSET {i \in DOMAIN trades : trades[i].closed} : S # {} /\ Delete(S)

-----------------------------------------------------------------------------
(* The check of a ticker.                                                    *)

Fills(t, p) == t.pending /\ LimitShouldFill(t, p)

Exits(t, p) == ~ t.pending /\ (StopHit(t, p) \/ TargetHit(t, p))

\* The stop is looked at first.
ExitPrice(t, p) == IF StopHit(t, p) THEN t.stop ELSE t.target

\* Waiting for the target as well.
MutantBothLevels(p) ==
    {i \in DOMAIN trades : ~ trades[i].closed
        /\ (Fills(trades[i], p) \/ (Exits(trades[i], p) /\ TargetHit(trades[i], p)))}

Triggered(p) ==
    {i \in DOMAIN trades : ~ trades[i].closed /\ (Fills(trades[i], p) \/ Exits(trades[i], p))}

\* The row as it was read, and the columns of it that are written.
Checked(t, row) ==
    IF t.pending
    THEN [row EXCEPT !.pending = FALSE, !.entry = IF t.limit # 0 THEN t.limit ELSE price]
    ELSE Close(row, ExitPrice(t, price),
               ClosedPnl(t.side, t.entry, ExitPrice(t, price), t.quantity))

\* A ticker arrives; the trades that are not closed are read, and those it
\* triggers are the batch to write.
Ticker(p) ==
    /\ check = Idle /\ Busy < MaxBusy
    /\ price' = p
    /\ check' = IF Triggered(p) = {} THEN Idle
                ELSE [pc |-> "checking", batch |-> [i \in Triggered(p) |-> trades[i]]]
    /\ UNCHANGED <<trades, used, request, history>>

\* One commit for all of them.
CheckCommits ==
    /\ check # Idle /\ DOMAIN check.batch \subseteq DOMAIN trades
    /\ trades' = [i \in DOMAIN trades |->
                     IF i \in DOMAIN check.batch THEN Checked(check.batch[i], trades[i]) ELSE trades[i]]
    /\ check' = Idle
    /\ UNCHANGED <<used, request, price, history>>

\* A row that is gone fails the commit for all; so may the database.
CheckRollsBack ==
    /\ check # Idle
    /\ check' = Idle
    /\ UNCHANGED <<trades, used, request, price, history>>

-----------------------------------------------------------------------------
Closes(r) == StartClose(r) \/ PartialClose(r) \/ FullClose(r) \/ CloseFails(r)
Check     == (\E p \in Prices : Ticker(p)) \/ CheckCommits \/ CheckRollsBack

Next == OpenTrade \/ (\E r \in Requests : Closes(r)) \/ DeleteTrade \/ ClearClosed \/ Check

Spec == Init /\ [][Next]_vars

\* The exchange sends another ticker, at the last price if it does not move
\* (strong fairness, since the bound MaxBusy can hold it back), what has begun
\* goes on, and the database does not fail every commit of the check.
Fairness ==
    /\ SF_vars(price # 0 /\ Ticker(price))
    /\ WF_vars(CheckCommits \/ CheckRollsBack)
    /\ SF_vars(CheckCommits)
    /\ \A r \in Requests : WF_vars(FullClose(r) \/ PartialClose(r) \/ CloseFails(r))

FairSpec == Spec /\ Fairness

-----------------------------------------------------------------------------
(* Properties                                                                *)

Accounted(i) == QuantityOf(SplitFrom(i)) + removed[i]

\* Closes and deletes that overlap never make a part of a position disappear:
\* the rows split from a trade hold at least what was opened.
NothingIsLost == \A i \in Ids : Accounted(i) >= opened[i]

\* A limit order that was never filled is never closed, whatever the ticker
\* check and a close request read before.
UnfilledIsNotClosed == \A i \in DOMAIN trades : trades[i].closed => ~ trades[i].pending

\* The profit booked with a closed row is that of the exit written beside it,
\* for a quantity the trade has had: what overlapping closes write may be
\* stale, but two of them are never mixed in a row.
PnlMatchesExit ==
    \A i \in DOMAIN trades : trades[i].closed =>
        \E q \in Quantities :
            trades[i].pnl = ClosedPnl(trades[i].side, trades[i].entry, trades[i].exit, q)

\* So a closed row tells of an exit that was possible.
ClosedRowsAreSound == UnfilledIsNotClosed /\ PnlMatchesExit

\* Splitting a trade neither creates nor destroys quantity.
QuantityConserved == \A i \in Ids : Accounted(i) = opened[i]

\* A stop protects: no trade stays open while every ticker is beyond its stop,
\* though the check that should fire it is rolled back when another trade of
\* the same ticker is deleted.
StopFires ==
    \A i \in Ids :
        []<> ~ (i \in DOMAIN trades /\ ~ trades[i].pending /\ ~ trades[i].closed
                 /\ price # 0 /\ StopHit(trades[i], price))
=============================================================================
