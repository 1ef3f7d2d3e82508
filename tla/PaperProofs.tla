---------------------------- MODULE PaperProofs ----------------------------
(***************************************************************************)
(* Proofs about paper trading, for any ids, requests, prices and payloads  *)
(* and any number of sessions in progress.                                 *)
(***************************************************************************)
EXTENDS PaperTrading, FiniteSetTheorems, WellFoundedInduction, TLAPS

\* The types, without the history of quantities.
Typed ==
    /\ IsTable(trades)
    /\ DOMAIN trades \subseteq used
    /\ used \subseteq Ids
    /\ request \in [Requests -> {Idle} \cup Closing]
    /\ \/ check = Idle
       \/ /\ check = [pc |-> "checking", batch |-> check.batch]
          /\ IsTable(check.batch)
          /\ price \in Prices
    /\ price \in Price0

BookedAt(row) ==
    row.closed => /\ ~ row.pending
                  /\ \E q \in Quantities : row.pnl = ClosedPnl(row.side, row.entry, row.exit, q)

\* A row and what a session has read of it: no field that the profit or the
\* choice between filling and exiting depends on has changed.
SameTerms(row, seen) ==
    row.side = seen.side /\ row.entry = seen.entry /\ row.pending = seen.pending

RowsInv == \A i \in DOMAIN trades : BookedAt(trades[i])

RequestInv ==
    \A r \in Requests : request[r] # Idle =>
        /\ request[r].id \in used
        /\ ~ request[r].seen.pending
        /\ request[r].id \in DOMAIN trades => SameTerms(trades[request[r].id], request[r].seen)

CheckInv ==
    check # Idle => \A i \in DOMAIN check.batch :
        /\ i \in used
        /\ i \in DOMAIN trades => SameTerms(trades[i], check.batch[i])
        /\ \/ check.batch[i].pending
           \/ StopHit(check.batch[i], price)
           \/ TargetHit(check.batch[i], price)

Inv == Typed /\ RowsInv /\ RequestInv /\ CheckInv

-----------------------------------------------------------------------------
(* Rows and tables. *)

LEMMA PnlIsInt ==
    ASSUME PaperAssumption, NEW side, NEW entry \in Price0, NEW exit \in Price0, NEW q \in Quantities
    PROVE  ClosedPnl(side, entry, exit, q) \in Int
<1>1. entry \in Int /\ exit \in Int /\ q \in Int /\ FeePercent \in Int
  BY DEF PaperAssumption, Price0, Quantities
<1>2. (exit - entry) * q \in Int /\ (entry - exit) * q \in Int
  BY <1>1
<1>3. (entry + exit) * q \in Int
  BY <1>1
<1>4. (entry + exit) * q * FeePercent \in Int
  BY <1>1, <1>3
<1> QED
  BY <1>2, <1>4 DEF ClosedPnl

\* Closing a row keeps its terms and books the profit of its exit.
LEMMA CloseFacts ==
    ASSUME PaperAssumption, NEW row \in Row, NEW exit \in Prices, NEW q \in Quantities
    PROVE  LET done == Close(row, exit, ClosedPnl(row.side, row.entry, exit, q))
           IN  /\ done \in Row
               /\ SameTerms(done, row)
               /\ ~ row.pending => BookedAt(done)
<1> DEFINE pnl == ClosedPnl(row.side, row.entry, exit, q)
           done == Close(row, exit, pnl)
<1>1. pnl \in Int
  BY PnlIsInt DEF Row, Price0
<1>2. exit \in Price0
  BY DEF Price0
<1> HIDE DEF pnl
<1>3. done \in Row
  BY <1>1, <1>2 DEF Close, Row
<1>4. SameTerms(done, row) /\ done.exit = exit /\ done.pnl = pnl
  BY DEF Close, Row, SameTerms
<1>5. ASSUME ~ row.pending PROVE BookedAt(done)
  BY <1>4, <1>5 DEF BookedAt, SameTerms, pnl
<1> QED
  BY <1>3, <1>4, <1>5 DEF pnl

LEMMA InsertFacts ==
    ASSUME NEW f, IsTable(f), NEW i \in Ids, i \notin DOMAIN f, NEW row \in Row
    PROVE  /\ IsTable(Insert(f, i, row))
           /\ DOMAIN Insert(f, i, row) = DOMAIN f \cup {i}
           /\ Insert(f, i, row)[i] = row
           /\ \A j \in DOMAIN f : Insert(f, i, row)[j] = f[j]
BY DEF IsTable, Insert

\* Steps that change no row, or only delete rows, keep what was said of rows
\* and of what the sessions have read.
LEMMA RowsShrink ==
    ASSUME Inv, DOMAIN trades' \subseteq DOMAIN trades, \A i \in DOMAIN trades' : trades'[i] = trades[i],
           IsTable(trades'), used' = used
    PROVE  /\ IsTable(trades') /\ DOMAIN trades' \subseteq used' /\ used' \subseteq Ids
           /\ RowsInv'
           /\ UNCHANGED request => RequestInv'
           /\ UNCHANGED <<check, price>> => CheckInv'
<1>1. RowsInv'
  BY DEF Inv, RowsInv
<1>2. UNCHANGED request => RequestInv'
  BY DEF Inv, RequestInv
<1>3. UNCHANGED <<check, price>> => CheckInv'
  BY DEF Inv, CheckInv
<1> QED
  BY <1>1, <1>2, <1>3 DEF Inv, Typed

\* A new row, with an id nobody has seen.
LEMMA RowsGrow ==
    ASSUME Inv, NEW i \in Ids \ used, used' = used \cup {i}, NEW row \in Row, BookedAt(row),
           trades' = Insert(trades, i, row)
    PROVE  /\ IsTable(trades') /\ DOMAIN trades' \subseteq used' /\ used' \subseteq Ids
           /\ RowsInv'
           /\ UNCHANGED request => RequestInv'
           /\ UNCHANGED <<check, price>> => CheckInv'
<1>1. /\ IsTable(trades')
      /\ DOMAIN trades' = DOMAIN trades \cup {i}
      /\ trades'[i] = row
      /\ \A j \in DOMAIN trades : trades'[j] = trades[j]
  <2>1. IsTable(trades) /\ i \in Ids /\ i \notin DOMAIN trades
    BY DEF Inv, Typed
  <2> QED
    BY <2>1, InsertFacts
<1>2. RowsInv'
  BY <1>1 DEF Inv, RowsInv
<1>3. UNCHANGED request => RequestInv'
  BY <1>1 DEF Inv, RequestInv
<1>4. UNCHANGED <<check, price>> => CheckInv'
  BY <1>1 DEF Inv, CheckInv
<1> QED
  BY <1>1, <1>2, <1>3, <1>4 DEF Inv, Typed

\* Rows written in place, their terms kept.
LEMMA RowsWritten ==
    ASSUME Inv, DOMAIN trades' = DOMAIN trades, IsTable(trades'), used \subseteq used', used' \subseteq Ids,
           \A i \in DOMAIN trades : SameTerms(trades'[i], trades[i]) /\ BookedAt(trades'[i])
    PROVE  /\ DOMAIN trades' \subseteq used'
           /\ RowsInv'
           /\ UNCHANGED request => RequestInv'
           /\ UNCHANGED <<check, price>> => CheckInv'
<1>1. RowsInv'
  BY DEF RowsInv
<1>2. UNCHANGED request => RequestInv'
  BY DEF Inv, RequestInv, SameTerms
<1>3. UNCHANGED <<check, price>> => CheckInv'
  BY DEF Inv, CheckInv, SameTerms
<1> QED
  BY <1>1, <1>2, <1>3 DEF Inv, Typed

-----------------------------------------------------------------------------
(* The steps. *)

LEMMA InitInv ==
    ASSUME Init PROVE Inv
<1> USE DEF Init
<1>1. Typed
  BY DEF Typed, IsTable, Price0
<1>2. RowsInv /\ RequestInv /\ CheckInv
  BY DEF RowsInv, RequestInv, CheckInv
<1> QED
  BY <1>1, <1>2 DEF Inv

LEMMA OpenStep ==
    ASSUME PaperAssumption, Inv, OpenTrade PROVE Inv'
<1>1. PICK i \in Ids \ used, payload \in Payloads :
         /\ trades' = Insert(trades, i, NewTrade(payload))
         /\ used' = used \cup {i}
         /\ UNCHANGED <<request, check, price>>
  BY DEF OpenTrade
<1>2. NewTrade(payload) \in Row /\ BookedAt(NewTrade(payload))
  <2>1. payload \in PayloadRecord
    BY DEF PaperAssumption
  <2>2. 0 \in Price0 /\ 0 \in Int /\ (payload.limit # 0 => payload.limit \in Prices)
    BY <2>1 DEF PayloadRecord, Price0
  <2>3. NewTrade(payload) \in Row
    BY <2>1, <2>2 DEF NewTrade, Row, PayloadRecord
  <2> QED
    BY <2>3 DEF NewTrade, BookedAt
<1>3. /\ IsTable(trades') /\ DOMAIN trades' \subseteq used' /\ used' \subseteq Ids
      /\ RowsInv' /\ RequestInv' /\ CheckInv'
  BY <1>1, <1>2, RowsGrow
<1> QED
  BY <1>1, <1>3 DEF Inv, Typed

\* The session that ends leaves what was said of the others.
LEMMA RequestEnds ==
    ASSUME Inv, NEW r \in Requests, request' = [request EXCEPT ![r] = Idle]
    PROVE  /\ request' \in [Requests -> {Idle} \cup Closing]
           /\ (\A q \in Requests : request[q] # Idle =>
                 /\ request[q].id \in used'
                 /\ ~ request[q].seen.pending
                 /\ request[q].id \in DOMAIN trades' => SameTerms(trades'[request[q].id], request[q].seen))
              => RequestInv'
BY DEF Inv, Typed, RequestInv

LEMMA StartCloseStep ==
    ASSUME Inv, NEW r \in Requests, StartClose(r) PROVE Inv'
<1>1. PICK i \in DOMAIN trades, q \in Quantities, exit \in Prices :
         /\ ~ trades[i].pending
         /\ request' = [request EXCEPT ![r] = [pc |-> "closing", id |-> i, seen |-> trades[i],
                                               quantity |-> q, exit |-> exit]]
         /\ UNCHANGED <<trades, used, check, price>>
  BY DEF StartClose
<1>2. i \in Ids /\ i \in used /\ trades[i] \in Row
  BY DEF Inv, Typed, IsTable
<1>3. Typed'
  BY <1>1, <1>2 DEF Inv, Typed, Closing
<1>4. RequestInv'
  BY <1>1, <1>2 DEF Inv, Typed, RequestInv, SameTerms
<1>5. RowsInv' /\ CheckInv'
  BY <1>1 DEF Inv, RowsInv, CheckInv
<1> QED
  BY <1>3, <1>4, <1>5 DEF Inv

LEMMA CloseFailsStep ==
    ASSUME Inv, NEW r \in Requests, CloseFails(r) PROVE Inv'
<1>1. RequestInv' /\ request' \in [Requests -> {Idle} \cup Closing]
  BY RequestEnds DEF CloseFails, Inv, RequestInv
<1> QED
  BY <1>1 DEF Inv, Typed, RowsInv, CheckInv, CloseFails

LEMMA FullCloseStep ==
    ASSUME PaperAssumption, Inv, NEW r \in Requests, FullClose(r) PROVE Inv'
<1> DEFINE c == request[r]
           row == trades[c.id]
           pnl == ClosedPnl(c.seen.side, c.seen.entry, c.exit, c.quantity)
<1>1. /\ c # Idle /\ c.id \in DOMAIN trades
      /\ trades' = [trades EXCEPT ![c.id] = Close(row, c.exit, pnl)]
      /\ request' = [request EXCEPT ![r] = Idle]
      /\ UNCHANGED <<used, check, price>>
  BY DEF FullClose
<1>2. c \in Closing /\ row \in Row /\ IsTable(trades)
  BY <1>1 DEF Inv, Typed, IsTable
<1>3. SameTerms(row, c.seen) /\ ~ row.pending
  BY <1>1 DEF Inv, RequestInv, SameTerms
<1>4. pnl = ClosedPnl(row.side, row.entry, c.exit, c.quantity)
  BY <1>3 DEF SameTerms
<1>5. /\ Close(row, c.exit, pnl) \in Row
      /\ SameTerms(Close(row, c.exit, pnl), row)
      /\ BookedAt(Close(row, c.exit, pnl))
  BY <1>2, <1>3, <1>4, CloseFacts DEF Closing
<1> HIDE DEF pnl
<1>6. IsTable(trades') /\ DOMAIN trades' = DOMAIN trades
  BY <1>1, <1>2, <1>5 DEF IsTable
<1>7. \A i \in DOMAIN trades : SameTerms(trades'[i], trades[i]) /\ BookedAt(trades'[i])
  BY <1>1, <1>5 DEF Inv, RowsInv, SameTerms
<1>8. DOMAIN trades' \subseteq used' /\ RowsInv' /\ CheckInv'
  BY <1>1, <1>6, <1>7, RowsWritten DEF Inv, Typed
<1>9. RequestInv' /\ request' \in [Requests -> {Idle} \cup Closing]
  BY <1>1, <1>6, <1>7, RequestEnds DEF Inv, RequestInv, SameTerms
<1> QED
  BY <1>1, <1>6, <1>8, <1>9 DEF Inv, Typed

LEMMA PartialCloseStep ==
    ASSUME PaperAssumption, Inv, NEW r \in Requests, PartialClose(r) PROVE Inv'
<1> DEFINE c == request[r]
           left == c.seen.quantity - c.quantity
           kept == [trades EXCEPT ![c.id].quantity = left]
           pnl == ClosedPnl(c.seen.side, c.seen.entry, c.exit, c.quantity)
           part == ClosedPart(c, pnl)
<1>1. c # Idle /\ c.id \in DOMAIN trades /\ c.quantity < c.seen.quantity
  BY DEF PartialClose
<1>2. PICK i \in Ids \ used : trades' = Insert(kept, i, part) /\ used' = used \cup {i}
  BY DEF PartialClose
<1>3. request' = [request EXCEPT ![r] = Idle] /\ UNCHANGED <<check, price>>
  BY DEF PartialClose
<1>4. c \in Closing /\ c.seen \in Row /\ IsTable(trades) /\ trades[c.id] \in Row
  BY <1>1 DEF Inv, Typed, IsTable, Closing
<1>5. left \in Quantities
  BY <1>1, <1>4 DEF Closing, Row, Quantities, PaperAssumption
<1>6. part \in Row /\ BookedAt(part)
  <2> DEFINE done == Close(c.seen, c.exit, pnl)
  <2>1. done \in Row /\ SameTerms(done, c.seen)
    BY <1>4, CloseFacts DEF Closing
  <2>2. c.quantity \in Quantities /\ c.exit \in Prices /\ ~ c.seen.pending
    BY <1>1, <1>4 DEF Closing, Inv, RequestInv
  <2>3. done.exit = c.exit /\ done.pnl = pnl
    BY <1>4 DEF Close, Row
  <2>4. part = [done EXCEPT !.quantity = c.quantity, !.limit = 0]
    BY DEF ClosedPart
  <2> HIDE DEF done, pnl, part
  <2>5. part \in Row
    BY <2>1, <2>2, <2>4 DEF Row, Price0
  <2>6. SameTerms(part, c.seen) /\ part.exit = c.exit /\ part.pnl = pnl
    BY <2>1, <2>3, <2>4 DEF Row, SameTerms
  <2>7. pnl = ClosedPnl(part.side, part.entry, part.exit, c.quantity)
    BY <2>6 DEF SameTerms, pnl
  <2> QED
    BY <2>2, <2>5, <2>6, <2>7 DEF BookedAt, SameTerms
<1> HIDE DEF left, part
<1>7. IsTable(kept) /\ DOMAIN kept = DOMAIN trades
  BY <1>4, <1>5 DEF IsTable, Row
<1>8. \A j \in DOMAIN trades : SameTerms(kept[j], trades[j]) /\ BookedAt(kept[j])
  <2> SUFFICES ASSUME NEW j \in DOMAIN trades PROVE SameTerms(kept[j], trades[j]) /\ BookedAt(kept[j])
    OBVIOUS
  <2>1. BookedAt(trades[j]) /\ trades[j] \in Row
    BY <1>4 DEF Inv, RowsInv, IsTable
  <2>2. CASE j # c.id
    BY <2>1, <2>2 DEF SameTerms
  <2>3. CASE j = c.id
    <3>1. kept[j] = [trades[j] EXCEPT !.quantity = left]
      BY <2>3
    <3> QED
      BY <2>1, <3>1 DEF SameTerms, BookedAt, Row
  <2> QED
    BY <2>2, <2>3
<1> HIDE DEF kept
<1>9. i \in Ids /\ i \notin DOMAIN trades
  BY <1>2 DEF Inv, Typed
<1>10. /\ IsTable(trades') /\ DOMAIN trades' = DOMAIN trades \cup {i}
       /\ trades'[i] = part /\ \A j \in DOMAIN trades : trades'[j] = kept[j]
  <2> DEFINE new == Insert(kept, i, part)
  <2>1. i \notin DOMAIN kept /\ part \in Row
    BY <1>6, <1>7, <1>9
  <2>2. /\ IsTable(new) /\ DOMAIN new = DOMAIN kept \cup {i}
        /\ new[i] = part /\ \A j \in DOMAIN kept : new[j] = kept[j]
    BY <1>7, <1>9, <2>1, InsertFacts
  <2>3. trades' = new
    BY <1>2
  <2> HIDE DEF new
  <2> QED
    BY <1>7, <2>2, <2>3
<1>11. RowsInv'
  BY <1>6, <1>8, <1>10 DEF RowsInv
<1>12. \A j \in used \cap DOMAIN trades' : j \in DOMAIN trades /\ SameTerms(trades'[j], trades[j])
  <2> SUFFICES ASSUME NEW j \in used, j \in DOMAIN trades'
               PROVE j \in DOMAIN trades /\ SameTerms(trades'[j], trades[j])
    OBVIOUS
  <2>1. j # i
    BY <1>2
  <2>2. j \in DOMAIN trades /\ trades'[j] = kept[j]
    BY <1>10, <2>1
  <2> QED
    BY <1>8, <2>2
<1>13. RequestInv' /\ request' \in [Requests -> {Idle} \cup Closing]
  <2>1. \A q \in Requests : request[q] # Idle =>
           /\ request[q].id \in used'
           /\ ~ request[q].seen.pending
           /\ request[q].id \in DOMAIN trades' => SameTerms(trades'[request[q].id], request[q].seen)
    <3> SUFFICES ASSUME NEW q \in Requests, request[q] # Idle
                 PROVE  /\ request[q].id \in used'
                        /\ ~ request[q].seen.pending
                        /\ request[q].id \in DOMAIN trades' =>
                              SameTerms(trades'[request[q].id], request[q].seen)
      OBVIOUS
    <3>1. /\ request[q].id \in used /\ ~ request[q].seen.pending
          /\ request[q].id \in DOMAIN trades => SameTerms(trades[request[q].id], request[q].seen)
      BY DEF Inv, RequestInv
    <3> QED
      BY <1>2, <1>12, <3>1 DEF SameTerms
  <2> QED
    BY <1>3, <2>1, RequestEnds
<1>14. CheckInv'
  BY <1>2, <1>3, <1>12 DEF Inv, CheckInv, SameTerms
<1>15. DOMAIN trades' \subseteq used' /\ used' \subseteq Ids
  BY <1>2, <1>10 DEF Inv, Typed
<1> QED
  BY <1>3, <1>10, <1>11, <1>13, <1>14, <1>15 DEF Inv, Typed

LEMMA DeleteStep ==
    ASSUME Inv, NEW S, Delete(S) PROVE Inv'
<1>1. /\ trades' = [j \in DOMAIN trades \ S |-> trades[j]]
      /\ UNCHANGED <<used, request, check, price>>
  BY DEF Delete
<1>2. /\ DOMAIN trades' \subseteq DOMAIN trades
      /\ \A i \in DOMAIN trades' : trades'[i] = trades[i]
      /\ IsTable(trades')
  BY <1>1 DEF Inv, Typed, IsTable
<1>3. /\ IsTable(trades') /\ DOMAIN trades' \subseteq used' /\ used' \subseteq Ids
      /\ RowsInv' /\ RequestInv' /\ CheckInv'
  BY <1>1, <1>2, RowsShrink
<1> QED
  BY <1>1, <1>3 DEF Inv, Typed

LEMMA TickerStep ==
    ASSUME Inv, NEW p \in Prices, Ticker(p) PROVE Inv'
<1> DEFINE batch == [i \in Triggered(p) |-> trades[i]]
<1>1. /\ check = Idle /\ price' = p /\ UNCHANGED <<trades, used, request>>
      /\ check' = Idle \/ check' = [pc |-> "checking", batch |-> batch]
  BY DEF Ticker
<1>2. Triggered(p) \subseteq DOMAIN trades
  BY DEF Triggered
<1>3. IsTable(batch)
  BY <1>2 DEF Inv, Typed, IsTable
<1>4. \A i \in DOMAIN batch :
         /\ i \in used /\ SameTerms(trades[i], batch[i])
         /\ batch[i].pending \/ StopHit(batch[i], p) \/ TargetHit(batch[i], p)
  BY <1>2 DEF Inv, Typed, SameTerms, Triggered, Fills, Exits
<1> HIDE DEF batch
<1>5. Typed'
  BY <1>1, <1>3 DEF Inv, Typed, Price0
<1>6. CheckInv'
  <2>1. CASE check' = Idle
    BY <2>1 DEF CheckInv
  <2>2. CASE check' = [pc |-> "checking", batch |-> batch]
    <3>1. check'.batch = batch
      BY <2>2
    <3> QED
      BY <1>1, <1>4, <3>1 DEF CheckInv
  <2> QED
    BY <1>1, <2>1, <2>2
<1>7. RowsInv' /\ RequestInv'
  BY <1>1 DEF Inv, RowsInv, RequestInv
<1> QED
  BY <1>5, <1>6, <1>7 DEF Inv

\* What the check writes in a row it has read as t.
LEMMA CheckedFacts ==
    ASSUME PaperAssumption, NEW t \in Row, NEW row \in Row, SameTerms(row, t), price \in Prices,
           BookedAt(row), t.pending \/ StopHit(t, price) \/ TargetHit(t, price)
    PROVE  /\ Checked(t, row) \in Row
           /\ BookedAt(Checked(t, row))
           /\ ~ Checked(t, row).pending
           /\ ~ t.pending => SameTerms(Checked(t, row), row)
<1>1. CASE t.pending
  <2> DEFINE fill == IF t.limit # 0 THEN t.limit ELSE price
  <2>1. fill \in Prices
    BY DEF Row, Price0
  <2>2. Checked(t, row) = [row EXCEPT !.pending = FALSE, !.entry = fill]
    BY <1>1 DEF Checked
  <2>3. row.pending /\ ~ row.closed
    BY <1>1 DEF SameTerms, BookedAt
  <2> HIDE DEF fill
  <2> QED
    BY <1>1, <2>1, <2>2, <2>3 DEF Row, BookedAt
<1>2. CASE ~ t.pending
  <2> DEFINE exit == ExitPrice(t, price)
             pnl == ClosedPnl(t.side, t.entry, exit, t.quantity)
  <2>1. exit \in Prices
    BY <1>2 DEF ExitPrice, StopHit, TargetHit, Row, Price0
  <2>2. Checked(t, row) = Close(row, exit, ClosedPnl(row.side, row.entry, exit, t.quantity))
    BY <1>2 DEF Checked, SameTerms
  <2>3. ~ row.pending /\ t.quantity \in Quantities
    BY <1>2 DEF SameTerms, Row
  <2> HIDE DEF exit
  <2>4. /\ Checked(t, row) \in Row
        /\ SameTerms(Checked(t, row), row)
        /\ BookedAt(Checked(t, row))
    BY <2>1, <2>2, <2>3, CloseFacts
  <2> QED
    BY <2>3, <2>4 DEF SameTerms
<1> QED
  BY <1>1, <1>2

LEMMA CheckCommitsStep ==
    ASSUME PaperAssumption, Inv, CheckCommits PROVE Inv'
<1> DEFINE batch == check.batch
<1>1. /\ check # Idle /\ DOMAIN batch \subseteq DOMAIN trades
      /\ trades' = [i \in DOMAIN trades |->
                       IF i \in DOMAIN batch THEN Checked(batch[i], trades[i]) ELSE trades[i]]
      /\ check' = Idle /\ UNCHANGED <<used, request, price>>
  BY DEF CheckCommits
<1>2. IsTable(batch) /\ IsTable(trades) /\ price \in Prices
  BY <1>1 DEF Inv, Typed
<1>3. \A i \in DOMAIN trades : trades[i] \in Row /\ BookedAt(trades[i])
  BY <1>2 DEF Inv, RowsInv, IsTable
<1>4. ASSUME NEW i \in DOMAIN batch
      PROVE  /\ Checked(batch[i], trades[i]) \in Row
             /\ BookedAt(Checked(batch[i], trades[i]))
             /\ ~ trades[i].pending => SameTerms(Checked(batch[i], trades[i]), trades[i])
  <2>1. batch[i] \in Row /\ trades[i] \in Row /\ BookedAt(trades[i])
    BY <1>1, <1>2, <1>3 DEF IsTable
  <2>2. /\ SameTerms(trades[i], batch[i])
        /\ batch[i].pending \/ StopHit(batch[i], price) \/ TargetHit(batch[i], price)
    BY <1>1 DEF Inv, CheckInv
  <2> QED
    BY <1>2, <2>1, <2>2, CheckedFacts DEF SameTerms
<1>5. \A i \in DOMAIN trades :
         /\ trades'[i] \in Row /\ BookedAt(trades'[i])
         /\ ~ trades[i].pending => SameTerms(trades'[i], trades[i])
  BY <1>1, <1>3, <1>4 DEF SameTerms
<1>6. IsTable(trades') /\ DOMAIN trades' = DOMAIN trades
  BY <1>1, <1>2, <1>5 DEF IsTable
<1>7. RowsInv'
  BY <1>5, <1>6 DEF RowsInv
<1>8. RequestInv'
  BY <1>1, <1>5, <1>6 DEF Inv, RequestInv, SameTerms
<1>9. CheckInv'
  BY <1>1 DEF CheckInv
<1> QED
  BY <1>1, <1>6, <1>7, <1>8, <1>9 DEF Inv, Typed

LEMMA NextInv ==
    ASSUME PaperAssumption, Inv, [Next]_vars PROVE Inv'
<1>1. CASE OpenTrade
  BY <1>1, OpenStep
<1>2. ASSUME NEW r \in Requests, Closes(r) PROVE Inv'
  BY <1>2, StartCloseStep, PartialCloseStep, FullCloseStep, CloseFailsStep DEF Closes
<1>3. CASE DeleteTrade
  BY <1>3, DeleteStep DEF DeleteTrade
<1>4. CASE ClearClosed
  BY <1>4, DeleteStep DEF ClearClosed
<1>5. ASSUME NEW p \in Prices, Ticker(p) PROVE Inv'
  BY <1>5, TickerStep
<1>6. CASE CheckCommits
  BY <1>6, CheckCommitsStep
<1>7. CASE CheckRollsBack
  BY <1>7 DEF CheckRollsBack, Inv, Typed, RowsInv, RequestInv, CheckInv
<1>8. CASE UNCHANGED vars
  BY <1>8 DEF vars, Inv, Typed, RowsInv, RequestInv, CheckInv
<1> QED
  BY <1>1, <1>2, <1>3, <1>4, <1>5, <1>6, <1>7, <1>8 DEF Next, Check

\* In every reachable state Inv holds.
LEMMA Invariance == Spec => []Inv
<1>1. Init => Inv
  BY InitInv
<1>2. Inv /\ [Next]_vars => Inv'
  BY PaperAssumption, NextInv
<1> QED
  BY <1>1, <1>2, PTL DEF Spec

-----------------------------------------------------------------------------
(* Sums over finite sets. *)

\* Among the subsets of a finite set that have a property one is minimal: what
\* an induction over finite sets comes to.
LEMMA MinimalSubset ==
    ASSUME NEW S, IsFiniteSet(S), NEW Bad \in SUBSET SUBSET S, Bad # {}
    PROVE  \E T \in Bad : \A U \in Bad : U \subseteq T => U = T
<1>1. FiniteSubsetsOf(S) = SUBSET S
  BY FS_FiniteSubsetsOfFinite
<1>2. IsWellFoundedOn(StrictSubsetOrdering(S), SUBSET S)
  BY <1>1, FS_StrictSubsetOrderingWellFounded
<1>3. PICK T \in Bad : \A U \in Bad : ~ (<<U, T>> \in StrictSubsetOrdering(S))
  BY <1>2, WFMin
<1> QED
  BY <1>3 DEF StrictSubsetOrdering

\* The sum that MapThenSumSet takes, as the function of a set that it is.
Pick(T) == CHOOSE x \in T : TRUE
Adds(f, rows, S) ==
    f = [T \in SUBSET S |-> IF T = {} THEN 0 ELSE rows[Pick(T)].quantity + f[T \ {Pick(T)}]]
Sum(rows, S) == (CHOOSE f : Adds(f, rows, S))[S]

LEMMA PickIn == ASSUME NEW T, T # {} PROVE Pick(T) \in T
BY DEF Pick

LEMMA QuantityIsSum == \A S : QuantityOf(S) = Sum(trades, S)
BY DEF QuantityOf, MapThenSumSet, MapThenFoldSet, Sum, Adds, Pick

LEMMA OneSum ==
    ASSUME NEW rows, NEW S, IsFiniteSet(S), NEW R, NEW f, NEW g, Adds(f, rows, S), Adds(g, rows, R), S \subseteq R
    PROVE  \A T \in SUBSET S : f[T] = g[T]
<1> DEFINE Bad == {T \in SUBSET S : f[T] # g[T]}
<1> SUFFICES ASSUME Bad # {} PROVE FALSE
  OBVIOUS
<1>1. PICK T \in Bad : \A U \in Bad : U \subseteq T => U = T
  <2>1. Bad \in SUBSET SUBSET S
    OBVIOUS
  <2> HIDE DEF Bad
  <2> QED
    BY <2>1, MinimalSubset
<1>2. /\ f[T] = IF T = {} THEN 0 ELSE rows[Pick(T)].quantity + f[T \ {Pick(T)}]
      /\ g[T] = IF T = {} THEN 0 ELSE rows[Pick(T)].quantity + g[T \ {Pick(T)}]
  <2>1. T \in SUBSET S /\ T \in SUBSET R
    BY <1>1
  <2>2. f[T] = IF T = {} THEN 0 ELSE rows[Pick(T)].quantity + f[T \ {Pick(T)}]
    BY <2>1 DEF Adds
  <2>3. g[T] = IF T = {} THEN 0 ELSE rows[Pick(T)].quantity + g[T \ {Pick(T)}]
    BY <2>1 DEF Adds
  <2> QED
    BY <2>2, <2>3
<1>3. T # {} => f[T \ {Pick(T)}] = g[T \ {Pick(T)}]
  BY <1>1, PickIn
<1> QED
  BY <1>1, <1>2, <1>3

LEMMA SumExists ==
    ASSUME NEW rows, NEW S, IsFiniteSet(S) PROVE \E f : Adds(f, rows, S)
<1> DEFINE Bad == {T \in SUBSET S : ~ \E f : Adds(f, rows, T)}
<1> SUFFICES ASSUME Bad # {} PROVE FALSE
  OBVIOUS
<1>1. PICK U \in Bad : \A V \in Bad : V \subseteq U => V = U
  <2>1. Bad \in SUBSET SUBSET S
    OBVIOUS
  <2> HIDE DEF Bad
  <2> QED
    BY <2>1, MinimalSubset
<1> DEFINE Some(V) == CHOOSE f : Adds(f, rows, V)
           g == [T \in SUBSET U |-> IF T = {} THEN 0 ELSE rows[Pick(T)].quantity + Some(T \ {Pick(T)})[T \ {Pick(T)}]]
<1>2. \A V \in SUBSET U : V # U => Adds(Some(V), rows, V) /\ IsFiniteSet(V)
  <2> SUFFICES ASSUME NEW V \in SUBSET U, V # U PROVE Adds(Some(V), rows, V) /\ IsFiniteSet(V)
    OBVIOUS
  <2>1. IsFiniteSet(V)
    BY <1>1, FS_Subset
  <2>2. \E f : Adds(f, rows, V)
    BY <1>1
  <2> QED
    BY <2>1, <2>2
<1>3. ASSUME NEW V \in SUBSET U, V # U PROVE g[V] = Some(V)[V]
  <2>1. Adds(Some(V), rows, V) /\ IsFiniteSet(V)
    BY <1>2, <1>3
  <2>2. Some(V)[V] = IF V = {} THEN 0 ELSE rows[Pick(V)].quantity + Some(V)[V \ {Pick(V)}]
    <3> HIDE DEF Some
    <3> QED
      BY <2>1 DEF Adds
  <2>3. g[V] = IF V = {} THEN 0 ELSE rows[Pick(V)].quantity + Some(V \ {Pick(V)})[V \ {Pick(V)}]
    OBVIOUS
  <2>4. ASSUME V # {} PROVE Some(V \ {Pick(V)})[V \ {Pick(V)}] = Some(V)[V \ {Pick(V)}]
    <3>1. PICK W : W = V \ {Pick(V)}
      OBVIOUS
    <3>2. W \in SUBSET U /\ W # U /\ W \subseteq V /\ W \in SUBSET W
      BY <2>4, <3>1, PickIn
    <3>3. Adds(Some(W), rows, W) /\ IsFiniteSet(W)
      BY <1>2, <3>2
    <3> HIDE DEF Some, g
    <3>4. Some(W)[W] = Some(V)[W]
      BY <2>1, <3>2, <3>3, OneSum
    <3> QED
      BY <3>1, <3>4
  <2> HIDE DEF Some, g
  <2> QED
    BY <2>2, <2>3, <2>4
<1>4. \A T \in SUBSET U : g[T] = IF T = {} THEN 0 ELSE rows[Pick(T)].quantity + g[T \ {Pick(T)}]
  <2> SUFFICES ASSUME NEW T \in SUBSET U
               PROVE  g[T] = IF T = {} THEN 0 ELSE rows[Pick(T)].quantity + g[T \ {Pick(T)}]
    OBVIOUS
  <2>1. g[T] = IF T = {} THEN 0 ELSE rows[Pick(T)].quantity + Some(T \ {Pick(T)})[T \ {Pick(T)}]
    <3> HIDE DEF Some
    <3> QED
      OBVIOUS
  <2>2. T # {} => T \ {Pick(T)} \in SUBSET U /\ T \ {Pick(T)} # U
    BY PickIn
  <2> HIDE DEF g, Some
  <2> QED
    BY <1>3, <2>1, <2>2
<1>5. g = [T \in SUBSET U |-> IF T = {} THEN 0 ELSE rows[Pick(T)].quantity + g[T \ {Pick(T)}]]
  <2>1. g = [T \in SUBSET U |-> g[T]]
    OBVIOUS
  <2> HIDE DEF g
  <2> QED
    BY <1>4, <2>1
<1>6. Adds(g, rows, U)
  <2> HIDE DEF g
  <2> QED
    BY <1>5 DEF Adds
<1> QED
  BY <1>1, <1>6

\* What the sum of a set is: from that of the set without one element.
LEMMA SumByPick ==
    ASSUME NEW rows, NEW S, IsFiniteSet(S)
    PROVE  Sum(rows, S) = IF S = {} THEN 0 ELSE rows[Pick(S)].quantity + Sum(rows, S \ {Pick(S)})
<1>1. PICK T : T = S \ {Pick(S)}
  OBVIOUS
<1>2. IsFiniteSet(T) /\ T \subseteq S /\ T \in SUBSET T
  BY <1>1, FS_Subset
<1>3. PICK f : f = CHOOSE h : Adds(h, rows, S)
  OBVIOUS
<1>4. PICK g : g = CHOOSE h : Adds(h, rows, T)
  OBVIOUS
<1>5. Adds(f, rows, S) /\ Adds(g, rows, T)
  BY <1>2, <1>3, <1>4, SumExists
<1>6. f[S] = IF S = {} THEN 0 ELSE rows[Pick(S)].quantity + f[T]
  BY <1>1, <1>5 DEF Adds
<1>7. f[T] = g[T]
  BY <1>2, <1>5, OneSum
<1> QED
  BY <1>1, <1>3, <1>4, <1>6, <1>7 DEF Sum

LEMMA SumOfNone == \A rows : Sum(rows, {}) = 0
BY SumByPick, FS_EmptySet

\* A minimal set of which something does not hold is not empty, and what is
\* left without any of its elements is finite and not such a set.
LEMMA SumIsNat ==
    ASSUME NEW rows, NEW S, IsFiniteSet(S), \A x \in S : rows[x].quantity \in Nat
    PROVE  Sum(rows, S) \in Nat
<1> DEFINE Bad == {T \in SUBSET S : Sum(rows, T) \notin Nat}
<1> SUFFICES ASSUME Bad # {} PROVE FALSE
  <2>1. S \in SUBSET S
    OBVIOUS
  <2> QED
    BY <2>1
<1>1. PICK T \in Bad : \A U \in Bad : U \subseteq T => U = T
  <2>1. Bad \in SUBSET SUBSET S
    OBVIOUS
  <2> HIDE DEF Bad
  <2> QED
    BY <2>1, MinimalSubset
<1>2. IsFiniteSet(T)
  BY <1>1, FS_Subset
<1>3. T # {} /\ Sum(rows, T) = rows[Pick(T)].quantity + Sum(rows, T \ {Pick(T)})
  BY <1>1, <1>2, SumByPick
<1>4. T \ {Pick(T)} \notin Bad
  BY <1>1, <1>3, PickIn
<1>5. Sum(rows, T \ {Pick(T)}) \in Nat /\ rows[Pick(T)].quantity \in Nat
  BY <1>1, <1>3, <1>4, PickIn
<1> QED
  BY <1>1, <1>3, <1>5

\* The order in which a sum is taken makes no difference.
LEMMA SumWithout ==
    ASSUME NEW rows, NEW S, IsFiniteSet(S), \A x \in S : rows[x].quantity \in Nat, NEW y \in S
    PROVE  Sum(rows, S) = rows[y].quantity + Sum(rows, S \ {y})
<1> DEFINE Bad == {T \in SUBSET S : \E x \in T : Sum(rows, T) # rows[x].quantity + Sum(rows, T \ {x})}
<1> SUFFICES ASSUME Bad # {} PROVE FALSE
  <2>1. S \in SUBSET S
    OBVIOUS
  <2> QED
    BY <2>1
<1>1. PICK T \in Bad : \A U \in Bad : U \subseteq T => U = T
  <2>1. Bad \in SUBSET SUBSET S
    OBVIOUS
  <2> HIDE DEF Bad
  <2> QED
    BY <2>1, MinimalSubset
<1>2. PICK x \in T : Sum(rows, T) # rows[x].quantity + Sum(rows, T \ {x})
  BY <1>1
<1>3. PICK z : z = Pick(T)
  OBVIOUS
<1>4. /\ T \in SUBSET S /\ IsFiniteSet(T) /\ T # {} /\ z \in T
      /\ IsFiniteSet(T \ {x}) /\ IsFiniteSet(T \ {z}) /\ IsFiniteSet(T \ {x, z})
  <2>1. T \in SUBSET S /\ T # {} /\ z \in T
    BY <1>1, <1>2, <1>3, PickIn
  <2>2. T \ {x} \in SUBSET S /\ T \ {z} \in SUBSET S /\ T \ {x, z} \in SUBSET S
    BY <2>1
  <2> QED
    BY <2>1, <2>2, FS_Subset
<1>5. Sum(rows, T) = rows[z].quantity + Sum(rows, T \ {z})
  BY <1>3, <1>4, SumByPick
<1>6. x # z
  BY <1>2, <1>5
<1>7. Sum(rows, T \ {z}) = rows[x].quantity + Sum(rows, T \ {x, z})
  <2>1. T \ {z} \in SUBSET S /\ T \ {z} \notin Bad /\ x \in T \ {z}
    BY <1>1, <1>4, <1>6
  <2>2. (T \ {z}) \ {x} = T \ {x, z}
    OBVIOUS
  <2> QED
    BY <2>1, <2>2
<1>8. Sum(rows, T \ {x}) = rows[z].quantity + Sum(rows, T \ {x, z})
  <2>1. T \ {x} \in SUBSET S /\ T \ {x} \notin Bad /\ z \in T \ {x}
    BY <1>1, <1>2, <1>4, <1>6
  <2>2. (T \ {x}) \ {z} = T \ {x, z}
    OBVIOUS
  <2> QED
    BY <2>1, <2>2
<1>9. Sum(rows, T \ {x, z}) \in Nat /\ rows[x].quantity \in Nat /\ rows[z].quantity \in Nat
  <2>1. \A w \in T \ {x, z} : rows[w].quantity \in Nat
    BY <1>4
  <2> QED
    BY <1>4, <2>1, SumIsNat
<1>10. Sum(rows, T) = rows[x].quantity + Sum(rows, T \ {x})
  BY <1>5, <1>7, <1>8, <1>9
<1> QED
  BY <1>2, <1>10

\* A sum depends on the quantities of its rows only.
LEMMA SameSum ==
    ASSUME NEW rows, NEW others, NEW S, IsFiniteSet(S), \A x \in S : others[x].quantity = rows[x].quantity
    PROVE  Sum(others, S) = Sum(rows, S)
<1> DEFINE Bad == {T \in SUBSET S : Sum(others, T) # Sum(rows, T)}
<1> SUFFICES ASSUME Bad # {} PROVE FALSE
  <2>1. S \in SUBSET S
    OBVIOUS
  <2> QED
    BY <2>1
<1>1. PICK T \in Bad : \A U \in Bad : U \subseteq T => U = T
  <2>1. Bad \in SUBSET SUBSET S
    OBVIOUS
  <2> HIDE DEF Bad
  <2> QED
    BY <2>1, MinimalSubset
<1>2. IsFiniteSet(T)
  BY <1>1, FS_Subset
<1>3. /\ Sum(rows, T) = IF T = {} THEN 0 ELSE rows[Pick(T)].quantity + Sum(rows, T \ {Pick(T)})
      /\ Sum(others, T) = IF T = {} THEN 0 ELSE others[Pick(T)].quantity + Sum(others, T \ {Pick(T)})
  BY <1>2, SumByPick
<1>4. T # {}
  BY <1>1, <1>3
<1>5. Pick(T) \in T /\ T \ {Pick(T)} \notin Bad
  BY <1>1, <1>4, PickIn
<1>6. Sum(others, T \ {Pick(T)}) = Sum(rows, T \ {Pick(T)})
  BY <1>1, <1>5
<1> QED
  BY <1>1, <1>3, <1>4, <1>5, <1>6

\* What is deleted and what stays add up.
LEMMA SumSplits ==
    ASSUME NEW rows, NEW S, NEW D, IsFiniteSet(S), \A x \in S : rows[x].quantity \in Nat
    PROVE  Sum(rows, S) = Sum(rows, S \cap D) + Sum(rows, S \ D)
<1> DEFINE Bad == {T \in SUBSET S : Sum(rows, T) # Sum(rows, T \cap D) + Sum(rows, T \ D)}
<1> SUFFICES ASSUME Bad # {} PROVE FALSE
  <2>1. S \in SUBSET S
    OBVIOUS
  <2> QED
    BY <2>1
<1>1. PICK T \in Bad : \A U \in Bad : U \subseteq T => U = T
  <2>1. Bad \in SUBSET SUBSET S
    OBVIOUS
  <2> HIDE DEF Bad
  <2> QED
    BY <2>1, MinimalSubset
<1> DEFINE Splits == Sum(rows, T) = Sum(rows, T \cap D) + Sum(rows, T \ D)
<1>2. ~ Splits
  BY <1>1
<1>3. /\ T \in SUBSET S /\ IsFiniteSet(T) /\ IsFiniteSet(T \cap D) /\ IsFiniteSet(T \ D)
      /\ \A x \in T : rows[x].quantity \in Nat
  <2>1. T \in SUBSET S /\ T \cap D \in SUBSET S /\ T \ D \in SUBSET S
    BY <1>1
  <2> QED
    BY <2>1, FS_Subset
<1>4. T # {}
  <2>1. ASSUME T = {} PROVE T \cap D = {} /\ T \ D = {}
    BY <2>1
  <2>2. ASSUME T = {} PROVE Splits
    <3>1. Sum(rows, T) = 0 /\ Sum(rows, T \cap D) = 0 /\ Sum(rows, T \ D) = 0
      BY <2>1, <2>2, SumOfNone
    <3> QED
      BY <3>1
  <2> QED
    BY <1>2, <2>2
<1>5. PICK z \in T : TRUE
  BY <1>4
<1> DEFINE R == T \ {z}
<1>6. /\ Sum(rows, T) = rows[z].quantity + Sum(rows, R)
      /\ Sum(rows, R) = Sum(rows, R \cap D) + Sum(rows, R \ D)
  <2>1. R \notin Bad /\ R \in SUBSET S
    BY <1>1, <1>5
  <2> QED
    BY <1>3, <1>5, <2>1, SumWithout
<1>7. Sum(rows, R \cap D) \in Nat /\ Sum(rows, R \ D) \in Nat /\ rows[z].quantity \in Nat
  <2>1. R \cap D \in SUBSET T /\ R \ D \in SUBSET T
    OBVIOUS
  <2>2. IsFiniteSet(R \cap D) /\ IsFiniteSet(R \ D)
    BY <1>3, <2>1, FS_Subset
  <2> QED
    BY <1>3, <2>1, <2>2, SumIsNat
<1>8. CASE z \in D
  <2>1. (T \cap D) \ {z} = R \cap D /\ T \ D = R \ D /\ z \in T \cap D
    BY <1>8
  <2>2. Sum(rows, T \cap D) = rows[z].quantity + Sum(rows, R \cap D)
    BY <1>3, <2>1, SumWithout
  <2>3. Sum(rows, T \ D) = Sum(rows, R \ D)
    BY <2>1
  <2> HIDE DEF R
  <2>4. Splits
    BY <1>6, <1>7, <2>2, <2>3
  <2> QED
    BY <1>2, <2>4
<1>9. CASE z \notin D
  <2>1. (T \ D) \ {z} = R \ D /\ T \cap D = R \cap D /\ z \in T \ D
    BY <1>9
  <2>2. Sum(rows, T \ D) = rows[z].quantity + Sum(rows, R \ D)
    BY <1>3, <2>1, SumWithout
  <2>3. Sum(rows, T \cap D) = Sum(rows, R \cap D)
    BY <2>1
  <2> HIDE DEF R
  <2>4. Splits
    BY <1>6, <1>7, <2>2, <2>3
  <2> QED
    BY <1>2, <2>4
<1> QED
  BY <1>8, <1>9

-----------------------------------------------------------------------------
(* What the rows split from a trade add up to. *)

RootsOnly == \A j \in DOMAIN trades : origin[j] # j => trades[j].closed

\* What a close request would write over the quantity of its row, and what the
\* other rows hold, would still account for the trade: a row's quantity itself
\* may grow again, when a remainder computed earlier is written later.
RequestKept ==
    \A r \in Requests : request[r] # Idle => \A i \in Ids : i = request[r].id /\ i \in DOMAIN trades =>
        /\ origin[i] = i
        /\ Accounted(i) + request[r].seen.quantity >= opened[i] + trades[i].quantity

Counts ==
    /\ IsFiniteSet(DOMAIN trades)
    /\ origin \in [Ids -> Ids \cup {None}]
    /\ opened \in [Ids -> 0..MaxQty]
    /\ removed \in [Ids -> Nat]

KeptInv == Counts /\ RootsOnly /\ RequestKept /\ NothingIsLost

LEMMA AccountedIsSum == \A i : Accounted(i) = Sum(trades, SplitFrom(i)) + removed[i]
BY QuantityIsSum DEF Accounted

LEMMA AccountedNext == ASSUME NEW i PROVE Accounted(i)' = Sum(trades', SplitFrom(i)') + removed'[i]
BY DEF Accounted, QuantityOf, MapThenSumSet, MapThenFoldSet, Sum, Adds, Pick

LEMMA SplitFacts ==
    ASSUME Inv, Counts, NEW i \in Ids
    PROVE  /\ IsFiniteSet(SplitFrom(i)) /\ SplitFrom(i) \subseteq DOMAIN trades
           /\ \A j \in DOMAIN trades : trades[j].quantity \in Nat /\ trades[j] \in Row
           /\ Sum(trades, SplitFrom(i)) \in Nat
           /\ Accounted(i) \in Nat
           /\ opened[i] \in Nat
<1>1. SplitFrom(i) \in SUBSET DOMAIN trades
  BY DEF SplitFrom
<1>2. IsFiniteSet(SplitFrom(i))
  BY <1>1, FS_Subset DEF Counts
<1>3. \A j \in DOMAIN trades : trades[j].quantity \in Nat /\ trades[j] \in Row
  BY DEF Inv, Typed, IsTable, Row, Quantities
<1>4. Sum(trades, SplitFrom(i)) \in Nat
  BY <1>1, <1>2, <1>3, SumIsNat
<1>5. removed[i] \in Nat /\ opened[i] \in Nat
  BY DEF Counts
<1> QED
  BY <1>1, <1>2, <1>3, <1>4, <1>5, AccountedIsSum

\* Steps that write no quantity.
LEMMA SameAccounts ==
    ASSUME Inv, Counts, DOMAIN trades' = DOMAIN trades,
           \A j \in DOMAIN trades : trades'[j].quantity = trades[j].quantity,
           UNCHANGED history
    PROVE  Counts' /\ \A i \in Ids : Accounted(i)' = Accounted(i)
<1>1. Counts'
  BY DEF Counts, history
<1>2. ASSUME NEW i \in Ids PROVE Accounted(i)' = Accounted(i)
  <2>1. SplitFrom(i)' = SplitFrom(i)
    BY DEF SplitFrom, history
  <2>2. Accounted(i)' = Sum(trades', SplitFrom(i)') + removed'[i]
    BY AccountedNext
  <2>3. Sum(trades', SplitFrom(i)) = Sum(trades, SplitFrom(i))
    BY SplitFacts, SameSum
  <2> QED
    BY <2>1, <2>2, <2>3, AccountedIsSum DEF history
<1> QED
  BY <1>1, <1>2

LEMMA KeptInit ==
    ASSUME Init PROVE KeptInv
<1>1. Counts
  <2>1. IsFiniteSet({}) /\ 0 \in Nat
    BY FS_EmptySet
  <2>2. MaxQty \in Nat
    BY PaperAssumption
  <2> QED
    BY <2>1, <2>2 DEF Init, Counts
<1>2. RootsOnly /\ RequestKept
  BY DEF Init, RootsOnly, RequestKept
<1>3. ASSUME NEW i \in Ids PROVE Accounted(i) >= opened[i]
  <2>1. Inv
    BY InitInv
  <2>2. Accounted(i) \in Nat /\ opened[i] = 0
    BY <1>1, <1>3, <2>1, SplitFacts DEF Init
  <2> QED
    BY <2>2
<1> QED
  BY <1>1, <1>2, <1>3 DEF KeptInv, NothingIsLost

\* Steps that write no quantity, reopen no row and begin no request.
LEMMA KeptSame ==
    ASSUME Inv, KeptInv, DOMAIN trades' = DOMAIN trades, UNCHANGED history,
           \A j \in DOMAIN trades : /\ trades'[j].quantity = trades[j].quantity
                                    /\ trades[j].closed => trades'[j].closed,
           \A r \in Requests : request'[r] = request[r] \/ request'[r] = Idle
    PROVE  KeptInv'
<1>1. Counts' /\ \A i \in Ids : Accounted(i)' = Accounted(i)
  BY SameAccounts DEF KeptInv
<1>2. RootsOnly'
  BY DEF KeptInv, RootsOnly, history
<1>3. ASSUME NEW r \in Requests, request'[r] # Idle, NEW i \in Ids, i = request'[r].id, i \in DOMAIN trades'
      PROVE  /\ origin'[i] = i
             /\ Accounted(i)' + request'[r].seen.quantity >= opened'[i] + trades'[i].quantity
  <2>1. request'[r] = request[r]
    BY <1>3
  <2>2. origin[i] = i /\ Accounted(i) + request[r].seen.quantity >= opened[i] + trades[i].quantity
    BY <1>3, <2>1 DEF KeptInv, RequestKept
  <2>3. Accounted(i)' = Accounted(i) /\ trades'[i].quantity = trades[i].quantity
    BY <1>1, <1>3
  <2> QED
    BY <2>1, <2>2, <2>3 DEF history
<1>4. RequestKept'
  BY <1>3 DEF RequestKept
<1>5. NothingIsLost'
  BY <1>1 DEF KeptInv, NothingIsLost, history
<1> QED
  BY <1>1, <1>2, <1>4, <1>5 DEF KeptInv

LEMMA KeptOpen ==
    ASSUME PaperAssumption, Inv, KeptInv, OpenTrade PROVE KeptInv'
<1>1. PICK n \in Ids \ used, payload \in Payloads :
         /\ trades' = Insert(trades, n, NewTrade(payload))
         /\ origin' = [origin EXCEPT ![n] = n]
         /\ opened' = [opened EXCEPT ![n] = payload.quantity]
         /\ UNCHANGED <<request, removed>>
  BY DEF OpenTrade
<1>2. n \in Ids /\ n \notin DOMAIN trades
  BY <1>1 DEF Inv, Typed
<1>3. /\ DOMAIN trades' = DOMAIN trades \cup {n}
      /\ trades'[n] = NewTrade(payload)
      /\ \A j \in DOMAIN trades : trades'[j] = trades[j]
  BY <1>1, <1>2 DEF Insert
<1>4. payload.quantity \in Quantities /\ trades'[n].quantity = payload.quantity
  BY <1>1, <1>3 DEF PaperAssumption, PayloadRecord, NewTrade
<1>5. Counts'
  <2>1. IsFiniteSet(DOMAIN trades')
    BY <1>3, FS_AddElement DEF KeptInv, Counts
  <2>2. payload.quantity \in 0..MaxQty
    BY <1>4 DEF Quantities, PaperAssumption
  <2> QED
    BY <1>1, <2>1, <2>2 DEF KeptInv, Counts
<1>6. RootsOnly'
  BY <1>1, <1>2, <1>3 DEF KeptInv, Counts, RootsOnly
<1>7. ASSUME NEW i \in Ids, i # n PROVE Accounted(i)' = Accounted(i) /\ opened'[i] = opened[i]
  <2>1. SplitFrom(i)' = SplitFrom(i)
    BY <1>1, <1>2, <1>3, <1>7 DEF SplitFrom, KeptInv, Counts
  <2>2. Sum(trades', SplitFrom(i)) = Sum(trades, SplitFrom(i))
    BY <1>3, SplitFacts, SameSum DEF KeptInv
  <2> QED
    BY <1>1, <1>7, <2>1, <2>2, AccountedIsSum, AccountedNext DEF KeptInv, Counts
<1>8. Accounted(n)' >= opened'[n]
  <2>1. Inv'
    BY OpenStep
  <2>2. PICK S : S = SplitFrom(n)'
    OBVIOUS
  <2>3. S \in SUBSET DOMAIN trades' /\ n \in S
    BY <1>1, <1>2, <1>3, <2>2 DEF SplitFrom, KeptInv, Counts
  <2>4. IsFiniteSet(S) /\ \A j \in S : trades'[j].quantity \in Nat
    <3>1. IsFiniteSet(S)
      BY <1>5, <2>3, FS_Subset DEF Counts
    <3>2. \A j \in DOMAIN trades' : trades'[j] \in Row
      BY <2>1 DEF Inv, Typed, IsTable
    <3> QED
      BY <2>3, <3>1, <3>2 DEF Row, Quantities
  <2>5. Sum(trades', S) = trades'[n].quantity + Sum(trades', S \ {n})
    BY <2>3, <2>4, SumWithout
  <2>6. Sum(trades', S \ {n}) \in Nat
    <3>1. IsFiniteSet(S \ {n}) /\ \A j \in S \ {n} : trades'[j].quantity \in Nat
      BY <2>4, FS_RemoveElement
    <3> QED
      BY <3>1, SumIsNat
  <2>7. removed'[n] \in Nat /\ opened'[n] = payload.quantity /\ payload.quantity \in Nat
    BY <1>1, <1>2, <1>4 DEF KeptInv, Counts, Quantities
  <2> QED
    BY <1>4, <2>2, <2>5, <2>6, <2>7, AccountedNext
<1>9. RequestKept'
  <2>1. ASSUME NEW r \in Requests, request'[r] # Idle, NEW i \in Ids, i = request'[r].id, i \in DOMAIN trades'
        PROVE  /\ origin'[i] = i
               /\ Accounted(i)' + request'[r].seen.quantity >= opened'[i] + trades'[i].quantity
    <3>1. i \in used /\ i # n /\ i \in DOMAIN trades
      BY <1>1, <1>3, <2>1 DEF Inv, RequestInv
    <3>2. origin[i] = i /\ Accounted(i) + request[r].seen.quantity >= opened[i] + trades[i].quantity
      BY <1>1, <2>1, <3>1 DEF KeptInv, RequestKept
    <3> QED
      BY <1>1, <1>3, <1>7, <3>1, <3>2 DEF KeptInv, Counts
  <2> QED
    BY <2>1 DEF RequestKept
<1>10. NothingIsLost'
  BY <1>7, <1>8 DEF KeptInv, NothingIsLost
<1> QED
  BY <1>5, <1>6, <1>9, <1>10 DEF KeptInv

LEMMA KeptStartClose ==
    ASSUME Inv, KeptInv, NEW r \in Requests, StartClose(r) PROVE KeptInv'
<1>1. PICK n \in DOMAIN trades, q \in Quantities, exit \in Prices :
         /\ ~ trades[n].closed
         /\ request' = [request EXCEPT ![r] = [pc |-> "closing", id |-> n, seen |-> trades[n],
                                               quantity |-> q, exit |-> exit]]
         /\ UNCHANGED <<trades, history>>
  BY DEF StartClose
<1>2. Counts /\ Counts' /\ RootsOnly' /\ \A i \in Ids : Accounted(i)' = Accounted(i)
  BY <1>1, SameAccounts DEF KeptInv, RootsOnly, history
<1>3. RequestKept'
  <2>1. ASSUME NEW s \in Requests, request'[s] # Idle, NEW i \in Ids, i = request'[s].id, i \in DOMAIN trades'
        PROVE  /\ origin'[i] = i
               /\ Accounted(i)' + request'[s].seen.quantity >= opened'[i] + trades'[i].quantity
    <3>1. CASE s = r
      <4>1. i = n /\ request'[s].seen = trades[i]
        BY <1>1, <2>1, <3>1 DEF Inv, Typed
      <4>2. origin[i] = i
        BY <1>1, <4>1 DEF KeptInv, RootsOnly
      <4>3. Accounted(i) >= opened[i] /\ Accounted(i) \in Nat /\ opened[i] \in Nat /\ trades[i].quantity \in Nat
        BY <1>1, <1>2, <2>1, SplitFacts DEF KeptInv, NothingIsLost
      <4> QED
        BY <1>1, <1>2, <4>1, <4>2, <4>3 DEF history
    <3>2. CASE s # r
      <4>1. request'[s] = request[s]
        BY <1>1, <3>2 DEF Inv, Typed
      <4>2. origin[i] = i /\ Accounted(i) + request[s].seen.quantity >= opened[i] + trades[i].quantity
        BY <1>1, <2>1, <4>1 DEF KeptInv, RequestKept
      <4> QED
        BY <1>1, <1>2, <4>1, <4>2 DEF history
    <3> QED
      BY <3>1, <3>2
  <2> QED
    BY <2>1 DEF RequestKept
<1>4. NothingIsLost'
  BY <1>1, <1>2 DEF KeptInv, NothingIsLost, history
<1> QED
  BY <1>2, <1>3, <1>4 DEF KeptInv

LEMMA KeptFullClose ==
    ASSUME Inv, KeptInv, NEW r \in Requests, FullClose(r) PROVE KeptInv'
<1>1. PICK n, exit, pnl :
         /\ n \in DOMAIN trades
         /\ trades' = [trades EXCEPT ![n] = Close(trades[n], exit, pnl)]
         /\ request' = [request EXCEPT ![r] = Idle]
         /\ UNCHANGED history
  BY DEF FullClose
<1>2. trades[n] \in Row
  BY <1>1 DEF Inv, Typed, IsTable
<1>3. Close(trades[n], exit, pnl).quantity = trades[n].quantity /\ Close(trades[n], exit, pnl).closed
  BY <1>2 DEF Close, Row
<1>4. DOMAIN trades' = DOMAIN trades
  BY <1>1
<1>5. \A j \in DOMAIN trades : trades'[j].quantity = trades[j].quantity /\ (trades[j].closed => trades'[j].closed)
  BY <1>1, <1>3 DEF Inv, Typed, IsTable
<1>6. \A s \in Requests : request'[s] = request[s] \/ request'[s] = Idle
  BY <1>1 DEF Inv, Typed
<1> QED
  BY <1>1, <1>4, <1>5, <1>6, KeptSame

LEMMA KeptCheckCommits ==
    ASSUME Inv, KeptInv, CheckCommits PROVE KeptInv'
<1>1. /\ trades' = [i \in DOMAIN trades |->
                       IF i \in DOMAIN check.batch THEN Checked(check.batch[i], trades[i]) ELSE trades[i]]
      /\ UNCHANGED <<request, history>>
  BY DEF CheckCommits
<1>2. ASSUME NEW j \in DOMAIN trades, NEW t
      PROVE  Checked(t, trades[j]).quantity = trades[j].quantity /\ (trades[j].closed => Checked(t, trades[j]).closed)
  <2>1. trades[j] \in Row
    BY DEF Inv, Typed, IsTable
  <2> QED
    BY <2>1 DEF Checked, Close, Row
<1>3. \A j \in DOMAIN trades : trades'[j].quantity = trades[j].quantity /\ (trades[j].closed => trades'[j].closed)
  BY <1>1, <1>2
<1> QED
  BY <1>1, <1>3, KeptSame

\* The remainder is computed from what was read, so it may be less or more than
\* what is left in the row; with the part that is split off, and with what was
\* split off since the row was read, it still makes up the trade.
LEMMA KeptPartialClose ==
    ASSUME PaperAssumption, Inv, KeptInv, NEW r \in Requests, PartialClose(r) PROVE KeptInv'
<1>0. PICK c, n, left, pnl :
         /\ c = request[r] /\ n = request[r].id /\ left = request[r].seen.quantity - request[r].quantity
         /\ pnl = ClosedPnl(request[r].seen.side, request[r].seen.entry, request[r].exit, request[r].quantity)
  OBVIOUS
<1>1. /\ c # Idle /\ n = c.id /\ n \in DOMAIN trades /\ n \in Ids
      /\ c.quantity < c.seen.quantity /\ left = c.seen.quantity - c.quantity
  BY <1>0 DEF PartialClose, Inv, Typed, IsTable
<1>2. PICK new \in Ids \ used :
         /\ trades' = Insert([trades EXCEPT ![n].quantity = left], new, ClosedPart(c, pnl))
         /\ origin' = [origin EXCEPT ![new] = origin[n]]
  BY <1>0, <1>1 DEF PartialClose
<1>3. request' = [request EXCEPT ![r] = Idle] /\ UNCHANGED <<opened, removed>>
  BY DEF PartialClose
<1>4. c \in Closing /\ c.seen \in Row /\ \A j \in DOMAIN trades : trades[j] \in Row
  BY <1>0, <1>1 DEF Inv, Typed, IsTable, Closing
<1>5. /\ c.quantity \in Nat /\ c.seen.quantity \in Nat /\ left \in Nat
      /\ left + c.quantity = c.seen.quantity
  BY <1>0, <1>1, <1>4 DEF Closing, Row, Quantities
<1>6. new \in Ids /\ new \notin DOMAIN trades /\ new # n
  BY <1>0, <1>1, <1>2 DEF Inv, Typed
<1>7. ClosedPart(c, pnl).quantity = c.quantity /\ ClosedPart(c, pnl).closed
  BY <1>4 DEF ClosedPart, Close, Row
<1>8. /\ DOMAIN trades' = DOMAIN trades \cup {new}
      /\ trades'[new].quantity = c.quantity /\ trades'[new].closed
      /\ trades'[n].quantity = left /\ trades'[n].closed = trades[n].closed
      /\ \A j \in DOMAIN trades : j # n => trades'[j] = trades[j]
  BY <1>0, <1>1, <1>2, <1>4, <1>6, <1>7 DEF Insert, Row
<1>9. /\ origin[n] = n /\ origin'[new] = n
      /\ \A j \in Ids : j # new => origin'[j] = origin[j]
  BY <1>0, <1>1, <1>2, <1>6 DEF KeptInv, RequestKept, Counts
<1>10. Counts'
  <2>1. IsFiniteSet(DOMAIN trades')
    BY <1>8, FS_AddElement DEF KeptInv, Counts
  <2> QED
    BY <1>0, <1>1, <1>2, <1>3, <2>1 DEF KeptInv, Counts
<1>11. RootsOnly'
  BY <1>8, <1>9 DEF KeptInv, RootsOnly, Inv, Typed, IsTable
<1>12. ASSUME NEW i \in Ids, i # n PROVE Accounted(i)' = Accounted(i)
  <2>1. SplitFrom(i)' = SplitFrom(i)
    BY <1>6, <1>8, <1>9, <1>12 DEF SplitFrom, Inv, Typed, IsTable
  <2>2. \A j \in SplitFrom(i) : trades'[j].quantity = trades[j].quantity
    BY <1>8, <1>9, <1>12 DEF SplitFrom
  <2>3. Sum(trades', SplitFrom(i)) = Sum(trades, SplitFrom(i))
    BY <2>2, SplitFacts, SameSum DEF KeptInv
  <2> QED
    BY <1>3, <2>1, <2>3, AccountedIsSum, AccountedNext
<1>13. Accounted(n)' + trades[n].quantity = Accounted(n) + c.seen.quantity
  <2>1. PICK S, T : S = SplitFrom(n) /\ T = S \cup {new}
    OBVIOUS
  <2>2. SplitFrom(n)' = T /\ n \in S /\ new \notin S
    BY <1>0, <1>1, <1>6, <1>8, <1>9, <2>1 DEF SplitFrom, Inv, Typed, IsTable
  <2>3. /\ IsFiniteSet(S) /\ S \subseteq DOMAIN trades /\ \A j \in S : trades[j].quantity \in Nat
        /\ IsFiniteSet(S \ {n}) /\ IsFiniteSet(T)
    <3>1. IsFiniteSet(S) /\ S \subseteq DOMAIN trades /\ \A j \in S : trades[j].quantity \in Nat
      BY <1>1, <2>1, SplitFacts DEF KeptInv
    <3> QED
      BY <2>1, <3>1, FS_AddElement, FS_RemoveElement
  <2>4. \A j \in T : trades'[j].quantity \in Nat
    BY <1>5, <1>8, <2>1, <2>3
  <2>5. Sum(trades', T) = trades'[new].quantity + Sum(trades', S)
    <3>1. T \ {new} = S /\ new \in T
      BY <2>1, <2>2
    <3> QED
      BY <2>3, <2>4, <3>1, SumWithout
  <2>6. Sum(trades', S) = trades'[n].quantity + Sum(trades', S \ {n})
    <3>1. \A j \in S : trades'[j].quantity \in Nat
      BY <2>1, <2>4
    <3> QED
      BY <2>2, <2>3, <3>1, SumWithout
  <2>7. Sum(trades, S) = trades[n].quantity + Sum(trades, S \ {n})
    BY <2>2, <2>3, SumWithout
  <2>8. Sum(trades', S \ {n}) = Sum(trades, S \ {n})
    <3>1. \A j \in S \ {n} : trades'[j].quantity = trades[j].quantity
      BY <1>8, <2>3
    <3> QED
      BY <2>3, <3>1, SameSum
  <2>9. Sum(trades, S \ {n}) \in Nat /\ trades[n].quantity \in Nat /\ removed[n] \in Nat
    <3>1. \A j \in S \ {n} : trades[j].quantity \in Nat
      BY <2>3
    <3> QED
      BY <1>0, <1>1, <2>2, <2>3, <3>1, SumIsNat DEF KeptInv, Counts
  <2>10. Accounted(n) = trades[n].quantity + Sum(trades, S \ {n}) + removed[n]
    BY <2>1, <2>7, AccountedIsSum
  <2>11. Accounted(n)' = c.quantity + left + Sum(trades, S \ {n}) + removed[n]
    BY <1>3, <1>5, <1>8, <2>2, <2>5, <2>6, <2>8, <2>9, AccountedNext
  <2> QED
    BY <1>5, <2>9, <2>10, <2>11
<1>14. /\ Accounted(n) \in Nat /\ opened[n] \in Nat /\ trades[n].quantity \in Nat
       /\ Accounted(n) + c.seen.quantity >= opened[n] + trades[n].quantity
  BY <1>0, <1>1, SplitFacts DEF KeptInv, RequestKept
<1>15. Accounted(n)' \in Int /\ Accounted(n)' >= opened'[n]
  <2>1. Accounted(n)' \in Nat
    <3>1. Inv'
      BY PartialCloseStep
    <3>2. PICK S : S = SplitFrom(n)'
      OBVIOUS
    <3>3. S \in SUBSET DOMAIN trades' /\ IsFiniteSet(DOMAIN trades') /\ removed'[n] \in Nat
      BY <1>1, <1>10, <3>2 DEF SplitFrom, Counts
    <3>4. IsFiniteSet(S)
      BY <3>3, FS_Subset
    <3>5. \A j \in S : trades'[j].quantity \in Nat
      BY <3>1, <3>3 DEF Inv, Typed, IsTable, Row, Quantities
    <3>6. Sum(trades', S) \in Nat
      BY <3>4, <3>5, SumIsNat
    <3> QED
      BY <3>2, <3>3, <3>6, AccountedNext
  <2> QED
    BY <1>3, <1>5, <1>13, <1>14, <2>1
<1>16. RequestKept'
  <2>1. ASSUME NEW s \in Requests, request'[s] # Idle, NEW i \in Ids, i = request'[s].id, i \in DOMAIN trades'
        PROVE  /\ origin'[i] = i
               /\ Accounted(i)' + request'[s].seen.quantity >= opened'[i] + trades'[i].quantity
    <3>1. s # r /\ request'[s] = request[s] /\ i \in used
      BY <1>3, <2>1 DEF Inv, Typed, RequestInv
    <3>2. i # new /\ i \in DOMAIN trades
      BY <1>2, <1>8, <2>1, <3>1
    <3>3. origin[i] = i /\ Accounted(i) + request[s].seen.quantity >= opened[i] + trades[i].quantity
      BY <2>1, <3>1, <3>2 DEF KeptInv, RequestKept
    <3>4. request[s].seen.quantity \in Nat
      BY <2>1, <3>1 DEF Inv, Typed, Closing, Row, Quantities
    <3>5. CASE i # n
      BY <1>3, <1>8, <1>9, <1>12, <3>1, <3>2, <3>3, <3>5
    <3>6. CASE i = n
      <4>1. Accounted(n)' + request[s].seen.quantity >= opened[n] + left
        BY <1>5, <1>13, <1>14, <1>15, <3>3, <3>4, <3>6
      <4> QED
        BY <1>3, <1>8, <1>9, <3>1, <3>2, <3>3, <3>6, <4>1
    <3> QED
      BY <3>5, <3>6
  <2> QED
    BY <2>1 DEF RequestKept
<1>17. NothingIsLost'
  BY <1>3, <1>12, <1>15 DEF KeptInv, NothingIsLost
<1> QED
  BY <1>10, <1>11, <1>16, <1>17 DEF KeptInv

LEMMA KeptDelete ==
    ASSUME Inv, KeptInv, NEW D, Delete(D) PROVE KeptInv'
<1>1. /\ trades' = [j \in DOMAIN trades \ D |-> trades[j]]
      /\ removed' = [i \in Ids |-> removed[i] + QuantityOf(SplitFrom(i) \cap D)]
      /\ UNCHANGED <<request, origin, opened>>
  BY DEF Delete
<1>2. DOMAIN trades' = DOMAIN trades \ D /\ \A j \in DOMAIN trades' : trades'[j] = trades[j]
  BY <1>1
<1>3. ASSUME NEW i \in Ids PROVE removed'[i] \in Nat /\ Accounted(i)' = Accounted(i)
  <2>1. PICK S : S = SplitFrom(i)
    OBVIOUS
  <2>2. /\ IsFiniteSet(S) /\ \A j \in S : trades[j].quantity \in Nat
        /\ S \subseteq DOMAIN trades
    BY <2>1, SplitFacts DEF KeptInv
  <2>3. IsFiniteSet(S \cap D) /\ IsFiniteSet(S \ D)
    <3>1. S \cap D \in SUBSET S /\ S \ D \in SUBSET S
      OBVIOUS
    <3> QED
      BY <2>2, <3>1, FS_Subset
  <2>4. SplitFrom(i)' = S \ D
    BY <1>1, <1>2, <2>1 DEF SplitFrom
  <2>5. Sum(trades', S \ D) = Sum(trades, S \ D)
    <3>1. \A j \in S \ D : trades'[j].quantity = trades[j].quantity
      BY <1>2, <2>2
    <3> QED
      BY <2>3, <3>1, SameSum
  <2>6. Sum(trades, S \cap D) \in Nat /\ Sum(trades, S \ D) \in Nat /\ removed[i] \in Nat
    <3>1. (\A j \in S \cap D : trades[j].quantity \in Nat) /\ \A j \in S \ D : trades[j].quantity \in Nat
      BY <2>2
    <3> QED
      BY <2>3, <3>1, SumIsNat DEF KeptInv, Counts
  <2>7. Sum(trades, S) = Sum(trades, S \cap D) + Sum(trades, S \ D)
    <3>1. IsFiniteSet(S) /\ \A x \in S : trades[x].quantity \in Nat
      BY <2>2
    <3> QED
      BY <2>6, <3>1, SumSplits
  <2>8. removed'[i] = removed[i] + Sum(trades, S \cap D)
    BY <1>1, <2>1, QuantityIsSum
  <2>9. Accounted(i) = Sum(trades, S) + removed[i]
    BY <2>1, AccountedIsSum
  <2>10. Accounted(i)' = Sum(trades, S \ D) + removed'[i]
    BY <2>4, <2>5, AccountedNext
  <2> QED
    BY <2>6, <2>7, <2>8, <2>9, <2>10
<1>4. Counts'
  <2>1. DOMAIN trades' \in SUBSET DOMAIN trades
    BY <1>2
  <2>2. IsFiniteSet(DOMAIN trades')
    BY <2>1, FS_Subset DEF KeptInv, Counts
  <2>3. removed' \in [Ids -> Nat]
    BY <1>1, <1>3
  <2> QED
    BY <1>1, <2>2, <2>3 DEF KeptInv, Counts
<1>5. RootsOnly'
  BY <1>1, <1>2 DEF KeptInv, RootsOnly
<1>6. RequestKept'
  <2>1. ASSUME NEW r \in Requests, request'[r] # Idle, NEW i \in Ids, i = request'[r].id, i \in DOMAIN trades'
        PROVE  /\ origin'[i] = i
               /\ Accounted(i)' + request'[r].seen.quantity >= opened'[i] + trades'[i].quantity
    <3>1. origin[i] = i /\ Accounted(i) + request[r].seen.quantity >= opened[i] + trades[i].quantity
      BY <1>1, <1>2, <2>1 DEF KeptInv, RequestKept
    <3> QED
      BY <1>1, <1>2, <1>3, <2>1, <3>1
  <2> QED
    BY <2>1 DEF RequestKept
<1>7. NothingIsLost'
  BY <1>1, <1>3 DEF KeptInv, NothingIsLost
<1> QED
  BY <1>4, <1>5, <1>6, <1>7 DEF KeptInv

LEMMA KeptNext ==
    ASSUME PaperAssumption, Inv, KeptInv, [Next]_vars PROVE KeptInv'
<1>1. CASE OpenTrade
  BY <1>1, KeptOpen
<1>2. ASSUME NEW r \in Requests, Closes(r) PROVE KeptInv'
  <2>1. CASE CloseFails(r)
    BY <2>1, KeptSame DEF CloseFails, Inv, Typed
  <2> QED
    BY <1>2, <2>1, KeptStartClose, KeptPartialClose, KeptFullClose DEF Closes
<1>3. CASE DeleteTrade \/ ClearClosed
  BY <1>3, KeptDelete DEF DeleteTrade, ClearClosed
<1>4. ASSUME NEW p \in Prices, Ticker(p) PROVE KeptInv'
  BY <1>4, KeptSame DEF Ticker
<1>5. CASE CheckCommits
  BY <1>5, KeptCheckCommits
<1>6. CASE CheckRollsBack
  BY <1>6, KeptSame DEF CheckRollsBack
<1>7. CASE UNCHANGED vars
  BY <1>7, KeptSame DEF vars
<1> QED
  BY <1>1, <1>2, <1>3, <1>4, <1>5, <1>6, <1>7 DEF Next, Check

-----------------------------------------------------------------------------
(* The theorems. *)

\* However many close requests and ticker checks overlap, no limit order is
\* closed before it was filled.
THEOREM NoExitBeforeFill == Spec => []UnfilledIsNotClosed
<1>1. Inv => UnfilledIsNotClosed
  BY DEF Inv, RowsInv, BookedAt, UnfilledIsNotClosed
<1> QED
  BY <1>1, Invariance, PTL

\* However they overlap, the exit and the profit of a closed row belong together.
THEOREM ProfitOfTheExit == Spec => []PnlMatchesExit
<1>1. Inv => PnlMatchesExit
  BY DEF Inv, RowsInv, BookedAt, PnlMatchesExit
<1> QED
  BY <1>1, Invariance, PTL

\* So what a closed row tells of its exit is sound.
THEOREM ClosedRowsTell == Spec => []ClosedRowsAreSound
<1>1. UnfilledIsNotClosed /\ PnlMatchesExit => ClosedRowsAreSound
  BY DEF ClosedRowsAreSound
<1> QED
  BY <1>1, NoExitBeforeFill, ProfitOfTheExit, PTL

\* However close requests, deletes and ticker checks overlap, the rows split
\* from a trade, with those deleted since, hold at least the quantity the trade
\* was opened with: a remainder written late may count some of it twice, as
\* QuantityConserved shows, but none disappears.
THEOREM QuantityStays == Spec => []NothingIsLost
<1>1. Init => KeptInv
  BY KeptInit
<1>2. Inv /\ KeptInv /\ [Next]_vars => KeptInv'
  BY PaperAssumption, KeptNext
<1>3. KeptInv => NothingIsLost
  BY DEF KeptInv
<1> QED
  BY <1>1, <1>2, <1>3, Invariance, PTL DEF Spec

\* Every row, every session and the history of quantities keep their types.
THEOREM PaperTypes == Spec => []TypeOK
<1>1. Init => KeptInv
  BY KeptInit
<1>2. Inv /\ KeptInv /\ [Next]_vars => KeptInv'
  BY PaperAssumption, KeptNext
<1>3. Inv /\ KeptInv => TypeOK
  <2>1. ASSUME Inv, check # Idle PROVE price # 0
    BY <2>1, PaperAssumption DEF Inv, Typed
  <2> QED
    BY <2>1 DEF Inv, Typed, KeptInv, Counts, TypeOK
<1> QED
  BY <1>1, <1>2, <1>3, Invariance, PTL DEF Spec
=============================================================================
