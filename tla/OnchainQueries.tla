---------------------------- MODULE OnchainQueries ----------------------------
(***************************************************************************)
(* What the read-only pages of /onchain answer about a tracked token: its  *)
(* overview, trades, whales, liquidity, smart money, heatmap and candles,  *)
(* each over a window of time.  A token's rows are a record with the fields *)
(* trades, candles, liquidity, smart (pairs of a wallet and its score) and *)
(* whales (the rows of the whale scan).                                    *)
(***************************************************************************)
EXTENDS OnchainAnalytics

CONSTANT Absent     \* a query parameter that is not given
ASSUME AbsentAssumption == Absent \notin {"BUY", "SELL"}

(******************************** The window *******************************)
Ordered(a, b) == IF a > b THEN <<b, a>> ELSE <<a, b>>

\* A rolling window counts only when a bound is missing.
QueryHours(start, end, hours, default) ==
    IF start # Absent /\ end # Absent THEN Absent ELSE IF hours = Absent THEN default ELSE hours

Window(start, end, hours, default, now) ==
    LET until == IF end = Absent THEN now ELSE end
        rolling == QueryHours(start, end, hours, default)
    IN  Ordered(IF start # Absent THEN start
                ELSE until - Hour * (IF rolling = Absent THEN 24 ELSE rolling), until)

(********************************* The pages *******************************)
HasCandles(db, w) == Within(db.candles, w[1], w[2]) # {}

Volumes(db, w) ==
    IF HasCandles(db, w)
    THEN LET c == StoredCandleMetrics(db.candles, w[1], w[2]) IN [buy |-> c.buy, sell |-> c.sell]
    ELSE LET v == VolumeMetrics(db.trades, w[1], w[2]) IN [buy |-> v.buy, sell |-> v.sell]

OverviewPage(db, w) ==
    [source |-> IF HasCandles(db, w) THEN "geckoterminal" ELSE "trades",
     volumes |-> Volumes(db, w), candles |-> Cardinality(Within(db.candles, w[1], w[2])),
     signals |-> FirstN(Signals(db.trades, {r[1] : r \in db.smart}, db.liquidity, w[1], w[2]), 10)]

HeatmapPage(db, w) ==
    IF HasCandles(db, w) THEN CandleHeatmap(db.candles, w[1], w[2]) ELSE TradeHeatmap(db.trades, w[1], w[2])

CandlesPage(db, w, limit) == FirstN(ByTime(Within(db.candles, w[1], w[2])), limit)

PageOfSeq(seq, page, size) == SubSeq(seq, (page - 1) * size + 1, Min({page * size, Len(seq)}))

\* The order of trades of one instant is the database's; here, their keys'.
TradesPage(db, w, side, usd, page, size) ==
    LET all == {r \in Within(db.trades, w[1], w[2]) : side \in {Absent, r.side} /\ (usd = Absent \/ r.usd >= usd)}
    IN  [items |-> PageOfSeq(NewestFirst(all), page, size), total |-> Cardinality(all),
         more |-> page * size < Cardinality(all)]

\* The large trades of the window stand in for whale events, on the first page.
WhalesPage(db, w, page, size) ==
    LET known == Within(db.whales, w[1], w[2])
        items == PageOfSeq(NewestFirst(known), page, size)
        trades == FirstN(NewestFirst(Whales(Within(db.trades, w[1], w[2]))), size)
    IN  IF items = <<>> /\ page = 1
        THEN [items |-> [i \in DOMAIN trades |-> <<Large(trades[i].side), trades[i].usd>>], total |-> Len(trades)]
        ELSE [items |-> [i \in DOMAIN items |-> <<items[i].type, items[i].usd>>], total |-> Cardinality(known)]

LiquidityPage(db, w, limit) == FirstN(NewestFirst(Within(db.liquidity, w[1], w[2])), limit)

\* A minimum of zero is taken for none.
SmartMoneyPage(db, min, limit) ==
    LET best == {x \in db.smart : x[2] >= (IF min \in {Absent, 0} THEN SmartScore ELSE min)}
    IN  FirstN(Sorted(best, {p \in best \X best : p[1][2] > p[2][2]}), limit)

\* Fetched from the provider on the spot: candles and the newest trades, the
\* latter only for a window that reaches to yesterday or today.
AnalysisPage(candles, trades, w, now) ==
    [metrics |-> LiveCandleMetrics(candles, w[1], w[2]), heatmap |-> CandleHeatmap(candles, w[1], w[2]),
     trades |-> IF w[2] \div Day >= now \div Day - 1 THEN FirstN(NewestFirst(trades), 50) ELSE <<>>]

(* The pages of a token over one window are one story: the pages of its      *)
(* trades hold each trade once and say so, their sums are the volumes of the *)
(* overview and of the heatmap, and as long as the whale scan has stored     *)
(* nothing the whales are the overview's large trades.                       *)
PagesAgree(db, w, size) ==
    LET total == TradesPage(db, w, Absent, Absent, 1, size).total
        pages == 1 .. total \div size + 1
        items(p) == TradesPage(db, w, Absent, Absent, p, size).items
        overview == OverviewPage(db, w)
        sums == HeatmapSums(HeatmapPage(db, w))
        side(x) == Usd(Range(TradesPage(db, w, x, Absent, 1, total).items))
    IN  /\ UNION {Range(items(p)) : p \in pages} = Within(db.trades, w[1], w[2])
        /\ \A p \in pages : TradesPage(db, w, Absent, Absent, p, size).more
                              <=> p + 1 \in pages /\ items(p + 1) # <<>>
        /\ sums = overview.volumes
        /\ overview.source = "trades" => overview.volumes = [buy |-> side("BUY"), sell |-> side("SELL")]
        /\ Within(db.whales, w[1], w[2]) = {} =>
              {<<s.type, s.usd>> : s \in {x \in Range(overview.signals) : x.key # 0}}
                  \subseteq Range(WhalesPage(db, w, 1, 10).items)
        /\ overview.candles = Len(CandlesPage(db, w, 1000))
=============================================================================
