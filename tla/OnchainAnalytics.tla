-------------------------- MODULE OnchainAnalytics --------------------------
(***************************************************************************)
(* What app/onchain/analytics computes from the rows of the on-chain       *)
(* tables: volumes and flows, heatmaps, the score of a wallet, the signals *)
(* of a token and the whale events.  Pure operators over a set of rows.    *)
(*                                                                         *)
(* A trade row has the fields key (its transaction, wallet and side),      *)
(* token, wallet, side, usd and at; a candle has at, hours, open, close    *)
(* and volume.  Money is counted in thousands of dollars, time in ticks of *)
(* a quarter of an hour.  Cents, and the rounding of sums, are left out.   *)
(***************************************************************************)
EXTENDS Integers, FiniteSets, Sequences, FiniteSetsExt, SequencesExt, Ordering

CONSTANTS
    WhaleThreshold,     \* WHALE_THRESHOLD_USD
    SmartScore          \* SMART_MONEY_MIN_SCORE

Hour == 4
Day == 24 * Hour

Usd(rows) == SumFunction([r \in rows |-> r.usd])
Of(rows, side) == {r \in rows : r.side = side}
Within(rows, since, until) == {r \in rows : since <= r.at /\ r.at <= until}
Wallets(rows) == {r.wallet : r \in rows}
Whales(rows) == {r \in rows : r.usd >= WhaleThreshold}

(***************************** Volumes and flows ***************************)
VolumeMetrics(rows, since, until) ==
    LET in == Within(rows, since, until)
        buys == Of(in, "BUY")
        sells == Of(in, "SELL")
    IN  [buy |-> Usd(buys), sell |-> Usd(sells), net |-> Usd(buys) - Usd(sells),
         whaleBuy |-> Usd(Whales(buys)), whaleSell |-> Usd(Whales(sells)),
         wallets |-> Cardinality(Wallets(in)), buyers |-> Cardinality(Wallets(buys)),
         sellers |-> Cardinality(Wallets(sells))]

\* The share of a candle's volume that counts as bought, in hundredths.
BuyShare(c) ==
    LET move == Min({(100 * (Max({c.open, c.close}) - Min({c.open, c.close}))) \div Max({c.open, 1}), 100})
    IN  IF c.close > c.open THEN 55 + (15 * move) \div 100
        ELSE IF c.close < c.open THEN 45 - (15 * move) \div 100
        ELSE 50

\* Bought and sold, in hundredths of the volumes' unit.
SplitVolume(c) ==
    IF c.volume <= 0 THEN [buy |-> 0, sell |-> 0]
    ELSE [buy |-> c.volume * BuyShare(c), sell |-> c.volume * (100 - BuyShare(c))]

ByTime(candles) ==
    Sorted(candles, {p \in candles \X candles :
                        p[1].at < p[2].at \/ (p[1].at = p[2].at /\ p[1].hours < p[2].hours)})

CandleTotals(in) ==
    [buy |-> SumFunction([c \in in |-> SplitVolume(c).buy]),
     sell |-> SumFunction([c \in in |-> SplitVolume(c).sell]),
     total |-> SumFunction([c \in in |-> c.volume]),
     open |-> IF in = {} THEN 0 ELSE Head(ByTime(in)).open,
     close |-> IF in = {} THEN 0 ELSE Last(ByTime(in)).close,
     candles |-> Cardinality(in)]

\* From the table: the candles of the window.
StoredCandleMetrics(candles, since, until) == CandleTotals(Within(candles, since, until))

\* From the candles just fetched: all of them when none is in the window.
LiveCandleMetrics(candles, since, until) ==
    LET in == Within(candles, since, until)
    IN  CandleTotals(IF in = {} THEN candles ELSE in)

(********************************* Heatmaps ********************************)
BucketPlan(since, until) ==
    LET days == Max({1, (until - since) \div Day + 1})
    IN  IF days <= 2 THEN Min({days * 24, 48})
        ELSE IF days <= 14 THEN Min({days * 4, 56})
        ELSE Min({days, 60})

Span(since, until) == IF until = since THEN 1 ELSE until - since

\* A slip: a row at the very end of the window falls out of the last bucket.
MutantBucketOf(at, since, until) ==
    ((at - since) * BucketPlan(since, until)) \div Span(since, until)

BucketOf(at, since, until) ==
    Min({((at - since) * BucketPlan(since, until)) \div Span(since, until),
         BucketPlan(since, until) - 1})

InBucket(rows, since, until, i) ==
    {r \in Within(rows, since, until) : BucketOf(r.at, since, until) = i}

TradeHeatmap(rows, since, until) ==
    [i \in 0 .. BucketPlan(since, until) - 1 |->
        LET in == InBucket(rows, since, until, i)
        IN  [buy |-> Usd(Of(in, "BUY")), sell |-> Usd(Of(in, "SELL"))]]

CandleHeatmap(candles, since, until) ==
    [i \in 0 .. BucketPlan(since, until) - 1 |->
        LET in == InBucket(candles, since, until, i)
        IN  [buy |-> SumFunction([c \in in |-> SplitVolume(c).buy]),
             sell |-> SumFunction([c \in in |-> SplitVolume(c).sell])]]

HeatmapSums(map) ==
    [buy |-> SumFunction([i \in DOMAIN map |-> map[i].buy]),
     sell |-> SumFunction([i \in DOMAIN map |-> map[i].sell])]

(*************************** The score of a wallet *************************)
\* The sells of its token after a buy; the buy is paired with the first one,
\* which may be paired with other buys too.
Matching(buy, sells) == {s \in sells : s.at > buy.at /\ s.token = buy.token}
FirstOf(rows) == CHOOSE r \in rows : \A q \in rows : r.at < q.at \/ (r.at = q.at /\ r.key <= q.key)

Roi(buy, sell) == ((sell.usd - buy.usd) * 100) \div buy.usd

WalletScore(rows) ==
    LET sells == Of(rows, "SELL")
        paired == {b \in Of(rows, "BUY") : Matching(b, sells) # {} /\ b.usd > 0}
        RoiOf(b) == Roi(b, FirstOf(Matching(b, sells)))
        pairs == Max({Cardinality(paired), 1})
        wins == Cardinality({b \in paired : RoiOf(b) > 0})
        roi == SumFunction([b \in paired |-> RoiOf(b)]) \div pairs
    IN  IF Cardinality(rows) < 3 THEN 0
        ELSE Min({(50 * wins) \div pairs + (30 * Min({Max({roi, 0}), 50})) \div 50
                  + (20 * Min({Usd(rows), 100})) \div 100, 100})

WalletStat(rows) ==
    [trades |-> Cardinality(rows), volume |-> Usd(rows), score |-> WalletScore(rows),
     whale |-> Usd(rows) >= 5 * WhaleThreshold, smart |-> WalletScore(rows) >= SmartScore]

(************************* Signals and whale events ************************)
Large(side) == IF side = "BUY" THEN "LARGE_BUY" ELSE "LARGE_SELL"
Severity(usd) == IF usd >= 2 * WhaleThreshold THEN "critical" ELSE "warning"

Signal(type, severity, usd) == [type |-> type, severity |-> severity, usd |-> usd, key |-> 0]

Newer(a, b) == a.at > b.at \/ (a.at = b.at /\ a.key < b.key)
NewestFirst(rows) == Sorted(rows, {p \in rows \X rows : Newer(p[1], p[2])})
FirstN(seq, n) == SubSeq(seq, 1, Min({n, Len(seq)}))
If(condition, seq) == IF condition THEN seq ELSE <<>>

\* At most ten smart wallets are looked at; no instance has that many.
SmartBuys(rows, registered, since, until) ==
    {r \in Of(Within(rows, Max({since, until - Hour}), until), "BUY") : r.wallet \in registered}

\* No collector fetches holders, so there is no growth of holders to signal.
Signals(rows, registered, liquidity, since, until) ==
    LET net == VolumeMetrics(rows, since, until).net
        events == Within(liquidity, since, until)
        adds == Usd({e \in events : e.type = "ADD"})
        removes == Usd({e \in events : e.type = "REMOVE"})
        removal == 2 * removes > 3 * adds /\ removes > 10
        large == FirstN(NewestFirst(Whales(Within(rows, since, until))), 10)
    IN  If(net > WhaleThreshold, <<Signal("NET_BUY_PRESSURE", "info", net)>>)
        \o If(Cardinality(SmartBuys(rows, registered, since, until)) >= 2,
              <<Signal("SMART_MONEY_ACCUMULATION", "warning", 0)>>)
        \o If(removal, <<Signal("LIQUIDITY_REMOVAL", "critical", removes)>>)
        \o If(~removal /\ 5 * adds > 6 * removes /\ adds > 10,
              <<Signal("LIQUIDITY_INCREASE", "info", adds)>>)
        \o [i \in DOMAIN large |->
                [Signal(Large(large[i].side), Severity(large[i].usd), large[i].usd) EXCEPT !.key = large[i].key]]

\* What the whale scan of a token stores from the same rows.
WhaleEvents(rows, since) ==
    LET trades == {r \in Whales(rows) : r.at >= since}
        buys == Of(trades, "BUY")
        window(at) == {r \in buys : r.at = at}     \* a tick is the quarter of an hour
        of(w) == {r \in buys : r.wallet = w}
    IN  {[type |-> Large(r.side), usd |-> r.usd, wallet |-> r.wallet, key |-> r.key] : r \in trades}
        \cup {[type |-> "COORDINATED_ACTIVITY", usd |-> Usd(window(at)), wallet |-> "coordinated", key |-> 0] :
                 at \in {t \in {r.at : r \in buys} : Cardinality(Wallets(window(t))) >= 3}}
        \cup {[type |-> "ACCUMULATION", usd |-> Usd(of(w)), wallet |-> w, key |-> 0] :
                 w \in {v \in Wallets(buys) : Cardinality(of(v)) >= 2 /\ 2 * Usd(of(v)) >= 3 * WhaleThreshold}}

(* Whatever the rows and the window, the page's figures do not contradict    *)
(* one another: the buckets of a heatmap add up to the volumes of its        *)
(* window, the live analysis of fetched candles tells what the table of the  *)
(* same candles tells, and what the whale scan stores as a large trade is a  *)
(* large trade among the token's signals.                                    *)
FiguresAgree(rows, candles, liquidity, since, until) ==
    /\ LET v == VolumeMetrics(rows, since, until)
       IN  HeatmapSums(TradeHeatmap(rows, since, until)) = [buy |-> v.buy, sell |-> v.sell]
    /\ LET c == StoredCandleMetrics(candles, since, until)
       IN  /\ HeatmapSums(CandleHeatmap(candles, since, until)) = [buy |-> c.buy, sell |-> c.sell]
           /\ c.candles > 0 => LiveCandleMetrics(candles, since, until) = c
           /\ c.buy + c.sell = 100 * c.total
    /\ LET signals == Range(Signals(rows, {}, liquidity, since, until))
           events == {e \in WhaleEvents({r \in rows : r.at <= until}, since) :
                        e.type \in {"LARGE_BUY", "LARGE_SELL"}}
       IN  Cardinality(events) <= 10 =>
             {<<e.type, e.key, e.usd>> : e \in events}
                 = {<<s.type, s.key, s.usd>> : s \in {t \in signals : t.key # 0}}
=============================================================================
