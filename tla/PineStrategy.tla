---------------------------- MODULE PineStrategy ----------------------------
(* The orders of one script run: the position a strategy holds, its bracket, *)
(* the signals it emits and the trades it closes, and the trades and the     *)
(* equity curve that a backtest rebuilds from the signals alone.  Prices are *)
(* naturals and a profit is left to its two prices.                          *)
EXTENDS PineSyntax, Naturals, SequencesExt

CONSTANT ShortLabels    \* the labels that contain "SHORT"

IsShort(label) == label \in ShortLabels

\* A strategy that has not traded: it holds no position.
NewStrategy ==
    [position |-> NoPrice, price |-> 0, bar |-> 0, stop |-> NoPrice, target |-> NoPrice,
     signals |-> <<>>, trades |-> <<>>]

Flat(s) == s.position = NoPrice

EmitEntry(s, label, price, bar) ==
    IF ~Flat(s) THEN s
    ELSE [s EXCEPT !.position = label, !.price = price, !.bar = bar,
                   !.signals = Append(@, [bar |-> bar, type |-> "entry", label |-> label,
                       price |-> price, side |-> IF IsShort(label) THEN "sell" ELSE "buy"])]

\* The trade that an exit closes.
ClosedTrade(s, price, bar) ==
    [label |-> s.position, entryBar |-> s.bar, exitBar |-> bar, entryPrice |-> s.price,
     exitPrice |-> price, long |-> ~IsShort(s.position)]

\* A profit is a fraction of the entry price: one of 0 cannot be divided by.
ExitRaises(s) == ~Flat(s) /\ s.price = 0

EmitExit(s, label, price, bar) ==
    IF Flat(s) THEN s
    ELSE [s EXCEPT !.position = NoPrice, !.stop = NoPrice, !.target = NoPrice,
                   !.trades = Append(@, ClosedTrade(s, price, bar)),
                   !.signals = Append(@, [bar |-> bar, type |-> "exit", label |-> label,
                       price |-> price,
                       side |-> IF IsShort(s.position) THEN "buy" ELSE "sell"])]

EmitClose(s, price, bar) == EmitExit(s, "close_" \o s.position, price, bar)

Given(p) == p # NoPrice /\ p > 0

SetBracket(s, stop, limit) ==
    [s EXCEPT !.stop   = IF Given(stop) THEN stop ELSE @,
              !.target = IF Given(limit) THEN limit ELSE @]

StopReached(s, low, high) ==
    s.stop # NoPrice /\ IF IsShort(s.position) THEN high >= s.stop ELSE low <= s.stop

TargetReached(s, low, high) ==
    s.target # NoPrice /\ IF IsShort(s.position) THEN low <= s.target ELSE high >= s.target

\* The price at which the bar takes the position out, the stop before the target.
BracketPrice(s, low, high) ==
    IF Flat(s) THEN NoPrice
    ELSE IF StopReached(s, low, high) THEN s.stop
    ELSE IF TargetReached(s, low, high) THEN s.target
    ELSE NoPrice

CheckBarExits(s, low, high, bar) ==
    LET p == BracketPrice(s, low, high)
    IN IF p = NoPrice THEN s ELSE EmitExit(s, "bracket", p, bar)

-----------------------------------------------------------------------------
(* The backtest.                                                            *)

\* One signal read: entries wait under their label, in the order they came,
\* and an exit takes the entry of its label or else the first that waits.
Pair(acc, sig) ==
    LET Named == {i \in DOMAIN acc.open : acc.open[i].label = sig.label}
        at    == IF Named # {} THEN CHOOSE i \in Named : TRUE ELSE 1
        entry == acc.open[at]
    IN CASE sig.type = "entry" /\ Named # {} -> [acc EXCEPT !.open[at] = sig]
         [] sig.type = "entry" /\ Named = {} -> [acc EXCEPT !.open = Append(@, sig)]
         [] sig.type = "exit" /\ acc.open = <<>> -> acc
         [] sig.type = "exit" /\ acc.open # <<>> ->
                [open   |-> RemoveAt(acc.open, at),
                 trades |-> Append(acc.trades,
                    [label |-> entry.label, entryBar |-> entry.bar, exitBar |-> sig.bar,
                     entryPrice |-> entry.price, exitPrice |-> sig.price,
                     long |-> entry.side = "buy"])]

\* A slip: every exit is paired with the last entry, under the exit's own side.
MutantPairing(signals) ==
    FoldLeft(LAMBDA acc, sig :
                IF sig.type = "entry" THEN [acc EXCEPT !.open = sig]
                ELSE [acc EXCEPT !.trades = Append(@,
                        [label |-> acc.open.label, entryBar |-> acc.open.bar, exitBar |-> sig.bar,
                         entryPrice |-> acc.open.price, exitPrice |-> sig.price,
                         long |-> sig.side = "buy"])],
             [open |-> <<>>, trades |-> <<>>], signals).trades
BuildTrades(signals) ==
    FoldLeft(Pair, [open |-> <<>>, trades |-> <<>>], signals).trades

\* The trades whose profit the capital of each bar contains.
EquityCurve(trades, bars) ==
    [b \in 1 .. bars |-> {i \in DOMAIN trades : trades[i].exitBar <= b}]

Won(t) == IF t.long THEN t.exitPrice > t.entryPrice ELSE t.exitPrice < t.entryPrice

\* The counts of the report, without fees, and the longest streaks.
Tally(acc, t) ==
    LET w == IF Won(t) THEN acc.w + 1 ELSE 0
        l == IF Won(t) THEN 0 ELSE acc.l + 1
        Larger(x, y) == IF x > y THEN x ELSE y
    IN [w |-> w, l |-> l, maxWins |-> Larger(acc.maxWins, w), maxLosses |-> Larger(acc.maxLosses, l),
        wins |-> acc.wins + (IF Won(t) THEN 1 ELSE 0), total |-> acc.total + 1]

Statistics(trades) ==
    FoldLeft(Tally, [w |-> 0, l |-> 0, maxWins |-> 0, maxLosses |-> 0, wins |-> 0, total |-> 0], trades)
=============================================================================
