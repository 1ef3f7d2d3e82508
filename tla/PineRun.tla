------------------------------ MODULE PineRun ------------------------------
(* One execution of a script over candles, bar by bar, inside the sandbox,   *)
(* and the backtest of a run that succeeded.                                 *)
EXTENDS PineRuntime

CONSTANTS Programs,      \* a sequence of [tree, parses, size]: the sources
          CandleSets,   \* the candles a run may be given
          MaxScriptLen, MaxBars,   \* the sandbox's limits
          YieldEvery    \* the loop yields, and can be cut off, every so many bars

VARIABLES chosen,       \* which of Programs runs
          ctx,          \* its context
          bar,          \* the bars executed
          status,       \* "new", "running", "done" or why it failed
          report        \* the backtest of a run that is done

runVars == <<candles, chosen, ctx, bar, status, report>>

Tree == Programs[chosen].tree
NoReport == [trades |-> <<>>, curve |-> <<>>, stats |-> Statistics(<<>>)]
Failures == {"limit", "parse", "timeout", "undefined", "zero", "type", "unknown_namespace",
             "unknown_function", "unknown_ta", "unknown_strategy"}

RunInit == /\ candles \in CandleSets
        /\ chosen \in DOMAIN Programs
        /\ ctx = NewContext
        /\ bar = 0
        /\ status = "new"
        /\ report = NoReport

\* The checks before the loop, in their order.
Begin == /\ status = "new"
         /\ status' = IF Programs[chosen].size > MaxScriptLen THEN "limit"
                      ELSE IF Len(candles) > MaxBars THEN "limit"
                      ELSE IF ~Programs[chosen].parses THEN "parse"
                      ELSE "running"
         /\ UNCHANGED <<candles, chosen, ctx, bar, report>>

\* A bar: the tree, then the bracket against the range of the bar.
Bar == /\ status = "running"
       /\ bar < Len(candles)
       /\ LET b == bar + 1
              c == Run(Tree, ctx, b).c
              s == CheckBarExits(c.strategy, candles[b].low, candles[b].high, b)
              zero == s # c.strategy /\ ExitRaises(c.strategy)
          IN /\ bar' = b
             /\ ctx' = IF c.err # "" \/ zero THEN c ELSE [c EXCEPT !.strategy = s]
             /\ status' = IF c.err # "" THEN c.err ELSE IF zero THEN "zero" ELSE status
       /\ UNCHANGED <<candles, chosen, report>>

\* Time is up when the loop yields.
Timeout == /\ status = "running"
           /\ bar > 0 /\ (bar - 1) % YieldEvery = 0
           /\ status' = "timeout"
           /\ UNCHANGED <<candles, chosen, ctx, bar, report>>

\* The run returns its signals; the backtest rebuilds the trades from them.
Finish == /\ status = "running"
          /\ bar = Len(candles)
          /\ status' = "done"
          /\ LET trades == BuildTrades(ctx.strategy.signals)
             IN report' = [trades |-> trades, curve |-> EquityCurve(trades, bar),
                               stats |-> Statistics(trades)]
          /\ UNCHANGED <<candles, chosen, ctx, bar>>

RunNext == Begin \/ Bar \/ Timeout \/ Finish

-----------------------------------------------------------------------------
(* Properties.                                                              *)

RunTypeOK == /\ candles \in CandleSets
             /\ chosen \in DOMAIN Programs
             /\ bar \in 0 .. Len(candles)
             /\ status \in {"new", "running", "done"} \cup Failures

\* The backtest knows only the labels and the order of the signals, and yet its
\* trades are the strategy's own, with their sides and prices, and the equity
\* after a bar is that of the trades the strategy had closed by then; no row of
\* winners is longer than the reported one (_build_trades, _compute_equity_curve
\* and _compute_statistics against StrategyState).
BacktestAgrees ==
    status = "done" =>
        /\ report.trades = ctx.strategy.trades
        /\ \A b \in 1 .. bar :
             report.curve[b] = 1 .. Len(SelectSeq(ctx.strategy.trades, LAMBDA t : t.exitBar <= b))
        /\ LET t == ctx.strategy.trades
               Rows == {<<i, j>> \in (DOMAIN t) \X (DOMAIN t) : i <= j /\ \A k \in i .. j : Won(t[k])}
           IN /\ \A r \in Rows : r[2] - r[1] < report.stats.maxWins
              /\ report.stats.wins = Len(SelectSeq(t, Won))
              /\ report.stats.maxWins > 0 => \E r \in Rows : r[2] - r[1] + 1 = report.stats.maxWins

\* A script that validates and gives orders no computed brackets never stops at
\* a name the engine does not know (the tables of validate and RuntimeEngine).
ValidNamesExist ==
    status \in {"unknown_namespace", "unknown_function", "unknown_ta"} =>
        Errors(Tree) # {} \/ Programs[chosen].computesBrackets

\* The indicator calls at the top of a script on a built-in series and a number.
Calls == {i \in DOMAIN Tree.body :
            LET n == Tree.body[i] IN n.node = "assign" /\ n.value.node = "method" /\ n.value.ns = "ta"
                /\ Len(n.value.args) = 2 /\ n.value.args[2].node = "value"
                /\ n.value.args[1].node = "varref" /\ n.value.args[1].name \in BuiltinSeries}
AskedFor(i) == LET v == Tree.body[i].value
            IN Indicator(v.method, <<Array(SeriesOf(v.args[1].name)), v.args[2].value>>)
Shown(i) == ctx.vars[Tree.body[i].name].data
Alike(i, j) == LET v == Tree.body[i].value  w == Tree.body[j].value
               IN v.method = w.method /\ v.args[2] = w.args[2]

\* An indicator variable holds the indicator of the arguments it was asked with
\* whenever no other call asks the same method and length of another series: the
\* cache never mixes methods or lengths (_indicator_key).
CacheKeepsCallsApart ==
    status = "done" =>
        \A i \in Calls : (\A j \in Calls \ {i} : ~Alike(i, j)) => Shown(i) = AskedFor(i)

=============================================================================
