---------------------------- MODULE PineRuntime ----------------------------
(* What a script means: the evaluation of a tree at one bar, and the         *)
(* validator's walk over a tree.  Indicators that need fractions are left    *)
(* out.                                                                      *)
EXTENDS PineStrategy, Integers

VARIABLE candles        \* what the run reads: a sequence of [open, high, low, close]

BuiltinSeries == {"close", "open", "high", "low"}
SeriesOf(name) == [b \in DOMAIN candles |-> candles[b][name]]
At(data, b) == IF b \in DOMAIN data THEN data[b] ELSE NaN

-----------------------------------------------------------------------------
(* Values.                                                                  *)

Truthy(v) == CASE v.t = "none" -> FALSE
               [] v.t = "bool" -> v.b
               [] v.t = "num"  -> v.n # NaN /\ v.n # 0
               [] v.t = "str"  -> v.s # ""
               [] OTHER        -> v.data # <<>>

Scalar(v, b) == CASE v.t = "num"  -> v.n
                  [] v.t = "bool" -> IF v.b THEN 1 ELSE 0
                  [] v.t \in {"series", "array"} -> At(v.data, b)
                  [] OTHER -> NaN

Plus(x, y) == IF NaN \in {x, y} THEN NaN ELSE x + y
Minus(x, y) == IF NaN \in {x, y} THEN NaN ELSE x - y

Binary(op, x, y) ==
    LET ok == NaN \notin {x, y}
    IN CASE op = "+"  -> Num(Plus(x, y))
         [] op = "-"  -> Num(Minus(x, y))
         [] op = "*"  -> Num(IF ok THEN x * y ELSE NaN)
         [] op = "/"  -> Num(IF ok /\ y # 0 THEN x \div y ELSE NaN)
         [] op = ">"  -> Bool(ok /\ x > y)
         [] op = "<"  -> Bool(ok /\ x < y)
         [] op = ">=" -> Bool(ok /\ x >= y)
         [] op = "<=" -> Bool(ok /\ x <= y)
         [] op = "==" -> Bool(ok /\ x = y)
         [] op = "!=" -> Bool(~ok \/ x # y)

-----------------------------------------------------------------------------
(* Indicators: functions from whole series to a series, nan where too few   *)
(* bars are known.                                                          *)
Window(s, b, n) == {s[i] : i \in (b - n + 1) .. b} \ {NaN}
Known(s, b, n) == b >= n /\ Window(s, b, n) # {}

Change(s, n) == [b \in DOMAIN s |-> IF b > n THEN Minus(s[b], s[b - n]) ELSE NaN]
Highest(s, n) == [b \in DOMAIN s |-> IF Known(s, b, n) THEN Max(Window(s, b, n)) ELSE NaN]
Lowest(s, n) == [b \in DOMAIN s |-> IF Known(s, b, n) THEN Min(Window(s, b, n)) ELSE NaN]
Cum(s) == [b \in DOMAIN s |-> FoldLeft(LAMBDA x, y : IF y = NaN THEN x ELSE x + y, 0, SubSeq(s, 1, b))]

Indicators == {"change", "mom", "highest", "lowest", "cum"}
Crossings == {"crossover", "crossunder"}

\* The arguments an indicator computes with: an array and, but for cum, a length.
Fits(m, args) == /\ Len(args) = IF m = "cum" THEN 1 ELSE 2
                 /\ args[1].t = "array"
                 /\ m # "cum" => args[2].t = "num" /\ args[2].n # NaN

Indicator(m, args) ==
    CASE m \in {"change", "mom"} -> Change(args[1].data, args[2].n)
      [] m = "highest" -> Highest(args[1].data, args[2].n)
      [] m = "lowest"  -> Lowest(args[1].data, args[2].n)
      [] m = "cum"     -> Cum(args[1].data)

Crosses(m, x, y, b) ==
    /\ b > 1
    /\ NaN \notin {x[b], y[b], x[b - 1], y[b - 1]}
    /\ IF m = "crossover" THEN x[b] > y[b] /\ x[b - 1] <= y[b - 1]
                          ELSE x[b] < y[b] /\ x[b - 1] >= y[b - 1]

MutantKey(m, args) == <<m, [i \in DOMAIN args |-> args[i].t]>>  \* lengths forgotten
\* The key of a cached series: the method, numbers by value, series by length.
IndicatorKey(m, args) ==
    <<m, [i \in DOMAIN args |-> IF args[i].t \in {"array", "series"}
                                THEN <<args[i].t, Len(args[i].data)>>
                                ELSE <<args[i].t, args[i].n>>]>>

-----------------------------------------------------------------------------
(* Evaluation.  A context holds the variables, the var names set once, the   *)
(* cached indicators, the plots, the script's name, the strategy and the     *)
(* error that ended the run; Run returns a value and the context after it.   *)

NewContext == [vars |-> <<>>, inited |-> {}, cache |-> <<>>, plots |-> <<>>, name |-> "Script",
               strategy |-> NewStrategy, err |-> ""]

Put(f, k, v) == [x \in DOMAIN f \cup {k} |-> IF x = k THEN v ELSE f[x]]
Ret(v, c) == [v |-> v, c |-> c]
Raise(c, what) == Ret(NoValue, [c EXCEPT !.err = what])

GetVar(name, c, b) ==
    IF name \in DOMAIN c.vars
    THEN LET v == c.vars[name] IN Ret(IF v.t = "series" THEN Num(At(v.data, b)) ELSE v, c)
    ELSE IF name \in {"bar_index", "timenow"} THEN Ret(Num(b - 1), c)
    ELSE IF name \in BuiltinSeries THEN Ret(Num(candles[b][name]), c)
    ELSE Raise(c, "undefined")

Assign(n, v, c) ==
    IF n.mode = "var" /\ n.name \in c.inited THEN c
    ELSE [c EXCEPT !.vars = Put(@, n.name, v),
                   !.inited = IF n.mode = "var" THEN @ \cup {n.name} ELSE @]

\* A series of an indicator: the cached one of its key, or a new one.
ComputeIndicator(m, args, c) ==
    LET key == IndicatorKey(m, args)
    IN IF key \in DOMAIN c.cache THEN Ret(Series(c.cache[key]), c)
       ELSE IF m \notin Indicators THEN Raise(c, "unknown_ta")
       ELSE IF ~Fits(m, args) THEN Raise(c, "type")
       ELSE Ret(Series(Indicator(m, args)),
                [c EXCEPT !.cache = Put(@, key, Indicator(m, args))])

CallTa(m, args, c, b) ==
    IF m \notin Crossings THEN ComputeIndicator(m, args, c)
    ELSE IF Len(args) < 2 \/ \E i \in 1 .. 2 : args[i].t # "array" THEN Raise(c, "type")
    ELSE Ret(Bool(Crosses(m, args[1].data, args[2].data, b)), c)

Exits(c, s) == IF ExitRaises(c.strategy) THEN Raise(c, "zero") ELSE Ret(NoValue, [c EXCEPT !.strategy = s])

\* The orders: entry(label, direction), exit(label) with a bracket or at the
\* close, and close(label).
CallStrategy(m, args, kwargs, c, b) ==
    LET price == candles[b].close
        s     == c.strategy
        label == IF args = <<>> THEN (IF m = "entry" THEN "LONG" ELSE "exit") ELSE args[1].s
        short == Len(args) > 1 /\ args[2].s = "short"
        level(k) == IF k \in DOMAIN kwargs /\ kwargs[k].t = "num" THEN kwargs[k].n ELSE NoPrice
    IN CASE m = "entry" -> Ret(NoValue, [c EXCEPT !.strategy = EmitEntry(s,
                IF short /\ ~IsShort(label) THEN label \o "_SHORT" ELSE label, price, b)])
         [] m = "exit" -> IF \E k \in DOMAIN kwargs : kwargs[k] # NoValue
                          THEN Ret(NoValue, [c EXCEPT !.strategy = SetBracket(s, level("stop"), level("limit"))])
                          ELSE Exits(c, EmitExit(s, label, price, b))
         [] m = "close" -> Exits(c, IF args # <<>> /\ ~Flat(s) /\ "" \notin {label, s.position}
                                    THEN EmitExit(s, label, price, b) ELSE EmitClose(s, price, b))
         [] OTHER -> Raise(c, "unknown_strategy")

Plot(args, c) ==
    IF args = <<>> \/ args[1].t \notin {"series", "num"} THEN c
    ELSE [c EXCEPT !.plots = Put(@, IF Len(args) > 1 THEN args[2].s ELSE "Plot",
                                 IF args[1].t = "series" THEN args[1].data
                                 ELSE [b \in DOMAIN candles |-> args[1].n])]

\* An input is its default value.
Default(args, b) ==
    CASE args = <<>> -> Num(0)
      [] args # <<>> /\ args[1].t = "series" -> Num(At(args[1].data, b))
      [] OTHER -> args[1]

RECURSIVE Run(_, _, _), RunAll(_, _, _), Args(_, _, _), Elifs(_, _, _, _), Resolve(_, _, _, _)

\* The statements of a block, until one raises.
RunAll(stmts, c, b) ==
    IF stmts = <<>> \/ c.err # "" THEN c
    ELSE RunAll(Tail(stmts), Run(Head(stmts), c, b).c, b)

\* The values of the nodes of a sequence, or of the arguments by name.
Args(nodes, c, b) ==
    IF nodes = <<>> \/ c.err # "" THEN Ret(<<>>, c)
    ELSE LET first == Run(Head(nodes), c, b)
             rest  == Args(Tail(nodes), first.c, b)
         IN Ret(<<first.v>> \o rest.v, rest.c)

\* The arguments of an indicator: built-in and stored series as arrays.
Resolve(nodes, arrays, c, b) ==
    IF nodes = <<>> \/ c.err # "" THEN Ret(arrays, c)
    ELSE LET n == Head(nodes)
             stored == n.node = "varref" /\ n.name \in DOMAIN c.vars
             r == IF n.node = "varref" /\ n.name \in BuiltinSeries THEN Ret(Array(SeriesOf(n.name)), c)
                  ELSE IF stored /\ c.vars[n.name].t = "series" THEN Ret(Array(c.vars[n.name].data), c)
                  ELSE Run(n, c, b)
         IN Resolve(Tail(nodes), Append(arrays, r.v), r.c, b)

\* The else-ifs in order, then the else.
Elifs(elifs, else, c, b) ==
    IF elifs = <<>> THEN RunAll(else, c, b)
    ELSE LET cond == Run(Head(elifs).cond, c, b)
         IN IF cond.c.err # "" THEN cond.c
            ELSE IF Truthy(cond.v) THEN RunAll(Head(elifs).body, cond.c, b)
            ELSE Elifs(Tail(elifs), else, cond.c, b)

Run(n, c, b) ==
    CASE n.node = "program" -> Ret(NoValue, RunAll(n.body, c, b))
      [] n.node = "value" -> Ret(n.value, c)
      [] n.node = "varref" -> GetVar(n.name, c, b)
      [] n.node = "member" -> Ret(Str(n.member), c)
      [] n.node = "assign" -> LET r == Run(n.value, c, b)
                              IN IF r.c.err # "" THEN r ELSE Ret(NoValue, Assign(n, r.v, r.c))
      [] n.node = "if" -> LET r == Run(n.cond, c, b)
                          IN IF r.c.err # "" THEN r
                             ELSE IF Truthy(r.v) THEN Ret(NoValue, RunAll(n.body, r.c, b))
                             ELSE Ret(NoValue, Elifs(n.elifs, n.else, r.c, b))
      [] n.node = "binary" ->
            LET l == Run(n.left, c, b)
                decided == (n.op = "or" /\ Truthy(l.v)) \/ (n.op = "and" /\ ~Truthy(l.v))
            IN IF l.c.err # "" THEN l
               ELSE IF decided THEN Ret(Bool(n.op = "or"), l.c)
               ELSE LET r == Run(n.right, l.c, b)
                    IN IF r.c.err # "" THEN r
                       ELSE IF n.op \in {"or", "and"} THEN Ret(Bool(Truthy(r.v)), r.c)
                       ELSE Ret(Binary(n.op, Scalar(l.v, b), Scalar(r.v, b)), r.c)
      [] n.node = "unary" ->
            LET r == Run(n.operand, c, b)
            IN IF r.c.err # "" THEN r
               ELSE IF n.op = "not" THEN Ret(Bool(~Truthy(r.v)), r.c)
               ELSE Ret(Num(Minus(0, Scalar(r.v, b))), r.c)
      \* The name before the bracket reaches the engine as a bare token, for
      \* which it has no evaluator: the index is evaluated, the value is nan.
      [] n.node = "index" -> LET r == Run(n.index, c, b)
                             IN IF r.c.err # "" THEN r
                                ELSE IF r.v.t # "num" \/ r.v = Num(NaN) THEN Raise(r.c, "type")
                                ELSE Ret(Num(NaN), r.c)
      [] n.node = "method" ->
            LET ta == n.ns = "ta"
                a  == IF ta THEN Resolve(n.args, <<>>, c, b)
                      ELSE IF n.ns = "input" /\ n.args # <<>> THEN Args(<<Head(n.args)>>, c, b)
                      ELSE Args(n.args, c, b)
                kw == IF n.ns = "strategy" /\ n.method = "exit" THEN Args(n.kwvalues, a.c, b) ELSE Ret(<<>>, a.c)
            IN IF n.ns \notin {"ta", "strategy", "input"} THEN Raise(c, "unknown_namespace")
               ELSE IF kw.c.err # "" THEN Ret(NoValue, kw.c)
               ELSE IF ta THEN CallTa(n.method, a.v, a.c, b)
               ELSE IF n.ns = "input" THEN Ret(Default(a.v, b), a.c)
               ELSE CallStrategy(n.method, a.v,
                                [k \in {n.kwnames[i] : i \in DOMAIN n.kwnames} |->
                                    LET i == CHOOSE j \in DOMAIN n.kwnames : n.kwnames[j] = k
                                    IN IF i \in DOMAIN kw.v THEN kw.v[i] ELSE NoValue], kw.c, b)
      [] n.node = "func" ->
            LET read == CASE n.name = "?" -> 3 [] n.name \in {"plot", "hline"} -> 2 [] OTHER -> 1
                a == Args(SubSeq(n.args, 1, IF read < Len(n.args) THEN read ELSE Len(n.args)), c, b)
            IN IF n.name \notin {"?", "strategy", "indicator", "plot", "hline", "input"} THEN Raise(c, "unknown_function")
               ELSE IF a.c.err # "" THEN a
               ELSE IF n.name = "?" THEN Ret(IF Truthy(a.v[1]) THEN a.v[2] ELSE a.v[3], a.c)
               ELSE IF n.name \in {"plot", "hline"} THEN Ret(NoValue, Plot(a.v, a.c))
               ELSE IF n.name = "input" THEN Ret(Default(a.v, b), a.c)
               ELSE Ret(NoValue, IF a.v = <<>> THEN a.c ELSE [a.c EXCEPT !.name = a.v[1].s])

-----------------------------------------------------------------------------
(* The validator: what it finds wrong with a tree, without running it.      *)

Namespaces == {"ta", "strategy", "input"}
MutantAllowed(ns) == Indicators \cup Crossings \cup {"entry", "close", "atr2"}   \* one table for all
Allowed(ns) == CASE ns = "ta" -> Indicators \cup Crossings
                 [] ns = "strategy" -> {"entry", "exit", "close", "long", "short"}
                 [] ns = "input" -> {"int", "float", "bool", "source"}

RECURSIVE Errors(_), ErrorsOf(_)

ErrorsOf(nodes) == IF nodes = <<>> THEN {} ELSE Errors(Head(nodes)) \cup ErrorsOf(Tail(nodes))

\* Keyword arguments are not looked at, nor whether a variable was assigned.
Errors(n) ==
    CASE n.node = "program" -> ErrorsOf(n.body)
      [] n.node = "assign" -> Errors(n.value)
      [] n.node = "if" -> Errors(n.cond) \cup ErrorsOf(n.body) \cup ErrorsOf(n.elifs) \cup ErrorsOf(n.else)
      [] n.node = "binary" -> Errors(n.left) \cup Errors(n.right)
      [] n.node = "unary" -> Errors(n.operand)
      [] n.node = "index" -> Errors(n.index)
      [] n.node = "method" -> ErrorsOf(n.args) \cup
            (IF n.ns \notin Namespaces THEN {"unknown_namespace"}
             ELSE IF n.method \in Allowed(n.ns) THEN {} ELSE {"unknown_" \o n.ns})
      [] n.node = "func" ->
            IF n.name \in {"strategy", "indicator"} THEN {}
            ELSE ErrorsOf(n.args) \cup
                    (IF n.name \in {"plot", "hline", "input", "?"} THEN {} ELSE {"unknown_function"})
      [] OTHER -> {}
=============================================================================
