------------------------------- MODULE MCPine -------------------------------
(* Small scripts over three bars of a few shapes.                           *)
EXTENDS PineRun

V(name) == VarRef(name)
N(n) == Literal(Num(n))
S(s) == Literal(Str(s))
Long == Member("strategy", "long")
Short == Member("strategy", "short")
Is(op, l, r) == BinaryOp(op, l, r)
Not(e) == UnaryOp("not", e)
Set(name, value) == Assignment("set", name, value)
Var(name, value) == Assignment("var", name, value)
Call(ns, method, args) == MethodCall(ns, method, args, <<>>, <<>>)
Bracket(stop, limit) == MethodCall("strategy", "exit", <<S("x")>>, <<"stop", "limit">>, <<stop, limit>>)
StopAt(stop) == MethodCall("strategy", "exit", <<S("x")>>, <<"stop">>, <<stop>>)
Fn(name, args) == FuncCall(name, args)
Back(name, n) == IndexAccess(name, n)
Entry(label, side) == Call("strategy", "entry", <<S(label), side>>)
Close(label) == Call("strategy", "close", <<S(label)>>)
When(cond, block) == IfBlock(cond, block, <<>>, <<>>)

Text(body) == [tree |-> Program(body), parses |-> TRUE, size |-> 1, computesBrackets |-> FALSE]
Up == Is(">", V("close"), V("open"))

MCPrograms == <<
    \* Orders on every bar: long and short, exits at the close, a bracket each bar.
    Text(<<Fn("strategy", <<S("Both ways")>>),
              IfBlock(Up, <<Entry("A", Long)>>, <<ElifBlock(Is("==", V("close"), N(1)), <<Entry("B", Short)>>)>>,
                      <<Call("strategy", "exit", <<S("out")>>)>>)>>),
    Text(<<Entry("A", Long), Bracket(N(1), N(4))>>),
    Text(<<Entry("B", Short), Bracket(N(4), N(1)), When(Up, <<Close("B_SHORT")>>)>>),
    Text(<<When(Not(Up), <<StopAt(Is("-", V("close"), N(1)))>>), Entry("A", Long),
              When(Is("==", V("bar_index"), N(2)), <<Call("strategy", "close", <<>>)>>)>>),
    \* Variables, conditions and inputs.
    Text(<<Var("first", V("close")), Set("len", Call("input", "int", <<N(2)>>)),
              Set("top", Call("ta", "highest", <<V("high"), V("len")>>)),
              When(Is("and", Is(">=", V("close"), V("first")), Is("or", Up, Is("!=", Back("close", N(1)), N(0)))),
                   <<Entry("A", Long)>>),
              When(Call("ta", "crossunder", <<V("close"), V("top")>>), <<Close("A")>>),
              Fn("plot", <<V("top"), S("top")>>),
              Fn("plot", <<Ternary(Up, V("close"), N(0))>>), Fn("hline", <<N(2)>>)>>),
    \* Indicators with keys that differ and keys that do not.
    Text(<<Set("a", Call("ta", "highest", <<V("high"), N(1)>>)),
              Set("b", Call("ta", "highest", <<V("high"), N(2)>>)),
              Set("c", Call("ta", "lowest", <<V("low"), N(2)>>)),
              Set("d", Call("ta", "change", <<V("close"), N(1)>>)),
              Set("e", Call("ta", "cum", <<V("close")>>)),
              When(Is("<", V("d"), Fn("input", <<N(0)>>)), <<Entry("A", Long)>>)>>),
    Text(<<Set("a", Call("ta", "highest", <<V("high"), N(2)>>)),
              Set("b", Call("ta", "highest", <<V("close"), N(2)>>))>>),
    \* What stops a run: names, a nested call, an index that is no number.
    Text(<<When(Up, <<Set("x", N(1))>>), When(Is(">", V("x"), N(0)), <<Entry("A", Long)>>)>>),
    Text(<<When(Up, <<Call("ta", "atr2", <<V("close")>>)>>)>>),
    Text(<<When(Up, <<Call("math", "abs", <<V("close")>>)>>), Fn("alert", <<>>)>>),
    Text(<<When(Up, <<Fn("alert", <<>>)>>)>>),
    Text(<<Call("strategy", "long", <<>>)>>),
    Text(<<Set("x", Call("ta", "crossover", <<Call("ta", "change", <<V("close"), N(1)>>), V("open")>>))>>),
    Text(<<Set("x", Back("close", V("nothing")))>>),
    [Text(<<Entry("A", Long), StopAt(Call("ta", "atr2", <<V("close")>>))>>) EXCEPT !.computesBrackets = TRUE],
    [Text(<<>>) EXCEPT !.parses = FALSE],
    [Text(<<>>) EXCEPT !.size = 9] >>

Spike == [open |-> 2, high |-> 4, low |-> 1, close |-> 2]

\* Bars that rise, fall, spike both ways or stand still, one with no price.
Shapes == {[open |-> 2, high |-> 3, low |-> 2, close |-> 3], [open |-> 3, high |-> 4, low |-> 1, close |-> 1],
           Spike, [open |-> 2, high |-> 2, low |-> 2, close |-> 2],
           [open |-> 0, high |-> 0, low |-> 0, close |-> 0]}
MCCandles == UNION {[1 .. n -> Shapes] : n \in 1 .. 3} \cup {[i \in 1 .. 5 |-> CHOOSE c \in Shapes : TRUE]}
MCShort == {"B_SHORT", "A_SHORT"}
=============================================================================
