----------------------------- MODULE PineSyntax -----------------------------
(* The trees of scripts, as the builder makes them of what is written.      *)
(* A node is a record with a field "node"; literals hold a value            *)
(*   num (n, NoPrice for nan), bool (b), str (s), none, series and array     *)
(* (data, one number per bar).                                              *)
EXTENDS Sequences

CONSTANT NoPrice        \* None: no stop, no target; and nan among numbers

NaN == NoPrice
Num(n) == [t |-> "num", n |-> n]
Bool(b) == [t |-> "bool", b |-> b]
Str(s) == [t |-> "str", s |-> s]
NoValue == [t |-> "none"]
Series(d) == [t |-> "series", data |-> d]
Array(d) == [t |-> "array", data |-> d]

Program(body) == [node |-> "program", body |-> body]
Literal(v) == [node |-> "value", value |-> v]
VarRef(name) == [node |-> "varref", name |-> name]
Member(namespace, member) == [node |-> "member", namespace |-> namespace, member |-> member]
BinaryOp(op, left, right) == [node |-> "binary", op |-> op, left |-> left, right |-> right]
UnaryOp(op, operand) == [node |-> "unary", op |-> op, operand |-> operand]
IndexAccess(name, index) == [node |-> "index", name |-> name, index |-> index]
FuncCall(name, args) == [node |-> "func", name |-> name, args |-> args]
Ternary(cond, yes, no) == FuncCall("?", <<cond, yes, no>>)

\* name = value, var name = value or name := value (mode "set", "var", "reassign").
Assignment(mode, name, value) == [node |-> "assign", mode |-> mode, name |-> name, value |-> value]

\* Arguments by position, then those by name: names and their values.
MethodCall(ns, method, args, kwnames, kwvalues) ==
    [node |-> "method", ns |-> ns, method |-> method, args |-> args,
     kwnames |-> kwnames, kwvalues |-> kwvalues]

\* A conditional with its block, else-ifs and else.  The builder keeps as body
\* the statements of the block that are no conditional; a conditional of the
\* block goes in front of the else-ifs.
IfBlock(cond, block, elifs, else) ==
    LET IsIf(n) == n.node = "if"
    IN [node |-> "if", cond |-> cond, body |-> SelectSeq(block, LAMBDA n : ~IsIf(n)),
        elifs |-> SelectSeq(block, IsIf) \o elifs, else |-> else]

ElifBlock(cond, block) == [node |-> "if", cond |-> cond, body |-> block, elifs |-> <<>>, else |-> <<>>]
=============================================================================
