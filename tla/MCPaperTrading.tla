--------------------------- MODULE MCPaperTrading ---------------------------
(* Small instances of PaperTrading: prices 1..3, one payload per shape of    *)
(* trade the checks tell apart.                                              *)
EXTENDS PaperTrading, TLC

MCPrices == 1..3

Long  == [side |-> "long",  entry |-> 2, quantity |-> 2, limit |-> 0, stop |-> 1, target |-> 3]
Short == [side |-> "short", entry |-> 2, quantity |-> 2, limit |-> 0, stop |-> 3, target |-> 1]
Limit == [side |-> "long",  entry |-> 3, quantity |-> 1, limit |-> 2, stop |-> 1, target |-> 0]

\* Both sides and a limit order with a stop below it.
AllPayloads == {Long, Short, Limit}
MarketOnly  == {Long, Short}

Symmetry == Permutations(Ids) \cup Permutations(Requests)
=============================================================================
