------------------------------- MODULE Ordering --------------------------------
(***************************************************************************)
(* Lists in an order: what Python's sorted and SQL's ORDER BY make of a set. *)
(* The order is the set of pairs of which the first must come before the     *)
(* second; what it leaves open comes as it likes, the same way every time.   *)
(***************************************************************************)
EXTENDS Integers, FiniteSets, Sequences

\* Of what is left, one that nothing must precede, and then the others.
First(T, ahead) == CHOOSE x \in T : \A y \in T : <<y, x>> \notin ahead

Sorted(S, ahead) ==
    LET sort[T \in SUBSET S] ==
            IF T = {} THEN <<>> ELSE <<First(T, ahead)>> \o sort[T \ {First(T, ahead)}]
    IN  sort[S]
=============================================================================
