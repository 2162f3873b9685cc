----------------------------- MODULE Sequencing -----------------------------
(***************************************************************************)
(* Reading and building sequences: folds over indices, prefixes and the    *)
(* orders in which a HashMap can be read.                                  *)
(***************************************************************************)
EXTENDS Integers, Sequences, FiniteSets, Folds, Functions

\* op over f(1), ..., f(n), from the left.
Folded(op(_, _), base, f(_), n) ==
    MapThenFoldSet(LAMBDA x, y : op(y, x), base, f,
                   LAMBDA S : CHOOSE i \in S : \A j \in S : j <= i, 1..n)

\* The sequences p(1), ..., p(n), one after the other.
Concatenated(p(_), n) == Folded(LAMBDA t, u : t \o u, <<>>, p, n)

\* s is a beginning of t.
Begins(s, t) == Len(s) <= Len(t) /\ \A i \in 1..Len(s) : s[i] = t[i]

\* The elements of the finite set S in any order.
Orders(S) == Injection(1..Cardinality(S), S)
=============================================================================
