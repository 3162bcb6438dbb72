------------------------------- MODULE Totals -------------------------------
(***************************************************************************)
(* Sums of the values of a function, counted instead of added up: the      *)
(* total of f is the number of pairs <<x, i>> with i in 1 .. f[x].  What a *)
(* change of one value does to a total is then a fact about cardinalities, *)
(* which TotalsProofs proves without an induction.                         *)
(***************************************************************************)
EXTENDS Integers, FiniteSets

Units(f) == UNION {{x} \X (1 .. f[x]) : x \in DOMAIN f}

\* The sum of the natural numbers f[x].
Total(f) == Cardinality(Units(f))

Gain(g) == [x \in DOMAIN g |-> IF g[x] > 0 THEN g[x] ELSE 0]
Loss(g) == [x \in DOMAIN g |-> IF g[x] < 0 THEN -g[x] ELSE 0]

\* The sum of the integers g[x].
Net(g) == Total(Gain(g)) - Total(Loss(g))
=============================================================================
