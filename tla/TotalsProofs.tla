---------------------------- MODULE TotalsProofs ----------------------------
(***************************************************************************)
(* What totals are worth knowing for: the type of a total, the empty one,  *)
(* one element taken out, changed or added, totals that are compared and   *)
(* totals that are added.                                                  *)
(***************************************************************************)
EXTENDS Totals, FiniteSetTheorems, TLAPS

\* The pairs of one element.
LEMMA UnitsOfOne ==
  ASSUME NEW x, NEW n \in Nat
  PROVE  IsFiniteSet({x} \X (1 .. n)) /\ Cardinality({x} \X (1 .. n)) = n
<1>1. IsFiniteSet({x}) /\ Cardinality({x}) = 1
  BY FS_Singleton
<1>2. IsFiniteSet(1 .. n) /\ Cardinality(1 .. n) = n
  BY FS_Interval
<1>3. Cardinality({x} \X (1 .. n)) = Cardinality({x}) * Cardinality(1 .. n)
  BY <1>1, <1>2, FS_Product
<1>4. 1 * n = n
  OBVIOUS
<1> QED
  BY <1>1, <1>2, <1>3, <1>4, FS_Product

\* A total counts finitely many pairs.
LEMMA UnitsFinite ==
  ASSUME NEW S, IsFiniteSet(S), NEW f \in [S -> Nat]
  PROVE  IsFiniteSet(Units(f))
<1> DEFINE image == {{x} \X (1 .. f[x]) : x \in S}
           g == [x \in S |-> {x} \X (1 .. f[x])]
<1>1. g \in Surjection(S, image)
  BY DEF Surjection
<1>2. IsFiniteSet(image)
  <2> HIDE DEF g, image
  <2> QED BY <1>1, FS_Surjection
<1>3. \A T \in image : IsFiniteSet(T)
  <2>1. \A x \in S : IsFiniteSet({x} \X (1 .. f[x]))
    BY UnitsOfOne
  <2> QED BY <2>1
<1>4. Units(f) = UNION image
  BY DEF Units
<1>5. IsFiniteSet(UNION image)
  <2> HIDE DEF image
  <2> QED BY <1>2, <1>3, FS_UNION
<1> QED
  BY <1>4, <1>5

\* A total is a natural number.
LEMMA TotalType ==
  ASSUME NEW S, IsFiniteSet(S), NEW f \in [S -> Nat]
  PROVE  Total(f) \in Nat
  BY UnitsFinite, FS_CardinalityType DEF Total

\* One element may be counted apart from the others.
LEMMA TotalSplit ==
  ASSUME NEW S, IsFiniteSet(S), NEW f \in [S -> Nat], NEW x \in S
  PROVE  Total(f) = f[x] + Total([y \in S \ {x} |-> f[y]])
<1> DEFINE rest == [y \in S \ {x} |-> f[y]]
           one == {x} \X (1 .. f[x])
<1>1. rest \in [S \ {x} -> Nat] /\ IsFiniteSet(S \ {x})
  BY FS_RemoveElement
<1>2. Units(f) = one \cup Units(rest)
  BY DEF Units
<1>3. one \cap Units(rest) = {}
  BY DEF Units
<1>4. IsFiniteSet(one) /\ Cardinality(one) = f[x]
  BY UnitsOfOne
<1>5. IsFiniteSet(Units(rest))
  <2> HIDE DEF rest
  <2> QED BY <1>1, UnitsFinite
<1>6. Cardinality(one \cup Units(rest))
        = Cardinality(one) + Cardinality(Units(rest)) - Cardinality({})
  <2> HIDE DEF rest, one
  <2> QED BY <1>3, <1>4, <1>5, FS_Union
<1>7. Cardinality({}) = 0 /\ Cardinality(Units(rest)) \in Nat /\ f[x] \in Nat
  <2> HIDE DEF rest
  <2> QED BY <1>5, FS_EmptySet, FS_CardinalityType
<1> QED
  BY <1>2, <1>4, <1>6, <1>7 DEF Total

\* One value changes: so does the total, by as much.
LEMMA TotalUpdate ==
  ASSUME NEW S, IsFiniteSet(S), NEW f \in [S -> Nat], NEW x \in S, NEW n \in Nat
  PROVE  Total([f EXCEPT ![x] = n]) = Total(f) - f[x] + n
<1> DEFINE h == [f EXCEPT ![x] = n]
           rest == [y \in S \ {x} |-> f[y]]
<1>1. h \in [S -> Nat] /\ h[x] = n
  OBVIOUS
<1>2. [y \in S \ {x} |-> h[y]] = rest
  OBVIOUS
<1>3. rest \in [S \ {x} -> Nat] /\ IsFiniteSet(S \ {x})
  BY FS_RemoveElement
<1>4. Total(rest) \in Nat
  <2> HIDE DEF rest
  <2> QED BY <1>3, TotalType
<1>5. Total(f) = f[x] + Total(rest)
  BY TotalSplit
<1>6. Total(h) = n + Total(rest)
  <2> HIDE DEF h
  <2>1. Total(h) = h[x] + Total([y \in S \ {x} |-> h[y]])
    BY <1>1, TotalSplit
  <2> QED BY <2>1, <1>1, <1>2
<1> QED
  BY <1>4, <1>5, <1>6

\* Nothing adds up to nothing.
LEMMA TotalZero ==
  ASSUME NEW S, NEW f \in [S -> Nat], \A x \in S : f[x] = 0
  PROVE  Total(f) = 0
<1>1. Units(f) = {}
  BY DEF Units
<1> QED
  BY <1>1, FS_EmptySet DEF Total

\* Smaller values on fewer elements have a smaller total.
LEMMA TotalLeq ==
  ASSUME NEW T, IsFiniteSet(T), NEW S \in SUBSET T,
         NEW f \in [S -> Nat], NEW g \in [T -> Nat], \A x \in S : f[x] <= g[x]
  PROVE  Total(f) <= Total(g)
<1>1. Units(f) \subseteq Units(g)
  BY DEF Units
<1> QED
  BY <1>1, UnitsFinite, FS_Subset DEF Total

\* A value is at most the total.
LEMMA TotalBounds ==
  ASSUME NEW S, IsFiniteSet(S), NEW f \in [S -> Nat], NEW x \in S
  PROVE  f[x] <= Total(f)
<1>1. [y \in S \ {x} |-> f[y]] \in [S \ {x} -> Nat] /\ IsFiniteSet(S \ {x})
  BY FS_RemoveElement
<1>2. Total([y \in S \ {x} |-> f[y]]) \in Nat
  BY <1>1, TotalType
<1> QED
  BY <1>2, TotalSplit

\* Totals over the same elements add up.
LEMMA TotalPlus ==
  ASSUME NEW S, IsFiniteSet(S), NEW f \in [S -> Nat], NEW g \in [S -> Nat],
         NEW h \in [S -> Nat], \A x \in S : h[x] = f[x] + g[x]
  PROVE  Total(h) = Total(f) + Total(g)
<1> DEFINE over == UNION {{x} \X ((f[x] + 1) .. h[x]) : x \in S}
           b == [z \in Units(g) |-> <<z[1], z[2] + f[z[1]]>>]
<1>1. Units(h) = Units(f) \cup over
  BY DEF Units
<1>2. Units(f) \cap over = {}
  BY DEF Units
<1>3. \A z \in Units(g) : z[1] \in S /\ z[2] \in 1 .. g[z[1]] /\ z = <<z[1], z[2]>>
  BY DEF Units
<1>4. \A z \in over : z[1] \in S /\ z[2] \in (f[z[1]] + 1) .. h[z[1]] /\ z = <<z[1], z[2]>>
  OBVIOUS
<1>5. b \in [Units(g) -> over]
  <2> SUFFICES ASSUME NEW z \in Units(g) PROVE <<z[1], z[2] + f[z[1]]>> \in over
    OBVIOUS
  <2>1. z[1] \in S /\ z[2] + f[z[1]] \in (f[z[1]] + 1) .. h[z[1]]
    BY <1>3
  <2> QED BY <2>1
<1>6. \A y, z \in Units(g) : b[y] = b[z] => y = z
  <2> SUFFICES ASSUME NEW y \in Units(g), NEW z \in Units(g), b[y] = b[z] PROVE y = z
    OBVIOUS
  <2>1. y[1] = z[1] /\ y[2] + f[y[1]] = z[2] + f[z[1]]
    OBVIOUS
  <2>2. y[2] = z[2]
    BY <2>1, <1>3
  <2> QED BY <2>1, <2>2, <1>3
<1>7. \A w \in over : \E z \in Units(g) : b[z] = w
  <2> SUFFICES ASSUME NEW w \in over PROVE \E z \in Units(g) : b[z] = w
    OBVIOUS
  <2> DEFINE v == <<w[1], w[2] - f[w[1]]>>
  <2>1. w[1] \in S /\ w[2] - f[w[1]] \in 1 .. g[w[1]] /\ w[2] \in Int
    BY <1>4
  <2>2. v \in Units(g)
    BY <2>1 DEF Units
  <2>3. b[v] = w
    BY <2>1, <2>2, <1>4
  <2> QED BY <2>2, <2>3
<1>8. b \in Bijection(Units(g), over)
  <2> HIDE DEF b, over
  <2> QED BY <1>5, <1>6, <1>7 DEF Bijection, Injection, Surjection, IsInjective
<1>9. IsFiniteSet(Units(f)) /\ IsFiniteSet(Units(g))
  BY UnitsFinite
<1>10. IsFiniteSet(over) /\ Cardinality(over) = Cardinality(Units(g))
  <2> HIDE DEF b, over
  <2> QED BY <1>8, <1>9, FS_Bijection DEF ExistsBijection
<1>11. Cardinality(Units(f) \cup over)
         = Cardinality(Units(f)) + Cardinality(over) - Cardinality({})
  <2> HIDE DEF over
  <2> QED BY <1>2, <1>9, <1>10, FS_Union
<1>12. Cardinality({}) = 0 /\ Cardinality(Units(f)) \in Nat /\ Cardinality(Units(g)) \in Nat
  BY <1>9, FS_EmptySet, FS_CardinalityType
<1> QED
  BY <1>1, <1>10, <1>11, <1>12 DEF Total

\* The two halves of a net sum are totals.
LEMMA HalvesType ==
  ASSUME NEW S, NEW g \in [S -> Int]
  PROVE  Gain(g) \in [S -> Nat] /\ Loss(g) \in [S -> Nat]
  BY DEF Gain, Loss

\* A net sum is an integer.
LEMMA NetType ==
  ASSUME NEW S, IsFiniteSet(S), NEW g \in [S -> Int]
  PROVE  Net(g) \in Int
<1>1. Total(Gain(g)) \in Nat /\ Total(Loss(g)) \in Nat
  BY HalvesType, TotalType
<1> QED
  BY <1>1 DEF Net

\* Natural numbers have their total as net sum.
LEMMA NetOfNaturals ==
  ASSUME NEW S, IsFiniteSet(S), NEW f \in [S -> Nat]
  PROVE  Net(f) = Total(f)
<1>1. Gain(f) = f
  BY DEF Gain
<1>2. Loss(f) \in [S -> Nat] /\ \A x \in S : Loss(f)[x] = 0
  BY DEF Loss
<1>3. Total(Loss(f)) = 0
  BY <1>2, TotalZero
<1> QED
  BY <1>1, <1>3, TotalType DEF Net

\* Nothing is summed.
LEMMA NetEmpty == ASSUME NEW g \in [{} -> Int] PROVE Net(g) = 0
<1>1. Gain(g) \in [{} -> Nat] /\ Loss(g) \in [{} -> Nat]
  BY HalvesType
<1>2. Total(Gain(g)) = 0 /\ Total(Loss(g)) = 0
  BY <1>1, TotalZero
<1> QED
  BY <1>2 DEF Net

\* One element may be counted apart from the others.
LEMMA NetSplit ==
  ASSUME NEW S, IsFiniteSet(S), NEW g \in [S -> Int], NEW x \in S
  PROVE  Net(g) = g[x] + Net([y \in S \ {x} |-> g[y]])
<1> DEFINE rest == [y \in S \ {x} |-> g[y]]
<1>1. /\ Gain(g) \in [S -> Nat] /\ Loss(g) \in [S -> Nat]
      /\ rest \in [S \ {x} -> Int] /\ IsFiniteSet(S \ {x})
  BY HalvesType, FS_RemoveElement
<1>2. /\ Gain(rest) = [y \in S \ {x} |-> Gain(g)[y]]
      /\ Loss(rest) = [y \in S \ {x} |-> Loss(g)[y]]
      /\ Gain(g)[x] - Loss(g)[x] = g[x] /\ Gain(g)[x] \in Nat /\ Loss(g)[x] \in Nat
  BY <1>1 DEF Gain, Loss
<1>3. Total(Gain(rest)) \in Nat /\ Total(Loss(rest)) \in Nat
  <2> HIDE DEF rest
  <2>1. Gain(rest) \in [S \ {x} -> Nat] /\ Loss(rest) \in [S \ {x} -> Nat]
    BY <1>1, HalvesType
  <2> QED
    BY <1>1, <2>1, TotalType
<1> HIDE DEF rest
<1>4. Total(Gain(g)) = Gain(g)[x] + Total(Gain(rest))
  BY <1>1, <1>2, TotalSplit
<1>5. Total(Loss(g)) = Loss(g)[x] + Total(Loss(rest))
  BY <1>1, <1>2, TotalSplit
<1>6. Net(g) = g[x] + Net(rest)
  BY <1>2, <1>3, <1>4, <1>5 DEF Net
<1> QED
  BY <1>6 DEF rest

\* Elements that count nothing may be left out of a total.
LEMMA TotalWithin ==
  ASSUME NEW T, IsFiniteSet(T), NEW S \in SUBSET T, NEW f \in [S -> Nat], NEW g \in [T -> Nat],
         \A x \in S : f[x] = g[x], \A x \in T \ S : g[x] = 0
  PROVE  Total(f) = Total(g)
<1>1. Units(f) = Units(g)
  BY DEF Units
<1> QED
  BY <1>1 DEF Total
=============================================================================
