------------------------- MODULE LamportSumsProofs -------------------------
(***************************************************************************)
(* Facts about Sum that the invariance proofs cite.                        *)
(***************************************************************************)
EXTENDS LamportSums, FiniteSetTheorems, TLAPS

Column(x, n) == {<<x, i>> : i \in 1..n}

(* The points contributed by one index: as many as the amount.             *)
LEMMA ColumnCard ==
  ASSUME NEW x, NEW n \in Nat
  PROVE  IsFiniteSet(Column(x, n)) /\ Cardinality(Column(x, n)) = n
<1> DEFINE f == [i \in 1..n |-> <<x, i>>]
<1>1. f \in Bijection(1..n, Column(x, n))
  BY DEF Bijection, Injection, Surjection, IsInjective, Column
<1>2. ExistsBijection(1..n, Column(x, n))
  BY <1>1 DEF ExistsBijection
<1>3. IsFiniteSet(1..n) /\ Cardinality(1..n) = n
  BY FS_Interval
<1>4. QED
  BY <1>2, <1>3, FS_Bijection

(* A natural-valued function on a finite set has finitely many points.     *)
LEMMA PointsFinite ==
  ASSUME NEW S, IsFiniteSet(S), NEW f \in [S -> Nat]
  PROVE  IsFiniteSet(Points(f))
<1> DEFINE C == {Column(x, f[x]) : x \in S}
           g == [x \in S |-> Column(x, f[x])]
<1>1. g \in Surjection(S, C)
  BY DEF Surjection
<1>2. IsFiniteSet(C)
  BY <1>1, FS_Surjection
<1>3. \A T \in C : IsFiniteSet(T)
  BY ColumnCard
<1>4. IsFiniteSet(UNION C)
  BY <1>2, <1>3, FS_UNION
<1>5. Points(f) = UNION C
  BY DEF Points, Column
<1>6. QED
  BY <1>4, <1>5

(* The points of f without those of index x depend on f outside x only.    *)
LEMMA PointsSplit ==
  ASSUME NEW S, IsFiniteSet(S), NEW f \in [S -> Nat], NEW x \in S
  PROVE  Sum(f) = Cardinality(Points(f) \ Column(x, f[x])) + f[x]
<1>1. Column(x, f[x]) \subseteq Points(f)
  BY DEF Points, Column
<1>2. Points(f) \cap Column(x, f[x]) = Column(x, f[x])
  BY <1>1
<1>3. IsFiniteSet(Points(f))
  BY PointsFinite
<1>4. Cardinality(Points(f) \ Column(x, f[x]))
        = Cardinality(Points(f)) - Cardinality(Column(x, f[x]))
  BY <1>2, <1>3, FS_Difference
<1>5. Cardinality(Column(x, f[x])) = f[x]
  BY ColumnCard
<1>6. Cardinality(Points(f)) \in Nat
  BY <1>3, FS_CardinalityType
<1>7. QED
  BY <1>4, <1>5, <1>6 DEF Sum

(* The sum is a natural number.                                            *)
THEOREM SumType ==
  ASSUME NEW S, IsFiniteSet(S), NEW f \in [S -> Nat]
  PROVE  Sum(f) \in Nat
BY PointsFinite, FS_CardinalityType DEF Sum

(* Changing one entry changes the sum by the same amount.                  *)
THEOREM SumUpdate ==
  ASSUME NEW S, IsFiniteSet(S), NEW f \in [S -> Nat], NEW g \in [S -> Nat],
         NEW x \in S, \A y \in S \ {x} : g[y] = f[y]
  PROVE  Sum(g) - g[x] = Sum(f) - f[x]
<1>1. Points(f) \ Column(x, f[x]) = Points(g) \ Column(x, g[x])
  <2>1. \A p \in Points(f) \ Column(x, f[x]) : p \in Points(g) \ Column(x, g[x])
    BY DEF Points, Column
  <2>2. \A p \in Points(g) \ Column(x, g[x]) : p \in Points(f) \ Column(x, f[x])
    BY DEF Points, Column
  <2>3. QED
    BY <2>1, <2>2
<1>2. Cardinality(Points(f) \ Column(x, f[x])) \in Nat
  BY PointsFinite, FS_Difference, FS_CardinalityType
<1>3. QED
  BY <1>1, <1>2, PointsSplit

(* One entry is at most the sum.                                           *)
THEOREM SumMember ==
  ASSUME NEW S, IsFiniteSet(S), NEW f \in [S -> Nat], NEW x \in S
  PROVE  f[x] <= Sum(f)
<1>1. Cardinality(Points(f) \ Column(x, f[x])) \in Nat
  BY PointsFinite, FS_Difference, FS_CardinalityType
<1>2. QED
  BY <1>1, PointsSplit

(* The sum is zero when every entry is.                                    *)
THEOREM SumZero ==
  ASSUME NEW S, NEW f \in [S -> Nat], \A x \in S : f[x] = 0
  PROVE  Sum(f) = 0
<1>1. Points(f) = {}
  BY DEF Points
<1>2. QED
  BY <1>1, FS_EmptySet DEF Sum

(* Changing two entries changes the sum by what both change: what is split *)
(* off one stake account and recorded for another.                         *)
THEOREM SumUpdateTwo ==
  ASSUME NEW S, IsFiniteSet(S), NEW f \in [S -> Nat], NEW g \in [S -> Nat],
         NEW x \in S, NEW z \in S, x # z, \A y \in S \ {x, z} : g[y] = f[y]
  PROVE  Sum(g) = Sum(f) - f[x] - f[z] + g[x] + g[z]
<1> DEFINE h == [f EXCEPT ![x] = g[x]]
<1>1. /\ h \in [S -> Nat] /\ h[x] = g[x] /\ h[z] = f[z]
      /\ \A y \in S \ {x} : h[y] = f[y]
      /\ \A y \in S \ {z} : g[y] = h[y]
  OBVIOUS
<1> HIDE DEF h
<1>2. Sum(h) - h[x] = Sum(f) - f[x]
  BY <1>1, SumUpdate
<1>3. Sum(g) - g[z] = Sum(h) - h[z]
  BY <1>1, SumUpdate
<1>4. Sum(f) \in Nat /\ Sum(g) \in Nat /\ Sum(h) \in Nat
  BY <1>1, SumType
<1>5. f[x] \in Nat /\ f[z] \in Nat /\ g[x] \in Nat /\ g[z] \in Nat
  OBVIOUS
<1> QED
  BY <1>1, <1>2, <1>3, <1>4, <1>5

(* The larger the entries, the larger the sum.                             *)
THEOREM SumMonotone ==
  ASSUME NEW S, IsFiniteSet(S), NEW f \in [S -> Nat], NEW g \in [S -> Nat],
         \A x \in S : f[x] <= g[x]
  PROVE  Sum(f) <= Sum(g)
<1>1. Points(f) \subseteq Points(g)
  <2>1. \A x \in S : \A i \in 1..f[x] : i \in 1..g[x]
    OBVIOUS
  <2> QED
    BY <2>1 DEF Points
<1> QED
  BY <1>1, PointsFinite, FS_Subset DEF Sum

(* When one entry grows by at most k and no other grows, the sum grows by  *)
(* at most k.                                                              *)
THEOREM SumGrowth ==
  ASSUME NEW S, IsFiniteSet(S), NEW f \in [S -> Nat], NEW g \in [S -> Nat],
         NEW x \in S, NEW k \in Nat,
         \A y \in S \ {x} : g[y] <= f[y], g[x] <= f[x] + k
  PROVE  Sum(g) <= Sum(f) + k
<1> DEFINE h == [f EXCEPT ![x] = f[x] + k]
<1>1. /\ h \in [S -> Nat] /\ h[x] = f[x] + k
      /\ \A y \in S \ {x} : h[y] = f[y]
  OBVIOUS
<1>2. \A y \in S : g[y] <= h[y]
  BY <1>1
<1> HIDE DEF h
<1>3. Sum(h) - h[x] = Sum(f) - f[x]
  BY <1>1, SumUpdate
<1>4. Sum(g) <= Sum(h)
  BY <1>1, <1>2, SumMonotone
<1>5. Sum(f) \in Nat /\ Sum(g) \in Nat /\ Sum(h) \in Nat
  BY <1>1, SumType
<1>6. QED
  BY <1>1, <1>3, <1>4, <1>5

(* Naming the indices anew does not change the sum.                        *)
THEOREM SumReindex ==
  ASSUME NEW S, IsFiniteSet(S), NEW f \in [S -> Nat],
         NEW T, NEW g \in [T -> Nat], NEW h \in Bijection(S, T),
         \A x \in S : g[h[x]] = f[x]
  PROVE  IsFiniteSet(T) /\ Sum(g) = Sum(f)
<1>1. /\ h \in [S -> T]
      /\ \A x, y \in S : h[x] = h[y] => x = y
      /\ \A t \in T : \E x \in S : h[x] = t
  BY DEF Bijection, Injection, Surjection, IsInjective
<1> DEFINE P == Points(f)
           Q == Points(g)
           e == [p \in P |-> <<h[p[1]], p[2]>>]
<1>2. P = {p \in S \X Nat : p[2] \in 1..f[p[1]]}
  BY DEF Points
<1>3. Q = {p \in T \X Nat : p[2] \in 1..g[p[1]]}
  BY DEF Points
<1> HIDE DEF P, Q
<1>4. \A p \in P : e[p] \in Q
  BY <1>1, <1>2, <1>3
<1>5. \A p, q \in P : e[p] = e[q] => p = q
  BY <1>1, <1>2
<1>6. \A q \in Q : \E p \in P : e[p] = q
  <2> TAKE q \in Q
  <2>1. q[1] \in T /\ q[2] \in Nat /\ q[2] \in 1..g[q[1]] /\ q = <<q[1], q[2]>>
    BY <1>3
  <2>2. PICK x \in S : h[x] = q[1]
    BY <2>1, <1>1
  <2> DEFINE p == <<x, q[2]>>
  <2>3. p \in P /\ p[1] = x /\ p[2] = q[2]
    BY <2>1, <2>2, <1>2
  <2>4. e[p] = q
    BY <2>1, <2>2, <2>3
  <2> QED
    BY <2>3, <2>4
<1>7. e \in Bijection(P, Q)
  <2> DEFINE dom == e \in [P -> Q]
  <2>1. dom
    BY <1>4
  <2> HIDE DEF e
  <2> QED
    BY <1>5, <1>6, <2>1 DEF Bijection, Injection, Surjection, IsInjective
<1>8. IsFiniteSet(P)
  BY PointsFinite DEF P
<1>9. Cardinality(Q) = Cardinality(P)
  BY <1>7, <1>8, FS_Bijection, Zenon DEF ExistsBijection
<1>10. ExistsBijection(S, T)
  BY Zenon DEF ExistsBijection
<1>11. IsFiniteSet(T)
  BY <1>10, FS_Bijection
<1> QED
  BY <1>9, <1>11 DEF Sum, P, Q

(* Indices that add nothing can be left out.                               *)
THEOREM SumExtend ==
  ASSUME NEW S, NEW T \in SUBSET S, NEW f \in [S -> Nat], NEW g \in [T -> Nat],
         \A x \in T : g[x] = f[x], \A x \in S \ T : f[x] = 0
  PROVE  Sum(g) = Sum(f)
<1>1. Points(f) = Points(g)
  <2>1. \A p \in Points(f) : p \in Points(g)
    BY DEF Points
  <2>2. \A p \in Points(g) : p \in Points(f)
    BY DEF Points
  <2> QED
    BY <2>1, <2>2
<1> QED
  BY <1>1 DEF Sum

(* The sum of two amounts at every index is the sum of both sums.          *)
THEOREM SumAdd ==
  ASSUME NEW S, IsFiniteSet(S), NEW f \in [S -> Nat], NEW g \in [S -> Nat],
         NEW h \in [S -> Nat], \A x \in S : h[x] = f[x] + g[x]
  PROVE  Sum(h) = Sum(f) + Sum(g)
<1> DEFINE P == Points(f)
           Q == Points(g)
           T == Points(h) \ P
           e == [p \in Q |-> <<p[1], f[p[1]] + p[2]>>]
<1>1. /\ P = {p \in S \X Nat : p[2] \in 1..f[p[1]]}
      /\ Q = {p \in S \X Nat : p[2] \in 1..g[p[1]]}
      /\ Points(h) = {p \in S \X Nat : p[2] \in 1..h[p[1]]}
  BY DEF Points
<1>2. P \subseteq Points(h)
  BY <1>1
<1>3. \A p \in Points(h) : p \in T <=> f[p[1]] < p[2]
  BY <1>1
<1> HIDE DEF P, Q, T
<1>4. \A p \in Q : e[p] \in T
  <2> TAKE p \in Q
  <2>1. p[1] \in S /\ p[2] \in Nat /\ p[2] \in 1..g[p[1]] /\ h[p[1]] = f[p[1]] + g[p[1]]
    BY <1>1
  <2>2. e[p] = <<p[1], f[p[1]] + p[2]>>
    OBVIOUS
  <2>3. f[p[1]] + p[2] \in Nat /\ f[p[1]] + p[2] \in 1..h[p[1]] /\ f[p[1]] < f[p[1]] + p[2]
    BY <2>1
  <2>4. <<p[1], f[p[1]] + p[2]>> \in Points(h)
    BY <2>1, <2>3, <1>1
  <2> QED
    BY <2>2, <2>3, <2>4, <1>3
<1>5. \A p, q \in Q : e[p] = e[q] => p = q
  <2> TAKE p \in Q, q \in Q
  <2> HAVE e[p] = e[q]
  <2>1. p[1] = q[1] /\ f[p[1]] + p[2] = f[q[1]] + q[2]
    OBVIOUS
  <2>2. /\ p = <<p[1], p[2]>> /\ q = <<q[1], q[2]>>
        /\ p[2] \in Nat /\ q[2] \in Nat /\ f[p[1]] \in Nat
    BY <1>1
  <2>3. p[2] = q[2]
    BY <2>1, <2>2
  <2> QED
    BY <2>1, <2>2, <2>3
<1>6. \A q \in T : \E p \in Q : e[p] = q
  <2> TAKE q \in T
  <2>1. /\ q \in Points(h) /\ q[1] \in S /\ q[2] \in Nat /\ q[2] <= h[q[1]]
        /\ f[q[1]] < q[2] /\ q = <<q[1], q[2]>> /\ h[q[1]] = f[q[1]] + g[q[1]]
    BY <1>1, <1>3 DEF T
  <2> DEFINE p == <<q[1], q[2] - f[q[1]]>>
  <2>2. p \in Q /\ p[1] = q[1] /\ f[p[1]] + p[2] = q[2]
    BY <2>1, <1>1
  <2>3. e[p] = q
    BY <2>1, <2>2
  <2> QED
    BY <2>2, <2>3
<1>7. e \in Bijection(Q, T)
  <2> DEFINE dom == e \in [Q -> T]
  <2>1. dom
    BY <1>4
  <2> HIDE DEF e
  <2> QED
    BY <1>5, <1>6, <2>1 DEF Bijection, Injection, Surjection, IsInjective
<1>8. IsFiniteSet(P) /\ IsFiniteSet(Q) /\ IsFiniteSet(Points(h))
  BY PointsFinite DEF P, Q
<1>9. Cardinality(T) = Cardinality(Q)
  BY <1>7, <1>8, FS_Bijection, Zenon DEF ExistsBijection
<1>10. P \cap Points(h) = P /\ Points(h) \cap P = P
  BY <1>2
<1>11. /\ Cardinality(T) = Cardinality(Points(h)) - Cardinality(P)
       /\ Cardinality(Points(h)) \in Nat /\ Cardinality(P) \in Nat
  <2> HIDE DEF P
  <2>1. Cardinality(T) = Cardinality(Points(h)) - Cardinality(Points(h) \cap P)
    BY <1>8, FS_Difference DEF T
  <2> QED
    BY <1>8, <1>10, <2>1, FS_CardinalityType
<1> QED
  BY <1>9, <1>11 DEF Sum, P, Q

(* A sum of ones counts the indices.                                       *)
THEOREM SumOnes ==
  ASSUME NEW S, IsFiniteSet(S), NEW f \in [S -> Nat], \A x \in S : f[x] = 1
  PROVE  Sum(f) = Cardinality(S)
<1> DEFINE point == [x \in S |-> <<x, 1>>]
<1>1. Points(f) = {<<x, 1>> : x \in S}
  BY DEF Points
<1>2. point \in Bijection(S, Points(f))
  BY <1>1 DEF Bijection, Injection, Surjection, IsInjective
<1>3. ExistsBijection(S, Points(f))
  BY <1>2 DEF ExistsBijection
<1> QED
  BY <1>3, FS_Bijection DEF Sum

(* A sum is the sum of the sums over the classes its indices fall into:    *)
(* the stake of all validators is what each has, summed.                   *)
THEOREM SumPartition ==
  ASSUME NEW S, IsFiniteSet(S), NEW f \in [S -> Nat],
         NEW C, IsFiniteSet(C), NEW class \in [S -> C],
         NEW total \in [C -> Nat],
         \A c \in C : total[c] = Sum([x \in S |-> IF class[x] = c THEN f[x] ELSE 0])
  PROVE  Sum(total) = Sum(f)
<1> DEFINE P == Points(f)
           Q == Points(total)
           Part(c) == {p \in P : class[p[1]] = c}
           number == [c \in C |-> CHOOSE n : n \in Bijection(Part(c), 1..total[c])]
           e == [p \in P |-> <<class[p[1]], number[class[p[1]]][p]>>]
<1>1. /\ P = {p \in S \X Nat : p[2] \in 1..f[p[1]]}
      /\ Q = {p \in C \X Nat : p[2] \in 1..total[p[1]]}
  BY DEF Points
<1>2. IsFiniteSet(P)
  BY PointsFinite
<1>3. ASSUME NEW c \in C
      PROVE  Cardinality(Part(c)) = total[c] /\ IsFiniteSet(Part(c))
  <2> DEFINE g == [x \in S |-> IF class[x] = c THEN f[x] ELSE 0]
  <2>1. g \in [S -> Nat]
    OBVIOUS
  <2>2. Points(g) = {p \in S \X Nat : p[2] \in 1..g[p[1]]}
    BY DEF Points
  <2>3. Part(c) \subseteq Points(g)
    BY <2>2, <1>1
  <2>4. Points(g) \subseteq Part(c)
    BY <2>2, <1>1
  <2>5. total[c] = Cardinality(Points(g))
    BY DEF Sum
  <2>6. IsFiniteSet(Points(g))
    BY <2>1, PointsFinite
  <2> QED
    BY <2>3, <2>4, <2>5, <2>6
<1> HIDE DEF P, Q
<1>4. ASSUME NEW c \in C PROVE number[c] \in Bijection(Part(c), 1..total[c])
  <2>1. total[c] \in Nat /\ ExistsBijection(1..total[c], Part(c))
    BY <1>3, FS_CardinalityType
  <2>2. IsFiniteSet(1..total[c]) /\ Cardinality(1..total[c]) = total[c]
    BY <2>1, FS_Interval
  <2>3. ExistsBijection(Part(c), 1..total[c])
    BY <1>3, <2>2, FS_SameCardinalityBij
  <2>4. \E n : n \in Bijection(Part(c), 1..total[c])
    BY <2>3 DEF ExistsBijection
  <2> HIDE DEF Part
  <2> QED
    BY <2>4
<1>5. ASSUME NEW c \in C
      PROVE  /\ \A p \in Part(c) : number[c][p] \in 1..total[c]
             /\ \A p, q \in Part(c) : number[c][p] = number[c][q] => p = q
             /\ \A i \in 1..total[c] : \E p \in Part(c) : number[c][p] = i
  <2> DEFINE n == number[c]
  <2> HIDE DEF Part, number
  <2> QED
    BY <1>4 DEF Bijection, Injection, Surjection, IsInjective
<1>6. \A p \in P : class[p[1]] \in C /\ p \in Part(class[p[1]])
  BY <1>1
<1> HIDE DEF number
<1>7. \A p \in P : e[p] \in Q
  BY <1>1, <1>5, <1>6
<1>8. \A p, q \in P : e[p] = e[q] => p = q
  <2> TAKE p \in P, q \in P
  <2> HAVE e[p] = e[q]
  <2>1. class[p[1]] = class[q[1]] /\ number[class[p[1]]][p] = number[class[q[1]]][q]
    OBVIOUS
  <2> QED
    BY <2>1, <1>5, <1>6
<1>9. \A q \in Q : \E p \in P : e[p] = q
  <2> TAKE q \in Q
  <2>1. q[1] \in C /\ q[2] \in 1..total[q[1]] /\ q = <<q[1], q[2]>>
    BY <1>1
  <2>2. PICK p \in Part(q[1]) : number[q[1]][p] = q[2]
    BY <2>1, <1>5
  <2>3. p \in P /\ class[p[1]] = q[1]
    BY <2>2
  <2> QED
    BY <2>1, <2>2, <2>3
<1>10. e \in Bijection(P, Q)
  <2> DEFINE dom == e \in [P -> Q]
  <2>1. dom
    BY <1>7
  <2> HIDE DEF e
  <2> QED
    BY <1>8, <1>9, <2>1 DEF Bijection, Injection, Surjection, IsInjective
<1>11. Cardinality(Q) = Cardinality(P)
  BY <1>2, <1>10, FS_Bijection, Zenon DEF ExistsBijection
<1> QED
  BY <1>11 DEF Sum, P, Q
=============================================================================
