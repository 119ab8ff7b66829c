--------------------------- MODULE Totals_proofs ---------------------------
(***************************************************************************)
(* Facts about Total, the sum of a function over a finite set.             *)
(***************************************************************************)
EXTENDS Totals, FiniteSetTheorems, FunctionTheorems, WellFoundedInduction, TLAPS

\* The units of one element are as many as its value.
LEMMA OneElement ==
  ASSUME NEW u, NEW n \in Nat
  PROVE  /\ IsFiniteSet({u} \X (1 .. n))
         /\ Cardinality({u} \X (1 .. n)) = n
<1>1. IsFiniteSet({u}) /\ Cardinality({u}) = 1
  BY FS_Singleton
<1>2. IsFiniteSet(1 .. n) /\ Cardinality(1 .. n) = n
  BY FS_Interval
<1>3. /\ IsFiniteSet({u} \X (1 .. n))
      /\ Cardinality({u} \X (1 .. n)) = 1 * n
  BY <1>1, <1>2, FS_Product
<1> QED BY <1>3

\* A finite sum is a natural number.
LEMMA TotalType ==
  ASSUME NEW D, NEW f \in [D -> Nat], NEW S \in SUBSET D, IsFiniteSet(S)
  PROVE  IsFiniteSet(Units(f, S)) /\ Total(f, S) \in Nat
<1> DEFINE part == [u \in S |-> {u} \X (1 .. f[u])]
           parts == {{u} \X (1 .. f[u]) : u \in S}
<1>1. part \in Surjection(S, parts)
  BY DEF Surjection
<1>2. IsFiniteSet(parts)
  BY <1>1, FS_Surjection
<1>3. ASSUME NEW u \in S
      PROVE  IsFiniteSet({u} \X (1 .. f[u]))
  <2>1. f[u] \in Nat
    OBVIOUS
  <2> QED BY <2>1, OneElement
<1>4. IsFiniteSet(Units(f, S))
  BY <1>2, <1>3, FS_UNION DEF Units
<1> QED BY <1>4, FS_CardinalityType DEF Total

\* The sum over a set is one element's value and the sum over the others.
LEMMA TotalSplit ==
  ASSUME NEW D, NEW f \in [D -> Nat], NEW S \in SUBSET D, IsFiniteSet(S),
         NEW u \in S
  PROVE  /\ Total(f, S \ {u}) \in Nat
         /\ Total(f, S) = Total(f, S \ {u}) + f[u]
<1> DEFINE A == Units(f, S \ {u})
           B == {u} \X (1 .. f[u])
<1>1. IsFiniteSet(S \ {u})
  BY FS_RemoveElement
<1>2. IsFiniteSet(A) /\ Cardinality(A) \in Nat
  BY <1>1, TotalType DEF Total
<1>3. IsFiniteSet(B) /\ Cardinality(B) = f[u]
  BY OneElement
<1>4. Units(f, S) = A \cup B
  BY DEF Units
<1>5. A \cap B = {}
  BY DEF Units
<1> HIDE DEF A, B
<1>6. Cardinality(A \cup B) = Cardinality(A) + Cardinality(B) - 0
  BY <1>2, <1>3, <1>5, FS_Union, FS_EmptySet
<1>7. Cardinality(A) = Total(f, S \ {u})
  BY DEF Total, A
<1> QED BY <1>2, <1>3, <1>4, <1>6, <1>7 DEF Total

\* The sum depends on the values inside the set only.
LEMMA TotalExt ==
  ASSUME NEW f, NEW g, NEW S, \A u \in S : f[u] = g[u]
  PROVE  Total(f, S) = Total(g, S)
<1>1. Units(f, S) = Units(g, S)
  BY DEF Units
<1> QED BY <1>1 DEF Total

\* Smaller values have a smaller sum.
LEMMA TotalMono ==
  ASSUME NEW D, NEW f \in [D -> Nat], NEW g \in [D -> Nat],
         NEW S \in SUBSET D, IsFiniteSet(S), \A u \in S : f[u] <= g[u]
  PROVE  Total(f, S) <= Total(g, S)
<1>1. \A u \in S : (1 .. f[u]) \subseteq (1 .. g[u])
  OBVIOUS
<1>2. Units(f, S) \subseteq Units(g, S)
  BY <1>1 DEF Units
<1> QED BY <1>2, TotalType, FS_Subset DEF Total

\* A smaller set has a smaller sum.
LEMMA TotalSubset ==
  ASSUME NEW D, NEW f \in [D -> Nat], NEW S \in SUBSET D, IsFiniteSet(S),
         NEW R \in SUBSET S
  PROVE  Total(f, R) <= Total(f, S)
<1>1. Units(f, R) \subseteq Units(f, S)
  BY DEF Units
<1> QED BY <1>1, TotalType, FS_Subset DEF Total

\* The empty sum.
LEMMA TotalEmpty ==
  ASSUME NEW f
  PROVE  Total(f, {}) = 0
<1>1. Units(f, {}) = {}
  BY DEF Units
<1> QED BY <1>1, FS_EmptySet DEF Total

\* The sum of zeros is zero.
LEMMA TotalZero ==
  ASSUME NEW f, NEW S, \A u \in S : f[u] = 0
  PROVE  Total(f, S) = 0
<1>1. \A u \in S : 1 .. f[u] = {}
  OBVIOUS
<1>2. Units(f, S) = {}
  BY <1>1 DEF Units
<1> QED BY <1>2, FS_EmptySet DEF Total

\* Adding an element to the set adds its value.
LEMMA TotalAddElement ==
  ASSUME NEW D, NEW f \in [D -> Nat], NEW S \in SUBSET D, IsFiniteSet(S),
         NEW u \in D, u \notin S
  PROVE  Total(f, S \cup {u}) = Total(f, S) + f[u]
<1>1. IsFiniteSet(S \cup {u})
  BY FS_AddElement
<1>2. (S \cup {u}) \ {u} = S
  OBVIOUS
<1> QED BY <1>1, <1>2, TotalSplit

\* Changing the value of one element of the set changes the sum by as much.
LEMMA TotalChange ==
  ASSUME NEW D, NEW f \in [D -> Nat], NEW g \in [D -> Nat],
         NEW S \in SUBSET D, IsFiniteSet(S),
         NEW u \in S, \A v \in S \ {u} : g[v] = f[v]
  PROVE  Total(g, S) = Total(f, S) - f[u] + g[u]
<1>1. Total(f, S) = Total(f, S \ {u}) + f[u] /\ Total(f, S \ {u}) \in Nat
  BY TotalSplit
<1>2. Total(g, S) = Total(g, S \ {u}) + g[u]
  BY TotalSplit
<1>3. Total(g, S \ {u}) = Total(f, S \ {u})
  BY TotalExt
<1> QED BY <1>1, <1>2, <1>3

\* The total over two disjoint sets is the sum of the totals.
LEMMA TotalUnion ==
  ASSUME NEW D, NEW f \in [D -> Nat], NEW S \in SUBSET D, NEW T \in SUBSET D,
         IsFiniteSet(S), IsFiniteSet(T), S \cap T = {}
  PROVE  Total(f, S \cup T) = Total(f, S) + Total(f, T)
<1> DEFINE A == Units(f, S)
           B == Units(f, T)
<1>1. IsFiniteSet(A) /\ IsFiniteSet(B)
  BY TotalType
<1>2. Units(f, S \cup T) = A \cup B
  BY DEF Units
<1>3. A \cap B = {}
  BY DEF Units
<1>4. /\ Cardinality(A \cup B)
            = Cardinality(A) + Cardinality(B) - Cardinality(A \cap B)
      /\ Cardinality(A) \in Nat /\ Cardinality(B) \in Nat
  <2> HIDE DEF A, B
  <2> QED BY <1>1, FS_Union, FS_CardinalityType
<1>5. Cardinality(A \cap B) = 0
  BY <1>3, FS_EmptySet
<1> QED
  <2> HIDE DEF A, B
  <2>1. Total(f, S \cup T) = Cardinality(A \cup B)
    BY <1>2 DEF Total
  <2>2. Total(f, S) = Cardinality(A) /\ Total(f, T) = Cardinality(B)
    BY DEF Total, A, B
  <2> QED BY <2>1, <2>2, <1>4, <1>5

\* The total of the sum of two functions is the sum of the totals.
LEMMA TotalSum ==
  ASSUME NEW D, NEW f \in [D -> Nat], NEW g \in [D -> Nat], NEW h \in [D -> Nat],
         NEW S \in SUBSET D, IsFiniteSet(S), \A u \in S : h[u] = f[u] + g[u]
  PROVE  Total(h, S) = Total(f, S) + Total(g, S)
<1> DEFINE A == Units(f, S)
           B == Units(g, S)
           C == UNION {{u} \X ((f[u] + 1) .. (f[u] + g[u])) : u \in S}
           move == [p \in B |-> <<p[1], f[p[1]] + p[2]>>]
<1>1. /\ IsFiniteSet(A) /\ IsFiniteSet(B)
      /\ Total(f, S) = Cardinality(A) /\ Total(g, S) = Cardinality(B)
      /\ Total(h, S) = Cardinality(Units(h, S))
  BY TotalType DEF Total
<1>2. \A u \in S : f[u] \in Nat /\ g[u] \in Nat
  OBVIOUS
<1>3. \A p : p \in B <=> /\ p = <<p[1], p[2]>> /\ p[1] \in S
                         /\ p[2] \in 1 .. g[p[1]]
  BY DEF Units
<1>4. \A p : p \in C <=> /\ p = <<p[1], p[2]>> /\ p[1] \in S
                         /\ p[2] \in (f[p[1]] + 1) .. (f[p[1]] + g[p[1]])
  OBVIOUS
<1>5. \A p : p \in A <=> /\ p = <<p[1], p[2]>> /\ p[1] \in S
                         /\ p[2] \in 1 .. f[p[1]]
  BY DEF Units
<1>6. \A p : p \in Units(h, S) <=> /\ p = <<p[1], p[2]>> /\ p[1] \in S
                                   /\ p[2] \in 1 .. h[p[1]]
  BY DEF Units
<1> HIDE DEF A, B, C
<1>7. move \in Bijection(B, C)
  <2>1. \A p \in B : /\ move[p] \in C
                     /\ move[p][1] = p[1] /\ move[p][2] = f[p[1]] + p[2]
    <3> SUFFICES ASSUME NEW p \in B PROVE move[p] \in C
      OBVIOUS
    <3>1. f[p[1]] + p[2] \in (f[p[1]] + 1) .. (f[p[1]] + g[p[1]])
      BY <1>2, <1>3
    <3>2. move[p] = <<p[1], f[p[1]] + p[2]>>
      OBVIOUS
    <3> HIDE DEF move
    <3> QED BY <1>3, <1>4, <3>1, <3>2
  <2>2. \A t \in C : \E p \in B : move[p] = t
    <3> SUFFICES ASSUME NEW t \in C PROVE \E p \in B : move[p] = t
      OBVIOUS
    <3> DEFINE p == <<t[1], t[2] - f[t[1]]>>
    <3>1. t[1] \in S /\ t = <<t[1], t[2]>>
          /\ t[2] - f[t[1]] \in 1 .. g[t[1]] /\ f[t[1]] + (t[2] - f[t[1]]) = t[2]
      BY <1>2, <1>4
    <3>2. p \in B
      BY <1>3, <3>1
    <3>3. move[p] = t
      BY <3>1, <3>2
    <3> QED BY <3>2, <3>3
  <2>3. move = [p \in B |-> move[p]]
    OBVIOUS
  <2> HIDE DEF move
  <2>4. move \in [B -> C]
    BY <2>1, <2>3
  <2>5. \A p, q \in B : move[p] = move[q] => p = q
    <3> SUFFICES ASSUME NEW p \in B, NEW q \in B, move[p] = move[q] PROVE p = q
      OBVIOUS
    <3>1. p[1] = q[1] /\ f[p[1]] + p[2] = f[p[1]] + q[2]
      BY <2>1
    <3>2. p[2] = q[2]
      BY <1>2, <1>3, <3>1
    <3> QED BY <1>3, <3>1, <3>2
  <2> QED BY <2>2, <2>4, <2>5 DEF Bijection, Injection, Surjection, IsInjective
<1>8. ExistsBijection(B, C)
  BY <1>7 DEF ExistsBijection
<1>9. IsFiniteSet(C) /\ Cardinality(C) = Cardinality(B)
  BY <1>1, <1>8, FS_Bijection
<1>10. Units(h, S) = A \cup C
  <2>1. \A u \in S : \A i : i \in 1 .. h[u] <=>
          i \in 1 .. f[u] \/ i \in (f[u] + 1) .. (f[u] + g[u])
    BY <1>2
  <2>2. \A p : p \in Units(h, S) <=> p \in A \/ p \in C
    BY <1>4, <1>5, <1>6, <2>1
  <2> QED BY <2>2
<1>11. A \cap C = {}
  <2> SUFFICES ASSUME NEW p \in A, p \in C PROVE FALSE
    OBVIOUS
  <2> QED BY <1>2, <1>4, <1>5
<1>12. /\ Cardinality(A \cup C)
            = Cardinality(A) + Cardinality(C) - Cardinality(A \cap C)
       /\ Cardinality(A) \in Nat /\ Cardinality(C) \in Nat
       /\ Cardinality(A \cap C) = 0
  BY <1>1, <1>9, <1>11, FS_Union, FS_CardinalityType, FS_EmptySet
<1> QED BY <1>1, <1>9, <1>10, <1>12

-----------------------------------------------------------------------------
\* Induction over the numbers, for a set of them: the library's theorem on a
\* predicate needs an operator.
LEMMA LeastNumber ==
  ASSUME NEW T, T \subseteq Nat, T # {}
  PROVE  \E x \in T : \A y \in T : x <= y
<1>1. /\ IsWellFoundedOn(OpToRel(<, Nat), Nat)
      /\ \A u, v \in Nat : u < v => <<u, v>> \in OpToRel(<, Nat)
  BY NatLessThanWellFounded DEF OpToRel
<1>2. PICK Rel : /\ IsWellFoundedOn(Rel, Nat)
               /\ \A u, v \in Nat : u < v => <<u, v>> \in Rel
  BY <1>1
<1>3. PICK x \in T : \A y \in T : ~ (<<y, x>> \in Rel)
  BY <1>2, WFMin
<1>4. x \in Nat /\ T \subseteq Nat
  OBVIOUS
<1>5. ASSUME NEW y \in T PROVE x <= y
  <2>1. y \in Nat /\ (y < x => <<y, x>> \in Rel)
    BY <1>2, <1>4
  <2>2. ~ (<<y, x>> \in Rel)
    BY <1>3
  <2> QED BY <1>4, <2>1, <2>2
<1> QED BY <1>5

LEMMA SetInduction ==
  ASSUME NEW S, 0 \in S, \A n \in Nat : n \in S => n + 1 \in S
  PROVE  Nat \subseteq S
<1>1. SUFFICES ASSUME Nat \ S # {} PROVE FALSE
  OBVIOUS
<1>2. PICK x \in Nat \ S : \A y \in Nat \ S : x <= y
  BY <1>1, LeastNumber
<1>3. x # 0 /\ x - 1 \in Nat /\ x - 1 \in S
  BY <1>2
<1> QED BY <1>2, <1>3

-----------------------------------------------------------------------------
\* How a step divides the lots L, held as h of p before and as g of q after it:
\* those that come in, those that leave, of which some are paid, and those that
\* stay as they are.
Divides(L, p, q, h, g, a, b, in, out, paid) ==
  /\ p \in [L -> Nat] /\ q \in [L -> Nat] /\ h \in [L -> Nat] /\ g \in [L -> Nat]
  /\ a \in Nat
  /\ \A l \in L : h[l] \in {0, p[l]}
  /\ \A l \in L : \/ q[l] = p[l] /\ g[l] = h[l]
                  \/ p[l] = 0 /\ q[l] # 0 /\ g[l] = q[l]
                  \/ q[l] = p[l] /\ h[l] # 0 /\ g[l] = 0
  /\ in = {l \in L : p[l] # q[l]}
  /\ out = {l \in L : h[l] # 0 /\ g[l] = 0}
  /\ paid \in SUBSET out /\ b = a + Total(g, in) - Total(h, paid)

LEMMA Divided ==
  ASSUME NEW L, IsFiniteSet(L), NEW p, NEW q, NEW h, NEW g, NEW a, NEW b,
         NEW in, NEW out, NEW paid, Divides(L, p, q, h, g, a, b, in, out, paid)
  PROVE  /\ \A l \in L : g[l] \in {0, q[l]}
         /\ b \in Int /\ Total(g, L) \in Nat /\ Total(h, L) \in Nat
         /\ b - Total(g, L) >= a - Total(h, L)
<1> USE DEF Divides
<1> DEFINE rest == L \ (in \cup out)
<1>1. /\ \A l \in in : h[l] = 0
      /\ \A l \in out : g[l] = 0
      /\ \A l \in rest : g[l] = h[l]
      /\ in \cap out = {}
  OBVIOUS
<1>2. /\ in \in SUBSET L /\ out \in SUBSET L /\ rest \in SUBSET L
      /\ in \cup out \in SUBSET L /\ paid \in SUBSET L
      /\ (in \cup out) \cap rest = {} /\ (in \cup out) \cup rest = L
  OBVIOUS
<1>3. /\ IsFiniteSet(in) /\ IsFiniteSet(out) /\ IsFiniteSet(rest)
      /\ IsFiniteSet(paid) /\ IsFiniteSet(in \cup out)
  BY <1>2, FS_Subset
<1> HIDE DEF rest
<1>4. /\ Total(h, in) = 0 /\ Total(g, out) = 0 /\ Total(g, rest) = Total(h, rest)
  BY <1>1, TotalZero, TotalExt
<1>5. /\ Total(h, in) \in Nat /\ Total(h, out) \in Nat /\ Total(h, rest) \in Nat
      /\ Total(h, paid) \in Nat /\ Total(g, in) \in Nat /\ Total(g, rest) \in Nat
      /\ Total(g, out) \in Nat
  BY <1>2, <1>3, TotalType
<1>6. Total(h, L) = Total(h, in) + Total(h, out) + Total(h, rest)
  <2>1. Total(h, in \cup out) = Total(h, in) + Total(h, out)
    BY <1>1, <1>2, <1>3, TotalUnion
  <2>2. Total(h, (in \cup out) \cup rest) = Total(h, in \cup out) + Total(h, rest)
    BY <1>2, <1>3, TotalUnion
  <2> QED BY <2>1, <2>2, <1>2, <1>5
<1>7. Total(g, L) = Total(g, in) + Total(g, out) + Total(g, rest)
  <2>1. Total(g, in \cup out) = Total(g, in) + Total(g, out)
    BY <1>1, <1>2, <1>3, TotalUnion
  <2>2. Total(g, (in \cup out) \cup rest) = Total(g, in \cup out) + Total(g, rest)
    BY <1>2, <1>3, TotalUnion
  <2> QED BY <2>1, <2>2, <1>2, <1>5
<1>8. Total(h, paid) <= Total(h, out)
  BY <1>2, <1>3, TotalSubset
<1>9. \A l \in L : g[l] \in {0, q[l]}
  OBVIOUS
<1> QED BY <1>4, <1>5, <1>6, <1>7, <1>8, <1>9
=============================================================================
