--------------------------- MODULE CountingProofs ---------------------------
(***************************************************************************)
(* What proofs need of Total - its type, that it depends on the values on  *)
(* the set alone, how one element changes it, and that the total of the    *)
(* sizes of disjoint sets is the size of their union - and of Ranked: it   *)
(* lists every element once and in order, and nothing else does.           *)
(***************************************************************************)
EXTENDS Counting, FiniteSetTheorems, TLAPS

\* The numbers from 1 on.
LEMMA CardinalityUpTo == \A n \in Nat : IsFiniteSet(1..n) /\ Cardinality(1..n) = n
BY FS_Interval

\* A finite set has finitely many units, if each element has a natural number.
LEMMA TotalType ==
  ASSUME NEW S, IsFiniteSet(S), NEW f, \A x \in S : f[x] \in Nat
  PROVE  IsFiniteSet(Units(f, S)) /\ Total(f, S) \in Nat
<1> DEFINE parts == { {x} \X (1..f[x]) : x \in S }
           part  == [x \in S |-> {x} \X (1..f[x])]
<1>1. part \in Surjection(S, parts)
  BY DEF Surjection
<1>2. IsFiniteSet(parts)
  BY <1>1, FS_Surjection
<1>3. ASSUME NEW x \in S PROVE IsFiniteSet({x} \X (1..f[x]))
  <2>1. IsFiniteSet({x})
    BY FS_Singleton
  <2>2. IsFiniteSet(1..f[x])
    BY FS_Interval
  <2> QED BY <2>1, <2>2, FS_Product
<1>4. \A T \in parts : IsFiniteSet(T)
  BY <1>3
<1>5. IsFiniteSet(UNION parts)
  BY <1>2, <1>4, FS_UNION
<1> QED BY <1>5, FS_CardinalityType DEF Units, Total

\* The total depends on the values on the set alone.
LEMMA TotalSame ==
  ASSUME NEW S, NEW f, NEW g, \A x \in S : f[x] = g[x]
  PROVE  Total(f, S) = Total(g, S)
<1>1. Units(f, S) = Units(g, S)
  BY DEF Units
<1> QED BY <1>1 DEF Total

\* Elements without a value need not be counted.
LEMMA TotalOfSome ==
  ASSUME NEW S, NEW T, T \subseteq S, NEW f, NEW g,
         \A x \in T : f[x] = g[x], \A x \in S \ T : f[x] = 0
  PROVE  Total(f, S) = Total(g, T)
<1>1. \A x \in S \ T : 1..f[x] = {}
  OBVIOUS
<1>2. Units(f, S) = Units(g, T)
  BY <1>1 DEF Units
<1> QED BY <1>2 DEF Total

\* The total of no elements is zero.
LEMMA TotalEmpty == \A f : Total(f, {}) = 0
<1>1. \A f : Units(f, {}) = {}
  BY DEF Units
<1> QED BY <1>1, FS_EmptySet DEF Total

\* More elements have no smaller total.
LEMMA TotalGrows ==
  ASSUME NEW S, IsFiniteSet(S), NEW f, \A x \in S : f[x] \in Nat, NEW T, T \subseteq S
  PROVE  /\ Total(f, T) \in Nat /\ Total(f, S) \in Nat
         /\ Total(f, T) <= Total(f, S)
<1>1. IsFiniteSet(T)
  BY FS_Subset
<1>2. IsFiniteSet(Units(f, S)) /\ Total(f, S) \in Nat /\ Total(f, T) \in Nat
  BY <1>1, TotalType
<1>3. Units(f, T) \in SUBSET Units(f, S)
  BY DEF Units
<1>4. Cardinality(Units(f, T)) <= Cardinality(Units(f, S))
  BY <1>2, <1>3, FS_Subset
<1> QED BY <1>2, <1>4 DEF Total

\* One element contributes its value.
LEMMA TotalRemove ==
  ASSUME NEW S, IsFiniteSet(S), NEW f, \A x \in S : f[x] \in Nat, NEW x \in S
  PROVE  Total(f, S) = f[x] + Total(f, S \ {x})
<1> DEFINE own == {x} \X (1..f[x])
           rest == Units(f, S \ {x})
<1>1. Units(f, S) = own \cup rest
  BY DEF Units
<1>2. own \cap rest = {}
  BY DEF Units
<1>3. IsFiniteSet(own) /\ Cardinality(own) = f[x]
  <2>1. IsFiniteSet({x}) /\ Cardinality({x}) = 1
    BY FS_Singleton
  <2>2. IsFiniteSet(1..f[x]) /\ Cardinality(1..f[x]) = f[x]
    BY FS_Interval
  <2>3. IsFiniteSet(own) /\ Cardinality(own) = 1 * f[x]
    BY <2>1, <2>2, FS_Product
  <2> QED BY <2>3
<1>4. IsFiniteSet(rest) /\ Total(f, S \ {x}) \in Nat
  <2>1. IsFiniteSet(S \ {x})
    BY FS_RemoveElement
  <2>2. \A y \in S \ {x} : f[y] \in Nat
    OBVIOUS
  <2> QED BY <2>1, <2>2, TotalType
<1>5. Cardinality(rest) = Total(f, S \ {x})
  BY DEF Total
<1>6. Total(f, S) = Cardinality(own \cup rest)
  BY <1>1 DEF Total
<1> HIDE DEF own, rest
<1>7. Cardinality(own \cup rest) = Cardinality(own) + Cardinality(rest) - 0
  BY <1>2, <1>3, <1>4, FS_Union, FS_EmptySet
<1> QED BY <1>3, <1>4, <1>5, <1>6, <1>7

\* Two totals that differ in one element at most share the rest.
LEMMA TotalButOne ==
  ASSUME NEW S, NEW T, IsFiniteSet(S), IsFiniteSet(T), NEW f, NEW g,
         \A y \in S : f[y] \in Nat, \A y \in T : g[y] \in Nat,
         NEW x, S \ {x} = T \ {x}, \A y \in S \ {x} : f[y] = g[y]
  PROVE  \E rest \in Nat :
            /\ Total(f, S) = (IF x \in S THEN f[x] ELSE 0) + rest
            /\ Total(g, T) = (IF x \in T THEN g[x] ELSE 0) + rest
<1> DEFINE rest == Total(f, S \ {x})
<1>1. rest \in Nat
  <2>1. IsFiniteSet(S \ {x})
    BY FS_RemoveElement
  <2>2. \A y \in S \ {x} : f[y] \in Nat
    OBVIOUS
  <2> QED BY <2>1, <2>2, TotalType
<1>2. rest = Total(g, T \ {x})
  BY TotalSame
<1>3. Total(f, S) = (IF x \in S THEN f[x] ELSE 0) + rest
  <2>1. CASE x \in S
    BY <2>1, TotalRemove
  <2>2. CASE x \notin S
    <3>1. S \ {x} = S
      BY <2>2
    <3> QED BY <1>1, <2>2, <3>1
  <2> QED BY <2>1, <2>2
<1>4. Total(g, T) = (IF x \in T THEN g[x] ELSE 0) + rest
  <2>1. ASSUME x \in T PROVE Total(g, T) = g[x] + rest
    BY <1>2, <2>1, TotalRemove
  <2>2. CASE x \notin T
    <3>1. T \ {x} = T
      BY <2>2
    <3>2. Total(g, T) = rest
      BY <1>2, <3>1
    <3> HIDE DEF rest
    <3> QED BY <1>1, <2>2, <3>2
  <2> HIDE DEF rest
  <2> QED BY <2>1, <2>2
<1> HIDE DEF rest
<1> QED BY <1>1, <1>3, <1>4

\* The sizes of disjoint finite sets add up to the size of their union.
LEMMA TotalOfSizes ==
  ASSUME NEW S, IsFiniteSet(S), NEW members,
         \A x \in S : IsFiniteSet(members[x]),
         \A x \in S : \A y \in S : x # y => members[x] \cap members[y] = {}
  PROVE  Total([x \in S |-> Cardinality(members[x])], S)
           = Cardinality(UNION { members[x] : x \in S })
<1> DEFINE size == [x \in S |-> Cardinality(members[x])]
           all  == UNION { members[x] : x \in S }
<1>1. \A x \in S : size[x] \in Nat /\ ExistsBijection(1..size[x], members[x])
  BY FS_CardinalityType
<1> DEFINE nth(x) == CHOOSE b : b \in Bijection(1..size[x], members[x])
<1>2. \A x \in S : nth(x) \in Bijection(1..size[x], members[x])
  BY <1>1 DEF ExistsBijection
<1> DEFINE place == [u \in Units(size, S) |-> nth(u[1])[u[2]]]
<1> HIDE DEF size, nth
<1>3. \A u \in Units(size, S) : u[1] \in S /\ u[2] \in 1..size[u[1]] /\ u = <<u[1], u[2]>>
  BY DEF Units
<1>a. ASSUME NEW x \in S
      PROVE  /\ nth(x) \in [1..size[x] -> members[x]]
             /\ \A m, n \in 1..size[x] : nth(x)[m] = nth(x)[n] => m = n
  BY <1>2 DEF Bijection, Injection, IsInjective
<1>b. ASSUME NEW u \in Units(size, S) PROVE nth(u[1])[u[2]] \in members[u[1]]
  <2>1. PICK x \in S : \E n \in 1..size[x] : x = u[1] /\ n = u[2]
    BY <1>3
  <2>2. \A n \in 1..size[x] : nth(x)[n] \in members[x]
    BY <1>a
  <2> QED BY <2>1, <2>2
<1>4. place \in [Units(size, S) -> all]
  <2>1. ASSUME NEW u \in Units(size, S) PROVE nth(u[1])[u[2]] \in all
    BY <1>3, <1>b
  <2> QED BY <2>1
<1>5. ASSUME NEW u \in Units(size, S), NEW v \in Units(size, S), place[u] = place[v]
      PROVE  u = v
  <2>1. /\ u[1] \in S /\ v[1] \in S
        /\ nth(u[1])[u[2]] \in members[u[1]] /\ nth(v[1])[v[2]] \in members[v[1]]
    BY <1>3, <1>b
  <2>2. u[1] = v[1]
    BY <1>5, <2>1
  <2>3. u[2] = v[2]
    <3>1. nth(u[1])[u[2]] = nth(u[1])[v[2]]
      BY <1>5, <2>2
    <3> QED BY <1>3, <1>a, <2>2, <3>1
  <2> QED BY <1>3, <2>2, <2>3
<1>6. ASSUME NEW e \in all PROVE \E u \in Units(size, S) : place[u] = e
  <2>1. PICK x \in S : e \in members[x]
    OBVIOUS
  <2>2. PICK n \in 1..size[x] : nth(x)[n] = e
    BY <1>2, <2>1 DEF Bijection, Surjection
  <2>3. <<x, n>> \in Units(size, S)
    BY <2>1, <2>2 DEF Units
  <2> QED BY <2>2, <2>3
<1>7. ExistsBijection(Units(size, S), all)
  <2> HIDE DEF place, all
  <2>1. place \in Injection(Units(size, S), all)
    BY <1>4, <1>5 DEF Injection, IsInjective
  <2>2. place \in Surjection(Units(size, S), all)
    BY <1>4, <1>6 DEF Surjection
  <2> QED BY <2>1, <2>2 DEF ExistsBijection, Bijection
<1>8. IsFiniteSet(Units(size, S))
  BY <1>1, TotalType
<1>9. Cardinality(all) = Cardinality(Units(size, S))
  BY <1>7, <1>8, FS_Bijection
<1> QED BY <1>9 DEF Total, size

-----------------------------------------------------------------------------
(* Sorted lists. *)

\* R puts any two elements of S in an order.
StrictOrder(S, R) ==
    /\ \A x \in S : <<x, x>> \notin R
    /\ \A x, y, z \in S : <<x, y>> \in R /\ <<y, z>> \in R => <<x, z>> \in R
    /\ \A x, y \in S : x = y \/ <<x, y>> \in R \/ <<y, x>> \in R

\* Ranks grow along the order and stay below the number of elements.
LEMMA RankGrows ==
  ASSUME NEW S, IsFiniteSet(S), NEW R, StrictOrder(S, R)
  PROVE  /\ \A x \in S : Rank(x, S, R) \in 0..(Cardinality(S) - 1)
         /\ \A x, y \in S : <<x, y>> \in R => Rank(x, S, R) < Rank(y, S, R)
<1> DEFINE below(x) == { y \in S : <<y, x>> \in R }
<1>1. Cardinality(S) \in Nat
  BY FS_CardinalityType
<1>2. ASSUME NEW x \in S
      PROVE  IsFiniteSet(below(x)) /\ Rank(x, S, R) = Cardinality(below(x)) /\ Rank(x, S, R) \in Nat
  <2>1. IsFiniteSet(below(x))
    BY FS_Subset
  <2> QED BY <2>1, FS_CardinalityType DEF Rank
<1>3. ASSUME NEW x \in S PROVE Rank(x, S, R) < Cardinality(S)
  <2>1. below(x) \in SUBSET S /\ below(x) # S
    BY DEF StrictOrder
  <2>2. Cardinality(below(x)) # Cardinality(S) /\ Cardinality(below(x)) <= Cardinality(S)
    BY <2>1, FS_Subset
  <2>3. Rank(x, S, R) = Cardinality(below(x)) /\ Rank(x, S, R) \in Nat
    BY <1>2
  <2> HIDE DEF below
  <2> QED BY <1>1, <2>2, <2>3
<1>4. ASSUME NEW x \in S, NEW y \in S, <<x, y>> \in R PROVE Rank(x, S, R) < Rank(y, S, R)
  <2>1. below(x) \in SUBSET below(y)
    BY <1>4 DEF StrictOrder
  <2>2. x \in below(y) /\ x \notin below(x)
    BY <1>4 DEF StrictOrder
  <2>3. Cardinality(below(x)) # Cardinality(below(y)) /\ Cardinality(below(x)) <= Cardinality(below(y))
    BY <1>2, <2>1, <2>2, FS_Subset
  <2>4. /\ Rank(x, S, R) = Cardinality(below(x)) /\ Rank(x, S, R) \in Nat
        /\ Rank(y, S, R) = Cardinality(below(y)) /\ Rank(y, S, R) \in Nat
    BY <1>2
  <2> HIDE DEF below
  <2> QED BY <2>3, <2>4
<1>5. \A x \in S : Rank(x, S, R) \in Nat
  BY <1>2
<1> HIDE DEF below
<1> QED BY <1>1, <1>3, <1>4, <1>5

\* Ranked lists the elements of a finite set, each once and in order.
LEMMA RankedLists ==
  ASSUME NEW S, IsFiniteSet(S), NEW R, StrictOrder(S, R)
  PROVE  LET n == Cardinality(S)
             r == Ranked(S, R)
         IN  /\ n \in Nat
             /\ r \in [1..n -> S]
             /\ \A x \in S : \E i \in 1..n : r[i] = x
             /\ \A i, j \in 1..n : i < j => <<r[i], r[j]>> \in R
             /\ \A i \in 1..n : Rank(r[i], S, R) = i - 1
<1> DEFINE n == Cardinality(S)
           r == Ranked(S, R)
           place == [x \in S |-> Rank(x, S, R) + 1]
<1>1. n \in Nat
  BY FS_CardinalityType
<1>2. /\ \A x \in S : Rank(x, S, R) \in 0..(n - 1)
      /\ \A x, y \in S : <<x, y>> \in R => Rank(x, S, R) < Rank(y, S, R)
  BY RankGrows
<1>3. ASSUME NEW x \in S, NEW y \in S, Rank(x, S, R) = Rank(y, S, R) PROVE x = y
  <2>1. Rank(x, S, R) \in Int /\ ~ (Rank(x, S, R) < Rank(y, S, R)) /\ ~ (Rank(y, S, R) < Rank(x, S, R))
    BY <1>1, <1>2, <1>3
  <2>2. x = y \/ <<x, y>> \in R \/ <<y, x>> \in R
    BY DEF StrictOrder
  <2> QED BY <1>2, <2>1, <2>2
<1> HIDE DEF n, r
<1>4. place \in Injection(S, 1..n)
  <2>1. place \in [S -> 1..n]
    BY <1>1, <1>2
  <2>2. \A x, y \in S : place[x] = place[y] => x = y
    BY <1>1, <1>2, <1>3
  <2> QED BY <2>1, <2>2 DEF Injection, IsInjective
<1>5. place \in Surjection(S, 1..n)
  <2>1. IsFiniteSet(1..n) /\ Cardinality(1..n) = n
    BY <1>1, FS_Interval
  <2> QED BY <1>4, <2>1, FS_Injection DEF n
<1>6. ASSUME NEW i \in 1..n PROVE \E x \in S : Rank(x, S, R) = i - 1
  <2>1. PICK x \in S : place[x] = i
    BY <1>5 DEF Surjection
  <2> QED BY <1>1, <1>2, <2>1
<1>7. r \in [1..n -> S] /\ \A i \in 1..n : Rank(r[i], S, R) = i - 1
  BY <1>6 DEF r, n, Ranked
<1>8. ASSUME NEW x \in S PROVE \E i \in 1..n : r[i] = x
  <2>1. Rank(x, S, R) + 1 \in 1..n
    BY <1>1, <1>2
  <2>2. Rank(r[Rank(x, S, R) + 1], S, R) = Rank(x, S, R)
    BY <1>1, <1>2, <1>7, <2>1
  <2> QED BY <1>3, <1>7, <2>1, <2>2
<1>9. ASSUME NEW i \in 1..n, NEW j \in 1..n, i < j PROVE <<r[i], r[j]>> \in R
  <2>1. r[i] # r[j] /\ ~ <<r[j], r[i]>> \in R
    BY <1>1, <1>2, <1>7, <1>9
  <2> QED BY <1>7, <2>1 DEF StrictOrder
<1> QED BY <1>1, <1>7, <1>8, <1>9 DEF n, r

\* Any list of all elements in order is the one that Ranked gives.
LEMMA RankedUnique ==
  ASSUME NEW S, IsFiniteSet(S), NEW R, StrictOrder(S, R),
         NEW m \in Nat, NEW f \in [1..m -> S],
         \A x \in S : \E i \in 1..m : f[i] = x,
         \A i, j \in 1..m : i < j => <<f[i], f[j]>> \in R
  PROVE  m = Cardinality(S) /\ f = Ranked(S, R)
<1>1. ASSUME NEW i \in 1..m, NEW j \in 1..m, f[i] = f[j] PROVE i = j
  <2>1. <<f[i], f[i]>> \notin R
    BY DEF StrictOrder
  <2>2. ~ (i < j) /\ ~ (j < i)
    BY <1>1, <2>1
  <2> QED BY <2>2
<1>2. IsFiniteSet(1..m) /\ Cardinality(1..m) = m
  BY FS_Interval
<1>3. Cardinality(S) = m
  <2>1. f \in Bijection(1..m, S)
    BY <1>1 DEF Bijection, Injection, Surjection, IsInjective
  <2> QED BY <1>2, <2>1, FS_Bijection DEF ExistsBijection
<1>4. ASSUME NEW i \in 1..m PROVE Rank(f[i], S, R) = i - 1
  <2> DEFINE below == { y \in S : <<y, f[i]>> \in R }
             g == [k \in 1..(i - 1) |-> f[k]]
  <2>1. \A k \in 1..(i - 1) : k \in 1..m /\ k < i
    OBVIOUS
  <2>2. g \in [1..(i - 1) -> below]
    BY <2>1
  <2>3. ASSUME NEW y \in below PROVE \E k \in 1..(i - 1) : g[k] = y
    <3>1. PICK k \in 1..m : f[k] = y
      OBVIOUS
    <3>2. <<f[k], f[i]>> \in R /\ f[k] \in S /\ f[i] \in S
      BY <3>1
    <3>3. k # i /\ ~ <<f[i], f[k]>> \in R
      BY <3>2 DEF StrictOrder
    <3>4. k < i
      BY <3>3
    <3> QED BY <3>1, <3>4
  <2>4. g \in Bijection(1..(i - 1), below)
    BY <1>1, <2>1, <2>2, <2>3 DEF Bijection, Injection, Surjection, IsInjective
  <2>5. IsFiniteSet(1..(i - 1)) /\ Cardinality(1..(i - 1)) = i - 1
    BY FS_Interval
  <2>6. Cardinality(below) = i - 1
    BY <2>4, <2>5, FS_Bijection DEF ExistsBijection
  <2> QED BY <2>6 DEF Rank
<1> DEFINE r == Ranked(S, R)
<1>5. /\ r \in [1..m -> S]
      /\ \A i \in 1..m : Rank(r[i], S, R) = i - 1
  BY <1>3, RankedLists
<1> HIDE DEF r
<1>6. \A x, y \in S : <<x, y>> \in R => Rank(x, S, R) < Rank(y, S, R)
  BY RankGrows
<1>7. \A i \in 1..m : f[i] = r[i]
  BY <1>4, <1>5, <1>6 DEF StrictOrder
<1>8. f = r
  BY <1>5, <1>7
<1> QED BY <1>3, <1>8 DEF r

\* A set of natural numbers has a least one: what induction over the length of a list
\* comes down to.
LEMMA LeastNumber ==
  ASSUME NEW T, T \subseteq Nat, T # {}
  PROVE  \E m \in T : \A k \in T : m <= k
<1>1. PICK t \in T : TRUE
  OBVIOUS
<1> DEFINE S == { k \in T : k <= t }
           R == { p \in S \X S : p[1] < p[2] }
<1>2. IsFiniteSet(S)
  <2>1. IsFiniteSet(0..t)
    BY FS_Interval
  <2>2. \A k \in S : k \in 0..t
    OBVIOUS
  <2>3. S \in SUBSET (0..t)
    BY <2>2
  <2> QED BY <2>1, <2>3, FS_Subset
<1>3. \A x, y \in S : <<x, y>> \in R <=> x < y
  OBVIOUS
<1>4. StrictOrder(S, R)
  <2>1. \A x \in S : x \in Nat
    OBVIOUS
  <2> HIDE DEF S, R
  <2> QED BY <1>3, <2>1 DEF StrictOrder
<1>5. \A x \in S : Rank(x, S, R) \in 0..(Cardinality(S) - 1)
  BY <1>2, <1>4, RankGrows
<1>6. PICK m \in S : Rank(m, S, R) = 0
  <2>1. Cardinality(S) \in Nat /\ t \in S
    BY <1>2, FS_CardinalityType
  <2>2. 1 \in 1..Cardinality(S)
    <3> HIDE DEF S, R
    <3> QED BY <1>5, <2>1
  <2>3. Ranked(S, R)[1] \in S /\ Rank(Ranked(S, R)[1], S, R) = 1 - 1
    <3> HIDE DEF S, R
    <3> QED BY <1>2, <1>4, <2>2, RankedLists
  <2> HIDE DEF S, R
  <2> QED BY <2>3
<1>7. ASSUME NEW k \in S PROVE m <= k
  <2>1. { y \in S : <<y, m>> \in R } = {}
    <3>1. IsFiniteSet({ y \in S : <<y, m>> \in R })
      BY <1>2, FS_Subset
    <3> HIDE DEF S, R
    <3> QED BY <1>6, <3>1, FS_EmptySet DEF Rank
  <2>2. ~ (k < m)
    BY <1>3, <2>1
  <2> QED BY <2>2
<1> QED BY <1>1, <1>7

\* The list f of n elements has each element of S once.
ListsOnce(f, n, S) ==
    /\ f \in [1..n -> S]
    /\ \A i, j \in 1..n : f[i] = f[j] => i = j
    /\ \A x \in S : \E i \in 1..n : f[i] = x

\* Along the list f of n elements the weights do not fall.
Climbs(f, n, w) == \A i, j \in 1..n : i < j => w[f[i]] <= w[f[j]]

\* Two lists of the same elements that both put them in the order of some weight have
\* the same weights at each place.
LEMMA NoLighter ==
  ASSUME NEW n \in Nat, NEW S, NEW w \in [S -> Nat], NEW f, NEW g,
         ListsOnce(f, n, S), ListsOnce(g, n, S), Climbs(f, n, w), Climbs(g, n, w),
         NEW i \in 1..n
  PROVE  w[g[i]] <= w[f[i]]
<1>1. \A j \in 1..n : f[j] \in S /\ g[j] \in S /\ w[f[j]] \in Nat /\ w[g[j]] \in Nat
  BY DEF ListsOnce
<1> SUFFICES ASSUME w[f[i]] < w[g[i]] PROVE FALSE
  BY <1>1
<1> DEFINE place == [j \in 1..i |-> CHOOSE k \in 1..n : g[k] = f[j]]
<1>2. ASSUME NEW j \in 1..i
      PROVE  place[j] \in 1..(i - 1) /\ g[place[j]] = f[j] /\ j \in 1..n
  <2>1. j \in 1..n /\ (j = i \/ j < i)
    OBVIOUS
  <2>2. place[j] \in 1..n /\ g[place[j]] = f[j]
    BY <1>1, <2>1 DEF ListsOnce
  <2> HIDE DEF place
  <2>3. w[f[j]] <= w[f[i]]
    BY <1>1, <2>1 DEF Climbs
  <2>4. w[g[place[j]]] < w[g[i]]
    BY <1>1, <2>1, <2>2, <2>3
  <2>5. ~ (i < place[j]) /\ i # place[j]
    BY <1>1, <2>2, <2>4 DEF Climbs
  <2> QED BY <2>1, <2>2, <2>5
<1>3. place \in [1..i -> 1..(i - 1)]
  BY <1>2
<1> HIDE DEF place
<1>4. i \in Nat /\ i - 1 \in Nat
  OBVIOUS
<1>5. \A m \in Nat : IsFiniteSet(1..m) /\ Cardinality(1..m) = m
  BY CardinalityUpTo
<1>6. Cardinality(1..(i - 1)) < Cardinality(1..i)
  BY <1>4, <1>5
<1>7. PICK x \in 1..i, y \in 1..i : x # y /\ place[x] = place[y]
  BY <1>3, <1>4, <1>5, <1>6, FS_PigeonHole
<1>8. f[x] = f[y] /\ x \in 1..n /\ y \in 1..n
  BY <1>2, <1>7
<1> QED BY <1>7, <1>8 DEF ListsOnce

LEMMA SameWeights ==
  ASSUME NEW n \in Nat, NEW S, NEW w \in [S -> Nat], NEW f, NEW g,
         ListsOnce(f, n, S), ListsOnce(g, n, S), Climbs(f, n, w), Climbs(g, n, w),
         NEW i \in 1..n
  PROVE  w[f[i]] = w[g[i]]
<1>1. w[g[i]] <= w[f[i]]
  BY NoLighter
<1>2. w[f[i]] <= w[g[i]]
  BY NoLighter
<1>3. w[f[i]] \in Nat /\ w[g[i]] \in Nat
  BY DEF ListsOnce
<1> QED BY <1>1, <1>2, <1>3

=============================================================================
