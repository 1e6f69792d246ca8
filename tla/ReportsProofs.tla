---------------------------- MODULE ReportsProofs ----------------------------
(***************************************************************************)
(* Proofs about Reports, for any number of telecallers, contacts and calls,*)
(* any transcripts, and whatever numbers the scoring model answers.        *)
(***************************************************************************)
EXTENDS Reports, FiniteSetTheorems, SequenceTheorems, TLAPS

-----------------------------------------------------------------------------
(* Induction over a finite set, and the table of a fold *)

\* Induction over the subsets of a finite set.  The induction theorems of the
\* library take an operator; this one takes the set of the subsets for which the
\* claim holds, and looks at a smallest one for which it does not.
LEMMA SubsetInduction ==
  ASSUME NEW S, IsFiniteSet(S), NEW G, {} \in G,
         \A U \in SUBSET S : U # {} /\ (\A x \in U : U \ {x} \in G) => U \in G
  PROVE  S \in G
<1> DEFINE Bad == (SUBSET S) \ G
           R   == StrictSubsetOrdering(S)
<1>1. SUFFICES ASSUME Bad # {} PROVE FALSE
  OBVIOUS
<1>2. IsWellFoundedOn(R, SUBSET S)
  BY FS_StrictSubsetOrderingWellFounded, FS_FiniteSubsetsOfFinite
<1>3. PICK U \in Bad : \A V \in Bad : <<V, U>> \notin R
  <2>1. Bad \subseteq SUBSET S
    OBVIOUS
  <2> HIDE DEF Bad, R
  <2> QED
    BY <1>1, <1>2, <2>1, WFMin, Zenon
<1>4. \A x \in U : U \ {x} \in G
  <2> SUFFICES ASSUME NEW x \in U, U \ {x} \notin G PROVE FALSE
    OBVIOUS
  <2>1. U \ {x} \in Bad /\ U \ {x} \subseteq U /\ U \ {x} # U
    OBVIOUS
  <2>2. <<U \ {x}, U>> \in R
    BY <2>1 DEF StrictSubsetOrdering
  <2> QED
    BY <1>3, <2>1, <2>2
<1> QED
  BY <1>4

First(s) == CHOOSE x \in s : TRUE

\* g is the table from which the fold reads the sum of f over S.
Sums(g, f, S) ==
  g = [s \in SUBSET S |-> IF s = {} THEN 0 ELSE f[First(s)] + g[s \ {First(s)}]]

LEMMA FirstOf ==
  ASSUME NEW s, s # {}
  PROVE  First(s) \in s
BY DEF First

\* Two tables agree wherever both have an entry and the summands are the same.
LEMMA SumsAgree ==
  ASSUME NEW f, NEW g, NEW S, Sums(g, f, S),
         NEW e, NEW h, NEW T, Sums(h, e, T),
         NEW U, IsFiniteSet(U), U \subseteq S, U \subseteq T, \A x \in U : f[x] = e[x]
  PROVE  g[U] = h[U]
<1> DEFINE G == {V \in SUBSET U : g[V] = h[V]}
<1>1. \A V \in SUBSET U : /\ g[V] = IF V = {} THEN 0 ELSE f[First(V)] + g[V \ {First(V)}]
                          /\ h[V] = IF V = {} THEN 0 ELSE e[First(V)] + h[V \ {First(V)}]
  <2> TAKE V \in SUBSET U
  <2>1. V \in SUBSET S /\ V \in SUBSET T
    OBVIOUS
  <2> QED
    BY <2>1, Zenon DEF Sums
<1>2. {} \in G
  BY <1>1
<1>3. ASSUME NEW V \in SUBSET U, V # {}, \A x \in V : V \ {x} \in G PROVE V \in G
  <2>1. First(V) \in V
    BY <1>3, FirstOf
  <2>2. g[V \ {First(V)}] = h[V \ {First(V)}] /\ f[First(V)] = e[First(V)]
    BY <1>3, <2>1
  <2>3. g[V] = h[V]
    BY <1>1, <1>3, <2>2, Zenon
  <2> QED
    BY <2>3
<1> HIDE DEF G
<1>4. U \in G
  BY <1>2, <1>3, SubsetInduction
<1> QED
  BY <1>4 DEF G

LEMMA SumsExist ==
  ASSUME NEW f, NEW S, IsFiniteSet(S)
  PROVE  \E g : Sums(g, f, S)
<1> DEFINE G == {U \in SUBSET S : \E g : Sums(g, f, U)}
<1>1. {} \in G
  <2> DEFINE g == [s \in SUBSET {} |-> 0]
  <2>1. \A s \in SUBSET {} : s = {}
    OBVIOUS
  <2>2. g = [s \in SUBSET {} |-> IF s = {} THEN 0 ELSE f[First(s)] + g[s \ {First(s)}]]
    BY <2>1
  <2> QED
    BY <2>2 DEF Sums
<1>2. ASSUME NEW U \in SUBSET S, U # {}, \A x \in U : U \ {x} \in G PROVE U \in G
  <2> DEFINE rest(x) == CHOOSE h : Sums(h, f, U \ {x})
             g == [s \in SUBSET U |->
                     IF s = {} THEN 0 ELSE f[First(s)] + rest(First(s))[s \ {First(s)}]]
  <2>1. \A x \in U : Sums(rest(x), f, U \ {x})
    BY <1>2
  <2>2. ASSUME NEW s \in SUBSET U, s # {}
        PROVE  rest(First(s))[s \ {First(s)}] = g[s \ {First(s)}]
    <3> DEFINE t == s \ {First(s)}
    <3>1. First(s) \in s /\ t \in SUBSET (U \ {First(s)}) /\ t \in SUBSET U
      BY <2>2, FirstOf
    <3>2. rest(First(s))[t] = IF t = {} THEN 0 ELSE f[First(t)] + rest(First(s))[t \ {First(t)}]
      <4>1. Sums(rest(First(s)), f, U \ {First(s)})
        BY <2>1, <3>1
      <4> HIDE DEF rest, t
      <4> QED
        BY <3>1, <4>1, Zenon DEF Sums
    <3>3. CASE t = {}
      BY <3>1, <3>2, <3>3
    <3>4. CASE t # {}
      <4>1. First(t) \in t
        BY <3>4, FirstOf
      <4>2. g[t] = f[First(t)] + rest(First(t))[t \ {First(t)}]
        BY <3>1, <3>4
      <4>3. rest(First(s))[t \ {First(t)}] = rest(First(t))[t \ {First(t)}]
        <5>1. Sums(rest(First(s)), f, U \ {First(s)}) /\ Sums(rest(First(t)), f, U \ {First(t)})
          BY <2>1, <3>1, <4>1
        <5>2. IsFiniteSet(t \ {First(t)})
          BY <3>1, FS_Subset
        <5>3. t \ {First(t)} \subseteq U \ {First(s)} /\ t \ {First(t)} \subseteq U \ {First(t)}
          BY <3>1
        <5> HIDE DEF rest, t
        <5> QED
          BY <5>1, <5>2, <5>3, SumsAgree
      <4> QED
        BY <3>2, <3>4, <4>2, <4>3, Zenon
    <3> QED
      BY <3>3, <3>4
  <2>3. g = [s \in SUBSET U |-> IF s = {} THEN 0 ELSE f[First(s)] + g[s \ {First(s)}]]
    <3> DEFINE old(s) == IF s = {} THEN 0 ELSE f[First(s)] + rest(First(s))[s \ {First(s)}]
               new(s) == IF s = {} THEN 0 ELSE f[First(s)] + g[s \ {First(s)}]
    <3>1. \A s \in SUBSET U : old(s) = new(s)
      <4> TAKE s \in SUBSET U
      <4>1. CASE s = {}
        BY <4>1
      <4>2. CASE s # {}
        <5>1. rest(First(s))[s \ {First(s)}] = g[s \ {First(s)}]
          BY <2>2, <4>2
        <5> HIDE DEF g, rest
        <5> QED
          BY <4>2, <5>1
      <4> QED
        BY <4>1, <4>2
    <3>2. g = [s \in SUBSET U |-> old(s)]
      OBVIOUS
    <3> HIDE DEF old
    <3>3. g = [s \in SUBSET U |-> new(s)]
      <4> HIDE DEF new, g
      <4> QED
        BY <3>1, <3>2
    <3> QED
      BY <3>3, Zenon
  <2>4. Sums(g, f, U)
    BY <2>3, Zenon DEF Sums
  <2> QED
    BY <2>4
<1> HIDE DEF G
<1>3. S \in G
  BY <1>1, <1>2, SubsetInduction
<1> QED
  BY <1>3 DEF G

\* Total reads such a table.
LEMMA TotalSums ==
  ASSUME NEW f, IsFiniteSet(DOMAIN f)
  PROVE  \E g : Sums(g, f, DOMAIN f) /\ Total(f) = g[DOMAIN f]
<1> DEFINE g == CHOOSE h : Sums(h, f, DOMAIN f)
<1>1. Sums(g, f, DOMAIN f)
  BY SumsExist
<1>2. Total(f) = g[DOMAIN f]
  BY DEF Total, MapThenSumSet, MapThenFoldSet, Sums, First
<1> QED
  BY <1>1, <1>2

LEMMA TotalEmpty ==
  ASSUME NEW f, DOMAIN f = {}
  PROVE  Total(f) = 0
<1>1. PICK g : Sums(g, f, DOMAIN f) /\ Total(f) = g[DOMAIN f]
  BY FS_EmptySet, TotalSums
<1> QED
  BY <1>1 DEF Sums

-----------------------------------------------------------------------------
(* Sums *)

\* The sum of f over some of its arguments.
Over(f, S) == Total([i \in S |-> f[i]])

LEMMA OverAll ==
  ASSUME NEW f, NEW S, f = [i \in S |-> f[i]]
  PROVE  Over(f, S) = Total(f)
BY DEF Over

LEMMA OverEmpty ==
  ASSUME NEW f
  PROVE  Over(f, {}) = 0
<1> DEFINE none == [i \in {} |-> f[i]]
<1>1. DOMAIN none = {}
  OBVIOUS
<1> HIDE DEF none
<1>2. Total(none) = 0
  BY <1>1, TotalEmpty
<1> QED
  BY <1>2 DEF Over, none

\* What is summed counts, not the function it is read from.
LEMMA OverSame ==
  ASSUME NEW f, NEW g, NEW S, \A i \in S : f[i] = g[i]
  PROVE  Over(f, S) = Over(g, S)
<1>1. [i \in S |-> f[i]] = [i \in S |-> g[i]]
  OBVIOUS
<1> QED
  BY <1>1 DEF Over

\* The fold takes an element of its own choice first.
LEMMA OverFirst ==
  ASSUME NEW f, NEW S, IsFiniteSet(S), S # {}
  PROVE  Over(f, S) = f[First(S)] + Over(f, S \ {First(S)})
<1> DEFINE x == First(S)
           a == [i \in S |-> f[i]]
           b == [i \in S \ {x} |-> f[i]]
<1>1. x \in S
  BY FirstOf
<1>2. DOMAIN a = S /\ DOMAIN b = S \ {x} /\ IsFiniteSet(S \ {x})
  BY FS_Subset
<1>3. a[x] = f[x] /\ \A i \in S \ {x} : a[i] = b[i]
  BY <1>1
<1> HIDE DEF a, b, x
<1>4. PICK g : Sums(g, a, S) /\ Total(a) = g[S]
  BY <1>2, TotalSums, Zenon
<1>5. PICK h : Sums(h, b, S \ {x}) /\ Total(b) = h[S \ {x}]
  BY <1>2, TotalSums, Zenon
<1>6. g[S] = a[x] + g[S \ {x}]
  BY <1>4 DEF Sums, x
<1>7. g[S \ {x}] = h[S \ {x}]
  <2>1. S \ {x} \subseteq S
    OBVIOUS
  <2> QED
    BY <1>2, <1>3, <1>4, <1>5, <2>1, SumsAgree
<1>8. Total(a) = f[x] + Total(b)
  BY <1>3, <1>4, <1>5, <1>6, <1>7
<1> QED
  BY <1>8, Zenon DEF Over, a, b, x

LEMMA OverInt ==
  ASSUME NEW f, NEW S, IsFiniteSet(S), \A i \in S : f[i] \in Int
  PROVE  Over(f, S) \in Int
<1> DEFINE G == {U \in SUBSET S : Over(f, U) \in Int}
<1>1. {} \in G
  BY OverEmpty
<1>2. ASSUME NEW U \in SUBSET S, U # {}, \A x \in U : U \ {x} \in G PROVE U \in G
  <2>1. First(U) \in U /\ IsFiniteSet(U)
    BY <1>2, FirstOf, FS_Subset
  <2>2. Over(f, U) = f[First(U)] + Over(f, U \ {First(U)})
    BY <1>2, <2>1, OverFirst
  <2>3. f[First(U)] \in Int /\ Over(f, U \ {First(U)}) \in Int
    BY <1>2, <2>1
  <2> QED
    BY <2>2, <2>3
<1> HIDE DEF G
<1>3. S \in G
  BY <1>1, <1>2, SubsetInduction
<1> QED
  BY <1>3 DEF G

\* Any element may be taken first.
LEMMA OverRemove ==
  ASSUME NEW f, NEW S, IsFiniteSet(S), \A i \in S : f[i] \in Int, NEW x \in S
  PROVE  Over(f, S) = f[x] + Over(f, S \ {x})
<1> DEFINE G == {U \in SUBSET S : \A u \in U : Over(f, U) = f[u] + Over(f, U \ {u})}
<1>1. {} \in G
  OBVIOUS
<1>2. ASSUME NEW U \in SUBSET S, U # {}, \A u \in U : U \ {u} \in G PROVE U \in G
  <2> SUFFICES ASSUME NEW u \in U PROVE Over(f, U) = f[u] + Over(f, U \ {u})
    OBVIOUS
  <2> DEFINE y == First(U)
  <2>1. y \in U /\ IsFiniteSet(U)
    BY <1>2, FirstOf, FS_Subset
  <2>2. Over(f, U) = f[y] + Over(f, U \ {y})
    BY <1>2, <2>1, OverFirst
  <2> HIDE DEF y
  <2>3. CASE u = y
    BY <2>2, <2>3
  <2>4. CASE u # y
    <3>1. Over(f, U \ {y}) = f[u] + Over(f, (U \ {y}) \ {u})
      BY <1>2, <2>1, <2>4
    <3>2. Over(f, U \ {u}) = f[y] + Over(f, (U \ {u}) \ {y})
      BY <1>2, <2>1, <2>4
    <3>3. PICK rest : rest = (U \ {y}) \ {u} /\ rest = (U \ {u}) \ {y}
      OBVIOUS
    <3>4. Over(f, rest) \in Int
      <4>1. \A i \in rest : f[i] \in Int
        BY <3>3
      <4>2. IsFiniteSet(rest)
        BY <2>1, <3>3, FS_Subset
      <4> QED
        BY <4>1, <4>2, OverInt
    <3>5. f[u] \in Int /\ f[y] \in Int
      BY <2>1
    <3>6. Over(f, U \ {y}) = f[u] + Over(f, rest) /\ Over(f, U \ {u}) = f[y] + Over(f, rest)
      BY <3>1, <3>2, <3>3, Zenon
    <3> QED
      BY <2>2, <3>4, <3>5, <3>6
  <2> QED
    BY <2>3, <2>4
<1> HIDE DEF G
<1>3. S \in G
  BY <1>1, <1>2, SubsetInduction
<1> QED
  BY <1>3 DEF G

\* A sum of n numbers is between n times a lower and n times an upper bound.
LEMMA OverBounds ==
  ASSUME NEW f, NEW S, IsFiniteSet(S), NEW lo \in Int, NEW hi \in Int,
         \A i \in S : f[i] \in Int /\ lo <= f[i] /\ f[i] <= hi
  PROVE  lo * Cardinality(S) <= Over(f, S) /\ Over(f, S) <= hi * Cardinality(S)
<1> DEFINE Fits(U) == lo * Cardinality(U) <= Over(f, U) /\ Over(f, U) <= hi * Cardinality(U)
           G == {U \in SUBSET S : Fits(U)}
<1>1. {} \in G
  BY OverEmpty, FS_EmptySet
<1>2. ASSUME NEW U \in SUBSET S, U # {}, \A x \in U : U \ {x} \in G PROVE U \in G
  <2>1. PICK x \in U : x = First(U)
    BY <1>2, FirstOf
  <2>2. IsFiniteSet(U) /\ IsFiniteSet(U \ {x})
    BY FS_Subset
  <2> DEFINE rest == Over(f, U \ {x})
             n    == Cardinality(U \ {x})
  <2>3. Over(f, U) = f[x] + rest
    BY <1>2, <2>1, <2>2, OverFirst
  <2>4. Cardinality(U) = n + 1 /\ n \in Nat
    <3>1. Cardinality(U) \in Nat /\ n \in Nat
      BY <2>2, FS_CardinalityType
    <3>2. n = Cardinality(U) - 1
      BY <2>2, FS_RemoveElement
    <3> QED
      BY <3>1, <3>2
  <2>5. lo * n <= rest /\ rest <= hi * n
    BY <1>2
  <2>6. rest \in Int
    BY <2>2, OverInt
  <2>7. lo * (n + 1) = lo * n + lo /\ hi * (n + 1) = hi * n + hi /\ lo * n \in Int /\ hi * n \in Int
    <3> HIDE DEF n
    <3> QED
      BY <2>4
  <2>8. f[x] \in Int /\ lo <= f[x] /\ f[x] <= hi
    OBVIOUS
  <2> HIDE DEF rest, n
  <2>9. lo * (n + 1) <= f[x] + rest /\ f[x] + rest <= hi * (n + 1)
    BY <2>5, <2>6, <2>7, <2>8
  <2>10. Fits(U)
    BY <2>3, <2>4, <2>9
  <2> QED
    BY <2>10
<1> HIDE DEF G
<1>3. S \in G
  BY <1>1, <1>2, SubsetInduction
<1> QED
  BY <1>3 DEF G

\* A sum can be taken group by group.
LEMMA OverGroups ==
  ASSUME NEW f, NEW S, IsFiniteSet(S), \A i \in S : f[i] \in Int,
         NEW K, IsFiniteSet(K), NEW key, \A i \in S : key[i] \in K
  PROVE  Over(f, S) = Total([k \in K |-> Over(f, {i \in S : key[i] = k})])
<1> DEFINE group(U) == [k \in K |-> Over(f, {i \in U : key[i] = k})]
           G == {U \in SUBSET S : Over(f, U) = Total(group(U))}
<1>1. \A U \in SUBSET S : Total(group(U)) = Over(group(U), K)
  BY DEF Over
<1>2. ASSUME NEW U \in SUBSET S PROVE \A k \in K : group(U)[k] \in Int
  <2> TAKE k \in K
  <2>1. {i \in U : key[i] = k} \subseteq S
    OBVIOUS
  <2>2. IsFiniteSet({i \in U : key[i] = k})
    BY <2>1, FS_Subset
  <2>3. Over(f, {i \in U : key[i] = k}) \in Int
    BY <2>1, <2>2, OverInt
  <2> QED
    BY <2>3
<1>3. {} \in G
  <2>1. \A k \in K : group({})[k] = 0
    <3> TAKE k \in K
    <3>1. {i \in {} : key[i] = k} = {}
      OBVIOUS
    <3> QED
      BY <3>1, OverEmpty
  <2>2. 0 * Cardinality(K) <= Over(group({}), K) /\ Over(group({}), K) <= 0 * Cardinality(K)
    <3> HIDE DEF group
    <3> QED
      BY <2>1, OverBounds
  <2>3. Over(group({}), K) \in Int /\ Cardinality(K) \in Nat
    <3> HIDE DEF group
    <3> QED
      BY <2>1, OverInt, FS_CardinalityType
  <2>4. Over(group({}), K) = 0
    <3> HIDE DEF group
    <3> QED
      BY <2>2, <2>3
  <2> HIDE DEF group
  <2> QED
    BY <1>1, <2>4, OverEmpty
<1>4. ASSUME NEW U \in SUBSET S, U # {}, \A x \in U : U \ {x} \in G PROVE U \in G
  <2>1. PICK x \in U : x = First(U)
    BY <1>4, FirstOf
  <2> DEFINE V == U \ {x}
             k0 == key[x]
  <2>2. V \in SUBSET S /\ k0 \in K /\ IsFiniteSet(U) /\ IsFiniteSet(V)
    BY FS_Subset
  <2>3. Over(f, U) = f[x] + Over(f, V)
    BY <1>4, <2>1, <2>2, OverFirst
  <2>4. Over(f, V) = Over(group(V), K)
    BY <1>1, <1>4, <2>2
  <2>5. group(U)[k0] = f[x] + group(V)[k0]
    <3> DEFINE A == {i \in U : key[i] = k0}
    <3>1. x \in A /\ A \ {x} = {i \in V : key[i] = k0} /\ A \subseteq S
      OBVIOUS
    <3>2. IsFiniteSet(A)
      BY <3>1, FS_Subset
    <3>3. \A i \in A : f[i] \in Int
      BY <3>1
    <3>4. Over(f, A) = f[x] + Over(f, A \ {x})
      <4> HIDE DEF A
      <4> QED
        BY <3>1, <3>2, <3>3, OverRemove
    <3> QED
      BY <2>2, <3>1, <3>4
  <2>6. \A k \in K \ {k0} : group(U)[k] = group(V)[k]
    <3> TAKE k \in K \ {k0}
    <3>1. {i \in U : key[i] = k} = {i \in V : key[i] = k}
      OBVIOUS
    <3> QED
      BY <3>1
  <2>7. \A k \in K : group(U)[k] \in Int /\ group(V)[k] \in Int
    BY <1>2, <2>2
  <2> HIDE DEF group, k0
  <2>8. /\ Over(group(U), K) = group(U)[k0] + Over(group(U), K \ {k0})
        /\ Over(group(V), K) = group(V)[k0] + Over(group(V), K \ {k0})
    <3>1. \A g : (\A k \in K : g[k] \in Int) => Over(g, K) = g[k0] + Over(g, K \ {k0})
      <4>1. IsFiniteSet(K) /\ k0 \in K
        BY <2>2
      <4> SUFFICES ASSUME NEW g, \A k \in K : g[k] \in Int
                   PROVE  Over(g, K) = g[k0] + Over(g, K \ {k0})
        OBVIOUS
      <4> QED
        BY <4>1, OverRemove
    <3> QED
      BY <2>7, <3>1, Zenon
  <2>9. Over(group(U), K \ {k0}) = Over(group(V), K \ {k0})
    BY <2>6, OverSame
  <2>10. Over(group(V), K \ {k0}) \in Int
    BY <2>7, FS_Subset, OverInt
  <2>11. f[x] \in Int
    OBVIOUS
  <2>12. group(V)[k0] \in Int
    BY <2>2, <2>7
  <2>13. Over(f, U) = Over(group(U), K)
    BY <2>3, <2>4, <2>5, <2>8, <2>9, <2>10, <2>11, <2>12
  <2>14. Over(f, U) = Total(group(U))
    BY <1>1, <2>13
  <2> QED
    BY <2>14
<1>5. S \in G
  <2> HIDE DEF G
  <2> QED
    BY <1>3, <1>4, SubsetInduction
<1>6. Over(f, S) = Total(group(S))
  BY <1>5
<1> QED
  BY <1>6

\* A set is counted group by group.
LEMMA CountGroups ==
  ASSUME NEW S, IsFiniteSet(S), NEW K, IsFiniteSet(K), NEW key, \A i \in S : key[i] \in K
  PROVE  Total([k \in K |-> Cardinality({i \in S : key[i] = k})]) = Cardinality(S)
<1> DEFINE one == [i \in S |-> 1]
           part(k) == {i \in S : key[i] = k}
<1>1. ASSUME NEW U \in SUBSET S PROVE Over(one, U) = Cardinality(U)
  <2>1. IsFiniteSet(U) /\ \A i \in U : one[i] = 1
    BY FS_Subset
  <2> HIDE DEF one
  <2>2. 1 * Cardinality(U) <= Over(one, U) /\ Over(one, U) <= 1 * Cardinality(U)
    BY <2>1, OverBounds
  <2>3. Over(one, U) \in Int /\ Cardinality(U) \in Nat
    BY <2>1, OverInt, FS_CardinalityType
  <2> QED
    BY <2>2, <2>3
<1>2. \A i \in S : one[i] \in Int
  OBVIOUS
<1>3. \A k \in K : Over(one, part(k)) = Cardinality(part(k))
  <2> TAKE k \in K
  <2>1. part(k) \in SUBSET S
    OBVIOUS
  <2> HIDE DEF one, part
  <2> QED
    BY <1>1, <2>1
<1> HIDE DEF one
<1>4. Over(one, S) = Total([k \in K |-> Over(one, part(k))])
  BY <1>2, OverGroups
<1>5. [k \in K |-> Over(one, part(k))] = [k \in K |-> Cardinality(part(k))]
  <2> HIDE DEF part
  <2> QED
    BY <1>3
<1>6. Over(one, S) = Cardinality(S)
  BY <1>1
<1>7. Total([k \in K |-> Cardinality(part(k))]) = Cardinality(S)
  BY <1>4, <1>5, <1>6
<1> QED
  BY <1>7

-----------------------------------------------------------------------------
(* Numbers *)

\* A finite set of integers has a greatest and a least element.
LEMMA Extremes ==
  ASSUME NEW S \in SUBSET Int, IsFiniteSet(S), S # {}
  PROVE  /\ Max(S) \in S /\ \A y \in S : Max(S) >= y
         /\ Min(S) \in S /\ \A y \in S : Min(S) <= y
<1> DEFINE Top(U, x) == x \in U /\ \A y \in U : x >= y
           Low(U, x) == x \in U /\ \A y \in U : x <= y
           G == {U \in SUBSET S : U # {} => (\E x \in U : Top(U, x)) /\ (\E x \in U : Low(U, x))}
<1>1. {} \in G
  OBVIOUS
<1>2. ASSUME NEW U \in SUBSET S, U # {}, \A x \in U : U \ {x} \in G PROVE U \in G
  <2>1. PICK u \in U : TRUE
    BY <1>2
  <2>2. CASE U \ {u} = {}
    <3>1. Top(U, u) /\ Low(U, u)
      BY <2>2
    <3> QED
      BY <3>1
  <2>3. CASE U \ {u} # {}
    <3>1. PICK x \in U \ {u}, z \in U \ {u} : Top(U \ {u}, x) /\ Low(U \ {u}, z)
      BY <1>2, <2>3
    <3>2. \E v \in U : Top(U, v)
      <4>1. CASE u >= x
        <5>1. Top(U, u)
          BY <3>1, <4>1
        <5> QED
          BY <5>1
      <4>2. CASE x >= u
        <5>1. Top(U, x)
          BY <3>1, <4>2
        <5> QED
          BY <5>1
      <4> QED
        BY <4>1, <4>2
    <3>3. \E v \in U : Low(U, v)
      <4>1. CASE u <= z
        <5>1. Low(U, u)
          BY <3>1, <4>1
        <5> QED
          BY <5>1
      <4>2. CASE z <= u
        <5>1. Low(U, z)
          BY <3>1, <4>2
        <5> QED
          BY <5>1
      <4> QED
        BY <4>1, <4>2
    <3> HIDE DEF Top, Low
    <3> QED
      BY <3>2, <3>3
  <2> QED
    BY <2>2, <2>3
<1>3. S \in G
  <2> HIDE DEF G
  <2> QED
    BY <1>1, <1>2, SubsetInduction
<1>4. (\E x \in S : Top(S, x)) /\ (\E x \in S : Low(S, x))
  BY <1>3
<1> QED
  BY <1>4, Zenon DEF Max, Min

LEMMA Division ==
  ASSUME NEW n \in Int, NEW d \in Nat \ {0}
  PROVE  /\ n \div d \in Int /\ n % d \in Int
         /\ n = d * (n \div d) + (n % d) /\ 0 <= n % d /\ n % d < d
OBVIOUS

\* Rounding an integer quotient gives an integer.
LEMMA RoundInt ==
  ASSUME NEW n \in Int, NEW d \in Nat \ {0}
  PROVE  RoundDiv(n, d) \in Int
BY DEF RoundDiv

\* Integer bounds of a quotient are bounds of the rounded quotient.
LEMMA RoundBounds ==
  ASSUME NEW n \in Int, NEW d \in Nat \ {0}, NEW lo \in Int, NEW hi \in Int,
         lo * d <= n, n <= hi * d
  PROVE  RoundDiv(n, d) \in lo .. hi
<1> DEFINE q == n \div d
           r == n % d
<1>1. q \in Int /\ r \in Int /\ n = d * q + r /\ 0 <= r /\ r < d
  OBVIOUS
<1>2. RoundDiv(n, d) = IF 2 * r < d \/ (2 * r = d /\ q % 2 = 0) THEN q ELSE q + 1
  BY DEF RoundDiv
<1> HIDE DEF q, r
<1>3. lo <= q
  <2> SUFFICES ASSUME q + 1 <= lo PROVE FALSE
    BY <1>1
  <2>1. (q + 1) * d <= lo * d
    BY <1>1
  <2>2. (q + 1) * d = d * q + d
    BY <1>1
  <2> QED
    BY <1>1, <2>1, <2>2
<1>4. q <= hi /\ (q = hi => r = 0)
  <2>1. d * q <= hi * d
    BY <1>1
  <2>2. ASSUME hi + 1 <= q PROVE FALSE
    <3>1. (hi + 1) * d <= q * d
      BY <1>1, <2>2
    <3>2. (hi + 1) * d = hi * d + d /\ q * d = d * q /\ hi * d \in Int
      BY <1>1
    <3> QED
      BY <1>1, <2>1, <3>1, <3>2
  <2>3. ASSUME q = hi PROVE r = 0
    <3>1. hi * d = d * q
      BY <1>1, <2>3
    <3> QED
      BY <1>1, <3>1
  <2> QED
    BY <1>1, <2>2, <2>3
<1>5. q < hi => q + 1 \in lo .. hi
  BY <1>1, <1>3
<1>6. q = hi => RoundDiv(n, d) = q
  BY <1>1, <1>2, <1>4
<1> QED
  BY <1>1, <1>2, <1>3, <1>4, <1>5, <1>6

-----------------------------------------------------------------------------
(* Scores *)

\* Whatever is answered, a clamped score is in its range.
LEMMA ClampRange ==
  ASSUME NEW v \in Int \cup {None}, NEW hi \in Nat
  PROVE  Clamp(v, 0, hi) \in 0 .. hi
<1>1. CASE v = None
  BY <1>1 DEF Clamp
<1>2. CASE v \in Int /\ v # None
  <2>1. RoundDiv(v, 10) \in Int
    BY <1>2, RoundInt
  <2> QED
    BY <1>2, <2>1 DEF Clamp
<1> QED
  BY <1>1, <1>2

\* What an answer can be.
Given == Answers \ {None}

\* An assembled result has percentages for its lead score and its quality.
LEMMA AssembleRange ==
  ASSUME NEW raw \in Given, NEW arc
  PROVE  Assemble(raw, arc).bant \in 0 .. 100 /\ Assemble(raw, arc).total \in 0 .. 100
<1>1. \A d \in Bant : Clamp(raw[d], 0, 25) \in 0 .. 25
  BY AnswersAssumption, ClampRange DEF Given
<1>2. \A d \in Skills : Range20(d) = 20 /\ d \in Dimensions
  BY DEF Range20, Skills, Dimensions
<1>3. \A d \in Skills : Clamp(raw[d], 0, 20) \in 0 .. 20
  BY <1>2, AnswersAssumption, ClampRange DEF Given
<1>4. Assemble(raw, arc).bant =
        Clamp(raw["budget"], 0, 25) + Clamp(raw["authority"], 0, 25)
          + Clamp(raw["need"], 0, 25) + Clamp(raw["timeline"], 0, 25)
  BY DEF Assemble, Bant
<1>5. Assemble(raw, arc).total =
        Clamp(raw["opening"], 0, 20) + Clamp(raw["discovery"], 0, 20)
          + Clamp(raw["pitch"], 0, 20) + Clamp(raw["objection_handling"], 0, 20)
          + Clamp(raw["closing"], 0, 20)
  BY <1>2 DEF Assemble, Skills
<1>6. Assemble(raw, arc).bant \in 0 .. 100
  BY <1>1, <1>4 DEF Bant
<1>7. Assemble(raw, arc).total \in 0 .. 100
  BY <1>3, <1>5 DEF Skills
<1> QED
  BY <1>6, <1>7

\* The dimensions of a result are numbers, its verdict one of the four.
LEMMA AssembleShape ==
  ASSUME NEW raw \in Given, NEW arc
  PROVE  /\ Assemble(raw, arc).verdict \in Verdicts
         /\ \A d \in Dimensions : Assemble(raw, arc).dims[d] \in Int
         /\ Assemble(raw, arc).arc = arc
<1>1. ASSUME NEW d \in Dimensions PROVE Clamp(raw[d], 0, Range20(d)) \in Int
  <2>1. Range20(d) \in Nat
    BY DEF Range20
  <2> QED
    <3>1. raw[d] \in Int \cup {None}
      BY AnswersAssumption DEF Given
    <3>2. Clamp(raw[d], 0, Range20(d)) \in 0 .. Range20(d)
      BY <2>1, <3>1, ClampRange
    <3> QED
      BY <2>1, <3>2
<1> QED
  BY <1>1 DEF Assemble, Verdicts

\* What a call is analysed from.
Turns == Transcripts \cup {<<>>}

LEMMA UnitRange == \A v \in Int : Unit(v) \in -10 .. 10
BY DEF Unit

LEMMA NormArcRange ==
  ASSUME NEW item, item.score \in Int \cup {None}
  PROVE  NormArc(item).score \in -10 .. 10
<1>1. NormArc(item).score = IF item.score = None THEN 0 ELSE Unit(item.score)
  BY Zenon DEF NormArc
<1>2. CASE item.score = None
  BY <1>1, <1>2
<1>3. CASE item.score \in Int /\ item.score # None
  BY <1>1, <1>3, UnitRange, Zenon
<1> QED
  BY <1>2, <1>3

\* The windows are numbered from one, and there are finitely many.
LEMMA WindowsNumbered ==
  ASSUME NEW n \in Nat
  PROVE  \E k \in Int : DOMAIN Windows(n) = 1 .. k
<1>1. CASE n <= WindowTurns
  <2>1. Windows(n) = << 1 .. n >>
    BY <1>1, Zenon DEF Windows
  <2> QED
    BY <2>1
<1>2. CASE ~(n <= WindowTurns)
  <2> DEFINE step == IF WindowTurns > Overlap THEN WindowTurns - Overlap ELSE 1
             count == (n + step - 1) \div step
  <2>1. step \in Nat \ {0}
    BY ScoringAssumption
  <2> HIDE DEF step
  <2>2. count \in Int
    BY <2>1
  <2>3. DOMAIN Windows(n) = 1 .. count
    BY <1>2, Zenon DEF Windows, step
  <2> QED
    BY <2>2, <2>3
<1> QED
  BY <1>1, <1>2

\* Every turn is in some window, and nothing else is.
LEMMA WindowsCover ==
  ASSUME NEW n \in Nat
  PROVE  UNION {Windows(n)[w] : w \in DOMAIN Windows(n)} = 1 .. n
<1>1. CASE n <= WindowTurns
  <2>1. Windows(n) = << 1 .. n >>
    BY <1>1, Zenon DEF Windows
  <2>2. DOMAIN Windows(n) = {1} /\ Windows(n)[1] = 1 .. n
    BY <2>1
  <2> QED
    BY <2>2
<1>2. CASE ~(n <= WindowTurns)
  <2> DEFINE step == IF WindowTurns > Overlap THEN WindowTurns - Overlap ELSE 1
             count == (n + step - 1) \div step
             of(w) == {t \in 1 .. n : t > (w - 1) * step /\ t <= (w - 1) * step + WindowTurns}
  <2>1. step \in Nat \ {0} /\ step <= WindowTurns /\ WindowTurns \in Nat
    BY ScoringAssumption
  <2>2. Windows(n) = [w \in 1 .. count |-> of(w)]
    BY <1>2, Zenon DEF Windows
  <2> HIDE DEF step
  <2>m. PICK m \in Int : m = n + step - 1
    BY <2>1
  <2>d. count = m \div step
    BY <2>m
  <2> HIDE DEF count
  <2>3. PICK over \in Int : count \in Int /\ m = step * count + over /\ over < step
    BY <2>1, <2>d, Division
  <2>4. ASSUME NEW t \in 1 .. n PROVE \E w \in 1 .. count : t \in of(w)
    <3>1. PICK q \in Int, rest \in Int : t - 1 = step * q + rest /\ 0 <= rest /\ rest < step
      <4>1. t - 1 \in Int
        OBVIOUS
      <4> QED
        BY <2>1, <4>1, Division
    <3>2. q >= 0
      <4> SUFFICES ASSUME q <= -1 PROVE FALSE
        BY <3>1
      <4>1. step * q <= step * (-1)
        BY <2>1
      <4>2. step * (-1) = -step /\ step * q \in Int
        BY <2>1
      <4> QED
        BY <2>1, <3>1, <4>1, <4>2
    <3>3. q < count
      <4> SUFFICES ASSUME count <= q PROVE FALSE
        BY <2>3
      <4>1. step * count <= step * q /\ step * count \in Int /\ step * q \in Int
        BY <2>1, <2>3
      <4> QED
        BY <2>1, <2>m, <2>3, <3>1, <4>1
    <3>4. PICK past \in Int : past = q * step /\ past = step * q
      BY <2>1
    <3>5. t > past /\ t <= past + WindowTurns
      BY <2>1, <3>1, <3>4
    <3>6. t \in of(q + 1) /\ q + 1 \in 1 .. count
      <4>1. (q + 1) - 1 = q
        OBVIOUS
      <4>2. t > ((q + 1) - 1) * step /\ t <= ((q + 1) - 1) * step + WindowTurns
        BY <3>4, <3>5, <4>1
      <4>3. q + 1 \in 1 .. count
        BY <2>3, <3>2, <3>3
      <4> QED
        BY <4>2, <4>3
    <3> QED
      BY <3>6
  <2>5. \A w : of(w) \subseteq 1 .. n
    OBVIOUS
  <2> HIDE DEF of
  <2> QED
    BY <2>2, <2>4, <2>5
<1> QED
  BY <1>1, <1>2

\* What a list of sentiments must be for the Score tab: finitely many turn
\* numbers, each with a score between -1 and 1.
ArcOK(arc) ==
  /\ DOMAIN arc \subseteq Int /\ IsFiniteSet(DOMAIN arc)
  /\ \A t \in DOMAIN arc : arc[t].score \in -10 .. 10

\* It is, whatever windows are answered and whatever turns they list.
LEMMA ArcRange ==
  ASSUME NEW turns \in Transcripts, NEW raw \in Given
  PROVE  ArcOK(Arc(Len(turns), raw.moods))
<1> DEFINE n == Len(turns)
           win == DOMAIN Windows(n)
           moods == raw.moods
           answered == {w \in win : moods[w] # None}
           heard(t) == {w \in answered : t \in DOMAIN moods[w]}
           lists == {DOMAIN moods[w] : w \in answered}
           arc == Arc(n, moods)
<1>1. arc = [t \in UNION lists |-> NormArc(moods[Min(heard(t))][t])]
  BY Zenon DEF Arc
<1>2. n \in Nat
  BY AnswersAssumption
<1>3. PICK k \in Int : win = 1 .. k
  BY <1>2, WindowsNumbered
<1>4. \A w \in answered : /\ DOMAIN moods[w] \subseteq Int /\ IsFiniteSet(DOMAIN moods[w])
                          /\ \A t \in DOMAIN moods[w] : moods[w][t].score \in Int \cup {None}
  BY AnswersAssumption, Zenon DEF Given
<1>5. answered \subseteq Int /\ IsFiniteSet(answered)
  <2>1. IsFiniteSet(1 .. k)
    <3>1. 1 \in Int
      OBVIOUS
    <3> QED
      BY <3>1, FS_Interval, Zenon
  <2> QED
    BY <1>3, <2>1, FS_Subset
<1>6. \A t : heard(t) \subseteq answered
  OBVIOUS
<1>7. ASSUME NEW t \in UNION lists PROVE heard(t) # {}
  OBVIOUS
<1>8. UNION lists \subseteq Int /\ IsFiniteSet(UNION lists)
  <2> DEFINE f == [w \in answered |-> DOMAIN moods[w]]
  <2>1. f \in Surjection(answered, lists)
    <3> HIDE DEF answered
    <3> QED
      BY DEF Surjection
  <2>2. \A S \in lists : S \subseteq Int /\ IsFiniteSet(S)
    BY <1>4
  <2> HIDE DEF answered, lists, f
  <2>3. IsFiniteSet(lists)
    BY <1>5, <2>1, FS_Surjection, Zenon
  <2>4. IsFiniteSet(UNION lists)
    BY <2>2, <2>3, FS_UNION, Zenon
  <2>5. UNION lists \subseteq Int
    BY <2>2
  <2> QED
    BY <2>4, <2>5
<1>9. ASSUME NEW t \in UNION lists PROVE NormArc(moods[Min(heard(t))][t]).score \in -10 .. 10
  <2> DEFINE first == Min(heard(t))
  <2>1. first \in heard(t)
    <3> HIDE DEF heard, answered
    <3>1. heard(t) \subseteq Int /\ IsFiniteSet(heard(t)) /\ heard(t) # {}
      BY <1>5, <1>6, <1>7, <1>9, FS_Subset
    <3> QED
      BY <3>1, Extremes
  <2> HIDE DEF first
  <2>2. first \in answered /\ t \in DOMAIN moods[first]
    BY <2>1
  <2>3. moods[first][t].score \in Int \cup {None}
    BY <1>4, <2>2
  <2>4. NormArc(moods[first][t]).score \in -10 .. 10
    BY <2>3, NormArcRange, Zenon
  <2> QED
    BY <2>4 DEF first
<1> HIDE DEF answered, heard, lists, arc
<1>10. DOMAIN arc = UNION lists
  BY <1>1
<1>11. \A t \in DOMAIN arc : arc[t].score \in -10 .. 10
  BY <1>1, <1>9, <1>10, Zenon
<1>12. ArcOK(arc)
  BY <1>8, <1>10, <1>11, Zenon DEF ArcOK
<1> QED
  BY <1>12 DEF arc, n, moods

-----------------------------------------------------------------------------
(* The rows *)

\* The results a call with these turns can have.
Results(turns) ==
  {EmptyResult} \cup (IF turns \in Transcripts
                      THEN {Assemble(raw, Arc(Len(turns), raw.moods)) : raw \in Given} ELSE {})

\* A call's result was assembled from some answer about its own turns, and it has
\* one as soon as it counts.
CallColumns ==
  [by : Telecallers, contact : Contacts, at : Int, turns : Turns,
   status : {"none", "processing", "completed", "not_relevant", "failed"},
   result : {None} \cup UNION {Results(turns) : turns \in Turns}]

CallRow ==
  {row \in CallColumns :
     /\ row.result \in Results(row.turns) \cup {None}
     /\ row.status \in {"completed", "not_relevant"} => row.result # None}

RowsOK == now \in Int /\ calls \in Seq(CallRow)

\* A lead is created, touched and closed in this order and in the past, and a
\* won one was closed.
LeadColumns ==
  [stage : Moves \cup {"New"}, status : {"new", "contacted"},
   owner : Telecallers \cup {None}, value : Values \cup {None},
   created : Int, updated : Int, closed : Int \cup {None}]

LeadRow ==
  {lead \in LeadColumns :
     /\ lead.created <= lead.updated /\ lead.updated <= now
     /\ lead.stage = "Closed Won" => lead.closed # None /\ lead.closed <= now}

LeadsOK == leads \in [Contacts -> LeadRow \cup {None}]

\* Whatever the model answered: percentages, a verdict, numbers, and a list of
\* sentiments that can be shown.
LEMMA ResultRange ==
  ASSUME NEW turns \in Turns, NEW r \in Results(turns)
  PROVE  /\ r.bant \in 0 .. 100 /\ r.total \in 0 .. 100
         /\ r.verdict \in Verdicts /\ \A d \in Dimensions : r.dims[d] \in Int
         /\ ArcOK(r.arc)
<1>1. CASE r = EmptyResult
  <2>1. r.arc = <<>> /\ DOMAIN r.arc = {}
    BY <1>1 DEF EmptyResult
  <2>2. IsFiniteSet({})
    BY FS_EmptySet
  <2>3. ArcOK(r.arc)
    BY <2>1, <2>2 DEF ArcOK
  <2> QED
    BY <1>1, <2>3 DEF EmptyResult, Verdicts
<1>2. CASE r # EmptyResult
  <2>0. turns \in Transcripts
    BY <1>2, Zenon DEF Results
  <2>1. PICK raw \in Given : r = Assemble(raw, Arc(Len(turns), raw.moods))
    BY <1>2, <2>0, Zenon DEF Results
  <2>2. r.arc = Arc(Len(turns), raw.moods)
    BY <2>1, AssembleShape, Zenon
  <2>3. ArcOK(r.arc)
    BY <2>0, <2>2, ArcRange, Zenon
  <2> QED
    BY <2>1, <2>3, AssembleRange, AssembleShape, Zenon
<1> QED
  BY <1>1, <1>2

\* The analyzer answers nothing or a result.
LEMMA AnalyzeResult ==
  ASSUME NEW turns \in Turns, NEW raw \in Answers
  PROVE  Analyze(turns, raw) \in Results(turns) \cup {None}
<1>1. CASE turns = <<>>
  BY <1>1 DEF Analyze, Results
<1>2. CASE turns # <<>> /\ raw = None
  BY <1>2 DEF Analyze
<1>3. CASE turns # <<>> /\ raw # None
  <2>1. Analyze(turns, raw) = Assemble(raw, Arc(Len(turns), raw.moods))
    BY <1>3, Zenon DEF Analyze
  <2>2. raw \in Given /\ turns \in Transcripts
    BY <1>3 DEF Given, Turns
  <2> QED
    BY <2>1, <2>2, Zenon DEF Results
<1> QED
  BY <1>1, <1>2, <1>3

\* A list stays one of rows when a row is replaced, inserted or removed.
LEMMA ReplacedRow ==
  ASSUME NEW R, NEW s \in Seq(R), NEW i \in DOMAIN s, NEW x \in R
  PROVE  [s EXCEPT ![i] = x] \in Seq(R)
BY ExceptSeq

LEMMA InsertedRow ==
  ASSUME NEW R, NEW s \in Seq(R), NEW k \in 1 .. Len(s) + 1, NEW x \in R
  PROVE  InsertAt(s, k, x) \in Seq(R)
<1>1. SubSeq(s, 1, k - 1) \in Seq(R) /\ SubSeq(s, k, Len(s)) \in Seq(R)
  BY SubSeqProperties
<1> QED
  BY <1>1 DEF InsertAt

LEMMA RemovedRow ==
  ASSUME NEW R, NEW s \in Seq(R), NEW k \in 1 .. Len(s)
  PROVE  RemoveAt(s, k) \in Seq(R)
<1>1. SubSeq(s, 1, k - 1) \in Seq(R) /\ SubSeq(s, k + 1, Len(s)) \in Seq(R)
  BY SubSeqProperties
<1> QED
  BY <1>1 DEF RemoveAt

\* The place of a call that lands is one of the list's.
LEMMA Place ==
  ASSUME RowsOK, NEW t
  PROVE  1 + Cardinality({i \in DOMAIN calls : calls[i].at <= t}) \in 1 .. Len(calls) + 1
<1> DEFINE before == {i \in DOMAIN calls : calls[i].at <= t}
<1>1. DOMAIN calls = 1 .. Len(calls) /\ Len(calls) \in Nat
  BY DEF RowsOK
<1>2. IsFiniteSet(1 .. Len(calls)) /\ Cardinality(1 .. Len(calls)) = Len(calls)
  <2>1. 1 \in Int /\ Len(calls) \in Int
    BY <1>1
  <2>2. /\ IsFiniteSet(1 .. Len(calls))
        /\ Cardinality(1 .. Len(calls)) = IF 1 > Len(calls) THEN 0 ELSE Len(calls) - 1 + 1
    BY <2>1, FS_Interval, Zenon
  <2> QED
    BY <1>1, <2>2
<1>3. IsFiniteSet(before) /\ Cardinality(before) <= Len(calls)
  <2>1. before \subseteq 1 .. Len(calls)
    BY <1>1
  <2> QED
    BY <1>2, <2>1, FS_Subset
<1>4. Cardinality(before) \in Nat
  BY <1>3, FS_CardinalityType
<1> HIDE DEF before
<1>5. 1 + Cardinality(before) \in 1 .. Len(calls) + 1
  BY <1>1, <1>3, <1>4
<1> QED
  BY <1>5 DEF before

\* The leads allowed by the clock are the same while it stands still, and more later.
LEMMA ClockLeads ==
  ASSUME now \in Int
  PROVE  /\ now' = now => LeadRow' = LeadRow
         /\ now' = now + 1 => LeadRow \subseteq LeadRow'
<1>1. now' = now => LeadRow' = LeadRow
  BY DEF LeadRow
<1>2. ASSUME now' = now + 1 PROVE LeadRow \subseteq LeadRow'
  <2> SUFFICES ASSUME NEW lead \in LeadRow PROVE lead \in LeadRow'
    OBVIOUS
  <2>1. /\ lead \in LeadColumns /\ lead.updated \in Int /\ lead.updated <= now
        /\ lead.created <= lead.updated
    BY DEF LeadColumns, LeadRow
  <2>2. lead.updated <= now'
    BY <1>2, <2>1
  <2>3. lead.stage = "Closed Won" => lead.closed # None /\ lead.closed \in Int /\ lead.closed <= now
    BY DEF LeadColumns, LeadRow
  <2>4. lead.closed \in Int /\ lead.closed <= now => lead.closed <= now'
    BY <1>2
  <2> QED
    BY <2>1, <2>2, <2>3, <2>4, Zenon DEF LeadRow
<1> QED
  BY <1>1, <1>2

LEMMA RowsNext == RowsOK /\ [Next]_vars => RowsOK'
<1> SUFFICES ASSUME RowsOK, [Next]_vars PROVE RowsOK'
  OBVIOUS
<1>0. now \in Int /\ calls \in Seq(CallRow)
  BY DEF RowsOK
<1>a. ASSUME now' = now, calls' \in Seq(CallRow) PROVE RowsOK'
  BY <1>0, <1>a DEF RowsOK
<1>1. CASE UNCHANGED vars
  BY <1>0, <1>a, <1>1 DEF vars
<1>2. CASE Tick
  <2>1. calls' = calls /\ now' = now + 1
    BY <1>2 DEF Tick
  <2> QED
    BY <1>0, <2>1 DEF RowsOK
<1>3. ASSUME NEW t \in Telecallers, NEW c \in Contacts, SaveLead(t, c) PROVE RowsOK'
  BY <1>0, <1>a, <1>3 DEF SaveLead, EditWrite
<1>4. ASSUME NEW t \in Telecallers, NEW c \in Contacts, NEW back \in Backdates, Land(t, c, back)
      PROVE RowsOK'
  <2> DEFINE call == [by |-> t, contact |-> c, at |-> now - back, turns |-> <<>>,
                      status |-> "none", result |-> None]
             place == 1 + Cardinality({i \in DOMAIN calls : calls[i].at <= call.at})
  <2>1. call \in CallRow
    <3>1. now - back \in Int
      BY <1>0, CalendarAssumption
    <3> QED
      BY <3>1 DEF CallColumns, CallRow, Turns
  <2>2. place \in 1 .. Len(calls) + 1
    BY Place
  <2>3. calls' = InsertAt(calls, place, call) /\ now' = now
    BY <1>4 DEF Land, Write
  <2> HIDE DEF call, place
  <2>4. calls' \in Seq(CallRow)
    BY <1>0, <2>1, <2>2, <2>3, InsertedRow, Zenon
  <2> QED
    BY <1>a, <2>3, <2>4
<1>5. ASSUME NEW i \in DOMAIN calls, NEW turns \in Transcripts, NEW raw \in Answers,
             Process(i, turns, raw)
      PROVE RowsOK'
  <2> DEFINE result == Analyze(turns, raw)
             status == IF result = None THEN "failed" ELSE Judged(result)
             kept   == IF result = None THEN EmptyResult ELSE result
  <2>1. turns \in Turns
    BY DEF Turns
  <2>2. kept \in Results(turns)
    <3>1. result \in Results(turns) \cup {None} /\ EmptyResult \in Results(turns)
      BY <2>1, AnalyzeResult DEF Results
    <3> QED
      BY <3>1
  <2>3. status \in {"completed", "not_relevant", "failed"}
    BY DEF Judged
  <2>4. /\ now' = now
        /\ calls' = [calls EXCEPT ![i].turns = turns, ![i].status = status, ![i].result = kept]
    BY <1>5 DEF Process, Write
  <2>5. status # "failed" => kept # None
    OBVIOUS
  <2> HIDE DEF result, status, kept
  <2>6. calls[i] \in CallRow
    BY <1>0
  <2> DEFINE row == [calls[i] EXCEPT !.turns = turns, !.status = status, !.result = kept]
  <2>7. row \in CallRow
    <3>1. kept \in UNION {Results(u) : u \in Turns}
      BY <2>1, <2>2
    <3>2. row \in CallColumns
      BY <2>1, <2>3, <2>6, <3>1 DEF CallColumns, CallRow
    <3>3. row.at = calls[i].at /\ row.turns = turns /\ row.status = status /\ row.result = kept
      BY <2>6 DEF CallColumns, CallRow
    <3> HIDE DEF row
    <3> QED
      BY <2>2, <2>3, <2>5, <3>2, <3>3 DEF CallRow
  <2>8. calls' = [calls EXCEPT ![i] = row]
    BY <2>4, Zenon
  <2> HIDE DEF row
  <2>9. calls' \in Seq(CallRow)
    BY <1>0, <2>7, <2>8, ReplacedRow, Zenon
  <2> QED
    BY <1>a, <2>4, <2>9
<1>6. ASSUME NEW i \in DOMAIN calls, Rerun(i) PROVE RowsOK'
  <2> DEFINE row == [calls[i] EXCEPT !.status = "processing"]
  <2>1. calls[i] \in CallRow
    BY <1>0
  <2>2. row \in CallRow
    BY <2>1 DEF CallColumns, CallRow
  <2>3. calls' = [calls EXCEPT ![i] = row] /\ now' = now
    BY <1>6 DEF Rerun, Write
  <2> HIDE DEF row
  <2>4. calls' \in Seq(CallRow)
    BY <1>0, <2>2, <2>3, ReplacedRow, Zenon
  <2> QED
    BY <1>a, <2>3, <2>4
<1>7. ASSUME NEW i \in DOMAIN calls, NEW raw \in Answers, Answer(i, raw) PROVE RowsOK'
  <2> DEFINE result == Analyze(calls[i].turns, raw)
             status == IF result = None THEN "failed" ELSE Judged(result)
             kept   == IF result = None THEN calls[i].result ELSE result
  <2>1. calls[i] \in CallRow
    BY <1>0
  <2>2. calls[i].turns \in Turns /\ calls[i].result \in Results(calls[i].turns) \cup {None}
    BY <2>1 DEF CallColumns, CallRow
  <2>3. result \in Results(calls[i].turns) \cup {None}
    BY <2>2, AnalyzeResult
  <2>4. kept \in Results(calls[i].turns) \cup {None}
    BY <2>2, <2>3
  <2>5. status \in {"completed", "not_relevant", "failed"}
    BY DEF Judged
  <2>6. status # "failed" => kept # None
    OBVIOUS
  <2>7. calls' = [calls EXCEPT ![i].status = status, ![i].result = kept] /\ now' = now
    BY <1>7 DEF Answer, Write
  <2> HIDE DEF result, status, kept
  <2> DEFINE row == [calls[i] EXCEPT !.status = status, !.result = kept]
  <2>8. row \in CallRow
    <3>1. kept \in {None} \cup UNION {Results(u) : u \in Turns}
      BY <2>2, <2>4
    <3>2. row \in CallColumns
      BY <2>1, <2>5, <3>1 DEF CallColumns, CallRow
    <3>3. /\ row.at = calls[i].at /\ row.turns = calls[i].turns
          /\ row.status = status /\ row.result = kept
      BY <2>1 DEF CallColumns, CallRow
    <3> HIDE DEF row
    <3> QED
      BY <2>4, <2>5, <2>6, <3>2, <3>3 DEF CallRow
  <2>9. calls' = [calls EXCEPT ![i] = row]
    BY <2>7, Zenon
  <2> HIDE DEF row
  <2>10. calls' \in Seq(CallRow)
    BY <1>0, <2>8, <2>9, ReplacedRow, Zenon
  <2> QED
    BY <1>a, <2>7, <2>10
<1>8. ASSUME NEW i \in DOMAIN calls, Delete(i) PROVE RowsOK'
  <2>1. i \in 1 .. Len(calls) /\ calls' = RemoveAt(calls, i) /\ now' = now
    BY <1>0, <1>8 DEF Delete, Write
  <2>2. calls' \in Seq(CallRow)
    BY <1>0, <2>1, RemovedRow, Zenon
  <2> QED
    BY <1>a, <2>1, <2>2
<1>9. ASSUME NEW c \in Contacts, NEW stage, NEW value, Move(c, stage, value) PROVE RowsOK'
  BY <1>0, <1>a, <1>9 DEF Move, EditWrite
<1>10. ASSUME NEW c \in Contacts, NEW owner, NEW value, Edit(c, owner, value) PROVE RowsOK'
  BY <1>0, <1>a, <1>10 DEF Edit, EditWrite
<1> QED
  BY <1>1, <1>2, <1>3, <1>4, <1>5, <1>6, <1>7, <1>8, <1>9, <1>10 DEF Next

LEMMA LeadsNext == RowsOK /\ LeadsOK /\ [Next]_vars => LeadsOK'
<1> SUFFICES ASSUME RowsOK, LeadsOK, [Next]_vars PROVE LeadsOK'
  OBVIOUS
<1>0. now \in Int /\ leads \in [Contacts -> LeadRow \cup {None}]
  BY DEF RowsOK, LeadsOK
<1>a. ASSUME now' = now, leads' = leads PROVE LeadsOK'
  BY <1>0, <1>a, ClockLeads DEF LeadsOK
<1>b. ASSUME now' = now, NEW c \in Contacts, NEW lead \in LeadRow,
             leads' = [leads EXCEPT ![c] = lead]
      PROVE  LeadsOK'
  BY <1>0, <1>b, ClockLeads DEF LeadsOK
<1>c. ASSUME NEW t \in Telecallers, NEW status \in {"new", "contacted"}
      PROVE  NewLead(status, t) \in LeadRow
  <2> DEFINE lead == NewLead(status, t)
  <2>1. lead \in LeadColumns /\ lead.stage # "Closed Won"
    BY <1>0 DEF NewLead, LeadColumns
  <2>2. lead.created <= lead.updated /\ lead.updated <= now
    BY <1>0 DEF NewLead
  <2> HIDE DEF lead
  <2>3. lead \in LeadRow
    BY <2>1, <2>2, Zenon DEF LeadRow
  <2> QED
    BY <2>3 DEF lead
\* UPDATE moves updated_at to now, or leaves the row as it was.
<1>d. ASSUME now' = now, NEW c \in Contacts, leads[c] # None, NEW row,
             row \in LeadColumns,
             row.created = leads[c].created,
             row.stage = "Closed Won" => row.closed # None /\ row.closed <= now,
             Update(c, row)
      PROVE  LeadsOK'
  <2>1. leads[c] \in LeadRow /\ row.created = leads[c].created
    BY <1>0, <1>d, Zenon
  <2>2. row.created <= now
    <3>1. leads[c].created \in Int /\ leads[c].updated \in Int
      BY <2>1 DEF LeadColumns, LeadRow
    <3>2. leads[c].created <= leads[c].updated /\ leads[c].updated <= now
      BY <2>1, Zenon DEF LeadRow
    <3> QED
      BY <1>0, <2>1, <3>1, <3>2
  <2> DEFINE new == [row EXCEPT !.updated = now]
  <2>3. new \in LeadRow
    <3>1. /\ new \in LeadColumns /\ new.created = row.created /\ new.updated = now
          /\ new.stage = row.stage /\ new.closed = row.closed
      BY <1>0, <1>d DEF LeadColumns
    <3> HIDE DEF new
    <3>2. new.created <= new.updated /\ new.updated <= now
      BY <1>0, <2>2, <3>1
    <3>3. new.stage = "Closed Won" => new.closed # None /\ new.closed <= now
      BY <1>d, <3>1
    <3> QED
      BY <3>1, <3>2, <3>3, Zenon DEF LeadRow
  <2> HIDE DEF new
  <2>4. CASE row = leads[c]
    <3>1. leads' = [leads EXCEPT ![c] = row]
      BY <1>d, <2>4 DEF Update
    <3> QED
      BY <1>b, <1>d, <2>1, <2>4, <3>1
  <2>5. CASE row # leads[c]
    <3>1. leads' = [leads EXCEPT ![c] = new]
      BY <1>d, <2>5 DEF Update, new
    <3> QED
      BY <1>b, <1>d, <2>3, <3>1
  <2> QED
    BY <2>4, <2>5
<1>1. CASE UNCHANGED vars
  BY <1>a, <1>1 DEF vars
<1>2. CASE Tick
  <2>1. leads' = leads /\ now' = now + 1
    BY <1>2 DEF Tick
  <2>2. LeadRow \subseteq LeadRow'
    BY <1>0, <2>1, ClockLeads
  <2> QED
    BY <1>0, <2>1, <2>2 DEF LeadsOK
<1>3. ASSUME NEW t \in Telecallers, NEW c \in Contacts, SaveLead(t, c) PROVE LeadsOK'
  BY <1>b, <1>c, <1>3 DEF SaveLead, EditWrite
<1>4. ASSUME NEW t \in Telecallers, NEW c \in Contacts, NEW back \in Backdates, Land(t, c, back)
      PROVE LeadsOK'
  <2>1. now' = now
    BY <1>4 DEF Land, Write
  <2>2. CASE leads[c] = None
    BY <1>b, <1>c, <1>4, <2>1, <2>2 DEF Land
  <2>3. CASE leads[c] # None
    <3> DEFINE row == [leads[c] EXCEPT !.status = "contacted", !.owner = IF @ = None THEN t ELSE @]
    <3>1. leads[c] \in LeadRow
      BY <1>0, <2>3
    <3>2. /\ row \in LeadColumns
          /\ row.created = leads[c].created
          /\ row.stage = "Closed Won" => row.closed # None /\ row.closed <= now
      BY <3>1 DEF LeadColumns, LeadRow
    <3>3. Update(c, row)
      BY <1>4, <2>3 DEF Land
    <3> HIDE DEF row
    <3> QED
      BY <1>d, <2>1, <2>3, <3>2, <3>3
  <2> QED
    BY <2>2, <2>3
<1>5. ASSUME NEW i \in DOMAIN calls, NEW turns \in Transcripts, NEW raw \in Answers,
             Process(i, turns, raw)
      PROVE LeadsOK'
  BY <1>a, <1>5 DEF Process, Write
<1>6. ASSUME NEW i \in DOMAIN calls, Rerun(i) PROVE LeadsOK'
  BY <1>a, <1>6 DEF Rerun, Write
<1>7. ASSUME NEW i \in DOMAIN calls, NEW raw \in Answers, Answer(i, raw) PROVE LeadsOK'
  BY <1>a, <1>7 DEF Answer, Write
<1>8. ASSUME NEW i \in DOMAIN calls, Delete(i) PROVE LeadsOK'
  BY <1>a, <1>8 DEF Delete, Write
<1>9. ASSUME NEW c \in Contacts, NEW stage \in Moves, NEW value \in Values, Move(c, stage, value)
      PROVE LeadsOK'
  <2> DEFINE row == IF stage = "Closed Won"
                    THEN [leads[c] EXCEPT !.stage = stage, !.closed = now,
                                          !.value = IF value = None THEN @ ELSE value]
                    ELSE [leads[c] EXCEPT !.stage = stage, !.closed = None]
  <2>1. now' = now /\ leads[c] # None /\ Update(c, row)
    BY <1>9 DEF Move, EditWrite
  <2>2. leads[c] \in LeadRow
    BY <1>0, <2>1
  <2>3. /\ row \in LeadColumns
        /\ row.created = leads[c].created
        /\ row.stage = "Closed Won" => row.closed # None /\ row.closed <= now
    <3>1. CASE stage = "Closed Won"
      <4>1. row = [leads[c] EXCEPT !.stage = stage, !.closed = now,
                                   !.value = IF value = None THEN @ ELSE value]
        BY <3>1
      <4>2. now # None
        BY <1>0, ScoringAssumption
      <4> HIDE DEF row
      <4>3. leads[c] \in LeadColumns
        BY <2>2, Zenon DEF LeadRow
      <4>4. row \in LeadColumns /\ row.created = leads[c].created /\ row.closed = now
        BY <1>0, <4>1, <4>3 DEF LeadColumns
      <4>5. row.closed <= now
        BY <1>0, <4>4
      <4> QED
        BY <4>2, <4>4, <4>5, Zenon
    <3>2. CASE stage # "Closed Won"
      <4>1. row = [leads[c] EXCEPT !.stage = stage, !.closed = None]
        BY <3>2
      <4> HIDE DEF row
      <4> QED
        BY <1>0, <2>2, <3>2, <4>1 DEF LeadColumns, LeadRow
    <3> QED
      BY <3>1, <3>2
  <2> HIDE DEF row
  <2> QED
    BY <1>d, <2>1, <2>3
<1>10. ASSUME NEW c \in Contacts, NEW owner \in Telecallers \cup {None}, NEW value \in Values,
              Edit(c, owner, value)
       PROVE LeadsOK'
  <2> DEFINE row == [leads[c] EXCEPT !.owner = owner, !.value = value]
  <2>1. now' = now /\ leads[c] # None /\ Update(c, row)
    BY <1>10 DEF Edit, EditWrite
  <2>2. leads[c] \in LeadRow
    BY <1>0, <2>1
  <2>3. /\ row \in LeadColumns
        /\ row.created = leads[c].created
        /\ row.stage = "Closed Won" => row.closed # None /\ row.closed <= now
    BY <2>2 DEF LeadColumns, LeadRow
  <2> HIDE DEF row
  <2> QED
    BY <1>d, <2>1, <2>3
<1> QED
  BY <1>1, <1>2, <1>3, <1>4, <1>5, <1>6, <1>7, <1>8, <1>9, <1>10 DEF Next

RowsInv == RowsOK /\ LeadsOK

LEMMA RowsAlways == Spec => []RowsInv
<1>1. Init => RowsInv
  <2>1. Init => RowsOK
    BY CalendarAssumption DEF Init, RowsOK
  <2>2. Init => LeadsOK
    BY DEF Init, LeadsOK
  <2> QED
    BY <2>1, <2>2 DEF RowsInv
<1>2. RowsInv /\ [Next]_vars => RowsInv'
  BY RowsNext, LeadsNext DEF RowsInv
<1> QED
  BY <1>1, <1>2, PTL DEF Spec

\* What the invariant says of a row.
LEMMA RowFacts ==
  ASSUME RowsOK, NEW i \in Rows
  PROVE  /\ calls[i].by \in Telecallers /\ calls[i].contact \in Contacts
         /\ calls[i].at \in Int /\ calls[i].turns \in Turns
         /\ calls[i].result # None => calls[i].result \in Results(calls[i].turns)
<1>1. calls[i] \in CallRow
  BY DEF RowsOK, Rows
<1> QED
  BY <1>1 DEF CallRow, CallColumns

LEMMA CountingRows ==
  ASSUME RowsOK, NEW i \in Completed
  PROVE  i \in Rows /\ calls[i].result # None /\ calls[i].result \in Results(calls[i].turns)
<1>1. i \in Rows /\ calls[i] \in CallRow /\ calls[i].status = "completed"
  BY DEF RowsOK, Rows, Completed
<1> QED
  BY <1>1 DEF CallRow

LEMMA RowsFinite ==
  ASSUME RowsOK
  PROVE  IsFiniteSet(Rows) /\ Rows \subseteq Int
<1>1. Rows = 1 .. Len(calls) /\ Len(calls) \in Int /\ 1 \in Int
  BY DEF RowsOK, Rows
<1>2. IsFiniteSet(1 .. Len(calls))
  BY <1>1, FS_Interval, Zenon
<1> QED
  BY <1>1, <1>2

\* Whatever the model answers, and whatever is run again, deleted or late: a
\* stored lead score and a stored quality are percentages.
THEOREM ScoresCorrect == Spec => []ScoresInRange
<1>1. RowsInv => ScoresInRange
  <2> SUFFICES ASSUME RowsOK, NEW i \in Rows, calls[i].result # None
               PROVE  calls[i].result.bant \in 0 .. 100 /\ calls[i].result.total \in 0 .. 100
    BY DEF ScoresInRange, RowsInv
  <2>1. calls[i].turns \in Turns /\ calls[i].result \in Results(calls[i].turns)
    BY RowFacts
  <2> QED
    BY <2>1, ResultRange, Zenon
<1> QED
  BY <1>1, RowsAlways, PTL

-----------------------------------------------------------------------------
(* The pages *)

\* The batch of the performance list, the status board and the reports gives
\* each telecaller what is computed for that telecaller alone.
LEMMA BatchIsOne ==
  ASSUME NEW ids, NEW t \in ids, NEW start, NEW end
  PROVE  MetricsBatch(ids, start, end)[t] = MetricsOne(t, start, end)
<1> DEFINE all   == {i \in UNION {By(u) : u \in ids} : InRange(calls[i].at, start, end)}
           mine  == {i \in all : calls[i].by = t}
           rows  == {i \in By(t) : InRange(calls[i].at, start, end)}
           owned == {c \in {d \in Leads : leads[d].owner \in ids} : leads[c].owner = t}
           trend == start = None /\ end = None
<1>1. mine = rows
  BY DEF By
<1>2. owned = OwnedBy(t)
  BY DEF OwnedBy
<1>3. MetricsBatch(ids, start, end)[t] = Metrics(mine, all \cap Completed, owned, trend)
  BY Zenon DEF MetricsBatch
<1>4. MetricsOne(t, start, end) = Metrics(rows, rows \cap Completed, OwnedBy(t), trend)
  BY Zenon DEF MetricsOne
<1>5. rows \cap (all \cap Completed) = rows \cap (rows \cap Completed)
  BY <1>1
<1> HIDE DEF all, mine, rows, owned, trend
<1>6. Metrics(rows, all \cap Completed, OwnedBy(t), trend)
        = Metrics(rows, rows \cap Completed, OwnedBy(t), trend)
  BY <1>5, Zenon DEF Metrics
<1> QED
  BY <1>1, <1>2, <1>3, <1>4, <1>6, Zenon

\* In every state and for every range the performance list shows of a telecaller
\* what the telecaller's own page shows: get_telecaller_performance computes them
\* together, get_telecaller_performance_detail alone.
THEOREM ListIsDetail ==
  ASSUME NEW t \in Telecallers, NEW start, NEW end
  PROVE  PerformancePage(start, end).telecallers[t] = DetailPage(t, start, end).metrics
BY BatchIsOne, Zenon DEF PerformancePage, DetailPage

\* What the status board shows of a telecaller.
LEMMA StatusShows ==
  ASSUME NEW t \in Telecallers
  PROVE  LET m == MetricsOne(t, None, None)
         IN /\ StatusPage[t].calls = m.calls /\ StatusPage[t].quality = m.quality
            /\ StatusPage[t].trend = m.trend /\ StatusPage[t].closedWon = m.closedWon
            /\ StatusPage[t].leads = Cardinality(OwnedBy(t) \cap Open)
<1>1. MetricsBatch(Telecallers, None, None)[t] = MetricsOne(t, None, None)
  BY BatchIsOne
<1> QED
  BY <1>1, Zenon DEF StatusPage

LEMMA TeamShows ==
  ASSUME NEW t \in Telecallers
  PROVE  /\ TeamPage[t].calls = Cardinality(By(t)) /\ TeamPage[t].leads = Cardinality(OwnedBy(t))
         /\ TeamPage[t].quality
              = LET debriefs == [i \in By(t) \cap Completed |-> calls[i].result.dims]
                IN IF DOMAIN debriefs = {} THEN None ELSE Total(AveragedDimensions(debriefs))
BY Zenon DEF TeamPage

\* All time is no range.
LEMMA AllTime ==
  ASSUME NEW at
  PROVE  InRange(at, None, None)
BY DEF InRange

LEMMA OwnRows ==
  ASSUME NEW t
  PROVE  /\ By(t) \subseteq Rows
         /\ {i \in By(t) : InRange(calls[i].at, None, None)} = By(t)
         /\ By(t) \cap (By(t) \cap Completed) = By(t) \cap Completed
BY AllTime DEF By

\* The metrics of all time, which every page but the ranged ones shows.
LEMMA AllTimeMetrics ==
  ASSUME NEW t
  PROVE  LET m == MetricsOne(t, None, None)
             judged == By(t) \cap Completed
         IN /\ m.calls = Cardinality(By(t))
            /\ m.closedWon = Cardinality(OwnedBy(t) \cap Won)
            /\ m.quality = Total(AveragedDimensions([i \in judged |-> calls[i].result.dims]))
            /\ m.trend # None => {i \in judged : calls[i].at >= now - 2 * TrendDays} # {}
<1>1. MetricsOne(t, None, None) = Metrics(By(t), By(t) \cap Completed, OwnedBy(t), TRUE)
  <2>1. MetricsOne(t, None, None)
          = Metrics(By(t), By(t) \cap Completed, OwnedBy(t), None = None /\ None = None)
    BY OwnRows, Zenon DEF MetricsOne
  <2>2. (None = None /\ None = None) = TRUE
    OBVIOUS
  <2> QED
    BY <2>1, <2>2, Zenon
<1>2. PICK judged : judged = By(t) \cap Completed /\ judged = By(t) \cap (By(t) \cap Completed)
  BY OwnRows, Zenon
<1>3. LET m == Metrics(By(t), By(t) \cap Completed, OwnedBy(t), TRUE)
      IN /\ m.calls = Cardinality(By(t))
         /\ m.closedWon = Cardinality(OwnedBy(t) \cap Won)
         /\ m.quality = Total(AveragedDimensions([i \in judged |-> calls[i].result.dims]))
         /\ m.trend # None => {i \in judged : calls[i].at >= now - 2 * TrendDays} # {}
  BY <1>2, Zenon DEF Metrics
<1> QED
  BY <1>1, <1>2, <1>3, Zenon

\* A telecaller of whom a trend is shown is not recommended for being silent.
LEMMA HeardIsNotSilent ==
  ASSUME NEW t,
         {i \in By(t) \cap Completed : calls[i].at >= now - 2 * TrendDays} # {}
  PROVE  <<"silent", "High">> \notin CoachingQueue(t)
<1> DEFINE heard == {i \in By(t) \cap Completed : calls[i].at >= now - 2 * TrendDays}
<1>1. ASSUME NEW x \in CoachingQueue(t)
      PROVE  x = <<"few", "Low">> \/ \E d \in Dimensions : \E p : x = <<d, p>>
  BY <1>1, Zenon DEF CoachingQueue
<1>2. "silent" \notin Dimensions /\ "silent" # "few"
  BY DEF Dimensions, Skills
<1>3. \A d, p : <<d, p>> = <<"silent", "High">> => d = "silent"
  OBVIOUS
<1> QED
  BY <1>1, <1>2, <1>3, Zenon

\* The Score tab of a call shows its telecaller as the telecaller's own does, in
\* integers.
LEMMA CallShowsTelecaller ==
  ASSUME NEW t \in Telecallers, NEW i \in By(t), NEW days, CallScorePage(i, days) # None
  PROVE  /\ CallScorePage(i, days).telecaller.value = RoundDiv(ScorePage(t, days).score, 10)
         /\ CallScorePage(i, days).telecaller.trend
              = IF ScorePage(t, days).trend = None THEN None ELSE RoundDiv(ScorePage(t, days).trend, 10)
<1> DEFINE tele == TelecallerScore([j \in By(t) \cap Completed |-> calls[j]], now, 2 * Max({1, days}))
<1>1. calls[i].by = t
  BY DEF By
<1>2. CallScorePage(i, days).telecaller
        = [value |-> RoundDiv(tele.score, 10),
           trend |-> IF tele.trend = None THEN None ELSE RoundDiv(tele.trend, 10)]
  BY <1>1, Zenon DEF CallScorePage
<1>3. {j \in Completed : t = None \/ calls[j].by = t} = By(t) \cap Completed
  BY TablesAssumption DEF By, Completed
<1>4. ScorePage(t, days) = tele
  BY <1>3, Zenon DEF ScorePage
<1> HIDE DEF tele
<1> QED
  BY <1>2, <1>4

\* Open and won leads are different ones.
LEMMA OpenAndWon ==
  ASSUME LeadsOK, NEW t
  PROVE  Cardinality(OwnedBy(t)) >= Cardinality(OwnedBy(t) \cap Open) + Cardinality(OwnedBy(t) \cap Won)
<1> DEFINE O == OwnedBy(t) \cap Open
           W == OwnedBy(t) \cap Won
<1>1. OwnedBy(t) \subseteq Contacts
  BY DEF OwnedBy, Leads
<1>2. IsFiniteSet(OwnedBy(t))
  BY <1>1, TablesAssumption, FS_Subset
<1>3. O \cap W = {} /\ O \cup W \subseteq OwnedBy(t)
  BY DEF Open, Won, Terminal
<1>4. IsFiniteSet(O) /\ IsFiniteSet(W)
  BY <1>2, FS_Subset
<1> HIDE DEF O, W
<1>5. Cardinality(O \cup W) = Cardinality(O) + Cardinality(W)
  <2>1. Cardinality(O \cap W) = 0 /\ Cardinality(O) \in Nat /\ Cardinality(W) \in Nat
    BY <1>3, <1>4, FS_EmptySet, FS_CardinalityType
  <2>2. Cardinality(O \cup W) = Cardinality(O) + Cardinality(W) - Cardinality(O \cap W)
    BY <1>4, FS_Union
  <2> QED
    BY <2>1, <2>2
<1>6. Cardinality(O \cup W) <= Cardinality(OwnedBy(t))
  BY <1>2, <1>3, FS_Subset
<1>7. Cardinality(O) \in Nat /\ Cardinality(W) \in Nat /\ Cardinality(OwnedBy(t)) \in Nat
  BY <1>2, <1>4, FS_CardinalityType
<1>8. Cardinality(OwnedBy(t)) >= Cardinality(O) + Cardinality(W)
  BY <1>5, <1>6, <1>7
<1> QED
  BY <1>8 DEF O, W

\* The call log counts, of any range, what the performance list counts.
LEMMA RangePages ==
  ASSUME NEW t \in Telecallers, NEW start, NEW end
  PROVE  PerformancePage(start, end).telecallers[t].calls = CallLogPage(t, start, end, 0, 50).total
<1> DEFINE rows == {i \in By(t) : InRange(calls[i].at, start, end)}
<1>1. PerformancePage(start, end).telecallers[t] = MetricsOne(t, start, end)
  BY BatchIsOne, Zenon DEF PerformancePage
<1>2. MetricsOne(t, start, end)
        = Metrics(rows, rows \cap Completed, OwnedBy(t), start = None /\ end = None)
  BY Zenon DEF MetricsOne
<1>3. CallLogPage(t, start, end, 0, 50).total = Cardinality(rows)
  BY Zenon DEF CallLogPage
<1> HIDE DEF rows
<1>4. \A trend : Metrics(rows, rows \cap Completed, OwnedBy(t), trend).calls = Cardinality(rows)
  BY Zenon DEF Metrics
<1> QED
  BY <1>1, <1>2, <1>3, <1>4, Zenon

LEMMA TelecallerPages ==
  ASSUME LeadsOK
  PROVE  TelecallerPagesAgree
<1>1. ASSUME NEW r \in Ranges, NEW t \in Telecallers
      PROVE  LET list == PerformancePage(r[1], r[2]).telecallers
             IN /\ list[t] = DetailPage(t, r[1], r[2]).metrics
                /\ list[t].calls = CallLogPage(t, r[1], r[2], 0, 50).total
  <2>1. PICK start, end : start = r[1] /\ end = r[2]
    OBVIOUS
  <2>2. PerformancePage(start, end).telecallers[t] = DetailPage(t, start, end).metrics
    BY ListIsDetail, Zenon
  <2>3. PerformancePage(start, end).telecallers[t].calls = CallLogPage(t, start, end, 0, 50).total
    BY RangePages, Zenon
  <2> QED
    BY <2>1, <2>2, <2>3, Zenon
<1>2. ASSUME NEW t \in Telecallers
      PROVE  LET one == DetailPage(t, None, None)  status == StatusPage[t]  team == TeamPage[t]
                 score == ScorePage(t, TrendDays)
             IN /\ status.calls = one.metrics.calls /\ status.quality = one.metrics.quality
                /\ status.trend = one.metrics.trend /\ status.leads = Cardinality(one.leads)
                /\ team.calls = one.metrics.calls
                /\ team.quality = IF By(t) \cap Completed = {} THEN None ELSE one.metrics.quality
                /\ team.leads >= status.leads + status.closedWon
                /\ one.metrics.trend # None => <<"silent", "High">> \notin CoachingQueue(t)
                /\ \A i \in By(t) : LET page == CallScorePage(i, TrendDays) IN
                     page # None =>
                       /\ page.telecaller.value = RoundDiv(score.score, 10)
                       /\ page.telecaller.trend = IF score.trend = None THEN None
                                                  ELSE RoundDiv(score.trend, 10)
  <2> DEFINE m == MetricsOne(t, None, None)
  <2>1. DetailPage(t, None, None).metrics = m /\ DetailPage(t, None, None).leads = OwnedBy(t) \cap Open
    BY Zenon DEF DetailPage
  <2>2. /\ StatusPage[t].calls = m.calls /\ StatusPage[t].quality = m.quality
        /\ StatusPage[t].trend = m.trend /\ StatusPage[t].closedWon = m.closedWon
        /\ StatusPage[t].leads = Cardinality(OwnedBy(t) \cap Open)
    BY StatusShows, Zenon
  <2>3. /\ m.calls = Cardinality(By(t)) /\ m.closedWon = Cardinality(OwnedBy(t) \cap Won)
        /\ m.quality = Total(AveragedDimensions([i \in By(t) \cap Completed |-> calls[i].result.dims]))
        /\ m.trend # None => {i \in By(t) \cap Completed : calls[i].at >= now - 2 * TrendDays} # {}
    BY AllTimeMetrics, Zenon
  <2> HIDE DEF m
  <2>4. TeamPage[t].calls = m.calls
    BY <2>3, TeamShows, Zenon
  <2>5. TeamPage[t].quality = IF By(t) \cap Completed = {} THEN None ELSE m.quality
    <3>1. DOMAIN [i \in By(t) \cap Completed |-> calls[i].result.dims] = By(t) \cap Completed
      OBVIOUS
    <3> QED
      BY <2>3, <3>1, TeamShows, Zenon
  <2>6. TeamPage[t].leads >= StatusPage[t].leads + StatusPage[t].closedWon
    BY <2>2, <2>3, TeamShows, OpenAndWon, Zenon
  <2>7. m.trend # None => <<"silent", "High">> \notin CoachingQueue(t)
    BY <2>3, HeardIsNotSilent, Zenon
  <2>8. \A i \in By(t) :
          CallScorePage(i, TrendDays) # None =>
            /\ CallScorePage(i, TrendDays).telecaller.value = RoundDiv(ScorePage(t, TrendDays).score, 10)
            /\ CallScorePage(i, TrendDays).telecaller.trend
                 = IF ScorePage(t, TrendDays).trend = None THEN None
                   ELSE RoundDiv(ScorePage(t, TrendDays).trend, 10)
    BY CallShowsTelecaller, Zenon
  <2> QED
    BY <2>1, <2>2, <2>4, <2>5, <2>6, <2>7, <2>8, Zenon
<1> QED
  BY <1>1, <1>2, Zenon DEF TelecallerPagesAgree

-----------------------------------------------------------------------------
(* The pages of leads *)

\* The completed calls of a contact.
CompletedOf(c) == {i \in Completed : calls[i].contact = c}

LEMMA CompletedFinite ==
  ASSUME RowsOK, NEW c
  PROVE  /\ CompletedOf(c) \subseteq Completed /\ Completed \subseteq Rows
         /\ CompletedOf(c) \in SUBSET Int /\ IsFiniteSet(CompletedOf(c))
<1>1. CompletedOf(c) \subseteq Completed /\ Completed \subseteq Rows
  BY DEF CompletedOf, Completed
<1> QED
  BY <1>1, RowsFinite, FS_Subset

\* The newest of them is the last.
LEMMA NewestFacts ==
  ASSUME RowsOK, NEW c
  PROVE  /\ c \in DOMAIN Newest <=> CompletedOf(c) # {}
         /\ c \in DOMAIN Newest => Newest[c] = Max(CompletedOf(c)) /\ Newest[c] \in CompletedOf(c)
<1>1. DOMAIN Newest = {calls[i].contact : i \in Completed}
  BY Zenon DEF Newest
<1>2. c \in DOMAIN Newest <=> CompletedOf(c) # {}
  BY <1>1 DEF CompletedOf
<1>3. c \in DOMAIN Newest => Newest[c] = Max(CompletedOf(c))
  BY <1>1, Zenon DEF Newest, CompletedOf
<1>4. CompletedOf(c) # {} => Max(CompletedOf(c)) \in CompletedOf(c)
  BY CompletedFinite, Extremes
<1> QED
  BY <1>2, <1>3, <1>4

\* A contact with a newest call is a contact, and that call's result is one.
LEMMA NewestResult ==
  ASSUME RowsOK, NEW c \in DOMAIN Newest
  PROVE  /\ c \in Contacts
         /\ LatestScores[c] = calls[Newest[c]].result.bant /\ LatestScores[c] \in 0 .. 100
         /\ LatestVerdicts[c] = Verdict(Newest[c]) /\ LatestVerdicts[c] \in Verdicts
<1>1. Newest[c] \in Completed /\ calls[Newest[c]].contact = c
  BY NewestFacts DEF CompletedOf
<1>2. /\ Newest[c] \in Rows /\ calls[Newest[c]].turns \in Turns
      /\ calls[Newest[c]].result \in Results(calls[Newest[c]].turns)
  BY <1>1, CountingRows, RowFacts
<1>3. calls[Newest[c]].result.bant \in 0 .. 100 /\ calls[Newest[c]].result.verdict \in Verdicts
  BY <1>2, ResultRange, Zenon
<1>4. LatestScores[c] = calls[Newest[c]].result.bant /\ LatestVerdicts[c] = Verdict(Newest[c])
  BY Zenon DEF LatestScores, LatestVerdicts
<1> QED
  BY <1>1, <1>2, <1>3, <1>4, RowFacts, Zenon DEF Verdict

LEMMA LatestDomains ==
  DOMAIN LatestScores = DOMAIN Newest /\ DOMAIN LatestVerdicts = DOMAIN Newest
BY DEF LatestScores, LatestVerdicts

\* The element that as many precede or equal as there are is the greatest.
LEMMA LastRank ==
  ASSUME NEW S \in SUBSET Int, IsFiniteSet(S), S # {}
  PROVE  (CHOOSE i \in S : Cardinality({j \in S : j <= i}) = Cardinality(S)) = Max(S)
<1> DEFINE upto(i) == {j \in S : j <= i}
           Full(i) == Cardinality(upto(i)) = Cardinality(S)
<1>1. Max(S) \in S /\ \A y \in S : Max(S) >= y
  BY Extremes
<1>2. upto(Max(S)) = S
  BY <1>1
<1>3. Full(Max(S))
  BY <1>2
<1>4. ASSUME NEW i \in S, Full(i) PROVE i = Max(S)
  <2>1. upto(i) \in SUBSET S
    OBVIOUS
  <2> HIDE DEF upto
  <2>2. upto(i) = S
    BY <1>4, <2>1, FS_Subset
  <2> USE DEF upto
  <2>3. Max(S) <= i /\ i <= Max(S)
    BY <1>1, <2>2
  <2>4. i \in Int /\ Max(S) \in Int
    BY <1>1
  <2> QED
    BY <2>3, <2>4
<1>5. (CHOOSE i \in S : Full(i)) = Max(S)
  <2> HIDE DEF Full
  <2> QED
    BY <1>1, <1>3, <1>4
<1> QED
  BY <1>5, Zenon

\* The last of a contact's calls in the inbox is the newest.
LEMMA InboxEnd ==
  ASSUME RowsOK, NEW c \in DOMAIN Newest
  PROVE  LET n == Cardinality(CompletedOf(c))
         IN /\ n \in Nat \ {0} /\ c \in DOMAIN Grouped(None)
            /\ DOMAIN Grouped(None)[c] = 1 .. n /\ Grouped(None)[c][n] = Newest[c]
<1> DEFINE n == Cardinality(CompletedOf(c))
           rank(i) == Cardinality({j \in CompletedOf(c) : j <= i})
<1>1. CompletedOf(c) # {} /\ Newest[c] = Max(CompletedOf(c)) /\ c \in {calls[i].contact : i \in Completed}
  BY NewestFacts, Zenon DEF Newest
<1>2. n \in Nat \ {0}
  BY <1>1, CompletedFinite, FS_CardinalityType, FS_EmptySet
<1>3. PICK own : own = {i \in Completed : None = None \/ calls[i].by = None} /\ own = Completed
  OBVIOUS
<1>4. /\ c \in DOMAIN Grouped(None)
      /\ Grouped(None)[c] = [k \in 1 .. n |-> CHOOSE i \in CompletedOf(c) : rank(i) = k]
  <2>1. own = {i \in Completed : None = None \/ calls[i].by = None}
    BY <1>3
  <2>2. DOMAIN Grouped(None) = {calls[i].contact : i \in own}
    BY <2>1, Zenon DEF Grouped
  <2>3. ASSUME NEW of, of = {i \in own : calls[i].contact = c}, c \in {calls[i].contact : i \in own}
        PROVE  Grouped(None)[c] = [k \in 1 .. Cardinality(of) |->
                                     CHOOSE i \in of : Cardinality({j \in of : j <= i}) = k]
    <3> DEFINE mine(S, d) == {i \in S : calls[i].contact = d}
               rows(S, d) == [k \in 1 .. Cardinality(mine(S, d)) |->
                                CHOOSE i \in mine(S, d) : Cardinality({j \in mine(S, d) : j <= i}) = k]
    <3>1. Grouped(None) = LET S == {i \in Completed : None = None \/ calls[i].by = None}
                          IN [d \in {calls[i].contact : i \in S} |-> rows(S, d)]
      BY Zenon DEF Grouped
    <3> HIDE DEF rows
    <3>2. Grouped(None)[c] = rows(own, c)
      BY <2>1, <2>3, <3>1, Zenon
    <3>3. rows(own, c) = [k \in 1 .. Cardinality(of) |->
                            CHOOSE i \in of : Cardinality({j \in of : j <= i}) = k]
      <4> DEFINE list(S) == [k \in 1 .. Cardinality(S) |->
                               CHOOSE i \in S : Cardinality({j \in S : j <= i}) = k]
      <4>1. rows(own, c) = list(mine(own, c))
        BY Zenon DEF rows
      <4>2. mine(own, c) = of
        BY <2>3
      <4> HIDE DEF list, mine
      <4>3. rows(own, c) = list(of)
        BY <4>1, <4>2, Zenon
      <4> QED
        BY <4>3, Zenon DEF list
    <3> QED
      BY <3>2, <3>3
  <2>4. CompletedOf(c) = {i \in own : calls[i].contact = c}
    BY <1>3 DEF CompletedOf
  <2>5. c \in {calls[i].contact : i \in own}
    BY <1>1, <1>3
  <2> QED
    BY <2>2, <2>3, <2>4, <2>5, Zenon
<1>5. Newest[c] = CHOOSE i \in CompletedOf(c) : rank(i) = n
  BY <1>1, CompletedFinite, LastRank, Zenon
<1> HIDE DEF rank, n
<1>6. n \in 1 .. n
  BY <1>2
<1>7. DOMAIN Grouped(None)[c] = 1 .. n /\ Grouped(None)[c][n] = Newest[c]
  BY <1>4, <1>5, <1>6, Zenon
<1> QED
  BY <1>2, <1>4, <1>7 DEF n

LEMMA LastOf ==
  ASSUME NEW n \in Nat \ {0}, NEW f, DOMAIN f = 1 .. n, f = [k \in 1 .. n |-> f[k]]
  PROVE  LastVerdict(f) = f[n].verdict
<1> DEFINE V == {f[k] : k \in 1 .. n}
<1>1. f \in [1 .. n -> V]
  OBVIOUS
<1> HIDE DEF V
<1>2. f \in Seq(V)
  BY <1>1, SeqDef
<1>3. Len(f) = n /\ f # <<>>
  BY <1>2
<1> QED
  BY <1>3, Zenon DEF LastVerdict

LEMMA InboxVerdict ==
  ASSUME RowsOK, NEW c \in DOMAIN LatestVerdicts
  PROVE  InboxPage(None).cards[c].verdict = LatestVerdicts[c]
<1> DEFINE g == Grouped(None)
           n == Cardinality(CompletedOf(c))
           results == [k \in DOMAIN g[c] |-> calls[g[c][k]].result]
<1>1. c \in DOMAIN Newest
  BY LatestDomains
<1>2. n \in Nat \ {0} /\ c \in DOMAIN g /\ DOMAIN g[c] = 1 .. n /\ g[c][n] = Newest[c]
  BY <1>1, InboxEnd, Zenon
<1>3. PICK status : InboxPage(None).cards[c] = LeadCard(results, status)
  <2> HIDE DEF g, n
  <2> QED
    BY <1>2, Zenon DEF InboxPage, g
<1>4. InboxPage(None).cards[c].verdict = LastVerdict(results)
  <2> HIDE DEF results, g, n
  <2>1. LeadCard(results, status).verdict = LastVerdict(results)
    BY DEF LeadCard
  <2> QED
    BY <1>3, <2>1
<1> HIDE DEF g, n
<1>5. LastVerdict(results) = results[n].verdict
  BY <1>2, LastOf
<1>6. results[n] = calls[Newest[c]].result
  BY <1>2
<1> HIDE DEF results
<1> QED
  BY <1>1, <1>4, <1>5, <1>6, NewestResult, Zenon DEF Verdict

\* The board shows the score of the lead's own page, when no call was irrelevant.
LEMMA BoardScore ==
  ASSUME RowsOK, NEW c \in Leads,
         \A i \in Rows : calls[i].contact = c => calls[i].status # "not_relevant"
  PROVE  BoardPage[c].score = LeadDetailPage(c).score
<1> DEFINE touched == {i \in Rows : calls[i].contact = c /\ calls[i].status \in {"completed", "not_relevant"}}
<1>1. touched = CompletedOf(c)
  BY DEF CompletedOf, Completed
<1>2. BoardPage[c].score = IF c \in DOMAIN LatestScores THEN LatestScores[c] ELSE None
  BY Zenon DEF BoardPage
<1>3. leads[c] # None
  BY DEF Leads
<1>4. LeadDetailPage(c).score = IF touched = {} THEN None ELSE calls[Max(touched)].result.bant
  BY <1>3, Zenon DEF LeadDetailPage
<1> HIDE DEF touched
<1> QED
  BY <1>1, <1>2, <1>4, LatestDomains, NewestFacts, NewestResult, Zenon

LEMMA HotAlike == Snapshot(None, None).hot = QualityPage.verdicts["Hot"]
<1>1. "Hot" \in Verdicts
  BY DEF Verdicts
<1> QED
  BY <1>1, Zenon DEF Snapshot, QualityPage

-----------------------------------------------------------------------------
(* The pages of money *)

LEMMA LeadFacts ==
  ASSUME LeadsOK, NEW c \in Leads
  PROVE  /\ c \in Contacts /\ leads[c] \in LeadRow
         /\ leads[c].created \in Int /\ leads[c].updated \in Int /\ leads[c].created <= leads[c].updated
         /\ leads[c].value \in Values \cup {None}
<1>1. c \in Contacts /\ leads[c] \in LeadRow
  BY DEF LeadsOK, Leads
<1>2. leads[c] \in LeadColumns /\ leads[c].created <= leads[c].updated
  BY <1>1, Zenon DEF LeadRow
<1> QED
  BY <1>1, <1>2 DEF LeadColumns

LEMMA WonFacts ==
  ASSUME LeadsOK, NEW c \in Won
  PROVE  c \in Leads /\ leads[c].closed \in Int /\ leads[c].closed <= now
<1>1. c \in Leads /\ leads[c].stage = "Closed Won"
  BY DEF Won
<1>2. leads[c] \in LeadRow
  BY <1>1, LeadFacts
<1>3. leads[c] \in LeadColumns /\ leads[c].closed # None /\ leads[c].closed <= now
  BY <1>1, <1>2, Zenon DEF LeadRow
<1> QED
  BY <1>1, <1>3 DEF LeadColumns

\* The deals closed from one day up to another.
LEMMA ClosedOn ==
  ASSUME LeadsOK, NEW from \in Int, NEW to \in Int, NEW c
  PROVE  c \in ClosedBetween(from, to)
           <=> c \in Won /\ from <= Day(leads[c].closed) /\ Day(leads[c].closed) < to
<1>1. ASSUME NEW t \in Int PROVE (t >= 2 * from /\ t < 2 * to) <=> (from <= Day(t) /\ Day(t) < to)
  BY DEF Day
<1>2. c \in Won => leads[c].closed \in Int
  BY WonFacts
<1>3. c \in ClosedBetween(from, to)
        <=> c \in Won /\ leads[c].closed >= 2 * from /\ leads[c].closed < 2 * to
  BY Zenon DEF ClosedBetween
<1> QED
  BY <1>1, <1>2, <1>3, Zenon

LEMMA Calendar ==
  ASSUME now \in Int
  PROVE  /\ Today \in Int /\ MonthStart \in Int /\ Elapsed \in Int /\ MonthDays \in Nat \ {0}
         /\ MonthStart <= Today /\ Today < MonthStart + MonthDays /\ Elapsed = Today - MonthStart + 1
<1>1. Today \in Int /\ MonthDays \in Nat \ {0}
  BY CalendarAssumption DEF Today, Day
<1>2. PICK start \in Int, rest \in Int : /\ MonthStart = start /\ Today = start + rest
                                         /\ 0 <= rest /\ rest < MonthDays
  <2> DEFINE q == Today \div MonthDays
  <2>1. q \in Int /\ Today % MonthDays \in Int /\ Today = MonthDays * q + (Today % MonthDays)
        /\ 0 <= Today % MonthDays /\ Today % MonthDays < MonthDays
    BY <1>1, Division
  <2>2. MonthDays * q \in Int /\ MonthStart = MonthDays * q
    BY <1>1, <2>1 DEF MonthStart
  <2> QED
    BY <2>1, <2>2
<1> QED
  BY <1>1, <1>2 DEF Elapsed

\* What a set of leads is worth is a sum of integers over it.
Price == [c \in Leads |-> IF leads[c].value = None THEN 0 ELSE leads[c].value]

LEMMA WorthIs ==
  ASSUME NEW S \in SUBSET Leads
  PROVE  Worth(S) = Over(Price, S)
<1>1. [c \in S |-> IF leads[c].value = None THEN 0 ELSE leads[c].value] = [c \in S |-> Price[c]]
  BY DEF Price
<1> QED
  BY <1>1, Zenon DEF Worth, Over

LEMMA PriceInt ==
  ASSUME LeadsOK, NEW c \in Leads
  PROVE  Price[c] \in Int
<1>1. leads[c].value \in Int \cup {None}
  BY LeadFacts, TablesAssumption
<1> QED
  BY <1>1 DEF Price

LEMMA LeadsFinite ==
  ASSUME NEW S \in SUBSET Leads
  PROVE  IsFiniteSet(S)
<1>1. S \subseteq Contacts
  BY DEF Leads
<1> QED
  BY <1>1, TablesAssumption, FS_Subset

Month == ClosedBetween(MonthStart, MonthStart + MonthDays)

\* The deals the chart draws.
Window(range) ==
  LET first == Today - (range - 1)
  IN Month \cup (IF first < MonthStart THEN ClosedBetween(first, MonthStart) ELSE {})

\* Of the deals drawn, those of a day on the chart are all deals of that day.
LEMMA DrawnDay ==
  ASSUME RowsOK, LeadsOK, NEW range \in Int, NEW d \in Today - (range - 1) .. Today
  PROVE  {c \in Window(range) : Day(leads[c].closed) = d} = ClosedBetween(d, d + 1)
<1> DEFINE first == Today - (range - 1)
<1>1. /\ Today \in Int /\ MonthStart \in Int /\ MonthDays \in Int /\ MonthStart <= Today
      /\ Today < MonthStart + MonthDays /\ d \in Int /\ first \in Int /\ first <= d /\ d <= Today
      /\ MonthStart + MonthDays \in Int /\ d + 1 \in Int
  BY Calendar DEF RowsOK
<1>2. \A c : c \in Month <=> c \in Won /\ MonthStart <= Day(leads[c].closed)
                               /\ Day(leads[c].closed) < MonthStart + MonthDays
  BY <1>1, ClosedOn, Zenon DEF Month
<1>3. \A c : c \in ClosedBetween(first, MonthStart)
               <=> c \in Won /\ first <= Day(leads[c].closed) /\ Day(leads[c].closed) < MonthStart
  <2> HIDE DEF first
  <2> QED
    BY <1>1, ClosedOn, Zenon
<1>4. \A c : c \in ClosedBetween(d, d + 1)
               <=> c \in Won /\ d <= Day(leads[c].closed) /\ Day(leads[c].closed) < d + 1
  BY <1>1, ClosedOn, Zenon
<1>5. \A c \in Won : Day(leads[c].closed) \in Int
  BY WonFacts DEF Day
<1>6. \A c : c \in Window(range)
               <=> c \in Month \/ (first < MonthStart /\ c \in ClosedBetween(first, MonthStart))
  BY DEF Window
<1> HIDE DEF first
<1>7. ASSUME NEW c
      PROVE  c \in Window(range) /\ Day(leads[c].closed) = d <=> c \in ClosedBetween(d, d + 1)
  <2>1. CASE c \in Won
    <3> DEFINE day == Day(leads[c].closed)
    <3>1. day \in Int
      BY <1>5, <2>1
    <3>2. c \in Month <=> MonthStart <= day /\ day < MonthStart + MonthDays
      BY <1>2, <2>1
    <3>3. c \in ClosedBetween(first, MonthStart) <=> first <= day /\ day < MonthStart
      BY <1>3, <2>1
    <3>4. c \in ClosedBetween(d, d + 1) <=> d <= day /\ day < d + 1
      BY <1>4, <2>1
    <3> HIDE DEF day
    <3>5. c \in Window(range) /\ day = d <=> c \in ClosedBetween(d, d + 1)
      BY <1>1, <1>6, <3>1, <3>2, <3>3, <3>4
    <3> QED
      BY <3>5 DEF day
  <2>2. CASE c \notin Won
    BY <1>2, <1>3, <1>4, <1>6, <2>2
  <2> QED
    BY <2>1, <2>2
<1> QED
  BY <1>7

\* What the revenue page shows, in the terms above.
LEMMA RevenueShows ==
  ASSUME NEW range \in Int, now \in Int
  PROVE  LET page == RevenuePage(range)
         IN /\ page.mtd = Worth(Month) /\ page.mtd = GoalPage.mtd
            /\ DOMAIN page.series = Today - (range - 1) .. Today
            /\ \A d \in DOMAIN page.series :
                 page.series[d] = Worth({c \in Window(range) : Day(leads[c].closed) = d})
            /\ Target \notin {None, 0} => page.on + page.off = Elapsed
<1> DEFINE page == RevenuePage(range)
<1>1. page.mtd = Worth(Month) /\ GoalPage.mtd = Worth(Month)
  BY Zenon DEF RevenuePage, GoalPage, Month
<1>2. page.series = [d \in Today - (range - 1) .. Today |->
                       Worth({c \in Window(range) : Day(leads[c].closed) = d})]
  BY Zenon DEF RevenuePage, Month, Window
<1>3. ASSUME Target \notin {None, 0} PROVE page.on + page.off = Elapsed
  <2> DEFINE sold(d) == Worth({c \in Month : Day(leads[c].closed) = d})
             hit == {d \in MonthStart .. Today : sold(d) * MonthDays >= Target}
  <2>1. page.on = Cardinality(hit) /\ page.off = Elapsed - Cardinality(hit)
    BY <1>3, Zenon DEF RevenuePage, Month
  <2>2. MonthStart \in Int /\ Today \in Int /\ Elapsed \in Int
    BY Calendar
  <2>3. IsFiniteSet(MonthStart .. Today)
    BY <2>2, FS_Interval, Zenon
  <2>4. Cardinality(hit) \in Int
    <3>1. hit \subseteq MonthStart .. Today
      OBVIOUS
    <3>2. IsFiniteSet(hit)
      BY <2>3, <3>1, FS_Subset, Zenon
    <3> HIDE DEF hit
    <3>3. Cardinality(hit) \in Nat
      BY <3>2, FS_CardinalityType
    <3> QED
      BY <3>3
  <2> HIDE DEF hit, page
  <2> QED
    BY <2>1, <2>2, <2>4
<1> QED
  BY <1>1, <1>2, <1>3

LEMMA SeriesIsDays ==
  ASSUME RowsOK, LeadsOK, NEW range \in Int, NEW d \in Today - (range - 1) .. Today
  PROVE  RevenuePage(range).series[d] = OnDay(d)
<1>1. PICK day : day = {c \in Window(range) : Day(leads[c].closed) = d} /\ day = ClosedBetween(d, d + 1)
  BY DrawnDay
<1>2. RevenuePage(range).series[d] = Worth({c \in Window(range) : Day(leads[c].closed) = d})
  BY RevenueShows, Zenon DEF RowsOK
<1> QED
  BY <1>1, <1>2, Zenon DEF OnDay

\* The revenue of the month so far is the sum of its days.
LEMMA MonthIsDays ==
  ASSUME RowsOK, LeadsOK
  PROVE  Worth(Month) = Total([d \in MonthStart .. Today |-> OnDay(d)])
<1> DEFINE K   == MonthStart .. Today
           key == [c \in Leads |-> Day(leads[c].closed)]
<1>1. /\ Today \in Int /\ MonthStart \in Int /\ MonthDays \in Int /\ Today < MonthStart + MonthDays
      /\ MonthStart + MonthDays \in Int
  BY Calendar DEF RowsOK
<1>2. \A c : c \in Month <=> c \in Won /\ MonthStart <= Day(leads[c].closed)
                               /\ Day(leads[c].closed) < MonthStart + MonthDays
  BY <1>1, ClosedOn, Zenon DEF Month
<1>3. Won \subseteq Leads /\ Month \in SUBSET Leads
  BY <1>2 DEF Won
<1>4. \A c \in Won : Day(leads[c].closed) \in Int /\ Day(leads[c].closed) <= Today
  <2> TAKE c \in Won
  <2>1. leads[c].closed \in Int /\ leads[c].closed <= now /\ now \in Int
    BY WonFacts DEF RowsOK
  <2> QED
    BY <2>1 DEF Day, Today
<1>5. \A c \in Month : key[c] \in K /\ Price[c] \in Int
  BY <1>1, <1>2, <1>3, <1>4, PriceInt
<1>6. IsFiniteSet(K) /\ IsFiniteSet(Month)
  BY <1>1, <1>3, FS_Interval, LeadsFinite, Zenon
<1>7. \A d \in K : OnDay(d) = Over(Price, {c \in Month : key[c] = d})
  <2> TAKE d \in K
  <2>1. d \in Int /\ d + 1 \in Int /\ MonthStart <= d /\ d <= Today
    BY <1>1
  <2>2. \A c : c \in ClosedBetween(d, d + 1)
                 <=> c \in Won /\ d <= Day(leads[c].closed) /\ Day(leads[c].closed) < d + 1
    BY <2>1, ClosedOn, Zenon
  <2>3. ASSUME NEW c PROVE c \in ClosedBetween(d, d + 1) <=> c \in Month /\ key[c] = d
    <3>1. CASE c \in Won
      <4>1. PICK day \in Int : day = Day(leads[c].closed) /\ day = key[c]
        BY <1>3, <1>4, <3>1
      <4> HIDE DEF key, K
      <4>2. c \in Month <=> MonthStart <= day /\ day < MonthStart + MonthDays
        BY <1>2, <3>1, <4>1, Zenon
      <4>3. c \in ClosedBetween(d, d + 1) <=> d <= day /\ day < d + 1
        BY <2>2, <3>1, <4>1, Zenon
      <4> QED
        BY <1>1, <2>1, <4>1, <4>2, <4>3
    <3>2. CASE c \notin Won
      BY <1>2, <2>2, <3>2
    <3> QED
      BY <3>1, <3>2
  <2>4. ClosedBetween(d, d + 1) = {c \in Month : key[c] = d}
    <3> HIDE DEF key
    <3> QED
      BY <2>3
  <2>5. ClosedBetween(d, d + 1) \in SUBSET Leads
    BY <1>3, <2>2
  <2> QED
    BY <2>4, <2>5, WorthIs, Zenon DEF OnDay
<1> HIDE DEF K, key
<1>8. Over(Price, Month) = Total([d \in K |-> Over(Price, {c \in Month : key[c] = d})])
  BY <1>5, <1>6, OverGroups
<1>9. [d \in K |-> Over(Price, {c \in Month : key[c] = d})] = [d \in K |-> OnDay(d)]
  BY <1>7
<1>10. Worth(Month) = Over(Price, Month)
  BY <1>3, WorthIs
<1> QED
  BY <1>8, <1>9, <1>10, Zenon DEF K

\* The revenue page and the goal page for a range of days.
LEMMA MoneyPages ==
  ASSUME RowsOK, LeadsOK, NEW range \in Int
  PROVE  LET page == RevenuePage(range)
         IN /\ page.mtd = GoalPage.mtd
            /\ range >= Elapsed => page.mtd = Total([d \in MonthStart .. Today |-> page.series[d]])
            /\ \A d \in DOMAIN page.series : page.series[d] = OnDay(d)
            /\ Target \notin {None, 0} => page.on + page.off = Elapsed
<1> DEFINE page == RevenuePage(range)
<1>1. /\ page.mtd = Worth(Month) /\ page.mtd = GoalPage.mtd
      /\ DOMAIN page.series = Today - (range - 1) .. Today
      /\ Target \notin {None, 0} => page.on + page.off = Elapsed
  BY RevenueShows, Zenon DEF RowsOK
<1>2. \A d \in Today - (range - 1) .. Today : page.series[d] = OnDay(d)
  BY SeriesIsDays, Zenon
<1>3. ASSUME range >= Elapsed
      PROVE  page.mtd = Total([d \in MonthStart .. Today |-> page.series[d]])
  <2>1. /\ Today \in Int /\ MonthStart \in Int /\ Elapsed = Today - MonthStart + 1
    BY Calendar DEF RowsOK
  <2>2. MonthStart .. Today \subseteq Today - (range - 1) .. Today
    BY <1>3, <2>1
  <2> HIDE DEF page
  <2>3. [d \in MonthStart .. Today |-> page.series[d]] = [d \in MonthStart .. Today |-> OnDay(d)]
    BY <1>2, <2>2
  <2> QED
    BY <1>1, <2>3, MonthIsDays, Zenon
<1> HIDE DEF page
<1>4. /\ page.mtd = GoalPage.mtd
      /\ range >= Elapsed => page.mtd = Total([d \in MonthStart .. Today |-> page.series[d]])
      /\ \A d \in DOMAIN page.series : page.series[d] = OnDay(d)
      /\ Target \notin {None, 0} => page.on + page.off = Elapsed
  BY <1>1, <1>2, <1>3, Zenon
<1> QED
  BY <1>4, Zenon DEF page

\* A threshold is an integer, the gap one of at least zero.
LEMMA Thresholds ==
  /\ \A k \in DOMAIN Defaults : Alerts[k] \in Nat
  /\ Alerts.wastage_days \in Nat /\ Alerts.zombie_days \in Nat /\ Alerts.performance_gap \in Nat
<1>1. ASSUME NEW k \in DOMAIN Defaults PROVE Alerts[k] \in Nat
  <2>1. Alerts[k] = IF k \in DOMAIN Saved /\ Saved[k] # None /\ Saved[k] >= 0 THEN Saved[k] ELSE Defaults[k]
    BY Zenon DEF Alerts
  <2>2. Defaults[k] \in Nat /\ (k \in DOMAIN Saved /\ Saved[k] # None => Saved[k] \in Int)
    BY TablesAssumption
  <2> QED
    BY <2>1, <2>2
<1> QED
  BY <1>1, TablesAssumption

\* A telecaller's quality is a number.
LEMMA QualityInt ==
  ASSUME RowsOK, NEW t
  PROVE  MetricsOne(t, None, None).quality \in Int
<1> DEFINE judged == By(t) \cap Completed
           debriefs == [i \in judged |-> calls[i].result.dims]
           dims == AveragedDimensions(debriefs)
<1>1. MetricsOne(t, None, None).quality = Total(dims)
  BY AllTimeMetrics, Zenon
<1>2. judged \subseteq Completed /\ IsFiniteSet(judged)
  BY RowsFinite, FS_Subset DEF Completed
<1>3. ASSUME NEW d \in Dimensions PROVE dims[d] \in Int
  <2> DEFINE column == [i \in judged |-> debriefs[i][d]]
  <2>1. \A i \in judged : column[i] \in Int
    <3> TAKE i \in judged
    <3>1. i \in Rows /\ calls[i].result \in Results(calls[i].turns)
      BY <1>2, CountingRows
    <3>2. calls[i].result.dims[d] \in Int
      BY <3>1, RowFacts, ResultRange, Zenon
    <3> QED
      BY <3>2
  <2>2. dims[d] = IF judged = {} THEN 0 ELSE Average(column)
    BY DEF AveragedDimensions
  <2>3. DOMAIN column = judged
    OBVIOUS
  <2>4. Total(column) = Over(column, judged)
    BY DEF Over
  <2> HIDE DEF column, judged
  <2>5. Total(column) \in Int
    BY <1>2, <2>1, <2>4, OverInt
  <2>6. judged # {} => Cardinality(judged) \in Nat \ {0}
    BY <1>2, FS_CardinalityType, FS_EmptySet
  <2>7. judged # {} => RoundDiv(Total(column), Cardinality(judged)) \in Int
    BY <2>5, <2>6, RoundInt
  <2>8. Average(column) = RoundDiv(Total(column), Cardinality(judged))
    BY <2>3, Zenon DEF Average
  <2> QED
    BY <2>2, <2>7, <2>8
<1>4. IsFiniteSet(Dimensions)
  <2>1. \A S, x : IsFiniteSet(S) => IsFiniteSet(S \cup {x})
    BY FS_AddElement
  <2>2. IsFiniteSet({} \cup {"opening"} \cup {"discovery"} \cup {"pitch"})
    BY <2>1, FS_EmptySet, Zenon
  <2>3. IsFiniteSet(({} \cup {"opening"} \cup {"discovery"} \cup {"pitch"})
                      \cup {"objection_handling"} \cup {"closing"} \cup {"punctuality"})
    BY <2>1, <2>2, Zenon
  <2>4. Dimensions = ({} \cup {"opening"} \cup {"discovery"} \cup {"pitch"})
                       \cup {"objection_handling"} \cup {"closing"} \cup {"punctuality"}
    BY DEF Dimensions, Skills
  <2> QED
    BY <2>3, <2>4, Zenon
<1>5. Total(dims) = Over(dims, Dimensions)
  BY DEF Over, AveragedDimensions
<1> HIDE DEF dims
<1>6. Total(dims) \in Int
  BY <1>3, <1>4, <1>5, OverInt
<1> QED
  BY <1>1, <1>6

\* Who is further behind the average than the gap is outdone by somebody.
LEMMA BehindSomebody ==
  ASSUME RowsOK, NEW t \in Insights.behind
  PROVE  /\ t \in Telecallers
         /\ \E u \in Telecallers : PerformancePage(None, None).telecallers[u].quality
                                     > PerformancePage(None, None).telecallers[t].quality
<1> DEFINE m == MetricsBatch(Telecallers, None, None)
           q == [u \in Telecallers |-> m[u].quality]
           n == Cardinality(Telecallers)
           gap == Alerts.performance_gap
<1>1. Insights.behind = {u \in Telecallers : Total(q) - m[u].quality * n > gap * n}
  BY Zenon DEF Insights
<1>2. t \in Telecallers /\ Total(q) - m[t].quality * n > gap * n
  BY <1>1, Zenon
<1>3. PerformancePage(None, None).telecallers = m
  BY Zenon DEF PerformancePage
<1>4. \A u \in Telecallers : q[u] \in Int /\ q[u] = m[u].quality
  BY BatchIsOne, QualityInt
<1>5. Total(q) = Over(q, Telecallers)
  BY DEF Over
<1>6. n \in Nat /\ gap \in Nat /\ IsFiniteSet(Telecallers)
  BY TablesAssumption, Thresholds, FS_CardinalityType
<1> HIDE DEF m, q, n, gap
<1>7. ASSUME \A u \in Telecallers : q[u] <= q[t] PROVE FALSE
  <2>2. Over(q, Telecallers) <= q[t] * n
    <3> DEFINE all == {q[u] : u \in Telecallers}
               lo  == Min(all)
    <3>1. all \in SUBSET Int /\ q[t] \in all
      BY <1>2, <1>4
    <3>2. IsFiniteSet(all)
      <4>1. q \in Surjection(Telecallers, all)
        BY DEF Surjection, q
      <4> QED
        BY <1>6, <4>1, FS_Surjection, Zenon
    <3>3. lo \in Int /\ \A u \in Telecallers : lo <= q[u]
      <4>1. lo \in all /\ \A y \in all : lo <= y
        <5> HIDE DEF all
        <5> QED
          BY <3>1, <3>2, Extremes
      <4> QED
        BY <3>1, <4>1
    <3> HIDE DEF lo
    <3> QED
      BY <1>2, <1>4, <1>6, <1>7, <3>3, OverBounds DEF n
  <2>3. q[t] * n \in Int /\ gap * n \in Nat /\ Over(q, Telecallers) \in Int
    BY <1>2, <1>4, <1>6, OverInt
  <2>4. Over(q, Telecallers) - q[t] * n > gap * n
    BY <1>2, <1>4, <1>5
  <2> QED
    BY <2>2, <2>3, <2>4
<1>8. \E u \in Telecallers : m[u].quality > m[t].quality
  BY <1>2, <1>4, <1>7
<1> QED
  BY <1>2, <1>3, <1>8, Zenon

LEMMA WeeklyShows ==
  /\ Insights.wastage = Preview("weekly_summary").wasted
  /\ Insights.zombie = Preview("weekly_summary").zombies
<1>1. /\ Preview("weekly_summary").wasted = Cardinality(Wasted)
      /\ Preview("weekly_summary").zombies = Cardinality(Zombies)
  BY DEF Preview
<1>2. Insights.wastage = Cardinality(Wasted) /\ Insights.zombie = Cardinality(Zombies)
  BY Zenon DEF Insights
<1> QED
  BY <1>1, <1>2, Zenon

LEMMA OfficePages ==
  ASSUME RowsOK, LeadsOK
  PROVE  OfficePagesAgree
<1>1. \A c \in DOMAIN LatestVerdicts : InboxPage(None).cards[c].verdict = LatestVerdicts[c]
  BY InboxVerdict, Zenon
<1>2. \A c \in Leads : (\A i \in Rows : calls[i].contact = c => calls[i].status # "not_relevant")
                         => BoardPage[c].score = LeadDetailPage(c).score
  BY BoardScore, Zenon
<1>3. 1 \in Int /\ 2 * MonthDays \in Int
  BY CalendarAssumption
<1>4. \A range \in {1, 2 * MonthDays} :
        LET page == RevenuePage(range)
        IN /\ page.mtd = GoalPage.mtd
           /\ range >= Elapsed => page.mtd = Total([d \in MonthStart .. Today |-> page.series[d]])
           /\ \A d \in DOMAIN page.series : page.series[d] = OnDay(d)
           /\ Target \notin {None, 0} => page.on + page.off = Elapsed
  BY <1>3, MoneyPages, Zenon
<1>5. \A t \in Insights.behind :
        \E u \in Telecallers : PerformancePage(None, None).telecallers[u].quality
                                 > PerformancePage(None, None).telecallers[t].quality
  BY BehindSomebody, Zenon
<1> QED
  BY <1>1, <1>2, <1>4, <1>5, HotAlike, WeeklyShows, Zenon DEF OfficePagesAgree

\* One number of the business is one number on every page that shows it, whatever
\* is uploaded late, judged irrelevant, run again, deleted, closed, reopened,
\* priced or handed on, on any day of a month of any length.
THEOREM PagesCorrect == Spec => []PagesAgree
<1>1. RowsInv => PagesAgree
  BY TelecallerPages, OfficePages DEF RowsInv, PagesAgree
<1> QED
  BY <1>1, RowsAlways, PTL

-----------------------------------------------------------------------------
(* Nothing is left out, nothing counted twice *)

LEMMA OneMore == \A S, x : IsFiniteSet(S) => IsFiniteSet(S \cup {x})
BY FS_AddElement

\* Every score is in one band.
LEMMA OneBand ==
  ASSUME NEW s \in 0 .. 100
  PROVE  \E b \in Bands : \A x \in Bands : x[1] <= s /\ s <= x[2] <=> x = b
<1>1. PICK a, b, c, d, e : /\ a = <<81, 100>> /\ b = <<61, 80>> /\ c = <<41, 60>>
                           /\ d = <<21, 40>> /\ e = <<0, 20>>
  OBVIOUS
<1>2. Bands = {a, b, c, d, e}
  BY <1>1 DEF Bands
<1>3. /\ a[1] = 81 /\ a[2] = 100 /\ b[1] = 61 /\ b[2] = 80 /\ c[1] = 41 /\ c[2] = 60
      /\ d[1] = 21 /\ d[2] = 40 /\ e[1] = 0 /\ e[2] = 20
  BY <1>1
<1>4. CASE s >= 81
  <2>1. a \in Bands /\ \A x \in Bands : x[1] <= s /\ s <= x[2] <=> x = a
    BY <1>2, <1>3, <1>4
  <2> QED
    BY <2>1
<1>5. CASE s >= 61 /\ s < 81
  <2>1. b \in Bands /\ \A x \in Bands : x[1] <= s /\ s <= x[2] <=> x = b
    BY <1>2, <1>3, <1>5
  <2> QED
    BY <2>1
<1>6. CASE s >= 41 /\ s < 61
  <2>1. c \in Bands /\ \A x \in Bands : x[1] <= s /\ s <= x[2] <=> x = c
    BY <1>2, <1>3, <1>6
  <2> QED
    BY <2>1
<1>7. CASE s >= 21 /\ s < 41
  <2>1. d \in Bands /\ \A x \in Bands : x[1] <= s /\ s <= x[2] <=> x = d
    BY <1>2, <1>3, <1>7
  <2> QED
    BY <2>1
<1>8. CASE s < 21
  <2>1. e \in Bands /\ \A x \in Bands : x[1] <= s /\ s <= x[2] <=> x = e
    BY <1>2, <1>3, <1>8
  <2> QED
    BY <2>1
<1> QED
  BY <1>4, <1>5, <1>6, <1>7, <1>8

\* The score and the verdict of a contact's newest call.
LEMMA LatestRange ==
  ASSUME RowsOK, NEW c \in DOMAIN LatestScores
  PROVE  LatestScores[c] \in 0 .. 100 /\ LatestVerdicts[c] \in Verdicts /\ c \in Contacts
<1>1. c \in DOMAIN Newest
  BY LatestDomains
<1>2. Newest[c] \in Completed /\ calls[Newest[c]].contact = c
  BY <1>1, NewestFacts, Zenon DEF CompletedOf
<1>3. /\ calls[Newest[c]].turns \in Turns /\ calls[Newest[c]].result \in Results(calls[Newest[c]].turns)
      /\ c \in Contacts
  BY <1>2, CountingRows, RowFacts, Zenon
<1>4. calls[Newest[c]].result.bant \in 0 .. 100 /\ calls[Newest[c]].result.verdict \in Verdicts
  BY <1>3, ResultRange, Zenon
<1>5. LatestScores[c] = calls[Newest[c]].result.bant /\ LatestVerdicts[c] = Verdict(Newest[c])
  BY <1>1, Zenon DEF LatestScores, LatestVerdicts
<1> QED
  BY <1>3, <1>4, <1>5, Zenon DEF Verdict

LEMMA ScoredFinite ==
  ASSUME RowsOK
  PROVE  IsFiniteSet(DOMAIN LatestScores)
<1>1. DOMAIN LatestScores \subseteq Contacts
  BY LatestRange
<1> QED
  BY <1>1, TablesAssumption, FS_Subset

LEMMA BandsCount ==
  ASSUME RowsOK
  PROVE  /\ \A c \in DOMAIN LatestScores :
              Cardinality({b \in Bands : b[1] <= LatestScores[c] /\ LatestScores[c] <= b[2]}) = 1
         /\ Total([b \in Bands |-> BandsPage[b].count]) = Cardinality(DOMAIN LatestScores)
<1> DEFINE S == DOMAIN LatestScores
           in(c, b) == b[1] <= LatestScores[c] /\ LatestScores[c] <= b[2]
           key == [c \in S |-> CHOOSE b \in Bands : in(c, b)]
<1>1. \A c \in S : \E b \in Bands : \A x \in Bands : in(c, x) <=> x = b
  BY LatestRange, OneBand
<1>2. ASSUME NEW c \in S PROVE key[c] \in Bands /\ \A x \in Bands : in(c, x) <=> x = key[c]
  <2>1. PICK b \in Bands : \A x \in Bands : in(c, x) <=> x = b
    BY <1>1
  <2> HIDE DEF in
  <2>2. key[c] \in Bands /\ in(c, key[c])
    BY <2>1
  <2> QED
    BY <2>1, <2>2
<1>3. ASSUME NEW c \in S PROVE Cardinality({b \in Bands : in(c, b)}) = 1
  <2>1. {b \in Bands : in(c, b)} = {key[c]}
    <3> HIDE DEF in, key
    <3> QED
      BY <1>2
  <2> HIDE DEF in, key
  <2> QED
    BY <2>1, FS_Singleton
<1>4. IsFiniteSet(Bands)
  <2>1. PICK a, b, c, d, e : Bands = {a, b, c, d, e}
    BY DEF Bands
  <2>2. IsFiniteSet({} \cup {a} \cup {b} \cup {c})
    BY OneMore, FS_EmptySet, Zenon
  <2>3. IsFiniteSet(({} \cup {a} \cup {b} \cup {c}) \cup {d} \cup {e})
    BY OneMore, <2>2, Zenon
  <2>4. Bands = ({} \cup {a} \cup {b} \cup {c}) \cup {d} \cup {e}
    BY <2>1
  <2> QED
    BY <2>3, <2>4, Zenon
<1>5. \A b \in Bands : BandsPage[b].count = Cardinality({c \in S : in(c, b)})
  BY Zenon DEF BandsPage
<1>6. \A b \in Bands : {c \in S : in(c, b)} = {c \in S : key[c] = b}
  <2> HIDE DEF in, key
  <2> QED
    BY <1>2
<1> HIDE DEF in, key
<1>7. Total([b \in Bands |-> Cardinality({c \in S : key[c] = b})]) = Cardinality(S)
  BY <1>2, <1>4, ScoredFinite, CountGroups
<1>8. [b \in Bands |-> BandsPage[b].count] = [b \in Bands |-> Cardinality({c \in S : key[c] = b})]
  BY <1>5, <1>6
<1> QED
  BY <1>3, <1>7, <1>8 DEF in

LEMMA VerdictsCount ==
  ASSUME RowsOK
  PROVE  Total(QualityPage.verdicts) = Cardinality(DOMAIN LatestScores)
<1> DEFINE S == DOMAIN LatestVerdicts
<1>1. QualityPage.verdicts = [v \in Verdicts |-> Cardinality({c \in S : LatestVerdicts[c] = v})]
  BY Zenon DEF QualityPage
<1>2. IsFiniteSet(Verdicts)
  <2>1. IsFiniteSet({} \cup {"Hot"} \cup {"Warm"} \cup {"Cold"} \cup {"Junk"})
    BY OneMore, FS_EmptySet, Zenon
  <2>2. Verdicts = {} \cup {"Hot"} \cup {"Warm"} \cup {"Cold"} \cup {"Junk"}
    BY DEF Verdicts
  <2> QED
    BY <2>1, <2>2, Zenon
<1>3. S = DOMAIN LatestScores /\ IsFiniteSet(S)
  BY LatestDomains, ScoredFinite
<1>4. \A c \in S : LatestVerdicts[c] \in Verdicts
  BY <1>3, LatestRange
<1>5. Total([v \in Verdicts |-> Cardinality({c \in S : LatestVerdicts[c] = v})]) = Cardinality(S)
  <2> HIDE DEF S
  <2> QED
    BY <1>2, <1>3, <1>4, CountGroups
<1> QED
  BY <1>1, <1>3, <1>5, Zenon

LEMMA AgesCount == Total(AgeingPage) = Cardinality(Open)
<1> DEFINE B == {"0-3", "3-7", "7+"}
           bucket(c) == IF DaysSince(leads[c].updated) <= 3 THEN "0-3"
                        ELSE IF DaysSince(leads[c].updated) <= 7 THEN "3-7" ELSE "7+"
           key == [c \in Open |-> bucket(c)]
<1>1. AgeingPage = [b \in B |-> Cardinality({c \in Open : bucket(c) = b})]
  BY Zenon DEF AgeingPage
<1>2. \A c \in Open : key[c] \in B /\ key[c] = bucket(c)
  OBVIOUS
<1>3. IsFiniteSet(B)
  <2>1. IsFiniteSet({} \cup {"0-3"} \cup {"3-7"} \cup {"7+"})
    BY OneMore, FS_EmptySet, Zenon
  <2>2. B = {} \cup {"0-3"} \cup {"3-7"} \cup {"7+"}
    OBVIOUS
  <2> QED
    BY <2>1, <2>2, Zenon
<1>4. IsFiniteSet(Open)
  BY LeadsFinite DEF Open
<1> HIDE DEF key, bucket, B
<1>5. AgeingPage = [b \in B |-> Cardinality({c \in Open : key[c] = b})]
  <2>1. \A b \in B : {c \in Open : bucket(c) = b} = {c \in Open : key[c] = b}
    BY <1>2
  <2> QED
    BY <1>1, <2>1
<1> QED
  BY <1>2, <1>3, <1>4, <1>5, CountGroups

LEMMA InboxCount ==
  ASSUME RowsOK, NEW t
  PROVE  Total(InboxPage(t).header.buckets) = Cardinality(DOMAIN InboxPage(t).cards)
<1>1. PICK cards : cards = InboxPage(t).cards /\ InboxPage(t).header = InboxHeader(cards)
  BY Zenon DEF InboxPage
<1> DEFINE S == DOMAIN cards
           K == {cards[c].bucket : c \in S}
           key == [c \in S |-> cards[c].bucket]
<1>2. IsFiniteSet(S)
  <2>1. S = (IF t = None THEN Leads ELSE OwnedBy(t)) \cup DOMAIN Grouped(t)
    BY <1>1, Zenon DEF InboxPage
  <2>2. DOMAIN Grouped(t) = {calls[i].contact : i \in {j \in Completed : t = None \/ calls[j].by = t}}
    BY Zenon DEF Grouped
  <2>3. \A i \in Completed : calls[i].contact \in Contacts
    BY RowFacts DEF Completed
  <2>4. Leads \subseteq Contacts /\ OwnedBy(t) \subseteq Contacts
    BY DEF Leads, OwnedBy
  <2> HIDE DEF S
  <2>5. S \subseteq Contacts
    BY <2>1, <2>2, <2>3, <2>4
  <2> QED
    BY <2>5, TablesAssumption, FS_Subset
<1>3. IsFiniteSet(K)
  <2>1. key \in Surjection(S, K)
    BY DEF Surjection
  <2> QED
    BY <1>2, <2>1, FS_Surjection, Zenon
<1>4. InboxHeader(cards).buckets = [b \in K |-> Cardinality({c \in S : cards[c].bucket = b})]
  BY Zenon DEF InboxHeader
<1>5. \A c \in S : key[c] \in K /\ key[c] = cards[c].bucket
  OBVIOUS
<1> HIDE DEF key, K
<1>6. InboxHeader(cards).buckets = [b \in K |-> Cardinality({c \in S : key[c] = b})]
  <2>1. \A b \in K : {c \in S : cards[c].bucket = b} = {c \in S : key[c] = b}
    BY <1>5
  <2> QED
    BY <1>4, <2>1
<1>7. Total([b \in K |-> Cardinality({c \in S : key[c] = b})]) = Cardinality(S)
  <2> HIDE DEF S
  <2> QED
    BY <1>2, <1>3, <1>5, CountGroups
<1> QED
  BY <1>1, <1>6, <1>7, Zenon

LEMMA DaysCount ==
  ASSUME RowsOK, NEW t
  PROVE  Total(DetailPage(t, None, None).daily)
           = Cardinality({i \in By(t) : Day(calls[i].at) > Today - TrendDays
                                          /\ Day(calls[i].at) <= Today})
<1> DEFINE S == {i \in By(t) : Day(calls[i].at) > Today - TrendDays /\ Day(calls[i].at) <= Today}
           K == Today - (TrendDays - 1) .. Today
           key == [i \in S |-> Day(calls[i].at)]
<1>1. DetailPage(t, None, None).daily = [d \in K |-> Cardinality({i \in By(t) : Day(calls[i].at) = d})]
  BY Zenon DEF DetailPage
<1>2. Today \in Int /\ TrendDays \in Nat
  BY CalendarAssumption DEF RowsOK, Today, Day
<1>3. ASSUME NEW i \in By(t) PROVE Day(calls[i].at) \in Int
  <2>1. i \in Rows
    BY DEF By
  <2>2. calls[i].at \in Int
    BY <2>1, RowFacts
  <2> QED
    BY <2>2 DEF Day
<1>4. IsFiniteSet(S) /\ IsFiniteSet(K)
  <2>1. S \subseteq Rows
    BY DEF By
  <2>2. Today - (TrendDays - 1) \in Int
    BY <1>2
  <2> HIDE DEF S
  <2> QED
    BY <1>2, <2>1, <2>2, RowsFinite, FS_Subset, FS_Interval, Zenon
<1>5. \A i \in S : key[i] \in K /\ key[i] = Day(calls[i].at)
  BY <1>2, <1>3
<1>6. ASSUME NEW d \in K PROVE {i \in By(t) : Day(calls[i].at) = d} = {i \in S : key[i] = d}
  <2>1. d \in Int /\ d > Today - TrendDays /\ d <= Today
    BY <1>2
  <2>2. \A i \in By(t) : Day(calls[i].at) = d => i \in S
    BY <2>1
  <2>3. S \subseteq By(t)
    OBVIOUS
  <2> HIDE DEF key, K, S
  <2> QED
    BY <1>5, <2>2, <2>3
<1> HIDE DEF key, K
<1>7. [d \in K |-> Cardinality({i \in By(t) : Day(calls[i].at) = d})]
        = [d \in K |-> Cardinality({i \in S : key[i] = d})]
  BY <1>6
<1>8. Total([d \in K |-> Cardinality({i \in S : key[i] = d})]) = Cardinality(S)
  <2> HIDE DEF S
  <2> QED
    BY <1>4, <1>5, CountGroups
<1> QED
  BY <1>1, <1>7, <1>8, Zenon

\* A lead left alone is listed.
LEMMA LeftAlone ==
  ASSUME RowsOK, LeadsOK, NEW c \in Open,
         DaysSince(leads[c].updated) >= Alerts.wastage_days,
         DaysSince(leads[c].updated) >= Alerts.zombie_days
  PROVE  \/ c \in Wasted \cup Zombies
         \/ leads[c].stage = "New" /\ \E i \in Rows : calls[i].contact = c
<1>1. c \in Leads
  BY DEF Open
<1>2. CASE leads[c].stage # "New"
  BY <1>2 DEF Zombies
<1>3. CASE leads[c].stage = "New" /\ \A i \in Rows : calls[i].contact # c
  <2>1. PICK created \in Int, updated \in Int : /\ created = leads[c].created /\ updated = leads[c].updated
                                                /\ created <= updated
    BY <1>1, LeadFacts
  <2>2. now \in Int /\ Alerts.wastage_days \in Nat
    BY Thresholds DEF RowsOK
  <2>3. DaysSince(created) >= DaysSince(updated) /\ DaysSince(created) \in Int /\ DaysSince(updated) \in Int
    BY <2>1, <2>2 DEF DaysSince
  <2>4. DaysSince(updated) >= Alerts.wastage_days
    BY <2>1
  <2>5. DaysSince(created) >= Alerts.wastage_days
    BY <2>2, <2>3, <2>4
  <2> QED
    BY <1>1, <1>3, <2>1, <2>5 DEF Wasted
<1> QED
  BY <1>2, <1>3

-----------------------------------------------------------------------------
(* One call on the Score tab *)

LEMMA ThreeParts ==
  ASSUME NEW f, NEW S, NEW a \in S, NEW b \in S, NEW c \in S, a # b, b # c, a # c,
         \A x \in S : x \in {a, b, c}, f[a] \in Int, f[b] \in Int, f[c] \in Int
  PROVE  Over(f, S) = f[a] + f[b] + f[c]
<1>1. IsFiniteSet({} \cup {a} \cup {b} \cup {c})
  BY OneMore, FS_EmptySet, Zenon
<1>2. S = {} \cup {a} \cup {b} \cup {c}
  OBVIOUS
<1>3. IsFiniteSet(S) /\ IsFiniteSet(S \ {a}) /\ IsFiniteSet((S \ {a}) \ {b})
  <2>1. IsFiniteSet(S)
    BY <1>1, <1>2, Zenon
  <2> QED
    BY <2>1, FS_Subset
<1>4. \A x \in S : f[x] \in Int
  OBVIOUS
<1>5. a \in S /\ b \in S \ {a} /\ c \in (S \ {a}) \ {b} /\ ((S \ {a}) \ {b}) \ {c} = {}
  OBVIOUS
<1>6. Over(f, S) = f[a] + Over(f, S \ {a})
  BY <1>3, <1>4, <1>5, OverRemove
<1>7. Over(f, S \ {a}) = f[b] + Over(f, (S \ {a}) \ {b})
  BY <1>3, <1>4, <1>5, OverRemove
<1>8. Over(f, (S \ {a}) \ {b}) = f[c] + Over(f, ((S \ {a}) \ {b}) \ {c})
  BY <1>3, <1>4, <1>5, OverRemove
<1>9. Over(f, ((S \ {a}) \ {b}) \ {c}) = 0
  BY <1>5, OverEmpty
<1>10. Over(f, S) = f[a] + f[b] + f[c]
  BY <1>6, <1>7, <1>8, <1>9
<1> QED
  BY <1>10

\* Three percentages weigh up to a percentage.
LEMMA CallScoreRange ==
  ASSUME NEW overall \in 0 .. 100, NEW quality \in 0 .. 100, NEW mood \in 0 .. 100
  PROVE  CallScore(overall, quality, mood) \in 0 .. 100
<1> DEFINE parts == [overall |-> [v |-> overall, w |-> 45], quality |-> [v |-> quality, w |-> 30],
                     sentiment |-> [v |-> mood, w |-> 25]]
           P == {"overall", "quality", "sentiment"}
           there == {p \in DOMAIN parts : parts[p].v # None}
           points == [p \in there |-> parts[p].v * parts[p].w]
           weights == [p \in there |-> parts[p].w]
<1>1. there = P
  <2>1. overall # None /\ quality # None /\ mood # None
    BY ScoringAssumption
  <2> QED
    BY <2>1
<1>2. CallScore(overall, quality, mood) = IF there = {} THEN 0 ELSE RoundDiv(Total(points), Total(weights))
  BY Zenon DEF CallScore
<1>3. Total(points) = Over(points, P) /\ Total(weights) = Over(weights, P)
  <2>1. points = [p \in there |-> points[p]] /\ weights = [p \in there |-> weights[p]]
    OBVIOUS
  <2> HIDE DEF points, weights, there
  <2> QED
    BY <1>1, <2>1, Zenon DEF Over
<1>4. /\ weights["overall"] = 45 /\ weights["quality"] = 30 /\ weights["sentiment"] = 25
      /\ points["overall"] = overall * 45 /\ points["quality"] = quality * 30 /\ points["sentiment"] = mood * 25
  BY <1>1
<1> HIDE DEF points, weights, there
<1>names. PICK a, b, c : /\ a = "overall" /\ b = "quality" /\ c = "sentiment"
                     /\ a # b /\ b # c /\ a # c
  OBVIOUS
<1>distinct. a # b /\ b # c /\ a # c /\ a \in P /\ b \in P /\ c \in P /\ \A x \in P : x \in {a, b, c}
  BY <1>names
<1> HIDE DEF P
<1>5. Over(weights, P) = 100
  <2>1. weights[a] = 45 /\ weights[b] = 30 /\ weights[c] = 25
    BY <1>names, <1>4
  <2>2. weights[a] \in Int /\ weights[b] \in Int /\ weights[c] \in Int
    BY <2>1
  <2>3. Over(weights, P) = weights[a] + weights[b] + weights[c]
    BY <1>distinct, <2>2, ThreeParts
  <2>4. Over(weights, P) = 100
    BY <2>1, <2>3
  <2> QED
    BY <2>4
<1>6. Over(points, P) = overall * 45 + quality * 30 + mood * 25
  <2>1. points[a] = overall * 45 /\ points[b] = quality * 30 /\ points[c] = mood * 25
    BY <1>names, <1>4
  <2>2. points[a] \in Int /\ points[b] \in Int /\ points[c] \in Int
    BY <2>1
  <2>3. Over(points, P) = points[a] + points[b] + points[c]
    BY <1>distinct, <2>2, ThreeParts
  <2> QED
    BY <1>names, <2>1, <2>3
<1>7. there # {}
  BY <1>1 DEF P
<1>8. RoundDiv(overall * 45 + quality * 30 + mood * 25, 100) \in 0 .. 100
  <2>1. PICK n \in Int, d \in Nat \ {0}, lo \in Int, hi \in Int :
          /\ n = overall * 45 + quality * 30 + mood * 25 /\ d = 100 /\ lo = 0 /\ hi = 100
          /\ lo * d <= n /\ n <= hi * d
    OBVIOUS
  <2>2. RoundDiv(n, d) \in lo .. hi
    BY <2>1, RoundBounds
  <2> QED
    BY <2>1, <2>2
<1> QED
  BY <1>2, <1>3, <1>5, <1>6, <1>7, <1>8, Zenon

\* Sentiments between -1 and 1 average to a percentage.
LEMMA MoodRange ==
  ASSUME NEW arc, ArcOK(arc)
  PROVE  SentimentScore(arc) \in 0 .. 100
<1> DEFINE felt == Felt(arc)
           S == DOMAIN felt
           k == Cardinality(S)
           score == [t \in DOMAIN arc |-> arc[t].score]
<1>1. S \subseteq DOMAIN arc /\ felt = [t \in S |-> score[t]]
  BY DEF Felt
<1>2. SentimentScore(arc) = IF k = 0 THEN 0 ELSE RoundDiv((Total(felt) + 10 * k) * 100, 20 * k)
  BY Zenon DEF SentimentScore
<1> HIDE DEF felt
<1>3. IsFiniteSet(S)
  BY <1>1, FS_Subset DEF ArcOK
<1>4. Total(felt) = Over(score, S)
  BY <1>1, Zenon DEF Over
<1>5. \A t \in S : score[t] \in Int /\ -10 <= score[t] /\ score[t] <= 10
  BY <1>1 DEF ArcOK
<1> HIDE DEF score
<1>6. k \in Nat
  BY <1>3, FS_CardinalityType
<1> HIDE DEF S
<1>7. -10 * k <= Over(score, S) /\ Over(score, S) <= 10 * k /\ Over(score, S) \in Int
  <2>1. PICK lo \in Int, hi \in Int : lo = -10 /\ hi = 10
    OBVIOUS
  <2>2. lo * k <= Over(score, S) /\ Over(score, S) <= hi * k
    BY <1>3, <1>5, <2>1, OverBounds DEF k
  <2>3. Over(score, S) \in Int
    BY <1>3, <1>5, OverInt
  <2> QED
    BY <1>6, <2>1, <2>2, <2>3
<1> HIDE DEF k
<1>8. CASE k = 0
  BY <1>2, <1>8
<1>9. CASE k # 0
  <2>1. PICK m \in Int, d \in Nat \ {0}, lo \in Int, hi \in Int :
          /\ m = (Total(felt) + 10 * k) * 100 /\ d = 20 * k /\ lo = 0 /\ hi = 100
          /\ lo * d <= m /\ m <= hi * d
    BY <1>4, <1>6, <1>7, <1>9
  <2>2. RoundDiv(m, d) \in lo .. hi
    BY <2>1, RoundBounds
  <2> QED
    BY <1>2, <1>9, <2>1, <2>2
<1> QED
  BY <1>8, <1>9

LEMMA ScoreOfCall ==
  ASSUME RowsOK, NEW i \in Rows, calls[i].result # None, NEW days, CallScorePage(i, days) # None
  PROVE  CallScorePage(i, days).call \in 0 .. 100
<1> DEFINE r == calls[i].result
<1>1. calls[i].turns \in Turns /\ r \in Results(calls[i].turns)
  BY RowFacts
<1>2. /\ r.bant \in 0 .. 100 /\ r.total \in 0 .. 100
      /\ ArcOK(r.arc)
  BY <1>1, ResultRange, Zenon
<1>4. SentimentScore(r.arc) \in 0 .. 100
  BY <1>2, MoodRange, Zenon
<1>5. CallScorePage(i, days).call = CallScore(r.total, r.bant, SentimentScore(r.arc))
  BY Zenon DEF CallScorePage
<1>6. SUFFICES ASSUME NEW score, score = SentimentScore(r.arc),
                      score \in 0 .. 100
               PROVE  CallScore(r.total, r.bant, score) \in 0 .. 100
  BY <1>4, <1>5, Zenon
<1>7. SUFFICES ASSUME NEW total \in 0 .. 100, NEW bant \in 0 .. 100
               PROVE  CallScore(total, bant, score) \in 0 .. 100
  BY <1>2, Zenon
<1> QED
  BY <1>6, CallScoreRange, Zenon

\* A point of a line cut into as many equal pieces as there are slices, the last
\* one open at its end, is in one piece.
LEMMA OneSlice ==
  ASSUME NEW A \in Nat, NEW E \in Nat \ {0}
  PROVE  \E k \in 0 .. Slices - 1 : \A s \in 0 .. Slices - 1 :
           (A >= s * E /\ (A < (s + 1) * E \/ s = Slices - 1)) <=> s = k
<1> DEFINE q == A \div E
           r == A % E
           inside(s) == A >= s * E /\ (A < (s + 1) * E \/ s = Slices - 1)
<1>1. q \in Int /\ r \in Int /\ A = E * q + r /\ 0 <= r /\ r < E
  BY Division
<1> HIDE DEF q, r
<1>2. q \in Nat
  <2> SUFFICES ASSUME q <= -1 PROVE FALSE
    BY <1>1
  <2>1. E * q <= E * (-1)
    BY <1>1
  <2>2. E * (-1) = -E /\ E * q \in Int
    BY <1>1
  <2> QED
    BY <1>1, <2>1, <2>2
<1>3. \A s \in Nat : s <= q => A >= s * E
  <2> TAKE s \in Nat
  <2> HAVE s <= q
  <2>1. s * E <= q * E
    BY <1>2
  <2>2. q * E = E * q /\ q * E \in Int /\ s * E \in Int
    BY <1>2
  <2> QED
    BY <1>1, <2>1, <2>2
<1>4. \A s \in Nat : s > q => A < s * E
  <2> TAKE s \in Nat
  <2> HAVE s > q
  <2>1. (q + 1) * E <= s * E
    BY <1>2
  <2>2. (q + 1) * E = E * q + E /\ E * q \in Int /\ s * E \in Int
    BY <1>2
  <2> QED
    BY <1>1, <2>1, <2>2
<1>5. Slices \in Nat \ {0}
  BY ScoringAssumption
<1>6. \A s \in 0 .. Slices - 1 : A >= s * E <=> s <= q
  BY <1>2, <1>3, <1>4, <1>5
<1>7. \A s \in 0 .. Slices - 1 : A < (s + 1) * E <=> s + 1 > q
  <2> TAKE s \in 0 .. Slices - 1
  <2>1. s + 1 \in Nat /\ (s + 1) * E \in Int
    BY <1>5
  <2> QED
    BY <1>2, <1>3, <1>4, <2>1
<1>8. CASE q >= Slices - 1
  <2>1. \A s \in 0 .. Slices - 1 : inside(s) <=> s = Slices - 1
    BY <1>2, <1>5, <1>6, <1>7, <1>8
  <2>2. Slices - 1 \in 0 .. Slices - 1
    BY <1>5
  <2> QED
    BY <2>1, <2>2
<1>9. CASE q < Slices - 1
  <2>1. \A s \in 0 .. Slices - 1 : inside(s) <=> s = q
    BY <1>2, <1>5, <1>6, <1>7, <1>9
  <2>2. q \in 0 .. Slices - 1
    BY <1>2, <1>5, <1>9
  <2> QED
    BY <2>1, <2>2
<1> QED
  BY <1>1, <1>5, <1>8, <1>9

\* The times of a timeline: gaps, its end and the place of a turn.
Gaps(arc) == IF Cardinality(DOMAIN arc) > 2 THEN Cardinality(DOMAIN arc) - 1 ELSE 1

Sec(turns, t) == IF t \in DOMAIN turns THEN turns[t].sec ELSE None

Known(turns, arc) == {Sec(turns, t) : t \in DOMAIN arc} \ {None}

Clocked(turns, arc) == Cardinality(Known(turns, arc)) >= 2

End(turns, arc) == IF Clocked(turns, arc) THEN Max(Known(turns, arc)) ELSE Gaps(arc)

At(turns, arc, t) ==
  IF Clocked(turns, arc) /\ Sec(turns, t) # None THEN Sec(turns, t) * Gaps(arc)
  ELSE Cardinality({u \in DOMAIN arc : u < t}) * End(turns, arc)

LEMMA TimelineShows ==
  ASSUME NEW turns, NEW arc, DOMAIN arc # {}
  PROVE  /\ DOMAIN Timeline(turns, arc) = 1 .. Slices
         /\ \A i \in 1 .. Slices :
              Timeline(turns, arc)[i].turns =
                {t \in DOMAIN arc :
                   /\ At(turns, arc, t) * Slices >= (i - 1) * End(turns, arc) * Gaps(arc)
                   /\ \/ At(turns, arc, t) * Slices < ((i - 1) + 1) * End(turns, arc) * Gaps(arc)
                      \/ i - 1 = Slices - 1}
BY Zenon DEF Timeline, At, End, Clocked, Known, Sec, Gaps

\* A call takes time, and each of its turns has a place in it.
LEMMA Times ==
  ASSUME NEW turns \in Turns, NEW arc, ArcOK(arc)
  PROVE  /\ Gaps(arc) \in Nat \ {0} /\ End(turns, arc) \in Nat \ {0}
         /\ \A t \in DOMAIN arc : At(turns, arc, t) \in Nat
<1>1. PICK R : R = [sec : Nat \cup {None}] /\ Transcripts \subseteq Seq(R)
  BY AnswersAssumption
<1>2. \A t : Sec(turns, t) \in Nat \cup {None}
  <2>1. turns \in Seq(R)
    <3>1. Transcripts \subseteq Seq(R) /\ (turns \in Transcripts \/ turns = <<>>)
      BY <1>1 DEF Turns
    <3>2. <<>> \in Seq(R)
      OBVIOUS
    <3> QED
      BY <3>1, <3>2, Zenon
  <2>2. \A t \in DOMAIN turns : turns[t] \in R
    BY <2>1
  <2>3. \A x \in R : x.sec \in Nat \cup {None}
    BY <1>1
  <2> QED
    BY <2>2, <2>3 DEF Sec
<1>3. IsFiniteSet(DOMAIN arc)
  BY DEF ArcOK
<1>4. Gaps(arc) \in Nat \ {0}
  <2>1. Cardinality(DOMAIN arc) \in Nat
    BY <1>3, FS_CardinalityType
  <2> QED
    BY <2>1 DEF Gaps
<1>5. Known(turns, arc) \subseteq Nat /\ IsFiniteSet(Known(turns, arc))
  <2> DEFINE all == {Sec(turns, t) : t \in DOMAIN arc}
             sec == [t \in DOMAIN arc |-> Sec(turns, t)]
  <2>1. sec \in Surjection(DOMAIN arc, all)
    BY DEF Surjection
  <2>2. IsFiniteSet(all)
    BY <1>3, <2>1, FS_Surjection, Zenon
  <2>3. Known(turns, arc) \subseteq all
    BY DEF Known
  <2>4. Known(turns, arc) \subseteq Nat
    BY <1>2 DEF Known
  <2> HIDE DEF all, sec
  <2> QED
    BY <2>2, <2>3, <2>4, FS_Subset
<1>6. End(turns, arc) \in Nat \ {0}
  <2>1. CASE Clocked(turns, arc)
    <3> DEFINE K == Known(turns, arc)
    <3>1. Cardinality(K) >= 2
      BY <2>1 DEF Clocked
    <3>2. K # {}
      <4> HIDE DEF K
      <4> QED
        BY <3>1, FS_EmptySet
    <3>3. K \in SUBSET Int
      BY <1>5
    <3>4. Max(K) \in K /\ \A y \in K : Max(K) >= y
      <4> HIDE DEF K
      <4> QED
        BY <1>5, <3>2, <3>3, Extremes DEF K
    <3>5. Max(K) # 0
      <4> SUFFICES ASSUME Max(K) = 0 PROVE FALSE
        OBVIOUS
      <4>1. K \subseteq {0}
        <5> SUFFICES ASSUME NEW y \in K PROVE y = 0
          OBVIOUS
        <5>1. y \in Nat /\ 0 >= y
          BY <1>5, <3>4
        <5> QED
          BY <5>1
      <4>2. IsFiniteSet({0}) /\ Cardinality({0}) = 1
        BY FS_Singleton
      <4>3. Cardinality(K) <= 1
        BY <4>1, <4>2, FS_Subset
      <4>4. Cardinality(K) \in Nat
        BY <1>5, FS_CardinalityType
      <4> QED
        BY <3>1, <4>3, <4>4
    <3>6. Max(K) \in Nat
      BY <1>5, <3>4
    <3> QED
      BY <2>1, <3>5, <3>6, Zenon DEF End
  <2>2. CASE ~Clocked(turns, arc)
    BY <1>4, <2>2 DEF End
  <2> QED
    BY <2>1, <2>2
<1>7. ASSUME NEW t \in DOMAIN arc PROVE At(turns, arc, t) \in Nat
  <2>1. Sec(turns, t) \in Nat \cup {None}
    BY <1>2
  <2>2. Cardinality({u \in DOMAIN arc : u < t}) \in Nat
    BY <1>3, FS_Subset, FS_CardinalityType
  <2>3. PICK sec \in Nat \cup {None}, rank \in Nat, gaps \in Nat, end \in Nat :
          /\ sec = Sec(turns, t) /\ rank = Cardinality({u \in DOMAIN arc : u < t})
          /\ gaps = Gaps(arc) /\ end = End(turns, arc)
    BY <1>4, <1>6, <2>1, <2>2
  <2>4. At(turns, arc, t) = IF Clocked(turns, arc) /\ sec # None THEN sec * gaps ELSE rank * end
    BY <2>3, Zenon DEF At
  <2>5. sec # None => sec * gaps \in Nat
    BY <2>1, <2>3
  <2>6. rank * end \in Nat
    OBVIOUS
  <2> QED
    BY <2>4, <2>5, <2>6
<1> QED
  BY <1>4, <1>6, <1>7

\* Every turn of the arc stands in one slice.
LEMMA SliceOfTurn ==
  ASSUME NEW turns \in Turns, NEW arc, ArcOK(arc), NEW t \in DOMAIN arc
  PROVE  LET slices == Timeline(turns, arc)
         IN Cardinality({s \in DOMAIN slices : t \in slices[s].turns}) = 1
<1> DEFINE slices == Timeline(turns, arc)
<1>1. PICK a \in Nat, end \in Nat \ {0}, gaps \in Nat \ {0} :
        /\ a = At(turns, arc, t) /\ end = End(turns, arc) /\ gaps = Gaps(arc)
  BY Times
<1>2. PICK A \in Nat, E \in Nat \ {0} : A = a * Slices /\ E = end * gaps
  BY ScoringAssumption
<1>3. \A i \in 1 .. Slices :
        t \in slices[i].turns
          <=> A >= (i - 1) * end * gaps /\ (A < ((i - 1) + 1) * end * gaps \/ i - 1 = Slices - 1)
  <2> TAKE i \in 1 .. Slices
  <2>1. t \in slices[i].turns <=>
          /\ At(turns, arc, t) * Slices >= (i - 1) * End(turns, arc) * Gaps(arc)
          /\ \/ At(turns, arc, t) * Slices < ((i - 1) + 1) * End(turns, arc) * Gaps(arc)
             \/ i - 1 = Slices - 1
    <3>1. DOMAIN arc # {}
      OBVIOUS
    <3>2. slices[i].turns =
            {u \in DOMAIN arc :
               /\ At(turns, arc, u) * Slices >= (i - 1) * End(turns, arc) * Gaps(arc)
               /\ \/ At(turns, arc, u) * Slices < ((i - 1) + 1) * End(turns, arc) * Gaps(arc)
                  \/ i - 1 = Slices - 1}
      BY <3>1, TimelineShows
    <3> HIDE DEF slices
    <3> QED
      BY <3>2, Zenon
  <2>2. A = At(turns, arc, t) * Slices
    BY <1>1, <1>2, Zenon
  <2> QED
    BY <1>1, <2>1, <2>2, Zenon
<1>4. DOMAIN slices = 1 .. Slices
  BY TimelineShows, Zenon
<1>5. \A n \in Int : n * end * gaps = n * E
  BY <1>2
<1>6. Slices \in Nat \ {0}
  BY ScoringAssumption
<1>7. PICK k \in 0 .. Slices - 1 : \A s \in 0 .. Slices - 1 :
        (A >= s * E /\ (A < (s + 1) * E \/ s = Slices - 1)) <=> s = k
  BY OneSlice
<1> HIDE DEF slices
<1>8. ASSUME NEW i \in 1 .. Slices PROVE t \in slices[i].turns <=> i = k + 1
  <2>1. PICK s \in 0 .. Slices - 1 : s = i - 1
    BY <1>6
  <2>2. s * end * gaps = s * E /\ (s + 1) * end * gaps = (s + 1) * E
    BY <1>5, <1>6
  <2>3. t \in slices[i].turns <=> A >= s * end * gaps /\ (A < (s + 1) * end * gaps \/ s = Slices - 1)
    BY <1>3, <2>1
  <2>4. t \in slices[i].turns <=> s = k
    BY <1>7, <2>2, <2>3, Zenon
  <2> QED
    BY <1>6, <2>1, <2>4
<1>9. k + 1 \in 1 .. Slices
  BY <1>6
<1>10. {s \in DOMAIN slices : t \in slices[s].turns} = {k + 1}
  BY <1>4, <1>8, <1>9
<1>11. Cardinality({s \in DOMAIN slices : t \in slices[s].turns}) = 1
  BY <1>10, FS_Singleton
<1> QED
  BY <1>11 DEF slices

\* Nothing the pages count is left out or counted twice, for any transcripts, any
\* answers of the model and any thresholds: the parts of every table add up.
THEOREM NothingLost == Spec => []NothingUncounted
<1>1. RowsInv => NothingUncounted
  <2> SUFFICES ASSUME RowsInv PROVE NothingUncounted
    OBVIOUS
  <2>1. RowsOK /\ LeadsOK
    BY DEF RowsInv
  <2>2. ScoresInRange
    <3> SUFFICES ASSUME NEW i \in Rows, calls[i].result # None
                 PROVE  calls[i].result.bant \in 0 .. 100 /\ calls[i].result.total \in 0 .. 100
      BY DEF ScoresInRange
    <3> QED
      BY <2>1, RowFacts, ResultRange, Zenon
  <2>3. \A c \in DOMAIN LatestScores :
          Cardinality({b \in Bands : b[1] <= LatestScores[c] /\ LatestScores[c] <= b[2]}) = 1
    BY <2>1, BandsCount, Zenon
  <2>4. Total([b \in Bands |-> BandsPage[b].count]) = Cardinality(DOMAIN LatestScores)
    BY <2>1, BandsCount, Zenon
  <2>5. \A t \in Telecallers \cup {None} :
          Total(InboxPage(t).header.buckets) = Cardinality(DOMAIN InboxPage(t).cards)
    BY <2>1, InboxCount, Zenon
  <2>6. \A t \in Telecallers :
          Total(DetailPage(t, None, None).daily)
            = Cardinality({i \in By(t) : Day(calls[i].at) > Today - TrendDays
                                           /\ Day(calls[i].at) <= Today})
    BY <2>1, DaysCount, Zenon
  <2>7. \A c \in Open :
          /\ DaysSince(leads[c].updated) >= Alerts.wastage_days
          /\ DaysSince(leads[c].updated) >= Alerts.zombie_days
          => \/ c \in Wasted \cup Zombies
             \/ leads[c].stage = "New" /\ \E i \in Rows : calls[i].contact = c
    BY <2>1, LeftAlone, Zenon
  <2>8. ASSUME NEW i \in Rows, calls[i].result # None
        PROVE  /\ CallScorePage(i, TrendDays) # None => CallScorePage(i, TrendDays).call \in 0 .. 100
               /\ UNION {Windows(Len(calls[i].turns))[w] : w \in DOMAIN Windows(Len(calls[i].turns))}
                    = DOMAIN calls[i].turns
               /\ \A t \in DOMAIN calls[i].result.arc :
                    LET slices == Timeline(calls[i].turns, calls[i].result.arc)
                    IN Cardinality({s \in DOMAIN slices : t \in slices[s].turns}) = 1
    <3>1. calls[i].turns \in Turns /\ calls[i].result \in Results(calls[i].turns)
      BY <2>1, <2>8, RowFacts
    <3>2. ArcOK(calls[i].result.arc)
      BY <3>1, ResultRange, Zenon
    <3>3. CallScorePage(i, TrendDays) # None => CallScorePage(i, TrendDays).call \in 0 .. 100
      BY <2>1, <2>8, ScoreOfCall, Zenon
    <3>4. \A t \in DOMAIN calls[i].result.arc :
            LET slices == Timeline(calls[i].turns, calls[i].result.arc)
            IN Cardinality({s \in DOMAIN slices : t \in slices[s].turns}) = 1
      BY <3>1, <3>2, SliceOfTurn, Zenon
    <3>5. Len(calls[i].turns) \in Nat /\ DOMAIN calls[i].turns = 1 .. Len(calls[i].turns)
      BY <3>1, AnswersAssumption DEF Turns
    <3>6. UNION {Windows(Len(calls[i].turns))[w] : w \in DOMAIN Windows(Len(calls[i].turns))}
            = DOMAIN calls[i].turns
      BY <3>5, WindowsCover, Zenon
    <3> QED
      BY <3>3, <3>4, <3>6, Zenon
  <2> QED
    BY <2>1, <2>2, <2>3, <2>4, <2>5, <2>6, <2>7, <2>8, VerdictsCount, AgesCount, Zenon
       DEF NothingUncounted
<1> QED
  BY <1>1, RowsAlways, PTL
=============================================================================
