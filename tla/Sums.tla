-------------------------------- MODULE Sums --------------------------------
(***************************************************************************)
(* What the sums of FiniteSetsExt and Functions are, for every finite set: *)
(* each element is counted once, in whatever order the fold takes them,    *)
(* and a sum of natural numbers only grows when its terms or its set do.   *)
(* The proofs take a smallest subset for which the fact would fail.        *)
(***************************************************************************)
EXTENDS Integers, FiniteSetsExt, FiniteSetTheorems, WellFoundedInduction, TLAPS

\* The element a fold takes out of s.
First(s) == CHOOSE x \in s : TRUE

\* h sums w over the subsets of S, as the fold of S does.
Adds(h, w, S) ==
    h = [s \in SUBSET S |-> IF s = {} THEN 0 ELSE w[First(s)] + h[s \ {First(s)}]]

LEMMA FirstIn == \A s : s # {} => First(s) \in s
BY DEF First

\* Some finite sets have one that includes no other of them.
LEMMA SmallestSet ==
    ASSUME NEW S, IsFiniteSet(S), NEW T, T \subseteq SUBSET S, T # {}
    PROVE  \E t \in T : \A u \in T : u \subseteq t => u = t
<1>1. T \subseteq FiniteSubsetsOf(S)
    BY FS_Subset DEF FiniteSubsetsOf
<1>2. \E t \in T : \A u \in T : ~(<<u, t>> \in StrictSubsetOrdering(S))
    BY <1>1, FS_StrictSubsetOrderingWellFounded, WFMin
<1>3. \A u, t \in SUBSET S : u \subseteq t /\ u # t => <<u, t>> \in StrictSubsetOrdering(S)
    BY DEF StrictSubsetOrdering
<1> QED BY <1>2, <1>3

\* What a sum is, a subset at a time.
LEMMA SumOfNone ==
    ASSUME NEW h, NEW w, NEW S, Adds(h, w, S)
    PROVE  h[{}] = 0
BY DEF Adds

LEMMA SumOfSome ==
    ASSUME NEW h, NEW w, NEW S, Adds(h, w, S), NEW s, s \subseteq S, s # {}
    PROVE  /\ First(s) \in s
           /\ s \ {First(s)} \subseteq S
           /\ s \ {First(s)} # s
           /\ h[s] = w[First(s)] + h[s \ {First(s)}]
<1>1. First(s) \in s
    BY FirstIn
<1>2. h[s] = IF s = {} THEN 0 ELSE w[First(s)] + h[s \ {First(s)}]
    BY DEF Adds
<1> QED BY <1>1, <1>2

\* Two sums of the same numbers agree where both are defined.
LEMMA AddsAgree ==
    ASSUME NEW S, IsFiniteSet(S), NEW R, NEW w, NEW h, NEW k,
           Adds(h, w, S), Adds(k, w, R)
    PROVE  \A s \in SUBSET S : s \subseteq R => h[s] = k[s]
<1> DEFINE T == {s \in SUBSET S : s \subseteq R /\ h[s] # k[s]}
<1> SUFFICES ASSUME T # {} PROVE FALSE
    OBVIOUS
<1>0. T \subseteq SUBSET S
    OBVIOUS
<1>1. PICK t \in T : \A u \in T : u \subseteq t => u = t
    <2> HIDE DEF T
    <2> QED BY <1>0, SmallestSet
<1>2. h[{}] = 0 /\ k[{}] = 0
    BY SumOfNone
<1>3. t # {}
    BY <1>2
<1> DEFINE u == t \ {First(t)}
<1>4. /\ u \subseteq t /\ u # t
      /\ h[t] = w[First(t)] + h[u]
      /\ k[t] = w[First(t)] + k[u]
    <2>1. t \subseteq S /\ t \subseteq R
        OBVIOUS
    <2> HIDE DEF T
    <2>2. /\ u \subseteq t /\ u # t
          /\ h[t] = w[First(t)] + h[u]
        BY <1>3, <2>1, SumOfSome
    <2>3. k[t] = w[First(t)] + k[u]
        BY <1>3, <2>1, SumOfSome
    <2> QED BY <2>2, <2>3
<1>5. u \notin T
    BY <1>1, <1>4
<1>6. h[u] = k[u]
    BY <1>5
<1> QED BY <1>4, <1>6

\* The recursion of the fold has a solution.
LEMMA AddsExists ==
    ASSUME NEW S, IsFiniteSet(S), NEW w
    PROVE  \E h : Adds(h, w, S)
<1> DEFINE T == {s \in SUBSET S : ~\E h : Adds(h, w, s)}
<1> SUFFICES ASSUME T # {} PROVE FALSE
    OBVIOUS
<1>0. T \subseteq SUBSET S
    OBVIOUS
<1>1. PICK t \in T : \A u \in T : u \subseteq t => u = t
    <2> HIDE DEF T
    <2> QED BY <1>0, SmallestSet
<1> DEFINE Of(s) == CHOOSE h : Adds(h, w, s)
           Rest(s) == s \ {First(s)}
           g == [s \in SUBSET t |-> IF s = {} THEN 0
                                    ELSE w[First(s)] + Of(Rest(s))[Rest(s)]]
<1>2. \A s \in SUBSET t : s # t => Adds(Of(s), w, s)
    <2>1. \A s \in SUBSET t : s # t => s \notin T
        BY <1>1
    <2>2. \A s \in SUBSET t : s # t => \E h : Adds(h, w, s)
        BY <2>1
    <2> QED BY <2>2
<1>3. \A s \in SUBSET t : s # t => g[s] = Of(s)[s]
    <2> SUFFICES ASSUME NEW s \in SUBSET t, s # t PROVE g[s] = Of(s)[s]
        OBVIOUS
    <2>1. Adds(Of(s), w, s)
        BY <1>2
    <2>2. CASE s = {}
        BY <2>1, <2>2, SumOfNone
    <2>3. CASE s # {}
        <3>1. /\ Rest(s) \in SUBSET s /\ Rest(s) # t
              /\ Of(s)[s] = w[First(s)] + Of(s)[Rest(s)]
            BY <2>1, <2>3, SumOfSome
        <3>2. Adds(Of(Rest(s)), w, Rest(s))
            BY <1>2, <3>1
        <3>3. IsFiniteSet(Rest(s))
            BY <3>1, FS_Subset
        <3>4. Of(Rest(s))[Rest(s)] = Of(s)[Rest(s)]
            BY <2>1, <3>1, <3>2, <3>3, AddsAgree
        <3> QED BY <2>3, <3>1, <3>4
    <2> QED BY <2>2, <2>3
<1>4. \A s \in SUBSET t : s # {} => Of(Rest(s))[Rest(s)] = g[Rest(s)]
    BY <1>3, FirstIn
<1>5. Adds(g, w, t)
    <2> DEFINE v(s) == IF s = {} THEN 0 ELSE w[First(s)] + Of(Rest(s))[Rest(s)]
               n(s) == IF s = {} THEN 0 ELSE w[First(s)] + g[Rest(s)]
    <2>1. \A s \in SUBSET t : v(s) = n(s)
        <3> HIDE DEF Of, Rest, g
        <3> QED BY <1>4
    <2>2. g = [s \in SUBSET t |-> v(s)]
        OBVIOUS
    <2>3. g = [s \in SUBSET t |-> n(s)]
        <3> HIDE DEF g, v, n
        <3> QED BY <2>1, <2>2
    <2> QED BY <2>3, Zenon DEF Adds
<1> QED BY <1>5

-----------------------------------------------------------------------------
(* The value of a sum, whatever element the fold took first.               *)

LEMMA SumType ==
    ASSUME NEW S, IsFiniteSet(S), NEW w, \A x \in S : w[x] \in Int,
           NEW h, Adds(h, w, S)
    PROVE  \A s \in SUBSET S : h[s] \in Int
<1> DEFINE T == {s \in SUBSET S : h[s] \notin Int}
<1> SUFFICES ASSUME T # {} PROVE FALSE
    OBVIOUS
<1>0. T \subseteq SUBSET S
    OBVIOUS
<1>1. PICK t \in T : \A u \in T : u \subseteq t => u = t
    <2> HIDE DEF T
    <2> QED BY <1>0, SmallestSet
<1>2. t \subseteq S /\ t # {} /\ h[t] \notin Int
    <2>1. h[{}] = 0
        BY SumOfNone
    <2> QED BY <2>1
<1> DEFINE u == t \ {First(t)}
<1>3. \A s : s \subseteq t /\ s # t => h[s] \in Int
    BY <1>1
<1> HIDE DEF T
<1>4. /\ First(t) \in t /\ u \subseteq S /\ u # t
      /\ h[t] = w[First(t)] + h[u]
    BY <1>2, SumOfSome
<1>5. h[u] \in Int /\ w[First(t)] \in Int
    BY <1>2, <1>3, <1>4
<1> QED BY <1>2, <1>4, <1>5

\* Any element may be counted first.
LEMMA AnyFirst ==
    ASSUME NEW S, IsFiniteSet(S), NEW w, \A x \in S : w[x] \in Int,
           NEW h, Adds(h, w, S)
    PROVE  \A s \in SUBSET S : \A y \in s : h[s] = w[y] + h[s \ {y}]
<1> DEFINE T == {s \in SUBSET S : \E y \in s : h[s] # w[y] + h[s \ {y}]}
<1> SUFFICES ASSUME T # {} PROVE FALSE
    OBVIOUS
<1>0. T \subseteq SUBSET S
    OBVIOUS
<1>1. PICK t \in T : \A u \in T : u \subseteq t => u = t
    <2> HIDE DEF T
    <2> QED BY <1>0, SmallestSet
<1>2. PICK y \in t : h[t] # w[y] + h[t \ {y}]
    OBVIOUS
<1>3. t \subseteq S /\ t # {}
    BY <1>2
<1>4. \A s \in SUBSET S : s \subseteq t /\ s # t => \A z \in s : h[s] = w[z] + h[s \ {z}]
    BY <1>1
<1>5. PICK x \in t : h[t] = w[x] + h[t \ {x}]
    <2> HIDE DEF T
    <2>1. First(t) \in t /\ h[t] = w[First(t)] + h[t \ {First(t)}]
        BY <1>3, SumOfSome
    <2> QED BY <2>1
<1>6. x # y
    BY <1>2, <1>5
<1> HIDE DEF T
<1>7. h[t \ {x}] = w[y] + h[(t \ {x}) \ {y}]
    BY <1>3, <1>4, <1>6
<1>8. h[t \ {y}] = w[x] + h[(t \ {y}) \ {x}]
    BY <1>3, <1>4, <1>6
<1>9. (t \ {x}) \ {y} = (t \ {y}) \ {x}
    OBVIOUS
<1> DEFINE a == h[(t \ {x}) \ {y}]
<1>10. w[x] \in Int /\ w[y] \in Int /\ a \in Int
    <2>1. (t \ {x}) \ {y} \in SUBSET S
        BY <1>3
    <2>2. \A s \in SUBSET S : h[s] \in Int
        BY SumType
    <2> QED BY <1>3, <2>1, <2>2
<1>11. h[t] = w[x] + (w[y] + a)
    BY <1>5, <1>7
<1>12. h[t] # w[y] + (w[x] + a)
    BY <1>2, <1>8, <1>9
<1> HIDE DEF a
<1> QED BY <1>10, <1>11, <1>12

LEMMA TakeOut ==
    ASSUME NEW S, IsFiniteSet(S), NEW w, \A x \in S : w[x] \in Int,
           NEW h, Adds(h, w, S), NEW s, s \subseteq S, NEW y \in s
    PROVE  h[s] = w[y] + h[s \ {y}] /\ w[y] \in Int /\ h[s \ {y}] \in Int
<1>1. s \in SUBSET S /\ s \ {y} \in SUBSET S
    OBVIOUS
<1>2. h[s] = w[y] + h[s \ {y}]
    BY <1>1, AnyFirst
<1>3. h[s \ {y}] \in Int
    BY <1>1, SumType
<1> QED BY <1>2, <1>3

\* A sum is one term and the sum of the rest.
LEMMA Rest ==
    ASSUME NEW S, IsFiniteSet(S), NEW w, \A x \in S : w[x] \in Int,
           NEW h, Adds(h, w, S), NEW s, s \subseteq S, NEW y \in s,
           NEW r, \A z : z \in r <=> z \in s /\ z # y
    PROVE  h[s] = w[y] + h[r] /\ h[r] \in Int
<1>1. h[s] = w[y] + h[s \ {y}] /\ h[s \ {y}] \in Int
    BY TakeOut
<1>2. s \ {y} = r
    OBVIOUS
<1>3. h[s \ {y}] = h[r]
    BY <1>2, Zenon
<1> QED BY <1>1, <1>3

\* The sum of two terms.
LEMMA SumOfTwo ==
    ASSUME NEW S, NEW x \in S, NEW y \in S, x # y, \A z \in S : z = x \/ z = y,
           NEW w, w[x] \in Int, w[y] \in Int, NEW h, Adds(h, w, S)
    PROVE  h[S] = w[x] + w[y]
<1>1. IsFiniteSet(S)
    <2>1. IsFiniteSet({x}) /\ S = {x} \cup {y}
        BY FS_Singleton
    <2> QED BY <2>1, FS_AddElement
<1>2. \A z \in S : w[z] \in Int
    OBVIOUS
<1> DEFINE One == {y}
<1>3. /\ One \subseteq S /\ S \subseteq S /\ y \in One
      /\ \A z : z \in One <=> z \in S /\ z # x
      /\ \A z : z \in {} <=> z \in One /\ z # y
    OBVIOUS
<1> HIDE DEF One
<1>4. h[S] = w[x] + h[One]
    BY <1>1, <1>2, <1>3, Rest
<1>5. h[One] = w[y] + h[{}]
    BY <1>1, <1>2, <1>3, Rest
<1>6. h[{}] = 0
    BY SumOfNone
<1> QED BY <1>4, <1>5, <1>6

\* As many equal terms as there are elements.
LEMMA SumOfEqual ==
    ASSUME NEW S, IsFiniteSet(S), NEW n \in Int, NEW w, \A x \in S : w[x] = n,
           NEW h, Adds(h, w, S)
    PROVE  h[S] = n * Cardinality(S)
<1> DEFINE T == {s \in SUBSET S : h[s] # n * Cardinality(s)}
<1> SUFFICES ASSUME T # {} PROVE FALSE
    OBVIOUS
<1>0. T \subseteq SUBSET S
    OBVIOUS
<1>1. PICK t \in T : \A u \in T : u \subseteq t => u = t
    <2> HIDE DEF T
    <2> QED BY <1>0, SmallestSet
<1>2. t \subseteq S /\ h[t] # n * Cardinality(t)
    OBVIOUS
<1>3. \A u \in SUBSET S : u \subseteq t /\ u # t => h[u] = n * Cardinality(u)
    BY <1>1
<1> HIDE DEF T
<1>4. t # {}
    BY <1>2, SumOfNone, FS_EmptySet
<1> DEFINE u == t \ {First(t)}
<1>5. First(t) \in t /\ u \subseteq S /\ u # t /\ h[t] = w[First(t)] + h[u]
    BY <1>2, <1>4, SumOfSome
<1>6. h[u] = n * Cardinality(u)
    BY <1>3, <1>5
<1>7. IsFiniteSet(t)
    BY <1>2, FS_Subset
<1>8. IsFiniteSet(u) /\ Cardinality(u) = Cardinality(t) - 1
    BY <1>5, <1>7, FS_RemoveElement
<1>9. Cardinality(t) \in Nat
    BY <1>7, FS_CardinalityType
<1>10. h[t] = n + h[u]
    BY <1>2, <1>5
<1> HIDE DEF u
<1>11. n + n * (Cardinality(t) - 1) = n * Cardinality(t)
    BY <1>9
<1> QED BY <1>2, <1>6, <1>8, <1>10, <1>11

\* More terms, and larger ones, never make a smaller sum.
LEMMA SumGrows ==
    ASSUME NEW S, NEW R, IsFiniteSet(S), IsFiniteSet(R), S \subseteq R,
           NEW w, NEW v, NEW h, NEW k, Adds(h, w, S), Adds(k, v, R),
           \A x \in S : w[x] \in Nat /\ w[x] <= v[x],
           \A x \in R : v[x] \in Nat
    PROVE  h[S] <= k[R]
<1> DEFINE T == {t \in SUBSET R : h[t \cap S] > k[t]}
<1> SUFFICES ASSUME T # {} PROVE FALSE
    <2>1. S = R \cap S /\ R \in SUBSET R
        OBVIOUS
    <2>2. R \notin T
        OBVIOUS
    <2>3. h[S] \in Int /\ k[R] \in Int
        BY SumType
    <2> QED BY <2>1, <2>2, <2>3
<1>0. T \subseteq SUBSET R
    OBVIOUS
<1>1. PICK t \in T : \A u \in T : u \subseteq t => u = t
    <2> HIDE DEF T
    <2> QED BY <1>0, SmallestSet
<1>2. t \in SUBSET R /\ h[t \cap S] > k[t]
    OBVIOUS
<1>3. \A u \in SUBSET R : u \subseteq t /\ u # t => ~(h[u \cap S] > k[u])
    BY <1>1
<1> HIDE DEF T
<1>4. \A s \in SUBSET R : h[s \cap S] \in Int /\ k[s] \in Int
    BY SumType
<1>5. t # {}
    <2>1. h[{}] = 0 /\ k[{}] = 0
        BY SumOfNone
    <2> QED BY <1>2, <2>1
<1>6. PICK x \in t : k[t] = v[x] + k[t \ {x}]
    <2>1. First(t) \in t /\ k[t] = v[First(t)] + k[t \ {First(t)}]
        BY <1>2, <1>5, SumOfSome
    <2> QED BY <2>1
<1> DEFINE u == t \ {x}
<1>7. u \in SUBSET R /\ h[u \cap S] <= k[u]
    BY <1>2, <1>3, <1>4, <1>6
<1>8. v[x] \in Nat
    BY <1>2
<1>9. CASE x \in S
    <2>1. h[t \cap S] = w[x] + h[(t \cap S) \ {x}]
        BY <1>9, AnyFirst
    <2>2. (t \cap S) \ {x} = u \cap S
        OBVIOUS
    <2>3. w[x] \in Nat /\ w[x] <= v[x]
        BY <1>9
    <2>4. /\ h[t \cap S] = w[x] + h[u \cap S] /\ k[t] = v[x] + k[u]
          /\ h[u \cap S] \in Int /\ k[u] \in Int
        BY <1>4, <1>6, <1>7, <2>1, <2>2
    <2> HIDE DEF u
    <2> QED BY <1>2, <1>7, <1>8, <2>3, <2>4
<1>10. CASE x \notin S
    <2>1. t \cap S = u \cap S
        BY <1>10
    <2>2. /\ h[t \cap S] = h[u \cap S] /\ k[t] = v[x] + k[u]
          /\ h[u \cap S] \in Int /\ k[u] \in Int
        BY <1>4, <1>6, <1>7, <2>1
    <2> HIDE DEF u
    <2> QED BY <1>2, <1>7, <1>8, <2>2
<1> QED BY <1>9, <1>10

-----------------------------------------------------------------------------
(* The sums of the community modules.                                      *)

\* The sum of a function over its domain.
LEMMA SumFunctionAdds ==
    ASSUME NEW f, IsFiniteSet(DOMAIN f)
    PROVE  \E h : Adds(h, f, DOMAIN f) /\ SumFunction(f) = h[DOMAIN f]
<1> DEFINE S == DOMAIN f
           sum == CHOOSE h : h = [s \in SUBSET S |->
                      IF s = {} THEN 0
                      ELSE f[CHOOSE x \in s : TRUE] + h[s \ {CHOOSE x \in s : TRUE}]]
<1>1. SumFunction(f) = sum[S]
    BY Zenon DEF SumFunction, SumFunctionOnSet, FoldFunctionOnSet, MapThenFoldSet
<1>2. sum = CHOOSE h : Adds(h, f, S)
    BY Zenon DEF Adds, First
<1>3. Adds(sum, f, S)
    BY <1>2, AddsExists, Zenon
<1> QED BY <1>1, <1>3

\* It is a natural number when all its terms are.
LEMMA SumFunctionNat ==
    ASSUME NEW f, IsFiniteSet(DOMAIN f), \A x \in DOMAIN f : f[x] \in Nat
    PROVE  SumFunction(f) \in Nat
<1>1. PICK h : Adds(h, f, DOMAIN f) /\ SumFunction(f) = h[DOMAIN f]
    BY SumFunctionAdds
<1>2. h[DOMAIN f] \in Int
    BY <1>1, SumType
<1>3. PICK k : Adds(k, f, {})
    BY FS_EmptySet, AddsExists
<1>4. k[{}] <= h[DOMAIN f]
    BY <1>1, <1>3, FS_EmptySet, SumGrows
<1>5. k[{}] = 0
    BY <1>3, SumOfNone
<1> QED BY <1>1, <1>2, <1>4, <1>5

\* It only grows when terms are added or grow.
LEMMA SumFunctionGrows ==
    ASSUME NEW f, NEW g, IsFiniteSet(DOMAIN f), IsFiniteSet(DOMAIN g),
           DOMAIN f \subseteq DOMAIN g,
           \A x \in DOMAIN f : f[x] \in Nat /\ f[x] <= g[x],
           \A x \in DOMAIN g : g[x] \in Nat
    PROVE  SumFunction(f) <= SumFunction(g)
<1>1. PICK h : Adds(h, f, DOMAIN f) /\ SumFunction(f) = h[DOMAIN f]
    BY SumFunctionAdds
<1>2. PICK k : Adds(k, g, DOMAIN g) /\ SumFunction(g) = k[DOMAIN g]
    BY SumFunctionAdds
<1> QED BY <1>1, <1>2, SumGrows
=============================================================================
