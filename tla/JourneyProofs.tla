---------------------------- MODULE JourneyProofs ----------------------------
(***************************************************************************)
(* What Journey.tla says of a student, for any texts and any number of     *)
(* days.                                                                   *)
(***************************************************************************)
EXTENDS Journey, Sums

-----------------------------------------------------------------------------
(* Finite sets of numbers. *)

\* A set of numbers between two bounds has a least and a greatest one.
LEMMA LeastIn ==
    ASSUME NEW a \in Int, NEW b \in Int, NEW T, T \subseteq a .. b, T # {}
    PROVE  \E t \in T : \A u \in T : t <= u
<1> DEFINE F == {a .. t : t \in T}
           S == a .. b
<1>1. F \subseteq SUBSET S /\ F # {}
    <2>1. PICK t \in T : TRUE
        OBVIOUS
    <2>2. \A f \in F : f \subseteq S
        OBVIOUS
    <2> QED BY <2>1, <2>2
<1>2. IsFiniteSet(S)
    BY FS_Interval
<1>3. PICK f \in F : \A g \in F : g \subseteq f => g = f
    <2> HIDE DEF F, S
    <2> QED BY <1>1, <1>2, SmallestSet
<1>4. PICK t \in T : f = a .. t
    OBVIOUS
<1>5. \A u \in T : t <= u
    <2> SUFFICES ASSUME NEW u \in T, u < t PROVE FALSE
        OBVIOUS
    <2>1. a .. u \subseteq a .. t /\ a .. u \in F
        OBVIOUS
    <2>2. a .. u = a .. t
        BY <1>3, <1>4, <2>1
    <2>3. t \in a .. t /\ t \notin a .. u
        OBVIOUS
    <2> QED BY <2>2, <2>3
<1> QED BY <1>5

\* The greatest one.
LEMMA GreatestIn ==
    ASSUME NEW a \in Int, NEW b \in Int, NEW T, T \subseteq a .. b, T # {}
    PROVE  \E t \in T : \A u \in T : u <= t
<1> DEFINE F == {t .. b : t \in T}
           S == a .. b
<1>1. F \subseteq SUBSET S /\ F # {}
    <2>1. PICK t \in T : TRUE
        OBVIOUS
    <2>2. \A f \in F : f \subseteq S
        OBVIOUS
    <2> QED BY <2>1, <2>2
<1>2. IsFiniteSet(S)
    BY FS_Interval
<1>3. PICK f \in F : \A g \in F : g \subseteq f => g = f
    <2> HIDE DEF F, S
    <2> QED BY <1>1, <1>2, SmallestSet
<1>4. PICK t \in T : f = t .. b
    OBVIOUS
<1>5. \A u \in T : u <= t
    <2> SUFFICES ASSUME NEW u \in T, u > t PROVE FALSE
        OBVIOUS
    <2>1. u .. b \subseteq t .. b /\ u .. b \in F
        OBVIOUS
    <2>2. u .. b = t .. b
        BY <1>3, <1>4, <2>1
    <2>3. t \in t .. b /\ t \notin u .. b
        OBVIOUS
    <2> QED BY <2>2, <2>3
<1> QED BY <1>5

-----------------------------------------------------------------------------
(* The loop of the current streak. *)

\* h counts, for each day from two days before the first, the days in a row that end there.
Walks(h, days, c) == h = [d \in -2 .. c |-> IF d \in days THEN 1 + h[d - 1] ELSE 0]

\* The last day without practice, up to d.
Break(days, d, m) == m \in -2 .. d /\ m \notin days /\ \A k \in m + 1 .. d : k \in days

\* Going back from a day one comes to a break.
LEMMA BreakIs ==
    ASSUME NEW days, days \subseteq Nat, NEW d \in Int, -2 <= d
    PROVE  \E m : Break(days, d, m)
<1> DEFINE T == {m \in -2 .. d : m \notin days}
<1>1. T \subseteq -2 .. d /\ -2 \in T /\ -2 \in Int
    OBVIOUS
<1>2. PICK m \in T : \A k \in T : k <= m
    <2> HIDE DEF T
    <2> QED BY <1>1, GreatestIn
<1> QED BY <1>2 DEF Break

\* There is one such break.
LEMMA BreakOnce ==
    ASSUME NEW days, NEW d \in Int, NEW m, NEW k, Break(days, d, m), Break(days, d, k)
    PROVE  m = k
BY DEF Break

\* There is such a function.
LEMMA WalksExist ==
    ASSUME NEW days, days \subseteq Nat, NEW c \in Int
    PROVE  \E h : Walks(h, days, c)
<1> DEFINE m(d) == CHOOSE m : Break(days, d, m)
           g == [d \in -2 .. c |-> d - m(d)]
<1>1. \A d \in -2 .. c : Break(days, d, m(d))
    <2>1. ASSUME NEW d \in -2 .. c PROVE \E k : Break(days, d, k)
        <3>1. d \in Int /\ -2 <= d
            OBVIOUS
        <3> QED BY <3>1, BreakIs
    <2> QED BY <2>1, Zenon
<1>2. \A d \in -2 .. c : g[d] = IF d \in days THEN 1 + g[d - 1] ELSE 0
    <2> SUFFICES ASSUME NEW d \in -2 .. c PROVE g[d] = IF d \in days THEN 1 + g[d - 1] ELSE 0
        OBVIOUS
    <2>1. g[d] = d - m(d)
        OBVIOUS
    <2>2. CASE d \in days
        <3>1. d - 1 \in -2 .. c
            BY <2>2
        <3>2. g[d - 1] = (d - 1) - m(d - 1)
            BY <3>1
        <3>3. Break(days, d - 1, m(d - 1)) /\ Break(days, d, m(d))
            BY <1>1, <3>1
        <3> HIDE DEF m, g
        <3>4. Break(days, d, m(d - 1))
            BY <2>2, <3>1, <3>3 DEF Break
        <3>5. m(d) = m(d - 1)
            BY <3>3, <3>4, BreakOnce
        <3>6. m(d - 1) \in Int
            BY <3>3 DEF Break
        <3> QED BY <2>1, <2>2, <3>2, <3>5, <3>6
    <2>3. CASE d \notin days
        <3>1. Break(days, d, m(d)) /\ Break(days, d, d)
            BY <1>1, <2>3 DEF Break
        <3> HIDE DEF m, g
        <3>2. m(d) = d
            BY <3>1, BreakOnce
        <3> QED BY <2>1, <2>3, <3>2
    <2> QED BY <2>2, <2>3
<1>3. Walks(g, days, c)
    <2> DEFINE v(d) == d - m(d)
               n(d) == IF d \in days THEN 1 + g[d - 1] ELSE 0
    <2>1. \A d \in -2 .. c : v(d) = n(d)
        BY <1>2
    <2>2. g = [d \in -2 .. c |-> v(d)]
        OBVIOUS
    <2>3. g = [d \in -2 .. c |-> n(d)]
        <3> HIDE DEF g, v, n
        <3> QED BY <2>1, <2>2
    <2> QED BY <2>3, Zenon DEF Walks
<1> QED BY <1>3

\* It counts the days since the break.
LEMMA WalksIs ==
    ASSUME NEW days, days \subseteq Nat, NEW c \in Int, NEW h, Walks(h, days, c)
    PROVE  \A d \in -2 .. c : h[d] \in Nat /\ InARow(days, h[d], d) /\ d - h[d] \notin days
<1> DEFINE Good(d) == h[d] \in Nat /\ InARow(days, h[d], d) /\ d - h[d] \notin days
           T == {d \in -2 .. c : ~Good(d)}
<1> SUFFICES ASSUME T # {} PROVE FALSE
    OBVIOUS
<1>1. PICK d \in T : \A k \in T : d <= k
    <2>1. T \subseteq -2 .. c /\ -2 \in Int
        OBVIOUS
    <2> HIDE DEF T
    <2> QED BY <2>1, LeastIn
<1>2. d \in -2 .. c /\ ~Good(d)
    BY <1>1
<1>3. h[d] = IF d \in days THEN 1 + h[d - 1] ELSE 0
    BY <1>2 DEF Walks
<1>4. CASE d \in days
    <2>1. d - 1 \in -2 .. c /\ d - 1 \notin T
        BY <1>1, <1>2, <1>4
    <2>2. Good(d - 1)
        BY <2>1
    <2> HIDE DEF T
    <2> QED BY <1>2, <1>3, <1>4, <2>1, <2>2 DEF InARow
<1>5. CASE d \notin days
    BY <1>2, <1>3, <1>5 DEF InARow
<1> QED BY <1>4, <1>5

\* The loop returns how many days in a row end at the cursor.
LEMMA WalkBackIs ==
    ASSUME NEW days, days \subseteq Nat, NEW c \in Int, -2 <= c
    PROVE  /\ WalkBack(days, c) \in Nat
           /\ InARow(days, WalkBack(days, c), c)
           /\ c - WalkBack(days, c) \notin days
<1> DEFINE streak == CHOOSE h : h = [d \in -2 .. c |-> IF d \in days THEN 1 + h[d - 1] ELSE 0]
<1>1. WalkBack(days, c) = streak[c]
    BY Zenon DEF WalkBack
<1>2. streak = CHOOSE h : Walks(h, days, c)
    BY Zenon DEF Walks
<1>3. Walks(streak, days, c)
    BY <1>2, WalksExist, Zenon
<1>4. c \in -2 .. c
    OBVIOUS
<1> HIDE DEF streak
<1>5. \A d \in -2 .. c : streak[d] \in Nat /\ InARow(days, streak[d], d) /\ d - streak[d] \notin days
    BY <1>3, WalksIs
<1> QED BY <1>1, <1>4, <1>5

\* The current streak is one, and no longer one ends today or yesterday.
LEMMA CurrentStreakIs ==
    ASSUME NEW days, days \subseteq Nat, NEW t \in Nat
    PROVE  /\ current_streak(days, t) \in Nat
           /\ Longest(days, current_streak(days, t), {t - 1, t})
           /\ AtRisk(days, t) <=> current_streak(days, t) > 0 /\ ~InARow(days, 1, t)
<1> DEFINE c == IF t \in days THEN t ELSE t - 1
           n == WalkBack(days, c)
<1>1. c \in Int /\ -2 <= c
    OBVIOUS
<1>2. n \in Nat /\ InARow(days, n, c) /\ c - n \notin days
    <2> HIDE DEF c
    <2> QED BY <1>1, WalkBackIs
<1>3. current_streak(days, t) = n
    BY DEF current_streak
<1> HIDE DEF n
<1>4. Longest(days, n, {t - 1, t})
    <2>1. InARow(days, n, c) /\ c \in {t - 1, t}
        BY <1>2
    <2>2. ASSUME NEW last \in {t - 1, t}, InARow(days, n + 1, last) PROVE FALSE
        <3>1. \A k \in Int : last - n <= k /\ k <= last => k \in days
            BY <1>2, <2>2 DEF InARow
        <3>2. t \in days => n > 0
            BY <1>2
        <3>3. CASE t \in days
            BY <1>2, <3>1, <3>2, <3>3
        <3>4. CASE t \notin days
            BY <1>2, <3>1, <3>4
        <3> QED BY <3>3, <3>4
    <2> HIDE DEF c
    <2> QED BY <2>1, <2>2 DEF Longest
<1>5. AtRisk(days, t) <=> n > 0 /\ ~InARow(days, 1, t)
    <2>1. InARow(days, 1, t) <=> t \in days
        BY DEF InARow
    <2>2. CASE t \in days
        BY <2>1, <2>2 DEF AtRisk
    <2>3. CASE t \notin days
        <3>1. c = t - 1
            BY <2>3
        <3>2. t - 1 \in days => n # 0
            BY <1>2, <3>1
        <3>3. n # 0 => t - 1 \in days
            BY <1>2, <3>1 DEF InARow
        <3> QED BY <1>2, <2>1, <2>3, <3>2, <3>3 DEF AtRisk
    <2> QED BY <2>2, <2>3
<1> QED BY <1>2, <1>3, <1>4, <1>5

-----------------------------------------------------------------------------
(* The rows of a finite set in the order of a number each of them has. *)

Ranked(S, key) == IsFiniteSet(S) /\ \A x, y \in S : key[x] \in Int /\ (key[x] = key[y] => x = y)
Rank(S, key, x) == Cardinality({y \in S : key[y] < key[x]})

\* The one with the greatest key comes last.
LEMMA LastOf ==
    ASSUME NEW S, NEW key, Ranked(S, key), S # {}
    PROVE  \E x \in S : \A y \in S : key[y] <= key[x]
<1> DEFINE T == {s \in SUBSET S : s # {} /\ ~\E x \in s : \A y \in s : key[y] <= key[x]}
<1> SUFFICES ASSUME T # {} PROVE FALSE
    <2>1. S \notin T => \E x \in S : \A y \in S : key[y] <= key[x]
        OBVIOUS
    <2> QED BY <2>1
<1>1. T \subseteq SUBSET S /\ IsFiniteSet(S)
    BY DEF Ranked
<1>2. PICK s \in T : \A u \in T : u \subseteq s => u = s
    <2> HIDE DEF T
    <2> QED BY <1>1, SmallestSet
<1>3. s \subseteq S /\ s # {} /\ ~\E x \in s : \A y \in s : key[y] <= key[x]
    OBVIOUS
<1>4. PICK x \in s : TRUE
    BY <1>3
<1> DEFINE u == s \ {x}
<1>5. \A y \in S : key[y] \in Int
    BY DEF Ranked
<1>6. u # {}
    BY <1>3, <1>4, <1>5
<1>7. u \notin T
    BY <1>2, <1>4
<1>8. PICK z \in u : \A y \in u : key[y] <= key[z]
    BY <1>3, <1>6, <1>7
<1> HIDE DEF T
<1>9. CASE key[x] <= key[z]
    <2>1. \A y \in s : key[y] <= key[z]
        BY <1>8, <1>9
    <2> QED BY <1>3, <1>8, <2>1
<1>10. CASE key[z] < key[x]
    <2>1. key[x] \in Int /\ \A y \in u : key[y] \in Int
        BY <1>3, <1>4, <1>5
    <2>2. \A y \in u : key[y] <= key[x]
        BY <1>8, <1>10, <2>1
    <2>3. \A y \in s : key[y] <= key[x]
        BY <2>1, <2>2
    <2> QED BY <1>3, <1>4, <2>3
<1> QED BY <1>3, <1>4, <1>5, <1>8, <1>9, <1>10

\* Each of the first places is one row's.
LEMMA RankOnto ==
    ASSUME NEW S, NEW key, Ranked(S, key)
    PROVE  \A n \in 0 .. Cardinality(S) - 1 : \E x \in S : Rank(S, key, x) = n
<1> DEFINE Onto(s) == \A n \in 0 .. Cardinality(s) - 1 : \E x \in s : Rank(s, key, x) = n
           T == {s \in SUBSET S : ~Onto(s)}
<1> SUFFICES ASSUME T # {} PROVE FALSE
    <2>1. S \notin T => Onto(S)
        OBVIOUS
    <2> QED BY <2>1
<1>1. T \subseteq SUBSET S /\ IsFiniteSet(S)
    BY DEF Ranked
<1>2. PICK s \in T : \A u \in T : u \subseteq s => u = s
    <2> HIDE DEF T
    <2> QED BY <1>1, SmallestSet
<1>3. s \subseteq S /\ ~Onto(s)
    OBVIOUS
<1>4. IsFiniteSet(s) /\ Ranked(s, key)
    BY <1>1, <1>3, FS_Subset DEF Ranked
<1>5. s # {}
    BY <1>3, FS_EmptySet
<1>6. PICK z \in s : \A y \in s : key[y] <= key[z]
    BY <1>4, <1>5, LastOf
<1> DEFINE u == s \ {z}
<1>7. u \notin T /\ u \in SUBSET S
    BY <1>2, <1>3, <1>6
<1>8. Onto(u)
    BY <1>7
<1> HIDE DEF T
<1>9. Cardinality(u) = Cardinality(s) - 1 /\ Cardinality(s) \in Nat /\ IsFiniteSet(u)
    BY <1>4, <1>6, FS_RemoveElement, FS_CardinalityType
<1>10. Rank(s, key, z) = Cardinality(u)
    <2>1. {y \in s : key[y] < key[z]} = u
        BY <1>4, <1>6 DEF Ranked
    <2> QED BY <2>1 DEF Rank
<1>11. \A x \in u : Rank(s, key, x) = Rank(u, key, x)
    <2> SUFFICES ASSUME NEW x \in u PROVE Rank(s, key, x) = Rank(u, key, x)
        OBVIOUS
    <2>1. {y \in s : key[y] < key[x]} = {y \in u : key[y] < key[x]}
        BY <1>4, <1>6 DEF Ranked
    <2> QED BY <2>1 DEF Rank
<1>12. Onto(s)
    <2> SUFFICES ASSUME NEW n \in 0 .. Cardinality(s) - 1 PROVE \E x \in s : Rank(s, key, x) = n
        OBVIOUS
    <2>1. CASE n = Cardinality(u)
        BY <1>6, <1>10, <2>1
    <2>2. CASE n # Cardinality(u)
        <3>1. n \in 0 .. Cardinality(u) - 1
            BY <1>9, <2>2
        <3>2. PICK x \in u : Rank(u, key, x) = n
            BY <1>8, <3>1
        <3> QED BY <1>11, <3>2
    <2> QED BY <2>1, <2>2
<1> QED BY <1>3, <1>12

\* A row has a place, after those of all smaller ones.
LEMMA RankIs ==
    ASSUME NEW S, NEW key, Ranked(S, key), NEW x \in S
    PROVE  /\ Rank(S, key, x) \in 0 .. Cardinality(S) - 1
           /\ \A y \in S : key[y] < key[x] => Rank(S, key, y) < Rank(S, key, x)
<1> DEFINE Below(y) == {z \in S : key[z] < key[y]}
<1>1. IsFiniteSet(S) /\ \A y \in S : key[y] \in Int
    BY DEF Ranked
<1>2. \A y \in S : IsFiniteSet(Below(y)) /\ Cardinality(Below(y)) \in Nat
    BY <1>1, FS_Subset, FS_CardinalityType
<1>3. Below(x) \subseteq S /\ x \in S /\ x \notin Below(x)
    BY <1>1
<1>4. Cardinality(Below(x)) < Cardinality(S)
    <2>1. Below(x) # S /\ Below(x) \subseteq S
        BY <1>3
    <2>2. Cardinality(S) \in Nat /\ Cardinality(Below(x)) \in Nat
        BY <1>1, <1>2, FS_CardinalityType
    <2> DEFINE B == Below(x)
    <2> HIDE DEF B
    <2>3. Cardinality(B) <= Cardinality(S) /\ (Cardinality(B) = Cardinality(S) => B = S)
        BY <1>1, <2>1, FS_Subset DEF B
    <2> QED BY <2>1, <2>2, <2>3 DEF B
<1>5. ASSUME NEW y \in S, key[y] < key[x] PROVE Cardinality(Below(y)) < Cardinality(Below(x))
    <2>1. Below(y) \subseteq Below(x) /\ y \in Below(x) /\ y \notin Below(y)
        BY <1>1, <1>5
    <2>2. Below(y) # Below(x)
        BY <2>1
    <2> HIDE DEF Below
    <2> QED BY <1>2, <2>1, <2>2, FS_Subset
<1>6. Cardinality(S) \in Nat
    BY <1>1, FS_CardinalityType
<1> QED BY <1>2, <1>4, <1>5, <1>6 DEF Rank

\* The row CHOOSE finds at a place.
At(S, key, n) == CHOOSE x \in S : Rank(S, key, x) = n
\* Each place has one member.
LEMMA AtIs ==
    ASSUME NEW S, NEW key, Ranked(S, key)
    PROVE  /\ \A n \in 0 .. Cardinality(S) - 1 : At(S, key, n) \in S /\ Rank(S, key, At(S, key, n)) = n
           /\ \A x \in S : x = At(S, key, Rank(S, key, x))
<1>1. \A n \in 0 .. Cardinality(S) - 1 : At(S, key, n) \in S /\ Rank(S, key, At(S, key, n)) = n
    <2> SUFFICES ASSUME NEW n \in 0 .. Cardinality(S) - 1
                 PROVE  At(S, key, n) \in S /\ Rank(S, key, At(S, key, n)) = n
        OBVIOUS
    <2>1. \E x \in S : Rank(S, key, x) = n
        BY RankOnto
    <2> QED BY <2>1 DEF At
<1>2. ASSUME NEW x \in S PROVE x = At(S, key, Rank(S, key, x))
    <2> DEFINE n == Rank(S, key, x)
               y == At(S, key, n)
    <2>1. n \in 0 .. Cardinality(S) - 1
        BY RankIs
    <2>2. y \in S /\ Rank(S, key, y) = n
        BY <1>1, <2>1
    <2>3. ~(key[x] < key[y]) /\ ~(key[y] < key[x])
        <3>1. /\ key[x] < key[y] => Rank(S, key, x) < Rank(S, key, y)
              /\ key[y] < key[x] => Rank(S, key, y) < Rank(S, key, x)
            BY <2>2, RankIs
        <3> QED BY <2>1, <2>2, <3>1
    <2>4. key[x] \in Int /\ key[y] \in Int
        BY <2>2 DEF Ranked
    <2>5. key[x] = key[y]
        BY <2>3, <2>4
    <2> QED BY <2>2, <2>5 DEF Ranked
<1> QED BY <1>1, <1>2

-----------------------------------------------------------------------------
(* The loop of the longest streak. *)

\* The days of a calendar, in order.
InOrder(days) ==
    [i \in 1 .. Cardinality(days) |-> CHOOSE day \in days : Cardinality({d \in days : d < day}) = i - 1]
Sorted(days, s) ==
    /\ \A i \in 1 .. Cardinality(days) : s[i] \in days
    /\ \A i, j \in 1 .. Cardinality(days) : i < j => s[i] < s[j]
    /\ \A d \in days : \E i \in 1 .. Cardinality(days) : s[i] = d

\* Such a sequence has the days in order.
LEMMA SortedIs ==
    ASSUME NEW D \in Nat, NEW days, days \subseteq 0 .. D
    PROVE  /\ IsFiniteSet(days) /\ Cardinality(days) \in Nat
           /\ Sorted(days, InOrder(days))
<1> DEFINE n == Cardinality(days)
           id == [d \in days |-> d]
           place(day) == Cardinality({d \in days : d < day})
           s == [i \in 1 .. n |-> CHOOSE day \in days : place(day) = i - 1]
<1>1. IsFiniteSet(days) /\ n \in Nat
    <2>1. IsFiniteSet(0 .. D)
        BY FS_Interval
    <2> QED BY <2>1, FS_Subset, FS_CardinalityType
<1>2. Ranked(days, id)
    BY <1>1 DEF Ranked
<1>3. \A d \in days : place(d) = Rank(days, id, d)
    <2> SUFFICES ASSUME NEW d \in days PROVE place(d) = Rank(days, id, d)
        OBVIOUS
    <2>1. {e \in days : e < d} = {e \in days : id[e] < id[d]}
        OBVIOUS
    <2> QED BY <2>1 DEF Rank
<1>4. \A k \in 0 .. n - 1 : \E d \in days : place(d) = k
    <2> SUFFICES ASSUME NEW k \in 0 .. n - 1 PROVE \E d \in days : place(d) = k
        OBVIOUS
    <2>1. PICK d \in days : Rank(days, id, d) = k
        BY <1>2, RankOnto
    <2> QED BY <1>3, <2>1
<1>5. \A d \in days : place(d) \in 0 .. n - 1 /\ \A e \in days : e < d => place(e) < place(d)
    <2> SUFFICES ASSUME NEW d \in days
                 PROVE  place(d) \in 0 .. n - 1 /\ \A e \in days : e < d => place(e) < place(d)
        OBVIOUS
    <2>1. \A e \in days : id[e] = e
        OBVIOUS
    <2>2. /\ Rank(days, id, d) \in 0 .. n - 1
          /\ \A e \in days : id[e] < id[d] => Rank(days, id, e) < Rank(days, id, d)
        BY <1>2, RankIs
    <2> HIDE DEF id, place
    <2> QED BY <1>3, <2>1, <2>2
<1>6. \A i \in 1 .. n : s[i] \in days /\ place(s[i]) = i - 1
    <2> SUFFICES ASSUME NEW i \in 1 .. n PROVE s[i] \in days /\ place(s[i]) = i - 1
        OBVIOUS
    <2>1. i - 1 \in 0 .. n - 1
        BY <1>1
    <2>2. \E d \in days : place(d) = i - 1
        BY <1>4, <2>1
    <2>3. s[i] = CHOOSE day \in days : place(day) = i - 1
        OBVIOUS
    <2> HIDE DEF s, place
    <2> QED BY <2>2, <2>3
<1>7. days \subseteq Int
    OBVIOUS
<1>11. s = InOrder(days)
    BY DEF InOrder
<1> HIDE DEF s, place, n
<1>8. \A d \in days : \E i \in 1 .. n : s[i] = d
    <2> SUFFICES ASSUME NEW d \in days PROVE \E i \in 1 .. n : s[i] = d
        OBVIOUS
    <2>1. place(d) + 1 \in 1 .. n /\ place(d) \in Int
        BY <1>1, <1>5
    <2>2. s[place(d) + 1] \in days /\ place(s[place(d) + 1]) = place(d)
        BY <1>6, <2>1
    <2> DEFINE e == s[place(d) + 1]
    <2> HIDE DEF e
    <2>3. e \in days /\ place(e) = place(d)
        BY <2>2 DEF e
    <2>4. /\ e < d => place(e) < place(d)
          /\ d < e => place(d) < place(e)
        BY <1>5, <2>3
    <2>5. e \in Int /\ d \in Int
        BY <1>7, <2>3
    <2>6. e = d
        BY <2>1, <2>3, <2>4, <2>5
    <2> QED BY <2>1, <2>6 DEF e
<1>9. \A i, j \in 1 .. n : i < j => s[i] < s[j]
    <2> SUFFICES ASSUME NEW i \in 1 .. n, NEW j \in 1 .. n, i < j PROVE s[i] < s[j]
        OBVIOUS
    <2>1. /\ s[i] \in days /\ place(s[i]) = i - 1
          /\ s[j] \in days /\ place(s[j]) = j - 1
        BY <1>6
    <2>2. s[i] # s[j]
        BY <2>1
    <2>3. s[j] < s[i] => place(s[j]) < place(s[i])
        BY <1>5, <2>1
    <2>4. ~(s[j] < s[i])
        BY <2>1, <2>3
    <2>5. s[i] \in Int /\ s[j] \in Int
        BY <1>7, <2>1
    <2> QED BY <2>2, <2>4, <2>5
<1>10. Sorted(days, s)
    BY <1>6, <1>8, <1>9 DEF Sorted, n
<1> QED BY <1>1, <1>10, <1>11 DEF n

\* The day before one is the day sorted before it, or no day of practice.
LEMMA DayBefore ==
    ASSUME NEW days, days \subseteq Int, Cardinality(days) \in Nat, NEW s, Sorted(days, s),
           NEW i \in 1 .. Cardinality(days), s[i] - 1 \in days
    PROVE  i > 1 /\ s[i - 1] = s[i] - 1
<1>1. PICK j \in 1 .. Cardinality(days) : s[j] = s[i] - 1
    BY DEF Sorted
<1>2. s[i] \in Int /\ s[j] \in Int
    BY DEF Sorted
<1>3. j < i
    <2>1. j # i
        BY <1>1, <1>2
    <2>2. ~(i < j)
        BY <1>1, <1>2 DEF Sorted
    <2> QED BY <2>1, <2>2
<1>4. i - 1 \in 1 .. Cardinality(days)
    BY <1>3
<1>5. s[i - 1] \in Int /\ s[i - 1] < s[i]
    <2>1. s[i - 1] \in days
        BY <1>4 DEF Sorted
    <2>2. i - 1 < i
        OBVIOUS
    <2>3. s[i - 1] < s[i]
        BY <1>4, <2>2 DEF Sorted
    <2> QED BY <2>1, <2>3
<1>6. j < i - 1 => s[j] < s[i - 1]
    BY <1>4 DEF Sorted
<1> QED BY <1>1, <1>2, <1>3, <1>5, <1>6

\* n days in a row end at d, and no more.
EndsAt(days, d, n) == n \in Nat /\ InARow(days, n, d) /\ d - n \notin days

\* A streak that ends on a day has one length.
LEMMA EndsOnce ==
    ASSUME NEW days, NEW d \in Int, NEW n, NEW k, EndsAt(days, d, n), EndsAt(days, d, k)
    PROVE  n = k
<1>1. ASSUME NEW a \in Nat, NEW b \in Nat, a < b, InARow(days, b, d), d - a \notin days PROVE FALSE
    BY <1>1 DEF InARow
<1> QED BY <1>1 DEF EndsAt

\* There is one for every day practised.
LEMMA EndsIs ==
    ASSUME NEW days, days \subseteq Nat, NEW d \in Int, -2 <= d
    PROVE  EndsAt(days, d, WalkBack(days, d))
BY WalkBackIs DEF EndsAt

\* A streak that ends at d goes on from the day before.
LEMMA EndsNext ==
    ASSUME NEW days, days \subseteq Int, NEW d \in days, NEW n
    PROVE  /\ d - 1 \notin days => (EndsAt(days, d, n) <=> n = 1)
           /\ d - 1 \in days /\ EndsAt(days, d - 1, n) => EndsAt(days, d, n + 1)
<1>1. d - 1 \notin days => EndsAt(days, d, 1)
    BY DEF EndsAt, InARow
<1>2. d - 1 \in days /\ EndsAt(days, d - 1, n) => EndsAt(days, d, n + 1)
    BY DEF EndsAt, InARow
<1>3. EndsAt(days, d, n) /\ EndsAt(days, d, 1) => n = 1
    BY EndsOnce
<1> QED BY <1>1, <1>2, <1>3

\* h counts, for each sorted day, the days in a row that end there.
Runs(h, s) ==
    h = [i \in 0 .. Len(s) |->
            IF i = 0 THEN 0 ELSE IF i > 1 /\ s[i] - s[i - 1] = 1 THEN h[i - 1] + 1 ELSE 1]

\* There is such a function of the places.
LEMMA RunsExist ==
    ASSUME NEW days, days \subseteq Nat, Cardinality(days) \in Nat, NEW s, Sorted(days, s),
           Len(s) = Cardinality(days)
    PROVE  \E h : Runs(h, s)
<1> DEFINE n == Cardinality(days)
           g == [i \in 0 .. n |-> IF i = 0 THEN 0 ELSE WalkBack(days, s[i])]
           w(i) == IF i = 0 THEN 0 ELSE IF i > 1 /\ s[i] - s[i - 1] = 1 THEN g[i - 1] + 1 ELSE 1
<1>0. days \subseteq Int /\ \A d \in days : d \in Int /\ -2 <= d
    OBVIOUS
<1>1. \A i \in 1 .. n : s[i] \in days /\ s[i] \in Int /\ -2 <= s[i]
    BY <1>0 DEF Sorted
<1>2. \A i \in 1 .. n : g[i] = WalkBack(days, s[i]) /\ EndsAt(days, s[i], g[i])
    <2> SUFFICES ASSUME NEW i \in 1 .. n PROVE g[i] = WalkBack(days, s[i]) /\ EndsAt(days, s[i], g[i])
        OBVIOUS
    <2>1. g[i] = WalkBack(days, s[i])
        OBVIOUS
    <2>2. s[i] \in Int /\ -2 <= s[i]
        BY <1>1
    <2> HIDE DEF g
    <2> QED BY <2>1, <2>2, EndsIs
<1>3. \A i \in 0 .. n : g[i] = w(i)
    <2> SUFFICES ASSUME NEW i \in 0 .. n PROVE g[i] = w(i)
        OBVIOUS
    <2>1. CASE i = 0
        BY <2>1
    <2>2. CASE i # 0
        <3> HIDE DEF g
        <3>1. i \in 1 .. n /\ s[i] \in days /\ s[i] \in Int /\ days \subseteq Int
            BY <1>0, <1>1, <2>2
        <3>2. EndsAt(days, s[i], g[i])
            BY <1>2, <3>1
        <3>3. CASE i > 1 /\ s[i] - s[i - 1] = 1
            <4>1. i - 1 \in 1 .. n
                BY <3>1, <3>3
            <4>2. s[i - 1] \in days /\ s[i - 1] \in Int
                BY <1>1, <4>1
            <4>3. s[i] - 1 = s[i - 1]
                BY <3>1, <3>3, <4>2
            <4>4. EndsAt(days, s[i] - 1, g[i - 1])
                BY <1>2, <4>1, <4>3
            <4>5. EndsAt(days, s[i], g[i - 1] + 1)
                BY <3>1, <4>2, <4>3, <4>4, EndsNext
            <4>6. g[i] = g[i - 1] + 1
                BY <3>1, <3>2, <4>5, EndsOnce
            <4> QED BY <2>2, <3>3, <4>6
        <3>4. CASE ~(i > 1 /\ s[i] - s[i - 1] = 1)
            <4>1. s[i] - 1 \notin days
                <5> SUFFICES ASSUME s[i] - 1 \in days PROVE FALSE
                    OBVIOUS
                <5>1. i > 1 /\ s[i - 1] = s[i] - 1
                    BY <3>1, DayBefore
                <5> QED BY <3>1, <3>4, <5>1
            <4>2. EndsAt(days, s[i], 1)
                BY <3>1, <4>1, EndsNext
            <4>3. g[i] = 1
                BY <3>1, <3>2, <4>2, EndsOnce
            <4> QED BY <2>2, <3>4, <4>3
        <3> QED BY <3>3, <3>4
    <2> QED BY <2>1, <2>2
<1>4. g = [i \in 0 .. n |-> w(i)]
    <2> DEFINE v(i) == IF i = 0 THEN 0 ELSE WalkBack(days, s[i])
    <2>1. \A i \in 0 .. n : v(i) = w(i)
        BY <1>3
    <2>2. g = [i \in 0 .. n |-> v(i)]
        OBVIOUS
    <2> HIDE DEF g, v, w
    <2> QED BY <2>1, <2>2
<1>5. Runs(g, s)
    <2> HIDE DEF g
    <2> QED BY <1>4 DEF Runs
<1> QED BY <1>5

\* It is the length of the streak that ends there.
LEMMA RunsIs ==
    ASSUME NEW days, days \subseteq Nat, Cardinality(days) \in Nat, NEW s, Sorted(days, s),
           Len(s) = Cardinality(days), NEW h, Runs(h, s)
    PROVE  /\ DOMAIN h = 0 .. Cardinality(days)
           /\ h[0] = 0
           /\ \A i \in 1 .. Cardinality(days) : EndsAt(days, s[i], h[i])
<1> DEFINE n == Cardinality(days)
<1>1. h = [i \in 0 .. n |->
               IF i = 0 THEN 0 ELSE IF i > 1 /\ s[i] - s[i - 1] = 1 THEN h[i - 1] + 1 ELSE 1]
    BY DEF Runs
<1>0. days \subseteq Int /\ \A i \in 1 .. n : s[i] \in days /\ s[i] \in Int
    <2>1. \A d \in days : d \in Int
        OBVIOUS
    <2> QED BY <2>1 DEF Sorted
<1>2. DOMAIN h = 0 .. n
    BY <1>1
<1>3. \A i \in 0 .. n : h[i] = IF i = 0 THEN 0 ELSE IF i > 1 /\ s[i] - s[i - 1] = 1 THEN h[i - 1] + 1 ELSE 1
    BY <1>1
<1>4. h[0] = 0
    BY <1>3
<1> DEFINE T == {i \in 1 .. n : ~EndsAt(days, s[i], h[i])}
<1>5. T = {}
    <2> SUFFICES ASSUME T # {} PROVE FALSE
        OBVIOUS
    <2>1. T \subseteq 1 .. n /\ 1 \in Int /\ n \in Int
        OBVIOUS
    <2>2. PICK i \in T : \A j \in T : i <= j
        <3> HIDE DEF T, n
        <3> QED BY <2>1, LeastIn
    <2>3. i \in 1 .. n /\ ~EndsAt(days, s[i], h[i]) /\ \A j \in 1 .. n : j < i => EndsAt(days, s[j], h[j])
        BY <2>2
    <2> HIDE DEF T
    <2>4. s[i] \in days /\ s[i] \in Int /\ days \subseteq Int
        BY <1>0, <2>3
    <2>5. CASE i > 1 /\ s[i] - s[i - 1] = 1
        <3>1. i - 1 \in 1 .. n
            BY <2>3, <2>5
        <3>2. s[i - 1] \in days /\ s[i - 1] \in Int
            BY <1>0, <3>1
        <3>3. s[i] - 1 = s[i - 1] /\ EndsAt(days, s[i - 1], h[i - 1])
            BY <2>3, <2>4, <2>5, <3>1, <3>2
        <3>4. EndsAt(days, s[i], h[i - 1] + 1)
            BY <2>4, <3>2, <3>3, EndsNext
        <3>5. h[i] = h[i - 1] + 1
            BY <1>3, <2>3, <2>5
        <3> QED BY <2>3, <3>4, <3>5
    <2>6. CASE ~(i > 1 /\ s[i] - s[i - 1] = 1)
        <3>1. s[i] - 1 \notin days
            <4> SUFFICES ASSUME s[i] - 1 \in days PROVE FALSE
                OBVIOUS
            <4>1. i > 1 /\ s[i - 1] = s[i] - 1
                BY <2>3, <2>4, DayBefore
            <4> QED BY <2>4, <2>6, <4>1
        <3>2. h[i] = 1
            BY <1>3, <2>3, <2>6
        <3> QED BY <2>3, <2>4, <3>1, <3>2, EndsNext
    <2> QED BY <2>5, <2>6
<1> QED BY <1>2, <1>4, <1>5

\* The longest streak is one, and no longer one ends on any day.
LEMMA LongestStreakIs ==
    ASSUME NEW D \in Nat, NEW days, days \subseteq 0 .. D
    PROVE  longest_streak(days) \in Nat /\ Longest(days, longest_streak(days), 0 .. D)
<1> DEFINE s == [i \in 1 .. Cardinality(days) |->
                   CHOOSE day \in days : Cardinality({d \in days : d < day}) = i - 1]
           run == CHOOSE h : h = [i \in 0 .. Len(s) |->
                      IF i = 0 THEN 0 ELSE IF i > 1 /\ s[i] - s[i - 1] = 1 THEN h[i - 1] + 1 ELSE 1]
           N == {run[i] : i \in DOMAIN run}
<1>1. longest_streak(days) = CHOOSE best \in N : \A i \in DOMAIN run : run[i] <= best
    BY DEF longest_streak
<1>2. run = CHOOSE h : Runs(h, s)
    BY Zenon DEF Runs
<1> HIDE DEF run
<1>3. Cardinality(days) \in Nat /\ Sorted(days, s) /\ days \subseteq Nat
    <2>1. days \subseteq Nat
        OBVIOUS
    <2>2. Cardinality(days) \in Nat
        BY SortedIs
    <2>3. s = InOrder(days)
        BY DEF InOrder
    <2>4. Sorted(days, InOrder(days))
        BY SortedIs
    <2> HIDE DEF s
    <2> QED BY <2>1, <2>2, <2>3, <2>4
<1>4. Len(s) = Cardinality(days)
    BY <1>3
<1> HIDE DEF s
<1>5. Runs(run, s)
    <2>1. \E h : Runs(h, s)
        BY <1>3, <1>4, RunsExist
    <2> QED BY <1>2, <2>1, Zenon
<1> DEFINE n == Cardinality(days)
<1>6. /\ DOMAIN run = 0 .. n
      /\ run[0] = 0
      /\ \A i \in 1 .. n : EndsAt(days, s[i], run[i])
    BY <1>3, <1>4, <1>5, RunsIs
<1>7. \A i \in 0 .. n : run[i] \in Nat
    BY <1>6 DEF EndsAt
<1>8. \E best \in N : \A i \in DOMAIN run : run[i] <= best
    <2>1. \A i \in 1 .. n : run[i] <= D + 1
        <3> SUFFICES ASSUME NEW i \in 1 .. n, run[i] > D + 1 PROVE FALSE
            BY <1>7
        <3>1. s[i] \in days /\ run[i] \in Nat /\ InARow(days, run[i], s[i])
            BY <1>3, <1>6, <1>7 DEF Sorted, EndsAt
        <3>2. s[i] \in 0 .. D
            BY <3>1
        <3>3. s[i] - run[i] + 1 \in days
            BY <3>1, <3>2 DEF InARow
        <3> QED BY <3>1, <3>2, <3>3
    <2>2. N \subseteq 0 .. D + 1 /\ N # {}
        BY <1>3, <1>6, <1>7, <2>1
    <2>3. D + 1 \in Int /\ 0 \in Int
        OBVIOUS
    <2>4. PICK best \in N : \A k \in N : k <= best
        <3> HIDE DEF N
        <3> QED BY <2>2, <2>3, GreatestIn
    <2> QED BY <2>4
<1> DEFINE m == longest_streak(days)
<1>9. m \in N /\ \A i \in DOMAIN run : run[i] <= m
    <2> HIDE DEF N, m
    <2> QED BY <1>1, <1>8 DEF m
<1> HIDE DEF m
<1>10. PICK k \in 0 .. n : m = run[k]
    BY <1>6, <1>9
<1>11. m \in Nat
    BY <1>7, <1>10
<1>12. \E last \in 0 .. D : InARow(days, m, last)
    <2>1. CASE k = 0
        <3>1. InARow(days, m, 0)
            BY <1>6, <1>10, <2>1 DEF InARow
        <3> QED BY <3>1
    <2>2. CASE k # 0
        <3>1. k \in 1 .. n
            BY <1>3, <2>2
        <3>2. s[k] \in days /\ InARow(days, m, s[k])
            BY <1>3, <1>6, <1>10, <3>1 DEF Sorted, EndsAt
        <3> QED BY <3>2
    <2> QED BY <2>1, <2>2
<1>13. ASSUME NEW last \in 0 .. D, InARow(days, m + 1, last) PROVE FALSE
    <2>1. last \in days
        BY <1>11, <1>13 DEF InARow
    <2>2. PICK i \in 1 .. n : s[i] = last
        BY <1>3, <2>1 DEF Sorted
    <2>3. run[i] \in Nat /\ last - run[i] \notin days /\ run[i] <= m
        BY <1>6, <1>9, <2>2 DEF EndsAt
    <2> QED BY <1>11, <1>13, <2>3 DEF InARow
<1> QED BY <1>11, <1>12, <1>13 DEF Longest, m

-----------------------------------------------------------------------------
(* What the screen and the reminder say of a streak. *)

\* The longest streak is at least any streak of days up to D.
LEMMA LongestIsMost ==
    ASSUME NEW D \in Nat, NEW days, days \subseteq 0 .. D, NEW n \in Nat, NEW last \in Int,
           InARow(days, n, last)
    PROVE  n <= longest_streak(days)
<1> DEFINE m == longest_streak(days)
<1>1. m \in Nat /\ \A d \in 0 .. D : ~InARow(days, m + 1, d)
    BY LongestStreakIs DEF Longest
<1> HIDE DEF m
<1> SUFFICES ASSUME n >= m + 1 PROVE FALSE
    BY <1>1 DEF m
<1>2. last \in 0 .. D
    BY <1>1 DEF InARow
<1>3. InARow(days, m + 1, last)
    BY <1>1, <1>2 DEF InARow
<1> QED BY <1>1, <1>2, <1>3

\* The counters of the days of the plan, of which today is one.
CalendarOK ==
    /\ plan.days \in Nat
    /\ today \in 0 .. plan.days
    /\ count \in [0 .. plan.days -> Nat]

\* At first.
LEMMA CalendarInit ==
    ASSUME Init
    PROVE  CalendarOK
<1>1. plan.days \in Nat /\ plan.passed \in 0 .. Limit /\ Limit \in Nat
    BY JourneyAssumption DEF Init
<1>2. plan.passed \in Nat
    BY <1>1
<1> QED BY <1>1, <1>2 DEF Init, CalendarOK

\* And after every step.
LEMMA CalendarNext ==
    ASSUME CalendarOK, [Next]_vars
    PROVE  CalendarOK'
<1> USE DEF CalendarOK
<1>1. ASSUME NEW s \in plan.seeders, SeedStep(s), UNCHANGED <<plan, today, student, screen>> PROVE CalendarOK'
    BY <1>1 DEF student
<1>2. CASE GetTrack
    BY <1>2 DEF GetTrack
<1>3. ASSUME NEW t \in Texts, NEW c \in AllChapters, Submit(t, c) PROVE CalendarOK'
    BY <1>3 DEF Submit
<1>4. ASSUME NEW t \in Texts, ReadStatus(t) PROVE CalendarOK'
    BY <1>4 DEF ReadStatus
<1>5. ASSUME NEW t \in Texts, Fail(t) PROVE CalendarOK'
    <2> DEFINE d == text[t].day
    <2>1. count' = [count EXCEPT ![d] = IF count[d] > 0 THEN count[d] - 1 ELSE 0]
        BY <1>5 DEF Fail
    <2>2. UNCHANGED <<plan, today>>
        BY <1>5 DEF Fail
    <2> HIDE DEF d
    <2>3. count' \in [0 .. plan.days -> Nat]
        <3>1. \A e \in 0 .. plan.days : count[e] \in Nat
            OBVIOUS
        <3>2. d \in 0 .. plan.days => (IF count[d] > 0 THEN count[d] - 1 ELSE 0) \in Nat
            BY <3>1
        <3> DEFINE v == IF count[d] > 0 THEN count[d] - 1 ELSE 0
        <3> HIDE DEF v
        <3>3. count' = [count EXCEPT ![d] = v]
            BY <2>1 DEF v
        <3>4. d \in 0 .. plan.days => v \in Nat
            BY <3>2 DEF v
        <3> QED BY <3>3, <3>4
    <2> QED BY <2>2, <2>3
<1>6. ASSUME NEW t \in Texts, NEW status, NEW praise, Evaluate(t, status, praise) PROVE CalendarOK'
    BY <1>6 DEF Evaluate
<1>7. ASSUME NEW c \in AllChapters, StartRecovery(c) PROVE CalendarOK'
    BY <1>7 DEF StartRecovery
<1>8. CASE NextDay
    BY <1>8 DEF NextDay, student
<1>9. CASE OpenScreen \/ ReadStories \/ ReadPraises \/ ReadBosses
    BY <1>9 DEF OpenScreen, ReadStories, ReadPraises, ReadBosses, student
<1>10. CASE UNCHANGED vars
    BY <1>10 DEF vars
<1> QED BY <1>1, <1>2, <1>3, <1>4, <1>5, <1>6, <1>7, <1>8, <1>9, <1>10 DEF Next

\* On every day of every plan, the two loops of domain/habit.py count what a streak is, the
\* current one is never longer than the record, and the reminder's query asks after
\* exactly the streaks that end the day before.
THEOREM StreaksAgreeHolds == Spec => []StreaksAgree
<1>1. Init => CalendarOK
    BY CalendarInit
<1>2. CalendarOK /\ [Next]_vars => CalendarOK'
    BY CalendarNext
<1>3. CalendarOK => StreaksAgree
    <2> SUFFICES ASSUME CalendarOK PROVE StreaksAgree
        OBVIOUS
    <2> DEFINE days == PracticeDays
               D == plan.days
               current == current_streak(days, today)
    <2>1. D \in Nat /\ today \in Nat /\ days \subseteq 0 .. D /\ DOMAIN count = 0 .. D
        BY DEF CalendarOK, PracticeDays
    <2>2. days \subseteq Nat
        BY <2>1
    <2> HIDE DEF days, D
    <2>3. /\ current \in Nat
          /\ Longest(days, current, {today - 1, today})
          /\ AtRisk(days, today) <=> current > 0 /\ ~InARow(days, 1, today)
        BY <2>1, <2>2, CurrentStreakIs
    <2>4. Longest(days, longest_streak(days), 0 .. D)
        BY <2>1, LongestStreakIs
    <2>5. PICK last \in {today - 1, today} : InARow(days, current, last)
        BY <2>3 DEF Longest
    <2>6. last \in Int
        BY <2>1
    <2>7. current <= longest_streak(days)
        BY <2>1, <2>3, <2>5, <2>6, LongestIsMost
    <2> QED BY <2>1, <2>3, <2>4, <2>7 DEF StreaksAgree, days
<1> QED BY <1>1, <1>2, <1>3, PTL DEF Spec

-----------------------------------------------------------------------------
(* Rows that are numbered from 1. *)

OneToOne(S, m, key) ==
    /\ \A x \in S : key[x] \in 1 .. m
    /\ \A x, y \in S : key[x] = key[y] => x = y
    /\ \A i \in 1 .. m : \E x \in S : key[x] = i

\* As many as the numbers they are in one-to-one correspondence with.
LEMMA CountBy ==
    ASSUME NEW S, NEW m \in Nat, NEW key, OneToOne(S, m, key)
    PROVE  IsFiniteSet(S) /\ Cardinality(S) = m
<1> DEFINE g == [i \in 1 .. m |-> CHOOSE x \in S : key[x] = i]
<1>1. \A i \in 1 .. m : g[i] \in S /\ key[g[i]] = i
    BY DEF OneToOne
<1>2. g \in [1 .. m -> S]
    BY <1>1
<1> HIDE DEF g
<1>3. g \in Injection(1 .. m, S)
    BY <1>1, <1>2 DEF Injection, IsInjective
<1>4. \A x \in S : \E i \in 1 .. m : g[i] = x
    BY <1>1 DEF OneToOne
<1>5. g \in Bijection(1 .. m, S)
    BY <1>2, <1>3, <1>4 DEF Bijection, Surjection
<1>6. ExistsBijection(1 .. m, S)
    BY <1>5 DEF ExistsBijection
<1>7. IsFiniteSet(1 .. m) /\ Cardinality(1 .. m) = m
    <2>1. 1 \in Int /\ m \in Int /\ (1 > m => m = 0)
        OBVIOUS
    <2> QED BY <2>1, FS_Interval
<1> QED BY <1>6, <1>7, FS_Bijection

\* Sorted by position, the row numbered i comes in place i.
LEMMA ByIs ==
    ASSUME NEW rows, NEW m \in Nat,
           \A row \in rows : row.position \in 1 .. m,
           \A r, q \in rows : r.position = q.position => r = q,
           \A i \in 1 .. m : \E row \in rows : row.position = i
    PROVE  /\ Cardinality(rows) = m
           /\ DOMAIN By(rows) = 1 .. m
           /\ \A i \in 1 .. m : By(rows)[i] \in rows /\ By(rows)[i].position = i
<1> DEFINE key == [row \in rows |-> row.position]
           Below(row) == {r \in rows : r.position < row.position}
<1>1. Cardinality(rows) = m
    <2>1. \A x \in rows : key[x] \in 1 .. m
        OBVIOUS
    <2>2. \A x, y \in rows : key[x] = key[y] => x = y
        OBVIOUS
    <2>3. \A i \in 1 .. m : \E x \in rows : key[x] = i
        OBVIOUS
    <2> HIDE DEF key
    <2>4. OneToOne(rows, m, key)
        BY <2>1, <2>2, <2>3 DEF OneToOne
    <2> QED BY <2>4, CountBy
<1>2. \A row \in rows : Cardinality(Below(row)) = row.position - 1
    <2> SUFFICES ASSUME NEW row \in rows PROVE Cardinality(Below(row)) = row.position - 1
        OBVIOUS
    <2> DEFINE p == row.position
               B == Below(row)
    <2>1. p \in 1 .. m /\ p - 1 \in Nat
        OBVIOUS
    <2>2. \A x \in B : x \in rows /\ key[x] = x.position /\ x.position < p
        OBVIOUS
    <2>3. \A x \in B : key[x] \in 1 .. p - 1
        BY <2>1, <2>2
    <2>4. \A x, y \in B : key[x] = key[y] => x = y
        BY <2>2
    <2>5. \A i \in 1 .. p - 1 : \E x \in B : key[x] = i
        <3> SUFFICES ASSUME NEW i \in 1 .. p - 1 PROVE \E x \in B : key[x] = i
            OBVIOUS
        <3>1. i \in 1 .. m /\ i < p
            BY <2>1
        <3>2. PICK x \in rows : x.position = i
            BY <3>1
        <3> QED BY <3>1, <3>2
    <2> HIDE DEF key, B, p
    <2>6. Cardinality(B) = p - 1
        <3>1. OneToOne(B, p - 1, key)
            BY <2>3, <2>4, <2>5 DEF OneToOne
        <3> QED BY <2>1, <3>1, CountBy
    <2> QED BY <2>6 DEF B, p
<1> HIDE DEF key
<1>3. ASSUME NEW i \in 1 .. m PROVE By(rows)[i] \in rows /\ By(rows)[i].position = i
    <2>1. PICK row \in rows : row.position = i
        OBVIOUS
    <2>2. Cardinality(Below(row)) = i - 1
        BY <1>2, <2>1
    <2>3. By(rows)[i] = CHOOSE r \in rows : Cardinality(Below(r)) = i - 1
        BY <1>1 DEF By
    <2> HIDE DEF Below
    <2>4. By(rows)[i] \in rows /\ Cardinality(Below(By(rows)[i])) = i - 1
        BY <2>2, <2>3
    <2>5. By(rows)[i].position - 1 = i - 1 /\ By(rows)[i].position \in 1 .. m
        BY <1>2, <2>4
    <2> QED BY <2>4, <2>5
<1>4. DOMAIN By(rows) = 1 .. m
    BY <1>1 DEF By
<1> QED BY <1>1, <1>3, <1>4

-----------------------------------------------------------------------------
(* The seeds. *)

Slug(k) == SEEDS[k].slug
Size(k) == Len(SEEDS[k].chapters)

\* Three seeds, at the places they are listed in; the first is the tutorial.
LEMMA SeedsAre ==
    /\ Len(SEEDS) = 3 /\ DOMAIN SEEDS = 1 .. 3
    /\ \A k \in 1 .. 3 : SEEDS[k].position = k /\ (SEEDS[k].is_tutorial <=> k = 1)
    BY DEF SEEDS, Tutorial!seed_tutorial, EnemCare!seed_enem_care, FuvestTraffic!seed_fuvest_traffic,
           Tutorial!StorySeed, EnemCare!StorySeed, FuvestTraffic!StorySeed

\* No two seeds have a slug in common.
LEMMA SlugsApart == \A j, k \in 1 .. 3 : Slug(j) = Slug(k) => j = k
<1>1. Slug(1) = "o-gremio"
    BY DEF Slug, SEEDS, Tutorial!seed_tutorial, Tutorial!StorySeed, Tutorial!STORY_SLUG
<1>2. Slug(2) = "cuidado-invisivel"
    BY DEF Slug, SEEDS, EnemCare!seed_enem_care, EnemCare!StorySeed, EnemCare!STORY_SLUG
<1>3. Slug(3) = "sinal-fechado"
    BY DEF Slug, SEEDS, FuvestTraffic!seed_fuvest_traffic, FuvestTraffic!StorySeed, FuvestTraffic!STORY_SLUG
<1>4. "o-gremio" # "cuidado-invisivel" /\ "o-gremio" # "sinal-fechado" /\ "cuidado-invisivel" # "sinal-fechado"
    OBVIOUS
<1> QED BY <1>1, <1>2, <1>3, <1>4

\* A theme of the seeds belongs to one of them.
Same(theme, other) == theme.exam = other.exam /\ theme.year = other.year /\ theme.title = other.title
\* A theme of the seeds belongs to one of them.
LEMMA ThemesApart ==
    \A j, k \in 1 .. 3 : \A theme \in SEEDS[j].theme, other \in SEEDS[k].theme :
        Same(theme, other) => j = k /\ theme = other
<1>1. SEEDS[1].theme = {}
    BY DEF SEEDS, Tutorial!seed_tutorial, Tutorial!StorySeed
<1>2. SEEDS[2].theme = {[exam |-> "enem", year |-> 2023, title |-> "invisibilidade_do_trabalho_de_cuidado"]}
    BY DEF SEEDS, EnemCare!seed_enem_care, EnemCare!StorySeed, EnemCare!THEME, EnemCare!ThemeSeed
<1>3. SEEDS[3].theme = {[exam |-> "fuvest", year |-> 2021, title |-> "O_mundo_contemporaneo_esta_fora_de_ordem"]}
    BY DEF SEEDS, FuvestTraffic!seed_fuvest_traffic, FuvestTraffic!StorySeed, FuvestTraffic!THEME, FuvestTraffic!ThemeSeed
<1>4. "enem" # "fuvest"
    OBVIOUS
<1> SUFFICES ASSUME NEW j \in 1 .. 3, NEW k \in 1 .. 3, NEW theme \in SEEDS[j].theme,
                    NEW other \in SEEDS[k].theme, Same(theme, other)
             PROVE  j = k /\ theme = other
    OBVIOUS
<1>5. (j = 2 \/ j = 3) /\ (k = 2 \/ k = 3)
    BY <1>1
<1>6. (j = 2 => theme.exam = "enem") /\ (j = 3 => theme.exam = "fuvest")
    <2>1. CASE j = 2
        <3>1. theme \in SEEDS[2].theme
            BY <2>1
        <3> QED BY <1>2, <2>1, <3>1
    <2>2. CASE j = 3
        <3>1. theme \in SEEDS[3].theme
            BY <2>2
        <3> QED BY <1>3, <2>2, <3>1
    <2> QED BY <2>1, <2>2
<1>7. (k = 2 => other.exam = "enem") /\ (k = 3 => other.exam = "fuvest")
    BY <1>2, <1>3
<1>8. j = k
    BY <1>4, <1>5, <1>6, <1>7 DEF Same
<1> QED BY <1>2, <1>3, <1>5, <1>8

\* Every chapter is told in one form, and the last one, against the boss, is the only such one.
LEMMA ChaptersAre ==
    \A k \in 1 .. 3 :
        /\ Size(k) \in 3 .. 5 /\ DOMAIN SEEDS[k].chapters = 1 .. Size(k)
        /\ \A n \in 1 .. Size(k) :
              /\ SEEDS[k].chapters[n].kind = "chefe" <=> n = Size(k)
              /\ SEEDS[k].chapters[n].antagonist \in SEEDS[k].characters
              /\ SEEDS[k].chapters[n].beats = Tutorial!Told(SEEDS[k].chapters[n].antagonist)
<1>0. "chefe" # "confronto"
    OBVIOUS
<1>1. /\ SEEDS[1].chapters = Tutorial!chapters /\ SEEDS[1].characters = Tutorial!CHARACTERS
      /\ SEEDS[2].chapters = EnemCare!chapters /\ SEEDS[2].characters = EnemCare!CHARACTERS
      /\ SEEDS[3].chapters = FuvestTraffic!chapters /\ SEEDS[3].characters = FuvestTraffic!CHARACTERS
    BY DEF SEEDS, Tutorial!seed_tutorial, EnemCare!seed_enem_care, FuvestTraffic!seed_fuvest_traffic,
           Tutorial!StorySeed, EnemCare!StorySeed, FuvestTraffic!StorySeed
<1>2. /\ Len(Tutorial!chapters) = 3 /\ DOMAIN Tutorial!chapters = 1 .. 3
      /\ \A n \in 1 .. 3 :
            /\ Tutorial!chapters[n].kind = "chefe" <=> n = 3
            /\ Tutorial!chapters[n].antagonist \in Tutorial!CHARACTERS
            /\ Tutorial!chapters[n].beats = Tutorial!Told(Tutorial!chapters[n].antagonist)
    <2>1. Len(Tutorial!chapters) = 3 /\ DOMAIN Tutorial!chapters = 1 .. 3
        BY DEF Tutorial!chapters
    <2>2. /\ Tutorial!chapters[1] = Tutorial!Confronto("Dona_Marta", Tutorial!c1_beats)
          /\ Tutorial!chapters[2] = Tutorial!Confronto("Seu_Tenorio", Tutorial!c2_beats)
          /\ Tutorial!chapters[3] = Tutorial!Chefe("Ana_Flor", Tutorial!c3_beats)
        BY DEF Tutorial!chapters
    <2>3. \A who, beats :
          /\ Tutorial!Confronto(who, beats).kind = "confronto" /\ Tutorial!Chefe(who, beats).kind = "chefe"
          /\ Tutorial!Confronto(who, beats).antagonist = who /\ Tutorial!Chefe(who, beats).antagonist = who
          /\ Tutorial!Confronto(who, beats).beats = beats /\ Tutorial!Chefe(who, beats).beats = beats
        BY DEF Tutorial!Confronto, Tutorial!Chefe, Tutorial!ChapterSeed
    <2>4. /\ Tutorial!c1_beats = Tutorial!Told("Dona_Marta")
          /\ Tutorial!c2_beats = Tutorial!Told("Seu_Tenorio")
          /\ Tutorial!c3_beats = Tutorial!Told("Ana_Flor")
        BY DEF Tutorial!c1_beats, Tutorial!c2_beats, Tutorial!c3_beats
    <2>5. "Dona_Marta" \in Tutorial!CHARACTERS /\ "Seu_Tenorio" \in Tutorial!CHARACTERS /\ "Ana_Flor" \in Tutorial!CHARACTERS
        BY DEF Tutorial!CHARACTERS
    <2> QED BY <1>0, <2>1, <2>2, <2>3, <2>4, <2>5
<1>3. /\ Len(EnemCare!chapters) = 5 /\ DOMAIN EnemCare!chapters = 1 .. 5
      /\ \A n \in 1 .. 5 :
            /\ EnemCare!chapters[n].kind = "chefe" <=> n = 5
            /\ EnemCare!chapters[n].antagonist \in EnemCare!CHARACTERS
            /\ EnemCare!chapters[n].beats = EnemCare!Told(EnemCare!chapters[n].antagonist)
    <2>1. Len(EnemCare!chapters) = 5 /\ DOMAIN EnemCare!chapters = 1 .. 5
        BY DEF EnemCare!chapters
    <2>2. /\ EnemCare!chapters[1] = EnemCare!Confronto("Tia_Bete", EnemCare!c1_beats)
          /\ EnemCare!chapters[2] = EnemCare!Confronto("Tio_Marcos", EnemCare!c2_beats)
          /\ EnemCare!chapters[3] = EnemCare!Confronto("Dona_Cida", EnemCare!c3_beats)
          /\ EnemCare!chapters[4] = EnemCare!Confronto("Rosana", EnemCare!c4_beats)
          /\ EnemCare!chapters[5] = EnemCare!Chefe("Dra_Neusa", EnemCare!c5_beats)
        BY DEF EnemCare!chapters
    <2>3. \A who, beats :
          /\ EnemCare!Confronto(who, beats).kind = "confronto" /\ EnemCare!Chefe(who, beats).kind = "chefe"
          /\ EnemCare!Confronto(who, beats).antagonist = who /\ EnemCare!Chefe(who, beats).antagonist = who
          /\ EnemCare!Confronto(who, beats).beats = beats /\ EnemCare!Chefe(who, beats).beats = beats
        BY DEF EnemCare!Confronto, EnemCare!Chefe, EnemCare!ChapterSeed
    <2>4. /\ EnemCare!c1_beats = EnemCare!Told("Tia_Bete")
          /\ EnemCare!c2_beats = EnemCare!Told("Tio_Marcos")
          /\ EnemCare!c3_beats = EnemCare!Told("Dona_Cida")
          /\ EnemCare!c4_beats = EnemCare!Told("Rosana")
          /\ EnemCare!c5_beats = EnemCare!Told("Dra_Neusa")
        BY DEF EnemCare!c1_beats, EnemCare!c2_beats, EnemCare!c3_beats, EnemCare!c4_beats, EnemCare!c5_beats
    <2>5. "Tia_Bete" \in EnemCare!CHARACTERS /\ "Tio_Marcos" \in EnemCare!CHARACTERS /\ "Dona_Cida" \in EnemCare!CHARACTERS /\ "Rosana" \in EnemCare!CHARACTERS /\ "Dra_Neusa" \in EnemCare!CHARACTERS
        BY DEF EnemCare!CHARACTERS
    <2> QED BY <1>0, <2>1, <2>2, <2>3, <2>4, <2>5
<1>4. /\ Len(FuvestTraffic!chapters) = 5 /\ DOMAIN FuvestTraffic!chapters = 1 .. 5
      /\ \A n \in 1 .. 5 :
            /\ FuvestTraffic!chapters[n].kind = "chefe" <=> n = 5
            /\ FuvestTraffic!chapters[n].antagonist \in FuvestTraffic!CHARACTERS
            /\ FuvestTraffic!chapters[n].beats = FuvestTraffic!Told(FuvestTraffic!chapters[n].antagonist)
    <2>1. Len(FuvestTraffic!chapters) = 5 /\ DOMAIN FuvestTraffic!chapters = 1 .. 5
        BY DEF FuvestTraffic!chapters
    <2>2. /\ FuvestTraffic!chapters[1] = FuvestTraffic!Confronto("Luciana", FuvestTraffic!c1_beats)
          /\ FuvestTraffic!chapters[2] = FuvestTraffic!Confronto("Roberto", FuvestTraffic!c2_beats)
          /\ FuvestTraffic!chapters[3] = FuvestTraffic!Confronto("Sargento_Moura", FuvestTraffic!c3_beats)
          /\ FuvestTraffic!chapters[4] = FuvestTraffic!Confronto("Jonas", FuvestTraffic!c4_beats)
          /\ FuvestTraffic!chapters[5] = FuvestTraffic!Chefe("Prof_Carlos", FuvestTraffic!c5_beats)
        BY DEF FuvestTraffic!chapters
    <2>3. \A who, beats :
          /\ FuvestTraffic!Confronto(who, beats).kind = "confronto" /\ FuvestTraffic!Chefe(who, beats).kind = "chefe"
          /\ FuvestTraffic!Confronto(who, beats).antagonist = who /\ FuvestTraffic!Chefe(who, beats).antagonist = who
          /\ FuvestTraffic!Confronto(who, beats).beats = beats /\ FuvestTraffic!Chefe(who, beats).beats = beats
        BY DEF FuvestTraffic!Confronto, FuvestTraffic!Chefe, FuvestTraffic!ChapterSeed
    <2>4. /\ FuvestTraffic!c1_beats = FuvestTraffic!Told("Luciana")
          /\ FuvestTraffic!c2_beats = FuvestTraffic!Told("Roberto")
          /\ FuvestTraffic!c3_beats = FuvestTraffic!Told("Sargento_Moura")
          /\ FuvestTraffic!c4_beats = FuvestTraffic!Told("Jonas")
          /\ FuvestTraffic!c5_beats = FuvestTraffic!Told("Prof_Carlos")
        BY DEF FuvestTraffic!c1_beats, FuvestTraffic!c2_beats, FuvestTraffic!c3_beats, FuvestTraffic!c4_beats, FuvestTraffic!c5_beats
    <2>5. "Luciana" \in FuvestTraffic!CHARACTERS /\ "Roberto" \in FuvestTraffic!CHARACTERS /\ "Sargento_Moura" \in FuvestTraffic!CHARACTERS /\ "Jonas" \in FuvestTraffic!CHARACTERS /\ "Prof_Carlos" \in FuvestTraffic!CHARACTERS
        BY DEF FuvestTraffic!CHARACTERS
    <2> QED BY <1>0, <2>1, <2>2, <2>3, <2>4, <2>5
<1>5. \A c : EnemCare!Told(c) = Tutorial!Told(c) /\ FuvestTraffic!Told(c) = Tutorial!Told(c)
    BY DEF Tutorial!Told, EnemCare!Told, FuvestTraffic!Told, Tutorial!BeatSeed, EnemCare!BeatSeed, FuvestTraffic!BeatSeed,
           Tutorial!Nobody, EnemCare!Nobody, FuvestTraffic!Nobody
<1> SUFFICES ASSUME NEW k \in 1 .. 3
             PROVE  /\ Size(k) \in 3 .. 5 /\ DOMAIN SEEDS[k].chapters = 1 .. Size(k)
                    /\ \A n \in 1 .. Size(k) :
                          /\ SEEDS[k].chapters[n].kind = "chefe" <=> n = Size(k)
                          /\ SEEDS[k].chapters[n].antagonist \in SEEDS[k].characters
                          /\ SEEDS[k].chapters[n].beats = Tutorial!Told(SEEDS[k].chapters[n].antagonist)
    BY DEF Size
<1>6. CASE k = 1
    <2>1. SEEDS[k].chapters = Tutorial!chapters /\ SEEDS[k].characters = Tutorial!CHARACTERS
        BY <1>1, <1>6
    <2>2. Size(k) = 3
        BY <1>2, <2>1 DEF Size
    <2> QED BY <1>2, <2>1, <2>2
<1>7. CASE k = 2
    <2>1. SEEDS[k].chapters = EnemCare!chapters /\ SEEDS[k].characters = EnemCare!CHARACTERS
        BY <1>1, <1>7
    <2>2. Size(k) = 5
        BY <1>3, <1>5, <2>1 DEF Size
    <2> QED BY <1>3, <1>5, <2>1, <2>2
<1>8. CASE k = 3
    <2>1. SEEDS[k].chapters = FuvestTraffic!chapters /\ SEEDS[k].characters = FuvestTraffic!CHARACTERS
        BY <1>1, <1>8
    <2>2. Size(k) = 5
        BY <1>4, <1>5, <2>1 DEF Size
    <2> QED BY <1>4, <1>5, <2>1, <2>2
<1> QED BY <1>6, <1>7, <1>8

\* The first beat of a branch in that form, and how many it has.
FirstBeat(branch) == CASE branch = "main" -> 1 [] branch = "consequence" -> 5 [] branch = "recovery" -> 8
Beats3 == {"main", "consequence", "recovery"}
Count(branch) == IF branch = "consequence" THEN 3 ELSE 4
TypeAt(branch, i) ==
    CASE i = 1 -> "narration"
      [] i = 2 -> "dialogue"
      [] i = 3 -> IF branch = "consequence" THEN "narration" ELSE "objective"
      [] i = 4 -> "hint"

\* The eleven beats of a chapter: which branch each is in, and what its n-th one is.
LEMMA ToldIs ==
    ASSUME NEW c
    PROVE  /\ DOMAIN Tutorial!Told(c) = 1 .. 11
           /\ \A b \in Beats3 : \A i \in 1 .. 11 :
                 Tutorial!Told(c)[i].branch = b <=> FirstBeat(b) <= i /\ i < FirstBeat(b) + Count(b)
           /\ \A b \in Beats3 : \A i \in 1 .. Count(b) :
                 LET beat == Tutorial!Told(c)[FirstBeat(b) + i - 1] IN
                 beat.beat_type = TypeAt(b, i) /\ (i = 2 => beat.character = c)
<1>1. "main" # "consequence" /\ "main" # "recovery" /\ "consequence" # "recovery"
    OBVIOUS
<1>2. DOMAIN Tutorial!Told(c) = 1 .. 11
    BY DEF Tutorial!Told
<1>3. \A i \in 1 .. 11 : Tutorial!Told(c)[i].branch = IF i <= 4 THEN "main" ELSE IF i <= 7 THEN "consequence" ELSE "recovery"
    BY DEF Tutorial!Told, Tutorial!BeatSeed
<1>4. \A i \in 1 .. 11 : Tutorial!Told(c)[i].beat_type =
          IF i \in {1, 5, 7, 8} THEN "narration" ELSE IF i \in {2, 6, 9} THEN "dialogue"
          ELSE IF i \in {3, 10} THEN "objective" ELSE "hint"
    BY DEF Tutorial!Told, Tutorial!BeatSeed
<1>5. \A i \in {2, 6, 9} : Tutorial!Told(c)[i].character = c
    BY DEF Tutorial!Told, Tutorial!BeatSeed
<1>6. FirstBeat("main") = 1 /\ FirstBeat("consequence") = 5 /\ FirstBeat("recovery") = 8
    BY <1>1 DEF FirstBeat
<1>7. Count("main") = 4 /\ Count("consequence") = 3 /\ Count("recovery") = 4
    BY <1>1 DEF Count
<1>8. \A b \in Beats3 : \A i \in 1 .. 11 :
          Tutorial!Told(c)[i].branch = b <=> FirstBeat(b) <= i /\ i < FirstBeat(b) + Count(b)
    BY <1>1, <1>3, <1>6, <1>7 DEF Beats3
<1>9. ASSUME NEW b \in Beats3, NEW i \in 1 .. Count(b)
      PROVE  LET beat == Tutorial!Told(c)[FirstBeat(b) + i - 1] IN
             beat.beat_type = TypeAt(b, i) /\ (i = 2 => beat.character = c)
    BY <1>1, <1>4, <1>5, <1>6, <1>7 DEF Beats3, TypeAt
<1> QED BY <1>2, <1>8, <1>9

-----------------------------------------------------------------------------
(* The rows of the seeds, each with the run that wrote it. *)

ThemeOf(by, theme) == [by |-> by, exam |-> theme.exam, year |-> theme.year, title |-> theme.title]
StoryOf(by, k) ==
    [by |-> by, slug |-> SEEDS[k].slug, position |-> SEEDS[k].position,
     is_tutorial |-> SEEDS[k].is_tutorial, dimension_floor |-> SEEDS[k].dimension_floor,
     min_average |-> SEEDS[k].min_average, status |-> "published"]
CharacterOf(by, k, c) == [by |-> by, story |-> Slug(k), name |-> c]
ChapterOf(by, k, n) ==
    [by |-> by, story |-> Slug(k), position |-> n, kind |-> SEEDS[k].chapters[n].kind,
     antagonist |-> SEEDS[k].chapters[n].antagonist,
     min_words |-> SEEDS[k].chapters[n].min_words, max_words |-> SEEDS[k].chapters[n].max_words]

\* What rows hold: the themes of the seeds in T, the stories of those in S, the characters
\* of those in C, and of each seed its first chapters, with their beats; w wrote them.
ThemesIn(rows, w, T) ==
    \A row : row \in rows.themes <=> \E k \in T : \E theme \in SEEDS[k].theme : row = ThemeOf(w[k], theme)
StoriesIn(rows, w, S) ==
    \A row : row \in rows.stories <=> \E k \in S : row = StoryOf(w[k], k)
CastIn(rows, w, C) ==
    \A row : row \in rows.characters <=> \E k \in C : \E c \in SEEDS[k].characters : row = CharacterOf(w[k], k, c)
ChaptersIn(rows, w, done) ==
    \A row : row \in rows.chapters <=> \E k \in 1 .. 3 : \E n \in 1 .. done[k] : row = ChapterOf(w[k], k, n)
BeatsIn(rows, w, done) ==
    \A row : row \in rows.beats <=> \E k \in 1 .. 3 : \E n \in 1 .. done[k] : row \in Beats(w[k], SEEDS[k], n)

\* Rows with more rows, table by table.
LEMMA WithIs ==
    ASSUME NEW a, NEW b
    PROVE  /\ With(a, b) = [t \in Tables |-> With(a, b)[t]]
           /\ With(a, b).themes = a.themes \union b.themes
           /\ With(a, b).stories = a.stories \union b.stories
           /\ With(a, b).characters = a.characters \union b.characters
           /\ With(a, b).chapters = a.chapters \union b.chapters
           /\ With(a, b).beats = a.beats \union b.beats
    BY DEF With, Tables

\* No rows, table by table.
LEMMA NoRowsAre ==
    /\ NoRows = [t \in Tables |-> NoRows[t]]
    /\ NoRows.themes = {} /\ NoRows.stories = {} /\ NoRows.characters = {}
    /\ NoRows.chapters = {} /\ NoRows.beats = {}
    BY DEF NoRows, Tables

\* A story row is all that StoryRow writes.
LEMMA StoryRowIs ==
    ASSUME NEW by, NEW k
    PROVE  LET more == StoryRow(by, SEEDS[k]) IN
           /\ more.stories = {StoryOf(by, k)}
           /\ more.themes = {} /\ more.characters = {} /\ more.chapters = {} /\ more.beats = {}
    BY NoRowsAre DEF StoryRow, StoryOf, Row, Tables, NoRows

\* The characters of a seed are all that Characters writes.
LEMMA CharactersAre ==
    ASSUME NEW by, NEW k
    PROVE  LET more == Characters(by, SEEDS[k]) IN
           /\ more.characters = {CharacterOf(by, k, c) : c \in SEEDS[k].characters}
           /\ more.themes = {} /\ more.stories = {} /\ more.chapters = {} /\ more.beats = {}
    BY DEF Characters, CharacterOf, Slug, Tables, NoRows

\* A chapter and its beats are all that ChapterRow writes.
LEMMA ChapterRowIs ==
    ASSUME NEW by, NEW k, NEW n
    PROVE  LET more == ChapterRow(by, SEEDS[k], n) IN
           /\ more.chapters = {ChapterOf(by, k, n)}
           /\ more.beats = Beats(by, SEEDS[k], n)
           /\ more.themes = {} /\ more.stories = {} /\ more.characters = {}
    BY DEF ChapterRow, ChapterOf, Slug, Tables, NoRows

\* A theme is found exactly when its story has written it.
LEMMA ThemeSeen ==
    ASSUME NEW rows, NEW w, NEW T, T \subseteq 1 .. 3, ThemesIn(rows, w, T),
           NEW k \in 1 .. 3, NEW theme \in SEEDS[k].theme
    PROVE  SameTheme(rows, theme) <=> k \in T
<1>1. ASSUME k \in T PROVE SameTheme(rows, theme)
    <2>1. ThemeOf(w[k], theme) \in rows.themes
        BY <1>1 DEF ThemesIn
    <2> QED BY <2>1 DEF SameTheme, ThemeOf
<1>2. ASSUME SameTheme(rows, theme) PROVE k \in T
    <2>1. PICK row \in rows.themes : row.exam = theme.exam /\ row.year = theme.year /\ row.title = theme.title
        BY <1>2 DEF SameTheme
    <2>2. PICK j \in T : \E other \in SEEDS[j].theme : row = ThemeOf(w[j], other)
        BY DEF ThemesIn
    <2>3. PICK other \in SEEDS[j].theme : row = ThemeOf(w[j], other)
        BY <2>2
    <2>4. Same(other, theme)
        BY <2>1, <2>3 DEF Same, ThemeOf
    <2> QED BY <2>4, ThemesApart
<1> QED BY <1>1, <1>2

\* _theme_id writes the theme of a seed no one has written, and nothing else.
LEMMA ThemeIdIs ==
    ASSUME NEW rows, NEW w, NEW T, T \subseteq 1 .. 3, ThemesIn(rows, w, T), NEW by, NEW k \in 1 .. 3
    PROVE  LET more == ThemeId(rows, by, SEEDS[k]) IN
           /\ k \in T => more.themes = {}
           /\ k \notin T => more.themes = {ThemeOf(by, theme) : theme \in SEEDS[k].theme}
           /\ more.stories = {} /\ more.characters = {} /\ more.chapters = {} /\ more.beats = {}
<1> DEFINE more == ThemeId(rows, by, SEEDS[k])
           asked == {theme \in SEEDS[k].theme : ~SameTheme(rows, theme)}
<1>1. /\ more.themes = {ThemeOf(by, theme) : theme \in asked}
      /\ more.stories = {} /\ more.characters = {} /\ more.chapters = {} /\ more.beats = {}
    BY DEF ThemeId, ThemeOf, Tables, NoRows
<1>2. k \in T => asked = {}
    BY ThemeSeen
<1>3. k \notin T => asked = SEEDS[k].theme
    BY ThemeSeen
<1> HIDE DEF more, asked
<1> QED BY <1>1, <1>2, <1>3 DEF more

-----------------------------------------------------------------------------
(* The first K stories are in the content, and a seed run has written the ones after them. *)

Mine(s) == [k \in 1 .. 3 |-> s]
FirstOnes(K) == [k \in 1 .. 3 |-> IF k <= K THEN Size(k) ELSE 0]

ContentIs(rows, w, K) ==
    /\ rows = [t \in Tables |-> rows[t]]
    /\ ThemesIn(rows, w, 1 .. K) /\ StoriesIn(rows, w, 1 .. K) /\ CastIn(rows, w, 1 .. K)
    /\ ChaptersIn(rows, w, FirstOnes(K)) /\ BeatsIn(rows, w, FirstOnes(K))

\* The last story a run has written, the last with its characters, and how many chapters.
Top(r) == IF r.stage \in {"characters", "chapter", "commit"} THEN r.seed ELSE r.seed - 1
Peopled(r) == IF r.stage \in {"chapter", "commit"} THEN r.seed ELSE r.seed - 1
Done(r, K) ==
    [k \in 1 .. 3 |-> IF K < k /\ k <= Peopled(r)
                      THEN IF r.stage = "chapter" /\ k = r.seed THEN r.chapter - 1 ELSE Size(k)
                      ELSE 0]

StageOK(r, K) ==
    /\ r = [stage |-> r.stage, seed |-> r.seed, chapter |-> r.chapter, rows |-> r.rows]
    /\ r.rows = [t \in Tables |-> r.rows[t]]
    /\ \/ r.stage = "idle" /\ r.seed = 0
       \/ r.stage \in {"lookup", "theme", "story", "characters", "chapter"} /\ r.seed \in 1 .. 3
       \/ r.stage = "commit" /\ r.seed = 3
    /\ r.stage \in {"characters", "chapter"} => K < r.seed
    /\ r.stage = "chapter" => r.chapter \in 1 .. Size(r.seed)

\* A run that is about to insert a story has its theme, unless it was there already.
ThemesOf(r, s, K) ==
    LET own == K + 1 .. Top(r) IN
    IF r.stage = "story"
    THEN /\ ThemesIn(r.rows, Mine(s), own) \/ ThemesIn(r.rows, Mine(s), own \union {r.seed})
         /\ K < r.seed => ThemesIn(r.rows, Mine(s), own \union {r.seed})
    ELSE ThemesIn(r.rows, Mine(s), own)

RunIs(r, s, K) ==
    /\ StageOK(r, K)
    /\ ThemesOf(r, s, K)
    /\ StoriesIn(r.rows, Mine(s), K + 1 .. Top(r))
    /\ CastIn(r.rows, Mine(s), K + 1 .. Peopled(r))
    /\ ChaptersIn(r.rows, Mine(s), Done(r, K)) /\ BeatsIn(r.rows, Mine(s), Done(r, K))

\* One run at most has written a story.
SeedsInv(K, w) ==
    /\ seeder = [s \in Seeders |-> seeder[s]]
    /\ ContentIs(content, w, K)
    /\ \A s \in Seeders : RunIs(seeder[s], s, K)
    /\ \A s, q \in Seeders : s # q => Top(seeder[s]) <= K \/ Top(seeder[q]) <= K

\* A run that has written nothing fits any content.
LEMMA EmptyRun ==
    ASSUME NEW s, NEW K \in 0 .. 3, NEW r, StageOK(r, K), r.rows = NoRows,
           r.stage \in {"idle", "lookup"}, r.seed <= 1
    PROVE  RunIs(r, s, K) /\ Top(r) <= K
<1> USE NoRowsAre
<1>1. r.seed \in {0, 1}
    BY DEF StageOK
<1>2. Top(r) = r.seed - 1 /\ Peopled(r) = r.seed - 1 /\ r.stage # "story"
    BY DEF Top, Peopled
<1>3. K + 1 .. Top(r) = {} /\ K + 1 .. Peopled(r) = {}
    BY <1>1, <1>2
<1>4. \A k \in 1 .. 3 : Done(r, K)[k] = 0
    BY <1>1, <1>2 DEF Done
<1>5. ThemesOf(r, s, K)
    BY <1>2, <1>3 DEF ThemesOf, ThemesIn
<1>6. StoriesIn(r.rows, Mine(s), K + 1 .. Top(r)) /\ CastIn(r.rows, Mine(s), K + 1 .. Peopled(r))
    BY <1>3 DEF StoriesIn, CastIn
<1>7. ChaptersIn(r.rows, Mine(s), Done(r, K)) /\ BeatsIn(r.rows, Mine(s), Done(r, K))
    BY <1>4 DEF ChaptersIn, BeatsIn
<1> QED BY <1>1, <1>2, <1>5, <1>6, <1>7 DEF RunIs

\* So does one that is idle.
LEMMA IdleRun ==
    ASSUME NEW s, NEW K \in 0 .. 3
    PROVE  RunIs(Idle, s, K) /\ Top(Idle) <= K
<1>1. StageOK(Idle, K) /\ Idle.rows = NoRows /\ Idle.stage = "idle" /\ Idle.seed = 0
    BY NoRowsAre DEF Idle, Run, StageOK
<1> QED BY <1>1, EmptyRun

\* And one that has just begun.
LEMMA BegunRun ==
    ASSUME NEW s, NEW K \in 0 .. 3, NEW r,
           r = Run("lookup", 1, 0, NoRows)
    PROVE  RunIs(r, s, K) /\ Top(r) <= K
<1>1. StageOK(r, K) /\ r.rows = NoRows /\ r.stage = "lookup" /\ r.seed = 1
    BY NoRowsAre DEF Run, StageOK
<1> QED BY <1>1, EmptyRun

\* A seed asks for the slug and the place of its own story only.
LEMMA StoryApart ==
    ASSUME NEW by, NEW j \in 1 .. 3, NEW k \in 1 .. 3
    PROVE  /\ StoryOf(by, j).slug = SEEDS[k].slug <=> j = k
           /\ StoryOf(by, j).position = SEEDS[k].position <=> j = k
    BY SlugsApart, SeedsAre DEF StoryOf, Slug

\* What a run sees of the stories before the one it is at.
LEMMA StorySeen ==
    ASSUME NEW w, NEW K \in 0 .. 3, ContentIs(content, w, K), NEW s, NEW r, RunIs(r, s, K),
           r.stage \in {"lookup", "theme", "story"}
    PROVE  /\ (\E row \in With(content, r.rows).stories : row.slug = SEEDS[r.seed].slug) <=> r.seed <= K
           /\ Taken(With(content, r.rows).stories, SEEDS[r.seed]) <=> r.seed <= K
<1> DEFINE k == r.seed
           V == With(content, r.rows)
<1>1. k \in 1 .. 3 /\ Top(r) = k - 1
    BY DEF RunIs, StageOK, Top
<1>2. \A row : row \in V.stories <=> row \in content.stories \/ row \in r.rows.stories
    BY WithIs
<1>3. \A row : row \in V.stories <=> (\E j \in 1 .. K : row = StoryOf(w[j], j)) \/ \E j \in K + 1 .. k - 1 : row = StoryOf(Mine(s)[j], j)
    BY <1>1, <1>2 DEF ContentIs, RunIs, StoriesIn
<1> HIDE DEF V, k
<1>5. \A row \in V.stories : \E by : \E j \in 1 .. 3 : row = StoryOf(by, j) /\ (j <= K \/ j < k)
    BY <1>1, <1>3
<1>6. ASSUME k <= K PROVE \E row \in V.stories : row.slug = SEEDS[k].slug
    <2>1. StoryOf(w[k], k) \in V.stories
        BY <1>1, <1>3, <1>6
    <2> QED BY <1>1, <2>1, StoryApart
<1>7. ASSUME NEW row \in V.stories, row.slug = SEEDS[k].slug \/ row.position = SEEDS[k].position PROVE k <= K
    <2>1. PICK by : \E j \in 1 .. 3 : row = StoryOf(by, j) /\ (j <= K \/ j < k)
        BY <1>5
    <2>2. PICK j \in 1 .. 3 : row = StoryOf(by, j) /\ (j <= K \/ j < k)
        BY <2>1
    <2>3. j = k
        <3>1. /\ StoryOf(by, j).slug = SEEDS[k].slug <=> j = k
              /\ StoryOf(by, j).position = SEEDS[k].position <=> j = k
            BY <1>1, StoryApart DEF k
        <3> QED BY <1>7, <2>2, <3>1
    <2> QED BY <1>1, <2>2, <2>3
<1> QED BY <1>6, <1>7 DEF Taken, V, k

\* A run that only moves on, with the rows it had.
LEMMA RunPasses ==
    ASSUME NEW s, NEW K \in 0 .. 3, NEW r, RunIs(r, s, K), r.stage = "lookup", r.seed <= K,
           NEW q, q = NextSeed(r, r.rows)
    PROVE  RunIs(q, s, K) /\ Top(q) <= K
<1>1. r.seed \in 1 .. 3 /\ Top(r) = r.seed - 1 /\ Peopled(r) = r.seed - 1
    BY DEF RunIs, StageOK, Top, Peopled
<1>2. /\ q.rows = r.rows /\ q.stage \in {"lookup", "commit"}
      /\ Top(q) = r.seed /\ Peopled(q) = r.seed
      /\ StageOK(q, K)
    BY <1>1, SeedsAre DEF NextSeed, Run, RunIs, StageOK, Top, Peopled
<1>3. /\ K + 1 .. Top(r) = {} /\ K + 1 .. Peopled(r) = {}
      /\ K + 1 .. Top(q) = {} /\ K + 1 .. Peopled(q) = {}
    BY <1>1, <1>2
<1>4. Done(r, K) = Done(q, K)
    BY <1>1, <1>2 DEF Done
<1>5. ThemesOf(q, s, K)
    BY <1>2, <1>3 DEF RunIs, ThemesOf
<1> QED BY <1>1, <1>2, <1>3, <1>4, <1>5 DEF RunIs

\* A run whose slug is missing goes on to its theme.
LEMMA RunWrites ==
    ASSUME NEW s, NEW K \in 0 .. 3, NEW r, RunIs(r, s, K), r.stage = "lookup",
           NEW q, q = Run("theme", r.seed, r.chapter, r.rows)
    PROVE  RunIs(q, s, K) /\ Top(q) = Top(r)
<1>1. r.seed \in 1 .. 3 /\ r.rows = [t \in Tables |-> r.rows[t]]
    BY DEF RunIs, StageOK
<1>2. q.stage = "theme" /\ q.seed = r.seed /\ q.chapter = r.chapter /\ q.rows = r.rows
    BY DEF Run
<1>3. q = [stage |-> q.stage, seed |-> q.seed, chapter |-> q.chapter, rows |-> q.rows]
    BY DEF Run
<1>4. Top(q) = Top(r) /\ Peopled(q) = Peopled(r) /\ Done(q, K) = Done(r, K)
    BY <1>2 DEF Top, Peopled, Done
<1>5. StageOK(q, K)
    BY <1>1, <1>2, <1>3 DEF RunIs, StageOK
<1>6. ThemesOf(q, s, K)
    BY <1>2, <1>4 DEF RunIs, ThemesOf
<1> QED BY <1>2, <1>4, <1>5, <1>6 DEF RunIs

\* Whose rows a run sees.
Whose(w, s, K) == [k \in 1 .. 3 |-> IF k <= K THEN w[k] ELSE s]

\* What a run sees of the themes: the ones that are committed, and its own.
LEMMA ThemesSeen ==
    ASSUME NEW w, NEW K \in 0 .. 3, NEW rows, ThemesIn(rows, w, 1 .. K), NEW s, NEW own,
           NEW top \in 0 .. 3, ThemesIn(own, Mine(s), K + 1 .. top)
    PROVE  ThemesIn(With(rows, own), Whose(w, s, K), (1 .. K) \union (K + 1 .. top))
<1> DEFINE u == Whose(w, s, K)
<1>1. \A k \in 1 .. K : k \in 1 .. 3 /\ u[k] = w[k]
    BY DEF Whose
<1>2. \A k \in K + 1 .. top : k \in 1 .. 3 /\ u[k] = Mine(s)[k]
    BY DEF Whose, Mine
<1> HIDE DEF u
<1>3. \A row : row \in With(rows, own).themes <=> row \in rows.themes \/ row \in own.themes
    BY WithIs
<1>4. ThemesIn(With(rows, own), u, (1 .. K) \union (K + 1 .. top))
    BY <1>1, <1>2, <1>3 DEF ThemesIn
<1> QED BY <1>4 DEF u

\* A run that looks for its theme finds the one that is there, or writes it.
LEMMA RunFindsTheme ==
    ASSUME NEW w, NEW K \in 0 .. 3, ContentIs(content, w, K), NEW s, NEW r, RunIs(r, s, K), r.stage = "theme",
           NEW q, q = Run("story", r.seed, r.chapter,
                       With(r.rows, ThemeId(With(content, r.rows), s, SEEDS[r.seed])))
    PROVE  RunIs(q, s, K) /\ Top(q) = Top(r)
<1> DEFINE more == ThemeId(With(content, r.rows), s, SEEDS[r.seed])
           k == r.seed
           own == K + 1 .. k - 1
<1>1. /\ r = [stage |-> r.stage, seed |-> r.seed, chapter |-> r.chapter, rows |-> r.rows]
      /\ k \in 1 .. 3 /\ Top(r) = k - 1 /\ Peopled(r) = k - 1
      /\ ThemesIn(r.rows, Mine(s), own)
    BY DEF RunIs, StageOK, Top, Peopled, ThemesOf
<1>2. q = [stage |-> "story", seed |-> k, chapter |-> r.chapter, rows |-> With(r.rows, more)]
    BY DEF Run
<1>3. /\ q.stage = "story" /\ q.seed = k /\ q.rows = With(r.rows, more)
      /\ q = [stage |-> q.stage, seed |-> q.seed, chapter |-> q.chapter, rows |-> q.rows]
    BY <1>2
<1>4. Top(q) = Top(r) /\ Peopled(q) = Peopled(r) /\ Done(q, K) = Done(r, K)
    BY <1>1, <1>3 DEF Top, Peopled, Done
<1> DEFINE T == (1 .. K) \union own
<1>5. ThemesIn(With(content, r.rows), Whose(w, s, K), T)
    <2>1. k - 1 \in 0 .. 3 /\ ThemesIn(content, w, 1 .. K)
        BY <1>1 DEF ContentIs
    <2> QED BY <1>1, <2>1, ThemesSeen
<1>6. T \subseteq 1 .. 3 /\ (k \in T <=> k <= K)
    BY <1>1
<1>7. /\ k <= K => more.themes = {}
      /\ K < k => more.themes = {ThemeOf(s, theme) : theme \in SEEDS[k].theme}
      /\ more.stories = {} /\ more.characters = {} /\ more.chapters = {} /\ more.beats = {}
    <2> HIDE DEF T
    <2> QED BY <1>1, <1>5, <1>6, ThemeIdIs
<1> HIDE DEF more, T
<1>8. /\ q.rows.themes = r.rows.themes \union more.themes
      /\ q.rows.stories = r.rows.stories /\ q.rows.characters = r.rows.characters
      /\ q.rows.chapters = r.rows.chapters /\ q.rows.beats = r.rows.beats
      /\ q.rows = [t \in Tables |-> q.rows[t]]
    <2> DEFINE both == With(r.rows, more)
    <2>1. /\ both.themes = r.rows.themes \union more.themes
          /\ both.stories = r.rows.stories \union more.stories
          /\ both.characters = r.rows.characters \union more.characters
          /\ both.chapters = r.rows.chapters \union more.chapters
          /\ both.beats = r.rows.beats \union more.beats
          /\ both = [t \in Tables |-> both[t]]
        BY WithIs
    <2> HIDE DEF both
    <2>2. q.rows = both
        BY <1>3 DEF both
    <2> QED BY <1>7, <2>1, <2>2
<1>9. ThemesOf(q, s, K)
    <2>1. CASE k <= K
        <3>1. q.rows.themes = r.rows.themes
            BY <1>7, <1>8, <2>1
        <3> QED BY <1>1, <1>3, <1>4, <2>1, <3>1 DEF ThemesOf, ThemesIn
    <2>2. CASE K < k
        <3>1. \A row : row \in q.rows.themes <=> row \in r.rows.themes \/ \E theme \in SEEDS[k].theme : row = ThemeOf(s, theme)
            BY <1>7, <1>8, <2>2
        <3>2. Mine(s)[k] = s
            BY <1>1 DEF Mine
        <3>3. ThemesIn(q.rows, Mine(s), own \union {k})
            <4> HIDE DEF own, k
            <4> QED BY <1>1, <3>1, <3>2 DEF ThemesIn
        <3> QED BY <1>1, <1>3, <1>4, <3>3 DEF ThemesOf
    <2> QED BY <1>1, <2>1, <2>2
<1>10. StageOK(q, K)
    BY <1>1, <1>3, <1>8 DEF StageOK
<1>11. StoriesIn(q.rows, Mine(s), K + 1 .. Top(q))
    BY <1>4, <1>8 DEF RunIs, StoriesIn
<1>12. CastIn(q.rows, Mine(s), K + 1 .. Peopled(q))
    BY <1>4, <1>8 DEF RunIs, CastIn
<1>13. ChaptersIn(q.rows, Mine(s), Done(q, K))
    BY <1>4, <1>8 DEF RunIs, ChaptersIn
<1>14. BeatsIn(q.rows, Mine(s), Done(q, K))
    BY <1>4, <1>8 DEF RunIs, BeatsIn
<1> QED BY <1>4, <1>9, <1>10, <1>11, <1>12, <1>13, <1>14 DEF RunIs

\* The story a run inserts is the next one.
LEMMA RunInserts ==
    ASSUME NEW s, NEW K \in 0 .. 3, NEW r, RunIs(r, s, K), r.stage = "story", K < r.seed,
           NEW q, q = Run("characters", r.seed, r.chapter, With(r.rows, StoryRow(s, SEEDS[r.seed])))
    PROVE  RunIs(q, s, K)
<1> DEFINE more == StoryRow(s, SEEDS[r.seed])
           k == r.seed
           both == With(r.rows, more)
<1>1. /\ r = [stage |-> r.stage, seed |-> r.seed, chapter |-> r.chapter, rows |-> r.rows]
      /\ k \in 1 .. 3 /\ K < k /\ Top(r) = k - 1 /\ Peopled(r) = k - 1
      /\ ThemesIn(r.rows, Mine(s), (K + 1 .. k - 1) \union {k})
      /\ StoriesIn(r.rows, Mine(s), K + 1 .. k - 1)
    BY DEF RunIs, StageOK, Top, Peopled, ThemesOf
<1>2. /\ more.stories = {StoryOf(s, k)}
      /\ more.themes = {} /\ more.characters = {} /\ more.chapters = {} /\ more.beats = {}
    BY StoryRowIs
<1>3. /\ both.themes = r.rows.themes \union more.themes
      /\ both.stories = r.rows.stories \union more.stories
      /\ both.characters = r.rows.characters \union more.characters
      /\ both.chapters = r.rows.chapters \union more.chapters
      /\ both.beats = r.rows.beats \union more.beats
      /\ both = [t \in Tables |-> both[t]]
    BY WithIs
<1> HIDE DEF more, both
<1>5. /\ q.stage = "characters" /\ q.seed = k /\ q.rows = both
      /\ q = [stage |-> q.stage, seed |-> q.seed, chapter |-> q.chapter, rows |-> q.rows]
    BY DEF more, both, Run
<1> HIDE DEF k
<1>6. Top(q) = k /\ Peopled(q) = k - 1 /\ Done(q, K) = Done(r, K)
    BY <1>1, <1>5 DEF Top, Peopled, Done
<1>7. (K + 1 .. k - 1) \union {k} = K + 1 .. k
    BY <1>1
<1>8. ThemesOf(q, s, K)
    BY <1>1, <1>2, <1>3, <1>5, <1>6, <1>7 DEF ThemesOf, ThemesIn
<1>9. StoriesIn(q.rows, Mine(s), K + 1 .. k)
    <2>1. \A row : row \in q.rows.stories <=> row \in r.rows.stories \/ row = StoryOf(s, k)
        BY <1>2, <1>3, <1>5
    <2>2. Mine(s)[k] = s /\ k \in K + 1 .. k /\ \A j : j \in K + 1 .. k <=> j \in K + 1 .. k - 1 \/ j = k
        BY <1>1 DEF Mine
    <2> QED BY <1>1, <2>1, <2>2 DEF StoriesIn
<1>10. StageOK(q, K)
    BY <1>1, <1>3, <1>5 DEF StageOK
<1>11. CastIn(q.rows, Mine(s), K + 1 .. Peopled(q))
    BY <1>1, <1>2, <1>3, <1>5, <1>6 DEF RunIs, CastIn
<1>12. ChaptersIn(q.rows, Mine(s), Done(q, K)) /\ BeatsIn(q.rows, Mine(s), Done(q, K))
    BY <1>2, <1>3, <1>5, <1>6 DEF RunIs, ChaptersIn, BeatsIn
<1> QED BY <1>6, <1>8, <1>9, <1>10, <1>11, <1>12 DEF RunIs

\* The characters a run inserts are those of its story.
LEMMA RunPeoples ==
    ASSUME NEW s, NEW K \in 0 .. 3, NEW r, RunIs(r, s, K), r.stage = "characters",
           NEW q, q = Run("chapter", r.seed, 1, With(r.rows, Characters(s, SEEDS[r.seed])))
    PROVE  RunIs(q, s, K) /\ Top(q) = Top(r)
<1> DEFINE more == Characters(s, SEEDS[r.seed])
           k == r.seed
           both == With(r.rows, more)
<1>1. /\ k \in 1 .. 3 /\ K < k /\ Top(r) = k /\ Peopled(r) = k - 1
      /\ ThemesIn(r.rows, Mine(s), K + 1 .. k)
      /\ CastIn(r.rows, Mine(s), K + 1 .. k - 1)
    BY DEF RunIs, StageOK, Top, Peopled, ThemesOf
<1>2. /\ more.characters = {CharacterOf(s, k, c) : c \in SEEDS[k].characters}
      /\ more.themes = {} /\ more.stories = {} /\ more.chapters = {} /\ more.beats = {}
    BY CharactersAre
<1>3. /\ both.themes = r.rows.themes \union more.themes
      /\ both.stories = r.rows.stories \union more.stories
      /\ both.characters = r.rows.characters \union more.characters
      /\ both.chapters = r.rows.chapters \union more.chapters
      /\ both.beats = r.rows.beats \union more.beats
      /\ both = [t \in Tables |-> both[t]]
    BY WithIs
<1> HIDE DEF more, both
<1>5. /\ q.stage = "chapter" /\ q.seed = k /\ q.rows = both /\ q.chapter = 1
      /\ q = [stage |-> q.stage, seed |-> q.seed, chapter |-> q.chapter, rows |-> q.rows]
    BY DEF more, both, Run
<1>6. Top(q) = k /\ Peopled(q) = k
    BY <1>5 DEF Top, Peopled
<1>7. \A j \in 1 .. 3 : Done(q, K)[j] = Done(r, K)[j]
    BY <1>1, <1>5, <1>6 DEF Done, RunIs
<1>8. ThemesOf(q, s, K)
    BY <1>1, <1>2, <1>3, <1>5, <1>6 DEF ThemesOf, ThemesIn
<1>9. StoriesIn(q.rows, Mine(s), K + 1 .. Top(q))
    BY <1>1, <1>2, <1>3, <1>5, <1>6 DEF StoriesIn, RunIs
<1>10. StageOK(q, K)
    <2>1. 1 \in 1 .. Size(k)
        BY <1>1, ChaptersAre
    <2> QED BY <1>1, <1>3, <1>5, <2>1 DEF StageOK
<1>11. CastIn(q.rows, Mine(s), K + 1 .. k)
    <2>1. \A row : row \in q.rows.characters <=> row \in r.rows.characters \/ \E c \in SEEDS[k].characters : row = CharacterOf(s, k, c)
        BY <1>2, <1>3, <1>5
    <2>2. Mine(s)[k] = s /\ \A j : j \in K + 1 .. k <=> j \in K + 1 .. k - 1 \/ j = k
        BY <1>1 DEF Mine
    <2> HIDE DEF k
    <2> QED BY <1>1, <2>1, <2>2 DEF CastIn
<1>12. ChaptersIn(q.rows, Mine(s), Done(q, K)) /\ BeatsIn(q.rows, Mine(s), Done(q, K))
    BY <1>2, <1>3, <1>5, <1>7 DEF RunIs, ChaptersIn, BeatsIn
<1> QED BY <1>1, <1>6, <1>8, <1>9, <1>10, <1>11, <1>12 DEF RunIs

\* With a chapter more, up to the last one of the story.
LEMMA RunTells ==
    ASSUME NEW s, NEW K \in 0 .. 3, NEW r, RunIs(r, s, K), r.stage = "chapter",
           NEW rows, rows = With(r.rows, ChapterRow(s, SEEDS[r.seed], r.chapter)),
           NEW q, q = IF r.chapter < Size(r.seed)
                      THEN Run("chapter", r.seed, r.chapter + 1, rows)
                      ELSE NextSeed(r, rows)
    PROVE  RunIs(q, s, K) /\ Top(q) = Top(r)
<1> DEFINE more == ChapterRow(s, SEEDS[r.seed], r.chapter)
           k == r.seed
           n == r.chapter
<1>1. /\ k \in 1 .. 3 /\ K < k /\ Top(r) = k /\ Peopled(r) = k /\ n \in 1 .. Size(k)
      /\ ThemesIn(r.rows, Mine(s), K + 1 .. k)
      /\ StoriesIn(r.rows, Mine(s), K + 1 .. k)
      /\ CastIn(r.rows, Mine(s), K + 1 .. k)
    BY DEF RunIs, StageOK, Top, Peopled, ThemesOf
<1>0. Size(k) \in 3 .. 5 /\ \A j \in 1 .. 3 : Size(j) \in 3 .. 5
    BY <1>1, ChaptersAre
<1>2. /\ more.chapters = {ChapterOf(s, k, n)}
      /\ more.beats = Beats(s, SEEDS[k], n)
      /\ more.themes = {} /\ more.stories = {} /\ more.characters = {}
    BY ChapterRowIs
<1>3. /\ rows.themes = r.rows.themes \union more.themes
      /\ rows.stories = r.rows.stories \union more.stories
      /\ rows.characters = r.rows.characters \union more.characters
      /\ rows.chapters = r.rows.chapters \union more.chapters
      /\ rows.beats = r.rows.beats \union more.beats
      /\ rows = [t \in Tables |-> rows[t]]
    BY WithIs
<1> HIDE DEF more
<1>4. \/ n < Size(k) /\ q.stage = "chapter" /\ q.seed = k /\ q.chapter = n + 1
      \/ n = Size(k) /\ k < 3 /\ q.stage = "lookup" /\ q.seed = k + 1
      \/ n = Size(k) /\ k = 3 /\ q.stage = "commit" /\ q.seed = k
    BY <1>0, <1>1, SeedsAre DEF NextSeed, Run
<1>5. q.rows = rows /\ q = [stage |-> q.stage, seed |-> q.seed, chapter |-> q.chapter, rows |-> q.rows]
    BY DEF NextSeed, Run
<1>6. Top(q) = k /\ Peopled(q) = k
    BY <1>1, <1>4 DEF Top, Peopled
<1>7. \A j \in 1 .. 3 : Done(q, K)[j] = IF j = k THEN n ELSE Done(r, K)[j]
    BY <1>1, <1>4, <1>6 DEF Done
<1>11. Done(r, K)[k] = n - 1 /\ Mine(s)[k] = s /\ n \in Nat
    BY <1>0, <1>1 DEF Done, Mine
<1>12. \A j \in 1 .. 3 : \A i : i \in 1 .. Done(q, K)[j] <=> i \in 1 .. Done(r, K)[j] \/ (j = k /\ i = n)
    <2> SUFFICES ASSUME NEW j \in 1 .. 3, NEW i
                 PROVE  i \in 1 .. Done(q, K)[j] <=> i \in 1 .. Done(r, K)[j] \/ (j = k /\ i = n)
        OBVIOUS
    <2>1. CASE j = k
        <3>1. Done(q, K)[j] = n /\ Done(r, K)[j] = n - 1 /\ n \in 1 .. Size(k) /\ n \in Int
            BY <1>0, <1>1, <1>7, <1>11, <2>1
        <3> HIDE DEF n, k
        <3> QED BY <2>1, <3>1
    <2>2. CASE j # k
        BY <1>7, <2>2
    <2> QED BY <2>1, <2>2
<1> HIDE DEF k, n
<1>8. /\ q.rows.themes = r.rows.themes /\ q.rows.stories = r.rows.stories
      /\ q.rows.characters = r.rows.characters
    BY <1>2, <1>3, <1>5, Zenon
<1>9. ThemesOf(q, s, K)
    <2>1. q.stage # "story"
        BY <1>4
    <2> QED BY <1>1, <1>6, <1>8, <2>1 DEF ThemesOf, ThemesIn
<1>10. StoriesIn(q.rows, Mine(s), K + 1 .. Top(q)) /\ CastIn(q.rows, Mine(s), K + 1 .. Peopled(q))
    BY <1>1, <1>6, <1>8 DEF StoriesIn, CastIn
<1>15. StageOK(q, K)
    <2>1. q.stage \in {"characters", "chapter"} => K < q.seed
        BY <1>1, <1>4
    <2>2. q.stage = "chapter" => q.chapter \in 1 .. Size(q.seed)
        BY <1>0, <1>1, <1>4
    <2>3. \/ q.stage \in {"lookup", "theme", "story", "characters", "chapter"} /\ q.seed \in 1 .. 3
          \/ q.stage = "commit" /\ q.seed = 3
        BY <1>1, <1>4
    <2>4. q.rows = [t \in Tables |-> q.rows[t]]
        BY <1>3, <1>5, Zenon
    <2> QED BY <1>5, <2>1, <2>2, <2>3, <2>4, Zenon DEF StageOK
<1>13. ChaptersIn(q.rows, Mine(s), Done(q, K))
    <2> DEFINE of(row, j, i) == row = ChapterOf(Mine(s)[j], j, i)
    <2>5. \A row : of(row, k, n) <=> row = ChapterOf(s, k, n)
        BY <1>11
    <2>6. q.rows.chapters = r.rows.chapters \union more.chapters
        BY <1>3, <1>5, Zenon
    <2>1. \A row : row \in q.rows.chapters <=> row \in r.rows.chapters \/ of(row, k, n)
        <3> HIDE DEF of
        <3> QED BY <1>2, <2>5, <2>6
    <2>2. \A row : row \in r.rows.chapters <=> \E j \in 1 .. 3 : \E i \in 1 .. Done(r, K)[j] : of(row, j, i)
        BY DEF RunIs, ChaptersIn
    <2> HIDE DEF of
    <2>3. \A row : (\E j \in 1 .. 3 : \E i \in 1 .. Done(q, K)[j] : of(row, j, i))
                   <=> (\E j \in 1 .. 3 : \E i \in 1 .. Done(r, K)[j] : of(row, j, i)) \/ of(row, k, n)
        BY <1>1, <1>12, Zenon
    <2>4. \A row : row \in q.rows.chapters <=> \E j \in 1 .. 3 : \E i \in 1 .. Done(q, K)[j] : of(row, j, i)
        BY <2>1, <2>2, <2>3, Zenon
    <2> QED BY <2>4 DEF ChaptersIn, of
<1>14. BeatsIn(q.rows, Mine(s), Done(q, K))
    <2> DEFINE of(row, j, i) == row \in Beats(Mine(s)[j], SEEDS[j], i)
    <2>5. \A row : of(row, k, n) <=> row \in Beats(s, SEEDS[k], n)
        BY <1>11
    <2>6. q.rows.beats = r.rows.beats \union more.beats
        BY <1>3, <1>5, Zenon
    <2>1. \A row : row \in q.rows.beats <=> row \in r.rows.beats \/ of(row, k, n)
        <3> HIDE DEF of
        <3> QED BY <1>2, <2>5, <2>6
    <2>2. \A row : row \in r.rows.beats <=> \E j \in 1 .. 3 : \E i \in 1 .. Done(r, K)[j] : of(row, j, i)
        BY DEF RunIs, BeatsIn
    <2> HIDE DEF of
    <2>3. \A row : (\E j \in 1 .. 3 : \E i \in 1 .. Done(q, K)[j] : of(row, j, i))
                   <=> (\E j \in 1 .. 3 : \E i \in 1 .. Done(r, K)[j] : of(row, j, i)) \/ of(row, k, n)
        BY <1>1, <1>12, Zenon
    <2>4. \A row : row \in q.rows.beats <=> \E j \in 1 .. 3 : \E i \in 1 .. Done(q, K)[j] : of(row, j, i)
        BY <2>1, <2>2, <2>3, Zenon
    <2> QED BY <2>4 DEF BeatsIn, of
<1> QED BY <1>1, <1>6, <1>9, <1>10, <1>13, <1>14, <1>15 DEF RunIs

\* A commit adds what the run has written to what was there.
LEMMA RunCommits ==
    ASSUME NEW w, NEW K \in 0 .. 3, NEW rows, ContentIs(rows, w, K), NEW s, NEW r, RunIs(r, s, K), r.stage = "commit"
    PROVE  ContentIs(With(rows, r.rows), Whose(w, s, K), 3)
<1> DEFINE both == With(rows, r.rows)
           u == Whose(w, s, K)
<1>1. r.seed = 3 /\ Top(r) = 3 /\ Peopled(r) = 3 /\ ThemesIn(r.rows, Mine(s), K + 1 .. 3)
    BY DEF RunIs, StageOK, Top, Peopled, ThemesOf
<1>2. /\ both.themes = rows.themes \union r.rows.themes
      /\ both.stories = rows.stories \union r.rows.stories
      /\ both.characters = rows.characters \union r.rows.characters
      /\ both.chapters = rows.chapters \union r.rows.chapters
      /\ both.beats = rows.beats \union r.rows.beats
      /\ both = [t \in Tables |-> both[t]]
    BY WithIs
<1>3. \A k \in 1 .. K : k \in 1 .. 3 /\ u[k] = w[k]
    BY DEF Whose
<1>4. \A k \in K + 1 .. 3 : k \in 1 .. 3 /\ u[k] = Mine(s)[k]
    BY DEF Whose, Mine
<1>5. (1 .. K) \union (K + 1 .. 3) = 1 .. 3
    OBVIOUS
<1> HIDE DEF both, u
<1>6. ThemesIn(both, u, 1 .. 3)
    <2>1. ThemesIn(both, u, (1 .. K) \union (K + 1 .. 3))
        <3>1. 3 \in 0 .. 3 /\ ThemesIn(rows, w, 1 .. K)
            BY DEF ContentIs
        <3> QED BY <1>1, <3>1, ThemesSeen DEF both, u
    <2> QED BY <1>5, <2>1
<1>7. StoriesIn(both, u, 1 .. 3)
    <2>1. StoriesIn(both, u, (1 .. K) \union (K + 1 .. 3))
        BY <1>1, <1>2, <1>3, <1>4 DEF ContentIs, RunIs, StoriesIn
    <2> QED BY <1>5, <2>1
<1>8. CastIn(both, u, 1 .. 3)
    <2>1. CastIn(both, u, (1 .. K) \union (K + 1 .. 3))
        <3> DEFINE of(row, v, C) == \E k \in C : \E c \in SEEDS[k].characters : row = CharacterOf(v[k], k, c)
        <3>1. \A row : row \in both.characters <=> row \in rows.characters \/ row \in r.rows.characters
            BY <1>2
        <3>2. \A row : row \in rows.characters <=> of(row, w, 1 .. K)
            BY DEF ContentIs, CastIn
        <3>3. \A row : row \in r.rows.characters <=> of(row, Mine(s), K + 1 .. 3)
            BY <1>1 DEF RunIs, CastIn
        <3>4. \A row : of(row, w, 1 .. K) <=> of(row, u, 1 .. K)
            BY <1>3
        <3>5. \A row : of(row, Mine(s), K + 1 .. 3) <=> of(row, u, K + 1 .. 3)
            BY <1>4
        <3>6. \A row : of(row, u, (1 .. K) \union (K + 1 .. 3)) <=> of(row, u, 1 .. K) \/ of(row, u, K + 1 .. 3)
            OBVIOUS
        <3> HIDE DEF of
        <3>7. \A row : row \in both.characters <=> of(row, u, (1 .. K) \union (K + 1 .. 3))
            BY <3>1, <3>2, <3>3, <3>4, <3>5, <3>6
        <3> QED BY <3>7 DEF CastIn, of
    <2> QED BY <1>5, <2>1
<1>9. \A k \in 1 .. 3 :
          /\ FirstOnes(3)[k] = Size(k)
          /\ k <= K => FirstOnes(K)[k] = Size(k) /\ Done(r, K)[k] = 0 /\ u[k] = w[k]
          /\ K < k => FirstOnes(K)[k] = 0 /\ Done(r, K)[k] = Size(k) /\ u[k] = Mine(s)[k]
    <2>1. \A k \in 1 .. 3 : k <= K => FirstOnes(K)[k] = Size(k) /\ Done(r, K)[k] = 0
        BY DEF FirstOnes, Done
    <2>2. \A k \in 1 .. 3 : K < k => FirstOnes(K)[k] = 0 /\ Done(r, K)[k] = Size(k)
        <3>1. r.stage # "chapter"
            OBVIOUS
        <3> QED BY <1>1, <3>1 DEF FirstOnes, Done
    <2>3. \A k \in 1 .. 3 : FirstOnes(3)[k] = Size(k)
        BY DEF FirstOnes
    <2> QED BY <1>3, <1>4, <2>1, <2>2, <2>3
<1>10. ChaptersIn(both, u, FirstOnes(3))
    <2>1. ChaptersIn(rows, w, FirstOnes(K)) /\ ChaptersIn(r.rows, Mine(s), Done(r, K))
        BY DEF ContentIs, RunIs
    <2> SUFFICES ASSUME NEW row
                 PROVE  row \in both.chapters <=>
                            \E k \in 1 .. 3 : \E n \in 1 .. FirstOnes(3)[k] : row = ChapterOf(u[k], k, n)
        BY DEF ChaptersIn
    <2>2. ASSUME row \in rows.chapters
          PROVE  \E k \in 1 .. 3 : \E n \in 1 .. FirstOnes(3)[k] : row = ChapterOf(u[k], k, n)
        <3>1. PICK k \in 1 .. 3 : \E n \in 1 .. FirstOnes(K)[k] : row = ChapterOf(w[k], k, n)
            BY <2>1, <2>2 DEF ChaptersIn
        <3>2. k <= K
            BY <1>9, <3>1
        <3> QED BY <1>9, <3>1, <3>2
    <2>3. ASSUME row \in r.rows.chapters
          PROVE  \E k \in 1 .. 3 : \E n \in 1 .. FirstOnes(3)[k] : row = ChapterOf(u[k], k, n)
        <3>1. PICK k \in 1 .. 3 : \E n \in 1 .. Done(r, K)[k] : row = ChapterOf(Mine(s)[k], k, n)
            BY <2>1, <2>3 DEF ChaptersIn
        <3>2. K < k
            BY <1>9, <3>1
        <3> QED BY <1>9, <3>1, <3>2
    <2>4. ASSUME NEW k \in 1 .. 3, NEW n \in 1 .. FirstOnes(3)[k], row = ChapterOf(u[k], k, n)
          PROVE  row \in rows.chapters \/ row \in r.rows.chapters
        <3>1. CASE k <= K
            BY <1>9, <2>1, <2>4, <3>1 DEF ChaptersIn
        <3>2. CASE K < k
            BY <1>9, <2>1, <2>4, <3>2 DEF ChaptersIn
        <3> QED BY <3>1, <3>2
    <2> QED BY <1>2, <2>2, <2>3, <2>4
<1>11. BeatsIn(both, u, FirstOnes(3))
    <2>1. BeatsIn(rows, w, FirstOnes(K)) /\ BeatsIn(r.rows, Mine(s), Done(r, K))
        BY DEF ContentIs, RunIs
    <2> SUFFICES ASSUME NEW row
                 PROVE  row \in both.beats <=>
                            \E k \in 1 .. 3 : \E n \in 1 .. FirstOnes(3)[k] : row \in Beats(u[k], SEEDS[k], n)
        BY DEF BeatsIn
    <2>2. ASSUME row \in rows.beats
          PROVE  \E k \in 1 .. 3 : \E n \in 1 .. FirstOnes(3)[k] : row \in Beats(u[k], SEEDS[k], n)
        <3>1. PICK k \in 1 .. 3 : \E n \in 1 .. FirstOnes(K)[k] : row \in Beats(w[k], SEEDS[k], n)
            BY <2>1, <2>2 DEF BeatsIn
        <3>2. k <= K
            BY <1>9, <3>1
        <3> QED BY <1>9, <3>1, <3>2
    <2>3. ASSUME row \in r.rows.beats
          PROVE  \E k \in 1 .. 3 : \E n \in 1 .. FirstOnes(3)[k] : row \in Beats(u[k], SEEDS[k], n)
        <3>1. PICK k \in 1 .. 3 : \E n \in 1 .. Done(r, K)[k] : row \in Beats(Mine(s)[k], SEEDS[k], n)
            BY <2>1, <2>3 DEF BeatsIn
        <3>2. K < k
            BY <1>9, <3>1
        <3> QED BY <1>9, <3>1, <3>2
    <2>4. ASSUME NEW k \in 1 .. 3, NEW n \in 1 .. FirstOnes(3)[k], row \in Beats(u[k], SEEDS[k], n)
          PROVE  row \in rows.beats \/ row \in r.rows.beats
        <3>1. CASE k <= K
            BY <1>9, <2>1, <2>4, <3>1 DEF BeatsIn
        <3>2. CASE K < k
            BY <1>9, <2>1, <2>4, <3>2 DEF BeatsIn
        <3> QED BY <3>1, <3>2
    <2> QED BY <1>2, <2>2, <2>3, <2>4
<1> QED BY <1>2, <1>6, <1>7, <1>8, <1>10, <1>11 DEF ContentIs, both, u

\* A run that has written no story is as it was when another one commits.
LEMMA RunKept ==
    ASSUME NEW s, NEW K \in 0 .. 3, NEW r, RunIs(r, s, K), Top(r) <= K
    PROVE  RunIs(r, s, 3) /\ Top(r) <= 3
<1>1. StageOK(r, 3)
    BY DEF RunIs, StageOK, Top
<1>2. r.seed \in 0 .. 3 /\ r.stage \notin {"characters", "chapter"}
    BY DEF RunIs, StageOK, Top
<1>3. Peopled(r) = Top(r) /\ Top(r) \in -1 .. 3
    BY <1>2 DEF Peopled, Top
<1>4. K + 1 .. Top(r) = {} /\ 3 + 1 .. Top(r) = {}
    BY <1>3
<1>5. Done(r, K) = Done(r, 3)
    BY <1>3 DEF Done
<1>6. ThemesOf(r, s, 3)
    <2>1. K + 1 .. Top(r) = 4 .. Top(r) /\ 3 + 1 = 4 /\ ~(3 < r.seed)
        BY <1>2, <1>3, <1>4
    <2>2. ThemesOf(r, s, K)
        BY DEF RunIs
    <2>3. CASE r.stage = "story"
        BY <2>1, <2>2, <2>3 DEF ThemesOf
    <2>4. CASE r.stage # "story"
        BY <2>1, <2>2, <2>4 DEF ThemesOf
    <2> QED BY <2>3, <2>4
<1> QED BY <1>1, <1>3, <1>4, <1>5, <1>6 DEF RunIs

\* A run moves on, and is one of those that have written a story only if no other is.
LEMMA RunMoves ==
    ASSUME NEW w, NEW K \in 0 .. 3, SeedsInv(K, w), content' = content, NEW s \in Seeders,
           NEW q, Goes(s, q), RunIs(q, s, K),
           Top(q) <= K \/ \A p \in Seeders : p # s => Top(seeder[p]) <= K
    PROVE  SeedsInv(K, w)'
<1>1. /\ seeder' = [p \in Seeders |-> seeder'[p]]
      /\ seeder'[s] = q /\ \A p \in Seeders : p # s => seeder'[p] = seeder[p]
    BY DEF SeedsInv, Goes
<1>2. ContentIs(content', w, K)
    BY DEF SeedsInv
<1>3. ASSUME NEW p \in Seeders PROVE RunIs(seeder'[p], p, K)
    BY <1>1, <1>3 DEF SeedsInv
<1>4. ASSUME NEW p \in Seeders, NEW o \in Seeders, p # o
      PROVE  Top(seeder'[p]) <= K \/ Top(seeder'[o]) <= K
    BY <1>1, <1>4 DEF SeedsInv
<1> QED BY <1>1, <1>2, <1>3, <1>4 DEF SeedsInv

\* Every step of a run leaves the content whole, with one more writer at most.
LEMMA SeedsStep ==
    ASSUME NEW w, NEW K \in 0 .. 3, SeedsInv(K, w), NEW s \in Seeders, SeedStep(s),
           NEW r, r = seeder[s]
    PROVE  \E L \in 0 .. 3 : \E v : SeedsInv(L, v)'
<1>1. /\ RunIs(r, s, K) /\ ContentIs(content, w, K)
      /\ seeder = [p \in Seeders |-> seeder[p]]
      /\ Len(SEEDS) = 3
    BY SeedsAre DEF SeedsInv, RunIs, StageOK
<1>2. Top(r) <= K \/ \A p \in Seeders : p # s => Top(seeder[p]) <= K
    BY DEF SeedsInv
<1>3. ASSUME NEW q, content' = content, Goes(s, q), RunIs(q, s, K),
             Top(q) <= K \/ Top(q) = Top(r)
      PROVE  \E L \in 0 .. 3 : \E v : SeedsInv(L, v)'
    <2>1. Top(q) <= K \/ \A p \in Seeders : p # s => Top(seeder[p]) <= K
        BY <1>2, <1>3
    <2>2. SeedsInv(K, w)'
        BY <1>3, <2>1, RunMoves
    <2> QED BY <2>2
<1>4. CASE SeedBegins(s)
    <2> DEFINE q == Run("lookup", 1, 0, NoRows)
    <2>1. content' = content /\ Goes(s, q)
        BY <1>4 DEF SeedBegins
    <2>2. RunIs(q, s, K) /\ Top(q) <= K
        BY BegunRun
    <2> HIDE DEF q
    <2> QED BY <1>3, <2>1, <2>2
<1>5. ASSUME content' = content, Goes(s, Idle)
      PROVE  \E L \in 0 .. 3 : \E v : SeedsInv(L, v)'
    BY <1>3, <1>5, IdleRun
<1>6. CASE LookUp(s)
    <2>1. r.stage = "lookup" /\ content' = content /\ r.seed \in 1 .. 3
        BY <1>1, <1>6 DEF LookUp, RunIs, StageOK
    <2>2. (\E row \in View(s).stories : row.slug = Seed(s).slug) <=> r.seed <= K
        BY <1>1, <2>1, StorySeen DEF View, Seed
    <2>3. CASE r.seed <= K
        <3> DEFINE q == NextSeed(r, r.rows)
        <3>1. Goes(s, q)
            BY <1>6, <2>2, <2>3 DEF LookUp
        <3>3. RunIs(q, s, K) /\ Top(q) <= K
            BY <1>1, <2>1, <2>3, RunPasses
        <3> HIDE DEF q
        <3> QED BY <1>3, <2>1, <3>1, <3>3
    <2>4. CASE ~(r.seed <= K)
        <3> DEFINE q == Run("theme", r.seed, r.chapter, r.rows)
        <3>1. Goes(s, q)
            BY <1>6, <2>2, <2>4 DEF LookUp
        <3>3. RunIs(q, s, K) /\ Top(q) = Top(r)
            BY <1>1, <2>1, RunWrites
        <3> HIDE DEF q
        <3> QED BY <1>3, <2>1, <3>1, <3>3
    <2> QED BY <2>3, <2>4
<1>7. CASE FindTheme(s)
    <2> DEFINE q == Run("story", r.seed, r.chapter,
                        With(r.rows, ThemeId(With(content, r.rows), s, SEEDS[r.seed])))
    <2>1. r.stage = "theme" /\ content' = content
        BY <1>7 DEF FindTheme
    <2>2. Goes(s, q)
        BY <1>7 DEF FindTheme, Writes, View, Seed
    <2>3. RunIs(q, s, K) /\ Top(q) = Top(r)
        BY <1>1, <2>1, RunFindsTheme
    <2> HIDE DEF q
    <2> QED BY <1>3, <2>1, <2>2, <2>3
<1>8. CASE InsertStory(s)
    <2>1. /\ r.stage = "story" /\ content' = content /\ r.seed \in 1 .. 3
          /\ \A p \in Seeders \ {s} : ~Taken(seeder[p].rows.stories, SEEDS[r.seed])
        BY <1>1, <1>8 DEF InsertStory, Seed, RunIs, StageOK
    <2>2. Taken(View(s).stories, Seed(s)) <=> r.seed <= K
        BY <1>1, <2>1, StorySeen DEF View, Seed
    <2>3. CASE r.seed <= K
        <3>1. Goes(s, Idle)
            BY <1>8, <2>2, <2>3 DEF InsertStory
        <3> QED BY <1>5, <2>1, <3>1
    <2>4. CASE ~(r.seed <= K)
        <3>0. K < r.seed
            BY <2>1, <2>4
        <3> DEFINE q == Run("characters", r.seed, r.chapter, With(r.rows, StoryRow(s, SEEDS[r.seed])))
        <3>1. Goes(s, q)
            BY <1>8, <2>2, <2>4 DEF InsertStory, Writes, Seed
        <3>2. RunIs(q, s, K)
            BY <1>1, <2>1, <3>0, RunInserts
        <3>4. ASSUME NEW p \in Seeders, p # s PROVE Top(seeder[p]) <= K
            <4>1. RunIs(seeder[p], p, K) /\ Top(seeder[p]) \in -1 .. 3
                <5>1. RunIs(seeder[p], p, K)
                    BY DEF SeedsInv
                <5> QED BY <5>1 DEF RunIs, StageOK, Top
            <4>2. CASE Top(r) <= K
                <5>1. r.seed = K + 1
                    BY <2>1, <3>0, <4>2 DEF Top
                <5> SUFFICES ASSUME ~(Top(seeder[p]) <= K) PROVE FALSE
                    OBVIOUS
                <5>2. K + 1 \in K + 1 .. Top(seeder[p])
                    BY <4>1
                <5>3. StoryOf(Mine(p)[K + 1], K + 1) \in seeder[p].rows.stories
                    BY <4>1, <5>2 DEF RunIs, StoriesIn
                <5>4. StoryOf(Mine(p)[K + 1], K + 1).slug = SEEDS[r.seed].slug
                    BY <5>1 DEF StoryOf
                <5>5. Taken(seeder[p].rows.stories, SEEDS[r.seed])
                    BY <5>3, <5>4 DEF Taken
                <5> QED BY <2>1, <3>4, <5>5
            <4>3. CASE ~(Top(r) <= K)
                BY <1>2, <3>4, <4>3
            <4> QED BY <4>2, <4>3
        <3> HIDE DEF q
        <3>5. SeedsInv(K, w)'
            BY <2>1, <3>1, <3>2, <3>4, RunMoves
        <3> QED BY <3>5
    <2> QED BY <2>1, <2>3, <2>4
<1>9. CASE InsertCharacters(s)
    <2> DEFINE q == Run("chapter", r.seed, 1, With(r.rows, Characters(s, SEEDS[r.seed])))
    <2>1. r.stage = "characters" /\ content' = content /\ Goes(s, q)
        BY <1>9 DEF InsertCharacters, Seed
    <2>2. RunIs(q, s, K) /\ Top(q) = Top(r)
        BY <1>1, <2>1, RunPeoples
    <2> HIDE DEF q
    <2> QED BY <1>3, <2>1, <2>2
<1>10. CASE InsertChapter(s)
    <2> DEFINE rows == With(r.rows, ChapterRow(s, SEEDS[r.seed], r.chapter))
               q == IF r.chapter < Size(r.seed) THEN Run("chapter", r.seed, r.chapter + 1, rows)
                    ELSE NextSeed(r, rows)
    <2>1. r.stage = "chapter" /\ content' = content /\ Goes(s, q)
        BY <1>10 DEF InsertChapter, Seed, Size
    <2>2. RunIs(q, s, K) /\ Top(q) = Top(r)
        BY <1>1, <2>1, RunTells
    <2> HIDE DEF q
    <2> QED BY <1>3, <2>1, <2>2
<1>11. CASE CommitSeed(s)
    <2>1. r.stage = "commit" /\ content' = With(content, r.rows) /\ Goes(s, Idle)
        BY <1>11 DEF CommitSeed, View
    <2>2. ContentIs(content', Whose(w, s, K), 3)
        BY <1>1, <2>1, RunCommits
    <2>3. /\ seeder' = [p \in Seeders |-> seeder'[p]]
          /\ seeder'[s] = Idle /\ \A p \in Seeders : p # s => seeder'[p] = seeder[p]
        BY <1>1, <2>1 DEF Goes
    <2>4. Top(r) = 3
        BY <1>1, <2>1 DEF RunIs, StageOK, Top
    <2>5. ASSUME NEW p \in Seeders PROVE RunIs(seeder'[p], p, 3) /\ Top(seeder'[p]) <= 3
        <3>1. CASE p = s
            BY <2>3, <3>1, IdleRun
        <3>2. CASE p # s
            <4>1. RunIs(seeder[p], p, K) /\ seeder'[p] = seeder[p] /\ Top(seeder[p]) \in -1 .. 3
                <5>1. RunIs(seeder[p], p, K)
                    BY DEF SeedsInv
                <5> QED BY <2>3, <3>2, <5>1 DEF RunIs, StageOK, Top
            <4>2. CASE K = 3
                BY <4>1, <4>2
            <4>3. CASE K < 3
                <5>1. Top(seeder[p]) <= K
                    BY <1>2, <2>4, <3>2, <4>3
                <5> QED BY <4>1, <5>1, RunKept
            <4> QED BY <4>2, <4>3
        <3> QED BY <3>1, <3>2
    <2>6. SeedsInv(3, Whose(w, s, K))'
        <3> DEFINE v == Whose(w, s, K)
        <3> HIDE DEF v
        <3>1. ContentIs(content', v, 3)
            BY <2>2 DEF v
        <3>2. SeedsInv(3, v)'
            BY <2>3, <2>5, <3>1 DEF SeedsInv
        <3> QED BY <3>2 DEF v
    <2> QED BY <2>6
<1>12. CASE SeederDies(s)
    BY <1>5, <1>12 DEF SeederDies
<1> QED BY <1>4, <1>6, <1>7, <1>8, <1>9, <1>10, <1>11, <1>12 DEF SeedStep

-----------------------------------------------------------------------------
(* What the releases have left. *)

\* One release after another.
Release(rows, k) ==
    With(With(With(With(rows, ThemeId(rows, Before, SEEDS[k])), StoryRow(Before, SEEDS[k])),
              Characters(Before, SEEDS[k])), Chapters(Before, SEEDS[k]))
Releases(h) ==
    h = [k \in 0 .. Len(SEEDS) |->
            IF k = 0 THEN NoRows
            ELSE LET seed == SEEDS[k] IN
                 With(With(With(With(h[k - 1], ThemeId(h[k - 1], Before, seed)),
                      StoryRow(Before, seed)), Characters(Before, seed)), Chapters(Before, seed))]

\* There is such a function of the three releases.
LEMMA ReleasesExist == \E h : Releases(h)
<1> DEFINE one == Release(NoRows, 1)
           two == Release(one, 2)
           three == Release(two, 3)
           g == [k \in 0 .. 3 |-> IF k = 0 THEN NoRows ELSE IF k = 1 THEN one ELSE IF k = 2 THEN two ELSE three]
<1>1. g[0] = NoRows /\ g[1] = one /\ g[2] = two /\ g[3] = three
    OBVIOUS
<1>2. one = Release(NoRows, 1) /\ two = Release(one, 2) /\ three = Release(two, 3)
    OBVIOUS
<1> HIDE DEF g, one, two, three
<1>3. \A k \in 0 .. 3 : g[k] = IF k = 0 THEN NoRows ELSE Release(g[k - 1], k)
    <2> SUFFICES ASSUME NEW k \in 0 .. 3 PROVE g[k] = IF k = 0 THEN NoRows ELSE Release(g[k - 1], k)
        OBVIOUS
    <2>1. CASE k = 0
        BY <1>1, <2>1
    <2>2. CASE k = 1
        BY <1>1, <1>2, <2>2
    <2>3. CASE k = 2
        BY <1>1, <1>2, <2>3
    <2>4. CASE k = 3
        BY <1>1, <1>2, <2>4
    <2> QED BY <2>1, <2>2, <2>3, <2>4
<1>4. g = [k \in 0 .. 3 |-> g[k]]
    BY DEF g
<1>5. g = [k \in 0 .. Len(SEEDS) |-> IF k = 0 THEN NoRows ELSE Release(g[k - 1], k)]
    BY <1>3, <1>4, SeedsAre
<1> QED BY <1>5, Zenon DEF Releases, Release

\* What each release has left is what its seed adds to the one before.
LEMMA ReleasedIs ==
    /\ Released[0] = NoRows
    /\ \A k \in 1 .. 3 : Released[k] = Release(Released[k - 1], k)
<1>1. Released = CHOOSE h : Releases(h)
    BY Zenon DEF Released, Releases
<1>2. Releases(Released)
    BY <1>1, ReleasesExist, Zenon
<1>3. Released = [k \in 0 .. Len(SEEDS) |-> IF k = 0 THEN NoRows ELSE Release(Released[k - 1], k)]
    BY <1>2, Zenon DEF Releases, Release
<1> QED BY <1>3, SeedsAre

\* What a release writes for the chapters of a seed.
LEMMA ChaptersWritten ==
    ASSUME NEW by, NEW k \in 1 .. 3
    PROVE  LET more == Chapters(by, SEEDS[k]) IN
           /\ \A row : row \in more.chapters <=> \E n \in 1 .. Size(k) : row = ChapterOf(by, k, n)
           /\ \A row : row \in more.beats <=> \E n \in 1 .. Size(k) : row \in Beats(by, SEEDS[k], n)
           /\ more.themes = {} /\ more.stories = {} /\ more.characters = {}
<1> DEFINE row(n) == ChapterRow(by, SEEDS[k], n)
           more == Chapters(by, SEEDS[k])
<1>1. \A n : /\ row(n).chapters = {ChapterOf(by, k, n)}
             /\ row(n).beats = Beats(by, SEEDS[k], n)
             /\ row(n).themes = {} /\ row(n).stories = {} /\ row(n).characters = {}
    BY ChapterRowIs
<1>2. DOMAIN SEEDS[k].chapters = 1 .. Size(k)
    BY ChaptersAre
<1>3. /\ more.chapters = UNION {row(n).chapters : n \in 1 .. Size(k)}
      /\ more.beats = UNION {row(n).beats : n \in 1 .. Size(k)}
      /\ more.themes = UNION {row(n).themes : n \in 1 .. Size(k)}
      /\ more.stories = UNION {row(n).stories : n \in 1 .. Size(k)}
      /\ more.characters = UNION {row(n).characters : n \in 1 .. Size(k)}
    BY <1>2 DEF Chapters, Tables
<1> HIDE DEF row, more
<1>4. more.themes = {} /\ more.stories = {} /\ more.characters = {}
    BY <1>1, <1>3
<1>5. \A r : r \in more.chapters <=> \E n \in 1 .. Size(k) : r = ChapterOf(by, k, n)
    BY <1>1, <1>3
<1>6. \A r : r \in more.beats <=> \E n \in 1 .. Size(k) : r \in Beats(by, SEEDS[k], n)
    BY <1>1, <1>3
<1> QED BY <1>4, <1>5, <1>6 DEF more

\* A release adds one story to the content.
LEMMA ReleaseIs ==
    ASSUME NEW k \in 1 .. 3, NEW w, w = Mine(Before), NEW rows, ContentIs(rows, w, k - 1)
    PROVE  ContentIs(Release(rows, k), w, k)
<1> DEFINE theme == ThemeId(rows, Before, SEEDS[k])
           story == StoryRow(Before, SEEDS[k])
           cast == Characters(Before, SEEDS[k])
           told == Chapters(Before, SEEDS[k])
           now == Release(rows, k)
<1>0. \A S : S \union {} = S
    OBVIOUS
<1>1. ThemesIn(rows, w, 1 .. k - 1) /\ 1 .. k - 1 \subseteq 1 .. 3 /\ k \notin 1 .. k - 1
    BY DEF ContentIs
<1>2. /\ theme.themes = {ThemeOf(Before, t) : t \in SEEDS[k].theme}
      /\ theme.stories = {} /\ theme.characters = {} /\ theme.chapters = {} /\ theme.beats = {}
    BY <1>1, ThemeIdIs
<1>3. /\ story.stories = {StoryOf(Before, k)}
      /\ story.themes = {} /\ story.characters = {} /\ story.chapters = {} /\ story.beats = {}
    BY StoryRowIs
<1>4. /\ cast.characters = {CharacterOf(Before, k, c) : c \in SEEDS[k].characters}
      /\ cast.themes = {} /\ cast.stories = {} /\ cast.chapters = {} /\ cast.beats = {}
    BY CharactersAre
<1>5. /\ \A row : row \in told.chapters <=> \E n \in 1 .. Size(k) : row = ChapterOf(Before, k, n)
      /\ \A row : row \in told.beats <=> \E n \in 1 .. Size(k) : row \in Beats(Before, SEEDS[k], n)
      /\ told.themes = {} /\ told.stories = {} /\ told.characters = {}
    BY ChaptersWritten
<1> HIDE DEF theme, story, cast, told
<1>6. now = With(With(With(With(rows, theme), story), cast), told)
    BY DEF Release, theme, story, cast, told
<1> HIDE DEF now
<1>7. /\ now.themes = rows.themes \union theme.themes
      /\ now.stories = rows.stories \union story.stories
      /\ now.characters = rows.characters \union cast.characters
      /\ now.chapters = rows.chapters \union told.chapters
      /\ now.beats = rows.beats \union told.beats
      /\ now = [t \in Tables |-> now[t]]
    <2>1. PICK a : a = With(rows, theme)
        OBVIOUS
    <2>2. PICK b : b = With(a, story)
        OBVIOUS
    <2>3. PICK c : c = With(b, cast)
        OBVIOUS
    <2>4. now = With(c, told)
        BY <1>6, <2>1, <2>2, <2>3
    <2>5. /\ a.themes = rows.themes \union theme.themes /\ a.stories = rows.stories
          /\ a.characters = rows.characters /\ a.chapters = rows.chapters /\ a.beats = rows.beats
        <3>1. /\ a.themes = rows.themes \union theme.themes
              /\ a.stories = rows.stories \union theme.stories
              /\ a.characters = rows.characters \union theme.characters
              /\ a.chapters = rows.chapters \union theme.chapters
              /\ a.beats = rows.beats \union theme.beats
            BY <2>1, WithIs
        <3> QED BY <1>0, <1>2, <3>1
    <2>6. /\ b.themes = a.themes /\ b.stories = a.stories \union story.stories
          /\ b.characters = a.characters /\ b.chapters = a.chapters /\ b.beats = a.beats
        <3>1. /\ b.themes = a.themes \union story.themes
              /\ b.stories = a.stories \union story.stories
              /\ b.characters = a.characters \union story.characters
              /\ b.chapters = a.chapters \union story.chapters
              /\ b.beats = a.beats \union story.beats
            BY <2>2, WithIs
        <3> QED BY <1>0, <1>3, <3>1
    <2>7. /\ c.themes = b.themes /\ c.stories = b.stories
          /\ c.characters = b.characters \union cast.characters /\ c.chapters = b.chapters /\ c.beats = b.beats
        <3>1. /\ c.themes = b.themes \union cast.themes
              /\ c.stories = b.stories \union cast.stories
              /\ c.characters = b.characters \union cast.characters
              /\ c.chapters = b.chapters \union cast.chapters
              /\ c.beats = b.beats \union cast.beats
            BY <2>3, WithIs
        <3> QED BY <1>0, <1>4, <3>1
    <2>8. /\ now.themes = c.themes /\ now.stories = c.stories /\ now.characters = c.characters
          /\ now.chapters = c.chapters \union told.chapters /\ now.beats = c.beats \union told.beats
          /\ now = [t \in Tables |-> now[t]]
        <3>1. /\ now.themes = c.themes \union told.themes
              /\ now.stories = c.stories \union told.stories
              /\ now.characters = c.characters \union told.characters
              /\ now.chapters = c.chapters \union told.chapters
              /\ now.beats = c.beats \union told.beats
              /\ now = [t \in Tables |-> now[t]]
            BY <2>4, WithIs
        <3> QED BY <1>0, <1>5, <3>1
    <2> QED BY <2>5, <2>6, <2>7, <2>8
<1>8. w[k] = Before /\ \A j : j \in 1 .. k <=> j \in 1 .. k - 1 \/ j = k
    BY DEF Mine
<1>9. ThemesIn(now, w, 1 .. k)
    <2>1. \A row : row \in theme.themes <=> \E t \in SEEDS[k].theme : row = ThemeOf(w[k], t)
        BY <1>2, <1>8
    <2> QED BY <1>1, <1>7, <1>8, <2>1 DEF ThemesIn
<1>10. StoriesIn(now, w, 1 .. k)
    <2>1. StoriesIn(rows, w, 1 .. k - 1)
        BY DEF ContentIs
    <2> QED BY <1>3, <1>7, <1>8, <2>1 DEF StoriesIn
<1>11. CastIn(now, w, 1 .. k)
    <2>1. \A row : row \in cast.characters <=> \E c \in SEEDS[k].characters : row = CharacterOf(w[k], k, c)
        BY <1>4, <1>8
    <2>2. CastIn(rows, w, 1 .. k - 1)
        BY DEF ContentIs
    <2> QED BY <1>7, <1>8, <2>1, <2>2 DEF CastIn
<1>12. \A j \in 1 .. 3 : \A n :
           n \in 1 .. FirstOnes(k)[j] <=> n \in 1 .. FirstOnes(k - 1)[j] \/ (j = k /\ n \in 1 .. Size(k))
    <2> SUFFICES ASSUME NEW j \in 1 .. 3, NEW n
                 PROVE  n \in 1 .. FirstOnes(k)[j] <=> n \in 1 .. FirstOnes(k - 1)[j] \/ (j = k /\ n \in 1 .. Size(k))
        OBVIOUS
    <2>1. CASE j = k
        <3>1. FirstOnes(k)[j] = Size(k) /\ FirstOnes(k - 1)[j] = 0
            BY <2>1 DEF FirstOnes
        <3> QED BY <2>1, <3>1
    <2>2. CASE j # k
        <3>1. FirstOnes(k)[j] = FirstOnes(k - 1)[j]
            BY <2>2 DEF FirstOnes
        <3> QED BY <2>2, <3>1
    <2> QED BY <2>1, <2>2
<1>13. ChaptersIn(now, w, FirstOnes(k))
    <2>1. ChaptersIn(rows, w, FirstOnes(k - 1))
        BY DEF ContentIs
    <2> QED BY <1>5, <1>7, <1>8, <1>12, <2>1 DEF ChaptersIn
<1>14. BeatsIn(now, w, FirstOnes(k))
    <2>1. BeatsIn(rows, w, FirstOnes(k - 1))
        BY DEF ContentIs
    <2> QED BY <1>5, <1>7, <1>8, <1>12, <2>1 DEF BeatsIn
<1> QED BY <1>7, <1>9, <1>10, <1>11, <1>13, <1>14 DEF ContentIs, now

\* So the first k releases leave the first k stories.
LEMMA ReleasedContent ==
    ASSUME NEW k \in 0 .. 3
    PROVE  ContentIs(Released[k], Mine(Before), k)
<1>1. ContentIs(Released[0], Mine(Before), 0)
    <2>1. \A j \in 1 .. 3 : FirstOnes(0)[j] = 0
        BY DEF FirstOnes
    <2> QED BY <2>1, NoRowsAre, ReleasedIs DEF ContentIs, ThemesIn, StoriesIn, CastIn, ChaptersIn, BeatsIn
<1>2. ASSUME NEW j \in 1 .. 3, ContentIs(Released[j - 1], Mine(Before), j - 1)
      PROVE  ContentIs(Released[j], Mine(Before), j)
    BY <1>2, ReleaseIs, ReleasedIs
<1>3. ContentIs(Released[1], Mine(Before), 1)
    BY <1>1, <1>2
<1>4. ContentIs(Released[2], Mine(Before), 2)
    BY <1>2, <1>3
<1>5. ContentIs(Released[3], Mine(Before), 3)
    BY <1>2, <1>4
<1> QED BY <1>1, <1>3, <1>4, <1>5

\* The content the runs start from.
LEMMA SeedsBegin ==
    ASSUME NEW k \in 0 .. 3, ContentInit(k)
    PROVE  SeedsInv(k, Mine(Before))
<1>1. content = Released[k] /\ seeder = [s \in Seeders |-> Idle]
    BY DEF ContentInit
<1>2. \A s \in Seeders : seeder[s] = Idle
    BY <1>1
<1>3. ASSUME NEW s \in Seeders PROVE RunIs(seeder[s], s, k) /\ Top(seeder[s]) <= k
    BY <1>2, IdleRun
<1> QED BY <1>1, <1>3, ReleasedContent DEF SeedsInv

-----------------------------------------------------------------------------
(* What the readers find. *)

\* The stories are the first ones, numbered as the seeds are.
LEMMA StoriesAre ==
    ASSUME NEW w, NEW K \in 0 .. 3, ContentIs(content, w, K)
    PROVE  /\ \A row \in content.stories : row.position \in 1 .. K /\ row = StoryOf(w[row.position], row.position)
           /\ \A i \in 1 .. K : StoryOf(w[i], i) \in content.stories /\ StoryOf(w[i], i).position = i
           /\ \A r, q \in content.stories : r.position = q.position => r = q
<1>1. StoriesIn(content, w, 1 .. K)
    BY DEF ContentIs
<1>2. \A i \in 1 .. K : StoryOf(w[i], i) \in content.stories /\ StoryOf(w[i], i).position = i
    BY <1>1, SeedsAre DEF StoriesIn, StoryOf
<1>3. ASSUME NEW row \in content.stories PROVE row.position \in 1 .. K /\ row = StoryOf(w[row.position], row.position)
    <2>1. PICK k \in 1 .. K : row = StoryOf(w[k], k)
        BY <1>1 DEF StoriesIn
    <2> QED BY <1>2, <2>1
<1> QED BY <1>2, <1>3

\* Each has the chapters of its seed, in order.
ChaptersOf(slug) == {row \in content.chapters : row.story = slug}
\* The chapters of a story are numbered from 1, one row each.
LEMMA ItsChapters ==
    ASSUME NEW w, NEW K \in 0 .. 3, ContentIs(content, w, K), NEW k \in 1 .. K
    PROVE  LET its == ChaptersOf(Slug(k)) IN
           /\ \A row \in its : row.position \in 1 .. Size(k) /\ row = ChapterOf(w[k], k, row.position)
           /\ \A n \in 1 .. Size(k) : ChapterOf(w[k], k, n) \in its /\ ChapterOf(w[k], k, n).position = n
           /\ \A r, q \in its : r.position = q.position => r = q
<1> DEFINE its == ChaptersOf(Slug(k))
<1>1. ChaptersIn(content, w, FirstOnes(K)) /\ k \in 1 .. 3 /\ FirstOnes(K)[k] = Size(k)
    BY DEF ContentIs, FirstOnes
<1>2. ASSUME NEW n \in 1 .. Size(k) PROVE ChapterOf(w[k], k, n) \in its /\ ChapterOf(w[k], k, n).position = n
    <2>1. ChapterOf(w[k], k, n) \in content.chapters
        BY <1>1 DEF ChaptersIn
    <2> QED BY <2>1 DEF ChaptersOf, ChapterOf
<1>3. ASSUME NEW row \in its PROVE row.position \in 1 .. Size(k) /\ row = ChapterOf(w[k], k, row.position)
    <2>1. row \in content.chapters /\ row.story = Slug(k)
        BY DEF ChaptersOf
    <2>2. PICK j \in 1 .. 3 : \E n \in 1 .. FirstOnes(K)[j] : row = ChapterOf(w[j], j, n)
        BY <1>1, <2>1 DEF ChaptersIn
    <2>3. PICK n \in 1 .. FirstOnes(K)[j] : row = ChapterOf(w[j], j, n)
        BY <2>2
    <2>4. Slug(j) = Slug(k) /\ row.position = n
        BY <2>1, <2>3 DEF ChapterOf
    <2>5. j = k
        BY <1>1, <2>4, SlugsApart
    <2> QED BY <1>1, <2>3, <2>4, <2>5
<1> HIDE DEF its
<1> QED BY <1>2, <1>3 DEF its

\* Such content is whole.
LEMMA ContentWhole ==
    ASSUME NEW w, NEW K \in 0 .. 3, ContentIs(content, w, K)
    PROVE  Whole
<1>1. Numbered(content.stories)
    <2>1. Cardinality(content.stories) = K
        <3>1. /\ \A row \in content.stories : row.position \in 1 .. K
              /\ \A r, q \in content.stories : r.position = q.position => r = q
              /\ \A i \in 1 .. K : \E row \in content.stories : row.position = i
            BY StoriesAre
        <3>2. K \in Nat
            OBVIOUS
        <3> QED BY <3>1, <3>2, ByIs
    <2>2. {row.position : row \in content.stories} = 1 .. K
        BY StoriesAre
    <2> QED BY <2>1, <2>2 DEF Numbered
<1>2. ASSUME NEW story \in content.stories
      PROVE  LET its == {row \in content.chapters : row.story = story.slug} IN
             /\ \A other \in content.stories \ {story} : other.slug # story.slug
             /\ its # {} /\ Numbered(its)
             /\ \A row \in its :
                 /\ row.kind = "chefe" <=> row.position = Cardinality(its)
                 /\ \E who \in content.characters : who.story = story.slug /\ who.name = row.antagonist
    <2> DEFINE its == {row \in content.chapters : row.story = story.slug}
               k == story.position
    <2>1. k \in 1 .. K /\ story = StoryOf(w[k], k) /\ k \in 1 .. 3
        BY StoriesAre
    <2>2. story.slug = Slug(k)
        BY <2>1 DEF StoryOf, Slug
    <2>3. ASSUME NEW other \in content.stories, other.slug = story.slug PROVE other = story
        <3>1. other.position \in 1 .. K /\ other = StoryOf(w[other.position], other.position)
            BY StoriesAre
        <3>2. Slug(other.position) = Slug(k)
            BY <2>2, <2>3, <3>1 DEF StoryOf, Slug
        <3>3. other.position = k
            BY <2>1, <3>1, <3>2, SlugsApart
        <3> QED BY <2>1, <3>1, <3>3
    <2>4. its = ChaptersOf(Slug(k))
        BY <2>2 DEF ChaptersOf
    <2> HIDE DEF its, k
    <2>5. /\ \A row \in its : row.position \in 1 .. Size(k) /\ row = ChapterOf(w[k], k, row.position)
          /\ \A n \in 1 .. Size(k) : ChapterOf(w[k], k, n) \in its /\ ChapterOf(w[k], k, n).position = n
          /\ \A r, q \in its : r.position = q.position => r = q
        BY <2>1, <2>4, ItsChapters
    <2>6. Size(k) \in 3 .. 5
        BY <2>1, ChaptersAre
    <2>7. Cardinality(its) = Size(k)
        BY <2>5, <2>6, ByIs
    <2>8. its # {} /\ Numbered(its)
        <3>1. {row.position : row \in its} = 1 .. Size(k)
            BY <2>5
        <3>2. 1 \in 1 .. Size(k)
            BY <2>6
        <3> QED BY <2>5, <2>7, <3>1, <3>2 DEF Numbered
    <2>9. ASSUME NEW row \in its
          PROVE  /\ row.kind = "chefe" <=> row.position = Cardinality(its)
                 /\ \E who \in content.characters : who.story = story.slug /\ who.name = row.antagonist
        <3> DEFINE n == row.position
        <3>1. n \in 1 .. Size(k) /\ row = ChapterOf(w[k], k, n)
            BY <2>5
        <3> HIDE DEF n
        <3>2. row.kind = SEEDS[k].chapters[n].kind /\ row.antagonist = SEEDS[k].chapters[n].antagonist
            BY <3>1 DEF ChapterOf
        <3>3. /\ row.kind = "chefe" <=> n = Size(k)
              /\ row.antagonist \in SEEDS[k].characters
            BY <2>1, <3>1, <3>2, ChaptersAre
        <3>4. CharacterOf(w[k], k, row.antagonist) \in content.characters
            BY <2>1, <3>3 DEF ContentIs, CastIn
        <3>5. /\ CharacterOf(w[k], k, row.antagonist).story = story.slug
              /\ CharacterOf(w[k], k, row.antagonist).name = row.antagonist
            BY <2>2 DEF CharacterOf
        <3> QED BY <2>7, <3>3, <3>4, <3>5 DEF n
    <2> QED BY <2>3, <2>8, <2>9 DEF its
<1>3. ASSUME NEW theme \in content.themes, NEW other \in content.themes,
             theme.exam = other.exam, theme.year = other.year, theme.title = other.title
      PROVE  theme = other
    <2>1. ThemesIn(content, w, 1 .. K)
        BY DEF ContentIs
    <2>2. PICK j \in 1 .. K : \E t \in SEEDS[j].theme : theme = ThemeOf(w[j], t)
        BY <2>1 DEF ThemesIn
    <2>3. PICK t \in SEEDS[j].theme : theme = ThemeOf(w[j], t)
        BY <2>2
    <2>4. PICK k \in 1 .. K : \E u \in SEEDS[k].theme : other = ThemeOf(w[k], u)
        BY <2>1 DEF ThemesIn
    <2>5. PICK u \in SEEDS[k].theme : other = ThemeOf(w[k], u)
        BY <2>4
    <2>6. Same(t, u)
        BY <1>3, <2>3, <2>5 DEF Same, ThemeOf
    <2>7. j \in 1 .. 3 /\ k \in 1 .. 3
        OBVIOUS
    <2>8. j = k /\ t = u
        BY <2>6, <2>7, ThemesApart
    <2> QED BY <2>3, <2>5, <2>8
<1> QED BY <1>1, <1>2, <1>3 DEF Whole

-----------------------------------------------------------------------------
(* The chapters and the beats that are found. *)

\* The chapters there can be, story by story.
LEMMA AllChaptersAre ==
    \A c : c \in AllChapters <=> \E k \in 1 .. 3 : \E n \in 1 .. Size(k) : c = <<Slug(k), n>>
<1>1. \A k \in 1 .. 3 : DOMAIN SEEDS[k].chapters = 1 .. Size(k)
    BY ChaptersAre
<1>2. \A c : c \in AllChapters <=> \E k \in DOMAIN SEEDS : \E n \in DOMAIN SEEDS[k].chapters : c = <<SEEDS[k].slug, n>>
    BY DEF AllChapters
<1>3. DOMAIN SEEDS = 1 .. 3 /\ \A k : Slug(k) = SEEDS[k].slug
    BY SeedsAre DEF Slug
<1> SUFFICES ASSUME NEW c
             PROVE  c \in AllChapters <=> \E k \in 1 .. 3 : \E n \in 1 .. Size(k) : c = <<Slug(k), n>>
    OBVIOUS
<1>4. ASSUME c \in AllChapters PROVE \E k \in 1 .. 3 : \E n \in 1 .. Size(k) : c = <<Slug(k), n>>
    <2>1. PICK k \in 1 .. 3 : \E n \in DOMAIN SEEDS[k].chapters : c = <<SEEDS[k].slug, n>>
        BY <1>2, <1>3, <1>4
    <2>2. PICK n \in DOMAIN SEEDS[k].chapters : c = <<SEEDS[k].slug, n>>
        BY <2>1
    <2> QED BY <1>1, <1>3, <2>2
<1>5. ASSUME NEW k \in 1 .. 3, NEW n \in 1 .. Size(k), c = <<Slug(k), n>> PROVE c \in AllChapters
    BY <1>1, <1>2, <1>3, <1>5
<1> QED BY <1>4, <1>5

\* A chapter that is found is one of a story that is there, and found once.
LEMMA ChapterFound ==
    ASSUME NEW w, NEW K \in 0 .. 3, ContentIs(content, w, K)
    PROVE  /\ \A k \in 1 .. K : \A n \in 1 .. Size(k) : get_chapter(<<Slug(k), n>>) = {ChapterOf(w[k], k, n)}
           /\ \A id : get_chapter(id) # {} => \E k \in 1 .. K : \E n \in 1 .. Size(k) : id = <<Slug(k), n>>
<1>1. ChaptersIn(content, w, FirstOnes(K))
    BY DEF ContentIs
<1>2. \A k \in 1 .. 3 : (k <= K => FirstOnes(K)[k] = Size(k)) /\ (K < k => FirstOnes(K)[k] = 0)
    BY DEF FirstOnes
<1>3. ASSUME NEW row \in content.chapters
      PROVE  \E k \in 1 .. K : \E n \in 1 .. Size(k) : row = ChapterOf(w[k], k, n)
    <2>1. PICK k \in 1 .. 3 : \E n \in 1 .. FirstOnes(K)[k] : row = ChapterOf(w[k], k, n)
        BY <1>1 DEF ChaptersIn
    <2>2. k <= K
        BY <1>2, <2>1
    <2> QED BY <1>2, <2>1, <2>2
<1>4. \A by, k, n : ChapterOf(by, k, n).story = Slug(k) /\ ChapterOf(by, k, n).position = n
    BY DEF ChapterOf
<1>5. ASSUME NEW id, get_chapter(id) # {}
      PROVE  \E k \in 1 .. K : \E n \in 1 .. Size(k) : id = <<Slug(k), n>>
    <2>1. PICK row \in content.chapters : <<row.story, row.position>> = id
        BY <1>5 DEF get_chapter
    <2> QED BY <1>3, <1>4, <2>1
<1>6. ASSUME NEW k \in 1 .. K, NEW n \in 1 .. Size(k)
      PROVE  get_chapter(<<Slug(k), n>>) = {ChapterOf(w[k], k, n)}
    <2>1. ChapterOf(w[k], k, n) \in content.chapters
        BY <1>1, <1>2 DEF ChaptersIn
    <2>2. ASSUME NEW row \in content.chapters, <<row.story, row.position>> = <<Slug(k), n>>
          PROVE  row = ChapterOf(w[k], k, n)
        <3>1. PICK j \in 1 .. K : \E m \in 1 .. Size(j) : row = ChapterOf(w[j], j, m)
            BY <1>3
        <3>2. PICK m \in 1 .. Size(j) : row = ChapterOf(w[j], j, m)
            BY <3>1
        <3>3. Slug(j) = Slug(k) /\ m = n
            BY <1>4, <2>2, <3>2
        <3>4. j = k
            BY <3>3, SlugsApart
        <3> QED BY <3>2, <3>3, <3>4
    <2>3. <<ChapterOf(w[k], k, n).story, ChapterOf(w[k], k, n).position>> = <<Slug(k), n>>
        BY <1>4
    <2> HIDE DEF ChapterOf
    <2> QED BY <2>1, <2>2, <2>3 DEF get_chapter
<1> QED BY <1>5, <1>6

-----------------------------------------------------------------------------
(* The beats of a chapter. *)

BeatOf(by, k, n, i) ==
    LET beats == SEEDS[k].chapters[n].beats IN
    [by |-> by, story |-> Slug(k), chapter |-> n, branch |-> beats[i].branch,
     position |-> BeatPosition(beats, i), beat_type |-> beats[i].beat_type, character |-> beats[i].character]

\* The beats of a chapter, one for each of the eleven.
LEMMA BeatsAre ==
    ASSUME NEW by, NEW k \in 1 .. 3, NEW n \in 1 .. Size(k), NEW row
    PROVE  row \in Beats(by, SEEDS[k], n) <=> \E i \in 1 .. 11 : row = BeatOf(by, k, n, i)
<1>1. SEEDS[k].chapters[n].beats = Tutorial!Told(SEEDS[k].chapters[n].antagonist)
    BY ChaptersAre
<1>2. DOMAIN SEEDS[k].chapters[n].beats = 1 .. 11
    BY <1>1, ToldIs
<1>3. Beats(by, SEEDS[k], n) = {BeatOf(by, k, n, i) : i \in DOMAIN SEEDS[k].chapters[n].beats}
    BY DEF Beats, BeatOf, Slug
<1> QED BY <1>2, <1>3

\* A branch lies within the eleven beats.
LEMMA BranchPlaces ==
    ASSUME NEW b \in Beats3
    PROVE  FirstBeat(b) \in 1 .. 8 /\ Count(b) \in 3 .. 4 /\ FirstBeat(b) + Count(b) - 1 \in 1 .. 11
<1>1. "main" # "consequence" /\ "main" # "recovery" /\ "consequence" # "recovery"
    OBVIOUS
<1> QED BY <1>1 DEF Beats3, FirstBeat, Count

\* A beat is in a branch when its place is.
LEMMA BeatBranch ==
    ASSUME NEW by, NEW k \in 1 .. 3, NEW n \in 1 .. Size(k), NEW b \in Beats3, NEW i \in 1 .. 11
    PROVE  BeatOf(by, k, n, i).branch = b <=> i \in FirstBeat(b) .. FirstBeat(b) + Count(b) - 1
<1>1. SEEDS[k].chapters[n].beats = Tutorial!Told(SEEDS[k].chapters[n].antagonist)
    BY ChaptersAre
<1>2. SEEDS[k].chapters[n].beats[i].branch = b <=> FirstBeat(b) <= i /\ i < FirstBeat(b) + Count(b)
    BY <1>1, ToldIs
<1>3. BeatOf(by, k, n, i).branch = SEEDS[k].chapters[n].beats[i].branch
    BY DEF BeatOf
<1> QED BY <1>2, <1>3, BranchPlaces

\* The beats of a branch are counted from its first one.
Fits(beat, b, p, antagonist) ==
    beat.position = p /\ beat.beat_type = TypeAt(b, p) /\ (p = 2 => beat.character = antagonist)
\* The p-th beat of a branch has position p, and the type and character told there.
LEMMA BeatIs ==
    ASSUME NEW by, NEW k \in 1 .. 3, NEW n \in 1 .. Size(k), NEW b \in Beats3, NEW p \in 1 .. Count(b)
    PROVE  Fits(BeatOf(by, k, n, FirstBeat(b) + p - 1), b, p, SEEDS[k].chapters[n].antagonist)
<1> DEFINE c == SEEDS[k].chapters[n].antagonist
           told == SEEDS[k].chapters[n].beats
           i == FirstBeat(b) + p - 1
<1>1. told = Tutorial!Told(c)
    BY ChaptersAre
<1>2. /\ \A j \in 1 .. 11 : told[j].branch = b <=> FirstBeat(b) <= j /\ j < FirstBeat(b) + Count(b)
      /\ told[i].beat_type = TypeAt(b, p) /\ (p = 2 => told[i].character = c)
    <2>1. /\ \A j \in 1 .. 11 : Tutorial!Told(c)[j].branch = b <=> FirstBeat(b) <= j /\ j < FirstBeat(b) + Count(b)
          /\ Tutorial!Told(c)[i].beat_type = TypeAt(b, p) /\ (p = 2 => Tutorial!Told(c)[i].character = c)
        <3> HIDE DEF c
        <3> QED BY ToldIs
    <2> QED BY <1>1, <2>1
<1> HIDE DEF told, c
<1>3. i \in 1 .. 11 /\ FirstBeat(b) \in 1 .. 8 /\ FirstBeat(b) <= i /\ i < FirstBeat(b) + Count(b) /\ i - FirstBeat(b) + 1 = p
    BY BranchPlaces
<1>4. told[i].branch = b
    BY <1>2, <1>3
<1> HIDE DEF i
<1>5. {j \in 1 .. i : told[j].branch = told[i].branch} = FirstBeat(b) .. i
    <2>1. ASSUME NEW j \in 1 .. i PROVE told[j].branch = b <=> FirstBeat(b) <= j
        <3>1. j \in 1 .. 11 /\ j < FirstBeat(b) + Count(b)
            BY <1>3, BranchPlaces
        <3> QED BY <1>2, <3>1
    <2> QED BY <1>3, <1>4, <2>1
<1>6. Cardinality(FirstBeat(b) .. i) = i - FirstBeat(b) + 1
    <2>1. FirstBeat(b) \in Int /\ i \in Int /\ ~(FirstBeat(b) > i)
        BY <1>3
    <2> QED BY <2>1, FS_Interval
<1>7. BeatPosition(told, i) = p
    BY <1>3, <1>5, <1>6 DEF BeatPosition
<1>8. /\ BeatOf(by, k, n, i).position = BeatPosition(told, i)
      /\ BeatOf(by, k, n, i).beat_type = told[i].beat_type
      /\ BeatOf(by, k, n, i).character = told[i].character
    BY DEF BeatOf, told
<1> QED BY <1>2, <1>7, <1>8 DEF c, i, Fits

\* The scene of a branch: its beats in the order they are told in.
LEMMA BranchIs ==
    ASSUME NEW w, NEW K \in 0 .. 3, ContentIs(content, w, K), NEW k \in 1 .. K, NEW n \in 1 .. Size(k), NEW b \in Beats3
    PROVE  LET beats == list_beats(<<Slug(k), n>>, b) IN
           /\ DOMAIN beats = 1 .. Count(b)
           /\ \A p \in 1 .. Count(b) : beats[p] = BeatOf(w[k], k, n, FirstBeat(b) + p - 1)
<1> DEFINE rows == {row \in content.beats : <<row.story, row.chapter>> = <<Slug(k), n>> /\ row.branch = b}
           Beat(i) == BeatOf(w[k], k, n, i)
<1>1. BeatsIn(content, w, FirstOnes(K)) /\ k \in 1 .. 3
    BY DEF ContentIs
<1>2. \A j \in 1 .. 3 : (j <= K => FirstOnes(K)[j] = Size(j)) /\ (K < j => FirstOnes(K)[j] = 0)
    BY DEF FirstOnes
<1>3. \A row : row \in Beats(w[k], SEEDS[k], n) <=> \E i \in 1 .. 11 : row = Beat(i)
    <2>1. PICK by : by = w[k]
        OBVIOUS
    <2> QED BY <1>1, <2>1, BeatsAre
<1>4. \A i \in 1 .. 11 : Beat(i).branch = b <=> i \in FirstBeat(b) .. FirstBeat(b) + Count(b) - 1
    <2>1. PICK by : by = w[k]
        OBVIOUS
    <2> QED BY <1>1, <2>1, BeatBranch
<1>10. \A p \in 1 .. Count(b) : Beat(FirstBeat(b) + p - 1).position = p
    <2>1. PICK by : by = w[k]
        OBVIOUS
    <2>2. \A p \in 1 .. Count(b) : Fits(BeatOf(by, k, n, FirstBeat(b) + p - 1), b, p, SEEDS[k].chapters[n].antagonist)
        BY <1>1, BeatIs
    <2> QED BY <2>1, <2>2 DEF Fits
<1>11. \A i : Beat(i).story = Slug(k) /\ Beat(i).chapter = n
    BY DEF BeatOf
<1> HIDE DEF Beat
<1>5. ASSUME NEW p \in 1 .. Count(b) PROVE Beat(FirstBeat(b) + p - 1) \in rows
    <2> DEFINE i == FirstBeat(b) + p - 1
    <2>1. i \in 1 .. 11 /\ i \in FirstBeat(b) .. FirstBeat(b) + Count(b) - 1
        BY BranchPlaces
    <2> HIDE DEF i
    <2>2. Beat(i) \in content.beats
        BY <1>1, <1>2, <1>3, <2>1 DEF BeatsIn
    <2> QED BY <1>4, <1>11, <2>1, <2>2 DEF i
<1>6. ASSUME NEW row \in rows PROVE \E p \in 1 .. Count(b) : row = Beat(FirstBeat(b) + p - 1)
    <2>1. row \in content.beats /\ row.story = Slug(k) /\ row.chapter = n /\ row.branch = b
        OBVIOUS
    <2>2. PICK j \in 1 .. 3 : \E m \in 1 .. FirstOnes(K)[j] : row \in Beats(w[j], SEEDS[j], m)
        BY <1>1, <2>1 DEF BeatsIn
    <2>3. PICK m \in 1 .. FirstOnes(K)[j] : row \in Beats(w[j], SEEDS[j], m)
        BY <2>2
    <2>4. m \in 1 .. Size(j)
        BY <1>2, <2>3
    <2>5. row.story = Slug(j) /\ row.chapter = m
        <3>1. PICK by : by = w[j]
            OBVIOUS
        <3>2. PICK i \in 1 .. 11 : row = BeatOf(by, j, m, i)
            BY <2>3, <2>4, <3>1, BeatsAre
        <3> QED BY <3>2 DEF BeatOf
    <2>6. j = k /\ m = n
        BY <1>1, <2>1, <2>5, SlugsApart
    <2>7. PICK i \in 1 .. 11 : row = Beat(i)
        BY <1>3, <2>3, <2>6
    <2>8. i \in FirstBeat(b) .. FirstBeat(b) + Count(b) - 1
        BY <1>4, <2>1, <2>7
    <2>9. i - FirstBeat(b) + 1 \in 1 .. Count(b) /\ FirstBeat(b) + (i - FirstBeat(b) + 1) - 1 = i
        BY <2>8, BranchPlaces
    <2> QED BY <2>7, <2>9
<1> HIDE DEF rows
<1>7. /\ DOMAIN By(rows) = 1 .. Count(b)
      /\ \A p \in 1 .. Count(b) : By(rows)[p] \in rows /\ By(rows)[p].position = p
    <2>1. \A row \in rows : row.position \in 1 .. Count(b)
        BY <1>6, <1>10
    <2>2. \A r, q \in rows : r.position = q.position => r = q
        BY <1>6, <1>10
    <2>3. \A p \in 1 .. Count(b) : \E row \in rows : row.position = p
        BY <1>5, <1>10
    <2>4. Count(b) \in Nat
        BY BranchPlaces
    <2> QED BY <2>1, <2>2, <2>3, <2>4, ByIs
<1>8. ASSUME NEW p \in 1 .. Count(b) PROVE By(rows)[p] = Beat(FirstBeat(b) + p - 1)
    <2>1. PICK q \in 1 .. Count(b) : By(rows)[p] = Beat(FirstBeat(b) + q - 1)
        BY <1>6, <1>7
    <2>2. q = p
        BY <1>7, <1>10, <2>1
    <2> QED BY <2>1, <2>2
<1>9. list_beats(<<Slug(k), n>>, b) = By(rows)
    BY DEF list_beats, rows
<1> QED BY <1>7, <1>8, <1>9 DEF Beat

-----------------------------------------------------------------------------
(* The scenes, and the track. *)

\* A chapter is open to the student only while its story is there.
OpenIsThere == \A c \in AllChapters : statuses[c] # "locked" => get_chapter(c) # {}

\* Every chapter that is open has the scene its status asks for.
LEMMA ContentPlayable ==
    ASSUME NEW w, NEW K \in 0 .. 3, ContentIs(content, w, K), OpenIsThere
    PROVE  Playable
<1> SUFFICES ASSUME NEW c \in AllChapters, statuses[c] # "locked"
             PROVE  \E chapter \in get_chapter(c) :
                       LET beats == list_beats(c, branch_for_status(statuses[c]))
                           has(type) == {i \in DOMAIN beats : beats[i].beat_type = type} IN
                       /\ beats # <<>> /\ beats[1].beat_type = "narration"
                       /\ \A i \in DOMAIN beats : beats[i].position = i
                       /\ \E i \in has("dialogue") : beats[i].character = chapter.antagonist
                       /\ statuses[c] \in WRITABLE_STATUSES => Cardinality(has("objective")) = 1
                       /\ statuses[c] = "in_consequence" => has("objective") = {}
    BY DEF Playable
<1>1. PICK k \in 1 .. K : \E n \in 1 .. Size(k) : c = <<Slug(k), n>>
    BY ChapterFound DEF OpenIsThere
<1>2. PICK n \in 1 .. Size(k) : c = <<Slug(k), n>>
    BY <1>1
<1>0. PICK b : b = branch_for_status(statuses[c])
    OBVIOUS
<1> DEFINE beats == list_beats(c, b)
           has(type) == {i \in DOMAIN beats : beats[i].beat_type = type}
           chapter == ChapterOf(w[k], k, n)
<1>3. chapter \in get_chapter(c) /\ chapter.antagonist = SEEDS[k].chapters[n].antagonist /\ k \in 1 .. 3
    <2>1. get_chapter(c) = {chapter}
        BY <1>2, ChapterFound
    <2>2. chapter.antagonist = SEEDS[k].chapters[n].antagonist
        BY DEF ChapterOf
    <2> HIDE DEF chapter
    <2> QED BY <2>1, <2>2
<1>4. /\ b \in Beats3
      /\ statuses[c] = "in_consequence" => b = "consequence"
      /\ statuses[c] \in WRITABLE_STATUSES => b # "consequence"
    <2>1. "main" # "consequence" /\ "recovery" # "consequence"
        OBVIOUS
    <2> QED BY <1>0, <2>1 DEF branch_for_status, WRITABLE_STATUSES, Beats3
<1> HIDE DEF chapter
<1>5. /\ DOMAIN beats = 1 .. Count(b)
      /\ \A p \in 1 .. Count(b) : beats[p] = BeatOf(w[k], k, n, FirstBeat(b) + p - 1)
    BY <1>2, <1>4, BranchIs
<1>6. ASSUME NEW p \in 1 .. Count(b)
      PROVE  /\ beats[p].position = p /\ beats[p].beat_type = TypeAt(b, p)
             /\ p = 2 => beats[p].character = chapter.antagonist
    <2>1. PICK by : by = w[k]
        OBVIOUS
    <2>2. \A q \in 1 .. Count(b) : beats[q] = BeatOf(by, k, n, FirstBeat(b) + q - 1)
        BY <1>5, <2>1
    <2>3. Fits(BeatOf(by, k, n, FirstBeat(b) + p - 1), b, p, SEEDS[k].chapters[n].antagonist)
        BY <1>3, <1>4, BeatIs
    <2> HIDE DEF beats
    <2> QED BY <1>3, <2>2, <2>3 DEF Fits
<1> HIDE DEF beats
<1>7. Count(b) = IF b = "consequence" THEN 3 ELSE 4
    BY DEF Count
<1>8. /\ TypeAt(b, 1) = "narration" /\ TypeAt(b, 2) = "dialogue"
      /\ TypeAt(b, 3) = (IF b = "consequence" THEN "narration" ELSE "objective")
      /\ TypeAt(b, 4) = "hint"
    BY DEF TypeAt
<1>9. beats # <<>> /\ beats[1].beat_type = "narration"
    <2>1. 1 \in 1 .. Count(b)
        BY <1>7
    <2>2. DOMAIN beats # {}
        BY <1>5, <2>1
    <2> QED BY <1>6, <1>8, <2>1, <2>2
<1>10. \E i \in has("dialogue") : beats[i].character = chapter.antagonist
    <2>1. 2 \in 1 .. Count(b)
        BY <1>7
    <2>2. 2 \in has("dialogue")
        BY <1>5, <1>6, <1>8, <2>1
    <2> QED BY <1>6, <2>1, <2>2
<1>11. "objective" # "narration" /\ "objective" # "dialogue" /\ "objective" # "hint"
    OBVIOUS
<1>12. ASSUME b # "consequence" PROVE Cardinality(has("objective")) = 1
    <2>1. DOMAIN beats = 1 .. 4
        BY <1>5, <1>7, <1>12
    <2>2. has("objective") = {3}
        BY <1>6, <1>7, <1>8, <1>11, <1>12, <2>1
    <2> QED BY <2>2, FS_Singleton
<1>13. ASSUME b = "consequence" PROVE has("objective") = {}
    <2>1. DOMAIN beats = 1 .. 3
        BY <1>5, <1>7, <1>13
    <2> QED BY <1>6, <1>7, <1>8, <1>11, <1>13, <2>1
<1>14. \A i \in DOMAIN beats : beats[i].position = i
    BY <1>5, <1>6
<1> QED BY <1>0, <1>3, <1>4, <1>9, <1>10, <1>12, <1>13, <1>14 DEF beats

-----------------------------------------------------------------------------
(* The track. *)

\* The track lists the stories by position, with their chapters in order.
LEMMA PublishedAre ==
    ASSUME NEW w, NEW K \in 0 .. 3, ContentIs(content, w, K)
    PROVE  list_published_stories =
              [p \in 1 .. K |-> [slug |-> Slug(p), is_tutorial |-> SEEDS[p].is_tutorial,
                                 chapter_ids |-> [n \in 1 .. Size(p) |-> <<Slug(p), n>>]]]
<1> DEFINE rows == {row \in content.stories : row.status = "published"}
<1>1. rows = content.stories
    <2>1. \A row \in content.stories : row.status = "published"
        <3>1. \A by, k : StoryOf(by, k).status = "published"
            BY DEF StoryOf
        <3>2. \A row \in content.stories : \E by, k : row = StoryOf(by, k)
            BY StoriesAre
        <3> QED BY <3>1, <3>2
    <2> QED BY <2>1
<1>2. /\ DOMAIN By(content.stories) = 1 .. K
      /\ \A p \in 1 .. K : By(content.stories)[p] = StoryOf(w[p], p)
    <2>1. /\ \A row \in content.stories : row.position \in 1 .. K
          /\ \A r, q \in content.stories : r.position = q.position => r = q
          /\ \A i \in 1 .. K : \E row \in content.stories : row.position = i
        BY StoriesAre
    <2>2. K \in Nat
        OBVIOUS
    <2>3. /\ DOMAIN By(content.stories) = 1 .. K
          /\ \A p \in 1 .. K : By(content.stories)[p] \in content.stories /\ By(content.stories)[p].position = p
        BY <2>1, <2>2, ByIs
    <2> QED BY <2>3, StoriesAre
<1>3. ASSUME NEW p \in 1 .. K
      PROVE  ChapterIds(StoryOf(w[p], p)) = [n \in 1 .. Size(p) |-> <<Slug(p), n>>]
    <2> DEFINE its == ChaptersOf(Slug(p))
    <2>1. StoryOf(w[p], p).slug = Slug(p)
        BY DEF StoryOf, Slug
    <2>2. /\ \A row \in its : row.position \in 1 .. Size(p)
          /\ \A r, q \in its : r.position = q.position => r = q
          /\ \A n \in 1 .. Size(p) : \E row \in its : row.position = n
        BY ItsChapters
    <2>3. Size(p) \in Nat
        <3>1. Size(p) \in 3 .. 5
            BY ChaptersAre
        <3> QED BY <3>1
    <2> HIDE DEF its
    <2>4. DOMAIN By(its) = 1 .. Size(p) /\ \A n \in 1 .. Size(p) : By(its)[n].position = n
        <3>1. PICK m \in Nat : m = Size(p)
            BY <2>3
        <3>2. /\ \A row \in its : row.position \in 1 .. m
              /\ \A r, q \in its : r.position = q.position => r = q
              /\ \A n \in 1 .. m : \E row \in its : row.position = n
            BY <2>2, <3>1
        <3>3. /\ DOMAIN By(its) = 1 .. m
              /\ \A i \in 1 .. m : By(its)[i] \in its /\ By(its)[i].position = i
            BY <3>2, ByIs
        <3> QED BY <3>1, <3>3
    <2>5. ChapterIds(StoryOf(w[p], p)) = [n \in DOMAIN By(its) |-> <<Slug(p), By(its)[n].position>>]
        BY <2>1, Zenon DEF ChapterIds, ChaptersOf, its
    <2> QED BY <2>4, <2>5
<1>4. \A p \in 1 .. K : StoryOf(w[p], p).slug = Slug(p) /\ StoryOf(w[p], p).is_tutorial = SEEDS[p].is_tutorial
    BY DEF StoryOf, Slug
<1>5. list_published_stories =
          [p \in DOMAIN By(rows) |-> [slug |-> By(rows)[p].slug, is_tutorial |-> By(rows)[p].is_tutorial,
                                      chapter_ids |-> ChapterIds(By(rows)[p])]]
    BY Zenon DEF list_published_stories
<1> HIDE DEF rows
<1> QED BY <1>1, <1>2, <1>3, <1>4, <1>5

\* Joined, a few sequences are a sequence of what they hold.
Joins(f, s) == f = [i \in 1 .. Len(s) |-> IF i = 1 THEN s[i] ELSE f[i - 1] \o s[i]]
\* There is such a function of up to three sequences.
LEMMA JoinsExist ==
    ASSUME NEW s, NEW m \in 0 .. 3, Len(s) = m
    PROVE  \E f : Joins(f, s)
<1> DEFINE one == s[1]
           two == one \o s[2]
           three == two \o s[3]
           g == [i \in 1 .. m |-> IF i = 1 THEN one ELSE IF i = 2 THEN two ELSE three]
<1> HIDE DEF one, two, three
<1>1. \A i \in 1 .. m : g[i] = IF i = 1 THEN s[i] ELSE g[i - 1] \o s[i]
    <2> SUFFICES ASSUME NEW i \in 1 .. m PROVE g[i] = IF i = 1 THEN s[i] ELSE g[i - 1] \o s[i]
        OBVIOUS
    <2>1. i \in 1 .. 3 /\ (i # 1 => i - 1 \in 1 .. m)
        OBVIOUS
    <2>2. CASE i = 1
        BY <2>2 DEF one
    <2>3. CASE i = 2
        <3>1. g[i] = two /\ g[i - 1] = one
            BY <2>1, <2>3
        <3> QED BY <2>3, <3>1 DEF two
    <2>4. CASE i = 3
        <3>1. g[i] = three /\ g[i - 1] = two
            BY <2>1, <2>4
        <3> QED BY <2>4, <3>1 DEF three
    <2> QED BY <2>1, <2>2, <2>3, <2>4
<1>2. g = [i \in 1 .. m |-> g[i]]
    OBVIOUS
<1> HIDE DEF g
<1>3. g = [i \in 1 .. m |-> IF i = 1 THEN s[i] ELSE g[i - 1] \o s[i]]
    BY <1>1, <1>2
<1> QED BY <1>3 DEF Joins

\* Up to three sequences over a set, joined, are one over it.
LEMMA JoinedIs ==
    ASSUME NEW S, NEW s, NEW m \in 0 .. 3, Len(s) = m, m = 0 => s = <<>>, \A i \in 1 .. m : s[i] \in Seq(S)
    PROVE  FlattenSeq(s) \in Seq(S)
<1>0. \A a, b \in Seq(S) : a \o b \in Seq(S)
    OBVIOUS
<1>1. CASE m = 0
    <2>1. FlattenSeq(s) = s
        BY <1>1, Zenon DEF FlattenSeq
    <2> QED BY <1>1, <2>1
<1>2. CASE m # 0
    <2> DEFINE f == CHOOSE h : Joins(h, s)
    <2>1. FlattenSeq(s) = f[Len(s)]
        BY <1>2, Zenon DEF FlattenSeq, Joins
    <2>2. Joins(f, s)
        BY JoinsExist, Zenon
    <2> HIDE DEF f
    <2>3. f = [i \in 1 .. m |-> IF i = 1 THEN s[i] ELSE f[i - 1] \o s[i]]
        BY <2>2, Zenon DEF Joins
    <2>4. \A i \in 1 .. m : f[i] = IF i = 1 THEN s[i] ELSE f[i - 1] \o s[i]
        BY <2>3
    <2>5. f[1] \in Seq(S)
        BY <1>2, <2>4
    <2>6. 2 <= m => f[2] \in Seq(S)
        <3>1. 2 <= m => f[2] = f[1] \o s[2] /\ s[2] \in Seq(S)
            <4>1. 2 - 1 = 1 /\ 2 # 1 /\ (2 <= m => 2 \in 1 .. m)
                OBVIOUS
            <4>2. 2 <= m => f[2] = IF 2 = 1 THEN s[2] ELSE f[2 - 1] \o s[2]
                BY <2>4, <4>1, Zenon
            <4> QED BY <4>1, <4>2, Zenon
        <3> QED BY <1>0, <2>5, <3>1
    <2>7. 3 <= m => f[3] \in Seq(S)
        <3>1. 3 <= m => f[3] = f[2] \o s[3] /\ s[3] \in Seq(S) /\ 2 <= m
            <4>1. 3 - 1 = 2 /\ 3 # 1 /\ (3 <= m => 3 \in 1 .. m /\ 2 <= m)
                OBVIOUS
            <4>2. 3 <= m => f[3] = IF 3 = 1 THEN s[3] ELSE f[3 - 1] \o s[3]
                BY <2>4, <4>1, Zenon
            <4> QED BY <4>1, <4>2, Zenon
        <3> QED BY <1>0, <2>6, <3>1
    <2>8. m = 1 \/ m = 2 \/ m = 3
        BY <1>2
    <2> QED BY <2>1, <2>5, <2>6, <2>7, <2>8
<1> QED BY <1>1, <1>2

\* A chapter of the track is there, and is one of those a student can have a status for.
LEMMA TrackIsThere ==
    ASSUME NEW w, NEW K \in 0 .. 3, ContentIs(content, w, K)
    PROVE  TrackIds \in Seq({c \in AllChapters : get_chapter(c) # {}})
<1> DEFINE S == {c \in AllChapters : get_chapter(c) # {}}
           ids == [p \in DOMAIN list_published_stories |-> list_published_stories[p].chapter_ids]
<1>1. ids = [p \in 1 .. K |-> [n \in 1 .. Size(p) |-> <<Slug(p), n>>]]
    <2>1. PICK stories : stories = list_published_stories
        OBVIOUS
    <2>2. stories = [p \in 1 .. K |-> [slug |-> Slug(p), is_tutorial |-> SEEDS[p].is_tutorial,
                                       chapter_ids |-> [n \in 1 .. Size(p) |-> <<Slug(p), n>>]]]
        BY <2>1, PublishedAre
    <2>3. [p \in DOMAIN stories |-> stories[p].chapter_ids] = [p \in 1 .. K |-> [n \in 1 .. Size(p) |-> <<Slug(p), n>>]]
        BY <2>2
    <2> QED BY <2>1, <2>3
<1>2. \A p \in 1 .. K : \A n \in 1 .. Size(p) : <<Slug(p), n>> \in S
    <2> SUFFICES ASSUME NEW p \in 1 .. K, NEW n \in 1 .. Size(p) PROVE <<Slug(p), n>> \in S
        OBVIOUS
    <2>1. <<Slug(p), n>> \in AllChapters
        BY AllChaptersAre
    <2>2. get_chapter(<<Slug(p), n>>) # {}
        <3>1. get_chapter(<<Slug(p), n>>) = {ChapterOf(w[p], p, n)}
            BY ChapterFound
        <3> QED BY <3>1
    <2> QED BY <2>1, <2>2
<1> HIDE DEF S
<1>3. \A p \in 1 .. K : Size(p) \in Nat
    <2>1. \A p \in 1 .. K : Size(p) \in 3 .. 5
        BY ChaptersAre
    <2> QED BY <2>1
<1>4. \A p \in 1 .. K : [n \in 1 .. Size(p) |-> <<Slug(p), n>>] \in Seq(S)
    BY <1>2, <1>3
<1>5. \A p \in 1 .. K : ids[p] \in Seq(S)
    BY <1>1, <1>4
<1>7. Len(ids) = K /\ \A p \in 1 .. K : ids[p] \in Seq(S)
    <2>1. K \in Nat
        OBVIOUS
    <2>2. ids = [p \in 1 .. K |-> ids[p]]
        BY <1>1
    <2> HIDE DEF ids
    <2>3. ids \in Seq(Seq(S))
        BY <1>5, <2>1, <2>2
    <2> QED BY <1>5, <2>1, <2>2, <2>3
<1>8. K = 0 => ids = <<>>
    BY <1>7
<1>6. TrackIds = FlattenSeq(ids)
    BY DEF TrackIds
<1> HIDE DEF ids
<1> QED BY <1>5, <1>6, <1>7, <1>8, JoinedIs DEF S

-----------------------------------------------------------------------------
(* The stories are whole. *)

\* The content is what some first K seeds write, each by its first writer; a chapter that
\* is open to the student, or has a text on its way, is there.
TextsFindTheirChapters ==
    /\ text = [t \in Texts |-> text[t]]
    /\ \A t \in Texts : text[t] # None =>
           /\ text[t] = [chapter |-> text[t].chapter, day |-> text[t].day, seen |-> text[t].seen]
           /\ text[t].chapter \in AllChapters /\ get_chapter(text[t].chapter) # {}
ContentOK == \E K \in 0 .. 3 : \E w : SeedsInv(K, w)
JourneyOK ==
    /\ plan.seeders \subseteq Seeders
    /\ ContentOK
    /\ statuses = [c \in AllChapters |-> statuses[c]]
    /\ OpenIsThere
    /\ TextsFindTheirChapters

\* No step of a seed run takes a chapter away.
LEMMA ChaptersGrow ==
    ASSUME NEW s, SeedStep(s) \/ UNCHANGED content
    PROVE  content.chapters \subseteq content'.chapters
<1>1. CASE UNCHANGED content
    BY <1>1
<1>2. CASE CommitSeed(s)
    <2>1. content' = With(content, seeder[s].rows)
        BY <1>2 DEF CommitSeed, View
    <2>2. content'.chapters = content.chapters \union seeder[s].rows.chapters
        BY <2>1, WithIs
    <2> QED BY <2>2
<1> QED BY <1>1, <1>2 DEF SeedStep, SeedBegins, LookUp, FindTheme, InsertStory, InsertCharacters,
                          InsertChapter, SeederDies

\* A chapter that was found is found after any step of a run.
LEMMA ChaptersStay ==
    ASSUME NEW s, SeedStep(s) \/ UNCHANGED content, NEW id, get_chapter(id) # {}
    PROVE  get_chapter(id)' # {}
<1>1. get_chapter(id) \subseteq get_chapter(id)'
    BY ChaptersGrow DEF get_chapter
<1> QED BY <1>1

\* At first.
LEMMA JourneyInit ==
    ASSUME Init
    PROVE  JourneyOK
<1>1. plan.seeders \subseteq Seeders /\ plan.released \in 0 .. 3 /\ plan.passed \in Nat
    <2>1. Len(SEEDS) = 3 /\ Limit \in Nat
        BY JourneyAssumption DEF SEEDS
    <2>2. plan \in Scenarios
        BY DEF Init
    <2> QED BY <2>1, <2>2, JourneyAssumption
<1>2. PICK k \in 0 .. 3 : k = plan.released
    BY <1>1
<1>3. SeedsInv(k, Mine(Before))
    BY <1>2, SeedsBegin DEF Init
<1>4. ContentOK
    BY <1>3 DEF ContentOK
<1>5. TrackIds \in Seq({c \in AllChapters : get_chapter(c) # {}})
    <2>1. PICK w : w = Mine(Before)
        OBVIOUS
    <2>2. ContentIs(content, w, k)
        BY <1>3, <2>1 DEF SeedsInv
    <2> QED BY <2>2, TrackIsThere
<1>6. OpenIsThere
    <2> SUFFICES ASSUME NEW c \in AllChapters, statuses[c] # "locked" PROVE get_chapter(c) # {}
        BY DEF OpenIsThere
    <2>1. \E i \in 1 .. plan.passed : TrackIds[i] = c
        BY DEF Init
    <2>2. PICK i \in 1 .. Len(TrackIds) : TrackIds[i] = c
        BY <1>1, <1>5, <2>1 DEF Init
    <2> HIDE DEF TrackIds, AllChapters, get_chapter
    <2> QED BY <1>5, <2>2
<1>7. statuses = [c \in AllChapters |-> statuses[c]] /\ TextsFindTheirChapters
    BY DEF Init, TextsFindTheirChapters
<1> QED BY <1>1, <1>4, <1>6, <1>7 DEF JourneyOK

\* And after every step.
LEMMA JourneyNext ==
    ASSUME JourneyOK, [Next]_vars
    PROVE  JourneyOK'
<1> DEFINE StatusesOK == statuses = [c \in AllChapters |-> statuses[c]]
<1>1. ASSUME NEW s \in plan.seeders, SeedStep(s), UNCHANGED <<plan, today, student, screen>> PROVE JourneyOK'
    <2>1. s \in Seeders
        BY DEF JourneyOK
    <2>2. PICK K \in 0 .. 3 : \E w : SeedsInv(K, w)
        BY DEF JourneyOK, ContentOK
    <2>3. PICK w : SeedsInv(K, w)
        BY <2>2
    <2>4. \E L \in 0 .. 3 : \E v : SeedsInv(L, v)'
        <3>1. PICK r : r = seeder[s]
            OBVIOUS
        <3> QED BY <1>1, <2>1, <2>3, <3>1, SeedsStep
    <2>5. ContentOK'
        BY <2>4 DEF ContentOK
    <2>6. \A id : get_chapter(id) # {} => get_chapter(id)' # {}
        BY <1>1, ChaptersStay
    <2>7. OpenIsThere'
        BY <1>1, <2>6 DEF JourneyOK, OpenIsThere, student
    <2>8. TextsFindTheirChapters'
        <3>1. text' = text
            BY <1>1 DEF student
        <3>2. ASSUME NEW t \in Texts, text[t] # None PROVE get_chapter(text[t].chapter)' # {}
            <4>1. PICK id : id = text[t].chapter
                OBVIOUS
            <4>2. get_chapter(id)' # {}
                BY <2>6, <3>2, <4>1 DEF JourneyOK, TextsFindTheirChapters
            <4> QED BY <3>1, <4>1, <4>2 DEF get_chapter
        <3> QED BY <3>1, <3>2 DEF JourneyOK, TextsFindTheirChapters
    <2> QED BY <1>1, <2>5, <2>7, <2>8 DEF JourneyOK, student
<1>2. ASSUME UNCHANGED <<contents, plan>>, (StatusesOK /\ OpenIsThere)', TextsFindTheirChapters' PROVE JourneyOK'
    <2>1. \A K, w : SeedsInv(K, w) => SeedsInv(K, w)'
        BY <1>2 DEF SeedsInv, contents
    <2> QED BY <1>2, <2>1 DEF JourneyOK, ContentOK
<1>3. \A id : UNCHANGED contents => get_chapter(id)' = get_chapter(id)
    BY DEF get_chapter, contents
<1>4. UNCHANGED <<contents, text>> => TextsFindTheirChapters'
    BY DEF JourneyOK, TextsFindTheirChapters, get_chapter, contents
<1>5. UNCHANGED <<contents, statuses>> => (StatusesOK /\ OpenIsThere)'
    BY DEF JourneyOK, OpenIsThere, get_chapter, contents
<1>6. ASSUME NEW c \in AllChapters, NEW status, get_chapter(c) # {}, UNCHANGED contents,
             statuses' = [statuses EXCEPT ![c] = status]
      PROVE  (StatusesOK /\ OpenIsThere)'
    <2>1. \A d \in AllChapters : d = c \/ statuses'[d] = statuses[d]
        BY <1>6 DEF JourneyOK
    <2>2. StatusesOK'
        BY <1>6 DEF JourneyOK
    <2> HIDE DEF StatusesOK
    <2>3. OpenIsThere'
        <3>1. \A d \in AllChapters : statuses'[d] # "locked" => get_chapter(d)' # {}
            BY <1>3, <1>6, <2>1 DEF JourneyOK, OpenIsThere
        <3> QED BY <1>6, <3>1 DEF OpenIsThere
    <2> QED BY <2>2, <2>3
<1>7. ASSUME NEW t \in Texts, NEW way, UNCHANGED contents, text' = [text EXCEPT ![t] = way],
             way # None => /\ way = [chapter |-> way.chapter, day |-> way.day, seen |-> way.seen]
                           /\ way.chapter \in AllChapters /\ get_chapter(way.chapter) # {}
      PROVE  TextsFindTheirChapters'
    <2>1. text' = [u \in Texts |-> IF u = t THEN way ELSE text[u]]
        BY <1>7 DEF JourneyOK, TextsFindTheirChapters
    <2>2. text' = [u \in Texts |-> text'[u]]
        BY <2>1
    <2>3. ASSUME NEW u \in Texts, text'[u] # None
          PROVE  /\ text'[u] = [chapter |-> text'[u].chapter, day |-> text'[u].day, seen |-> text'[u].seen]
                 /\ text'[u].chapter \in AllChapters /\ get_chapter(text'[u].chapter) # {}
        BY <1>7, <2>1, <2>3 DEF JourneyOK, TextsFindTheirChapters
    <2> QED BY <1>7, <2>2, <2>3 DEF TextsFindTheirChapters, get_chapter, contents
<1>8. CASE GetTrack
    <2>1. PICK c \in next_playable_chapter : statuses' = [statuses EXCEPT ![c] = "available"]
        BY <1>8 DEF GetTrack
    <2>2. c \in AllChapters /\ get_chapter(c) # {}
        <3>1. PICK K \in 0 .. 3 : \E w : SeedsInv(K, w)
            BY DEF JourneyOK, ContentOK
        <3>2. PICK w : ContentIs(content, w, K)
            BY <3>1 DEF SeedsInv
        <3>3. TrackIds \in Seq({d \in AllChapters : get_chapter(d) # {}})
            BY <3>2, TrackIsThere
        <3>4. PICK i \in DOMAIN TrackIds : TrackIds[i] = c
            BY <2>1 DEF next_playable_chapter
        <3> HIDE DEF TrackIds, AllChapters, get_chapter
        <3> QED BY <3>3, <3>4
    <2>3. UNCHANGED <<contents, plan, text>>
        BY <1>8 DEF GetTrack
    <2> QED BY <1>2, <1>4, <1>6, <2>1, <2>2, <2>3
<1>9. ASSUME NEW t \in Texts, NEW c \in AllChapters, Submit(t, c) PROVE JourneyOK'
    <2> DEFINE way == [chapter |-> c, day |-> today, seen |-> None]
    <2>1. text' = [text EXCEPT ![t] = way] /\ get_chapter(c) # {} /\ UNCHANGED <<contents, plan, statuses>>
        BY <1>9 DEF Submit
    <2>2. way = [chapter |-> way.chapter, day |-> way.day, seen |-> way.seen] /\ way.chapter = c
        OBVIOUS
    <2> HIDE DEF way
    <2>3. TextsFindTheirChapters'
        BY <1>7, <2>1, <2>2
    <2> QED BY <1>2, <1>5, <2>1, <2>3
<1>10. ASSUME NEW t \in Texts, ReadStatus(t) PROVE JourneyOK'
    <2> DEFINE seen == statuses[text[t].chapter]
               old == text[t]
               way == [chapter |-> old.chapter, day |-> old.day, seen |-> seen]
    <2>1. /\ old # None /\ text' = [text EXCEPT ![t].seen = seen]
          /\ UNCHANGED <<contents, plan, statuses>>
        BY <1>10 DEF ReadStatus
    <2>2. /\ old = [chapter |-> old.chapter, day |-> old.day, seen |-> old.seen]
          /\ old.chapter \in AllChapters /\ get_chapter(old.chapter) # {}
        BY <2>1 DEF JourneyOK, TextsFindTheirChapters
    <2>3. text' = [text EXCEPT ![t] = [old EXCEPT !.seen = seen]]
        BY <2>1
    <2> HIDE DEF seen, old
    <2>4. [old EXCEPT !.seen = seen] = way
        BY <2>2
    <2>5. way = [chapter |-> way.chapter, day |-> way.day, seen |-> way.seen] /\ way.chapter = old.chapter
        OBVIOUS
    <2>6. text' = [text EXCEPT ![t] = way]
        BY <2>3, <2>4
    <2> HIDE DEF way
    <2>7. TextsFindTheirChapters'
        BY <1>7, <2>1, <2>2, <2>5, <2>6
    <2> QED BY <1>2, <1>5, <2>1, <2>7
<1>11. ASSUME NEW t \in Texts, Fail(t) PROVE JourneyOK'
    <2>1. text' = [text EXCEPT ![t] = None] /\ UNCHANGED <<contents, plan, statuses>>
        BY <1>11 DEF Fail
    <2>2. TextsFindTheirChapters'
        BY <1>7, <2>1
    <2> QED BY <1>2, <1>5, <2>1, <2>2
<1>12. ASSUME NEW t \in Texts, text[t] # None, NEW status, NEW praise, Evaluate(t, status, praise) PROVE JourneyOK'
    <2>1. PICK c : c = text[t].chapter
        OBVIOUS
    <2>2. c \in AllChapters /\ get_chapter(c) # {}
        BY <1>12, <2>1 DEF JourneyOK, TextsFindTheirChapters
    <2>3. PICK new : statuses' = [statuses EXCEPT ![c] = new]
        BY <1>12, <2>1 DEF Evaluate
    <2>4. text' = [text EXCEPT ![t] = None] /\ UNCHANGED <<contents, plan>>
        BY <1>12 DEF Evaluate
    <2>5. TextsFindTheirChapters'
        BY <1>7, <2>4
    <2>6. (StatusesOK /\ OpenIsThere)'
        BY <1>6, <2>2, <2>3, <2>4
    <2> QED BY <1>2, <2>4, <2>5, <2>6
<1>13. ASSUME NEW c \in AllChapters, StartRecovery(c) PROVE JourneyOK'
    <2>1. /\ statuses[c] = "in_consequence" /\ statuses' = [statuses EXCEPT ![c] = "in_recovery"]
          /\ UNCHANGED <<contents, plan, text>>
        BY <1>13 DEF StartRecovery
    <2>2. get_chapter(c) # {}
        <3>1. "in_consequence" # "locked"
            OBVIOUS
        <3> QED BY <2>1, <3>1 DEF JourneyOK, OpenIsThere
    <2> QED BY <1>2, <1>4, <1>6, <2>1, <2>2
<1>14. CASE NextDay \/ OpenScreen \/ ReadStories \/ ReadPraises \/ ReadBosses
    <2>1. UNCHANGED <<contents, plan, statuses, text>>
        BY <1>14 DEF NextDay, OpenScreen, ReadStories, ReadPraises, ReadBosses, student
    <2> QED BY <1>2, <1>4, <1>5, <2>1
<1>15. CASE UNCHANGED vars
    <2>1. UNCHANGED <<contents, plan, statuses, text>>
        BY <1>15 DEF vars
    <2> QED BY <1>2, <1>4, <1>5, <2>1
<1> HIDE DEF StatusesOK
<1> QED BY <1>1, <1>8, <1>9, <1>10, <1>11, <1>12, <1>13, <1>14, <1>15 DEF Next

\* Whatever seed runs overlap or die, and whatever release they start from, a story that can
\* be seen is there as a whole, and a chapter that is not locked has the scene its status
\* asks for.
THEOREM StoriesWholeHolds == Spec => []StoriesWhole
<1>1. Init => JourneyOK
    BY JourneyInit
<1>2. JourneyOK /\ [Next]_vars => JourneyOK'
    BY JourneyNext
<1>3. JourneyOK => StoriesWhole
    <2> SUFFICES ASSUME JourneyOK PROVE StoriesWhole
        OBVIOUS
    <2>1. PICK K \in 0 .. 3 : \E w : SeedsInv(K, w)
        BY DEF JourneyOK, ContentOK
    <2>2. PICK w : ContentIs(content, w, K)
        BY <2>1 DEF SeedsInv
    <2>3. OpenIsThere
        BY DEF JourneyOK
    <2> QED BY <2>2, <2>3, ContentWhole, ContentPlayable DEF StoriesWhole
<1> QED BY <1>1, <1>2, <1>3, PTL DEF Spec

-----------------------------------------------------------------------------
(* The milestones stay. *)

TutorialPassed == \A n \in 1 .. Size(1) : statuses[<<Slug(1), n>>] = "passed"
BossPassed == \E c \in AllChapters : statuses[c] = "passed" /\ \E row \in get_chapter(c) : row.kind = "chefe"

\* There are finitely many chapters, so the bosses passed are counted.
LEMMA ChaptersFinite == IsFiniteSet(AllChapters)
<1> DEFINE slugs == {Slug(1), Slug(2)} \union {Slug(3)}
<1>1. IsFiniteSet(slugs)
    <2>1. \A x : IsFiniteSet({x})
        BY FS_Singleton
    <2>2. \A x, y : {x, y} = {x} \union {y}
        OBVIOUS
    <2>3. \A x, y : IsFiniteSet({x, y})
        <3> SUFFICES ASSUME NEW x, NEW y PROVE IsFiniteSet({x, y})
            OBVIOUS
        <3>1. IsFiniteSet({x} \union {y})
            BY <2>1, FS_Union
        <3> QED BY <2>2, <3>1
    <2>4. \A x, y, z : IsFiniteSet({x, y} \union {z})
        BY <2>1, <2>3, FS_Union
    <2> QED BY <2>4
<1>2. IsFiniteSet(slugs \X (1 .. 5))
    <2>1. IsFiniteSet(1 .. 5)
        <3>1. \A i, j \in Int : IsFiniteSet(i .. j)
            BY FS_Interval
        <3>2. 1 \in Int /\ 5 \in Int
            OBVIOUS
        <3> QED BY <3>1, <3>2, Zenon
    <2> HIDE DEF slugs
    <2> QED BY <1>1, <2>1, FS_Product
<1>3. AllChapters \subseteq slugs \X (1 .. 5)
    <2> SUFFICES ASSUME NEW c \in AllChapters PROVE c \in slugs \X (1 .. 5)
        OBVIOUS
    <2>1. PICK k \in 1 .. 3 : \E n \in 1 .. Size(k) : c = <<Slug(k), n>>
        BY AllChaptersAre
    <2>2. PICK n \in 1 .. Size(k) : c = <<Slug(k), n>>
        BY <2>1
    <2>3. Size(k) \in 3 .. 5 /\ Slug(k) \in slugs
        <3>1. k = 1 \/ k = 2 \/ k = 3
            OBVIOUS
        <3> QED BY <3>1, ChaptersAre
    <2> HIDE DEF slugs
    <2> QED BY <2>2, <2>3
<1> QED BY <1>2, <1>3, FS_Subset

\* The screen counts a boss when one is passed.
LEMMA BossesAre == passed_boss_chapters > 0 <=> BossPassed
<1> DEFINE bosses == {c \in AllChapters : statuses[c] = "passed" /\ \E row \in get_chapter(c) : row.kind = "chefe"}
<1>1. IsFiniteSet(bosses)
    BY ChaptersFinite, FS_Subset
<1>2. passed_boss_chapters = Cardinality(bosses)
    BY DEF passed_boss_chapters
<1>3. BossPassed <=> bosses # {}
    BY DEF BossPassed
<1> HIDE DEF bosses
<1>4. Cardinality(bosses) \in Nat /\ (Cardinality(bosses) = 0 <=> bosses = {})
    BY <1>1, FS_CardinalityType, FS_EmptySet
<1> QED BY <1>2, <1>3, <1>4

\* fold_stories finds the tutorial completed when its chapters are passed.
LEMMA TutorialIs ==
    ASSUME NEW w, NEW K \in 0 .. 3, ContentIs(content, w, K)
    PROVE  TutorialCompleted <=> 1 <= K /\ TutorialPassed
<1>1. PICK stories : stories = list_published_stories
    OBVIOUS
<1>2. stories = [p \in 1 .. K |-> [slug |-> Slug(p), is_tutorial |-> SEEDS[p].is_tutorial,
                                   chapter_ids |-> [n \in 1 .. Size(p) |-> <<Slug(p), n>>]]]
    BY <1>1, PublishedAre
<1>3. TutorialCompleted <=> \E p \in DOMAIN stories : stories[p].is_tutorial /\ Completed(stories[p])
    BY <1>1 DEF TutorialCompleted
<1>4. ASSUME NEW p \in 1 .. K
      PROVE  /\ stories[p].is_tutorial <=> p = 1
             /\ stories[p].chapter_ids = [n \in 1 .. Size(p) |-> <<Slug(p), n>>]
    <2>1. SEEDS[p].is_tutorial <=> p = 1
        BY SeedsAre
    <2> QED BY <1>2, <2>1
<1>5. 1 <= K => (Completed(stories[1]) <=> TutorialPassed)
    <2> SUFFICES ASSUME 1 <= K PROVE Completed(stories[1]) <=> TutorialPassed
        OBVIOUS
    <2>1. stories[1].chapter_ids = [n \in 1 .. Size(1) |-> <<Slug(1), n>>]
        BY <1>4
    <2> QED BY <2>1 DEF Completed, TutorialPassed
<1>6. DOMAIN stories = 1 .. K
    BY <1>2
<1>7. \A p \in 1 .. K : stories[p].is_tutorial /\ Completed(stories[p]) <=> p = 1 /\ Completed(stories[1])
    BY <1>4
<1>8. 1 <= K <=> 1 \in 1 .. K
    OBVIOUS
<1>9. TutorialCompleted <=> 1 \in 1 .. K /\ Completed(stories[1])
    BY <1>3, <1>6, <1>7, Zenon
<1> QED BY <1>5, <1>8, <1>9

\* More practice days, no shorter a record.
LEMMA LongestGrows ==
    ASSUME NEW D \in Nat, NEW days, NEW more, days \subseteq more, more \subseteq 0 .. D
    PROVE  /\ longest_streak(days) \in Nat /\ longest_streak(more) \in Nat
           /\ longest_streak(days) <= longest_streak(more)
<1>1. PICK m : m = longest_streak(days)
    OBVIOUS
<1>2. m \in Nat /\ Longest(days, m, 0 .. D)
    BY <1>1, LongestStreakIs DEF Longest
<1>3. longest_streak(more) \in Nat
    BY LongestStreakIs DEF Longest
<1>4. CASE m = 0
    BY <1>1, <1>3, <1>4
<1>5. CASE m # 0
    <2>1. PICK last \in 0 .. D : InARow(days, m, last)
        BY <1>2, <1>5 DEF Longest
    <2>2. InARow(more, m, last)
        BY <2>1 DEF InARow
    <2>3. last \in Int
        OBVIOUS
    <2> QED BY <1>1, <1>2, <1>3, <2>2, <2>3, LongestIsMost
<1> QED BY <1>4, <1>5

\* What a milestone is told from stays as it is, or its loss is on record.
Steady ==
    /\ praised => praised'
    /\ lost \subseteq lost'
    /\ BossPassed => "pass" \in lost' \/ BossPassed'
    /\ TutorialPassed => "pass" \in lost' \/ TutorialPassed'
    /\ "day" \in lost' \/ PracticeDays \subseteq PracticeDays'

\* A passed chapter stays passed, or its loss is on record.
LEMMA PassesStay ==
    ASSUME JourneyOK, [Next]_vars
    PROVE  /\ BossPassed => "pass" \in lost' \/ BossPassed'
           /\ TutorialPassed => "pass" \in lost' \/ TutorialPassed'
<1>1. \A id : get_chapter(id) \subseteq get_chapter(id)'
    <2>1. ASSUME NEW s, SeedStep(s) PROVE content.chapters \subseteq content'.chapters
        BY <2>1, ChaptersGrow
    <2>2. content.chapters \subseteq content'.chapters
        BY <2>1 DEF Next, vars, contents, GetTrack, Submit, ReadStatus, Fail, Evaluate, StartRecovery, NextDay,
                    OpenScreen, ReadStories, ReadPraises, ReadBosses
    <2> QED BY <2>2 DEF get_chapter
<1>2. "pass" \in lost' \/ \A c \in AllChapters : statuses[c] = "passed" => statuses'[c] = "passed"
    <2>0. "passed" # "locked" /\ "passed" # "in_consequence"
        OBVIOUS
    <2>1. ASSUME UNCHANGED statuses PROVE \A c \in AllChapters : statuses[c] = "passed" => statuses'[c] = "passed"
        BY <2>1
    <2>2. ASSUME NEW c, NEW status, statuses' = [statuses EXCEPT ![c] = status], statuses[c] # "passed"
          PROVE  \A d \in AllChapters : statuses[d] = "passed" => statuses'[d] = "passed"
        BY <2>2 DEF JourneyOK
    <2>3. CASE GetTrack
        <3>1. PICK c \in next_playable_chapter : statuses' = [statuses EXCEPT ![c] = "available"]
            BY <2>3 DEF GetTrack
        <3>2. statuses[c] = "locked"
            BY <3>1 DEF next_playable_chapter
        <3> QED BY <2>0, <2>2, <3>1, <3>2
    <2>4. ASSUME NEW t \in Texts, NEW status, NEW praise, Evaluate(t, status, praise)
          PROVE  "pass" \in lost' \/ \A d \in AllChapters : statuses[d] = "passed" => statuses'[d] = "passed"
        <3>1. PICK c : c = text[t].chapter
            OBVIOUS
        <3>2. PICK new : statuses' = [statuses EXCEPT ![c] = new]
            BY <2>4, <3>1 DEF Evaluate
        <3>3. statuses[c] = "passed" /\ statuses'[c] # "passed" => "pass" \in lost'
            BY <2>4, <3>1 DEF Evaluate
        <3>4. \A d \in AllChapters : d = c \/ statuses'[d] = statuses[d]
            BY <3>2 DEF JourneyOK
        <3> QED BY <3>3, <3>4
    <2>5. ASSUME NEW c \in AllChapters, StartRecovery(c)
          PROVE  \A d \in AllChapters : statuses[d] = "passed" => statuses'[d] = "passed"
        BY <2>0, <2>2, <2>5 DEF StartRecovery
    <2>6. ASSUME NEW t \in Texts, (\E c \in AllChapters : Submit(t, c)) \/ ReadStatus(t) \/ Fail(t)
          PROVE  UNCHANGED statuses
        BY <2>6 DEF Submit, ReadStatus, Fail
    <2>7. CASE NextDay \/ OpenScreen \/ ReadStories \/ ReadPraises \/ ReadBosses
        BY <2>1, <2>7 DEF NextDay, OpenScreen, ReadStories, ReadPraises, ReadBosses, student
    <2>8. CASE UNCHANGED vars
        BY <2>1, <2>8 DEF vars
    <2>9. ASSUME NEW s \in plan.seeders, SeedStep(s), UNCHANGED <<plan, today, student, screen>>
          PROVE  UNCHANGED statuses
        BY <2>9 DEF student
    <2> QED BY <2>1, <2>3, <2>4, <2>5, <2>6, <2>7, <2>8, <2>9 DEF Next
<1>3. ASSUME \A c \in AllChapters : statuses[c] = "passed" => statuses'[c] = "passed"
      PROVE  (BossPassed => BossPassed') /\ (TutorialPassed => TutorialPassed')
    <2>1. BossPassed => BossPassed'
        <3> SUFFICES ASSUME BossPassed PROVE BossPassed'
            OBVIOUS
        <3>1. PICK c \in AllChapters : statuses[c] = "passed" /\ \E row \in get_chapter(c) : row.kind = "chefe"
            BY DEF BossPassed
        <3>2. statuses'[c] = "passed" /\ \E row \in get_chapter(c)' : row.kind = "chefe"
            BY <1>1, <1>3, <3>1
        <3> QED BY <3>2 DEF BossPassed
    <2>2. \A n \in 1 .. Size(1) : <<Slug(1), n>> \in AllChapters
        BY AllChaptersAre
    <2>3. TutorialPassed => TutorialPassed'
        BY <1>3, <2>2 DEF TutorialPassed
    <2> QED BY <2>1, <2>3
<1> QED BY <1>2, <1>3

\* A practice day stays one, or its loss is on record.
LEMMA DaysStay ==
    ASSUME CalendarOK, [Next]_vars
    PROVE  "day" \in lost' \/ PracticeDays \subseteq PracticeDays'
<1>1. ASSUME UNCHANGED count PROVE PracticeDays \subseteq PracticeDays'
    BY <1>1 DEF PracticeDays
<1>2. ASSUME NEW t \in Texts, NEW c \in AllChapters, Submit(t, c) PROVE PracticeDays \subseteq PracticeDays'
    BY <1>2 DEF Submit, CalendarOK, PracticeDays
<1>3. ASSUME NEW t \in Texts, Fail(t) PROVE "day" \in lost' \/ PracticeDays \subseteq PracticeDays'
    <2>1. PICK d : d = text[t].day
        OBVIOUS
    <2>2. /\ count' = [count EXCEPT ![d] = IF count[d] > 0 THEN count[d] - 1 ELSE 0]
          /\ lost' = IF count[d] = 1 THEN lost \union {"day"} ELSE lost
        BY <1>3, <2>1 DEF Fail
    <2>3. ASSUME count[d] # 1, NEW e \in PracticeDays PROVE e \in PracticeDays'
        <3>1. e \in 0 .. plan.days /\ count[e] > 0 /\ count[e] \in Nat
            BY DEF PracticeDays, CalendarOK
        <3>2. DOMAIN count' = DOMAIN count /\ DOMAIN count = 0 .. plan.days
            BY <2>2 DEF CalendarOK
        <3>3. CASE e # d
            <4>1. count'[e] = count[e]
                BY <2>2, <3>1, <3>2, <3>3
            <4> QED BY <3>1, <3>2, <4>1 DEF PracticeDays
        <3>4. CASE e = d
            <4>1. count'[e] = count[e] - 1
                BY <2>2, <3>1, <3>2, <3>4
            <4>2. count'[e] > 0
                BY <2>3, <3>1, <3>4, <4>1
            <4> QED BY <3>1, <3>2, <4>2 DEF PracticeDays
        <3> QED BY <3>3, <3>4
    <2> QED BY <2>2, <2>3
<1>4. ASSUME NEW t \in Texts, ReadStatus(t) \/ \E status, praise : Evaluate(t, status, praise) PROVE UNCHANGED count
    BY <1>4 DEF ReadStatus, Evaluate
<1>5. CASE GetTrack \/ (\E c \in AllChapters : StartRecovery(c)) \/ NextDay
           \/ OpenScreen \/ ReadStories \/ ReadPraises \/ ReadBosses \/ UNCHANGED vars
    BY <1>1, <1>5 DEF GetTrack, StartRecovery, NextDay, OpenScreen, ReadStories, ReadPraises, ReadBosses, student, vars
<1>6. ASSUME NEW s \in plan.seeders, SeedStep(s), UNCHANGED <<plan, today, student, screen>> PROVE UNCHANGED count
    BY <1>6 DEF student
<1> QED BY <1>1, <1>2, <1>3, <1>4, <1>5, <1>6 DEF Next

\* Every step keeps what the milestones are told from.
LEMMA StaysSteady ==
    ASSUME JourneyOK, CalendarOK, [Next]_vars
    PROVE  Steady
<1>1. lost \subseteq lost'
    <2>1. ASSUME NEW t \in Texts, Fail(t) \/ \E status, praise : Evaluate(t, status, praise) PROVE lost \subseteq lost'
        BY <2>1 DEF Fail, Evaluate
    <2>2. ASSUME NEW t \in Texts, (\E c \in AllChapters : Submit(t, c)) \/ ReadStatus(t) PROVE lost \subseteq lost'
        BY <2>2 DEF Submit, ReadStatus
    <2>3. CASE GetTrack \/ (\E c \in AllChapters : StartRecovery(c)) \/ NextDay
               \/ OpenScreen \/ ReadStories \/ ReadPraises \/ ReadBosses \/ UNCHANGED vars
        BY <2>3 DEF GetTrack, StartRecovery, NextDay, OpenScreen, ReadStories, ReadPraises, ReadBosses, student, vars
    <2>4. ASSUME NEW s \in plan.seeders, SeedStep(s), UNCHANGED <<plan, today, student, screen>> PROVE lost \subseteq lost'
        BY <2>4 DEF student
    <2> QED BY <2>1, <2>2, <2>3, <2>4 DEF Next
<1>2. praised => praised'
    <2>1. ASSUME NEW t \in Texts, NEW status, NEW praise, Evaluate(t, status, praise) PROVE praised => praised'
        BY <2>1, Zenon DEF Evaluate
    <2>2. ASSUME UNCHANGED praised PROVE praised => praised'
        BY <2>2, Zenon
    <2>3. ASSUME NEW t \in Texts, (\E c \in AllChapters : Submit(t, c)) \/ ReadStatus(t) \/ Fail(t) PROVE UNCHANGED praised
        BY <2>3 DEF Submit, ReadStatus, Fail
    <2>4. CASE GetTrack \/ (\E c \in AllChapters : StartRecovery(c)) \/ NextDay
               \/ OpenScreen \/ ReadStories \/ ReadPraises \/ ReadBosses \/ UNCHANGED vars
        <3>1. UNCHANGED praised
            BY <2>4 DEF GetTrack, StartRecovery, NextDay, OpenScreen, ReadStories, ReadPraises, ReadBosses, student, vars
        <3> QED BY <2>2, <3>1
    <2>5. ASSUME NEW s \in plan.seeders, SeedStep(s), UNCHANGED <<plan, today, student, screen>> PROVE UNCHANGED praised
        BY <2>5 DEF student
    <2> QED BY <2>1, <2>2, <2>3, <2>4, <2>5, Zenon DEF Next
<1> QED BY <1>1, <1>2, PassesStay, DaysStay DEF Steady

\* What the screen has shown, and what it has read, is still so, or its loss is on record.
PraiseOK ==
    /\ "first_repertoire_praise" \in shown => praised
    /\ page.praised => praised
    /\ page.stage = "bosses" /\ "first_repertoire_praise" \in shown => page.praised
BossOK == "first_boss_essay" \in shown => "pass" \in lost \/ BossPassed
TutorialOK ==
    /\ "tutorial_completed" \in shown => "pass" \in lost \/ TutorialPassed
    /\ page.tutorial => "pass" \in lost \/ TutorialPassed
    /\ page.stage \in {"praises", "bosses"} /\ "tutorial_completed" \in shown => "pass" \in lost \/ page.tutorial
AWeek(days) == longest_streak(days) >= WEEK_WITHOUT_MISSING_DAYS
WeekOK ==
    \/ "day" \in lost
    \/ /\ page.days \subseteq PracticeDays
       /\ "week_without_missing" \in shown => AWeek(PracticeDays)
       /\ page.stage # "idle" /\ "week_without_missing" \in shown => AWeek(page.days)
Milestones == {"tutorial_completed", "first_repertoire_praise", "first_boss_essay", "week_without_missing"}
MilestonesOK == shown \subseteq Milestones /\ PraiseOK /\ BossOK /\ TutorialOK /\ WeekOK

\* A screen's milestones are told one by one.
LEMMA MilestonesTold ==
    ASSUME NEW bosses
    PROVE  /\ milestones(bosses) \subseteq Milestones
           /\ "tutorial_completed" \in milestones(bosses) <=> page.tutorial
           /\ "first_repertoire_praise" \in milestones(bosses) <=> page.praised
           /\ "first_boss_essay" \in milestones(bosses) <=> bosses > 0
           /\ "week_without_missing" \in milestones(bosses) <=> AWeek(page.days)
    BY DEF milestones, Milestones, AWeek

\* What is on a page.
LEMMA PageIs ==
    ASSUME NEW stage, NEW days, NEW day, NEW tutorial, NEW praise, page' = Page(stage, days, day, tutorial, praise)
    PROVE  /\ page'.stage = stage /\ page'.days = days
           /\ page'.tutorial = tutorial /\ page'.praised = praise
    BY DEF Page

\* Days that are still practised make no shorter a record.
LEMMA AWeekStays ==
    ASSUME NEW D \in Nat, NEW more, more \subseteq 0 .. D, NEW days, days \subseteq more, AWeek(days)
    PROVE  AWeek(more)
<1>1. /\ longest_streak(days) \in Nat /\ longest_streak(more) \in Nat
      /\ longest_streak(days) <= longest_streak(more)
    BY LongestGrows
<1>2. WEEK_WITHOUT_MISSING_DAYS \in Nat
    BY JourneyAssumption
<1> QED BY <1>1, <1>2 DEF AWeek

\* The track's story with the tutorial is the first, and it is there once it is passed.
LEMMA TutorialTold ==
    ASSUME JourneyOK
    PROVE  TutorialCompleted <=> TutorialPassed
<1>1. PICK K \in 0 .. 3 : \E w : SeedsInv(K, w)
    BY DEF JourneyOK, ContentOK
<1>2. PICK w : ContentIs(content, w, K)
    BY <1>1 DEF SeedsInv
<1>3. ASSUME TutorialPassed PROVE 1 <= K
    <2>1. 1 \in 1 .. Size(1)
        BY ChaptersAre
    <2>2. <<Slug(1), 1>> \in AllChapters
        BY <2>1, AllChaptersAre
    <2>3. statuses[<<Slug(1), 1>>] # "locked"
        <3>1. "passed" # "locked"
            OBVIOUS
        <3> QED BY <1>3, <2>1, <3>1 DEF TutorialPassed
    <2>4. get_chapter(<<Slug(1), 1>>) # {}
        BY <2>2, <2>3 DEF JourneyOK, OpenIsThere
    <2>5. PICK k \in 1 .. K : TRUE
        BY <1>2, <2>4, ChapterFound
    <2> QED BY <2>5
<1> QED BY <1>2, <1>3, TutorialIs

\* At first nothing is shown.
LEMMA MilestonesInit ==
    ASSUME Init
    PROVE  MilestonesOK
<1>1. /\ shown = {} /\ page.stage = "idle" /\ page.days = {}
      /\ page.tutorial = FALSE /\ page.praised = FALSE
    BY DEF Init, NoPage, Page
<1> QED BY <1>1 DEF MilestonesOK, PraiseOK, BossOK, TutorialOK, WeekOK

\* Every statement of the screen, and every step between them, keeps the milestones.
LEMMA MilestonesNext ==
    ASSUME JourneyOK, CalendarOK, CalendarOK', MilestonesOK, [Next]_vars
    PROVE  MilestonesOK'
<1>0. Steady
    BY StaysSteady
<1>1. \A days : days \subseteq PracticeDays /\ AWeek(days) => "day" \in lost' \/ AWeek(PracticeDays)'
    <2> SUFFICES ASSUME NEW days, days \subseteq PracticeDays, AWeek(days), PracticeDays \subseteq PracticeDays'
                 PROVE  AWeek(PracticeDays)'
        BY <1>0 DEF Steady
    <2>1. plan.days' \in Nat /\ PracticeDays' \subseteq 0 .. plan.days'
        BY DEF CalendarOK, PracticeDays
    <2>2. PICK D \in Nat : D = plan.days'
        BY <2>1
    <2>3. PICK more : more = PracticeDays'
        OBVIOUS
    <2>4. AWeek(more)
        BY <2>1, <2>2, <2>3, AWeekStays
    <2>5. AWeek(more) <=> AWeek(PracticeDays)'
        BY <2>3 DEF AWeek
    <2> QED BY <2>4, <2>5
<1>2. CASE UNCHANGED <<page, shown>>
    BY <1>0, <1>1, <1>2 DEF Steady, MilestonesOK, PraiseOK, BossOK, TutorialOK, WeekOK
<1>3. CASE OpenScreen
    <2>1. page' = Page("stories", PracticeDays, today, FALSE, FALSE) /\ UNCHANGED <<student, shown, plan>>
        BY <1>3 DEF OpenScreen
    <2>2. page'.stage = "stories" /\ page'.days = PracticeDays /\ page'.tutorial = FALSE /\ page'.praised = FALSE
        BY <2>1, PageIs
    <2>3. PraiseOK'
        BY <1>0, <2>1, <2>2 DEF Steady, MilestonesOK, PraiseOK
    <2>4. BossOK'
        BY <1>0, <2>1 DEF Steady, MilestonesOK, BossOK
    <2>5. TutorialOK'
        BY <1>0, <2>1, <2>2 DEF Steady, MilestonesOK, TutorialOK
    <2>6. UNCHANGED <<PracticeDays, lost>>
        BY <2>1 DEF student, PracticeDays
    <2>7. AWeek(PracticeDays) => AWeek(page.days)'
        BY <2>2 DEF AWeek
    <2>8. WeekOK'
        BY <1>1, <2>1, <2>2, <2>6, <2>7 DEF MilestonesOK, WeekOK
    <2> QED BY <2>1, <2>3, <2>4, <2>5, <2>8 DEF MilestonesOK
<1>4. CASE ReadStories
    <2>1. /\ page.stage = "stories" /\ UNCHANGED <<student, shown, plan>>
          /\ page' = Page("praises", page.days, page.today, TutorialCompleted, FALSE)
        BY <1>4 DEF ReadStories
    <2>2. /\ page'.stage = "praises" /\ page'.days = page.days
          /\ page'.tutorial = TutorialCompleted /\ page'.praised = FALSE
        BY <2>1, PageIs
    <2>3. PraiseOK'
        BY <1>0, <2>1, <2>2 DEF Steady, MilestonesOK, PraiseOK
    <2>4. BossOK'
        BY <1>0, <2>1 DEF Steady, MilestonesOK, BossOK
    <2>5. TutorialOK'
        <3>1. UNCHANGED <<lost, TutorialPassed>>
            BY <2>1 DEF student, TutorialPassed
        <3>2. page'.tutorial <=> TutorialPassed
            BY <2>2, TutorialTold
        <3> QED BY <2>1, <3>1, <3>2 DEF MilestonesOK, TutorialOK
    <2>6. UNCHANGED <<PracticeDays, lost>>
        BY <2>1 DEF student, PracticeDays
    <2>7. AWeek(page.days) => AWeek(page.days)'
        BY <2>2 DEF AWeek
    <2>8. WeekOK'
        <3>1. page.stage # "idle"
            BY <2>1
        <3> QED BY <1>1, <2>1, <2>2, <2>6, <2>7, <3>1 DEF MilestonesOK, WeekOK
    <2> QED BY <2>1, <2>3, <2>4, <2>5, <2>8 DEF MilestonesOK
<1>5. CASE ReadPraises
    <2>1. /\ page.stage = "praises" /\ UNCHANGED <<student, shown, plan>>
          /\ page' = Page("bosses", page.days, page.today, page.tutorial, praised)
        BY <1>5 DEF ReadPraises
    <2>2. /\ page'.stage = "bosses" /\ page'.days = page.days
          /\ page'.tutorial = page.tutorial /\ page'.praised = praised
        BY <2>1, PageIs
    <2>3. PraiseOK'
        BY <1>0, <2>1, <2>2 DEF Steady, MilestonesOK, PraiseOK, student
    <2>4. BossOK'
        BY <1>0, <2>1 DEF Steady, MilestonesOK, BossOK
    <2>5. TutorialOK'
        <3>1. UNCHANGED <<lost, TutorialPassed>>
            BY <2>1 DEF student, TutorialPassed
        <3>2. page'.tutorial <=> page.tutorial
            BY <2>2
        <3> QED BY <2>1, <3>1, <3>2 DEF MilestonesOK, TutorialOK
    <2>6. UNCHANGED <<PracticeDays, lost>>
        BY <2>1 DEF student, PracticeDays
    <2>7. AWeek(page.days) => AWeek(page.days)'
        BY <2>2 DEF AWeek
    <2>8. WeekOK'
        <3>1. page.stage # "idle"
            BY <2>1
        <3> QED BY <1>1, <2>1, <2>2, <2>6, <2>7, <3>1 DEF MilestonesOK, WeekOK
    <2> QED BY <2>1, <2>3, <2>4, <2>5, <2>8 DEF MilestonesOK
<1>6. CASE ReadBosses
    <2>1. /\ page.stage = "bosses" /\ page' = NoPage /\ UNCHANGED <<student, plan, contents>>
          /\ shown' = milestones(passed_boss_chapters)
        BY <1>6 DEF ReadBosses
    <2>2. page'.stage = "idle" /\ page'.days = {} /\ page'.tutorial = FALSE /\ page'.praised = FALSE
        BY <2>1 DEF NoPage, Page
    <2>3. /\ shown' \subseteq Milestones
          /\ "tutorial_completed" \in shown' <=> page.tutorial
          /\ "first_repertoire_praise" \in shown' <=> page.praised
          /\ "first_boss_essay" \in shown' <=> BossPassed
          /\ "week_without_missing" \in shown' <=> AWeek(page.days)
        <3>1. PICK bosses : bosses = passed_boss_chapters
            OBVIOUS
        <3> QED BY <2>1, <3>1, MilestonesTold, BossesAre
    <2>4. PraiseOK'
        BY <1>0, <2>2, <2>3 DEF Steady, MilestonesOK, PraiseOK
    <2>5. BossOK'
        BY <1>0, <2>3 DEF Steady, BossOK
    <2>6. TutorialOK'
        BY <1>0, <2>2, <2>3 DEF Steady, MilestonesOK, TutorialOK
    <2>7. WeekOK'
        <3>1. lost' = lost
            BY <2>1 DEF student
        <3> QED BY <1>1, <2>2, <2>3, <3>1 DEF MilestonesOK, WeekOK
    <2> QED BY <2>3, <2>4, <2>5, <2>6, <2>7 DEF MilestonesOK
<1>7. CASE UNCHANGED vars
    BY <1>2, <1>7 DEF vars
<1>8. ASSUME NEW t \in Texts PROVE
   /\ ((\E c \in AllChapters : Submit(t, c)) \/ ReadStatus(t) \/ Fail(t)) => UNCHANGED <<page, shown>>
   /\ \A status, praise : Evaluate(t, status, praise) => UNCHANGED <<page, shown>>
   BY DEF Submit, ReadStatus, Fail, Evaluate, screen
<1>9. CASE GetTrack \/ (\E c \in AllChapters : StartRecovery(c)) \/ NextDay
    BY <1>2, <1>9 DEF GetTrack, StartRecovery, NextDay, screen
<1>10. ASSUME NEW s \in plan.seeders, SeedStep(s), UNCHANGED <<plan, today, student, screen>> PROVE UNCHANGED <<page, shown>>
    BY <1>10 DEF screen
<1> QED BY <1>2, <1>3, <1>4, <1>5, <1>6, <1>7, <1>8, <1>9, <1>10 DEF Next

\* Whatever happens between the statements of the screen, a milestone it has shown once it
\* shows again, unless a refund has emptied a day or a passed chapter has regressed; the
\* praise it never takes back.
THEOREM MilestonesStayHolds == Spec => MilestonesStay
<1> DEFINE Inv == JourneyOK /\ CalendarOK /\ MilestonesOK
           Step == page.stage = "bosses" /\ page'.stage = "idle" =>
                       \A m \in shown \ shown' :
                          \/ m = "week_without_missing" /\ "day" \in lost
                          \/ m \in {"tutorial_completed", "first_boss_essay"} /\ "pass" \in lost
<1>1. Init => Inv
    BY JourneyInit, CalendarInit, MilestonesInit
<1>2. Inv /\ [Next]_vars => Inv'
    BY JourneyNext, CalendarNext, MilestonesNext
<1>3. Inv /\ [Next]_vars => Step
    <2> SUFFICES ASSUME Inv, [Next]_vars, page.stage = "bosses", page'.stage = "idle" PROVE Step
        OBVIOUS
    <2>1. ReadBosses
        <3>1. "bosses" # "idle" /\ "bosses" # "stories" /\ "bosses" # "praises"
            OBVIOUS
        <3>2. ~UNCHANGED page
            BY <3>1
        <3>3. ~(OpenScreen \/ ReadStories \/ ReadPraises)
            BY <3>1 DEF OpenScreen, ReadStories, ReadPraises
        <3>4. \A t \in Texts : /\ \A c : ~Submit(t, c)
                               /\ ~ReadStatus(t) /\ ~Fail(t) /\ \A status, praise : ~Evaluate(t, status, praise)
            BY <3>2 DEF Submit, ReadStatus, Fail, Evaluate, screen
        <3>5. ~(GetTrack \/ (\E c \in AllChapters : StartRecovery(c)) \/ NextDay \/ UNCHANGED vars)
            BY <3>2 DEF GetTrack, StartRecovery, NextDay, vars, screen
        <3>6. \A s : ~(SeedStep(s) /\ UNCHANGED <<plan, today, student, screen>>)
            BY <3>2 DEF screen
        <3> QED BY <3>3, <3>4, <3>5, <3>6 DEF Next
    <2>2. /\ "tutorial_completed" \in shown' <=> page.tutorial
          /\ "first_repertoire_praise" \in shown' <=> page.praised
          /\ "first_boss_essay" \in shown' <=> BossPassed
          /\ "week_without_missing" \in shown' <=> AWeek(page.days)
        <3>1. PICK bosses : bosses = passed_boss_chapters
            OBVIOUS
        <3>2. shown' = milestones(bosses)
            BY <2>1, <3>1 DEF ReadBosses
        <3> QED BY <3>1, <3>2, MilestonesTold, BossesAre
    <2>3. ASSUME NEW m \in shown, m \notin shown'
          PROVE  \/ m = "week_without_missing" /\ "day" \in lost
                 \/ m \in {"tutorial_completed", "first_boss_essay"} /\ "pass" \in lost
        <3>1. m \in Milestones
            BY <2>3 DEF MilestonesOK
        <3>2. CASE m = "tutorial_completed"
            BY <2>2, <2>3, <3>2 DEF MilestonesOK, TutorialOK
        <3>3. CASE m = "first_repertoire_praise"
            BY <2>2, <2>3, <3>3 DEF MilestonesOK, PraiseOK
        <3>4. CASE m = "first_boss_essay"
            BY <2>2, <2>3, <3>4 DEF MilestonesOK, BossOK
        <3>5. CASE m = "week_without_missing"
            <4>1. page.stage # "idle"
                OBVIOUS
            <4> QED BY <2>2, <2>3, <3>5, <4>1 DEF MilestonesOK, WeekOK
        <3> QED BY <3>1, <3>2, <3>3, <3>4, <3>5 DEF Milestones
    <2> QED BY <2>3
<1> QED BY <1>1, <1>2, <1>3, PTL DEF Spec, MilestonesStay
=============================================================================
