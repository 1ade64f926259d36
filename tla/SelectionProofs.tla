-------------------------- MODULE SelectionProofs ---------------------------
(***************************************************************************)
(* What Selected returns: of every sequence and set, the selected elements *)
(* and no others, in their order.                                          *)
(***************************************************************************)
EXTENDS Selection, Integers, Sequences, FiniteSetTheorems, TLAPS

-----------------------------------------------------------------------------
(* Ranks *)

LEMMA RankGrows ==
  ASSUME NEW n \in Nat, NEW T \in SUBSET (1 .. n), NEW i \in T, NEW j \in T, i < j
  PROVE  Rank(T, i) < Rank(T, j)
<1> DEFINE A == {k \in T : k <= i}
           B == {k \in T : k <= j}
<1>1. IsFiniteSet(1 .. n)
  BY FS_Interval
<1>2. IsFiniteSet(B)
  BY <1>1, FS_Subset
<1>3. i \in Int /\ j \in Int /\ j \in B \ A
  OBVIOUS
<1>4. A \in SUBSET B /\ A # B
  <2>1. \A k \in T : k \in Int
    OBVIOUS
  <2>2. \A k \in T : k <= i => k <= j
    BY <1>3, <2>1
  <2> QED
    BY <1>3, <2>2
<1>5. /\ IsFiniteSet(A) /\ Cardinality(A) <= Cardinality(B)
      /\ Cardinality(A) # Cardinality(B)
  BY <1>2, <1>4, FS_Subset
<1>6. Cardinality(A) \in Nat /\ Cardinality(B) \in Nat
  BY <1>2, <1>5, FS_CardinalityType
<1> QED
  BY <1>5, <1>6 DEF Rank

\* The ranks of the members of T are 1 .. Cardinality(T), each once.
LEMMA RankOnto ==
  ASSUME NEW n \in Nat, NEW T \in SUBSET (1 .. n)
  PROVE  /\ Cardinality(T) \in Nat
         /\ \A i \in T : Rank(T, i) \in 1 .. Cardinality(T)
         /\ \A m \in 1 .. Cardinality(T) : \E i \in T : Rank(T, i) = m
<1> DEFINE N == Cardinality(T)
           f == [i \in T |-> Rank(T, i)]
<1>1. IsFiniteSet(T)
  <2>1. IsFiniteSet(1 .. n)
    BY FS_Interval
  <2> QED
    BY <2>1, FS_Subset
<1>2. N \in Nat
  BY <1>1, FS_CardinalityType
<1>3. ASSUME NEW i \in T PROVE Rank(T, i) \in 1 .. N
  <2> DEFINE A == {k \in T : k <= i}
  <2>1. i \in A /\ A \in SUBSET T
    BY i \in Int
  <2>2. IsFiniteSet(A) /\ Cardinality(A) <= N
    BY <1>1, <2>1, FS_Subset
  <2>3. Cardinality(A) \in Nat /\ Cardinality(A) # 0
    BY <2>1, <2>2, FS_CardinalityType, FS_EmptySet
  <2> QED
    BY <1>2, <2>2, <2>3 DEF Rank
<1>4. f \in Injection(T, 1 .. N)
  <2>1. f \in [T -> 1 .. N]
    BY <1>3
  <2>2. \A i \in T, j \in T : f[i] = f[j] => i = j
    <3> SUFFICES ASSUME NEW i \in T, NEW j \in T, i < j PROVE f[i] # f[j]
      BY T \subseteq Int
    <3>1. Rank(T, i) < Rank(T, j)
      BY RankGrows
    <3> QED
      BY <1>2, <1>3, <3>1
  <2> QED
    BY <2>1, <2>2 DEF Injection, IsInjective
<1>5. IsFiniteSet(1 .. N) /\ Cardinality(1 .. N) = N
  BY <1>2, FS_Interval
<1>6. f \in Surjection(T, 1 .. N)
  BY <1>4, <1>5, FS_Injection
<1>7. \A m \in 1 .. N : \E i \in T : f[i] = m
  BY <1>6 DEF Surjection
<1> QED
  BY <1>2, <1>3, <1>7

\* Nth enumerates T in increasing order.
LEMMA NthOfRank ==
  ASSUME NEW n \in Nat, NEW T \in SUBSET (1 .. n)
  PROVE  /\ \A m \in 1 .. Cardinality(T) : Nth(T, m) \in T /\ Rank(T, Nth(T, m)) = m
         /\ \A i \in T : Nth(T, Rank(T, i)) = i
         /\ \A l \in 1 .. Cardinality(T), m \in 1 .. Cardinality(T) :
              l < m => Nth(T, l) < Nth(T, m)
<1>1. \A m \in 1 .. Cardinality(T) : Nth(T, m) \in T /\ Rank(T, Nth(T, m)) = m
  BY RankOnto DEF Nth
<1>2. \A i \in T, j \in T : i < j => Rank(T, i) < Rank(T, j)
  BY RankGrows
<1>3. \A i \in T : Rank(T, i) \in 1 .. Cardinality(T) /\ Cardinality(T) \in Nat
  BY RankOnto
<1>4. \A i \in T, j \in T : Rank(T, i) <= Rank(T, j) <=> i <= j
  BY <1>2, <1>3, T \subseteq Int
<1>5. \A i \in T : Nth(T, Rank(T, i)) = i
  <2> SUFFICES ASSUME NEW i \in T, NEW j, j = Nth(T, Rank(T, i)) PROVE j = i
    OBVIOUS
  <2>1. j \in T /\ Rank(T, j) = Rank(T, i) /\ Rank(T, i) \in Int
    BY <1>1, <1>3
  <2>2. i \in Int /\ j \in Int
    BY <2>1
  <2>3. i <= j /\ j <= i
    BY <1>4, <2>1
  <2> QED
    BY <2>2, <2>3
<1>6. \A l \in 1 .. Cardinality(T), m \in 1 .. Cardinality(T) :
        l < m => Nth(T, l) < Nth(T, m)
  <2> SUFFICES ASSUME NEW l \in 1 .. Cardinality(T), NEW m \in 1 .. Cardinality(T), l < m,
                      NEW i, i = Nth(T, l), NEW j, j = Nth(T, m)
               PROVE  i < j
    OBVIOUS
  <2>1. i \in T /\ j \in T /\ Rank(T, i) = l /\ Rank(T, j) = m
    BY <1>1
  <2>2. ~(j <= i) /\ i \in Int /\ j \in Int
    BY <1>3, <1>4, <2>1
  <2> QED
    BY <2>2
<1> QED
  BY <1>1, <1>5, <1>6

\* The only enumeration of T in increasing order is Nth.
LEMMA NthIsUnique ==
  ASSUME NEW n \in Nat, NEW T \in SUBSET (1 .. n), NEW m \in Nat, NEW g \in [1 .. m -> T],
         \A k \in 1 .. m, l \in 1 .. m : k < l => g[k] < g[l],
         \A i \in T : \E k \in 1 .. m : g[k] = i
  PROVE  m = Cardinality(T) /\ \A k \in 1 .. m : g[k] = Nth(T, k)
<1>0. \A k \in 1 .. m : g[k] \in T /\ g[k] \in Int
  <2>1. T \subseteq Int
    OBVIOUS
  <2> QED
    BY <2>1
<1>1. \A k \in 1 .. m, l \in 1 .. m : g[k] <= g[l] <=> k <= l
  BY <1>0
<1>2. ASSUME NEW p \in 0 .. m, NEW U, U = {g[k] : k \in 1 .. p}
      PROVE  Cardinality(U) = p
  <2> DEFINE h == [k \in 1 .. p |-> g[k]]
  <2>1. p \in Nat /\ 1 .. p \subseteq 1 .. m
    OBVIOUS
  <2>2. h \in [1 .. p -> U] /\ \A i \in U : \E k \in 1 .. p : h[k] = i
    BY <1>2
  <2>3. \A k \in 1 .. p, l \in 1 .. p : h[k] = h[l] => k = l
    <3> SUFFICES ASSUME NEW k \in 1 .. p, NEW l \in 1 .. p, g[k] = g[l] PROVE k = l
      OBVIOUS
    <3>1. k \in 1 .. m /\ l \in 1 .. m
      BY <2>1
    <3>2. k <= l /\ l <= k
      BY <1>0, <1>1, <3>1
    <3> QED
      BY <3>2
  <2>4. h \in Bijection(1 .. p, U)
    BY <2>2, <2>3 DEF Bijection, Injection, IsInjective, Surjection
  <2> QED
    BY <2>1, <2>4, FS_CountingElements DEF ExistsBijection
<1>3. m = Cardinality(T)
  <2>1. T = {g[k] : k \in 1 .. m}
    BY <1>0
  <2> QED
    BY <1>2, <2>1
<1>4. ASSUME NEW k \in 1 .. m PROVE g[k] = Nth(T, k)
  <2> DEFINE U == {i \in T : i <= g[k]}
  <2>1. U = {g[l] : l \in 1 .. k}
    <3>1. ASSUME NEW l \in 1 .. k PROVE g[l] \in U
      <4>1. l \in 1 .. m /\ l <= k
        OBVIOUS
      <4> QED
        BY <1>0, <1>1, <4>1
    <3>2. ASSUME NEW i \in U PROVE \E l \in 1 .. k : g[l] = i
      <4>1. PICK l \in 1 .. m : g[l] = i
        OBVIOUS
      <4>2. l <= k
        BY <1>1, <4>1
      <4> QED
        BY <4>1, <4>2
    <3> QED
      BY <3>1, <3>2
  <2>2. Cardinality(U) = k
    BY <1>2, <2>1
  <2>3. Rank(T, g[k]) = k
    BY <2>2 DEF Rank
  <2> QED
    BY <1>0, <2>3, NthOfRank
<1> QED
  BY <1>3, <1>4

-----------------------------------------------------------------------------
(* Selected *)

\* g lists the members of T in increasing order.
Increasing(m, g, T) ==
  /\ m \in Nat /\ g \in [1 .. m -> T]
  /\ \A k \in 1 .. m, l \in 1 .. m : k < l => g[k] < g[l]
  /\ \A i \in T : \E k \in 1 .. m : g[k] = i

\* q is what s holds at the places that g lists.
Part(q, s, S, m, g) == Increasing(m, g, Places(s, S)) /\ q = [k \in 1 .. m |-> s[g[k]]]

LEMMA PlacesAre ==
  ASSUME NEW A, NEW s \in Seq(A), NEW S
  PROVE  /\ Len(s) \in Nat /\ DOMAIN s = 1 .. Len(s)
         /\ Places(s, S) \in SUBSET (1 .. Len(s))
         /\ Cardinality(Places(s, S)) \in Nat
<1>1. Len(s) \in Nat /\ DOMAIN s = 1 .. Len(s) /\ Places(s, S) \in SUBSET (1 .. Len(s))
  BY DEF Places
<1> QED
  BY <1>1, RankOnto

\* A selection is a part of its sequence, in the same order, that leaves out
\* nothing that is in the set.
THEOREM SelectedHas ==
  ASSUME NEW A, NEW s \in Seq(A), NEW S
  PROVE  \E m, g : Part(Selected(s, S), s, S, m, g)
<1> DEFINE T == Places(s, S)
           m == Cardinality(T)
           g == [k \in 1 .. m |-> Nth(T, k)]
<1>1. Len(s) \in Nat /\ T \in SUBSET (1 .. Len(s)) /\ m \in Nat
  BY PlacesAre
<1>2. \A i \in T : Rank(T, i) \in 1 .. m
  BY <1>1, RankOnto
<1>3. /\ \A k \in 1 .. m : Nth(T, k) \in T
      /\ \A i \in T : Nth(T, Rank(T, i)) = i
      /\ \A k \in 1 .. m, l \in 1 .. m : k < l => Nth(T, k) < Nth(T, l)
  BY <1>1, NthOfRank
<1>4. g \in [1 .. m -> T] /\ Selected(s, S) = [k \in 1 .. m |-> s[g[k]]]
  BY <1>3 DEF Selected
<1>5. \A i \in T : \E k \in 1 .. m : g[k] = i
  BY <1>2, <1>3
<1>6. \A k \in 1 .. m, l \in 1 .. m : k < l => g[k] < g[l]
  BY <1>3
<1> HIDE DEF T, m, g
<1>7. Increasing(m, g, T)
  BY <1>1, <1>4, <1>5, <1>6 DEF Increasing
<1>8. Part(Selected(s, S), s, S, m, g)
  BY <1>4, <1>7 DEF T, Part
<1> QED
  BY <1>8

\* There is no other such part.
THEOREM SelectedIs ==
  ASSUME NEW A, NEW s \in Seq(A), NEW S, NEW m, NEW g, NEW q, Part(q, s, S, m, g)
  PROVE  Selected(s, S) = q
<1>1. Len(s) \in Nat /\ Places(s, S) \in SUBSET (1 .. Len(s))
  BY PlacesAre
<1>2. m = Cardinality(Places(s, S)) /\ \A k \in 1 .. m : g[k] = Nth(Places(s, S), k)
  BY <1>1, NthIsUnique DEF Increasing, Part
<1> QED
  BY <1>2 DEF Selected, Part

LEMMA SelectedType ==
  ASSUME NEW A, NEW s \in Seq(A), NEW S
  PROVE  Selected(s, S) \in Seq(A \cap S) /\ Selected(s, S) \in Seq(A)
<1>1. PICK m, g : Part(Selected(s, S), s, S, m, g)
  BY SelectedHas
<1>2. /\ Selected(s, S) = [k \in 1 .. m |-> s[g[k]]]
      /\ m \in Nat /\ g \in [1 .. m -> Places(s, S)]
      /\ \A k \in 1 .. m, l \in 1 .. m : k < l => g[k] < g[l]
      /\ \A i \in Places(s, S) : \E k \in 1 .. m : g[k] = i
  BY <1>1 DEF Increasing, Part
<1>3. \A k \in 1 .. m : s[g[k]] \in A \cap S
  BY <1>2 DEF Places
<1> QED
  BY <1>1, <1>2, <1>3

\* The elements of a selection are those of the sequence that are in the set.
LEMMA SelectedRange ==
  ASSUME NEW A, NEW s \in Seq(A), NEW S
  PROVE  /\ \A k \in DOMAIN Selected(s, S) :
              Selected(s, S)[k] \in S /\ \E i \in DOMAIN s : s[i] = Selected(s, S)[k]
         /\ \A i \in DOMAIN s : s[i] \in S => \E k \in DOMAIN Selected(s, S) : Selected(s, S)[k] = s[i]
<1>1. PICK m, g : Part(Selected(s, S), s, S, m, g)
  BY SelectedHas
<1>2. /\ Selected(s, S) = [k \in 1 .. m |-> s[g[k]]]
      /\ m \in Nat /\ g \in [1 .. m -> Places(s, S)]
      /\ \A k \in 1 .. m, l \in 1 .. m : k < l => g[k] < g[l]
      /\ \A i \in Places(s, S) : \E k \in 1 .. m : g[k] = i
  BY <1>1 DEF Increasing, Part
<1>3. DOMAIN Selected(s, S) = 1 .. m /\ \A k \in 1 .. m : Selected(s, S)[k] = s[g[k]]
  BY <1>2
<1>4. \A k \in 1 .. m : g[k] \in DOMAIN s /\ s[g[k]] \in S
  BY <1>2 DEF Places
<1>5. \A i \in DOMAIN s : s[i] \in S => \E k \in 1 .. m : g[k] = i
  BY <1>2 DEF Places
<1>6. \A k \in 1 .. m : Selected(s, S)[k] \in S /\ \E i \in DOMAIN s : s[i] = Selected(s, S)[k]
  BY <1>3, <1>4
<1>7. \A i \in DOMAIN s : s[i] \in S => \E k \in 1 .. m : Selected(s, S)[k] = s[i]
  BY <1>3, <1>5
<1> QED
  BY <1>3, <1>6, <1>7, Zenon

LEMMA SelectedFinds ==
  ASSUME NEW A, NEW s \in Seq(A), NEW S, NEW i \in DOMAIN s, s[i] \in S
  PROVE  \E k \in DOMAIN Selected(s, S) : Selected(s, S)[k] = s[i]
<1>1. \A j \in DOMAIN s : s[j] \in S => \E k \in DOMAIN Selected(s, S) : Selected(s, S)[k] = s[j]
  BY SelectedRange
<1> QED
  BY <1>1

\* Of a sequence without repetitions, a selection is without repetitions.
LEMMA SelectedDistinct ==
  ASSUME NEW A, NEW s \in Seq(A), NEW S,
         \A i \in DOMAIN s, j \in DOMAIN s : s[i] = s[j] => i = j
  PROVE  \A k \in DOMAIN Selected(s, S), l \in DOMAIN Selected(s, S) :
           Selected(s, S)[k] = Selected(s, S)[l] => k = l
<1>1. PICK m, g : Part(Selected(s, S), s, S, m, g)
  BY SelectedHas
<1>2. /\ Selected(s, S) = [k \in 1 .. m |-> s[g[k]]]
      /\ m \in Nat /\ g \in [1 .. m -> Places(s, S)]
      /\ \A k \in 1 .. m, l \in 1 .. m : k < l => g[k] < g[l]
      /\ \A i \in Places(s, S) : \E k \in 1 .. m : g[k] = i
  BY <1>1 DEF Increasing, Part
<1>3. DOMAIN Selected(s, S) = 1 .. m /\ \A k \in 1 .. m : Selected(s, S)[k] = s[g[k]]
  BY <1>2
<1>4. \A k \in 1 .. m : g[k] \in DOMAIN s /\ g[k] \in Int
  BY <1>2, PlacesAre DEF Places
<1> SUFFICES ASSUME NEW k \in 1 .. m, NEW l \in 1 .. m, k < l, s[g[k]] = s[g[l]] PROVE FALSE
  BY <1>3
<1>5. g[k] < g[l]
  BY <1>2
<1> QED
  BY <1>4, <1>5

\* A selection of everything, and of nothing.
LEMMA SelectedAll ==
  ASSUME NEW A, NEW s \in Seq(A), NEW S, \A i \in DOMAIN s : s[i] \in S
  PROVE  Selected(s, S) = s
<1> DEFINE g == [k \in 1 .. Len(s) |-> k]
<1>1. Len(s) \in Nat /\ DOMAIN s = 1 .. Len(s) /\ Places(s, S) = 1 .. Len(s)
  BY DEF Places
<1>2. Increasing(Len(s), g, Places(s, S))
  BY <1>1 DEF Increasing
<1> HIDE DEF g
<1>3. s = [k \in 1 .. Len(s) |-> s[g[k]]]
  BY <1>1 DEF g
<1>4. Part(s, s, S, Len(s), g)
  BY <1>2, <1>3 DEF Part
<1> QED
  BY <1>4, SelectedIs

LEMMA SelectedNone ==
  ASSUME NEW A, NEW s \in Seq(A), NEW S, \A i \in DOMAIN s : s[i] \notin S
  PROVE  Selected(s, S) = <<>>
<1>1. Places(s, S) = {}
  BY DEF Places
<1>2. Cardinality({}) = 0
  BY FS_EmptySet
<1> QED
  BY <1>1, <1>2 DEF Selected

LEMMA SameSeq ==
  ASSUME NEW A, NEW s \in Seq(A), NEW t \in Seq(A), Len(s) = Len(t),
         \A k \in 1 .. Len(s) : s[k] = t[k]
  PROVE  s = t
OBVIOUS

LEMMA ConcatIs ==
  ASSUME NEW A, NEW q \in Seq(A), NEW r \in Seq(A), NEW v \in Seq(A),
         Len(v) = Len(q) + Len(r),
         \A k \in 1 .. Len(v) : v[k] = IF k <= Len(q) THEN q[k] ELSE r[k - Len(q)]
  PROVE  v = q \o r
<1>1. q \o r \in Seq(A) /\ Len(q \o r) = Len(q) + Len(r)
  OBVIOUS
<1>2. \A k \in 1 .. Len(v) : (q \o r)[k] = v[k]
  OBVIOUS
<1> QED
  BY <1>1, <1>2, SameSeq

\* A selection of a concatenation is the concatenation of the selections.
LEMMA SelectedConcat ==
  ASSUME NEW A, NEW s \in Seq(A), NEW t \in Seq(A), NEW S
  PROVE  Selected(s \o t, S) = Selected(s, S) \o Selected(t, S)
<1>1. PICK m, g : Part(Selected(s, S), s, S, m, g)
  BY SelectedHas
<1>2. /\ Selected(s, S) = [k \in 1 .. m |-> s[g[k]]]
      /\ m \in Nat /\ g \in [1 .. m -> Places(s, S)]
      /\ \A k \in 1 .. m, l \in 1 .. m : k < l => g[k] < g[l]
      /\ \A i \in Places(s, S) : \E k \in 1 .. m : g[k] = i
  BY <1>1 DEF Increasing, Part
<1>3. PICK n, h : Part(Selected(t, S), t, S, n, h)
  BY SelectedHas
<1>4. /\ Selected(t, S) = [k \in 1 .. n |-> t[h[k]]]
      /\ n \in Nat /\ h \in [1 .. n -> Places(t, S)]
      /\ \A k \in 1 .. n, l \in 1 .. n : k < l => h[k] < h[l]
      /\ \A i \in Places(t, S) : \E k \in 1 .. n : h[k] = i
  BY <1>3 DEF Increasing, Part
<1>0. m \in Nat /\ n \in Nat
  BY <1>2, <1>4
<1> USE <1>0
<1> DEFINE u == s \o t
           f == [k \in 1 .. m + n |-> IF k <= m THEN g[k] ELSE Len(s) + h[k - m]]
<1>5. /\ u \in Seq(A) /\ Len(s) \in Nat /\ Len(t) \in Nat /\ Len(u) = Len(s) + Len(t)
      /\ DOMAIN s = 1 .. Len(s) /\ DOMAIN t = 1 .. Len(t) /\ DOMAIN u = 1 .. Len(s) + Len(t)
      /\ \A i \in 1 .. Len(s) : u[i] = s[i]
      /\ \A i \in 1 .. Len(t) : u[Len(s) + i] = t[i]
  OBVIOUS
<1> HIDE DEF u
<1>6. \A k \in 1 .. m : g[k] \in 1 .. Len(s) /\ s[g[k]] \in S
  BY <1>2, <1>5 DEF Places
<1>7. \A k \in 1 .. n : h[k] \in 1 .. Len(t) /\ t[h[k]] \in S
  BY <1>4, <1>5 DEF Places
<1>8. \A k \in 1 .. m + n : (k \in 1 .. m) \/ (k - m \in 1 .. n /\ ~(k <= m))
  BY <1>2, <1>4
<1>9. \A k \in 1 .. m + n :
        f[k] \in Places(u, S) /\ u[f[k]] = IF k <= m THEN s[g[k]] ELSE t[h[k - m]]
  <2> TAKE k \in 1 .. m + n
  <2>1. CASE k \in 1 .. m
    <3>1. f[k] = g[k] /\ g[k] \in 1 .. Len(s) /\ s[g[k]] \in S
      BY <1>6, <2>1
    <3> QED
      BY <1>5, <2>1, <3>1 DEF Places
  <2>2. CASE k - m \in 1 .. n /\ ~(k <= m)
    <3>1. f[k] = Len(s) + h[k - m] /\ h[k - m] \in 1 .. Len(t) /\ t[h[k - m]] \in S
      BY <1>7, <2>2
    <3> QED
      BY <1>5, <2>2, <3>1 DEF Places
  <2> QED
    BY <1>8, <2>1, <2>2
<1>10. f \in [1 .. m + n -> Places(u, S)]
  BY <1>9
<1>11. \A k \in 1 .. m + n, l \in 1 .. m + n : k < l => f[k] < f[l]
  <2> SUFFICES ASSUME NEW k \in 1 .. m + n, NEW l \in 1 .. m + n, k < l PROVE f[k] < f[l]
    OBVIOUS
  <2>1. CASE l <= m
    <3>1. k \in 1 .. m /\ l \in 1 .. m
      BY <2>1
    <3> QED
      BY <1>2, <3>1
  <2>2. CASE ~(l <= m) /\ k <= m
    <3>1. g[k] \in 1 .. Len(s) /\ h[l - m] \in 1 .. Len(t)
      BY <1>6, <1>7, <2>2
    <3> QED
      BY <1>5, <2>2, <3>1
  <2>3. CASE ~(k <= m)
    <3>1. k - m \in 1 .. n /\ l - m \in 1 .. n /\ k - m < l - m
      BY <2>3
    <3>2. h[k - m] < h[l - m] /\ h[k - m] \in Int /\ h[l - m] \in Int
      BY <1>4, <1>7, <3>1
    <3> QED
      BY <1>5, <2>3, <3>2
  <2> QED
    BY <2>1, <2>2, <2>3
<1>12. \A i \in Places(u, S) : \E k \in 1 .. m + n : f[k] = i
  <2> TAKE i \in Places(u, S)
  <2>1. i \in 1 .. Len(s) + Len(t) /\ u[i] \in S
    BY <1>5 DEF Places
  <2>2. CASE i <= Len(s)
    <3>1. i \in Places(s, S)
      BY <1>5, <2>1, <2>2 DEF Places
    <3>2. PICK k \in 1 .. m : g[k] = i
      BY <1>2, <3>1
    <3>3. k \in 1 .. m + n /\ f[k] = i
      BY <3>2
    <3> QED
      BY <3>3
  <2>3. CASE ~(i <= Len(s))
    <3>1. i - Len(s) \in 1 .. Len(t) /\ Len(s) + (i - Len(s)) = i
      BY <1>5, <2>1, <2>3
    <3>2. i - Len(s) \in Places(t, S)
      BY <1>5, <2>1, <3>1 DEF Places
    <3>3. PICK k \in 1 .. n : h[k] = i - Len(s)
      BY <1>4, <3>2
    <3>4. m + k \in 1 .. m + n /\ ~(m + k <= m) /\ (m + k) - m = k
      OBVIOUS
    <3>5. f[m + k] = Len(s) + h[k]
      BY <3>4
    <3> QED
      BY <3>1, <3>3, <3>4, <3>5
  <2> QED
    BY <2>2, <2>3
<1>13. Selected(u, S) = [k \in 1 .. m + n |-> u[f[k]]]
  <2> HIDE DEF f
  <2>1. Increasing(m + n, f, Places(u, S))
    BY <1>2, <1>4, <1>10, <1>11, <1>12 DEF Increasing
  <2>2. Part([k \in 1 .. m + n |-> u[f[k]]], u, S, m + n, f)
    BY <2>1 DEF Part
  <2> QED
    BY <1>5, <2>2, SelectedIs
<1>14. \A k \in 1 .. m + n : Selected(u, S)[k] = IF k <= m THEN s[g[k]] ELSE t[h[k - m]]
  BY <1>9, <1>13
<1>15. /\ Selected(s, S) \in Seq(A) /\ Selected(t, S) \in Seq(A) /\ Selected(u, S) \in Seq(A)
  BY <1>5, SelectedType
<1>16. Len(Selected(s, S)) = m /\ Len(Selected(t, S)) = n /\ Len(Selected(u, S)) = m + n
  BY <1>1, <1>2, <1>3, <1>4, <1>13, <1>15
<1> HIDE DEF f
<1> QED
  <2> SUFFICES ASSUME NEW q \in Seq(A), q = Selected(s, S), NEW r \in Seq(A), r = Selected(t, S),
                      NEW v \in Seq(A), v = Selected(u, S)
               PROVE  v = q \o r
    BY <1>15 DEF u
  <2>1. Len(q) = m /\ Len(r) = n /\ Len(v) = m + n
    BY <1>16
  <2>2. \A k \in 1 .. m + n : v[k] = IF k <= m THEN q[k] ELSE r[k - m]
    BY <1>2, <1>4, <1>8, <1>14
  <2>3. \A k \in 1 .. Len(v) : v[k] = IF k <= Len(q) THEN q[k] ELSE r[k - Len(q)]
    BY <2>1, <2>2
  <2> QED
    BY <2>1, <2>3, ConcatIs

LEMMA SelectedOne ==
  ASSUME NEW x, NEW S
  PROVE  Selected(<<x>>, S) = IF x \in S THEN <<x>> ELSE <<>>
<1> SUFFICES ASSUME NEW w, w = <<x>>
             PROVE  Selected(w, S) = IF x \in S THEN w ELSE <<>>
  OBVIOUS
<1>1. w \in Seq({x}) /\ DOMAIN w = {1} /\ w[1] = x
  OBVIOUS
<1>2. CASE x \in S
  <2>1. \A i \in DOMAIN w : w[i] \in S
    BY <1>1, <1>2
  <2> QED
    BY <1>1, <1>2, <2>1, SelectedAll
<1>3. CASE x \notin S
  <2>1. \A i \in DOMAIN w : w[i] \notin S
    BY <1>1, <1>3
  <2> QED
    BY <1>1, <1>3, <2>1, SelectedNone
<1> QED
  BY <1>2, <1>3

LEMMA SelectedAppend ==
  ASSUME NEW A, NEW s \in Seq(A), NEW x \in A, NEW S
  PROVE  Selected(Append(s, x), S) = IF x \in S THEN Append(Selected(s, S), x)
                                     ELSE Selected(s, S)
<1> SUFFICES ASSUME NEW w, w = <<x>>
             PROVE  Selected(Append(s, x), S) = IF x \in S THEN Append(Selected(s, S), x)
                                                ELSE Selected(s, S)
  OBVIOUS
<1>1. w \in Seq(A) /\ Append(s, x) = s \o w
  OBVIOUS
<1>2. Selected(Append(s, x), S) = Selected(s, S) \o Selected(w, S)
  <2>1. \A t \in Seq(A) : Selected(s \o t, S) = Selected(s, S) \o Selected(t, S)
    BY SelectedConcat
  <2> QED
    BY <1>1, <2>1, Zenon
<1>3. Selected(w, S) = IF x \in S THEN <<x>> ELSE <<>>
  BY SelectedOne
<1>4. Selected(s, S) \in Seq(A)
  BY SelectedType
<1>5. Selected(s, S) \o <<x>> = Append(Selected(s, S), x) /\ Selected(s, S) \o <<>> = Selected(s, S)
  BY <1>4
<1> QED
  BY <1>2, <1>3, <1>5

\* The first element is selected or not; the rest is selected as before.
LEMMA SelectedTail ==
  ASSUME NEW A, NEW s \in Seq(A), s # <<>>, NEW S
  PROVE  Selected(s, S) = (IF Head(s) \in S THEN <<Head(s)>> ELSE <<>>) \o Selected(Tail(s), S)
<1>1. Head(s) \in A /\ Tail(s) \in Seq(A) /\ s = <<Head(s)>> \o Tail(s)
  OBVIOUS
<1> SUFFICES ASSUME NEW w, w = <<Head(s)>>
             PROVE  Selected(s, S) = (IF Head(s) \in S THEN w ELSE <<>>) \o Selected(Tail(s), S)
  OBVIOUS
<1>0. w \in Seq(A)
  BY <1>1
<1>2. Selected(w \o Tail(s), S) = Selected(w, S) \o Selected(Tail(s), S)
  <2>1. \A t \in Seq(A), u \in Seq(A) : Selected(t \o u, S) = Selected(t, S) \o Selected(u, S)
    BY SelectedConcat
  <2> QED
    BY <1>0, <1>1, <2>1, Zenon
<1>3. Selected(w, S) = IF Head(s) \in S THEN w ELSE <<>>
  BY SelectedOne
<1> QED
  BY <1>1, <1>2, <1>3

-----------------------------------------------------------------------------
(* Lineup *)

\* R puts the members of T in an order.
Orders(R, T) ==
  /\ \A i \in T : <<i, i>> \notin R
  /\ \A i, j \in T : i # j => <<i, j>> \in R \/ <<j, i>> \in R
  /\ \A i, j, k \in T : <<i, j>> \in R /\ <<j, k>> \in R => <<i, k>> \in R

LEMMA AheadIs ==
  ASSUME NEW T, IsFiniteSet(T), NEW R, Orders(R, T)
  PROVE  /\ Cardinality(T) \in Nat
         /\ \A i \in T : Ahead(T, R, i) \in 0 .. Cardinality(T) - 1
         /\ \A i, j \in T : <<i, j>> \in R => Ahead(T, R, i) < Ahead(T, R, j)
<1> DEFINE N == Cardinality(T)
           B(i) == {j \in T : <<j, i>> \in R}
<1>1. N \in Nat
  BY FS_CardinalityType
<1>2. ASSUME NEW i \in T
      PROVE  IsFiniteSet(B(i)) /\ Cardinality(B(i)) \in Nat /\ Cardinality(B(i)) < N
  <2>1. B(i) \in SUBSET T /\ B(i) # T
    BY DEF Orders
  <2>2. IsFiniteSet(B(i)) /\ Cardinality(B(i)) <= N /\ Cardinality(B(i)) # N
    BY <2>1, FS_Subset
  <2>3. Cardinality(B(i)) \in Nat
    BY <2>2, FS_CardinalityType
  <2> QED
    BY <1>1, <2>2, <2>3
<1>3. ASSUME NEW i \in T, NEW j \in T, <<i, j>> \in R
      PROVE  Cardinality(B(i)) < Cardinality(B(j))
  <2>1. i \in B(j) /\ i \notin B(i)
    BY <1>3 DEF Orders
  <2>2. \A k \in T : <<k, i>> \in R => <<k, j>> \in R
    BY <1>3 DEF Orders
  <2>3. B(i) \in SUBSET B(j) /\ B(i) # B(j)
    BY <2>1, <2>2
  <2>4. Cardinality(B(i)) <= Cardinality(B(j)) /\ Cardinality(B(i)) # Cardinality(B(j))
    BY <1>2, <2>3, FS_Subset
  <2> QED
    BY <1>2, <2>4
<1>4. \A i : Ahead(T, R, i) = Cardinality(B(i))
  BY DEF Ahead
<1>5. ASSUME NEW i \in T
      PROVE  Ahead(T, R, i) \in 0 .. N - 1
  <2>1. PICK c : c = Ahead(T, R, i)
    OBVIOUS
  <2>2. c \in Nat /\ c < N
    BY <1>2, <1>4, <2>1
  <2> QED
    BY <1>1, <2>1, <2>2
<1>6. \A i, j \in T : <<i, j>> \in R => Ahead(T, R, i) < Ahead(T, R, j)
  BY <1>3, <1>4
<1> QED
  BY <1>1, <1>5, <1>6

\* Lineup lists each member of T once, in that order.
THEOREM LineupIs ==
  ASSUME NEW T, IsFiniteSet(T), NEW R, Orders(R, T)
  PROVE  /\ Cardinality(T) \in Nat /\ Lineup(T, R) \in [1 .. Cardinality(T) -> T]
         /\ \A i \in T : \E n \in 1 .. Cardinality(T) : Lineup(T, R)[n] = i
         /\ \A l, m \in 1 .. Cardinality(T) : l < m => <<Lineup(T, R)[l], Lineup(T, R)[m]>> \in R
         /\ \A l, m \in 1 .. Cardinality(T) : Lineup(T, R)[l] = Lineup(T, R)[m] => l = m
<1> DEFINE N == Cardinality(T)
           f == [i \in T |-> Ahead(T, R, i) + 1]
           g == Lineup(T, R)
<1>1. /\ N \in Nat
      /\ \A i \in T : Ahead(T, R, i) \in 0 .. N - 1
      /\ \A i, j \in T : <<i, j>> \in R => Ahead(T, R, i) < Ahead(T, R, j)
  BY AheadIs
<1>2. \A i, j \in T : Ahead(T, R, i) = Ahead(T, R, j) => i = j
  <2> SUFFICES ASSUME NEW i \in T, NEW j \in T, i # j
               PROVE  Ahead(T, R, i) # Ahead(T, R, j)
    OBVIOUS
  <2>1. <<i, j>> \in R \/ <<j, i>> \in R
    BY DEF Orders
  <2> QED
    BY <1>1, <2>1
<1>3. f \in Injection(T, 1 .. N)
  <2>1. f \in [T -> 1 .. N]
    BY <1>1
  <2>2. \A i, j \in T : f[i] = f[j] => i = j
    <3>1. \A i \in T : f[i] - 1 = Ahead(T, R, i)
      BY <1>1
    <3> QED
      BY <1>2, <3>1
  <2> QED
    BY <2>1, <2>2 DEF Injection, IsInjective
<1>4. IsFiniteSet(1 .. N) /\ Cardinality(1 .. N) = N
  BY <1>1, FS_Interval
<1>5. f \in Surjection(T, 1 .. N)
  BY <1>3, <1>4, FS_Injection
<1>6. \A n \in 1 .. N : \E i \in T : f[i] = n
  BY <1>5 DEF Surjection
<1>7. \A n \in 1 .. N : g[n] \in T /\ Ahead(T, R, g[n]) = n - 1
  <2> SUFFICES ASSUME NEW n \in 1 .. N
               PROVE  g[n] \in T /\ Ahead(T, R, g[n]) = n - 1
    OBVIOUS
  <2>1. PICK i \in T : f[i] = n
    BY <1>6
  <2>2. Ahead(T, R, i) = n - 1
    BY <1>1, <2>1
  <2>3. g[n] = CHOOSE k \in T : Ahead(T, R, k) = n - 1
    BY DEF Lineup
  <2> QED
    BY <2>2, <2>3
<1>8. g \in [1 .. N -> T]
  BY <1>7 DEF Lineup
<1>9. ASSUME NEW i \in T PROVE \E n \in 1 .. N : g[n] = i
  <2>1. PICK n \in 1 .. N : n = Ahead(T, R, i) + 1
    BY <1>1
  <2>2. Ahead(T, R, g[n]) = Ahead(T, R, i) /\ g[n] \in T
    BY <1>1, <1>7, <2>1
  <2>3. g[n] = i
    BY <1>2, <2>2
  <2> QED
    BY <2>3
<1>10. ASSUME NEW l \in 1 .. N, NEW m \in 1 .. N, l < m
       PROVE  <<g[l], g[m]>> \in R
  <2>1. PICK i, j : i = g[l] /\ j = g[m]
    OBVIOUS
  <2>2. i \in T /\ j \in T /\ Ahead(T, R, i) = l - 1 /\ Ahead(T, R, j) = m - 1
    BY <1>7, <2>1
  <2>3. i # j /\ ~(Ahead(T, R, j) < Ahead(T, R, i))
    BY <1>10, <2>2
  <2>4. <<i, j>> \in R
    BY <1>1, <2>2, <2>3 DEF Orders
  <2> QED
    BY <2>1, <2>4
<1>11. ASSUME NEW l \in 1 .. N, NEW m \in 1 .. N, g[l] = g[m]
       PROVE  l = m
  <2>1. l - 1 = m - 1
    BY <1>7, <1>11
  <2> QED
    BY <2>1
<1> QED
  BY <1>1, <1>8, <1>9, <1>10, <1>11
=============================================================================
