----------------------------- MODULE RulesProofs -----------------------------
(***************************************************************************)
(* Rules and Chunks are right for all inputs.  What would need induction   *)
(* over data is proved from the least counterexample, by counting, or, for *)
(* the cutting of a text, as an invariant of the loops that do it.         *)
(***************************************************************************)
EXTENDS Rules, Chunks, SelectionProofs, WellFoundedInduction

-----------------------------------------------------------------------------
(* The least member of a set *)

\* A set of numbers that is not empty has a least member.
LEMMA Least ==
  ASSUME NEW T, T \subseteq Nat, T # {}
  PROVE  \E x \in T : \A y \in T : x <= y
<1> DEFINE R == OpToRel(<, Nat)
<1>1. IsWellFoundedOn(R, Nat)
  BY NatLessThanWellFounded
<1>2. \A x, y \in Nat : x < y => <<x, y>> \in R
  BY DEF OpToRel
<1> HIDE DEF R
<1>3. PICK x \in T : \A y \in T : ~(<<y, x>> \in R)
  BY <1>1, WFMin
<1>4. \A y \in T : y \in Nat /\ x \in Nat /\ ~(y < x)
  BY <1>2, <1>3
<1> QED
  BY <1>4

-----------------------------------------------------------------------------
(* Rules: the first that is selected *)

LEMMA FirstSelected ==
  ASSUME NEW A, NEW s \in Seq(A), NEW S, Unset \notin A
  PROVE  /\ FirstOf(Selected(s, S)) = Unset <=> \A i \in DOMAIN s : s[i] \notin S
         /\ FirstOf(Selected(s, S)) # Unset =>
              FirstOf(Selected(s, S)) \in S /\ FirstOf(Selected(s, S)) \in Members(s)
<1>1. PICK q : q = Selected(s, S)
  OBVIOUS
<1>2. /\ q \in Seq(A)
      /\ \A k \in DOMAIN q : q[k] \in S /\ \E i \in DOMAIN s : s[i] = q[k]
      /\ \A i \in DOMAIN s : s[i] \in S => \E k \in DOMAIN q : q[k] = s[i]
  <2>1. q \in Seq(A)
    BY <1>1, SelectedType
  <2>2. \A k \in DOMAIN q : q[k] \in S /\ \E i \in DOMAIN s : s[i] = q[k]
    BY <1>1, SelectedRange
  <2>3. \A i \in DOMAIN s : s[i] \in S => \E k \in DOMAIN q : q[k] = s[i]
    BY <1>1, SelectedRange
  <2> QED
    BY <2>1, <2>2, <2>3
<1>3. CASE q = <<>>
  <2>1. DOMAIN q = {}
    BY <1>3
  <2> QED
    BY <1>1, <1>2, <1>3, <2>1 DEF FirstOf
<1>4. CASE q # <<>>
  <2>1. 1 \in DOMAIN q /\ q[1] \in A
    BY <1>2, <1>4
  <2>2. q[1] \in S /\ q[1] \in Members(s) /\ \E i \in DOMAIN s : s[i] \in S
    BY <1>2, <2>1 DEF Members
  <2> QED
    BY <1>1, <1>4, <2>1, <2>2 DEF FirstOf
<1> QED
  BY <1>3, <1>4

LEMMA FirstConcat ==
  ASSUME NEW A, NEW s \in Seq(A), NEW t \in Seq(A), Unset \notin A
  PROVE  /\ FirstOf(s \o t) = Unset <=> FirstOf(s) = Unset /\ FirstOf(t) = Unset
         /\ FirstOf(s) # Unset => FirstOf(s \o t) = FirstOf(s)
<1>1. CASE s = <<>>
  <2>1. s \o t = t
    BY <1>1
  <2> QED
    BY <1>1, <2>1 DEF FirstOf
<1>2. CASE s # <<>>
  <2>1. s \o t # <<>> /\ (s \o t)[1] = s[1] /\ s[1] \in A
    BY <1>2
  <2> QED
    BY <1>2, <2>1 DEF FirstOf
<1> QED
  BY <1>1, <1>2

-----------------------------------------------------------------------------
(* Rules: the gate *)

LEMMA MergedRules ==
  ASSUME NEW m \in Seq(GateRule \cup {Unset}), NEW r \in Seq(GateRule \cup {Unset}), NEW c
  PROVE  LET machine == Deciding(m, c)
             repo    == Deciding(r, c)
             merged  == Deciding(Merged(m, r), c)
         IN  /\ (merged = Unset) <=> (machine = Unset /\ repo = Unset)
             /\ machine # Unset => merged = machine
<1>1. CASE c \in Suspicious
  BY <1>1, RulesAssumption DEF Deciding
<1>2. CASE c \notin Suspicious
  <2> DEFINE G == GateRule \cup {Unset}
             C == {x \in GateRule : c \in x.matches}
  <2>1. Selected(m \o r, GateRule) = Selected(m, GateRule) \o Selected(r, GateRule)
    BY SelectedConcat
  <2>2. Selected(m, GateRule) \in Seq(GateRule) /\ Selected(r, GateRule) \in Seq(GateRule)
    <3>1. \A s \in Seq(G) : Selected(s, GateRule) \in Seq(G \cap GateRule)
      BY SelectedType
    <3>2. G \cap GateRule = GateRule
      OBVIOUS
    <3> QED
      BY <3>1, <3>2
  <2>3. PICK p, q : p = Selected(m, GateRule) /\ q = Selected(r, GateRule)
    OBVIOUS
  <2>4. Selected(p \o q, C) = Selected(p, C) \o Selected(q, C)
    <3>1. p \in Seq(GateRule) /\ q \in Seq(GateRule)
      BY <2>2, <2>3
    <3> HIDE DEF C
    <3> QED
      BY <3>1, SelectedConcat
  <2>5. PICK v, w : v = Selected(p, C) /\ w = Selected(q, C)
    OBVIOUS
  <2>6. v \in Seq(GateRule) /\ w \in Seq(GateRule)
    BY <2>2, <2>3, <2>5, SelectedType
  <2>7. Matching(m, c) = v /\ Matching(r, c) = w
    BY <2>3, <2>5 DEF Matching, Parsed
  <2>8. Matching(Merged(m, r), c) = v \o w
    BY <2>1, <2>3, <2>4, <2>5 DEF Matching, Parsed, Merged
  <2>9. Unset \notin GateRule
    BY RulesAssumption
  <2>10. /\ FirstOf(v \o w) = Unset <=> FirstOf(v) = Unset /\ FirstOf(w) = Unset
         /\ FirstOf(v) # Unset => FirstOf(v \o w) = FirstOf(v)
    BY <2>6, <2>9, FirstConcat
  <2> QED
    BY <1>2, <2>7, <2>8, <2>10 DEF Deciding
<1> QED
  BY <1>1, <1>2

-----------------------------------------------------------------------------
(* Rules: runs *)

LEMMA KindIs ==
  ASSUME NEW said \in SUBSET Members(Kinds)
  PROVE  /\ FirstKind(said) = Unset <=> said = {}
         /\ said # {} => FirstKind(said) \in said
<1>1. Kinds \in Seq(Members(Kinds))
  BY DEF Kinds, Members
<1>2. Unset \notin Members(Kinds)
  BY RulesAssumption
<1>3. PICK k : k = FirstKind(said)
  OBVIOUS
<1>4. /\ k = Unset <=> \A i \in DOMAIN Kinds : Kinds[i] \notin said
      /\ k # Unset => k \in said
  BY <1>1, <1>2, <1>3, FirstSelected DEF FirstKind
<1>5. \A x \in said : \E i \in DOMAIN Kinds : Kinds[i] = x
  BY DEF Members
<1> QED
  BY <1>3, <1>4, <1>5

LEMMA RunsAreRight ==
  ASSUME NEW run, run.ended \in {"ok", "failed", "timeout"},
         run.stderr \subseteq Members(Kinds), run.stdout \subseteq Members(Kinds),
         run.transcript # Unset => run.transcript \subseteq Members(Kinds)
  PROVE  LET said   == run.stderr \cup run.stdout
             tail   == IF run.transcript = Unset THEN {} ELSE run.transcript
             blamed == Explained(run) \in Members(Kinds)
         IN  /\ blamed <=> (run.ended = "failed" /\ said \cup tail # {})
             /\ blamed => Explained(run) \in (IF said # {} THEN said ELSE tail)
<1> DEFINE a    == FirstKind(run.stderr)
           b    == FirstKind(run.stdout)
           tail == IF run.transcript = Unset THEN {} ELSE run.transcript
           K    == Members(Kinds)
<1>1. "success" \notin K /\ "timeout" \notin K /\ "unknown" \notin K
  BY DEF Members, Kinds
<1>2. (a = Unset <=> run.stderr = {}) /\ (run.stderr # {} => a \in run.stderr)
  BY KindIs
<1>3. (b = Unset <=> run.stdout = {}) /\ (run.stdout # {} => b \in run.stdout)
  BY KindIs
<1>4. Unset \notin K
  BY RulesAssumption
<1>5. CASE run.ended = "timeout"
  BY <1>1, <1>5 DEF Explained, Classified
<1>6. CASE run.ended = "ok"
  BY <1>1, <1>6 DEF Explained, Classified
<1>7. CASE run.ended = "failed"
  <2>1. PICK x, y, z : x = a /\ y = b /\ z = FirstKind(tail)
    OBVIOUS
  <2>2. tail \in SUBSET K
    OBVIOUS
  <2>3. (z = Unset <=> tail = {}) /\ (tail # {} => z \in tail)
    BY <2>1, <2>2, KindIs
  <2>4. /\ (x = Unset <=> run.stderr = {}) /\ (run.stderr # {} => x \in run.stderr)
        /\ (y = Unset <=> run.stdout = {}) /\ (run.stdout # {} => y \in run.stdout)
    BY <1>2, <1>3, <2>1
  <2>5. Known(run) = IF x # Unset THEN x ELSE y
    BY <2>1 DEF Known
  <2>6. Classified(run) = IF Known(run) = Unset THEN "unknown" ELSE Known(run)
    BY <1>7 DEF Classified
  <2>7. PICK said : said = run.stderr \cup run.stdout
    OBVIOUS
  <2>8. said \in SUBSET K
    BY <2>7
  <2>9. CASE said # {}
    <3>1. Known(run) \in said /\ Known(run) # Unset
      BY <2>4, <2>5, <2>7, <2>9
    <3>2. Explained(run) = Known(run)
      BY <1>1, <2>6, <2>8, <3>1 DEF Explained
    <3> QED
      BY <1>7, <2>7, <2>8, <2>9, <3>1, <3>2
  <2>10. CASE said = {}
    <3>1. Classified(run) = "unknown"
      BY <2>4, <2>5, <2>6, <2>7, <2>10
    <3>2. Explained(run) = IF tail = {} THEN "unknown" ELSE z
      <4>1. CASE run.transcript = Unset
        BY <3>1, <4>1 DEF Explained
      <4>2. CASE run.transcript # Unset
        <5>1. z = FirstKind(run.transcript) /\ tail = run.transcript
          BY <2>1, <4>2
        <5> QED
          BY <2>3, <3>1, <4>2, <5>1 DEF Explained
      <4> QED
        BY <4>1, <4>2
    <3>3. CASE tail = {}
      BY <1>1, <2>7, <2>10, <3>2, <3>3
    <3>4. CASE tail # {}
      BY <1>7, <2>2, <2>3, <2>7, <2>10, <3>2, <3>4
    <3> QED
      BY <3>3, <3>4
  <2> QED
    BY <2>9, <2>10
<1> QED
  BY <1>5, <1>6, <1>7

-----------------------------------------------------------------------------
(* Rules: models *)

LEMMA ResolvedIs ==
  ASSUME NEW wish \in Seq(Members(Fits) \cup {"no"})
  PROVE  Resolved(wish) = 0 \/ Resolved(wish) \in DOMAIN wish
<1>1. PICK best : best = FirstOf(Selected(Fits, Members(wish)))
  OBVIOUS
<1>2. Fits \in Seq(Members(Fits)) /\ Unset \notin Members(Fits)
  BY RulesAssumption DEF Fits, Members
<1>3. best # Unset => best \in Members(wish)
  BY <1>1, <1>2, FirstSelected
<1>4. CASE best = Unset
  BY <1>1, <1>4 DEF Resolved
<1>5. CASE best # Unset
  <2>1. PICK T : T = Places(wish, {best})
    OBVIOUS
  <2>2. PICK n \in Nat : n = Len(wish) /\ DOMAIN wish = 1 .. n
    OBVIOUS
  <2>3. T \in SUBSET (1 .. n) /\ T # {}
    BY <1>3, <1>5, <2>1, <2>2 DEF Places, Members
  <2>4. IsFiniteSet(T) /\ Cardinality(T) \in Nat /\ Cardinality(T) # 0
    <3>1. IsFiniteSet(1 .. n)
      BY FS_Interval
    <3> QED
      BY <2>3, <3>1, FS_Subset, FS_CardinalityType, FS_EmptySet
  <2>5. 1 \in 1 .. Cardinality(T)
    BY <2>4
  <2>6. Nth(T, 1) \in T
    BY <2>3, <2>5, NthOfRank
  <2>7. Resolved(wish) = Nth(T, 1)
    BY <1>1, <1>5, <2>1 DEF Resolved
  <2> QED
    BY <2>2, <2>3, <2>6, <2>7
<1> QED
  BY <1>4, <1>5

LEMMA InListIs ==
  ASSUME NEW quota \in Seq(Nat), NEW S \in SUBSET (DOMAIN quota)
  PROVE  /\ InList(quota, S) \in Seq(DOMAIN quota)
         /\ Members(InList(quota, S)) = S
         /\ \A i, j \in DOMAIN InList(quota, S) : InList(quota, S)[i] = InList(quota, S)[j] => i = j
<1> DEFINE s == [i \in DOMAIN quota |-> i]
           D == DOMAIN quota
<1>1. s \in Seq(D) /\ DOMAIN s = D /\ \A i \in D : s[i] = i
  <2>1. PICK n \in Nat : n = Len(quota) /\ D = 1 .. n
    OBVIOUS
  <2> QED
    BY <2>1
<1>2. PICK q : q = InList(quota, S)
  OBVIOUS
<1>3. q = Selected(s, S)
  BY <1>2 DEF InList
<1> HIDE DEF s
<1>4. q \in Seq(D)
  BY <1>1, <1>3, SelectedType
<1>5. \A k \in DOMAIN q : q[k] \in S
  BY <1>1, <1>3, SelectedRange
<1>6. \A i \in D : s[i] \in S => \E k \in DOMAIN q : q[k] = s[i]
  BY <1>1, <1>3, SelectedRange
<1>7. \A i, j \in DOMAIN s : s[i] = s[j] => i = j
  BY <1>1
<1>8. \A i, j \in DOMAIN q : q[i] = q[j] => i = j
  BY <1>1, <1>3, <1>7, SelectedDistinct
<1>9. Members(q) = S
  BY <1>1, <1>5, <1>6 DEF Members
<1> QED
  BY <1>2, <1>4, <1>8, <1>9

LEMMA ByQuotaIs ==
  ASSUME NEW quota \in Seq(Nat)
  PROVE  LET q == ByQuota(quota) IN
         /\ DOMAIN q = 1 .. Cardinality(HasQuota(quota)) /\ Cardinality(HasQuota(quota)) \in Nat
         /\ Members(q) = HasQuota(quota)
         /\ \A i, j \in DOMAIN q : q[i] = q[j] => i = j
         /\ \A i, j \in DOMAIN q : i < j => quota[q[i]] >= quota[q[j]]
<1> DEFINE T == HasQuota(quota)
           R == MoreLeft(quota)
           q == ByQuota(quota)
<1>1. PICK n \in Nat : n = Len(quota) /\ DOMAIN quota = 1 .. n
  OBVIOUS
<1>2. T \in SUBSET (1 .. n)
  BY <1>1 DEF HasQuota
<1>3. IsFiniteSet(T)
  <2>1. IsFiniteSet(1 .. n)
    BY FS_Interval
  <2> QED
    BY <1>2, <2>1, FS_Subset
<1>4. \A i, j \in 1 .. n : <<i, j>> \in R <=> quota[i] > quota[j] \/ (quota[i] = quota[j] /\ i < j)
  BY <1>1 DEF MoreLeft
<1>5. \A i \in 1 .. n : quota[i] \in Nat /\ i \in Nat
  BY <1>1
<1> HIDE DEF R
<1>6. Orders(R, T)
  <2>1. \A i \in T : <<i, i>> \notin R
    BY <1>2, <1>4, <1>5
  <2>2. \A i, j \in T : i # j => <<i, j>> \in R \/ <<j, i>> \in R
    BY <1>2, <1>4, <1>5
  <2>3. ASSUME NEW i \in T, NEW j \in T, NEW k \in T, <<i, j>> \in R, <<j, k>> \in R
        PROVE  <<i, k>> \in R
    BY <1>2, <1>4, <1>5, <2>3
  <2> QED
    BY <2>1, <2>2, <2>3 DEF Orders
<1> HIDE DEF T
<1>7. q = Lineup(T, R)
  BY DEF ByQuota, T, R
<1>8. /\ Cardinality(T) \in Nat /\ q \in [1 .. Cardinality(T) -> T]
      /\ \A i \in T : \E m \in 1 .. Cardinality(T) : q[m] = i
      /\ \A l, m \in 1 .. Cardinality(T) : l < m => <<q[l], q[m]>> \in R
      /\ \A l, m \in 1 .. Cardinality(T) : q[l] = q[m] => l = m
  BY <1>3, <1>6, <1>7, LineupIs
<1> HIDE DEF q
<1>9. Members(q) = T
  BY <1>8 DEF Members
<1>10. ASSUME NEW l \in 1 .. Cardinality(T), NEW m \in 1 .. Cardinality(T), l < m
       PROVE  quota[q[l]] >= quota[q[m]]
  <2>1. PICK x, y : x = q[l] /\ y = q[m]
    OBVIOUS
  <2>2. x \in 1 .. n /\ y \in 1 .. n /\ <<x, y>> \in R
    BY <1>2, <1>8, <1>10, <2>1
  <2>3. quota[x] \in Nat /\ quota[y] \in Nat
    BY <1>5, <2>2
  <2>4. quota[x] >= quota[y]
    BY <1>4, <2>2, <2>3
  <2> QED
    BY <2>1, <2>4
<1>11. DOMAIN q = 1 .. Cardinality(T)
  BY <1>8
<1> QED
  BY <1>8, <1>9, <1>10, <1>11 DEF T, q

\* What is said of the models that are tried.
TriedWell(quota, tried, wish) ==
  LET all  == Members(tried)
      some == {i \in DOMAIN quota : quota[i] > 0}
  IN  /\ \A i, j \in DOMAIN tried : tried[i] = tried[j] => i = j
      /\ some \subseteq all
      /\ some \cup wish # {} => all \subseteq some \cup wish
      /\ wish # {} => tried[1] \in wish
      /\ wish = {} => \A i, j \in DOMAIN tried :
                        i < j => quota[tried[i]] >= quota[tried[j]]

LEMMA WishedIs ==
  ASSUME NEW quota \in Seq(Nat), NEW wish \in Seq(Members(Fits) \cup {"no"}),
         Len(wish) = Len(quota), Wished(quota, wish) # <<>>
  PROVE  TriedWell(quota, Wished(quota, wish), {Resolved(wish)})
<1>1. PICK model : model = Resolved(wish)
  OBVIOUS
<1>2. model # 0
  BY <1>1 DEF Wished
<1>3. model \in DOMAIN quota
  <2>1. DOMAIN wish = DOMAIN quota
    BY Len(wish) = Len(quota), DOMAIN wish = 1 .. Len(wish), DOMAIN quota = 1 .. Len(quota)
  <2> QED
    BY <1>1, <1>2, <2>1, ResolvedIs
<1>4. PICK some : some = HasQuota(quota)
  OBVIOUS
<1>5. some = {i \in DOMAIN quota : quota[i] > 0} /\ some \ {model} \in SUBSET (DOMAIN quota)
  BY <1>4 DEF HasQuota
<1>6. PICK v : v = InList(quota, some \ {model})
  OBVIOUS
<1>7. /\ v \in Seq(DOMAIN quota) /\ Members(v) = some \ {model}
      /\ \A i, j \in DOMAIN v : v[i] = v[j] => i = j
  BY <1>5, <1>6, InListIs
<1>8. PICK tried : tried = <<model>> \o v
  OBVIOUS
<1>9. Wished(quota, wish) = tried
  BY <1>1, <1>2, <1>4, <1>6, <1>8 DEF Wished
<1>10. PICK n \in Nat : n = Len(v) /\ DOMAIN v = 1 .. n
  BY <1>7
<1>11. /\ DOMAIN tried = 1 .. n + 1 /\ tried[1] = model
       /\ \A i \in 2 .. n + 1 : tried[i] = v[i - 1] /\ i - 1 \in DOMAIN v
  BY <1>3, <1>7, <1>8, <1>10
<1>12. \A k \in DOMAIN v : v[k] \in some /\ v[k] # model
  BY <1>7 DEF Members
<1>13. ASSUME NEW i \in DOMAIN tried, NEW j \in DOMAIN tried, tried[i] = tried[j]
       PROVE  i = j
  <2>1. CASE i = 1 /\ j = 1
    BY <2>1
  <2>2. CASE i = 1 /\ j # 1
    BY <1>11, <1>12, <1>13, <2>2
  <2>3. CASE i # 1 /\ j = 1
    BY <1>11, <1>12, <1>13, <2>3
  <2>4. CASE i # 1 /\ j # 1
    <3>1. i \in 2 .. n + 1 /\ j \in 2 .. n + 1
      BY <1>11, <2>4
    <3>2. i - 1 \in DOMAIN v /\ j - 1 \in DOMAIN v /\ v[i - 1] = v[j - 1]
      BY <1>11, <1>13, <3>1
    <3>3. PICK x, y : x = i - 1 /\ y = j - 1
      OBVIOUS
    <3>4. x = y
      BY <1>7, <3>2, <3>3
    <3> QED
      BY <3>1, <3>3, <3>4
  <2> QED
    BY <2>1, <2>2, <2>3, <2>4
<1>14. Members(tried) \subseteq some \cup {model}
  <2> SUFFICES ASSUME NEW i \in DOMAIN tried
               PROVE  tried[i] \in some \cup {model}
    BY DEF Members
  <2>1. i = 1 \/ i \in 2 .. n + 1
    BY <1>11
  <2> QED
    BY <1>11, <1>12, <2>1
<1>15. some \subseteq Members(tried)
  <2> SUFFICES ASSUME NEW x \in some
               PROVE  \E i \in DOMAIN tried : tried[i] = x
    BY DEF Members
  <2>1. CASE x = model
    <3>1. 1 \in DOMAIN tried
      BY <1>10, <1>11
    <3> QED
      BY <1>11, <2>1, <3>1
  <2>2. CASE x # model
    <3>1. PICK k \in DOMAIN v : v[k] = x
      BY <1>7, <2>2 DEF Members
    <3>2. k + 1 \in 2 .. n + 1 /\ (k + 1) - 1 = k
      BY <1>10
    <3>3. k + 1 \in DOMAIN tried /\ tried[k + 1] = x
      BY <1>11, <3>1, <3>2
    <3> QED
      BY <3>3
  <2> QED
    BY <2>1, <2>2
<1> QED
  BY <1>1, <1>5, <1>9, <1>11, <1>13, <1>14, <1>15 DEF TriedWell

LEMMA UnwishedIs ==
  ASSUME NEW quota \in Seq(Nat)
  PROVE  TriedWell(quota, Unwished(quota), {})
<1>1. PICK some, tried : some = HasQuota(quota) /\ tried = Unwished(quota)
  OBVIOUS
<1>2. some = {i \in DOMAIN quota : quota[i] > 0}
  BY <1>1 DEF HasQuota
<1>3. CASE some # {}
  <2>1. tried = ByQuota(quota)
    BY <1>1, <1>3 DEF Unwished
  <2>2. Members(tried) = some /\ \A i, j \in DOMAIN tried : tried[i] = tried[j] => i = j
    BY <1>1, <2>1, ByQuotaIs
  <2>3. \A i, j \in DOMAIN tried : i < j => quota[tried[i]] >= quota[tried[j]]
    BY <2>1, ByQuotaIs
  <2> QED
    BY <1>1, <1>2, <2>2, <2>3 DEF TriedWell
<1>4. CASE some = {}
  <2>1. tried = InList(quota, DOMAIN quota)
    BY <1>1, <1>4 DEF Unwished
  <2>2. DOMAIN quota \in SUBSET (DOMAIN quota)
    OBVIOUS
  <2>3. /\ Members(tried) = DOMAIN quota
        /\ \A i, j \in DOMAIN tried : tried[i] = tried[j] => i = j
    BY <2>1, <2>2, InListIs
  <2>4. \A i \in DOMAIN quota : quota[i] = 0
    BY <1>2, <1>4
  <2>5. \A i \in DOMAIN tried : quota[tried[i]] = 0
    BY <2>3, <2>4 DEF Members
  <2>6. \A i, j \in DOMAIN tried : i < j => quota[tried[i]] >= quota[tried[j]]
    BY <2>5
  <2> QED
    BY <1>1, <1>2, <1>4, <2>3, <2>6 DEF TriedWell
<1> QED
  BY <1>3, <1>4

LEMMA ModelsAreRight ==
  ASSUME NEW quota \in Seq(Nat), NEW wish, NEW fixed,
         wish # Unset => wish \in Seq(Members(Fits) \cup {"no"}) /\ Len(wish) = Len(quota),
         Models(quota, wish, fixed) \notin {<<>>, <<FixedModel>>}
  PROVE  TriedWell(quota, Models(quota, wish, fixed), IF wish = Unset THEN {} ELSE {Resolved(wish)})
<1>1. CASE wish # Unset /\ quota # <<>>
  BY <1>1, WishedIs DEF Models
<1>2. CASE wish = Unset /\ quota # <<>>
  <2>1. Models(quota, wish, fixed) = IF fixed THEN <<FixedModel>> ELSE Unwished(quota)
    BY <1>2 DEF Models
  <2> QED
    BY <1>2, <2>1, UnwishedIs
<1>3. CASE quota = <<>>
  BY <1>3 DEF Models
<1> QED
  BY <1>1, <1>2, <1>3

-----------------------------------------------------------------------------
(* Rules: sessions *)

LEMMA LaterIs ==
  ASSUME NEW r \in Listed, NEW s \in Listed, NEW t \in Listed
  PROVE  /\ r.time \in Int /\ r.id \in Int
         /\ ~Later(r, r)
         /\ ~(Later(r, s) /\ Later(s, r))
         /\ Later(r, s) /\ Later(s, t) => Later(r, t)
         /\ Later(r, s) /\ ~Later(t, s) => Later(r, t)
         /\ ~Later(s, r) /\ Later(s, t) => Later(r, t)
         /\ ~Later(s, r) /\ ~Later(t, s) => ~Later(t, r)
         /\ ~Later(r, s) /\ ~Later(s, r) => r.time = s.time /\ r.id = s.id
<1>1. PICK a, b, c, d, e, f :
        a = r.time /\ b = r.id /\ c = s.time /\ d = s.id /\ e = t.time /\ f = t.id
  OBVIOUS
<1>2. a \in Int /\ b \in Int /\ c \in Int /\ d \in Int /\ e \in Int /\ f \in Int
  BY <1>1, RulesAssumption
<1> QED
  BY <1>1, <1>2 DEF Later

LEMMA SortedIs ==
  ASSUME NEW records \in Seq(Listed)
  PROVE  LET s == Sorted(records) IN
         /\ s \in Seq(Listed) /\ Members(s) = Members(records)
         /\ \A i, j \in DOMAIN s : i < j => ~Later(s[j], s[i])
<1> DEFINE R == InOrder(records)
<1>1. PICK n \in Nat : n = Len(records) /\ DOMAIN records = 1 .. n
  OBVIOUS
<1>2. \A i \in 1 .. n : records[i] \in Listed /\ i \in Nat
  BY <1>1
<1>3. \A i, j \in 1 .. n :
        <<i, j>> \in R <=> Later(records[i], records[j]) \/ (~Later(records[j], records[i]) /\ i < j)
  BY <1>1 DEF InOrder
<1> HIDE DEF R
<1>4. Orders(R, 1 .. n)
  <2>1. \A i \in 1 .. n : <<i, i>> \notin R
    BY <1>2, <1>3, LaterIs
  <2>2. ASSUME NEW i \in 1 .. n, NEW j \in 1 .. n, i # j
        PROVE  <<i, j>> \in R \/ <<j, i>> \in R
    <3>1. i < j \/ j < i
      BY <1>2, <2>2
    <3> QED
      BY <1>3, <3>1
  <2>3. ASSUME NEW i \in 1 .. n, NEW j \in 1 .. n, NEW k \in 1 .. n, <<i, j>> \in R, <<j, k>> \in R
        PROVE  <<i, k>> \in R
    <3>1. PICK x, y, z \in Listed : x = records[i] /\ y = records[j] /\ z = records[k]
      BY <1>2
    <3>2. /\ Later(x, y) \/ (~Later(y, x) /\ i < j)
          /\ Later(y, z) \/ (~Later(z, y) /\ j < k)
      BY <1>3, <2>3, <3>1
    <3>3. Later(x, z) \/ (~Later(z, x) /\ i < k)
      <4>1. CASE Later(x, y)
        BY <3>2, <4>1, LaterIs
      <4>2. CASE ~Later(y, x) /\ i < j
        <5>1. CASE Later(y, z)
          BY <4>2, <5>1, LaterIs
        <5>2. CASE ~Later(z, y) /\ j < k
          <6>1. ~Later(z, x)
            BY <4>2, <5>2, LaterIs
          <6> QED
            BY <1>2, <4>2, <5>2, <6>1
        <5> QED
          BY <3>2, <5>1, <5>2
      <4> QED
        BY <3>2, <4>1, <4>2
    <3> QED
      BY <1>3, <3>1, <3>3
  <2> QED
    BY <2>1, <2>2, <2>3 DEF Orders
<1>5. IsFiniteSet(1 .. n) /\ Cardinality(1 .. n) = n
  BY FS_Interval
<1>6. PICK p : p = Lineup(1 .. n, R)
  OBVIOUS
<1>7. /\ p \in [1 .. n -> 1 .. n]
      /\ \A i \in 1 .. n : \E m \in 1 .. n : p[m] = i
      /\ \A l, m \in 1 .. n : l < m => <<p[l], p[m]>> \in R
      /\ \A l, m \in 1 .. n : p[l] = p[m] => l = m
  <2>1. PICK T : T = 1 .. n
    OBVIOUS
  <2>2. IsFiniteSet(T) /\ Cardinality(T) = n /\ Orders(R, T) /\ p = Lineup(T, R)
    BY <1>4, <1>5, <1>6, <2>1
  <2>3. /\ Lineup(T, R) \in [1 .. Cardinality(T) -> T]
        /\ \A i \in T : \E m \in 1 .. Cardinality(T) : Lineup(T, R)[m] = i
        /\ \A l, m \in 1 .. Cardinality(T) : l < m => <<Lineup(T, R)[l], Lineup(T, R)[m]>> \in R
        /\ \A l, m \in 1 .. Cardinality(T) : Lineup(T, R)[l] = Lineup(T, R)[m] => l = m
    BY <2>2, LineupIs
  <2> QED
    BY <2>1, <2>2, <2>3
<1>8. PICK s : s = [m \in 1 .. n |-> records[p[m]]]
  OBVIOUS
<1>9. Sorted(records) = s
  BY <1>1, <1>6, <1>8 DEF Sorted, R
<1>10. s \in Seq(Listed) /\ DOMAIN s = 1 .. n
  <2>1. \A m \in 1 .. n : records[p[m]] \in Listed
    BY <1>2, <1>7
  <2> QED
    BY <1>8, <2>1
<1>11. Members(s) = Members(records)
  <2>1. \A m \in 1 .. n : s[m] = records[p[m]] /\ p[m] \in 1 .. n
    BY <1>7, <1>8
  <2>2. \A i \in 1 .. n : \E m \in 1 .. n : s[m] = records[i]
    BY <1>7, <1>8
  <2>3. Members(s) \subseteq Members(records)
    BY <1>1, <1>10, <2>1 DEF Members
  <2>4. Members(records) \subseteq Members(s)
    <3> SUFFICES ASSUME NEW i \in 1 .. n
                 PROVE  \E m \in DOMAIN s : s[m] = records[i]
      BY <1>1 DEF Members
    <3>1. PICK m \in 1 .. n : s[m] = records[i]
      BY <2>2
    <3> QED
      BY <1>10, <3>1
  <2> QED
    BY <2>3, <2>4
<1>12. ASSUME NEW i \in 1 .. n, NEW j \in 1 .. n, i < j
       PROVE  ~Later(s[j], s[i])
  <2>1. PICK a, b \in 1 .. n : a = p[i] /\ b = p[j]
    BY <1>7
  <2>2. <<a, b>> \in R
    BY <1>7, <1>12, <2>1
  <2>3. PICK x, y \in Listed : x = records[a] /\ y = records[b]
    BY <1>2
  <2>4. Later(x, y) \/ ~Later(y, x)
    BY <1>3, <2>2, <2>3
  <2>5. s[i] = x /\ s[j] = y
    BY <1>8, <2>1, <2>3
  <2> QED
    BY <2>4, <2>5, LaterIs
<1> QED
  BY <1>9, <1>10, <1>11, <1>12

\* No other of these records of the same session is later.
Latest1(r, all) == \A t \in all : t.id = r.id => t.time <= r.time

LEMMA OncePerIdIs ==
  ASSUME NEW s \in Seq(Listed), \A i, j \in DOMAIN s : i < j => ~Later(s[j], s[i])
  PROVE  LET o   == OncePerId(s)
             ids == {r.id : r \in Members(s)}
         IN  /\ o \in Seq(Listed) /\ Cardinality(ids) \in Nat /\ DOMAIN o = 1 .. Cardinality(ids)
             /\ \A i \in DOMAIN o : o[i] \in Members(s) /\ Latest1(o[i], Members(s))
             /\ \A i, j \in DOMAIN o : i < j => Later(o[i], o[j])
             /\ \A id \in ids : \E i \in DOMAIN o : o[i].id = id
<1>1. PICK n \in Nat : n = Len(s) /\ DOMAIN s = 1 .. n
  OBVIOUS
<1>2. PICK T : T = {i \in DOMAIN s : \A j \in DOMAIN s : s[j].id = s[i].id => i <= j}
  OBVIOUS
<1>3. /\ T \in SUBSET (1 .. n)
      /\ \A i \in T : i \in 1 .. n /\ i \in Nat /\ \A j \in 1 .. n : s[j].id = s[i].id => i <= j
  BY <1>1, <1>2
<1>4. IsFiniteSet(T) /\ Cardinality(T) \in Nat
  <2>1. IsFiniteSet(1 .. n)
    BY FS_Interval
  <2> QED
    BY <1>3, <2>1, FS_Subset, FS_CardinalityType
<1>5. PICK m \in Nat : m = Cardinality(T)
  BY <1>4
<1>6. PICK g : g = [k \in 1 .. m |-> Nth(T, k)]
  OBVIOUS
<1>7. /\ \A k \in 1 .. m : g[k] \in T
      /\ \A k, l \in 1 .. m : k < l => g[k] < g[l]
  BY <1>3, <1>5, <1>6, NthOfRank
<1>8. \A i \in T : \E k \in 1 .. m : g[k] = i
  <2> SUFFICES ASSUME NEW i \in T
               PROVE  \E k \in 1 .. m : g[k] = i
    OBVIOUS
  <2>1. PICK k : k = Rank(T, i)
    OBVIOUS
  <2>2. k \in 1 .. m
    BY <1>3, <1>5, <2>1, RankOnto
  <2>3. Nth(T, k) = i
    BY <1>3, <2>1, NthOfRank
  <2> QED
    BY <1>6, <2>2, <2>3
<1>9. PICK o : o = [k \in 1 .. m |-> s[g[k]]]
  OBVIOUS
<1>10. OncePerId(s) = o
  BY <1>2, <1>5, <1>6, <1>9 DEF OncePerId
<1>11. \A k \in 1 .. m : o[k] \in Listed /\ o[k] \in Members(s)
  BY <1>1, <1>3, <1>7, <1>9 DEF Members
<1>12. o \in Seq(Listed) /\ DOMAIN o = 1 .. m
  BY <1>9, <1>11
<1>13. PICK ids : ids = {r.id : r \in Members(s)}
  OBVIOUS
<1>14. \A id \in ids : \E i \in T : s[i].id = id
  <2> SUFFICES ASSUME NEW id \in ids
               PROVE  \E i \in T : s[i].id = id
    OBVIOUS
  <2>1. PICK j \in 1 .. n : s[j].id = id
    BY <1>1, <1>13 DEF Members
  <2>2. PICK U : U = {i \in 1 .. n : s[i].id = id}
    OBVIOUS
  <2>3. U \subseteq Nat /\ U # {}
    BY <2>1, <2>2
  <2>4. PICK i \in U : \A k \in U : i <= k
    BY <2>3, Least
  <2>5. i \in T /\ s[i].id = id
    BY <1>1, <1>2, <2>2, <2>4
  <2> QED
    BY <2>5
<1>15. \A i, j \in T : s[i].id = s[j].id => i = j
  <2> SUFFICES ASSUME NEW i \in T, NEW j \in T, s[i].id = s[j].id
               PROVE  i = j
    OBVIOUS
  <2>1. i <= j /\ j <= i /\ i \in Nat /\ j \in Nat
    BY <1>3
  <2> QED
    BY <2>1
<1>16. \A i \in T : s[i].id \in ids
  BY <1>1, <1>3, <1>13 DEF Members
<1>17. Cardinality(ids) = m
  <2> DEFINE h == [i \in T |-> s[i].id]
  <2>1. h \in Bijection(T, ids)
    BY <1>14, <1>15, <1>16 DEF Bijection, Injection, IsInjective, Surjection
  <2> QED
    BY <1>4, <1>5, <2>1, FS_Bijection DEF ExistsBijection
<1>18. ASSUME NEW k \in 1 .. m
       PROVE  Latest1(o[k], Members(s))
  <2>1. PICK i \in T : i = g[k]
    BY <1>7
  <2>2. o[k] = s[i] /\ i \in 1 .. n /\ s[i] \in Listed
    BY <1>1, <1>3, <1>9, <2>1
  <2> SUFFICES ASSUME NEW j \in 1 .. n, s[j].id = s[i].id
               PROVE  s[j].time <= s[i].time
    BY <1>1, <2>2 DEF Latest1, Members
  <2>3. s[j] \in Listed /\ i <= j
    BY <1>1, <1>3
  <2>4. s[j].time \in Int /\ s[i].time \in Int
    BY <2>2, <2>3, RulesAssumption
  <2>5. CASE i = j
    BY <2>4, <2>5
  <2>6. CASE i # j
    <3>1. ~Later(s[j], s[i])
      BY <1>1, <2>2, <2>3, <2>6
    <3> QED
      BY <2>4, <3>1 DEF Later
  <2> QED
    BY <2>5, <2>6
<1>19. ASSUME NEW k \in 1 .. m, NEW l \in 1 .. m, k < l
       PROVE  Later(o[k], o[l])
  <2>1. PICK i, j \in T : i = g[k] /\ j = g[l]
    BY <1>7
  <2>2. i < j /\ i \in 1 .. n /\ j \in 1 .. n
    BY <1>3, <1>7, <1>19, <2>1
  <2>3. PICK x, y \in Listed : x = s[i] /\ y = s[j]
    BY <1>1, <2>2
  <2>4. ~Later(y, x)
    BY <1>1, <2>2, <2>3
  <2>5. x.id # y.id
    BY <1>15, <2>2, <2>3
  <2>6. Later(x, y)
    BY <2>4, <2>5, LaterIs
  <2> QED
    BY <1>9, <2>1, <2>3, <2>6
<1>20. \A id \in ids : \E k \in 1 .. m : o[k].id = id
  <2> SUFFICES ASSUME NEW id \in ids
               PROVE  \E k \in 1 .. m : o[k].id = id
    OBVIOUS
  <2>1. PICK i \in T : s[i].id = id
    BY <1>14
  <2>2. PICK k \in 1 .. m : g[k] = i
    BY <1>8
  <2> QED
    BY <1>9, <2>1, <2>2
<1> QED
  BY <1>10, <1>11, <1>12, <1>13, <1>17, <1>18, <1>19, <1>20

LEMMA SessionsAreRight ==
  ASSUME NEW summaries \in Seq(Listed), NEW brains \in Seq(Listed), NEW repo, NEW limit \in Nat
  PROVE  LET all  == Members(InRepo(summaries \o brains, repo))
             list == Sessions(summaries, brains, repo, limit)
             LatestOf(id) == {r \in all : r.id = id /\ \A t \in all : t.id = id => t.time <= r.time}
             ids  == {r.id : r \in all}
             least == IF Cardinality(ids) < limit THEN Cardinality(ids) ELSE limit
         IN  /\ Len(list) = least
             /\ \A i \in DOMAIN list : list[i] \in LatestOf(list[i].id)
             /\ \A i, j \in DOMAIN list : i < j => Later(list[i], list[j])
             /\ \A id \in ids \ {list[i].id : i \in DOMAIN list} :
                  \A r \in LatestOf(id) : \A i \in DOMAIN list : Later(list[i], r)
<1>1. summaries \o brains \in Seq(Listed)
  OBVIOUS
<1>2. PICK f : f = InRepo(summaries \o brains, repo)
  OBVIOUS
<1>3. f \in Seq(Listed)
  <2>1. PICK b : b = summaries \o brains
    OBVIOUS
  <2>2. PICK S : S = {r \in Listed : repo = Unset \/ r.repo = repo}
    OBVIOUS
  <2>3. f = Selected(b, S)
    BY <1>2, <2>1, <2>2 DEF InRepo
  <2> QED
    BY <1>1, <2>1, <2>3, SelectedType
<1>4. PICK s, o, all : s = Sorted(f) /\ o = OncePerId(s) /\ all = Members(f)
  OBVIOUS
<1>5. /\ s \in Seq(Listed) /\ Members(s) = all
      /\ \A i, j \in DOMAIN s : i < j => ~Later(s[j], s[i])
  BY <1>3, <1>4, SortedIs
<1>6. PICK ids : ids = {r.id : r \in all}
  OBVIOUS
<1>7. PICK m : m = Cardinality(ids)
  OBVIOUS
<1>8. /\ o \in Seq(Listed) /\ m \in Nat /\ DOMAIN o = 1 .. m
      /\ \A i \in DOMAIN o : o[i] \in all /\ Latest1(o[i], all)
      /\ \A i, j \in DOMAIN o : i < j => Later(o[i], o[j])
      /\ \A id \in ids : \E i \in DOMAIN o : o[i].id = id
  <2>1. ids = {r.id : r \in Members(s)}
    BY <1>5, <1>6
  <2>2. /\ OncePerId(s) \in Seq(Listed)
        /\ Cardinality({r.id : r \in Members(s)}) \in Nat
        /\ DOMAIN OncePerId(s) = 1 .. Cardinality({r.id : r \in Members(s)})
    BY <1>5, OncePerIdIs
  <2>3. \A i \in DOMAIN OncePerId(s) :
          OncePerId(s)[i] \in Members(s) /\ Latest1(OncePerId(s)[i], Members(s))
    BY <1>5, OncePerIdIs
  <2>4. \A i, j \in DOMAIN OncePerId(s) : i < j => Later(OncePerId(s)[i], OncePerId(s)[j])
    BY <1>5, OncePerIdIs
  <2>5. \A id \in {r.id : r \in Members(s)} : \E i \in DOMAIN OncePerId(s) : OncePerId(s)[i].id = id
    BY <1>5, OncePerIdIs
  <2> QED
    BY <1>4, <1>5, <1>7, <2>1, <2>2, <2>3, <2>4, <2>5
<1>9. PICK l \in Nat : l = IF m < limit THEN m ELSE limit
  BY <1>8
<1>10. PICK list : list = SubSeq(o, 1, l)
  OBVIOUS
<1>11. Sessions(summaries, brains, repo, limit) = list
  <2>1. Len(o) = m
    BY <1>8
  <2>2. (IF limit < m THEN limit ELSE m) = l
    BY <1>8, <1>9
  <2> QED
    BY <1>2, <1>4, <1>10, <2>1, <2>2 DEF Sessions
<1>12. l <= m /\ Len(list) = l /\ DOMAIN list = 1 .. l /\ \A i \in 1 .. l : list[i] = o[i] /\ i \in DOMAIN o
  <2>1. l <= m /\ Len(o) = m
    BY <1>8, <1>9
  <2>2. Len(list) = l /\ DOMAIN list = 1 .. l
    BY <1>8, <1>10, <2>1
  <2>3. \A i \in 1 .. l : list[i] = o[i]
    BY <1>8, <1>10, <2>1
  <2> QED
    BY <1>8, <2>1, <2>2, <2>3
<1>13. all \subseteq Listed
  BY <1>3, <1>4 DEF Members
<1>14. ASSUME NEW r \in all, Latest1(r, all), NEW i \in 1 .. l, \A k \in 1 .. l : list[k].id # r.id
       PROVE  Later(list[i], r)
  <2>1. r.id \in ids
    BY <1>6
  <2>2. PICK k \in 1 .. m : o[k].id = r.id
    BY <1>8, <2>1
  <2>3. k > l /\ i < k /\ i \in 1 .. m
    <3>1. k \notin 1 .. l
      BY <1>12, <1>14, <2>2
    <3> QED
      BY <1>8, <1>12, <2>2, <3>1
  <2>4. PICK x, y \in all : x = o[i] /\ y = o[k]
    BY <1>8, <2>3
  <2>5. Later(x, y) /\ Latest1(y, all) /\ y.id = r.id
    BY <1>8, <2>2, <2>3, <2>4
  <2>6. r.time \in Int /\ y.time \in Int
    BY <1>13, RulesAssumption
  <2>7. r.time = y.time
    BY <1>14, <2>5, <2>6 DEF Latest1
  <2>8. Later(x, r)
    BY <2>5, <2>7 DEF Later
  <2> QED
    BY <1>12, <2>4, <2>8
<1>15. \A i \in 1 .. l : list[i] \in all /\ Latest1(list[i], all)
  BY <1>8, <1>12
<1>16. \A i, j \in 1 .. l : i < j => Later(list[i], list[j])
  BY <1>8, <1>12
<1> HIDE DEF Later
<1> QED
  BY <1>2, <1>4, <1>6, <1>7, <1>9, <1>11, <1>12, <1>14, <1>15, <1>16 DEF Latest1

-----------------------------------------------------------------------------
(* Rules: the theorem *)

QuestionsOnly == asked = Unset \/ asked \in Question

LEMMA OnlyQuestions == RulesSpec => []QuestionsOnly
<1>1. RulesInit => QuestionsOnly
  BY DEF RulesInit, QuestionsOnly
<1>2. QuestionsOnly /\ [Ask]_asked => QuestionsOnly'
  BY DEF QuestionsOnly, Ask
<1> QED
  BY <1>1, <1>2, PTL DEF RulesSpec

LEMMA EachAnswerIsRight ==
  ASSUME QuestionsOnly
  PROVE  AnswersAreRight
<1>1. TheMachineHasTheSay
  <2> SUFFICES ASSUME Asked("gate")
               PROVE  LET machine == Deciding(asked.machine, asked.command)
                          repo    == Deciding(asked.repo, asked.command)
                          merged  == Deciding(Merged(asked.machine, asked.repo), asked.command)
                      IN  /\ (merged = Unset) <=> (machine = Unset /\ repo = Unset)
                          /\ machine # Unset => merged = machine
    BY DEF TheMachineHasTheSay
  <2>1. asked.machine \in Seq(GateRule \cup {Unset}) /\ asked.repo \in Seq(GateRule \cup {Unset})
    BY RulesAssumption DEF QuestionsOnly, Asked
  <2> QED
    BY <2>1, MergedRules
<1>2. EachModelOnce
  <2> SUFFICES ASSUME Asked("models")
               PROVE  LET tried == Models(asked.quota, asked.wish, asked.fixed)
                          wish  == IF asked.wish = Unset THEN {} ELSE {Resolved(asked.wish)}
                      IN  tried \notin {<<>>, <<FixedModel>>} => TriedWell(asked.quota, tried, wish)
    BY DEF EachModelOnce, TriedWell
  <2>1. /\ asked.quota \in Seq(Nat)
        /\ asked.wish # Unset =>
             asked.wish \in Seq(Members(Fits) \cup {"no"}) /\ Len(asked.wish) = Len(asked.quota)
    BY RulesAssumption DEF QuestionsOnly, Asked
  <2> QED
    BY <2>1, ModelsAreRight
<1>3. ListsTheLatest
  <2> SUFFICES ASSUME Asked("sessions")
               PROVE  LET all  == Members(InRepo(asked.summaries \o asked.brains, asked.repo))
                          list == Sessions(asked.summaries, asked.brains, asked.repo, asked.limit)
                          LatestOf(id) == {r \in all : r.id = id /\ \A t \in all : t.id = id => t.time <= r.time}
                          ids  == {r.id : r \in all}
                          least == IF Cardinality(ids) < asked.limit THEN Cardinality(ids) ELSE asked.limit
                      IN  /\ Len(list) = least
                          /\ \A i \in DOMAIN list : list[i] \in LatestOf(list[i].id)
                          /\ \A i, j \in DOMAIN list : i < j => Later(list[i], list[j])
                          /\ \A id \in ids \ {list[i].id : i \in DOMAIN list} :
                               \A r \in LatestOf(id) : \A i \in DOMAIN list : Later(list[i], r)
    BY DEF ListsTheLatest
  <2>1. asked.summaries \in Seq(Listed) /\ asked.brains \in Seq(Listed) /\ asked.limit \in Nat
    BY RulesAssumption DEF QuestionsOnly, Asked
  <2> QED
    BY <2>1, SessionsAreRight
<1>4. BlamedOnEvidence
  <2> SUFFICES ASSUME Asked("run")
               PROVE  LET said   == asked.stderr \cup asked.stdout
                          tail   == IF asked.transcript = Unset THEN {} ELSE asked.transcript
                          blamed == Explained(asked) \in Members(Kinds)
                      IN  /\ blamed <=> (asked.ended = "failed" /\ said \cup tail # {})
                          /\ blamed => Explained(asked) \in (IF said # {} THEN said ELSE tail)
    BY DEF BlamedOnEvidence
  <2>1. /\ asked.ended \in {"ok", "failed", "timeout"}
        /\ asked.stderr \subseteq Members(Kinds) /\ asked.stdout \subseteq Members(Kinds)
        /\ asked.transcript # Unset => asked.transcript \subseteq Members(Kinds)
    BY RulesAssumption DEF QuestionsOnly, Asked
  <2> QED
    BY <2>1, RunsAreRight
<1> QED
  BY <1>1, <1>2, <1>3, <1>4 DEF AnswersAreRight

\* What is computed from values alone is what it is for, for every question: which
\* rule decides, which models are tried, which sessions are listed, who is to blame.
THEOREM EveryAnswerIsRight == RulesSpec => []AnswersAreRight
BY OnlyQuestions, EachAnswerIsRight, PTL

-----------------------------------------------------------------------------
(* Chunks: the next of a set *)

\* The next member after p.
LEMMA NextIs ==
  ASSUME NEW T, T \subseteq Nat, NEW p \in Nat, NEW i \in T, i > p
  PROVE  /\ NextIn(T, p) \in T /\ NextIn(T, p) \in Nat /\ NextIn(T, p) > p
         /\ \A j \in T : j > p => NextIn(T, p) <= j
<1>1. PICK x \in {j \in T : j > p} : \A y \in {j \in T : j > p} : x <= y
  <2>1. {j \in T : j > p} \subseteq Nat /\ {j \in T : j > p} # {}
    OBVIOUS
  <2> HIDE DEF NextIn
  <2> QED
    BY <2>1, Least
<1>2. \E x1 \in T : x1 > p /\ \A j \in T : j > p => x1 <= j
  BY <1>1
<1> QED
  BY <1>2 DEF NextIn

\* It is the only one.
LEMMA NextIsOnly ==
  ASSUME NEW T, T \subseteq Nat, NEW p \in Nat, NEW i \in T, i > p, \A j \in T : j > p => i <= j
  PROVE  NextIn(T, p) = i
<1>1. /\ NextIn(T, p) \in T /\ NextIn(T, p) \in Nat /\ NextIn(T, p) > p
      /\ \A j \in T : j > p => NextIn(T, p) <= j
  BY NextIs
<1>2. i \in Nat /\ NextIn(T, p) <= i /\ i <= NextIn(T, p)
  BY <1>1
<1> QED
  BY <1>1, <1>2

-----------------------------------------------------------------------------
(* Chunks: where a message ends *)

Cells(o, i) == UNION {{k} \X DOMAIN o[k] : k \in 1 .. i}
Total(o, i) == Cardinality(Cells(o, i))

LEMMA TotalIs ==
  ASSUME NEW A, NEW o \in Seq(Seq(A)), NEW i \in 0 .. Len(o)
  PROVE  /\ Total(o, i) \in Nat /\ Total(o, 0) = 0
         /\ i < Len(o) => Total(o, i + 1) = Total(o, i) + Len(o[i + 1])
<1>1. ASSUME NEW k \in 1 .. Len(o)
      PROVE  /\ IsFiniteSet({k} \X DOMAIN o[k]) /\ Cardinality({k} \X DOMAIN o[k]) = Len(o[k])
             /\ Len(o[k]) \in Nat
  <2>1. o[k] \in Seq(A)
    OBVIOUS
  <2>2. PICK n \in Nat : n = Len(o[k])
    BY <2>1
  <2>3. PICK D : D = DOMAIN o[k]
    OBVIOUS
  <2>4. D = 1 .. n
    BY <2>1, <2>2, <2>3
  <2>5. IsFiniteSet(1 .. n) /\ Cardinality(1 .. n) = n
    BY FS_Interval
  <2>6. IsFiniteSet({k}) /\ Cardinality({k}) = 1
    BY FS_Singleton
  <2>7. IsFiniteSet({k} \X D) /\ Cardinality({k} \X D) = 1 * n
    BY <2>4, <2>5, <2>6, FS_Product
  <2> QED
    BY <2>2, <2>3, <2>7
<1>2. ASSUME NEW n \in 0 .. Len(o)
      PROVE  IsFiniteSet(Cells(o, n))
  <2> DEFINE S == {{k} \X DOMAIN o[k] : k \in 1 .. n}
             f == [k \in 1 .. n |-> {k} \X DOMAIN o[k]]
  <2>1. f \in Surjection(1 .. n, S)
    BY DEF Surjection
  <2>2. IsFiniteSet(1 .. n)
    BY FS_Interval
  <2>3. IsFiniteSet(S)
    BY <2>1, <2>2, FS_Surjection
  <2>4. \A k \in 1 .. n : k \in 1 .. Len(o)
    OBVIOUS
  <2>5. \A T \in S : IsFiniteSet(T)
    BY <1>1, <2>4
  <2> QED
    BY <2>3, <2>5, FS_UNION DEF Cells
<1>3. Total(o, i) \in Nat
  BY <1>2, FS_CardinalityType DEF Total
<1>4. Total(o, 0) = 0
  <2>1. Cells(o, 0) = {}
    BY DEF Cells
  <2> QED
    BY <2>1, FS_EmptySet DEF Total
<1>5. ASSUME i < Len(o)
      PROVE  Total(o, i + 1) = Total(o, i) + Len(o[i + 1])
  <2> DEFINE T == {i + 1} \X DOMAIN o[i + 1]
  <2>1. i + 1 \in 1 .. Len(o) /\ i + 1 \in 0 .. Len(o)
    BY <1>5
  <2>2. 1 .. i + 1 = (1 .. i) \cup {i + 1}
    OBVIOUS
  <2>3. Cells(o, i + 1) = Cells(o, i) \cup T
    BY <2>2 DEF Cells
  <2>4. Cells(o, i) \cap T = {}
    <3> SUFFICES ASSUME NEW x \in Cells(o, i), x \in T
                 PROVE  FALSE
      OBVIOUS
    <3>1. PICK k \in 1 .. i : x \in {k} \X DOMAIN o[k]
      BY DEF Cells
    <3>2. x[1] = k /\ x[1] = i + 1
      BY <3>1
    <3> QED
      BY <3>1, <3>2
  <2>5. IsFiniteSet(T) /\ Cardinality(T) = Len(o[i + 1]) /\ Len(o[i + 1]) \in Nat
    BY <1>1, <2>1
  <2> HIDE DEF T
  <2>6. IsFiniteSet(Cells(o, i))
    BY <1>2
  <2>7. Cardinality(Cells(o, i) \cup T)
          = Cardinality(Cells(o, i)) + Cardinality(T) - Cardinality(Cells(o, i) \cap T)
    BY <2>5, <2>6, FS_Union
  <2>8. Cardinality(Cells(o, i) \cap T) = 0
    BY <2>4, FS_EmptySet
  <2>9. PICK c, d : c = Cardinality(Cells(o, i)) /\ d = Len(o[i + 1])
    OBVIOUS
  <2>10. c \in Nat /\ d \in Nat
    BY <1>3, <2>5, <2>9 DEF Total
  <2>11. Cardinality(Cells(o, i + 1)) = c + d - 0
    BY <2>3, <2>5, <2>7, <2>8, <2>9
  <2>12. Total(o, i + 1) = c + d
    BY <2>10, <2>11 DEF Total
  <2> QED
    BY <2>9, <2>12 DEF Total
<1> QED
  BY <1>3, <1>4, <1>5

\* One more message leaves the ends of the others alone.
LEMMA TotalAppend ==
  ASSUME NEW A, NEW o \in Seq(Seq(A)), NEW m \in Seq(A)
  PROVE  /\ \A i \in 0 .. Len(o) : Total(Append(o, m), i) = Total(o, i) /\ Total(o, i) \in Nat
         /\ Total(Append(o, m), Len(o) + 1) = Total(o, Len(o)) + Len(m)
<1>1. PICK q : q = Append(o, m)
  OBVIOUS
<1>2. /\ q \in Seq(Seq(A)) /\ Len(q) = Len(o) + 1 /\ q[Len(o) + 1] = m
      /\ \A k \in 1 .. Len(o) : q[k] = o[k]
  BY <1>1
<1>3. \A i \in 0 .. Len(o) : Total(q, i) = Total(o, i)
  <2> SUFFICES ASSUME NEW i \in 0 .. Len(o)
               PROVE  Cells(q, i) = Cells(o, i)
    BY DEF Total
  <2>1. \A k \in 1 .. i : q[k] = o[k]
    BY <1>2
  <2> QED
    BY <2>1 DEF Cells
<1>4. \A i \in 0 .. Len(o) : Total(o, i) \in Nat
  BY TotalIs
<1>5. Len(o) \in 0 .. Len(q) /\ Len(o) < Len(q) /\ Len(o) \in 0 .. Len(o)
  BY <1>2
<1>6. Total(q, Len(o) + 1) = Total(q, Len(o)) + Len(q[Len(o) + 1])
  BY <1>2, <1>5, TotalIs
<1> QED
  BY <1>1, <1>2, <1>3, <1>4, <1>5, <1>6
-----------------------------------------------------------------------------
(* Chunks: parts of the text *)

\* s is what the text holds after its a-th byte.
IsPart(s, a) ==
  /\ s \in Seq(Byte) /\ a \in Nat /\ a + Len(s) <= Len(text)
  /\ \A i \in 1 .. Len(s) : s[i] = text[a + i]

LEMMA CutIs ==
  ASSUME NEW A, NEW s \in Seq(A), NEW n \in 1 .. Len(s)
  PROVE  /\ Taken(s, n) \in Seq(A) /\ Len(Taken(s, n)) = n
         /\ \A i \in 1 .. n : Taken(s, n)[i] = s[i]
         /\ Left(s, n) \in Seq(A) /\ Len(Left(s, n)) = Len(s) - n
         /\ \A i \in 1 .. Len(s) - n : Left(s, n)[i] = s[n + i]
<1>1. Len(s) \in Nat /\ n \in Nat /\ n <= Len(s)
  OBVIOUS
<1>2. /\ Taken(s, n) \in Seq(A) /\ Len(Taken(s, n)) = n
      /\ \A i \in 1 .. n : Taken(s, n)[i] = s[i]
  BY <1>1 DEF Taken
<1>3. Left(s, n) \in Seq(A)
  BY <1>1 DEF Left
<1>4. Len(Left(s, n)) = Len(s) - n
  BY <1>1 DEF Left
<1>5. \A i \in 1 .. Len(s) - n : Left(s, n)[i] = s[n + i]
  BY <1>1 DEF Left
<1> QED
  BY <1>2, <1>3, <1>4, <1>5

\* The parts of a part.
LEMMA PartCut ==
  ASSUME NEW s, NEW a, IsPart(s, a), NEW n \in 1 .. Len(s)
  PROVE  IsPart(Taken(s, n), a) /\ IsPart(Left(s, n), a + n)
<1>1. /\ s \in Seq(Byte) /\ a \in Nat /\ a + Len(s) <= Len(text) /\ Len(s) \in Nat
      /\ \A i \in 1 .. Len(s) : s[i] = text[a + i]
  BY DEF IsPart
<1>2. /\ Taken(s, n) \in Seq(Byte) /\ Len(Taken(s, n)) = n
      /\ \A i \in 1 .. n : Taken(s, n)[i] = s[i]
      /\ Left(s, n) \in Seq(Byte) /\ Len(Left(s, n)) = Len(s) - n
      /\ \A i \in 1 .. Len(s) - n : Left(s, n)[i] = s[n + i]
  BY <1>1, CutIs
<1>3. IsPart(Taken(s, n), a)
  <2>1. a + n <= Len(text)
    BY <1>1
  <2>2. \A i \in 1 .. n : i \in 1 .. Len(s)
    OBVIOUS
  <2> QED
    BY <1>1, <1>2, <2>1, <2>2 DEF IsPart
<1>4. IsPart(Left(s, n), a + n)
  <2>1. a + n \in Nat /\ (a + n) + (Len(s) - n) = a + Len(s)
    BY <1>1
  <2>2. \A i \in 1 .. Len(s) - n : n + i \in 1 .. Len(s) /\ a + (n + i) = (a + n) + i
    BY <1>1
  <2>3. \A i \in 1 .. Len(s) - n : Left(s, n)[i] = text[(a + n) + i]
    BY <1>1, <1>2, <2>2
  <2> QED
    BY <1>1, <1>2, <2>1, <2>3 DEF IsPart
<1> QED
  BY <1>3, <1>4

\* Two parts that follow each other.
LEMMA PartJoin ==
  ASSUME NEW s, NEW t, NEW a, IsPart(s, a), IsPart(t, a + Len(s))
  PROVE  IsPart(s \o t, a) /\ Len(s \o t) = Len(s) + Len(t)
<1>1. /\ s \in Seq(Byte) /\ t \in Seq(Byte) /\ a \in Nat /\ Len(s) \in Nat /\ Len(t) \in Nat
      /\ (a + Len(s)) + Len(t) <= Len(text)
      /\ \A i \in 1 .. Len(s) : s[i] = text[a + i]
      /\ \A i \in 1 .. Len(t) : t[i] = text[(a + Len(s)) + i]
  BY DEF IsPart
<1>2. /\ s \o t \in Seq(Byte) /\ Len(s \o t) = Len(s) + Len(t)
      /\ \A i \in 1 .. Len(s) + Len(t) : (s \o t)[i] = IF i <= Len(s) THEN s[i] ELSE t[i - Len(s)]
  BY <1>1
<1>3. \A i \in 1 .. Len(s) + Len(t) : (s \o t)[i] = text[a + i]
  <2> SUFFICES ASSUME NEW i \in 1 .. Len(s) + Len(t)
               PROVE  (s \o t)[i] = text[a + i]
    OBVIOUS
  <2>1. CASE i <= Len(s)
    BY <1>1, <1>2, <2>1
  <2>2. CASE i > Len(s)
    <3>1. i - Len(s) \in 1 .. Len(t) /\ (a + Len(s)) + (i - Len(s)) = a + i
      BY <1>1, <2>2
    <3> QED
      BY <1>1, <1>2, <2>2, <3>1
  <2> QED
    BY <1>1, <2>1, <2>2
<1> QED
  BY <1>1, <1>2, <1>3 DEF IsPart

LEMMA PartIs ==
  ASSUME text \in Seq(Byte), NEW s, NEW a, IsPart(s, a)
  PROVE  s = SubSeq(text, a + 1, a + Len(s))
<1>1. /\ s \in Seq(Byte) /\ a \in Nat /\ Len(s) \in Nat /\ a + Len(s) <= Len(text)
      /\ \A i \in 1 .. Len(s) : s[i] = text[a + i]
  BY DEF IsPart
<1>2. PICK t : t = SubSeq(text, a + 1, a + Len(s))
  OBVIOUS
<1>3. t \in Seq(Byte) /\ Len(t) = Len(s)
  <2>1. PICK n \in Nat : n = Len(s)
    BY <1>1
  <2>2. a + n <= Len(text) /\ t = SubSeq(text, a + 1, a + n)
    BY <1>1, <1>2, <2>1
  <2>3. \A k \in a + 1 .. a + n : k \in 1 .. Len(text)
    BY <1>1, <2>2
  <2>4. \A k \in a + 1 .. a + n : text[k] \in Byte
    BY <2>3
  <2>5. t = [k \in 1 .. n |-> text[a + k]]
    BY <1>1, <2>1, <2>2
  <2>6. \A k \in 1 .. n : text[a + k] \in Byte
    BY <1>1, <2>1, <2>4
  <2>7. t \in Seq(Byte) /\ Len(t) = n
    BY <2>1, <2>5, <2>6
  <2> QED
    BY <2>1, <2>7
<1>4. \A i \in 1 .. Len(s) : t[i] = text[a + i]
  BY <1>1, <1>2
<1> QED
  BY <1>1, <1>2, <1>3, <1>4

-----------------------------------------------------------------------------
(* Chunks: the ends of lines and characters *)

Utf8 == \A i \in DOMAIN text : text[i] \in Cont => i > 1 /\ text[i - 1] # EOL

LEMMA EndsAre ==
  ASSUME NEW A, NEW s \in Seq(A)
  PROVE  /\ LineEnds(s) \subseteq 1 .. Len(s) /\ LineEnds(s) \subseteq Nat
         /\ CharEnds(s) \subseteq 1 .. Len(s) /\ CharEnds(s) \subseteq Nat
         /\ s # <<>> => Len(s) \in LineEnds(s) /\ Len(s) \in CharEnds(s) /\ Len(s) > 0
BY DEF LineEnds, CharEnds

\* A line ends with a character.
LEMMA LinesAreOfChars ==
  ASSUME text \in Seq(Byte), Utf8
  PROVE  LineEnds(text) \subseteq CharEnds(text)
<1> SUFFICES ASSUME NEW i \in LineEnds(text), i # Len(text)
             PROVE  text[i + 1] \notin Cont
  BY DEF LineEnds, CharEnds
<1>1. i \in 1 .. Len(text) /\ text[i] = EOL
  BY DEF LineEnds
<1>2. i + 1 \in DOMAIN text /\ (i + 1) - 1 = i
  BY <1>1
<1> QED
  BY <1>1, <1>2 DEF Utf8

\* The first line of what is left of the text is its next line.
LEMMA LineThere ==
  ASSUME text \in Seq(Byte), NEW s, NEW l, IsPart(s, l), l + Len(s) = Len(text), s # <<>>
  PROVE  LET n == NextIn(LineEnds(s), 0) IN
         /\ n \in 1 .. Len(s) /\ NextIn(LineEnds(text), l) = l + n
         /\ l + n \in LineEnds(text)
<1>1. /\ s \in Seq(Byte) /\ l \in Nat /\ Len(s) \in Nat /\ Len(s) > 0 /\ Len(text) \in Nat
      /\ \A i \in 1 .. Len(s) : s[i] = text[l + i]
  BY DEF IsPart
<1>2. PICK n : n = NextIn(LineEnds(s), 0)
  OBVIOUS
<1>3. /\ LineEnds(s) \subseteq Nat /\ LineEnds(s) \subseteq 1 .. Len(s) /\ Len(s) \in LineEnds(s)
      /\ LineEnds(text) \subseteq Nat /\ LineEnds(text) \subseteq 1 .. Len(text)
  BY <1>1, EndsAre
<1>4. n \in LineEnds(s) /\ n \in 1 .. Len(s) /\ \A j \in LineEnds(s) : j > 0 => n <= j
  BY <1>1, <1>2, <1>3, NextIs
<1>5. \A i \in 1 .. Len(s) : i \in LineEnds(s) <=> l + i \in LineEnds(text)
  <2> SUFFICES ASSUME NEW i \in 1 .. Len(s)
               PROVE  i \in LineEnds(s) <=> l + i \in LineEnds(text)
    OBVIOUS
  <2>1. l + i \in DOMAIN text /\ i \in DOMAIN s /\ (i = Len(s) <=> l + i = Len(text))
    BY <1>1
  <2> QED
    BY <1>1, <2>1 DEF LineEnds
<1>6. l + n \in LineEnds(text) /\ l + n > l
  BY <1>1, <1>4, <1>5
<1>7. \A j \in LineEnds(text) : j > l => l + n <= j
  <2> SUFFICES ASSUME NEW j \in LineEnds(text), j > l
               PROVE  l + n <= j
    OBVIOUS
  <2>1. j \in Nat /\ j - l \in 1 .. Len(s) /\ l + (j - l) = j
    BY <1>1, <1>3
  <2>2. j - l \in LineEnds(s)
    BY <1>5, <2>1
  <2> QED
    BY <1>1, <1>4, <2>1, <2>2
<1>8. NextIn(LineEnds(text), l) = l + n
  BY <1>1, <1>3, <1>6, <1>7, NextIsOnly
<1> QED
  BY <1>2, <1>4, <1>6, <1>8

\* The ends of characters within a part that ends with a line.
LEMMA CharsThere ==
  ASSUME text \in Seq(Byte), Utf8, NEW s, NEW c, IsPart(s, c), c + Len(s) \in LineEnds(text),
         s # <<>>
  PROVE  \A n \in 1 .. Len(s) : n \in CharEnds(s) <=> c + n \in CharEnds(text)
<1>1. /\ s \in Seq(Byte) /\ c \in Nat /\ Len(s) \in Nat /\ Len(s) > 0 /\ c + Len(s) <= Len(text)
      /\ \A i \in 1 .. Len(s) : s[i] = text[c + i] /\ Len(text) \in Nat
  BY DEF IsPart
<1> SUFFICES ASSUME NEW n \in 1 .. Len(s)
             PROVE  n \in CharEnds(s) <=> c + n \in CharEnds(text)
  OBVIOUS
<1>2. n \in DOMAIN s /\ c + n \in DOMAIN text
  BY <1>1
<1>3. CASE n = Len(s)
  <2>1. c + n \in CharEnds(text)
    BY <1>3, LinesAreOfChars
  <2> QED
    BY <1>2, <1>3, <2>1 DEF CharEnds
<1>4. CASE n # Len(s)
  <2>1. n + 1 \in 1 .. Len(s) /\ c + (n + 1) = (c + n) + 1 /\ c + n # Len(text)
    BY <1>1, <1>4
  <2> QED
    BY <1>1, <1>2, <1>4, <2>1 DEF CharEnds
<1> QED
  BY <1>3, <1>4

-----------------------------------------------------------------------------
(* Chunks: the invariant *)

OutEnd == EndOf(Len(out))

ChunkTypes ==
  /\ text \in Seq(Byte) /\ Utf8 /\ max \in Nat
  /\ out \in Seq(Seq(Byte)) /\ current \in Seq(Byte) /\ line \in Seq(Byte) /\ rest \in Seq(Byte)
  /\ cutting \in {"idle", "lines", "done"}
  /\ cutting # "idle" => max > 0
  /\ cutting # "lines" => line = <<>>
  /\ cutting = "idle" => out = <<>> /\ current = <<>> /\ rest = <<>>

\* The messages, the one that is filled, the line and the rest follow each other.
InLines ==
  cutting = "lines" =>
    /\ Len(text) > max
    /\ IsPart(current, OutEnd)
    /\ IsPart(line, OutEnd + Len(current))
    /\ IsPart(rest, OutEnd + Len(current) + Len(line))
    /\ OutEnd + Len(current) + Len(line) + Len(rest) = Len(text)
    /\ OutEnd + Len(current) + Len(line) \in {0} \cup LineEnds(text)
    /\ EachFits => Len(current) <= max

\* What is left of a line that begins after a and ends with l, when c bytes are cut.
LineFrom(a, c, l, cur, n) ==
  /\ a <= c /\ NextIn(LineEnds(text), a) = l
  /\ a = c => cur = <<>> \/ Len(cur) + n <= max
  /\ a # c => cur = <<>> /\ l - a > max /\ c \in CharEnds(text)

InLine ==
  cutting = "lines" /\ line # <<>> =>
    \E a \in {0} \cup LineEnds(text) :
      LineFrom(a, OutEnd + Len(current), OutEnd + Len(current) + Len(line), current, Len(line))

\* The messages so far.
OutIs ==
  cutting # "idle" /\ Len(text) > max =>
    /\ \A i \in DOMAIN out : /\ IsPart(out[i], EndOf(i - 1)) /\ out[i] # <<>>
                             /\ EachFits => Len(out[i]) <= max
    /\ \A i \in DOMAIN out : cutting = "lines" \/ i < Len(out) => FullAt(EndOf(i - 1), EndOf(i))
    /\ cutting = "done" => OutEnd = Len(text)

ChunkInv == ChunkTypes /\ InLines /\ InLine /\ OutIs

LEMMA EndIs ==
  ASSUME out \in Seq(Seq(Byte))
  PROVE  /\ \A i \in 0 .. Len(out) : EndOf(i) \in Nat
         /\ EndOf(0) = 0 /\ OutEnd \in Nat
         /\ \A i \in 1 .. Len(out) : EndOf(i) = EndOf(i - 1) + Len(out[i])
<1>1. \A i : EndOf(i) = Total(out, i)
  BY DEF EndOf, Total, Cells
<1>2. Len(out) \in 0 .. Len(out) /\ 0 \in 0 .. Len(out)
  OBVIOUS
<1>3. \A i \in 0 .. Len(out) : EndOf(i) \in Nat /\ EndOf(0) = 0
  BY <1>1, TotalIs
<1>4. ASSUME NEW i \in 1 .. Len(out)
      PROVE  EndOf(i) = EndOf(i - 1) + Len(out[i])
  <2>1. i - 1 \in 0 .. Len(out) /\ i - 1 < Len(out) /\ (i - 1) + 1 = i
    OBVIOUS
  <2>2. PICK j : j = i - 1
    OBVIOUS
  <2>3. Total(out, j + 1) = Total(out, j) + Len(out[j + 1])
    BY <2>1, <2>2, TotalIs
  <2> QED
    BY <1>1, <2>1, <2>2, <2>3
<1> QED
  BY <1>2, <1>3, <1>4 DEF OutEnd

\* What is said of the text stays.
LEMMA TextStays ==
  ASSUME text' = text, max' = max
  PROVE  /\ \A s, a : IsPart(s, a)' <=> IsPart(s, a)
         /\ \A q, p : FullAt(q, p)' <=> FullAt(q, p)
         /\ \A a, c, l, cur, n : LineFrom(a, c, l, cur, n)' <=> LineFrom(a, c, l, cur, n)
         /\ EachFits' <=> EachFits
         /\ Utf8' <=> Utf8
         /\ LineEnds(text)' = LineEnds(text) /\ CharEnds(text)' = CharEnds(text)
<1>1. \A s, a : IsPart(s, a)' <=> IsPart(s, a)
  BY DEF IsPart
<1>2. LineEnds(text)' = LineEnds(text) /\ CharEnds(text)' = CharEnds(text)
  BY DEF LineEnds, CharEnds
<1>3. \A p : InLongLine(p)' <=> InLongLine(p)
  BY <1>2 DEF InLongLine
<1>4. \A q, p : FullAt(q, p)' <=> FullAt(q, p)
  BY <1>2, <1>3 DEF FullAt
<1>5. \A a, c, l, cur, n : LineFrom(a, c, l, cur, n)' <=> LineFrom(a, c, l, cur, n)
  BY <1>2 DEF LineFrom
<1>6. EachFits' <=> EachFits
  BY <1>2 DEF EachFits
<1>7. Utf8' <=> Utf8
  BY DEF Utf8
<1> QED
  BY <1>1, <1>2, <1>4, <1>5, <1>6, <1>7

\* One more message.
LEMMA OutGrows ==
  ASSUME ChunkTypes, OutIs, cutting = "lines", Len(text) > max, text' = text, max' = max,
         NEW m \in Seq(Byte), m # <<>>, IsPart(m, OutEnd), EachFits => Len(m) <= max,
         out' = Append(out, m),
         cutting' = "lines" => FullAt(OutEnd, OutEnd + Len(m)),
         cutting' = "done" => OutEnd + Len(m) = Len(text),
         cutting' \in {"lines", "done"}
  PROVE  OutIs' /\ OutEnd' = OutEnd + Len(m) /\ out' \in Seq(Seq(Byte))
<1>1. out \in Seq(Seq(Byte))
  BY DEF ChunkTypes
<1>2. PICK o : o = out'
  OBVIOUS
<1>n. PICK n \in Nat : n = Len(out)
  BY <1>1
<1>3. /\ o \in Seq(Seq(Byte)) /\ Len(o) = n + 1 /\ o[n + 1] = m
      /\ \A k \in 1 .. n : o[k] = out[k]
      /\ DOMAIN o = 1 .. n + 1 /\ DOMAIN out = 1 .. n
  BY <1>1, <1>2, <1>n
<1>4. /\ \A i \in 0 .. n : EndOf(i)' = EndOf(i)
      /\ EndOf(n + 1)' = OutEnd + Len(m)
  <2>1. \A i : EndOf(i) = Total(out, i)
    BY DEF EndOf, Total, Cells
  <2>2. \A i : EndOf(i)' = Total(o, i)
    BY <1>2 DEF EndOf, Total, Cells
  <2>3. /\ \A i \in 0 .. n : Total(o, i) = Total(out, i)
        /\ Total(o, n + 1) = Total(out, n) + Len(m)
    BY <1>1, <1>2, <1>n, TotalAppend
  <2>4. OutEnd = Total(out, n)
    BY <1>n, <2>1 DEF OutEnd
  <2> QED
    BY <2>1, <2>2, <2>3, <2>4
<1>5. OutEnd' = OutEnd + Len(m)
  <2>1. OutEnd' = EndOf(n + 1)'
    BY <1>2, <1>3 DEF OutEnd
  <2> QED
    BY <1>4, <2>1
<1>6. EndOf(n) = OutEnd
  BY <1>n DEF OutEnd
<1>7. /\ \A s, a : IsPart(s, a)' <=> IsPart(s, a)
      /\ \A q, p : FullAt(q, p)' <=> FullAt(q, p)
      /\ EachFits' <=> EachFits
  BY TextStays
<1>8. ASSUME NEW i \in 1 .. n
      PROVE  /\ IsPart(o[i], EndOf(i - 1)') /\ o[i] # <<>> /\ (EachFits => Len(o[i]) <= max)
             /\ FullAt(EndOf(i - 1)', EndOf(i)')
  <2>1. i - 1 \in 0 .. n /\ i \in 0 .. n /\ o[i] = out[i] /\ i \in DOMAIN out
    BY <1>3
  <2>2. /\ IsPart(out[i], EndOf(i - 1)) /\ out[i] # <<>> /\ (EachFits => Len(out[i]) <= max)
        /\ FullAt(EndOf(i - 1), EndOf(i))
    BY <2>1 DEF OutIs
  <2>3. EndOf(i - 1)' = EndOf(i - 1) /\ EndOf(i)' = EndOf(i)
    BY <1>4, <2>1
  <2> QED
    BY <2>1, <2>2, <2>3
<1>9. ASSUME NEW i \in 1 .. n + 1
      PROVE  /\ IsPart(o[i], EndOf(i - 1)') /\ o[i] # <<>> /\ (EachFits => Len(o[i]) <= max)
             /\ cutting' = "lines" \/ i < n + 1 => FullAt(EndOf(i - 1)', EndOf(i)')
  <2>1. CASE i \in 1 .. n
    BY <1>8, <2>1
  <2>2. CASE i = n + 1
    <3>1. i - 1 = n /\ n \in 0 .. n
      BY <2>2
    <3>2. EndOf(i - 1)' = OutEnd /\ EndOf(i)' = OutEnd + Len(m)
      BY <1>4, <1>6, <2>2, <3>1
    <3> QED
      BY <1>3, <2>2, <3>2
  <2> QED
    BY <2>1, <2>2
<1>10. OutIs'
  <2>1. \A i \in DOMAIN out' : /\ IsPart(out[i], EndOf(i - 1))' /\ (out[i] # <<>>)'
                               /\ (EachFits => Len(out[i]) <= max)'
    BY <1>2, <1>3, <1>7, <1>9
  <2>2. \A i \in DOMAIN out' : (cutting = "lines" \/ i < Len(out) => FullAt(EndOf(i - 1), EndOf(i)))'
    BY <1>2, <1>3, <1>7, <1>9
  <2>3. (cutting = "done" => OutEnd = Len(text))'
    BY <1>5
  <2> QED
    BY <2>1, <2>2, <2>3 DEF OutIs
<1> QED
  BY <1>2, <1>3, <1>5, <1>10

LEMMA ChunksInitHolds ==
  ASSUME ChunksInit
  PROVE  ChunkInv
<1>1. ChunkTypes
  BY DEF ChunksInit, ChunkTypes, Utf8
<1> QED
  BY <1>1 DEF ChunksInit, ChunkInv, InLines, InLine, OutIs

LEMMA BeginsHolds ==
  ASSUME ChunkInv, Begins
  PROVE  ChunkInv'
<1>1. PICK r \in Replies :
        /\ text' = r.text /\ max' = r.max
        /\ IF Len(r.text) <= r.max
           THEN cutting' = "done" /\ out' = <<r.text>> /\ UNCHANGED rest
           ELSE cutting' = "lines" /\ rest' = r.text /\ UNCHANGED out
  BY DEF Begins
<1>2. /\ r.text \in Seq(Byte) /\ r.max \in Nat /\ r.max > 0
      /\ \A i \in DOMAIN r.text : r.text[i] \in Cont => i > 1 /\ r.text[i - 1] # EOL
  BY ChunkAssumption
<1>3. /\ out = <<>> /\ current = <<>> /\ line = <<>> /\ rest = <<>>
      /\ current' = <<>> /\ line' = <<>>
  BY DEF Begins, ChunkInv, ChunkTypes
<1>4. Utf8'
  BY <1>1, <1>2 DEF Utf8
<1>5. CASE Len(r.text) <= r.max
  <2>1. cutting' = "done" /\ out' = <<r.text>> /\ rest' = rest
    BY <1>1, <1>5
  <2>2. ~(Len(text') > max')
    BY <1>1, <1>2, <1>5
  <2>3. out' \in Seq(Seq(Byte))
    BY <1>2, <2>1
  <2>4. ChunkTypes'
    BY <1>1, <1>2, <1>3, <1>4, <2>1, <2>3 DEF ChunkTypes
  <2> QED
    BY <2>1, <2>2, <2>4 DEF ChunkInv, InLines, InLine, OutIs
<1>6. CASE ~(Len(r.text) <= r.max)
  <2>1. cutting' = "lines" /\ out' = <<>> /\ rest' = text'
    BY <1>1, <1>3, <1>6
  <2>2. Len(text') > max' /\ Len(text') \in Nat /\ max' \in Nat
    BY <1>1, <1>2, <1>6
  <2>3. out' \in Seq(Seq(Byte)) /\ Len(out') = 0 /\ DOMAIN out' = {}
    BY <2>1
  <2>4. ChunkTypes'
    BY <1>1, <1>2, <1>3, <1>4, <2>1, <2>3 DEF ChunkTypes
  <2>5. OutEnd' = 0
    <3>1. EndOf(0)' = 0
      <4>1. EndOf(0)' = Cardinality({})
        BY DEF EndOf
      <4> QED
        BY <4>1, FS_EmptySet
    <3> QED
      BY <2>3, <3>1 DEF OutEnd
  <2>6. IsPart(<<>>, 0)' /\ IsPart(text, 0)'
    BY <1>1, <1>2, <2>2 DEF IsPart
  <2>7. Len(current') = 0 /\ Len(line') = 0 /\ 0 + 0 = 0
    BY <1>3
  <2>8. InLines'
    BY <1>3, <2>1, <2>2, <2>5, <2>6, <2>7 DEF InLines
  <2> QED
    BY <1>3, <2>1, <2>3, <2>4, <2>8 DEF ChunkInv, InLine, OutIs
<1> QED
  BY <1>5, <1>6

\* The numbers of a step within the lines, and what the invariant says of them.
LEMMA LinesNow ==
  ASSUME ChunkInv, cutting = "lines"
  PROVE  \E e, k, n \in Nat :
           /\ e = OutEnd /\ k = Len(current) /\ n = Len(line)
           /\ IsPart(current, e) /\ IsPart(line, e + k) /\ IsPart(rest, e + k + n)
           /\ e + k + n + Len(rest) = Len(text)
           /\ e + k + n \in {0} \cup LineEnds(text) /\ (EachFits => k <= max)
           /\ line # <<>> => \E a \in {0} \cup LineEnds(text) : LineFrom(a, e + k, e + k + n, current, n)
<1>1. out \in Seq(Seq(Byte)) /\ current \in Seq(Byte) /\ line \in Seq(Byte)
  BY DEF ChunkInv, ChunkTypes
<1>2. PICK e, k, n \in Nat : e = OutEnd /\ k = Len(current) /\ n = Len(line)
  <2>1. OutEnd \in Nat
    BY <1>1, EndIs
  <2> QED
    BY <1>1, <2>1
<1>3. /\ IsPart(current, e) /\ IsPart(line, e + k) /\ IsPart(rest, e + k + n)
      /\ e + k + n + Len(rest) = Len(text)
      /\ e + k + n \in {0} \cup LineEnds(text) /\ (EachFits => k <= max)
  BY <1>2 DEF ChunkInv, InLines
<1>4. line # <<>> => \E a \in {0} \cup LineEnds(text) : LineFrom(a, e + k, e + k + n, current, n)
  BY <1>2 DEF ChunkInv, InLine
<1> QED
  BY <1>2, <1>3, <1>4

LEMMA TakesLineHolds ==
  ASSUME ChunkInv, TakesLine
  PROVE  ChunkInv'
<1>1. /\ cutting = "lines" /\ line = <<>> /\ rest # <<>> /\ text' = text /\ max' = max
      /\ cutting' = "lines"
  BY DEF TakesLine
<1>2. /\ text \in Seq(Byte) /\ Utf8 /\ max \in Nat /\ max > 0 /\ out \in Seq(Seq(Byte))
      /\ current \in Seq(Byte) /\ rest \in Seq(Byte) /\ OutIs /\ ChunkTypes
      /\ Len(text) > max /\ Len(text) \in Nat
  BY <1>1 DEF ChunkInv, ChunkTypes, InLines
<1>3. PICK e, k, z \in Nat :
           /\ e = OutEnd /\ k = Len(current) /\ z = Len(line)
           /\ IsPart(current, e) /\ IsPart(rest, e + k + z)
           /\ e + k + z + Len(rest) = Len(text)
           /\ e + k + z \in {0} \cup LineEnds(text) /\ (EachFits => k <= max)
  BY <1>1, LinesNow
<1>4. PICK l \in Nat : l = e + k
  OBVIOUS
<1>5. z = 0 /\ e + k + z = l
  BY <1>1, <1>3, <1>4
<1>6. IsPart(rest, l) /\ l + Len(rest) = Len(text) /\ l \in {0} \cup LineEnds(text)
  BY <1>3, <1>5
<1>7. PICK n : n = NextIn(LineEnds(rest), 0)
  OBVIOUS
<1>8. n \in 1 .. Len(rest) /\ NextIn(LineEnds(text), l) = l + n /\ l + n \in LineEnds(text)
  BY <1>1, <1>2, <1>6, <1>7, LineThere
<1>9. line' = Taken(rest, n) /\ rest' = Left(rest, n)
  BY <1>7 DEF TakesLine
<1>10. /\ line' \in Seq(Byte) /\ Len(line') = n /\ rest' \in Seq(Byte)
       /\ Len(rest') = Len(rest) - n /\ n \in Nat /\ n > 0
  BY <1>2, <1>8, <1>9, CutIs
<1>11. IsPart(line', l) /\ IsPart(rest', l + n)
  BY <1>6, <1>8, <1>9, PartCut
<1>12. /\ \A s, a : IsPart(s, a)' <=> IsPart(s, a)
       /\ \A q, p : FullAt(q, p)' <=> FullAt(q, p)
       /\ \A a, c, m, cur, j : LineFrom(a, c, m, cur, j)' <=> LineFrom(a, c, m, cur, j)
       /\ (EachFits' <=> EachFits) /\ (Utf8' <=> Utf8)
       /\ LineEnds(text)' = LineEnds(text)
  BY <1>1, TextStays
<1>13. ASSUME OutIs', out' \in Seq(Seq(Byte)), current' \in Seq(Byte),
              OutEnd' + Len(current') = l, IsPart(current', OutEnd'), OutEnd' \in Nat,
              EachFits => Len(current') <= max, current' = <<>> \/ Len(current') + n <= max
       PROVE  ChunkInv'
  <2>1. ChunkTypes'
    BY <1>1, <1>2, <1>10, <1>12, <1>13 DEF ChunkTypes
  <2>2. PICK e1, k1, n1 \in Nat : e1 = OutEnd' /\ k1 = Len(current') /\ n1 = Len(line')
    <3>1. Len(current') \in Nat
      <4>1. current' \in Seq(Byte)
        BY <1>13
      <4> QED
        BY <4>1
    <3> QED
      BY <1>10, <1>13, <3>1
  <2>3. e1 + k1 = l /\ e1 + k1 + n1 = l + n
    BY <1>10, <1>13, <2>2
  <2>4. e1 + k1 + n1 + Len(rest') = Len(text)
    <3>1. Len(rest) \in Nat /\ n <= Len(rest)
      BY <1>2, <1>8
    <3> QED
      BY <1>6, <1>10, <2>3, <3>1
  <2>5. InLines'
    <3>1. IsPart(current', e1) /\ IsPart(line', e1 + k1) /\ IsPart(rest', e1 + k1 + n1)
      BY <1>11, <1>13, <2>2, <2>3
    <3>2. e1 + k1 + n1 \in {0} \cup LineEnds(text)
      BY <1>8, <2>3
    <3> QED
      BY <1>1, <1>2, <1>12, <1>13, <2>2, <2>4, <3>1, <3>2 DEF InLines
  <2>6. LineFrom(l, e1 + k1, e1 + k1 + n1, current', n1)
    BY <1>8, <1>10, <1>13, <2>2, <2>3 DEF LineFrom
  <2>7. InLine'
    BY <1>6, <1>12, <2>2, <2>6 DEF InLine
  <2> QED
    BY <1>13, <2>1, <2>5, <2>7 DEF ChunkInv
<1>14. CASE current # <<>> /\ Len(current) + n > max
  <2>1. out' = Append(out, current) /\ current' = <<>>
    BY <1>7, <1>14 DEF TakesLine
  <2>2. FullAt(OutEnd, OutEnd + Len(current))
    <3>1. k > 0
      BY <1>2, <1>3, <1>14
    <3>2. l \in LineEnds(text)
      BY <1>4, <1>6, <3>1
    <3>3. l \in CharEnds(text)
      BY <1>2, <3>2, LinesAreOfChars
    <3>4. NextIn(LineEnds(text), l) - e > max
      BY <1>2, <1>3, <1>4, <1>8, <1>10, <1>14
    <3>5. FullAt(e, l)
      BY <3>2, <3>3, <3>4 DEF FullAt
    <3> QED
      BY <1>3, <1>4, <3>5
  <2>3. OutIs' /\ OutEnd' = OutEnd + Len(current) /\ out' \in Seq(Seq(Byte))
    BY <1>1, <1>2, <1>3, <1>14, <2>1, <2>2, OutGrows
  <2>4. IsPart(<<>>, l)
    BY <1>6, <1>2 DEF IsPart
  <2>5. OutEnd' = l /\ Len(current') = 0 /\ current' \in Seq(Byte)
    BY <1>3, <1>4, <2>1, <2>3
  <2> QED
    BY <1>2, <1>13, <2>1, <2>3, <2>4, <2>5
<1>15. CASE ~(current # <<>> /\ Len(current) + n > max)
  <2>1. out' = out /\ current' = current
    BY <1>7, <1>15 DEF TakesLine
  <2>2. OutEnd' = OutEnd /\ \A i : EndOf(i)' = EndOf(i)
    BY <2>1 DEF OutEnd, EndOf
  <2>3. OutIs'
    BY <1>1, <1>2, <1>12, <2>1, <2>2 DEF OutIs
  <2>4. current' = <<>> \/ Len(current') + n <= max
    BY <1>2, <1>10, <1>15, <2>1
  <2> QED
    BY <1>2, <1>3, <1>4, <1>13, <2>1, <2>2, <2>3, <2>4
<1> QED
  BY <1>14, <1>15

LEMMA CutsLineHolds ==
  ASSUME ChunkInv, CutsLine
  PROVE  ChunkInv'
<1>1. /\ Len(line) > max /\ text' = text /\ max' = max /\ current' = current /\ rest' = rest
      /\ cutting' = cutting
  BY DEF CutsLine
<1>2. /\ text \in Seq(Byte) /\ Utf8 /\ max \in Nat /\ out \in Seq(Seq(Byte))
      /\ current \in Seq(Byte) /\ line \in Seq(Byte) /\ rest \in Seq(Byte) /\ OutIs /\ ChunkTypes
      /\ line # <<>> /\ cutting = "lines"
  <2>1. ChunkTypes /\ OutIs
    BY DEF ChunkInv
  <2>2. line \in Seq(Byte) /\ max \in Nat
    BY <2>1 DEF ChunkTypes
  <2>3. line # <<>>
    BY <1>1, <2>2
  <2> QED
    BY <2>1, <2>3 DEF ChunkTypes
<1>3. PICK e, k, n \in Nat :
           /\ e = OutEnd /\ k = Len(current) /\ n = Len(line)
           /\ IsPart(current, e) /\ IsPart(line, e + k) /\ IsPart(rest, e + k + n)
           /\ e + k + n + Len(rest) = Len(text)
           /\ e + k + n \in {0} \cup LineEnds(text) /\ (EachFits => k <= max)
           /\ \E a \in {0} \cup LineEnds(text) : LineFrom(a, e + k, e + k + n, current, n)
  BY <1>2, LinesNow
<1>4. PICK a \in {0} \cup LineEnds(text) : LineFrom(a, e + k, e + k + n, current, n)
  BY <1>3
<1>5. current = <<>> /\ k = 0
  <2>1. current = <<>>
    BY <1>1, <1>2, <1>3, <1>4 DEF LineFrom
  <2> QED
    BY <1>3, <2>1
<1>6. PICK c, l \in Nat : c = e /\ l = c + n
  OBVIOUS
<1>7. /\ e + k = c /\ e + k + n = l /\ n > max
      /\ IsPart(line, c) /\ IsPart(rest, l) /\ l + Len(rest) = Len(text)
      /\ l \in LineEnds(text)
      /\ a \in Nat /\ a <= c /\ NextIn(LineEnds(text), a) = l /\ l - a > max
      /\ a # c => c \in CharEnds(text)
  <2>1. e + k = c /\ e + k + n = l /\ n > max /\ l > 0
    BY <1>1, <1>2, <1>3, <1>5, <1>6
  <2>2. LineEnds(text) \subseteq Nat
    BY <1>2, EndsAre
  <2>3. a <= c /\ NextIn(LineEnds(text), a) = l /\ (a # c => l - a > max /\ c \in CharEnds(text))
    BY <1>4, <2>1 DEF LineFrom
  <2>4. a \in Nat
    BY <2>2
  <2>5. l - a > max
    BY <1>2, <1>6, <2>1, <2>3, <2>4
  <2> QED
    BY <1>3, <2>1, <2>3, <2>4, <2>5
<1>8. PICK f \in Fitting :
        (\A m \in Fitting : m <= f) /\ out' = Append(out, Taken(line, f)) /\ line' = Left(line, f)
  BY DEF CutsLine
<1>9. f \in CharEnds(line) /\ f <= max /\ f \in 1 .. n /\ f < n /\ f \in Nat /\ f \in 1 .. Len(line)
  <2>1. f \in CharEnds(line) /\ f <= max
    BY DEF Fitting
  <2>2. f \in 1 .. Len(line)
    BY <1>2, <2>1, EndsAre
  <2> QED
    BY <1>2, <1>3, <1>7, <2>1, <2>2
<1>10. \A m \in 1 .. n : m \in CharEnds(line) <=> c + m \in CharEnds(text)
  <2>1. c + Len(line) \in LineEnds(text) /\ n = Len(line)
    BY <1>3, <1>6, <1>7
  <2>2. \A m \in 1 .. Len(line) : m \in CharEnds(line) <=> c + m \in CharEnds(text)
    BY <1>2, <1>7, <2>1, CharsThere
  <2> QED
    BY <2>1, <2>2
<1>11. /\ Taken(line, f) \in Seq(Byte) /\ Len(Taken(line, f)) = f
       /\ line' \in Seq(Byte) /\ Len(line') = n - f
  BY <1>2, <1>3, <1>8, <1>9, CutIs
<1>12. IsPart(Taken(line, f), c) /\ IsPart(line', c + f)
  BY <1>7, <1>8, <1>9, PartCut
<1>13. /\ CharEnds(text) \subseteq Nat /\ LineEnds(text) \subseteq Nat /\ l \in CharEnds(text)
  BY <1>2, <1>7, EndsAre, LinesAreOfChars
<1>14. PICK p \in Nat : p = c + f
  BY <1>9
<1>15. p \in CharEnds(text) /\ p < l /\ a < p
  BY <1>6, <1>7, <1>9, <1>10, <1>14
<1>16. p \notin LineEnds(text)
  <2>1. \A j \in LineEnds(text) : j > a => l <= j
    <3>1. l > a /\ l \in LineEnds(text)
      BY <1>7, <1>15
    <3>2. \A j \in LineEnds(text) : j > a => NextIn(LineEnds(text), a) <= j
      BY <1>7, <1>13, <3>1, NextIs
    <3> QED
      BY <1>7, <3>2
  <2> QED
    BY <1>15, <2>1
<1>17. InLongLine(p)
  BY <1>7, <1>15 DEF InLongLine
<1>18. NextIn(CharEnds(text), p) - c > max
  <2>1. PICK x : x = NextIn(CharEnds(text), p)
    OBVIOUS
  <2>2. x \in CharEnds(text) /\ x \in Nat /\ x > p /\ x <= l
    BY <1>13, <1>15, <2>1, NextIs
  <2>3. x - c \in 1 .. n /\ c + (x - c) = x /\ x - c > f
    BY <1>6, <1>9, <1>14, <2>2
  <2>4. x - c \in CharEnds(line)
    BY <1>10, <2>2, <2>3
  <2>5. SUFFICES ASSUME x - c <= max
                 PROVE  FALSE
    BY <1>2, <2>1, <2>2
  <2>6. x - c \in Fitting
    BY <2>4, <2>5 DEF Fitting
  <2>7. x - c <= f
    BY <1>8, <2>6
  <2> QED
    BY <1>9, <2>2, <2>3, <2>7
<1>19. FullAt(c, p)
  BY <1>15, <1>16, <1>17, <1>18 DEF FullAt
<1>20. OutIs' /\ OutEnd' = OutEnd + f /\ out' \in Seq(Seq(Byte))
  <2>1. PICK m : m = Taken(line, f)
    OBVIOUS
  <2>2. m \in Seq(Byte) /\ Len(m) = f /\ IsPart(m, OutEnd) /\ out' = Append(out, m)
    BY <1>3, <1>6, <1>8, <1>11, <1>12, <2>1
  <2>3. m # <<>> /\ (EachFits => Len(m) <= max)
    BY <1>9, <2>2
  <2>4. FullAt(OutEnd, OutEnd + Len(m))
    BY <1>3, <1>6, <1>14, <1>19, <2>2
  <2>5. Len(text) > max
    BY <1>2 DEF ChunkInv, InLines
  <2>6. OutIs' /\ OutEnd' = OutEnd + Len(m) /\ out' \in Seq(Seq(Byte))
    BY <1>1, <1>2, <2>2, <2>3, <2>4, <2>5, OutGrows
  <2> QED
    BY <2>2, <2>6
<1>21. /\ \A s, x : IsPart(s, x)' <=> IsPart(s, x)
       /\ \A x, y, m, cur, j : LineFrom(x, y, m, cur, j)' <=> LineFrom(x, y, m, cur, j)
       /\ (EachFits' <=> EachFits) /\ (Utf8' <=> Utf8)
       /\ LineEnds(text)' = LineEnds(text)
  BY <1>1, TextStays
<1>22. ChunkTypes'
  BY <1>1, <1>2, <1>11, <1>20, <1>21 DEF ChunkTypes
<1>23. OutEnd' = p /\ Len(current') = 0 /\ Len(line') = l - p
  BY <1>1, <1>3, <1>5, <1>6, <1>9, <1>11, <1>14, <1>20
<1>24. p + 0 = p /\ p + 0 + (l - p) = l
  BY <1>15
<1>25. InLines'
  <2>1. IsPart(current', p) /\ IsPart(line', p) /\ IsPart(rest', l)
    <3>1. IsPart(<<>>, p)
      <4>1. p + 0 <= Len(text) /\ Len(<<>>) = 0
        <5>1. l \in 1 .. Len(text)
          BY <1>2, <1>7, EndsAre
        <5> QED
          BY <1>15, <5>1
      <4> QED
        BY <4>1 DEF IsPart
    <3> QED
      BY <1>1, <1>5, <1>7, <1>12, <1>14, <3>1
  <2>2. Len(text) > max /\ l + Len(rest) = Len(text)
    BY <1>2, <1>7 DEF ChunkInv, InLines
  <2>3. EachFits => Len(current) <= max
    BY <1>3
  <2> QED
    BY <1>1, <1>7, <1>21, <1>23, <1>24, <2>1, <2>2, <2>3 DEF InLines
<1>26. InLine'
  <2>1. LineFrom(a, p, l, <<>>, l - p)
    BY <1>7, <1>15 DEF LineFrom
  <2> QED
    BY <1>1, <1>5, <1>21, <1>23, <1>24, <2>1 DEF InLine
<1> QED
  BY <1>20, <1>22, <1>25, <1>26 DEF ChunkInv

LEMMA PutsLineHolds ==
  ASSUME ChunkInv, PutsLine
  PROVE  ChunkInv'
<1>1. /\ line # <<>> /\ (Len(line) <= max \/ Fitting = {})
      /\ current' = current \o line /\ line' = <<>>
      /\ text' = text /\ max' = max /\ out' = out /\ rest' = rest /\ cutting' = cutting
  BY DEF PutsLine
<1>2. /\ text \in Seq(Byte) /\ Utf8 /\ max \in Nat /\ out \in Seq(Seq(Byte))
      /\ current \in Seq(Byte) /\ line \in Seq(Byte) /\ rest \in Seq(Byte) /\ OutIs /\ ChunkTypes
      /\ cutting = "lines"
  BY <1>1 DEF ChunkInv, ChunkTypes
<1>3. PICK e, k, n \in Nat :
           /\ e = OutEnd /\ k = Len(current) /\ n = Len(line)
           /\ IsPart(current, e) /\ IsPart(line, e + k) /\ IsPart(rest, e + k + n)
           /\ e + k + n + Len(rest) = Len(text)
           /\ e + k + n \in {0} \cup LineEnds(text) /\ (EachFits => k <= max)
           /\ \E a \in {0} \cup LineEnds(text) : LineFrom(a, e + k, e + k + n, current, n)
  BY <1>1, <1>2, LinesNow
<1>4. PICK a \in {0} \cup LineEnds(text) : LineFrom(a, e + k, e + k + n, current, n)
  BY <1>3
<1>5. PICK c, l \in Nat : c = e + k /\ l = c + n
  OBVIOUS
<1>6. /\ n > 0 /\ c <= l /\ l > 0 /\ l \in LineEnds(text) /\ IsPart(line, c)
      /\ LineEnds(text) \subseteq Nat /\ CharEnds(text) \subseteq Nat /\ l \in CharEnds(text)
      /\ l = c + Len(line)
  <2>1. n > 0
    BY <1>1, <1>2, <1>3
  <2>2. l \in LineEnds(text)
    BY <1>3, <1>5, <2>1
  <2> QED
    BY <1>2, <1>3, <1>5, <2>1, <2>2, EndsAre, LinesAreOfChars
<1>7. IsPart(current \o line, e) /\ Len(current \o line) = k + n
  BY <1>3, PartJoin
<1>8. c \in {0} \cup CharEnds(text)
  <2>1. a \in {0} \cup CharEnds(text)
    BY <1>2, LinesAreOfChars
  <2> QED
    BY <1>4, <1>5, <2>1 DEF LineFrom
<1>9. EachFits => k + n <= max
  <2> SUFFICES ASSUME EachFits
               PROVE  k + n <= max
    OBVIOUS
  <2>1. n <= max
    <3> SUFFICES ASSUME n > max
                 PROVE  FALSE
      BY <1>2
    <3>1. Fitting = {}
      BY <1>1, <1>2, <1>3
    <3>2. c < l /\ l <= Len(text)
      BY <1>2, <1>5, <1>6, EndsAre
    <3>3. NextIn(CharEnds(text), c) - c <= max
      BY <1>2, <1>8, <3>2 DEF EachFits
    <3>4. PICK x : x = NextIn(CharEnds(text), c)
      OBVIOUS
    <3>5. x \in CharEnds(text) /\ x \in Nat /\ x > c /\ x <= l
      BY <1>6, <3>2, <3>4, NextIs
    <3>6. x - c \in 1 .. n /\ c + (x - c) = x
      BY <1>5, <3>5
    <3>7. \A m \in 1 .. Len(line) : m \in CharEnds(line) <=> c + m \in CharEnds(text)
      BY <1>1, <1>2, <1>6, CharsThere
    <3>8. x - c \in CharEnds(line)
      BY <1>3, <3>5, <3>6, <3>7
    <3>9. x - c \in Fitting
      BY <3>3, <3>4, <3>8 DEF Fitting
    <3> QED
      BY <3>1, <3>9
  <2>2. current = <<>> => k = 0
    BY <1>3
  <2>3. current = <<>> \/ k + n <= max
    BY <1>3, <1>4, <1>5 DEF LineFrom
  <2> QED
    BY <2>1, <2>2, <2>3
<1>10. /\ \A s, x : IsPart(s, x)' <=> IsPart(s, x)
       /\ \A q, p : FullAt(q, p)' <=> FullAt(q, p)
       /\ (EachFits' <=> EachFits) /\ (Utf8' <=> Utf8)
       /\ LineEnds(text)' = LineEnds(text)
  BY <1>1, TextStays
<1>11. OutEnd' = OutEnd /\ \A i : EndOf(i)' = EndOf(i)
  BY <1>1 DEF OutEnd, EndOf
<1>12. OutIs'
  BY <1>1, <1>2, <1>10, <1>11 DEF OutIs
<1>13. current' \in Seq(Byte) /\ line' \in Seq(Byte)
  BY <1>1, <1>2
<1>14. ChunkTypes'
  BY <1>1, <1>2, <1>10, <1>13 DEF ChunkTypes
<1>15. OutEnd' = e /\ Len(current') = k + n /\ Len(line') = 0
  BY <1>1, <1>3, <1>7, <1>11
<1>16. e + (k + n) = e + k + n /\ e + (k + n) + 0 = e + k + n
  OBVIOUS
<1>17. IsPart(<<>>, e + k + n)
  <2>1. e + k + n <= Len(text) /\ Len(<<>>) = 0
    BY <1>2, <1>3, <1>5, <1>6, EndsAre
  <2> QED
    BY <2>1 DEF IsPart
<1>18. InLines'
  <2>1. Len(text) > max
    BY <1>2 DEF ChunkInv, InLines
  <2>2. IsPart(current', e) /\ IsPart(line', e + (k + n)) /\ IsPart(rest', e + (k + n) + 0)
    BY <1>1, <1>3, <1>7, <1>16, <1>17
  <2> QED
    BY <1>1, <1>3, <1>9, <1>10, <1>15, <1>16, <2>1, <2>2 DEF InLines
<1>19. InLine'
  BY <1>1 DEF InLine
<1> QED
  BY <1>12, <1>14, <1>18, <1>19 DEF ChunkInv

LEMMA EndsHolds ==
  ASSUME ChunkInv, Ends
  PROVE  ChunkInv'
<1>1. /\ cutting = "lines" /\ line = <<>> /\ rest = <<>> /\ cutting' = "done" /\ current' = <<>>
      /\ text' = text /\ max' = max /\ line' = line /\ rest' = rest
      /\ out' = (IF current = <<>> THEN out ELSE Append(out, current))
  BY DEF Ends
<1>2. /\ text \in Seq(Byte) /\ Utf8 /\ max \in Nat /\ out \in Seq(Seq(Byte))
      /\ current \in Seq(Byte) /\ OutIs /\ ChunkTypes /\ Len(text) > max
  BY <1>1 DEF ChunkInv, ChunkTypes, InLines
<1>3. PICK e, k, n \in Nat :
           /\ e = OutEnd /\ k = Len(current) /\ n = Len(line)
           /\ IsPart(current, e)
           /\ e + k + n + Len(rest) = Len(text) /\ (EachFits => k <= max)
  BY <1>1, LinesNow
<1>4. e + k = Len(text)
  BY <1>1, <1>3
<1>5. OutIs' /\ out' \in Seq(Seq(Byte))
  <2>1. CASE current = <<>>
    <3>1. out' = out /\ k = 0
      BY <1>1, <1>3, <2>1
    <3>2. OutEnd' = OutEnd /\ \A i : EndOf(i)' = EndOf(i)
      BY <3>1 DEF OutEnd, EndOf
    <3>3. /\ \A s, x : IsPart(s, x)' <=> IsPart(s, x)
          /\ \A q, p : FullAt(q, p)' <=> FullAt(q, p)
          /\ (EachFits' <=> EachFits)
      BY <1>1, TextStays
    <3>4. OutEnd = Len(text)
      BY <1>3, <1>4, <3>1
    <3> QED
      BY <1>1, <1>2, <3>1, <3>2, <3>3, <3>4 DEF OutIs
  <2>2. CASE current # <<>>
    BY <1>1, <1>2, <1>3, <1>4, <2>2, OutGrows
  <2> QED
    BY <2>1, <2>2
<1>6. Utf8'
  BY <1>1, <1>2, TextStays
<1>7. ChunkTypes'
  BY <1>1, <1>2, <1>5, <1>6 DEF ChunkTypes
<1> QED
  BY <1>1, <1>5, <1>7 DEF ChunkInv, InLines, InLine

LEMMA ChunkInvHolds == ChunksSafety => []ChunkInv
<1>1. ChunksInit => ChunkInv
  BY ChunksInitHolds
<1>2. ASSUME ChunkInv, [ChunksNext]_chunkVars
      PROVE  ChunkInv'
  <2>1. CASE Begins
    BY <1>2, <2>1, BeginsHolds
  <2>2. CASE TakesLine
    BY <1>2, <2>2, TakesLineHolds
  <2>3. CASE CutsLine
    BY <1>2, <2>3, CutsLineHolds
  <2>4. CASE PutsLine
    BY <1>2, <2>4, PutsLineHolds
  <2>5. CASE Ends
    BY <1>2, <2>5, EndsHolds
  <2>6. CASE UNCHANGED chunkVars
    <3>1. /\ text' = text /\ max' = max /\ out' = out /\ current' = current /\ line' = line
          /\ rest' = rest /\ cutting' = cutting
      BY <2>6 DEF chunkVars
    <3>2. /\ \A s, x : IsPart(s, x)' <=> IsPart(s, x)
          /\ \A q, p : FullAt(q, p)' <=> FullAt(q, p)
          /\ \A x, y, m, cur, j : LineFrom(x, y, m, cur, j)' <=> LineFrom(x, y, m, cur, j)
          /\ (EachFits' <=> EachFits) /\ (Utf8' <=> Utf8)
          /\ LineEnds(text)' = LineEnds(text)
      BY <3>1, TextStays
    <3>3. OutEnd' = OutEnd /\ \A i : EndOf(i)' = EndOf(i)
      BY <3>1 DEF OutEnd, EndOf
    <3>4. ChunkTypes'
      BY <1>2, <3>1, <3>2 DEF ChunkInv, ChunkTypes
    <3>5. InLines'
      BY <1>2, <3>1, <3>2, <3>3 DEF ChunkInv, InLines
    <3>6. InLine'
      BY <1>2, <3>1, <3>2, <3>3 DEF ChunkInv, InLine
    <3>7. OutIs'
      BY <1>2, <3>1, <3>2, <3>3 DEF ChunkInv, OutIs
    <3> QED
      BY <3>4, <3>5, <3>6, <3>7 DEF ChunkInv
  <2> QED
    BY <1>2, <2>1, <2>2, <2>3, <2>4, <2>5, <2>6 DEF ChunksNext
<1> QED
  BY <1>1, <1>2, PTL DEF ChunksSafety

\* A long reply is cut into messages that make it up, are short enough if no character
\* is longer, are not empty, and are closed only when what comes next does not go into
\* them; and within a line only if the line is longer than a message.
THEOREM RepliesAreCutWell == ChunksSafety => []CutWell
<1>1. ASSUME ChunkInv
      PROVE  CutWell
  <2> SUFFICES ASSUME cutting = "done", Len(text) > max
               PROVE  MakeUpTheText /\ ClosedOnlyWhenFull
    BY DEF CutWell
  <2>1. /\ text \in Seq(Byte) /\ out \in Seq(Seq(Byte)) /\ OutIs
    BY <1>1 DEF ChunkInv, ChunkTypes
  <2>2. EndOf(Len(out)) = Len(text)
    BY <2>1 DEF OutIs, OutEnd
  <2>3. ASSUME NEW i \in DOMAIN out
        PROVE  /\ out[i] = SubSeq(text, EndOf(i - 1) + 1, EndOf(i))
               /\ out[i] # <<>> /\ (EachFits => Len(out[i]) <= max)
    <3>1. IsPart(out[i], EndOf(i - 1)) /\ out[i] # <<>> /\ (EachFits => Len(out[i]) <= max)
      BY <2>1 DEF OutIs
    <3>2. i \in 1 .. Len(out)
      BY <2>1
    <3>3. EndOf(i) = EndOf(i - 1) + Len(out[i])
      BY <2>1, <3>2, EndIs
    <3>4. out[i] = SubSeq(text, EndOf(i - 1) + 1, EndOf(i - 1) + Len(out[i]))
      BY <2>1, <3>1, PartIs
    <3> QED
      BY <3>1, <3>3, <3>4
  <2>4. ASSUME NEW i \in 1 .. Len(out) - 1
        PROVE  FullAt(EndOf(i - 1), EndOf(i))
    <3>1. i \in DOMAIN out /\ i < Len(out)
      BY <2>1
    <3> QED
      BY <2>1, <3>1 DEF OutIs
  <2> QED
    BY <2>2, <2>3, <2>4 DEF MakeUpTheText, ClosedOnlyWhenFull
<1> QED
  BY <1>1, ChunkInvHolds, PTL
=============================================================================
