-------------------------- MODULE DeviceManagerProofs --------------------------
(***************************************************************************)
(* Proofs about DeviceManager, for any devices, limits and connections,    *)
(* and about DeviceRows, for any users, goroutines and rows.               *)
(*                                                                         *)
(* The first part is about the lists themselves: the filter that leaves    *)
(* connections out, the removal of one place, and the prefix that is cut   *)
(* off.  A fact that goes by induction over a list is proved by its least  *)
(* counterexample.  The last part is about the rows: what each job at work *)
(* on a row holds (JobsFit), when the copy by id is the row (CopyById),    *)
(* whose the row is as long as nothing has led it astray (OwnerSafe), and  *)
(* what its state is as long as nothing has put it in doubt (StateSafe).   *)
(***************************************************************************)
EXTENDS DeviceManager, DeviceRows, SequenceTheorems, WellFoundedInduction, TLAPS

LEMMA Least ==
    ASSUME NEW T \in SUBSET Nat, T # {}
    PROVE  \E n \in T : \A m \in T : n <= m
<1> DEFINE R == OpToRel(<, Nat)
<1>1. PICK n \in T : \A m \in T : ~(<<m, n>> \in R)
  <2>1. IsWellFoundedOn(R, Nat)
    BY NatLessThanWellFounded
  <2> HIDE DEF R
  <2> QED  BY <2>1, WFMin
<1>2. \A m \in T : ~(m < n)
  BY <1>1 DEF OpToRel
<1> QED  BY <1>2

LEMMA LeastOf ==
    ASSUME NEW T \in SUBSET Nat, T # {}
    PROVE  Min(T) \in T /\ \A m \in T : Min(T) <= m
  BY Least DEF Min

\* What has been kept of the first i entries.
Kept(s, C, i, g) ==
    IF i = 0 THEN <<>>
    ELSE IF s[i] \in C THEN g[i - 1] ELSE Append(g[i - 1], s[i])

Builds(s, C, n, g) == g = [i \in 0..n |-> Kept(s, C, i, g)]

LEMMA KeptExists ==
    ASSUME NEW S, NEW s \in Seq(S), NEW C
    PROVE  \E g : Builds(s, C, Len(s), g)
<1> DEFINE Bad == {n \in Nat : ~\E g : Builds(s, C, n, g)}
<1>1. Bad = {}
  <2> SUFFICES ASSUME Bad # {}  PROVE FALSE
    OBVIOUS
  <2>1. PICK n \in Bad : \A m \in Bad : n <= m
    <3>1. Bad \in SUBSET Nat
      OBVIOUS
    <3> HIDE DEF Bad
    <3> QED  BY <3>1, Least
  <2>2. CASE n = 0
    <3>1. Builds(s, C, 0, [i \in 0..0 |-> <<>>])
      BY DEF Builds, Kept
    <3> QED  BY <2>1, <2>2, <3>1
  <2>3. CASE n > 0
    <3>1. n - 1 \in Nat /\ ~(n <= n - 1)
      BY <2>1, <2>3
    <3>2. PICK g : Builds(s, C, n - 1, g)
      BY <2>1, <3>1
    <3> DEFINE h == [i \in 0..n |-> IF i = n THEN Kept(s, C, n, g) ELSE g[i]]
    <3>3. ASSUME NEW i \in 0..n  PROVE h[i] = Kept(s, C, i, h)
      <4>1. CASE i = n
        <5>1. h[n - 1] = g[n - 1]
          BY <3>1
        <5> QED  BY <2>1, <2>3, <4>1, <5>1 DEF Kept
      <4>2. CASE i # n
        <5>1. i \in 0..(n - 1) /\ h[i] = g[i]
          BY <2>1, <4>2
        <5>2. g[i] = Kept(s, C, i, g)
          BY <3>2, <5>1 DEF Builds
        <5>3. CASE i = 0
          BY <5>1, <5>2, <5>3 DEF Kept
        <5>4. CASE i # 0
          <6>1. h[i - 1] = g[i - 1]
            BY <2>1, <5>1, <5>4
          <6> HIDE DEF h
          <6> QED  BY <5>1, <5>2, <5>4, <6>1 DEF Kept
        <5> QED  BY <5>3, <5>4
      <4> QED  BY <4>1, <4>2
    <3>4. h = [i \in 0..n |-> Kept(s, C, i, h)]
      <4>1. h = [i \in 0..n |-> h[i]]
        OBVIOUS
      <4> HIDE DEF h
      <4> QED  BY <3>3, <4>1
    <3>5. Builds(s, C, n, h)
      BY <3>4 DEF Builds
    <3> HIDE DEF h
    <3> QED  BY <2>1, <3>5
  <2> QED  BY <2>1, <2>2, <2>3
<1>2. Len(s) \in Nat
  OBVIOUS
<1> QED  BY <1>1, <1>2

LEMMA WithoutIs ==
    ASSUME NEW S, NEW s \in Seq(S), NEW C
    PROVE  \E g : /\ \A i \in 0..Len(s) : g[i] = Kept(s, C, i, g)
                  /\ Without(s, C) = g[Len(s)]
<1> DEFINE g == CHOOSE f : f = [i \in 0..Len(s) |-> IF i = 0 THEN <<>>
          ELSE IF s[i] \in C THEN f[i - 1] ELSE Append(f[i - 1], s[i])]
<1>1. Without(s, C) = g[Len(s)]
  BY DEF Without
<1>2. Builds(s, C, Len(s), g)
  <2>1. \E f : Builds(s, C, Len(s), f)
    BY KeptExists
  <2> QED BY <2>1 DEF Builds, Kept
<1>3. Len(s) \in Nat
  OBVIOUS
<1> HIDE DEF g
<1>4. \A i \in 0..Len(s) : g[i] = Kept(s, C, i, g)
  BY <1>2 DEF Builds
<1> QED  BY <1>1, <1>4

\* w is what is left of the first i entries of s.
Filters(s, C, i, w) ==
    /\ Len(w) <= i
    /\ \A j \in 1..Len(w) : w[j] \notin C /\ \E k \in 1..i : w[j] = s[k]
    /\ \A k \in 1..i : s[k] \notin C => \E j \in 1..Len(w) : w[j] = s[k]
    /\ (\E k \in 1..i : s[k] \in C) => Len(w) < i
    /\ (\A k \in 1..i : s[k] \notin C) => Len(w) = i /\ \A k \in 1..i : w[k] = s[k]

LEMMA FilterStep ==
    ASSUME NEW S, NEW s \in Seq(S), NEW C, NEW i \in Nat, i + 1 <= Len(s),
           NEW w \in Seq(S), Filters(s, C, i, w)
    PROVE  /\ s[i + 1] \in C => Filters(s, C, i + 1, w)
           /\ s[i + 1] \notin C => /\ Append(w, s[i + 1]) \in Seq(S)
                                   /\ Filters(s, C, i + 1, Append(w, s[i + 1]))
<1>1. i + 1 \in 1..Len(s) /\ s[i + 1] \in S /\ Len(w) \in Nat
  BY ElementOfSeq
<1>2. ASSUME s[i + 1] \in C  PROVE Filters(s, C, i + 1, w)
  <2>1. \A k \in 1..(i + 1) : k \in 1..i \/ k = i + 1
    OBVIOUS
  <2>2. Len(w) <= i + 1 /\ ~(i + 1 <= Len(w) - 1) /\ Len(w) < i + 1
    BY <1>1 DEF Filters
  <2>3. i + 1 \in 1..(i + 1) /\ \A k \in 1..i : k \in 1..(i + 1)
    OBVIOUS
  <2> QED  BY <1>2, <2>1, <2>2, <2>3 DEF Filters
<1>3. ASSUME s[i + 1] \notin C
      PROVE  /\ Append(w, s[i + 1]) \in Seq(S)
             /\ Filters(s, C, i + 1, Append(w, s[i + 1]))
  <2> DEFINE v == Append(w, s[i + 1])
  <2>1. /\ v \in Seq(S) /\ Len(v) = Len(w) + 1 /\ v[Len(w) + 1] = s[i + 1]
        /\ \A j \in 1..Len(w) : v[j] = w[j]
    BY <1>1, AppendProperties
  <2> HIDE DEF v
  <2>2. \A k \in 1..(i + 1) : k \in 1..i \/ k = i + 1
    OBVIOUS
  <2>3. \A j \in 1..Len(v) : j \in 1..Len(w) \/ j = Len(w) + 1
    BY <1>1, <2>1
  <2>4. Len(v) <= i + 1
    BY <1>1, <2>1 DEF Filters
  <2>5. \A j \in 1..Len(v) : v[j] \notin C /\ \E k \in 1..(i + 1) : v[j] = s[k]
    <3> SUFFICES ASSUME NEW j \in 1..Len(v)
                 PROVE  v[j] \notin C /\ \E k \in 1..(i + 1) : v[j] = s[k]
      OBVIOUS
    <3>1. CASE j = Len(w) + 1
      BY <1>1, <1>3, <2>1, <3>1
    <3>2. CASE j \in 1..Len(w)
      <4>1. w[j] \notin C /\ \E k \in 1..i : w[j] = s[k]
        BY <3>2 DEF Filters
      <4> QED  BY <2>1, <3>2, <4>1
    <3> QED  BY <2>3, <3>1, <3>2
  <2>6. \A k \in 1..(i + 1) : s[k] \notin C => \E j \in 1..Len(v) : v[j] = s[k]
    <3> SUFFICES ASSUME NEW k \in 1..(i + 1), s[k] \notin C
                 PROVE  \E j \in 1..Len(v) : v[j] = s[k]
      OBVIOUS
    <3>1. CASE k = i + 1
      BY <1>1, <2>1, <3>1
    <3>2. CASE k \in 1..i
      <4>1. PICK j \in 1..Len(w) : w[j] = s[k]
        BY <3>2 DEF Filters
      <4> QED  BY <1>1, <2>1, <4>1
    <3> QED  BY <2>2, <3>1, <3>2
  <2>7. (\E k \in 1..(i + 1) : s[k] \in C) => Len(v) < i + 1
    BY <1>1, <1>3, <2>1, <2>2 DEF Filters
  <2>8. (\A k \in 1..(i + 1) : s[k] \notin C)
           => Len(v) = i + 1 /\ \A k \in 1..(i + 1) : v[k] = s[k]
    BY <1>1, <2>1, <2>2 DEF Filters
  <2>9. Filters(s, C, i + 1, v)
    BY <2>4, <2>5, <2>6, <2>7, <2>8 DEF Filters
  <2> QED  BY <2>1, <2>9 DEF v
<1> QED  BY <1>2, <1>3

\* What Without returns.
LEMMA WithoutFilters ==
    ASSUME NEW S, NEW s \in Seq(S), NEW C
    PROVE  Without(s, C) \in Seq(S) /\ Filters(s, C, Len(s), Without(s, C))
<1>1. PICK g : /\ \A i \in 0..Len(s) : g[i] = Kept(s, C, i, g)
               /\ Without(s, C) = g[Len(s)]
  BY WithoutIs
<1>2. Len(s) \in Nat
  OBVIOUS
<1> DEFINE Good(i) == g[i] \in Seq(S) /\ Filters(s, C, i, g[i])
           Bad == {i \in 0..Len(s) : ~Good(i)}
<1>3. Bad = {}
  <2> SUFFICES ASSUME Bad # {}  PROVE FALSE
    OBVIOUS
  <2>1. PICK n \in Bad : \A m \in Bad : n <= m
    <3>1. Bad \in SUBSET Nat
      BY <1>2
    <3> HIDE DEF Bad
    <3> QED  BY <3>1, Least
  <2>2. g[n] = Kept(s, C, n, g) /\ n \in Nat /\ n <= Len(s)
    BY <1>1, <1>2, <2>1
  <2>3. CASE n = 0
    <3>1. g[n] = <<>>
      BY <2>2, <2>3 DEF Kept
    <3>2. Good(n)
      BY <2>3, <3>1 DEF Filters
    <3> QED  BY <2>1, <3>2
  <2>4. CASE n > 0
    <3>1. n - 1 \in 0..Len(s) /\ ~(n <= n - 1) /\ n - 1 \in Nat /\ (n - 1) + 1 = n
      BY <1>2, <2>2, <2>4
    <3>2. Good(n - 1)
      BY <2>1, <3>1
    <3>3. /\ s[n] \in C => Filters(s, C, n, g[n - 1])
          /\ s[n] \notin C => /\ Append(g[n - 1], s[n]) \in Seq(S)
                              /\ Filters(s, C, n, Append(g[n - 1], s[n]))
      <4> DEFINE m == n - 1
      <4>1. m \in Nat /\ m + 1 = n /\ m + 1 <= Len(s) /\ g[m] \in Seq(S)
            /\ Filters(s, C, m, g[m])
        BY <2>2, <3>1, <3>2
      <4> HIDE DEF m
      <4>2. /\ s[m + 1] \in C => Filters(s, C, m + 1, g[m])
            /\ s[m + 1] \notin C => /\ Append(g[m], s[m + 1]) \in Seq(S)
                                    /\ Filters(s, C, m + 1, Append(g[m], s[m + 1]))
        BY <4>1, FilterStep
      <4> QED  BY <4>1, <4>2 DEF m
    <3>4. g[n] = IF s[n] \in C THEN g[n - 1] ELSE Append(g[n - 1], s[n])
      BY <2>2, <2>4 DEF Kept
    <3>5. Good(n)
      BY <3>2, <3>3, <3>4
    <3> QED  BY <2>1, <3>5
  <2> QED  BY <2>2, <2>3, <2>4
<1>4. Good(Len(s))
  <2>1. Len(s) \in 0..Len(s)
    BY <1>2
  <2> QED  BY <1>3, <2>1
<1> QED  BY <1>1, <1>4

LEMMA WithoutFacts ==
    ASSUME NEW S, NEW s \in Seq(S), NEW C
    PROVE  /\ Without(s, C) \in Seq(S) /\ Len(Without(s, C)) <= Len(s)
           /\ Len(Without(s, C)) \in Nat
           /\ ToSet(Without(s, C)) = ToSet(s) \ C
           /\ ToSet(s) \cap C # {} => Len(Without(s, C)) < Len(s)
           /\ ToSet(s) \cap C = {} => Without(s, C) = s
<1> DEFINE w == Without(s, C)
<1>1. w \in Seq(S) /\ Filters(s, C, Len(s), w)
  BY WithoutFilters
<1> HIDE DEF w
<1>2. DOMAIN s = 1..Len(s) /\ DOMAIN w = 1..Len(w) /\ Len(w) \in Nat /\ Len(s) \in Nat
  BY <1>1
<1>3. Len(w) <= Len(s)
  BY <1>1 DEF Filters
<1>4. ToSet(w) = ToSet(s) \ C
  <2>1. ASSUME NEW e \in ToSet(w)  PROVE e \in ToSet(s) /\ e \notin C
    <3>1. PICK j \in 1..Len(w) : w[j] = e
      BY <1>2 DEF ToSet
    <3>2. e \notin C /\ \E k \in 1..Len(s) : e = s[k]
      BY <1>1, <3>1 DEF Filters
    <3> QED  BY <1>2, <3>2 DEF ToSet
  <2>2. ASSUME NEW e \in ToSet(s), e \notin C  PROVE e \in ToSet(w)
    <3>1. PICK k \in 1..Len(s) : s[k] = e
      BY <1>2 DEF ToSet
    <3>2. \E j \in 1..Len(w) : w[j] = e
      BY <1>1, <2>2, <3>1 DEF Filters
    <3> QED  BY <1>2, <3>2 DEF ToSet
  <2> QED  BY <2>1, <2>2
<1>5. ASSUME ToSet(s) \cap C # {}  PROVE Len(w) < Len(s)
  <2>1. PICK k \in 1..Len(s) : s[k] \in C
    BY <1>2, <1>5 DEF ToSet
  <2> QED  BY <1>1, <2>1 DEF Filters
<1>6. ASSUME ToSet(s) \cap C = {}  PROVE w = s
  <2>1. \A k \in 1..Len(s) : s[k] \notin C
    BY <1>2, <1>6 DEF ToSet
  <2>2. Len(w) = Len(s) /\ \A k \in 1..Len(s) : w[k] = s[k]
    BY <1>1, <2>1 DEF Filters
  <2> QED  BY <1>1, <2>2, SeqEqual
<1> QED  BY <1>1, <1>2, <1>3, <1>4, <1>5, <1>6 DEF w

\* What RemoveAt returns.
LEMMA RemoveFacts ==
    ASSUME NEW S, NEW s \in Seq(S), NEW i \in 1..Len(s)
    PROVE  /\ RemoveAt(s, i) \in Seq(S) /\ Len(RemoveAt(s, i)) = Len(s) - 1
           /\ \A k \in 1..(Len(s) - 1) :
                 RemoveAt(s, i)[k] = IF k < i THEN s[k] ELSE s[k + 1]
           /\ ToSet(s) \ {s[i]} \subseteq ToSet(RemoveAt(s, i))
<1>0. \A n \in Nat : \A m \in Nat : m <= n => m + 1 <= n \/ n = m
  OBVIOUS
<1> DEFINE a == SubSeq(s, 1, i - 1)
           b == SubSeq(s, i + 1, Len(s))
           r == RemoveAt(s, i)
<1>1. /\ Len(s) \in Nat /\ i \in Nat /\ 1 <= i /\ i <= Len(s)
      /\ DOMAIN s = 1..Len(s)
  OBVIOUS
<1>2. /\ a \in Seq(S) /\ Len(a) = i - 1 /\ \A k \in 1..(i - 1) : a[k] = s[k]
  <2>1. \A k \in 1..(i - 1) : s[k] \in S
    BY <1>1, ElementOfSeq
  <2> HIDE DEF a
  <2>2. 1 \in Int /\ i - 1 \in Int
    BY <1>1
  <2> QED  BY <1>1, <2>1, <2>2, SubSeqProperties DEF a
<1>3. /\ b \in Seq(S) /\ Len(b) = Len(s) - i
      /\ \A k \in 1..(Len(s) - i) : b[k] = s[i + k]
  <2>1. \A k \in (i + 1)..Len(s) : s[k] \in S
    BY <1>1, ElementOfSeq
  <2>2. i + 1 \in Int /\ Len(s) \in Int
    BY <1>1
  <2>3. /\ b \in Seq(S)
        /\ Len(b) = IF i + 1 <= Len(s) THEN Len(s) - (i + 1) + 1 ELSE 0
        /\ \A k \in 1..(Len(s) - (i + 1) + 1) : b[k] = s[(i + 1) + k - 1]
    BY <2>1, <2>2, SubSeqProperties
  <2> HIDE DEF b
  <2>4. Len(b) = Len(s) - i
    <3>1. CASE i + 1 <= Len(s)
      <4>1. Len(b) = Len(s) - (i + 1) + 1
        BY <2>3, <3>1
      <4> QED  BY <1>1, <4>1
    <3>2. CASE ~(i + 1 <= Len(s))
      <4>1. Len(b) = 0
        BY <2>3, <3>2
      <4>2. Len(s) = i
        BY <1>0, <1>1, <3>2, Zenon
      <4> QED  BY <1>1, <4>1, <4>2
    <3> QED  BY <3>1, <3>2
  <2>5. ASSUME NEW k \in 1..(Len(s) - i)  PROVE b[k] = s[i + k]
    <3>1. k \in 1..(Len(s) - (i + 1) + 1) /\ (i + 1) + k - 1 = i + k
      BY <1>1
    <3>2. b[k] = s[(i + 1) + k - 1]
      BY <2>3, <3>1
    <3> QED  BY <3>1, <3>2
  <2> QED  BY <2>3, <2>4, <2>5
<1>4. r = a \o b
  BY DEF RemoveAt
<1> HIDE DEF a, b
<1>5. /\ r \in Seq(S) /\ Len(r) = Len(s) - 1
      /\ \A k \in 1..(Len(s) - 1) : r[k] = IF k < i THEN a[k] ELSE b[k - (i - 1)]
  <2>1. /\ r \in Seq(S) /\ Len(r) = Len(a) + Len(b)
        /\ \A k \in 1..(Len(a) + Len(b)) :
              r[k] = IF k <= Len(a) THEN a[k] ELSE b[k - Len(a)]
    <3>1. /\ a \o b \in Seq(S) /\ Len(a \o b) = Len(a) + Len(b)
          /\ \A k \in 1..(Len(a) + Len(b)) :
                (a \o b)[k] = IF k <= Len(a) THEN a[k] ELSE b[k - Len(a)]
      <4>1. a \in Seq(S) /\ b \in Seq(S)
        BY <1>2, <1>3
      <4> QED  BY <4>1, ConcatProperties
    <3> QED  BY <1>4, <3>1
  <2>2. Len(a) = i - 1 /\ Len(a) + Len(b) = Len(s) - 1
    BY <1>1, <1>2, <1>3
  <2> HIDE DEF r
  <2>3. ASSUME NEW k \in 1..(Len(s) - 1)  PROVE k <= i - 1 <=> k < i
    BY <1>1
  <2> QED  BY <2>1, <2>2, <2>3
<1> HIDE DEF r
<1>6. \A k \in 1..(Len(s) - 1) : r[k] = IF k < i THEN s[k] ELSE s[k + 1]
  <2> SUFFICES ASSUME NEW k \in 1..(Len(s) - 1)
               PROVE  r[k] = IF k < i THEN s[k] ELSE s[k + 1]
    OBVIOUS
  <2>1. CASE k < i
    <3>1. k \in 1..(i - 1)
      BY <1>1, <2>1
    <3>2. r[k] = a[k]
      BY <1>5, <2>1
    <3> QED  BY <1>2, <2>1, <3>1, <3>2
  <2>2. CASE ~(k < i)
    <3>1. k - (i - 1) \in 1..(Len(s) - i) /\ i + (k - (i - 1)) = k + 1
      BY <1>1, <2>2
    <3> QED  BY <1>3, <1>5, <2>2, <3>1
  <2> QED  BY <2>1, <2>2
<1>7. ASSUME NEW e \in ToSet(s), e # s[i]  PROVE e \in ToSet(r)
  <2>1. PICK k \in 1..Len(s) : s[k] = e
    BY <1>1 DEF ToSet
  <2>2. DOMAIN r = 1..Len(r)
    BY <1>5
  <2>3. CASE k < i
    <3>1. k \in 1..(Len(s) - 1)
      BY <1>1, <2>3
    <3> QED  BY <1>5, <1>6, <2>1, <2>2, <2>3, <3>1 DEF ToSet
  <2>4. CASE k > i
    <3>1. k - 1 \in 1..(Len(s) - 1) /\ ~(k - 1 < i) /\ (k - 1) + 1 = k
      BY <1>1, <2>4
    <3>2. r[k - 1] = e
      BY <1>6, <2>1, <3>1
    <3> QED  BY <1>5, <2>2, <3>1, <3>2 DEF ToSet
  <2> QED  BY <1>1, <1>7, <2>1, <2>3, <2>4
<1> QED  BY <1>5, <1>6, <1>7 DEF r

LEMMA PrefixFacts ==
    ASSUME NEW S, NEW s \in Seq(S), NEW t \in Seq(S)
    PROVE  IsPrefix(s, t) <=> Len(s) <= Len(t) /\ \A k \in 1..Len(s) : s[k] = t[k]
<1>1. Len(s) \in Nat /\ Len(t) \in Nat
  OBVIOUS
<1> SUFFICES ASSUME Len(s) <= Len(t)
             PROVE  IsPrefix(s, t) <=> \A k \in 1..Len(s) : s[k] = t[k]
  BY DEF IsPrefix
<1> DEFINE a == SubSeq(s, 1, Len(s))
           b == SubSeq(t, 1, Len(s))
<1>2. /\ \A k \in 1..Len(s) : s[k] \in S
      /\ \A k \in 1..Len(s) : t[k] \in S
  BY <1>1, ElementOfSeq
<1>3. 1 \in Int /\ Len(s) \in Int
  BY <1>1
<1>4. /\ a \in Seq(S) /\ Len(a) = Len(s) /\ \A k \in 1..Len(s) : a[k] = s[k]
  <2>1. /\ a \in Seq(S) /\ Len(a) = IF 1 <= Len(s) THEN Len(s) - 1 + 1 ELSE 0
        /\ \A k \in 1..(Len(s) - 1 + 1) : a[k] = s[1 + k - 1]
    BY <1>2, <1>3, SubSeqProperties
  <2> HIDE DEF a
  <2> QED  BY <1>1, <2>1
<1>5. /\ b \in Seq(S) /\ Len(b) = Len(s) /\ \A k \in 1..Len(s) : b[k] = t[k]
  <2>1. /\ b \in Seq(S) /\ Len(b) = IF 1 <= Len(s) THEN Len(s) - 1 + 1 ELSE 0
        /\ \A k \in 1..(Len(s) - 1 + 1) : b[k] = t[1 + k - 1]
    BY <1>2, <1>3, SubSeqProperties
  <2> HIDE DEF b
  <2> QED  BY <1>1, <2>1
<1>6. IsPrefix(s, t) <=> a = b
  BY DEF IsPrefix
<1> HIDE DEF a, b
<1>7. a = b <=> \A k \in 1..Len(s) : a[k] = b[k]
  BY <1>4, <1>5, SeqEqual
<1> QED  BY <1>4, <1>5, <1>6, <1>7

(***************************************************************************)
(* Types.                                                                  *)
(***************************************************************************)
LEMMA Basics ==
    ASSUME TypeOK
    PROVE  /\ Conn = 1..Len(dev) /\ Len(dev) \in Nat /\ Conn \subseteq Nat
           /\ DOMAIN list = 1..Len(list) /\ Len(list) \in Nat /\ InUse \subseteq Conn
           /\ Checking => /\ seen \in Seq(Conn) /\ DOMAIN seen = 1..Len(seen)
                          /\ Len(seen) \in Nat /\ ToSet(seen) \subseteq Conn
           /\ \A limit \in Limits : MaxDevices(limit) \in Nat /\ MaxDevices(limit) > 0
<1>1. Conn = 1..Len(dev) /\ Len(dev) \in Nat
  BY DEF TypeOK, Conn
<1>2. DOMAIN list = 1..Len(list) /\ Len(list) \in Nat
  BY DEF TypeOK
<1>3. InUse \subseteq Conn
  BY DEF TypeOK, InUse, ToSet
<1>4. ASSUME Checking
      PROVE  /\ seen \in Seq(Conn) /\ DOMAIN seen = 1..Len(seen)
             /\ Len(seen) \in Nat /\ ToSet(seen) \subseteq Conn
  <2>1. seen \in Seq(Conn)
    BY <1>4 DEF TypeOK, Checking
  <2> QED  BY <2>1 DEF ToSet
<1>5. \A limit \in Limits : MaxDevices(limit) \in Nat /\ MaxDevices(limit) > 0
  BY ConstantsAssumption DEF MaxDevices
<1> QED  BY <1>1, <1>2, <1>3, <1>4, <1>5

\* No slice is None.
LEMMA SomeSlice ==
    ASSUME NEW S \in SUBSET Nat, NEW s \in Seq(S)
    PROVE  s # None
<1>1. s \in Seq(Nat)
  BY SeqMonotonic
<1> QED  BY <1>1, ConstantsAssumption

\* The three ways a connection is added: it replaces one of its device, the
\* oldest one makes room, or there is room.
LEMMA AddFacts ==
    ASSUME TypeOK, NEW d \in Device, NEW limit \in Limits, AddDevice(d, limit)
    PROVE  LET c == Len(dev) + 1 IN
           /\ dev' = Append(dev, d) /\ dev' \in Seq(Device) /\ Len(dev') = c
           /\ c <= MaxConn /\ Conn' = Conn \cup {c} /\ c \notin Conn
           /\ list' \in Seq(Conn')
           /\ \/ /\ Of(d) \cap InUse # {} /\ Len(list') <= Len(list)
                 /\ InUse' = (InUse \ Of(d)) \cup {c}
                 /\ total' = total + 1 /\ open' = open \cup {c} /\ live' = live \cup {c}
              \/ /\ Full(list, limit) /\ list # <<>> /\ Len(list') = Len(list)
                 /\ InUse \subseteq InUse' \cup {Head(list)} /\ Head(list) \in Conn
                 /\ total' = total
                 /\ open' = (open \ {Head(list)}) \cup {c}
                 /\ live' = (live \ {Head(list)}) \cup {c}
              \/ /\ ~Full(list, limit) /\ Len(list') = Len(list) + 1 /\ InUse \subseteq InUse'
                 /\ total' = total + 1 /\ open' = open \cup {c} /\ live' = live \cup {c}
<1> DEFINE c == Len(dev) + 1
           others == Without(list, Of(d))
           again == Of(d) \cap InUse # {}
           evict == ~again /\ Full(others, limit)
           closed == IF evict THEN {Head(others)} ELSE {}
           kept == IF evict THEN Tail(others) ELSE others
<1>1. /\ Len(dev) < MaxConn /\ dev' = Append(dev, d) /\ list' = Append(kept, c)
      /\ open' = (open \ closed) \cup {c} /\ live' = (live \ closed) \cup {c}
      /\ total' = IF evict THEN total ELSE total + 1
  BY DEF AddDevice
<1>2. /\ Conn = 1..Len(dev) /\ Len(dev) \in Nat /\ list \in Seq(Conn)
      /\ DOMAIN list = 1..Len(list) /\ Len(list) \in Nat /\ InUse \subseteq Conn
      /\ MaxDevices(limit) \in Nat /\ MaxDevices(limit) > 0 /\ dev \in Seq(Device)
  BY Basics DEF TypeOK
<1>3. /\ dev' \in Seq(Device) /\ Len(dev') = c /\ c <= MaxConn
      /\ Conn' = Conn \cup {c} /\ c \notin Conn
  <2>1. dev' \in Seq(Device) /\ Len(dev') = c
    BY <1>1, <1>2, AppendProperties
  <2>2. Conn' = 1..c
    BY <2>1 DEF Conn
  <2> QED  BY <1>1, <1>2, <2>1, <2>2, ConstantsAssumption
<1>4. /\ others \in Seq(Conn) /\ Len(others) \in Nat /\ Len(others) <= Len(list)
      /\ ToSet(others) = InUse \ Of(d)
      /\ again => Len(others) < Len(list)
      /\ ~again => others = list
  <2>1. ToSet(list) = InUse
    BY DEF InUse
  <2>2. /\ ToSet(list) \cap Of(d) # {} <=> again
        /\ ToSet(list) \cap Of(d) = {} <=> ~again
    BY <2>1
  <2> HIDE DEF others, again
  <2> QED  BY <1>2, <2>1, <2>2, WithoutFacts DEF others
<1> HIDE DEF c
\* What is appended to.
<1>5. ASSUME NEW k \in Seq(Conn)
      PROVE  LET l == Append(k, c) IN
             l \in Seq(Conn') /\ Len(l) = Len(k) + 1 /\ ToSet(l) = ToSet(k) \cup {c}
  <2> DEFINE l == Append(k, c)
  <2>1. k \in Seq(Conn') /\ c \in Conn'
    BY <1>3, SeqMonotonic
  <2>2. /\ l \in Seq(Conn') /\ Len(l) = Len(k) + 1 /\ l[Len(k) + 1] = c
        /\ \A i \in 1..Len(k) : l[i] = k[i]
    BY <2>1, AppendProperties
  <2> HIDE DEF l
  <2>3. DOMAIN l = 1..Len(l) /\ DOMAIN k = 1..Len(k) /\ Len(k) \in Nat
    BY <2>2
  <2>4. ToSet(l) = ToSet(k) \cup {c}
    <3>1. \A i \in 1..Len(l) : i \in 1..Len(k) \/ i = Len(k) + 1
      BY <2>2, <2>3
    <3>2. \A i \in 1..Len(k) : i \in 1..Len(l)
      BY <2>2, <2>3
    <3>3. Len(k) + 1 \in 1..Len(l)
      BY <2>2, <2>3
    <3> QED  BY <2>2, <2>3, <3>1, <3>2, <3>3 DEF ToSet
  <2> QED  BY <2>2, <2>4 DEF l
<1>6. InUse' = ToSet(list')
  BY DEF InUse
<1>7. CASE again
  <2>1. /\ list' = Append(others, c) /\ closed = {} /\ total' = total + 1
    BY <1>1, <1>7
  <2> HIDE DEF others, again, evict, closed
  <2>2. list' \in Seq(Conn') /\ Len(list') = Len(others) + 1 /\ InUse' = ToSet(others) \cup {c}
    BY <1>4, <1>5, <1>6, <2>1
  <2>3. Len(list') <= Len(list)
    BY <1>2, <1>4, <1>7, <2>2
  <2> QED  BY <1>1, <1>3, <1>4, <1>7, <2>1, <2>2, <2>3 DEF again, c
<1>8. CASE evict
  <2>1. /\ list' = Append(Tail(others), c) /\ closed = {Head(others)} /\ total' = total
        /\ others = list /\ Full(list, limit)
    BY <1>1, <1>4, <1>8
  <2>2. list # <<>>
    BY <1>2, <2>1 DEF Full
  <2>3. /\ Tail(list) \in Seq(Conn) /\ Len(Tail(list)) = Len(list) - 1
        /\ \A i \in 1..Len(Tail(list)) : Tail(list)[i] = list[i + 1]
        /\ Head(list) \in Conn
    BY <1>2, <2>2, HeadTailProperties
  <2>4. Head(list) = list[1]
    BY <1>2, <2>2
  <2> HIDE DEF others, again, evict, closed
  <2>5. list' \in Seq(Conn') /\ Len(list') = Len(list) /\ InUse' = ToSet(Tail(list)) \cup {c}
    <3> DEFINE t == Tail(list)
    <3>1. t \in Seq(Conn) /\ Len(t) = Len(list) - 1 /\ list' = Append(t, c)
      BY <2>1, <2>3
    <3> HIDE DEF t
    <3>2. list' \in Seq(Conn') /\ Len(list') = Len(t) + 1 /\ InUse' = ToSet(t) \cup {c}
      BY <1>5, <1>6, <3>1
    <3>3. Len(list') = Len(list)
      BY <1>2, <3>1, <3>2
    <3> QED  BY <3>2, <3>3 DEF t
  <2>6. InUse \subseteq InUse' \cup {Head(list)}
    <3> SUFFICES ASSUME NEW e \in InUse, e # list[1]  PROVE e \in ToSet(Tail(list))
      BY <2>4, <2>5
    <3>1. PICK i \in 1..Len(list) : list[i] = e
      BY <1>2 DEF InUse, ToSet
    <3>2. i - 1 \in 1..Len(Tail(list)) /\ (i - 1) + 1 = i
      BY <1>2, <2>3, <3>1
    <3>3. Tail(list)[i - 1] = e
      BY <2>3, <3>1, <3>2
    <3>4. i - 1 \in DOMAIN Tail(list)
      BY <2>3, <3>2
    <3> QED  BY <3>3, <3>4 DEF ToSet
  <2> QED  BY <1>1, <1>3, <2>1, <2>2, <2>3, <2>5, <2>6 DEF c
<1>9. CASE ~again /\ ~evict
  <2>1. /\ list' = Append(list, c) /\ closed = {} /\ total' = total + 1 /\ ~Full(list, limit)
    BY <1>1, <1>4, <1>9
  <2> HIDE DEF others, again, evict, closed
  <2>2. list' \in Seq(Conn') /\ Len(list') = Len(list) + 1 /\ InUse' = InUse \cup {c}
    BY <1>2, <1>5, <1>6, <2>1 DEF InUse
  <2> QED  BY <1>1, <1>3, <2>1, <2>2 DEF c
<1> QED  BY <1>7, <1>8, <1>9

\* What removeDevice does: nothing, or it takes out one entry of the device,
\* and shifts the slice of the check alike.
LEMMA RemoveDeviceFacts ==
    ASSUME TypeOK, UNCHANGED dev, NEW d, RemoveDevice(d)
    PROVE  \/ UNCHANGED <<list, seen, shared, open, live, total>>
           \/ \E i \in 1..Len(list) :
                /\ list[i] \in Of(d) \cap InUse /\ list' = RemoveAt(list, i)
                /\ list' \in Seq(Conn) /\ Len(list') = Len(list) - 1
                /\ InUse \subseteq InUse' \cup {list[i]}
                /\ seen' = (IF Checking /\ shared
                            THEN [k \in DOMAIN seen |->
                                    IF k \in i..(Len(list) - 1) THEN seen[k + 1] ELSE seen[k]]
                            ELSE seen)
                /\ open' = open \ {list[i]} /\ live' = live \ {list[i]}
                /\ total' = total - 1 /\ shared' = shared
<1> DEFINE at == {i \in DOMAIN list : list[i] \in Of(d)}
           i == Min(at)
<1>1. /\ list \in Seq(Conn) /\ DOMAIN list = 1..Len(list) /\ Len(list) \in Nat
  BY Basics DEF TypeOK
<1>2. CASE at = {}
  BY <1>2 DEF RemoveDevice
<1>3. CASE at # {}
  <2>1. i \in at
    <3>1. at \in SUBSET Nat
      BY <1>1
    <3> HIDE DEF at
    <3> QED  BY <1>3, <3>1, LeastOf
  <2>2. /\ list' = RemoveAt(list, i)
        /\ seen' = (IF Checking /\ shared
                    THEN [k \in DOMAIN seen |->
                            IF k \in i..(Len(list) - 1) THEN seen[k + 1] ELSE seen[k]]
                    ELSE seen)
        /\ open' = open \ {list[i]} /\ live' = live \ {list[i]}
        /\ total' = total - 1 /\ shared' = shared
    BY <1>3 DEF RemoveDevice, Close
  <2>3. i \in 1..Len(list) /\ list[i] \in Of(d)
    BY <1>1, <2>1
  <2> HIDE DEF i, at
  <2>4. list[i] \in InUse
    BY <1>1, <2>3 DEF InUse, ToSet
  <2>5. /\ list' \in Seq(Conn) /\ Len(list') = Len(list) - 1
        /\ InUse \ {list[i]} \subseteq InUse'
    BY <1>1, <2>2, <2>3, RemoveFacts DEF InUse
  <2> QED  BY <2>2, <2>3, <2>4, <2>5
<1> QED  BY <1>2, <1>3

LEMMA TypeInit == Init => TypeOK
<1> SUFFICES ASSUME Init  PROVE TypeOK
  OBVIOUS
<1>1. dev = <<>> /\ list = <<>> /\ dev \in Seq(Device) /\ list \in Seq(Conn) /\ Len(dev) = 0
  BY DEF Init
<1>2. /\ seen = None /\ shared = FALSE /\ total = 0 /\ kicks = 0 /\ peak = 0
      /\ open = {} /\ live = {} /\ reading = {} /\ silent = {} /\ due = {}
  BY DEF Init
<1>3. 0 \in 0..MaxKicks /\ 0 <= MaxConn /\ 0 \in Int
  BY ConstantsAssumption
<1>4. /\ seen \in Seq(Conn) \cup {None} /\ Len(dev) <= MaxConn /\ shared \in BOOLEAN
      /\ total \in Int /\ kicks \in 0..MaxKicks
  BY <1>1, <1>2, <1>3
<1>5. /\ open \cup reading \cup silent \cup due \subseteq Conn /\ live \subseteq open \cap reading
      /\ Checking /\ shared => IsPrefix(list, seen)
  BY <1>2 DEF Checking
<1> QED  BY <1>1, <1>2, <1>4, <1>5 DEF TypeOK

\* The list, the slice and the prefix, when the connections are the same.
LEMMA SameConns ==
    ASSUME TypeOK, dev' = dev, peak' = peak, list' \in Seq(Conn),
           seen' \in Seq(Conn) \cup {None}, shared' \in BOOLEAN, total' \in Int,
           kicks' \in 0..MaxKicks,
           open' \cup reading' \cup silent' \cup due' \subseteq Conn,
           live' \subseteq open' \cap reading',
           seen' # None /\ shared' => IsPrefix(list', seen')
    PROVE  TypeOK'
  BY DEF TypeOK, Conn, Checking

LEMMA DisconnectedTyped ==
    ASSUME TypeOK, NEW c \in Conn, Disconnected(c)
    PROVE  TypeOK'
<1>1. /\ c \in reading \ live /\ reading' = reading \ {c} /\ RemoveDevice(dev[c])
      /\ UNCHANGED <<peak, dev, silent, due, kicks>>
  BY DEF Disconnected
<1>2. CASE UNCHANGED <<list, seen, shared, open, live, total>>
  BY <1>1, <1>2, SameConns DEF TypeOK, Checking
<1>3. ASSUME NEW i \in 1..Len(list),
             list' = RemoveAt(list, i), list' \in Seq(Conn), Len(list') = Len(list) - 1,
             seen' = (IF Checking /\ shared
                      THEN [k \in DOMAIN seen |->
                              IF k \in i..(Len(list) - 1) THEN seen[k + 1] ELSE seen[k]]
                      ELSE seen),
             open' = open \ {list[i]}, live' = live \ {list[i]},
             total' = total - 1, shared' = shared
      PROVE  TypeOK'
  <2>1. /\ list \in Seq(Conn) /\ Len(list) \in Nat /\ Conn \subseteq Nat
        /\ Checking => /\ seen \in Seq(Conn) /\ DOMAIN seen = 1..Len(seen)
                       /\ Len(seen) \in Nat
    BY Basics DEF TypeOK
  <2>2. /\ seen' \in Seq(Conn) \cup {None}
        /\ seen' # None /\ shared' => IsPrefix(list', seen')
    <3>1. CASE Checking /\ shared
      <4>1. /\ Len(list) <= Len(seen)
            /\ \A k \in 1..Len(list) : list[k] = seen[k]
        BY <2>1, <3>1, PrefixFacts DEF TypeOK
      <4>2. \A k \in 1..Len(seen) : seen[k] \in Conn
        BY <2>1, <3>1, ElementOfSeq
      <4>3. /\ DOMAIN seen' = 1..Len(seen)
            /\ \A k \in 1..Len(seen) :
                  seen'[k] = IF k \in i..(Len(list) - 1) THEN seen[k + 1] ELSE seen[k]
        BY <1>3, <2>1, <3>1
      <4>4. \A k \in 1..Len(seen) : seen'[k] \in Conn
        BY <2>1, <3>1, <4>1, <4>2, <4>3
      <4>5. seen' \in [1..Len(seen) -> Conn]
        BY <1>3, <2>1, <3>1, <4>3, <4>4
      <4>6. seen' \in Seq(Conn) /\ Len(seen') = Len(seen)
        BY <2>1, <3>1, <4>5
      <4>7. \A k \in 1..(Len(list) - 1) :
               list'[k] = IF k < i THEN list[k] ELSE list[k + 1]
        BY <1>3, <2>1, RemoveFacts
      <4>8. \A k \in 1..Len(list') : list'[k] = seen'[k]
        <5> SUFFICES ASSUME NEW k \in 1..Len(list')  PROVE list'[k] = seen'[k]
          OBVIOUS
        <5>0. k \in 1..(Len(list) - 1) /\ Len(list) \in Nat /\ Len(seen) \in Nat
              /\ Len(list) <= Len(seen) /\ i \in 1..Len(list)
          BY <1>3, <2>1, <3>1, <4>1
        <5>1. /\ k \in 1..(Len(list) - 1) /\ k \in 1..Len(list) /\ k + 1 \in 1..Len(list)
              /\ k \in 1..Len(seen) /\ (k < i <=> k \notin i..(Len(list) - 1))
          BY <5>0
        <5>2. list'[k] = (IF k < i THEN list[k] ELSE list[k + 1])
          BY <4>7, <5>1
        <5>3. seen'[k] = (IF k < i THEN seen[k] ELSE seen[k + 1])
          BY <4>3, <5>1
        <5>4. list[k] = seen[k] /\ list[k + 1] = seen[k + 1]
          BY <4>1, <5>1
        <5> QED  BY <5>2, <5>3, <5>4
      <4>9. Len(list') <= Len(seen')
        BY <1>3, <2>1, <4>1, <4>6, <3>1
      <4> QED  BY <1>3, <4>6, <4>8, <4>9, PrefixFacts
    <3>2. CASE ~(Checking /\ shared)
      <4>1. seen' = seen
        BY <1>3, <3>2
      <4>2. ~(seen # None /\ shared)
        BY <3>2 DEF Checking
      <4>3. seen \in Seq(Conn) \cup {None} /\ shared' = shared
        BY <1>3 DEF TypeOK
      <4> QED  BY <4>1, <4>2, <4>3
    <3> QED  BY <3>1, <3>2
  <2>3. total' \in Int /\ shared' \in BOOLEAN /\ kicks' \in 0..MaxKicks
    BY <1>1, <1>3 DEF TypeOK
  <2>4. open' \cup reading' \cup silent' \cup due' \subseteq Conn
    BY <1>1, <1>3 DEF TypeOK
  <2>5. live' \subseteq open' \cap reading'
    BY <1>1, <1>3 DEF TypeOK
  <2> QED  BY <1>1, <1>3, <2>2, <2>3, <2>4, <2>5, SameConns
<1> QED  BY <1>1, <1>2, <1>3, RemoveDeviceFacts

LEMMA AddDeviceTyped ==
    ASSUME TypeOK, NEW d \in Device, NEW limit \in Limits, AddDevice(d, limit)
    PROVE  TypeOK'
<1> DEFINE c == Len(dev) + 1
<1>1. /\ dev' \in Seq(Device) /\ Len(dev') = c /\ c <= MaxConn
      /\ Conn' = Conn \cup {c} /\ list' \in Seq(Conn')
      /\ open' \subseteq open \cup {c} /\ total' \in {total, total + 1}
      /\ live' \subseteq live \cup {c} /\ live' \subseteq open'
  <2>1. live \subseteq open
    BY DEF TypeOK
  <2> QED  BY <2>1, AddFacts
<1> HIDE DEF c
<1>2. /\ shared' = FALSE /\ reading' = reading \cup {c}
      /\ peak' \in {peak, MaxDevices(limit)} /\ UNCHANGED <<seen, silent, due, kicks>>
  BY DEF AddDevice, c
<1>6. peak' \in Nat
  BY <1>2, Basics DEF TypeOK
<1>3. seen' \in Seq(Conn') \cup {None}
  <2>1. ASSUME seen \in Seq(Conn)  PROVE seen \in Seq(Conn')
    BY <1>1, <2>1, SeqMonotonic
  <2> QED  BY <1>2, <2>1 DEF TypeOK
<1>4. /\ open' \cup reading' \cup silent' \cup due' \subseteq Conn'
      /\ live' \subseteq open' \cap reading'
  BY <1>1, <1>2 DEF TypeOK
<1>5. total' \in Int
  BY <1>1 DEF TypeOK
<1> QED  BY <1>1, <1>2, <1>3, <1>4, <1>5, <1>6 DEF TypeOK

LEMMA TypeStep == TypeOK /\ [Next]_vars => TypeOK'
<1> SUFFICES ASSUME TypeOK, [Next]_vars  PROVE TypeOK'
  OBVIOUS
<1>1. /\ Conn = 1..Len(dev) /\ Conn \subseteq Nat /\ list \in Seq(Conn) /\ InUse \subseteq Conn
      /\ Len(list) \in Nat
      /\ Checking => seen \in Seq(Conn) /\ ToSet(seen) \subseteq Conn /\ Len(seen) \in Nat
  BY Basics DEF TypeOK
<1>2. ASSUME NEW d \in Device, KickDevice(d)  PROVE TypeOK'
  <2>1. list' \in Seq(Conn) /\ Len(list') \in Nat
    BY <1>1, <1>2, WithoutFacts DEF KickDevice
  <2>2. total' \in Int
    BY <1>1, <1>2, <2>1 DEF KickDevice, TypeOK
  <2>3. kicks' \in 0..MaxKicks
    BY <1>2, ConstantsAssumption DEF KickDevice, TypeOK
  <2>4. /\ open' \cup reading' \cup silent' \cup due' \subseteq Conn
        /\ live' \subseteq open' \cap reading'
    BY <1>2 DEF KickDevice, Close, TypeOK
  <2> QED  BY <1>2, <2>1, <2>2, <2>3, <2>4, SameConns DEF KickDevice, TypeOK
<1>3. ASSUME NEW c \in Conn, UpdateHeartbeat(c) \/ Leave(c) \/ Silence(c)  PROVE TypeOK'
  <2>1. UNCHANGED <<peak, dev, list, seen, shared, total, open, reading, kicks>>
    BY <1>3 DEF UpdateHeartbeat, Leave, Silence
  <2>2. live' \subseteq live /\ silent' \subseteq silent \cup {c} /\ due' \subseteq due
    BY <1>3 DEF UpdateHeartbeat, Leave, Silence
  <2>3. /\ open' \cup reading' \cup silent' \cup due' \subseteq Conn
        /\ live' \subseteq open' \cap reading'
    BY <2>1, <2>2 DEF TypeOK
  <2> QED  BY <2>1, <2>3, SameConns DEF TypeOK, Checking
<1>4. CASE Tick
  <2>1. IsPrefix(list, list)
    BY <1>1, PrefixFacts
  <2>2. /\ open' \cup reading' \cup silent' \cup due' \subseteq Conn
        /\ live' \subseteq open' \cap reading'
    BY <1>1, <1>4 DEF Tick, TypeOK
  <2> QED  BY <1>1, <1>4, <2>1, <2>2, SameConns DEF Tick, TypeOK
<1>5. CASE Check
  <2>1. list' \in Seq(Conn) /\ Len(list') \in Nat
    BY <1>1, <1>5, WithoutFacts DEF Check, Active
  <2>2. total' \in Int
    BY <1>1, <1>5, <2>1 DEF Check, TypeOK
  <2>3. /\ open' \cup reading' \cup silent' \cup due' \subseteq Conn
        /\ live' \subseteq open' \cap reading'
    BY <1>5 DEF Check, Close, TypeOK
  <2> QED  BY <1>5, <2>1, <2>2, <2>3, SameConns DEF Check, TypeOK
<1>6. CASE UNCHANGED vars
  BY <1>6 DEF vars, TypeOK, Conn, Checking
<1> QED  BY <1>2, <1>3, <1>4, <1>5, <1>6, AddDeviceTyped, DisconnectedTyped DEF Next

\* Every variable has its type, and a list in the array of the check's slice is
\* a prefix of it, however removals shift the two: the slice is never read past
\* its end.
THEOREM DeviceTypeCorrect == Spec => []TypeOK
<1> QED  BY TypeInit, TypeStep, PTL DEF Spec

(***************************************************************************)
(* The limit, and the reasons.                                             *)
(***************************************************************************)
\* An old slice is within the limit, too, and what was due is silent still.
LimitInv ==
    /\ Len(list) <= peak
    /\ Checking => Len(seen) <= peak
    /\ due \subseteq silent

LEMMA LimitStep == TypeOK /\ LimitInv /\ [Next]_vars => LimitInv'
<1> SUFFICES ASSUME TypeOK, LimitInv, [Next]_vars  PROVE LimitInv'
  OBVIOUS
<1>1. /\ list \in Seq(Conn) /\ Len(list) \in Nat
      /\ Checking => seen \in Seq(Conn) /\ Len(seen) \in Nat
      /\ DOMAIN list = 1..Len(list)
      /\ peak \in Nat
  BY Basics DEF TypeOK
<1>3. ASSUME NEW d \in Device, NEW limit \in Limits, AddDevice(d, limit)
        PROVE  LimitInv'
  <2>1. UNCHANGED <<seen, silent, due>>
    BY <1>3 DEF AddDevice
  <2>2. Len(list') \in Nat
    BY <1>3, AddFacts
  <2>3. /\ peak' \in Nat /\ MaxDevices(limit) \in Nat /\ MaxDevices(limit) <= peak'
        /\ list # <<>> \/ Checking => peak <= peak'
    <3>1. /\ peak' = IF peak > MaxDevices(limit) /\ (list # <<>> \/ Checking)
                     THEN peak ELSE MaxDevices(limit)
          /\ MaxDevices(limit) \in Nat
      BY <1>3, Basics DEF AddDevice
    <3> QED  BY <1>1, <3>1
  <2>4. Len(list) <= peak'
    <3>1. list = <<>> => Len(list) = 0
      OBVIOUS
    <3> QED  BY <1>1, <2>3, <3>1 DEF LimitInv
  <2>5. Len(list') <= peak'
    <3>1. \/ Len(list') <= Len(list)
          \/ Len(list') = Len(list)
          \/ ~Full(list, limit) /\ Len(list') = Len(list) + 1
      BY <1>3, AddFacts
    <3> QED  BY <1>1, <2>2, <2>3, <2>4, <3>1 DEF Full
  <2>6. Checking' => Len(seen') <= peak'
    BY <1>1, <2>1, <2>3 DEF LimitInv, Checking
  <2> QED  BY <2>1, <2>5, <2>6 DEF LimitInv
<1>4. ASSUME NEW d \in Device, KickDevice(d)  PROVE LimitInv'
  <2>1. Len(list') <= Len(list) /\ Len(list') \in Nat
    BY <1>1, <1>4, WithoutFacts DEF KickDevice
  <2>2. Len(list') <= peak
    BY <1>1, <2>1 DEF LimitInv
  <2> QED  BY <1>4, <2>2 DEF KickDevice, LimitInv, Checking
<1>5. ASSUME NEW c \in Conn, Disconnected(c)  PROVE LimitInv'
  <2>1. RemoveDevice(dev[c]) /\ UNCHANGED <<peak, dev, silent, due>>
    BY <1>5 DEF Disconnected
  <2>2. CASE UNCHANGED <<list, seen>>
    BY <2>1, <2>2 DEF LimitInv, Checking
  <2>3. ASSUME NEW i \in 1..Len(list), Len(list') = Len(list) - 1,
               seen' = (IF Checking /\ shared
                        THEN [k \in DOMAIN seen |->
                                IF k \in i..(Len(list) - 1) THEN seen[k + 1] ELSE seen[k]]
                        ELSE seen)
        PROVE  LimitInv'
    <3>1. Len(list') <= peak
      BY <1>1, <2>3 DEF LimitInv
    <3>2. Checking' => Checking /\ Len(seen') = Len(seen)
      <4>1. CASE Checking /\ shared
        <5>1. DOMAIN seen' = 1..Len(seen)
          BY <1>1, <2>3, <4>1
        <5>2. Checking' => seen' \in Seq(Conn)
          <6>1. TypeOK' /\ Conn' = Conn
            BY <1>5, <2>1, TypeStep DEF Next, Conn
          <6> QED  BY <6>1 DEF TypeOK, Checking
        <5> QED  BY <1>1, <4>1, <5>1, <5>2
      <4>2. CASE ~(Checking /\ shared)
        BY <2>3, <4>2 DEF Checking
      <4> QED  BY <4>1, <4>2
    <3> QED  BY <2>1, <3>1, <3>2 DEF LimitInv
  <2> QED  BY <2>1, <2>2, <2>3, RemoveDeviceFacts
<1>6. ASSUME NEW c \in Conn, UpdateHeartbeat(c) \/ Leave(c) \/ Silence(c)  PROVE LimitInv'
  <2>1. UNCHANGED <<list, seen, peak>>
    BY <1>6 DEF UpdateHeartbeat, Leave, Silence
  <2>2. due' \subseteq silent'
    BY <1>6 DEF UpdateHeartbeat, Leave, Silence, LimitInv
  <2> QED  BY <2>1, <2>2 DEF LimitInv, Checking
<1>7. CASE Tick
  BY <1>7 DEF Tick, LimitInv
<1>8. CASE Check
  <2>1. Len(list') <= Len(seen) /\ Len(list') \in Nat
    BY <1>1, <1>8, WithoutFacts DEF Check, Active
  <2>2. Len(list') <= peak
    BY <1>1, <1>8, <2>1 DEF LimitInv, Check
  <2>3. ~Checking' /\ due' = {} /\ peak' = peak
    BY <1>8 DEF Check, Checking
  <2> QED  BY <2>2, <2>3 DEF LimitInv
<1>9. CASE UNCHANGED vars
  BY <1>9 DEF vars, LimitInv, Checking
<1> QED  BY <1>3, <1>4, <1>5, <1>6, <1>7, <1>8, <1>9 DEF Next

LEMMA LimitInit == Init => LimitInv
<1> SUFFICES ASSUME Init  PROVE LimitInv
  OBVIOUS
<1>1. Len(list) = 0
  BY DEF Init
<1> QED  BY <1>1 DEF Init, LimitInv, Checking

\* However adding, removing, kicking and a check with an old slice interleave,
\* a user never has more connections in use than the largest limit one of them
\* was accepted under since he had none.
THEOREM DevicesWithinLimit == Spec => []WithinLimit
<1>1. LimitInv => WithinLimit
  BY DEF LimitInv, WithinLimit
<1> QED  BY <1>1, TypeInit, TypeStep, LimitInit, LimitStep, PTL DEF Spec

\* The reasons the server closes a connection with a client: silence, the
\* administrator, room for another, or the end of another connection of its
\* device.
THEOREM ClosesForReason == Spec => ClosedForReason
<1>1. TypeOK /\ LimitInv /\ [Next]_vars =>
         [\A c \in live \ open' :
            \/ c \in silent /\ Checking /\ ~Checking'
            \/ kicks' # kicks
            \/ \E d \in Device, limit \in Limits :
                 AddDevice(d, limit) /\ Full(list, limit) /\ c = Head(list)
            \/ \E e \in (reading \ reading') \ {c} : dev[e] = dev[c]]_vars
  <2> SUFFICES ASSUME TypeOK, LimitInv, Next, NEW c \in live, c \notin open'
               PROVE  \/ c \in silent /\ Checking /\ ~Checking'
                      \/ kicks' # kicks
                      \/ \E d \in Device, limit \in Limits :
                           AddDevice(d, limit) /\ Full(list, limit) /\ c = Head(list)
                      \/ \E e \in (reading \ reading') \ {c} : dev[e] = dev[c]
    BY DEF vars, TypeOK
  <2>1. c \in open /\ c \in Conn /\ Len(dev) \in Nat
    BY Basics DEF TypeOK
  <2>2. ASSUME NEW d \in Device, NEW limit \in Limits, AddDevice(d, limit)
        PROVE  c = Head(list) /\ Full(list, limit)
    <3>2. \/ open \subseteq open'
          \/ Full(list, limit) /\ open \ {Head(list)} \subseteq open'
      BY <2>2, AddFacts
    <3> QED  BY <2>1, <3>2
  <2>3. ASSUME NEW d \in Device, KickDevice(d)  PROVE kicks' # kicks
    BY <2>3, ConstantsAssumption DEF KickDevice, TypeOK
  <2>4. ASSUME NEW e \in Conn, Disconnected(e)
        PROVE  \E f \in (reading \ reading') \ {c} : dev[f] = dev[c]
    <3>1. /\ e \in reading \ live /\ e \notin reading' /\ RemoveDevice(dev[e])
          /\ UNCHANGED dev
      BY <2>4 DEF Disconnected
    <3>2. PICK i \in 1..Len(list) : list[i] \in Of(dev[e]) /\ open' = open \ {list[i]}
      <4>1. open' # open
        BY <2>1
      <4> QED  BY <3>1, <4>1, RemoveDeviceFacts
    <3>3. c = list[i] /\ dev[c] = dev[e] /\ e # c
      BY <2>1, <3>1, <3>2 DEF Of
    <3> QED  BY <3>1, <3>3
  <2>5. CASE Check
    <3>1. Checking /\ ~Checking' /\ list' = Without(seen, due)
          /\ open' = open \ (ToSet(seen) \ ToSet(list'))
      BY <2>5 DEF Check, Checking, Close, Active
    <3>2. ToSet(list') = ToSet(seen) \ due
      BY <3>1, Basics, WithoutFacts
    <3> QED  BY <2>1, <3>1, <3>2 DEF LimitInv
  <2>6. ASSUME NEW e \in Conn, UpdateHeartbeat(e) \/ Leave(e) \/ Silence(e)  PROVE FALSE
    BY <2>1, <2>6 DEF UpdateHeartbeat, Leave, Silence
  <2>7. CASE Tick
    BY <2>1, <2>7 DEF Tick
  <2> QED  BY <2>2, <2>3, <2>4, <2>5, <2>6, <2>7 DEF Next
<1> QED  BY <1>1, TypeInit, TypeStep, LimitInit, LimitStep, PTL DEF Spec, ClosedForReason

\* An entry leaves the list closed, unless another connection of its device
\* replaced it or the check stored a slice it is not in.
THEOREM DropsClosed == Spec => DroppedIsClosed
<1>1. TypeOK /\ [Next]_vars =>
         [\A c \in (InUse \ InUse') \cap open' :
            \/ dev' = Append(dev, dev[c])
            \/ Checking /\ ~Checking' /\ c \notin ToSet(seen)]_vars
  <2> SUFFICES ASSUME TypeOK, Next, NEW c \in InUse, c \notin InUse', c \in open'
               PROVE  \/ dev' = Append(dev, dev[c])
                      \/ Checking /\ ~Checking' /\ c \notin ToSet(seen)
    OBVIOUS
  <2>1. c \in Conn /\ list \in Seq(Conn)
    BY Basics DEF TypeOK
  <2>2. ASSUME NEW d \in Device, NEW limit \in Limits, AddDevice(d, limit)
        PROVE  dev' = Append(dev, dev[c])
    <3>1. dev' = Append(dev, d) /\ Len(dev) + 1 \notin Conn
      BY <2>2, AddFacts
    <3>2. \/ InUse \ Of(d) \subseteq InUse'
          \/ InUse \subseteq InUse' \cup {Head(list)}
             /\ open' = (open \ {Head(list)}) \cup {Len(dev) + 1}
          \/ InUse \subseteq InUse'
      BY <2>2, AddFacts
    <3>3. c \in Of(d)
      BY <2>1, <3>1, <3>2
    <3> QED  BY <3>1, <3>3 DEF Of
  <2>3. ASSUME NEW d \in Device, KickDevice(d)  PROVE FALSE
    <3>1. list' = Without(list, Of(d)) /\ open' = open \ (Of(d) \cap InUse)
      BY <2>3 DEF KickDevice, Close
    <3>2. InUse' = InUse \ Of(d)
      BY <2>1, <3>1, WithoutFacts DEF InUse
    <3> QED  BY <3>1, <3>2
  <2>4. ASSUME NEW e \in Conn, Disconnected(e)  PROVE FALSE
    <3>1. RemoveDevice(dev[e]) /\ UNCHANGED dev
      BY <2>4 DEF Disconnected
    <3>2. CASE UNCHANGED <<list, seen, shared, open, live, total>>
      BY <3>2 DEF InUse
    <3>3. ASSUME NEW i \in 1..Len(list), InUse \subseteq InUse' \cup {list[i]},
                 open' = open \ {list[i]}
          PROVE  FALSE
      BY <3>3
    <3> QED  BY <3>1, <3>2, <3>3, RemoveDeviceFacts
  <2>5. CASE Check
    <3>1. Checking /\ ~Checking' /\ InUse' = ToSet(list')
          /\ open' = open \ (ToSet(seen) \ ToSet(list'))
      BY <2>5 DEF Check, Checking, Close, InUse
    <3> QED  BY <3>1
  <2>6. ASSUME NEW e \in Conn, UpdateHeartbeat(e) \/ Leave(e) \/ Silence(e)  PROVE FALSE
    BY <2>6 DEF UpdateHeartbeat, Leave, Silence, InUse
  <2>7. CASE Tick
    BY <2>7 DEF Tick, InUse
  <2> QED  BY <2>2, <2>3, <2>4, <2>5, <2>6, <2>7 DEF Next
<1> QED  BY <1>1, TypeInit, TypeStep, PTL DEF Spec, DroppedIsClosed

\* The count of connections moves with the list, except when a device connects
\* again and when the check stores a slice that is not the list any more.
THEOREM CountMoves == Spec => CountMovesWithList
<1>1. TypeOK /\ [Next]_vars =>
         [total' - total # Len(list') - Len(list) =>
            \/ \E c \in InUse : dev' = Append(dev, dev[c])
            \/ Checking /\ ~Checking' /\ list # seen]_vars
  <2> SUFFICES ASSUME TypeOK, Next, total' - total # Len(list') - Len(list)
               PROVE  \/ \E c \in InUse : dev' = Append(dev, dev[c])
                      \/ Checking /\ ~Checking' /\ list # seen
    OBVIOUS
  <2>1. /\ list \in Seq(Conn) /\ Len(list) \in Nat /\ total \in Int
        /\ Checking => seen \in Seq(Conn) /\ Len(seen) \in Nat
    BY Basics DEF TypeOK
  <2>2. ASSUME NEW d \in Device, NEW limit \in Limits, AddDevice(d, limit)
        PROVE  \E c \in InUse : dev' = Append(dev, dev[c])
    <3>1. dev' = Append(dev, d)
      BY <2>2, AddFacts
    <3>2. \/ Of(d) \cap InUse # {}
          \/ Len(list') = Len(list) /\ total' = total
          \/ Len(list') = Len(list) + 1 /\ total' = total + 1
      BY <2>2, AddFacts
    <3>3. Of(d) \cap InUse # {}
      BY <2>1, <3>2
    <3> QED  BY <3>1, <3>3 DEF Of
  <2>3. ASSUME NEW d \in Device, KickDevice(d)  PROVE FALSE
    <3>1. total' = total - (Len(list) - Len(list')) /\ Len(list') \in Nat
      BY <2>1, <2>3, WithoutFacts DEF KickDevice
    <3> QED  BY <2>1, <3>1
  <2>4. ASSUME NEW e \in Conn, Disconnected(e)  PROVE FALSE
    <3>1. RemoveDevice(dev[e]) /\ UNCHANGED dev
      BY <2>4 DEF Disconnected
    <3>2. \/ list' = list /\ total' = total
          \/ Len(list') = Len(list) - 1 /\ total' = total - 1
      BY <3>1, RemoveDeviceFacts
    <3> QED  BY <2>1, <3>2
  <2>5. CASE Check
    <3>1. Checking /\ ~Checking' /\ list' = Without(seen, due)
          /\ total' = total - (Len(seen) - Len(list'))
      BY <2>5 DEF Check, Checking, Active
    <3>2. Len(list') \in Nat
      BY <2>1, <3>1, WithoutFacts
    <3> QED  BY <2>1, <3>1, <3>2
  <2>6. ASSUME NEW e \in Conn, UpdateHeartbeat(e) \/ Leave(e) \/ Silence(e)  PROVE FALSE
    BY <2>1, <2>6 DEF UpdateHeartbeat, Leave, Silence
  <2>7. CASE Tick
    BY <2>1, <2>7 DEF Tick
  <2> QED  BY <2>2, <2>3, <2>4, <2>5, <2>6, <2>7 DEF Next
<1> QED  BY <1>1, TypeInit, TypeStep, PTL DEF Spec, CountMovesWithList

(***************************************************************************)
(* The rows of a device: the inductive invariant, and its parts.           *)
(***************************************************************************)
\* What a job holds at each of its steps.
Begun(j) ==
    /\ j.at = "rest" <=> j.do = "none"
    /\ j.do \in ByName => j.by \in DeviceUser
    /\ j.at \notin {"rest", "find", "create"} => j.id \in 1..newest
    /\ j.at \in {"lookFill", "checkFill"} => j.read # Absent
    /\ j.row # Absent <=> /\ j.at \in {"lookFill", "kick", "check", "checkFill", "write"}
                          /\ j.do \notin {"delete", "register"}
    /\ j.at \in {"look", "lookFill"} => j.do \in {"edit", "kick"}
    /\ j.at = "kick" => j.do = "kick"
    /\ j.at = "find" => j.do \in ByName
    /\ j.at = "create" => j.do \in {"login", "register"}

JobsFit ==
    /\ \A g \in Routine : Begun(chore[g])
    /\ \A i \in Id : i > newest => device[i] = Absent /\ copyOf[i] = Absent
    /\ named # Absent => named.id <= newest
    /\ \A u \in DeviceUser : listed[u] \subseteq 1..newest

\* The copy by id is the row, unless somebody is about to clear it or it came late.
CopyById == \A i \in Id : copyOf[i] = Absent \/ Behind(i) \/ copyOf[i] = device[i]

OnlyRow == \A i, k \in RowIds : i = k

HoldsOwner(g) == chore[g].row # Absent /\ chore[g].do \in Callback \cup {"edit", "kick"}

OwnerSafe == astray = {} =>
    /\ OnlyRow
    /\ \A i \in RowIds : device[i].owner = holder
    /\ \A g \in Routine : HoldsOwner(g) => SameOwner(chore[g].id, chore[g].row)

HoldsState(g) == chore[g].row # Absent /\ chore[g].do \in TakeOver \cup {"edit"}

Due(g)    == chore[g].do \in Callback /\ chore[g].at # "clear"
Kicked(g) == chore[g].do = "kick" /\ chore[g].at \in {"check", "checkFill", "write"}

StateSafe == doubt = {} =>
    /\ \A g \in Routine : HoldsState(g) => SameState(chore[g].id, chore[g].row)
    /\ \A g, k \in Pending : g = k
    /\ \A g \in Routine : Due(g) => (chore[g].do = "online" <=> online # {})
    /\ (\E g \in Routine : Kicked(g)) => online = {} \/ \E g \in Routine : Due(g)
    /\ \/ \A i \in RowIds : device[i].online <=> online # {}
       \/ \E g \in Routine : Due(g) \/ Kicked(g)

RowInv == RowTypeOK /\ JobsFit /\ CopyById /\ OwnerSafe /\ StateSafe

(***************************************************************************)
(* Types of the rows, the copies and the jobs.                             *)
(***************************************************************************)
LEMMA RowConstants ==
    /\ MaxInserted \in Nat /\ 1 \in Id /\ Id \subseteq Nat /\ 0 \notin Id
    /\ MaxRoutines \in Nat /\ MaxBlows \in Nat
    /\ Absent \notin UserDevice
    /\ \A u \in DeviceUser, o \in BOOLEAN : [owner |-> u, online |-> o] \in UserDevice
  BY RowAssumption DEF Id, UserDevice

LEMMA BeginTypes ==
    ASSUME RowTypeOK, NEW g \in Routine, NEW do \in ByName \cup ById,
           NEW by \in DeviceUser \cup {Absent}, NEW i \in Id \cup {0}, Begin(g, do, by, i)
    PROVE  /\ begun' \in 0..MaxRoutines /\ chore' \in [Routine -> Chore]
           /\ chore'[g].do = do /\ chore'[g].by = by /\ chore'[g].id = i
           /\ chore'[g].row = Absent /\ chore'[g].read = Absent /\ chore[g].at = "rest"
           /\ \A k \in Routine \ {g} : chore'[k] = chore[k]
           /\ chore'[g].at = IF do \in ByName THEN "find"
                           ELSE IF do = "delete" THEN "check" ELSE "look"
<1> DEFINE j == [do |-> do, by |-> by, id |-> i, row |-> Absent, read |-> Absent,
                 at |-> IF do \in ByName THEN "find"
                         ELSE IF do = "delete" THEN "check" ELSE "look"]
<1>1. j \in Chore
  BY DEF Chore
<1>2. chore' = [chore EXCEPT ![g] = j] /\ begun' = begun + 1 /\ begun < MaxRoutines /\ chore[g].at = "rest"
  BY DEF Begin, ChoreAt
<1>3. chore' \in [Routine -> Chore] /\ begun' \in 0..MaxRoutines
  BY <1>1, <1>2, RowConstants DEF RowTypeOK
<1>4. chore'[g] = j /\ \A k \in Routine \ {g} : chore'[k] = chore[k]
  BY <1>2 DEF RowTypeOK
<1> QED  BY <1>2, <1>3, <1>4

LEMMA RestType ==
    /\ NoChore \in Chore /\ NoChore.do = "none" /\ NoChore.at = "rest" /\ NoChore.by = Absent
    /\ NoChore.id = 0 /\ NoChore.row = Absent /\ NoChore.read = Absent
  BY DEF NoChore, Chore

\* A step that changes the program counter of g, and one that ends its job.
LEMMA StepTypes ==
    ASSUME RowTypeOK, NEW g \in Routine,
           NEW p \in {"rest", "find", "look", "lookFill", "kick", "check", "checkFill",
                      "write", "clear", "create"}, ChoreTo(g, p)
    PROVE  /\ chore' \in [Routine -> Chore] /\ chore'[g].at = p
           /\ chore'[g].do = chore[g].do /\ chore'[g].by = chore[g].by /\ chore'[g].id = chore[g].id
           /\ chore'[g].row = chore[g].row /\ chore'[g].read = chore[g].read
           /\ \A k \in Routine \ {g} : chore'[k] = chore[k]
  BY DEF RowTypeOK, ChoreTo, Chore

LEMMA FinishTypes ==
    ASSUME RowTypeOK, NEW g \in Routine, Finishes(g)
    PROVE  /\ chore' \in [Routine -> Chore] /\ chore'[g] = NoChore
           /\ \A k \in Routine \ {g} : chore'[k] = chore[k]
  BY RestType DEF RowTypeOK, Finishes

LEMMA FoundIs ==
    ASSUME RowTypeOK, NEW c \in FoundCopy
    PROVE  /\ c \in Copy /\ c.id \in Id /\ c.row \in UserDevice
           /\ (c = named /\ named # Absent) \/ c.id \in RowIds
  BY DEF RowTypeOK, FoundCopy, RowIds, IsFirst, Copy

LEMMA ChangedType ==
    ASSUME NEW j \in Chore, j.row # Absent, j.do \in TakeOver => j.by \in DeviceUser
    PROVE  Changed(j) \in UserDevice
  BY DEF Chore, Changed, UserDevice, Callback, TakeOver

LEMMA UpsertType ==
    ASSUME RowTypeOK, NEW u \in DeviceUser, NEW o \in BOOLEAN
    PROVE  /\ Upsert(u, o) \in [Id -> UserDevice \cup {Absent}]
           /\ \A i \in Id : /\ i \notin listed[u] => Upsert(u, o)[i] = device[i]
                            /\ i \in listed[u] => Upsert(u, o)[i].owner = u /\ Upsert(u, o)[i] # Absent
                            /\ i \in listed[u] /\ i \in RowIds => Upsert(u, o)[i].online = device[i].online
  BY RowConstants DEF RowTypeOK, Upsert, RowIds, UserDevice

LEMMA RowTypeInit == RowInit => RowTypeOK
  BY RowConstants, RestType DEF RowInit, RowTypeOK, UserDevice

LEMMA FindTypes ==
    ASSUME RowTypeOK, JobsFit, NEW g \in Routine, FindByName(g)
    PROVE  RowTypeOK'
<1>1. CASE FoundCopy = {}
  BY <1>1, StepTypes, FinishTypes DEF FindByName, RowTypeOK
<1>2. ASSUME NEW c \in FoundCopy, named' = c, Finishes(g), UNCHANGED <<astray, doubt>>
      PROVE  RowTypeOK'
  BY <1>2, FinishTypes, FoundIs DEF FindByName, RowTypeOK
<1>3. ASSUME NEW c \in FoundCopy, named' = c,
             chore' = [chore EXCEPT ![g].at = "check", ![g].id = c.id,
                       ![g].row = IF chore[g].do = "register" THEN Absent ELSE c.row],
             astray' \in {astray, astray \cup {"kept"}}, doubt' \in {doubt, doubt \cup {"kept"}}
      PROVE  RowTypeOK'
  <2> DEFINE r == IF chore[g].do = "register" THEN Absent ELSE c.row
  <2>1. r \in UserDevice \cup {Absent} /\ c.id \in Id
    BY FoundIs
  <2>2. chore' = [chore EXCEPT ![g].at = "check", ![g].id = c.id, ![g].row = r]
    BY <1>3
  <2> HIDE DEF r
  <2>3. [chore[g] EXCEPT !.at = "check", !.id = c.id, !.row = r] \in Chore
    <3>1. chore[g] \in Chore
      BY DEF RowTypeOK
    <3> DEFINE i == c.id
    <3>2. i \in Id
      BY <2>1
    <3> HIDE DEF i
    <3>3. [chore[g] EXCEPT !.at = "check", !.id = i, !.row = r] \in Chore
      BY <2>1, <3>1, <3>2 DEF Chore
    <3> QED  BY <3>3 DEF i
  <2>4. chore' \in [Routine -> Chore]
    BY <2>2, <2>3 DEF RowTypeOK
  <2> QED  BY <1>3, <2>4, FoundIs DEF FindByName, RowTypeOK
<1> QED  BY <1>1, <1>2, <1>3 DEF FindByName

LEMMA LookTypes ==
    ASSUME RowTypeOK, JobsFit, NEW g \in Routine, Look(g)
    PROVE  RowTypeOK'
<1>1. chore[g].id \in Id
  BY RowConstants DEF RowTypeOK, Chore, JobsFit, Begun, Look, ChoreAt, Id
<1>2. chore' \in [Routine -> Chore]
  BY <1>1, FinishTypes DEF RowTypeOK, Chore, Look
<1>3. astray' \in {astray, astray \cup {"late"}} /\ doubt' \in {doubt, doubt \cup {"late"}}
  BY DEF Look
<1> QED  BY <1>2, <1>3 DEF Look, RowTypeOK

LEMMA FillTypes ==
    ASSUME RowTypeOK, JobsFit, NEW g \in Routine, Fill(g)
    PROVE  RowTypeOK'
<1>1. chore[g].id \in Id /\ chore[g].read \in UserDevice
  <2>1. chore[g].at \in {"lookFill", "checkFill"} /\ chore[g] \in Chore /\ Begun(chore[g])
    BY DEF RowTypeOK, JobsFit, Fill, ChoreAt
  <2>2. chore[g].id \in 1..newest /\ chore[g].read # Absent
    BY <2>1 DEF Begun
  <2> QED  BY <2>1, <2>2, RowConstants DEF RowTypeOK, Chore, Id
<1> DEFINE p == IF ChoreAt(g, "checkFill") THEN "write" ELSE IF chore[g].do = "kick" THEN "kick" ELSE "check"
<1>2. chore' \in [Routine -> Chore]
  <2>1. p \in {"write", "kick", "check"}
    OBVIOUS
  <2>2. chore' = [chore EXCEPT ![g].read = Absent, ![g].at = p]
    BY DEF Fill
  <2> HIDE DEF p
  <2>3. [chore[g] EXCEPT !.read = Absent, !.at = p] \in Chore
    <3>1. chore[g] \in Chore
      BY DEF RowTypeOK
    <3> QED  BY <2>1, <3>1 DEF Chore
  <2> QED  BY <2>2, <2>3 DEF RowTypeOK
<1>3. copyOf' \in [Id -> UserDevice \cup {Absent}] /\ late' \subseteq Id
  BY <1>1 DEF Fill, RowTypeOK
<1> QED  BY <1>2, <1>3 DEF Fill, RowTypeOK

LEMMA FindAgainTypes ==
    ASSUME RowTypeOK, JobsFit, NEW g \in Routine, FindAgain(g)
    PROVE  RowTypeOK'
<1>1. chore[g].id \in Id
  BY RowConstants DEF RowTypeOK, Chore, JobsFit, Begun, FindAgain, ChoreAt, Id
<1>2. chore' \in [Routine -> Chore]
  <2>1. CASE ChoreTo(g, "write") \/ ChoreTo(g, "create")
    BY <2>1, StepTypes
  <2>2. CASE Finishes(g)
    BY <2>2, FinishTypes
  <2>3. ASSUME device[chore[g].id] # Absent,
               chore' = [chore EXCEPT ![g].read = device[chore[g].id], ![g].at = "checkFill"]
        PROVE  chore' \in [Routine -> Chore]
    <3> DEFINE r == device[chore[g].id]
    <3>1. r \in UserDevice
      BY <1>1, <2>3 DEF RowTypeOK
    <3>2. chore[g] \in Chore
      BY DEF RowTypeOK
    <3>3. chore' = [chore EXCEPT ![g].read = r, ![g].at = "checkFill"]
      BY <2>3
    <3> HIDE DEF r
    <3>4. [chore[g] EXCEPT !.read = r, !.at = "checkFill"] \in Chore
      BY <3>1, <3>2 DEF Chore
    <3> QED  BY <3>3, <3>4 DEF RowTypeOK
  <2> QED  BY <2>1, <2>2, <2>3 DEF FindAgain, RowIds
<1>3. doubt' \in {doubt, doubt \cup {"dead"}}
  BY DEF FindAgain
<1> QED  BY <1>2, <1>3 DEF FindAgain, RowTypeOK

LEMMA SaveTypes ==
    ASSUME RowTypeOK, JobsFit, NEW g \in Routine, Save(g)
    PROVE  RowTypeOK'
<1>1. chore[g] \in Chore /\ chore[g].id \in Id /\ chore[g].row # Absent /\ (chore[g].do \in TakeOver => chore[g].by \in DeviceUser)
  BY RowConstants DEF RowTypeOK, Chore, JobsFit, Begun, Save, ChoreAt, Id, ByName
<1>2. Changed(chore[g]) \in UserDevice
  BY <1>1, ChangedType
<1>3. chore' \in [Routine -> Chore]
  BY <1>1 DEF RowTypeOK, Chore, Save
<1>4. device' \in [Id -> UserDevice \cup {Absent}]
  BY <1>1, <1>2 DEF RowTypeOK, Save
<1>5. astray' \subseteq astray \cup {"mixed", "twice"} /\ holder' \in DeviceUser
  BY <1>1 DEF Save, TakenBy, MixedOwner, Twice, RowTypeOK
<1>6. doubt' \subseteq doubt \cup {"mixed", "twice"}
  BY DEF Save, MixedState, Twice
<1> QED  BY <1>3, <1>4, <1>5, <1>6 DEF Save, RowTypeOK

LEMMA DeleteTypes ==
    ASSUME RowTypeOK, JobsFit, NEW g \in Routine, Delete(g)
    PROVE  RowTypeOK'
<1>1. chore' \in [Routine -> Chore]
  BY StepTypes DEF Delete
<1>2. device' \in [Id -> UserDevice \cup {Absent}]
  BY DEF RowTypeOK, Delete
<1>3. astray' \subseteq astray \cup {"mixed"} /\ doubt' \subseteq doubt \cup {"mixed"}
  BY DEF Delete, MixedOwner, MixedState
<1> QED  BY <1>1, <1>2, <1>3 DEF Delete, RowTypeOK

LEMMA ClearTypes ==
    ASSUME RowTypeOK, JobsFit, NEW g \in Routine, Clear(g)
    PROVE  RowTypeOK'
<1>1. chore' \in [Routine -> Chore]
  BY StepTypes, FinishTypes DEF Clear
<1>2. copyOf' \in [Id -> UserDevice \cup {Absent}] /\ late' \subseteq Id
  BY DEF Clear, RowTypeOK
<1> QED  BY <1>1, <1>2 DEF Clear, RowTypeOK

LEMMA CreateTypes ==
    ASSUME RowTypeOK, JobsFit, NEW g \in Routine, Create(g)
    PROVE  RowTypeOK'
<1>1. chore' \in [Routine -> Chore]
  BY FinishTypes DEF Create
<1>2. chore[g].by \in DeviceUser
  BY DEF Create, ChoreAt, JobsFit, Begun, ByName, TakeOver
<1>3. CASE chore[g].do = "register" /\ chore[g].by \in members
  BY <1>1, <1>3 DEF Create, RowTypeOK
<1>4. CASE ~(chore[g].do = "register" /\ chore[g].by \in members)
  <2> DEFINE u == chore[g].by
  <2>1. newest' = newest + 1 /\ newest' \in Id
    BY <1>4, RowConstants DEF Create, RowTypeOK, Id
  <2>2. PICK o \in BOOLEAN :
          LET d == [Upsert(u, o) EXCEPT ![newest'] = [owner |-> u, online |-> FALSE]]
          IN  /\ device' = d /\ TakenBy(g, u, d)
              /\ doubt' = doubt \cup Twice(d) \cup MixedState(g)
                                \cup (IF online # {} THEN {"anew"} ELSE {})
    BY <1>4 DEF Create
  <2>3. device' \in [Id -> UserDevice \cup {Absent}]
    BY <1>2, <2>1, <2>2, UpsertType, RowConstants
  <2>4. astray' \subseteq {"mixed", "twice"} /\ holder' = u
    BY <2>2 DEF TakenBy, MixedOwner, Twice
  <2>5. doubt' \subseteq doubt \cup {"mixed", "twice", "anew"}
    BY <2>2 DEF MixedState, Twice
  <2>6. late' = late \cup listed[u] /\ listed' = [listed EXCEPT ![u] = {}] /\ members' = members \cup {u}
        /\ UNCHANGED <<copyOf, named, online, slice, begun, blows>>
    BY <1>4 DEF Create
  <2> HIDE DEF u
  <2>7. u \in DeviceUser
    BY <1>2 DEF u
  <2>8. late' \subseteq Id /\ listed' \in [DeviceUser -> SUBSET Id] /\ members' \subseteq DeviceUser
    BY <2>6, <2>7 DEF RowTypeOK
  <2> QED  BY <1>1, <2>1, <2>3, <2>4, <2>5, <2>6, <2>7, <2>8 DEF RowTypeOK
<1> QED  BY <1>3, <1>4

LEMMA SaveUserTypes ==
    ASSUME RowTypeOK, NEW u \in DeviceUser, SaveWithDevices(u)
    PROVE  RowTypeOK'
<1>1. device' \in [Id -> UserDevice \cup {Absent}]
  BY UpsertType DEF SaveWithDevices
<1>2. astray' \in {astray, astray \cup {"user"}} /\ doubt' \in {doubt, doubt \cup {"user"}}
  BY DEF SaveWithDevices
<1>3. late' \subseteq Id /\ listed' \in [DeviceUser -> SUBSET Id]
  BY DEF SaveWithDevices, RowTypeOK
<1>4. blows' \in 0..MaxBlows
  BY RowConstants DEF SaveWithDevices, Blow, RowTypeOK
<1> QED  BY <1>1, <1>2, <1>3, <1>4 DEF SaveWithDevices, RowTypeOK

LEMMA RowTypeStep ==
    ASSUME RowTypeOK, JobsFit, [RowNext]_rowVars
    PROVE  RowTypeOK'
<1>1. ASSUME NEW g \in Routine, NEW u \in DeviceUser, Connect(g, u)  PROVE RowTypeOK'
  <2>1. named' \in Copy
    BY <1>1, FoundIs DEF Connect
  <2>2. begun' \in 0..MaxRoutines /\ chore' \in [Routine -> Chore]
    BY <1>1, BeginTypes DEF Connect, ByName, Callback
  <2>3. doubt' \subseteq doubt \cup {"raced"}
    BY <1>1 DEF Connect, Raced
  <2> QED  BY <1>1, <2>1, <2>2, <2>3 DEF Connect, RowTypeOK
<1>2. ASSUME NEW g \in Routine, NEW u \in DeviceUser, Disconnect(g, u) \/ ListExpires(g, u)
      PROVE  RowTypeOK'
  <2>0. Loses(g, u) /\ slice' \in Slice \cup {Absent}
    <3>1. [user |-> u, on |-> FALSE] \in Slice
      BY DEF Slice
    <3>2. slice \in Slice \cup {Absent}
      BY DEF RowTypeOK
    <3> QED  BY <1>2, <3>1, <3>2 DEF Disconnect, ListExpires
  <2>1. begun' \in 0..MaxRoutines /\ chore' \in [Routine -> Chore]
    BY <2>0, BeginTypes DEF Loses, ByName, Callback
  <2>2. doubt' \subseteq doubt \cup {"raced", "shared"}
    BY <2>0 DEF Loses, Raced
  <2> QED  BY <2>0, <2>1, <2>2 DEF Loses, RowTypeOK
<1>3. ASSUME NEW u \in DeviceUser, Evict(u)  PROVE RowTypeOK'
  BY <1>3, RowConstants DEF Evict, Blow, RowTypeOK
<1>4. ASSUME NEW g \in Routine, Request(g)  PROVE RowTypeOK'
  <2>1. \A i \in 1..newest : i \in Id
    BY RowConstants DEF RowTypeOK, Id
  <2>2. begun' \in 0..MaxRoutines /\ chore' \in [Routine -> Chore]
    <3>1. ASSUME NEW u \in members, NEW do \in TakeOver, Begin(g, do, u, 0)
          PROVE  begun' \in 0..MaxRoutines /\ chore' \in [Routine -> Chore]
      BY <3>1, BeginTypes DEF ByName, RowTypeOK
    <3>2. ASSUME NEW u \in DeviceUser \ members, Begin(g, "register", u, 0)
          PROVE  begun' \in 0..MaxRoutines /\ chore' \in [Routine -> Chore]
      BY <3>2, BeginTypes DEF ByName
    <3>3. ASSUME NEW i \in 1..newest, NEW do \in ById, Begin(g, do, Absent, i)
          PROVE  begun' \in 0..MaxRoutines /\ chore' \in [Routine -> Chore]
      BY <2>1, <3>3, BeginTypes
    <3> QED  BY <1>4, <3>1, <3>2, <3>3 DEF Request
  <2> QED  BY <1>4, <2>2 DEF Request, RowTypeOK
<1>5. ASSUME NEW g \in Routine, KickOffline(g)  PROVE RowTypeOK'
  <2>1. chore' \in [Routine -> Chore]
    BY <1>5, StepTypes DEF KickOffline
  <2>2. doubt' \subseteq doubt \cup {"raced", "missed"}
    BY <1>5 DEF KickOffline, Raced
  <2> QED  BY <1>5, <2>1, <2>2 DEF KickOffline, RowTypeOK
<1>6. ASSUME NEW g \in Routine, Fails(g)  PROVE RowTypeOK'
  <2>1. chore' \in [Routine -> Chore]
    BY <1>6, FinishTypes DEF Fails
  <2>2. doubt' \subseteq doubt \cup {"failed"} /\ blows' \in 0..MaxBlows
    BY <1>6, RowConstants DEF Fails, Blow, RowTypeOK
  <2>3. late' \subseteq Id
    <3>1. ChoreAt(g, "clear") => chore[g].id \in Id
      BY RowConstants DEF RowTypeOK, Chore, JobsFit, Begun, ChoreAt, Id
    <3> QED  BY <1>6, <3>1 DEF Fails, RowTypeOK
  <2> QED  BY <1>6, <2>1, <2>2, <2>3 DEF Fails, RowTypeOK
<1>7. ASSUME NEW u \in DeviceUser, LoadUser(u)  PROVE RowTypeOK'
  BY <1>7 DEF LoadUser, RowTypeOK, RowIds
<1>8. ASSUME Expire  PROVE RowTypeOK'
  <2>1. blows' \in 0..MaxBlows
    BY <1>8, RowConstants DEF Expire, Blow, RowTypeOK
  <2>2. copyOf' \in [Id -> UserDevice \cup {Absent}] /\ late' \subseteq Id /\ named' \in Copy \cup {Absent}
    BY <1>8 DEF Expire, RowTypeOK
  <2> QED  BY <1>8, <2>1, <2>2 DEF Expire, RowTypeOK
<1>9. ASSUME NEW u \in DeviceUser, TakeList(u)  PROVE RowTypeOK'
  <2>1. slice' \in Slice
    BY <1>9 DEF TakeList, Slice
  <2>2. blows' \in 0..MaxBlows
    BY <1>9, RowConstants DEF TakeList, Blow, RowTypeOK
  <2> QED  BY <1>9, <2>1, <2>2 DEF TakeList, RowTypeOK
<1>10. ASSUME StoreList  PROVE RowTypeOK'
  <2>1. slice.user \in DeviceUser
    BY <1>10 DEF StoreList, RowTypeOK, Slice
  <2>2. online' \subseteq DeviceUser /\ doubt' \subseteq doubt \cup {"heartbeat"}
    BY <1>10, <2>1 DEF StoreList, RowTypeOK
  <2> QED  BY <1>10, <2>2 DEF StoreList, RowTypeOK
<1>11. CASE UNCHANGED rowVars
  BY <1>11 DEF rowVars, RowTypeOK
<1> QED
  BY <1>1, <1>2, <1>3, <1>4, <1>5, <1>6, <1>7, <1>8, <1>9, <1>10, <1>11, FindTypes, LookTypes,
     FillTypes, FindAgainTypes, SaveTypes, DeleteTypes, ClearTypes, CreateTypes, SaveUserTypes
  DEF RowNext, Work

(***************************************************************************)
(* What the jobs hold at each of their steps.                              *)
(***************************************************************************)
\* A job past its finding has a row's id.
LEMMA JobHasId ==
    ASSUME RowTypeOK, JobsFit, NEW g \in Routine, chore[g].at \notin {"rest", "find", "create"}
    PROVE  \E i \in Id : i = chore[g].id
<1>1. chore[g].id \in 1..newest
  BY DEF JobsFit, Begun
<1>2. newest \in Nat /\ MaxInserted \in Nat /\ newest <= MaxInserted
  BY RowConstants DEF RowTypeOK, Id
<1>3. chore[g].id \in Id
  BY <1>1, <1>2 DEF Id
<1> QED  BY <1>3

LEMMA FitInit == RowInit => JobsFit
<1> SUFFICES ASSUME RowInit  PROVE JobsFit
  OBVIOUS
<1>1. \A g \in Routine : chore[g] = NoChore
  BY DEF RowInit
<1>2. \A g \in Routine : Begun(chore[g])
  BY <1>1, RestType DEF Begun, ByName, Callback, TakeOver
<1>3. \A i \in Id : i > newest => device[i] = Absent /\ copyOf[i] = Absent
  BY RowConstants DEF RowInit, Id
<1> QED  BY <1>2, <1>3 DEF RowInit, JobsFit

\* The jobs fit when that of g does, and there are no fewer rows.
LEMMA JobsFitAfter ==
    ASSUME RowTypeOK, JobsFit, RowTypeOK', NEW g \in Routine,
           \A k \in Routine \ {g} : chore'[k] = chore[k], newest <= newest',
           Begun(chore[g])'
    PROVE  \A k \in Routine : Begun(chore[k])'
<1>1. newest \in Nat /\ newest' \in Nat
  BY RowConstants DEF RowTypeOK
<1> SUFFICES ASSUME NEW k \in Routine, k # g  PROVE Begun(chore[k])'
  OBVIOUS
<1>2. chore'[k] = chore[k] /\ Begun(chore[k])
  BY DEF JobsFit
<1>3. \A i \in 1..newest : i \in 1..newest'
  BY <1>1
<1> HIDE DEF JobsFit
<1> QED  BY <1>2, <1>3 DEF Begun

LEMMA RestFits == ASSUME NEW g \in Routine, chore'[g] = NoChore  PROVE Begun(chore[g])'
  BY RestType DEF Begun, ByName, Callback, TakeOver

LEMMA BeginFits ==
    ASSUME RowTypeOK, JobsFit, RowTypeOK', NEW g \in Routine, NEW do \in ByName \cup ById,
           NEW by \in DeviceUser \cup {Absent}, NEW i \in Id \cup {0}, Begin(g, do, by, i),
           do \in ByName => by \in DeviceUser, do \in ById => i \in 1..newest, newest' = newest
    PROVE  \A k \in Routine : Begun(chore[k])'
<1>1. /\ chore'[g].do = do /\ chore'[g].by = by /\ chore'[g].id = i /\ chore'[g].row = Absent
      /\ \A k \in Routine \ {g} : chore'[k] = chore[k]
      /\ chore'[g].at = IF do \in ByName THEN "find" ELSE IF do = "delete" THEN "check" ELSE "look"
  BY BeginTypes
<1>2. Begun(chore[g])'
  BY <1>1 DEF Begun, ByName, ById, Callback, TakeOver
<1>3. newest <= newest'
  BY RowConstants DEF RowTypeOK
<1> QED  BY <1>1, <1>2, <1>3, JobsFitAfter

LEMMA FitStep ==
    ASSUME RowTypeOK, JobsFit, RowTypeOK', [RowNext]_rowVars
    PROVE  JobsFit'
<1>0. newest \in Nat /\ newest <= newest
  BY RowConstants DEF RowTypeOK
<1>1. ASSUME NEW g \in Routine, NEW u \in DeviceUser, Connect(g, u)  PROVE JobsFit'
  <2>1. \A k \in Routine : Begun(chore[k])'
    BY <1>1, BeginFits DEF Connect, ByName, ById, Callback, TakeOver
  <2>2. named' # Absent => named'.id <= newest
    <3>1. PICK c \in FoundCopy : named' = c
      BY <1>1 DEF Connect
    <3>2. c.id \in Id /\ ((c = named /\ named # Absent) \/ device[c.id] # Absent)
      BY <3>1, FoundIs DEF RowIds
    <3>3. c.id <= newest
      <4>1. CASE c = named /\ named # Absent
        BY <3>2, <4>1 DEF JobsFit
      <4>2. CASE device[c.id] # Absent
        <5>1. c.id \in Nat /\ ~(c.id > newest)
          BY <3>2, <4>2, RowConstants DEF JobsFit
        <5> QED  BY <1>0, <5>1
      <4> QED  BY <3>2, <4>1, <4>2
    <3> QED  BY <3>1, <3>3
  <2> QED  BY <1>1, <2>1, <2>2 DEF Connect, JobsFit
<1>2. ASSUME NEW g \in Routine, NEW u \in DeviceUser, Loses(g, u)  PROVE JobsFit'
  <2>1. \A k \in Routine : Begun(chore[k])'
    BY <1>2, BeginFits DEF Loses, ByName, ById, Callback, TakeOver
  <2> QED  BY <1>2, <2>1 DEF Loses, JobsFit
<1>3. ASSUME \/ StoreList
             \/ \E u \in DeviceUser : Evict(u) \/ TakeList(u)
      PROVE  JobsFit'
  BY <1>3 DEF Evict, TakeList, StoreList, JobsFit, Begun
<1>4. ASSUME NEW g \in Routine, Request(g)  PROVE JobsFit'
  <2>1. \A i \in 1..newest : i \in Id
    BY RowConstants DEF RowTypeOK, Id
  <2>2. \A k \in Routine : Begun(chore[k])'
    <3>1. ASSUME NEW u \in members, NEW do \in TakeOver, Begin(g, do, u, 0)
          PROVE  \A k \in Routine : Begun(chore[k])'
      <4>1. u \in DeviceUser /\ do \in ByName /\ do \notin ById
        BY DEF RowTypeOK, ByName, ById, TakeOver
      <4> QED  BY <1>4, <3>1, <4>1, BeginFits DEF Request
    <3>2. ASSUME NEW u \in DeviceUser \ members, Begin(g, "register", u, 0)
          PROVE  \A k \in Routine : Begun(chore[k])'
      BY <1>4, <3>2, BeginFits DEF Request, ByName, ById
    <3>3. ASSUME NEW i \in 1..newest, NEW do \in ById, Begin(g, do, Absent, i)
          PROVE  \A k \in Routine : Begun(chore[k])'
      <4>1. do \notin ByName
        BY DEF ByName, ById, Callback, TakeOver
      <4> QED  BY <1>4, <2>1, <3>3, <4>1, BeginFits DEF Request
    <3> QED  BY <1>4, <3>1, <3>2, <3>3 DEF Request
  <2> QED  BY <1>4, <2>2 DEF Request, JobsFit
<1>5. ASSUME NEW g \in Routine, FindByName(g)  PROVE JobsFit'
  <2>0. Begun(chore[g]) /\ chore[g].at = "find"
    BY <1>5 DEF JobsFit, FindByName, ChoreAt
  <2>1. CASE FoundCopy = {}
    <3>1. Begun(chore[g])' /\ \A k \in Routine \ {g} : chore'[k] = chore[k]
      <4>1. CASE ChoreTo(g, "create") /\ chore[g].do \in {"login", "register"}
        BY <2>0, <4>1, StepTypes DEF Begun, ByName, TakeOver
      <4>2. CASE Finishes(g)
        BY <4>2, FinishTypes, RestFits
      <4> QED  BY <1>5, <2>1, <4>1, <4>2 DEF FindByName
    <3>2. \A k \in Routine : Begun(chore[k])'
      BY <1>0, <1>5, <3>1, JobsFitAfter DEF FindByName
    <3> QED  BY <1>5, <2>1, <3>2 DEF FindByName, JobsFit
  <2>2. ASSUME NEW c \in FoundCopy, named' = c,
               \/ Finishes(g)
               \/ chore' = [chore EXCEPT ![g].at = "check", ![g].id = c.id,
                            ![g].row = IF chore[g].do = "register" THEN Absent ELSE c.row]
        PROVE  JobsFit'
    <3>1. c.id \in 1..newest /\ c.row \in UserDevice
      <4>1. c.id \in Id /\ c.row \in UserDevice /\ ((c = named /\ named # Absent) \/ device[c.id] # Absent)
        BY FoundIs DEF RowIds
      <4>2. c.id <= newest
        <5>1. CASE c = named /\ named # Absent
          BY <4>1, <5>1 DEF JobsFit
        <5>2. CASE device[c.id] # Absent
          <6>1. c.id \in Nat /\ ~(c.id > newest)
            BY <4>1, <5>2, RowConstants DEF JobsFit
          <6> QED  BY <1>0, <6>1
        <5> QED  BY <4>1, <5>1, <5>2
      <4> QED  BY <1>0, <4>1, <4>2, RowConstants DEF Id
    <3>2. Begun(chore[g])' /\ \A k \in Routine \ {g} : chore'[k] = chore[k]
      <4>1. CASE Finishes(g)
        BY <4>1, FinishTypes, RestFits
      <4>2. CASE chore' = [chore EXCEPT ![g].at = "check", ![g].id = c.id,
                           ![g].row = IF chore[g].do = "register" THEN Absent ELSE c.row]
        <5>1. chore'[g] = [chore[g] EXCEPT !.at = "check", !.id = c.id,
                           !.row = IF chore[g].do = "register" THEN Absent ELSE c.row]
              /\ \A k \in Routine \ {g} : chore'[k] = chore[k]
          BY <4>2 DEF RowTypeOK
        <5>2. /\ chore'[g].at = "check" /\ chore'[g].id = c.id /\ chore'[g].do = chore[g].do
              /\ chore'[g].by = chore[g].by
              /\ chore'[g].row = IF chore[g].do = "register" THEN Absent ELSE c.row
          BY <5>1 DEF RowTypeOK, Chore
        <5>3. chore[g].do \in ByName
          BY <2>0 DEF Begun
        <5>4. c.row # Absent /\ UNCHANGED newest
          BY <1>5, <3>1, RowConstants DEF FindByName
        <5>5. chore[g].do \notin {"none", "delete"} /\ (chore[g].do \in ByName => chore[g].by \in DeviceUser)
          BY <2>0, <5>3 DEF Begun, ByName, Callback, TakeOver
        <5>6. Begun(chore[g])'
          BY <3>1, <5>2, <5>4, <5>5 DEF Begun
        <5> QED  BY <5>1, <5>6
      <4> QED  BY <2>2, <4>1, <4>2
    <3>3. \A k \in Routine : Begun(chore[k])'
      BY <1>0, <1>5, <3>2, JobsFitAfter DEF FindByName
    <3>4. UNCHANGED <<newest, device, copyOf, listed>>
      BY <1>5 DEF FindByName
    <3>5. named'.id <= newest'
      BY <1>0, <2>2, <3>1, <3>4
    <3> QED  BY <3>3, <3>4, <3>5 DEF JobsFit
  <2> QED  BY <1>5, <2>1, <2>2 DEF FindByName
<1>6. ASSUME NEW g \in Routine, Look(g)  PROVE JobsFit'
  <2> DEFINE i == chore[g].id
             next == IF chore[g].do = "kick" THEN "kick" ELSE "check"
  <2>0. Begun(chore[g]) /\ chore[g].at = "look" /\ i \in 1..newest
    BY <1>6 DEF JobsFit, Look, ChoreAt, Begun
  <2>1. chore[g].do \in {"edit", "kick"}
    BY <2>0 DEF Begun
  <2>2. Begun(chore[g])' /\ \A k \in Routine \ {g} : chore'[k] = chore[k]
    <3>1. CASE Finishes(g)
      BY <3>1, FinishTypes, RestFits
    <3>2. CASE copyOf[i] # Absent /\ chore' = [chore EXCEPT ![g].row = copyOf[i], ![g].at = next]
      <4>1. /\ chore'[g].at = next /\ chore'[g].id = i /\ chore'[g].do = chore[g].do
            /\ chore'[g].row = copyOf[i] /\ \A k \in Routine \ {g} : chore'[k] = chore[k]
        BY <3>2 DEF RowTypeOK, Chore
      <4>2. next \in {"kick", "check"} /\ (next = "kick" => chore[g].do = "kick")
        OBVIOUS
      <4>3. newest' = newest
        BY <1>6 DEF Look
      <4> HIDE DEF i, next
      <4> QED  BY <2>0, <2>1, <3>2, <4>1, <4>2, <4>3 DEF Begun, ByName, Callback, TakeOver
    <3>3. CASE i \in RowIds /\ chore' = [chore EXCEPT ![g].row = device[i], ![g].read = device[i],
                                               ![g].at = "lookFill"]
      <4>1. /\ chore'[g].at = "lookFill" /\ chore'[g].id = i /\ chore'[g].do = chore[g].do
            /\ chore'[g].row = device[i] /\ chore'[g].read = device[i]
            /\ \A k \in Routine \ {g} : chore'[k] = chore[k]
        BY <3>3 DEF RowTypeOK, Chore
      <4>2. device[i] # Absent
        BY <3>3 DEF RowIds
      <4> HIDE DEF i
      <4> QED  BY <1>6, <2>0, <2>1, <4>1, <4>2 DEF Look, Begun, ByName, Callback, TakeOver
    <3> QED  BY <1>6, <3>1, <3>2, <3>3 DEF Look
  <2>3. \A k \in Routine : Begun(chore[k])'
    BY <1>0, <1>6, <2>2, JobsFitAfter DEF Look
  <2> QED  BY <1>6, <2>3 DEF Look, JobsFit
<1>7. ASSUME NEW g \in Routine, Fill(g)  PROVE JobsFit'
  <2> DEFINE p == IF ChoreAt(g, "checkFill") THEN "write" ELSE IF chore[g].do = "kick" THEN "kick" ELSE "check"
  <2>0. Begun(chore[g]) /\ chore[g].at \in {"lookFill", "checkFill"} /\ chore[g].id \in 1..newest
    BY <1>7 DEF JobsFit, Fill, ChoreAt, Begun
  <2>1. /\ chore'[g].at = p /\ chore'[g].id = chore[g].id /\ chore'[g].do = chore[g].do
        /\ chore'[g].by = chore[g].by /\ chore'[g].row = chore[g].row
        /\ \A k \in Routine \ {g} : chore'[k] = chore[k]
    BY <1>7 DEF Fill, RowTypeOK, Chore
  <2>2. Begun(chore[g])'
    BY <1>7, <2>0, <2>1 DEF Fill, Begun, ChoreAt
  <2>3. \A k \in Routine : Begun(chore[k])'
    BY <1>0, <1>7, <2>1, <2>2, JobsFitAfter DEF Fill
  <2>4. \A i \in Id : i > newest => copyOf'[i] = Absent
    <3>1. \A i \in Id : i > newest => i # chore[g].id
      BY <1>0, <2>0
    <3> QED  BY <1>7, <3>1 DEF Fill, JobsFit, RowTypeOK
  <2> QED  BY <1>7, <2>3, <2>4 DEF Fill, JobsFit
<1>8. ASSUME NEW g \in Routine, KickOffline(g)  PROVE JobsFit'
  <2>1. Begun(chore[g])' /\ \A k \in Routine \ {g} : chore'[k] = chore[k]
    BY <1>8, StepTypes DEF KickOffline, ChoreAt, JobsFit, Begun, ByName, Callback, TakeOver
  <2>2. \A k \in Routine : Begun(chore[k])'
    BY <1>0, <1>8, <2>1, JobsFitAfter DEF KickOffline
  <2> QED  BY <1>8, <2>2 DEF KickOffline, JobsFit
<1>9. ASSUME NEW g \in Routine, FindAgain(g)  PROVE JobsFit'
  <2> DEFINE i == chore[g].id
  <2>0. Begun(chore[g]) /\ chore[g].at = "check" /\ i \in 1..newest
    BY <1>9 DEF JobsFit, FindAgain, ChoreAt, Begun
  <2>1. Begun(chore[g])' /\ \A k \in Routine \ {g} : chore'[k] = chore[k]
    <3>1. CASE Finishes(g)
      BY <3>1, FinishTypes, RestFits
    <3>2. CASE ChoreTo(g, "write")
      BY <1>9, <2>0, <3>2, StepTypes DEF FindAgain, Begun
    <3>3. CASE i \in RowIds /\ chore' = [chore EXCEPT ![g].read = device[i], ![g].at = "checkFill"]
      <4>1. /\ chore'[g].at = "checkFill" /\ chore'[g].id = i /\ chore'[g].do = chore[g].do
            /\ chore'[g].by = chore[g].by /\ chore'[g].row = chore[g].row /\ chore'[g].read = device[i]
            /\ \A k \in Routine \ {g} : chore'[k] = chore[k]
        BY <3>3 DEF RowTypeOK, Chore
      <4>2. device[i] # Absent
        BY <3>3 DEF RowIds
      <4> HIDE DEF i
      <4> QED  BY <1>9, <2>0, <4>1, <4>2 DEF FindAgain, Begun
    <3>4. CASE ChoreTo(g, "create") /\ chore[g].do = "register"
      BY <1>9, <2>0, <3>4, StepTypes DEF FindAgain, Begun
    <3> QED  BY <1>9, <3>1, <3>2, <3>3, <3>4 DEF FindAgain
  <2>2. \A k \in Routine : Begun(chore[k])'
    BY <1>0, <1>9, <2>1, JobsFitAfter DEF FindAgain
  <2> QED  BY <1>9, <2>2 DEF FindAgain, JobsFit
<1>10. ASSUME NEW g \in Routine, Save(g)  PROVE JobsFit'
  <2>0. Begun(chore[g]) /\ chore[g].at = "write" /\ chore[g].id \in 1..newest
    BY <1>10 DEF JobsFit, Save, ChoreAt, Begun
  <2>1. /\ chore'[g].at = "clear" /\ chore'[g].id = chore[g].id /\ chore'[g].do = chore[g].do
        /\ chore'[g].by = chore[g].by /\ chore'[g].row = Absent
        /\ \A k \in Routine \ {g} : chore'[k] = chore[k]
    BY <1>10 DEF Save, RowTypeOK, Chore
  <2>2. Begun(chore[g])'
    BY <1>10, <2>0, <2>1 DEF Save, Begun
  <2>3. \A k \in Routine : Begun(chore[k])'
    BY <1>0, <1>10, <2>1, <2>2, JobsFitAfter DEF Save
  <2>4. \A i \in Id : i > newest => device'[i] = Absent
    <3>1. \A i \in Id : i > newest => i # chore[g].id
      BY <1>0, <2>0
    <3> QED  BY <1>10, <3>1 DEF Save, JobsFit, RowTypeOK
  <2> QED  BY <1>10, <2>3, <2>4 DEF Save, JobsFit
<1>11. ASSUME NEW g \in Routine, Delete(g)  PROVE JobsFit'
  <2>1. Begun(chore[g])' /\ \A k \in Routine \ {g} : chore'[k] = chore[k]
    BY <1>11, StepTypes DEF Delete, ChoreAt, JobsFit, Begun
  <2>2. \A k \in Routine : Begun(chore[k])'
    BY <1>0, <1>11, <2>1, JobsFitAfter DEF Delete
  <2> QED  BY <1>11, <2>2 DEF Delete, JobsFit, RowTypeOK
<1>12. ASSUME NEW g \in Routine, Clear(g)  PROVE JobsFit'
  <2>1. Begun(chore[g])' /\ \A k \in Routine \ {g} : chore'[k] = chore[k]
    <3>1. CASE Finishes(g)
      BY <3>1, FinishTypes, RestFits
    <3>2. CASE ChoreTo(g, "create") /\ chore[g].do = "register"
      BY <1>12, <3>2, StepTypes DEF Clear, ChoreAt, JobsFit, Begun
    <3> QED  BY <1>12, <3>1, <3>2 DEF Clear
  <2>2. \A k \in Routine : Begun(chore[k])'
    BY <1>0, <1>12, <2>1, JobsFitAfter DEF Clear
  <2> QED  BY <1>12, <2>2 DEF Clear, JobsFit, RowTypeOK
<1>13. ASSUME NEW g \in Routine, Create(g)  PROVE JobsFit'
  <2>1. Begun(chore[g])' /\ \A k \in Routine \ {g} : chore'[k] = chore[k]
    BY <1>13, FinishTypes, RestFits DEF Create
  <2>2. CASE chore[g].do = "register" /\ chore[g].by \in members
    <3>1. UNCHANGED <<newest, device, copyOf, named, listed>>
      BY <1>13, <2>2 DEF Create
    <3>2. \A k \in Routine : Begun(chore[k])'
      BY <1>0, <2>1, <3>1, JobsFitAfter
    <3> QED  BY <3>1, <3>2 DEF JobsFit
  <2>3. CASE ~(chore[g].do = "register" /\ chore[g].by \in members)
    <3> DEFINE u == chore[g].by
    <3>0. u \in DeviceUser
      BY <1>13 DEF Create, ChoreAt, JobsFit, Begun, ByName, TakeOver
    <3>1. /\ newest' = newest + 1 /\ listed' = [listed EXCEPT ![u] = {}]
          /\ UNCHANGED <<copyOf, named>>
      BY <1>13, <2>3 DEF Create
    <3>2. PICK o \in BOOLEAN :
            device' = [Upsert(u, o) EXCEPT ![newest'] = [owner |-> u, online |-> FALSE]]
      BY <1>13, <2>3 DEF Create
    <3> HIDE DEF u
    <3>3. \A i \in Id : i > newest' => device'[i] = Absent
      <4>1. \A i \in Id : i > newest' => i > newest /\ i # newest' /\ i \notin 1..newest
        BY <1>0, <3>1, RowConstants
      <4>2. listed[u] \subseteq 1..newest
        BY <3>0 DEF JobsFit
      <4> QED  BY <3>0, <3>2, <4>1, <4>2, UpsertType DEF JobsFit
    <3>4. \A i \in Id : i > newest' => copyOf'[i] = Absent
      BY <1>0, <3>1, RowConstants DEF JobsFit
    <3>5. \A v \in DeviceUser : listed'[v] \subseteq 1..newest'
      <4>1. 1..newest \subseteq 1..newest'
        BY <1>0, <3>1
      <4> QED  BY <3>0, <3>1, <4>1 DEF JobsFit, RowTypeOK
    <3>6. named' # Absent => named'.id <= newest'
      <4>1. named # Absent => named.id \in Nat
        BY RowConstants DEF RowTypeOK, Copy
      <4> QED  BY <1>0, <3>1, <4>1 DEF JobsFit
    <3>7. \A k \in Routine : Begun(chore[k])'
      BY <1>0, <2>1, <3>1, JobsFitAfter
    <3> QED  BY <3>3, <3>4, <3>5, <3>6, <3>7 DEF JobsFit
  <2> QED  BY <2>2, <2>3
<1>14. ASSUME NEW u \in DeviceUser, LoadUser(u)  PROVE JobsFit'
  <2>1. RowIds \subseteq 1..newest
    BY <1>0, RowConstants DEF RowIds, JobsFit, Id
  <2>2. \A v \in DeviceUser : listed'[v] \subseteq 1..newest
    BY <1>14, <2>1 DEF LoadUser, JobsFit, RowTypeOK
  <2> QED  BY <1>14, <2>2 DEF LoadUser, JobsFit, Begun
<1>15. ASSUME NEW u \in DeviceUser, SaveWithDevices(u)  PROVE JobsFit'
  <2>1. PICK o \in BOOLEAN : device' = Upsert(u, o)
    BY <1>15 DEF SaveWithDevices
  <2>2. \A i \in Id : i > newest => device'[i] = Absent
    <3>1. \A i \in Id : i > newest => i \notin 1..newest
      BY <1>0, RowConstants
    <3>2. listed[u] \subseteq 1..newest
      BY DEF JobsFit
    <3> QED  BY <2>1, <3>1, <3>2, UpsertType DEF JobsFit
  <2>3. \A v \in DeviceUser : listed'[v] \subseteq 1..newest
    BY <1>15 DEF SaveWithDevices, JobsFit, RowTypeOK
  <2> QED  BY <1>15, <2>2, <2>3 DEF SaveWithDevices, JobsFit, Begun
<1>16. ASSUME NEW g \in Routine, Fails(g)  PROVE JobsFit'
  <2>1. Begun(chore[g])' /\ \A k \in Routine \ {g} : chore'[k] = chore[k]
    BY <1>16, FinishTypes, RestFits DEF Fails
  <2>2. \A k \in Routine : Begun(chore[k])'
    BY <1>0, <1>16, <2>1, JobsFitAfter DEF Fails
  <2> QED  BY <1>16, <2>2 DEF Fails, JobsFit
<1>17. ASSUME Expire  PROVE JobsFit'
  BY <1>17 DEF Expire, JobsFit, Begun, RowTypeOK
<1>18. CASE UNCHANGED rowVars
  BY <1>18 DEF rowVars, JobsFit, Begun
<1> QED
  BY <1>1, <1>2, <1>3, <1>4, <1>5, <1>6, <1>7, <1>8, <1>9, <1>10, <1>11, <1>12, <1>13, <1>14,
     <1>15, <1>16, <1>17, <1>18 DEF RowNext, Work, Disconnect, ListExpires

(***************************************************************************)
(* The copy by id.                                                         *)
(***************************************************************************)
LEMMA CopyInit == RowInit => CopyById
  BY DEF RowInit, CopyById

LEMMA BehindStays ==
    ASSUME NEW g \in Routine, chore[g].at # "clear", late \subseteq late',
           \A k \in Routine \ {g} : chore'[k] = chore[k]
    PROVE  \A i \in Id : Behind(i) => Behind(i)'
  BY DEF Behind, ChoreAt

\* A step of a job that neither writes the row nor clears the copy.
LEMMA CopyKept ==
    ASSUME CopyById, NEW g \in Routine, chore[g].at # "clear", UNCHANGED <<device, copyOf, late>>,
           \A k \in Routine \ {g} : chore'[k] = chore[k]
    PROVE  CopyById'
<1>1. \A i \in Id : Behind(i) => Behind(i)'
  BY BehindStays
<1> QED  BY <1>1 DEF CopyById

LEMMA FindMoves ==
    ASSUME RowTypeOK, JobsFit, NEW g \in Routine, FindByName(g)
    PROVE  /\ \A k \in Routine \ {g} : chore'[k] = chore[k]
           /\ \/ chore'[g] = NoChore
              \/ /\ chore'[g].at = "create" /\ chore'[g].row = Absent /\ chore'[g].do = chore[g].do
                 /\ chore[g].do \in {"login", "register"}
              \/ chore'[g].at = "check"
<1>1. CASE ChoreTo(g, "create") /\ chore[g].do \in {"login", "register"}
  BY <1>1, StepTypes DEF FindByName, ChoreAt, JobsFit, Begun
<1>2. CASE Finishes(g)
  BY <1>2, FinishTypes
<1>3. ASSUME NEW i, NEW r, chore' = [chore EXCEPT ![g].at = "check", ![g].id = i, ![g].row = r]
      PROVE  chore'[g].at = "check" /\ \A k \in Routine \ {g} : chore'[k] = chore[k]
  BY <1>3 DEF RowTypeOK, Chore
<1>4. FoundCopy = {} \/ FoundCopy # {}
  OBVIOUS
<1> QED  BY <1>1, <1>2, <1>3, <1>4 DEF FindByName

LEMMA CopyStep ==
    ASSUME RowTypeOK, JobsFit, CopyById, RowTypeOK', [RowNext]_rowVars
    PROVE  CopyById'
<1>1. ASSUME NEW g \in Routine, NEW do \in ByName \cup ById, NEW by \in DeviceUser \cup {Absent},
             NEW i \in Id \cup {0}, Begin(g, do, by, i), UNCHANGED <<device, copyOf, late>>
      PROVE  CopyById'
  BY <1>1, BeginTypes, CopyKept
<1>2. ASSUME NEW g \in Routine, NEW u \in DeviceUser, Connect(g, u)  PROVE CopyById'
  BY <1>1, <1>2 DEF Connect, ByName, Callback
<1>3. ASSUME NEW g \in Routine, NEW u \in DeviceUser, Loses(g, u)  PROVE CopyById'
  BY <1>1, <1>3 DEF Loses, ByName, Callback
<1>4. ASSUME NEW g \in Routine, Request(g)  PROVE CopyById'
  <2>1. \A i \in 1..newest : i \in Id
    BY RowConstants DEF RowTypeOK, Id
  <2>2. members \subseteq DeviceUser /\ TakeOver \subseteq ByName /\ "register" \in ByName
    BY DEF RowTypeOK, ByName
  <2> QED  BY <1>1, <1>4, <2>1, <2>2 DEF Request
<1>5. ASSUME \/ StoreList
             \/ \E u \in DeviceUser : Evict(u) \/ TakeList(u) \/ LoadUser(u)
      PROVE  CopyById'
  BY <1>5 DEF Evict, TakeList, StoreList, LoadUser, CopyById, Behind, ChoreAt
<1>6. ASSUME NEW g \in Routine, FindByName(g)  PROVE CopyById'
  BY <1>6, FindMoves, CopyKept DEF FindByName, ChoreAt
<1>7. ASSUME NEW g \in Routine, Look(g)  PROVE CopyById'
  <2>1. \A k \in Routine \ {g} : chore'[k] = chore[k]
    BY <1>7, FinishTypes DEF Look, RowTypeOK
  <2> QED  BY <1>7, <2>1, CopyKept DEF Look, ChoreAt
<1>8. ASSUME NEW g \in Routine, KickOffline(g)  PROVE CopyById'
  BY <1>8, StepTypes, CopyKept DEF KickOffline, ChoreAt
<1>9. ASSUME NEW g \in Routine, FindAgain(g)  PROVE CopyById'
  <2>1. \A k \in Routine \ {g} : chore'[k] = chore[k]
    BY <1>9, FinishTypes, StepTypes DEF FindAgain, RowTypeOK
  <2> QED  BY <1>9, <2>1, CopyKept DEF FindAgain, ChoreAt
<1>10. ASSUME NEW g \in Routine, Fill(g)  PROVE CopyById'
  <2>0. PICK i \in Id : i = chore[g].id
    BY <1>10, JobHasId DEF Fill, ChoreAt
  <2>1. \A k \in Routine \ {g} : chore'[k] = chore[k]
    BY <1>10 DEF Fill, RowTypeOK
  <2>2. chore[g].at # "clear"
    BY <1>10 DEF Fill, ChoreAt
  <2>3. /\ copyOf' = [copyOf EXCEPT ![i] = chore[g].read] /\ UNCHANGED device
        /\ late' = IF chore[g].read = device[i] THEN late \ {i} ELSE late \cup {i}
    BY <1>10, <2>0 DEF Fill
  <2>4. ASSUME NEW n \in Id, n # i  PROVE copyOf'[n] = Absent \/ Behind(n)' \/ copyOf'[n] = device'[n]
    <3>1. copyOf'[n] = copyOf[n]
      BY <2>3, <2>4 DEF RowTypeOK
    <3>2. Behind(n) => Behind(n)'
      BY <2>1, <2>2, <2>3, <2>4 DEF Behind, ChoreAt
    <3> QED  BY <2>3, <3>1, <3>2 DEF CopyById
  <2>5. copyOf'[i] = device'[i] \/ Behind(i)'
    BY <2>3 DEF Behind, RowTypeOK
  <2> QED  BY <2>4, <2>5 DEF CopyById
<1>11. ASSUME NEW g \in Routine, Save(g) \/ Delete(g)  PROVE CopyById'
  <2>0. PICK i \in Id : i = chore[g].id
    <3>1. chore[g].at = "write"
      BY <1>11 DEF Save, Delete, ChoreAt
    <3> QED  BY <3>1, JobHasId
  <2>1. /\ chore'[g].at = "clear" /\ chore'[g].id = i /\ chore[g].at = "write"
        /\ \A k \in Routine \ {g} : chore'[k] = chore[k]
    <3>1. CASE Save(g)
      BY <2>0, <3>1 DEF Save, ChoreAt, RowTypeOK, Chore
    <3>2. CASE Delete(g)
      BY <2>0, <3>2, StepTypes DEF Delete, ChoreAt
    <3> QED  BY <1>11, <3>1, <3>2
  <2>2. UNCHANGED <<copyOf, late>> /\ \A n \in Id : n # i => device'[n] = device[n]
    BY <1>11, <2>0 DEF Save, Delete, RowTypeOK
  <2>3. Behind(i)'
    BY <2>1 DEF Behind, ChoreAt
  <2>4. \A n \in Id : Behind(n) => Behind(n)'
    BY <2>1, <2>2, BehindStays
  <2> QED  BY <2>2, <2>3, <2>4 DEF CopyById
<1>12. ASSUME NEW g \in Routine, Clear(g)  PROVE CopyById'
  <2> DEFINE i == chore[g].id
  <2>1. \A k \in Routine \ {g} : chore'[k] = chore[k]
    BY <1>12, FinishTypes, StepTypes DEF Clear
  <2>2. copyOf' = [copyOf EXCEPT ![i] = Absent] /\ late' = late \ {i} /\ UNCHANGED device
    BY <1>12 DEF Clear
  <2>3. \A n \in Id : n # i => (Behind(n) => Behind(n)')
    BY <2>1, <2>2 DEF Behind, ChoreAt
  <2> HIDE DEF i
  <2> QED  BY <2>2, <2>3 DEF CopyById, RowTypeOK
<1>13. ASSUME NEW g \in Routine, Create(g)  PROVE CopyById'
  <2>0. /\ chore[g].at # "clear" /\ chore[g].by \in DeviceUser /\ UNCHANGED copyOf
        /\ \A k \in Routine \ {g} : chore'[k] = chore[k]
    BY <1>13, FinishTypes DEF Create, ChoreAt, JobsFit, Begun, ByName, TakeOver
  <2>1. CASE UNCHANGED <<device, late>>
    BY <2>0, <2>1, CopyKept
  <2>2. CASE ~(chore[g].do = "register" /\ chore[g].by \in members)
    <3> DEFINE u == chore[g].by
    <3>1. newest' = newest + 1 /\ late' = late \cup listed[u]
      BY <1>13, <2>2 DEF Create
    <3>2. PICK o \in BOOLEAN :
            device' = [Upsert(u, o) EXCEPT ![newest'] = [owner |-> u, online |-> FALSE]]
      BY <1>13, <2>2 DEF Create
    <3> HIDE DEF u
    <3>3. u \in DeviceUser
      BY <2>0 DEF u
    <3>4. \A n \in Id : Behind(n) => Behind(n)'
      BY <2>0, <3>1, BehindStays
    <3>5. copyOf[newest'] = Absent \/ newest' \notin Id
      BY <3>1, RowConstants DEF JobsFit, RowTypeOK
    <3>6. ASSUME NEW n \in Id, n \notin listed[u], n # newest'  PROVE device'[n] = device[n]
      BY <3>2, <3>3, <3>6, UpsertType
    <3>7. \A n \in listed[u] : Behind(n)'
      BY <3>1 DEF Behind
    <3> QED  BY <2>0, <3>4, <3>5, <3>6, <3>7 DEF CopyById
  <2> QED  BY <1>13, <2>1, <2>2 DEF Create
<1>14. ASSUME NEW u \in DeviceUser, SaveWithDevices(u)  PROVE CopyById'
  <2>1. PICK o \in BOOLEAN : device' = Upsert(u, o)
    BY <1>14 DEF SaveWithDevices
  <2>2. late' = late \cup listed[u] /\ UNCHANGED <<copyOf, chore>>
    BY <1>14 DEF SaveWithDevices
  <2>3. \A n \in Id : n \notin listed[u] => device'[n] = device[n]
    BY <2>1, UpsertType
  <2>4. \A n \in Id : (Behind(n) => Behind(n)') /\ (n \in listed[u] => Behind(n)')
    BY <2>2 DEF Behind, ChoreAt
  <2> QED  BY <2>2, <2>3, <2>4 DEF CopyById
<1>15. ASSUME NEW g \in Routine, Fails(g)  PROVE CopyById'
  <2>1. \A k \in Routine \ {g} : chore'[k] = chore[k]
    BY <1>15, FinishTypes DEF Fails
  <2>2. late \subseteq late' /\ (chore[g].at = "clear" => chore[g].id \in late') /\ UNCHANGED <<device, copyOf>>
    BY <1>15 DEF Fails, ChoreAt
  <2>3. \A n \in Id : Behind(n) => Behind(n)'
    BY <2>1, <2>2 DEF Behind, ChoreAt
  <2> QED  BY <2>2, <2>3 DEF CopyById
<1>16. ASSUME Expire  PROVE CopyById'
  <2>1. CASE UNCHANGED <<copyOf, late>>
    BY <1>16, <2>1 DEF Expire, CopyById, Behind, ChoreAt
  <2>2. ASSUME NEW i \in Id, copyOf' = [copyOf EXCEPT ![i] = Absent], late' = late \ {i}
        PROVE  CopyById'
    <3>1. \A n \in Id : n # i => (Behind(n) => Behind(n)')
      BY <1>16, <2>2 DEF Expire, Behind, ChoreAt
    <3> QED  BY <1>16, <2>2, <3>1 DEF Expire, CopyById, RowTypeOK
  <2> QED  BY <1>16, <2>1, <2>2 DEF Expire
<1>17. CASE UNCHANGED rowVars
  BY <1>17 DEF rowVars, CopyById, Behind, ChoreAt
<1> QED
  BY <1>2, <1>3, <1>4, <1>5, <1>6, <1>7, <1>8, <1>9, <1>10, <1>11, <1>12, <1>13, <1>14,
     <1>15, <1>16, <1>17 DEF RowNext, Work, Disconnect, ListExpires

(***************************************************************************)
(* Whose the device is.                                                    *)
(***************************************************************************)
LEMMA OwnerInit == RowInit => OwnerSafe
<1> SUFFICES ASSUME RowInit  PROVE OwnerSafe
  OBVIOUS
<1>1. \A g \in Routine : chore[g].row = Absent
  BY RestType DEF RowInit
<1>2. PICK u \in DeviceUser :
        /\ device = [i \in Id |-> IF i = 1 THEN [owner |-> u, online |-> FALSE] ELSE Absent]
        /\ holder = u
  BY DEF RowInit
<1>3. \A i \in RowIds : i = 1 /\ device[i].owner = holder
  BY <1>2 DEF RowIds
<1> QED  BY <1>1, <1>3 DEF OwnerSafe, OnlyRow, HoldsOwner

\* A step of g that leaves the rows alone.
LEMMA OwnerSafeOn ==
    ASSUME OwnerSafe, NEW g \in Routine, astray \subseteq astray', UNCHANGED <<device, holder>>,
           \A k \in Routine \ {g} : chore'[k] = chore[k],
           astray' = {} /\ HoldsOwner(g)' => SameOwner(chore[g].id, chore[g].row)'
    PROVE  OwnerSafe'
<1> SUFFICES ASSUME astray' = {}  PROVE OwnerSafe'
  BY DEF OwnerSafe
<1>1. astray = {}
  OBVIOUS
<1>2. OnlyRow' /\ \A i \in RowIds' : device'[i].owner = holder'
  BY <1>1 DEF OwnerSafe, OnlyRow, RowIds
<1>3. ASSUME NEW k \in Routine, k # g, HoldsOwner(k)'  PROVE SameOwner(chore[k].id, chore[k].row)'
  BY <1>1, <1>3 DEF OwnerSafe, HoldsOwner, SameOwner, RowIds
<1> QED  BY <1>2, <1>3 DEF OwnerSafe

\* Nobody else holds a copy when a write of g leaves no doubt.
LEMMA NobodyHolds ==
    ASSUME NEW g \in Routine, MixedOwner(g) = {}, NEW k \in Routine \ {g}
    PROVE  ~HoldsOwner(k)
  BY DEF MixedOwner, Owners, Copies, HoldsOwner

LEMMA SingleRow ==
    ASSUME Twice(device') = {}
    PROVE  OnlyRow'
  BY DEF Twice, OnlyRow, RowIds

\* A step of g that takes the device over for u.
LEMMA TakenSafe ==
    ASSUME NEW g \in Routine, NEW u, NEW i \in Id, TakenBy(g, u, device'),
           device'[i] # Absent, device'[i].owner = u, ~HoldsOwner(g)',
           \A k \in Routine \ {g} : chore'[k] = chore[k]
    PROVE  OwnerSafe'
<1> SUFFICES ASSUME astray' = {}  PROVE OwnerSafe'
  BY DEF OwnerSafe
<1>1. MixedOwner(g) = {} /\ Twice(device') = {} /\ holder' = u
  BY DEF TakenBy
<1>2. OnlyRow'
  BY <1>1, SingleRow
<1>3. \A n \in RowIds' : device'[n].owner = holder'
  BY <1>1, <1>2 DEF OnlyRow, RowIds
<1>4. \A k \in Routine : ~HoldsOwner(k)'
  BY <1>1, NobodyHolds DEF HoldsOwner
<1> QED  BY <1>2, <1>3, <1>4 DEF OwnerSafe

LEMMA OwnerStep ==
    ASSUME RowTypeOK, JobsFit, CopyById, OwnerSafe, RowTypeOK', JobsFit', [RowNext]_rowVars
    PROVE  OwnerSafe'
<1>1. ASSUME NEW g \in Routine, NEW do \in ByName \cup ById, NEW by \in DeviceUser \cup {Absent},
             NEW i \in Id \cup {0}, Begin(g, do, by, i), UNCHANGED <<device, holder, astray>>
      PROVE  OwnerSafe'
  BY <1>1, BeginTypes, OwnerSafeOn DEF HoldsOwner
<1>2. ASSUME NEW g \in Routine, NEW u \in DeviceUser, Connect(g, u) \/ Loses(g, u)  PROVE OwnerSafe'
  BY <1>1, <1>2 DEF Connect, Loses, ByName, Callback
<1>3. ASSUME NEW g \in Routine, Request(g)  PROVE OwnerSafe'
  <2>1. \A i \in 1..newest : i \in Id
    BY RowConstants DEF RowTypeOK, Id
  <2>2. members \subseteq DeviceUser /\ TakeOver \subseteq ByName /\ "register" \in ByName
    BY DEF RowTypeOK, ByName
  <2> QED  BY <1>1, <1>3, <2>1, <2>2 DEF Request
<1>4. ASSUME UNCHANGED <<device, holder, astray, chore>>  PROVE OwnerSafe'
  BY <1>4 DEF OwnerSafe, OnlyRow, RowIds, SameOwner, HoldsOwner
<1>5. ASSUME NEW g \in Routine, FindByName(g)  PROVE OwnerSafe'
  <2>0. UNCHANGED <<device, holder>> /\ astray \subseteq astray' /\ \A k \in Routine \ {g} : chore'[k] = chore[k]
    BY <1>5, FindMoves DEF FindByName
  <2>1. CASE chore'[g] = NoChore
    BY <2>0, <2>1, RestType, OwnerSafeOn DEF HoldsOwner
  <2>2. CASE chore'[g].row = Absent
    BY <2>0, <2>2, OwnerSafeOn DEF HoldsOwner
  <2>3. ASSUME NEW c \in FoundCopy,
               chore' = [chore EXCEPT ![g].at = "check", ![g].id = c.id,
                         ![g].row = IF chore[g].do = "register" THEN Absent ELSE c.row],
               astray' = IF chore[g].do \in Callback /\ ~SameOwner(c.id, c.row)
                         THEN astray \cup {"kept"} ELSE astray
        PROVE  OwnerSafe'
    <3>1. chore[g].do \in ByName
      BY <1>5 DEF FindByName, JobsFit, Begun, ChoreAt
    <3>2. chore'[g].do = chore[g].do /\ chore'[g].id = c.id /\ (chore[g].do \in Callback => chore'[g].row = c.row)
      BY <2>3 DEF RowTypeOK, Chore, Callback
    <3>3. astray' = {} /\ HoldsOwner(g)' => SameOwner(c.id, c.row)
      BY <2>3, <3>1, <3>2 DEF HoldsOwner, ByName, Callback, TakeOver
    <3>4. astray' = {} /\ HoldsOwner(g)' => SameOwner(chore[g].id, chore[g].row)'
      BY <2>0, <3>1, <3>2, <3>3 DEF SameOwner, RowIds, HoldsOwner, ByName, Callback, TakeOver
    <3> QED  BY <2>0, <3>4, OwnerSafeOn
  <2> QED  BY <1>5, <2>1, <2>2, <2>3, FindMoves, FinishTypes, StepTypes DEF FindByName
<1>6. ASSUME NEW g \in Routine, Look(g)  PROVE OwnerSafe'
  <2> DEFINE i == chore[g].id
  <2>0. UNCHANGED <<device, holder>> /\ astray \subseteq astray' /\ \A k \in Routine \ {g} : chore'[k] = chore[k]
    BY <1>6, FinishTypes DEF Look, RowTypeOK
  <2>1. i \in Id
    BY <1>6, RowConstants DEF Look, ChoreAt, JobsFit, Begun, RowTypeOK, Id
  <2>2. CASE Finishes(g)
    BY <2>0, <2>2, FinishTypes, RestType, OwnerSafeOn DEF HoldsOwner
  <2>3. CASE copyOf[i] # Absent /\ ~Finishes(g)
    <3>1. chore'[g].id = i /\ chore'[g].row = copyOf[i]
      BY <1>6, <2>3 DEF Look, RowTypeOK, Chore
    <3>2. astray' = {} => SameOwner(i, copyOf[i])
      <4>1. ~Behind(i) => copyOf[i] = device[i]
        BY <2>1, <2>3 DEF CopyById
      <4>2. ~Behind(i) => SameOwner(i, copyOf[i])
        BY <2>1, <2>3, <4>1 DEF SameOwner, RowIds
      <4> HIDE DEF i
      <4>3. astray' = IF Behind(i) /\ ~SameOwner(i, copyOf[i]) THEN astray \cup {"late"} ELSE astray
        BY <1>6, <2>3 DEF Look, i
      <4> QED  BY <4>2, <4>3
    <3>3. astray' = {} => SameOwner(chore[g].id, chore[g].row)'
      BY <2>0, <3>1, <3>2 DEF SameOwner, RowIds
    <3> QED  BY <2>0, <3>3, OwnerSafeOn
  <2>4. CASE copyOf[i] = Absent /\ i \in RowIds /\ ~Finishes(g)
    <3>1. chore'[g].id = i /\ chore'[g].row = device[i]
      BY <1>6, <2>4 DEF Look, RowTypeOK, Chore
    <3>2. SameOwner(chore[g].id, chore[g].row)'
      BY <2>0, <2>4, <3>1 DEF SameOwner, RowIds
    <3> QED  BY <2>0, <3>2, OwnerSafeOn
  <2> QED  BY <1>6, <2>2, <2>3, <2>4 DEF Look
<1>7. ASSUME NEW g \in Routine, UNCHANGED <<device, holder, astray>>,
             \A k \in Routine \ {g} : chore'[k] = chore[k],
             \/ chore'[g].row = Absent
             \/ chore'[g].row = chore[g].row /\ chore'[g].id = chore[g].id /\ chore'[g].do = chore[g].do
      PROVE  OwnerSafe'
  <2>1. astray' = {} /\ HoldsOwner(g)' => SameOwner(chore[g].id, chore[g].row)'
    BY <1>7 DEF OwnerSafe, HoldsOwner, SameOwner, RowIds
  <2> QED  BY <1>7, <2>1, OwnerSafeOn
<1>8. ASSUME NEW g \in Routine, Fill(g)  PROVE OwnerSafe'
  <2>1. /\ chore'[g].id = chore[g].id /\ chore'[g].do = chore[g].do /\ chore'[g].row = chore[g].row
        /\ \A k \in Routine \ {g} : chore'[k] = chore[k]
    BY <1>8 DEF Fill, RowTypeOK, Chore
  <2> QED  BY <1>7, <1>8, <2>1 DEF Fill
<1>9. ASSUME NEW g \in Routine, KickOffline(g)  PROVE OwnerSafe'
  BY <1>7, <1>9, StepTypes DEF KickOffline
<1>10. ASSUME NEW g \in Routine, FindAgain(g)  PROVE OwnerSafe'
  <2>1. /\ \A k \in Routine \ {g} : chore'[k] = chore[k]
        /\ \/ chore'[g].row = Absent
           \/ chore'[g].id = chore[g].id /\ chore'[g].do = chore[g].do /\ chore'[g].row = chore[g].row
    BY <1>10, StepTypes, FinishTypes, RestType DEF FindAgain, RowTypeOK, Chore
  <2> QED  BY <1>7, <1>10, <2>1 DEF FindAgain
<1>11. ASSUME NEW g \in Routine, Save(g)  PROVE OwnerSafe'
  <2>0. PICK i \in Id : i = chore[g].id
    BY <1>11, JobHasId DEF Save, ChoreAt
  <2>1. /\ chore'[g].row = Absent /\ chore[g].row # Absent
        /\ \A k \in Routine \ {g} : chore'[k] = chore[k]
    BY <1>11 DEF Save, RowTypeOK, Chore, ChoreAt, JobsFit, Begun
  <2>2. device' = [device EXCEPT ![i] = Changed(chore[g])]
    BY <1>11, <2>0 DEF Save
  <2>3. device'[i] = Changed(chore[g]) /\ \A n \in Id : n # i => device'[n] = device[n]
    BY <2>2 DEF RowTypeOK
  <2>4. device'[i] # Absent
    <3>1. chore[g] \in Chore /\ (chore[g].do \in TakeOver => chore[g].by \in DeviceUser)
      BY DEF RowTypeOK, JobsFit, Begun, ByName
    <3> QED  BY <2>1, <2>3, <3>1, ChangedType, RowConstants
  <2>5. CASE chore[g].do \in TakeOver
    <3>1. device'[i].owner = chore[g].by
      BY <2>3, <2>5 DEF Changed
    <3>2. TakenBy(g, chore[g].by, device')
      BY <1>11, <2>5 DEF Save
    <3> QED  BY <2>1, <2>4, <3>1, <3>2, TakenSafe DEF HoldsOwner
  <2>6. CASE chore[g].do \notin TakeOver
    <3> SUFFICES ASSUME astray' = {}  PROVE OwnerSafe'
      BY DEF OwnerSafe
    <3>1. astray = {} /\ MixedOwner(g) = {} /\ Twice(device') = {} /\ holder' = holder
      BY <1>11, <2>6 DEF Save
    <3>2. chore[g].do \in Callback \cup {"edit", "kick"}
      BY <1>11, <2>6 DEF Save, ChoreAt, RowTypeOK, Chore, JobsFit, Begun, ByName, ById
    <3>3. SameOwner(i, chore[g].row)
      BY <2>0, <2>1, <3>1, <3>2 DEF OwnerSafe, HoldsOwner
    <3>4. device'[i].owner = device[i].owner /\ i \in RowIds
      BY <2>3, <2>6, <3>3 DEF Changed, SameOwner
    <3>5. \A n \in RowIds' : n \in RowIds /\ device'[n].owner = device[n].owner
      BY <2>3, <3>4 DEF RowIds
    <3>6. \A n \in RowIds' : device'[n].owner = holder'
      BY <3>1, <3>5 DEF OwnerSafe
    <3>7. OnlyRow'
      BY <3>1, SingleRow
    <3>8. \A k \in Routine : ~HoldsOwner(k)'
      BY <2>1, <3>1, NobodyHolds DEF HoldsOwner
    <3> QED  BY <3>6, <3>7, <3>8 DEF OwnerSafe
  <2> QED  BY <2>5, <2>6
<1>12. ASSUME NEW g \in Routine, Delete(g)  PROVE OwnerSafe'
  <2> SUFFICES ASSUME astray' = {}  PROVE OwnerSafe'
    BY DEF OwnerSafe
  <2>1. astray = {} /\ MixedOwner(g) = {} /\ holder' = holder
    BY <1>12 DEF Delete
  <2>2. chore'[g].row = Absent /\ \A k \in Routine \ {g} : chore'[k] = chore[k]
    BY <1>12, StepTypes DEF Delete, JobsFit, Begun
  <2>3. \A n \in Id : device'[n] \in {device[n], Absent}
    BY <1>12 DEF Delete, RowTypeOK
  <2>4. \A n \in RowIds' : n \in RowIds /\ device'[n] = device[n]
    BY <2>3 DEF RowIds
  <2>5. \A k \in Routine : ~HoldsOwner(k)'
    BY <2>1, <2>2, NobodyHolds DEF HoldsOwner
  <2> QED  BY <2>1, <2>4, <2>5 DEF OwnerSafe, OnlyRow
<1>13. ASSUME NEW g \in Routine, Clear(g)  PROVE OwnerSafe'
  <2>1. /\ \A k \in Routine \ {g} : chore'[k] = chore[k]
        /\ chore'[g].row = Absent
    BY <1>13, StepTypes, FinishTypes, RestType DEF Clear, ChoreAt, JobsFit, Begun
  <2> QED  BY <1>7, <1>13, <2>1 DEF Clear
<1>14. ASSUME NEW g \in Routine, Create(g)  PROVE OwnerSafe'
  <2>1. chore'[g].row = Absent /\ \A k \in Routine \ {g} : chore'[k] = chore[k]
    BY <1>14, FinishTypes, RestType DEF Create
  <2>2. CASE chore[g].do = "register" /\ chore[g].by \in members
    BY <1>7, <1>14, <2>1, <2>2 DEF Create
  <2>3. CASE ~(chore[g].do = "register" /\ chore[g].by \in members)
    <3>1. PICK u \in DeviceUser : u = chore[g].by
      BY <1>14 DEF Create, ChoreAt, JobsFit, Begun, ByName, TakeOver
    <3>2. PICK i \in Id : i = newest'
      BY DEF RowTypeOK
    <3>3. PICK o \in BOOLEAN :
            LET d == [Upsert(u, o) EXCEPT ![i] = [owner |-> u, online |-> FALSE]]
            IN  device' = d /\ TakenBy(g, u, d)
      BY <1>14, <2>3, <3>1, <3>2 DEF Create
    <3>4. device'[i] = [owner |-> u, online |-> FALSE] /\ TakenBy(g, u, device')
      BY <3>3, UpsertType
    <3>5. device'[i] # Absent /\ device'[i].owner = u
      <4>1. [owner |-> u, online |-> FALSE] # Absent
        BY RowConstants
      <4> QED  BY <3>4, <4>1
    <3>6. ~HoldsOwner(g)'
      BY <2>1 DEF HoldsOwner
    <3> QED  BY <2>1, <3>4, <3>5, <3>6, TakenSafe
  <2> QED  BY <2>2, <2>3
<1>15. ASSUME NEW u \in DeviceUser, SaveWithDevices(u)  PROVE OwnerSafe'
  <2>1. CASE device' = device
    BY <1>4, <1>15, <2>1 DEF SaveWithDevices
  <2>2. CASE device' # device
    BY <1>15, <2>2 DEF SaveWithDevices, OwnerSafe
  <2> QED  BY <2>1, <2>2
<1>16. ASSUME NEW g \in Routine, Fails(g)  PROVE OwnerSafe'
  BY <1>7, <1>16, FinishTypes, RestType DEF Fails
<1>17. CASE UNCHANGED rowVars
  BY <1>4, <1>17 DEF rowVars
<1> QED
  BY <1>2, <1>3, <1>4, <1>5, <1>6, <1>8, <1>9, <1>10, <1>11, <1>12, <1>13, <1>14, <1>15, <1>16,
     <1>17 DEF RowNext, Work, Disconnect, ListExpires, Evict, TakeList, StoreList, LoadUser, Expire

(***************************************************************************)
(* Whether it is online.                                                   *)
(***************************************************************************)
LEMMA StateInit == RowInit => StateSafe
<1> SUFFICES ASSUME RowInit  PROVE StateSafe
  OBVIOUS
<1>1. \A g \in Routine : chore[g].row = Absent /\ chore[g].do = "none"
  BY RestType DEF RowInit
<1>2. PICK u \in DeviceUser :
        device = [i \in Id |-> IF i = 1 THEN [owner |-> u, online |-> FALSE] ELSE Absent]
  BY DEF RowInit
<1>3. \A i \in RowIds : device[i].online = FALSE
  BY <1>2 DEF RowIds
<1>4. online = {}
  BY DEF RowInit
<1>5. \A g \in Routine : g \notin Pending /\ ~HoldsState(g) /\ ~Due(g) /\ ~Kicked(g)
  BY <1>1 DEF Pending, HoldsState, Due, Kicked, Callback
<1> QED  BY <1>3, <1>4, <1>5 DEF StateSafe, Pending

\* A step of g that leaves the rows and the connections alone.
LEMMA StateSafeOn ==
    ASSUME StateSafe, NEW g \in Routine, doubt \subseteq doubt', UNCHANGED <<device, online>>,
           \A k \in Routine \ {g} : chore'[k] = chore[k],
           doubt' = {} => /\ g \in Pending' => g \in Pending
                          /\ Due(g)' => chore'[g].do = chore[g].do
                          /\ Due(g)' <=> Due(g)
                          /\ Kicked(g)' <=> Kicked(g)
                          /\ HoldsState(g)' => SameState(chore[g].id, chore[g].row)'
    PROVE  StateSafe'
<1> SUFFICES ASSUME doubt' = {}  PROVE StateSafe'
  BY DEF StateSafe
<1>1. doubt = {}
  OBVIOUS
<1>2. \A k \in Routine : /\ Due(k)' <=> Due(k)
                         /\ Kicked(k)' <=> Kicked(k)
                         /\ Due(k)' => chore'[k].do = chore[k].do
  BY DEF Due, Kicked
<1>3. ASSUME NEW k \in Routine, HoldsState(k)'  PROVE SameState(chore[k].id, chore[k].row)'
  <2>1. CASE k = g
    BY <1>3, <2>1
  <2>2. CASE k # g
    BY <1>1, <1>3, <2>2 DEF StateSafe, HoldsState, SameState, RowIds
  <2> QED  BY <2>1, <2>2
<1>4. Pending' \subseteq Pending
  BY DEF Pending
<1>5. \A k \in Routine : Due(k)' => (chore'[k].do = "online" <=> online' # {})
  BY <1>1, <1>2 DEF StateSafe
<1>6. (\E k \in Routine : Kicked(k)') => online' = {} \/ \E k \in Routine : Due(k)'
  BY <1>1, <1>2 DEF StateSafe
<1>7. \/ \A i \in RowIds' : device'[i].online <=> online' # {}
      \/ \E k \in Routine : Due(k)' \/ Kicked(k)'
  BY <1>1, <1>2 DEF StateSafe, RowIds
<1> QED  BY <1>1, <1>3, <1>4, <1>5, <1>6, <1>7 DEF StateSafe

\* A job that neither a callback nor a kick does decides nothing.
LEMMA Bystander ==
    ASSUME NEW g \in Routine, chore[g].do \notin Callback \cup {"kick"}
    PROVE  g \notin Pending /\ ~Due(g) /\ ~Kicked(g)
  BY DEF Pending, Due, Kicked, Callback

\* Nobody else holds a copy whose state counts when a write of g leaves no doubt.
LEMMA NobodyCounts ==
    ASSUME JobsFit, NEW g \in Routine, MixedState(g) = {}, NEW k \in Routine \ {g}
    PROVE  ~HoldsState(k) /\ ~Kicked(k)
<1>1. Begun(chore[k])
  BY DEF JobsFit
<1>2. k \notin States(g)
  BY DEF MixedState
<1> QED  BY <1>1, <1>2 DEF States, Copies, HoldsState, Kicked, Begun, TakeOver, Callback

LEMMA StateBegins ==
    ASSUME RowTypeOK, JobsFit, StateSafe, NEW g \in Routine, NEW do \in ByName \cup ById,
           NEW by \in DeviceUser \cup {Absent}, NEW i \in Id \cup {0}, Begin(g, do, by, i),
           do \notin Callback, UNCHANGED <<device, online, doubt>>
    PROVE  StateSafe'
<1>1. /\ chore'[g].do = do /\ chore'[g].row = Absent /\ chore[g].at = "rest"
      /\ \A k \in Routine \ {g} : chore'[k] = chore[k]
      /\ chore'[g].at = IF do \in ByName THEN "find" ELSE IF do = "delete" THEN "check" ELSE "look"
  BY BeginTypes
<1>2. chore[g].do = "none"
  BY <1>1 DEF JobsFit, Begun
<1>3. g \notin Pending /\ ~Due(g) /\ ~Kicked(g)
  BY <1>2, Bystander DEF Callback
<1>4. g \notin Pending' /\ ~Due(g)' /\ ~Kicked(g)' /\ ~HoldsState(g)'
  BY <1>1 DEF Pending, Due, Kicked, HoldsState, ByName, ById, Callback, TakeOver
<1> QED  BY <1>1, <1>3, <1>4, StateSafeOn

\* A callback begins alone, and is to write what is now so.
LEMMA StateCalls ==
    ASSUME RowTypeOK, StateSafe, NEW g \in Routine, NEW do \in Callback, NEW by \in DeviceUser,
           Begin(g, do, by, 0), UNCHANGED device,
           doubt' = {} => doubt = {} /\ Pending = {} /\ (do = "online" <=> online' # {})
    PROVE  StateSafe'
<1> SUFFICES ASSUME doubt' = {}  PROVE StateSafe'
  BY DEF StateSafe
<1>1. /\ chore'[g].do = do /\ chore'[g].row = Absent /\ chore'[g].at = "find"
      /\ \A k \in Routine \ {g} : chore'[k] = chore[k]
  BY BeginTypes DEF ByName
<1>2. Pending' = {g}
  BY <1>1 DEF Pending
<1>3. \A k \in Routine : Due(k)' <=> k = g
  BY <1>1, <1>2 DEF Due, Pending
<1>4. ASSUME NEW k \in Routine, HoldsState(k)'  PROVE SameState(chore[k].id, chore[k].row)'
  <2>1. k # g
    BY <1>1, <1>4 DEF HoldsState
  <2> QED  BY <1>1, <1>4, <2>1 DEF StateSafe, HoldsState, SameState, RowIds
<1>5. chore'[g].do = "online" <=> online' # {}
  BY <1>1
<1> QED  BY <1>2, <1>3, <1>4, <1>5 DEF StateSafe

LEMMA StateFound ==
    ASSUME RowTypeOK, JobsFit, StateSafe, NEW g \in Routine, FindByName(g)
    PROVE  StateSafe'
<1>0. /\ UNCHANGED <<device, online>> /\ doubt \subseteq doubt'
      /\ \A k \in Routine \ {g} : chore'[k] = chore[k]
  BY FindMoves DEF FindByName
<1>1. chore[g].at = "find" /\ chore[g].do \in ByName
  BY DEF FindByName, JobsFit, Begun, ChoreAt
<1>2. CASE chore[g].do \notin Callback /\ chore'[g] = NoChore
  <2>1. g \notin Pending' /\ ~Due(g)' /\ ~Kicked(g)' /\ ~HoldsState(g)'
    BY <1>2, RestType DEF Pending, Due, Kicked, HoldsState, Callback
  <2>2. ~Due(g) /\ ~Kicked(g)
    BY <1>1, <1>2 DEF Due, Kicked
  <2> QED  BY <1>0, <2>1, <2>2, StateSafeOn
<1>3. CASE chore'[g].at = "create" /\ chore'[g].row = Absent /\ chore'[g].do = chore[g].do
           /\ chore[g].do \in {"login", "register"}
  <2>1. g \notin Pending' /\ ~Due(g)' /\ ~Kicked(g)' /\ ~HoldsState(g)'
    BY <1>3 DEF Pending, Due, Kicked, HoldsState, Callback
  <2>2. ~Due(g) /\ ~Kicked(g)
    BY <1>1, <1>3 DEF Due, Kicked, Callback
  <2> QED  BY <1>0, <2>1, <2>2, StateSafeOn
<1>4. ASSUME doubt' # {}  PROVE StateSafe'
  BY <1>4 DEF StateSafe
<1>5. ASSUME NEW c \in FoundCopy,
             chore' = [chore EXCEPT ![g].at = "check", ![g].id = c.id,
                       ![g].row = IF chore[g].do = "register" THEN Absent ELSE c.row],
             doubt' = IF chore[g].do \in TakeOver /\ ~SameState(c.id, c.row)
                      THEN doubt \cup {"kept"} ELSE doubt
      PROVE  StateSafe'
  <2>1. /\ chore'[g].do = chore[g].do /\ chore'[g].id = c.id /\ chore'[g].at = "check"
        /\ chore[g].do \in TakeOver => chore'[g].row = c.row
    BY <1>5 DEF RowTypeOK, Chore, TakeOver
  <2>2. g \in Pending' => g \in Pending
    BY <2>1 DEF Pending
  <2>3. (Due(g)' <=> Due(g)) /\ ~Kicked(g)' /\ ~Kicked(g)
    BY <1>1, <2>1 DEF Due, Kicked, ByName, Callback, TakeOver
  <2>4. doubt' = {} /\ HoldsState(g)' => SameState(chore[g].id, chore[g].row)'
    <3>1. HoldsState(g)' => chore[g].do \in TakeOver
      BY <1>1, <2>1 DEF HoldsState, ByName, Callback, TakeOver
    <3>2. doubt' = {} /\ chore[g].do \in TakeOver => SameState(c.id, c.row)
      BY <1>5
    <3> QED  BY <1>0, <2>1, <3>1, <3>2 DEF SameState, RowIds
  <2> QED  BY <1>0, <2>1, <2>2, <2>3, <2>4, StateSafeOn
<1>6. CASE FoundCopy = {}
  <2>1. chore[g].do \in Callback => doubt' # {}
    BY <1>6 DEF FindByName
  <2>2. chore[g].do \notin Callback => 
           chore'[g] = NoChore \/ (ChoreTo(g, "create") /\ chore[g].do \in {"login", "register"})
    BY <1>6, FinishTypes DEF FindByName
  <2>3. ASSUME ChoreTo(g, "create")
        PROVE  chore'[g].at = "create" /\ chore'[g].row = Absent /\ chore'[g].do = chore[g].do
    BY <1>1, <2>3, StepTypes DEF JobsFit, Begun
  <2> QED  BY <1>2, <1>3, <1>4, <2>1, <2>2, <2>3
<1>7. ASSUME Finishes(g), chore[g].do = "reset"  PROVE StateSafe'
  BY <1>2, <1>7, FinishTypes DEF Callback
<1> QED  BY <1>5, <1>6, <1>7 DEF FindByName

LEMMA StateLooked ==
    ASSUME RowTypeOK, JobsFit, CopyById, StateSafe, NEW g \in Routine, Look(g)
    PROVE  StateSafe'
<1> DEFINE i == chore[g].id
<1>0. UNCHANGED <<device, online>> /\ doubt \subseteq doubt' /\ \A k \in Routine \ {g} : chore'[k] = chore[k]
  BY FinishTypes DEF Look, RowTypeOK
<1>1. chore[g].at = "look" /\ chore[g].do \in {"edit", "kick"} /\ i \in Id
  BY RowConstants DEF Look, ChoreAt, JobsFit, Begun, RowTypeOK, Id
<1>2. ~Due(g) /\ ~Kicked(g)
  BY <1>1 DEF Due, Kicked, Callback
<1>3. CASE Finishes(g)
  <2>1. chore'[g] = NoChore
    BY <1>3, FinishTypes
  <2>2. g \notin Pending' /\ ~Due(g)' /\ ~Kicked(g)' /\ ~HoldsState(g)'
    BY <2>1, RestType DEF Pending, Due, Kicked, HoldsState, Callback
  <2> QED  BY <1>0, <1>2, <2>2, StateSafeOn
<1>4. ASSUME NEW r \in UserDevice, chore'[g].id = i, chore'[g].row = r, chore'[g].do = chore[g].do,
             chore'[g].at \in {"kick", "check", "lookFill"},
             chore[g].do = "kick" => chore'[g].at \in {"kick", "lookFill"},
             doubt' = {} /\ chore[g].do = "edit" => SameState(i, r)
      PROVE  StateSafe'
  <2>1. g \notin Pending' /\ ~Due(g)' /\ ~Kicked(g)'
    BY <1>1, <1>4 DEF Pending, Due, Kicked, Callback
  <2>2. doubt' = {} /\ HoldsState(g)' => SameState(chore[g].id, chore[g].row)'
    BY <1>0, <1>1, <1>4 DEF HoldsState, SameState, RowIds, TakeOver
  <2> QED  BY <1>0, <1>2, <2>1, <2>2, StateSafeOn
<1>5. CASE copyOf[i] # Absent /\ ~Finishes(g)
  <2>1. /\ chore'[g].id = i /\ chore'[g].row = copyOf[i] /\ chore'[g].do = chore[g].do
        /\ chore'[g].at = IF chore[g].do = "kick" THEN "kick" ELSE "check"
    BY <1>5 DEF Look, RowTypeOK, Chore
  <2>2. copyOf[i] \in UserDevice
    BY <1>1, <1>5 DEF RowTypeOK
  <2>3. doubt' = {} /\ chore[g].do = "edit" => SameState(i, copyOf[i])
    <3>1. ~Behind(i) => copyOf[i] = device[i]
      BY <1>1, <1>5 DEF CopyById
    <3>2. ~Behind(i) => SameState(i, copyOf[i])
      BY <1>1, <1>5, <3>1 DEF SameState, RowIds
    <3>3. doubt' = IF chore[g].do = "edit" /\ Behind(i) /\ ~SameState(i, copyOf[i])
                   THEN doubt \cup {"late"} ELSE doubt
      BY <1>5 DEF Look
    <3> HIDE DEF i
    <3> QED  BY <3>2, <3>3
  <2> HIDE DEF i
  <2> QED  BY <1>4, <2>1, <2>2, <2>3
<1>6. CASE copyOf[i] = Absent /\ i \in RowIds /\ ~Finishes(g)
  <2>1. chore'[g].id = i /\ chore'[g].row = device[i] /\ chore'[g].do = chore[g].do /\ chore'[g].at = "lookFill"
    BY <1>6 DEF Look, RowTypeOK, Chore
  <2>2. device[i] \in UserDevice /\ SameState(i, device[i])
    BY <1>1, <1>6 DEF RowTypeOK, RowIds, SameState
  <2> HIDE DEF i
  <2> QED  BY <1>4, <2>1, <2>2
<1> QED  BY <1>3, <1>5, <1>6 DEF Look

LEMMA StateSaved ==
    ASSUME RowTypeOK, JobsFit, StateSafe, RowTypeOK', NEW g \in Routine, Save(g)
    PROVE  StateSafe'
<1> SUFFICES ASSUME doubt' = {}  PROVE StateSafe'
  BY DEF StateSafe
<1>0. PICK i \in Id : i = chore[g].id
  BY JobHasId DEF Save, ChoreAt
<1>1. /\ chore'[g].row = Absent /\ chore'[g].at = "clear" /\ chore'[g].do = chore[g].do
      /\ chore[g].row # Absent /\ chore[g].at = "write"
      /\ \A k \in Routine \ {g} : chore'[k] = chore[k]
  BY DEF Save, RowTypeOK, Chore, ChoreAt, JobsFit, Begun
<1>2. device' = [device EXCEPT ![i] = Changed(chore[g])] /\ UNCHANGED online
  BY <1>0 DEF Save
<1>3. device'[i] = Changed(chore[g])
  BY <1>2 DEF RowTypeOK
<1>4. Settles(g, device') \/ (doubt = {} /\ MixedState(g) = {} /\ Twice(device') = {})
  <2>1. doubt' = IF Settles(g, device') THEN {} ELSE doubt \cup MixedState(g) \cup Twice(device')
    BY DEF Save
  <2> QED  BY <2>1
<1>5. Twice(device') = {} /\ MixedState(g) = {}
  BY <1>4 DEF Settles, MixedState
<1>6. \A n \in RowIds' : n = i
  <2>1. device'[i] # Absent
    <3>1. chore[g] \in Chore /\ (chore[g].do \in TakeOver => chore[g].by \in DeviceUser)
      BY DEF RowTypeOK, JobsFit, Begun, ByName
    <3> QED  BY <1>1, <1>3, <3>1, ChangedType, RowConstants
  <2>2. OnlyRow'
    BY <1>5, SingleRow
  <2> QED  BY <2>1, <2>2 DEF OnlyRow, RowIds
<1>7. \A k \in Routine : ~HoldsState(k)' /\ ~Kicked(k)'
  <2>1. ~HoldsState(g)' /\ ~Kicked(g)'
    BY <1>1 DEF HoldsState, Kicked
  <2>2. ASSUME NEW k \in Routine \ {g}  PROVE ~HoldsState(k)' /\ ~Kicked(k)'
    BY <1>1, <1>5, <2>2, NobodyCounts DEF HoldsState, Kicked
  <2> QED  BY <2>1, <2>2
<1>8. Pending' = Pending
  BY <1>1 DEF Pending
<1>9. \A k \in Routine : Due(k)' => Due(k) /\ k # g /\ chore'[k].do = chore[k].do
  BY <1>1 DEF Due
<1>10. CASE chore[g].do \in Callback
  <2>1. Pending = {g} /\ (chore[g].do = "online" <=> online # {})
    <3>1. CASE Settles(g, device')
      BY <3>1 DEF Settles
    <3>2. CASE doubt = {}
      BY <1>1, <1>10, <3>2 DEF StateSafe, Pending, Due
    <3> QED  BY <1>4, <3>1, <3>2
  <2>2. device'[i].online <=> online # {}
    <3>1. Changed(chore[g]).online = (chore[g].do = "online")
      BY <1>10 DEF Changed
    <3> QED  BY <1>3, <2>1, <3>1
  <2>3. \A k \in Routine : ~Due(k)'
    BY <1>9, <2>1 DEF Due, Pending
  <2>4. \A n \in RowIds' : device'[n].online <=> online' # {}
    BY <1>2, <1>6, <2>2
  <2> QED  BY <1>7, <1>8, <2>1, <2>3, <2>4 DEF StateSafe
<1>11. CASE chore[g].do \notin Callback
  <2>1. doubt = {}
    BY <1>4, <1>11 DEF Settles
  <2>2. \A k \in Routine : Due(k) => Due(k)'
    BY <1>1, <1>11 DEF Due
  <2>3. \A k \in Routine : Due(k)' => (chore'[k].do = "online" <=> online' # {})
    BY <1>2, <1>9, <2>1 DEF StateSafe
  <2>4. \A k, n \in Pending' : k = n
    BY <1>8, <2>1 DEF StateSafe
  <2>5. \/ \A n \in RowIds' : device'[n].online <=> online' # {}
        \/ \E k \in Routine : Due(k)'
    <3>1. CASE \E k \in Routine : Due(k)
      BY <2>2, <3>1
    <3>2. CASE chore[g].do = "kick" /\ ~\E k \in Routine : Due(k)
      <4>1. online = {}
        BY <1>1, <2>1, <3>2 DEF StateSafe, Kicked
      <4>2. Changed(chore[g]).online = (chore[g].do = "online")
        BY <3>2 DEF Changed
      <4>3. device'[i].online = FALSE
        BY <1>3, <3>2, <4>2
      <4> QED  BY <1>2, <1>6, <4>1, <4>3
    <3>3. CASE chore[g].do # "kick" /\ ~\E k \in Routine : Due(k)
      <4>1. chore[g].do \in TakeOver \cup {"edit"}
        BY <1>11, <3>3 DEF Save, ChoreAt, RowTypeOK, Chore, JobsFit, Begun, ByName, ById
      <4>2. i \in RowIds /\ chore[g].row.online = device[i].online
        BY <1>0, <1>1, <2>1, <4>1 DEF StateSafe, HoldsState, SameState
      <4>3. device'[i].online = device[i].online
        BY <1>3, <1>11, <3>3, <4>2 DEF Changed
      <4>4. \A k \in Routine : ~Kicked(k)
        BY <1>5, <3>3, NobodyCounts DEF Kicked
      <4>5. device[i].online <=> online # {}
        BY <2>1, <3>3, <4>2, <4>4 DEF StateSafe
      <4> QED  BY <1>2, <1>6, <4>3, <4>5
    <3> QED  BY <3>1, <3>2, <3>3
  <2> QED  BY <1>7, <2>3, <2>4, <2>5 DEF StateSafe
<1> QED  BY <1>10, <1>11

LEMMA StateCreated ==
    ASSUME RowTypeOK, JobsFit, StateSafe, RowTypeOK', NEW g \in Routine, Create(g)
    PROVE  StateSafe'
<1>0. chore[g].do \in {"login", "register"} /\ chore[g].at = "create"
  BY DEF Create, ChoreAt, JobsFit, Begun
<1>1. chore'[g] = NoChore /\ \A k \in Routine \ {g} : chore'[k] = chore[k]
  BY FinishTypes DEF Create
<1>2. g \notin Pending' /\ ~Due(g)' /\ ~Kicked(g)' /\ ~HoldsState(g)'
  BY <1>1, RestType DEF Pending, Due, Kicked, HoldsState, Callback
<1>3. g \notin Pending /\ ~Due(g) /\ ~Kicked(g)
  BY <1>0, Bystander DEF Callback
<1>4. CASE chore[g].do = "register" /\ chore[g].by \in members
  BY <1>1, <1>2, <1>3, <1>4, StateSafeOn DEF Create
<1>5. CASE ~(chore[g].do = "register" /\ chore[g].by \in members)
  <2> SUFFICES ASSUME doubt' = {}  PROVE StateSafe'
    BY DEF StateSafe
  <2>1. PICK u \in DeviceUser : u = chore[g].by
    BY DEF Create, ChoreAt, JobsFit, Begun, ByName, TakeOver
  <2>2. PICK i \in Id : i = newest'
    BY DEF RowTypeOK
  <2>3. PICK o \in BOOLEAN :
          LET d == [Upsert(u, o) EXCEPT ![i] = [owner |-> u, online |-> FALSE]]
          IN  device' = d /\ doubt' = doubt \cup Twice(d) \cup MixedState(g)
                                            \cup (IF online # {} THEN {"anew"} ELSE {})
    BY <1>5, <2>1, <2>2 DEF Create
  <2>4. /\ device'[i] = [owner |-> u, online |-> FALSE] /\ UNCHANGED online
        /\ doubt = {} /\ Twice(device') = {} /\ MixedState(g) = {} /\ online = {}
    <3>1. Upsert(u, o) \in [Id -> UserDevice \cup {Absent}]
      BY UpsertType
    <3>2. device'[i] = [owner |-> u, online |-> FALSE]
      BY <2>3, <3>1
    <3>3. /\ doubt' = doubt \cup Twice(device') \cup MixedState(g)
                             \cup (IF online # {} THEN {"anew"} ELSE {})
          /\ UNCHANGED online
      BY <2>3 DEF Create
    <3> QED  BY <3>2, <3>3
  <2>5. \A n \in RowIds' : device'[n].online <=> online' # {}
    <3>1. device'[i] # Absent /\ device'[i].online = FALSE
      <4>1. [owner |-> u, online |-> FALSE] # Absent
        BY RowConstants
      <4> QED  BY <2>4, <4>1
    <3>2. OnlyRow'
      BY <2>4, SingleRow
    <3> QED  BY <2>4, <3>1, <3>2 DEF OnlyRow, RowIds
  <2>6. \A k \in Routine : ~HoldsState(k)' /\ ~Kicked(k)'
    <3>1. ASSUME NEW k \in Routine \ {g}  PROVE ~HoldsState(k)' /\ ~Kicked(k)'
      BY <1>1, <2>4, NobodyCounts DEF HoldsState, Kicked
    <3> QED  BY <1>2, <3>1
  <2>7. Pending' \subseteq Pending /\ \A k \in Routine : Due(k)' => Due(k) /\ chore'[k].do = chore[k].do
    BY <1>1, <1>2 DEF Pending, Due
  <2>8. \A k, n \in Pending' : k = n
    BY <2>4, <2>7 DEF StateSafe
  <2>9. \A k \in Routine : Due(k)' => (chore'[k].do = "online" <=> online' # {})
    BY <2>4, <2>7 DEF StateSafe
  <2> QED  BY <2>5, <2>6, <2>8, <2>9 DEF StateSafe
<1> QED  BY <1>4, <1>5

LEMMA StateStep ==
    ASSUME RowTypeOK, JobsFit, CopyById, StateSafe, RowTypeOK', JobsFit', [RowNext]_rowVars
    PROVE  StateSafe'
<1>1. ASSUME NEW g \in Routine, NEW u \in DeviceUser, Connect(g, u)  PROVE StateSafe'
  BY <1>1, StateCalls DEF Connect, Callback, Raced
<1>2. ASSUME NEW g \in Routine, NEW u \in DeviceUser, Loses(g, u)  PROVE StateSafe'
  <2>1. doubt' = {} => doubt = {} /\ Pending = {} /\ online' = {}
    BY <1>2 DEF Loses, Raced
  <2> QED  BY <1>2, <2>1, StateCalls DEF Loses, Callback
<1>3. ASSUME NEW g \in Routine, Request(g)  PROVE StateSafe'
  <2>1. \A i \in 1..newest : i \in Id
    BY RowConstants DEF RowTypeOK, Id
  <2>2. members \subseteq DeviceUser
    BY DEF RowTypeOK
  <2>3. \A do \in TakeOver \cup {"register"} \cup ById : do \in ByName \cup ById /\ do \notin Callback
    BY DEF ByName, ById, TakeOver, Callback
  <2> QED  BY <1>3, <2>1, <2>2, <2>3, StateBegins DEF Request
<1>4. ASSUME UNCHANGED <<device, online, doubt, chore>>  PROVE StateSafe'
  BY <1>4 DEF StateSafe, RowIds, SameState, HoldsState, Pending, Due, Kicked
<1>5. ASSUME NEW u \in DeviceUser, Evict(u)  PROVE StateSafe'
  BY <1>5 DEF Evict, StateSafe
<1>14. ASSUME StoreList  PROVE StateSafe'
  <2>1. CASE online' = online
    BY <1>4, <1>14, <2>1 DEF StoreList
  <2>2. CASE online' # online
    BY <1>14, <2>2 DEF StoreList, StateSafe
  <2> QED  BY <2>1, <2>2
<1>6. ASSUME NEW g \in Routine, Fill(g)  PROVE StateSafe'
  <2>1. /\ chore'[g].id = chore[g].id /\ chore'[g].do = chore[g].do /\ chore'[g].row = chore[g].row
        /\ chore'[g].at = IF chore[g].at = "checkFill" THEN "write"
                        ELSE IF chore[g].do = "kick" THEN "kick" ELSE "check"
        /\ \A k \in Routine \ {g} : chore'[k] = chore[k]
    BY <1>6 DEF Fill, RowTypeOK, Chore, ChoreAt
  <2>2. chore[g].at \in {"lookFill", "checkFill"} /\ UNCHANGED <<device, online, doubt>>
    BY <1>6 DEF Fill, ChoreAt
  <2>3. g \in Pending' => g \in Pending
    BY <2>1 DEF Pending
  <2>4. (Due(g)' <=> Due(g)) /\ (Kicked(g)' <=> Kicked(g))
    BY <2>1, <2>2 DEF Due, Kicked
  <2>5. doubt' = {} /\ HoldsState(g)' => SameState(chore[g].id, chore[g].row)'
    BY <2>1, <2>2 DEF StateSafe, HoldsState, SameState, RowIds
  <2> QED  BY <2>1, <2>2, <2>3, <2>4, <2>5, StateSafeOn
<1>7. ASSUME NEW g \in Routine, KickOffline(g)  PROVE StateSafe'
  <2> SUFFICES ASSUME doubt' = {}  PROVE StateSafe'
    BY DEF StateSafe
  <2>1. /\ chore'[g].id = chore[g].id /\ chore'[g].do = chore[g].do /\ chore'[g].row = chore[g].row
        /\ chore'[g].at = "check" /\ \A k \in Routine \ {g} : chore'[k] = chore[k]
    BY <1>7, StepTypes DEF KickOffline
  <2>2. doubt = {} /\ Pending = {} /\ online' = {} /\ UNCHANGED device
    BY <1>7 DEF KickOffline, Raced
  <2>3. chore[g].do = "kick"
    BY <1>7 DEF KickOffline, ChoreAt, JobsFit, Begun
  <2>4. Kicked(g)'
    BY <2>1, <2>3 DEF Kicked
  <2>5. Pending' = {} /\ \A k \in Routine : ~Due(k)'
    BY <2>1, <2>2 DEF Pending, Due
  <2>6. ASSUME NEW k \in Routine, HoldsState(k)'  PROVE SameState(chore[k].id, chore[k].row)'
    BY <2>1, <2>2, <2>3, <2>6 DEF StateSafe, HoldsState, SameState, RowIds, TakeOver
  <2> QED  BY <2>2, <2>4, <2>5, <2>6 DEF StateSafe
<1>8. ASSUME NEW g \in Routine, FindAgain(g)  PROVE StateSafe'
  <2>0. /\ UNCHANGED <<device, online>> /\ doubt \subseteq doubt' /\ chore[g].at = "check"
        /\ \A k \in Routine \ {g} : chore'[k] = chore[k]
    BY <1>8, StepTypes, FinishTypes DEF FindAgain, RowTypeOK, ChoreAt
  <2>1. CASE Finishes(g)
    <3>0. chore'[g].at = "rest"
      BY <2>1, FinishTypes, RestType
    <3>1. doubt' = {} => chore[g].do \notin Callback \cup {"kick"}
      <4>1. ~ChoreTo(g, "write")
        BY <3>0, StepTypes
      <4>2. ~(chore' = [chore EXCEPT ![g].read = device[chore[g].id], ![g].at = "checkFill"])
        BY <3>0 DEF RowTypeOK, Chore
      <4> QED  BY <1>8, <4>1, <4>2 DEF FindAgain
    <3>2. g \notin Pending' /\ ~Due(g)' /\ ~Kicked(g)' /\ ~HoldsState(g)'
      BY <2>1, FinishTypes, RestType DEF Pending, Due, Kicked, HoldsState, Callback
    <3> QED  BY <2>0, <3>1, <3>2, Bystander, StateSafeOn
  <2>2. ASSUME chore'[g].id = chore[g].id, chore'[g].do = chore[g].do, chore'[g].row = chore[g].row,
               \/ chore'[g].at \in {"write", "checkFill"}
               \/ chore'[g].at = "create" /\ chore[g].do = "register"
        PROVE  StateSafe'
    <3>1. g \in Pending' => g \in Pending
      BY <2>2 DEF Pending
    <3>2. (Due(g)' <=> Due(g)) /\ (Kicked(g)' <=> Kicked(g))
      BY <2>0, <2>2 DEF Due, Kicked, Callback
    <3>3. doubt' = {} /\ HoldsState(g)' => SameState(chore[g].id, chore[g].row)'
      BY <2>0, <2>2 DEF StateSafe, HoldsState, SameState, RowIds
    <3> QED  BY <2>0, <2>2, <3>1, <3>2, <3>3, StateSafeOn
  <2>3. \/ Finishes(g)
        \/ /\ chore'[g].id = chore[g].id /\ chore'[g].do = chore[g].do /\ chore'[g].row = chore[g].row
           /\ \/ chore'[g].at \in {"write", "checkFill"}
              \/ chore'[g].at = "create" /\ chore[g].do = "register"
    BY <1>8, StepTypes DEF FindAgain, RowTypeOK, Chore
  <2> QED  BY <2>1, <2>2, <2>3
<1>9. ASSUME NEW g \in Routine, Delete(g)  PROVE StateSafe'
  <2> SUFFICES ASSUME doubt' = {}  PROVE StateSafe'
    BY DEF StateSafe
  <2>1. doubt = {} /\ MixedState(g) = {} /\ UNCHANGED online
    BY <1>9 DEF Delete
  <2>2. /\ chore'[g].do = chore[g].do /\ chore'[g].row = Absent /\ chore'[g].at = "clear"
        /\ chore[g].do \in {"delete", "register"} /\ \A k \in Routine \ {g} : chore'[k] = chore[k]
    BY <1>9, StepTypes DEF Delete, JobsFit, Begun
  <2>3. \A n \in RowIds' : n \in RowIds /\ device'[n] = device[n]
    BY <1>9 DEF Delete, RowTypeOK, RowIds
  <2>4. \A k \in Routine : ~HoldsState(k)'
    BY <2>1, <2>2, NobodyCounts DEF HoldsState
  <2>5. \A k \in Routine : (Due(k)' <=> Due(k)) /\ (Kicked(k)' <=> Kicked(k)) /\ chore'[k].do = chore[k].do
    BY <2>2 DEF Due, Kicked, Callback
  <2>6. Pending' = Pending
    BY <2>5 DEF Pending
  <2> QED  BY <2>1, <2>3, <2>4, <2>5, <2>6 DEF StateSafe
<1>10. ASSUME NEW g \in Routine, Clear(g)  PROVE StateSafe'
  <2>1. /\ \A k \in Routine \ {g} : chore'[k] = chore[k]
        /\ chore'[g].row = Absent /\ UNCHANGED <<device, online, doubt>>
        /\ chore'[g].do = "none" \/ chore'[g].do = "register"
    BY <1>10, StepTypes, FinishTypes, RestType DEF Clear, ChoreAt, JobsFit, Begun
  <2>2. ~Due(g) /\ ~Kicked(g)
    BY <1>10 DEF Clear, ChoreAt, Due, Kicked
  <2>3. g \notin Pending' /\ ~Due(g)' /\ ~Kicked(g)' /\ ~HoldsState(g)'
    BY <2>1 DEF Pending, Due, Kicked, HoldsState, Callback
  <2> QED  BY <2>1, <2>2, <2>3, StateSafeOn
<1>11. ASSUME NEW u \in DeviceUser, SaveWithDevices(u)  PROVE StateSafe'
  <2> SUFFICES ASSUME doubt' = {}  PROVE StateSafe'
    BY DEF StateSafe
  <2>1. PICK o \in BOOLEAN : device' = Upsert(u, o)
    BY <1>11 DEF SaveWithDevices
  <2>2. listed[u] \subseteq RowIds /\ doubt = {} /\ UNCHANGED <<online, chore>>
    BY <1>11 DEF SaveWithDevices
  <2>3. ASSUME NEW i \in Id
        PROVE  (i \in RowIds' <=> i \in RowIds) /\ (i \in RowIds => device'[i].online = device[i].online)
    BY <2>1, <2>2, UpsertType DEF RowIds
  <2>4. \A k \in Routine : HoldsState(k)' => SameState(chore[k].id, chore[k].row)'
    BY <2>2, <2>3 DEF StateSafe, HoldsState, SameState, RowIds
  <2>5. \/ \A i \in RowIds' : device'[i].online <=> online' # {}
        \/ \E k \in Routine : Due(k)' \/ Kicked(k)'
    BY <2>2, <2>3 DEF StateSafe, RowIds, Due, Kicked
  <2> QED  BY <2>2, <2>4, <2>5 DEF StateSafe, Pending, Due, Kicked
<1>12. ASSUME NEW g \in Routine, Fails(g)  PROVE StateSafe'
  <2>1. /\ \A k \in Routine \ {g} : chore'[k] = chore[k]
        /\ doubt \subseteq doubt' /\ UNCHANGED <<device, online>>
    BY <1>12, FinishTypes DEF Fails
  <2>2. doubt' = {} => ~Due(g) /\ ~Kicked(g)
    BY <1>12 DEF Fails, ChoreAt, Due, Kicked
  <2>3. g \notin Pending' /\ ~Due(g)' /\ ~Kicked(g)' /\ ~HoldsState(g)'
    BY <1>12, FinishTypes, RestType DEF Fails, Pending, Due, Kicked, HoldsState, Callback
  <2> QED  BY <2>1, <2>2, <2>3, StateSafeOn
<1>13. CASE UNCHANGED rowVars
  BY <1>4, <1>13 DEF rowVars
<1> QED
  BY <1>1, <1>2, <1>3, <1>4, <1>5, <1>6, <1>7, <1>8, <1>9, <1>10, <1>11, <1>12, <1>13, <1>14,
     StateFound, StateLooked, StateSaved, StateCreated
  DEF RowNext, Work, Disconnect, ListExpires, TakeList, LoadUser, Expire

(***************************************************************************)
(* The theorems.                                                           *)
(***************************************************************************)
LEMMA RowInvariant == RowSpec => []RowInv
<1>1. RowInit => RowInv
  BY RowTypeInit, FitInit, CopyInit, OwnerInit, StateInit DEF RowInv
<1>2. RowInv /\ [RowNext]_rowVars => RowInv'
  BY RowTypeStep, FitStep, CopyStep, OwnerStep, StateStep DEF RowInv
<1> QED  BY <1>1, <1>2, PTL DEF RowSpec

\* The row, its copies, the connections and the jobs at work on it keep to
\* their types, however many routines write it.
THEOREM RowTypeCorrect == RowSpec => []RowTypeOK
<1>1. RowInv => RowTypeOK
  BY DEF RowInv
<1> QED  BY <1>1, RowInvariant, PTL

\* A device stays the user's who logged in or registered with it last, unless a
\* stale copy was saved since, or the device had two rows: for any number of
\* users, of goroutines and of rows.
THEOREM DeviceOwnerKept == RowSpec => []OwnerKept
<1>1. RowInv => OwnerKept
  BY DEF RowInv, OwnerSafe, OwnerKept
<1> QED  BY <1>1, RowInvariant, PTL

\* With no callback on its way, a row says whether its device is connected,
\* unless one of the events that OnlineTruthful names has happened since a
\* callback last ran alone.
THEOREM OnlineIsTruthful == RowSpec => []OnlineTruthful
<1>1. RowInv => OnlineTruthful
  <2> SUFFICES ASSUME RowInv, doubt = {}, Pending = {}, \A g \in Routine : chore[g].do # "kick"
               PROVE  \A i \in RowIds : device[i].online <=> online # {}
    BY DEF OnlineTruthful
  <2>1. \A g \in Routine : ~Due(g) /\ ~Kicked(g)
    BY DEF Due, Kicked, Pending
  <2> QED  BY <2>1 DEF RowInv, StateSafe
<1> QED  BY <1>1, RowInvariant, PTL
=============================================================================
