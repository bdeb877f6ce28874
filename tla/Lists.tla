-------------------------------- MODULE Lists --------------------------------
(***************************************************************************)
(* Lists from which members are dropped while the others keep their order: *)
(* std::erase_if() and its like.  Filtered is a recursive function and not *)
(* SelectSeq, of which the provers know nothing; the lemmas say by which   *)
(* places of the list its members come from what a proof needs to know.    *)
(***************************************************************************)
EXTENDS Integers, Sequences, SequencesExt, SequenceTheorems, WellFoundedInduction, TLAPS

\* The members of s that are in S, in their order.
Filtered(s, S) ==
  LET filtered[k \in 0..Len(s)] ==
        IF k = 0 THEN <<>>
        ELSE IF s[k] \in S THEN Append(filtered[k-1], s[k]) ELSE filtered[k-1]
  IN  filtered[Len(s)]
-----------------------------------------------------------------------------
\* A set that has 0, and with every number the next one, has all natural numbers.
LEMMA NatInSet ==
  ASSUME NEW S, 0 \in S, \A n \in Nat : n \in S => n+1 \in S
  PROVE  Nat \subseteq S
<1> DEFINE T == {n \in Nat : n \notin S}
<1>1. SUFFICES ASSUME T # {} PROVE FALSE
  OBVIOUS
<1>2. T \subseteq Nat
  OBVIOUS
<1> DEFINE R == OpToRel(<, Nat)
<1>3. IsWellFoundedOn(R, Nat)
  BY NatLessThanWellFounded
<1>4. \A x, y \in Nat : x < y => <<x, y>> \in R
  BY DEF OpToRel
<1> HIDE DEF T, R
<1>5. PICK m \in T : \A k \in T : <<k, m>> \notin R
  BY <1>1, <1>2, <1>3, WFMin
<1>6. m \in Nat /\ \A k \in Nat : k < m => k \notin T
  BY <1>2, <1>4, <1>5
<1>7. m # 0
  BY <1>5 DEF T
<1>8. m - 1 \in Nat /\ m - 1 \in S
  BY <1>6, <1>7 DEF T
<1> QED
  BY <1>5, <1>8 DEF T

Appended(g, s, S, k) ==
  IF k = 0 THEN <<>> ELSE IF s[k] \in S THEN Append(g[k-1], s[k]) ELSE g[k-1]

\* The recursive function of Filtered exists: what it has at k is a list, and the one at
\* k - 1 with or without the k-th member.
LEMMA FilteredFunction ==
  ASSUME NEW T, NEW s \in Seq(T), NEW S
  PROVE  \E g \in [0..Len(s) -> Seq(T)] :
           /\ \A k \in 0..Len(s) : g[k] = Appended(g, s, S, k)
           /\ Filtered(s, S) = g[Len(s)]
<1> DEFINE P(n, g) == g = [k \in 0..n |-> Appended(g, s, S, k)]
<1> DEFINE H == {n \in Nat : n <= Len(s) => \E g \in [0..n -> Seq(T)] : P(n, g)}
<1>1. 0 \in H
  <2> DEFINE g == [k \in 0..0 |-> <<>>]
  <2>1. g \in [0..0 -> Seq(T)]
    BY EmptySeq
  <2>2. P(0, g)
    <3>1. \A k \in 0..0 : g[k] = Appended(g, s, S, k)
      BY DEF Appended
    <3> QED
      BY <3>1
  <2> QED
    BY <2>1, <2>2
<1>2. ASSUME NEW n \in Nat, n \in H PROVE n+1 \in H
  <2>1. SUFFICES ASSUME n+1 <= Len(s)
                 PROVE  \E g \in [0..n+1 -> Seq(T)] : P(n+1, g)
    OBVIOUS
  <2>2. PICK f \in [0..n -> Seq(T)] : P(n, f)
    BY <1>2, <2>1
  <2> DEFINE v == IF s[n+1] \in S THEN Append(f[n], s[n+1]) ELSE f[n]
  <2> DEFINE g == [k \in 0..n+1 |-> IF k = n+1 THEN v ELSE f[k]]
  <2>3. v \in Seq(T)
    <3>1. n \in 0..n /\ f[n] \in Seq(T)
      BY <2>2
    <3>2. s[n+1] \in T
      BY <2>1, ElementOfSeq
    <3> QED
      BY <3>1, <3>2, AppendProperties
  <2>4. g \in [0..n+1 -> Seq(T)]
    BY <2>2, <2>3
  <2>5. \A k \in 0..n+1 : g[k] = Appended(g, s, S, k)
    <3> TAKE k \in 0..n+1
    <3>1. CASE k = n+1
      <4>1. g[k-1] = f[n] /\ k # 0
        BY <3>1
      <4> QED
        BY <3>1, <4>1 DEF Appended
    <3>2. CASE k # n+1
      <4>1. k \in 0..n /\ g[k] = f[k]
        BY <3>2
      <4>2. f = [j \in 0..n |-> Appended(f, s, S, j)]
        BY <2>2
      <4>3. f[k] = Appended(f, s, S, k)
        BY <4>1, <4>2
      <4>4. k # 0 => g[k-1] = f[k-1]
        BY <4>1
      <4> QED
        BY <4>1, <4>3, <4>4 DEF Appended
    <3> QED
      BY <3>1, <3>2
  <2>6. P(n+1, g)
    BY <2>5
  <2> QED
    BY <2>4, <2>6
<1> HIDE DEF P
<1>3. Nat \subseteq H
  BY <1>1, <1>2, NatInSet
<1>4. Len(s) \in Nat
  BY LenProperties
<1>5. \E g : P(Len(s), g)
  BY <1>3, <1>4
<1> DEFINE f == CHOOSE g : P(Len(s), g)
<1>6. P(Len(s), f)
  BY <1>5
<1>7. Filtered(s, S) = f[Len(s)]
  BY DEF Filtered, P, Appended
<1>8. \A k \in 0..Len(s) : f[k] = Appended(f, s, S, k)
  BY <1>6 DEF P
<1>9. DOMAIN f = 0..Len(s)
  BY <1>6 DEF P
<1> QED
  <2> HIDE DEF f
  <2> DEFINE J == {n \in Nat : n <= Len(s) => f[n] \in Seq(T)}
  <2>1. 0 \in J
    <3>1. f[0] = Appended(f, s, S, 0)
      BY <1>8, <1>4
    <3>2. Appended(f, s, S, 0) = <<>>
      BY DEF Appended
    <3> QED
      BY <3>1, <3>2, EmptySeq
  <2>2. ASSUME NEW n \in Nat, n \in J PROVE n+1 \in J
    <3>1. SUFFICES ASSUME n+1 <= Len(s) PROVE f[n+1] \in Seq(T)
      OBVIOUS
    <3>2. f[n] \in Seq(T) /\ s[n+1] \in T
      BY <2>2, <3>1, <1>4, ElementOfSeq
    <3>3. f[n+1] = IF s[n+1] \in S THEN Append(f[n], s[n+1]) ELSE f[n]
      BY <1>8, <3>1, <1>4 DEF Appended
    <3> QED
      BY <3>2, <3>3, AppendProperties
  <2>3. Nat \subseteq J
    BY <2>1, <2>2, NatInSet
  <2>4. \A k \in 0..Len(s) : f[k] \in Seq(T)
    BY <2>3, <1>4
  <2>5. f = [k \in 0..Len(s) |-> f[k]]
    BY <1>6 DEF P
  <2>6. f \in [0..Len(s) -> Seq(T)]
    BY <2>4, <2>5
  <2> QED
    BY <2>6, <1>7, <1>8

\* e takes the members of t from their places in s: in their order, and those in S all.
Picks(e, t, s, S, n) ==
  /\ e \in [1..Len(t) -> 1..n]
  /\ \A i \in 1..Len(t) : t[i] = s[e[i]] /\ s[e[i]] \in S
  /\ \A i \in 1..Len(t) : i <= e[i]
  /\ \A i, j \in 1..Len(t) : i < j => e[i] < e[j]
  /\ \A j \in 1..n : s[j] \in S => \E i \in 1..Len(t) : e[i] = j

\* What Filtered returns, by the places of its members in the list.
LEMMA FilteredPlaces ==
  ASSUME NEW T, NEW s \in Seq(T), NEW S
  PROVE  /\ Filtered(s, S) \in Seq(T)
         /\ \E e : Picks(e, Filtered(s, S), s, S, Len(s))
<1>1. PICK g \in [0..Len(s) -> Seq(T)] :
        /\ \A k \in 0..Len(s) : g[k] = Appended(g, s, S, k)
        /\ Filtered(s, S) = g[Len(s)]
  BY FilteredFunction
<1>2. Len(s) \in Nat
  BY LenProperties
<1> DEFINE H == {n \in Nat : n <= Len(s) => \E e : Picks(e, g[n], s, S, n)}
<1>3. 0 \in H
  <2>1. g[0] = <<>>
    BY <1>1, <1>2 DEF Appended
  <2>2. Picks(<<>>, <<>>, s, S, 0)
    BY DEF Picks
  <2> QED
    BY <2>1, <2>2
<1>4. ASSUME NEW n \in Nat, n \in H PROVE n+1 \in H
  <2>1. SUFFICES ASSUME n+1 <= Len(s) PROVE \E e : Picks(e, g[n+1], s, S, n+1)
    OBVIOUS
  <2>2. PICK e : Picks(e, g[n], s, S, n)
    BY <1>4, <2>1
  <2>3. g[n] \in Seq(T) /\ s[n+1] \in T
    BY <1>2, <2>1, ElementOfSeq
  <2> DEFINE t == g[n]
             l == Len(t)
  <2>4. l \in Nat
    BY <2>3, LenProperties
  <2>5. CASE s[n+1] \in S
    <3> DEFINE u == Append(t, s[n+1])
               d == [i \in 1..l+1 |-> IF i = l+1 THEN n+1 ELSE e[i]]
    <3>1. g[n+1] = u
      BY <1>1, <1>2, <2>1, <2>5 DEF Appended
    <3>2. Len(u) = l+1 /\ u[l+1] = s[n+1] /\ \A i \in 1..l : u[i] = t[i]
      BY <2>3, AppendProperties
    <3> HIDE DEF u, t, l
    <3>3. /\ e \in [1..l -> 1..n]
          /\ \A i \in 1..l : t[i] = s[e[i]] /\ s[e[i]] \in S
          /\ \A i \in 1..l : i <= e[i]
          /\ \A i, j \in 1..l : i < j => e[i] < e[j]
          /\ \A j \in 1..n : s[j] \in S => \E i \in 1..l : e[i] = j
      BY <2>2 DEF Picks, t, l
    <3>4. \A i \in 1..l : d[i] = e[i] /\ e[i] \in 1..n
      BY <2>4, <3>3
    <3>5. d[l+1] = n+1
      BY <2>4
    <3>6. d \in [1..l+1 -> 1..n+1]
      <4>1. ASSUME NEW i \in 1..l+1 PROVE d[i] \in 1..n+1
        <5>1. i # l+1 => i \in 1..l
          BY <2>4
        <5>2. n+1 \in 1..n+1 /\ 1..n \subseteq 1..n+1
          OBVIOUS
        <5> QED
          BY <5>1, <5>2, <3>4, <3>5
      <4> QED
        BY <4>1
    <3> HIDE DEF d
    <3>7. \A i \in 1..l+1 : u[i] = s[d[i]] /\ s[d[i]] \in S
      <4> TAKE i \in 1..l+1
      <4>1. i # l+1 => i \in 1..l
        BY <2>4
      <4> QED
        BY <2>5, <3>2, <3>3, <3>4, <3>5, <4>1
    <3>8. \A i, j \in 1..l+1 : i < j => d[i] < d[j]
      <4> TAKE i, j \in 1..l+1
      <4> HAVE i < j
      <4>1. i \in 1..l /\ (j # l+1 => j \in 1..l)
        BY <2>4
      <4>2. j # l+1 => d[i] < d[j]
        BY <3>3, <3>4, <4>1
      <4>3. j = l+1 => d[i] < d[j]
        BY <3>4, <3>5, <4>1
      <4> QED
        BY <4>2, <4>3
    <3>9. \A j \in 1..n+1 : s[j] \in S => \E i \in 1..l+1 : d[i] = j
      <4> SUFFICES ASSUME NEW j \in 1..n+1, s[j] \in S PROVE \E i \in 1..l+1 : d[i] = j
        OBVIOUS
      <4>1. CASE j = n+1
        BY <2>4, <3>5, <4>1
      <4>2. CASE j # n+1
        <5>1. j \in 1..n
          BY <4>2
        <5>2. PICK i \in 1..l : e[i] = j
          BY <3>3, <5>1
        <5>3. i \in 1..l+1 /\ d[i] = j
          BY <2>4, <3>4, <5>2
        <5> QED
          BY <5>3
      <4> QED
        BY <4>1, <4>2
    <3>10. \A i \in 1..l+1 : i <= d[i]
      <4>1. l = 0 \/ (l \in 1..l /\ l <= e[l] /\ e[l] \in 1..n)
        BY <2>4, <3>3
      <4>2. l <= n
        BY <4>1, <2>4
      <4> TAKE i \in 1..l+1
      <4>3. i # l+1 => i \in 1..l
        BY <2>4
      <4> QED
        BY <2>4, <3>3, <3>4, <3>5, <4>2, <4>3
    <3>11. Picks(d, u, s, S, n+1)
      BY <3>2, <3>6, <3>7, <3>8, <3>9, <3>10 DEF Picks
    <3> QED
      BY <3>1, <3>11
  <2>6. CASE s[n+1] \notin S
    <3>1. g[n+1] = t
      BY <1>1, <1>2, <2>1, <2>6 DEF Appended
    <3>2. Picks(e, t, s, S, n+1)
      <4> HIDE DEF t
      <4>1. /\ e \in [1..Len(t) -> 1..n]
            /\ \A i \in 1..Len(t) : t[i] = s[e[i]] /\ s[e[i]] \in S
            /\ \A i \in 1..Len(t) : i <= e[i]
            /\ \A i, j \in 1..Len(t) : i < j => e[i] < e[j]
            /\ \A j \in 1..n : s[j] \in S => \E i \in 1..Len(t) : e[i] = j
        BY <2>2 DEF Picks, t
      <4>2. 1..n \subseteq 1..n+1 /\ \A j \in 1..n+1 : j # n+1 => j \in 1..n
        OBVIOUS
      <4>3. e \in [1..Len(t) -> 1..n+1]
        BY <4>1, <4>2
      <4>4. \A j \in 1..n+1 : s[j] \in S => \E i \in 1..Len(t) : e[i] = j
        BY <2>6, <4>1, <4>2
      <4> QED
        BY <4>1, <4>3, <4>4 DEF Picks
    <3> QED
      BY <3>1, <3>2
  <2> QED
    BY <2>5, <2>6
<1>5. Nat \subseteq H
  BY <1>3, <1>4, NatInSet
<1> QED
  BY <1>1, <1>2, <1>5
-----------------------------------------------------------------------------
\* No member is in the list twice.
Distinct(s) == \A i, j \in 1..Len(s) : i # j => s[i] # s[j]

\* The members of the filtered list are those of the list that are in the set.
LEMMA FilteredMembers ==
  ASSUME NEW T, NEW s \in Seq(T), NEW S
  PROVE  /\ Filtered(s, S) \in Seq(T)
         /\ \A x : Contains(Filtered(s, S), x) <=> Contains(s, x) /\ x \in S
<1> DEFINE t == Filtered(s, S)
<1>1. PICK e : Picks(e, t, s, S, Len(s))
  BY FilteredPlaces
<1>2. t \in Seq(T)
  BY FilteredPlaces
<1> HIDE DEF t
<1>3. ASSUME NEW x, Contains(t, x) PROVE Contains(s, x) /\ x \in S
  BY <1>1, <1>3 DEF Picks, Contains
<1>4. ASSUME NEW x, Contains(s, x), x \in S PROVE Contains(t, x)
  BY <1>1, <1>4 DEF Picks, Contains
<1> QED
  BY <1>2, <1>3, <1>4 DEF t

\* Members of the filtered list have the order that they have in the list, no place
\* before the one that they have now.
LEMMA FilteredOrder ==
  ASSUME NEW T, NEW s \in Seq(T), NEW S, NEW i \in 1..Len(Filtered(s, S)),
         NEW j \in 1..Len(Filtered(s, S)), i < j
  PROVE  \E k, m \in 1..Len(s) :
           /\ i <= k /\ j <= m /\ k < m
           /\ s[k] = Filtered(s, S)[i] /\ s[m] = Filtered(s, S)[j]
<1> DEFINE t == Filtered(s, S)
<1>1. PICK e : Picks(e, t, s, S, Len(s))
  BY FilteredPlaces
<1>2. i \in 1..Len(t) /\ j \in 1..Len(t)
  OBVIOUS
<1> HIDE DEF t
<1>3. e[i] \in 1..Len(s) /\ e[j] \in 1..Len(s)
  BY <1>1, <1>2 DEF Picks
<1>4. i <= e[i] /\ j <= e[j] /\ e[i] < e[j] /\ t[i] = s[e[i]] /\ t[j] = s[e[j]]
  BY <1>1, <1>2 DEF Picks
<1> QED
  BY <1>3, <1>4 DEF t

\* The same of one member.
LEMMA FilteredPlace ==
  ASSUME NEW T, NEW s \in Seq(T), NEW S, NEW i \in 1..Len(Filtered(s, S))
  PROVE  \E k \in 1..Len(s) : i <= k /\ s[k] = Filtered(s, S)[i]
<1> DEFINE t == Filtered(s, S)
<1>1. PICK e : Picks(e, t, s, S, Len(s))
  BY FilteredPlaces
<1>2. i \in 1..Len(t)
  OBVIOUS
<1> HIDE DEF t
<1>3. e[i] \in 1..Len(s) /\ i <= e[i] /\ t[i] = s[e[i]]
  BY <1>1, <1>2 DEF Picks
<1> QED
  BY <1>3 DEF t

\* A list without double members has none after members were dropped.
LEMMA FilteredDistinct ==
  ASSUME NEW T, NEW s \in Seq(T), NEW S, Distinct(s)
  PROVE  Distinct(Filtered(s, S))
<1> DEFINE t == Filtered(s, S)
<1>1. Len(t) \in Nat
  BY FilteredPlaces, LenProperties
<1>2. ASSUME NEW i \in 1..Len(t), NEW j \in 1..Len(t), i < j PROVE t[i] # t[j]
  <2>1. PICK k, m \in 1..Len(s) : k < m /\ s[k] = t[i] /\ s[m] = t[j]
    BY <1>2, FilteredOrder
  <2>2. k # m
    BY <2>1, LenProperties
  <2> QED
    BY <2>1, <2>2 DEF Distinct
<1> HIDE DEF t
<1>3. ASSUME NEW i \in 1..Len(t), NEW j \in 1..Len(t), i # j PROVE t[i] # t[j]
  BY <1>1, <1>2, <1>3
<1> QED
  BY <1>3 DEF Distinct, t

\* What is left when one place is taken out of a list.
LEMMA RemoveAtPlaces ==
  ASSUME NEW T, NEW s \in Seq(T), NEW k \in 1..Len(s)
  PROVE  /\ RemoveAt(s, k) \in Seq(T)
         /\ Len(RemoveAt(s, k)) = Len(s) - 1
         /\ \A i \in 1..Len(s)-1 : RemoveAt(s, k)[i] = IF i < k THEN s[i] ELSE s[i+1]
<1>1. Len(s) \in Nat /\ k \in Int /\ k <= Len(s) /\ 1 <= k
  BY LenProperties
<1> DEFINE a == SubSeq(s, 1, k-1)
           b == SubSeq(s, k+1, Len(s))
<1>2. a \in Seq(T) /\ Len(a) = k-1 /\ \A i \in 1..k-1 : a[i] = s[i]
  <2>1. \A i \in 1..k-1 : s[i] \in T
    BY <1>1, ElementOfSeq
  <2> QED
    BY <1>1, <2>1, SubSeqProperties
<1>3. b \in Seq(T) /\ Len(b) = Len(s) - k /\ \A i \in 1..Len(s)-k : b[i] = s[k+i]
  <2>1. \A i \in k+1..Len(s) : s[i] \in T
    BY <1>1, ElementOfSeq
  <2> QED
    BY <1>1, <2>1, SubSeqProperties
<1> HIDE DEF a, b
<1>4. /\ a \o b \in Seq(T) /\ Len(a \o b) = Len(s) - 1
      /\ \A i \in 1..Len(s)-1 : (a \o b)[i] = IF i <= k-1 THEN a[i] ELSE b[i-(k-1)]
  <2>1. /\ a \o b \in Seq(T) /\ Len(a \o b) = Len(a) + Len(b)
        /\ \A i \in 1..Len(a)+Len(b) :
             (a \o b)[i] = IF i <= Len(a) THEN a[i] ELSE b[i-Len(a)]
    BY <1>2, <1>3, ConcatProperties
  <2>2. Len(a) = k-1 /\ Len(a) + Len(b) = Len(s) - 1
    BY <1>1, <1>2, <1>3
  <2> QED
    BY <2>1, <2>2
<1>5. ASSUME NEW i \in 1..Len(s)-1
      PROVE  (a \o b)[i] = IF i < k THEN s[i] ELSE s[i+1]
  <2>1. i < k => (a \o b)[i] = s[i]
    BY <1>1, <1>2, <1>4
  <2>2. i >= k => i-(k-1) \in 1..Len(s)-k /\ (a \o b)[i] = b[i-(k-1)] /\ k+(i-(k-1)) = i+1
    BY <1>1, <1>4
  <2>3. i >= k => b[i-(k-1)] = s[k+(i-(k-1))]
    BY <1>3, <2>2
  <2>4. i < k \/ i >= k
    BY <1>1
  <2> QED
    BY <1>1, <2>1, <2>2, <2>3, <2>4
<1> QED
  BY <1>4, <1>5 DEF RemoveAt, a, b

\* What is appended to a list that does not have it.
LEMMA AppendPlaces ==
  ASSUME NEW T, NEW s \in Seq(T), NEW h \in T, Distinct(s), ~Contains(s, h)
  PROVE  /\ Append(s, h) \in Seq(T) /\ Distinct(Append(s, h))
         /\ \A x : Contains(Append(s, h), x) <=> Contains(s, x) \/ x = h
<1> DEFINE t == Append(s, h)
<1>1. /\ t \in Seq(T) /\ Len(t) = Len(s)+1 /\ t[Len(s)+1] = h
      /\ \A i \in 1..Len(s) : t[i] = s[i]
  BY AppendProperties
<1>2. Len(s) \in Nat
  BY LenProperties
<1> HIDE DEF t
<1>3. \A i \in 1..Len(t) : i # Len(s)+1 => i \in 1..Len(s)
  BY <1>1, <1>2
<1>4. \A i \in 1..Len(s) : t[i] # h
  BY <1>1 DEF Contains
<1>5. Distinct(t)
  BY <1>1, <1>3, <1>4 DEF Distinct
<1>6. Len(s)+1 \in 1..Len(t) /\ 1..Len(s) \subseteq 1..Len(t)
  BY <1>1, <1>2
<1>7. ASSUME NEW x PROVE Contains(t, x) <=> Contains(s, x) \/ x = h
  BY <1>1, <1>3, <1>6 DEF Contains
<1> QED
  BY <1>1, <1>5, <1>7 DEF t

\* Two lists without a common member in one.
LEMMA MergedPlaces ==
  ASSUME NEW T, NEW s \in Seq(T), NEW u \in Seq(T), Distinct(s), Distinct(u),
         \A x \in T : ~(Contains(s, x) /\ Contains(u, x))
  PROVE  /\ s \o u \in Seq(T) /\ Distinct(s \o u)
         /\ \A x : Contains(s \o u, x) <=> Contains(s, x) \/ Contains(u, x)
<1> DEFINE t == s \o u
           m == Len(s)
           n == Len(u)
<1>1. /\ t \in Seq(T) /\ Len(t) = m + n
      /\ \A i \in 1..m+n : t[i] = IF i <= m THEN s[i] ELSE u[i-m]
  BY ConcatProperties
<1>2. m \in Nat /\ n \in Nat
  BY LenProperties
<1>3. \A i \in 1..m : s[i] \in T
  BY ElementOfSeq
<1> HIDE DEF t, m, n
<1>4. ASSUME NEW i \in 1..m+n
      PROVE  \/ i \in 1..m /\ t[i] = s[i]
             \/ i-m \in 1..n /\ i > m /\ t[i] = u[i-m]
  BY <1>1, <1>2
<1>5. \A i \in 1..m, j \in 1..n : s[i] # u[j]
  BY <1>3 DEF Contains, m, n
<1>6. ASSUME NEW i \in 1..m+n, NEW j \in 1..m+n, i # j PROVE t[i] # t[j]
  <2>1. CASE i \in 1..m /\ t[i] = s[i] /\ j \in 1..m /\ t[j] = s[j]
    BY <1>6, <2>1 DEF Distinct, m
  <2>2. CASE i \in 1..m /\ t[i] = s[i] /\ j-m \in 1..n /\ t[j] = u[j-m]
    BY <1>5, <2>2
  <2>3. CASE i-m \in 1..n /\ t[i] = u[i-m] /\ j \in 1..m /\ t[j] = s[j]
    BY <1>5, <2>3
  <2>4. CASE i-m \in 1..n /\ t[i] = u[i-m] /\ j-m \in 1..n /\ t[j] = u[j-m]
    <3>1. i-m # j-m
      BY <1>2, <1>6
    <3> QED
      BY <2>4, <3>1 DEF Distinct, n
  <2> QED
    BY <1>4, <2>1, <2>2, <2>3, <2>4
<1>7. Distinct(t)
  BY <1>1, <1>6 DEF Distinct
<1>8. ASSUME NEW x PROVE Contains(t, x) <=> Contains(s, x) \/ Contains(u, x)
  <2>1. Contains(t, x) => Contains(s, x) \/ Contains(u, x)
    BY <1>1, <1>4 DEF Contains, m, n
  <2>2. ASSUME NEW i \in 1..m PROVE i \in 1..Len(t) /\ t[i] = s[i]
    BY <1>1, <1>2
  <2>3. ASSUME NEW i \in 1..n PROVE i+m \in 1..Len(t) /\ t[i+m] = u[i]
    <3>1. i+m \in 1..m+n /\ ~(i+m <= m) /\ (i+m)-m = i
      BY <1>2
    <3> QED
      BY <1>1, <3>1
  <2> QED
    BY <2>1, <2>2, <2>3 DEF Contains, m, n
<1> QED
  BY <1>1, <1>7, <1>8 DEF t
=============================================================================
