--------------------------- MODULE SequenceLemmas ---------------------------
(***************************************************************************)
(* Lemmas about sequences without repetition: the lists of least recently  *)
(* used entries in the caches are such sequences.  And about sums.         *)
(***************************************************************************)
EXTENDS Integers, FiniteSets, SequencesExt, SequenceTheorems, FiniteSetTheorems, FunctionTheorems, WellFoundedInduction, TLAPS

\* A sequence has as many positions as its length.
LEMMA DomainFinite ==
  ASSUME NEW S, NEW s \in Seq(S)
  PROVE  IsFiniteSet(DOMAIN s) /\ Cardinality(DOMAIN s) = Len(s)
<1>1. Len(s) \in Nat /\ DOMAIN s = 1 .. Len(s)
  BY LenProperties
<1>2. 1 \in Int /\ Len(s) \in Int
  BY <1>1
<1>3. IsFiniteSet(1 .. Len(s)) /\ Cardinality(1 .. Len(s)) = IF 1 > Len(s) THEN 0 ELSE Len(s) - 1 + 1
  BY ONLY <1>2, FS_Interval
<1>4. QED
  BY <1>1, <1>3

\* Where the members of a sequence go when the one at position i is removed.
LEMMA RemoveAtProperties ==
  ASSUME NEW S, NEW s \in Seq(S), NEW i \in 1 .. Len(s)
  PROVE  /\ RemoveAt(s, i) \in Seq(S)
         /\ Len(RemoveAt(s, i)) = Len(s) - 1
         /\ \A j \in 1 .. Len(s) - 1 : RemoveAt(s, i)[j] = IF j < i THEN s[j] ELSE s[j + 1]
<1>0. /\ Len(s) \in Nat /\ DOMAIN s = 1 .. Len(s)
      /\ \A j \in 1 .. Len(s) : s[j] \in S
  BY LenProperties, ElementOfSeq
<1>1. i \in 1 .. Len(s)
  OBVIOUS
<1> DEFINE a == SubSeq(s, 1, i - 1)
           b == SubSeq(s, i + 1, Len(s))
           r == a \o b
<1>4. RemoveAt(s, i) = r
  BY DEF RemoveAt
<1>5. /\ a \in Seq(S) /\ Len(a) = i - 1
      /\ \A j \in 1 .. i - 1 : a[j] = s[j]
  BY <1>0, <1>1, SubSeqProperties
<1>6. /\ b \in Seq(S) /\ Len(b) = Len(s) - i
      /\ \A j \in 1 .. Len(s) - i : b[j] = s[j + i]
  <2>1. \A j \in i + 1 .. Len(s) : s[j] \in S
    BY <1>0, <1>1
  <2>2. /\ b \in Seq(S) /\ Len(b) = IF i + 1 <= Len(s) THEN Len(s) - (i + 1) + 1 ELSE 0
        /\ \A j \in 1 .. Len(s) - (i + 1) + 1 : b[j] = s[i + 1 + j - 1]
    BY ONLY <1>0, <1>1, <2>1, SubSeqProperties, i \in Int DEF b
  <2> HIDE DEF b
  <2>3. Len(b) = Len(s) - i
    BY <1>0, <1>1, <2>2
  <2>4. ASSUME NEW j \in 1 .. Len(s) - i PROVE b[j] = s[j + i]
    <3>1. j \in 1 .. Len(s) - (i + 1) + 1 /\ i + 1 + j - 1 = j + i
      BY <1>0, <1>1
    <3>2. QED
      BY <2>2, <3>1
  <2>5. QED
    BY <2>2, <2>3, <2>4
<1> HIDE DEF a, b
<1>7. /\ r \in Seq(S) /\ Len(r) = Len(s) - 1
      /\ \A j \in 1 .. Len(s) - 1 : r[j] = IF j < i THEN s[j] ELSE s[j + 1]
  <2>1. /\ r \in Seq(S) /\ Len(r) = Len(s) - 1
        /\ \A j \in 1 .. Len(a) + Len(b) : r[j] = IF j <= Len(a) THEN a[j] ELSE b[j - Len(a)]
    <3>1. /\ r \in Seq(S) /\ Len(r) = Len(a) + Len(b)
          /\ \A j \in 1 .. Len(a) + Len(b) : r[j] = IF j <= Len(a) THEN a[j] ELSE b[j - Len(a)]
      BY <1>5, <1>6, ConcatProperties
    <3> HIDE DEF r
    <3>2. Len(a) + Len(b) = Len(s) - 1
      BY <1>0, <1>1, <1>5, <1>6
    <3>3. QED
      BY <3>1, <3>2
  <2> HIDE DEF r
  <2>2. ASSUME NEW j \in 1 .. Len(s) - 1
        PROVE  r[j] = IF j < i THEN s[j] ELSE s[j + 1]
    <3>0. r[j] = IF j <= Len(a) THEN a[j] ELSE b[j - Len(a)]
      <4>1. Len(a) + Len(b) = Len(s) - 1
        BY <1>0, <1>1, <1>5, <1>6
      <4>2. QED
        BY <2>1, <4>1
    <3>1. CASE j < i
      <4>1. j <= Len(a) /\ j \in 1 .. i - 1
        BY <1>1, <1>5, <3>1
      <4>2. QED
        BY <1>5, <3>0, <3>1, <4>1
    <3>2. CASE j >= i
      <4>1. j - (i - 1) \in 1 .. Len(s) - i
        BY <1>0, <1>1, <3>2
      <4>2. (j - (i - 1)) + i = j + 1 /\ ~(j <= Len(a)) /\ ~(j < i)
        BY <1>1, <1>5, <3>2
      <4>3. b[j - (i - 1)] = s[j + 1]
        BY <1>6, <4>1, <4>2
      <4>4. QED
        BY <1>5, <3>0, <4>2, <4>3
    <3>3. QED
      BY <1>1, <3>1, <3>2
  <2>3. QED
    BY <2>1, <2>2
<1> HIDE DEF r
<1>8. QED
  BY <1>4, <1>7

\* Where the members of a sequence without repetition go when one is removed.
LEMMA RemoveFirstAt ==
  ASSUME NEW S, NEW s \in Seq(S), IsInjective(s), NEW e \in ToSet(s)
  PROVE  /\ RemoveFirst(s, e) \in Seq(S)
         /\ Len(RemoveFirst(s, e)) = Len(s) - 1
         /\ \E i \in 1 .. Len(s) :
              /\ s[i] = e
              /\ \A j \in 1 .. Len(s) - 1 :
                   RemoveFirst(s, e)[j] = IF j < i THEN s[j] ELSE s[j + 1]
<1>0. /\ Len(s) \in Nat /\ DOMAIN s = 1 .. Len(s)
      /\ \A j \in 1 .. Len(s) : s[j] \in S
  BY LenProperties, ElementOfSeq
<1>1. PICK i \in 1 .. Len(s) : s[i] = e
  BY <1>0 DEF ToSet
<1>2. {j \in 1 .. Len(s) : s[j] = e} = {i}
  BY <1>0, <1>1 DEF IsInjective
<1>3. SelectInSeq(s, LAMBDA v : v = e) = i
  BY <1>2 DEF SelectInSeq, Min
<1>4. RemoveFirst(s, e) = RemoveAt(s, i)
  BY <1>1, <1>3 DEF RemoveFirst
<1>5. QED
  BY <1>1, <1>4, RemoveAtProperties

\* Removing a member of a sequence without repetition leaves the others.
LEMMA RemoveFirstProperties ==
  ASSUME NEW S, NEW s \in Seq(S), IsInjective(s), NEW e \in ToSet(s)
  PROVE  /\ RemoveFirst(s, e) \in Seq(S)
         /\ Len(RemoveFirst(s, e)) = Len(s) - 1
         /\ ToSet(RemoveFirst(s, e)) = ToSet(s) \ {e}
         /\ IsInjective(RemoveFirst(s, e))
<1> DEFINE r == RemoveFirst(s, e)
<1>0. Len(s) \in Nat /\ DOMAIN s = 1 .. Len(s)
  BY LenProperties
<1>1. PICK i \in 1 .. Len(s) :
        /\ r \in Seq(S) /\ Len(r) = Len(s) - 1 /\ s[i] = e
        /\ \A j \in 1 .. Len(s) - 1 : r[j] = IF j < i THEN s[j] ELSE s[j + 1]
  BY RemoveFirstAt
<1> HIDE DEF r
<1>2. DOMAIN r = 1 .. Len(s) - 1
  BY <1>1, LenProperties
<1>3. ToSet(r) = ToSet(s) \ {e}
  <2>1. ASSUME NEW y \in ToSet(r) PROVE y \in ToSet(s) \ {e}
    <3>1. PICK j \in 1 .. Len(s) - 1 : r[j] = y
      BY <1>2 DEF ToSet
    <3>2. PICK k \in 1 .. Len(s) : s[k] = y /\ k # i
      BY <1>0, <1>1, <1>1, <3>1
    <3>3. QED
      BY <1>0, <1>1, <3>2 DEF ToSet, IsInjective
  <2>2. ASSUME NEW y \in ToSet(s) \ {e} PROVE y \in ToSet(r)
    <3>1. PICK k \in 1 .. Len(s) : s[k] = y /\ k # i
      BY <1>0, <1>1 DEF ToSet
    <3>2. \E j \in 1 .. Len(s) - 1 : r[j] = y
      <4>1. CASE k < i
        BY <1>0, <1>1, <1>1, <3>1, <4>1
      <4>2. CASE k > i
        <5>1. k - 1 \in 1 .. Len(s) - 1 /\ ~(k - 1 < i) /\ (k - 1) + 1 = k
          BY <1>0, <1>1, <3>1, <4>2
        <5>2. QED
          BY <1>1, <3>1, <5>1
      <4>3. QED
        BY <1>1, <3>1, <4>1, <4>2
    <3>3. QED
      BY <1>2, <3>2 DEF ToSet
  <2>3. QED
    BY <2>1, <2>2
<1>4. IsInjective(r)
  <2>1. ASSUME NEW j \in 1 .. Len(s) - 1, NEW k \in 1 .. Len(s) - 1, r[j] = r[k]
        PROVE  j = k
    <3> DEFINE at(m) == IF m < i THEN m ELSE m + 1
    <3>1. /\ at(j) \in 1 .. Len(s) /\ at(k) \in 1 .. Len(s)
          /\ r[j] = s[at(j)] /\ r[k] = s[at(k)]
      BY <1>0, <1>1, <1>1
    <3>2. at(j) = at(k)
      BY <1>0, <2>1, <3>1 DEF IsInjective
    <3>3. QED
      BY <1>1, <3>2
  <2>2. QED
    BY <1>2, <2>1 DEF IsInjective
<1>5. QED
  BY <1>1, <1>3, <1>4 DEF r

\* The members of r come in s in the same order.
OrderKept(r, s) ==
  \A i, j \in DOMAIN r : i < j =>
    \E k, l \in DOMAIN s : k < l /\ s[k] = r[i] /\ s[l] = r[j]

\* Removing a member keeps the order of the others.
LEMMA RemoveFirstOrder ==
  ASSUME NEW S, NEW s \in Seq(S), IsInjective(s), NEW e \in ToSet(s)
  PROVE  OrderKept(RemoveFirst(s, e), s)
<1> DEFINE r == RemoveFirst(s, e)
<1>1. Len(s) \in Nat /\ DOMAIN s = 1 .. Len(s)
  BY LenProperties
<1>2. PICK m \in 1 .. Len(s) :
        /\ r \in Seq(S) /\ Len(r) = Len(s) - 1
        /\ \A j \in 1 .. Len(s) - 1 : r[j] = IF j < m THEN s[j] ELSE s[j + 1]
  BY RemoveFirstAt
<1>3. DOMAIN r = 1 .. Len(s) - 1
  BY <1>2, LenProperties
<1> HIDE DEF r
<1>4. ASSUME NEW i \in DOMAIN r, NEW j \in DOMAIN r, i < j
      PROVE  \E k, l \in DOMAIN s : k < l /\ s[k] = r[i] /\ s[l] = r[j]
  <2>1. PICK k, l : k = (IF i < m THEN i ELSE i + 1) /\ l = (IF j < m THEN j ELSE j + 1)
    OBVIOUS
  <2>2. k \in DOMAIN s /\ l \in DOMAIN s /\ k < l /\ s[k] = r[i] /\ s[l] = r[j]
    BY <1>1, <1>2, <1>3, <1>4, <2>1
  <2>3. QED
    BY <2>2
<1>5. OrderKept(r, s)
  BY <1>4 DEF OrderKept
<1>6. QED
  BY <1>5 DEF r

\* A new first element.
LEMMA ConsProperties ==
  ASSUME NEW S, NEW s \in Seq(S), NEW e \in S
  PROVE  /\ <<e>> \o s \in Seq(S) /\ Len(<<e>> \o s) = Len(s) + 1
         /\ (<<e>> \o s)[1] = e /\ \A i \in 1 .. Len(s) : (<<e>> \o s)[i + 1] = s[i]
         /\ ToSet(<<e>> \o s) = ToSet(s) \cup {e}
         /\ IsInjective(s) /\ e \notin ToSet(s) => IsInjective(<<e>> \o s)
<1> DEFINE r == <<e>> \o s
<1>1. <<e>> \in Seq(S) /\ Len(<<e>>) = 1 /\ <<e>>[1] = e
  OBVIOUS
<1>2. /\ r \in Seq(S) /\ Len(r) = 1 + Len(s)
      /\ \A i \in 1 .. 1 + Len(s) : r[i] = IF i <= 1 THEN <<e>>[i] ELSE s[i - 1]
  BY <1>1, ConcatProperties
<1>3. Len(s) \in Nat /\ DOMAIN s = 1 .. Len(s) /\ DOMAIN r = 1 .. Len(s) + 1
  BY <1>2, LenProperties
<1> HIDE DEF r
<1>4. r[1] = e /\ \A i \in 1 .. Len(s) : r[i + 1] = s[i]
  <2>1. r[1] = e
    BY <1>1, <1>2, <1>3
  <2>2. ASSUME NEW i \in 1 .. Len(s) PROVE r[i + 1] = s[i]
    <3>1. i + 1 \in 1 .. 1 + Len(s) /\ ~(i + 1 <= 1) /\ (i + 1) - 1 = i
      BY <1>3
    <3>2. QED
      BY <1>2, <3>1
  <2>3. QED
    BY <2>1, <2>2
<1>5. \A i \in 1 .. Len(s) + 1 : i = 1 \/ (i - 1 \in 1 .. Len(s) /\ r[i] = s[i - 1])
  BY <1>2, <1>3
<1>6. ToSet(r) = ToSet(s) \cup {e}
  <2>1. ToSet(r) \subseteq ToSet(s) \cup {e}
    BY <1>3, <1>4, <1>5 DEF ToSet
  <2>2. e \in ToSet(r)
    BY <1>3, <1>4 DEF ToSet
  <2>3. ASSUME NEW y \in ToSet(s) PROVE y \in ToSet(r)
    <3>1. PICK i \in 1 .. Len(s) : s[i] = y
      BY <1>3 DEF ToSet
    <3>2. i + 1 \in DOMAIN r /\ r[i + 1] = y
      BY <1>3, <1>4, <3>1
    <3>3. QED
      BY <3>2 DEF ToSet
  <2>4. QED
    BY <2>1, <2>2, <2>3
<1>7. ASSUME IsInjective(s), e \notin ToSet(s) PROVE IsInjective(r)
  <2>1. ASSUME NEW i \in 1 .. Len(s) + 1, NEW j \in 1 .. Len(s) + 1, r[i] = r[j]
        PROVE  i = j
    <3>1. \A k \in 1 .. Len(s) : s[k] # e
      BY <1>3, <1>7 DEF ToSet
    <3>2. CASE i = 1 \/ j = 1
      BY <1>4, <1>5, <2>1, <3>1, <3>2
    <3>3. CASE i # 1 /\ j # 1
      <4>1. i - 1 = j - 1
        BY <1>3, <1>5, <1>7, <2>1, <3>3 DEF IsInjective
      <4>2. QED
        BY <1>3, <4>1
    <3>4. QED
      BY <3>2, <3>3
  <2>2. QED
    BY <1>3, <2>1 DEF IsInjective
<1>8. QED
  BY <1>2, <1>4, <1>6, <1>7 DEF r

\* A sequence without repetition has as many members as elements.
LEMMA InjectiveCount ==
  ASSUME NEW S, NEW s \in Seq(S), IsInjective(s)
  PROVE  IsFiniteSet(ToSet(s)) /\ Cardinality(ToSet(s)) = Len(s)
<1>1. Len(s) \in Nat /\ DOMAIN s = 1 .. Len(s) /\ s \in [1 .. Len(s) -> S]
  BY LenProperties
<1>2. s \in [1 .. Len(s) -> ToSet(s)] /\ \A y \in ToSet(s) : \E i \in 1 .. Len(s) : s[i] = y
  BY <1>1 DEF ToSet
<1>3. s \in Bijection(1 .. Len(s), ToSet(s))
  BY <1>1, <1>2, Fun_IsBij DEF IsInjective
<1>4. ExistsBijection(1 .. Len(s), ToSet(s))
  BY <1>3 DEF ExistsBijection
<1>5. IsFiniteSet(1 .. Len(s)) /\ Cardinality(ToSet(s)) = Len(s)
  BY <1>1, <1>4, FS_Interval, FS_CountingElements
<1>6. QED
  BY <1>4, <1>5, FS_Bijection

\* p is the first m members of s: who stays, who goes, and how many.
FirstOf(p, m, s) ==
  /\ Len(p) = m /\ IsInjective(p) /\ ToSet(p) \subseteq ToSet(s) /\ OrderKept(p, s)
  /\ \A y \in ToSet(p) : \E i \in 1 .. m : y = s[i]
  /\ \A y \in ToSet(s) \ ToSet(p) : \E i \in m + 1 .. Len(s) : y = s[i]
  /\ Cardinality(ToSet(s) \ ToSet(p)) = Len(s) - m

\* The first m members of a sequence without repetition.
LEMMA PrefixProperties ==
  ASSUME NEW S, NEW s \in Seq(S), IsInjective(s), NEW m \in 0 .. Len(s)
  PROVE  SubSeq(s, 1, m) \in Seq(S) /\ FirstOf(SubSeq(s, 1, m), m, s)
<1> DEFINE r == SubSeq(s, 1, m)
<1>1. /\ Len(s) \in Nat /\ DOMAIN s = 1 .. Len(s) /\ m \in Nat /\ m <= Len(s)
      /\ \A i \in 1 .. Len(s) : s[i] \in S
  BY LenProperties, ElementOfSeq
<1>2. /\ r \in Seq(S) /\ Len(r) = (IF 1 <= m THEN m - 1 + 1 ELSE 0)
      /\ \A i \in 1 .. m - 1 + 1 : r[i] = s[1 + i - 1]
  <2>1. \A i \in 1 .. m : s[i] \in S
    BY <1>1
  <2>2. QED
    BY ONLY <1>1, <2>1, SubSeqProperties DEF r
<1> HIDE DEF r
<1>3. /\ Len(r) = m /\ DOMAIN r = 1 .. m /\ \A i \in 1 .. m : r[i] = s[i]
  BY <1>1, <1>2, LenProperties
<1>4. IsInjective(r) /\ OrderKept(r, s)
  BY <1>1, <1>3 DEF IsInjective, OrderKept
<1>5. ToSet(r) = {s[i] : i \in 1 .. m} /\ ToSet(s) = {s[i] : i \in 1 .. Len(s)}
  BY <1>1, <1>3 DEF ToSet
<1>6. ToSet(r) \subseteq ToSet(s)
  BY <1>1, <1>5
<1>7. /\ \A y \in ToSet(r) : \E i \in 1 .. m : y = s[i]
      /\ \A y \in ToSet(s) \ ToSet(r) : \E i \in m + 1 .. Len(s) : y = s[i]
  <2>1. \A i \in 1 .. Len(s) : i \in 1 .. m \/ i \in m + 1 .. Len(s)
    BY <1>1
  <2>2. QED
    BY <1>5, <2>1
<1>8. Cardinality(ToSet(s) \ ToSet(r)) = Len(s) - m
  <2>1. /\ IsFiniteSet(ToSet(s)) /\ Cardinality(ToSet(s)) = Len(s)
        /\ Cardinality(ToSet(r)) = m
    BY <1>2, <1>3, <1>4, InjectiveCount
  <2>2. ToSet(s) \cap ToSet(r) = ToSet(r)
    BY <1>6
  <2>3. Cardinality(ToSet(s) \ ToSet(r)) = Cardinality(ToSet(s)) - Cardinality(ToSet(s) \cap ToSet(r))
    BY ONLY <2>1, FS_Difference
  <2>4. QED
    BY ONLY <2>1, <2>2, <2>3
<1>9. QED
  BY <1>2, <1>3, <1>4, <1>6, <1>7, <1>8 DEF r, FirstOf

\* The least of some naturals is one of them.
LEMMA MinMember ==
  ASSUME NEW T, T \subseteq Nat, T # {}
  PROVE  Min(T) \in T /\ \A y \in T : Min(T) <= y
<1>1. PICK x \in T : \A y \in T : <<y, x>> \notin OpToRel(<, Nat)
  BY WFMin, NatLessThanWellFounded, Zenon
<1>2. \A y \in T : ~(y < x)
  BY <1>1, Zenon DEF OpToRel
<1>3. \A y \in T : x <= y
  BY <1>2
<1>4. QED
  BY <1>3 DEF Min

\* Appending something new keeps a sequence without repetition.
LEMMA AppendNew ==
  ASSUME NEW S, NEW s \in Seq(S), NEW e \in S
  PROVE  /\ ToSet(Append(s, e)) = ToSet(s) \cup {e}
         /\ IsInjective(s) /\ e \notin ToSet(s) => IsInjective(Append(s, e))
<1>1. /\ Append(s, e) \in Seq(S) /\ Len(s) \in Nat /\ DOMAIN s = 1 .. Len(s)
      /\ DOMAIN Append(s, e) = 1 .. Len(s) + 1
      /\ \A i \in 1 .. Len(s) : Append(s, e)[i] = s[i]
      /\ Append(s, e)[Len(s) + 1] = e
  BY AppendProperties, LenProperties
<1>2. QED
  BY <1>1 DEF ToSet, IsInjective

\* The rest of a sequence without repetition.
LEMMA TailProperties ==
  ASSUME NEW S, NEW s \in Seq(S), s # <<>>
  PROVE  /\ Tail(s) \in Seq(S) /\ Len(Tail(s)) = Len(s) - 1
         /\ ToSet(s) = ToSet(Tail(s)) \cup {Head(s)}
         /\ IsInjective(s) => IsInjective(Tail(s)) /\ Head(s) \notin ToSet(Tail(s))
<1>1. /\ Tail(s) \in Seq(S) /\ Len(s) \in Nat /\ Len(s) > 0 /\ DOMAIN s = 1 .. Len(s)
      /\ DOMAIN Tail(s) = 1 .. Len(s) - 1 /\ Len(Tail(s)) = Len(s) - 1
      /\ \A i \in 1 .. Len(s) - 1 : Tail(s)[i] = s[i + 1]
      /\ Head(s) = s[1]
  BY HeadTailProperties, LenProperties, EmptySeq
<1>2. \A i \in 1 .. Len(s) : i = 1 \/ i - 1 \in 1 .. Len(s) - 1
  BY <1>1
<1>3. ToSet(s) = ToSet(Tail(s)) \cup {Head(s)}
  <2>1. ASSUME NEW y \in ToSet(s) PROVE y \in ToSet(Tail(s)) \cup {Head(s)}
    <3>1. PICK i \in 1 .. Len(s) : s[i] = y
      BY <1>1 DEF ToSet
    <3>2. CASE i = 1
      BY <1>1, <3>1, <3>2
    <3>3. CASE i - 1 \in 1 .. Len(s) - 1
      <4>1. Tail(s)[i - 1] = y
        BY <1>1, <3>1, <3>3
      <4>2. QED
        BY <1>1, <3>3, <4>1 DEF ToSet
    <3>4. QED
      BY <1>2, <3>2, <3>3
  <2>2. QED
    BY <1>1, <2>1 DEF ToSet
<1>4. QED
  BY SMTT(30), <1>1, <1>3 DEF ToSet, IsInjective

\* The first element alone.
LEMMA SubSeqFirst ==
  ASSUME NEW S, NEW s \in Seq(S), s # <<>>
  PROVE  SubSeq(s, 1, 1) = <<Head(s)>>
<1>1. Len(s) \in Nat /\ Len(s) > 0 /\ Head(s) = s[1] /\ s[1] \in S
  BY EmptySeq, LenProperties, ElementOfSeq
<1>2. SubSeq(s, 1, 1) = SubSeq(s, 1, 0) \o <<s[1]>>
  BY <1>1, SubSeqRecursiveSecond
<1>3. SubSeq(s, 1, 0) = <<>>
  BY SubSeqEmpty
<1>4. <<s[1]>> \in Seq(S)
  BY <1>1
<1>5. QED
  BY <1>1, <1>2, <1>3, <1>4, ConcatEmptySeq

\* A bounded list that takes one new member at its end and loses the oldest
\* one if it was full.
LEMMA ShiftProperties ==
  ASSUME NEW S, NEW s \in Seq(S), s # <<>>, IsInjective(s), NEW e \in S, e \notin ToSet(s)
  PROVE  /\ Append(Tail(s), e) \in Seq(S) /\ Len(Append(Tail(s), e)) = Len(s)
         /\ IsInjective(Append(Tail(s), e))
         /\ ToSet(Append(Tail(s), e)) = (ToSet(s) \ {Head(s)}) \cup {e}
         /\ SubSeq(Append(s, e), 2, Len(s) + 1) = Append(Tail(s), e)
         /\ SubSeq(Append(s, e), 1, 1) = <<Head(s)>>
<1> DEFINE tl == Tail(s)
           all == Append(s, e)
<1>1. /\ tl \in Seq(S) /\ Len(tl) = Len(s) - 1 /\ Len(s) \in Nat
      /\ ToSet(s) = ToSet(tl) \cup {Head(s)} /\ IsInjective(tl) /\ Head(s) \notin ToSet(tl)
  BY TailProperties, LenProperties
<1>2. /\ Tail(all) = Append(tl, e) /\ Head(all) = Head(s)
      /\ all \in Seq(S) /\ all # <<>> /\ Len(all) = Len(s) + 1
  BY HeadTailAppend, AppendProperties
<1> HIDE DEF tl, all
<1>3. /\ ToSet(Append(tl, e)) = ToSet(tl) \cup {e} /\ IsInjective(Append(tl, e))
  <2>1. e \notin ToSet(tl)
    BY <1>1
  <2>2. QED
    BY <1>1, <2>1, AppendNew
<1>4. Append(tl, e) \in Seq(S) /\ Len(Append(tl, e)) = Len(s)
  BY <1>1, AppendProperties
<1>5. SubSeq(all, 2, Len(all)) = Tail(all) /\ SubSeq(all, 1, 1) = <<Head(all)>>
  BY <1>2, TailIsSubSeq, SubSeqFirst
<1>6. ToSet(Append(tl, e)) = (ToSet(s) \ {Head(s)}) \cup {e}
  BY <1>1, <1>3
<1>7. QED
  BY <1>2, <1>3, <1>4, <1>5, <1>6 DEF tl, all

-----------------------------------------------------------------------------
(* Sums over finite sets.  What the folds of the library answer is not        *)
(* visible to the provers: the sums of all subsets of a set exist, they are    *)
(* unique, and so they are what SumFunctionOnSet answers.                      *)

\* A set that holds 0 and the successor of each of its naturals holds them all.
LEMMA NaturalsAllIn ==
  ASSUME NEW T, 0 \in T, \A n \in Nat : n \in T => n + 1 \in T
  PROVE  \A n \in Nat : n \in T
<1> DEFINE Bad == {n \in Nat : n \notin T}
<1>1. ASSUME Bad # {} PROVE FALSE
  <2>1. Min(Bad) \in Bad /\ \A n \in Bad : Min(Bad) <= n
    <3>1. Bad \subseteq Nat
      OBVIOUS
    <3> HIDE DEF Bad
    <3>2. QED
      BY <1>1, <3>1, MinMember
  <2> DEFINE m == Min(Bad)
  <2>2. m \in Nat /\ m \notin T /\ \A n \in Nat : n \notin T => m <= n
    BY <2>1
  <2> HIDE DEF m
  <2>3. m # 0 /\ m - 1 \in Nat /\ (m - 1) + 1 = m
    BY <2>2
  <2>4. m - 1 \in T
    <3>1. ~(m <= m - 1)
      BY <2>2
    <3>2. QED
      BY <2>2, <2>3, <3>1
  <2>5. QED
    BY <2>2, <2>3, <2>4
<1>2. QED
  BY <1>1

\* g is the course of F from i on.
Iterates(g, F, i, n) == g[0] = i /\ \A k \in 1 .. n : g[k] = F[g[k - 1]]

\* A function may be applied any number of times.
LEMMA IteratesExist ==
  ASSUME NEW S, NEW F \in [S -> S], NEW i \in S, NEW n \in Nat
  PROVE  \E g \in [0 .. n -> S] : Iterates(g, F, i, n)
<1> DEFINE T == {m \in Nat : \E g \in [0 .. m -> S] : Iterates(g, F, i, m)}
<1>1. 0 \in T
  <2> DEFINE g == [k \in 0 .. 0 |-> i]
  <2>1. g \in [0 .. 0 -> S] /\ Iterates(g, F, i, 0)
    BY DEF Iterates
  <2>2. QED
    BY <2>1
<1>2. ASSUME NEW m \in Nat, m \in T PROVE m + 1 \in T
  <2>1. PICK g \in [0 .. m -> S] : g[0] = i /\ \A k \in 1 .. m : g[k] = F[g[k - 1]]
    BY <1>2 DEF Iterates
  <2> DEFINE h == [k \in 0 .. m + 1 |-> IF k = m + 1 THEN F[g[m]] ELSE g[k]]
  <2>2. h \in [0 .. m + 1 -> S]
    OBVIOUS
  <2>3. ASSUME NEW k \in 1 .. m + 1 PROVE h[k] = F[h[k - 1]]
    <3>1. CASE k = m + 1
      BY <3>1
    <3>2. CASE k # m + 1
      <4>1. k \in 1 .. m /\ k - 1 \in 0 .. m
        BY <3>2
      <4>2. h[k] = g[k] /\ h[k - 1] = g[k - 1]
        BY <3>2, <4>1
      <4>3. QED
        BY <2>1, <4>1, <4>2
    <3>3. QED
      BY <3>1, <3>2
  <2>4. h[0] = i
    BY <2>1
  <2>5. m + 1 \in Nat
    OBVIOUS
  <2> HIDE DEF h
  <2>6. QED
    BY <2>2, <2>3, <2>4, <2>5 DEF Iterates
<1>3. \A m \in Nat : m \in T
  <2> HIDE DEF T
  <2>1. QED
    BY <1>1, <1>2, NaturalsAllIn
<1>4. QED
  BY <1>3

\* g adds up f over every set of a family.
AddsUp(g, f, F) ==
  \A s \in F : g[s] = IF s = {} THEN 0 ELSE f[CHOOSE x \in s : TRUE] + g[s \ {CHOOSE x \in s : TRUE}]

\* The sums over the subsets of a finite set exist.
LEMMA SumsExist ==
  ASSUME NEW D, IsFiniteSet(D), NEW f \in [D -> Int]
  PROVE  \E g \in [SUBSET D -> Int] : AddsUp(g, f, SUBSET D)
<1> DEFINE Small(n) == {s \in SUBSET D : Cardinality(s) <= n}
           Good == {n \in Nat : \E g \in [SUBSET D -> Int] : AddsUp(g, f, Small(n))}
           pick(s) == CHOOSE x \in s : TRUE
<1>1. ASSUME NEW s \in SUBSET D
      PROVE  /\ IsFiniteSet(s) /\ Cardinality(s) \in Nat /\ (Cardinality(s) = 0 <=> s = {})
             /\ s # {} => /\ pick(s) \in s /\ s \ {pick(s)} \in SUBSET D
                          /\ Cardinality(s \ {pick(s)}) = Cardinality(s) - 1
  BY FS_Subset, FS_CardinalityType, FS_EmptySet, FS_RemoveElement
<1>2. 0 \in Good
  <2> DEFINE g == [s \in SUBSET D |-> 0]
  <2>1. ASSUME NEW s \in Small(0) PROVE s = {}
    <3>1. s \in SUBSET D /\ Cardinality(s) <= 0
      OBVIOUS
    <3>2. Cardinality(s) \in Nat /\ (Cardinality(s) = 0 <=> s = {})
      BY <1>1, <3>1
    <3>3. Cardinality(s) = 0
      BY <3>1, <3>2
    <3>4. QED
      BY <3>2, <3>3
  <2>2. g \in [SUBSET D -> Int] /\ AddsUp(g, f, Small(0))
    BY <2>1 DEF AddsUp
  <2>3. QED
    BY <2>2
<1>3. ASSUME NEW n \in Good PROVE n + 1 \in Good
  <2>1. PICK g \in [SUBSET D -> Int] : AddsUp(g, f, Small(n))
    OBVIOUS
  <2> DEFINE h == [s \in SUBSET D |-> IF s = {} THEN 0 ELSE f[pick(s)] + g[s \ {pick(s)}]]
  <2>2. h \in [SUBSET D -> Int]
    <3>1. ASSUME NEW s \in SUBSET D, s # {} PROVE f[pick(s)] \in Int /\ g[s \ {pick(s)}] \in Int
      BY <1>1, <3>1
    <3>2. QED
      BY <3>1
  <2>3. ASSUME NEW s \in Small(n) PROVE h[s] = g[s]
    BY <2>1 DEF AddsUp
  <2>4. ASSUME NEW s \in Small(n + 1), s # {} PROVE s \ {pick(s)} \in Small(n)
    BY <1>1, <2>4
  <2>5. AddsUp(h, f, Small(n + 1))
    <3>1. ASSUME NEW s \in Small(n + 1)
          PROVE  h[s] = IF s = {} THEN 0 ELSE f[pick(s)] + h[s \ {pick(s)}]
      <4>1. CASE s = {}
        BY <4>1
      <4>2. CASE s # {}
        <5>1. h[s \ {pick(s)}] = g[s \ {pick(s)}]
          BY <2>3, <2>4, <4>2
        <5>2. h[s] = f[pick(s)] + g[s \ {pick(s)}]
          BY <4>2
        <5>3. QED
          BY <4>2, <5>1, <5>2
      <4>3. QED
        BY <4>1, <4>2
    <3>2. QED
      BY <3>1 DEF AddsUp
  <2>6. n + 1 \in Nat
    OBVIOUS
  <2>7. QED
    <3> HIDE DEF h, Small
    <3>1. QED
      BY <2>2, <2>5, <2>6
<1>4. Cardinality(D) \in Good
  <2> DEFINE Bad == {n \in Nat : n \notin Good}
  <2> HIDE DEF Good
  <2>1. ASSUME Bad # {} PROVE FALSE
    <3>1. Min(Bad) \in Bad /\ \A n \in Bad : Min(Bad) <= n
      <4>1. Bad \subseteq Nat
        OBVIOUS
      <4> HIDE DEF Bad
      <4>2. QED
        BY <2>1, <4>1, MinMember
    <3>2. Min(Bad) # 0 /\ Min(Bad) \in Nat
      BY <1>2, <3>1
    <3>3. Min(Bad) - 1 \in Good
      <4> DEFINE m == Min(Bad)
      <4>1. m \in Nat /\ m # 0 /\ \A n \in Bad : m <= n
        BY <3>1, <3>2
      <4> HIDE DEF m
      <4>2. m - 1 \in Good
        BY <4>1
      <4>3. QED
        BY <4>2 DEF m
    <3>4. Min(Bad) \in Good
      <4> DEFINE m == Min(Bad)
      <4>1. m \in Nat /\ m - 1 \in Good
        BY <3>2, <3>3
      <4> HIDE DEF m
      <4>2. (m - 1) + 1 = m
        BY <4>1
      <4>3. (m - 1) + 1 \in Good
        BY <1>3, <4>1
      <4>4. QED
        BY <4>2, <4>3 DEF m
    <3>5. QED
      BY <3>1, <3>4
  <2>2. QED
    BY <1>1, <2>1
<1>5. SUBSET D = Small(Cardinality(D))
  BY FS_Subset
<1>6. QED
  BY <1>4, <1>5

\* A family of sums that adds up is what SumFunctionOnSet answers.
LEMMA SumIsUnique ==
  ASSUME NEW D, IsFiniteSet(D), NEW f \in [D -> Int], NEW g \in [SUBSET D -> Int], AddsUp(g, f, SUBSET D),
         NEW T \in SUBSET D
  PROVE  SumFunctionOnSet(f, T) = g[T]
<1> DEFINE pick(s) == CHOOSE x \in s : TRUE
           Is(h) == h = [s \in SUBSET T |-> IF s = {} THEN 0 ELSE f[pick(s)] + h[s \ {pick(s)}]]
<1>1. \E h : Is(h)
  <2> DEFINE h == [s \in SUBSET T |-> g[s]]
  <2>1. ASSUME NEW s \in SUBSET T
        PROVE  h[s] = IF s = {} THEN 0 ELSE f[pick(s)] + h[s \ {pick(s)}]
    BY DEF AddsUp
  <2>2. Is(h)
    BY <2>1
  <2>3. QED
    BY <2>2
<1>2. ASSUME NEW h, Is(h) PROVE h[T] = g[T]
  <2> DEFINE Off == {Cardinality(s) : s \in {s \in SUBSET T : h[s] # g[s]}}
  <2>1. ASSUME NEW s \in SUBSET T
        PROVE  /\ IsFiniteSet(s) /\ Cardinality(s) \in Nat
               /\ h[s] = IF s = {} THEN 0 ELSE f[pick(s)] + h[s \ {pick(s)}]
               /\ g[s] = IF s = {} THEN 0 ELSE f[pick(s)] + g[s \ {pick(s)}]
    <3>1. IsFiniteSet(s) /\ Cardinality(s) \in Nat
      BY FS_Subset, FS_CardinalityType
    <3>2. h[s] = IF s = {} THEN 0 ELSE f[pick(s)] + h[s \ {pick(s)}]
      BY <1>2
    <3>3. QED
      BY <3>1, <3>2 DEF AddsUp
  <2>2. ASSUME Off # {} PROVE FALSE
    <3>1. Off \subseteq Nat
      BY <2>1
    <3>2. Min(Off) \in Off /\ \A n \in Off : Min(Off) <= n
      <4> HIDE DEF Off
      <4>1. QED
        BY <2>2, <3>1, MinMember
    <3>3. PICK s \in SUBSET T : h[s] # g[s] /\ \A r \in SUBSET T : h[r] # g[r] => Cardinality(s) <= Cardinality(r)
      <4>1. PICK s \in SUBSET T : h[s] # g[s] /\ Min(Off) = Cardinality(s)
        BY <3>2
      <4>2. ASSUME NEW r \in SUBSET T, h[r] # g[r] PROVE Cardinality(s) <= Cardinality(r)
        <5>1. Cardinality(r) \in Off
          BY <4>2
        <5>2. QED
          BY <3>2, <4>1, <5>1
      <4>3. QED
        BY <4>1, <4>2
    <3>4. s # {}
      BY <2>1, <3>3
    <3>5. pick(s) \in s /\ s \ {pick(s)} \in SUBSET T /\ Cardinality(s \ {pick(s)}) = Cardinality(s) - 1
      BY <2>1, <3>4, FS_RemoveElement
    <3>6. h[s \ {pick(s)}] = g[s \ {pick(s)}]
      <4>1. Cardinality(s) \in Nat
        BY <2>1
      <4>2. ~(Cardinality(s) <= Cardinality(s \ {pick(s)}))
        BY <3>5, <4>1
      <4>3. QED
        BY <3>3, <3>5, <4>2
    <3>7. QED
      BY <2>1, <3>3, <3>6
  <2>3. QED
    BY <2>2
<1>3. SumFunctionOnSet(f, T) = (CHOOSE h : Is(h))[T]
  BY SMT DEF SumFunctionOnSet, FoldFunctionOnSet, MapThenFoldSet
<1>4. Is(CHOOSE h : Is(h))
  <2> HIDE DEF Is
  <2>1. QED
    BY <1>1, Zenon
<1>5. QED
  <2> HIDE DEF Is
  <2>1. QED
    BY <1>2, <1>3, <1>4
\* Any element may be taken out of a sum.
LEMMA SumWithout ==
  ASSUME NEW D, IsFiniteSet(D), NEW f \in [D -> Int], NEW T \in SUBSET D, NEW e \in T
  PROVE  SumFunctionOnSet(f, T) = f[e] + SumFunctionOnSet(f, T \ {e})
<1> DEFINE pick(s) == CHOOSE x \in s : TRUE
<1>1. PICK g \in [SUBSET D -> Int] : AddsUp(g, f, SUBSET D)
  BY SumsExist
<1>2. ASSUME NEW s \in SUBSET D, s # {}
      PROVE  /\ IsFiniteSet(s) /\ Cardinality(s) \in Nat /\ pick(s) \in s
             /\ g[s] = f[pick(s)] + g[s \ {pick(s)}]
             /\ \A x \in s : Cardinality(s \ {x}) \in Nat /\ Cardinality(s \ {x}) < Cardinality(s)
  <2>1. IsFiniteSet(s) /\ Cardinality(s) \in Nat
    BY FS_Subset, FS_CardinalityType
  <2>2. ASSUME NEW x \in s PROVE Cardinality(s \ {x}) \in Nat /\ Cardinality(s \ {x}) < Cardinality(s)
    <3>1. IsFiniteSet(s \ {x}) /\ Cardinality(s \ {x}) = Cardinality(s) - 1
      BY <2>1, FS_RemoveElement
    <3>2. QED
      BY <2>1, <3>1, FS_CardinalityType
  <2>3. g[s] = f[pick(s)] + g[s \ {pick(s)}]
    BY <1>1, <1>2 DEF AddsUp
  <2>4. QED
    BY <1>2, <2>1, <2>2, <2>3
<1> DEFINE Off == {s \in SUBSET D : \E x \in s : g[s] # f[x] + g[s \ {x}]}
           Sizes == {Cardinality(s) : s \in Off}
<1>3. ASSUME Off # {} PROVE FALSE
  <2>1. Sizes \subseteq Nat /\ Sizes # {}
    <3>1. ASSUME NEW s \in Off PROVE Cardinality(s) \in Nat
      BY <1>2
    <3>2. QED
      BY <1>3, <3>1
  <2>2. Min(Sizes) \in Sizes /\ \A n \in Sizes : Min(Sizes) <= n
    <3> HIDE DEF Sizes
    <3>1. QED
      BY <2>1, MinMember
  <2>3. PICK s \in Off : \A r \in Off : Cardinality(s) <= Cardinality(r)
    <3>1. PICK s \in Off : Min(Sizes) = Cardinality(s)
      BY <2>2
    <3>2. ASSUME NEW r \in Off PROVE Cardinality(s) <= Cardinality(r)
      <4>1. Cardinality(r) \in Sizes
        OBVIOUS
      <4>2. QED
        BY <2>2, <3>1, <4>1
    <3>3. QED
      BY <3>2
  <2>4. PICK x \in s : g[s] # f[x] + g[s \ {x}]
    OBVIOUS
  <2> DEFINE y == pick(s)
  <2>5. y \in s /\ g[s] = f[y] + g[s \ {y}] /\ x # y
    BY <1>2, <2>4
  <2>6. ASSUME NEW z \in s, NEW w \in s \ {z} PROVE g[s \ {z}] = f[w] + g[(s \ {z}) \ {w}]
    <3>1. ~(Cardinality(s) <= Cardinality(s \ {z}))
      <4>1. s \in SUBSET D /\ s # {}
        OBVIOUS
      <4>2. Cardinality(s) \in Nat /\ Cardinality(s \ {z}) \in Nat /\ Cardinality(s \ {z}) < Cardinality(s)
        BY <1>2, <4>1
      <4>3. QED
        BY <4>2
    <3>2. s \ {z} \notin Off
      BY <2>3, <3>1
    <3>3. QED
      BY <3>2
  <2> HIDE DEF Off, y
  <2>7. g[s \ {y}] = f[x] + g[(s \ {y}) \ {x}] /\ g[s \ {x}] = f[y] + g[(s \ {x}) \ {y}]
    BY <2>5, <2>6
  <2>8. (s \ {y}) \ {x} = (s \ {x}) \ {y}
    OBVIOUS
  <2>9. s \in SUBSET D
    BY DEF Off
  <2>10. /\ f[x] \in Int /\ f[y] \in Int /\ g[s] \in Int /\ g[s \ {x}] \in Int /\ g[s \ {y}] \in Int
         /\ g[(s \ {x}) \ {y}] \in Int
    BY <2>5, <2>9
  <2>11. g[s \ {y}] = f[x] + g[(s \ {x}) \ {y}]
    BY <2>7, <2>8
  <2>12. QED
    BY <2>4, <2>5, <2>7, <2>10, <2>11
<1>4. g[T] = f[e] + g[T \ {e}]
  BY <1>3
<1>5. SumFunctionOnSet(f, T) = g[T] /\ SumFunctionOnSet(f, T \ {e}) = g[T \ {e}]
  BY <1>1, SumIsUnique
<1>6. QED
  BY <1>4, <1>5

\* A sum is an integer, nothing adds up to 0, and a part of a sum of naturals
\* is no larger than the sum.
LEMMA SumOfPart ==
  ASSUME NEW D, IsFiniteSet(D), NEW f \in [D -> Nat], NEW T \in SUBSET D
  PROVE  /\ SumFunctionOnSet(f, {}) = 0
         /\ SumFunctionOnSet(f, T) \in Nat
         /\ \A S \in SUBSET T : SumFunctionOnSet(f, S) <= SumFunctionOnSet(f, T)
<1>0. f \in [D -> Int]
  OBVIOUS
<1>1. PICK g \in [SUBSET D -> Int] : AddsUp(g, f, SUBSET D)
  BY <1>0, SumsExist
<1>2. ASSUME NEW s \in SUBSET D PROVE SumFunctionOnSet(f, s) = g[s]
  BY <1>0, <1>1, SumIsUnique
<1>3. SumFunctionOnSet(f, {}) = 0
  BY <1>1, <1>2 DEF AddsUp
<1>4. ASSUME NEW s \in SUBSET D, NEW x \in s
      PROVE  g[s] = f[x] + g[s \ {x}]
  <2>1. SumFunctionOnSet(f, s) = f[x] + SumFunctionOnSet(f, s \ {x})
    BY <1>0, SumWithout
  <2>2. QED
    BY <1>2, <2>1
<1> DEFINE Off == {s \in SUBSET D : g[s] < 0 \/ \E r \in SUBSET s : g[r] > g[s]}
           Sizes == {Cardinality(s) : s \in Off}
<1>5. ASSUME NEW s \in SUBSET D
      PROVE  /\ IsFiniteSet(s) /\ Cardinality(s) \in Nat
             /\ \A x \in s : Cardinality(s \ {x}) = Cardinality(s) - 1
  BY FS_Subset, FS_CardinalityType, FS_RemoveElement
<1>6. ASSUME Off # {} PROVE FALSE
  <2>1. Sizes \subseteq Nat /\ Sizes # {}
    BY <1>5, <1>6
  <2>2. Min(Sizes) \in Sizes /\ \A n \in Sizes : Min(Sizes) <= n
    <3> HIDE DEF Sizes
    <3>1. QED
      BY <2>1, MinMember
  <2>3. PICK s \in Off : \A r \in Off : Cardinality(s) <= Cardinality(r)
    <3>1. PICK s \in Off : Min(Sizes) = Cardinality(s)
      BY <2>2
    <3>2. ASSUME NEW r \in Off PROVE Cardinality(s) <= Cardinality(r)
      <4>1. Cardinality(r) \in Sizes
        OBVIOUS
      <4>2. QED
        BY <2>2, <3>1, <4>1
    <3>3. QED
      BY <3>2
  <2>4. ASSUME NEW x \in s PROVE g[s \ {x}] >= 0 /\ \A r \in SUBSET (s \ {x}) : g[r] <= g[s \ {x}]
    <3>1. ~(Cardinality(s) <= Cardinality(s \ {x})) /\ s \ {x} \in SUBSET D
      BY <1>5
    <3>2. s \ {x} \notin Off
      BY <2>3, <3>1
    <3>3. ASSUME NEW r \in SUBSET (s \ {x}) PROVE g[r] <= g[s \ {x}] /\ g[s \ {x}] >= 0
      <4>1. g[r] \in Int /\ g[s \ {x}] \in Int
        BY <3>1
      <4>2. ~(g[r] > g[s \ {x}]) /\ ~(g[s \ {x}] < 0)
        BY <3>1, <3>2
      <4>3. QED
        BY <4>1, <4>2
    <3>4. QED
      BY <3>3
  <2>5. CASE s = {}
    <3>1. g[s] = 0 /\ \A r \in SUBSET s : r = s
      BY <1>1, <2>5 DEF AddsUp
    <3>2. QED
      BY <3>1
  <2>6. CASE s # {}
    <3>1. PICK x \in s : TRUE
      BY <2>6
    <3>2. g[s] = f[x] + g[s \ {x}] /\ f[x] \in Nat /\ g[s \ {x}] >= 0 /\ g[s \ {x}] \in Int
      BY <1>4, <2>4
    <3>3. g[s] >= 0
      BY <3>2
    <3>4. PICK r \in SUBSET s : g[r] > g[s]
      BY <3>3
    <3>5. r # s
      BY <3>4
    <3>6. PICK y \in s : y \notin r
      BY <3>5
    <3>7. g[s] = f[y] + g[s \ {y}] /\ f[y] \in Nat /\ g[r] <= g[s \ {y}]
      BY <1>4, <2>4, <3>6
    <3>8. g[s \ {y}] \in Int /\ g[r] \in Int /\ g[s] \in Int
      OBVIOUS
    <3>9. QED
      BY <3>4, <3>7, <3>8
  <2>7. QED
    BY <2>5, <2>6
<1>7. g[T] >= 0 /\ g[T] \in Int /\ \A S \in SUBSET T : g[S] <= g[T]
  BY <1>6
<1>8. QED
  BY <1>2, <1>3, <1>7
=============================================================================
