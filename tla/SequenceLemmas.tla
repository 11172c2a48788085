--------------------------- MODULE SequenceLemmas ---------------------------
(***************************************************************************)
(* What the operations of queues and lists do to them, and the least of a  *)
(* set of numbers: the lemmas that the proofs about the components share.  *)
(***************************************************************************)
EXTENDS Naturals, Sequences, SequencesExt, SequenceTheorems, FiniteSetTheorems,
        WellFoundedInduction, TLAPS

\* Erasing one entry moves those behind it forward.
LEMMA RemoveAtProperties ==
  ASSUME NEW S, NEW s \in Seq(S), NEW i \in DOMAIN s
  PROVE  /\ RemoveAt(s, i) \in Seq(S)
         /\ DOMAIN RemoveAt(s, i) = 1..(Len(s) - 1)
         /\ \A k \in 1..(Len(s) - 1) :
              RemoveAt(s, i)[k] = IF k < i THEN s[k] ELSE s[k + 1]
  <1> DEFINE front == SubSeq(s, 1, i - 1)
             back  == SubSeq(s, i + 1, Len(s))
  <1>1. i \in 1..Len(s) /\ Len(s) \in Nat
    OBVIOUS
  <1>2. front \in Seq(S) /\ Len(front) = i - 1
        /\ \A k \in 1..(i - 1) : front[k] = s[k]
    BY <1>1
  <1>3. back \in Seq(S) /\ Len(back) = Len(s) - i
        /\ \A k \in 1..(Len(s) - i) : back[k] = s[k + i]
    BY <1>1
  <1> HIDE DEF front, back
  <1>4. /\ front \o back \in Seq(S)
        /\ Len(front \o back) = Len(s) - 1
        /\ \A k \in 1..(Len(s) - 1) : (front \o back)[k] =
             IF k <= i - 1 THEN front[k] ELSE back[k - (i - 1)]
    <2>1. Len(front) + Len(back) = Len(s) - 1
      BY <1>1, <1>2, <1>3
    <2> QED
      <3>1. /\ front \o back \in Seq(S)
            /\ Len(front \o back) = Len(front) + Len(back)
            /\ \A k \in 1..(Len(front) + Len(back)) : (front \o back)[k] =
                 IF k <= Len(front) THEN front[k] ELSE back[k - Len(front)]
        BY <1>2, <1>3, ConcatProperties
      <3> QED
        BY <2>1, <1>2, <3>1
  <1>5. ASSUME NEW k \in 1..(Len(s) - 1)
        PROVE  (front \o back)[k] = IF k < i THEN s[k] ELSE s[k + 1]
    <2>1. CASE k < i
      BY <1>1, <1>2, <1>4, <2>1
    <2>2. CASE ~(k < i)
      <3>1. (front \o back)[k] = back[k - (i - 1)]
        <4>1. ~(k <= i - 1) /\ k \in 1..(Len(s) - 1)
          BY <1>1, <2>2
        <4> QED
          BY <1>4, <4>1
      <3>2. k - (i - 1) \in 1..(Len(s) - i) /\ (k - (i - 1)) + i = k + 1
        BY <1>1, <2>2
      <3> QED
        BY <1>3, <2>2, <3>1, <3>2
    <2> QED
      BY <2>1, <2>2
  <1>6. DOMAIN (front \o back) = 1..(Len(s) - 1)
    BY <1>4
  <1>7. RemoveAt(s, i) = front \o back
    BY DEF RemoveAt, front, back
  <1> QED
    BY <1>4, <1>5, <1>6, <1>7

\* Taking the last entry of a list leaves the others where they are.
LEMMA FrontProperties ==
  ASSUME NEW S, NEW s \in Seq(S), s # <<>>
  PROVE  /\ Front(s) \in Seq(S)
         /\ Len(s) \in Nat \ {0} /\ Last(s) = s[Len(s)] /\ Last(s) \in S
         /\ Len(Front(s)) = Len(s) - 1
         /\ \A i \in 1..(Len(s) - 1) : Front(s)[i] = s[i]
  <1>1. Len(s) \in Nat \ {0}
    BY EmptySeq, LenProperties
  <1>2. Last(s) = s[Len(s)] /\ Front(s) = SubSeq(s, 1, Len(s) - 1)
    BY DEF Last, Front
  <1>3. s[Len(s)] \in S
    BY <1>1
  <1>4. /\ SubSeq(s, 1, Len(s) - 1) \in Seq(S)
        /\ Len(SubSeq(s, 1, Len(s) - 1)) = Len(s) - 1
        /\ \A i \in 1..(Len(s) - 1) : SubSeq(s, 1, Len(s) - 1)[i] = s[i]
    <2>1. PICK n \in Nat : n = Len(s) - 1
      BY <1>1
    <2>2. /\ SubSeq(s, 1, n) \in Seq(S)
          /\ Len(SubSeq(s, 1, n)) = n
          /\ \A i \in 1..n : SubSeq(s, 1, n)[i] = s[i]
      BY <1>1, <2>1
    <2> QED
      BY <2>1, <2>2
  <1> QED
    BY <1>1, <1>2, <1>3, <1>4

\* What is left of a list when its first entries go.
LEMMA RestProperties ==
  ASSUME NEW S, NEW s \in Seq(S), NEW n \in 0..Len(s)
  PROVE  /\ SubSeq(s, n + 1, Len(s)) \in Seq(S)
         /\ Len(SubSeq(s, n + 1, Len(s))) = Len(s) - n
         /\ \A i \in DOMAIN SubSeq(s, n + 1, Len(s)) :
              n + i \in DOMAIN s /\ SubSeq(s, n + 1, Len(s))[i] = s[n + i]
  <1>1. Len(s) \in Nat /\ DOMAIN s = 1..Len(s) /\ n \in Nat
    OBVIOUS
  <1> DEFINE rest == SubSeq(s, n + 1, Len(s))
  <1>2. /\ rest \in Seq(S)
        /\ Len(rest) = IF n + 1 <= Len(s) THEN Len(s) - (n + 1) + 1 ELSE 0
        /\ \A i \in 1..(Len(s) - (n + 1) + 1) : rest[i] = s[n + 1 + i - 1]
    <2>1. n + 1 \in Int /\ Len(s) \in Int /\ \A i \in (n + 1)..Len(s) : s[i] \in S
      BY <1>1
    <2> HIDE DEF rest
    <2> QED
      BY <2>1, SubSeqProperties DEF rest
  <1> HIDE DEF rest
  <1>3. Len(rest) = Len(s) - n /\ DOMAIN rest = 1..(Len(s) - n)
    <2>1. Len(rest) = Len(s) - n
      <3>1. PICK l \in Nat : l = Len(s)
        BY <1>1
      <3>2. Len(rest) = IF n + 1 <= l THEN l - (n + 1) + 1 ELSE 0
        BY <1>2, <3>1
      <3>3. n \in Nat /\ n <= l
        BY <1>1, <3>1
      <3> QED
        BY <3>1, <3>2, <3>3
    <2> QED
      BY <1>2, <2>1, LenProperties
  <1>4. ASSUME NEW i \in DOMAIN rest
        PROVE  n + i \in DOMAIN s /\ rest[i] = s[n + i]
    <2>1. i \in 1..(Len(s) - (n + 1) + 1) /\ n + 1 + i - 1 = n + i
      BY <1>1, <1>3
    <2>2. n + i \in DOMAIN s
      BY <1>1, <1>3
    <2> QED
      BY <1>2, <2>1, <2>2
  <1> QED
    BY <1>2, <1>3, <1>4 DEF rest

-----------------------------------------------------------------------------
(* The same of lists without repetitions, in terms of the sets of their    *)
(* entries.                                                                *)

\* The entries of a list are members of its type, at positions up to its length.
LEMMA ListedEntries ==
  ASSUME NEW S, NEW s \in Seq(S)
  PROVE  /\ ToSet(s) \subseteq S
         /\ \A x : x \in ToSet(s) <=> \E i \in 1..Len(s) : s[i] = x
  BY LenProperties DEF ToSet

LEMMA AppendEntries ==
  ASSUME NEW S, NEW s \in Seq(S), NEW x \in S
  PROVE  /\ Append(s, x) \in Seq(S)
         /\ ToSet(Append(s, x)) = ToSet(s) \cup {x}
         /\ IsInjective(s) /\ x \notin ToSet(s) => IsInjective(Append(s, x))
  <1> DEFINE t == Append(s, x)
             n == Len(s)
  <1>1. /\ t \in Seq(S) /\ Len(t) = n + 1 /\ n \in Nat
        /\ \A i \in 1..n : t[i] = s[i]
        /\ t[n + 1] = x
        /\ DOMAIN s = 1..n
    BY AppendProperties, LenProperties
  <1> HIDE DEF t
  <1>2. DOMAIN t = 1..(n + 1)
    BY <1>1, LenProperties
  <1> HIDE DEF n
  <1>3. /\ DOMAIN t = DOMAIN s \cup {n + 1} /\ n + 1 \notin DOMAIN s
        /\ \A i \in DOMAIN s : t[i] = s[i]
    BY <1>1, <1>2
  <1>4. ToSet(t) = ToSet(s) \cup {x}
    BY <1>1, <1>3 DEF ToSet
  <1>5. ASSUME IsInjective(s), x \notin ToSet(s)
        PROVE  IsInjective(t)
    BY <1>1, <1>3, <1>5 DEF ToSet, IsInjective
  <1> QED
    BY <1>1, <1>4, <1>5 DEF t

\* The first entry and the others.
LEMMA HeadTailEntries ==
  ASSUME NEW S, NEW s \in Seq(S), s # <<>>
  PROVE  /\ Head(s) \in S /\ Tail(s) \in Seq(S)
         /\ ToSet(s) = ToSet(Tail(s)) \cup {Head(s)}
         /\ IsInjective(s) => IsInjective(Tail(s)) /\ Head(s) \notin ToSet(Tail(s))
  <1> DEFINE t == Tail(s)
             n == Len(s)
  <1>1. /\ Head(s) \in S /\ t \in Seq(S) /\ Len(t) = n - 1
        /\ \A i \in 1..(n - 1) : t[i] = s[i + 1]
        /\ n \in Nat \ {0} /\ DOMAIN s = 1..n
    BY HeadTailProperties, LenProperties, EmptySeq
  <1>2. Head(s) = s[1]
    OBVIOUS
  <1> HIDE DEF t
  <1>3. DOMAIN t = 1..(n - 1)
    BY <1>1, LenProperties
  <1> HIDE DEF n
  <1>4. ToSet(s) = ToSet(t) \cup {Head(s)}
    <2>1. ASSUME NEW i \in DOMAIN s PROVE s[i] \in ToSet(t) \cup {Head(s)}
      <3>1. CASE i = 1
        BY <1>2, <3>1
      <3>2. CASE i # 1
        <4>1. i - 1 \in 1..(n - 1) /\ (i - 1) + 1 = i
          BY <1>1, <3>2
        <4> QED
          BY <1>1, <1>3, <4>1 DEF ToSet
      <3> QED
        BY <3>1, <3>2
    <2>2. ASSUME NEW i \in DOMAIN t PROVE t[i] \in ToSet(s)
      <3>1. i + 1 \in DOMAIN s
        BY <1>1, <1>3
      <3> QED
        BY <1>1, <1>3, <3>1 DEF ToSet
    <2>3. Head(s) \in ToSet(s)
      BY <1>1, <1>2 DEF ToSet
    <2> QED
      BY <2>1, <2>2, <2>3 DEF ToSet
  <1>5. ASSUME IsInjective(s)
        PROVE  IsInjective(t) /\ Head(s) \notin ToSet(t)
    <2>1. \A i \in DOMAIN t : i + 1 \in DOMAIN s /\ i + 1 # 1 /\ t[i] = s[i + 1]
      BY <1>1, <1>3
    <2>2. IsInjective(t)
      <3>1. ASSUME NEW i \in DOMAIN t, NEW j \in DOMAIN t, t[i] = t[j] PROVE i = j
        <4>1. i + 1 = j + 1
          BY <1>5, <2>1, <3>1 DEF IsInjective
        <4> QED
          BY <1>1, <1>3, <4>1
      <3> QED
        BY <3>1 DEF IsInjective
    <2>3. Head(s) \notin ToSet(t)
      BY <1>1, <1>2, <1>5, <2>1 DEF IsInjective, ToSet
    <2> QED
      BY <2>2, <2>3
  <1> QED
    BY <1>1, <1>4, <1>5 DEF t

LEMMA ConcatEntries ==
  ASSUME NEW S, NEW s \in Seq(S), NEW t \in Seq(S)
  PROVE  /\ s \o t \in Seq(S)
         /\ ToSet(s \o t) = ToSet(s) \cup ToSet(t)
         /\ IsInjective(s) /\ IsInjective(t) /\ ToSet(s) \cap ToSet(t) = {}
              => IsInjective(s \o t)
  <1> DEFINE u == s \o t
             m == Len(s)
             n == Len(t)
  <1>1. /\ u \in Seq(S) /\ Len(u) = m + n /\ m \in Nat /\ n \in Nat
        /\ \A i \in 1..(m + n) : u[i] = IF i <= m THEN s[i] ELSE t[i - m]
        /\ DOMAIN s = 1..m /\ DOMAIN t = 1..n
    BY ConcatProperties, LenProperties
  <1> HIDE DEF u
  <1>2. DOMAIN u = 1..(m + n)
    BY <1>1, LenProperties
  <1> HIDE DEF m, n
  <1>3. \A i \in 1..m : i \in DOMAIN u /\ u[i] = s[i]
    BY <1>1, <1>2
  <1>4. \A i \in 1..n : i + m \in DOMAIN u /\ u[i + m] = t[i]
    <2> SUFFICES ASSUME NEW i \in 1..n PROVE i + m \in DOMAIN u /\ u[i + m] = t[i]
      OBVIOUS
    <2>1. i + m \in 1..(m + n) /\ ~(i + m <= m) /\ (i + m) - m = i
      BY <1>1
    <2> QED
      BY <1>1, <1>2, <2>1
  <1>5. \A i \in DOMAIN u :
          \/ i \in 1..m /\ u[i] = s[i]
          \/ i - m \in 1..n /\ u[i] = t[i - m]
    BY <1>1, <1>2
  <1>6. ToSet(u) = ToSet(s) \cup ToSet(t)
    <2>1. \A i \in DOMAIN u : u[i] \in ToSet(s) \cup ToSet(t)
      BY <1>1, <1>5 DEF ToSet
    <2>2. \A i \in 1..m : s[i] \in ToSet(u)
      BY <1>3 DEF ToSet
    <2>3. \A i \in 1..n : t[i] \in ToSet(u)
      BY <1>4 DEF ToSet
    <2> QED
      BY <1>1, <2>1, <2>2, <2>3 DEF ToSet
  <1>7. ASSUME IsInjective(s), IsInjective(t), ToSet(s) \cap ToSet(t) = {}
        PROVE  IsInjective(u)
    <2> SUFFICES ASSUME NEW i \in DOMAIN u, NEW j \in DOMAIN u, u[i] = u[j]
                 PROVE  i = j
      BY DEF IsInjective
    <2>1. \A k \in 1..m, l \in 1..n : s[k] # t[l]
      BY <1>1, <1>7 DEF ToSet
    <2>2. CASE i \in 1..m /\ u[i] = s[i] /\ j \in 1..m /\ u[j] = s[j]
      BY <1>1, <1>7, <2>2 DEF IsInjective
    <2>3. CASE i - m \in 1..n /\ u[i] = t[i - m] /\ j - m \in 1..n /\ u[j] = t[j - m]
      <3>1. i - m = j - m
        BY <1>1, <1>7, <2>3 DEF IsInjective
      <3> QED
        BY <1>1, <1>2, <3>1
    <2> QED
      BY <1>5, <2>1, <2>2, <2>3
  <1> QED
    BY <1>1, <1>6, <1>7 DEF u

\* A position of s \o t is one of s, or one of t moved by the length of s.
LEMMA ConcatPositions ==
  ASSUME NEW S, NEW s \in Seq(S), NEW t \in Seq(S)
  PROVE  /\ s \o t \in Seq(S)
         /\ \A i \in DOMAIN s : i \in DOMAIN (s \o t) /\ (s \o t)[i] = s[i]
         /\ \A k \in DOMAIN t :
              Len(s) + k \in DOMAIN (s \o t) /\ (s \o t)[Len(s) + k] = t[k]
         /\ \A i \in DOMAIN (s \o t) :
              i \in DOMAIN s \/ \E k \in DOMAIN t : i = Len(s) + k
  <1> DEFINE u == s \o t
             m == Len(s)
             n == Len(t)
  <1>1. /\ u \in Seq(S) /\ m \in Nat /\ n \in Nat
        /\ \A i \in 1..(m + n) : u[i] = IF i <= m THEN s[i] ELSE t[i - m]
        /\ DOMAIN u = 1..(m + n) /\ DOMAIN s = 1..m /\ DOMAIN t = 1..n
    BY ConcatProperties, LenProperties
  <1> HIDE DEF u, m, n
  <1>2. \A i \in 1..m : i \in 1..(m + n) /\ u[i] = s[i]
    BY <1>1
  <1>3. \A k \in 1..n : m + k \in 1..(m + n) /\ u[m + k] = t[k]
    <2> TAKE k \in 1..n
    <2>1. m + k \in 1..(m + n) /\ ~(m + k <= m) /\ (m + k) - m = k
      BY <1>1
    <2> QED
      BY <1>1, <2>1
  <1>4. \A i \in 1..(m + n) : i \in 1..m \/ \E k \in 1..n : i = m + k
    <2> TAKE i \in 1..(m + n)
    <2>1. CASE i > m
      <3>1. i - m \in 1..n /\ i = m + (i - m)
        BY <1>1, <2>1
      <3> QED
        BY <3>1
    <2>2. CASE ~(i > m)
      BY <1>1, <2>2
    <2> QED
      BY <2>1, <2>2
  <1> QED
    BY <1>1, <1>2, <1>3, <1>4 DEF u, m, n

\* The first entries of a list.
LEMMA PrefixEntries ==
  ASSUME NEW S, NEW s \in Seq(S), NEW n \in 0..Len(s)
  PROVE  /\ SubSeq(s, 1, n) \in Seq(S)
         /\ ToSet(SubSeq(s, 1, n)) \subseteq ToSet(s)
         /\ IsInjective(s) => IsInjective(SubSeq(s, 1, n))
  <1> DEFINE t == SubSeq(s, 1, n)
  <1>1. DOMAIN s = 1..Len(s) /\ Len(s) \in Nat /\ n \in Nat
    BY LenProperties
  <1>2. t \in Seq(S) /\ Len(t) = n /\ \A i \in 1..n : t[i] = s[i]
    OBVIOUS
  <1> HIDE DEF t
  <1>3. DOMAIN t = 1..n /\ \A i \in 1..n : i \in DOMAIN s
    BY <1>1, <1>2, LenProperties
  <1> QED
    BY <1>2, <1>3 DEF t, ToSet, IsInjective

\* A list as long as a finite set, of its members and none twice, has them all.
LEMMA ListsAll ==
  ASSUME NEW S, IsFiniteSet(S), NEW s \in [1..Cardinality(S) -> S],
         \A i, j \in 1..Cardinality(S) : s[i] = s[j] => i = j
  PROVE  s \in Seq(S) /\ ToSet(s) = S /\ IsInjective(s)
  <1>1. Cardinality(S) \in Nat
    BY FS_CardinalityType
  <1>2. s \in Seq(S) /\ IsInjective(s) /\ ToSet(s) \subseteq S
    BY <1>1 DEF IsInjective, ToSet
  <1>3. s \in Bijection(1..Cardinality(S), ToSet(s))
    BY DEF Bijection, Injection, Surjection, IsInjective, ToSet
  <1>4. IsFiniteSet(ToSet(s)) /\ Cardinality(ToSet(s)) = Cardinality(S)
    BY <1>1, <1>2, <1>3, FS_Subset, FS_CountingElements DEF ExistsBijection
  <1>5. ToSet(s) = S
    BY <1>2, <1>4, FS_Subset
  <1> QED
    BY <1>2, <1>5

LEMMA SetToSeqLists ==
  ASSUME NEW S, IsFiniteSet(S)
  PROVE  SetToSeq(S) \in Seq(S) /\ ToSet(SetToSeq(S)) = S /\ IsInjective(SetToSeq(S))
  <1>1. \E f \in [1..Cardinality(S) -> S] : IsInjective(f)
    BY FS_CardinalityType DEF ExistsBijection, Bijection, Injection, IsInjective
  <1>2. SetToSeq(S) \in [1..Cardinality(S) -> S] /\ IsInjective(SetToSeq(S))
    BY <1>1 DEF SetToSeq
  <1> QED
    BY <1>2, ListsAll DEF IsInjective

\* Any set of numbers but the empty one has a least.
LEMMA LeastNumber ==
  ASSUME NEW T, T \subseteq Nat, T # {}
  PROVE  \E m \in T : \A n \in T : m <= n
  <1> DEFINE Less == {p \in Nat \X Nat : p[1] < p[2]}
  <1>1. IsWellFoundedOn(Less, Nat)
    BY NatLessThanWellFounded DEF OpToRel
  <1>2. PICK m \in T : \A n \in T : <<n, m>> \notin Less
    <2> HIDE DEF Less
    <2> QED
      BY <1>1, WFMin
  <1>3. \A n \in T : ~ n < m
    BY <1>2
  <1> QED
    BY <1>3

\* A sequence that goes down from each entry to the next goes down all the way.
LEMMA GoesDown ==
  ASSUME NEW n \in Nat, NEW f \in [1..n -> Nat],
         \A i \in 1..(n - 1) : f[i] >= f[i + 1]
  PROVE  \A i, j \in 1..n : i < j => f[i] >= f[j]
  <1> SUFFICES ASSUME NEW i \in 1..n, NEW k \in 1..n, i < k, ~(f[i] >= f[k]) PROVE FALSE
    OBVIOUS
  <1> DEFINE T == {j \in 1..n : i < j /\ ~(f[i] >= f[j])}
  <1>1. T \subseteq Nat /\ k \in T
    OBVIOUS
  <1> HIDE DEF T
  <1>2. PICK m \in T : \A j \in T : m <= j
    BY <1>1, LeastNumber
  <1>3. m \in 1..n /\ i < m /\ ~(f[i] >= f[m])
    BY <1>2 DEF T
  <1>4. m - 1 \in 1..(n - 1) /\ m - 1 >= i /\ m - 1 < m
    BY <1>3
  <1>5. f[m - 1] >= f[m]
    <2>1. PICK l \in 1..(n - 1) : l = m - 1
      BY <1>4
    <2>2. l + 1 = m
      BY <2>1, <1>3
    <2> QED
      BY <2>1, <2>2
  <1>6. CASE m - 1 = i
    BY <1>3, <1>5, <1>6
  <1>7. CASE m - 1 > i
    <2>1. m - 1 \notin T
      BY <1>2, <1>3, <1>4
    <2>2. f[i] >= f[m - 1]
      BY <2>1, <1>4, <1>7 DEF T
    <2>3. f[i] \in Nat /\ f[m - 1] \in Nat /\ f[m] \in Nat
      BY <1>3, <1>4
    <2> QED
      BY <1>3, <1>5, <2>2, <2>3
  <1> QED
    BY <1>3, <1>4, <1>6, <1>7
=============================================================================
