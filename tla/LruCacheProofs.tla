------------------------------ MODULE LruCacheProofs ------------------------------
(***************************************************************************)
(* Facts about LruCache: sizes of sets add up, and what becomes of a list   *)
(* of distinct keys when keys are used, popped or taken out.                *)
(***************************************************************************)
EXTENDS LruCache, FiniteSetTheorems, SequenceTheorems, WellFoundedInduction, TLAPS

\* A nonempty set of naturals has a least element.
LEMMA LeastNatural ==
  ASSUME NEW S \in SUBSET Nat, S # {}
  PROVE  Min(S) \in S /\ \A y \in S : Min(S) <= y
<1>1. PICK m \in S : \A y \in S : <<y, m>> \notin OpToRel(<, Nat)
  BY WFMin, NatLessThanWellFounded
<1>2. \A y \in S : m <= y
  <2> TAKE y \in S
  <2>1. <<y, m>> \notin OpToRel(<, Nat)
    BY <1>1
  <2>2. ~(y < m)
    BY <2>1, Zenon DEF OpToRel
  <2> QED BY <2>2, m \in Nat, y \in Nat
<1> QED BY <1>2 DEF Min

-----------------------------------------------------------------------------
(* Bytes *)

Cells(S) == UNION {{c} \X (1..Size[c]) : c \in S}

\* A set of keys has a natural number of bytes.
LEMMA BytesType ==
  ASSUME NEW S \in SUBSET Keys
  PROVE  IsFiniteSet(Cells(S)) /\ Bytes(S) \in Nat
<1> DEFINE T == {{c} \X (1..Size[c]) : c \in S}
           f == [c \in S |-> {c} \X (1..Size[c])]
<1>1. IsFiniteSet(S)
  BY FS_Subset, KeysAssumption
<1>2. f \in Surjection(S, T)
  BY DEF Surjection
<1>3. IsFiniteSet(T)
  BY <1>1, <1>2, FS_Surjection, Zenon
<1>4. \A t \in T : IsFiniteSet(t)
  <2> SUFFICES ASSUME NEW c \in S PROVE IsFiniteSet({c} \X (1..Size[c]))
    OBVIOUS
  <2>1. Size[c] \in Int
    BY KeysAssumption
  <2>2. IsFiniteSet({c})
    BY FS_Singleton, Zenon
  <2>3. IsFiniteSet(1..Size[c])
    BY <2>1, 1 \in Int, FS_Interval, Zenon
  <2> QED BY <2>2, <2>3, FS_Product, Zenon
<1>5. IsFiniteSet(UNION T)
  BY <1>3, <1>4, FS_UNION
<1>6. Cells(S) = UNION T /\ Bytes(S) = Cardinality(UNION T)
  BY DEF Cells, Bytes
<1> QED BY <1>5, <1>6, FS_CardinalityType

\* Disjoint sets of keys add up.
LEMMA BytesAdd ==
  ASSUME NEW S \in SUBSET Keys, NEW T \in SUBSET Keys, S \cap T = {}
  PROVE  Bytes(S \cup T) = Bytes(S) + Bytes(T)
<1>1. IsFiniteSet(Cells(S)) /\ IsFiniteSet(Cells(T))
  BY BytesType
<1>2. Cells(S \cup T) = Cells(S) \cup Cells(T)
  BY DEF Cells
<1>3. Cells(S) \cap Cells(T) = {}
  BY DEF Cells
<1>4. Cardinality(Cells(S) \cap Cells(T)) = 0
  BY <1>3, FS_EmptySet
<1>5. Cardinality(Cells(S)) \in Nat /\ Cardinality(Cells(T)) \in Nat
  BY <1>1, FS_CardinalityType
<1>6. Cardinality(Cells(S \cup T)) = Cardinality(Cells(S)) + Cardinality(Cells(T))
  <2>1. Cardinality(Cells(S) \cup Cells(T)) = Cardinality(Cells(S))
            + Cardinality(Cells(T)) - Cardinality(Cells(S) \cap Cells(T))
    BY <1>1, FS_Union, Zenon
  <2>2. Cardinality(Cells(S \cup T)) = Cardinality(Cells(S)) + Cardinality(Cells(T)) - 0
    BY <1>2, <1>4, <2>1, Zenon
  <2>3. \A a, b \in Nat : a + b - 0 = a + b
    OBVIOUS
  <2> QED BY <1>5, <2>2, <2>3, Zenon
<1> QED BY <1>6 DEF Bytes, Cells

LEMMA FirstNumbers ==
  ASSUME NEW n \in Nat
  PROVE  IsFiniteSet(1..n) /\ Cardinality(1..n) = n
<1>1. n \in Int /\ 1 \in Int
  OBVIOUS
<1>2. /\ IsFiniteSet(1..n)
      /\ Cardinality(1..n) = IF 1 > n THEN 0 ELSE n - 1 + 1
  BY <1>1, FS_Interval, Zenon
<1>3. Cardinality(1..n) = n
  BY <1>2
<1> QED BY <1>2, <1>3

\* One key has the bytes of its values.
LEMMA BytesOne ==
  ASSUME NEW c \in Keys
  PROVE  Bytes({c}) = Size[c]
<1>1. Size[c] \in Nat
  BY KeysAssumption
<1>2. UNION {{k} \X (1..Size[k]) : k \in {c}} = {c} \X (1..Size[c])
  OBVIOUS
<1>3. IsFiniteSet({c}) /\ Cardinality({c}) = 1
  BY FS_Singleton
<1>4. IsFiniteSet(1..Size[c]) /\ Cardinality(1..Size[c]) = Size[c]
  BY <1>1, FirstNumbers
<1>5. Cardinality({c} \X (1..Size[c])) = 1 * Size[c]
  <2>1. Cardinality({c} \X (1..Size[c])) = Cardinality({c}) * Cardinality(1..Size[c])
    BY <1>3, <1>4, FS_Product, Zenon
  <2> QED BY <1>3, <1>4, <2>1, Zenon
<1>6. 1 * Size[c] = Size[c]
  BY <1>1
<1> QED BY <1>2, <1>5, <1>6, Zenon DEF Bytes

\* No keys have no bytes.
LEMMA BytesNone == Bytes({}) = 0
<1>1. UNION {{c} \X (1..Size[c]) : c \in {}} = {}
  OBVIOUS
<1> QED BY <1>1, FS_EmptySet DEF Bytes

\* What is taken out of a set of keys leaves the rest.
LEMMA BytesMinus ==
  ASSUME NEW S \in SUBSET Keys, NEW T \in SUBSET S
  PROVE  /\ Bytes(S \ T) = Bytes(S) - Bytes(T)
         /\ Bytes(T) <= Bytes(S)
<1>1. (S \ T) \cup T = S /\ (S \ T) \cap T = {}
  OBVIOUS
<1>2. Bytes(S) = Bytes(S \ T) + Bytes(T)
  BY <1>1, BytesAdd
<1> QED BY <1>2, BytesType

-----------------------------------------------------------------------------
(* The order of use *)

\* What can be said of a list of distinct keys.
Listed(s, S) == s \in Seq(Keys) /\ IsInjective(s) /\ ToSet(s) = S

\* The elements of a list, by their places.
LEMMA InList ==
  ASSUME NEW s \in Seq(Keys)
  PROVE  /\ DOMAIN s = 1..Len(s) /\ Len(s) \in Nat
         /\ \A x : x \in ToSet(s) <=> \E k \in 1..Len(s) : s[k] = x
  BY DEF ToSet

\* A part of a list.
LEMMA PartOfList ==
  ASSUME NEW s \in Seq(Keys), NEW m \in 1..Len(s) + 1, NEW n \in 0..Len(s), m <= n + 1
  PROVE  /\ SubSeq(s, m, n) \in Seq(Keys)
         /\ Len(SubSeq(s, m, n)) = n - m + 1
         /\ \A k \in 1..(n - m + 1) : SubSeq(s, m, n)[k] = s[m + k - 1]
<1>1. Len(s) \in Nat /\ m \in Nat /\ n \in Nat
  OBVIOUS
<1>2. Len(SubSeq(s, m, n)) = n - m + 1
  BY <1>1
<1>3. \A k \in 1..(n - m + 1) : SubSeq(s, m, n)[k] = s[m + k - 1]
  BY <1>1
<1>4. SubSeq(s, m, n) \in Seq(Keys)
  BY <1>1
<1> QED BY <1>2, <1>3, <1>4

\* Taking a key out of the list takes it out of the set.
LEMMA ListedWithout ==
  ASSUME NEW s, NEW S, Listed(s, S), NEW c \in Keys
  PROVE  Listed(Without(s, c), S \ {c})
<1>1. CASE c \notin ToSet(s)
  BY <1>1 DEF Without, Listed
<1>2. CASE c \in ToSet(s)
  <2> DEFINE i == CHOOSE i \in 1..Len(s) : s[i] = c
             t == RemoveAt(s, i)
  <2>1. s \in Seq(Keys) /\ Len(s) \in Nat
    BY DEF Listed
  <2>2. \E j \in 1..Len(s) : s[j] = c
    BY <1>2, <2>1 DEF ToSet
  <2>3. i \in 1..Len(s) /\ s[i] = c
    BY <2>2
  <2> HIDE DEF i
  <2>4. /\ t \in Seq(Keys)
        /\ Len(t) = Len(s) - 1
        /\ \A k \in 1..Len(t) : t[k] = IF k < i THEN s[k] ELSE s[k+1]
    <3> DEFINE u == SubSeq(s, 1, i - 1)
               v == SubSeq(s, i + 1, Len(s))
    <3>1. /\ u \in Seq(Keys) /\ Len(u) = i - 1
          /\ \A k \in 1..(i - 1) : u[k] = s[k]
      <4>1. 1 \in 1..Len(s) + 1 /\ i - 1 \in 0..Len(s) /\ 1 <= (i - 1) + 1 /\ (i - 1) - 1 + 1 = i - 1
        BY <2>1, <2>3
      <4>2. \A k \in 1..(i - 1) : 1 + k - 1 = k
        BY <2>1, <2>3
      <4> QED BY <2>1, <2>3, <4>1, <4>2, PartOfList
    <3>2. /\ v \in Seq(Keys) /\ Len(v) = Len(s) - i
          /\ \A k \in 1..(Len(s) - i) : v[k] = s[i + k]
      <4>1. i + 1 \in 1..Len(s) + 1 /\ Len(s) \in 0..Len(s) /\ i + 1 <= Len(s) + 1
        BY <2>1, <2>3
      <4>2. Len(s) - (i + 1) + 1 = Len(s) - i
        BY <2>1, <2>3
      <4>3. \A k \in 1..(Len(s) - i) : (i + 1) + k - 1 = i + k
        BY <2>1, <2>3
      <4> QED BY <2>1, <4>1, <4>2, <4>3, PartOfList
    <3> HIDE DEF u, v
    <3>3. /\ u \o v \in Seq(Keys) /\ Len(u \o v) = Len(s) - 1
          /\ \A k \in 1..(Len(s) - 1) :
                (u \o v)[k] = IF k < i THEN s[k] ELSE s[k + 1]
      <4>1. u \o v \in Seq(Keys) /\ Len(u \o v) = Len(s) - 1
        <5>1. u \o v \in Seq(Keys) /\ Len(u \o v) = Len(u) + Len(v)
          BY <3>1, <3>2, ConcatProperties, Zenon
        <5>2. (i - 1) + (Len(s) - i) = Len(s) - 1
          BY <2>1, <2>3
        <5> QED BY <3>1, <3>2, <5>1, <5>2
      <4>2. ASSUME NEW k \in 1..(Len(s) - 1)
            PROVE  (u \o v)[k] = IF k < i THEN s[k] ELSE s[k + 1]
        <5>1. CASE k < i
          BY <2>1, <2>3, <3>1, <3>2, <5>1, ConcatProperties
        <5>2. CASE ~(k < i)
          <6>1. k - (i - 1) \in 1..(Len(s) - i) /\ i + (k - (i - 1)) = k + 1
            BY <2>1, <2>3, <5>2
          <6>2. (u \o v)[k] = v[k - (i - 1)]
            <7>1. k \in 1..(Len(u) + Len(v)) /\ k > Len(u) /\ k - Len(u) = k - (i - 1)
              BY <2>1, <2>3, <3>1, <3>2, <5>2
            <7>2. (u \o v)[k] = v[k - Len(u)]
              BY <3>1, <3>2, <7>1, ConcatProperties
            <7> QED BY <7>1, <7>2
          <6> QED BY <3>2, <5>2, <6>1, <6>2
        <5> QED BY <5>1, <5>2
      <4> QED BY <4>1, <4>2
    <3> QED BY <3>3 DEF RemoveAt, u, v
  <2>5. \A j, k \in 1..Len(s) : s[j] = s[k] => j = k
    BY <2>1 DEF Listed, IsInjective
  <2> HIDE DEF t
  <2>6. \A j, k \in 1..Len(t) : t[j] = t[k] => j = k
    BY <2>1, <2>3, <2>4, <2>5
  <2>7. DOMAIN t = 1..Len(t) /\ DOMAIN s = 1..Len(s)
    BY <2>1, <2>4
  <2>8. \A k \in 1..Len(t) : t[k] \in ToSet(s) /\ t[k] # c
    BY <2>1, <2>3, <2>4, <2>5, <2>7 DEF ToSet
  <2>9. \A j \in 1..Len(s) : s[j] # c => \E k \in 1..Len(t) : t[k] = s[j]
    <3> TAKE j \in 1..Len(s)
    <3> HAVE s[j] # c
    <3>1. CASE j < i
      BY <2>1, <2>3, <2>4, <3>1
    <3>2. CASE j > i
      <4>1. j - 1 \in 1..Len(t) /\ t[j - 1] = s[j]
        BY <2>1, <2>3, <2>4, <3>2
      <4> QED BY <4>1
    <3> QED BY <2>1, <2>3, <3>1, <3>2
  <2>10. ToSet(t) = ToSet(s) \ {c}
    <3>1. \A x \in ToSet(t) : x \in ToSet(s) /\ x # c
      BY <2>4, <2>8, InList
    <3>2. \A x \in ToSet(s) : x # c => x \in ToSet(t)
      <4>1. \A x \in ToSet(s) : \E j \in 1..Len(s) : s[j] = x
        BY <2>1, InList
      <4>2. \A x : (\E k \in 1..Len(t) : t[k] = x) => x \in ToSet(t)
        BY <2>4, InList
      <4> QED BY <2>9, <4>1, <4>2
    <3> QED BY <3>1, <3>2, Zenon
  <2>11. Without(s, c) = t
    BY <1>2 DEF Without, t, i
  <2> QED BY <2>4, <2>6, <2>7, <2>10, <2>11 DEF Listed, IsInjective
<1> QED BY <1>1, <1>2

\* A new key at the recent end.
LEMMA ListedAppend ==
  ASSUME NEW s, NEW S, Listed(s, S), NEW c \in Keys, c \notin S
  PROVE  Listed(Append(s, c), S \cup {c})
<1> DEFINE t == Append(s, c)
<1>1. s \in Seq(Keys) /\ Len(s) \in Nat /\ DOMAIN s = 1..Len(s)
  BY DEF Listed
<1>2. /\ t \in Seq(Keys) /\ Len(t) = Len(s) + 1 /\ DOMAIN t = 1..Len(t)
      /\ \A k \in 1..Len(s) : t[k] = s[k]
      /\ t[Len(s) + 1] = c
  BY <1>1
<1>3. \A k \in 1..Len(s) : s[k] # c
  BY <1>1 DEF Listed, ToSet
<1>4. \A j, k \in 1..Len(s) : s[j] = s[k] => j = k
  BY <1>1 DEF Listed, IsInjective
<1> HIDE DEF t
<1>5. \A j, k \in 1..Len(t) : t[j] = t[k] => j = k
  BY <1>1, <1>2, <1>3, <1>4
<1>6. ToSet(t) = ToSet(s) \cup {c}
  <2>1. \A k \in 1..Len(t) : t[k] = c \/ \E j \in 1..Len(s) : t[k] = s[j]
    BY <1>1, <1>2
  <2>2. Len(s) + 1 \in 1..Len(t) /\ \A k \in 1..Len(s) : k \in 1..Len(t)
    BY <1>1, <1>2
  <2> QED BY <1>1, <1>2, <2>1, <2>2, InList
<1>7. IsInjective(t)
  BY <1>2, <1>5 DEF IsInjective
<1> QED BY <1>2, <1>6, <1>7 DEF Listed, t

\* Popping the n oldest keys leaves the others.
LEMMA ListedPopped ==
  ASSUME NEW s, NEW S, Listed(s, S), NEW n \in 0..Len(s)
  PROVE  /\ Listed(SubSeq(s, n + 1, Len(s)), S \ {s[i] : i \in 1..n})
         /\ {s[i] : i \in 1..n} \subseteq S
         /\ n = Len(s) => {s[i] : i \in 1..n} = S
<1> DEFINE t == SubSeq(s, n + 1, Len(s))
<1>1. s \in Seq(Keys) /\ Len(s) \in Nat /\ n \in Nat /\ n <= Len(s) /\ DOMAIN s = 1..Len(s)
  BY DEF Listed
<1>2. /\ t \in Seq(Keys) /\ Len(t) = Len(s) - n /\ DOMAIN t = 1..Len(t)
      /\ \A k \in 1..Len(t) : t[k] = s[n + k]
  <2>1. n + 1 \in 1..Len(s) + 1 /\ Len(s) \in 0..Len(s) /\ n + 1 <= Len(s) + 1
    BY <1>1
  <2>2. /\ t \in Seq(Keys) /\ Len(t) = Len(s) - (n + 1) + 1
        /\ \A k \in 1..(Len(s) - (n + 1) + 1) : t[k] = s[(n + 1) + k - 1]
    BY <1>1, <2>1, PartOfList
  <2>3. Len(s) - (n + 1) + 1 = Len(s) - n
    BY <1>1
  <2>4. \A k \in 1..(Len(s) - n) : (n + 1) + k - 1 = n + k
    BY <1>1
  <2> HIDE DEF t
  <2> QED BY <1>1, <2>2, <2>3, <2>4, InList
<1>3. \A j, k \in 1..Len(s) : s[j] = s[k] => j = k
  BY <1>1 DEF Listed, IsInjective
<1>4. ToSet(s) = S
  BY DEF Listed
<1> HIDE DEF t
<1>5. \A j, k \in 1..Len(t) : t[j] = t[k] => j = k
  BY <1>1, <1>2, <1>3
<1>6. \A k \in 1..Len(t) : t[k] \in S /\ \A i \in 1..n : t[k] # s[i]
  <2> TAKE k \in 1..Len(t)
  <2>1. n + k \in 1..Len(s) /\ t[k] = s[n + k]
    BY <1>1, <1>2
  <2>2. t[k] \in S
    BY <1>1, <1>4, <2>1, InList
  <2>3. \A i \in 1..n : i \in 1..Len(s) /\ i # n + k
    BY <1>1, <1>2
  <2> QED BY <1>3, <2>1, <2>2, <2>3
<1>7. \A j \in 1..Len(s) : (\A i \in 1..n : s[j] # s[i]) => \E k \in 1..Len(t) : t[k] = s[j]
  <2> SUFFICES ASSUME NEW j \in 1..Len(s), \A i \in 1..n : s[j] # s[i]
               PROVE  \E k \in 1..Len(t) : t[k] = s[j]
    OBVIOUS
  <2>1. j > n
    BY <1>1
  <2>2. j - n \in 1..Len(t) /\ t[j - n] = s[j]
    BY <1>1, <1>2, <2>1
  <2> QED BY <2>2
<1>8. ToSet(t) = S \ {s[i] : i \in 1..n}
  <2>1. \A x \in ToSet(t) : x \in S \ {s[i] : i \in 1..n}
    <3> TAKE x \in ToSet(t)
    <3>1. PICK k \in 1..Len(t) : t[k] = x
      BY <1>2, InList
    <3> QED BY <1>6, <3>1
  <2>2. \A x \in S \ {s[i] : i \in 1..n} : x \in ToSet(t)
    <3> TAKE x \in S \ {s[i] : i \in 1..n}
    <3>1. PICK j \in 1..Len(s) : s[j] = x
      BY <1>1, <1>4, InList
    <3>2. \A i \in 1..n : s[j] # s[i]
      BY <3>1
    <3>3. PICK k \in 1..Len(t) : t[k] = x
      BY <1>7, <3>1, <3>2
    <3> QED BY <1>2, <3>3, InList
  <2> QED BY <2>1, <2>2, Zenon
<1>9. {s[i] : i \in 1..n} \subseteq S
  BY <1>1, <1>4 DEF ToSet
<1>10. n = Len(s) => {s[i] : i \in 1..n} = S
  BY <1>1, <1>4 DEF ToSet
<1>11. IsInjective(t)
  BY <1>2, <1>5 DEF IsInjective
<1> QED BY <1>2, <1>8, <1>9, <1>10, <1>11 DEF Listed, t

\* The tail of a list leaves out its first key.
LEMMA ListedTail ==
  ASSUME NEW s, NEW S, Listed(s, S), Len(s) > 0
  PROVE  Listed(Tail(s), S \ {Head(s)}) /\ Head(s) \in S
<1>1. s \in Seq(Keys) /\ Len(s) \in Nat /\ 1 \in 0..Len(s)
  BY DEF Listed
<1>2. Tail(s) = SubSeq(s, 1 + 1, Len(s)) /\ Head(s) = s[1]
  BY <1>1, HeadTailProperties, SubSeqProperties
<1>3. {s[i] : i \in 1..1} = {s[1]}
  OBVIOUS
<1>4. /\ Listed(SubSeq(s, 1 + 1, Len(s)), S \ {s[i] : i \in 1..1})
      /\ {s[i] : i \in 1..1} \subseteq S
  BY <1>1, ListedPopped, Zenon
<1> QED BY <1>2, <1>3, <1>4, Zenon
=============================================================================
