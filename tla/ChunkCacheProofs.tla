-------------------------- MODULE ChunkCacheProofs --------------------------
(***************************************************************************)
(* Proofs about ChunkCache: what the cache holds never exceeds its limit,   *)
(* and a clear forgets everything that no reader is holding, for any        *)
(* chunks, sizes, limits and readers.                                       *)
(***************************************************************************)
EXTENDS ChunkCache, LruCacheProofs

USE DEF Chunks

-----------------------------------------------------------------------------
(* Insertion *)

\* The cache's variables agree with each other, and the drift of the counter
\* is within the limit.
CacheOK ==
    /\ copy \in [Chunks -> Nat \cup {None}]
    /\ counted \in Nat
    /\ Listed(recent, Cached)
    /\ MemoryBounded

\* What the loop of insert leaves: either room for the new entry or nothing.
LEMMA PopsEnough ==
  ASSUME CacheOK, NEW c \in Chunks
  PROVE  LET n == Pops(Size[c], MemoryLimit) IN
         /\ n \in 0..Len(recent)
         /\ n = Len(recent) \/ Left(n) + Size[c] <= MemoryLimit
<1> DEFINE N == {n \in 0..Len(recent) : n = Len(recent) \/ Left(n) + Size[c] <= MemoryLimit}
<1>1. Len(recent) \in Nat
  BY DEF CacheOK, Listed
<1>2. N \in SUBSET Nat /\ Len(recent) \in N
  BY <1>1
<1>3. Min(N) \in N
  BY <1>2, LeastNatural, Zenon
<1>4. Pops(Size[c], MemoryLimit) = Min(N)
  BY DEF Pops
<1> QED BY <1>3, <1>4

\* Popping keeps the drift: what leaves the cache leaves the counter.
LEMMA PoppedBytes ==
  ASSUME CacheOK, NEW n \in 0..Len(recent)
  PROVE  /\ Oldest(n) \subseteq Cached
         /\ Bytes(Cached \ Oldest(n)) \in Nat /\ Left(n) \in Nat
         /\ Left(n) - Bytes(Cached \ Oldest(n)) = counted - Bytes(Cached)
         /\ Bytes(Cached \ Oldest(n)) <= Left(n)
         /\ n = Len(recent) => Cached \ Oldest(n) = {}
<1>1. Oldest(n) \subseteq Cached /\ (n = Len(recent) => Oldest(n) = Cached)
  BY ListedPopped DEF CacheOK, Oldest, First
<1>2. Cached \in SUBSET Chunks
  BY DEF Cached
<1>3. /\ Bytes(Cached \ Oldest(n)) = Bytes(Cached) - Bytes(Oldest(n))
      /\ Bytes(Oldest(n)) <= Bytes(Cached)
  BY <1>1, <1>2, BytesMinus
<1>4. Bytes(Cached) \in Nat /\ Bytes(Oldest(n)) \in Nat /\ Bytes(Cached \ Oldest(n)) \in Nat
  BY <1>1, <1>2, BytesType
<1>5. counted \in Nat /\ Bytes(Cached) <= counted
  BY DEF CacheOK, MemoryBounded
<1>6. Left(n) = counted - Bytes(Oldest(n))
  BY <1>3, <1>4, <1>5 DEF Left, Minus
<1> QED BY <1>1, <1>3, <1>4, <1>5, <1>6

\* insert keeps the cache consistent and within its limit.
LEMMA InsertOK ==
  ASSUME CacheOK, NEW c \in Chunks, NEW v \in Nat, Insert(c, v)
  PROVE  /\ CacheOK'
         /\ \A k \in Chunks : copy'[k] = copy[k] \/ copy'[k] = None \/ (k = c /\ copy'[k] = v)
<1> DEFINE n == Pops(Size[c], MemoryLimit)
           kept == SubSeq(recent, n + 1, Len(recent))
           fits == Size[c] <= MemoryLimit
           out == IF fits THEN PushedOut(c, kept) ELSE {}
           K == Cached \ Oldest(n)
           R == (K \ out) \ {c}
<1>1. n \in 0..Len(recent) /\ (n = Len(recent) \/ Left(n) + Size[c] <= MemoryLimit)
  BY PopsEnough, Zenon
<1>2. /\ copy' = [k \in Chunks |-> IF fits /\ k = c THEN v
                                   ELSE IF k \in Oldest(n) \cup out THEN None ELSE copy[k]]
      /\ recent' = IF ~fits THEN kept
                   ELSE Append(IF out = {} THEN Without(kept, c) ELSE Tail(kept), c)
      /\ counted' = Left(n) + (IF fits THEN Size[c] ELSE 0)
  BY Zenon DEF Insert
<1>3. Listed(kept, K)
  BY <1>1, ListedPopped, Zenon DEF CacheOK, Oldest, First
<1>4. /\ Oldest(n) \subseteq Cached /\ Bytes(K) \in Nat /\ Left(n) \in Nat
      /\ Left(n) - Bytes(K) = counted - Bytes(Cached)
      /\ Bytes(K) <= Left(n)
      /\ n = Len(recent) => K = {}
  BY <1>1, PoppedBytes, Zenon
<1>5. /\ Size[c] \in Nat /\ MemoryLimit \in Nat /\ MaxEntries \in Nat \ {0}
      /\ counted \in Nat /\ Bytes(Cached) \in Nat
      /\ Bytes(Cached) <= MemoryLimit /\ counted <= Bytes(Cached) + MemoryLimit
  BY BytesType, ChunksAssumption, KeysAssumption, LimitAssumption DEF CacheOK, MemoryBounded, Cached
<1>6. K \in SUBSET Chunks /\ None \notin Nat /\ copy \in [Chunks -> Nat \cup {None}]
  BY NoneAssumption DEF Cached, CacheOK
<1> HIDE DEF n
<1>7. \/ out = {}
      \/ out = {Head(kept)} /\ fits /\ c \notin K /\ Len(kept) > 0
  <2>1. ToSet(kept) = K
    BY <1>3, Zenon DEF Listed
  <2>2. MaxEntries > 0
    BY <1>5
  <2> QED BY <2>1, <2>2, Zenon DEF PushedOut
<1> HIDE DEF kept
<1>8. out \subseteq K
  BY <1>3, <1>7, ListedTail, Zenon
<1> HIDE DEF out
<1>9. Cached' = IF fits THEN R \cup {c} ELSE K
  <2>1. ~fits => out = {}
    BY <1>7, Zenon
  <2>2. Cached' = {k \in Chunks : copy'[k] # None}
    BY DEF Cached
  <2>3. v # None
    BY <1>6
  <2>4. \A k \in Chunks : copy'[k] # None <=>
            IF fits /\ k = c THEN TRUE ELSE k \in K /\ k \notin out
    <3> TAKE k \in Chunks
    <3>1. k \in K <=> copy[k] # None /\ k \notin Oldest(n)
      BY DEF Cached
    <3>2. CASE fits /\ k = c
      <4>1. copy'[k] = v
        BY <1>2, <3>2
      <4> QED BY <2>3, <3>2, <4>1, Zenon
    <3>3. CASE ~(fits /\ k = c) /\ k \in Oldest(n) \cup out
      BY <1>2, <3>1, <3>3
    <3>4. CASE ~(fits /\ k = c) /\ k \notin Oldest(n) \cup out
      BY <1>2, <3>1, <3>4
    <3> QED BY <3>2, <3>3, <3>4
  <2> QED BY <1>6, <2>1, <2>2, <2>4
<1>10. Listed(recent', Cached')
  <2>1. CASE ~fits
    BY <1>2, <1>3, <1>9, <2>1, Zenon
  <2>2. CASE fits /\ out = {}
    <3>1. Listed(Without(kept, c), K \ {c})
      BY <1>3, ListedWithout, Zenon
    <3>2. Listed(Append(Without(kept, c), c), (K \ {c}) \cup {c})
      BY <3>1, ListedAppend, Zenon
    <3>3. (K \ {c}) \cup {c} = R \cup {c}
      BY <2>2
    <3> QED BY <1>2, <1>9, <2>2, <3>2, <3>3, Zenon
  <2>3. CASE fits /\ out # {}
    <3>1. Listed(Tail(kept), K \ out) /\ c \notin K
      BY <1>3, <1>7, <2>3, ListedTail, Zenon
    <3>2. Listed(Append(Tail(kept), c), (K \ out) \cup {c})
      BY <3>1, ListedAppend, Zenon
    <3>3. (K \ out) \cup {c} = R \cup {c}
      BY <3>1
    <3> QED BY <1>2, <1>9, <2>3, <3>2, <3>3, Zenon
  <2> QED BY <2>1, <2>2, <2>3, Zenon
<1>11. counted' \in Nat /\ MemoryBounded'
  <2>1. CASE ~fits
    <3>1. Cached' = K /\ counted' = Left(n)
      BY <1>2, <1>4, <1>9, <2>1
    <3>2. Bytes(K) <= MemoryLimit /\ Bytes(K) <= Left(n) /\ Left(n) <= Bytes(K) + MemoryLimit
      <4>1. Bytes(K) <= Bytes(Cached)
        BY BytesMinus DEF Cached
      <4> QED BY <1>4, <1>5, <4>1
    <3> QED BY <1>4, <3>1, <3>2 DEF MemoryBounded, Bytes
  <2>2. CASE fits
    <3>1. Cached' = R \cup {c} /\ counted' = Left(n) + Size[c]
      BY <1>2, <1>9, <2>2, Zenon
    <3>2. Bytes(R \cup {c}) = Bytes(R) + Size[c]
      <4>1. R \in SUBSET Chunks /\ {c} \in SUBSET Chunks /\ R \cap {c} = {}
        BY <1>6
      <4>2. Bytes(R \cup {c}) = Bytes(R) + Bytes({c})
        BY <4>1, BytesAdd, Zenon
      <4> QED BY <4>2, BytesOne, Zenon
    <3>3. Bytes(R) \in Nat /\ Bytes(R) <= Bytes(K) /\ (K = {} => Bytes(R) = 0)
      <4>1. R \in SUBSET K /\ (K = {} => R = {})
        OBVIOUS
      <4> QED BY <1>6, <4>1, BytesMinus, BytesType, BytesNone
    <3>4. Bytes(R) + Size[c] <= MemoryLimit
      BY <1>1, <1>4, <1>5, <2>2, <3>3, BytesNone
    <3>5. /\ Bytes(R) + Size[c] <= Left(n) + Size[c]
          /\ Left(n) + Size[c] <= Bytes(R) + Size[c] + MemoryLimit
      <4>1. CASE n = Len(recent)
        <5>1. Bytes(K) = 0 /\ Bytes(R) = 0
          BY <1>4, <3>3, <4>1, BytesNone, Zenon
        <5> QED BY <1>4, <1>5, <5>1
      <4>2. CASE Left(n) + Size[c] <= MemoryLimit
        BY <1>4, <1>5, <3>3, <4>2
      <4> QED BY <1>1, <4>1, <4>2
    <3>6. Bytes(Cached)' = Bytes(R) + Size[c]
      BY <3>1, <3>2 DEF Bytes
    <3> QED BY <1>4, <1>5, <3>1, <3>4, <3>5, <3>6 DEF MemoryBounded
  <2> QED BY <2>1, <2>2, Zenon
<1>12. copy' \in [Chunks -> Nat \cup {None}]
  BY <1>2, <1>6
<1>13. \A k \in Chunks : copy'[k] = copy[k] \/ copy'[k] = None \/ (k = c /\ copy'[k] = v)
  <2> TAKE k \in Chunks
  <2>1. CASE fits /\ k = c
    BY <1>2, <2>1
  <2>2. CASE ~(fits /\ k = c) /\ k \in Oldest(n) \cup out
    BY <1>2, <2>2
  <2>3. CASE ~(fits /\ k = c) /\ k \notin Oldest(n) \cup out
    BY <1>2, <2>3
  <2> QED BY <2>1, <2>2, <2>3
<1> QED BY <1>10, <1>11, <1>12, <1>13 DEF CacheOK

-----------------------------------------------------------------------------
(* The theorems *)

\* What is needed to show that a clear forgets: nothing about is older than
\* the floor, and the floor is not newer than the store.
FloorHolds == ClearForgets /\ \A c \in Chunks : floor[c] <= stored[c]

\* A reader that fetched a chunk and has not inserted it yet holds it.
FetchedHeld ==
    \A r \in Readers : \A c \in Chunks : step[r][c] = "fetched" => data[r][c] # None

ChunkInv == TypeOK /\ MemoryBounded /\ FetchedHeld /\ FloorHolds

\* Initially the cache is empty.
LEMMA InvInit == Init => ChunkInv
<1> SUFFICES ASSUME Init PROVE ChunkInv
  OBVIOUS
<1>1. Cached = {} /\ recent = <<>> /\ counted = 0
  BY DEF Init, Nothing, Cached
<1>2. ToSet(recent) = {} /\ IsInjective(recent) /\ recent \in Seq(Chunks)
  BY <1>1 DEF ToSet, IsInjective
<1>3. MemoryBounded
  BY <1>1, BytesNone, LimitAssumption DEF MemoryBounded
<1>4. TypeOK
  BY <1>1, <1>2 DEF Init, TypeOK, Nothing, Step
<1>5. FloorHolds
  BY NoneAssumption DEF Init, FloorHolds, ClearForgets, Nothing
<1>6. FetchedHeld
  BY DEF Init, FetchedHeld
<1> QED BY <1>3, <1>4, <1>5, <1>6 DEF ChunkInv

\* The invariant contains what the lemmas about the cache need.
LEMMA InvCache == ChunkInv => CacheOK
  BY DEF ChunkInv, TypeOK, CacheOK, Listed

\* Properties that only look at the cache hold when it is left alone.
LEMMA CacheUnchanged ==
  ASSUME CacheOK, UNCHANGED cacheVars
  PROVE  CacheOK'
<1>1. Cached' = Cached
  BY DEF cacheVars, Cached
<1> QED BY <1>1 DEF CacheOK, cacheVars, Listed, MemoryBounded, Bytes

\* A hit only changes the order.
LEMMA TouchOK ==
  ASSUME CacheOK, NEW c \in Chunks, copy[c] # None, Touch(c)
  PROVE  CacheOK'
<1>1. Cached' = Cached /\ c \in Cached
  BY DEF Touch, Cached
<1>2. Listed(Without(recent, c), Cached \ {c})
  BY ListedWithout, Zenon DEF CacheOK
<1>3. Listed(Append(Without(recent, c), c), (Cached \ {c}) \cup {c})
  BY <1>2, ListedAppend, Zenon
<1>4. (Cached \ {c}) \cup {c} = Cached
  BY <1>1
<1>5. Listed(recent', Cached')
  BY <1>1, <1>3, <1>4, Zenon DEF Touch, Used
<1> QED BY <1>1, <1>5 DEF CacheOK, Touch, MemoryBounded, Bytes

\* An empty cache is consistent.
LEMMA ClearOK ==
  ASSUME copy' = Nothing, recent' = <<>>, counted' = 0
  PROVE  CacheOK'
<1>1. Cached' = {}
  BY DEF Nothing, Cached
<1>2. Listed(recent', {})
  BY DEF Listed, ToSet, IsInjective
<1>3. Bytes(Cached)' = 0
  BY <1>1, BytesNone DEF Bytes
<1> QED BY <1>1, <1>2, <1>3, LimitAssumption DEF CacheOK, MemoryBounded, Nothing

\* The variables of the store and of the readers have their types.
RestType ==
    /\ stored \in [Chunks -> Nat]
    /\ uploading \in [Paths -> SUBSET Chunks]
    /\ step \in [Readers -> [Chunks -> Step]]
    /\ data \in [Readers -> [Chunks -> Nat \cup {None}]]
    /\ asked \in [Readers -> [Chunks -> Nat]]
    /\ floor \in [Chunks -> Nat]

RestOK == RestType /\ FetchedHeld

\* The invariant, by the variables its parts are about.
LEMMA InvParts == ChunkInv <=> CacheOK /\ RestOK /\ FloorHolds
  BY DEF ChunkInv, TypeOK, CacheOK, RestOK, RestType, Listed

\* Every step of a reader keeps the invariant.
LEMMA ReaderStep ==
  ASSUME CacheOK, RestOK, FloorHolds, NEW r \in Readers,
         \/ \E wanted \in SUBSET Chunks : BeginRegion(r, wanted)
         \/ \E c \in Chunks : Hit(r, c) \/ Miss(r, c) \/ Fetch(r, c)
                                \/ FetchFails(r, c) \/ Fill(r, c)
         \/ Finish(r)
  PROVE  CacheOK' /\ RestOK' /\ FloorHolds'
<1> USE DEF storeVars, readVars
<1>1. ASSUME NEW wanted \in SUBSET Chunks, BeginRegion(r, wanted)
      PROVE  CacheOK' /\ RestOK' /\ FloorHolds'
  <2>1. CacheOK'
    BY <1>1, CacheUnchanged DEF BeginRegion
  <2>2. RestOK'
    <3>1. RestType'
      BY <1>1 DEF BeginRegion, Step, RestOK, RestType
    <3>2. FetchedHeld'
      BY <1>1, NoneAssumption DEF BeginRegion, Step, RestOK, RestType, FetchedHeld
    <3> QED BY <3>1, <3>2 DEF RestOK
  <2>3. FloorHolds'
    BY <1>1 DEF BeginRegion, FloorHolds, ClearForgets, cacheVars
  <2> QED BY <2>1, <2>2, <2>3
<1>2. ASSUME NEW c \in Chunks, Hit(r, c)
      PROVE  CacheOK' /\ RestOK' /\ FloorHolds'
  <2>1. CacheOK'
    BY <1>2, TouchOK DEF Hit
  <2>2. copy[c] \in Nat /\ copy' = copy
    BY <1>2 DEF Hit, Touch, CacheOK
  <2>3. RestOK'
    <3>1. RestType'
      BY <1>2, <2>2 DEF Hit, Step, RestOK, RestType
    <3>2. FetchedHeld'
      BY <1>2, <2>2, NoneAssumption DEF Hit, Step, RestOK, RestType, FetchedHeld
    <3> QED BY <3>1, <3>2 DEF RestOK
  <2>4. FloorHolds'
    BY <1>2, <2>2 DEF Hit, FloorHolds, ClearForgets, RestOK, RestType
  <2> QED BY <2>1, <2>3, <2>4
<1>3. ASSUME NEW c \in Chunks, Miss(r, c) \/ FetchFails(r, c)
      PROVE  CacheOK' /\ RestOK' /\ FloorHolds'
  <2>1. CacheOK'
    BY <1>3, CacheUnchanged DEF Miss, FetchFails
  <2>2. RestOK'
    <3>0. \E there \in {"missed", "failed"} : step' = [step EXCEPT ![r][c] = there]
      BY <1>3 DEF Miss, FetchFails
    <3>1. RestType'
      BY <1>3, <3>0 DEF Miss, FetchFails, Step, RestOK, RestType
    <3>2. FetchedHeld'
      BY <1>3, <3>0 DEF Miss, FetchFails, RestOK, RestType, FetchedHeld
    <3> QED BY <3>1, <3>2 DEF RestOK
  <2>3. FloorHolds'
    BY <1>3 DEF Miss, FetchFails, FloorHolds, ClearForgets, cacheVars
  <2> QED BY <2>1, <2>2, <2>3
<1>4. ASSUME NEW c \in Chunks, Fetch(r, c)
      PROVE  CacheOK' /\ RestOK' /\ FloorHolds'
  <2>1. CacheOK'
    BY <1>4, CacheUnchanged DEF Fetch
  <2>2. RestOK'
    <3>1. RestType'
      BY <1>4 DEF Fetch, Step, RestOK, RestType
    <3>2. FetchedHeld'
      BY <1>4, NoneAssumption DEF Fetch, Step, RestOK, RestType, FetchedHeld
    <3> QED BY <3>1, <3>2 DEF RestOK
  <2>3. FloorHolds'
    BY <1>4 DEF Fetch, FloorHolds, ClearForgets, RestOK, RestType, cacheVars
  <2> QED BY <2>1, <2>2, <2>3
<1>5. ASSUME NEW c \in Chunks, Fill(r, c)
      PROVE  CacheOK' /\ RestOK' /\ FloorHolds'
  <2>1. data[r][c] \in Nat /\ data[r][c] >= floor[c]
    BY <1>5 DEF Fill, FloorHolds, ClearForgets, RestOK, RestType, FetchedHeld
  <2>2. CacheOK' /\ \A k \in Chunks : copy'[k] = copy[k] \/ copy'[k] = None
                                          \/ (k = c /\ copy'[k] = data[r][c])
    BY <1>5, <2>1, InsertOK DEF Fill
  <2>3. RestType'
    BY <1>5 DEF Fill, RestOK, RestType, Step
  <2>4. FetchedHeld'
    BY <1>5 DEF Fill, RestOK, RestType, FetchedHeld
  <2>5. FloorHolds'
    BY <1>5, <2>1, <2>2 DEF Fill, FloorHolds, ClearForgets
  <2> QED BY <2>2, <2>3, <2>4, <2>5 DEF RestOK
<1>6. ASSUME Finish(r)
      PROVE  CacheOK' /\ RestOK' /\ FloorHolds'
  <2>1. CacheOK'
    BY <1>6, CacheUnchanged DEF Finish
  <2>2. RestOK'
    <3>1. RestType'
      BY <1>6 DEF Finish, Step, Nothing, RestOK, RestType
    <3>2. FetchedHeld'
      BY <1>6, NoneAssumption DEF Finish, Step, Nothing, RestOK, RestType, FetchedHeld
    <3> QED BY <3>1, <3>2 DEF RestOK
  <2>3. FloorHolds'
    BY <1>6 DEF Finish, FloorHolds, ClearForgets, RestOK, RestType, Nothing, cacheVars
  <2> QED BY <2>1, <2>2, <2>3
<1> QED BY <1>1, <1>2, <1>3, <1>4, <1>5, <1>6

\* So does every step of the store and every clear.
LEMMA StoreStep ==
  ASSUME CacheOK, RestOK, FloorHolds,
         \/ Clear
         \/ \E p \in Paths : \/ BeginUpload(p) \/ UploadFails(p)
                             \/ \E c \in Chunks : UploadObject(p, c)
  PROVE  CacheOK' /\ RestOK' /\ FloorHolds'
<1> USE DEF storeVars, readVars
<1>1. ASSUME Clear
      PROVE  CacheOK' /\ RestOK' /\ FloorHolds'
  <2>1. CacheOK'
    BY <1>1, ClearOK DEF Clear
  <2>2. ASSUME NEW c \in Chunks
        PROVE  /\ OldestHeld(c) \in Nat /\ OldestHeld(c) <= stored[c]
               /\ \A r \in Readers : data[r][c] # None => OldestHeld(c) <= data[r][c]
    <3> DEFINE S == {stored[c]} \cup ({data[r][c] : r \in Readers} \ {None})
    <3>1. S \in SUBSET Nat /\ S # {}
      BY DEF RestOK, RestType
    <3>2. Min(S) \in S /\ \A y \in S : Min(S) <= y
      BY <3>1, LeastNatural, Zenon
    <3>3. OldestHeld(c) = Min(S)
      BY DEF OldestHeld
    <3>4. stored[c] \in S /\ \A r \in Readers : data[r][c] # None => data[r][c] \in S
      OBVIOUS
    <3> QED BY <3>1, <3>2, <3>3, <3>4
  <2>3. RestOK'
    BY <1>1, <2>2 DEF Clear, RestOK, RestType, FetchedHeld
  <2>4. FloorHolds'
    BY <1>1, <2>2 DEF Clear, FloorHolds, ClearForgets, Nothing
  <2> QED BY <2>1, <2>3, <2>4
<1>2. ASSUME NEW p \in Paths, BeginUpload(p) \/ UploadFails(p)
      PROVE  CacheOK' /\ RestOK' /\ FloorHolds'
  <2>1. CacheOK'
    BY <1>2, CacheUnchanged DEF BeginUpload, UploadFails
  <2>2. RestOK'
    BY <1>2 DEF BeginUpload, UploadFails, RestOK, RestType, FetchedHeld
  <2>3. FloorHolds'
    BY <1>2 DEF BeginUpload, UploadFails, FloorHolds, ClearForgets, cacheVars
  <2> QED BY <2>1, <2>2, <2>3
<1>3. ASSUME NEW p \in Paths, NEW c \in Chunks, UploadObject(p, c)
      PROVE  CacheOK' /\ RestOK' /\ FloorHolds'
  <2>1. CacheOK'
    BY <1>3, CacheUnchanged DEF UploadObject
  <2>2. RestOK'
    BY <1>3 DEF UploadObject, RestOK, RestType, FetchedHeld
  <2>3. FloorHolds'
    BY <1>3 DEF UploadObject, FloorHolds, ClearForgets, cacheVars, RestOK, RestType
  <2> QED BY <2>1, <2>2, <2>3
<1> QED BY <1>1, <1>2, <1>3

\* Steps that change nothing keep the invariant.
LEMMA StutterStep ==
  ASSUME CacheOK, RestOK, FloorHolds, UNCHANGED vars
  PROVE  CacheOK' /\ RestOK' /\ FloorHolds'
<1>1. CacheOK'
  BY CacheUnchanged DEF vars, cacheVars
<1> QED BY <1>1 DEF vars, RestOK, RestType, FetchedHeld, FloorHolds, ClearForgets

\* ChunkInv is an inductive invariant.
THEOREM ChunkInvHolds == Spec => []ChunkInv
<1>1. Init => ChunkInv
  BY InvInit
<1>2. ChunkInv /\ [Next]_vars => ChunkInv'
  <2> SUFFICES ASSUME ChunkInv, [Next]_vars PROVE ChunkInv'
    OBVIOUS
  <2>1. CacheOK /\ RestOK /\ FloorHolds
    BY InvParts
  <2>2. CASE Next
    <3>1. \/ \E r \in Readers :
               \/ \E wanted \in SUBSET Chunks : BeginRegion(r, wanted)
               \/ \E c \in Chunks : Hit(r, c) \/ Miss(r, c) \/ Fetch(r, c)
                                      \/ FetchFails(r, c) \/ Fill(r, c)
               \/ Finish(r)
          \/ \/ Clear
             \/ \E p \in Paths : \/ BeginUpload(p) \/ UploadFails(p)
                                 \/ \E c \in Chunks : UploadObject(p, c)
      BY <2>2, Zenon DEF Next, RelievePressure
    <3>2. CacheOK' /\ RestOK' /\ FloorHolds'
      BY <2>1, <3>1, ReaderStep, StoreStep, Zenon
    <3> QED BY <3>2, InvParts, PTL
  <2>3. CASE UNCHANGED vars
    <3>1. CacheOK' /\ RestOK' /\ FloorHolds'
      BY <2>1, <2>3, StutterStep, Zenon
    <3> QED BY <3>1, InvParts, PTL
  <2> QED BY <2>2, <2>3
<1> QED BY <1>1, <1>2, PTL DEF Spec

\* The variables have their types, and the list of recently used keys is that
\* of the cached ones, each once (chunk_cache.rs, zarr.rs).
THEOREM TypesCorrect == Spec => []TypeOK
<1>1. ChunkInv => TypeOK
  BY DEF ChunkInv
<1> QED BY <1>1, ChunkInvHolds, PTL

\* What ChunkCache::insert puts in memory never exceeds the limit, and the
\* counter it decides by is never below the content and never off by more
\* than the limit, for any chunks, sizes, limit, capacity and readers.
THEOREM MemoryStaysBounded == Spec => []MemoryBounded
<1>1. ChunkInv => MemoryBounded
  BY DEF ChunkInv
<1> QED BY <1>1, ChunkInvHolds, PTL

\* After clear_chunk_cache nothing older than the store, and than what readers
\* held at that moment, is ever served or cached again.
THEOREM ClearIsFinal == Spec => []ClearForgets
<1>1. ChunkInv => ClearForgets
  BY DEF ChunkInv, FloorHolds
<1> QED BY <1>1, ChunkInvHolds, PTL

=============================================================================
