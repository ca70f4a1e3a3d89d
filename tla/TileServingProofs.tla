-------------------------- MODULE TileServingProofs --------------------------
(***************************************************************************)
(* Proofs about TileServing: L1 stays within its limit and counts what it   *)
(* holds, and no answer is older than the horizon, for any tiles, sizes,    *)
(* lifetimes, delays, requests and helpers.                                 *)
(***************************************************************************)
EXTENDS TileServing, LruCacheProofs

USE DEF Tiles

-----------------------------------------------------------------------------
(* L1 *)

\* The variables of L1 agree with each other and with the limit.
L1OK ==
    /\ l1 \in [Tiles -> Entry \cup {None}]
    /\ bytes \in Nat
    /\ Listed(recent, InL1)
    /\ L1Bounded

\* Nothing in L1 has been drawn longer ago than its place there explains.
L1Ages ==
    \A t \in Tiles : l1[t] # None =>
        l1[t].drawn <= l1[t].put + TtlL2 - 1 + 3 * MaxDelay

\* L1 is as it was if its variables are.
LEMMA L1Unchanged ==
  ASSUME L1OK, L1Ages, UNCHANGED l1Vars
  PROVE  L1OK' /\ L1Ages'
<1>1. InL1' = InL1 /\ l1' = l1 /\ bytes' = bytes /\ recent' = recent
  BY DEF l1Vars, InL1
<1> QED BY <1>1 DEF L1OK, L1Ages, Listed, L1Bounded, Bytes

\* A set of keys of L1 is a set of keys.
LEMMA InL1Type == InL1 \in SUBSET Keys
  BY DEF InL1

\* What a run of evictions frees: enough, or all there is.
LEMMA PopsEnough ==
  ASSUME L1OK, NEW t \in Tiles
  PROVE  /\ Pops(t) \in 0..Len(recent)
         /\ \/ Pops(t) = 0 /\ bytes + Size[t] <= MaxBytes
            \/ Pops(t) = Len(recent)
            \/ Bytes(Oldest(Pops(t))) >= Batch
<1> DEFINE N == {n \in 0..Len(recent) : n = Len(recent) \/ Bytes(Oldest(n)) >= Batch}
<1>1. Len(recent) \in Nat
  BY DEF L1OK, Listed
<1>2. N \in SUBSET Nat /\ Len(recent) \in N
  BY <1>1
<1>3. Min(N) \in N
  BY <1>2, LeastNatural, Zenon
<1>4. CASE bytes + Size[t] <= MaxBytes
  BY <1>1, <1>4 DEF Pops
<1>5. CASE ~(bytes + Size[t] <= MaxBytes)
  <2>1. Pops(t) = Min(N)
    BY <1>5 DEF Pops
  <2> QED BY <1>3, <2>1
<1> QED BY <1>4, <1>5

\* The oldest keys are in L1.
LEMMA OldestIn ==
  ASSUME L1OK, NEW n \in 0..Len(recent)
  PROVE  /\ Listed(SubSeq(recent, n + 1, Len(recent)), InL1 \ Oldest(n))
         /\ Oldest(n) \in SUBSET InL1
         /\ n = Len(recent) => Oldest(n) = InL1
  BY ListedPopped DEF L1OK, Oldest, First

\* Dropping some of the keys of L1, from the map, the list and the counter.
LEMMA DropOK ==
  ASSUME L1OK, L1Ages, NEW D \in SUBSET InL1,
         l1' = [k \in Tiles |-> IF k \in D THEN None ELSE l1[k]],
         Listed(recent', InL1 \ D), bytes' = bytes - Bytes(D)
  PROVE  L1OK' /\ L1Ages'
<1>1. l1 \in [Tiles -> Entry \cup {None}]
  BY DEF L1OK
<1>2. InL1' = InL1 \ D
  BY <1>1 DEF InL1
<1>3. /\ Bytes(InL1 \ D) = Bytes(InL1) - Bytes(D) /\ Bytes(D) <= Bytes(InL1)
      /\ Bytes(InL1 \ D) \in Nat /\ Bytes(D) \in Nat /\ Bytes(InL1) \in Nat
  BY BytesMinus, BytesType, InL1Type
<1>4. bytes = Bytes(InL1) /\ bytes <= MaxBytes /\ MaxBytes \in Nat
  BY LimitAssumption DEF L1OK, L1Bounded
<1>5. bytes' \in Nat /\ bytes' = Bytes(InL1 \ D) /\ bytes' <= MaxBytes
  BY <1>3, <1>4
<1>6. l1' \in [Tiles -> Entry \cup {None}]
  BY <1>1
<1>7. L1Ages'
  BY <1>1 DEF L1Ages
<1>8. L1Bounded'
  BY <1>2, <1>5 DEF L1Bounded, Bytes
<1>9. Listed(recent, InL1)'
  BY <1>2 DEF Listed
<1> QED BY <1>5, <1>6, <1>7, <1>8, <1>9 DEF L1OK

\* get drops at most the one expired entry, or moves the key it finds.
LEMMA GetOK ==
  ASSUME L1OK, L1Ages, NEW t \in Tiles, GetMisses(t) \/ (Valid(t) /\ GetHits(t))
  PROVE  L1OK' /\ L1Ages'
<1>1. CASE GetMisses(t) /\ l1[t] = None
  BY <1>1, L1Unchanged DEF GetMisses
<1>2. CASE GetMisses(t) /\ l1[t] # None
  <2>1. {t} \in SUBSET InL1 /\ l1 \in [Tiles -> Entry \cup {None}]
    BY <1>2 DEF InL1, L1OK
  <2>2. l1' = [k \in Tiles |-> IF k \in {t} THEN None ELSE l1[k]]
    BY <1>2, <2>1 DEF GetMisses
  <2>3. Listed(recent', InL1 \ {t})
    <3>1. recent' = Without(recent, t)
      BY <1>2 DEF GetMisses
    <3> QED BY <3>1, ListedWithout, Zenon DEF L1OK
  <2>4. bytes' = bytes - Bytes({t})
    <3>1. bytes' = bytes - Size[t]
      BY <1>2 DEF GetMisses
    <3> QED BY <3>1, BytesOne, Zenon
  <2> QED BY <2>1, <2>2, <2>3, <2>4, DropOK, Zenon
<1>3. CASE Valid(t) /\ GetHits(t)
  <2>1. t \in InL1 /\ l1' = l1 /\ bytes' = bytes
    BY <1>3 DEF Valid, GetHits, InL1
  <2>2. Listed(Without(recent, t), InL1 \ {t})
    BY ListedWithout, Zenon DEF L1OK
  <2>3. Listed(Append(Without(recent, t), t), (InL1 \ {t}) \cup {t})
    BY <2>2, ListedAppend, Zenon
  <2>4. (InL1 \ {t}) \cup {t} = InL1 /\ InL1' = InL1
    BY <2>1 DEF InL1
  <2>5. Listed(recent, InL1)'
    BY <1>3, <2>3, <2>4, Zenon DEF GetHits, Used, Listed
  <2> QED BY <2>1, <2>4, <2>5 DEF L1OK, L1Bounded, L1Ages, Bytes
<1> QED BY <1>1, <1>2, <1>3

\* set: what it evicts and replaces is taken off, and the new tile fits.
LEMMA SetOK ==
  ASSUME L1OK, L1Ages, NEW t \in Tiles, NEW from \in Nat, Set(t, from),
         from <= TtlL2 - 1 + 3 * MaxDelay
  PROVE  L1OK' /\ L1Ages'
<1> DEFINE n == Pops(t)
           D == Oldest(n)
           R == (InL1 \ D) \ {t}
           new == [drawn |-> from, put |-> 0]
<1>1. /\ n \in 0..Len(recent)
      /\ \/ n = 0 /\ bytes + Size[t] <= MaxBytes
         \/ n = Len(recent)
         \/ Bytes(D) >= Batch
  BY PopsEnough
<1>2. /\ Listed(SubSeq(recent, n + 1, Len(recent)), InL1 \ D)
      /\ D \in SUBSET InL1
      /\ n = Len(recent) => D = InL1
  BY <1>1, OldestIn, Zenon
<1>3. /\ l1' = [k \in Tiles |-> IF k = t THEN new ELSE IF k \in D THEN None ELSE l1[k]]
      /\ recent' = Used(SubSeq(recent, n + 1, Len(recent)), t)
      /\ bytes' = bytes - Bytes(D \cup (InL1 \cap {t})) + Size[t]
  BY Zenon DEF Set
<1> HIDE DEF n, D
<1>4. new \in Entry /\ new # None /\ l1 \in [Tiles -> Entry \cup {None}]
  BY EntryAssumption DEF L1OK, Entry
<1>5. InL1' = R \cup {t}
  <2>1. \A k \in Tiles : l1'[k] # None <=> k = t \/ (k \in InL1 /\ k \notin D)
    BY <1>3, <1>4 DEF InL1
  <2> QED BY <2>1 DEF InL1
<1>6. Listed(recent, InL1)'
  <2>1. Listed(Without(SubSeq(recent, n + 1, Len(recent)), t), R)
    BY <1>2, ListedWithout, Zenon
  <2>2. Listed(recent', R \cup {t})
    BY <1>3, <2>1, ListedAppend, Zenon DEF Used
  <2> QED BY <1>5, <2>2 DEF Listed
<1>7. /\ bytes = Bytes(InL1) /\ bytes <= MaxBytes /\ MaxBytes \in Nat /\ Batch \in Nat
      /\ Size[t] \in Nat /\ Size[t] <= Batch /\ Batch <= MaxBytes
  BY LimitAssumption, KeysAssumption DEF L1OK, L1Bounded
<1>8. /\ D \cup (InL1 \cap {t}) \in SUBSET InL1
      /\ InL1 \ (D \cup (InL1 \cap {t})) = R
      /\ D \in SUBSET (D \cup (InL1 \cap {t}))
  BY <1>2
<1>9. /\ Bytes(R) = bytes - Bytes(D \cup (InL1 \cap {t}))
      /\ Bytes(D) <= Bytes(D \cup (InL1 \cap {t}))
      /\ Bytes(R) \in Nat /\ Bytes(D) \in Nat /\ Bytes(D \cup (InL1 \cap {t})) \in Nat
  <2>1. Bytes(R) = Bytes(InL1) - Bytes(D \cup (InL1 \cap {t}))
    BY <1>8, InL1Type, BytesMinus, Zenon
  <2>2. D \cup (InL1 \cap {t}) \in SUBSET Keys /\ R \in SUBSET Keys /\ D \in SUBSET Keys
    BY <1>2, InL1Type
  <2>3. Bytes(D) <= Bytes(D \cup (InL1 \cap {t}))
    BY <1>8, <2>2, BytesMinus, Zenon
  <2> QED BY <1>7, <2>1, <2>2, <2>3, BytesType
<1>10. Bytes(R \cup {t}) = Bytes(R) + Size[t]
  <2>1. R \in SUBSET Keys /\ {t} \in SUBSET Keys /\ R \cap {t} = {}
    BY InL1Type
  <2>2. Bytes(R \cup {t}) = Bytes(R) + Bytes({t})
    BY <2>1, BytesAdd, Zenon
  <2> QED BY <2>2, BytesOne, Zenon
<1>11. bytes' = Bytes(R \cup {t}) /\ bytes' \in Nat
  BY <1>3, <1>7, <1>9, <1>10
<1>12. Bytes(R) + Size[t] <= MaxBytes
  <2> DEFINE X == Bytes(D \cup (InL1 \cap {t}))
             B == Bytes(R)
             E == Bytes(D)
  <2>0. B = bytes - X /\ E <= X /\ B \in Nat /\ E \in Nat /\ X \in Nat /\ bytes \in Nat
    BY <1>9 DEF L1OK
  <2>1. CASE bytes + Size[t] <= MaxBytes
    <3> HIDE DEF X, B
    <3>1. B + Size[t] <= MaxBytes
      BY <1>7, <2>0, <2>1
    <3> QED BY <3>1 DEF B
  <2>2. CASE n = Len(recent)
    <3>1. R = {}
      BY <1>2, <2>2
    <3> QED BY <1>7, <3>1, BytesNone
  <2>3. CASE Bytes(D) >= Batch
    <3>1. E >= Batch
      BY <2>3
    <3> HIDE DEF X, B, E
    <3>2. B + Size[t] <= MaxBytes
      BY <1>7, <2>0, <3>1
    <3> QED BY <3>2 DEF B
  <2> QED BY <1>1, <2>1, <2>2, <2>3
<1>13. L1Bounded'
  BY <1>5, <1>7, <1>9, <1>10, <1>11, <1>12 DEF L1Bounded, Bytes
<1>14. l1' \in [Tiles -> Entry \cup {None}]
  BY <1>3, <1>4
<1>15. L1Ages'
  <2> SUFFICES ASSUME NEW k \in Tiles, l1'[k] # None
               PROVE  l1'[k].drawn <= l1'[k].put + TtlL2 - 1 + 3 * MaxDelay
    BY DEF L1Ages
  <2>1. CASE k = t
    <3>1. l1'[k].drawn = from /\ l1'[k].put = 0
      BY <1>3, <2>1
    <3>2. TtlL2 \in Nat /\ MaxDelay \in Nat
      BY TimeAssumption
    <3> QED BY <3>1, <3>2
  <2>2. CASE k # t
    <3>1. l1'[k] = l1[k] /\ l1[k] # None
      BY <1>3, <2>2
    <3> QED BY <3>1 DEF L1Ages
  <2> QED BY <2>1, <2>2
<1> QED BY <1>6, <1>11, <1>13, <1>14, <1>15 DEF L1OK

\* evict_percentage drops the oldest, clear everything.
LEMMA EvictOK ==
  ASSUME L1OK, L1Ages, RelievePressure \/ Clear
  PROVE  L1OK' /\ L1Ages'
<1>1. CASE RelievePressure
  <2>1. PICK n \in 1..((Len(recent) * EvictTenths) \div 10) :
            /\ l1' = [k \in Tiles |-> IF k \in Oldest(n) THEN None ELSE l1[k]]
            /\ recent' = SubSeq(recent, n + 1, Len(recent))
            /\ bytes' = bytes - Bytes(Oldest(n))
    BY <1>1 DEF RelievePressure
  <2>2. Len(recent) \in Nat /\ EvictTenths \in 0..10
    BY LimitAssumption DEF L1OK, Listed
  <2>3. (Len(recent) * EvictTenths) \div 10 <= Len(recent)
    <3>1. \A a \in Nat : \A b \in 0..10 : (a * b) \div 10 <= a
      BY Z3
    <3> QED BY <2>2, <3>1
  <2>4. n \in 0..Len(recent)
    BY <2>2, <2>3, n \in 1..((Len(recent) * EvictTenths) \div 10)
  <2>5. /\ Listed(recent', InL1 \ Oldest(n)) /\ Oldest(n) \in SUBSET InL1
    BY <2>1, <2>4, OldestIn, Zenon
  <2> QED BY <2>1, <2>5, DropOK, Zenon
<1>2. CASE Clear
  <2>1. InL1' = {}
    BY <1>2 DEF Clear, InL1
  <2>2. Listed(recent, InL1)'
    BY <1>2, <2>1 DEF Clear, Listed, ToSet, IsInjective
  <2>3. L1Bounded'
    BY <1>2, <2>1, BytesNone, LimitAssumption DEF Clear, L1Bounded, Bytes
  <2>4. L1Ages' /\ l1' \in [Tiles -> Entry \cup {None}] /\ bytes' \in Nat
    BY <1>2 DEF Clear, L1Ages
  <2> QED BY <2>2, <2>3, <2>4 DEF L1OK
<1> QED BY <1>1, <1>2

-----------------------------------------------------------------------------
(* Tasks and L2 *)

TaskType ==
    /\ mutex \in Tasks \cup {None}
    /\ pc \in [Tasks -> Steps]
    /\ tile \in [Tasks -> Tiles \cup {None}]
    /\ age \in [Tasks -> Nat]
    /\ drawn \in [Tasks -> Nat]
    /\ l2 \in [Tiles -> Entry \cup {None}]
    /\ \A k \in Tasks : pc[k] # "idle" => tile[k] \in Tiles

\* How old an image can be at each place on its way, beyond the age of the
\* task or the entry that holds it: it was drawn by a task, stored by a second
\* one, found in L2 by a third.
TaskAges(k) ==
    /\ pc[k] # "idle" => age[k] <= MaxDelay
    /\ pc[k] \in {"render", "draw"} => drawn[k] <= age[k]
    /\ pc[k] = "store" => drawn[k] <= age[k] + MaxDelay
    /\ pc[k] = "promote" => drawn[k] <= age[k] + TtlL2 - 1 + 2 * MaxDelay
    /\ pc[k] = "answer" => drawn[k] <= age[k] + TtlL1 + TtlL2 - 1 + 3 * MaxDelay

L2Ages ==
    \A t \in Tiles : l2[t] # None =>
        l2[t].put < TtlL2 /\ l2[t].drawn <= l2[t].put + 2 * MaxDelay

RestOK == TaskType /\ L2Ages /\ \A k \in Tasks : TaskAges(k)

TileInv == L1OK /\ L1Ages /\ RestOK

\* A task that goes on to another step, or ends, with an image of fitting age.
LEMMA TaskMoves ==
  ASSUME RestOK, NEW k \in Tasks, UNCHANGED l2, mutex' \in Tasks \cup {None},
         NEW step \in Steps, NEW t \in Tiles \cup {None}, NEW a \in Nat, NEW d \in Nat,
         step # "idle" => t \in Tiles,
         pc' = [pc EXCEPT ![k] = step], tile' = [tile EXCEPT ![k] = t],
         age' = [age EXCEPT ![k] = a], drawn' = [drawn EXCEPT ![k] = d],
         TaskAges(k)'
  PROVE  RestOK'
<1>1. TaskType'
  BY DEF RestOK, TaskType
<1>2. L2Ages'
  BY DEF RestOK, L2Ages
<1>3. ASSUME NEW j \in Tasks PROVE TaskAges(j)'
  <2>1. CASE j = k
    BY <2>1
  <2>2. CASE j # k
    BY <2>2 DEF RestOK, TaskType, TaskAges
  <2> QED BY <2>1, <2>2
<1> QED BY <1>1, <1>2, <1>3 DEF RestOK

\* The constants are naturals, and every step of a task is one.
LEMMA Times == TtlL1 \in Nat /\ TtlL2 \in Nat /\ TtlL2 >= 1 /\ MaxDelay \in Nat
  BY TimeAssumption

\* A task that ends holds nothing.
LEMMA EndOK ==
  ASSUME RestOK, NEW k \in Tasks, End(k), UNCHANGED <<l2, mutex>>
  PROVE  RestOK'
<1>1. /\ pc' = [pc EXCEPT ![k] = "idle"] /\ tile' = [tile EXCEPT ![k] = None]
      /\ age' = [age EXCEPT ![k] = 0] /\ drawn' = [drawn EXCEPT ![k] = 0]
  BY DEF End
<1>2. TaskAges(k)'
  BY <1>1 DEF TaskAges, RestOK, TaskType
<1>3. mutex' \in Tasks \cup {None}
  BY DEF RestOK, TaskType
<1> QED BY <1>1, <1>2, <1>3, TaskMoves, "idle" \in Steps DEF Steps

\* A task that goes on with an image of the age that the next step allows.
LEMMA HoldOK ==
  ASSUME RestOK, NEW k \in Tasks, NEW step \in Steps, NEW d \in Nat, Hold(k, step, d),
         pc[k] # "idle", UNCHANGED l2, mutex' \in Tasks \cup {None}, TaskAges(k)'
  PROVE  RestOK'
<1>1. /\ pc' = [pc EXCEPT ![k] = step] /\ tile' = [tile EXCEPT ![k] = tile[k]]
      /\ age' = [age EXCEPT ![k] = age[k]] /\ drawn' = [drawn EXCEPT ![k] = d]
  BY DEF Hold, RestOK, TaskType
<1>2. tile[k] \in Tiles /\ age[k] \in Nat
  BY DEF RestOK, TaskType
<1> QED BY <1>1, <1>2, TaskMoves

\* A request begins with nothing, or with what L1 had for it.
LEMMA BeginOK ==
  ASSUME RestOK, NEW k \in Tasks, NEW t \in Tiles, NEW step \in {"l2", "answer"},
         NEW d \in Nat, Begin(k, t, step, d), UNCHANGED <<l2, mutex>>,
         step = "answer" => d <= TtlL1 + TtlL2 - 1 + 3 * MaxDelay
  PROVE  RestOK'
<1>1. /\ pc' = [pc EXCEPT ![k] = step] /\ tile' = [tile EXCEPT ![k] = t]
      /\ age' = [age EXCEPT ![k] = 0] /\ drawn' = [drawn EXCEPT ![k] = d]
  BY DEF Begin
<1>2. pc'[k] = step /\ age'[k] = 0 /\ drawn'[k] = d
  BY <1>1 DEF RestOK, TaskType
<1>3. TaskAges(k)'
  BY <1>2, Times DEF TaskAges
<1>4. mutex' \in Tasks \cup {None} /\ step \in Steps
  BY DEF RestOK, TaskType, Steps
<1> QED BY <1>1, <1>3, <1>4, TaskMoves

\* The steps of a request up to the drawing of its tile.
LEMMA RequestSteps ==
  ASSUME TileInv, NEW r \in Requests,
         \/ \E t \in Tiles : GetTileHit(r, t) \/ GetTileMiss(r, t)
         \/ FoundInL2(r) \/ Promote(r) \/ NotInL2(r) \/ Check(r) \/ Fail(r) \/ Answer(r)
  PROVE  TileInv'
<1>0. r \in Tasks /\ L1OK /\ L1Ages /\ RestOK /\ TaskAges(r)
  BY DEF Tasks, TileInv, RestOK
<1>1. ASSUME NEW t \in Tiles, GetTileHit(r, t) PROVE TileInv'
  <2>1. L1OK' /\ L1Ages'
    BY <1>0, <1>1, GetOK DEF GetTileHit
  <2>2. l1[t] \in Entry /\ l1[t].put <= TtlL1 /\ l1[t].drawn <= l1[t].put + TtlL2 - 1 + 3 * MaxDelay
    BY <1>0, <1>1, Times DEF GetTileHit, Valid, Expired, L1OK, L1Ages, Entry
  <2>3. l1[t].drawn \in Nat /\ l1[t].drawn <= TtlL1 + TtlL2 - 1 + 3 * MaxDelay
    BY <2>2, Times DEF Entry
  <2>4. RestOK'
    BY <1>0, <1>1, <2>3, BeginOK DEF GetTileHit
  <2> QED BY <2>1, <2>4 DEF TileInv
<1>2. ASSUME NEW t \in Tiles, GetTileMiss(r, t) PROVE TileInv'
  <2>1. L1OK' /\ L1Ages'
    BY <1>0, <1>2, GetOK DEF GetTileMiss
  <2>2. RestOK'
    BY <1>0, <1>2, BeginOK DEF GetTileMiss
  <2> QED BY <2>1, <2>2 DEF TileInv
<1>3. ASSUME FoundInL2(r) PROVE TileInv'
  <2>1. L1OK' /\ L1Ages'
    BY <1>0, <1>3, L1Unchanged DEF FoundInL2
  <2>2. tile[r] \in Tiles /\ pc[r] = "l2" /\ age[r] \in Nat /\ age[r] <= MaxDelay
    BY <1>0, <1>3 DEF FoundInL2, RestOK, TaskType, TaskAges
  <2>3. /\ l2[tile[r]] \in Entry /\ l2[tile[r]].put < TtlL2
        /\ l2[tile[r]].drawn <= l2[tile[r]].put + 2 * MaxDelay
    BY <1>0, <1>3, <2>2 DEF FoundInL2, RestOK, TaskType, L2Ages
  <2>4. l2[tile[r]].drawn \in Nat /\ l2[tile[r]].drawn <= age[r] + TtlL2 - 1 + 2 * MaxDelay
    BY <2>2, <2>3, Times DEF Entry
  <2>5. pc'[r] = "promote" /\ age'[r] = age[r] /\ drawn'[r] = l2[tile[r]].drawn
    BY <1>0, <1>3 DEF FoundInL2, Hold, RestOK, TaskType
  <2>6. TaskAges(r)'
    BY <2>2, <2>4, <2>5 DEF TaskAges
  <2>7. RestOK'
    BY <1>0, <1>3, <2>2, <2>4, <2>6, HoldOK, "promote" \in Steps DEF FoundInL2, Steps
  <2> QED BY <2>1, <2>7 DEF TileInv
<1>4. ASSUME Promote(r) PROVE TileInv'
  <2>1. /\ tile[r] \in Tiles /\ pc[r] = "promote" /\ age[r] \in Nat /\ age[r] <= MaxDelay
        /\ drawn[r] \in Nat /\ drawn[r] <= age[r] + TtlL2 - 1 + 2 * MaxDelay
    BY <1>0, <1>4 DEF Promote, RestOK, TaskType, TaskAges
  <2>2. drawn[r] <= TtlL2 - 1 + 3 * MaxDelay
    BY <2>1, Times
  <2>3. L1OK' /\ L1Ages'
    BY <1>0, <1>4, <2>1, <2>2, SetOK DEF Promote
  <2>4. Hold(r, "answer", drawn[r])
    BY <1>0, <1>4 DEF Promote, Goto, Hold, RestOK, TaskType
  <2>5. pc'[r] = "answer" /\ age'[r] = age[r] /\ drawn'[r] = drawn[r]
    BY <1>0, <1>4 DEF Promote, Goto, RestOK, TaskType
  <2>6. TaskAges(r)'
    BY <2>1, <2>5, Times DEF TaskAges
  <2>7. RestOK'
    BY <1>0, <1>4, <2>1, <2>4, <2>6, HoldOK, "answer" \in Steps DEF Promote, Steps
  <2> QED BY <2>3, <2>7 DEF TileInv
<1>5. ASSUME NotInL2(r) PROVE TileInv'
  <2>1. L1OK' /\ L1Ages'
    BY <1>0, <1>5, L1Unchanged DEF NotInL2
  <2>2. Hold(r, "check", drawn[r]) /\ drawn[r] \in Nat /\ pc[r] = "l2" /\ mutex \in Tasks \cup {None}
    BY <1>0, <1>5 DEF NotInL2, Goto, Hold, RestOK, TaskType
  <2>3. pc'[r] = "check" /\ age'[r] = age[r]
    BY <1>0, <1>5 DEF NotInL2, Goto, RestOK, TaskType
  <2>4. TaskAges(r)'
    BY <1>0, <2>2, <2>3 DEF TaskAges
  <2>5. RestOK'
    BY <1>0, <1>5, <2>2, <2>4, HoldOK, "check" \in Steps DEF NotInL2, Steps
  <2> QED BY <2>1, <2>5 DEF TileInv
<1>6. ASSUME Check(r) PROVE TileInv'
  <2>1. L1OK' /\ L1Ages'
    BY <1>0, <1>6, L1Unchanged DEF Check
  <2>2. Hold(r, "render", 0) /\ pc[r] = "check" /\ mutex \in Tasks \cup {None} /\ age[r] \in Nat
    BY <1>0, <1>6 DEF Check, RestOK, TaskType
  <2>3. pc'[r] = "render" /\ age'[r] = age[r] /\ drawn'[r] = 0
    BY <1>0, <1>6 DEF Check, Hold, RestOK, TaskType
  <2>4. TaskAges(r)'
    BY <1>0, <2>2, <2>3 DEF TaskAges
  <2>5. RestOK'
    BY <1>0, <1>6, <2>2, <2>4, HoldOK, "render" \in Steps DEF Check, Steps
  <2> QED BY <2>1, <2>5 DEF TileInv
<1>7. ASSUME Fail(r) \/ Answer(r) PROVE TileInv'
  <2>1. L1OK' /\ L1Ages'
    BY <1>0, <1>7, L1Unchanged DEF Fail, Answer
  <2>2. RestOK'
    BY <1>0, <1>7, EndOK DEF Fail, Answer
  <2> QED BY <2>1, <2>2 DEF TileInv
<1> QED BY <1>1, <1>2, <1>3, <1>4, <1>5, <1>6, <1>7

\* A tile that is drawn is put into L1, and helpers set out for L2.
LEMMA RenderStep ==
  ASSUME TileInv, NEW r \in Requests, NEW storer \in Idle,
         NEW S \in SUBSET (Idle \ {storer}), NEW ahead \in [S -> Tiles],
         Render(r, storer, ahead)
  PROVE  TileInv'
<1>1. /\ r \in Tasks /\ storer \in Tasks /\ pc[r] = "render" /\ pc[storer] = "idle"
      /\ \A h \in S : h \in Tasks /\ pc[h] = "idle" /\ h # storer
      /\ DOMAIN ahead = S
  BY DEF Tasks, Idle, Render
<1>2. /\ L1OK /\ L1Ages /\ RestOK /\ TaskAges(r)
      /\ tile[r] \in Tiles /\ age[r] \in Nat /\ drawn[r] \in Nat
      /\ age[r] <= MaxDelay /\ drawn[r] <= age[r]
  BY <1>1 DEF TileInv, RestOK, TaskType, TaskAges
<1>3. L1OK' /\ L1Ages'
  <2>1. drawn[r] <= TtlL2 - 1 + 3 * MaxDelay
    BY <1>2, Times
  <2> QED BY <1>2, <2>1, SetOK DEF Render
<1>4. /\ \A k \in Tasks :
          /\ pc'[k] = IF k = r THEN "answer" ELSE IF k = storer THEN "store"
                      ELSE IF k \in S THEN "ahead" ELSE pc[k]
          /\ tile'[k] = IF k = storer THEN tile[r] ELSE IF k \in S THEN ahead[k] ELSE tile[k]
          /\ age'[k] = IF k \in {storer} \cup S THEN 0 ELSE age[k]
          /\ drawn'[k] = IF k = storer THEN drawn[r] ELSE drawn[k]
      /\ pc' \in [Tasks -> Steps] /\ tile' \in [Tasks -> Tiles \cup {None}]
      /\ age' \in [Tasks -> Nat] /\ drawn' \in [Tasks -> Nat]
  BY <1>1, <1>2 DEF Render, Spawn, RestOK, TaskType, Steps
<1>5. TaskType'
  <2>1. \A k \in Tasks : pc'[k] # "idle" => tile'[k] \in Tiles
    BY <1>1, <1>2, <1>4 DEF RestOK, TaskType
  <2> QED BY <1>2, <1>4, <2>1 DEF Render, RestOK, TaskType
<1>6. ASSUME NEW k \in Tasks PROVE TaskAges(k)'
  <2>0. age[k] \in Nat /\ drawn[k] \in Nat /\ TaskAges(k)
    BY <1>2 DEF RestOK, TaskType
  <2>1. CASE k = r
    <3>1. pc'[k] = "answer" /\ age'[k] = age[k] /\ drawn'[k] = drawn[k]
      BY <1>1, <1>4, <2>1
    <3> QED BY <1>2, <2>1, <3>1, Times DEF TaskAges
  <2>2. CASE k = storer
    <3>1. pc'[k] = "store" /\ age'[k] = 0 /\ drawn'[k] = drawn[r]
      BY <1>1, <1>4, <2>2
    <3> QED BY <1>2, <3>1, Times DEF TaskAges
  <2>3. CASE k \in S
    <3>1. pc'[k] = "ahead" /\ age'[k] = 0
      BY <1>1, <1>4, <2>3
    <3> QED BY <3>1, Times DEF TaskAges
  <2>4. CASE k \notin S /\ k # r /\ k # storer
    <3>1. pc'[k] = pc[k] /\ age'[k] = age[k] /\ drawn'[k] = drawn[k]
      BY <1>4, <2>4
    <3> QED BY <2>0, <3>1 DEF TaskAges
  <2> QED BY <2>1, <2>2, <2>3, <2>4
<1>7. L2Ages'
  BY <1>2 DEF Render, RestOK, L2Ages
<1> QED BY <1>3, <1>5, <1>6, <1>7 DEF TileInv, RestOK

\* The steps of a helper.
LEMMA HelperSteps ==
  ASSUME TileInv, NEW h \in Helpers, HelperStep(h)
  PROVE  TileInv'
<1>0. h \in Tasks /\ L1OK /\ L1Ages /\ RestOK /\ TaskAges(h)
  BY DEF Tasks, TileInv, RestOK
<1>1. L1OK' /\ L1Ages'
  BY <1>0, L1Unchanged DEF HelperStep, AheadFound, AheadMissing, AheadDrawn, AheadFails,
                           Store, StoreFails
<1>2. ASSUME AheadFound(h) \/ AheadFails(h) \/ StoreFails(h) PROVE RestOK'
  BY <1>0, <1>2, EndOK DEF AheadFound, AheadFails, StoreFails
<1>3. ASSUME AheadMissing(h) PROVE RestOK'
  <2>1. Hold(h, "draw", 0) /\ pc[h] = "ahead" /\ mutex \in Tasks \cup {None} /\ age[h] \in Nat
    BY <1>0, <1>3 DEF AheadMissing, RestOK, TaskType
  <2>2. pc'[h] = "draw" /\ age'[h] = age[h] /\ drawn'[h] = 0
    BY <1>0, <1>3 DEF AheadMissing, Hold, RestOK, TaskType
  <2>3. TaskAges(h)'
    BY <1>0, <2>1, <2>2 DEF TaskAges
  <2> QED BY <1>0, <1>3, <2>1, <2>3, HoldOK, "draw" \in Steps DEF AheadMissing, Steps
<1>4. ASSUME AheadDrawn(h) PROVE RestOK'
  <2>1. /\ Hold(h, "store", drawn[h]) /\ pc[h] = "draw" /\ mutex \in Tasks \cup {None}
        /\ age[h] \in Nat /\ drawn[h] \in Nat
    BY <1>0, <1>4 DEF AheadDrawn, Goto, Hold, RestOK, TaskType
  <2>2. pc'[h] = "store" /\ age'[h] = age[h] /\ drawn'[h] = drawn[h]
    BY <1>0, <1>4 DEF AheadDrawn, Goto, RestOK, TaskType
  <2>3. TaskAges(h)'
    BY <1>0, <2>1, <2>2, Times DEF TaskAges
  <2> QED BY <1>0, <1>4, <2>1, <2>3, HoldOK, "store" \in Steps DEF AheadDrawn, Steps
<1>5. ASSUME Store(h) PROVE RestOK'
  <2> DEFINE new == [drawn |-> drawn[h], put |-> 0]
  <2>1. /\ tile[h] \in Tiles /\ age[h] \in Nat /\ age[h] <= MaxDelay
        /\ drawn[h] \in Nat /\ drawn[h] <= age[h] + MaxDelay
    BY <1>0, <1>5 DEF Store, RestOK, TaskType, TaskAges
  <2>2. new \in Entry /\ new.put = 0 /\ new.drawn <= 2 * MaxDelay
    BY <2>1, Times DEF Entry
  <2>3. l2' = [l2 EXCEPT ![tile[h]] = new]
    BY <1>5 DEF Store
  <2>4. L2Ages'
    <3> SUFFICES ASSUME NEW t \in Tiles, l2'[t] # None
                 PROVE  l2'[t].put < TtlL2 /\ l2'[t].drawn <= l2'[t].put + 2 * MaxDelay
      BY DEF L2Ages
    <3>1. CASE t = tile[h]
      <4>1. l2'[t] = new
        BY <1>0, <2>3, <3>1 DEF RestOK, TaskType
      <4> QED BY <2>1, <2>2, <4>1, Times
    <3>2. CASE t # tile[h]
      BY <1>0, <2>3, <3>2 DEF RestOK, TaskType, L2Ages
    <3> QED BY <3>1, <3>2
  <2>5. TaskType' /\ \A k \in Tasks : TaskAges(k)'
    <3>1. /\ pc' = [pc EXCEPT ![h] = "idle"] /\ tile' = [tile EXCEPT ![h] = None]
          /\ age' = [age EXCEPT ![h] = 0] /\ drawn' = [drawn EXCEPT ![h] = 0]
      BY <1>5 DEF Store, End
    <3>2. TaskType'
      BY <1>0, <1>5, <2>2, <2>3, <3>1 DEF Store, RestOK, TaskType, Steps
    <3>3. \A k \in Tasks : TaskAges(k)'
      BY <1>0, <3>1 DEF RestOK, TaskType, TaskAges
    <3> QED BY <3>2, <3>3
  <2> QED BY <2>4, <2>5 DEF RestOK
<1>6. RestOK'
  BY <1>2, <1>3, <1>4, <1>5 DEF HelperStep
<1> QED BY <1>1, <1>6 DEF TileInv

\* Redis evicts, the pressure monitor evicts, an endpoint clears.
LEMMA EvictSteps ==
  ASSUME TileInv, (\E t \in Tiles : Evict(t)) \/ Clear \/ RelievePressure
  PROVE  TileInv'
<1>1. ASSUME NEW t \in Tiles, Evict(t) PROVE TileInv'
  <2>1. L1OK' /\ L1Ages'
    BY <1>1, L1Unchanged DEF Evict, TileInv
  <2>2. TaskType' /\ L2Ages'
    BY <1>1, EntryAssumption DEF Evict, TileInv, RestOK, TaskType, L2Ages, taskVars
  <2>3. \A k \in Tasks : TaskAges(k)'
    BY <1>1 DEF Evict, TileInv, RestOK, TaskAges, taskVars
  <2> QED BY <2>1, <2>2, <2>3 DEF TileInv, RestOK
<1>2. ASSUME Clear \/ RelievePressure PROVE TileInv'
  <2>1. L1OK' /\ L1Ages'
    BY <1>2, EvictOK DEF TileInv
  <2>2. UNCHANGED <<l2, mutex, pc, tile, age, drawn>>
    BY <1>2 DEF Clear, RelievePressure, taskVars
  <2>3. RestOK'
    BY <2>2 DEF TileInv, RestOK, TaskType, L2Ages, TaskAges
  <2> QED BY <2>1, <2>3 DEF TileInv
<1> QED BY <1>1, <1>2

\* A tick makes images and what holds them older alike.
LEMMA TickStep ==
  ASSUME TileInv, Tick
  PROVE  TileInv'
<1>1. L1OK /\ L1Ages /\ RestOK
  BY DEF TileInv
<1>2. ASSUME NEW t \in Tiles
      PROVE  /\ l1'[t] = IF l1[t] = None THEN None ELSE Older(l1[t])
             /\ l1[t] # None => Older(l1[t]) \in Entry
             /\ l1[t] # None => Older(l1[t]).drawn <= Older(l1[t]).put + TtlL2 - 1 + 3 * MaxDelay
  <2>1. l1'[t] = IF l1[t] = None THEN None ELSE Older(l1[t])
    BY DEF Tick
  <2>2. l1[t] # None => /\ l1[t] \in Entry
                        /\ l1[t].drawn <= l1[t].put + TtlL2 - 1 + 3 * MaxDelay
    BY <1>1 DEF L1OK, L1Ages
  <2>3. l1[t] # None /\ Expired(l1[t]) => Older(l1[t]) = l1[t]
    BY DEF Older
  <2>4. l1[t] # None /\ ~Expired(l1[t]) =>
            Older(l1[t]) = [drawn |-> l1[t].drawn + 1, put |-> l1[t].put + 1]
    BY DEF Older
  <2> QED BY <2>1, <2>2, <2>3, <2>4, Times DEF Entry
<1>3. l1' \in [Tiles -> Entry \cup {None}] /\ InL1' = InL1
  <2>1. l1' = [t \in Tiles |-> IF l1[t] = None THEN None ELSE Older(l1[t])]
    BY DEF Tick
  <2> QED BY <1>2, <2>1, EntryAssumption DEF InL1
<1>4. L1OK' /\ L1Ages'
  <2>1. L1Ages'
    BY <1>2, EntryAssumption DEF L1Ages
  <2> QED BY <1>1, <1>3, <2>1 DEF Tick, L1OK, Listed, L1Bounded, Bytes
<1>5. TaskType'
  <2>1. /\ age' \in [Tasks -> Nat] /\ drawn' \in [Tasks -> Nat] /\ pc' = pc
        /\ tile' = tile /\ mutex' = mutex
    BY <1>1 DEF Tick, RestOK, TaskType
  <2>2. l2' \in [Tiles -> Entry \cup {None}]
    BY <1>1 DEF Tick, RestOK, TaskType, Entry
  <2> QED BY <1>1, <2>1, <2>2 DEF RestOK, TaskType
<1>6. L2Ages'
  <2> SUFFICES ASSUME NEW t \in Tiles, l2'[t] # None
               PROVE  l2'[t].put < TtlL2 /\ l2'[t].drawn <= l2'[t].put + 2 * MaxDelay
    BY DEF L2Ages
  <2>1. /\ l2[t] # None /\ l2[t].put + 1 # TtlL2
        /\ l2'[t] = [drawn |-> l2[t].drawn + 1, put |-> l2[t].put + 1]
    BY DEF Tick
  <2>2. l2[t] \in Entry /\ l2[t].put < TtlL2 /\ l2[t].drawn <= l2[t].put + 2 * MaxDelay
    BY <1>1, <2>1 DEF RestOK, TaskType, L2Ages
  <2>3. l2'[t].put = l2[t].put + 1 /\ l2'[t].drawn = l2[t].drawn + 1
    BY <2>1
  <2> QED BY <2>1, <2>2, <2>3, Times DEF Entry
<1>7. ASSUME NEW k \in Tasks PROVE TaskAges(k)'
  <2>1. /\ TaskAges(k) /\ age[k] \in Nat /\ drawn[k] \in Nat /\ pc'[k] = pc[k]
        /\ pc[k] # "idle" => age[k] < MaxDelay
        /\ age'[k] = IF pc[k] = "idle" THEN 0 ELSE age[k] + 1
        /\ drawn'[k] = IF pc[k] \in {"idle", "l2", "check", "ahead"} THEN 0 ELSE drawn[k] + 1
    BY <1>1 DEF Tick, RestOK, TaskType
  <2> QED BY <2>1, Times DEF TaskAges
<1> QED BY <1>4, <1>5, <1>6, <1>7 DEF TileInv, RestOK

-----------------------------------------------------------------------------
(* The theorems *)

\* Initially both caches are empty and all tasks idle.
LEMMA InvInit == Init => TileInv
<1> SUFFICES ASSUME Init PROVE TileInv
  OBVIOUS
<1>1. InL1 = {} /\ recent = <<>> /\ bytes = 0
  BY DEF Init, InL1
<1>2. Listed(recent, InL1)
  BY <1>1 DEF Listed, ToSet, IsInjective
<1>3. L1OK /\ L1Ages
  BY <1>1, <1>2, BytesNone, LimitAssumption DEF Init, L1OK, L1Ages, L1Bounded
<1>4. RestOK
  BY DEF Init, RestOK, TaskType, L2Ages, TaskAges, Steps
<1> QED BY <1>3, <1>4 DEF TileInv

\* TileInv is an inductive invariant.
THEOREM TileInvHolds == Spec => []TileInv
<1>1. TileInv /\ [Next]_vars => TileInv'
  <2> SUFFICES ASSUME TileInv, [Next]_vars PROVE TileInv'
    OBVIOUS
  <2>1. ASSUME NEW r \in Requests, RequestStep(r) PROVE TileInv'
    BY <2>1, RequestSteps, RenderStep DEF RequestStep
  <2>2. ASSUME NEW h \in Helpers, HelperStep(h) PROVE TileInv'
    BY <2>2, HelperSteps
  <2>3. CASE Clear \/ RelievePressure \/ \E t \in Tiles : Evict(t)
    BY <2>3, EvictSteps
  <2>4. CASE Tick
    BY <2>4, TickStep
  <2>5. CASE UNCHANGED vars
    <3>1. L1OK' /\ L1Ages'
      BY <2>5, L1Unchanged DEF vars, l1Vars, TileInv
    <3>2. RestOK'
      BY <2>5 DEF vars, TileInv, RestOK, TaskType, L2Ages, TaskAges
    <3> QED BY <3>1, <3>2 DEF TileInv
  <2> QED BY <2>1, <2>2, <2>3, <2>4, <2>5 DEF Next
<1> QED BY InvInit, <1>1, PTL DEF Spec

\* The variables of the two caches and of the tasks have their types, and L1's
\* list of recently used keys is that of its entries (tile_memory_cache.rs).
THEOREM TypesCorrect == Spec => []TypeOK
<1>1. TileInv => TypeOK
  BY DEF TileInv, L1OK, RestOK, TaskType, TypeOK, Listed
<1> QED BY <1>1, TileInvHolds, PTL

\* TileMemoryCache counts exactly what it holds, and one eviction per set keeps
\* it within max_bytes as long as no tile is larger than the batch.
THEOREM L1StaysBounded == Spec => []L1Bounded
<1>1. TileInv => L1Bounded
  BY DEF TileInv, L1OK
<1> QED BY <1>1, TileInvHolds, PTL

\* wmts_get_tile never answers with an image drawn longer ago than both
\* lifetimes and four delays, whatever is cached, evicted, prefetched or
\* cleared meanwhile.
THEOREM AnswersFresh == Spec => []TilesFresh
<1>1. ASSUME TileInv, NEW r \in Requests, pc[r] = "answer" PROVE drawn[r] < Horizon
  <2>1. /\ TaskAges(r) /\ age[r] \in Nat /\ drawn[r] \in Nat
    BY <1>1 DEF TileInv, RestOK, TaskType, Tasks
  <2> QED BY <1>1, <2>1, Times DEF TaskAges, Horizon
<1>2. TileInv => TilesFresh
  BY <1>1 DEF TilesFresh
<1> QED BY <1>2, TileInvHolds, PTL
=============================================================================
