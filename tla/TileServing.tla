------------------------------ MODULE TileServing ------------------------------
(***************************************************************************)
(* How wms-api serves map tiles: two caches in front of the renderer.       *)
(*                                                                         *)
(* A request looks into the process's own cache (L1), then into Redis (L2)  *)
(* under the one mutex around the connection, and draws the tile from the   *)
(* catalogue only if both miss.  A tile found in L2 is put into L1 with a   *)
(* full lifetime of its own; a tile that was drawn is put into L1 at once   *)
(* and into L2 by a task of its own, and its neighbours are drawn ahead.    *)
(* Nothing tells either cache that the catalogue has changed: a tile is     *)
(* served until its lifetimes have run out.                                 *)
(*                                                                         *)
(* Time is counted in ticks, and every time is kept as an age.  The age of  *)
(* an image counts from the look at styles and rows that its drawing began  *)
(* with.                                                                    *)
(***************************************************************************)
EXTENDS Integers, LruCache

CONSTANTS
    Neighbours,     \* get_tiles_in_rings of a tile
    MaxBytes,       \* max_bytes of L1
    Batch,          \* max_bytes / 20, what one eviction frees
    EvictTenths,    \* tenths of L1 that the pressure monitor may evict, 3
    TtlL1, TtlL2,   \* TILE_CACHE_TTL_SECS, REDIS_TILE_TTL_SECS
    MaxDelay,       \* how long a task takes from its start to its end
    Requests,       \* GetTile requests
    Helpers,        \* bound: spawned tasks, for storing and for prefetching
    None

Tasks == Requests \cup Helpers

\* A key is made of layer, style, place and dimensions.
Tiles == Keys

ASSUME TilesAssumption == Neighbours \in [Tiles -> SUBSET Tiles]
\* A tile is smaller than what one eviction frees: some 30 KB against 5% of a
\* cache of gigabytes (TileMemoryCache::new).
ASSUME LimitAssumption ==
    /\ MaxBytes \in Nat /\ Batch \in 0..MaxBytes /\ EvictTenths \in 0..10
    /\ \A t \in Tiles : Size[t] <= Batch
ASSUME TimeAssumption == TtlL1 \in Nat /\ TtlL2 \in Nat \ {0} /\ MaxDelay \in Nat
ASSUME TasksAssumption == Requests \cap Helpers = {} /\ None \notin Tasks \cup Tiles

VARIABLES
    l1,             \* l1[t]: the entry in L1, or None
    recent,         \* the keys of L1, least recently used first
    bytes,          \* stats.size_bytes
    l2,             \* l2[t]: the entry in Redis, or None
    mutex,          \* the task that holds state.cache
    pc,             \* where a task is
    tile,           \* the tile it is about
    age,            \* how long ago it began
    drawn           \* the age of the image in its hands

vars == <<l1, recent, bytes, l2, mutex, pc, tile, age, drawn>>
l1Vars == <<l1, recent, bytes>>
taskVars == <<pc, tile, age, drawn>>

\* An entry of a cache: the age of the image, and that of the entry.
Entry == [drawn : Nat, put : Nat]
ASSUME EntryAssumption == None \notin Entry

Steps == {"idle", "l2", "promote", "check", "render", "answer",     \* a request
          "ahead", "draw", "store"}                                 \* a helper

InL1 == {t \in Tiles : l1[t] # None}
Idle == {h \in Helpers : pc[h] = "idle"}

TypeOK ==
    /\ l1 \in [Tiles -> Entry \cup {None}]
    /\ recent \in Seq(Tiles)
    /\ bytes \in Nat
    /\ l2 \in [Tiles -> Entry \cup {None}]
    /\ mutex \in Tasks \cup {None}
    /\ pc \in [Tasks -> Steps]
    /\ tile \in [Tasks -> Tiles \cup {None}]
    /\ age \in [Tasks -> Nat]
    /\ drawn \in [Tasks -> Nat]
    /\ ToSet(recent) = InL1 /\ IsInjective(recent)

Init ==
    /\ l1 = [t \in Tiles |-> None] /\ recent = <<>> /\ bytes = 0
    /\ l2 = [t \in Tiles |-> None]
    /\ mutex = None
    /\ pc = [k \in Tasks |-> "idle"]
    /\ tile = [k \in Tasks |-> None]
    /\ age = [k \in Tasks |-> 0]
    /\ drawn = [k \in Tasks |-> 0]

-----------------------------------------------------------------------------
(* TileMemoryCache.  Every operation runs under the cache's write lock. *)

Oldest(n) == First(recent, n)

\* is_expired: elapsed() > ttl.
Expired(e) == e.put > TtlL1
Valid(t) == l1[t] # None /\ ~Expired(l1[t])

\* get, when it finds nothing or what it finds has expired.
GetMisses(t) ==
    IF l1[t] = None THEN UNCHANGED l1Vars
    ELSE /\ l1' = [l1 EXCEPT ![t] = None]
         /\ recent' = Without(recent, t)
         /\ bytes' = bytes - Size[t]

\* Mutant: a hit gives the entry a new lifetime.
GetHits_Renews(t) ==
    /\ recent' = Used(recent, t)
    /\ l1' = [l1 EXCEPT ![t].put = 0]
    /\ UNCHANGED bytes

GetHits(t) ==
    /\ recent' = Used(recent, t)
    /\ UNCHANGED <<l1, bytes>>

\* evict_batch_locked pops entries until they add up to Batch; one run only,
\* and only if the new tile would not fit.
Pops(t) ==
    IF bytes + Size[t] <= MaxBytes THEN 0
    ELSE Min({n \in 0..Len(recent) : n = Len(recent) \/ Bytes(Oldest(n)) >= Batch})

\* Mutant: what the new entry replaces stays counted.
Set_CountsTwice(t, from) ==
    LET n == Pops(t)
    IN  /\ l1' = [k \in Tiles |-> IF k = t THEN [drawn |-> from, put |-> 0]
                                  ELSE IF k \in Oldest(n) THEN None ELSE l1[k]]
        /\ recent' = Used(SubSeq(recent, n + 1, Len(recent)), t)
        /\ bytes' = bytes - Bytes(Oldest(n)) + Size[t]

\* Mutant: the old entry is looked up before the eviction that may drop it.
Set_LooksFirst(t, from) ==
    LET n == Pops(t)
    IN  /\ l1' = [k \in Tiles |-> IF k = t THEN [drawn |-> from, put |-> 0]
                                  ELSE IF k \in Oldest(n) THEN None ELSE l1[k]]
        /\ recent' = Used(SubSeq(recent, n + 1, Len(recent)), t)
        /\ bytes' = bytes - Bytes(Oldest(n)) - Bytes(InL1 \cap {t}) + Size[t]

\* set with the default lifetime; the entry it replaces, unless it has just
\* been evicted, is taken off.
Set(t, from) ==
    LET n == Pops(t)
    IN  /\ l1' = [k \in Tiles |-> IF k = t THEN [drawn |-> from, put |-> 0]
                                  ELSE IF k \in Oldest(n) THEN None ELSE l1[k]]
        /\ recent' = Used(SubSeq(recent, n + 1, Len(recent)), t)
        /\ bytes' = bytes - Bytes(Oldest(n) \cup (InL1 \cap {t})) + Size[t]

\* evict_percentage, by the pressure monitor: up to a share of the entries.
RelievePressure ==
    /\ \E n \in 1..((Len(recent) * EvictTenths) \div 10) :
        /\ l1' = [k \in Tiles |-> IF k \in Oldest(n) THEN None ELSE l1[k]]
        /\ recent' = SubSeq(recent, n + 1, Len(recent))
        /\ bytes' = bytes - Bytes(Oldest(n))
    /\ UNCHANGED <<l2, mutex, taskVars>>

\* cache_clear_handler and config_reload_handler: L1 is emptied, L2 is not.
Clear ==
    /\ l1' = [t \in Tiles |-> None] /\ recent' = <<>> /\ bytes' = 0
    /\ UNCHANGED <<l2, mutex, taskVars>>

-----------------------------------------------------------------------------
(* Tasks *)

End(k) ==
    /\ pc' = [pc EXCEPT ![k] = "idle"]
    /\ tile' = [tile EXCEPT ![k] = None]
    /\ age' = [age EXCEPT ![k] = 0]
    /\ drawn' = [drawn EXCEPT ![k] = 0]

Goto(k, step) == pc' = [pc EXCEPT ![k] = step] /\ UNCHANGED <<tile, age, drawn>>

Hold(k, step, from) ==
    /\ pc' = [pc EXCEPT ![k] = step]
    /\ drawn' = [drawn EXCEPT ![k] = from]
    /\ UNCHANGED <<tile, age>>

Begin(k, t, step, from) ==
    /\ pc[k] = "idle"
    /\ pc' = [pc EXCEPT ![k] = step]
    /\ tile' = [tile EXCEPT ![k] = t]
    /\ age' = [age EXCEPT ![k] = 0]
    /\ drawn' = [drawn EXCEPT ![k] = from]

\* A drawn image is answered; a helper is spawned to store it in L2, and one
\* for each neighbour to draw ahead, as far as the bound leaves helpers.
Spawn(r, storer, ahead) ==
    /\ pc' = [k \in Tasks |-> IF k = r THEN "answer" ELSE IF k = storer THEN "store"
                              ELSE IF k \in DOMAIN ahead THEN "ahead" ELSE pc[k]]
    /\ tile' = [k \in Tasks |-> IF k = storer THEN tile[r]
                                ELSE IF k \in DOMAIN ahead THEN ahead[k] ELSE tile[k]]
    /\ age' = [k \in Tasks |-> IF k \in {storer} \cup DOMAIN ahead THEN 0 ELSE age[k]]
    /\ drawn' = [k \in Tasks |-> IF k = storer THEN drawn[r] ELSE drawn[k]]

-----------------------------------------------------------------------------
(* wmts_get_tile *)

GetTileHit(r, t) ==
    /\ Valid(t) /\ GetHits(t)
    /\ Begin(r, t, "answer", l1[t].drawn)
    /\ UNCHANGED <<l2, mutex>>

GetTileMiss(r, t) ==
    /\ ~Valid(t) /\ GetMisses(t)
    /\ Begin(r, t, "l2", 0)
    /\ UNCHANGED <<l2, mutex>>

\* Redis has the tile; the mutex is held until the request is answered.
FoundInL2(r) ==
    /\ pc[r] = "l2" /\ mutex = None /\ l2[tile[r]] # None
    /\ mutex' = r
    /\ Hold(r, "promote", l2[tile[r]].drawn)
    /\ UNCHANGED <<l1Vars, l2>>

Promote(r) ==
    /\ pc[r] = "promote"
    /\ Set(tile[r], drawn[r])
    /\ mutex' = None
    /\ Goto(r, "answer")
    /\ UNCHANGED l2

\* Redis does not have it, or gives an error.
NotInL2(r) ==
    /\ pc[r] = "l2" /\ mutex = None
    /\ Goto(r, "check")
    /\ UNCHANGED <<l1Vars, l2, mutex>>

\* The layer and the style exist; what is drawn dates from here on.
Check(r) ==
    /\ pc[r] = "check"
    /\ Hold(r, "render", 0)
    /\ UNCHANGED <<l1Vars, l2, mutex>>

Render(r, storer, ahead) ==
    /\ pc[r] = "render"
    /\ \A h \in DOMAIN ahead : ahead[h] \in Neighbours[tile[r]]
    /\ IsInjective(ahead)
    /\ Set(tile[r], drawn[r])
    /\ Spawn(r, storer, ahead)
    /\ UNCHANGED <<l2, mutex>>

\* An exception: an unknown layer or style, or an error of the renderer.
Fail(r) ==
    /\ pc[r] \in {"check", "render"}
    /\ End(r)
    /\ UNCHANGED <<l1Vars, l2, mutex>>

Answer(r) ==
    /\ pc[r] = "answer"
    /\ End(r)
    /\ UNCHANGED <<l1Vars, l2, mutex>>

-----------------------------------------------------------------------------
(* Spawned tasks *)

\* prefetch_single_tile looks into L2 alone.
AheadFound(h) ==
    /\ pc[h] = "ahead" /\ mutex = None /\ l2[tile[h]] # None
    /\ End(h)
    /\ UNCHANGED <<l1Vars, l2, mutex>>

AheadMissing(h) ==
    /\ pc[h] = "ahead" /\ mutex = None
    /\ Hold(h, "draw", 0)
    /\ UNCHANGED <<l1Vars, l2, mutex>>

AheadDrawn(h) ==
    /\ pc[h] = "draw"
    /\ Goto(h, "store")
    /\ UNCHANGED <<l1Vars, l2, mutex>>

AheadFails(h) ==
    /\ pc[h] = "draw"
    /\ End(h)
    /\ UNCHANGED <<l1Vars, l2, mutex>>

Store(h) ==
    /\ pc[h] = "store" /\ mutex = None
    /\ l2' = [l2 EXCEPT ![tile[h]] = [drawn |-> drawn[h], put |-> 0]]
    /\ End(h)
    /\ UNCHANGED <<l1Vars, mutex>>

\* The error of a set is dropped.
StoreFails(h) ==
    /\ pc[h] = "store" /\ mutex = None
    /\ End(h)
    /\ UNCHANGED <<l1Vars, l2, mutex>>

-----------------------------------------------------------------------------
(* Redis and time *)

\* Redis drops keys when it is short of memory.
Evict(t) ==
    /\ l2[t] # None
    /\ l2' = [l2 EXCEPT ![t] = None]
    /\ UNCHANGED <<l1Vars, mutex, taskVars>>

\* Expired entries of L1 stay until somebody looks, and age no further here.
Older(e) == IF Expired(e) THEN e ELSE [drawn |-> e.drawn + 1, put |-> e.put + 1]

\* Time passes.  A key set with SETEX is gone when its seconds are over; no
\* task takes longer than MaxDelay.
Tick ==
    /\ \A k \in Tasks : pc[k] # "idle" => age[k] < MaxDelay
    /\ age' = [k \in Tasks |-> IF pc[k] = "idle" THEN 0 ELSE age[k] + 1]
    /\ drawn' = [k \in Tasks |-> IF pc[k] \in {"idle", "l2", "check", "ahead"} THEN 0
                                 ELSE drawn[k] + 1]
    /\ l1' = [t \in Tiles |-> IF l1[t] = None THEN None ELSE Older(l1[t])]
    /\ l2' = [t \in Tiles |->
                 IF l2[t] = None THEN None
                 ELSE IF l2[t].put + 1 = TtlL2 THEN None
                 ELSE [drawn |-> l2[t].drawn + 1, put |-> l2[t].put + 1]]
    /\ UNCHANGED <<recent, bytes, mutex, pc, tile>>

RequestStep(r) ==
    \/ \E t \in Tiles : GetTileHit(r, t) \/ GetTileMiss(r, t)
    \/ FoundInL2(r) \/ Promote(r) \/ NotInL2(r) \/ Check(r) \/ Fail(r) \/ Answer(r)
    \/ \E storer \in Idle : \E S \in SUBSET (Idle \ {storer}) :
           \E ahead \in [S -> Tiles] : Render(r, storer, ahead)

HelperStep(h) ==
    \/ AheadFound(h) \/ AheadMissing(h) \/ AheadDrawn(h) \/ AheadFails(h)
    \/ Store(h) \/ StoreFails(h)

Next ==
    \/ \E r \in Requests : RequestStep(r)
    \/ \E h \in Helpers : HelperStep(h)
    \/ \E t \in Tiles : Evict(t)
    \/ Clear
    \/ RelievePressure
    \/ Tick

Spec == Init /\ [][Next]_vars

-----------------------------------------------------------------------------
(* Properties *)

\* What L1 counts is what it holds, and a tile that is let in after a single
\* eviction of a twentieth never takes it over its limit.
L1Bounded == bytes = Bytes(InL1) /\ bytes <= MaxBytes

\* How old an image can be when it is answered: drawn and stored late, found in
\* L2 at the end of its lifetime there, put into L1 late, and found there at
\* the end of another lifetime.
Horizon == TtlL1 + TtlL2 + 4 * MaxDelay

\* Nobody is sent an image drawn more than both lifetimes and the delays of
\* four tasks ago, though every hit in L2 starts a new lifetime in L1, tasks
\* that store and prefetch write late, and nothing is invalidated on ingestion.
TilesFresh ==
    \A r \in Requests : pc[r] = "answer" => drawn[r] < Horizon
=============================================================================
