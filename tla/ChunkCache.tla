------------------------------ MODULE ChunkCache ------------------------------
(***************************************************************************)
(* The cache of decompressed grid chunks that wms-api and edr-api read      *)
(* through, with everything that reads, fills, overwrites or empties it.    *)
(*                                                                         *)
(* A region of a grid is read chunk by chunk: the futures of its chunks are *)
(* polled in turn, each looks its key up under the cache's lock, and on a   *)
(* miss reads the chunk from the object store without the lock and takes    *)
(* the lock again to insert it.  A key is the path of the array and the     *)
(* place of the chunk, without a version or an age; the ingester writes a   *)
(* dataset to a path made of its model, hour and parameter, object by       *)
(* object, over whatever is there.  The pressure monitor and the two        *)
(* endpoints that empty caches clear it at any time.                        *)
(***************************************************************************)
EXTENDS LruCache

CONSTANTS
    Paths,          \* arrays
    PathOf,         \* the array of a chunk
    MemoryLimit,    \* memory_limit
    MaxEntries,     \* the capacity of the LruCache
    Readers,        \* tasks that read regions: requests and the chunk warmer
    None,
    Rewritten,      \* bound: the paths that are ingested to again
    MaxVersion      \* bound: how often a chunk's object is overwritten

\* A key is the hash of the path and the place of the chunk; the values of
\* chunks at an edge are smaller.
Chunks == Keys

ASSUME ChunksAssumption == PathOf \in [Chunks -> Paths]
ASSUME LimitAssumption == MemoryLimit \in Nat /\ MaxEntries \in Nat \ {0}
ASSUME NoneAssumption == None \notin Nat

VARIABLES
    stored,         \* stored[c]: how often c's object was overwritten
    uploading,      \* uploading[p]: chunks the running ingestion has still to put
    copy,           \* copy[c]: the version in the cache, or None
    recent,         \* the cached keys, least recently used first
    counted,        \* current_memory
    step,           \* step[r][c]: how far reader r is with chunk c
    data,           \* data[r][c]: the version r holds of c, or None
    asked,          \* asked[r][c]: what was stored when r asked for c (history)
    floor           \* floor[c]: the oldest version about when the cache was
                    \* cleared last (history)

vars == <<stored, uploading, copy, recent, counted, step, data, asked, floor>>
storeVars == <<stored, uploading>>
cacheVars == <<copy, recent, counted>>
readVars == <<step, data, asked>>

\* Not part of the region; not polled yet; looked up in vain; read from the
\* store; in the region's buffer; the store gave an error.
Step == {"unread", "wanted", "missed", "fetched", "done", "failed"}

Cached == {c \in Chunks : copy[c] # None}

TypeOK ==
    /\ stored \in [Chunks -> Nat]
    /\ uploading \in [Paths -> SUBSET Chunks]
    /\ copy \in [Chunks -> Nat \cup {None}]
    /\ recent \in Seq(Chunks)
    /\ counted \in Nat
    /\ step \in [Readers -> [Chunks -> Step]]
    /\ data \in [Readers -> [Chunks -> Nat \cup {None}]]
    /\ asked \in [Readers -> [Chunks -> Nat]]
    /\ floor \in [Chunks -> Nat]
    /\ ToSet(recent) = Cached /\ IsInjective(recent)

Nothing == [c \in Chunks |-> None]

Init ==
    /\ stored = [c \in Chunks |-> 0]
    /\ uploading = [p \in Paths |-> {}]
    /\ copy = Nothing /\ recent = <<>> /\ counted = 0
    /\ step = [r \in Readers |-> [c \in Chunks |-> "unread"]]
    /\ data = [r \in Readers |-> Nothing]
    /\ asked = [r \in Readers |-> [c \in Chunks |-> 0]]
    /\ floor = stored

-----------------------------------------------------------------------------
(* ChunkCache *)

\* saturating_sub
Minus(a, b) == IF a > b THEN a - b ELSE 0

Oldest(n) == First(recent, n)

\* Mutant: popping an entry forgets to take it off.
Left_Unchanged(n) == counted

\* current_memory once the n oldest entries are popped.
Left(n) == Minus(counted, Bytes(Oldest(n)))

\* How many entries are popped before need more bytes fit in limit.
Pops(need, limit) ==
    Min({n \in 0..Len(recent) : n = Len(recent) \/ Left(n) + need <= limit})

\* A lookup that hits moves the key to the recent end.
Touch(c) ==
    /\ recent' = Used(recent, c)
    /\ UNCHANGED <<copy, counted>>

\* put of a key that is still there replaces it; put into an LruCache that is
\* full pushes the oldest entry out.  Neither is taken off current_memory.
PushedOut(c, kept) ==
    IF c \notin ToSet(kept) /\ Len(kept) = MaxEntries THEN {Head(kept)} ELSE {}

\* Mutant: what the new entry replaces is taken off, even if it was popped to
\* make room and is off already.
Insert_SubtractsTwice(c, version) ==
    LET n == Pops(Size[c], MemoryLimit)
        kept == SubSeq(recent, n + 1, Len(recent))
    IN  /\ copy' = [k \in Chunks |->
                       IF k = c THEN version
                       ELSE IF k \in Oldest(n) THEN None ELSE copy[k]]
        /\ recent' = Used(kept, c)
        /\ counted' = counted - Bytes(Oldest(n)) + (IF copy[c] = None THEN Size[c] ELSE 0)
                        - (IF copy[c] = None THEN 0 ELSE Size[c])

\* insert: pop the oldest entries until the new one fits or none is left, and
\* put it in unless it alone is too large.
Insert(c, version) ==
    LET n == Pops(Size[c], MemoryLimit)
        kept == SubSeq(recent, n + 1, Len(recent))
        fits == Size[c] <= MemoryLimit
        out == IF fits THEN PushedOut(c, kept) ELSE {}
    IN  /\ copy' = [k \in Chunks |->
                       IF fits /\ k = c THEN version
                       ELSE IF k \in Oldest(n) \cup out THEN None ELSE copy[k]]
        /\ recent' = IF ~fits THEN kept
                     ELSE Append(IF out = {} THEN Without(kept, c) ELSE Tail(kept), c)
        /\ counted' = Left(n) + (IF fits THEN Size[c] ELSE 0)

-----------------------------------------------------------------------------
(* Reading a region *)

\* read_region: the chunks under the bounding box, all of one array.
BeginRegion(r, wanted) ==
    /\ \A c \in Chunks : step[r][c] = "unread"
    /\ wanted # {} /\ \E p \in Paths : \A c \in wanted : PathOf[c] = p
    /\ step' = [step EXCEPT ![r] = [c \in Chunks |-> IF c \in wanted THEN "wanted" ELSE "unread"]]
    /\ asked' = [asked EXCEPT ![r] = [c \in Chunks |-> IF c \in wanted THEN stored[c] ELSE 0]]
    /\ UNCHANGED <<data, storeVars, cacheVars, floor>>

\* join_all polls the futures one after the other; one that missed goes on to
\* the store in the same poll.
Polling(r) == \E c \in Chunks : step[r][c] = "missed"

Hit(r, c) ==
    /\ step[r][c] = "wanted" /\ ~Polling(r) /\ copy[c] # None
    /\ Touch(c)
    /\ step' = [step EXCEPT ![r][c] = "done"]
    /\ data' = [data EXCEPT ![r][c] = copy[c]]
    /\ UNCHANGED <<storeVars, asked, floor>>

Miss(r, c) ==
    /\ step[r][c] = "wanted" /\ ~Polling(r) /\ copy[c] = None
    /\ step' = [step EXCEPT ![r][c] = "missed"]
    /\ UNCHANGED <<data, storeVars, cacheVars, asked, floor>>

\* read_chunk_sync, with the lock released.
Fetch(r, c) ==
    /\ step[r][c] = "missed"
    /\ step' = [step EXCEPT ![r][c] = "fetched"]
    /\ data' = [data EXCEPT ![r][c] = stored[c]]
    /\ UNCHANGED <<storeVars, cacheVars, asked, floor>>

FetchFails(r, c) ==
    /\ step[r][c] = "missed"
    /\ step' = [step EXCEPT ![r][c] = "failed"]
    /\ UNCHANGED <<data, storeVars, cacheVars, asked, floor>>

\* Two readers that missed the same chunk insert it twice.
Fill(r, c) ==
    /\ step[r][c] = "fetched"
    /\ Insert(c, data[r][c])
    /\ step' = [step EXCEPT ![r][c] = "done"]
    /\ UNCHANGED <<data, storeVars, asked, floor>>

Answered(r) ==
    /\ \A c \in Chunks : step[r][c] \in {"unread", "done", "failed"}
    /\ \E c \in Chunks : step[r][c] # "unread"

\* The region is assembled, or the read fails if one chunk did.
Finish(r) ==
    /\ Answered(r)
    /\ step' = [step EXCEPT ![r] = [c \in Chunks |-> "unread"]]
    /\ data' = [data EXCEPT ![r] = Nothing]
    /\ asked' = [asked EXCEPT ![r] = [c \in Chunks |-> 0]]
    /\ UNCHANGED <<storeVars, cacheVars, floor>>

-----------------------------------------------------------------------------
(* Clearing and overwriting *)

\* The oldest version of c in the store or in the hands of a reader.
OldestHeld(c) ==
    Min({stored[c]} \cup ({data[r][c] : r \in Readers} \ {None}))

\* Mutant: clear resets the counter and leaves the entries.
Clear_CounterOnly ==
    /\ counted' = 0
    /\ floor' = [c \in Chunks |-> OldestHeld(c)]
    /\ UNCHANGED <<copy, recent, storeVars, readVars>>

\* clear, called by the endpoints for cache and configuration and by the
\* pressure monitor when the cache is worth clearing.
Clear ==
    /\ copy' = Nothing /\ recent' = <<>> /\ counted' = 0
    /\ floor' = [c \in Chunks |-> OldestHeld(c)]
    /\ UNCHANGED <<storeVars, readVars>>

\* check_and_evict: the resident size, which the model leaves open, is above
\* the threshold and the target, and the cache counts for more than a tenth
\* of what has to be freed.
RelievePressure == counted > 0 /\ Clear

\* A dataset is ingested to the path of an earlier one (or its objects are
\* deleted, and a chunk without an object reads as fill values).
BeginUpload(p) ==
    /\ p \in Rewritten /\ uploading[p] = {}
    /\ \A c \in Chunks : PathOf[c] = p => stored[c] < MaxVersion
    /\ uploading' = [uploading EXCEPT ![p] = {c \in Chunks : PathOf[c] = p}]
    /\ UNCHANGED <<stored, cacheVars, readVars, floor>>

UploadObject(p, c) ==
    /\ c \in uploading[p]
    /\ stored' = [stored EXCEPT ![c] = @ + 1]
    /\ uploading' = [uploading EXCEPT ![p] = @ \ {c}]
    /\ UNCHANGED <<cacheVars, readVars, floor>>

\* A put fails: the upload is given up and leaves what it wrote.
UploadFails(p) ==
    /\ uploading[p] # {}
    /\ uploading' = [uploading EXCEPT ![p] = {}]
    /\ UNCHANGED <<stored, cacheVars, readVars, floor>>

Next ==
    \/ \E r \in Readers :
        \/ \E wanted \in SUBSET Chunks : BeginRegion(r, wanted)
        \/ \E c \in Chunks : Hit(r, c) \/ Miss(r, c) \/ Fetch(r, c)
                               \/ FetchFails(r, c) \/ Fill(r, c)
        \/ Finish(r)
    \/ Clear
    \/ RelievePressure
    \/ \E p \in Paths :
        \/ BeginUpload(p) \/ UploadFails(p)
        \/ \E c \in Chunks : UploadObject(p, c)

Spec == Init /\ [][Next]_vars

-----------------------------------------------------------------------------
(* Properties *)

\* The values in memory never exceed the configured limit, although
\* current_memory drifts: what is replaced or pushed out stays counted, the
\* subtraction saturates, and an entry that fits alone is let in whatever is
\* counted.  The drift is at most the limit itself.
MemoryBounded ==
    /\ Bytes(Cached) <= MemoryLimit
    /\ Bytes(Cached) <= counted
    /\ counted <= Bytes(Cached) + MemoryLimit

\* The cache and the reads after a clear hold nothing that was overwritten
\* before it, except what a reader was holding when the cache was cleared.
ClearForgets ==
    \A c \in Chunks :
        /\ copy[c] # None => copy[c] >= floor[c]
        /\ \A r \in Readers : data[r][c] # None => data[r][c] >= floor[c]

\* docs/src/architecture/caching.md:457: 'When new data is ingested, caches must
\* be invalidated to prevent serving stale data'.  A region holds nothing that
\* was overwritten before its reader began.
ReadsCurrent ==
    \A r \in Readers : Answered(r) =>
        \A c \in Chunks : step[r][c] = "done" => data[r][c] >= asked[r][c]
=============================================================================
