---------------------------- MODULE DownloadSlots ----------------------------
(***************************************************************************)
(* The downloader's two-tier concurrency control.                          *)
(*                                                                         *)
(* Each enabled model has a runner, a task that loops over cycles.  A cycle *)
(* drives its files through buffer_unordered: at most max_concurrent of    *)
(* them are in flight, started newest first.  A file in flight first takes *)
(* a slot and keeps it through its download and its ingestion request.     *)
(* Slots are permits of tokio semaphores: one semaphore with one permit    *)
(* per model, and one semaphore, the shared pool, for all of them.  The    *)
(* runners run in parallel, so any action of one may fall between two of   *)
(* another.                                                                *)
(***************************************************************************)
EXTENDS Integers, Sequences, FiniteSets

CONSTANTS
    Models,         \* the enabled models
    Files,          \* the files their cycles may find
    ModelOf,        \* the model of a file
    Rank,           \* its place in its model's download order, newest first
    TotalMax,       \* --total-max-concurrent
    MaxConcurrent   \* schedule.max_concurrent of a model

ASSUME FilesAssumption == IsFiniteSet(Files) /\ IsFiniteSet(Models)
ASSUME ModelOfAssumption == ModelOf \in [Files -> Models] /\ Rank \in [Files -> Nat]
ASSUME LimitsAssumption == TotalMax \in Nat /\ MaxConcurrent \in [Models -> Nat]

VARIABLES
    phase,          \* phase[f]: how far f is in its model's cycle
    slot,           \* slot[f]: the kind of permit f holds
    guaranteedFree, \* free permits of each model's own semaphore
    sharedFree,     \* free permits of the shared pool
    waiters,        \* waiters[m]: files queued on m's semaphore, first come first
    active          \* the counter active_downloads

slotVars == <<phase, slot, guaranteedFree, sharedFree, waiters, active>>

\* saturating_sub
Minus(a, b) == IF a > b THEN a - b ELSE 0

NumModels == Cardinality(Models)
SharedPoolSize == Minus(TotalMax, NumModels)
MaxShared(m) == Minus(MaxConcurrent[m], 1)
BufferSize(m) == 1 + MaxShared(m)

\* Of no cycle; in the cycle's list; queued on the semaphore; with a permit
\* but not yet counted; counted, so downloading or being ingested; no longer
\* counted but still with its permit.
Phase == {"idle", "queued", "waiting", "granted", "active", "leaving"}
Holding == {"granted", "active", "leaving"}

SlotsTyped ==
    /\ phase \in [Files -> Phase]
    /\ slot \in [Files -> {"none", "guaranteed", "shared"}]
    /\ guaranteedFree \in [Models -> Nat]
    /\ sharedFree \in Nat
    /\ waiters \in [Models -> Seq(Files)]
    /\ active \in Int

SlotsInit ==
    /\ phase = [f \in Files |-> "idle"]
    /\ slot = [f \in Files |-> "none"]
    /\ guaranteedFree = [m \in Models |-> 1]
    /\ sharedFree = SharedPoolSize
    /\ waiters = [m \in Models |-> <<>>]
    /\ active = 0

FilesOf(m) == {f \in Files : ModelOf[f] = m}
InFlight(m) == {f \in FilesOf(m) : phase[f] \notin {"idle", "queued"}}

\* Mutant: a cycle does not wait for the end of the one before it.
StartCycle_Overlapping(m, batch) ==
    /\ batch # {} /\ \A f \in batch : phase[f] = "idle"
    /\ phase' = [f \in Files |-> IF f \in batch THEN "queued" ELSE phase[f]]
    /\ UNCHANGED <<slot, guaranteedFree, sharedFree, waiters, active>>

\* A cycle starts once the one before it has collected all its results; it
\* finds some files that were not downloaded yet, or whose download failed.
StartCycle(m, batch) ==
    /\ \A f \in FilesOf(m) : phase[f] = "idle"
    /\ batch # {}
    /\ phase' = [f \in Files |-> IF f \in batch THEN "queued" ELSE phase[f]]
    /\ UNCHANGED <<slot, guaranteedFree, sharedFree, waiters, active>>

\* Mutant: one file too many.
NextInLine_OffByOne(f) ==
    /\ phase[f] = "queued"
    /\ \A g \in FilesOf(ModelOf[f]) : phase[g] = "queued" => Rank[f] <= Rank[g]
    /\ Cardinality(InFlight(ModelOf[f])) <= BufferSize(ModelOf[f])

\* buffer_unordered starts the next file of the list.
NextInLine(f) ==
    /\ phase[f] = "queued"
    /\ \A g \in FilesOf(ModelOf[f]) : phase[g] = "queued" => Rank[f] <= Rank[g]
    /\ Cardinality(InFlight(ModelOf[f])) < BufferSize(ModelOf[f])

\* acquire: first the model's own slot,
TakeGuaranteed(f) ==
    /\ NextInLine(f)
    /\ guaranteedFree[ModelOf[f]] > 0
    /\ guaranteedFree' = [guaranteedFree EXCEPT ![ModelOf[f]] = @ - 1]
    /\ phase' = [phase EXCEPT ![f] = "granted"]
    /\ slot' = [slot EXCEPT ![f] = "guaranteed"]
    /\ UNCHANGED <<sharedFree, waiters, active>>

\* Mutant: the pool is not asked for a permit.
TakeShared_Unchecked(f) ==
    /\ NextInLine(f)
    /\ guaranteedFree[ModelOf[f]] = 0
    /\ MaxShared(ModelOf[f]) > 0
    /\ sharedFree' = sharedFree - 1
    /\ phase' = [phase EXCEPT ![f] = "granted"]
    /\ slot' = [slot EXCEPT ![f] = "shared"]
    /\ UNCHANGED <<guaranteedFree, waiters, active>>

\* then, for a model that may have more than one, a slot of the pool,
TakeShared(f) ==
    /\ NextInLine(f)
    /\ guaranteedFree[ModelOf[f]] = 0
    /\ MaxShared(ModelOf[f]) > 0
    /\ sharedFree > 0
    /\ sharedFree' = sharedFree - 1
    /\ phase' = [phase EXCEPT ![f] = "granted"]
    /\ slot' = [slot EXCEPT ![f] = "shared"]
    /\ UNCHANGED <<guaranteedFree, waiters, active>>

\* or it blocks until the model's own slot is handed to it.  It never looks
\* at the pool again.
Wait(f) ==
    /\ NextInLine(f)
    /\ guaranteedFree[ModelOf[f]] = 0
    /\ MaxShared(ModelOf[f]) = 0 \/ sharedFree = 0
    /\ phase' = [phase EXCEPT ![f] = "waiting"]
    /\ waiters' = [waiters EXCEPT ![ModelOf[f]] = Append(@, f)]
    /\ UNCHANGED <<slot, guaranteedFree, sharedFree, active>>

\* The counter follows the permit.
Count(f) ==
    /\ phase[f] = "granted"
    /\ phase' = [phase EXCEPT ![f] = "active"]
    /\ active' = active + 1
    /\ UNCHANGED <<slot, guaranteedFree, sharedFree, waiters>>

\* Mutant: the guard's drop forgets the counter.
Finish_Uncounted(f) ==
    /\ phase[f] = "active"
    /\ phase' = [phase EXCEPT ![f] = "leaving"]
    /\ UNCHANGED <<slot, guaranteedFree, sharedFree, waiters, active>>

\* Download and ingestion request end, well or badly; dropping the guard
\* takes the file off the counter first.
Finish(f) ==
    /\ phase[f] = "active"
    /\ phase' = [phase EXCEPT ![f] = "leaving"]
    /\ active' = active - 1
    /\ UNCHANGED <<slot, guaranteedFree, sharedFree, waiters>>

\* Mutant: the waiters are not served.
ReleaseGuaranteed_NoHandOver(f) ==
    /\ phase[f] = "leaving"
    /\ slot[f] = "guaranteed"
    /\ guaranteedFree' = [guaranteedFree EXCEPT ![ModelOf[f]] = @ + 1]
    /\ phase' = [phase EXCEPT ![f] = "idle"]
    /\ slot' = [slot EXCEPT ![f] = "none"]
    /\ UNCHANGED <<waiters, sharedFree, active>>

\* Mutant: the permit goes back to the pool, whatever its kind.
ReleaseGuaranteed_ToPool(f) ==
    /\ phase[f] = "leaving"
    /\ slot[f] = "guaranteed"
    /\ sharedFree' = sharedFree + 1
    /\ phase' = [phase EXCEPT ![f] = "idle"]
    /\ slot' = [slot EXCEPT ![f] = "none"]
    /\ UNCHANGED <<guaranteedFree, waiters, active>>

\* Then the permit goes.  A semaphore with waiters hands it to the first.
ReleaseGuaranteed(f) ==
    LET m == ModelOf[f]
        first == Head(waiters[m]) IN
    /\ phase[f] = "leaving"
    /\ slot[f] = "guaranteed"
    /\ \/ /\ waiters[m] = <<>>
          /\ guaranteedFree' = [guaranteedFree EXCEPT ![m] = @ + 1]
          /\ phase' = [phase EXCEPT ![f] = "idle"]
          /\ slot' = [slot EXCEPT ![f] = "none"]
          /\ UNCHANGED waiters
       \/ /\ waiters[m] # <<>>
          /\ waiters' = [waiters EXCEPT ![m] = Tail(@)]
          /\ phase' = [phase EXCEPT ![f] = "idle", ![first] = "granted"]
          /\ slot' = [slot EXCEPT ![f] = "none", ![first] = "guaranteed"]
          /\ UNCHANGED guaranteedFree
    /\ UNCHANGED <<sharedFree, active>>

ReleaseShared(f) ==
    /\ phase[f] = "leaving"
    /\ slot[f] = "shared"
    /\ sharedFree' = sharedFree + 1
    /\ phase' = [phase EXCEPT ![f] = "idle"]
    /\ slot' = [slot EXCEPT ![f] = "none"]
    /\ UNCHANGED <<guaranteedFree, waiters, active>>

Acquire(f) == TakeGuaranteed(f) \/ TakeShared(f) \/ Wait(f)
Release(f) == ReleaseGuaranteed(f) \/ ReleaseShared(f)

FileStep(f) == Acquire(f) \/ Count(f) \/ Finish(f) \/ Release(f)

SlotsNext ==
    \/ \E m \in Models : \E batch \in SUBSET FilesOf(m) : StartCycle(m, batch)
    \/ \E f \in Files : FileStep(f)

SlotsSpec == SlotsInit /\ [][SlotsNext]_slotVars

(***************************************************************************)
(* A runner's futures are polled when they can go on, and a download ends: *)
(* every request has a timeout and retries are bounded.  Whether there is  *)
(* another cycle is up to the source.                                      *)
(***************************************************************************)
SlotsFairness == \A f \in Files : WF_slotVars(FileStep(f))

SlotsFairSpec == SlotsSpec /\ SlotsFairness

(***************************************************************************)
(* Properties.                                                             *)
(***************************************************************************)

SlotHolders(kind) == {f \in Files : slot[f] = kind}
Limit == NumModels + SharedPoolSize

\* No permit is lost or made up, whatever the interleaving of acquisitions,
\* hand-overs and releases: the permits of the pool are free or held, and a
\* model's own permit is free or held by one file of that model.
PermitsConserved ==
    /\ sharedFree + Cardinality(SlotHolders("shared")) = SharedPoolSize
    /\ \A m \in Models :
         guaranteedFree[m] + Cardinality(SlotHolders("guaranteed") \cap FilesOf(m)) = 1

\* What total_max_concurrent is there for: at most one slot per model and
\* the pool are counted as active, and the unsigned counter never wraps.  It
\* rests on the order of permit and counter at both ends.
ActiveWithinLimit == 0 <= active /\ active <= Limit

\* A file queues for its model's own slot only while another file of that
\* model has it: no other model can keep it waiting.
WaitsForOwnModel ==
    \A m \in Models : waiters[m] # <<>> =>
      \E f \in FilesOf(m) : slot[f] = "guaranteed" /\ phase[f] \in Holding

\* A model's files in flight stay within its max_concurrent.
PerModelLimit ==
    \A m \in Models :
      Cardinality({f \in FilesOf(m) : phase[f] \in Holding}) <= BufferSize(m)

\* concurrency.rs: each model can always make progress.  Every file a cycle
\* found is downloaded, however the others use the pool.
EveryFileStarts == \A f \in Files : phase[f] = "queued" ~> phase[f] = "active"
=============================================================================
