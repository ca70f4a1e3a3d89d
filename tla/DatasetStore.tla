---------------------------- MODULE DatasetStore ----------------------------
(***************************************************************************)
(* The catalogue of gridded datasets and the object store beside it.       *)
(*                                                                         *)
(* A dataset is one row of PostgreSQL's `datasets` table and one Zarr      *)
(* directory of several files in MinIO, under grids/.  Nothing makes the   *)
(* two change together.  Four kinds of process work on them:               *)
(*   - the ingester uploads the files one by one, then upserts the row;    *)
(*   - the cleanup task of each wms-api instance marks old rows expired,   *)
(*     reads the expired paths, deletes their files, deletes the rows;     *)
(*   - the sync task of each wms-api instance compares the two stores and  *)
(*     deletes what only one of them knows;                                *)
(*   - readers look a row up and open its files (AvailableComplete).       *)
(* Each action is one round trip to PostgreSQL or to MinIO, because any    *)
(* other process may run between two of them.                              *)
(***************************************************************************)
EXTENDS Integers, FiniteSets

CONSTANTS
    Datasets,    \* the keys (model, parameter, level, reference_time, forecast_hour)
    Models,      \* models, products and static layers
    ModelOf,     \* the model of a dataset
    TimeOf,      \* its reference_time; the datasets of one run share it
    StaticModels,\* models of type Static, which never expire
    KeepLatest,  \* keep_latest_runs or keep_latest_observations of a model
    Retention,   \* retention hours of a model
    Files,       \* the files of one Zarr directory
    Ingesters,   \* requests the ingester may serve at once
    Cleaners,    \* cleanup cycles that may run at once: one per instance, and
                 \* one for each request to the admin endpoint
    Syncers,     \* sync cycles that may run at once: one per instance
    None,        \* no dataset, no model
    MaxClock,    \* bound: the last hour of a behaviour
    MaxIngests,  \* bound: how often one dataset is ingested
    MaxFaults    \* bound: failed calls and crashes in a behaviour

Workers == Cleaners \cup Syncers

ASSUME ModelOfAssumption == ModelOf \in [Datasets -> Models]
ASSUME TimeOfAssumption == TimeOf \in [Datasets -> Nat]
ASSUME RetentionAssumption ==
    /\ StaticModels \subseteq Models
    /\ KeepLatest \in [Models -> Nat]
    /\ Retention \in [Models -> Nat]
ASSUME FilesAssumption == Files # {}
ASSUME NoneAssumption == None \notin Datasets
ASSUME WorkersAssumption == Cleaners \cap Syncers = {}
ASSUME BoundsAssumption == MaxClock \in Nat /\ MaxIngests \in Nat /\ MaxFaults \in Nat

VARIABLES
    status,   \* the rows: status[d] is the status column, or "absent"
    objects,  \* objects[d]: the files of d that are in the object store
    clock,    \* hours since the start
    ingests,  \* how often d's ingestion was started
    faults,   \* failed calls and crashes so far
    job,      \* job[i]: the dataset request i is writing, or None
    unsent,   \* unsent[i]: the files it has still to upload
    pc,       \* pc[w]: where worker w is in its cycle
    models,   \* models[w]: the models its cycle has still to examine
    model,    \* model[w]: the model under examination
    protect,  \* protect[w]: the runs of that model it protects
    cutoff,   \* cutoff[w]: the time it read before it looked at that model
    alone,    \* history: alone[c]: has no other cycle overlapped c's so far?
    records,  \* records[w]: rows a sync cycle read, then those it will delete
    paths,    \* paths[w]: the directories it has still to delete
    prefix,   \* prefix[w]: the directory it is deleting, or None
    victims   \* victims[w]: the files of it that delete_prefix listed

storeVars == <<status, objects>>
ingestVars == <<ingests, job, unsent>>
markVars == <<models, model, protect, cutoff, alone>>
deleteVars == <<paths, prefix, victims>>
vars == <<storeVars, clock, faults, ingestVars, pc, markVars, records, deleteVars>>

Status == {"absent", "available", "expired"}
Pc == {"idle", "models", "mark", "delete", "list", "rows"}

TypeOK ==
    /\ status \in [Datasets -> Status]
    /\ objects \in [Datasets -> SUBSET Files]
    /\ clock \in Nat
    /\ ingests \in [Datasets -> Nat]
    /\ faults \in Nat
    /\ job \in [Ingesters -> Datasets \cup {None}]
    /\ unsent \in [Ingesters -> SUBSET Files]
    /\ pc \in [Workers -> Pc]
    /\ models \in [Workers -> SUBSET Models]
    /\ model \in [Workers -> Models \cup {None}]
    /\ protect \in [Workers -> SUBSET Nat]
    /\ cutoff \in [Workers -> Nat]
    /\ alone \in [Cleaners -> BOOLEAN]
    /\ records \in [Workers -> SUBSET Datasets]
    /\ paths \in [Workers -> SUBSET Datasets]
    /\ prefix \in [Workers -> Datasets \cup {None}]
    /\ victims \in [Workers -> SUBSET Files]

Init ==
    /\ status = [d \in Datasets |-> "absent"]
    /\ objects = [d \in Datasets |-> {}]
    /\ clock = 0
    /\ ingests = [d \in Datasets |-> 0]
    /\ faults = 0
    /\ job = [i \in Ingesters |-> None]
    /\ unsent = [i \in Ingesters |-> {}]
    /\ pc = [w \in Workers |-> "idle"]
    /\ models = [w \in Workers |-> {}]
    /\ model = [w \in Workers |-> None]
    /\ protect = [w \in Workers |-> {}]
    /\ cutoff = [w \in Workers |-> 0]
    /\ alone = [c \in Cleaners |-> FALSE]
    /\ records = [w \in Workers |-> {}]
    /\ paths = [w \in Workers |-> {}]
    /\ prefix = [w \in Workers |-> None]
    /\ victims = [w \in Workers |-> {}]

(***************************************************************************)
(* Queries on the rows.  Every reader of the catalogue sees only the       *)
(* available ones.                                                         *)
(***************************************************************************)

Available == {d \in Datasets : status[d] = "available"}
\* Mutant: the query forgets its WHERE clause.
Expired_AnyStatus == {d \in Datasets : status[d] # "absent"}

Expired == {d \in Datasets : status[d] = "expired"}

\* get_model_runs_with_counts
ModelRuns(m) == {TimeOf[d] : d \in {e \in Available : ModelOf[e] = m}}

\* Mutant: off by one, so that N = 1 protects nothing.
LatestRuns_OffByOne(m, n) ==
    {t \in ModelRuns(m) : Cardinality({u \in ModelRuns(m) : u >= t}) < n}

\* The query's order is newest first, and both cleanups take the first N.
LatestRuns(m, n) ==
    {t \in ModelRuns(m) : Cardinality({u \in ModelRuns(m) : u > t}) < n}

(***************************************************************************)
(* The ingester.                                                           *)
(***************************************************************************)

\* A request arrives and its message is unpacked and written as a local
\* Zarr directory.  Nothing keeps two requests from writing one dataset.
IngestStart(i, d) ==
    /\ job[i] = None
    /\ ingests[d] < MaxIngests
    /\ TimeOf[d] <= clock
    /\ job' = [job EXCEPT ![i] = d]
    /\ unsent' = [unsent EXCEPT ![i] = Files]
    /\ ingests' = [ingests EXCEPT ![d] = @ + 1]
    /\ UNCHANGED <<storeVars, clock, faults, pc, markVars, records, deleteVars>>

\* upload_zarr_directory puts one file.
IngestPut(i) ==
    /\ job[i] # None
    /\ \E f \in unsent[i] :
         /\ objects' = [objects EXCEPT ![job[i]] = @ \cup {f}]
         /\ unsent' = [unsent EXCEPT ![i] = @ \ {f}]
    /\ UNCHANGED <<status, clock, faults, ingests, job, pc, markVars, records,
                   deleteVars>>

\* Mutant: the row is registered before the upload is over.
IngestRegister_BeforeUpload(i) ==
    /\ job[i] # None
    /\ status' = [status EXCEPT ![job[i]] = "available"]
    /\ job' = [job EXCEPT ![i] = None]
    /\ UNCHANGED <<objects, clock, faults, ingests, unsent, pc, markVars, records,
                   deleteVars>>

\* register_dataset upserts the row once every file is up: also a row that
\* is expired becomes available again.
IngestRegister(i) ==
    /\ job[i] # None
    /\ unsent[i] = {}
    /\ status' = [status EXCEPT ![job[i]] = "available"]
    /\ job' = [job EXCEPT ![i] = None]
    /\ UNCHANGED <<objects, clock, faults, ingests, unsent, pc, markVars, records,
                   deleteVars>>

\* A put or the upsert fails, or the ingester dies: the files stay behind.
IngestFail(i) ==
    /\ job[i] # None
    /\ faults < MaxFaults
    /\ faults' = faults + 1
    /\ job' = [job EXCEPT ![i] = None]
    /\ unsent' = [unsent EXCEPT ![i] = {}]
    /\ UNCHANGED <<storeVars, clock, ingests, pc, markVars, records, deleteVars>>

(***************************************************************************)
(* The cleanup task: one cycle of run_once.                                *)
(***************************************************************************)

\* A cycle begins: those it meets are no longer alone, and nor is it.
Overlap(c) ==
    alone' = [x \in Cleaners |-> x = c /\ \A b \in Cleaners \ {c} : pc[b] = "idle"]

\* Mutant: static models are not skipped.
CleanBegin_AllModels(c) ==
    /\ pc[c] = "idle"
    /\ models' = [models EXCEPT ![c] = {ModelOf[d] : d \in Available}]
    /\ protect' = [protect EXCEPT ![c] = {}]
    /\ Overlap(c)
    /\ pc' = [pc EXCEPT ![c] = "models"]
    /\ UNCHANGED <<storeVars, clock, faults, ingestVars, model, cutoff, records,
                   deleteVars>>

\* list_models; static models are skipped.
CleanBegin(c) ==
    /\ pc[c] = "idle"
    /\ models' = [models EXCEPT ![c] = {ModelOf[d] : d \in Available} \ StaticModels]
    /\ protect' = [protect EXCEPT ![c] = {}]
    /\ Overlap(c)
    /\ pc' = [pc EXCEPT ![c] = "models"]
    /\ UNCHANGED <<storeVars, clock, faults, ingestVars, model, cutoff, records,
                   deleteVars>>

\* One model: the clock is read, then its runs.  With no run left there is
\* nothing to mark.
CleanExamine(c, m) ==
    /\ pc[c] = "models"
    /\ m \in models[c]
    /\ models' = [models EXCEPT ![c] = @ \ {m}]
    /\ model' = [model EXCEPT ![c] = m]
    /\ cutoff' = [cutoff EXCEPT ![c] = clock]
    /\ protect' = [protect EXCEPT ![c] = LatestRuns(m, KeepLatest[m])]
    /\ pc' = [pc EXCEPT ![c] = IF ModelRuns(m) = {} THEN "models" ELSE "mark"]
    /\ UNCHANGED <<storeVars, clock, faults, ingestVars, alone, records, deleteVars>>

\* Mutant: the NOT IN clause is missing.
Overdue_Unprotected(c) ==
    {d \in Available : /\ ModelOf[d] = model[c]
                       /\ TimeOf[d] + Retention[model[c]] < cutoff[c]}

\* The rows mark_model_expired_except_runs updates.
Overdue(c) ==
    {d \in Available : /\ ModelOf[d] = model[c]
                       /\ TimeOf[d] + Retention[model[c]] < cutoff[c]
                       /\ TimeOf[d] \notin protect[c]}

CleanMark(c) ==
    /\ pc[c] = "mark"
    /\ status' = [d \in Datasets |-> IF d \in Overdue(c) THEN "expired" ELSE status[d]]
    /\ pc' = [pc EXCEPT ![c] = "models"]
    /\ UNCHANGED <<objects, clock, faults, ingestVars, markVars, records, deleteVars>>

\* get_expired_storage_paths, whoever marked them; with none the cycle ends.
CleanPaths(c) ==
    /\ pc[c] = "models"
    /\ models[c] = {}
    /\ paths' = [paths EXCEPT ![c] = Expired]
    /\ pc' = [pc EXCEPT ![c] = IF Expired = {} THEN "idle" ELSE "delete"]
    /\ UNCHANGED <<storeVars, clock, faults, ingestVars, markVars, records, prefix,
                   victims>>

\* Mutant: the rows go before the files.
CleanPurge_First(c) ==
    /\ pc[c] = "delete"
    /\ status' = [d \in Datasets |-> IF status[d] = "expired" THEN "absent" ELSE status[d]]
    /\ pc' = [pc EXCEPT ![c] = "idle"]
    /\ UNCHANGED <<objects, clock, faults, ingestVars, markVars, records, deleteVars>>

\* Mutant: the rows stay, with a status no query knows.
CleanPurge_Soft(c) ==
    /\ pc[c] = "delete"
    /\ paths[c] = {} /\ prefix[c] = None
    /\ status' = [d \in Datasets |-> IF status[d] = "expired" THEN "deleted" ELSE status[d]]
    /\ pc' = [pc EXCEPT ![c] = "idle"]
    /\ UNCHANGED <<objects, clock, faults, ingestVars, markVars, records, deleteVars>>

\* delete_expired removes every row that is expired by now.
CleanPurge(c) ==
    /\ pc[c] = "delete"
    /\ paths[c] = {} /\ prefix[c] = None
    /\ status' = [d \in Datasets |-> IF status[d] = "expired" THEN "absent" ELSE status[d]]
    /\ pc' = [pc EXCEPT ![c] = "idle"]
    /\ UNCHANGED <<objects, clock, faults, ingestVars, markVars, records, deleteVars>>

(***************************************************************************)
(* delete_prefix, which both tasks call for each path: list the directory, *)
(* then delete the files listed.                                           *)
(***************************************************************************)

DeleteList(w, d) ==
    /\ pc[w] = "delete"
    /\ prefix[w] = None
    /\ d \in paths[w]
    /\ paths' = [paths EXCEPT ![w] = @ \ {d}]
    /\ prefix' = [prefix EXCEPT ![w] = d]
    /\ victims' = [victims EXCEPT ![w] = objects[d]]
    /\ UNCHANGED <<storeVars, clock, faults, ingestVars, pc, markVars, records>>

DeleteFile(w) ==
    /\ pc[w] = "delete"
    /\ prefix[w] # None
    /\ \E f \in victims[w] :
         /\ objects' = [objects EXCEPT ![prefix[w]] = @ \ {f}]
         /\ victims' = [victims EXCEPT ![w] = @ \ {f}]
    /\ UNCHANGED <<status, clock, faults, ingestVars, pc, markVars, records, paths,
                   prefix>>

DeleteDone(w) ==
    /\ pc[w] = "delete"
    /\ prefix[w] # None /\ victims[w] = {}
    /\ prefix' = [prefix EXCEPT ![w] = None]
    /\ UNCHANGED <<storeVars, clock, faults, ingestVars, pc, markVars, records, paths,
                   victims>>

\* The listing or a delete fails: the rest of the directory is left, the
\* error is counted and the cycle goes on with the next path.
DeleteFail(w) ==
    /\ pc[w] = "delete"
    /\ prefix[w] # None
    /\ faults < MaxFaults
    /\ faults' = faults + 1
    /\ prefix' = [prefix EXCEPT ![w] = None]
    /\ victims' = [victims EXCEPT ![w] = {}]
    /\ UNCHANGED <<storeVars, clock, ingestVars, pc, markVars, records, paths>>

(***************************************************************************)
(* The sync task: one cycle of run_sync(true).                             *)
(***************************************************************************)

\* get_all_storage_paths: the available rows.
SyncReadRows(s) ==
    /\ pc[s] = "idle"
    /\ records' = [records EXCEPT ![s] = Available]
    /\ pc' = [pc EXCEPT ![s] = "list"]
    /\ UNCHANGED <<storeVars, clock, faults, ingestVars, markVars, deleteVars>>

\* Mutant: grids/ is not among the directories whose orphans are deleted.
SyncList_RowsOnly(s) ==
    LET listed == {d \in Datasets : objects[d] # {}} IN
    /\ pc[s] = "list"
    /\ records' = [records EXCEPT ![s] = @ \ listed]
    /\ paths' = [paths EXCEPT ![s] = {}]
    /\ pc' = [pc EXCEPT ![s] = "rows"]
    /\ UNCHANGED <<storeVars, clock, faults, ingestVars, markVars, prefix, victims>>

\* The listing of MinIO.  A directory counts as present with one file of it
\* there; both kinds of orphan are computed from the two snapshots.
SyncList(s) ==
    LET listed == {d \in Datasets : objects[d] # {}} IN
    /\ pc[s] = "list"
    /\ records' = [records EXCEPT ![s] = @ \ listed]
    /\ paths' = [paths EXCEPT ![s] = listed \ records[s]]
    /\ pc' = [pc EXCEPT ![s] = "rows"]
    /\ UNCHANGED <<storeVars, clock, faults, ingestVars, markVars, prefix, victims>>

\* delete_orphan_records, by path and whatever the row's status is now.
SyncDropRows(s) ==
    /\ pc[s] = "rows"
    /\ status' = [d \in Datasets |-> IF d \in records[s] THEN "absent" ELSE status[d]]
    /\ records' = [records EXCEPT ![s] = {}]
    /\ pc' = [pc EXCEPT ![s] = "delete"]
    /\ UNCHANGED <<objects, clock, faults, ingestVars, markVars, deleteVars>>

\* A failed delete of the rows is recorded and the cycle goes on.
SyncDropRowsFail(s) ==
    /\ pc[s] = "rows"
    /\ records[s] # {}
    /\ faults < MaxFaults
    /\ faults' = faults + 1
    /\ records' = [records EXCEPT ![s] = {}]
    /\ pc' = [pc EXCEPT ![s] = "delete"]
    /\ UNCHANGED <<storeVars, clock, ingestVars, markVars, deleteVars>>

SyncEnd(s) ==
    /\ pc[s] = "delete"
    /\ paths[s] = {} /\ prefix[s] = None
    /\ pc' = [pc EXCEPT ![s] = "idle"]
    /\ UNCHANGED <<storeVars, clock, faults, ingestVars, markVars, records, deleteVars>>

(***************************************************************************)
(* A query or a listing that is not caught ends the cycle; so does the     *)
(* death of the instance.  The next tick starts a fresh one.               *)
(***************************************************************************)
WorkerAbort(w) ==
    /\ pc[w] # "idle"
    /\ faults < MaxFaults
    /\ faults' = faults + 1
    /\ pc' = [pc EXCEPT ![w] = "idle"]
    /\ models' = [models EXCEPT ![w] = {}]
    /\ protect' = [protect EXCEPT ![w] = {}]
    /\ records' = [records EXCEPT ![w] = {}]
    /\ paths' = [paths EXCEPT ![w] = {}]
    /\ prefix' = [prefix EXCEPT ![w] = None]
    /\ victims' = [victims EXCEPT ![w] = {}]
    /\ UNCHANGED <<storeVars, clock, ingestVars, model, cutoff, alone>>

Tick ==
    /\ clock < MaxClock
    /\ clock' = clock + 1
    /\ UNCHANGED <<storeVars, faults, ingestVars, pc, markVars, records, deleteVars>>

DeleteStep(w) ==
    \/ \E d \in Datasets : DeleteList(w, d)
    \/ DeleteFile(w)
    \/ DeleteDone(w)

CleanStep(c) ==
    \/ CleanBegin(c)
    \/ \E m \in Models : CleanExamine(c, m)
    \/ CleanMark(c)
    \/ CleanPaths(c)
    \/ CleanPurge(c)

SyncStep(s) ==
    \/ SyncReadRows(s)
    \/ SyncList(s)
    \/ SyncDropRows(s)
    \/ SyncEnd(s)

IngestStep(i) ==
    \/ \E d \in Datasets : IngestStart(i, d)
    \/ IngestPut(i)
    \/ IngestRegister(i)
    \/ IngestFail(i)

Next ==
    \/ \E i \in Ingesters : IngestStep(i)
    \/ \E c \in Cleaners : CleanStep(c)
    \/ \E s \in Syncers : SyncStep(s) \/ SyncDropRowsFail(s)
    \/ \E w \in Workers : DeleteStep(w) \/ DeleteFail(w) \/ WorkerAbort(w)
    \/ Tick

Spec == Init /\ [][Next]_vars

(***************************************************************************)
(* Both tasks loop on a timer, so a cycle that can go on does; requests    *)
(* and failures owe nothing.                                               *)
(***************************************************************************)
Fairness ==
    /\ \A c \in Cleaners : WF_vars(CleanStep(c) \/ DeleteStep(c))
    /\ \A s \in Syncers : WF_vars(SyncStep(s) \/ DeleteStep(s))

FairSpec == Spec /\ Fairness

(***************************************************************************)
(* Properties.                                                             *)
(***************************************************************************)

\* What a reader relies on: a dataset whose row is available has every one
\* of its files, so opening it neither fails nor reads a missing chunk as
\* fill values.  It rests on the order of the calls (files before the row,
\* row expired before the files go, path list after the mark) and holds for
\* any number of cleanup tasks while each dataset is ingested once and no
\* sync task runs.
AvailableComplete == \A d \in Available : objects[d] = Files

\* The retention safeguard: the runs a cleanup cycle chose to protect are
\* still served until it looks at the next model, also when newer or older
\* runs arrive between its query and its update.  A second cycle that
\* overlaps it may have chosen others, and takes them.
ProtectedServed ==
    \A c \in Cleaners : alone[c] => protect[c] \subseteq ModelRuns(model[c])

\* A cleanup update never takes the last run a model serves, also during an
\* ingestion outage that lets all of its runs grow older than the retention.
\* Of two cycles that overlap, each can take what the other protects.
NeverEmptied ==
    [][\A c \in Cleaners : CleanMark(c) /\ alone[c] =>
         \A m \in Models : KeepLatest[m] > 0 /\ ModelRuns(m) # {} => ModelRuns(m)' # {}]_vars

\* Somebody answers for what is there of d: its row, a request that writes
\* it, or a task that is about to delete the directory or holds a list of
\* all that is left of it.
OnList(d) ==
    \E w \in Workers :
        /\ pc[w] \in {"rows", "delete"}
        /\ d \in paths[w] \/ (d = prefix[w] /\ objects[d] \subseteq victims[w])

CaredFor(d) ==
    \/ status[d] # "absent"
    \/ objects[d] = {}
    \/ \E i \in Ingesters : job[i] = d
    \/ OnList(d)

\* No step leaves files that nobody answers for, while no call fails, with
\* any number of cleanup and sync tasks and of ingestions.  The code makes
\* two exceptions, and the next sync cycle collects what they leave: a sync
\* task deletes rows it judged by an old listing; and a cleanup cycle that
\* deletes the expired rows takes those along that another cycle marked
\* after this one read its path list, if that one has not read its own yet.
NoLeak ==
    [][\A d \in Datasets : CaredFor(d) /\ ~CaredFor(d)' =>
         \/ faults' > 0
         \/ \E s \in Syncers : SyncDropRows(s)
         \/ \E c, b \in Cleaners :
              /\ CleanPurge(c)
              /\ c # b /\ pc[b] \in {"models", "mark"}]_vars

\* A dataset is settled when its row and its files are there and no task
\* holds anything against it: no list of directories to delete, no record
\* found without files, no reading of the rows from before it came.
Settled(d) ==
    /\ d \in Available /\ objects[d] = Files
    /\ \A w \in Workers : d \notin paths[w] /\ d # prefix[w]
    /\ \A s \in Syncers :
         /\ pc[s] = "list" => d \in records[s]
         /\ pc[s] = "rows" => d \notin records[s]

\* A settled static dataset is served for ever: through every cleanup and
\* sync cycle, its own ingestion anew, and failures and crashes.
StaticServed ==
    [][\A d \in Datasets : ModelOf[d] \in StaticModels /\ Settled(d) => Settled(d)']_vars

\* The sync task brings the stores together whatever faults, crashes and
\* races came before: once requests and faults stop, the directories in the
\* object store are those of the available rows and no others.
StoresConverge == <>[](Available = {d \in Datasets : objects[d] # {}})

\* What main.rs says of the sync task: it deletes only what the database
\* does not track.
SyncDeletesOnlyOrphans ==
    [][\A s \in Syncers : DeleteFile(s) => prefix[s] \notin Available]_vars

\* The abstract catalogue this one implements when each dataset is ingested
\* once and no sync task runs.
Served == INSTANCE ServedDatasets WITH served <- Available, content <- objects
ServesCompleteDatasets == Served!Spec
=============================================================================
