# A TLA+ model of JoeGCServices

JoeGCServices serves weather data. A *downloader* fetches GRIB2 and NetCDF files
from public sources, an *ingester* turns each file into Zarr directories in MinIO
and rows in PostgreSQL, and two readers, *wms-api* and *edr-api*, answer map and
data requests from them. `wms-api` also runs the background tasks that expire old
data and mend what the stores disagree on.

The project specifies the parts of that system in which several tasks change
shared state without a common transaction, checks them with TLC on small
instances, and proves the central invariants with TLAPS for every value of the
constants.

- [Inventory](#inventory)
- [Plan](#plan)
- [Modules and the code](#modules-and-the-code)
- [Runs](#runs)
- [Fairness](#fairness)
- [Proofs](#proofs)
- [What the code and its documents disagree on](#what-the-code-and-its-documents-disagree-on)
- [Not modelled](#not-modelled)

## Inventory

How data moves:

```
 source ──HTTP──> downloader ──POST /ingest──> ingester ──put──> MinIO (grids/*.zarr)
                  │ SQLite (downloads,          │
                  │ completed_downloads)        └─upsert─> PostgreSQL (datasets)
                  │ /data/downloads                            │      │
                  └─ cleanup task (retry, give up, sweep)      │      └─ readers: wms-api, edr-api
                                                               └─ wms-api tasks: cleanup, sync
```

| component | state it keeps | operations that change it | hard behaviour | what makes it correct |
|---|---|---|---|---|
| **Catalogue and object store** `crates/storage/src/{catalog,object_store}.rs` | `datasets` rows with a status; one directory of objects per row | upsert a row, mark rows expired, delete expired rows, delete rows by path; put, list, delete an object | no transaction spans the two stores | a row that is available has all of its objects; objects without a row do not stay |
| **Ingestion** `crates/ingestion` | none across requests | put each file of a Zarr directory, then upsert the row | a put or an upsert fails half way; two requests write one dataset | files first, row last; a success means all of it is registered |
| **Cleanup and sync tasks** `services/wms-api/src/cleanup.rs` | local variables of a cycle: runs to protect, paths, snapshots | mark, list, delete files, delete rows; compare the stores and delete orphans | every cycle works on snapshots; each instance, and the admin endpoint, runs its own; deletes fail | protected runs stay, a model never loses its last run, no leak, stores converge, tracked data is not deleted |
| **Concurrency control** `services/downloader/src/concurrency.rs` | one semaphore per model, a shared one, a counter | acquire (own slot, pool, wait), drop of a guard | runners in parallel; hand-over to waiters; permit and counter change apart | no permit lost or made up, limits hold, no model blocks another |
| **Model runners** `services/downloader/src/{model_runner,lis_runner,scheduler}.rs` | none across cycles but the database | a cycle: discover, download newest first, record, post, mark, delete the file | cycles interleave with the cleanup task; requests time out; process dies | every file gets its turn; nothing is deleted before it was ingested |
| **State database** `services/downloader/src/state.rs` | tables `downloads`, `completed_downloads` | add, update a status (three statements), mark ingested, delete a record | a crash between statements | the database and the directory can always be brought together again |
| **Downloader cleanup** `services/downloader/src/cleanup.rs` | lists of one cycle | retry pending files, give up stale ones, sweep ingested ones, partial files, prune | it works on rows that the runner works on too | one request per file at a time; files drain |
| **Transfer** `services/downloader/src/{download,grib_index}.rs` | a partial file | resume with a range request, restart on 200, selective ranges, move or copy | what is on disk may come from another kind of transfer | the final file is the source's file |
| **Ingester service** `services/ingester/src` | a tracker of recent ingestions | `ingest_handler`, observation endpoints | the answer does not say what was skipped | an answer of success is the truth |
| **Observation runners** `observation_runner.rs`, `ndbc_runner.rs`, `dart_runner.rs` | none | poll, parse, post; no retry but the next poll | a post times out, a part of a batch is refused | what stays published is stored in the end |
| **Observation store and its handlers** `observations.rs`, `ingester/src/server.rs` | tables of stations, observations, TAFs and their periods | upsert stations, insert observations, replace a TAF in a transaction; queries | rows refer to stations written by another statement; a reader's two queries have no transaction | no observation without its station, readers see whole TAFs and never go back |
| **Chunk cache** `grid-processor/src/{cache/chunk_cache,processor/zarr,factory}.rs` | decompressed chunks, order of use, accounted memory | look up, fetch, insert, clear | the lock is released while a chunk is fetched; paths are written again in place | content within the limit; a clear is final; no read is answered with what was overwritten before it |
| **Tile caches** `storage/src/{tile_memory_cache,cache}.rs`, `wms-api/src/handlers/wmts.rs` | L1 in the process, L2 in Redis | get, set, promote, prefetch, evict, expire, clear | spawned tasks store late; lifetimes add up; nothing is invalidated on ingestion | L1 counts what it holds and keeps its limit; staleness is bounded |
| **Grid reading** `grid-processor/src/{types,downsample,service}.rs`, `processor/zarr.rs`, `edr-api/src/resampling.rs` | none | from a box or a point to cells, chunks, a region, a level of the pyramid; areas across both meridians | longitudes in two conventions, rounding to cells, partial chunks at the edge, rows from north or south | every cell that was asked for, at the place the answer gives, at a level that has enough of them |
| **Capabilities and location caches** `capabilities_cache.rs`, `location_cache.rs` | documents, responses | get, set, invalidate, expire | a document built before an invalidation | nothing stale past its time |
| **Memory pressure, warming** `memory_pressure.rs`, `chunk_warming.rs`, `warming.rs` | a set of warmed keys | evict, refill | background tasks that undo each other | limits hold whatever is evicted |
| **WMS, WMTS, EDR APIs**, protocol crates, renderer, parsers | none but the caches | read-only | a request holds a row or a cached value while others delete or clear | answers are of one state of the data |

`PROJECT.json` has the hazards of this code, each at its line with the properties
that would catch it.

## Plan

Done, in order of importance:

1. `DatasetStore`, with the abstract `ServedDatasets`: what readers rely on.
2. `DownloadSlots`: the two-tier semaphores.
3. `DownloadLifecycle`: a file from discovery to deletion, across runner, cleanup
   task, ingester and crashes.
4. `Transfer`: the ranges and resumptions that bring one file in, below the last
   byte that `DownloadLifecycle` starts from.
5. `ChunkCache` over `LruCache`: reads of regions through the chunk cache, beside
   ingestions, clears and memory pressure.
6. `TileServing` over `LruCache`: a GetTile request through L1, Redis and the
   renderer, with prefetching.
7. `ObservationFeeds`, with the abstract `ServedTafs`: the four feeds of point data from
   source to reader.
8. `GridReads`: what a request for a box or a point reads of a grid, checked against
   reference definitions.
9. `Discovery`: what the model runners look for, against the clock.

Next:

10. `Redownload`: `DownloadLifecycle` with `always_redownload`
   (`expire_completed_downloads`, content that changes behind a url, the sweep's
   modification time). Runs: one url, two versions, one crash.
11. `CapabilitiesCache` composed with the cleanup task of `DatasetStore`.
12. The ingestion tracker, `merge_ranges` of `grib_index.rs` against a reference
    definition.
13. Refinements of abstract specifications: `Transfer` of "the file arrives at once, and
    whole", `DownloadLifecycle` of "kept until answered".

## Modules and the code

Every definition is traced to its lines in the `map` of `PROJECT.json`.
`MC*.tla` modules only give the constants their values. A comment `Mutant:` marks
the form a definition would take with a plausible mistake; each property is
violated by at least one of them, so each says something about the code.

### DatasetStore, ServedDatasets

| state | code |
|---|---|
| `status[d]` | the `status` column of d's row, `"absent"` without a row |
| `objects[d]` | the objects under d's `.zarr` prefix |
| `job`, `unsent` | a request in the ingester and what `upload_zarr_directory` has left |
| `pc`, `models`, `model`, `protect`, `cutoff`, `paths` | locals of `run_once`: model loop, `runs_to_protect`, `cutoff`, `expired_paths` |
| `records` | `db_paths` of `run_sync`, then its `orphan_db_paths` |
| `prefix`, `victims` | `delete_prefix`: the directory and the keys it listed |
| `alone[c]` | whether no other cleanup cycle overlapped c's present one so far (a history variable) |

One action is one round trip to PostgreSQL or MinIO; the code holds no lock across
two of them. `IngestStart/Put/Register/Fail` is `ingest_grib2` with
`write_and_upload_zarr`; `CleanBegin`, `CleanExamine`, `CleanMark`, `CleanPaths`,
`DeleteList/File/Done/Fail`, `CleanPurge` is one cycle of the cleanup task;
`SyncReadRows`, `SyncList`, `SyncDropRows(Fail)`, `Delete…`, `SyncEnd` is one of the
sync task; `WorkerAbort` is an error propagated with `?` or the death of the
instance. Forecast and observation models take the same path: both protect the N
latest reference times. The datasets of one run are put by separate actions, so a
run can be half ingested (the runs of `retention` have one each, to make room for the
second cleanup cycle). Abstracted: what is in a file, names of parameters and
levels (a dataset is a model value), the grib filter, the size columns, the
`raw/` and `shredded/` directories.

A cleanup cycle has nothing that keeps a second one out: every instance runs its own,
and `POST /api/admin/cleanup/run` (`admin.rs:1513`) starts one beside the periodic
one. `Cleaners` may hold any number, `Overlap` notes when two meet. What that costs
in this code is stated in the properties rather than assumed away:

- Each of two cycles queries the runs to protect for itself. If a run arrives between the
  two queries they protect different ones, and each update takes what the other
  protects. `ProtectedServed` and `NeverEmptied` speak of a cycle that is `alone`.
- `delete_expired` (`cleanup.rs:452`) removes all expired rows, also those that the other cycle
  marked after this one read its paths. If the other has not read its own yet, their
  files have neither row nor deletion. `NoLeak` names that step, and the other that
  does so, the deletion of rows by a sync task from an old listing: no other step,
  of any number of cleanup and sync tasks, takes the last one away who answers for a
  file (its row, a request writing it, a list it is on: `CaredFor`), unless a call
  fails. `StoresConverge` has the sync task collect what is left. Without the exception, or
  without `alone`, TLC finds the counterexample in `retention`.

`StaticServed` is about datasets that are `Settled`: row and files are there, and no
worker holds a path, a listing or a snapshot against them. Cleanup never expires them and
sync deletes nothing that is in both stores when it looks, so a settled static dataset
stays settled for ever. One that a sync task caught before it was settled can go
once: that is the finding of `sync_race`.

`ServedDatasets` is what the two stores promise a reader together: a dataset is
served only when complete, and no file of it goes while it is served.
`DatasetStore` implements it with `served <- Available, content <- objects`.

### DownloadSlots

`guaranteedFree[m]`, `sharedFree` and `waiters[m]` are the tokio semaphores
(a released permit goes to the first waiter, never back to the free ones while
somebody waits), `active` is `active_downloads`. `phase[f]` and `slot[f]` are the
position of a file's future in `download_files` and the variant of its
`DownloadSlotGuard`. `StartCycle` is a cycle of `run_forever`; `NextInLine` is
`buffer_unordered(max_concurrent)` over the list sorted newest first;
`TakeGuaranteed`, `TakeShared`, `Wait` are the three attempts of `acquire`; `Count`
is the increment after it; `Finish` and `Release…` are the two halves of `drop`.
The shared pool has no waiters: `acquire` only tries it.

### DownloadLifecycle

| state | code |
|---|---|
| `row[u]`, `done[u]` | u's rows in `downloads` and `completed_downloads`; the latter with its age as `process_pending_files` divides it |
| `file[u]` | u's file under its final name; `"torn"` while its content is being written |
| `answered[u]` | whether an ingestion request for the file now there was answered with success (a history variable) |
| `registered[u]` | the datasets of u in the catalogue |
| `run[u]`, `sent[u]` | u's future in `download_files` or `download_nldas_files`, and what the ingester read for its request |
| `clean`, `cur`, `csent`, `retry`, `stale`, `orphans` | the cleanup task and its lists |

The runner: `Discover`, `Begin`, `Fetched`, `Copied`, `StatusUpdate/Insert/Delete`
(the three statements of `update_status`), `Post`, `Answer`, `Mark`, `Unlink`, with
`FetchFail` and `StatusFail`. The cleanup task: `CleanRead`, then for each ripe file
`CleanPost`, `CleanAnswer`, `CleanMark`, `CleanUnlink`, for each stale one
`CleanStale`, `CleanForget`, then `CleanSweep`, `CleanOrphan`, `CleanEnd`. `Crash`
keeps the database and the directory only. `Success` and `Failure` are the
ingester's answer: a timeout may follow any part of the work, and an answer of
success says nothing of the datasets that were skipped.

A transfer is abstracted to its last byte (`Fetched`): what a partial file holds is
the subject of `Transfer`. Ages are classes (`new`, `ripe`, `stale`); `Age` cannot
make a row ripe while the runner is at it, because a request times out after 30
seconds and a retry waits for five minutes. That is the one timing assumption.

### Transfer

| state | code |
|---|---|
| `partial`, `linked` | `<name>.partial` in the temp directory, a sequence of pieces of the source; whether the open file handle still has that name |
| `final` | the file in the download directory |
| `saved`, `total` | `total_bytes` of the row in `downloads`, and of the `DownloadProgress` in memory |
| `pc`, `ranged`, `pos`, `tries` | where `download_selective` or `download_with_resume` is, `supports_range`, the next piece, `retry_count` |
| `stating` | whether the server states lengths at all |
| `stale`, `doomed` | `cleanup_partial_files`: the age it reads, and the file it is about to remove |
| `cleans` | how often it removed the file of a running download |
| `Selection`, `Cuts` | the bytes of the merged ranges of an index, and where each range ends |
| `spoilt` | whether what is in the file was received in ranges of another length, or by a selective download that died (a history variable) |

A cycle (`Begin`) first tries the byte ranges of a model with an index: `IndexFound`
truncates the partial file, `RangeGet` writes the body of one range, `RangesDone` gives the
file its final name, `RangeFail` removes it, and `NoIndex` leaves it alone. A body from half
to twice the length of its range is written (`Tolerated`: `download.rs:725-755` warns
beyond 10 percent and refuses beyond a factor of two), and no total is checked before the file gets
its final name (`download.rs:595-608`). The last two
go on with the full download: `AskHead`, `Measure` (the length of the partial file
decides what is asked for), one of the three answers `PartialContent`,
`FullContent`, `NotSatisfiable`, then `Receive` piece by piece, `StreamEnd`, and
`Deliver` or `Mismatch` by length. `Fail` is a request or stream that fails, followed
by a retry or by giving up. `Age`, `CleanLook` and `CleanRemove` are the cleanup task,
which knows names and ages only. `Crash` keeps the partial file, the row and the
delivered file. The server is free in every answer: ranges supported or not, 200
or 206 to a range request. Abstracted: a piece stands for any number of bytes; the
source does not change during the transfer (`skip_size_validation` is for sources
where it does); the existence check of `download` and the copy across devices are in
`DownloadLifecycle`.

### LruCache, ChunkCache

`LruCache` is what the `lru` crate gives both caches: keys with sizes and a list in
the order of last use.

| state | code |
|---|---|
| `copy`, `recent`, `counted` | entries of `ChunkCache::cache`, their order of use, `current_memory` |
| `stored[c]` | how often the object of chunk c was overwritten: its version |
| `uploading[p]` | the chunks that a running `upload_zarr_directory` to array p has still to put |
| `step`, `data` | where a reader of a region is with each chunk, and the version it holds |
| `asked`, `floor` | what was stored when the reader asked; the oldest version about at the last clear (history variables) |

`BeginRegion` is `read_region` up to its list of chunks, `Hit`, `Miss`, `Fetch`,
`FetchFails` and `Fill` are `read_chunk`, with the cache's lock taken in `Hit`, `Miss`
and `Fill` only. `join_all` polls one future at a time and the fetch blocks, so a reader
that missed goes on with that chunk before it looks at another (`Polling`). `Insert`
follows `ChunkCache::insert` line by line where it matters: entries are popped while
the *counted* memory is too much, a replaced entry and one pushed out by the capacity
of the `LruCache` are not taken off. `Clear` is the clearing by two endpoints,
`RelievePressure` that of the pressure monitor, which has no other way to evict
chunks. `BeginUpload`, `UploadObject`, `UploadFails` overwrite an array object by
object. Abstracted: what is in a chunk (a version), the hash of the path (taken as
injective), statistics.

### TileServing

| state | code |
|---|---|
| `l1`, `recent`, `bytes` | `TileMemoryCache`: entries, order of use, `stats.size_bytes` |
| `l2`, `mutex` | tiles in Redis; the mutex around its connection, `state.cache` |
| `pc`, `tile` | where a request or a spawned task is, and the tile it is about |
| `age`, `drawn` | the time since the task began, and since the drawing of the image it holds began |

`GetTileHit/Miss`, `FoundInL2/NotInL2`, `Promote`, `Check`, `Render`, `Fail`, `Answer` are
`wmts_get_tile` from its look into L1 on; `Spawn` starts the task that stores the tile
in Redis and those of `spawn_tile_prefetch`, whose steps are `AheadFound` to
`StoreFails`. L1 is one lock per operation; the mutex is held from a hit in Redis until
the answer, so `Promote` releases it. Time is counted in ticks; Redis drops a key when
its seconds are over (`Tick`) or when it needs memory (`Evict`), L1 drops an entry when
somebody looks at it. Not in the model: tiles of the start-up warmer, which are
stored in L1 under keys in another form than the request's and are never found.

### ObservationFeeds, ServedTafs

| state | code |
|---|---|
| `published[f][s]` | the number of the report that feed f's source shows for station s |
| `located`, `observed`, `heads`, `periods` | the tables `locations`, `observations`, `taf_forecasts`, `taf_periods` |
| `at`, `batch`, `todo` | a handler's place, the posted reports, those its loop has still to go through |
| `tx` | the open transaction of `upsert_taf` with the rows it sees |
| `reader`, `seen` | the request at `get_latest_taf`; what its client was given last (history) |

`Poll` is one cycle of a runner up to its post. The observation handler is
`UpsertLocation`, `Located`, then `InsertObservation`, `ObservationRejected`,
`InsertFails`, `Inserted`; the TAF handler is `UpsertHeader`, `HeaderRefused`,
`DeletePeriods`, `InsertPeriod`, `Commit`, `PeriodRejected`, `UpsertFails`, `TafsStored` and
then the stations. `Cut` is the 30 seconds of the runner's client or a restart of
either service: hyper drops the handler at its `await`, and the transaction rolls
back. Rows of a TAF become visible at its commit, as under READ COMMITTED; the two
queries of `get_latest_taf` are two actions. `Rejected` are reports with a value that no
column holds. Abstracted: every value but issue times, the metadata of a station,
spatial queries, and the batches of 500 of the DART runner (one batch here).

`ServedTafs` is what `get_latest_taf` promises its clients: a station has one newest TAF,
which gives way to none older, and a request is answered with all of one TAF, the newest
there was when it was looked up or one that took its place before the answer.
`ObservationFeeds` implements it for the stations that are asked for, with `latest` the
greatest report of `heads[s]` (`Newest`) and a request that has taken what is stored under
the issue time it looked up (`Request`).

### GridReads

Reading a grid keeps no state, so the module is one of operators, each a function of
the code, and of one step per request: `ReadTile` (an image, through
`load_grid_data_from_zarr` and the pyramid), `ReadArea` (an EDR rectangle, through
`read_region` and the two `extract_…` functions), `ReadPoint`; `Draw` then makes the
pixels of an image from the region (`Pixel`: `resample_from_geographic`). `EffectiveBox`, `Cells`,
`ChunksForBox`, `ReadChunk`, `AssembleRegion` are the steps of `ZarrGridProcessor::read_region`,
`OptimalLevel` is the choice of the level and `PointValue` the interpolation of a point.

| operator or field | code |
|---|---|
| a box, `Span`, `Turned`, `NormalizeToGrid`, `CrossesOn360` | `BoundingBox` |
| `box`, `shape`, `chunk`, `origin`, `projected`, `full`, `missing` | `GridMetadata` of a dataset, `requires_full_grid` of its model, the native cells without a value |
| `Levels`, `Shape`, `Stored` | `generate_pyramid`, `downsample_2x` |
| `Region` | `GridRegion` |

A value is the set of native cells it was made of: where data come from is kept, what
they are is not. Degrees are whole units in which every division of a box into cells
comes out even. Abstracted: the weights of an interpolation, the rounding of
floating-point numbers, the method of downsampling, the cache (it is in `ChunkCache`),
the polygon mask of an area that is no rectangle, the resampling of projected grids, and
that of images in Web Mercator, which differs in the latitudes of their rows.
The reference definitions do not look at chunks, cells or levels: `NearLon` and `NearLat`
say where a native cell stands on the globe, `TouchedColumns` and `TouchedRows` which
cells a box touches, `Claimed` what a region says of its own place.

### Discovery

A behaviour follows one file of one model, from its appearance at the source to the
first cycle of the runner that fetches it, or past the time at which it is looked for.
The other files of the source are there from their time on, which fills the folders
that are listed. Time is in ticks, and a name that is formatted from a time is that time.

| operator or variable | code |
|---|---|
| `source` | what the YAML of a model says: cycles, forecast hours, `delay_hours`, `poll_interval_secs`, retention as `lookback`; `limit` is `max_results` of a listing |
| `cycle`, `timer` | `run_forever`: in `run_cycle`, or asleep for `poll_interval_secs` |
| `clock` | `Utc::now()` as `latest_available_cycle` or `discover_observation_files` reads it at the beginning; the requests that use it come later |
| `LatestCycle`, `Forecasts` | `latest_available_cycle`, `discover_forecast_files` |
| `MrmsListed`, `GoesListed`, `Listing` | `discover_mrms_files`, `discover_goes_files`, `list_s3_files` |
| `LisTimes`, `SnapToStep` | `build_lis_file_list`, `snap_to_step` |
| `taken`, `downloaded` | the list `files` of a cycle, and the urls that `is_already_downloaded` finds |
| `owed` | that the file appeared while a cycle would still begin in time, faults included (history) |

`Begin` reads the clock, `Look` asks the source by it, `End` fetches, with any request
failing, and `Crash` starts the downloader again, whose first cycle comes at once.
`FirstAsked` and `LastAsked` are the reference: when a runner that looks as it should
looks for a file. Abstracted: parameters and bands (one folder each), the prefix keys of
listings, the order of downloads and the way of a file after it was fetched
(`DownloadSlots`, `DownloadLifecycle`). The files of a LIS model are not looked up: they
are asked for when they are fetched, which the model does in `Look`.

## Runs

| run | question | bounds |
|---|---|---|
| `retention` | do readers always find complete datasets, do protected runs stay, does a model keep a run, in which steps only do files leak, is `ServedDatasets` implemented? | three runs of one model with one dataset each, two files per directory, two requests, two cleanup cycles that may overlap, clock to 3, each dataset once, one failed call or crash |
| `sync` | do catalogue and object store converge, and does a settled static layer stay so? | one run and one static layer, each ingested up to twice, one request, one cleanup and one sync task, no protected run, one fault |
| `sync_race` | does sync delete only what is not tracked? **No.** | as `sync` |
| `slots` | are permits conserved, limits held, is nobody blocked by another model, does every file start? | two models of three files with limits 2 and 3, total of 4, so a pool of two |
| `drain` | does everything ingest and leave the disk, one request at a time, without loss? (That it drains is asked of files that take the common path; an NLDAS file may not, see below.) | a GFS and an NLDAS file, two datasets each, two failed calls, one crash, copy across devices |
| `transfer` | is what arrives the source, also after a crash, how far is its length right, and does it arrive? | six pieces, a selection of two ranges of two, bodies of one to four pieces for each, one retry, three faults, one crash anywhere, one removal of a partial file under a running download and any number between two; servers that state lengths and servers that do not |
| `discovery` | is no model run looked for before its time, and is what appears in time found? (`CaughtInTime`: `LooksBack`, `NothingMissed`) | two forecast models, MRMS, GOES and GLDAS, an hour of two ticks, a day of 24 hours, three starts, the clock from there to beyond the next midnight, any time of appearance, cycles of up to one tick, one fault |
| `chunks` | does the chunk cache stay within its limit, and is a clear final? | three chunks of sizes 1, 3, 1 in two arrays, limit 4 and two entries, two readers, one array overwritten once |
| `stale` | is a read answered with what was overwritten before it began? **Yes.** | as `chunks` |
| `tiles` | does L1 keep its books and its limit, and how stale can a tile be? | two neighbouring tiles of sizes 1 and 2, an L1 of 2, both lifetimes and every delay of one tick, two requests, two spawned tasks |
| `regions` | is what is read of a grid all of what was asked for, where it says it is, from a level with enough pixels, and drawn in the right ones? (`ReadsRight`: `Assembled`, `Placed`, `Covered`, `EnoughPixels`, `PointsRight`; `AnswersRight`: `Drawn`, `AreaClipped`, `AreaWhole`, `AreaFilled`) | a circle of 36 units, of which 24 count as going round; five grids of at most 6 x 4 cells: a global one with three levels, one beyond 180 degrees, one in the west, a projected one with rows from the south, one that goes west beyond the date line and is read whole, as those of GOES; all boxes between 15 longitudes and 5 latitudes, four sizes of image, every point of the globe in whole units |
| `feeds` | does a reader of TAFs see whole ones and never go back, do references hold, does everything arrive, and is `ServedTafs` implemented? | two stations, METAR and TAF with up to three reports each, one amendment, two periods, one refused report per feed, one failure |

Why these are enough. Two files per directory are the least with which a
directory can be half there. Three reference times with one of them protected
leave one expired, one protected and one to arrive; a fourth would repeat the
second. Two cleanup cycles are the least that overlap, and each may begin again when it is over. A clock of 3 lets all three pass the retention of 0 hours. One fault
reaches every error arm, and all that follows one; two in `drain` let a failed
request be followed by a failed mark or delete. Ingesting twice is the least with
which an expired dataset becomes available under a running cycle. Three files per
model, with limits of 2 and 3 on a pool of two, let one model empty the pool, have
a file wait and another one behind it. Two urls are the least with which the
cleanup task works on one while the runner is at another; they also take both
download paths. Ranges of two pieces are the least that can come halved and doubled;
there are two of them, with a piece before and one between, so that a crash can fall between two ranges, and
the selection is neither a prefix of the source nor contiguous. What is delivered has two to eight
pieces of a source of six. With one retry, three faults reach
giving up and a fault in the cycle after it. Three chunks for a cache of two entries
and of less than their size let both the limit and the capacity push an entry out,
also the one that is being inserted again; two readers are the least that insert one
chunk twice. Two tiles that do not fit into L1 together make every promotion evict;
with lifetimes of one tick an image passes through all four delays and both
lifetimes, and the mutant that renews a lifetime breaks the bound. (`EvictTenths` is
10 there and 3 in the code: a third of two entries is none.) Three TAFs, the second
an amendment of the first, let a reader meet an amendment, a newer TAF and a
rollback between its two queries. The grids of `regions` have full and partial chunks
in both directions, sizes that halve evenly and sizes that do not, and a missing cell;
the longitudes of its boxes lie on cell edges and inside cells, on both sides of 0 and of
180 degrees and at them, in both conventions, so that every comparison of the code
is met with less, equal and more.

`ReadsRight` asks `Covered` of requests that touch the grid and lie within a circle east or
west of longitude 0, and `EnoughPixels` where halving is exact. `AnswersRight` asks within the
same circle whether all was drawn and answered, and near its place in rectangles. `AreaClipped` is not asked whether rectangles that end
at longitude 0 are clipped, nor `Drawn` about the strip between the last column and the
first of the globe unless the whole grid was read, nor about the last column of a region
that is wide enough to go round but begins elsewhere (`IsMistaken`): `GlobalWidth`, 359 degrees
in the code, is 24 of 36 units so that there are such regions among the 15 longitudes. The
bounds are two and a half pixels of the level for images, two native ones for rectangles.
What happens in the cases left out is listed below, under what is known. Where an image goes
on beyond 180 degrees in extended notation, `Drawn` asks only for grids in longitudes from
0 to 360 that it be drawn there: the code normalises towards those alone.

The days of `discovery` have their 24 hours, so that folders of hours and days, four runs
a day and windows that cross midnight fall as they do in the code; the starts are at
midnight, on a half hour before noon, and shortly before midnight. How long a cycle takes is bounded
by `MaxBusy` alone: a longer one makes the gap between two cycles longer, and less is owed. One fault is enough for a cycle to be lost and the next to
make up for it. `NothingMissed` owes a file only if a cycle will begin in time after
all faults that may still come, and fails if it is asked for with one cycle less.

`AvailableComplete` is checked with each dataset ingested once and no sync task,
because both break it (the code accepts that; the first is repaired by the sync
task, the second is the finding of `sync_race`). `StoresConverge` covers the rest.
`NoLeak` is stated for steps in which no call fails.

Bounds that are named constants: `MaxClock`, `MaxIngests`, `MaxFaults`, `MaxCrashes`,
`MaxCleans`, `Rewritten`, `MaxVersion`, `Helpers`, `NumReports`, `Asked`, `MaxFailures`, `MaxBusy`, `Horizon`, `Starts`; `MaxRetries` is the code's own.
`Symmetry` (of requests, cleanup cycles, readers and helpers) is used in `retention`, `chunks`, `stale` and `tiles`,
where no liveness is checked.
All but those of `Transfer` check for deadlock:
their tasks loop for ever, so no state may be the last. Those of `Transfer` do not: the
module follows one file and has nothing left to do once it was delivered.

## Fairness

- `DatasetStore`: weak fairness of each cleanup and sync cycle. Both are loops on a
  `tokio::time::interval` that log an error and go on, so a cycle that can take its
  next step does. Requests and faults have none: nothing promises that they come
  or end. Their number is bounded, so they stop, which is what "converges once
  they stop" says.
- `DownloadSlots`: weak fairness of each file's future. Requests have timeouts and
  retries are bounded, so a download ends, well or badly. Starting a cycle has
  none: the source may list nothing.
- `DownloadLifecycle`: weak fairness of each runner and of the cleanup task (both
  loop on timers), and of the passing of time. Faults and crashes have none and are
  bounded in number. Fairness of `CleanStep` as a whole is that of one task which
  works through finite lists.
- `Transfer`: weak fairness of the runner, whose cycles come by timer and whose
  requests have timeouts. Strong fairness of the passing of an hour between two cycles and
  of the cleanup task: both are timers, and a file is between two cycles most of the time, so
  that the hourly task meets it there sooner or later. `Completes` needs them: a partial file
  longer than the source, left by a crash in a selective download whose bodies were too long, is taken for complete and
  refused by every cycle until that task removes it. Faults, crashes and removals under
  a running download have none and are bounded in number, so `Completes` says that
  nothing they leave behind keeps the file from arriving.
- `ObservationFeeds`: weak fairness of each runner together with the handler it waits
  for: it sleeps for its interval and polls again, whatever happened, and the handler
  runs until it answers. Failures, the sources and the reader have none. `ReportsArrive` and
  `TafsArrive` say that again and again all that is published then is stored; a
  report that is replaced before a poll sees it is lost, as in the code.
- `ChunkCache`, `TileServing` and `GridReads` state safety only, and no fairness. So does
  `Discovery`: that a file is found in time is a bound on the clock, and the clock waits
  for a cycle that is due (`timer` is 0), as a runner's sleep ends on time.

## Proofs

All are checked by TLAPS, for every value of the constants that meets the `ASSUME`s
of the modules (models and files are finite, limits are naturals, `None` is no
dataset and no url).

**DatasetStoreProofs.** `TypeCorrect`, `StaticStaysServed` and `NothingLeaks` hold without
any hypothesis. `StaticStaysServed` needs that `models[w]`, and a model at its mark, are
never static; then it goes through the actions one by one. `AvailableIsComplete` and `ImplementsServed` assume `MaxIngests <= 1`
and no sync task, and nothing about the number of cleanup tasks, requests or
faults. `AvailableComplete` is not inductive: a registration must come with all
files there, and no worker may still hold a path or a listing of what is about to
be available. `ServeInv` adds `StartedBefore`, `SingleWriter`, `UploadedThere` and
`DoomedUnserved`. `ImplementsServed` maps each step to one of `ServedDatasets` or a
stutter from that invariant. 
`ProtectedStayServed` and `NeverEmptiesModel` assume no sync task, and nothing about the
number of cleanup cycles or ingestions: both speak of a cycle while it is `alone`, and then all others
are between two cycles (`AloneInv`), so nobody else marks. What the cycle protects is not what
it marks. That a model never loses its last run needs
one that survives the update: rows are of the past (`RowsOfThePast`), a bounded set of times
has a greatest one (`GreatestTime`, `NewestIsLatest`), so a cycle that is about to mark rows
protects a run (`MarkProtects`), and what it protects stays served.

`NoLeak` is not inductive because a cycle deletes by a list that it read before. `LeakInv` adds,
for as long as no call failed, that every expired row is on the list of some cycle, has what is left of
its directory among the files that one listed, is being written anew, or is still to be listed by a cycle
that marks (`ExpiredCared`), and that nobody holds a list who is not deleting
(`ListsEmpty`). A purge then leaves files behind only for rows of the last kind, which is the exception.

**DownloadProofs** is about `DownloadSlots` and `DownloadLifecycle`.

`SlotInv` says who holds a permit (`SlotPhase`), that queues
hold waiting files of their model once (`QueueSound`), that each model's permit is
free with nobody waiting or held by exactly one file (`OneGuaranteed`), and what
pool and counter count. The hand-over in `ReleaseGuaranteed` is why all of them are
needed at once: the new holder is the head of a queue. From it follow
`PermitsStayConserved`, `ActiveStaysWithinLimit` (holders of the two kinds are
disjoint and bounded by what there is) and `NeverWaitsForOthers`. `ModelsKeepTheirLimit`
is about the buffer rather than the permits: what a model has in flight, waiting or at
work, is at most its buffer (`FlightLimit`), which every start of a file, and every
hand-over, leaves as it is or fills up to the limit.

In `DownloadLifecycle` runner and cleanup task share rows without a lock. `LifeInv`
says which rows each may be at: `RunnerRows` (no row, or a new one) and `CleanerRows`
(ripe, stale or ingested ones). Their disjointness is `NeverTwice` (`SingleRequest`).
With `MarkedAnswered`, both tasks mark and delete only after a success, hence
`MarkedWasAnswered` and, per step, `SourceStaysKept`.

**SourceProofs** is about `Discovery` and `ObservationFeeds`. The facts about division at its
beginning are those that `GridReadsProofs` needs too: neither module can extend the other.

`Discovery` has two parts. The first is about what one cycle asks for, with days, hours,
delays and windows of any length: `LastRun` (the run of a forecast is one of the
configured ones and began delay_hours ago), `ForecastFound`, `ProductFound`, `ImageFound` and
`RadarFound`, together `Found`: a file that is there while a runner looks for it is found.
They rest on the facts about division, and on `Listed`, which counts the observations
before a file in its folder by an injection. The second is about time. `NothingMissed` speaks of a
moment when all is over; `InTime` says how much time is left at each moment
before. An owed file that is not downloaded has room for one more cycle for every fault that
is still to come, and either the next cycle begins within that room or the present one is
sure to fetch the file. A fault takes one cycle from the room and one fault from those
to come, which is why `AlwaysCaughtInTime` holds for any number of them.
The assumptions are those of the module: `Configured` says of each kind of model what its
configuration has and the code needs.

TAFs, in `ObservationFeeds`, go one way: what is stored of a TAF is not newer than a
handler's batch (`HeadsBehind`), and a batch not newer than what is published
(`BatchShown`), so no commit takes a header back. With `PeriodsMatch` (the periods of a
header are one whole TAF) and `ReaderBehind` (the header in a reader's hand is still in
the table or was amended) follow `AnswersWhole` and, with `SeenBehind`, `AnswersForward`.
`ImplementsTafs` says more than both, step by step: a commit is a `Store` of the newest
TAF (`CommitStores`), which a request with that header in hand takes over; the first query is
an `Ask`, since the latest issue time is that of the newest report (`NewestIsHead`); the
second is a `Give`, since `PeriodsMatch`; every other step leaves both tables and the reader
alone. `StationsBeforeReports` is `StationsFirst`: what is left of the loop over the stations of
a batch, which holds at every step of it.

**GridReadsProofs.** `GridReads` keeps nothing from one request to the next, so `ReadsAreRight` and
`AnswersAreRight` have next to no invariant to strengthen (`TileRead`, that the region a
tile is drawn of was read for it): the work is in lemmas about the operators, for any grid, box, level and image,
each about one step of the code.

- `PointsAreNear` rests on `Steps`, which bounds how far the cells to the left and right of
  a place, and the nearest one, are from it although the code divides the box by one
  cell too many; `LonNear` carries it round the globe, and `SingleCell` finds a cell in its chunk.
- `Assembled`: the cells of a box are cells of the grid (`CellsInGrid`), the chunks that are read
  have all of them (`ChunksSuffice`), exactly one of those chunks has a cell and has
  it at one place (`OwnChunk`, `InChunk`), and a region's box gives back the first of its
  cells (`RegionClaims`). With `BlockMiddle`, how far the middle of a cell of a level is from the
  native ones that it was made of, follows `Placed`. The bound was one pixel of the level at first, which TLC
  confirmed on its grids and the proof did not: with three halvings or more, of a number that is
  not a power of two, what is dropped adds up to half a pixel more.
- `Covered`: what is touched is among the cells of the box with its buffer (`AxisCovered`,
  `ColumnsCovered`, `RowsCovered`), which is also why a request that touches the grid is never
  answered with `Broken`. That the box is turned to the grid's longitudes at most once is why
  it must lie within a circle of longitude 0 (`TouchedTurned`).
- `EnoughPixels`: an interval of that length touches so many cells (`EnoughAlong`), whose length is
  that of 2^l native ones where halving was exact (`ExactHalving`).
- `Drawn`: a pixel in the grid's own rows and columns, whatever part was read (`PixelIs`), is
  drawn of cells beside its place (`ColumnNear`, `RowNear`, and `RoundGrid` for those at either end
  of a grid that goes round), and so of native points near it (`PixelNear`); a pixel whose
  place is in the grid is not beside the region, if that reaches as far as the image does (`RegionSides`,
  `PixelInside`), so what is not drawn has a missing cell nearby (`PixelEmpty`).
- `AreaClipped`, `AreaWhole` and `AreaFilled` for the two kinds of answer. One keeps the cells that were read
  (`KeptIs`): they lie in the rectangle with its buffer (`AxisClipped`) and have every point inside it
  (`KeptHas`). The other, across the prime meridian of a grid in longitudes from 0 to 360, makes cells of
  its own of the whole grid (`NotKept`, `MadeIs`): each lies between four grid points near it
  (`MadePlace`, `MadeRight`), every grid point inside the rectangle begins the cell of some value
  (`MeridianAt`, `MadeHas`), and a value that is empty has a missing point nearby (`MadeFilled`).

Three conditions are there because a case of the code needs them: a part of a grid that is taken for the
globe has one last column whose right neighbour is far away, where `ColumnNear` says nothing (`IsMistaken`);
`RoundGrid` needs that the gap that is bridged is that of longitudes from 0 to 360; and `AreaClipped`
needs that the rectangle lies within a circle of longitude 0.

The assumptions about grids are that boxes are boxes, that a division into cells comes out even on
every level (the unit is chosen so), that longitudes from 0 to 360 end at 360, that
a global grid leaves no wider gap than between its columns, that a grid that goes west beyond
the date line is read whole, as the two GOES satellites' are, that 359 degrees are at least half a circle and the buffer at least one
cell, and that points are snapped within less than half a cell, as they are to a hundredth of one in the code. That 2^l is positive is assumed too, for
levels that exist: it takes an induction, and powers are unknown to the provers.

**TransferProofs.** For a source and a selection of any length and any number of
retries, faults, crashes and removals, and for ranges of any number and length, under the
assumption `HeadReliable`: whatever server states lengths does so in its answer to HEAD. (Without it the code is wrong,
see below.) `FinalIsSource` speaks of the file delivered and says nothing of the
partial file it comes from. `TransferInv` adds `Lengths` (every length written down
is the source's), `Collected` (what the ranges have brought so far is within a factor of two of what was asked for,
and without a spoilt one it is the beginning of the selection) and `OnlyPrefixes`: in
a transfer that is `Sound` (no removal under it, nothing `spoilt`) the partial
file is a prefix of the source and the stream goes on where it ends. A prefix of full
length is the source, hence `ArrivesIntact`. `ArrivesInSize` needs no soundness: for the
full download it is the length check, for the selective one `FactorTwo`, summed over the ranges
(`CutFacts`, `BodyFacts`, `LongerCollection`). Halves are rounded down, one for each range.

**ChunkCacheProofs**, on the lemmas of `LruCacheProofs` (the bytes of a union, of a
subset, of one key; the first n keys of an injective list, the list without a key,
with a key moved to its end). `MemoryBounded` is inductive only with the order of
use, which `TypeOK` says lists what is cached, each key once. In `Insert` the loop
stops because the counted memory leaves room or because nothing is left; in the
second case all that is still counted is drift, which is at most the limit. That is
why the drift never exceeds it. `ClearIsFinal` needs that what a reader fetched is in
its hands (`FetchedHeld`) and that `floor` is not newer than the store (`FloorHolds`).

**TileServingProofs.** `TileInv` gives the age an image can have at each place on its way
from drawing over storing, finding, promoting to answering (`TaskAges`, `L2Ages`,
`L1Ages`); `Horizon` is the last of these bounds. `L1OK` holds the books of L1.
`L1StaysBounded` needs that no tile is larger than what one eviction frees
(`LimitAssumption`, true of 256 x 256 PNGs in a cache of hundreds of megabytes).

Only model-checked: the liveness properties `StoresConverge`, `EveryFileStarts`,
`FilesDrain`, `Completes`, `TafsArrive`, `ReportsArrive` (temporal reasoning with fairness and
`ENABLED` is beyond the prover). Every invariant of a passing run is a theorem, and every
action property.

## What the code and its documents disagree on

| run | code | document |
|---|---|---|
| `sync_race` | `run_sync` reads the rows first, lists MinIO afterwards and deletes directories that are not in the old snapshot: a dataset registered in between loses its files | `wms-api/src/main.rs:260` "cleans orphan MinIO files not tracked in DB" |
| `stale` | a chunk is cached under path and place, without version or age, and nothing takes it out when the path is written again: reads that start later get old chunks, even beside new ones | `docs/src/architecture/caching.md:457` "When new data is ingested, caches must be invalidated to prevent serving stale data" |

More is known and has no run of its own:

- A selective and a full download share one partial file (`download.rs:126`, `:589`), and
  the full one resumes from its length (`download.rs:263`): ranges left by a crash in a
  selective download become the beginning of the file when the index cannot be fetched
  after the restart. The length fits, the content does not; `download.rs:7` promises "File
  integrity verification via Content-Length". (`FinalIsSource` leaves out this crash by
  `spoilt`, and is violated if it does not; after all other crashes it is checked.)
- A range answered with a body of half to twice its length is written with a warning, and the total is never
  checked (`download.rs:725`): a selective download can deliver a file that is up to two
  times too long or too short. `RightSize` states the factor.
- Two cleanup cycles that overlap can leave files without a row and expire runs that one of
  them protects, as described under `DatasetStore`.
- `snap_to_step` leaves the time alone if the step is one hour (`lis_runner.rs:310`), and
  names of files carry its minutes (`lis_runner.rs:274`): a cycle that begins at 10:37 asks
  for `….A20240101.0037` of NLDAS, which is hourly and has files of minute 00 only.
  NLDAS files are found by cycles that begin in minute 0 of an hour. `lis_runner.rs:264`
  says "Snap earliest to the product's time step boundary", and the unit test that pins
  the exception down never builds a list from an uneven time. `discovery` therefore has
  GLDAS alone of the two.
- Only the most recent run of a forecast is looked for (`model_runner.rs:443`). With hourly
  runs that are polled once an hour (HRRR, NBM) each run is looked for by one cycle, or
  none, an hour or two after it began: files that appear later, or whose request fails,
  never come. `hrrr.yaml:56` has "Data typically available 1-2 hours after cycle", with
  a `delay_hours` of 1. `NothingMissed` owes nothing there.
- If no cycle of the day has begun, `latest_available_cycle` takes the last of the list, of
  the same day, which is yet to come (`model_runner.rs:1121`); every model has a cycle at
  midnight, so this is not reached (`SourcesAssumption`).
- MRMS files are looked for in the folders of today and of the earliest day
  (`model_runner.rs:852`), so a retention of more than a day leaves out whole days
  between; it is two hours.
- A failed upload or registration is logged and skipped (`grib2.rs:360`), and the ingester
  answers 200: the downloader marks the file ingested and deletes it, although some of
  its datasets are not in the catalogue. `downloader/src/cleanup.rs:14` says "After the
  ingester processes a file and converts it to Zarr format in MinIO, the source file is
  no longer needed". (`registered` in `DownloadLifecycle` has what was stored.)
- Protection of runs counts them and never asks whether they are complete: with
  `keep_latest_runs` of 1 a complete run goes while the newer one is half ingested,
  where `wms-api/src/cleanup.rs:13` says "Only deletes old runs when a newer complete
  run exists".
- The copy across devices writes under the final name (`download.rs:195`); after a
  crash the torn file counts as downloaded.
- An NLDAS file on disk is skipped without a look at the database
  (`model_runner.rs:648`), so one whose record a crash prevented is never ingested.
- If HEAD states no length, that of a 206 answer is taken for the total and saved
  (`download.rs:328`); the length check then fails in every cycle. `Completes` and the
  theorems about transfers are stated for servers that do state it.
- A corrected report with the time of an earlier one is dropped
  (`observations.rs:569`, DO NOTHING), and one the table refuses keeps those behind it
  in its batch from being stored for as long as it is published (`observations.rs:618`).
- The first TAF of an unknown airport is refused, because its station is written after
  it; the next poll stores it. The handler answers 200 all the same.
- `/api/cache/clear` answers "All caches cleared" and leaves Redis alone, so L1 fills
  again from the tiles it was meant to forget. `TilesFresh` bounds for how long.
- Ingestion by the downloader invalidates no cache, also not the capabilities
  document, whose module says that it does (`capabilities_cache.rs:19`).

- A model with `requires_full_grid` (all Lambert, stereographic, Mercator and GOES grids)
  is read whole, and the level is chosen for that whole (`loaders.rs:150`): a zoomed-in
  image of HRRR is drawn from the level that is enough for all of the United States.
  `types.rs:964` says "Returns the coarsest level that still has sufficient resolution
  to render the requested bbox at the given output size".
- A box that begins more than two cells east of a grid, or ends as far south of it, has no
  cells; if the last chunk of the grid is partial, a chunk is listed all the same, and
  `max_col - min_col` goes below zero (`zarr.rs:535`): `Broken` in the model, a panic or a
  length that wraps in the code. Where the last chunk is full the answer is an empty region.
- A rectangle that ends at longitude 0 is answered with the whole globe: `read_region` takes
  it to cross the prime meridian (`types.rs:171`, `>=`), `extract_prime_meridian_region`
  takes it not to (`resampling.rs:312`, `<=`). `area.rs:840` says "read_region already
  returns only data within the requested bbox".
- It never does quite: the buffer of two cells that images need (`zarr.rs:670`) is in every
  rectangle that is answered without a mask.
- A rectangle in extended notation (170 to 190), which `area.rs:388` asks users for, loses
  what lies beyond 180 on a grid in longitudes from -180 to 180, such as GLDAS's.
- A point within a hundredth of a cell of the eastern or southern edge of a grid is
  snapped past its last cell and has no value (`zarr.rs:773`), and on a grid whose box ends
  at its last column, such as 0 to 359.75, points beyond it have none either
  (`processor/mod.rs:33` promises one for any point within the grid).
- East of the last column of a global grid (359.75 to 360) an image is drawn only if its box
  reaches longitude 0. Otherwise a part of the grid is read, and `is_global_grid`, which
  looks at the bounds of that part (`rendering/resampling.rs:140`), is false: a strip just
  west of Greenwich stays blank, although the comment at `rendering/resampling.rs:162` has
  "handle the gap between grid end (e.g., 359.75°) and 360° by treating longitudes in
  this gap as valid".
- The same test takes a part that is wider than 359 degrees for the globe although it begins
  east of the grid's first column, such as 0.75 to 359.75 of GFS: the right neighbour of its last column is then its own first
  one (`rendering/resampling.rs:203`), and pixels between the two are blended with values from up
  to two cells too far east. `IsMistaken` in `Drawn` leaves out that column.
- A missing point is left out of a rectangle's answer, but across the prime meridian, where
  values are interpolated, it takes the present ones that share a cell with it along
  (`AreaWhole`), since `edr-api/src/resampling.rs` has no nearest neighbour to fall back on, as
  points have.
- A global grid in longitudes from -180 to 180 has such a strip at the date line, since
  `is_global_grid` asks for longitudes from 0 to 360; `Drawn` asks it of the latter alone.
- Boxes end at the first and last grid points (`metadata.rs:336`) and are divided by the
  number of points, and levels drop odd rows while the box stays: places are off by up
  to one and a half cells of the level, which is what `Placed` allows.

One slot is guaranteed to each model,
whatever `total_max_concurrent` is, so with more models than that the total is
exceeded (`concurrency.rs:41` calls it the "Maximum total concurrent downloads across
all models"); `ActiveWithinLimit` states the bound that holds. A partial file that
the cleanup task removes just as a download resumes it loses its beginning, which the
next cycle makes up for in length only; `FinalIsSource` leaves that case out (`cleans`).

## Not modelled

Pure functions over text, floating point or bits (protocol crates, projections and the
resampling of projected grids, contours and colours, parsers), queries that change nothing, statistics and progress counters,
load tests, the web viewer and deployment. The capabilities and location caches, the
choice of what to warm, the ingestion tracker, the merging of byte ranges and
`always_redownload` are on the plan. Statements of
PostgreSQL and SQLite are atomic, a put of an object is atomic, and a semaphore is
first-in first-out: these are taken from the libraries.
