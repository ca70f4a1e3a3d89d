-------------------------- MODULE DownloadLifecycle --------------------------
(***************************************************************************)
(* The life of a source file in the downloader, from its discovery to its  *)
(* deletion.                                                               *)
(*                                                                         *)
(* Three things have to agree: the rows of the downloader's SQLite         *)
(* database, the file in the download directory, and what the ingester     *)
(* registered.  They are changed one after the other by two tasks: the     *)
(* runner of the file's model, and the cleanup task, which retries, gives  *)
(* up and sweeps.  Calls fail, requests time out and the process may die   *)
(* and be restarted between any two steps.                                 *)
(*                                                                         *)
(* The content behind a url does not change: always_redownload models are  *)
(* outside of this module.                                                 *)
(***************************************************************************)
EXTENDS Naturals, FiniteSets

CONSTANTS
    Urls,         \* the files that the sources list
    Lis,          \* those of NLDAS and GLDAS, which take their own path
    Datasets,     \* the datasets in a file
    CrossDevice,  \* is the download directory on another device than temp_dir?
    None,         \* no file
    MaxFaults,    \* bound: failed calls in a behaviour
    MaxCrashes    \* bound: deaths of the downloader in a behaviour

ASSUME LisAssumption == Lis \subseteq Urls
ASSUME NoneAssumption == None \notin Urls
ASSUME DeviceAssumption == CrossDevice \in BOOLEAN
ASSUME BoundsAssumption == MaxFaults \in Nat /\ MaxCrashes \in Nat

VARIABLES
    row,         \* row[u]: is there a row for u in `downloads`?
    done,        \* done[u]: u's row in `completed_downloads`, with its age
    file,        \* file[u]: u's file in the download directory
    answered,    \* answered[u]: has the ingester answered success for this file?
    registered,  \* registered[u]: u's datasets in the catalogue
    run,         \* run[u]: where u's runner is
    sent,        \* sent[u]: what the ingester read for the runner's request
    clean,       \* where the cleanup task is
    cur,         \* the file it is working on
    csent,       \* what the ingester read for its request
    retry,       \* pending files it has still to retry
    stale,       \* pending files it has still to give up
    orphans,     \* ingested files it has still to look for on disk
    faults,      \* failed calls so far
    crashes      \* deaths so far

dbVars == <<row, done>>
runVars == <<run, sent>>
cleanVars == <<clean, cur, csent, retry, stale, orphans>>
boundVars == <<faults, crashes>>
vars == <<dbVars, file, answered, registered, runVars, cleanVars, boundVars>>

\* A pending row is new for five minutes, then ripe for a retry, and stale
\* after two hours.
Done == {"none", "new", "ripe", "stale", "ingested"}
Pending == {"new", "ripe", "stale"}
\* A torn file has its name before it has all of its content.
File == {"none", "torn", "whole"}

TypeOK ==
    /\ row \in [Urls -> BOOLEAN]
    /\ done \in [Urls -> Done]
    /\ file \in [Urls -> File]
    /\ answered \in [Urls -> BOOLEAN]
    /\ registered \in [Urls -> SUBSET Datasets]
    /\ run \in [Urls -> {"idle", "queued", "fetching", "copying", "update", "insert",
                         "delete", "post", "await", "mark", "unlink"}]
    /\ sent \in [Urls -> File]
    /\ clean \in {"idle", "pending", "await", "mark", "unlink", "forget", "orphans"}
    /\ cur \in Urls \cup {None}
    /\ csent \in File
    /\ retry \subseteq Urls /\ stale \subseteq Urls /\ orphans \subseteq Urls
    /\ faults \in Nat /\ crashes \in Nat

Init ==
    /\ row = [u \in Urls |-> FALSE]
    /\ done = [u \in Urls |-> "none"]
    /\ file = [u \in Urls |-> "none"]
    /\ answered = [u \in Urls |-> FALSE]
    /\ registered = [u \in Urls |-> {}]
    /\ run = [u \in Urls |-> "idle"]
    /\ sent = [u \in Urls |-> "none"]
    /\ clean = "idle" /\ cur = None /\ csent = "none"
    /\ retry = {} /\ stale = {} /\ orphans = {}
    /\ faults = 0 /\ crashes = 0

Fault == faults < MaxFaults /\ faults' = faults + 1 /\ UNCHANGED crashes

Goto(u, label) == run' = [run EXCEPT ![u] = label]

(***************************************************************************)
(* The runner: run_cycle and download_files, for one file.                 *)
(***************************************************************************)

\* The cycle skips what is in completed_downloads and queues the rest.
Discover(u) ==
    /\ run[u] = "idle"
    /\ done[u] = "none"
    /\ row' = [row EXCEPT ![u] = TRUE]
    /\ Goto(u, "queued")
    /\ UNCHANGED <<done, file, answered, registered, sent, cleanVars, boundVars>>

\* With its slot, download looks for the file.  One that is there counts as
\* downloaded; it is recorded, unless it is by now, and goes to the ingester.
\* The NLDAS path leaves it alone.
Begin(u) ==
    /\ run[u] = "queued"
    /\ row' = [row EXCEPT ![u] = @ \/ (u \notin Lis /\ done[u] = "none")]
    /\ Goto(u, CASE file[u] = "none" -> "fetching"
                 [] file[u] # "none" /\ u \in Lis -> "idle"
                 [] file[u] # "none" /\ u \notin Lis /\ done[u] = "none" -> "update"
                 [] OTHER -> "post")
    /\ UNCHANGED <<done, file, answered, registered, sent, cleanVars, boundVars>>

\* All bytes are there: in memory for NLDAS, in the partial file otherwise.
\* NLDAS, and a copy from another device, write the file under its own name;
\* a rename is atomic.
Fetched(u) ==
    LET atomic == u \notin Lis /\ ~CrossDevice IN
    /\ run[u] = "fetching"
    /\ file' = [file EXCEPT ![u] = IF atomic THEN "whole" ELSE "torn"]
    /\ answered' = [answered EXCEPT ![u] = FALSE]
    /\ Goto(u, IF atomic THEN "update" ELSE "copying")
    /\ UNCHANGED <<dbVars, registered, sent, cleanVars, boundVars>>

Copied(u) ==
    /\ run[u] = "copying"
    /\ file' = [file EXCEPT ![u] = "whole"]
    /\ Goto(u, "update")
    /\ UNCHANGED <<dbVars, answered, registered, sent, cleanVars, boundVars>>

\* Retries are used up, sizes differ, or the disk is full: the next cycle
\* tries again.  A file half written stays.
FetchFail(u) ==
    /\ run[u] \in {"fetching", "copying"}
    /\ Fault
    /\ Goto(u, "idle")
    /\ UNCHANGED <<dbVars, file, answered, registered, sent, cleanVars>>

\* update_status(Completed) is three statements.  The first one sets a
\* status nobody reads.
StatusUpdate(u) ==
    /\ run[u] = "update"
    /\ Goto(u, "insert")
    /\ UNCHANGED <<dbVars, file, answered, registered, sent, cleanVars, boundVars>>

StatusInsert(u) ==
    /\ run[u] = "insert"
    /\ done' = [done EXCEPT ![u] = IF row[u] THEN "new" ELSE @]
    /\ Goto(u, "delete")
    /\ UNCHANGED <<row, file, answered, registered, sent, cleanVars, boundVars>>

StatusDelete(u) ==
    /\ run[u] = "delete"
    /\ row' = [row EXCEPT ![u] = FALSE]
    /\ Goto(u, "post")
    /\ UNCHANGED <<done, file, answered, registered, sent, cleanVars, boundVars>>

\* A statement fails: the download does, or NLDAS goes on regardless.
StatusFail(u) ==
    /\ run[u] \in {"update", "insert", "delete"}
    /\ Fault
    /\ Goto(u, IF u \in Lis THEN "post" ELSE "idle")
    /\ UNCHANGED <<dbVars, file, answered, registered, sent, cleanVars>>

(***************************************************************************)
(* The ingestion request, which the runner and the cleanup task make in    *)
(* the same way.  The ingester reads the file as a whole before anything   *)
(* else, so its content is fixed by then.                                  *)
(***************************************************************************)

\* What one request may leave registered of a file.  Of a whole one that is
\* every dataset, unless a fault makes it skip some: an upload or a
\* registration that fails is logged and skipped.  Of a torn one it is what
\* could be read before the parser stopped.
Ingested(content, got, fault) == content = "whole" /\ ~fault => got = Datasets

\* The answer is success whatever was skipped.
Success(u, content) ==
    /\ content # "none"
    /\ answered' = [answered EXCEPT ![u] = TRUE]
    /\ \E got \in SUBSET Datasets :
         /\ registered' = [registered EXCEPT ![u] = @ \cup got]
         /\ \/ Ingested(content, got, FALSE) /\ UNCHANGED boundVars
            \/ Ingested(content, got, TRUE) /\ got # Datasets /\ Fault

\* No file to read, an error answer, or none within the timeout, when the
\* ingester may have done any part of its work.  A torn file may fail by
\* itself.
Failure(u, content) ==
    /\ UNCHANGED answered
    /\ \E got \in SUBSET Datasets :
         /\ registered' = [registered EXCEPT ![u] = @ \cup got]
         /\ content = "none" => got = {}
    /\ IF content = "whole" THEN Fault ELSE UNCHANGED boundVars

Post(u) ==
    /\ run[u] = "post"
    /\ sent' = [sent EXCEPT ![u] = file[u]]
    /\ Goto(u, "await")
    /\ UNCHANGED <<dbVars, file, answered, registered, cleanVars, boundVars>>

\* Mutant: the status of the response is not looked at.
Answer_AnyStatus(u) ==
    /\ run[u] = "await"
    /\ Success(u, sent[u]) \/ Failure(u, sent[u])
    /\ Goto(u, "mark")
    /\ sent' = [sent EXCEPT ![u] = "none"]
    /\ UNCHANGED <<dbVars, file, cleanVars>>

Answer(u) ==
    /\ run[u] = "await"
    /\ \/ Success(u, sent[u]) /\ Goto(u, "mark")
       \/ Failure(u, sent[u]) /\ Goto(u, "idle")
    /\ sent' = [sent EXCEPT ![u] = "none"]
    /\ UNCHANGED <<dbVars, file, cleanVars>>

\* mark_ingested; an error is ignored here.
Mark(u) ==
    /\ run[u] = "mark"
    /\ \/ /\ done' = [done EXCEPT ![u] = IF @ \in Pending THEN "ingested" ELSE @]
          /\ UNCHANGED boundVars
       \/ Fault /\ UNCHANGED done
    /\ Goto(u, "unlink")
    /\ UNCHANGED <<row, file, answered, registered, sent, cleanVars>>

\* delete_ingested_file; an error is left to the cleanup task.
Unlink(u) ==
    /\ run[u] = "unlink"
    /\ \/ file' = [file EXCEPT ![u] = "none"] /\ UNCHANGED boundVars
       \/ Fault /\ UNCHANGED file
    /\ Goto(u, "idle")
    /\ UNCHANGED <<dbVars, answered, registered, sent, cleanVars>>

(***************************************************************************)
(* The cleanup task: process_pending_files and cleanup_orphan_files.       *)
(***************************************************************************)

\* Mutant: no minimum age for a retry.
CleanRead_NoMinAge ==
    /\ clean = "idle"
    /\ clean' = "pending"
    /\ retry' = {u \in Urls : done[u] \in {"new", "ripe"}}
    /\ stale' = {u \in Urls : done[u] = "stale"}
    /\ UNCHANGED <<dbVars, file, answered, registered, runVars, cur, csent, orphans,
                   boundVars>>

\* One query reads the pending rows; their ages divide them.
CleanRead ==
    /\ clean = "idle"
    /\ clean' = "pending"
    /\ retry' = {u \in Urls : done[u] = "ripe"}
    /\ stale' = {u \in Urls : done[u] = "stale"}
    /\ UNCHANGED <<dbVars, file, answered, registered, runVars, cur, csent, orphans,
                   boundVars>>

\* The next file to retry; one that is gone is skipped.
CleanPost(u) ==
    /\ clean = "pending"
    /\ u \in retry
    /\ retry' = retry \ {u}
    /\ \/ /\ file[u] = "none"
          /\ UNCHANGED <<clean, cur, csent>>
       \/ /\ file[u] # "none"
          /\ clean' = "await" /\ cur' = u /\ csent' = file[u]
    /\ UNCHANGED <<dbVars, file, answered, registered, runVars, stale, orphans, boundVars>>

CleanAnswer ==
    /\ clean = "await"
    /\ \/ Success(cur, csent) /\ clean' = "mark" /\ cur' = cur
       \/ Failure(cur, csent) /\ clean' = "pending" /\ cur' = None
    /\ csent' = "none"
    /\ UNCHANGED <<dbVars, file, runVars, retry, stale, orphans>>

\* mark_ingested; with an error the file is kept.
CleanMark ==
    /\ clean = "mark"
    /\ \/ /\ done' = [done EXCEPT ![cur] = IF @ \in Pending THEN "ingested" ELSE @]
          /\ clean' = "unlink" /\ cur' = cur
          /\ UNCHANGED boundVars
       \/ Fault /\ clean' = "pending" /\ cur' = None /\ UNCHANGED done
    /\ UNCHANGED <<row, file, answered, registered, runVars, csent, retry, stale, orphans>>

CleanUnlink ==
    /\ clean = "unlink"
    /\ \/ file' = [file EXCEPT ![cur] = "none"] /\ UNCHANGED boundVars
       \/ Fault /\ UNCHANGED file
    /\ clean' = "pending" /\ cur' = None
    /\ UNCHANGED <<dbVars, answered, registered, runVars, csent, retry, stale, orphans>>

\* Then the stale ones: the file, unless it cannot be removed, and its row.
CleanStale(u) ==
    /\ clean = "pending"
    /\ retry = {}
    /\ u \in stale
    /\ stale' = stale \ {u}
    /\ \/ /\ file' = [file EXCEPT ![u] = "none"]
          /\ clean' = "forget" /\ cur' = u
          /\ UNCHANGED boundVars
       \/ Fault /\ file[u] # "none" /\ UNCHANGED <<file, clean, cur>>
    /\ UNCHANGED <<dbVars, answered, registered, runVars, csent, retry, orphans>>

\* Mutant: the row is kept, with a status no query knows.
CleanForget_Soft ==
    /\ clean = "forget"
    /\ done' = [done EXCEPT ![cur] = "gone"]
    /\ clean' = "pending" /\ cur' = None
    /\ UNCHANGED <<row, file, answered, registered, runVars, csent, retry, stale, orphans,
                   boundVars>>

\* Mutant: the row of a file that was given up stays.
CleanForget_KeepsRow ==
    /\ clean = "forget"
    /\ clean' = "pending" /\ cur' = None
    /\ UNCHANGED <<dbVars, file, answered, registered, runVars, csent, retry, stale,
                   orphans, boundVars>>

CleanForget ==
    /\ clean = "forget"
    /\ \/ done' = [done EXCEPT ![cur] = "none"] /\ UNCHANGED boundVars
       \/ Fault /\ UNCHANGED done
    /\ clean' = "pending" /\ cur' = None
    /\ UNCHANGED <<row, file, answered, registered, runVars, csent, retry, stale, orphans>>

\* Mutant: the sweep looks for pending files.
CleanSweep_Pending ==
    /\ clean = "pending"
    /\ retry = {} /\ stale = {}
    /\ clean' = "orphans"
    /\ orphans' = {u \in Urls : done[u] \in Pending}
    /\ UNCHANGED <<dbVars, file, answered, registered, runVars, cur, csent, retry, stale,
                   boundVars>>

\* The sweep reads the ingested rows,
CleanSweep ==
    /\ clean = "pending"
    /\ retry = {} /\ stale = {}
    /\ clean' = "orphans"
    /\ orphans' = {u \in Urls : done[u] = "ingested"}
    /\ UNCHANGED <<dbVars, file, answered, registered, runVars, cur, csent, retry, stale,
                   boundVars>>

\* and deletes their files that are still there.
CleanOrphan(u) ==
    /\ clean = "orphans"
    /\ u \in orphans
    /\ orphans' = orphans \ {u}
    /\ \/ file' = [file EXCEPT ![u] = "none"] /\ UNCHANGED boundVars
       \/ Fault /\ file[u] # "none" /\ UNCHANGED file
    /\ UNCHANGED <<dbVars, answered, registered, runVars, clean, cur, csent, retry, stale>>

CleanEnd ==
    /\ clean = "orphans"
    /\ orphans = {}
    /\ clean' = "idle"
    /\ UNCHANGED <<dbVars, file, answered, registered, runVars, cur, csent, retry, stale,
                   orphans, boundVars>>

(***************************************************************************)
(* Time and crashes.                                                       *)
(***************************************************************************)

\* A pending row grows older.  A request times out after 30 seconds, so five
\* minutes do not pass while the runner is at one.
Age(u) ==
    /\ \/ done[u] = "new" /\ run[u] = "idle" /\ done' = [done EXCEPT ![u] = "ripe"]
       \/ done[u] = "ripe" /\ done' = [done EXCEPT ![u] = "stale"]
    /\ UNCHANGED <<row, file, answered, registered, runVars, cleanVars, boundVars>>

\* The downloader dies and is started again: rows and files are all it has.
Crash ==
    /\ crashes < MaxCrashes
    /\ crashes' = crashes + 1
    /\ run' = [u \in Urls |-> "idle"]
    /\ sent' = [u \in Urls |-> "none"]
    /\ clean' = "idle" /\ cur' = None /\ csent' = "none"
    /\ retry' = {} /\ stale' = {} /\ orphans' = {}
    /\ UNCHANGED <<dbVars, file, answered, registered, faults>>

RunStep(u) ==
    \/ Discover(u) \/ Begin(u) \/ Fetched(u) \/ Copied(u)
    \/ StatusUpdate(u) \/ StatusInsert(u) \/ StatusDelete(u)
    \/ Post(u) \/ Answer(u) \/ Mark(u) \/ Unlink(u)

CleanStep ==
    \/ CleanRead
    \/ \E u \in Urls : CleanPost(u) \/ CleanStale(u) \/ CleanOrphan(u)
    \/ CleanAnswer \/ CleanMark \/ CleanUnlink \/ CleanForget
    \/ CleanSweep \/ CleanEnd

Next ==
    \/ \E u \in Urls : RunStep(u) \/ FetchFail(u) \/ StatusFail(u) \/ Age(u)
    \/ CleanStep
    \/ Crash

Spec == Init /\ [][Next]_vars

(***************************************************************************)
(* Runners and the cleanup task loop on timers, requests have a timeout,   *)
(* and time passes.  The source goes on listing its files.                 *)
(***************************************************************************)
Fairness ==
    /\ \A u \in Urls : WF_vars(RunStep(u)) /\ WF_vars(Age(u))
    /\ WF_vars(CleanStep)

FairSpec == Spec /\ Fairness

(***************************************************************************)
(* Properties.                                                             *)
(***************************************************************************)

\* A source file is deleted only once the ingester has answered success for
\* it, or when it was given up as stale: no order of the two tasks, failed
\* call or crash makes either delete a file that still has to be ingested.
SourceKept ==
    [][\A u \in Urls : file[u] # "none" /\ file'[u] = "none" =>
         answered[u] \/ done[u] = "stale"]_vars

\* Runner and cleanup task never have the same file ingested at once: what
\* keeps them apart is the minimum age of a retry against the timeout.
SingleRequest ==
    ~ \E u \in Urls : run[u] \in {"post", "await"} /\ clean = "await" /\ cur = u

\* A file that is marked ingested was answered for, whoever marked it and
\* whatever was restarted in between.
IngestedAnswered == \A u \in Urls : done[u] = "ingested" => answered[u]

\* Every file is recorded as ingested in the end and leaves the disk, after
\* any failed calls and crashes.  It takes both tasks: the runner to start
\* over, the cleanup task for requests that failed and files left behind.
FilesDrain ==
    \A u \in Urls \ Lis : <>[](done[u] = "ingested" /\ file[u] = "none")
=============================================================================
