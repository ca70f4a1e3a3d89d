------------------------------ MODULE Discovery ------------------------------
(***************************************************************************)
(* What a model runner of the downloader looks for, and whether it looks   *)
(* in time.                                                                *)
(*                                                                         *)
(* No runner remembers what it has still to find.  Each cycle works out    *)
(* from the clock which files there may be by now: those of the most       *)
(* recent model run, those in the folders of the last hours or days, or    *)
(* those of a list of hours.  The files appear at the source when they     *)
(* are ready, the runner sleeps between its cycles, a cycle takes its      *)
(* time, requests fail and the process dies; what was not found before the *)
(* clock has moved on is not looked for again.                             *)
(*                                                                         *)
(* A behaviour follows one file of one model.  Time is counted in ticks, a *)
(* day begins at the multiples of Day, and the names of files and folders  *)
(* are the times they are made of.  What becomes of a file that was found  *)
(* is in DownloadLifecycle.                                                *)
(***************************************************************************)
EXTENDS Integers, FiniteSets, FiniteSetsExt

CONSTANTS
    Hour,        \* ticks in an hour
    Day,         \* ticks in a day
    Sources,     \* the models: kind, cycles, steps, every, delay, lookback, limit, poll
    MaxBusy,     \* bound: ticks that a cycle takes
    MaxFaults,   \* bound: failed requests and deaths in a behaviour
    Starts,      \* when the downloader is started
    Horizon      \* bound: the clock

\* Kinds of sources: "forecast" (GFS, HRRR, ...), "mrms", "goes", and "lis"
\* (NLDAS, GLDAS).
ASSUME TimeAssumption ==
    /\ Hour \in Nat \ {0} /\ Day \in Nat \ {0} /\ Day % Hour = 0
    /\ MaxBusy \in Nat /\ MaxFaults \in Nat
    /\ Horizon \in Nat /\ Starts \subseteq 0 .. Horizon

\* As the models are configured: runs begin at hours of the day, one of them
\* at midnight, observations have no forecast hours and are looked for in whole
\* hours and, of MRMS, no more than a day back, and a listing has room for what
\* there is.  NLDAS, which is hourly, is left out: its names are not snapped to
\* the hour, and most of its cycles ask for files that cannot be there.
Configured(s) ==
    /\ s.kind \in {"forecast", "mrms", "goes", "lis"}
    /\ s.delay \in Nat /\ s.lookback \in Nat /\ s.poll \in Nat /\ s.limit \in Nat
    /\ CASE s.kind = "forecast" -> 0 \in s.cycles /\ s.cycles \subseteq 0 .. Day \div Hour - 1
         [] s.kind = "mrms" -> /\ s.every \in Nat \ {0} /\ s.steps = {0}
                               /\ s.lookback <= Day /\ s.limit * s.every > s.lookback
         [] s.kind = "goes" -> /\ s.every \in Nat \ {0} /\ s.steps = {0}
                               /\ s.lookback % Hour = 0 /\ s.limit * s.every >= Hour
         [] s.kind = "lis" -> s.every \in Nat \ {0} /\ s.every > Hour /\ Day % s.every = 0
ASSUME SourcesAssumption == \A s \in Sources : Configured(s)

VARIABLES
    source,      \* the model
    file,        \* the file that the behaviour follows
    now,         \* the clock
    appeared,   \* is the file at the source?
    cycle,       \* what the runner does: "idle", "looking" or "fetching"
    clock,       \* the time it is by the cycle: Utc::now() when it began
    timer,       \* ticks until the cycle ends, or until the next one
    taken,       \* did the cycle find the file?
    downloaded,  \* did some cycle find and fetch it?
    faults,      \* failed requests and deaths so far
    owed         \* history: was there time to find it when it was put there?

runVars == <<cycle, clock, timer, taken>>
lookVars == <<source, file, now, appeared, runVars, downloaded, faults, owed>>

\* A file is a time and, in a model run, a forecast hour.
Runs(s) == {d * Day + c * Hour : d \in 0 .. Horizon \div Day + 1, c \in s.cycles}
Times(s) ==
    IF s.kind = "forecast" THEN Runs(s) ELSE {t \in 0 .. Horizon : t % s.every = 0}
SourceFiles(s) == Times(s) \X s.steps

\* What is at the source: the other files are, from their time on.
There == {f \in SourceFiles(source) : f[1] <= now /\ (f = file => appeared)}

LookInit ==
    /\ source \in Sources
    /\ file \in SourceFiles(source)
    /\ now \in Starts
    /\ appeared = FALSE
    /\ cycle = "idle" /\ clock = now /\ timer = 0 /\ taken = FALSE
    /\ downloaded = FALSE
    /\ faults = 0
    /\ owed = FALSE

-----------------------------------------------------------------------------
(* What a cycle looks for: discover_..._files *)

\* The last of the day's cycles that began delay_hours ago, and the last of
\* the configured ones, on the same day, if none did.
LatestCycle(s, at) ==
    LET before == at - s.delay
        passed == {c \in s.cycles : c <= (before % Day) \div Hour}
    IN  (before \div Day) * Day
            + (IF passed = {} THEN Max(s.cycles) ELSE Max(passed)) * Hour

\* Every file of that run is asked for.
Forecasts(s, at) == {LatestCycle(s, at)} \X s.steps

\* A listing returns the first keys of a folder, in order, from a key on.
Listing(folder, from, limit) ==
    LET keys == {f \in folder : f[1] >= from}
    IN  {f \in keys : Cardinality({g \in keys : g[1] < f[1]}) < limit}

\* The folders of today and of the day of earliest_time.
MrmsListed(s, at, there) ==
    LET earliest == at - s.lookback
        Folder(d) == {f \in there : f[1] \div Day = d}
        From(d) == IF d = earliest \div Day THEN earliest ELSE (at \div Day) * Day
    IN  {f \in UNION {Listing(Folder(d), From(d), s.limit) : d \in {at \div Day, earliest \div Day}} :
            f[1] >= earliest /\ f[1] <= at}

\* Mutant: one folder for each hour of the lookback.
GoesListed_Hours(s, at, there) ==
    LET Folder(h) == {f \in there : f[1] \div Hour = h}
    IN  {f \in UNION {Listing(Folder((at - i * Hour) \div Hour), 0, s.limit) :
                          i \in 0 .. s.lookback \div Hour - 1} :
            f[1] >= at - s.lookback /\ f[1] <= at}

\* The folders of the last hours.
GoesListed(s, at, there) ==
    LET Folder(h) == {f \in there : f[1] \div Hour = h}
    IN  {f \in UNION {Listing(Folder((at - i * Hour) \div Hour), 0, s.limit) :
                          i \in 0 .. s.lookback \div Hour} :
            f[1] >= at - s.lookback /\ f[1] <= at}

\* Down to a multiple of the step within the day, unless the step is one hour.
SnapToStep(t, every) ==
    IF every <= Hour THEN t ELSE (t \div Day) * Day + ((t % Day) \div every) * every

\* The times between lookback and delay_hours ago, by steps.
LisTimes(s, at) ==
    LET earliest == SnapToStep(at - s.delay - s.lookback, s.every)
    IN  {t \in earliest .. at - s.delay : (t - earliest) % s.every = 0}

\* The files that a cycle finds.
Discovered(s, at, there) ==
    CASE s.kind = "forecast" -> Forecasts(s, at) \cap there
      [] s.kind = "mrms" -> MrmsListed(s, at, there)
      [] s.kind = "goes" -> GoesListed(s, at, there)
      [] s.kind = "lis" -> (LisTimes(s, at) \X s.steps) \cap there

-----------------------------------------------------------------------------
(* The source, the clock, and run_forever *)

\* When a runner that looks as it should may first and last look for a file: a
\* model run from delay_hours after it began until the next one has been
\* going for as long, other files until they are older than the lookback.
FirstAsked(s, f) == IF s.kind \in {"forecast", "lis"} THEN f[1] + s.delay ELSE f[1]
LastAsked(s, f) ==
    IF s.kind = "forecast"
    THEN LET later == {t \in Runs(s) : t > f[1]}
         IN  IF later = {} THEN Horizon ELSE Min(later) + s.delay - 1
    ELSE FirstAsked(s, f) + s.lookback

\* Cycles begin no farther apart than this.
Gap(s) == s.poll + MaxBusy

\* The file appears, at its time or later.  It is owed if a cycle will still
\* begin while it is looked for, whatever faults are to come.
Appear ==
    /\ ~appeared
    /\ file[1] <= now
    /\ appeared' = TRUE
    /\ owed' = (Max({now, FirstAsked(source, file)}) + (MaxFaults - faults + 1) * Gap(source)
                    <= LastAsked(source, file))
    /\ UNCHANGED <<source, file, now, runVars, downloaded, faults>>

\* A cycle reads the clock ...
Begin ==
    /\ cycle = "idle" /\ timer = 0
    /\ cycle' = "looking"
    /\ clock' = now
    /\ timer' \in 0 .. MaxBusy
    /\ UNCHANGED <<source, file, now, appeared, taken, downloaded, faults, owed>>

\* ... asks the source by it, some time later, ...
Look ==
    /\ cycle = "looking"
    /\ taken' = (file \in Discovered(source, clock, There))
    /\ cycle' = "fetching"
    /\ UNCHANGED <<source, file, now, appeared, clock, timer, downloaded, faults, owed>>

\* ... and fetches what it found.  Any request of the cycle may fail, to look
\* for the file or to fetch it.  Then the runner sleeps.
End ==
    /\ cycle = "fetching" /\ timer = 0
    /\ \/ /\ downloaded' = (downloaded \/ taken)
          /\ UNCHANGED faults
       \/ /\ taken /\ ~downloaded
          /\ faults < MaxFaults
          /\ faults' = faults + 1
          /\ UNCHANGED downloaded
    /\ cycle' = "idle" /\ timer' = source.poll /\ taken' = FALSE
    /\ UNCHANGED <<source, file, now, appeared, clock, owed>>

\* The downloader dies and is started again; the first cycle comes at once.
Crash ==
    /\ faults < MaxFaults
    /\ faults' = faults + 1
    /\ cycle' = "idle" /\ timer' = 0 /\ taken' = FALSE
    /\ UNCHANGED <<source, file, now, appeared, clock, downloaded, owed>>

Tick ==
    /\ timer > 0
    /\ now < Horizon
    /\ now' = now + 1
    /\ timer' = timer - 1
    /\ UNCHANGED <<source, file, appeared, cycle, clock, taken, downloaded, faults, owed>>

\* The end of the bounded clock.
Over == now = Horizon /\ UNCHANGED lookVars

LookNext == Appear \/ Begin \/ Look \/ End \/ Crash \/ Tick \/ Over

LookSpec == LookInit /\ [][LookNext]_lookVars

-----------------------------------------------------------------------------
(* Properties *)

\* What a cycle asks for by its clock is the run of a forecast that began
\* delay_hours ago or before, never the one that begins tonight.
LooksBack ==
    (cycle = "looking" /\ source.kind = "forecast") =>
        LatestCycle(source, clock) <= clock - source.delay

\* Nothing is lost between two cycles: a file that appears while a cycle will
\* still look for it is downloaded, across midnight, the hour and the next
\* model run, with requests that fail and deaths on the way.
NothingMissed ==
    (owed /\ now > LastAsked(source, file) + MaxBusy) => downloaded

\* A runner looks for the right files, and in time.
CaughtInTime == LooksBack /\ NothingMissed
=============================================================================
