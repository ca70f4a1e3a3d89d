--------------------------- MODULE ObservationFeeds ----------------------------
(***************************************************************************)
(* Point data: the downloader's observation runners, the ingester's two     *)
(* handlers for what they post, the tables of the observation catalogue,    *)
(* and a reader of TAF forecasts in edr-api.                                *)
(*                                                                         *)
(* A runner polls what its source publishes now and posts all of it; it     *)
(* keeps nothing and retries nothing, the next poll is the retry.  The      *)
(* observation handler writes the stations first, then the observations,    *)
(* and gives the batch up at the first error.  The TAF handler writes one   *)
(* TAF after another, each in a transaction, goes on after an error, and    *)
(* writes the stations last: both kinds of row refer to their station.      *)
(*                                                                         *)
(* The reports a source publishes for a station are numbered; two numbers   *)
(* of one issue time are a report and its amendment.                        *)
(***************************************************************************)
EXTENDS Naturals, FiniteSets

CONSTANTS
    Stations,
    ObsFeeds,       \* METAR, NDBC, DART
    Taf,            \* the TAF feed
    NumReports,     \* bound: reports a feed publishes for a station
    Asked,          \* bound: the stations whose TAF the client asks for
    IssueOf,        \* the issue (or observation) time of a report
    Rejected,       \* <<feed, station, report>> that a column cannot hold
    NumPeriods,     \* forecast periods of a TAF
    MaxFailures,    \* bound: failed calls and statements, time-outs, restarts
    None

Feeds == ObsFeeds \cup {Taf}
Reports == DOMAIN IssueOf
Issues == {IssueOf[v] : v \in Reports}

ASSUME FeedAssumption == Taf \notin ObsFeeds /\ None \notin Feeds \cup Stations
\* An amendment has the time of the report before it, later reports a later one.
ASSUME IssueAssumption ==
    /\ IssueOf \in [Reports -> Nat] /\ Reports \subseteq Nat \ {0}
    /\ \A v, w \in Reports : v <= w => IssueOf[v] <= IssueOf[w]

VARIABLES
    published,      \* published[f][s]: the report the source shows, 0 for none
    located,        \* the stations in the table locations
    observed,       \* the keys <<feed, station, time>> of the table observations
    heads,          \* heads[s][i]: the TAF in taf_forecasts, 0 for none
    periods,        \* periods[s][i]: its rows in taf_periods
    tx,             \* the transaction of upsert_taf, or None
    at,             \* where a feed's handler is, "idle" while the runner sleeps
    batch,          \* the stations and reports posted to it
    todo,           \* those its loop has still to go through
    failures,       \* failures so far
    reader,         \* the last request of get_latest_taf, or None
    seen            \* seen[s]: the TAF its client was last given (history)

vars == <<published, located, observed, heads, periods, tx, at, batch, todo,
          failures, reader, seen>>
tables == <<located, observed, heads, periods>>
handlers == <<at, batch, todo>>
reading == <<reader, seen>>

Posted == Stations \X Reports
PeriodRows == Reports \X (1..NumPeriods)
\* The rows of one TAF.
PeriodsOf(v) == {v} \X (1..NumPeriods)

ASSUME BoundAssumption ==
    /\ NumReports \in [Feeds -> [Stations -> Nat]] /\ Asked \subseteq Stations
    /\ \A f \in Feeds, s \in Stations : 1..NumReports[f][s] \subseteq Reports
    /\ NumPeriods \in Nat /\ MaxFailures \in Nat

\* A TAF's transaction sees its own rows; everybody else those of the tables.
Transactions == [report : Posted, rows : SUBSET PeriodRows, step : {"delete", "insert"}]
Readings == [station : Asked, issue : Issues, head : Reports,
             rows : SUBSET PeriodRows, step : {"head", "answered"}]
ASSUME NoneAssumption == None \notin Transactions \cup Readings

TypeOK ==
    /\ published \in [Feeds -> [Stations -> Reports \cup {0}]]
    /\ located \in SUBSET Stations
    /\ observed \in SUBSET (ObsFeeds \X Stations \X Issues)
    /\ heads \in [Stations -> [Issues -> Reports \cup {0}]]
    /\ periods \in [Stations -> [Issues -> SUBSET PeriodRows]]
    /\ tx \in Transactions \cup {None}
    /\ at \in [Feeds -> {"idle", "locate", "store"}]
    /\ batch \in [Feeds -> SUBSET Posted]
    /\ todo \in [Feeds -> SUBSET Posted]
    /\ \A f \in Feeds : todo[f] \subseteq batch[f]
    /\ \A f \in Feeds : (at[f] = "idle") => (batch[f] = {})
    /\ (tx # None) => (at[Taf] = "store" /\ tx.report \in todo[Taf])
    /\ failures \in 0..MaxFailures
    /\ reader \in Readings \cup {None}
    /\ seen \in [Stations -> Reports \cup {0}]

\* bootstrap_locations has put some of the stations into the table.
Init ==
    /\ published = [f \in Feeds |-> [s \in Stations |-> 0]]
    /\ located \in SUBSET Stations
    /\ observed = {}
    /\ heads = [s \in Stations |-> [i \in Issues |-> 0]]
    /\ periods = [s \in Stations |-> [i \in Issues |-> {}]]
    /\ tx = None
    /\ at = [f \in Feeds |-> "idle"]
    /\ batch = [f \in Feeds |-> {}]
    /\ todo = [f \in Feeds |-> {}]
    /\ failures = 0
    /\ reader = None
    /\ seen = [s \in Stations |-> 0]
--------------------------------------------------------------------------------
(***************************************************************************)
(* The sources and the runners                                             *)
(***************************************************************************)
Publish(f, s) ==
    /\ published[f][s] < NumReports[f][s]
    /\ published' = [published EXCEPT ![f][s] = @ + 1]
    /\ UNCHANGED <<tables, tx, handlers, failures, reading>>

Current(f) == {p \in Posted : published[f][p[1]] = p[2]}

\* The handler's loops begin: observations with their stations, TAFs without.
Enter(f, step) ==
    /\ at' = [at EXCEPT ![f] = step]
    /\ todo' = [todo EXCEPT ![f] = batch'[f]]

\* run_cycle: nothing is posted when the source has nothing.
Poll(f) ==
    /\ at[f] = "idle" /\ Current(f) # {}
    /\ batch' = [batch EXCEPT ![f] = Current(f)]
    /\ Enter(f, IF f = Taf THEN "store" ELSE "locate")
    /\ UNCHANGED <<published, tables, tx, failures, reading>>

\* The handler answers; the runner logs it and goes to sleep.
Answer(f) ==
    /\ at' = [at EXCEPT ![f] = "idle"]
    /\ batch' = [batch EXCEPT ![f] = {}]
    /\ todo' = [todo EXCEPT ![f] = {}]
--------------------------------------------------------------------------------
(***************************************************************************)
(* Both handlers: stations                                                 *)
(***************************************************************************)
UpsertLocation(f, p) ==
    /\ at[f] = "locate" /\ p \in todo[f]
    /\ located' = located \cup {p[1]}
    /\ todo' = [todo EXCEPT ![f] = @ \ {p}]
    /\ UNCHANGED <<published, observed, heads, periods, tx, at, batch, failures, reading>>

Located(f) ==
    /\ at[f] = "locate" /\ todo[f] = {}
    /\ IF f = Taf
       THEN Answer(f)
       ELSE UNCHANGED batch /\ Enter(f, "store")
    /\ UNCHANGED <<published, tables, tx, failures, reading>>

\* Mutant: the observations are inserted although the stations were not written.
LocateFails_GoesOn(f) ==
    /\ at[f] = "locate" /\ todo[f] # {} /\ failures < MaxFailures
    /\ failures' = failures + 1
    /\ IF f = Taf
       THEN Answer(f)
       ELSE UNCHANGED batch /\ Enter(f, "store")
    /\ UNCHANGED <<published, tables, tx, reading>>

\* upsert_locations stops at the first error.  The one handler gives the batch
\* up for that, the other has nothing left to do.
LocateFails(f) ==
    /\ at[f] = "locate" /\ todo[f] # {} /\ failures < MaxFailures
    /\ failures' = failures + 1
    /\ Answer(f)
    /\ UNCHANGED <<published, tables, tx, reading>>
--------------------------------------------------------------------------------
(***************************************************************************)
(* The observation handler                                                 *)
(***************************************************************************)
\* Mutant: a plain INSERT: a report that is there already is an error.
Accepted_OnlyNew(f, p) ==
    /\ p[1] \in located /\ <<f, p[1], p[2]>> \notin Rejected
    /\ <<f, p[1], IssueOf[p[2]]>> \notin observed

Accepted(f, p) == p[1] \in located /\ <<f, p[1], p[2]>> \notin Rejected

\* A second report of one time conflicts with the first, and is left out.
InsertObservation(f, p) ==
    /\ f # Taf /\ at[f] = "store" /\ p \in todo[f] /\ Accepted(f, p)
    /\ observed' = observed \cup {<<f, p[1], IssueOf[p[2]]>>}
    /\ todo' = [todo EXCEPT ![f] = @ \ {p}]
    /\ UNCHANGED <<published, located, heads, periods, tx, at, batch, failures, reading>>

\* insert_observations stops at the first error: what is left of the batch is
\* dropped.
ObservationRejected(f, p) ==
    /\ f # Taf /\ at[f] = "store" /\ p \in todo[f] /\ ~Accepted(f, p)
    /\ Answer(f)
    /\ UNCHANGED <<published, tables, tx, failures, reading>>

InsertFails(f) ==
    /\ f # Taf /\ at[f] = "store" /\ todo[f] # {} /\ failures < MaxFailures
    /\ failures' = failures + 1
    /\ Answer(f)
    /\ UNCHANGED <<published, tables, tx, reading>>

Inserted(f) ==
    /\ f # Taf /\ at[f] = "store" /\ todo[f] = {}
    /\ Answer(f)
    /\ UNCHANGED <<published, tables, tx, failures, reading>>
--------------------------------------------------------------------------------
(***************************************************************************)
(* The TAF handler                                                         *)
(***************************************************************************)
\* The next TAF of the loop, whether or not this one was written.
NextTaf(p) ==
    /\ tx' = None
    /\ todo' = [todo EXCEPT ![Taf] = @ \ {p}]

\* The header: refused when the station is not in the table.
UpsertHeader(p) ==
    /\ at[Taf] = "store" /\ tx = None /\ p \in todo[Taf] /\ p[1] \in located
    /\ tx' = [report |-> p, rows |-> periods[p[1]][IssueOf[p[2]]], step |-> "delete"]
    /\ UNCHANGED <<published, tables, handlers, failures, reading>>

\* Mutant: the TAF handler returns at the first TAF that is refused.
HeaderRefused_Returns(p) ==
    /\ at[Taf] = "store" /\ tx = None /\ p \in todo[Taf] /\ p[1] \notin located
    /\ Answer(Taf)
    /\ UNCHANGED <<published, tables, tx, failures, reading>>

HeaderRefused(p) ==
    /\ at[Taf] = "store" /\ tx = None /\ p \in todo[Taf] /\ p[1] \notin located
    /\ NextTaf(p)
    /\ UNCHANGED <<published, tables, at, batch, failures, reading>>

\* Mutant: the old periods are deleted on the pool, not on the transaction.
DeletePeriods_OnPool ==
    /\ tx # None /\ tx.step = "delete"
    /\ tx' = [tx EXCEPT !.rows = {}, !.step = "insert"]
    /\ periods' = [periods EXCEPT ![tx.report[1]][IssueOf[tx.report[2]]] = {}]
    /\ UNCHANGED <<published, located, observed, heads, handlers, failures, reading>>

DeletePeriods ==
    /\ tx # None /\ tx.step = "delete"
    /\ tx' = [tx EXCEPT !.rows = {}, !.step = "insert"]
    /\ UNCHANGED <<published, tables, handlers, failures, reading>>

InsertPeriod(k) ==
    /\ tx # None /\ tx.step = "insert"
    /\ tx.rows = {tx.report[2]} \X (1..(k - 1))
    /\ <<Taf, tx.report[1], tx.report[2]>> \notin Rejected
    /\ tx' = [tx EXCEPT !.rows = @ \cup {<<tx.report[2], k>>}]
    /\ UNCHANGED <<published, tables, handlers, failures, reading>>

Commit ==
    /\ tx # None /\ tx.step = "insert" /\ tx.rows = PeriodsOf(tx.report[2])
    /\ LET s == tx.report[1]
           i == IssueOf[tx.report[2]]
       IN  /\ heads' = [heads EXCEPT ![s][i] = tx.report[2]]
           /\ periods' = [periods EXCEPT ![s][i] = tx.rows]
    /\ NextTaf(tx.report)
    /\ UNCHANGED <<published, located, observed, at, batch, failures, reading>>

\* A period that no column holds: dropping tx rolls back.
PeriodRejected ==
    /\ tx # None /\ tx.step = "insert"
    /\ <<Taf, tx.report[1], tx.report[2]>> \in Rejected
    /\ NextTaf(tx.report)
    /\ UNCHANGED <<published, tables, at, batch, failures, reading>>

UpsertFails(p) ==
    /\ at[Taf] = "store" /\ p \in todo[Taf] /\ failures < MaxFailures
    /\ (tx # None) => (tx.report = p)
    /\ failures' = failures + 1
    /\ NextTaf(p)
    /\ UNCHANGED <<published, tables, at, batch, reading>>

TafsStored ==
    /\ at[Taf] = "store" /\ todo[Taf] = {}
    /\ UNCHANGED batch /\ Enter(Taf, "locate")
    /\ UNCHANGED <<published, tables, tx, failures, reading>>
--------------------------------------------------------------------------------
\* Mutant: the transaction outlives the handler that was dropped.
Cut_LeavesTransaction(f) ==
    /\ at[f] # "idle" /\ failures < MaxFailures
    /\ failures' = failures + 1
    /\ Answer(f)
    /\ UNCHANGED <<published, tables, tx, reading>>

\* The runner's time-out, or a restart of either service: the handler is dropped
\* where it is, and its transaction with it.
Cut(f) ==
    /\ at[f] # "idle" /\ failures < MaxFailures
    /\ failures' = failures + 1
    /\ tx' = IF f = Taf THEN None ELSE tx
    /\ Answer(f)
    /\ UNCHANGED <<published, tables, reading>>

(***************************************************************************)
(* get_latest_taf: two queries, no transaction around them                 *)
(***************************************************************************)
\* Mutant: no ORDER BY issue_time.
Latest_Any(s) == {i \in Issues : heads[s][i] # 0}

Latest(s) ==
    {i \in Issues : heads[s][i] # 0 /\ \A j \in Issues : heads[s][j] # 0 => j <= i}

ReadHead(s) ==
    /\ (reader # None) => (reader.step = "answered")
    /\ \E i \in Latest(s) :
         reader' = [station |-> s, issue |-> i, head |-> heads[s][i], rows |-> {},
                    step |-> "head"]
    /\ UNCHANGED <<published, tables, tx, handlers, failures, seen>>

ReadPeriods ==
    /\ reader # None /\ reader.step = "head"
    /\ reader' = [reader EXCEPT !.rows = periods[reader.station][reader.issue],
                                !.step = "answered"]
    /\ seen' = [seen EXCEPT ![reader.station] = reader.head]
    /\ UNCHANGED <<published, tables, tx, handlers, failures>>
--------------------------------------------------------------------------------
HandleTaf ==
    \/ \E p \in Posted : UpsertHeader(p) \/ HeaderRefused(p)
    \/ DeletePeriods \/ (\E k \in 1..NumPeriods : InsertPeriod(k)) \/ Commit
    \/ PeriodRejected \/ TafsStored

Handle(f) ==
    \/ \E p \in Posted : UpsertLocation(f, p) \/ InsertObservation(f, p) \/ ObservationRejected(f, p)
    \/ Located(f) \/ Inserted(f)
    \/ f = Taf /\ HandleTaf

Fails(f) == LocateFails(f) \/ InsertFails(f) \/ Cut(f)

Read == (\E s \in Asked : ReadHead(s)) \/ ReadPeriods

Next ==
    \/ \E f \in Feeds, s \in Stations : Publish(f, s)
    \/ \E f \in Feeds : Poll(f) \/ Handle(f) \/ Fails(f)
    \/ \E p \in Posted : UpsertFails(p)
    \/ Read

\* A runner sleeps for its interval and polls again, whatever happened; the
\* handler it waits for runs until it answers.
Fairness == \A f \in Feeds : WF_vars(Poll(f) \/ Handle(f))

Spec == Init /\ [][Next]_vars /\ Fairness
--------------------------------------------------------------------------------
(***************************************************************************)
(* Properties                                                              *)
(***************************************************************************)
\* What get_latest_taf answers has the periods of one TAF, all of them: the
\* header's own, or those of an amendment that was committed between its two
\* queries, but never a mixture, none, or those of an older one.
ReadsWhole ==
    (reader # None /\ reader.step = "answered") =>
        \E v \in Reports : /\ v >= reader.head
                           /\ IssueOf[v] = reader.issue
                           /\ reader.rows = PeriodsOf(v)

\* A client that asks again is never given an older TAF than before, whatever
\* failed, was rolled back or was polled again in between.
ReadsForward == (reader # None) => seen[reader.station] <= reader.head

\* When the observation handler inserts, every station of its batch is in the
\* table, so that no observation is refused for want of its station.
LocatedFirst ==
    \A f \in ObsFeeds : (at[f] = "store") => ({p[1] : p \in batch[f]} \subseteq located)

\* A TAF that stays published is stored in the end, also when its airport was
\* unknown at first and when other TAFs of the batch are refused every time.
TafsArrive ==
    []<>(\A s \in Stations, v \in Reports :
            published[Taf][s] = v =>
                heads[s][IssueOf[v]] >= v \/ <<Taf, s, v>> \in Rejected)

\* The time of an observation that stays published is stored in the end, unless
\* its source goes on publishing a report beside it that the table refuses.
ReportsArrive ==
    \A f \in ObsFeeds :
        []<>(\A s \in Stations, v \in Reports :
                published[f][s] = v =>
                    \/ <<f, s, IssueOf[v]>> \in observed
                    \/ \E t \in Stations : <<f, t, published[f][t]>> \in Rejected)

\* The abstract tables these implement, for the stations that are asked for.  A
\* request has taken the TAF that is stored under the issue time it looked up,
\* which an amendment may have replaced since.
Stored(s) == {0} \cup {heads[s][i] : i \in Issues}
Newest == [s \in Asked |-> CHOOSE v \in Stored(s) : \A w \in Stored(s) : w <= v]
Request ==
    IF reader = None THEN [step |-> "none"]
    ELSE IF reader.step = "head"
    THEN [step |-> "asked", station |-> reader.station,
          taken |-> heads[reader.station][reader.issue]]
    ELSE [step |-> "answered", station |-> reader.station, rows |-> reader.rows]

Tafs == INSTANCE ServedTafs WITH Stations <- Asked, latest <- Newest, request <- Request

\* get_latest_taf looks a TAF up in one query and its periods in another, and
\* the periods it answers with are still those of the newest TAF there was at
\* one instant between the two.
ServesNewestTaf == Tafs!Spec
================================================================================
