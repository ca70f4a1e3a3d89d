------------------------------- MODULE Transfer -------------------------------
(***************************************************************************)
(* The transfer of one file: download_selective, download and what both    *)
(* leave in the temp directory.                                            *)
(*                                                                         *)
(* A selective download asks for some byte ranges of the source and writes *)
(* what it is sent one after the other; a body need not be as long as its  *)
(* range.  When that fails the full download takes over.                   *)
(* The full download appends what it receives to a partial file, which     *)
(* survives interruptions, failed cycles and crashes, and asks for the     *)
(* rest with a range request.  The partial file is known by its name and   *)
(* its length only.  The cleanup task removes partial files that were not  *)
(* written to for an hour, while a download may be at them.                *)
(*                                                                         *)
(* The source is a sequence of pieces and does not change.  Moving the     *)
(* file on the same device is atomic; the copy across devices, and what    *)
(* comes after it, is in DownloadLifecycle.                                *)
(***************************************************************************)
EXTENDS Naturals, Sequences

CONSTANTS
    Size,         \* the pieces of the source
    Selection,    \* the pieces a selective download asks for
    Cuts,         \* where in Selection each of its ranges ends
    Selective,    \* does the model use an index file?
    SkipSize,     \* skip_size_validation of the model
    HeadReliable, \* does every answer to HEAD state the length, if any answer does?
    MaxRetries,   \* max_retries
    None,         \* no length
    MaxFaults,    \* bound: requests and streams that fail
    MaxCrashes,   \* bound: deaths of the downloader
    MaxCleans     \* bound: partial files removed under a running download

Pieces == 1..Size

ASSUME SizeAssumption == Size \in Nat \ {0}
ASSUME SelectionAssumption == Selection \in Seq(Pieces) /\ Selection # <<>>

\* The merged ranges, as indices into Selection.
RangeStart(k) == IF k = 1 THEN 1 ELSE Cuts[k - 1] + 1
RangeSize(k) == Cuts[k] + 1 - RangeStart(k)

\* A range is contiguous, and no message is so short that nothing at all
\* would pass for it.
ASSUME CutsAssumption ==
    /\ Cuts \in Seq(1..Len(Selection)) /\ Cuts # <<>>
    /\ Cuts[Len(Cuts)] = Len(Selection)
    /\ \A k \in 1..Len(Cuts) :
         /\ RangeSize(k) >= 2
         /\ \A i \in 1..RangeSize(k) :
              Selection[RangeStart(k) + i - 1] = Selection[RangeStart(k)] + i - 1
ASSUME ModelAssumption ==
    Selective \in BOOLEAN /\ SkipSize \in BOOLEAN /\ HeadReliable \in BOOLEAN
ASSUME NoneAssumption == None \notin Nat
ASSUME BoundsAssumption ==
    MaxRetries \in Nat /\ MaxFaults \in Nat /\ MaxCrashes \in Nat /\ MaxCleans \in Nat

VARIABLES
    stating,  \* does this server state lengths at all?
    partial,  \* the partial file; an empty one is as good as none
    final,    \* the file under its final name, or <<>>
    saved,    \* total_bytes of the row in `downloads`
    total,    \* total_bytes of the download's progress
    pc,       \* where the download is
    ranged,   \* supports_range
    pos,      \* the next piece asked for, or the next range
    linked,   \* does the file being written still have its name?
    tries,    \* retry_count
    stale,    \* was the partial file not written to for an hour?
    doomed,   \* the cleanup task saw it stale and is about to remove it
    faults,   \* requests and streams that failed
    crashes,  \* deaths so far
    cleans,   \* partial files it removed under a running download
    spoilt    \* history: was what is in the file received in ranges of another
              \* length, or by a selective download that died?

fileVars == <<partial, final, linked>>
progressVars == <<saved, total, ranged, pos, tries>>
cleanVars == <<stale, doomed, cleans>>
envVars == <<stating, faults, crashes>>
vars == <<fileVars, progressVars, pc, cleanVars, envVars, spoilt>>

Length == Nat \cup {None}

TypeOK ==
    /\ stating \in BOOLEAN
    /\ partial \in Seq(Pieces) /\ final \in Seq(Pieces)
    /\ saved \in Length /\ total \in Length
    /\ pc \in {"idle", "start", "ranges", "head", "measure", "await", "stream", "verify"}
    /\ ranged \in BOOLEAN /\ pos \in Nat \ {0} /\ linked \in BOOLEAN /\ tries \in Nat
    /\ stale \in BOOLEAN /\ doomed \in BOOLEAN /\ spoilt \in BOOLEAN
    /\ faults \in Nat /\ crashes \in Nat /\ cleans \in Nat

Init ==
    /\ stating \in BOOLEAN
    /\ partial = <<>> /\ final = <<>>
    /\ saved = None /\ total = None
    /\ pc = "idle"
    /\ ranged = FALSE /\ pos = 1 /\ linked = TRUE /\ tries = 0
    /\ stale = FALSE /\ doomed = FALSE /\ spoilt = FALSE
    /\ faults = 0 /\ crashes = 0 /\ cleans = 0

\* download begins: get_or_create reads the length an earlier one saved.
StartFull == pc' = "head" /\ total' = saved /\ tries' = 0

(***************************************************************************)
(* A cycle of the runner takes the file up, until it has its final name.   *)
(***************************************************************************)

Begin ==
    /\ pc = "idle"
    /\ final = <<>>
    /\ pc' = "start"
    /\ UNCHANGED <<fileVars, progressVars, cleanVars, envVars, spoilt>>

(***************************************************************************)
(* download_selective and download_byte_ranges.                            *)
(***************************************************************************)

\* The index is fetched and has what is wanted; the partial file is
\* truncated, and keeps its name.
IndexFound ==
    /\ pc = "start"
    /\ Selective
    /\ partial' = <<>> /\ linked' = TRUE /\ stale' = FALSE
    /\ pos' = 1 /\ spoilt' = FALSE
    /\ pc' = "ranges"
    /\ UNCHANGED <<final, saved, total, ranged, tries, doomed, cleans, envVars>>

\* The model has no index, or it is not there, cannot be parsed or matches
\* nothing: the full download takes over, and nothing was written.
NoIndex ==
    /\ pc = "start"
    /\ StartFull
    /\ UNCHANGED <<fileVars, saved, ranged, pos, cleanVars, envVars, spoilt>>

\* A body of n pieces passes for a range of m: the code counts bytes.
Tolerated(n, m) == n >= m \div 2 /\ n <= 2 * m

\* A body of n pieces for the k-th range begins where the range does.  What
\* one of another length holds is told apart by nothing.
Body(k, n) ==
    [i \in 1..n |-> LET p == Selection[RangeStart(k)] + i - 1
                    IN  IF p <= Size THEN p ELSE Size]

\* Mutant: the length of the body is not looked at.
RangeGet_AnyLength ==
    /\ pc = "ranges"
    /\ pos <= Len(Cuts)
    /\ \E n \in 0..3 * RangeSize(pos) :
         /\ partial' = IF linked THEN partial \o Body(pos, n) ELSE partial
         /\ spoilt' = (spoilt \/ n # RangeSize(pos))
    /\ pos' = pos + 1
    /\ UNCHANGED <<final, linked, saved, total, ranged, tries, pc, cleanVars, envVars>>

\* The body of one range is received as a whole and written.
RangeGet ==
    /\ pc = "ranges"
    /\ pos <= Len(Cuts)
    /\ \E n \in 0..2 * RangeSize(pos) :
         /\ Tolerated(n, RangeSize(pos))
         /\ partial' = IF linked THEN partial \o Body(pos, n) ELSE partial
         /\ spoilt' = (spoilt \/ n # RangeSize(pos))
    /\ pos' = pos + 1
    /\ UNCHANGED <<final, linked, saved, total, ranged, tries, pc, cleanVars, envVars>>

\* Mutant: the partial file stays when the full download takes over.
RangeFail_KeepsPartial ==
    /\ pc = "ranges"
    /\ pos <= Len(Cuts)
    /\ StartFull
    /\ UNCHANGED <<fileVars, saved, ranged, pos, cleanVars, envVars, spoilt>>

\* A range fails, its body is not tolerated, or the server sends all of the
\* file instead.
RangeFail ==
    /\ pc = "ranges"
    /\ pos <= Len(Cuts)
    /\ partial' = <<>> /\ spoilt' = FALSE
    /\ StartFull
    /\ UNCHANGED <<final, linked, saved, ranged, pos, cleanVars, envVars>>

\* The file gets its final name and the row goes.  A file that was removed
\* can be neither renamed nor copied.
RangesDone ==
    /\ pc = "ranges"
    /\ pos > Len(Cuts)
    /\ \/ /\ linked
          /\ final' = partial /\ partial' = <<>> /\ saved' = None
       \/ /\ ~linked
          /\ UNCHANGED <<final, partial, saved>>
    /\ pc' = "idle"
    /\ UNCHANGED <<linked, total, ranged, pos, tries, cleanVars, envVars, spoilt>>

(***************************************************************************)
(* download and download_with_resume.                                      *)
(***************************************************************************)

\* HEAD for the length, unless it is known, and for the support of ranges.
\* An answer that is no success leaves the length unknown.
AskHead ==
    /\ pc = "head"
    /\ \/ total # None /\ UNCHANGED total
       \/ total = None /\ stating /\ total' = Size
       \/ total = None /\ ~(stating /\ HeadReliable) /\ total' = None
    /\ ranged' \in BOOLEAN
    /\ pc' = "measure"
    /\ UNCHANGED <<fileVars, saved, pos, tries, cleanVars, envVars, spoilt>>

AllThere == total # None /\ Len(partial) >= total

\* Mutant: the range begins with the last byte that is there.
Measure_Overlaps ==
    /\ pc = "measure"
    /\ \/ /\ AllThere
          /\ pc' = "verify"
          /\ UNCHANGED <<partial, pos>>
       \/ /\ ~AllThere
          /\ pc' = "await"
          /\ \/ ranged /\ pos' = Len(partial) /\ UNCHANGED partial
             \/ ~ranged /\ pos' = 1 /\ partial' = <<>>
    /\ UNCHANGED <<final, linked, saved, total, ranged, tries, cleanVars, envVars, spoilt>>

\* The length of the partial file decides: all there, ask for the rest, or
\* remove it and ask for everything.
Measure ==
    /\ pc = "measure"
    /\ \/ /\ AllThere
          /\ pc' = "verify"
          /\ UNCHANGED <<partial, pos>>
       \/ /\ ~AllThere
          /\ pc' = "await"
          /\ \/ ranged /\ pos' = Len(partial) + 1 /\ UNCHANGED partial
             \/ ~ranged /\ pos' = 1 /\ partial' = <<>>
    /\ UNCHANGED <<final, linked, saved, total, ranged, tries, cleanVars, envVars, spoilt>>

\* The length of a response's body stands for the total when that is
\* unknown.
LearnLength(n) == total' = IF total = None /\ stating THEN n ELSE total

\* 206: the file is opened for appending, and created when it is not there.
PartialContent ==
    /\ pc = "await"
    /\ pos > 1 /\ pos <= Size
    /\ LearnLength(Size + 1 - pos)
    /\ linked' = TRUE
    /\ pc' = "stream"
    /\ UNCHANGED <<partial, final, saved, ranged, pos, tries, cleanVars, envVars, spoilt>>

\* 200, asked for or not: from scratch.
FullContent ==
    /\ pc = "await"
    /\ LearnLength(Size)
    /\ partial' = <<>> /\ linked' = TRUE
    /\ pos' = 1 /\ spoilt' = FALSE
    /\ pc' = "stream"
    /\ UNCHANGED <<final, saved, ranged, tries, cleanVars, envVars>>

\* Mutant: the partial file stays, and the same question is asked again.
NotSatisfiable_KeepsPartial ==
    /\ pc = "await"
    /\ pos > Size
    /\ pc' = "measure"
    /\ UNCHANGED <<fileVars, progressVars, cleanVars, envVars, spoilt>>

\* 416: there is no rest; once more from scratch.
NotSatisfiable ==
    /\ pc = "await"
    /\ pos > Size
    /\ partial' = <<>>
    /\ pc' = "measure"
    /\ UNCHANGED <<final, linked, progressVars, cleanVars, envVars, spoilt>>

\* A piece arrives and is written to the open file; once a megabyte is there
\* the progress is saved.
Receive ==
    /\ pc = "stream"
    /\ pos <= Size
    /\ partial' = IF linked THEN Append(partial, pos) ELSE partial
    /\ stale' = (stale /\ ~linked)
    /\ pos' = pos + 1
    /\ saved' \in {saved, total}
    /\ UNCHANGED <<final, linked, total, ranged, tries, pc, doomed, cleans, envVars, spoilt>>

StreamEnd ==
    /\ pc = "stream"
    /\ pos > Size
    /\ pc' = "verify"
    /\ UNCHANGED <<fileVars, progressVars, cleanVars, envVars, spoilt>>

\* A request or the stream fails.  The progress is saved and the download
\* starts over where it is, until it runs out of retries.
Fail ==
    /\ pc \in {"head", "await", "stream"}
    /\ faults < MaxFaults /\ faults' = faults + 1
    /\ tries' = tries + 1
    /\ \/ tries' > MaxRetries /\ pc' = "idle" /\ UNCHANGED saved
       \/ tries' <= MaxRetries /\ pc' = "head" /\ saved' = total
    /\ UNCHANGED <<fileVars, total, ranged, pos, cleanVars, stating, crashes, spoilt>>

\* Is the partial file there, and as long as it should be?
Verified == partial # <<>> /\ (SkipSize \/ total = None \/ Len(partial) = total)

\* Mutant: the length is not verified.
Deliver_Unverified ==
    /\ pc = "verify"
    /\ partial # <<>>
    /\ final' = partial /\ partial' = <<>> /\ saved' = None
    /\ pc' = "idle"
    /\ UNCHANGED <<linked, total, ranged, pos, tries, cleanVars, envVars, spoilt>>

\* It gets its final name and the row goes.
Deliver ==
    /\ pc = "verify"
    /\ Verified
    /\ final' = partial /\ partial' = <<>> /\ saved' = None
    /\ pc' = "idle"
    /\ UNCHANGED <<linked, total, ranged, pos, tries, cleanVars, envVars, spoilt>>

\* Otherwise the download fails at once, and the partial file stays.
Mismatch ==
    /\ pc = "verify"
    /\ ~Verified
    /\ pc' = "idle"
    /\ UNCHANGED <<fileVars, progressVars, cleanVars, envVars, spoilt>>

(***************************************************************************)
(* cleanup_partial_files, and crashes.                                     *)
(***************************************************************************)

\* An hour passes between two cycles.
Age ==
    /\ pc = "idle"
    /\ partial # <<>> /\ ~stale
    /\ stale' = TRUE
    /\ UNCHANGED <<fileVars, progressVars, pc, doomed, cleans, envVars, spoilt>>

\* The cleanup task reads the age of the partial file
CleanLook ==
    /\ stale /\ partial # <<>> /\ ~doomed
    /\ doomed' = TRUE
    /\ UNCHANGED <<fileVars, progressVars, pc, stale, cleans, envVars, spoilt>>

\* and removes what has its name by then.
CleanRemove ==
    /\ doomed
    /\ \/ pc = "idle" /\ UNCHANGED cleans
       \/ pc # "idle" /\ cleans < MaxCleans /\ cleans' = cleans + 1
    /\ doomed' = FALSE
    /\ partial' = <<>> /\ linked' = FALSE /\ stale' = FALSE
    /\ UNCHANGED <<final, progressVars, pc, envVars, spoilt>>

\* The downloader dies and starts again; the partial file and the row are
\* all that is left.
Crash ==
    /\ crashes < MaxCrashes /\ crashes' = crashes + 1
    /\ pc' = "idle"
    /\ doomed' = FALSE
    /\ spoilt' = (spoilt \/ pc = "ranges")
    /\ UNCHANGED <<fileVars, progressVars, stale, cleans, stating, faults>>

SelectiveStep == IndexFound \/ NoIndex \/ RangeGet \/ RangeFail \/ RangesDone
FullStep ==
    \/ AskHead \/ Measure \/ PartialContent \/ FullContent \/ NotSatisfiable
    \/ Receive \/ StreamEnd \/ Deliver \/ Mismatch
RunStep == Begin \/ SelectiveStep \/ FullStep
CleanStep == CleanLook \/ CleanRemove

Next == RunStep \/ Fail \/ Age \/ CleanStep \/ Crash

Spec == Init /\ [][Next]_vars

\* The runner loops on a timer and every request has a timeout.  Time goes
\* on, and the hourly cleanup task comes by between two cycles.
Fairness == WF_vars(RunStep) /\ SF_vars(Age) /\ SF_vars(CleanStep)

FairSpec == Spec /\ Fairness

(***************************************************************************)
(* Properties.                                                             *)
(***************************************************************************)

Whole == [i \in Pieces |-> i]
Wanted == {Whole} \cup (IF Selective THEN {Selection} ELSE {})

\* What arrives is the source, or the selection: every piece once and in
\* its place, however often the transfer was interrupted, retried, restarted
\* from scratch, handed to the full download or resumed after a crash, and
\* whichever way the server answered.  Three things spoil it in this code:
\* the cleanup task at the partial file of a running download, a 206 whose
\* body is tolerated at another length, and a full download that resumes
\* what a selective one left when it died.
FinalIsSource == final # <<>> /\ cleans = 0 /\ ~spoilt => final \in Wanted

\* What the checks of the length are good for, whatever happened to the
\* partial file.  A full download from a server that states lengths gives
\* the final name to nothing of another length than the source's.  Of a
\* selective one each body is compared with its range, and never the total:
\* what it delivers is within a factor of two, and no closer.
RightSize ==
    [][final' # final =>
        IF pc = "ranges"
        THEN /\ Len(Selection) <= 2 * Len(final') + Len(Cuts)
             /\ Len(final') <= 2 * Len(Selection)
        ELSE stating /\ ~SkipSize => Len(final') = Size]_vars

\* The file arrives once faults, crashes and removals under a running
\* download stop: no row or partial file they leave behind keeps later
\* cycles from completing it.  A partial file longer than the source is
\* refused until the cleanup task removes it.
Completes == <>(final # <<>>)
=============================================================================
