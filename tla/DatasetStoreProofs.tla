------------------------- MODULE DatasetStoreProofs -------------------------
(***************************************************************************)
(* Theorems about DatasetStore: its type invariant, that no step leaves    *)
(* files nobody answers for but the two the code lets, and that settled    *)
(* static datasets stay, for every value of the constants; what readers    *)
(* rely on, for any number of datasets, ingestion requests and cleanup     *)
(* tasks, while each dataset is ingested at most once and no sync task     *)
(* runs; and, without a sync task and for cleanup cycles that no other one *)
(* overlaps, that protected runs stay and that no model loses its last run. *)
(***************************************************************************)
EXTENDS DatasetStore, FiniteSetTheorems, TLAPS

\* The hypotheses of AvailableComplete.  Either one failing admits a race
\* that deletes the files of an available dataset.
OnceOnly == MaxIngests <= 1
NoSync == Syncers = {}

(***************************************************************************)
(* The strengthening.  AvailableComplete alone is not inductive: it needs  *)
(* to know that a registration comes with all files there and that no      *)
(* worker still holds a path, or a listing, of a dataset that is, or is    *)
(* about to become, available.                                             *)
(***************************************************************************)

\* A dataset with a row, or with a request that writes it, was started.
StartedBefore ==
    \A d \in Datasets : ingests[d] = 0 =>
        /\ status[d] = "absent"
        /\ \A i \in Ingesters : job[i] # d

\* The request that writes a dataset is the only one, and there is no row yet.
SingleWriter ==
    \A i \in Ingesters : job[i] # None =>
        /\ status[job[i]] = "absent"
        /\ \A j \in Ingesters : job[j] = job[i] => j = i

\* What a request has uploaded is there.
UploadedThere ==
    \A i \in Ingesters : job[i] # None => Files \ unsent[i] \subseteq objects[job[i]]

\* Nobody deletes what is available or being written.
DoomedUnserved ==
    \A w \in Workers : \A d \in Datasets : d \in paths[w] \/ d = prefix[w] =>
        /\ status[d] # "available"
        /\ ingests[d] # 0
        /\ \A i \in Ingesters : job[i] # d

ServeInv ==
    /\ TypeOK
    /\ AvailableComplete
    /\ StartedBefore
    /\ SingleWriter
    /\ UploadedThere
    /\ DoomedUnserved

-----------------------------------------------------------------------------
(***************************************************************************)
(* Type correctness.                                                       *)
(***************************************************************************)

\* The runs of a model are reference times.
LEMMA RunsAreTimes ==
    ASSUME TypeOK, NEW m
    PROVE  ModelRuns(m) \subseteq Nat
BY TimeOfAssumption DEF TypeOK, ModelRuns, Available

LEMMA ModelsOfRows ==
    ASSUME TypeOK
    PROVE  {ModelOf[d] : d \in Available} \subseteq Models
BY ModelOfAssumption DEF TypeOK, Available

LEMMA TypeInit == Init => TypeOK
BY DEF Init, TypeOK, Status, Pc

LEMMA TypeNext == TypeOK /\ [Next]_vars => TypeOK'
<1> SUFFICES ASSUME TypeOK, [Next]_vars
             PROVE  TypeOK'
  OBVIOUS
<1> USE DEF TypeOK, Status, Pc, storeVars, ingestVars, markVars, deleteVars
<1>1. ASSUME NEW i \in Ingesters, NEW d \in Datasets, IngestStart(i, d)
      PROVE  TypeOK'
  BY <1>1 DEF IngestStart
<1>2. ASSUME NEW i \in Ingesters, IngestPut(i)
      PROVE  TypeOK'
  BY <1>2 DEF IngestPut
<1>3. ASSUME NEW i \in Ingesters, IngestRegister(i)
      PROVE  TypeOK'
  BY <1>3 DEF IngestRegister
<1>4. ASSUME NEW i \in Ingesters, IngestFail(i)
      PROVE  TypeOK'
  BY <1>4 DEF IngestFail
<1>5. ASSUME NEW c \in Workers, CleanBegin(c)
      PROVE  TypeOK'
  <2>1. alone' \in [Cleaners -> BOOLEAN]
    BY <1>5, Zenon DEF CleanBegin, Overlap
  <2> QED
    BY <1>5, <2>1, ModelsOfRows DEF CleanBegin
<1>6. ASSUME NEW c \in Workers, NEW m \in Models, CleanExamine(c, m)
      PROVE  TypeOK'
  <2>1. LatestRuns(m, KeepLatest[m]) \subseteq Nat
    BY RunsAreTimes DEF LatestRuns
  <2>2. QED
    BY <1>6, <2>1 DEF CleanExamine
<1>7. ASSUME NEW c \in Workers, CleanMark(c)
      PROVE  TypeOK'
  BY <1>7 DEF CleanMark
<1>8. ASSUME NEW c \in Workers, CleanPaths(c)
      PROVE  TypeOK'
  BY <1>8 DEF CleanPaths, Expired
<1>9. ASSUME NEW c \in Workers, CleanPurge(c)
      PROVE  TypeOK'
  BY <1>9 DEF CleanPurge
<1>10. ASSUME NEW w \in Workers, NEW d \in Datasets, DeleteList(w, d)
       PROVE  TypeOK'
  BY <1>10 DEF DeleteList
<1>11. ASSUME NEW w \in Workers, DeleteFile(w)
       PROVE  TypeOK'
  BY <1>11 DEF DeleteFile
<1>12. ASSUME NEW w \in Workers, DeleteDone(w)
       PROVE  TypeOK'
  BY <1>12 DEF DeleteDone
<1>13. ASSUME NEW w \in Workers, DeleteFail(w)
       PROVE  TypeOK'
  BY <1>13 DEF DeleteFail
<1>14. ASSUME NEW s \in Workers, SyncReadRows(s)
       PROVE  TypeOK'
  BY <1>14 DEF SyncReadRows, Available
<1>15. ASSUME NEW s \in Workers, SyncList(s)
       PROVE  TypeOK'
  BY <1>15 DEF SyncList
<1>16. ASSUME NEW s \in Workers, SyncDropRows(s)
       PROVE  TypeOK'
  BY <1>16 DEF SyncDropRows
<1>17. ASSUME NEW s \in Workers, SyncDropRowsFail(s)
       PROVE  TypeOK'
  BY <1>17 DEF SyncDropRowsFail
<1>18. ASSUME NEW s \in Workers, SyncEnd(s)
       PROVE  TypeOK'
  BY <1>18 DEF SyncEnd
<1>19. ASSUME NEW w \in Workers, WorkerAbort(w)
       PROVE  TypeOK'
  BY <1>19 DEF WorkerAbort
<1>20. CASE Tick
  BY <1>20 DEF Tick
<1>21. CASE UNCHANGED vars
  BY <1>21 DEF vars
<1>22. QED
  BY <1>1, <1>2, <1>3, <1>4, <1>5, <1>6, <1>7, <1>8, <1>9, <1>10, <1>11, <1>12,
     <1>13, <1>14, <1>15, <1>16, <1>17, <1>18, <1>19, <1>20, <1>21
     DEF Next, IngestStep, CleanStep, SyncStep, DeleteStep, Workers

\* The rows, the objects and every task's local state keep their types,
\* whatever interleaving of ingestion, cleanup and sync runs.
THEOREM TypeCorrect == Spec => []TypeOK
BY TypeInit, TypeNext, PTL DEF Spec

-----------------------------------------------------------------------------
(***************************************************************************)
(* What readers rely on.                                                   *)
(***************************************************************************)

LEMMA ServeInit == Init => ServeInv
<1> SUFFICES ASSUME Init
             PROVE  ServeInv
  OBVIOUS
<1>1. TypeOK
  BY TypeInit
<1>2. AvailableComplete
  BY DEF Init, AvailableComplete, Available
<1>3. StartedBefore /\ SingleWriter /\ UploadedThere /\ DoomedUnserved
  BY NoneAssumption
     DEF Init, StartedBefore, SingleWriter, UploadedThere, DoomedUnserved
<1>4. QED
  BY <1>1, <1>2, <1>3 DEF ServeInv

\* The conjuncts of the strengthening read these variables only.
LEMMA ServeFrame ==
    ASSUME ServeInv, TypeOK',
           UNCHANGED <<status, objects, ingests, job, unsent, paths, prefix>>
    PROVE  ServeInv'
<1>1. AvailableComplete'
  BY DEF ServeInv, AvailableComplete, Available
<1>2. StartedBefore' /\ SingleWriter' /\ UploadedThere'
  BY DEF ServeInv, StartedBefore, SingleWriter, UploadedThere
<1>3. DoomedUnserved'
  BY DEF ServeInv, DoomedUnserved
<1>4. QED
  BY <1>1, <1>2, <1>3 DEF ServeInv

LEMMA StartServe ==
    ASSUME OnceOnly, ServeInv, TypeOK',
           NEW i \in Ingesters, NEW d \in Datasets, IngestStart(i, d)
    PROVE  ServeInv'
<1> USE DEF ServeInv, IngestStart, storeVars, deleteVars
<1>1. ingests[d] = 0
  <2>1. ingests[d] \in Nat /\ ingests[d] < MaxIngests
    BY DEF TypeOK
  <2>2. MaxIngests \in Nat /\ MaxIngests <= 1
    BY BoundsAssumption DEF OnceOnly
  <2>3. QED
    BY <2>1, <2>2
<1>2. /\ ingests' = [ingests EXCEPT ![d] = ingests[d] + 1]
      /\ ingests'[d] = 1
  BY <1>1 DEF TypeOK
<1>3. status[d] = "absent" /\ \A j \in Ingesters : job[j] # d
  BY <1>1 DEF StartedBefore
<1>4. \A w \in Workers : d \notin paths[w] /\ d # prefix[w]
  BY <1>1 DEF DoomedUnserved
<1>5. job' = [job EXCEPT ![i] = d] /\ unsent' = [unsent EXCEPT ![i] = Files]
  OBVIOUS
<1>6. AvailableComplete'
  BY DEF AvailableComplete, Available
<1>7. StartedBefore'
  BY <1>2, <1>5 DEF StartedBefore, TypeOK
<1>8. SingleWriter'
  BY <1>3, <1>5 DEF SingleWriter, TypeOK
<1>9. UploadedThere'
  BY <1>5 DEF UploadedThere, TypeOK
<1>10. DoomedUnserved'
  BY <1>2, <1>4, <1>5 DEF DoomedUnserved, TypeOK
<1>11. QED
  BY <1>6, <1>7, <1>8, <1>9, <1>10

LEMMA PutServe ==
    ASSUME ServeInv, TypeOK', NEW i \in Ingesters, IngestPut(i)
    PROVE  ServeInv'
<1> USE DEF ServeInv, deleteVars
<1>1. PICK f \in unsent[i] :
        /\ objects' = [objects EXCEPT ![job[i]] = @ \cup {f}]
        /\ unsent' = [unsent EXCEPT ![i] = @ \ {f}]
  BY DEF IngestPut
<1>2. /\ job[i] \in Datasets /\ job[i] # None
      /\ UNCHANGED <<status, ingests, job, paths, prefix>>
  BY DEF IngestPut, TypeOK
<1>3. AvailableComplete'
  BY <1>1, <1>2 DEF AvailableComplete, Available, SingleWriter, TypeOK
<1>4. StartedBefore' /\ SingleWriter' /\ DoomedUnserved'
  BY <1>2 DEF StartedBefore, SingleWriter, DoomedUnserved
<1>5. UploadedThere'
  <2> SUFFICES ASSUME NEW j \in Ingesters, job[j] # None
               PROVE  Files \ unsent'[j] \subseteq objects'[job[j]]
    BY <1>2 DEF UploadedThere
  <2>1. CASE j = i
    BY <1>1, <1>2, <2>1 DEF UploadedThere, TypeOK
  <2>2. CASE j # i
    <3>1. job[j] # job[i]
      BY <1>2, <2>2 DEF SingleWriter
    <3>2. unsent'[j] = unsent[j] /\ objects'[job[j]] = objects[job[j]]
      BY <1>1, <1>2, <2>2, <3>1 DEF TypeOK
    <3>3. QED
      BY <3>2 DEF UploadedThere
  <2>3. QED
    BY <2>1, <2>2
<1>6. QED
  BY <1>3, <1>4, <1>5

LEMMA RegisterServe ==
    ASSUME ServeInv, TypeOK', NEW i \in Ingesters, IngestRegister(i)
    PROVE  ServeInv'
<1> USE DEF ServeInv, deleteVars
<1> DEFINE d == job[i]
<1>1. /\ d \in Datasets /\ d # None
      /\ status' = [status EXCEPT ![d] = "available"]
      /\ job' = [job EXCEPT ![i] = None]
      /\ UNCHANGED <<objects, ingests, unsent, paths, prefix>>
  BY DEF IngestRegister, TypeOK
<1>2. objects[d] = Files
  <2>1. unsent[i] = {}
    BY DEF IngestRegister
  <2>2. Files \ unsent[i] \subseteq objects[d]
    BY <1>1 DEF UploadedThere
  <2>3. objects[d] \subseteq Files
    BY <1>1 DEF TypeOK
  <2>4. QED
    BY <2>1, <2>2, <2>3
<1>3. ingests[d] # 0
  BY <1>1 DEF StartedBefore
<1>4. /\ \A j \in Ingesters : j # i => job[j] # d
      /\ \A w \in Workers : d \notin paths[w] /\ d # prefix[w]
  BY <1>1 DEF SingleWriter, DoomedUnserved
<1>5. AvailableComplete'
  BY <1>1, <1>2 DEF AvailableComplete, Available, TypeOK
<1>6. StartedBefore'
  BY <1>1, <1>3, NoneAssumption DEF StartedBefore, TypeOK
<1>7. SingleWriter'
  <2>1. \A j \in Ingesters : job'[j] # None => j # i /\ job'[j] = job[j] /\ job[j] # d
    BY <1>1, <1>4 DEF TypeOK
  <2>2. \A j \in Ingesters : job'[j] # None => status'[job'[j]] = "absent"
    BY <1>1, <2>1 DEF SingleWriter, TypeOK
  <2>3. QED
    BY <2>1, <2>2 DEF SingleWriter
<1>8. UploadedThere'
  BY <1>1 DEF UploadedThere, TypeOK
<1>9. DoomedUnserved'
  BY <1>1, <1>4, NoneAssumption DEF DoomedUnserved, TypeOK
<1>10. QED
  BY <1>5, <1>6, <1>7, <1>8, <1>9

LEMMA FailServe ==
    ASSUME ServeInv, TypeOK', NEW i \in Ingesters, IngestFail(i)
    PROVE  ServeInv'
<1> USE DEF ServeInv, storeVars, deleteVars
<1>1. /\ job' = [job EXCEPT ![i] = None]
      /\ unsent' = [unsent EXCEPT ![i] = {}]
      /\ UNCHANGED <<status, objects, ingests, paths, prefix>>
  BY DEF IngestFail
<1>2. AvailableComplete'
  BY <1>1 DEF AvailableComplete, Available
<1>3. StartedBefore' /\ DoomedUnserved'
  BY <1>1, NoneAssumption DEF StartedBefore, DoomedUnserved, TypeOK
<1>4. SingleWriter' /\ UploadedThere'
  BY <1>1 DEF SingleWriter, UploadedThere, TypeOK
<1>5. QED
  BY <1>2, <1>3, <1>4

\* Marking and purging change rows that are, or are no longer, available.
LEMMA WithdrawServe ==
    ASSUME ServeInv, TypeOK',
           \A d \in Datasets : status'[d] # status[d] =>
                                 status[d] # "absent" /\ status'[d] # "available",
           UNCHANGED <<objects, ingests, job, unsent, paths, prefix>>
    PROVE  ServeInv'
<1> USE DEF ServeInv
<1>1. AvailableComplete'
  BY DEF AvailableComplete, Available
<1>2. StartedBefore' /\ DoomedUnserved'
  BY DEF StartedBefore, DoomedUnserved
<1>3. SingleWriter' /\ UploadedThere'
  BY DEF SingleWriter, UploadedThere, TypeOK
<1>4. QED
  BY <1>1, <1>2, <1>3

\* What a worker may hold after a step is doomed already.
LEMMA HoldServe ==
    ASSUME ServeInv, TypeOK',
           \A w \in Workers : \A d \in Datasets : d \in paths'[w] \/ d = prefix'[w] =>
               d \in paths[w] \/ d = prefix[w] \/ status[d] = "expired",
           UNCHANGED <<status, objects, ingests, job, unsent>>
    PROVE  ServeInv'
<1> USE DEF ServeInv
<1>1. AvailableComplete'
  BY DEF AvailableComplete, Available
<1>2. StartedBefore' /\ SingleWriter' /\ UploadedThere'
  BY DEF StartedBefore, SingleWriter, UploadedThere
<1>3. \A d \in Datasets : status[d] = "expired" =>
          ingests[d] # 0 /\ \A i \in Ingesters : job[i] # d
  BY NoneAssumption DEF StartedBefore, SingleWriter
<1>4. DoomedUnserved'
  BY <1>3 DEF DoomedUnserved
<1>5. QED
  BY <1>1, <1>2, <1>4

LEMMA DeleteFileServe ==
    ASSUME ServeInv, TypeOK', NEW w \in Workers, DeleteFile(w)
    PROVE  ServeInv'
<1> USE DEF ServeInv, ingestVars
<1> DEFINE d == prefix[w]
<1>1. /\ d \in Datasets
      /\ \A e \in Datasets : e # d => objects'[e] = objects[e]
      /\ UNCHANGED <<status, ingests, job, unsent, paths, prefix>>
  BY DEF DeleteFile, TypeOK
<1>2. status[d] # "available" /\ \A i \in Ingesters : job[i] # d
  BY <1>1 DEF DoomedUnserved
<1>3. AvailableComplete'
  BY <1>1, <1>2 DEF AvailableComplete, Available
<1>4. StartedBefore' /\ SingleWriter' /\ DoomedUnserved'
  BY <1>1 DEF StartedBefore, SingleWriter, DoomedUnserved
<1>5. UploadedThere'
  BY <1>1, <1>2 DEF UploadedThere, TypeOK
<1>6. QED
  BY <1>3, <1>4, <1>5

LEMMA ServeNext ==
    ASSUME OnceOnly, NoSync
    PROVE  ServeInv /\ [Next]_vars => ServeInv'
<1> SUFFICES ASSUME ServeInv, [Next]_vars
             PROVE  ServeInv'
  OBVIOUS
<1>0. TypeOK /\ TypeOK'
  BY TypeNext DEF ServeInv
<1> USE DEF storeVars, ingestVars, deleteVars
<1>1. ASSUME NEW i \in Ingesters, IngestStep(i)
      PROVE  ServeInv'
  BY <1>0, <1>1, StartServe, PutServe, RegisterServe, FailServe DEF IngestStep
<1>2. ASSUME NEW c \in Cleaners, CleanBegin(c)
      PROVE  ServeInv'
  BY <1>0, <1>2, ServeFrame DEF CleanBegin
<1>3. ASSUME NEW c \in Cleaners, NEW m \in Models, CleanExamine(c, m)
      PROVE  ServeInv'
  BY <1>0, <1>3, ServeFrame DEF CleanExamine
<1>4. ASSUME NEW c \in Cleaners, CleanMark(c)
      PROVE  ServeInv'
  BY <1>0, <1>4, WithdrawServe DEF CleanMark, Overdue, Available
<1>5. ASSUME NEW c \in Cleaners, CleanPaths(c)
      PROVE  ServeInv'
  <2>1. \A w \in Workers : \A d \in Datasets :
            d \in paths'[w] => d \in paths[w] \/ status[d] = "expired"
    BY <1>0, <1>5 DEF CleanPaths, Expired, TypeOK
  <2>2. UNCHANGED <<status, objects, ingests, job, unsent, prefix>>
    BY <1>5 DEF CleanPaths
  <2>3. QED
    BY <1>0, <2>1, <2>2, HoldServe
<1>6. ASSUME NEW c \in Cleaners, CleanPurge(c)
      PROVE  ServeInv'
  BY <1>0, <1>6, WithdrawServe DEF CleanPurge
<1>7. ASSUME NEW w \in Workers, NEW d \in Datasets, DeleteList(w, d)
      PROVE  ServeInv'
  <2>1. \A v \in Workers : \A e \in Datasets :
            e \in paths'[v] \/ e = prefix'[v] => e \in paths[v] \/ e = prefix[v]
    BY <1>0, <1>7 DEF DeleteList, TypeOK
  <2>2. QED
    BY <1>0, <1>7, <2>1, HoldServe DEF DeleteList
<1>8. ASSUME NEW w \in Workers, DeleteFile(w)
      PROVE  ServeInv'
  BY <1>0, <1>8, DeleteFileServe
<1>9. ASSUME NEW w \in Workers, DeleteDone(w) \/ DeleteFail(w) \/ WorkerAbort(w)
      PROVE  ServeInv'
  <2>1. \A v \in Workers : \A e \in Datasets :
            e \in paths'[v] \/ e = prefix'[v] => e \in paths[v] \/ e = prefix[v]
    BY <1>0, <1>9, NoneAssumption DEF DeleteDone, DeleteFail, WorkerAbort, TypeOK
  <2>2. UNCHANGED <<status, objects, ingests, job, unsent>>
    BY <1>9 DEF DeleteDone, DeleteFail, WorkerAbort
  <2>3. QED
    BY <1>0, <2>1, <2>2, HoldServe
<1>10. CASE Tick \/ UNCHANGED vars
  BY <1>0, <1>10, ServeFrame DEF Tick, vars
<1>11. QED
  BY <1>1, <1>2, <1>3, <1>4, <1>5, <1>6, <1>7, <1>8, <1>9, <1>10
     DEF Next, CleanStep, DeleteStep, NoSync

THEOREM ServeInvariant ==
    ASSUME OnceOnly, NoSync
    PROVE  Spec => []ServeInv
BY ServeInit, ServeNext, PTL DEF Spec

\* A dataset the catalogue offers has all of its files, for any number of
\* cleanup tasks and ingestion requests, whatever fails or crashes.
THEOREM AvailableIsComplete ==
    ASSUME OnceOnly, NoSync
    PROVE  Spec => []AvailableComplete
<1>1. ServeInv => AvailableComplete
  BY DEF ServeInv
<1>2. QED
  BY <1>1, ServeInvariant, PTL

-----------------------------------------------------------------------------
(***************************************************************************)
(* The refinement: every step is one of ServedDatasets or a stutter.       *)
(***************************************************************************)

LEMMA ServedInit == Init => Served!Init
BY DEF Init, Served!Init, Available

LEMMA ServedNext ==
    ASSUME NoSync
    PROVE  ServeInv /\ [Next]_vars => [Served!Next]_(Served!vars)
<1> SUFFICES ASSUME ServeInv, [Next]_vars
             PROVE  Served!Next \/ UNCHANGED <<Available, objects>>
  BY DEF Served!vars
<1>0. TypeOK
  BY DEF ServeInv
<1> USE DEF storeVars, ingestVars, deleteVars
<1>1. ASSUME NEW i \in Ingesters, NEW d \in Datasets, IngestStart(i, d)
      PROVE  UNCHANGED <<Available, objects>>
  BY <1>1 DEF IngestStart, Available
<1>2. ASSUME NEW i \in Ingesters, IngestPut(i)
      PROVE  Served!Next
  <2>1. job[i] \in Datasets /\ unsent[i] \subseteq Files
    BY <1>0, <1>2 DEF IngestPut, TypeOK
  <2>2. Served!Write(job[i])
    BY <1>2, <2>1 DEF IngestPut, Served!Write, Available
  <2>3. QED
    BY <2>1, <2>2 DEF Served!Next
<1>3. ASSUME NEW i \in Ingesters, IngestRegister(i)
      PROVE  Served!Next
  <2> DEFINE d == job[i]
  <2>1. /\ d \in Datasets
        /\ status' = [status EXCEPT ![d] = "available"]
        /\ objects' = objects
    BY <1>0, <1>3 DEF IngestRegister, TypeOK
  <2>2. objects[d] = Files
    <3>1. unsent[i] = {} /\ Files \ unsent[i] \subseteq objects[d]
      BY <1>3 DEF IngestRegister, ServeInv, UploadedThere
    <3>2. objects[d] \subseteq Files
      BY <1>0, <2>1 DEF TypeOK
    <3>3. QED
      BY <3>1, <3>2
  <2>3. Available' = Available \cup {d}
    BY <1>0, <2>1 DEF Available, TypeOK
  <2>4. Served!Serve(d)
    BY <2>1, <2>2, <2>3 DEF Served!Serve
  <2>5. QED
    BY <2>1, <2>4 DEF Served!Next
<1>4. ASSUME NEW i \in Ingesters, IngestFail(i)
      PROVE  UNCHANGED <<Available, objects>>
  BY <1>4 DEF IngestFail, Available
<1>5. ASSUME NEW c \in Cleaners, CleanBegin(c)
      PROVE  UNCHANGED <<Available, objects>>
  BY <1>5 DEF CleanBegin, Available
<1>6. ASSUME NEW c \in Cleaners, NEW m \in Models, CleanExamine(c, m)
      PROVE  UNCHANGED <<Available, objects>>
  BY <1>6 DEF CleanExamine, Available
<1>7. ASSUME NEW c \in Cleaners, CleanMark(c)
      PROVE  Served!Next
  <2>1. Overdue(c) \subseteq Available /\ Available \subseteq Datasets
    BY DEF Overdue, Available
  <2>2. Available' = Available \ Overdue(c) /\ objects' = objects
    BY <1>7, <2>1 DEF CleanMark, Available
  <2>3. Served!Withdraw(Overdue(c))
    BY <2>1, <2>2 DEF Served!Withdraw
  <2>4. Overdue(c) \in SUBSET Datasets
    BY <2>1
  <2>5. QED
    BY <2>3, <2>4 DEF Served!Next
<1>8. ASSUME NEW c \in Cleaners, CleanPaths(c)
      PROVE  UNCHANGED <<Available, objects>>
  BY <1>8 DEF CleanPaths, Available
<1>9. ASSUME NEW c \in Cleaners, CleanPurge(c)
      PROVE  UNCHANGED <<Available, objects>>
  BY <1>9 DEF CleanPurge, Available
<1>10. ASSUME NEW w \in Workers, NEW d \in Datasets, DeleteList(w, d)
       PROVE  UNCHANGED <<Available, objects>>
  BY <1>10 DEF DeleteList, Available
<1>11. ASSUME NEW w \in Workers, DeleteFile(w)
       PROVE  Served!Next \/ UNCHANGED <<Available, objects>>
  <2> DEFINE d == prefix[w]
  <2>1. PICK f \in victims[w] : objects' = [objects EXCEPT ![d] = @ \ {f}]
    BY <1>11 DEF DeleteFile
  <2>2. d \in Datasets /\ status' = status
    BY <1>0, <1>11 DEF DeleteFile, TypeOK
  <2>3. d \notin Available /\ Available' = Available
    BY <2>2 DEF ServeInv, DoomedUnserved, Available
  <2>4. CASE f \in objects[d]
    <3>1. Served!Erase(d)
      BY <2>1, <2>3, <2>4 DEF Served!Erase
    <3>2. QED
      BY <2>2, <3>1 DEF Served!Next
  <2>5. CASE f \notin objects[d]
    <3>1. objects' = objects
      BY <1>0, <2>1, <2>5 DEF TypeOK
    <3>2. QED
      BY <2>3, <3>1
  <2>6. QED
    BY <2>4, <2>5
<1>12. ASSUME NEW w \in Workers, DeleteDone(w) \/ DeleteFail(w) \/ WorkerAbort(w)
       PROVE  UNCHANGED <<Available, objects>>
  BY <1>12 DEF DeleteDone, DeleteFail, WorkerAbort, Available
<1>13. CASE Tick \/ UNCHANGED vars
  BY <1>13 DEF Tick, vars, Available
<1>14. QED
  BY <1>1, <1>2, <1>3, <1>4, <1>5, <1>6, <1>7, <1>8, <1>9, <1>10, <1>11, <1>12,
     <1>13
     DEF Next, IngestStep, CleanStep, DeleteStep, NoSync

\* The two stores together implement the abstract catalogue: a dataset is
\* served only when complete, and loses files only after it was withdrawn.
THEOREM ImplementsServed ==
    ASSUME OnceOnly, NoSync
    PROVE  Spec => ServesCompleteDatasets
<1>1. Init => Served!Init
  BY ServedInit
<1>2. ServeInv /\ [Next]_vars => [Served!Next]_(Served!vars)
  BY ServedNext
<1>3. QED
  BY <1>1, <1>2, ServeInvariant, PTL DEF Spec, ServesCompleteDatasets, Served!Spec

-----------------------------------------------------------------------------
(***************************************************************************)
(* The retention safeguard, for a cleanup cycle that no other overlaps.  A *)
(* second one may expire, meanwhile, a run this one protects.              *)
(***************************************************************************)

\* While a cycle is alone, the others are between two cycles.
AloneInv ==
    \A c \in Cleaners : alone[c] => \A b \in Cleaners \ {c} : pc[b] = "idle"

LEMMA AloneNext == TypeOK /\ AloneInv /\ [Next]_vars => AloneInv'
<1> SUFFICES ASSUME TypeOK, AloneInv, [Next]_vars
             PROVE  AloneInv'
  OBVIOUS
<1> USE DEF markVars
<1>1. ASSUME alone' = alone, \A b \in Cleaners : pc[b] = "idle" => pc'[b] = "idle"
      PROVE  AloneInv'
  BY <1>1 DEF AloneInv
<1>2. ASSUME NEW i \in Ingesters, IngestStep(i)
      PROVE  AloneInv'
  BY <1>1, <1>2 DEF IngestStep, IngestStart, IngestPut, IngestRegister, IngestFail
<1>3. ASSUME NEW b \in Cleaners, CleanBegin(b)
      PROVE  AloneInv'
  <2> SUFFICES ASSUME NEW c \in Cleaners, alone'[c], NEW x \in Cleaners \ {c}
               PROVE  pc'[x] = "idle"
    BY DEF AloneInv
  <2>1. c = b /\ pc[x] = "idle"
    BY <1>3 DEF CleanBegin, Overlap
  <2> QED
    BY <1>3, <2>1 DEF CleanBegin, TypeOK
<1>4. ASSUME NEW b \in Cleaners, NEW m \in Models, CleanExamine(b, m)
      PROVE  AloneInv'
  BY <1>1, <1>4 DEF CleanExamine, TypeOK
<1>5. ASSUME NEW b \in Cleaners, CleanMark(b) \/ CleanPaths(b) \/ CleanPurge(b)
      PROVE  AloneInv'
  BY <1>1, <1>5 DEF CleanMark, CleanPaths, CleanPurge, TypeOK, Workers
<1>6. ASSUME NEW s \in Syncers, SyncStep(s) \/ SyncDropRowsFail(s)
      PROVE  AloneInv'
  BY <1>1, <1>6, WorkersAssumption
     DEF SyncStep, SyncReadRows, SyncList, SyncDropRows, SyncDropRowsFail, SyncEnd, TypeOK,
         Workers
<1>7. ASSUME NEW w \in Workers, DeleteStep(w) \/ DeleteFail(w)
      PROVE  AloneInv'
  BY <1>1, <1>7 DEF DeleteStep, DeleteList, DeleteFile, DeleteDone, DeleteFail
<1>8. ASSUME NEW w \in Workers, WorkerAbort(w)
      PROVE  AloneInv'
  BY <1>1, <1>8 DEF WorkerAbort, TypeOK
<1>9. CASE Tick \/ UNCHANGED vars
  BY <1>1, <1>9 DEF Tick, vars
<1> QED
  BY <1>2, <1>3, <1>4, <1>5, <1>6, <1>7, <1>8, <1>9 DEF Next, CleanStep

LEMMA ProtectedNext ==
    ASSUME NoSync
    PROVE  TypeOK /\ AloneInv /\ ProtectedServed /\ [Next]_vars => ProtectedServed'
<1> SUFFICES ASSUME TypeOK, AloneInv, ProtectedServed, [Next]_vars,
                    NEW c \in Cleaners, alone'[c]
             PROVE  protect'[c] \subseteq ModelRuns(model[c])'
  BY DEF ProtectedServed
<1>0. c \in Workers
  BY DEF Workers
<1> USE DEF storeVars, markVars
<1>1. ASSUME alone' = alone, UNCHANGED <<protect, model>>, Available \subseteq Available'
      PROVE  protect'[c] \subseteq ModelRuns(model[c])'
  BY <1>1 DEF ProtectedServed, ModelRuns
<1>2. ASSUME NEW i \in Ingesters, IngestStep(i)
      PROVE  UNCHANGED <<alone, protect, model>> /\ Available \subseteq Available'
  BY <1>2 DEF IngestStep, IngestStart, IngestPut, IngestRegister, IngestFail,
              Available, TypeOK
<1>3. ASSUME NEW b \in Cleaners, CleanBegin(b)
      PROVE  protect'[c] \subseteq ModelRuns(model[c])'
  <2>1. b = c
    BY <1>3 DEF CleanBegin, Overlap
  <2> QED
    BY <1>0, <1>3, <2>1 DEF CleanBegin, TypeOK
<1>4. ASSUME NEW b \in Cleaners, CleanPaths(b) \/ CleanPurge(b)
      PROVE  UNCHANGED <<alone, protect, model>> /\ Available \subseteq Available'
  BY <1>4 DEF CleanPaths, CleanPurge, Available
<1>5. ASSUME NEW b \in Cleaners, NEW m \in Models, CleanExamine(b, m)
      PROVE  protect'[c] \subseteq ModelRuns(model[c])'
  <2>1. b = c
    BY <1>5 DEF CleanExamine, AloneInv
  <2>2. protect'[c] = LatestRuns(m, KeepLatest[m]) /\ model'[c] = m /\ Available' = Available
    BY <1>0, <1>5, <2>1 DEF CleanExamine, TypeOK, Available
  <2>3. LatestRuns(m, KeepLatest[m]) \subseteq ModelRuns(m)
    BY DEF LatestRuns
  <2>4. ModelRuns(model[c])' = ModelRuns(m)
    BY <2>2 DEF ModelRuns
  <2> QED
    BY <2>2, <2>3, <2>4
<1>6. ASSUME NEW b \in Cleaners, CleanMark(b)
      PROVE  protect'[c] \subseteq ModelRuns(model[c])'
  <2>1. b = c
    BY <1>6 DEF CleanMark, AloneInv
  <2>2. UNCHANGED <<protect, model>> /\ Available' = Available \ Overdue(c)
    BY <1>6, <2>1 DEF CleanMark, Available, Overdue
  <2>3. SUFFICES ASSUME NEW t \in protect[c]
                 PROVE  t \in ModelRuns(model[c])'
    BY <2>2
  <2>4. PICK d \in Available : ModelOf[d] = model[c] /\ TimeOf[d] = t
    BY <1>6, <2>3 DEF CleanMark, ProtectedServed, ModelRuns
  <2>5. d \in Available'
    BY <2>2, <2>3, <2>4 DEF Overdue
  <2> QED
    BY <2>2, <2>4, <2>5 DEF ModelRuns
<1>7. ASSUME NEW w \in Workers, DeleteStep(w) \/ DeleteFail(w)
      PROVE  UNCHANGED <<alone, protect, model>> /\ Available \subseteq Available'
  BY <1>7 DEF DeleteStep, DeleteList, DeleteFile, DeleteDone, DeleteFail, Available
<1>8. ASSUME NEW w \in Workers, WorkerAbort(w)
      PROVE  protect'[c] \subseteq ModelRuns(model[c])'
  <2>1. /\ protect'[c] = protect[c] \/ protect'[c] = {}
        /\ alone' = alone /\ model' = model /\ Available' = Available
    BY <1>0, <1>8 DEF WorkerAbort, TypeOK, Available
  <2> QED
    BY <2>1 DEF ProtectedServed, ModelRuns
<1>9. CASE Tick \/ UNCHANGED vars
  BY <1>1, <1>9 DEF Tick, vars, Available
<1> QED
  BY <1>1, <1>2, <1>3, <1>4, <1>5, <1>6, <1>7, <1>8, <1>9
     DEF Next, CleanStep, NoSync

\* The runs a cleanup cycle protects stay served as long as no other cycle
\* overlaps it, for any number of models, runs and ingestion requests, any
\* keep_latest and any retention.
THEOREM ProtectedStayServed ==
    ASSUME NoSync
    PROVE  Spec => []ProtectedServed
<1>1. Init => AloneInv /\ ProtectedServed
  BY DEF Init, AloneInv, ProtectedServed, Workers
<1>2. TypeOK /\ AloneInv /\ ProtectedServed /\ [Next]_vars => AloneInv' /\ ProtectedServed'
  BY AloneNext, ProtectedNext
<1>3. QED
  BY <1>1, <1>2, TypeCorrect, PTL DEF Spec

\* Whatever the order of numbers, a set of them below a bound has a greatest.
LEMMA GreatestTime ==
    ASSUME NEW n \in Nat, NEW S \in SUBSET (0..n), S # {}
    PROVE  \E t \in S : \A u \in S : u <= t
<1> DEFINE Left == {n - t : t \in S}
<1>1. \A t \in S : t \in 0..n /\ t \in Int /\ n - t \in Nat
  OBVIOUS
<1>2. Left \subseteq Nat
  BY <1>1
<1>3. Left # {}
  <2>1. PICK t \in S : TRUE
    OBVIOUS
  <2>2. n - t \in Left
    BY <2>1
  <2> QED
    BY <2>2
<1>4. PICK x \in Left : \A y \in Left : ~(<<y, x>> \in OpToRel(<, Nat))
  BY <1>2, <1>3, WFMin, NatLessThanWellFounded, Zenon
<1>5. PICK t \in S : x = n - t
  BY <1>4
<1>6. ASSUME NEW u \in S
      PROVE  u <= t
  <2>1. n - u \in Left /\ n - u \in Nat /\ n - t \in Nat
    BY <1>1
  <2>2. ~(n - u < n - t)
    BY <1>4, <1>5, <2>1 DEF OpToRel
  <2> QED
    BY <1>1, <2>2
<1> QED
  BY <1>6

\* Rows and requests are of the past, so a model's runs have a newest one.
RowsOfThePast ==
    \A d \in Datasets :
        status[d] # "absent" \/ (\E i \in Ingesters : job[i] = d) => TimeOf[d] <= clock

\* A cycle that is about to mark rows protects a run, unless it was told to
\* keep none.
MarkProtects ==
    \A c \in Cleaners : pc[c] = "mark" /\ KeepLatest[model[c]] > 0 => protect[c] # {}

LEMMA NewestIsLatest ==
    ASSUME TypeOK, RowsOfThePast, NEW m \in Models, ModelRuns(m) # {},
           NEW n \in Nat, n > 0
    PROVE  LatestRuns(m, n) # {}
<1>1. ModelRuns(m) \in SUBSET (0..clock)
  BY TimeOfAssumption DEF TypeOK, ModelRuns, Available, RowsOfThePast
<1>2. PICK t \in ModelRuns(m) : \A u \in ModelRuns(m) : u <= t
  BY <1>1, GreatestTime DEF TypeOK
<1>3. \A u \in ModelRuns(m) : ~(u > t)
  BY <1>1, <1>2
<1>4. {u \in ModelRuns(m) : u > t} = {}
  BY <1>3
<1>5. Cardinality({u \in ModelRuns(m) : u > t}) = 0
  BY <1>4, FS_EmptySet
<1> QED
  BY <1>2, <1>5 DEF LatestRuns

LEMMA PastNext == TypeOK /\ RowsOfThePast /\ [Next]_vars => RowsOfThePast'
<1> SUFFICES ASSUME TypeOK, RowsOfThePast, [Next]_vars
             PROVE  RowsOfThePast'
  OBVIOUS
<1> USE DEF storeVars, ingestVars
<1>1. ASSUME \A d \in Datasets : status'[d] # "absent" => status[d] # "absent",
             UNCHANGED <<clock, job>>
      PROVE  RowsOfThePast'
  BY <1>1 DEF RowsOfThePast
<1>2. ASSUME NEW i \in Ingesters, NEW d \in Datasets, IngestStart(i, d)
      PROVE  RowsOfThePast'
  BY <1>2 DEF IngestStart, RowsOfThePast, TypeOK
<1>3. ASSUME NEW i \in Ingesters, IngestPut(i)
      PROVE  RowsOfThePast'
  BY <1>1, <1>3 DEF IngestPut
<1>4. ASSUME NEW i \in Ingesters, IngestRegister(i)
      PROVE  RowsOfThePast'
  <2>1. job[i] \in Datasets /\ TimeOf[job[i]] <= clock
    BY <1>4 DEF IngestRegister, TypeOK, RowsOfThePast
  <2>2. \A d \in Datasets : status'[d] # "absent" => status[d] # "absent" \/ d = job[i]
    BY <1>4 DEF IngestRegister, TypeOK
  <2>3. \A d \in Datasets : \A j \in Ingesters : job'[j] = d => job[j] = d
    BY <1>4, NoneAssumption DEF IngestRegister, TypeOK
  <2>4. clock' = clock
    BY <1>4 DEF IngestRegister
  <2> QED
    BY <2>1, <2>2, <2>3, <2>4 DEF RowsOfThePast
<1>5. ASSUME NEW i \in Ingesters, IngestFail(i)
      PROVE  RowsOfThePast'
  BY <1>5, NoneAssumption DEF IngestFail, RowsOfThePast, TypeOK
<1>6. ASSUME NEW c \in Cleaners, CleanStep(c)
      PROVE  RowsOfThePast'
  BY <1>1, <1>6 DEF CleanStep, CleanBegin, CleanExamine, CleanMark, CleanPaths,
                    CleanPurge, Overdue, Available
<1>7. ASSUME NEW s \in Syncers, SyncStep(s) \/ SyncDropRowsFail(s)
      PROVE  RowsOfThePast'
  BY <1>1, <1>7 DEF SyncStep, SyncReadRows, SyncList, SyncDropRows, SyncEnd,
                    SyncDropRowsFail
<1>8. ASSUME NEW w \in Workers, DeleteStep(w) \/ DeleteFail(w) \/ WorkerAbort(w)
      PROVE  RowsOfThePast'
  BY <1>1, <1>8 DEF DeleteStep, DeleteList, DeleteFile, DeleteDone, DeleteFail, WorkerAbort
<1>9. CASE Tick
  BY <1>9, TimeOfAssumption DEF Tick, RowsOfThePast, TypeOK
<1>10. CASE UNCHANGED vars
  BY <1>1, <1>10 DEF vars
<1> QED
  BY <1>2, <1>3, <1>4, <1>5, <1>6, <1>7, <1>8, <1>9, <1>10 DEF Next, IngestStep

LEMMA MarkNext ==
    TypeOK /\ RowsOfThePast /\ MarkProtects /\ [Next]_vars => MarkProtects'
<1> SUFFICES ASSUME TypeOK, RowsOfThePast, MarkProtects, [Next]_vars, NEW c \in Cleaners,
                    pc'[c] = "mark", KeepLatest[model'[c]] > 0
             PROVE  protect'[c] # {}
  BY DEF MarkProtects
<1> USE DEF markVars
<1>0. c \in Workers
  BY DEF Workers
<1>1. ASSUME pc[c] = "mark", protect'[c] = protect[c], model'[c] = model[c]
      PROVE  protect'[c] # {}
  BY <1>1 DEF MarkProtects
<1>2. ASSUME NEW i \in Ingesters, IngestStep(i)
      PROVE  protect'[c] # {}
  BY <1>1, <1>2 DEF IngestStep, IngestStart, IngestPut, IngestRegister, IngestFail
<1>3. ASSUME NEW b \in Cleaners, NEW m \in Models, CleanExamine(b, m)
      PROVE  protect'[c] # {}
  <2>1. CASE b = c
    <3>1. /\ ModelRuns(m) # {} /\ model'[c] = m
          /\ protect'[c] = LatestRuns(m, KeepLatest[m])
      BY <1>0, <1>3, <2>1 DEF CleanExamine, TypeOK
    <3>2. KeepLatest[m] \in Nat
      BY RetentionAssumption
    <3> QED
      BY <3>1, <3>2, NewestIsLatest
  <2>2. CASE b # c
    BY <1>0, <1>1, <1>3, <2>2 DEF CleanExamine, TypeOK
  <2> QED
    BY <2>1, <2>2
<1>4. ASSUME NEW b \in Cleaners,
             CleanBegin(b) \/ CleanMark(b) \/ CleanPaths(b) \/ CleanPurge(b)
      PROVE  protect'[c] # {}
  BY <1>0, <1>1, <1>4 DEF CleanBegin, CleanMark, CleanPaths, CleanPurge, TypeOK
<1>5. ASSUME NEW s \in Syncers, SyncStep(s) \/ SyncDropRowsFail(s)
      PROVE  protect'[c] # {}
  <2>1. c # s
    BY WorkersAssumption
  <2>2. pc'[c] = pc[c] /\ UNCHANGED <<protect, model>>
    BY <1>0, <1>5, <2>1 DEF SyncStep, SyncReadRows, SyncList, SyncDropRows, SyncEnd,
                            SyncDropRowsFail, TypeOK
  <2> QED
    BY <1>1, <2>2
<1>6. ASSUME NEW w \in Workers, DeleteStep(w) \/ DeleteFail(w)
      PROVE  protect'[c] # {}
  BY <1>1, <1>6 DEF DeleteStep, DeleteList, DeleteFile, DeleteDone, DeleteFail
<1>7. ASSUME NEW w \in Workers, WorkerAbort(w)
      PROVE  protect'[c] # {}
  <2>1. c # w /\ pc'[c] = pc[c] /\ protect'[c] = protect[c] /\ model' = model
    BY <1>0, <1>7 DEF WorkerAbort, TypeOK
  <2> QED
    BY <1>1, <2>1
<1>8. CASE Tick \/ UNCHANGED vars
  BY <1>1, <1>8 DEF Tick, vars
<1> QED
  BY <1>2, <1>3, <1>4, <1>5, <1>6, <1>7, <1>8 DEF Next, CleanStep

\* One update of the rows, whatever came between the query that chose the
\* runs to protect and this.
LEMMA MarkKeepsRuns ==
    ASSUME TypeOK, ProtectedServed, MarkProtects,
           NEW c \in Cleaners, CleanMark(c), alone[c],
           NEW m \in Models, KeepLatest[m] > 0, ModelRuns(m) # {}
    PROVE  ModelRuns(m)' # {}
<1>1. Available' = Available \ Overdue(c)
  BY DEF CleanMark, Available, Overdue
<1>2. CASE model[c] # m
  <2>1. PICK d \in Available : ModelOf[d] = m
    BY DEF ModelRuns
  <2>2. d \in Available'
    BY <1>1, <1>2, <2>1 DEF Overdue
  <2> QED
    BY <2>1, <2>2 DEF ModelRuns
<1>3. CASE model[c] = m
  <2>1. PICK t \in protect[c] : t \in ModelRuns(m)
    BY <1>3 DEF MarkProtects, CleanMark, ProtectedServed
  <2>2. PICK d \in Available : ModelOf[d] = m /\ TimeOf[d] = t
    BY <2>1 DEF ModelRuns
  <2>3. d \in Available'
    BY <1>1, <2>1, <2>2 DEF Overdue
  <2> QED
    BY <2>2, <2>3 DEF ModelRuns
<1> QED
  BY <1>2, <1>3

\* The update of a cleanup cycle that no other overlaps never takes the last
\* run of a model that is to keep one: also in an outage of any length, with
\* any retention, and whatever runs are registered between the cycle's query
\* and its update.
THEOREM NeverEmptiesModel ==
    ASSUME NoSync
    PROVE  Spec => NeverEmptied
<1>1. Init => RowsOfThePast /\ MarkProtects
  BY NoneAssumption DEF Init, RowsOfThePast, MarkProtects, Workers
<1>2. TypeOK /\ RowsOfThePast /\ MarkProtects /\ [Next]_vars
        => RowsOfThePast' /\ MarkProtects'
  BY PastNext, MarkNext
<1>3. TypeOK /\ ProtectedServed /\ MarkProtects /\ [Next]_vars =>
        [\A c \in Cleaners : CleanMark(c) /\ alone[c] =>
           \A m \in Models : KeepLatest[m] > 0 /\ ModelRuns(m) # {} => ModelRuns(m)' # {}]_vars
  BY MarkKeepsRuns
<1> QED
  BY <1>1, <1>2, <1>3, TypeCorrect, ProtectedStayServed, PTL DEF Spec, NeverEmptied

-----------------------------------------------------------------------------
(***************************************************************************)
(* Nothing leaks, but where the code lets it, with any number of cleanup   *)
(* and sync tasks; datasets may be ingested any number of times, also      *)
(* while their old files are being deleted.                                *)
(***************************************************************************)

Written(d) == \E i \in Ingesters : job[i] = d

\* A cleanup task that is marking has its path list still to read.
Marking(c) == pc[c] \in {"models", "mark"}

\* Only a task that deletes has something to delete.
ListsEmpty ==
    \A w \in Workers : pc[w] \notin {"rows", "delete"} => paths[w] = {} /\ prefix[w] = None

\* The files of an expired row are on a list, or being written anew, or a
\* cycle is yet to read its list.
ExpiredCared ==
    \A d \in Datasets : status[d] = "expired" =>
        \/ objects[d] = {} \/ Written(d) \/ OnList(d)
        \/ \E c \in Cleaners : Marking(c)

LeakInv == ListsEmpty /\ (faults = 0 => ExpiredCared)

\* What one step may do to what d's files rely on, when no call fails.
Carried(d) ==
    /\ objects[d] = {} => objects'[d] = {} \/ Written(d)'
    /\ Written(d) => Written(d)' \/ status'[d] = "available"
    /\ OnList(d) => OnList(d)' \/ objects'[d] = {} \/ Written(d)'

\* A step that ends no marking and makes no row expire.
LEMMA CarriedCared ==
    ASSUME ExpiredCared, \A d \in Datasets : Carried(d),
           \A d \in Datasets : status'[d] = "expired" => status[d] = "expired",
           \A c \in Cleaners : Marking(c) => Marking(c)'
    PROVE  ExpiredCared'
<1> SUFFICES ASSUME NEW d \in Datasets, status'[d] = "expired"
             PROVE  \/ objects'[d] = {} \/ Written(d)' \/ OnList(d)'
                    \/ \E c \in Cleaners : Marking(c)'
  BY DEF ExpiredCared
<1>1. objects[d] = {} \/ Written(d) \/ OnList(d) \/ \E c \in Cleaners : Marking(c)
  BY Zenon DEF ExpiredCared
<1> QED
  BY <1>1, Zenon DEF Carried

\* The step that leaves a dataset uncared for, if it was not before.
LEMMA CarriedSafe ==
    ASSUME NEW d \in Datasets, Carried(d), CaredFor(d), ~CaredFor(d)'
    PROVE  status[d] # "absent" /\ status'[d] = "absent"
BY Zenon DEF Carried, CaredFor, Written

\* Lists and files that stay as they are.
LEMMA SameCarried ==
    ASSUME UNCHANGED <<objects, paths, prefix, victims>>,
           \A d \in Datasets : Written(d) => Written(d)' \/ status'[d] = "available",
           \A w \in Workers : pc[w] \in {"rows", "delete"} =>
               pc'[w] \in {"rows", "delete"} \/ (paths[w] = {} /\ prefix[w] = None)
    PROVE  \A d \in Datasets : Carried(d)
<1> SUFFICES ASSUME NEW d \in Datasets PROVE Carried(d)
  OBVIOUS
<1>1. OnList(d) => OnList(d)'
  BY NoneAssumption DEF OnList
<1> QED
  BY <1>1 DEF Carried

\* The ingester: what a request has put is its own to answer for.
LEMMA IngestCarried ==
    ASSUME TypeOK, LeakInv, NEW i \in Ingesters, IngestStep(i), faults' = 0
    PROVE  /\ \A d \in Datasets : Carried(d)
           /\ UNCHANGED <<pc, paths, prefix>>
           /\ \A d \in Datasets : status'[d] \in {status[d], "available"}
<1> USE DEF storeVars, deleteVars
<1>1. ASSUME NEW d \in Datasets, IngestStart(i, d)
      PROVE  /\ \A e \in Datasets : Written(e) => Written(e)'
             /\ UNCHANGED <<status, objects, pc, paths, prefix, victims>>
  BY <1>1, NoneAssumption DEF IngestStart, Written, TypeOK
<1>2. CASE IngestPut(i)
  <2>1. /\ job[i] \in Datasets /\ job' = job
        /\ \A e \in Datasets : e # job[i] => objects'[e] = objects[e]
        /\ UNCHANGED <<status, pc, paths, prefix, victims>>
    BY <1>2 DEF IngestPut, TypeOK
  <2>2. Written(job[i])' /\ \A e \in Datasets : Written(e) => Written(e)'
    BY <2>1 DEF Written
  <2>3. \A e \in Datasets : e # job[i] => (OnList(e) => OnList(e)')
    BY <2>1 DEF OnList
  <2>4. ASSUME NEW e \in Datasets PROVE Carried(e)
    BY <2>1, <2>2, <2>3, Zenon DEF Carried
  <2> QED
    BY <2>1, <2>4
<1>3. CASE IngestRegister(i)
  <2>1. /\ job[i] \in Datasets /\ status'[job[i]] = "available"
        /\ \A e \in Datasets : e # job[i] => status'[e] = status[e]
        /\ UNCHANGED <<objects, pc, paths, prefix, victims>>
    BY <1>3 DEF IngestRegister, TypeOK
  <2>2. \A e \in Datasets : e # job[i] /\ Written(e) => Written(e)'
    BY <1>3 DEF IngestRegister, Written, TypeOK
  <2>3. \A e \in Datasets : Written(e) => Written(e)' \/ status'[e] = "available"
    BY <2>1, <2>2
  <2>4. \A e \in Datasets : Carried(e)
    BY <2>1, <2>3, SameCarried
  <2> QED
    BY <2>1, <2>4
<1>4. CASE IngestFail(i)
  BY <1>4 DEF IngestFail, TypeOK
<1>5. ASSUME NEW d \in Datasets, IngestStart(i, d)
      PROVE  /\ \A e \in Datasets : Carried(e)
             /\ UNCHANGED <<status, pc, paths, prefix>>
  BY <1>1, <1>5, SameCarried
<1> QED
  BY <1>2, <1>3, <1>4, <1>5 DEF IngestStep

\* delete_prefix: a directory leaves the list for its files, and these leave
\* one by one.
LEMMA DeleteCarried ==
    ASSUME TypeOK, LeakInv, NEW w \in Workers, DeleteStep(w) \/ DeleteFail(w), faults' = 0
    PROVE  /\ \A d \in Datasets : Carried(d)
           /\ UNCHANGED <<pc, status>>
           /\ \A v \in Workers : v # w => paths'[v] = paths[v] /\ prefix'[v] = prefix[v]
           /\ pc[w] = "delete"
<1> USE DEF storeVars, ingestVars
<1>1. ASSUME NEW d \in Datasets, DeleteList(w, d)
      PROVE  /\ \A e \in Datasets : Carried(e)
             /\ UNCHANGED <<pc, status>>
             /\ \A v \in Workers : v # w => paths'[v] = paths[v] /\ prefix'[v] = prefix[v]
             /\ pc[w] = "delete"
  <2>1. /\ UNCHANGED <<status, objects, job, pc>> /\ pc[w] = "delete"
        /\ prefix[w] = None /\ prefix'[w] = d /\ victims'[w] = objects[d]
        /\ paths'[w] = paths[w] \ {d}
        /\ \A v \in Workers : v # w => /\ paths'[v] = paths[v] /\ prefix'[v] = prefix[v]
                                      /\ victims'[v] = victims[v]
    BY <1>1 DEF DeleteList, TypeOK
  <2>2. \A e \in Datasets : Written(e) => Written(e)'
    BY <2>1 DEF Written
  <2>3. ASSUME NEW e \in Datasets, OnList(e) PROVE OnList(e)'
    <3>1. PICK v \in Workers :
            /\ pc[v] \in {"rows", "delete"}
            /\ e \in paths[v] \/ (e = prefix[v] /\ objects[e] \subseteq victims[v])
      BY <2>3 DEF OnList
    <3>2. /\ pc'[v] \in {"rows", "delete"}
          /\ e \in paths'[v] \/ (e = prefix'[v] /\ objects'[e] \subseteq victims'[v])
      BY <2>1, <3>1, NoneAssumption
    <3> QED
      BY <3>2 DEF OnList
  <2>4. ASSUME NEW e \in Datasets PROVE Carried(e)
    BY <2>1, <2>2, <2>3, Zenon DEF Carried
  <2> QED
    BY <2>1, <2>4
<1>2. CASE DeleteFile(w)
  <2>1. PICK f \in victims[w] :
          /\ objects' = [objects EXCEPT ![prefix[w]] = @ \ {f}]
          /\ victims' = [victims EXCEPT ![w] = @ \ {f}]
    BY <1>2 DEF DeleteFile
  <2>2. /\ prefix[w] \in Datasets /\ pc[w] = "delete"
        /\ UNCHANGED <<status, job, pc, paths, prefix>>
    BY <1>2 DEF DeleteFile, TypeOK
  <2>3. /\ \A e \in Datasets : objects'[e] \subseteq objects[e]
        /\ objects'[prefix[w]] = objects[prefix[w]] \ {f}
        /\ victims'[w] = victims[w] \ {f}
        /\ \A v \in Workers : v # w => victims'[v] = victims[v]
    BY <2>1, <2>2 DEF TypeOK
  <2>4. \A e \in Datasets : Written(e) => Written(e)'
    BY <2>2 DEF Written
  <2>5. ASSUME NEW e \in Datasets, OnList(e) PROVE OnList(e)'
    <3>1. PICK v \in Workers :
            /\ pc[v] \in {"rows", "delete"}
            /\ e \in paths[v] \/ (e = prefix[v] /\ objects[e] \subseteq victims[v])
      BY <2>5 DEF OnList
    <3>2. e = prefix[v] /\ objects[e] \subseteq victims[v] => objects'[e] \subseteq victims'[v]
      BY <2>3
    <3> QED
      BY <2>2, <3>1, <3>2 DEF OnList
  <2>6. ASSUME NEW e \in Datasets PROVE Carried(e)
    <3>1. objects[e] = {} => objects'[e] = {}
      BY <2>3
    <3> QED
      BY <3>1, <2>4, <2>5, Zenon DEF Carried
  <2> QED
    BY <2>2, <2>6
<1>3. CASE DeleteDone(w)
  <2>1. /\ UNCHANGED <<status, objects, job, pc, paths, victims>>
        /\ victims[w] = {} /\ pc[w] = "delete"
        /\ \A v \in Workers : v # w => prefix'[v] = prefix[v]
    BY <1>3 DEF DeleteDone, TypeOK
  <2>2. \A e \in Datasets : Written(e) => Written(e)'
    BY <2>1 DEF Written
  <2>3. ASSUME NEW e \in Datasets, OnList(e), objects[e] # {} PROVE OnList(e)'
    <3>1. PICK v \in Workers :
            /\ pc[v] \in {"rows", "delete"}
            /\ e \in paths[v] \/ (e = prefix[v] /\ objects[e] \subseteq victims[v])
      BY <2>3 DEF OnList
    <3>2. /\ pc'[v] \in {"rows", "delete"}
          /\ e \in paths'[v] \/ (e = prefix'[v] /\ objects'[e] \subseteq victims'[v])
      BY <2>1, <2>3, <3>1
    <3> QED
      BY <3>2 DEF OnList
  <2>4. ASSUME NEW e \in Datasets PROVE Carried(e)
    BY <2>1, <2>2, <2>3, Zenon DEF Carried
  <2> QED
    BY <2>1, <2>4
<1>4. CASE DeleteFail(w)
  BY <1>4 DEF DeleteFail, TypeOK
<1> QED
  BY <1>1, <1>2, <1>3, <1>4 DEF DeleteStep

\* The steps of a cleanup cycle that neither mark nor end it.
LEMMA CleanCarried ==
    ASSUME TypeOK, LeakInv, NEW c \in Cleaners,
           \/ CleanBegin(c) \/ (\E m \in Models : CleanExamine(c, m)) \/ CleanMark(c)
           \/ CleanPaths(c) \/ CleanPurge(c)
    PROVE  \A d \in Datasets : Carried(d)
<1> USE DEF storeVars, ingestVars, deleteVars, TypeOK, Workers
<1>1. CASE ~CleanPaths(c)
  <2>1. /\ UNCHANGED <<objects, job, paths, prefix, victims>>
        /\ \A w \in Workers : pc[w] \in {"rows", "delete"} =>
               pc'[w] \in {"rows", "delete"} \/ (paths[w] = {} /\ prefix[w] = None)
    BY <1>1 DEF CleanBegin, CleanExamine, CleanMark, CleanPurge
  <2> QED
    BY <2>1, SameCarried DEF Written
<1>2. CASE CleanPaths(c)
  <2>1. /\ UNCHANGED <<objects, job, prefix, victims>>
        /\ pc[c] = "models" /\ \A w \in Workers : w # c => pc'[w] = pc[w] /\ paths'[w] = paths[w]
    BY <1>2 DEF CleanPaths
  <2>2. ASSUME NEW d \in Datasets PROVE Carried(d)
    <3>1. OnList(d) => OnList(d)'
      BY <2>1 DEF OnList
    <3> QED
      BY <2>1, <3>1 DEF Carried, Written
  <2> QED
    BY <2>2
<1> QED
  BY <1>1, <1>2

\* The sync task drops its lists only when they are worked off.
LEMMA SyncCarried ==
    ASSUME TypeOK, LeakInv, NEW s \in Syncers, SyncStep(s) \/ SyncDropRowsFail(s), faults' = 0
    PROVE  /\ \A d \in Datasets : Carried(d)
           /\ \A c \in Cleaners : pc'[c] = pc[c]
           /\ \A d \in Datasets : status'[d] \in {status[d], "absent"}
           /\ ~SyncDropRows(s) => status' = status
<1> USE DEF storeVars, ingestVars, deleteVars, TypeOK, Workers
<1>0. s \in Workers /\ \A c \in Cleaners : c # s
  BY WorkersAssumption
<1>1. CASE SyncReadRows(s) \/ SyncDropRows(s) \/ SyncEnd(s)
  <2>1. /\ UNCHANGED <<objects, job, paths, prefix, victims>>
        /\ \A w \in Workers : pc[w] \in {"rows", "delete"} =>
               pc'[w] \in {"rows", "delete"} \/ (paths[w] = {} /\ prefix[w] = None)
    BY <1>0, <1>1 DEF SyncReadRows, SyncDropRows, SyncEnd
  <2>2. \A d \in Datasets : Carried(d)
    BY <2>1, SameCarried DEF Written
  <2> QED
    BY <1>0, <1>1, <2>2 DEF SyncReadRows, SyncDropRows, SyncEnd
<1>2. CASE SyncList(s)
  <2>1. /\ UNCHANGED <<status, objects, job, prefix, victims>> /\ pc[s] = "list"
        /\ \A w \in Workers : w # s => pc'[w] = pc[w] /\ paths'[w] = paths[w]
    BY <1>0, <1>2 DEF SyncList
  <2>2. ASSUME NEW d \in Datasets PROVE Carried(d)
    <3>1. OnList(d) => OnList(d)'
      BY <2>1 DEF OnList
    <3> QED
      BY <2>1, <3>1 DEF Carried, Written
  <2> QED
    BY <1>0, <2>1, <2>2
<1>3. CASE SyncDropRowsFail(s)
  BY <1>3 DEF SyncDropRowsFail
<1> QED
  BY <1>1, <1>2, <1>3 DEF SyncStep

\* Nobody but a task that deletes, or is about to, gets something to delete.
LEMMA ListsNext == TypeOK /\ ListsEmpty /\ [Next]_vars => ListsEmpty'
<1> SUFFICES ASSUME TypeOK, ListsEmpty, [Next]_vars
             PROVE  ListsEmpty'
  OBVIOUS
<1> USE DEF ListsEmpty, deleteVars
<1>1. ASSUME NEW i \in Ingesters, IngestStep(i)
      PROVE  ListsEmpty'
  BY <1>1 DEF IngestStep, IngestStart, IngestPut, IngestRegister, IngestFail
<1>2. ASSUME NEW c \in Cleaners,
             CleanBegin(c) \/ (\E m \in Models : CleanExamine(c, m)) \/ CleanMark(c)
      PROVE  ListsEmpty'
  BY <1>2 DEF CleanBegin, CleanExamine, CleanMark, TypeOK, Workers
<1>3. ASSUME NEW c \in Cleaners, CleanPaths(c) \/ CleanPurge(c)
      PROVE  ListsEmpty'
  BY <1>3 DEF CleanPaths, CleanPurge, TypeOK, Workers
<1>4. ASSUME NEW s \in Syncers, SyncStep(s) \/ SyncDropRowsFail(s)
      PROVE  ListsEmpty'
  BY <1>4 DEF SyncStep, SyncReadRows, SyncList, SyncDropRows, SyncDropRowsFail, SyncEnd,
              TypeOK, Workers
<1>5. ASSUME NEW w \in Workers, DeleteStep(w) \/ DeleteFail(w)
      PROVE  ListsEmpty'
  BY <1>5 DEF DeleteStep, DeleteList, DeleteFile, DeleteDone, DeleteFail, TypeOK
<1>6. ASSUME NEW w \in Workers, WorkerAbort(w)
      PROVE  ListsEmpty'
  BY <1>6 DEF WorkerAbort, TypeOK
<1>7. CASE Tick \/ UNCHANGED vars
  BY <1>7 DEF Tick, vars
<1> QED
  BY <1>1, <1>2, <1>3, <1>4, <1>5, <1>6, <1>7 DEF Next, CleanStep

\* A failed call is never forgotten.
LEMMA FaultsStay == TypeOK /\ [Next]_vars => faults' \in {faults, faults + 1} /\ faults \in Nat
<1> SUFFICES ASSUME TypeOK, [Next]_vars
             PROVE  faults' \in {faults, faults + 1} /\ faults \in Nat
  OBVIOUS
<1>1. faults \in Nat
  BY DEF TypeOK
<1> QED
  BY <1>1 DEF Next, IngestStep, IngestStart, IngestPut, IngestRegister, IngestFail,
     CleanStep, CleanBegin, CleanExamine, CleanMark, CleanPaths, CleanPurge,
     SyncStep, SyncReadRows, SyncList, SyncDropRows, SyncDropRowsFail, SyncEnd,
     DeleteStep, DeleteList, DeleteFile, DeleteDone, DeleteFail, WorkerAbort, Tick, vars

\* One step, no call failing: every dataset is carried over, and what was
\* expired has somebody to answer for it still.
LEMMA CarriedNext ==
    ASSUME TypeOK, LeakInv, [Next]_vars, faults' = 0
    PROVE  (\A d \in Datasets : Carried(d)) /\ ExpiredCared'
<1> USE DEF storeVars, ingestVars, deleteVars
<1>0. ExpiredCared
  BY FaultsStay DEF LeakInv
<1>1. ASSUME NEW i \in Ingesters, IngestStep(i)
      PROVE  (\A d \in Datasets : Carried(d)) /\ ExpiredCared'
  <2>1. /\ \A d \in Datasets : Carried(d)
        /\ UNCHANGED pc
        /\ \A d \in Datasets : status'[d] \in {status[d], "available"}
    BY <1>1, IngestCarried
  <2>2. \A c \in Cleaners : Marking(c) => Marking(c)'
    BY <2>1 DEF Marking
  <2>3. \A d \in Datasets : status'[d] = "expired" => status[d] = "expired"
    BY <2>1
  <2> QED
    BY <1>0, <2>1, <2>2, <2>3, CarriedCared
<1>2. ASSUME NEW c \in Cleaners, CleanStep(c)
      PROVE  (\A d \in Datasets : Carried(d)) /\ ExpiredCared'
  <2>1. \A d \in Datasets : Carried(d)
    BY <1>2, CleanCarried DEF CleanStep
  <2>2. CASE CleanBegin(c) \/ (\E m \in Models : CleanExamine(c, m)) \/ CleanMark(c)
    <3>1. Marking(c)'
      BY <2>2 DEF CleanBegin, CleanExamine, CleanMark, Marking, TypeOK, Workers
    <3> QED
      BY <2>1, <3>1 DEF ExpiredCared
  <2>3. CASE CleanPaths(c)
    <3>1. /\ paths'[c] = Expired /\ UNCHANGED status
          /\ Expired # {} => pc'[c] = "delete"
      BY <2>3 DEF CleanPaths, TypeOK, Workers
    <3>2. ASSUME NEW d \in Datasets, status'[d] = "expired" PROVE OnList(d)'
      BY <3>1, <3>2 DEF OnList, Expired, Workers
    <3> QED
      BY <2>1, <3>2 DEF ExpiredCared
  <2>4. CASE CleanPurge(c)
    <3>1. \A d \in Datasets : status'[d] # "expired"
      BY <2>4 DEF CleanPurge
    <3> QED
      BY <2>1, <3>1 DEF ExpiredCared
  <2> QED
    BY <1>2, <2>2, <2>3, <2>4 DEF CleanStep
<1>3. ASSUME NEW s \in Syncers, SyncStep(s) \/ SyncDropRowsFail(s)
      PROVE  (\A d \in Datasets : Carried(d)) /\ ExpiredCared'
  <2>1. /\ \A d \in Datasets : Carried(d)
        /\ \A c \in Cleaners : pc'[c] = pc[c]
        /\ \A d \in Datasets : status'[d] \in {status[d], "absent"}
    BY <1>3, SyncCarried
  <2>2. \A c \in Cleaners : Marking(c) => Marking(c)'
    BY <2>1 DEF Marking
  <2>3. \A d \in Datasets : status'[d] = "expired" => status[d] = "expired"
    BY <2>1
  <2> QED
    BY <1>0, <2>1, <2>2, <2>3, CarriedCared
<1>4. ASSUME NEW w \in Workers, DeleteStep(w) \/ DeleteFail(w)
      PROVE  (\A d \in Datasets : Carried(d)) /\ ExpiredCared'
  <2>1. (\A d \in Datasets : Carried(d)) /\ UNCHANGED <<pc, status>>
    BY <1>4, DeleteCarried
  <2>2. \A c \in Cleaners : Marking(c) => Marking(c)'
    BY <2>1 DEF Marking
  <2>3. \A d \in Datasets : status'[d] = "expired" => status[d] = "expired"
    BY <2>1
  <2> QED
    BY <1>0, <2>1, <2>2, <2>3, CarriedCared
<1>5. ASSUME NEW w \in Workers, WorkerAbort(w)
      PROVE  FALSE
  BY <1>5 DEF WorkerAbort, TypeOK
<1>6. CASE Tick \/ UNCHANGED vars
  <2>1. UNCHANGED <<status, objects, job, pc, paths, prefix, victims>>
    BY <1>6 DEF Tick, vars
  <2>2. \A d \in Datasets : Carried(d)
    BY <2>1, SameCarried DEF Written
  <2>3. \A c \in Cleaners : Marking(c) => Marking(c)'
    BY <2>1 DEF Marking
  <2>4. \A d \in Datasets : status'[d] = "expired" => status[d] = "expired"
    BY <2>1
  <2> QED
    BY <1>0, <2>2, <2>3, <2>4, CarriedCared
<1> QED
  BY <1>1, <1>2, <1>3, <1>4, <1>5, <1>6 DEF Next, DeleteStep

\* A row goes by the hand of two steps.
LEMMA RowsGo ==
    ASSUME TypeOK, [Next]_vars, NEW d \in Datasets, status[d] # "absent", status'[d] = "absent"
    PROVE  \/ \E s \in Syncers : SyncDropRows(s)
           \/ \E c \in Cleaners : CleanPurge(c) /\ status[d] = "expired"
<1> USE DEF storeVars
<1>1. ASSUME NEW i \in Ingesters PROVE ~IngestStep(i)
  BY DEF IngestStep, IngestStart, IngestPut, IngestRegister, IngestFail, TypeOK
<1>2. ASSUME NEW c \in Cleaners, CleanStep(c)
      PROVE  CleanPurge(c) /\ status[d] = "expired"
  BY <1>2 DEF CleanStep, CleanBegin, CleanExamine, CleanMark, CleanPaths, CleanPurge
<1>3. ASSUME NEW s \in Syncers, SyncStep(s) \/ SyncDropRowsFail(s)
      PROVE  SyncDropRows(s)
  BY <1>3 DEF SyncStep, SyncReadRows, SyncList, SyncDropRowsFail, SyncEnd
<1>4. ASSUME NEW w \in Workers
      PROVE  ~DeleteStep(w) /\ ~DeleteFail(w) /\ ~WorkerAbort(w)
  BY DEF DeleteStep, DeleteList, DeleteFile, DeleteDone, DeleteFail, WorkerAbort
<1>5. ~Tick /\ vars' # vars
  BY DEF Tick, vars
<1> QED
  BY <1>1, <1>2, <1>3, <1>4, <1>5 DEF Next

\* The purge finds the expired rows worked off, on another list, or marked
\* by a cycle that is still marking.
LEMMA PurgeLeaves ==
    ASSUME TypeOK, LeakInv, faults = 0, NEW c \in Cleaners, CleanPurge(c),
           NEW d \in Datasets, status[d] = "expired", ~CaredFor(d)'
    PROVE  \E b \in Cleaners : c # b /\ pc[b] \in {"models", "mark"}
<1> USE DEF storeVars, ingestVars, deleteVars
<1>1. /\ UNCHANGED <<objects, job, paths, prefix, victims>>
      /\ pc[c] = "delete" /\ paths[c] = {} /\ prefix[c] = None
      /\ \A w \in Workers : w # c => pc'[w] = pc[w]
  BY DEF CleanPurge, TypeOK
<1>2. OnList(d) => OnList(d)'
  BY <1>1, NoneAssumption DEF OnList
<1>3. Written(d) => Written(d)'
  BY <1>1 DEF Written
<1>4. objects[d] # {} /\ ~Written(d) /\ ~OnList(d)
  BY <1>1, <1>2, <1>3 DEF CaredFor, Written
<1>5. PICK b \in Cleaners : pc[b] \in {"models", "mark"}
  BY <1>4, Zenon DEF LeakInv, ExpiredCared, Marking
<1> QED
  BY <1>1, <1>5

\* No step leaves files that nobody answers for but the two the code lets
\* (cleanup.rs, where the paths are read after all marks of a cycle, and the
\* rows of every cycle deleted after all paths of one), with any number of
\* cleanup cycles, sync cycles and requests, as long as no call fails.
THEOREM NothingLeaks == Spec => NoLeak
<1> DEFINE Kept ==
      \A d \in Datasets : CaredFor(d) /\ ~CaredFor(d)' =>
         \/ faults' > 0
         \/ \E s \in Syncers : SyncDropRows(s)
         \/ \E c, b \in Cleaners :
              /\ CleanPurge(c)
              /\ c # b /\ pc[b] \in {"models", "mark"}
<1>1. Init => LeakInv
  BY DEF Init, LeakInv, ListsEmpty, ExpiredCared
<1>2. TypeOK /\ LeakInv /\ [Next]_vars => LeakInv'
  BY ListsNext, CarriedNext DEF LeakInv
<1>3. ASSUME TypeOK, LeakInv, [Next]_vars PROVE Kept
  <2> SUFFICES ASSUME NEW d \in Datasets, CaredFor(d), ~CaredFor(d)', ~(faults' > 0),
                      \A s \in Syncers : ~SyncDropRows(s)
               PROVE  \E c, b \in Cleaners :
                        CleanPurge(c) /\ c # b /\ pc[b] \in {"models", "mark"}
    OBVIOUS
  <2>1. faults = 0 /\ faults' = 0
    BY <1>3, FaultsStay
  <2>2. status[d] # "absent" /\ status'[d] = "absent"
    BY <1>3, <2>1, CarriedNext, CarriedSafe
  <2>3. PICK c \in Cleaners : CleanPurge(c) /\ status[d] = "expired"
    BY <1>3, <2>2, RowsGo
  <2> QED
    BY <1>3, <2>1, <2>3, PurgeLeaves
<1>4. TypeOK /\ LeakInv /\ [Next]_vars => [Kept]_vars
  BY <1>3
<1> QED
  BY <1>1, <1>2, <1>4, TypeCorrect, PTL DEF Spec, NoLeak

-----------------------------------------------------------------------------
(***************************************************************************)
(* Static datasets, with any number of cleanup and sync tasks.             *)
(***************************************************************************)

\* A cycle never has a static model to examine or to mark.
StaticInv ==
    \A c \in Cleaners : /\ models[c] \cap StaticModels = {}
                        /\ pc[c] = "mark" => model[c] \notin StaticModels

LEMMA StaticNext == TypeOK /\ StaticInv /\ [Next]_vars => StaticInv'
<1> SUFFICES ASSUME TypeOK, StaticInv, [Next]_vars
             PROVE  StaticInv'
  OBVIOUS
<1> USE DEF StaticInv, markVars
<1>1. ASSUME NEW i \in Ingesters, IngestStep(i)
      PROVE  StaticInv'
  BY <1>1 DEF IngestStep, IngestStart, IngestPut, IngestRegister, IngestFail
<1>2. ASSUME NEW c \in Cleaners, CleanBegin(c)
      PROVE  StaticInv'
  BY <1>2 DEF CleanBegin, TypeOK, Workers
<1>3. ASSUME NEW c \in Cleaners, NEW m \in Models, CleanExamine(c, m)
      PROVE  StaticInv'
  BY <1>3 DEF CleanExamine, TypeOK, Workers
<1>4. ASSUME NEW c \in Cleaners, CleanMark(c) \/ CleanPaths(c) \/ CleanPurge(c)
      PROVE  StaticInv'
  BY <1>4 DEF CleanMark, CleanPaths, CleanPurge, TypeOK, Workers
<1>5. ASSUME NEW s \in Syncers, SyncStep(s) \/ SyncDropRowsFail(s)
      PROVE  StaticInv'
  BY <1>5, WorkersAssumption
     DEF SyncStep, SyncReadRows, SyncList, SyncDropRows, SyncDropRowsFail, SyncEnd,
         TypeOK, Workers
<1>6. ASSUME NEW w \in Workers, DeleteStep(w) \/ DeleteFail(w)
      PROVE  StaticInv'
  BY <1>6 DEF DeleteStep, DeleteList, DeleteFile, DeleteDone, DeleteFail
<1>7. ASSUME NEW w \in Workers, WorkerAbort(w)
      PROVE  StaticInv'
  BY <1>7 DEF WorkerAbort, TypeOK, Workers
<1>8. CASE Tick \/ UNCHANGED vars
  BY <1>8 DEF Tick, vars
<1> QED
  BY <1>1, <1>2, <1>3, <1>4, <1>5, <1>6, <1>7, <1>8 DEF Next, CleanStep

\* One step at a settled static dataset, whoever takes it.
LEMMA SettledNext ==
    ASSUME TypeOK, StaticInv, [Next]_vars,
           NEW d \in Datasets, ModelOf[d] \in StaticModels, Settled(d)
    PROVE  Settled(d)'
<1> USE DEF Settled, Available, storeVars, deleteVars
<1>1. ASSUME NEW i \in Ingesters, IngestStep(i)
      PROVE  Settled(d)'
  <2>1. UNCHANGED <<pc, records, paths, prefix>>
    BY <1>1 DEF IngestStep, IngestStart, IngestPut, IngestRegister, IngestFail
  <2>2. status'[d] = "available"
    BY <1>1 DEF IngestStep, IngestStart, IngestPut, IngestRegister, IngestFail, TypeOK
  <2>3. objects'[d] = Files
    <3>1. CASE IngestPut(i)
      <4>1. PICK f \in unsent[i] : objects' = [objects EXCEPT ![job[i]] = @ \cup {f}]
        BY <3>1 DEF IngestPut
      <4>2. f \in Files
        BY DEF TypeOK
      <4> QED
        BY <4>1, <4>2 DEF TypeOK
    <3>2. CASE ~IngestPut(i)
      BY <1>1, <3>2 DEF IngestStep, IngestStart, IngestRegister, IngestFail
    <3> QED
      BY <3>1, <3>2
  <2> QED
    BY <2>1, <2>2, <2>3
<1>2. ASSUME NEW c \in Cleaners, CleanBegin(c) \/ \E m \in Models : CleanExamine(c, m)
      PROVE  Settled(d)'
  BY <1>2, WorkersAssumption DEF CleanBegin, CleanExamine, TypeOK, Workers
<1>3. ASSUME NEW c \in Cleaners, CleanMark(c)
      PROVE  Settled(d)'
  <2>1. d \notin Overdue(c)
    BY <1>3 DEF CleanMark, StaticInv, Overdue
  <2> QED
    BY <1>3, <2>1, WorkersAssumption DEF CleanMark, TypeOK, Workers
<1>4. ASSUME NEW c \in Cleaners, CleanPaths(c) \/ CleanPurge(c)
      PROVE  Settled(d)'
  BY <1>4, WorkersAssumption DEF CleanPaths, CleanPurge, Expired, TypeOK, Workers
<1>5. ASSUME NEW s \in Syncers, SyncReadRows(s) \/ SyncList(s)
      PROVE  Settled(d)'
  BY <1>5, FilesAssumption DEF SyncReadRows, SyncList, TypeOK, Workers
<1>6. ASSUME NEW s \in Syncers, SyncDropRows(s) \/ SyncDropRowsFail(s) \/ SyncEnd(s)
      PROVE  Settled(d)'
  BY <1>6 DEF SyncDropRows, SyncDropRowsFail, SyncEnd, TypeOK, Workers
<1>7. ASSUME NEW w \in Workers, DeleteStep(w) \/ DeleteFail(w)
      PROVE  Settled(d)'
  <2>1. CASE DeleteFile(w)
    <3>1. prefix[w] # d /\ UNCHANGED <<status, pc, records, paths, prefix>>
      BY <2>1 DEF DeleteFile
    <3>2. objects'[d] = objects[d]
      BY <2>1, <3>1 DEF DeleteFile, TypeOK
    <3> QED
      BY <3>1, <3>2
  <2>2. CASE ~DeleteFile(w)
    BY <1>7, <2>2, NoneAssumption DEF DeleteStep, DeleteList, DeleteDone, DeleteFail, TypeOK
  <2> QED
    BY <2>1, <2>2
<1>8. ASSUME NEW w \in Workers, WorkerAbort(w)
      PROVE  Settled(d)'
  BY <1>8, NoneAssumption DEF WorkerAbort, TypeOK, Workers
<1>9. CASE Tick \/ UNCHANGED vars
  BY <1>9 DEF Tick, vars
<1> QED
  BY <1>1, <1>2, <1>3, <1>4, <1>5, <1>6, <1>7, <1>8, <1>9 DEF Next, CleanStep, SyncStep

\* A static dataset that is settled stays so: no cleanup or sync cycle, however
\* many run at once, nor its own ingestion anew takes its row or a file of it.
THEOREM StaticStaysServed == Spec => StaticServed
<1>1. Init => StaticInv
  BY DEF Init, StaticInv, Workers
<1>2. TypeOK /\ StaticInv /\ [Next]_vars => StaticInv'
  BY StaticNext
<1>3. TypeOK /\ StaticInv /\ [Next]_vars =>
        [\A d \in Datasets : ModelOf[d] \in StaticModels /\ Settled(d) => Settled(d)']_vars
  BY SettledNext
<1>4. QED
  BY <1>1, <1>2, <1>3, TypeCorrect, PTL DEF Spec, StaticServed
=============================================================================
