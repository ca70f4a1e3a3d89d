--------------------------- MODULE DownloadProofs ---------------------------
(***************************************************************************)
(* Theorems about what happens to a file that is downloaded.               *)
(*                                                                         *)
(* DownloadSlots, for any number of models and files, any order of the     *)
(* files and any limits: no permit is lost or made up, the counter stays   *)
(* within the slots there are, a file waits only for a file of its own     *)
(* model, and a model keeps to its own limit.                              *)
(*                                                                         *)
(* DownloadLifecycle, for any files, any split into the two download       *)
(* paths, and any number of failed calls and crashes: neither task deletes *)
(* a file that still has to be ingested, what is marked was answered for,  *)
(* and the two tasks never request the same file at once.                  *)
(***************************************************************************)
EXTENDS DownloadSlots, DownloadLifecycle, FiniteSetTheorems, TLAPS

(***************************************************************************)
(* The strengthening: which files hold a permit, which ones are queued on  *)
(* a semaphore, and what the counters count.                               *)
(***************************************************************************)

SlotPhase == \A f \in Files : slot[f] = "none" <=> phase[f] \notin Holding

\* A semaphore's queue has no file twice and only files that wait for it.
QueueSound ==
    \A m \in Models : \A i \in 1..Len(waiters[m]) :
        /\ phase[waiters[m][i]] = "waiting"
        /\ ModelOf[waiters[m][i]] = m
        /\ \A j \in 1..Len(waiters[m]) : waiters[m][i] = waiters[m][j] => i = j

\* A model's semaphore is free and unused, or held by one of its files.
OneGuaranteed ==
    \A m \in Models :
        \/ /\ guaranteedFree[m] = 1
           /\ waiters[m] = <<>>
           /\ \A f \in FilesOf(m) : slot[f] # "guaranteed"
        \/ /\ guaranteedFree[m] = 0
           /\ \E f \in FilesOf(m) : SlotHolders("guaranteed") \cap FilesOf(m) = {f}

PoolConserved == sharedFree + Cardinality(SlotHolders("shared")) = SharedPoolSize

ActiveFiles == {f \in Files : phase[f] = "active"}
ActiveCounted == active = Cardinality(ActiveFiles)

SlotInv ==
    /\ SlotsTyped
    /\ SlotPhase
    /\ QueueSound
    /\ OneGuaranteed
    /\ PoolConserved
    /\ ActiveCounted

-----------------------------------------------------------------------------
(***************************************************************************)
(* Constants and sets.                                                     *)
(***************************************************************************)

LEMMA PoolSizes == /\ NumModels \in Nat
               /\ SharedPoolSize \in Nat
               /\ SharedPoolSize >= 0
  BY FS_CardinalityType, FilesAssumption, LimitsAssumption
     DEF NumModels, SharedPoolSize, Minus

LEMMA HoldersFinite ==
    ASSUME NEW kind
    PROVE  /\ IsFiniteSet(SlotHolders(kind))
           /\ Cardinality(SlotHolders(kind)) \in Nat
  <1>1. SlotHolders(kind) \in SUBSET Files
    BY DEF SlotHolders
  <1> QED BY <1>1, FS_Subset, FS_CardinalityType, FilesAssumption

LEMMA ActiveFinite == /\ IsFiniteSet(ActiveFiles)
                      /\ Cardinality(ActiveFiles) \in Nat
  <1>1. ActiveFiles \in SUBSET Files
    BY DEF ActiveFiles
  <1> QED BY <1>1, FS_Subset, FS_CardinalityType, FilesAssumption

-----------------------------------------------------------------------------
(***************************************************************************)
(* The initial states.                                                     *)
(***************************************************************************)

LEMMA InitSlots == SlotsInit => SlotInv
  <1> SUFFICES ASSUME SlotsInit PROVE SlotInv
    OBVIOUS
  <1>1. SlotsTyped
    BY PoolSizes DEF SlotsInit, SlotsTyped, Phase
  <1>2. SlotPhase /\ QueueSound
    BY DEF SlotsInit, SlotPhase, QueueSound, Holding
  <1>3. OneGuaranteed
    BY DEF SlotsInit, OneGuaranteed, FilesOf
  <1>4. PoolConserved
    <2>1. SlotHolders("shared") = {}
      BY DEF SlotsInit, SlotHolders
    <2>2. Cardinality(SlotHolders("shared")) = 0
      BY <2>1, FS_EmptySet
    <2> QED BY <2>2, PoolSizes DEF SlotsInit, PoolConserved
  <1>5. ActiveCounted
    <2>1. ActiveFiles = {}
      BY DEF SlotsInit, ActiveFiles
    <2> QED BY <2>1, FS_EmptySet DEF SlotsInit, ActiveCounted
  <1> QED BY <1>1, <1>2, <1>3, <1>4, <1>5 DEF SlotInv

-----------------------------------------------------------------------------
(***************************************************************************)
(* The steps.  Each lemma is one action; SameHolders, SameGuaranteed and   *)
(* SameActive cover what an action leaves alone.                           *)
(***************************************************************************)

LEMMA SameHolders ==
    ASSUME PoolConserved, UNCHANGED sharedFree,
           \A f \in Files : slot'[f] = "shared" <=> slot[f] = "shared"
    PROVE  PoolConserved'
  <1>1. SlotHolders("shared")' = SlotHolders("shared")
    BY DEF SlotHolders
  <1> QED BY <1>1 DEF PoolConserved

LEMMA SameGuaranteed ==
    ASSUME OneGuaranteed, UNCHANGED <<guaranteedFree, waiters>>,
           \A f \in Files : slot'[f] = "guaranteed" <=> slot[f] = "guaranteed"
    PROVE  OneGuaranteed'
  <1>1. \A m \in Models : (SlotHolders("guaranteed") \cap FilesOf(m))'
                            = SlotHolders("guaranteed") \cap FilesOf(m)
    BY DEF SlotHolders, FilesOf
  <1>2. \A m \in Models : \A f \in FilesOf(m) : f \in Files
    BY DEF FilesOf
  <1> QED BY <1>1, <1>2 DEF OneGuaranteed, FilesOf

LEMMA SameActive ==
    ASSUME ActiveCounted, UNCHANGED active,
           \A f \in Files : phase'[f] = "active" <=> phase[f] = "active"
    PROVE  ActiveCounted'
  <1>1. ActiveFiles' = ActiveFiles
    BY DEF ActiveFiles
  <1> QED BY <1>1 DEF ActiveCounted

LEMMA StartCycleStep ==
    ASSUME SlotInv, NEW m \in Models, NEW batch \in SUBSET FilesOf(m),
           StartCycle(m, batch)
    PROVE  SlotInv'
  <1> USE DEF SlotInv, StartCycle
  <1>0. \A f \in batch : f \in Files /\ phase[f] = "idle"
    BY DEF FilesOf
  <1>1. SlotsTyped'
    BY DEF SlotsTyped, Phase
  <1>2. SlotPhase'
    BY <1>0 DEF SlotPhase, Holding, SlotsTyped
  <1>3. QueueSound'
    <2>1. \A k \in Models : \A i \in 1..Len(waiters[k]) : waiters[k][i] \in Files
      BY DEF SlotsTyped
    <2> QED BY <2>1, <1>0 DEF QueueSound
  <1>4. OneGuaranteed'
    BY DEF OneGuaranteed, FilesOf, SlotHolders
  <1>5. PoolConserved'
    BY SameHolders
  <1>6. ActiveCounted'
    BY <1>0, SameActive
  <1> QED BY <1>1, <1>2, <1>3, <1>4, <1>5, <1>6

LEMMA TakeGuaranteedStep ==
    ASSUME SlotInv, NEW f \in Files, TakeGuaranteed(f)
    PROVE  SlotInv'
  <1> USE DEF SlotInv, TakeGuaranteed, NextInLine
  <1>0. ModelOf[f] \in Models
    BY ModelOfAssumption
  <1>1. SlotsTyped'
    BY <1>0 DEF SlotsTyped, Phase
  <1>2. SlotPhase'
    BY DEF SlotPhase, Holding, SlotsTyped
  <1>3. QueueSound'
    BY DEF QueueSound, SlotsTyped
  <1>4. OneGuaranteed'
    <2> SUFFICES ASSUME NEW m \in Models
                 PROVE  OneGuaranteed!(m)'
      BY DEF OneGuaranteed
    <2>1. CASE m = ModelOf[f]
      <3>1. guaranteedFree'[m] = 0
        BY <2>1, <1>0 DEF OneGuaranteed, SlotsTyped
      <3>2. \A g \in FilesOf(m) : slot[g] # "guaranteed"
        BY <2>1, <1>0 DEF OneGuaranteed, SlotsTyped
      <3>3. f \in FilesOf(m)
        BY <2>1 DEF FilesOf
      <3>4. (SlotHolders("guaranteed") \cap FilesOf(m))' = {f}
        BY <3>2, <3>3 DEF SlotHolders, FilesOf, SlotsTyped
      <3> QED BY <3>1, <3>3, <3>4 DEF FilesOf
    <2>2. CASE m # ModelOf[f]
      <3>1. /\ guaranteedFree'[m] = guaranteedFree[m]
            /\ \A g \in FilesOf(m) : slot'[g] = slot[g]
        BY <2>2 DEF FilesOf, SlotsTyped
      <3>2. (SlotHolders("guaranteed") \cap FilesOf(m))'
              = SlotHolders("guaranteed") \cap FilesOf(m)
        BY <3>1 DEF SlotHolders, FilesOf
      <3> QED BY <3>1, <3>2 DEF OneGuaranteed, FilesOf
    <2> QED BY <2>1, <2>2
  <1>5. PoolConserved'
    BY SameHolders DEF SlotPhase, Holding, SlotsTyped
  <1>6. ActiveCounted'
    BY SameActive DEF SlotsTyped
  <1> QED BY <1>1, <1>2, <1>3, <1>4, <1>5, <1>6

LEMMA TakeSharedStep ==
    ASSUME SlotInv, NEW f \in Files, TakeShared(f)
    PROVE  SlotInv'
  <1> USE DEF SlotInv, TakeShared, NextInLine
  <1>1. SlotsTyped'
    BY DEF SlotsTyped, Phase
  <1>2. SlotPhase'
    BY DEF SlotPhase, Holding, SlotsTyped
  <1>3. QueueSound'
    BY DEF QueueSound, SlotsTyped
  <1>4. OneGuaranteed'
    BY SameGuaranteed DEF SlotPhase, Holding, SlotsTyped
  <1>5. PoolConserved'
    <2>1. f \notin SlotHolders("shared")
      BY DEF SlotHolders, SlotPhase, Holding
    <2>2. SlotHolders("shared")' = SlotHolders("shared") \cup {f}
      BY DEF SlotHolders, SlotsTyped
    <2>3. Cardinality(SlotHolders("shared")') = Cardinality(SlotHolders("shared")) + 1
      BY <2>1, <2>2, HoldersFinite, FS_AddElement
    <2> QED BY <2>3, HoldersFinite, PoolSizes DEF PoolConserved, SlotsTyped
  <1>6. ActiveCounted'
    BY SameActive DEF SlotsTyped
  <1> QED BY <1>1, <1>2, <1>3, <1>4, <1>5, <1>6

LEMMA WaitStep ==
    ASSUME SlotInv, NEW f \in Files, Wait(f)
    PROVE  SlotInv'
  <1> USE DEF SlotInv, Wait, NextInLine
  <1>0. ModelOf[f] \in Models
    BY ModelOfAssumption
  <1>1. SlotsTyped'
    BY <1>0 DEF SlotsTyped, Phase
  <1>2. SlotPhase'
    BY DEF SlotPhase, Holding, SlotsTyped
  <1>3. QueueSound'
    <2>1. \A m \in Models : m # ModelOf[f] => waiters'[m] = waiters[m]
      BY <1>0 DEF SlotsTyped
    <2>2. /\ Len(waiters'[ModelOf[f]]) = Len(waiters[ModelOf[f]]) + 1
          /\ \A i \in 1..Len(waiters[ModelOf[f]]) :
               waiters'[ModelOf[f]][i] = waiters[ModelOf[f]][i]
          /\ waiters'[ModelOf[f]][Len(waiters[ModelOf[f]]) + 1] = f
          /\ Len(waiters[ModelOf[f]]) \in Nat
      BY <1>0 DEF SlotsTyped
    <2>3. \A m \in Models : \A i \in 1..Len(waiters[m]) :
             waiters[m][i] # f /\ waiters[m][i] \in Files
      BY DEF QueueSound, SlotsTyped
    <2>4. \A m \in Models : \A i \in 1..Len(waiters[m]) :
             phase'[waiters[m][i]] = "waiting"
      BY <2>3 DEF QueueSound, SlotsTyped
    <2>5. phase'[f] = "waiting"
      BY DEF SlotsTyped
    <2> SUFFICES ASSUME NEW m \in Models
                 PROVE  QueueSound!(m)'
      BY DEF QueueSound
    <2>6. CASE m # ModelOf[f]
      BY <2>1, <2>4, <2>6 DEF QueueSound
    <2>7. CASE m = ModelOf[f]
      BY <2>2, <2>3, <2>4, <2>5, <2>7 DEF QueueSound
    <2> QED BY <2>6, <2>7
  <1>4. OneGuaranteed'
    <2> SUFFICES ASSUME NEW m \in Models
                 PROVE  OneGuaranteed!(m)'
      BY DEF OneGuaranteed
    <2>1. (SlotHolders("guaranteed") \cap FilesOf(m))'
            = SlotHolders("guaranteed") \cap FilesOf(m)
      BY DEF SlotHolders, FilesOf
    <2>2. m # ModelOf[f] => waiters'[m] = waiters[m]
      BY <1>0 DEF SlotsTyped
    <2> QED BY <2>1, <2>2 DEF OneGuaranteed, FilesOf
  <1>5. PoolConserved'
    BY SameHolders
  <1>6. ActiveCounted'
    BY SameActive DEF SlotsTyped
  <1> QED BY <1>1, <1>2, <1>3, <1>4, <1>5, <1>6

LEMMA CountStep ==
    ASSUME SlotInv, NEW f \in Files, Count(f)
    PROVE  SlotInv'
  <1> USE DEF SlotInv, Count
  <1>1. SlotsTyped'
    BY DEF SlotsTyped, Phase
  <1>2. SlotPhase'
    BY DEF SlotPhase, Holding, SlotsTyped
  <1>3. QueueSound'
    BY DEF QueueSound, SlotsTyped
  <1>4. OneGuaranteed'
    BY SameGuaranteed
  <1>5. PoolConserved'
    BY SameHolders
  <1>6. ActiveCounted'
    <2>1. f \notin ActiveFiles
      BY DEF ActiveFiles
    <2>2. ActiveFiles' = ActiveFiles \cup {f}
      BY DEF ActiveFiles, SlotsTyped
    <2> QED BY <2>1, <2>2, ActiveFinite, FS_AddElement DEF ActiveCounted
  <1> QED BY <1>1, <1>2, <1>3, <1>4, <1>5, <1>6

LEMMA FinishStep ==
    ASSUME SlotInv, NEW f \in Files, Finish(f)
    PROVE  SlotInv'
  <1> USE DEF SlotInv, Finish
  <1>1. SlotsTyped'
    BY DEF SlotsTyped, Phase
  <1>2. SlotPhase'
    BY DEF SlotPhase, Holding, SlotsTyped
  <1>3. QueueSound'
    BY DEF QueueSound, SlotsTyped
  <1>4. OneGuaranteed'
    BY SameGuaranteed
  <1>5. PoolConserved'
    BY SameHolders
  <1>6. ActiveCounted'
    <2>1. f \in ActiveFiles
      BY DEF ActiveFiles
    <2>2. ActiveFiles' = ActiveFiles \ {f}
      BY DEF ActiveFiles, SlotsTyped
    <2> QED BY <2>1, <2>2, ActiveFinite, FS_RemoveElement DEF ActiveCounted
  <1> QED BY <1>1, <1>2, <1>3, <1>4, <1>5, <1>6

LEMMA ReleaseSharedStep ==
    ASSUME SlotInv, NEW f \in Files, ReleaseShared(f)
    PROVE  SlotInv'
  <1> USE DEF SlotInv, ReleaseShared
  <1>1. SlotsTyped'
    BY DEF SlotsTyped, Phase
  <1>2. SlotPhase'
    BY DEF SlotPhase, Holding, SlotsTyped
  <1>3. QueueSound'
    BY DEF QueueSound, SlotsTyped
  <1>4. OneGuaranteed'
    BY SameGuaranteed DEF SlotsTyped
  <1>5. PoolConserved'
    <2>1. f \in SlotHolders("shared")
      BY DEF SlotHolders
    <2>2. SlotHolders("shared")' = SlotHolders("shared") \ {f}
      BY DEF SlotHolders, SlotsTyped
    <2>3. Cardinality(SlotHolders("shared")') = Cardinality(SlotHolders("shared")) - 1
      BY <2>1, <2>2, HoldersFinite, FS_RemoveElement
    <2>4. Cardinality(SlotHolders("shared")) \in Nat /\ sharedFree \in Nat
      BY HoldersFinite DEF SlotsTyped
    <2> QED BY <2>3, <2>4 DEF PoolConserved
  <1>6. ActiveCounted'
    BY SameActive DEF SlotsTyped
  <1> QED BY <1>1, <1>2, <1>3, <1>4, <1>5, <1>6
\* With nobody waiting the permit becomes free again.
LEMMA ReleaseToSemaphore ==
    ASSUME SlotInv, NEW f \in Files, ReleaseGuaranteed(f),
           waiters[ModelOf[f]] = <<>>
    PROVE  SlotInv'
  <1> USE DEF SlotInv
  <1>0. /\ ModelOf[f] \in Models
        /\ phase[f] = "leaving" /\ slot[f] = "guaranteed"
        /\ guaranteedFree' = [guaranteedFree EXCEPT ![ModelOf[f]] = @ + 1]
        /\ phase' = [phase EXCEPT ![f] = "idle"]
        /\ slot' = [slot EXCEPT ![f] = "none"]
        /\ UNCHANGED <<waiters, sharedFree, active>>
    BY ModelOfAssumption DEF ReleaseGuaranteed
  <1>1. SlotsTyped'
    BY <1>0 DEF SlotsTyped, Phase
  <1>2. SlotPhase'
    BY <1>0 DEF SlotPhase, Holding, SlotsTyped
  <1>3. QueueSound'
    BY <1>0 DEF QueueSound, SlotsTyped
  <1>4. OneGuaranteed'
    <2> SUFFICES ASSUME NEW m \in Models
                 PROVE  OneGuaranteed!(m)'
      BY DEF OneGuaranteed
    <2>1. CASE m = ModelOf[f]
      <3>1. f \in SlotHolders("guaranteed") \cap FilesOf(m)
        BY <1>0, <2>1 DEF SlotHolders, FilesOf
      <3>2. /\ guaranteedFree[m] = 0
            /\ SlotHolders("guaranteed") \cap FilesOf(m) = {f}
        BY <3>1 DEF OneGuaranteed, SlotHolders
      <3>3. \A g \in FilesOf(m) : slot'[g] # "guaranteed"
        BY <1>0, <3>2 DEF SlotHolders, FilesOf, SlotsTyped
      <3> QED BY <1>0, <2>1, <3>2, <3>3 DEF FilesOf, SlotsTyped
    <2>2. CASE m # ModelOf[f]
      <3>1. /\ guaranteedFree'[m] = guaranteedFree[m]
            /\ \A g \in FilesOf(m) : slot'[g] = slot[g]
        BY <1>0, <2>2 DEF FilesOf, SlotsTyped
      <3>2. (SlotHolders("guaranteed") \cap FilesOf(m))'
              = SlotHolders("guaranteed") \cap FilesOf(m)
        BY <3>1 DEF SlotHolders, FilesOf
      <3> QED BY <1>0, <3>1, <3>2 DEF OneGuaranteed, FilesOf
    <2> QED BY <2>1, <2>2
  <1>5. PoolConserved'
    BY <1>0, SameHolders DEF SlotsTyped
  <1>6. ActiveCounted'
    BY <1>0, SameActive DEF SlotsTyped
  <1> QED BY <1>1, <1>2, <1>3, <1>4, <1>5, <1>6

\* Otherwise the first of the queue gets it, and no other model notices.
LEMMA HandOver ==
    ASSUME SlotInv, NEW f \in Files, ReleaseGuaranteed(f),
           waiters[ModelOf[f]] # <<>>
    PROVE  SlotInv'
  <1> DEFINE n == ModelOf[f]
             g == Head(waiters[n])
  <1> USE DEF SlotInv
  <1>1. /\ n \in Models
        /\ phase[f] = "leaving" /\ slot[f] = "guaranteed"
        /\ waiters' = [waiters EXCEPT ![n] = Tail(@)]
        /\ phase' = [phase EXCEPT ![f] = "idle", ![g] = "granted"]
        /\ slot' = [slot EXCEPT ![f] = "none", ![g] = "guaranteed"]
        /\ UNCHANGED <<guaranteedFree, sharedFree, active>>
    BY ModelOfAssumption DEF ReleaseGuaranteed
  <1>2. /\ Len(waiters[n]) \in Nat /\ Len(waiters[n]) >= 1
        /\ g = waiters[n][1] /\ g \in Files
        /\ waiters[n] \in Seq(Files)
    BY <1>1 DEF SlotsTyped
  <1>3. phase[g] = "waiting" /\ ModelOf[g] = n /\ g # f /\ slot[g] = "none"
    BY <1>1, <1>2 DEF QueueSound, SlotPhase, Holding
  <1>4. /\ Len(Tail(waiters[n])) = Len(waiters[n]) - 1
        /\ \A i \in 1..Len(Tail(waiters[n])) : Tail(waiters[n])[i] = waiters[n][i + 1]
        /\ Tail(waiters[n]) \in Seq(Files)
    BY <1>2
  <1>5. /\ waiters'[n] = Tail(waiters[n])
        /\ \A m \in Models : m # n => waiters'[m] = waiters[m]
    BY <1>1 DEF SlotsTyped
  <1> HIDE DEF g, n
  <1>6. SlotsTyped'
    BY <1>1, <1>2, <1>4 DEF SlotsTyped, Phase
  <1>7. SlotPhase'
    BY <1>1, <1>2, <1>3 DEF SlotPhase, Holding, SlotsTyped
  <1>8. QueueSound'
    <2>1. \A m \in Models : \A i \in 1..Len(waiters[m]) : waiters[m][i] \in Files
      BY DEF SlotsTyped
    <2>2. \A h \in Files : phase[h] = "waiting" /\ h # g => phase'[h] = "waiting"
      BY <1>1, <1>3 DEF SlotsTyped
    <2> SUFFICES ASSUME NEW m \in Models
                 PROVE  QueueSound!(m)'
      BY DEF QueueSound
    <2>3. CASE m # n
      <3>1. \A i \in 1..Len(waiters[m]) : waiters[m][i] # g
        BY <1>3, <2>3 DEF QueueSound
      <3> QED BY <1>5, <2>1, <2>2, <2>3, <3>1 DEF QueueSound
    <2>4. CASE m = n
      <3> DEFINE len == Len(waiters[n])
      <3>1. len \in Nat /\ len >= 1 /\ Len(waiters'[n]) = len - 1
        BY <1>2, <1>4, <1>5
      <3>2. \A i \in 1..(len - 1) : /\ i + 1 \in 1..len
                                    /\ waiters'[n][i] = waiters[n][i + 1]
        BY <1>4, <1>5, <3>1
      <3>3. 1 \in 1..len /\ \A i \in 1..(len - 1) : i + 1 # 1
        BY <3>1
      <3>4. \A i, j \in 1..len : waiters[n][i] = waiters[n][j] => i = j
        BY <1>1 DEF QueueSound
      <3>5. \A i \in 1..len : /\ phase[waiters[n][i]] = "waiting"
                              /\ ModelOf[waiters[n][i]] = n
                              /\ waiters[n][i] \in Files
        BY <1>1, <2>1 DEF QueueSound
      <3> HIDE DEF len
      <3>6. \A i \in 1..(len - 1) : waiters[n][i + 1] # g
        BY <1>2, <3>2, <3>3, <3>4
      <3>7. \A i \in 1..(len - 1) : /\ phase'[waiters'[n][i]] = "waiting"
                                    /\ ModelOf[waiters'[n][i]] = n
        BY <2>2, <3>2, <3>5, <3>6
      <3>8. ASSUME NEW i \in 1..(len - 1), NEW j \in 1..(len - 1),
                   waiters'[n][i] = waiters'[n][j]
            PROVE  i = j
        <4>1. waiters[n][i + 1] = waiters[n][j + 1]
          BY <3>2, <3>8
        <4>2. i + 1 = j + 1
          BY <3>2, <3>4, <4>1
        <4> QED BY <3>1, <4>2
      <3>9. 1..Len(waiters'[n]) = 1..(len - 1)
        BY <3>1
      <3> QED BY <2>4, <3>7, <3>8, <3>9
    <2> QED BY <2>3, <2>4
  <1>9. OneGuaranteed'
    <2> SUFFICES ASSUME NEW m \in Models
                 PROVE  OneGuaranteed!(m)'
      BY DEF OneGuaranteed
    <2>1. CASE m = n
      <3>1. f \in SlotHolders("guaranteed") \cap FilesOf(m)
        BY <1>1, <2>1 DEF SlotHolders, FilesOf, n
      <3>2. /\ guaranteedFree[m] = 0
            /\ SlotHolders("guaranteed") \cap FilesOf(m) = {f}
        BY <3>1 DEF OneGuaranteed, SlotHolders
      <3>3. g \in FilesOf(m)
        BY <1>2, <1>3, <2>1 DEF FilesOf
      <3>4. (SlotHolders("guaranteed") \cap FilesOf(m))' = {g}
        <4>1. /\ slot'[f] = "none" /\ slot'[g] = "guaranteed"
              /\ \A h \in Files \ {f, g} : slot'[h] = slot[h]
          BY <1>1, <1>2, <1>3 DEF SlotsTyped
        <4>2. \A h \in FilesOf(m) : slot'[h] = "guaranteed" <=> h = g
          BY <3>2, <4>1 DEF SlotHolders, FilesOf
        <4> QED BY <3>3, <4>2 DEF SlotHolders, FilesOf
      <3>5. guaranteedFree'[m] = 0
        BY <1>1, <3>2
      <3>6. g \in FilesOf(m)'
        BY <3>3 DEF FilesOf
      <3> QED BY <3>4, <3>5, <3>6
    <2>2. CASE m # n
      <3>1. \A h \in FilesOf(m) : slot'[h] = slot[h]
        BY <1>1, <1>3, <2>2 DEF FilesOf, SlotsTyped, n
      <3>2. (SlotHolders("guaranteed") \cap FilesOf(m))'
              = SlotHolders("guaranteed") \cap FilesOf(m)
        BY <3>1 DEF SlotHolders, FilesOf
      <3>3. /\ guaranteedFree'[m] = guaranteedFree[m] /\ waiters'[m] = waiters[m]
            /\ FilesOf(m)' = FilesOf(m)
        BY <1>1, <1>5, <2>2 DEF FilesOf
      <3> QED BY <3>1, <3>2, <3>3 DEF OneGuaranteed
    <2> QED BY <2>1, <2>2
  <1>10. PoolConserved'
    BY <1>1, <1>3, SameHolders DEF SlotsTyped
  <1>11. ActiveCounted'
    BY <1>1, <1>3, SameActive DEF SlotsTyped
  <1> QED BY <1>6, <1>7, <1>8, <1>9, <1>10, <1>11

LEMMA SlotStep == SlotInv /\ [SlotsNext]_slotVars => SlotInv'
  <1> SUFFICES ASSUME SlotInv, [SlotsNext]_slotVars
               PROVE  SlotInv'
    OBVIOUS
  <1>1. CASE UNCHANGED slotVars
    <2>1. SlotsTyped' /\ SlotPhase' /\ QueueSound'
      BY <1>1 DEF SlotInv, slotVars, SlotsTyped, SlotPhase, QueueSound
    <2>2. OneGuaranteed' /\ PoolConserved' /\ ActiveCounted'
      BY <1>1, SameGuaranteed, SameHolders, SameActive DEF SlotInv, slotVars
    <2> QED BY <2>1, <2>2 DEF SlotInv
  <1>2. ASSUME NEW m \in Models, NEW batch \in SUBSET FilesOf(m), StartCycle(m, batch)
        PROVE  SlotInv'
    BY <1>2, StartCycleStep
  <1>3. ASSUME NEW f \in Files, Acquire(f)
        PROVE  SlotInv'
    BY <1>3, TakeGuaranteedStep, TakeSharedStep, WaitStep DEF Acquire
  <1>4. ASSUME NEW f \in Files, Count(f) \/ Finish(f)
        PROVE  SlotInv'
    BY <1>4, CountStep, FinishStep
  <1>5. ASSUME NEW f \in Files, Release(f)
        PROVE  SlotInv'
    BY <1>5, ReleaseToSemaphore, HandOver, ReleaseSharedStep DEF Release
  <1> QED BY <1>1, <1>2, <1>3, <1>4, <1>5 DEF SlotsNext, FileStep

\* The inductive invariant behind every theorem below.
THEOREM SlotInvariant == SlotsSpec => []SlotInv
  BY InitSlots, SlotStep, PTL DEF SlotsSpec

-----------------------------------------------------------------------------
(***************************************************************************)
(* What it implies.                                                        *)
(***************************************************************************)

\* Every reachable state has the types of SlotsTyped; no permit count goes below
\* zero (concurrency.rs, acquire and drop).
THEOREM SlotTypes == SlotsSpec => []SlotsTyped
  BY SlotInvariant, PTL DEF SlotInv

LEMMA Conserved == SlotInv => PermitsConserved
  <1> SUFFICES ASSUME SlotInv, NEW m \in Models
               PROVE  guaranteedFree[m]
                        + Cardinality(SlotHolders("guaranteed") \cap FilesOf(m)) = 1
    BY DEF SlotInv, PoolConserved, PermitsConserved
  <1> USE DEF SlotInv
  <1>1. CASE /\ guaranteedFree[m] = 1
             /\ \A f \in FilesOf(m) : slot[f] # "guaranteed"
    <2>1. SlotHolders("guaranteed") \cap FilesOf(m) = {}
      BY <1>1 DEF SlotHolders
    <2>2. Cardinality(SlotHolders("guaranteed") \cap FilesOf(m)) = 0
      BY <2>1, FS_EmptySet
    <2> QED BY <1>1, <2>2
  <1>2. CASE /\ guaranteedFree[m] = 0
             /\ \E f \in FilesOf(m) : SlotHolders("guaranteed") \cap FilesOf(m) = {f}
    <2>1. Cardinality(SlotHolders("guaranteed") \cap FilesOf(m)) = 1
      BY <1>2, FS_Singleton
    <2> QED BY <1>2, <2>1
  <1> QED BY <1>1, <1>2 DEF OneGuaranteed

\* No permit is lost or made up, whatever the interleaving of acquisitions,
\* hand-overs and releases (concurrency.rs, acquire and drop).
THEOREM PermitsStayConserved == SlotsSpec => []PermitsConserved
  BY SlotInvariant, Conserved, PTL

\* The holders of a guaranteed slot have different models.
LEMMA GuaranteedHolders ==
    ASSUME SlotInv
    PROVE  Cardinality(SlotHolders("guaranteed")) <= NumModels
  <1> DEFINE H == SlotHolders("guaranteed")
             owner == [f \in H |-> ModelOf[f]]
  <1>1. owner \in [H -> Models]
    BY ModelOfAssumption DEF SlotHolders
  <1>2. ASSUME NEW f \in H, NEW g \in H, owner[f] = owner[g]
        PROVE  f = g
    <2>1. ModelOf[f] \in Models /\ ModelOf[f] = ModelOf[g]
      BY <1>2, ModelOfAssumption DEF SlotHolders
    <2>2. f \in H \cap FilesOf(ModelOf[f]) /\ g \in H \cap FilesOf(ModelOf[f])
      BY <2>1 DEF SlotHolders, FilesOf
    <2> QED BY <2>1, <2>2 DEF SlotInv, OneGuaranteed, SlotHolders, FilesOf
  <1>3. owner \in Injection(H, Models)
    BY <1>1, <1>2 DEF Injection, IsInjective
  <1> QED BY <1>3, FS_Injection, FilesAssumption DEF NumModels

LEMMA Counted == SlotInv => ActiveWithinLimit
  <1> SUFFICES ASSUME SlotInv
               PROVE  0 <= active /\ active <= NumModels + SharedPoolSize
    BY DEF ActiveWithinLimit, Limit
  <1> USE DEF SlotInv
  <1> DEFINE G == SlotHolders("guaranteed")
             S == SlotHolders("shared")
  <1>1. active = Cardinality(ActiveFiles) /\ active \in Nat
    BY ActiveFinite DEF ActiveCounted
  <1>2. ActiveFiles \in SUBSET (G \cup S)
    BY DEF ActiveFiles, SlotHolders, SlotPhase, Holding, SlotsTyped
  <1>3. G \cap S = {} /\ Cardinality(G \cap S) = 0
    BY FS_EmptySet DEF SlotHolders
  <1>4. /\ IsFiniteSet(G \cup S)
        /\ Cardinality(G \cup S) = Cardinality(G) + Cardinality(S)
    <2>1. /\ IsFiniteSet(G) /\ Cardinality(G) \in Nat
          /\ IsFiniteSet(S) /\ Cardinality(S) \in Nat
      BY HoldersFinite
    <2>2. /\ IsFiniteSet(G \cup S)
          /\ Cardinality(G \cup S) = Cardinality(G) + Cardinality(S) - Cardinality(G \cap S)
      BY <2>1, FS_Union
    <2> QED BY <1>3, <2>1, <2>2
  <1>5. Cardinality(ActiveFiles) <= Cardinality(G) + Cardinality(S)
    BY <1>2, <1>4, FS_Subset
  <1>6. Cardinality(S) <= SharedPoolSize
    BY PoolSizes, HoldersFinite DEF PoolConserved, SlotsTyped
  <1>7. Cardinality(G) <= NumModels
    BY GuaranteedHolders
  <1> QED BY <1>1, <1>5, <1>6, <1>7, HoldersFinite, PoolSizes

\* The unsigned counter of active downloads never wraps below zero, and it
\* never exceeds one slot per model plus the pool (concurrency.rs, where the
\* guard's drop counts down before it lets its permit go).
THEOREM ActiveStaysWithinLimit == SlotsSpec => []ActiveWithinLimit
  BY SlotInvariant, Counted, PTL

LEMMA OwnModel == SlotInv => WaitsForOwnModel
  <1> SUFFICES ASSUME SlotInv, NEW m \in Models, waiters[m] # <<>>
               PROVE  \E f \in FilesOf(m) : slot[f] = "guaranteed" /\ phase[f] \in Holding
    BY DEF WaitsForOwnModel
  <1>1. PICK f \in FilesOf(m) : SlotHolders("guaranteed") \cap FilesOf(m) = {f}
    BY DEF SlotInv, OneGuaranteed
  <1>2. f \in Files /\ slot[f] = "guaranteed"
    BY <1>1 DEF SlotHolders
  <1> QED BY <1>1, <1>2 DEF SlotInv, SlotPhase

\* A file blocked in acquire waits for a file of its own model, which holds
\* the model's slot: no other model can starve it (concurrency.rs:160-162).
THEOREM NeverWaitsForOthers == SlotsSpec => []WaitsForOwnModel
  BY SlotInvariant, OwnModel, PTL

-----------------------------------------------------------------------------
(***************************************************************************)
(* A model's own limit.  The files in flight, those on a semaphore's queue *)
(* included, are what buffer_unordered counts: only it starts one, and a   *)
(* hand-over wakes a file that is in flight already.                       *)
(***************************************************************************)

FlightLimit == \A m \in Models : Cardinality(InFlight(m)) <= BufferSize(m)

LEMMA BufferType == \A m \in Models : BufferSize(m) \in Nat \ {0}
  BY LimitsAssumption DEF BufferSize, MaxShared, Minus

LEMMA FilesFinite ==
    ASSUME NEW S \in SUBSET Files
    PROVE  IsFiniteSet(S) /\ Cardinality(S) \in Nat
  BY FS_Subset, FS_CardinalityType, FilesAssumption

LEMMA FlightType ==
    \A m \in Models : InFlight(m) \in SUBSET Files /\ InFlight(m)' \in SUBSET Files
  BY DEF InFlight, FilesOf

\* An action that starts no file.
LEMMA NoneStarts ==
    ASSUME FlightLimit,
           \A f \in Files : phase[f] \in {"idle", "queued"} => phase'[f] \in {"idle", "queued"}
    PROVE  FlightLimit'
  <1> SUFFICES ASSUME NEW m \in Models
               PROVE  Cardinality(InFlight(m)') <= BufferSize(m)
    BY DEF FlightLimit, BufferSize, MaxShared
  <1>1. InFlight(m)' \in SUBSET InFlight(m)
    BY DEF InFlight, FilesOf
  <1>2. Cardinality(InFlight(m)') <= Cardinality(InFlight(m))
    BY <1>1, FlightType, FilesFinite, FS_Subset
  <1>3. Cardinality(InFlight(m)) <= BufferSize(m)
    BY DEF FlightLimit
  <1>4. /\ Cardinality(InFlight(m)') \in Nat /\ Cardinality(InFlight(m)) \in Nat
        /\ BufferSize(m) \in Nat
    BY FlightType, FilesFinite, BufferType
  <1> QED BY <1>2, <1>3, <1>4

\* buffer_unordered starts one, when there is room.
LEMMA OneStarts ==
    ASSUME FlightLimit, NEW f \in Files, NextInLine(f),
           \A g \in Files \ {f} : phase'[g] = phase[g]
    PROVE  FlightLimit'
  <1> SUFFICES ASSUME NEW m \in Models
               PROVE  Cardinality(InFlight(m)') <= BufferSize(m)
    BY DEF FlightLimit, BufferSize, MaxShared
  <1>0. /\ IsFiniteSet(InFlight(m)) /\ IsFiniteSet(InFlight(m) \cup {f})
        /\ Cardinality(InFlight(m)) \in Nat /\ Cardinality(InFlight(m)') \in Nat
        /\ BufferSize(m) \in Nat
    BY FlightType, FilesFinite, BufferType
  <1>1. CASE m = ModelOf[f]
    <2>1. f \notin InFlight(m) /\ Cardinality(InFlight(m)) < BufferSize(m)
      BY <1>1 DEF NextInLine, InFlight
    <2>2. InFlight(m)' \in SUBSET (InFlight(m) \cup {f})
      BY DEF InFlight, FilesOf
    <2>3. Cardinality(InFlight(m) \cup {f}) = Cardinality(InFlight(m)) + 1
      BY <1>0, <2>1, FS_AddElement
    <2>4. Cardinality(InFlight(m)') <= Cardinality(InFlight(m) \cup {f})
      BY <1>0, <2>2, FS_Subset
    <2> QED BY <1>0, <2>1, <2>3, <2>4
  <1>2. CASE m # ModelOf[f]
    <2>1. InFlight(m)' = InFlight(m)
      BY <1>2 DEF InFlight, FilesOf
    <2> QED BY <2>1 DEF FlightLimit
  <1> QED BY <1>1, <1>2

LEMMA InitFlight == SlotsInit => FlightLimit
  <1> SUFFICES ASSUME SlotsInit, NEW m \in Models
               PROVE  Cardinality(InFlight(m)) <= BufferSize(m)
    BY DEF FlightLimit
  <1>1. InFlight(m) = {}
    BY DEF SlotsInit, InFlight, FilesOf
  <1> QED BY <1>1, FS_EmptySet, BufferType

LEMMA FlightStep == SlotInv /\ FlightLimit /\ [SlotsNext]_slotVars => FlightLimit'
  <1> SUFFICES ASSUME SlotInv, FlightLimit, [SlotsNext]_slotVars
               PROVE  FlightLimit'
    OBVIOUS
  <1> USE DEF SlotInv
  <1>1. CASE UNCHANGED slotVars
    BY <1>1, NoneStarts DEF slotVars
  <1>2. ASSUME NEW m \in Models, NEW batch \in SUBSET FilesOf(m), StartCycle(m, batch)
        PROVE  FlightLimit'
    BY <1>2, NoneStarts DEF StartCycle
  <1>3. ASSUME NEW f \in Files, Acquire(f)
        PROVE  FlightLimit'
    <2>1. NextInLine(f) /\ \A g \in Files \ {f} : phase'[g] = phase[g]
      BY <1>3 DEF Acquire, TakeGuaranteed, TakeShared, Wait, SlotsTyped
    <2> QED BY <2>1, OneStarts
  <1>4. ASSUME NEW f \in Files, Count(f) \/ Finish(f) \/ ReleaseShared(f)
        PROVE  FlightLimit'
    BY <1>4, NoneStarts DEF Count, Finish, ReleaseShared, SlotsTyped
  <1>5. ASSUME NEW f \in Files, ReleaseGuaranteed(f)
        PROVE  FlightLimit'
    <2> DEFINE g == Head(waiters[ModelOf[f]])
    <2>1. CASE waiters[ModelOf[f]] = <<>>
      BY <1>5, <2>1, NoneStarts DEF ReleaseGuaranteed, SlotsTyped
    <2>2. CASE waiters[ModelOf[f]] # <<>>
      <3>1. ModelOf[f] \in Models /\ waiters[ModelOf[f]] \in Seq(Files)
        BY ModelOfAssumption DEF SlotsTyped
      <3>2. g = waiters[ModelOf[f]][1] /\ 1 \in 1..Len(waiters[ModelOf[f]]) /\ g \in Files
        BY <2>2, <3>1
      <3>3. phase[g] = "waiting"
        BY <3>1, <3>2 DEF QueueSound
      <3>4. phase' = [phase EXCEPT ![f] = "idle", ![g] = "granted"]
        BY <1>5, <2>2 DEF ReleaseGuaranteed
      <3> HIDE DEF g
      <3>5. \A h \in Files : h # g =>
              (phase[h] \in {"idle", "queued"} => phase'[h] \in {"idle", "queued"})
        BY <3>4 DEF SlotsTyped
      <3> QED BY <3>3, <3>5, NoneStarts
    <2> QED BY <2>1, <2>2
  <1> QED BY <1>1, <1>2, <1>3, <1>4, <1>5 DEF SlotsNext, FileStep, Release

\* A model never has more downloads at work than its buffer, so no more than
\* its max_concurrent when that is not zero, however the others use the pool
\* and in whatever order slots are handed over (model_runner.rs, where
\* buffer_unordered starts the downloads, and concurrency.rs, acquire).
THEOREM ModelsKeepTheirLimit == SlotsSpec => []PerModelLimit
  <1>1. SlotInv /\ FlightLimit => PerModelLimit
    <2> SUFFICES ASSUME FlightLimit, NEW m \in Models
                 PROVE  Cardinality({f \in FilesOf(m) : phase[f] \in Holding}) <= BufferSize(m)
      BY DEF PerModelLimit
    <2> DEFINE H == {f \in FilesOf(m) : phase[f] \in Holding}
    <2>1. H \in SUBSET InFlight(m)
      BY DEF InFlight, Holding
    <2>2. /\ IsFiniteSet(InFlight(m)) /\ Cardinality(InFlight(m)) \in Nat
          /\ Cardinality(H) \in Nat /\ BufferSize(m) \in Nat
      BY <2>1, FlightType, FilesFinite, BufferType
    <2>3. Cardinality(H) <= Cardinality(InFlight(m))
      BY <2>1, <2>2, FS_Subset
    <2>4. Cardinality(InFlight(m)) <= BufferSize(m)
      BY DEF FlightLimit
    <2> QED BY <2>2, <2>3, <2>4
  <1> QED BY <1>1, InitFlight, FlightStep, SlotInvariant, PTL DEF SlotsSpec

-----------------------------------------------------------------------------

(***************************************************************************)
(* The strengthening.  The two tasks share the rows without any lock; what *)
(* keeps them apart is which rows each of them works on.                   *)
(***************************************************************************)

\* A runner works on a file without a row, or with a row younger than the
\* minimum age of a retry.
RunnerRows ==
    \A u \in Urls :
        /\ run[u] \in {"queued", "fetching", "copying", "update", "insert"}
             => done[u] = "none"
        /\ run[u] \in {"delete", "post", "await", "mark"} => done[u] \in {"none", "new"}
        /\ run[u] = "unlink" => done[u] \in {"none", "new", "ingested"}

\* The cleanup task works on older rows, which only itself removes.
CleanerRows ==
    /\ \A u \in retry : done[u] \in {"ripe", "stale", "ingested"}
    /\ \A u \in stale : done[u] \in {"stale", "ingested"}
    /\ \A u \in orphans : done[u] = "ingested"
    /\ clean \in {"await", "mark", "unlink"} =>
         cur \in Urls /\ done[cur] \in {"ripe", "stale", "ingested"}
    /\ clean = "forget" => cur \in Urls /\ cur \notin stale
    /\ clean \in {"idle", "forget", "orphans"} => retry = {}
    /\ clean \in {"idle", "orphans"} => stale = {}
    /\ clean # "orphans" => orphans = {}

\* Either task marks, and deletes, only after a success.
MarkedAnswered ==
    /\ \A u \in Urls : run[u] \in {"mark", "unlink"} => answered[u]
    /\ clean \in {"mark", "unlink"} => answered[cur]

LifeInv ==
    /\ TypeOK
    /\ RunnerRows
    /\ CleanerRows
    /\ MarkedAnswered
    /\ IngestedAnswered

LEMMA LifeInit == Init => LifeInv
BY DEF Init, LifeInv, TypeOK, Done, File, RunnerRows, CleanerRows, MarkedAnswered,
       IngestedAnswered

\* The runner, up to the record of the download.
LEMMA RunnerLoadStep ==
    ASSUME LifeInv, NEW u \in Urls,
           \/ Discover(u) \/ Begin(u) \/ Fetched(u) \/ Copied(u) \/ FetchFail(u)
           \/ StatusUpdate(u) \/ StatusInsert(u) \/ StatusDelete(u) \/ StatusFail(u)
    PROVE  LifeInv'
<1> USE DEF LifeInv, TypeOK, Done, File, Pending, RunnerRows, CleanerRows,
            MarkedAnswered, IngestedAnswered, dbVars, runVars, cleanVars, boundVars,
            Fault, Goto
<1>1. CASE Discover(u)
  BY <1>1 DEF Discover
<1>2. CASE Begin(u)
  BY <1>2 DEF Begin
<1>3. CASE Fetched(u)
  BY <1>3 DEF Fetched
<1>4. CASE Copied(u)
  BY <1>4 DEF Copied
<1>5. CASE FetchFail(u)
  BY <1>5 DEF FetchFail
<1>6. CASE StatusUpdate(u)
  BY <1>6 DEF StatusUpdate
<1>7. CASE StatusInsert(u)
  BY <1>7 DEF StatusInsert
<1>8. CASE StatusDelete(u)
  BY <1>8 DEF StatusDelete
<1>9. CASE StatusFail(u)
  BY <1>9 DEF StatusFail
<1>10. QED
  BY <1>1, <1>2, <1>3, <1>4, <1>5, <1>6, <1>7, <1>8, <1>9

\* What a request changes: the catalogue, and answered when it succeeds.
LEMMA SuccessEffect ==
    ASSUME TypeOK, NEW u \in Urls, NEW content, Success(u, content)
    PROVE  /\ answered' = [answered EXCEPT ![u] = TRUE]
           /\ registered' \in [Urls -> SUBSET Datasets]
           /\ faults' \in Nat /\ crashes' \in Nat
<1>1. PICK got \in SUBSET Datasets :
        /\ registered' = [registered EXCEPT ![u] = @ \cup got]
        /\ UNCHANGED boundVars \/ Fault
  BY DEF Success
<1>2. registered' \in [Urls -> SUBSET Datasets]
  BY <1>1 DEF TypeOK
<1>3. faults' \in Nat /\ crashes' \in Nat
  BY <1>1 DEF TypeOK, boundVars, Fault
<1>4. QED
  BY <1>2, <1>3 DEF Success

LEMMA FailureEffect ==
    ASSUME TypeOK, NEW u \in Urls, NEW content, Failure(u, content)
    PROVE  /\ answered' = answered
           /\ registered' \in [Urls -> SUBSET Datasets]
           /\ faults' \in Nat /\ crashes' \in Nat
<1>1. PICK got \in SUBSET Datasets : registered' = [registered EXCEPT ![u] = @ \cup got]
  BY DEF Failure
<1>2. registered' \in [Urls -> SUBSET Datasets]
  BY <1>1 DEF TypeOK
<1>3. faults' \in Nat /\ crashes' \in Nat
  BY DEF Failure, TypeOK, boundVars, Fault
<1>4. QED
  BY <1>2, <1>3 DEF Failure

\* The runner's request and what follows it.
LEMMA RunnerIngestStep ==
    ASSUME LifeInv, NEW u \in Urls,
           Post(u) \/ Answer(u) \/ Mark(u) \/ Unlink(u) \/ Age(u)
    PROVE  LifeInv'
<1> USE DEF LifeInv, TypeOK, Done, File, Pending, RunnerRows, CleanerRows,
            MarkedAnswered, IngestedAnswered, dbVars, runVars, cleanVars, boundVars,
            Fault, Goto
<1>1. CASE Post(u)
  BY <1>1 DEF Post
<1>2. CASE Answer(u)
  <2>1. CASE Success(u, sent[u]) /\ Goto(u, "mark")
    <3>1. /\ answered' = [answered EXCEPT ![u] = TRUE]
          /\ registered' \in [Urls -> SUBSET Datasets]
          /\ faults' \in Nat /\ crashes' \in Nat
      BY <2>1, SuccessEffect
    <3>2. QED
      BY <1>2, <2>1, <3>1 DEF Answer
  <2>2. CASE Failure(u, sent[u]) /\ Goto(u, "idle")
    BY <1>2, <2>2, FailureEffect DEF Answer
  <2>3. QED
    BY <1>2, <2>1, <2>2 DEF Answer
<1>3. CASE Mark(u)
  BY <1>3 DEF Mark
<1>4. CASE Unlink(u)
  BY <1>4 DEF Unlink
<1>5. CASE Age(u)
  BY <1>5 DEF Age
<1>6. QED
  BY <1>1, <1>2, <1>3, <1>4, <1>5

\* The cleanup task's retries.
LEMMA CleanerRetryStep ==
    ASSUME LifeInv,
           CleanRead \/ (\E u \in Urls : CleanPost(u)) \/ CleanAnswer \/ CleanMark \/ CleanUnlink
    PROVE  LifeInv'
<1> USE DEF LifeInv, TypeOK, Done, File, Pending, RunnerRows, CleanerRows,
            MarkedAnswered, IngestedAnswered, dbVars, runVars, cleanVars, boundVars,
            Fault, Goto
<1>1. CASE CleanRead
  BY <1>1 DEF CleanRead
<1>2. ASSUME NEW u \in Urls, CleanPost(u)
      PROVE  LifeInv'
  BY <1>2 DEF CleanPost
<1>3. CASE CleanAnswer
  <2>0. clean = "await" /\ cur \in Urls
    BY <1>3 DEF CleanAnswer
  <2>1. CASE Success(cur, csent) /\ clean' = "mark" /\ cur' = cur
    <3>1. /\ answered' = [answered EXCEPT ![cur] = TRUE]
          /\ registered' \in [Urls -> SUBSET Datasets]
          /\ faults' \in Nat /\ crashes' \in Nat
      BY <2>0, <2>1, SuccessEffect
    <3>2. QED
      BY <1>3, <2>0, <2>1, <3>1 DEF CleanAnswer
  <2>2. CASE Failure(cur, csent) /\ clean' = "pending" /\ cur' = None
    BY <1>3, <2>0, <2>2, FailureEffect DEF CleanAnswer
  <2>3. QED
    BY <1>3, <2>1, <2>2 DEF CleanAnswer
<1>4. CASE CleanMark
  BY <1>4 DEF CleanMark
<1>5. CASE CleanUnlink
  BY <1>5 DEF CleanUnlink
<1>6. QED
  BY <1>1, <1>2, <1>3, <1>4, <1>5

\* The cleanup task's deletions.
LEMMA CleanerSweepStep ==
    ASSUME LifeInv,
           (\E u \in Urls : CleanStale(u) \/ CleanOrphan(u)) \/ CleanForget
             \/ CleanSweep \/ CleanEnd
    PROVE  LifeInv'
<1> USE DEF LifeInv, TypeOK, Done, File, Pending, RunnerRows, CleanerRows,
            MarkedAnswered, IngestedAnswered, dbVars, runVars, cleanVars, boundVars,
            Fault, Goto
<1>1. ASSUME NEW u \in Urls, CleanStale(u)
      PROVE  LifeInv'
  BY <1>1 DEF CleanStale
<1>2. CASE CleanForget
  BY <1>2 DEF CleanForget
<1>3. CASE CleanSweep
  BY <1>3 DEF CleanSweep
<1>4. ASSUME NEW u \in Urls, CleanOrphan(u)
      PROVE  LifeInv'
  BY <1>4 DEF CleanOrphan
<1>5. CASE CleanEnd
  BY <1>5 DEF CleanEnd
<1>6. QED
  BY <1>1, <1>2, <1>3, <1>4, <1>5

\* A crash forgets both tasks; the rows say what was answered.
LEMMA CrashStep ==
    ASSUME LifeInv, Crash
    PROVE  LifeInv'
BY DEF LifeInv, TypeOK, Done, File, RunnerRows, CleanerRows, MarkedAnswered,
       IngestedAnswered, dbVars, Crash

LEMMA StutterStep ==
    ASSUME LifeInv, UNCHANGED vars
    PROVE  LifeInv'
BY DEF LifeInv, TypeOK, Done, File, RunnerRows, CleanerRows, MarkedAnswered,
       IngestedAnswered, vars, dbVars, runVars, cleanVars, boundVars

LEMMA LifeNext == LifeInv /\ [Next]_vars => LifeInv'
<1> SUFFICES ASSUME LifeInv, [Next]_vars
             PROVE  LifeInv'
  OBVIOUS
<1>1. ASSUME NEW u \in Urls, RunStep(u) \/ FetchFail(u) \/ StatusFail(u) \/ Age(u)
      PROVE  LifeInv'
  BY <1>1, RunnerLoadStep, RunnerIngestStep DEF RunStep
<1>2. CASE CleanStep
  BY <1>2, CleanerRetryStep, CleanerSweepStep DEF CleanStep
<1>3. QED
  BY <1>1, <1>2, CrashStep, StutterStep DEF Next

-----------------------------------------------------------------------------
\* The two tasks keep to their rows, after any failed calls and crashes.
THEOREM LifeInvariant == Spec => []LifeInv
<1>1. Init => LifeInv
  BY LifeInit
<1>2. LifeInv /\ [Next]_vars => LifeInv'
  BY LifeNext
<1>3. QED
  BY <1>1, <1>2, PTL DEF Spec

\* The variables keep their types.
THEOREM LifeTypes == Spec => []TypeOK
<1>1. LifeInv => TypeOK
  BY DEF LifeInv
<1>2. QED
  BY <1>1, LifeInvariant, PTL

\* What either task marks as ingested was answered with a success.
THEOREM MarkedWasAnswered == Spec => []IngestedAnswered
<1>1. LifeInv => IngestedAnswered
  BY DEF LifeInv
<1>2. QED
  BY <1>1, LifeInvariant, PTL

\* The two tasks never have the same file ingested at once.
THEOREM NeverTwice == Spec => []SingleRequest
<1>1. LifeInv => SingleRequest
  BY DEF LifeInv, RunnerRows, CleanerRows, SingleRequest
<1>2. QED
  BY <1>1, LifeInvariant, PTL

(***************************************************************************)
(* Deletions.  Only four actions remove a file; each finds in the          *)
(* invariant that the file was answered for or given up.                   *)
(***************************************************************************)

\* No other action of the runner removes a file.
LEMMA RunnerKeeps ==
    ASSUME LifeInv, NEW u \in Urls, NEW v \in Urls,
           RunStep(u) \/ FetchFail(u) \/ StatusFail(u) \/ Age(u),
           file[v] # "none", file'[v] = "none"
    PROVE  answered[v]
<1> USE DEF LifeInv, TypeOK, File
<1>1. Unlink(u) /\ v = u
  BY DEF RunStep, Discover, Begin, Fetched, Copied, StatusUpdate, StatusInsert,
         StatusDelete, Post, Answer, Mark, Unlink, FetchFail, StatusFail, Age
<1>2. QED
  BY <1>1 DEF Unlink, MarkedAnswered

LEMMA CleanerKeeps ==
    ASSUME LifeInv, NEW v \in Urls, CleanStep, file[v] # "none", file'[v] = "none"
    PROVE  answered[v] \/ done[v] = "stale"
<1> USE DEF LifeInv, TypeOK, File
<1>1. \/ CleanUnlink /\ v = cur
      \/ CleanStale(v)
      \/ CleanOrphan(v)
  BY DEF CleanStep, CleanRead, CleanPost, CleanAnswer, CleanMark, CleanUnlink,
         CleanStale, CleanForget, CleanSweep, CleanOrphan, CleanEnd
<1>2. QED
  BY <1>1 DEF CleanUnlink, CleanStale, CleanOrphan, MarkedAnswered, CleanerRows,
              IngestedAnswered

\* Neither task deletes a file that still has to be ingested.
THEOREM SourceStaysKept == Spec => SourceKept
<1>1. LifeInv /\ [Next]_vars =>
        [\A u \in Urls : file[u] # "none" /\ file'[u] = "none" =>
           answered[u] \/ done[u] = "stale"]_vars
  <2>1. SUFFICES ASSUME LifeInv, Next, NEW v \in Urls,
                        file[v] # "none", file'[v] = "none"
                 PROVE  answered[v] \/ done[v] = "stale"
    BY DEF vars
  <2>2. CASE Crash
    BY <2>1, <2>2 DEF Crash
  <2>3. QED
    BY <2>1, <2>2, RunnerKeeps, CleanerKeeps DEF Next
<1>2. QED
  BY <1>1, LifeInvariant, PTL DEF Spec, SourceKept
=============================================================================
