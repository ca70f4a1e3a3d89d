-------------------------- MODULE MCDownloadSlots --------------------------
(***************************************************************************)
(* Instances of DownloadSlots for TLC.  A file is named by its model and   *)
(* its rank.                                                               *)
(***************************************************************************)
EXTENDS DownloadSlots

MCModels == {"gfs", "mrms"}
MCModelOf == [f \in Files |-> f[1]]
MCRank == [f \in Files |-> f[2]]
\* gfs may have two files in flight, mrms three: mrms can empty a pool of two.
MCMaxConcurrent == [m \in Models |-> IF m = "gfs" THEN 2 ELSE 3]

ThreeEach == {<<m, r>> : m \in MCModels, r \in 1..3}
=============================================================================
