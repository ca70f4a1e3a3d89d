------------------------ MODULE MCDownloadLifecycle ------------------------
(***************************************************************************)
(* Instances of DownloadLifecycle for TLC: one GFS file and one NLDAS file. *)
(***************************************************************************)
EXTENDS DownloadLifecycle

BothPaths == {"gfs", "nldas"}
OnlyNldas == {"nldas"}
=============================================================================
