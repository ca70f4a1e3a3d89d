-------------------------- MODULE MCObservationFeeds ---------------------------
(***************************************************************************)
(* An instance of ObservationFeeds for TLC: one observation feed and TAFs   *)
(* for two airports.  The second report is an amendment of the first, and   *)
(* each feed has one report that the tables refuse.                         *)
(***************************************************************************)
EXTENDS ObservationFeeds, TLC

CONSTANTS s1, s2, metar, taf

MCStations == {s1, s2}
MCIssueOf == <<1, 1, 2>>
MCNumReports == metar :> (s1 :> 2 @@ s2 :> 1) @@ taf :> (s1 :> 3 @@ s2 :> 1)
MCRejected == {<<metar, s1, 1>>, <<taf, s2, 1>>}
================================================================================
