----------------------------- MODULE MCGridReads -----------------------------
(***************************************************************************)
(* Instances of GridReads for TLC.                                          *)
(***************************************************************************)
EXTENDS GridReads

Box(w, s, e, n) == [minLon |-> w, minLat |-> s, maxLon |-> e, maxLat |-> n]

\* A grid that goes round, in longitudes from 0 to 360, with three levels; one
\* beyond 180 degrees; one in the western hemisphere; a projected one; and one
\* that goes west beyond the date line and is read whole.
Global == [box |-> Box(0, -12, 30, 12), shape |-> <<6, 4>>, chunk |-> <<4, 3>>,
           origin |-> "north", projected |-> FALSE, full |-> FALSE, missing |-> {<<2, 1>>}]
Pacific == [box |-> Box(10, -6, 30, 6), shape |-> <<5, 3>>, chunk |-> <<2, 2>>,
            origin |-> "north", projected |-> FALSE, full |-> FALSE, missing |-> {}]
West == [box |-> Box(-16, -6, 4, 6), shape |-> <<5, 3>>, chunk |-> <<4, 5>>,
         origin |-> "north", projected |-> FALSE, full |-> FALSE, missing |-> {}]
Lambert == [box |-> Box(-16, -6, 4, 6), shape |-> <<5, 3>>, chunk |-> <<2, 2>>,
            origin |-> "south", projected |-> TRUE, full |-> TRUE, missing |-> {<<4, 2>>}]
Goes == [box |-> Box(-22, -6, -6, 6), shape |-> <<4, 3>>, chunk |-> <<3, 2>>,
         origin |-> "north", projected |-> FALSE, full |-> TRUE, missing |-> {}]

MCGrids == {Global, Pacific, West, Lambert, Goes}

Lons == {-18, -13, -10, -6, -1, 0, 4, 7, 10, 15, 18, 23, 25, 30, 36}
Lats == {-12, -5, 0, 6, 12}

MCBoxes == {Box(b[1], b[2], b[3], b[4]) :
               b \in {b \in Lons \X Lats \X Lons \X Lats :
                         b[1] < b[3] /\ b[2] < b[4] /\ b[3] - b[1] <= Circle}}
MCSizes == {<<1, 1>>, <<2, 1>>, <<3, 2>>, <<7, 3>>}
MCPoints == (-18 .. 36) \X (-12 .. 12)
=============================================================================
