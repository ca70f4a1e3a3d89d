--------------------------- MODULE MCDatasetStore ---------------------------
(***************************************************************************)
(* Instances of DatasetStore for TLC.  A dataset is named by its model, its *)
(* reference time and its number within the run.                           *)
(***************************************************************************)
EXTENDS DatasetStore, TLC

MCModels == {"hrrr", "viirs"}
MCStatic == {"viirs"}
MCModelOf == [d \in Datasets |-> d[1]]
MCTimeOf == [d \in Datasets |-> d[2]]
MCKeepLatest == [m \in Models |-> 1]
KeepNone == [m \in Models |-> 0]
MCRetention == [m \in Models |-> 0]

\* Three forecast runs.
ThreeRuns == {<<"hrrr", 0, 1>>, <<"hrrr", 1, 1>>, <<"hrrr", 2, 1>>}
\* A forecast run and a static layer.
RunAndLayer == {<<"hrrr", 0, 1>>, <<"viirs", 0, 1>>}

\* Requests are alike, and so are instances.
Symmetry == Permutations(Ingesters) \cup Permutations(Cleaners)
=============================================================================
