----------------------------- MODULE MCTileServing -----------------------------
(***************************************************************************)
(* An instance of TileServing for TLC: two neighbouring tiles that do not   *)
(* fit into L1 together with a third of their size.                         *)
(***************************************************************************)
EXTENDS TileServing, TLC

CONSTANTS t1, t2

MCTiles == {t1, t2}
MCSize == t1 :> 1 @@ t2 :> 2
MCNeighbours == t1 :> {t2} @@ t2 :> {t1}

Symmetry == Permutations(Requests) \cup Permutations(Helpers)
=============================================================================
