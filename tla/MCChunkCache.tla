---------------------------- MODULE MCChunkCache ----------------------------
(***************************************************************************)
(* Instances of ChunkCache for TLC: two arrays, one of two chunks of        *)
(* different size, a cache whose limit and capacity both bite, two readers. *)
(***************************************************************************)
EXTENDS ChunkCache, TLC

CONSTANTS c1, c2, c3, zarrA, zarrB

MCChunks == {c1, c2, c3}
MCPaths == {zarrA, zarrB}
MCPathOf == c1 :> zarrA @@ c2 :> zarrA @@ c3 :> zarrB
MCSize == c1 :> 1 @@ c2 :> 3 @@ c3 :> 1

Symmetry == Permutations(Readers)
=============================================================================
