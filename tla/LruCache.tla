-------------------------------- MODULE LruCache --------------------------------
(***************************************************************************)
(* What the caches in memory have in common: keys whose values have a size, *)
(* and a list of keys in the order of their last use, as the lru crate      *)
(* keeps it.                                                                *)
(***************************************************************************)
EXTENDS Naturals, Sequences, FiniteSets, SequencesExt

CONSTANTS
    Keys,       \* what a value is cached under
    Size        \* bytes of the value of a key

ASSUME KeysAssumption == IsFiniteSet(Keys) /\ Size \in [Keys -> Nat]

\* The bytes of the values of S: as many as there are places in them.
Bytes(S) == Cardinality(UNION {{k} \X (1..Size[k]) : k \in S})

\* The first n keys of a list: the n least recently used.
First(s, n) == {s[i] : i \in 1..n}

Without(s, k) ==
    IF k \in ToSet(s) THEN RemoveAt(s, CHOOSE i \in 1..Len(s) : s[i] = k) ELSE s

\* A key that is used moves to the end of the list.
Used(s, k) == Append(Without(s, k), k)
=============================================================================
