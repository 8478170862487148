---------------------------- MODULE MCBlockCache ----------------------------
(***************************************************************************)
(* The block cache on a device with one sector more than the cache has     *)
(* entries, with plausible faults of cache.c and sync.c for each property. *)
(***************************************************************************)
EXTENDS BlockCache, TLC

SectorsAndValuesAlike == Permutations(Sector) \cup Permutations(Value)
=============================================================================
