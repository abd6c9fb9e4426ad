------------------------- MODULE MCCacheStoreHistory -------------------------
(* Small instances of CacheStoreHistory for TLC. *)
EXTENDS CacheStoreHistory, TLC

CONSTANTS k1, k2, kLong, s1, s2, big

MCSymmetry == Permutations({s1, s2}) \cup Permutations({k1, k2})
=============================================================================
