------------------------------ MODULE MCFlatLRU -----------------------------
(* Small caches with more keys than entries: every mix of eviction,           *)
(* invalidation and reuse of slots                                            *)
EXTENDS FlatLRU
FourKeys == 0..3
ThreeKeys == 0..2
=============================================================================
