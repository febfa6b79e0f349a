--------------------------- MODULE MCCacheClients ---------------------------
(* Instance of CacheClients for TLC.                                       *)
EXTENDS CacheClients, TLC

MCTtls == {0, 1}
Symmetry == Permutations(Keys)
=============================================================================
