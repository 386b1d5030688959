--------------------------- MODULE MCCacheManager ---------------------------
EXTENDS CacheManager

CONSTANTS b1, b2, b3, b4, m1, m2, r1, r2

\* b4 is larger than the gpu tier, b3 fills the cpu tier.
MCSize == b1 :> 1 @@ b2 :> 1 @@ b3 :> 2 @@ b4 :> 3
MCModelOf == b1 :> m1 @@ b2 :> m1 @@ b3 :> m2 @@ b4 :> m2
MCRequestOf == b1 :> r1 @@ b2 :> r2 @@ b3 :> r2 @@ b4 :> r1
MCCapacity == <<2, 2, 4>>
==============================================================================
