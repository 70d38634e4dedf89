------------------------- MODULE MCWallboardPoller -------------------------
(* Two browsers, two sets of credentials, two polling intervals.             *)
EXTENDS WallboardPoller

CONSTANTS c1, c2, k1, k2, m1, m2
=============================================================================
