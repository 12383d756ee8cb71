--------------------------- MODULE MCTokenCache ---------------------------
(***************************************************************************)
(* Small instance of TokenCache, for both caches.  Of the two stated lives *)
(* one is shorter than the skew and one longer; the delay is longer than   *)
(* the skew, so a token may have expired when it is handed out.            *)
(***************************************************************************)
EXTENDS TokenCache, TLC

CONSTANTS p1, p2, g1, g2

Symmetry == Permutations(Calls)
=============================================================================
