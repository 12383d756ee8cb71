---------------------------- MODULE MCDiscovery ----------------------------
(* Discovery by two overlapping calls, while the agent replaces its card. *)
EXTENDS Discovery, TLC

CONSTANTS c1, c2

MCHeader(lifetime, seconds, age, restrictive) ==
  [lifetime |-> lifetime, seconds |-> seconds, age |-> age,
   noStore |-> restrictive, noCache |-> restrictive]

\* One answer per branch of cacheMetadata, and the usual headers of a response that
\* is not to be cached.
MCHeaders ==
  {MCHeader("maxAge", MaxAge, 0, FALSE),
   MCHeader("maxAge", MaxAge, MaxAge, FALSE),
   MCHeader("expires", MaxAge, 0, FALSE),
   MCHeader("none", 0, 0, FALSE),
   MCHeader("maxAge", 0, MaxAge, TRUE)}

\* c1 has a trust store that verifies the second version; c2 has none.
MCTrusted == (c1 :> {2}) @@ (c2 :> {})
=============================================================================
