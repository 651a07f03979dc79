----------------------------- MODULE MCHashMap -----------------------------
(* Four key pointers to three keys; growth from 2 to 8 buckets.              *)
EXTENDS HashMap, TLC

CONSTANTS p1, p2, p3, p4, k1, k2, k3

MCPtrs == {p1, p2, p3, p4}
MCKeys == {k1, k2, k3}

\* p3 and p4 point to equal keys.
MCKeyOf == p1 :> k1 @@ p2 :> k2 @@ p3 :> k3 @@ p4 :> k3

\* k1 and k2 have the same hash, and the probe of the second of them wraps
\* around to bucket 0, where k3 belongs, in a table of any size.
MCHash == k1 :> 7 @@ k2 :> 7 @@ k3 :> 0
=============================================================================
