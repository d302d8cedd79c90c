------------------------- MODULE MCServiceDiscovery -------------------------
(* Without discovery, a startup job with two children beside a removal by the admin API, *)
(* on two urls; with it, one pod that comes, goes and comes back, beside the same removal. *)
EXTENDS ServiceDiscovery

CONSTANTS s, a, b, x, d1, d2, r1, pod1, startup, u1, u2

KeyOf == [j \in {s, a, b, x, d1, d2, r1} |-> IF j = s THEN startup ELSE IF j = b THEN u2 ELSE u1]
ChildrenOf == [j \in {s, a, b, x, d1, d2, r1} |-> IF j = s THEN <<a, b>> ELSE <<>>]
UrlOf == [q \in {pod1} |-> u1]
=============================================================================
