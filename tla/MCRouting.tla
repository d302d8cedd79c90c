----------------------------- MODULE MCRouting ------------------------------
EXTENDS Routing

CONSTANTS a, b, w1, w2, w3

\* Two texts that part after their first character; the rest of the longer one then reads
\* like the shorter one.
TwoTexts == {<<a, b>>, <<a, a, b>>}

ThreeServers == <<w1, w2, w3>>
FourKeys == 0..3
\* A worker with virtual nodes on both sides of another's, and all workers side by side.
TwoPlaces == {w1 :> {0, 2} @@ w2 :> {1} @@ w3 :> {3},
              w1 :> {0} @@ w2 :> {1} @@ w3 :> {2}}
AllPolicies == {"random", "round_robin", "power_of_two", "consistent_hashing", "prefix_hash",
                "manual", "bucket", "cache_aware"}
ThreeFleets == {{w1}, {w2, w3}, {w1, w2, w3}}
=============================================================================
