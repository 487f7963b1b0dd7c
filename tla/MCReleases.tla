----------------------------- MODULE MCReleases -----------------------------
EXTENDS Releases
CONSTANTS s1, q1, q2, v1, v2, b0, b1, no

OneServer == {s1}
TwoReqs == {q1, q2}
TwoVersions == {v1, v2}
TwoBuilds == {b0, b1}
Interchangeable == Permutations(TwoReqs)
OldBuild == {b0}
NewTag == {v2}
OneStored == (v1 :> b1) @@ (v2 :> no)
=============================================================================
