---------------------------- MODULE MCNodeFiles ----------------------------
EXTENDS NodeFiles, TLC
CONSTANTS j1, j2, j3, r1, r2, set0, set1, k1, k2

ThreeJobs == {j1, j2, j3}
TwoReleases == {r1, r2}
TwoSettings == {set0, set1}
TwoKeys == {k1, k2}

\* Commands are alike; so are releases, keys and jobs among themselves.
Alike == Permutations(ThreeJobs) \cup Permutations(TwoReleases) \cup Permutations(TwoKeys)
=============================================================================
