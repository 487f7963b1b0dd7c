----------------------------- MODULE MCNodeHost -----------------------------
EXTENDS NodeHost, TLC
CONSTANTS n1, n2, j1, j2, j3, v0, v1

OneNode == {n1}
TwoNodes == {n1, n2}
TwoJobs == {j1, j2}
ThreeJobs == {j1, j2, j3}
TwoTags == {v0, v1}
Symmetry == Permutations(Jobs)
=============================================================================
