------------------------------ MODULE MCFleet ------------------------------
EXTENDS Fleet
CONSTANTS c1, c2, i1, i2, i3, r1, s1, s2, v0, v1

OneContainer == {c1}
TwoContainers == {c1, c2}
TwoIds == {i1, i2}
ThreeIds == {i1, i2, i3}
OneReq == {r1}
OneSession == {s1}
TwoSessions == {s1, s2}
TwoTags == {v0, v1}
=============================================================================
