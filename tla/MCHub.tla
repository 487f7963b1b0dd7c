------------------------------- MODULE MCHub -------------------------------
\* One server whose agent keeps reconnecting, and commands sent to it.
EXTENDS Hub, TLC
CONSTANTS srv1, s1, s2, s3, c1, c2

OneServer == {srv1}
ThreeSessions == {s1, s2, s3}
TwoSessions == {s1, s2}
OneCmd == {c1}
TwoCmds == {c1, c2}
NoCmds == {}
AllOnServer == [s \in Sessions |-> srv1]
AllToServer == [c \in Cmds |-> srv1]

\* Sessions of one server are interchangeable, and so are commands sent to it.
SessionSymmetry == Permutations(Sessions) \cup Permutations(Cmds)

\* Two servers, one command for each.
CONSTANT srv2
TwoServers == {srv1, srv2}
SplitSessions == [s \in Sessions |-> IF s = s3 THEN srv2 ELSE srv1]
SplitCmds == [c \in Cmds |-> IF c = c2 THEN srv2 ELSE srv1]
=============================================================================
