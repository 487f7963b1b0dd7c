------------------------------ MODULE MCAccess ------------------------------
EXTENDS Access
CONSTANTS r1, r2, t1, p1, p2, k1, k2, a1

TwoReqs == {r1, r2}
OneToken == {t1}
TwoPasswords == {p1, p2}
TwoPasskeys == {k1, k2}
OneAddress == {a1}
=============================================================================
