-------------------------- MODULE MCAlertEvaluator --------------------------
\* One rule on one node, with two rows for its alerts.  Keys share nothing but
\* the evaluation loop and the table.
EXTENDS AlertEvaluator
CONSTANTS k1, a1, a2

OneKey == {k1}
TwoIds == {a1, a2}
NoFaults == {}
WriteFaults == {"create", "update"}
=============================================================================
