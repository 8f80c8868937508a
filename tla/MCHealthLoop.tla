----------------------------- MODULE MCHealthLoop -----------------------------
\* HealthLoop for TLC: two delays of the back-off.
EXTENDS HealthLoop, TLC

MCBackoff == <<2, 3>>

=============================================================================
