----------------------------- MODULE MCTellWait -----------------------------
\* 14_tell_wait, 02_deadlock and 04_mandatory; TellWait has no constants.
EXTENDS TellWait
=============================================================================
