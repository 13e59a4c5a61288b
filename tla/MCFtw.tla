------------------------------- MODULE MCFtw --------------------------------
\* All trees of four entries.
EXTENDS Ftw
=============================================================================
