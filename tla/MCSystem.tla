------------------------------ MODULE MCSystem ------------------------------
\* Both versions of system(), with keys pressed at the terminal.
EXTENDS System
=============================================================================
