-------------------------------- MODULE MCIpc -------------------------------
\* Every pair of programs, started and killed in any order.
EXTENDS Ipc
=============================================================================
