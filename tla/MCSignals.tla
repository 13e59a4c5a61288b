----------------------------- MODULE MCSignals ------------------------------
\* One of the programs of 10.signals and the signals it may get.
EXTENDS Signals
=============================================================================
