------------------------------ MODULE MCDaemon ------------------------------
(* Two launches of any two of the daemons of 13.deamons. *)
EXTENDS Daemon, TLC

CONSTANTS p1, p2

MCProc == {p1, p2}

\* Two signals to one launch, so that they race; one to the other launch, so that
\* it can end at any point of its start.
MCSignals == (p1 :> 2) @@ (p2 :> 1)
=============================================================================
