----------------------------- MODULE MCRuntime ------------------------------
(* TLC instances of Runtime.                                                *)
EXTENDS Runtime

CONSTANTS c1, c2

TwoCallers == {c1, c2}
OneCaller  == {c1}

\* Set at counters 0, 1 and 2 it gives the offsets 1, 0 and -1.
OneReading == {1}
=============================================================================
