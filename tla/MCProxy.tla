------------------------------ MODULE MCProxy ------------------------------
(* TLC instances of Proxy.                                                  *)
EXTENDS ProxyCalls, TLC

\* Sessions, calls and vendor connections are interchangeable.
Symmetry == Permutations(Sessions) \cup Permutations(Calls) \cup Permutations(Clouds)

ValveOps == {"open", "closed"}
PlainOps == {"other"}
MixedOps == {"closed", "other"}
CloseOnly == {"closed"}
CallerOps == {"open", "closed", "snapshot"}
OpenOnly == {"open"}
NoOps == {}
=============================================================================
