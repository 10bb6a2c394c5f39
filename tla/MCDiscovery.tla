---------------------------- MODULE MCDiscovery ----------------------------
(***************************************************************************)
(* Instances of Discovery: two entries that can exchange two prefixes.     *)
(***************************************************************************)
EXTENDS Discovery, TLC

CONSTANTS e1, e2, p1, p2

MCEntries  == {e1, e2}
OneEntry   == {e1}
MCPrefixes == {p1, p2}

\* Entries and prefixes are interchangeable.
Symmetry == Permutations(MCEntries) \cup Permutations(MCPrefixes)
=============================================================================
