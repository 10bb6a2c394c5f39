SPECIFICATION Spec
CONSTANTS
    e1 = e1
    e2 = e2
    p1 = p1
    p2 = p2
    Entries <- MCEntries
    Prefixes <- MCPrefixes
    Sweeper = sweeper
    None = none
    MaxChanges = 2
    MaxLate = 1
    MaxRestarts = 0
SYMMETRY Symmetry
INVARIANTS
    OnlyObsoleteRetired
