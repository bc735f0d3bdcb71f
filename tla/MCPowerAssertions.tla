------------------------ MODULE MCPowerAssertions ------------------------
EXTENDS PowerAssertions, TLC

CONSTANTS a, b, d, one, two, p1, p2

\* Who calls Release first, and which PID is handed out first, are all the same.
Symmetry == Permutations({one, two}) \cup Permutations({p1, p2})
=============================================================================
