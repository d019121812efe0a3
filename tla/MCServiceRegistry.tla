-------------------------- MODULE MCServiceRegistry --------------------------
EXTENDS ServiceRegistry, TLC

CONSTANTS n1, n2, e1, e2, bad

MCNames == {n1, n2}
MCInsts == {1, 2}
MCEndpoints == {e1, e2}
MCFds == {3, 4, 5}

Symmetry == Permutations({n1, n2}) \cup Permutations({e1, e2})
==============================================================================
