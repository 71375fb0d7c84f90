---------------------------- MODULE MCObjectPool ----------------------------
EXTENDS ObjectPool, TLC

Symmetry == Permutations(Address)

\* A size_t of 4 bits and an int of 3: the table holds the integers -1, 0, 1.
MinInt3 == -4
=============================================================================
