---------------------------- MODULE MCModelPool ----------------------------
EXTENDS ModelPool

\* No definition tells two models or two callers apart.
PoolSymmetry == Permutations(Models) \cup Permutations(Callers)
=============================================================================
