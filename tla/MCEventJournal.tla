--------------------------- MODULE MCEventJournal ---------------------------
\* Two keys, one task and two failures; keys and failures are interchangeable.
EXTENDS EventJournal, TLC

Symmetry == Permutations(Ids) \cup Permutations(Failures)
=============================================================================
