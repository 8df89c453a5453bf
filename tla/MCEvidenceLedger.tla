--------------------------- MODULE MCEvidenceLedger ---------------------------
(* Two shards, two bundles and two reports each, two commits.  No value is *)
(* named in the module, so each of these sets is symmetric.                *)
EXTENDS EvidenceLedger, TLC

CONSTANTS left, right, m1, m2, r1, r2, c1, c2

Symmetry ==
  Permutations({left, right}) \cup Permutations({m1, m2}) \cup Permutations({r1, r2})
    \cup Permutations({c1, c2})
=============================================================================
