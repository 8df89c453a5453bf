--------------------------- MODULE MCProductFactory ---------------------------
(* Two run ids and two specifications of one product, one of them with a    *)
(* capability of its own.  The stages between the first and the last are    *)
(* alike but for what they count, so one of them is taken.                  *)
EXTENDS ProductFactory, TLC

CONSTANTS first, second, plain, special, extra, shared

Symmetry == Permutations({first, second})

MCStageOrder == <<"SPEC", "SECURITY", "ACCEPT">>
MCRequested == [s \in Specs |-> IF s = special THEN {extra, shared} ELSE {shared}]
=============================================================================
