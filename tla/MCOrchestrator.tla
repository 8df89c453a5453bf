--------------------------- MODULE MCOrchestrator ---------------------------
(* Two roots: a coding task, and a task that depends on it, cannot be       *)
(* restarted, needs a model and declares no scopes.  MaxDepth levels of     *)
(* repair tasks, for every attempt that can be granted one.                 *)
EXTENDS Orchestrator, TLC

CONSTANTS first, second, s1, repo, MaxDepth

MCRoots == {first, second}

RepairsAt(S) ==
  {RepairKey(t, n, h) : t \in S, n \in 1..(MaxAttempts - 1), h \in Headlines}

Level[d \in 0..MaxDepth] == IF d = 0 THEN MCRoots ELSE RepairsAt(Level[d - 1])

MCTasks == UNION {Level[d] : d \in 0..MaxDepth}

MCScopesOf == [t \in Tasks |-> ScopesFor(t)]
MCDependsOn == [t \in MCRoots |-> IF t = second THEN {first} ELSE {}]
MCDeclared == [t \in MCRoots |-> IF t = first THEN {s1} ELSE {}]
MCHeadlineOf == [f \in Failures |-> f]

Symmetry == Permutations(Failures)
=============================================================================
