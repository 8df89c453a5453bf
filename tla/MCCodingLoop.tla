---------------------------- MODULE MCCodingLoop ----------------------------
(* One coding task and the repairs it may need, in one repository.          *)
EXTENDS CodingLoop

CONSTANTS task, repo

MCRoots == {task}
MCTasks == MCRoots \cup {RepairKey(task, n, h) : n \in 1..(MaxAttempts - 1), h \in Headlines}
MCScopesOf == [t \in Tasks |-> ScopesFor(t)]
MCDependsOn == [t \in MCRoots |-> {}]
MCDeclared == [t \in MCRoots |-> {repo}]
MCHeadlineOf == [f \in Failures |-> f]
=============================================================================
