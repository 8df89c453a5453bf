---------------------------- MODULE MCTaskGraph ----------------------------
(* Two tasks make a cycle; the third lets a dependency be unknown, or shared. *)
EXTENDS TaskGraph, TLC

CONSTANTS MaxOdd  \* bound: tasks in the map that are gated, non-restartable, blocked or failed

IsOdd(task) == task.gated \/ ~task.restartable \/ task.state \in {"BLOCKED", "FAILED"}

FewOddTasks == Cardinality({k \in DOMAIN tasks : IsOdd(tasks[k])}) <= MaxOdd

Symmetry == Permutations(Keys)
=============================================================================
