----------------------------- MODULE TaskGraph -----------------------------
(***************************************************************************)
(* src/core/task-graph.js: the map of tasks with add, upsert, setState,    *)
(* restore and the queries the scheduler asks.  Human gates and explicit   *)
(* blockers, which no code of the repository changes, are one flag.        *)
(***************************************************************************)
EXTENDS Naturals, FiniteSets, Functions

CONSTANTS
  Keys  \* task keys, also used as dedupe keys (a task's default dedupe key is its key)

VARIABLES
  tasks,   \* #tasks
  running  \* FALSE once a restart failed: main.js does not catch what restore throws

graphVars == <<tasks, running>>

TaskStates == {"PLANNED", "READY", "CLAIMED", "ACCEPTED", "BLOCKED", "FAILED"}

Task == [gated: BOOLEAN, restartable: BOOLEAN, state: TaskStates,
         dependencies: SUBSET Keys, dedupeKey: Keys]

NoTasks == [k \in {} |-> {}]

----------------------------------------------------------------------------
(* The queries. *)

\* A dependency that is not in the map is not visited.  A cycle is a set of tasks each of
\* which depends on another of the set, and #assertAcyclic throws when there is one.
Acyclic(g) ==
  \A S \in SUBSET DOMAIN g :
    S # {} => \E k \in S : g[k].dependencies \cap S = {}

IsAccepted(g, k) == k \in DOMAIN g /\ g[k].state = "ACCEPTED"

WithoutReadyTasks(g, k) ==
  /\ \A d \in g[k].dependencies : IsAccepted(g, d)
  /\ ~g[k].gated
  /\ g[k].state = "PLANNED"

\* isExecutable: blockerReasons finds no reason.
IsExecutable(g, k) ==
  /\ \A d \in g[k].dependencies : IsAccepted(g, d)
  /\ ~g[k].gated
  /\ g[k].state \in {"PLANNED", "READY"}

Frontier(g) == {k \in DOMAIN g : IsExecutable(g, k)}

DependentsOf(g, k) == {u \in DOMAIN g : k \in g[u].dependencies}

UnlockedOfAll(g, k) ==
  {u \in DependentsOf(g, k) : \A d \in g[u].dependencies : IsAccepted(g, d)}

\* The tasks unlockCount counts: k is their only dependency that is not accepted.
Unlocked(g, k) ==
  {u \in DependentsOf(g, k) : \A d \in g[u].dependencies \ {k} : IsAccepted(g, d)}

----------------------------------------------------------------------------
(* The operations. *)

GraphInit == tasks = NoTasks /\ running = TRUE

Put(g, k, task) == [u \in DOMAIN g \cup {k} |-> IF u = k THEN task ELSE g[u]]

NewTask(deps, gated, dedupe, restartable) ==
  [gated |-> gated, restartable |-> restartable, state |-> "PLANNED",
   dependencies |-> deps, dedupeKey |-> dedupe]

\* add puts the task into the map before it looks for a cycle, and leaves it there when
\* it throws.
Add(k, task) ==
  /\ running
  /\ k \notin DOMAIN tasks
  /\ \A u \in DOMAIN tasks : tasks[u].dedupeKey # task.dedupeKey
  /\ tasks' = Put(tasks, k, task)
  /\ UNCHANGED running

UpsertWithoutRollback(k, deps) ==
  /\ running
  /\ k \in DOMAIN tasks
  /\ tasks' = [tasks EXCEPT ![k].dependencies = deps]
  /\ UNCHANGED running

\* upsert of a known task with other dependencies: taken back when it closes a cycle.
Upsert(k, deps) ==
  LET next == [tasks EXCEPT ![k].dependencies = deps] IN
  /\ running
  /\ k \in DOMAIN tasks
  /\ Acyclic(next)
  /\ tasks' = next
  /\ UNCHANGED running

\* setState checks nothing: its callers decide.
SetState(k, s) ==
  /\ running
  /\ k \in DOMAIN tasks
  /\ tasks' = [tasks EXCEPT ![k].state = s]
  /\ UNCHANGED running

\* A claimed task comes back without its claim.
Recovered(task) ==
  IF task.state = "CLAIMED"
  THEN [task EXCEPT !.state = IF task.restartable THEN "READY" ELSE "BLOCKED"]
  ELSE task

\* A restart from a snapshot of the map as it is.
Restore ==
  /\ running
  /\ tasks' = [k \in DOMAIN tasks |-> Recovered(tasks[k])]
  /\ running' = Acyclic(tasks)

\* upsert of an unknown task is an add.
GraphNext ==
  \/ \E k, dedupe \in Keys, deps \in SUBSET Keys, gated, restartable \in BOOLEAN :
       Add(k, NewTask(deps, gated, dedupe, restartable))
  \/ \E k \in Keys, deps \in SUBSET Keys : Upsert(k, deps)
  \/ \E k \in Keys, s \in TaskStates : SetState(k, s)
  \/ Restore

GraphSpec == GraphInit /\ [][GraphNext]_graphVars

----------------------------------------------------------------------------
(* Properties. *)

IsTaskMap(g) == DOMAIN g \subseteq Keys /\ g \in [DOMAIN g -> Task]

\* The map keeps its type.
GraphTypeOK == IsTaskMap(tasks) /\ running \in BOOLEAN

\* No two tasks share a dedupe key: the same work is not in the graph twice, also when
\* one of the two was refused for a cycle.
DedupeKeysAreUnique ==
  \A k, u \in DOMAIN tasks : tasks[k].dedupeKey = tasks[u].dedupeKey => k = u

Workable(task) == ~task.gated /\ task.state \in {"PLANNED", "READY", "CLAIMED", "ACCEPTED"}

\* The frontier of a sound graph is never empty while work remains: when every task is
\* workable, every dependency is known and there is no cycle, some task that is not
\* accepted is executable or claimed.
WorkRemainsReachable ==
  LET open == {k \in DOMAIN tasks : tasks[k].state # "ACCEPTED"} IN
    /\ open # {}
    /\ Acyclic(tasks)
    /\ \A k \in open : Workable(tasks[k]) /\ tasks[k].dependencies \subseteq DOMAIN tasks
    => \E k \in open : k \in Frontier(tasks) \/ tasks[k].state = "CLAIMED"

\* unlockCount means what the scheduler takes it for: of the tasks that wait, it counts
\* those that accepting k would make executable.
UnlockCountIsExact ==
  \A k \in Frontier(tasks) :
    LET after == [tasks EXCEPT ![k].state = "ACCEPTED"]
        waits(u) == ~tasks[u].gated /\ tasks[u].state \in {"PLANNED", "READY"} IN
    {u \in Unlocked(tasks, k) : u # k /\ waits(u)} = Frontier(after) \ Frontier(tasks)

\* Only add can bring a cycle in: upsert and restore never do.
ChangesKeepAcyclic ==
  [][Acyclic(tasks) /\ DOMAIN tasks' = DOMAIN tasks => Acyclic(tasks')]_graphVars

\* No task comes out of a restart claimed: there is no claim left to complete it with.
RestartLeavesNoneClaimed ==
  [][Restore => \A k \in DOMAIN tasks' : tasks'[k].state # "CLAIMED"]_graphVars
=============================================================================
