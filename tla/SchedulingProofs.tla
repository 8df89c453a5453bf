-------------------------- MODULE SchedulingProofs --------------------------
(***************************************************************************)
(* What may run, and what is started: the properties of TaskGraph for every *)
(* set of keys, and those of LaneScheduler for every portfolio and fleet.  *)
(***************************************************************************)
EXTENDS TaskGraph, LaneScheduler, FiniteSetTheorems, TLAPS

(* The task graph. *)

GInv ==
  /\ IsTaskMap(tasks)
  /\ running \in BOOLEAN
  /\ DedupeKeysAreUnique

----------------------------------------------------------------------------
(* The operations on the map. *)

LEMMA PutType ==
  ASSUME NEW g, IsTaskMap(g), NEW k \in Keys, NEW task \in Task
  PROVE  /\ IsTaskMap(Put(g, k, task))
         /\ DOMAIN Put(g, k, task) = DOMAIN g \cup {k}
         /\ Put(g, k, task)[k] = task
         /\ \A u \in DOMAIN g : u # k => Put(g, k, task)[u] = g[u]
BY DEF IsTaskMap, Put

\* Changing the dependencies or the state of one task leaves a task map.
LEMMA ChangeType ==
  ASSUME NEW g, IsTaskMap(g), NEW k \in DOMAIN g, NEW deps \in SUBSET Keys, NEW s \in TaskStates
  PROVE  /\ IsTaskMap([g EXCEPT ![k].dependencies = deps])
         /\ IsTaskMap([g EXCEPT ![k].state = s])
BY DEF IsTaskMap, Task

\* Two maps with the same dependencies have the same cycles.
LEMMA AcyclicDependsOnEdges ==
  ASSUME NEW g, NEW h, DOMAIN g = DOMAIN h,
         \A k \in DOMAIN g : g[k].dependencies = h[k].dependencies, Acyclic(g)
  PROVE  Acyclic(h)
BY DEF Acyclic

LEMMA SetStateKeepsEdges ==
  ASSUME NEW g, IsTaskMap(g), NEW k \in DOMAIN g, NEW s
  PROVE  LET h == [g EXCEPT ![k].state = s] IN
         DOMAIN g = DOMAIN h /\ \A u \in DOMAIN g : /\ g[u].dependencies = h[u].dependencies
                                                    /\ g[u].dedupeKey = h[u].dedupeKey
BY DEF IsTaskMap, Task

LEMMA RecoveredType ==
  ASSUME NEW task \in Task
  PROVE  /\ Recovered(task) \in Task
         /\ Recovered(task).dependencies = task.dependencies
         /\ Recovered(task).dedupeKey = task.dedupeKey
         /\ Recovered(task).state # "CLAIMED"
BY DEF Recovered, Task, TaskStates

----------------------------------------------------------------------------
(* Every step keeps the invariant, and the graph free of cycles unless it adds. *)

LEMMA GraphInitInv == GraphInit => GInv
BY DEF GraphInit, GInv, IsTaskMap, NoTasks, DedupeKeysAreUnique

AcyclicStep == Acyclic(tasks) /\ DOMAIN tasks' = DOMAIN tasks => Acyclic(tasks')

LEMMA AddStep ==
  ASSUME GInv, NEW k \in Keys, NEW dedupe \in Keys, NEW deps \in SUBSET Keys,
         NEW gated \in BOOLEAN, NEW restartable \in BOOLEAN,
         Add(k, NewTask(deps, gated, dedupe, restartable))
  PROVE  GInv' /\ AcyclicStep
<1> DEFINE task == NewTask(deps, gated, dedupe, restartable)
<1>1. task \in Task /\ task.dedupeKey = dedupe
  BY DEF NewTask, Task, TaskStates
<1> HIDE DEF task
<1>2. /\ k \notin DOMAIN tasks
      /\ \A u \in DOMAIN tasks : tasks[u].dedupeKey # task.dedupeKey
      /\ tasks' = Put(tasks, k, task)
      /\ running' = running
  BY DEF Add, task
<1>3. /\ IsTaskMap(tasks')
      /\ DOMAIN tasks' = DOMAIN tasks \cup {k}
      /\ tasks'[k] = task
      /\ \A u \in DOMAIN tasks : tasks'[u] = tasks[u]
  <2>1. IsTaskMap(tasks)
    BY DEF GInv
  <2>2. /\ IsTaskMap(Put(tasks, k, task))
        /\ DOMAIN Put(tasks, k, task) = DOMAIN tasks \cup {k}
        /\ Put(tasks, k, task)[k] = task
        /\ \A u \in DOMAIN tasks : u # k => Put(tasks, k, task)[u] = tasks[u]
    BY <1>1, <2>1, PutType
  <2>3. QED
    BY <1>2, <2>2, Zenon
<1>4. DedupeKeysAreUnique'
  BY <1>2, <1>3 DEF GInv, DedupeKeysAreUnique
<1>5. QED
  BY <1>2, <1>3, <1>4 DEF GInv, AcyclicStep

LEMMA UpsertStep ==
  ASSUME GInv, NEW k \in Keys, NEW deps \in SUBSET Keys, Upsert(k, deps)
  PROVE  GInv' /\ AcyclicStep
<1>1. /\ k \in DOMAIN tasks
      /\ tasks' = [tasks EXCEPT ![k].dependencies = deps]
      /\ Acyclic(tasks')
      /\ running' = running
  BY DEF Upsert
<1>2. IsTaskMap(tasks')
  <2>1. IsTaskMap(tasks)
    BY DEF GInv
  <2>2. "READY" \in TaskStates
    BY DEF TaskStates
  <2>3. QED
    BY <1>1, <2>1, <2>2, ChangeType
<1>3. DedupeKeysAreUnique'
  BY <1>1 DEF GInv, DedupeKeysAreUnique, IsTaskMap, Task
<1>4. QED
  BY <1>1, <1>2, <1>3 DEF GInv, AcyclicStep

LEMMA SetStateStep ==
  ASSUME GInv, NEW k \in Keys, NEW s \in TaskStates, SetState(k, s)
  PROVE  GInv' /\ AcyclicStep
<1>1. k \in DOMAIN tasks /\ tasks' = [tasks EXCEPT ![k].state = s] /\ running' = running
  BY DEF SetState
<1>2. IsTaskMap(tasks)
  BY DEF GInv
<1>3. IsTaskMap(tasks')
  BY <1>1, <1>2, ChangeType
<1>4. /\ DOMAIN tasks = DOMAIN tasks'
      /\ \A u \in DOMAIN tasks : /\ tasks[u].dependencies = tasks'[u].dependencies
                                 /\ tasks[u].dedupeKey = tasks'[u].dedupeKey
  BY <1>1, <1>2, SetStateKeepsEdges
<1>5. DedupeKeysAreUnique'
  BY <1>4 DEF GInv, DedupeKeysAreUnique
<1>6. AcyclicStep
  BY <1>4, AcyclicDependsOnEdges DEF AcyclicStep
<1>7. QED
  BY <1>1, <1>3, <1>5, <1>6 DEF GInv

LEMMA RestoreStep ==
  ASSUME GInv, Restore
  PROVE  /\ GInv'
         /\ AcyclicStep
         /\ \A k \in DOMAIN tasks' : tasks'[k].state # "CLAIMED"
<1>1. /\ DOMAIN tasks' = DOMAIN tasks
      /\ \A k \in DOMAIN tasks : tasks'[k] = Recovered(tasks[k])
      /\ tasks' = [k \in DOMAIN tasks' |-> tasks'[k]]
      /\ running' \in BOOLEAN
  BY DEF Restore, Acyclic
<1>2. IsTaskMap(tasks)
  BY DEF GInv
<1>3. \A k \in DOMAIN tasks :
        /\ tasks'[k] \in Task
        /\ tasks'[k].dependencies = tasks[k].dependencies
        /\ tasks'[k].dedupeKey = tasks[k].dedupeKey
        /\ tasks'[k].state # "CLAIMED"
  BY <1>1, <1>2, RecoveredType DEF IsTaskMap
<1>4. IsTaskMap(tasks')
  BY <1>1, <1>2, <1>3 DEF IsTaskMap
<1>5. DedupeKeysAreUnique'
  BY <1>1, <1>3 DEF GInv, DedupeKeysAreUnique
<1>6. AcyclicStep
  BY <1>1, <1>3, AcyclicDependsOnEdges DEF AcyclicStep
<1>7. QED
  BY <1>1, <1>3, <1>4, <1>5, <1>6 DEF GInv

LEMMA GraphNextInv ==
  ASSUME GInv, [GraphNext]_graphVars
  PROVE  GInv' /\ AcyclicStep
<1>1. CASE UNCHANGED graphVars
  BY <1>1 DEF graphVars, GInv, DedupeKeysAreUnique, AcyclicStep
<1>2. CASE GraphNext
  BY <1>2, AddStep, UpsertStep, SetStateStep, RestoreStep DEF GraphNext
<1>3. QED
  BY <1>1, <1>2

THEOREM GraphInductive == GraphSpec => []GInv
<1>1. GInv /\ [GraphNext]_graphVars => GInv'
  BY GraphNextInv
<1>2. QED
  BY <1>1, GraphInitInv, PTL DEF GraphSpec

----------------------------------------------------------------------------
(* The theorems. *)

\* The map keeps its type.
THEOREM GraphTypeCorrect == GraphSpec => []GraphTypeOK
<1>1. GInv => GraphTypeOK
  BY DEF GInv, GraphTypeOK
<1>2. QED
  BY <1>1, GraphInductive, PTL

\* Two tasks never share a dedupe key.
THEOREM DedupeIsEnforced == GraphSpec => []DedupeKeysAreUnique
<1>1. GInv => DedupeKeysAreUnique
  BY DEF GInv
<1>2. QED
  BY <1>1, GraphInductive, PTL

\* A sound graph with work left has a task that is executable or claimed: the tasks that
\* are not accepted have no cycle among them, so one of them waits for none of the others.
THEOREM FrontierIsReachable == GraphSpec => []WorkRemainsReachable
<1>1. GInv => WorkRemainsReachable
  <2> DEFINE open == {k \in DOMAIN tasks : tasks[k].state # "ACCEPTED"}
  <2> SUFFICES ASSUME GInv, open # {}, Acyclic(tasks),
                      \A k \in open : /\ Workable(tasks[k])
                                      /\ tasks[k].dependencies \subseteq DOMAIN tasks
               PROVE  \E k \in open : k \in Frontier(tasks) \/ tasks[k].state = "CLAIMED"
    BY DEF WorkRemainsReachable
  <2>1. PICK k \in open : tasks[k].dependencies \cap open = {}
    BY DEF Acyclic
  <2>2. \A d \in tasks[k].dependencies : IsAccepted(tasks, d)
    BY <2>1 DEF IsAccepted
  <2>3. ~tasks[k].gated /\ tasks[k].state \in {"PLANNED", "READY", "CLAIMED"}
    BY DEF Workable
  <2>4. QED
    BY <2>1, <2>2, <2>3 DEF Frontier, IsExecutable
<1>2. QED
  BY <1>1, GraphInductive, PTL

\* unlockCount counts exactly the waiting tasks that the acceptance would make executable.
THEOREM UnlockIsExact == GraphSpec => []UnlockCountIsExact
<1>1. GInv => UnlockCountIsExact
  <2> SUFFICES ASSUME GInv, NEW k \in Frontier(tasks)
               PROVE  LET after == [tasks EXCEPT ![k].state = "ACCEPTED"]
                          waits(u) == ~tasks[u].gated /\ tasks[u].state \in {"PLANNED", "READY"} IN
                      {u \in Unlocked(tasks, k) : u # k /\ waits(u)}
                        = Frontier(after) \ Frontier(tasks)
    BY DEF UnlockCountIsExact
  <2> DEFINE after == [tasks EXCEPT ![k].state = "ACCEPTED"]
             waits(u) == ~tasks[u].gated /\ tasks[u].state \in {"PLANNED", "READY"}
  <2>1. k \in DOMAIN tasks /\ tasks[k].state # "ACCEPTED"
    BY DEF Frontier, IsExecutable
  <2>2. /\ DOMAIN after = DOMAIN tasks
        /\ after[k].state = "ACCEPTED"
        /\ \A u \in DOMAIN tasks : u # k => after[u] = tasks[u]
    BY <2>1 DEF GInv, IsTaskMap, Task
  <2> HIDE DEF after
  <2>3. \A d : IsAccepted(after, d) <=> d = k \/ IsAccepted(tasks, d)
    BY <2>1, <2>2 DEF IsAccepted
  <2>4. ASSUME NEW u, u \in Unlocked(tasks, k), u # k, waits(u)
        PROVE  u \in Frontier(after) \ Frontier(tasks)
    <3>1. u \in DOMAIN tasks /\ k \in tasks[u].dependencies
      BY <2>4 DEF Unlocked, DependentsOf
    <3>2. \A d \in tasks[u].dependencies : IsAccepted(after, d)
      BY <2>3, <2>4 DEF Unlocked
    <3>3. u \in Frontier(after)
      BY <2>2, <2>4, <3>1, <3>2 DEF Frontier, IsExecutable
    <3>4. ~IsAccepted(tasks, k)
      BY <2>1 DEF IsAccepted
    <3>5. QED
      BY <3>1, <3>3, <3>4 DEF Frontier, IsExecutable
  <2>5. ASSUME NEW u, u \in Frontier(after), u \notin Frontier(tasks)
        PROVE  u \in Unlocked(tasks, k) /\ u # k /\ waits(u)
    <3>1. u \in DOMAIN tasks /\ u # k
      BY <2>2, <2>5 DEF Frontier, IsExecutable
    <3>2. \A d \in tasks[u].dependencies : d = k \/ IsAccepted(tasks, d)
      BY <2>2, <2>3, <2>5, <3>1 DEF Frontier, IsExecutable
    <3>3. waits(u)
      BY <2>2, <2>5, <3>1 DEF Frontier, IsExecutable
    <3>4. k \in tasks[u].dependencies
      BY <2>5, <3>1, <3>2, <3>3 DEF Frontier, IsExecutable
    <3>5. QED
      BY <3>1, <3>2, <3>3, <3>4 DEF Unlocked, DependentsOf
  <2>6. QED
    BY <2>4, <2>5 DEF after, Unlocked
<1>2. QED
  BY <1>1, GraphInductive, PTL

\* Only add can bring a cycle into the graph.
THEOREM CyclesComeFromAdd == GraphSpec => ChangesKeepAcyclic
<1>1. GInv /\ [GraphNext]_graphVars => [AcyclicStep]_graphVars
  BY GraphNextInv
<1>2. QED
  BY <1>1, GraphInductive, PTL DEF GraphSpec, ChangesKeepAcyclic, AcyclicStep

\* No task comes out of a restart claimed.
THEOREM RestartClaimsNothing == GraphSpec => RestartLeavesNoneClaimed
<1> DEFINE NoneClaimed == Restore => \A k \in DOMAIN tasks' : tasks'[k].state # "CLAIMED"
<1>1. GInv /\ [GraphNext]_graphVars => [NoneClaimed]_graphVars
  BY RestoreStep
<1>2. QED
  BY <1>1, GraphInductive, PTL DEF GraphSpec, RestartLeavesNoneClaimed

----------------------------------------------------------------------------
(* The lanes: claims of a dispatch that waited for the fleet. *)

\* One deployment and one member of a packet.
Serialized(held) ==
  \A t, u \in held :
    t # u => /\ StageOf[t] = "DEPLOYMENT" => StageOf[u] # "DEPLOYMENT"
             /\ PacketOf[t] # NoPacket => PacketOf[u] # PacketOf[t]

\* What is under repair is not worked on again.
RepairsAreAwaited ==
  \A r \in Repairs : state[r] # "ABSENT" => state[RepairOf[r]] \in {"BLOCKED", "ACCEPTED"}

LaneInv == LaneTypeOK /\ MutationIsSerialized /\ RepairsAreAwaited

LEMMA LaneConstants ==
  /\ \A S \in SUBSET Tasks : IsFiniteSet(S) /\ Cardinality(S) \in Nat
  /\ \A t \in Tasks : RepositoryOf[t] \in Repositories
  /\ \A r \in Repairs : r \in Tasks /\ RepairOf[r] \in Tasks
  /\ DefaultLimit \in LaneLimits /\ LaneLimits \subseteq Nat
  /\ Baseline \in Nat /\ Multiplier \in Nat /\ MaxBacklog \in Nat /\ MaxCommands \in Nat
  /\ Nobody \notin Workers
BY LaneAssumption, WorkersAssumption, FS_Subset, FS_CardinalityType DEF Repairs

LEMMA LeastNumber ==
  ASSUME NEW S, S \subseteq Nat, S # {}
  PROVE  \E n \in S : \A m \in S : n <= m
<1> DEFINE R == OpToRel(<, Nat)
<1>1. \A x, y \in Nat : <<x, y>> \in R <=> x < y
  BY DEF OpToRel
<1>2. IsWellFoundedOn(R, Nat)
  BY NatLessThanWellFounded
<1> HIDE DEF R
<1>3. PICK x \in S : \A y \in S : <<y, x>> \notin R
  BY <1>2, WFMin
<1>4. \A y \in S : y \in Nat /\ x \in Nat /\ ~(y < x)
  BY <1>1, <1>3
<1>5. QED
  BY <1>3, <1>4

\* A set of numbers that has 0 and, with a number, the next up to last has all up to last.
LEMMA NumbersUpTo ==
  ASSUME NEW last \in Nat, NEW S, 0 \in S, \A n \in 1..last : n - 1 \in S => n \in S
  PROVE  0..last \subseteq S
<1> SUFFICES ASSUME (0..last) \ S # {} PROVE FALSE
  OBVIOUS
<1>1. PICK n \in (0..last) \ S : \A m \in (0..last) \ S : n <= m
  <2>1. (0..last) \ S \subseteq Nat
    OBVIOUS
  <2>2. QED
    BY <2>1, LeastNumber
<1>2. n \in 1..last /\ n - 1 \in 0..last /\ ~(n <= n - 1)
  BY <1>1
<1>3. QED
  BY <1>1, <1>2

\* What is built up in steps from a start exists.
BuiltUp(f, S, start, last, Step) ==
  f \in [0..last -> S] /\ f[0] = start /\ \A n \in 1..last : f[n] = Step[n][f[n - 1]]

LEMMA StepsExist ==
  ASSUME NEW S, NEW start \in S, NEW last \in Nat, NEW Step, Step \in [1..last -> [S -> S]]
  PROVE  \E f : BuiltUp(f, S, start, last, Step)
<1> DEFINE Built(k, f) == f = [n \in 0..k |-> IF n = 0 THEN start ELSE Step[n][f[n - 1]]]
           Reached == {k \in 0..last : \E f \in [0..k -> S] : Built(k, f)}
<1>1. 0 \in Reached
  <2> DEFINE f == [n \in 0..0 |-> start]
  <2>1. f \in [0..0 -> S] /\ Built(0, f)
    OBVIOUS
  <2> HIDE DEF f, Built
  <2>2. QED
    BY <2>1
<1>2. ASSUME NEW k \in 1..last, k - 1 \in Reached PROVE k \in Reached
  <2>1. PICK f \in [0..(k - 1) -> S] : Built(k - 1, f)
    BY <1>2
  <2> DEFINE g == [n \in 0..k |-> IF n = k THEN Step[k][f[k - 1]] ELSE f[n]]
  <2>2. f[k - 1] \in S /\ Step[k][f[k - 1]] \in S
    OBVIOUS
  <2>3. g \in [0..k -> S]
    BY <2>2
  <2>4. ASSUME NEW n \in 0..k
        PROVE  g[n] = IF n = 0 THEN start ELSE Step[n][g[n - 1]]
    <3>1. CASE n = k
      <4>1. k - 1 \in 0..k /\ k - 1 # k /\ k # 0
        OBVIOUS
      <4>2. g[k - 1] = f[k - 1]
        BY <4>1
      <4>3. QED
        BY <3>1, <4>1, <4>2
    <3>2. CASE n # k /\ n # 0
      <4>1. n \in 0..(k - 1) /\ n - 1 \in 0..k /\ n - 1 # k
        BY <3>2
      <4>2. g[n - 1] = f[n - 1] /\ g[n] = f[n]
        BY <4>1, <3>2
      <4>3. f[n] = Step[n][f[n - 1]]
        BY <2>1, <4>1, <3>2
      <4>4. QED
        BY <3>2, <4>2, <4>3
    <3>3. CASE n # k /\ n = 0
      <4>1. 0 \in 0..(k - 1)
        OBVIOUS
      <4>2. f[0] = start
        BY <2>1, <4>1
      <4>3. QED
        BY <3>3, <4>2
    <3>4. QED
      BY <3>1, <3>2, <3>3
  <2>5. Built(k, g)
    BY <2>4
  <2> HIDE DEF g, Built
  <2>6. QED
    BY <2>3, <2>5
<1> HIDE DEF Reached
<1>3. 0..last \subseteq Reached
  BY <1>1, <1>2, NumbersUpTo
<1>4. last \in Reached
  BY <1>3
<1>5. PICK f \in [0..last -> S] : Built(last, f)
  BY <1>4 DEF Reached
<1>6. f[0] = start /\ \A n \in 1..last : f[n] = Step[n][f[n - 1]]
  <2>1. 0 \in 0..last /\ \A n \in 1..last : n \in 0..last /\ n # 0
    OBVIOUS
  <2>2. QED
    BY <1>5, <2>1
<1>7. QED
  BY <1>6 DEF BuiltUp

----------------------------------------------------------------------------
(* A plan. *)

PlanState ==
  [pairs: Seq([task: Tasks, on: Workers]), left: [Workers -> Nat], held: SUBSET Tasks,
   used: [Repositories -> Nat]]

\* What a plan adds to the held tasks are candidates, serialized and within the limits.
PlanOK(p, held, candidates) ==
  /\ p \in PlanState
  /\ held \subseteq p.held /\ p.held \ held \subseteq candidates
  /\ Serialized(p.held)
  /\ \A r \in Repositories \ {Unscoped} : InRepository(r, p.held) <= p.used[r]
  /\ \A t \in p.held \ held : p.used[RepositoryOf[t]] <= LimitOf(t)
  /\ \A i \in DOMAIN p.pairs : p.pairs[i].task \in p.held \ held

LEMMA LaneTypes ==
  ASSUME LaneTypeOK
  PROVE  /\ \A t \in Tasks : LimitOf(t) \in Nat
         /\ free \in [Workers -> Nat]
         /\ \A w : Held(w) \in SUBSET Tasks
BY LaneConstants DEF LaneTypeOK, Policies, LimitOf, Held

LEMMA MostIsFound ==
  ASSUME NEW left \in [Workers -> Nat], NEW S \in SUBSET Workers, S # {}
  PROVE  \E n \in S : \A m \in S : left[m] <= left[n]
<1> DEFINE Above(n) == {m \in S : left[n] < left[m]}
           Counts == {Cardinality(Above(n)) : n \in S}
<1>1. \A n \in S : IsFiniteSet(Above(n)) /\ Cardinality(Above(n)) \in Nat
  BY LaneAssumption, FS_Subset, FS_CardinalityType
<1>2. PICK c \in Counts : \A d \in Counts : c <= d
  <2>1. Counts \subseteq Nat /\ Counts # {}
    BY <1>1
  <2> HIDE DEF Counts
  <2>2. QED
    BY <2>1, LeastNumber
<1>3. PICK n \in S : c = Cardinality(Above(n))
  BY <1>2
<1>4. \A m \in S : Cardinality(Above(n)) <= Cardinality(Above(m))
  BY <1>2, <1>3
<1>5. ASSUME NEW m \in S, left[n] < left[m] PROVE FALSE
  <2>1. m \in Above(n) /\ m \notin Above(m) /\ Above(m) \subseteq Above(n)
    BY <1>5
  <2>2. Cardinality(Above(m)) < Cardinality(Above(n))
    <3> HIDE DEF Above
    <3>1. Above(m) # Above(n)
      BY <2>1
    <3>2. QED
      BY <1>1, <2>1, <3>1, FS_Subset, FS_CardinalityType
  <2>3. QED
    <3> HIDE DEF Above
    <3>1. QED
      BY <1>1, <1>4, <2>2
<1>6. QED
  BY <1>5

LEMMA SuitableIsEligible ==
  ASSUME NEW p \in PlanState, NEW t, Eligible(p, t) # {}
  PROVE  Suitable(p, t) \in Workers /\ p.left[Suitable(p, t)] \in Nat \ {0}
<1>1. p.left \in [Workers -> Nat] /\ Eligible(p, t) \in SUBSET Workers
  BY DEF PlanState, Eligible
<1>2. \E n \in Eligible(p, t) : \A m \in Eligible(p, t) : p.left[m] <= p.left[n]
  BY <1>1, MostIsFound
<1>3. Suitable(p, t) \in Eligible(p, t)
  BY <1>2 DEF Suitable
<1>4. QED
  BY <1>1, <1>3 DEF Eligible

LEMMA OneMoreInRepository ==
  ASSUME NEW held \in SUBSET Tasks, NEW t \in Tasks, NEW r
  PROVE  /\ InRepository(r, held) \in Nat
         /\ InRepository(r, held \cup {t}) \in Nat
         /\ InRepository(r, held \cup {t}) <= InRepository(r, held) + 1
         /\ RepositoryOf[t] # r => InRepository(r, held \cup {t}) = InRepository(r, held)
<1> DEFINE old == {u \in held : RepositoryOf[u] = r}
           new == {u \in held \cup {t} : RepositoryOf[u] = r}
<1>1. old \in SUBSET Tasks /\ new \in SUBSET Tasks
  OBVIOUS
<1>2. IsFiniteSet(old) /\ Cardinality(old) \in Nat /\ Cardinality(new) \in Nat
  BY <1>1, LaneConstants
<1>3. new = IF RepositoryOf[t] = r THEN old \cup {t} ELSE old
  OBVIOUS
<1> HIDE DEF old, new
<1>4. Cardinality(new) <= Cardinality(old) + 1 /\ (RepositoryOf[t] # r => new = old)
  BY <1>2, <1>3, FS_AddElement
<1>5. InRepository(r, held) = Cardinality(old) /\ InRepository(r, held \cup {t}) = Cardinality(new)
  BY DEF InRepository, old, new
<1>6. QED
  BY <1>2, <1>4, <1>5

LEMMA PlannedKeeps ==
  ASSUME LaneTypeOK, NEW held \in SUBSET Tasks, NEW candidates \in SUBSET (Tasks \ held),
         NEW p, PlanOK(p, held, candidates), NEW t \in candidates, NEW budget
  PROVE  PlanOK(Planned(p, t, budget), held, candidates)
<1> SUFFICES ASSUME Fits(p, t, budget) PROVE PlanOK(Planned(p, t, budget), held, candidates)
  BY DEF Planned
<1> DEFINE n == Suitable(p, t)
           r == RepositoryOf[t]
           q == Planned(p, t, budget)
<1>1. p \in PlanState /\ p.pairs \in Seq([task: Tasks, on: Workers]) /\ p.left \in [Workers -> Nat]
      /\ p.held \in SUBSET Tasks /\ p.used \in [Repositories -> Nat]
  BY DEF PlanOK, PlanState
<1>2. n \in Workers /\ p.left[n] - 1 \in Nat
  BY <1>1, SuitableIsEligible DEF Fits
<1>3. t \in Tasks /\ r \in Repositories /\ p.used[r] + 1 \in Nat
  BY <1>1, LaneConstants
<1>4. q = [p EXCEPT !.pairs = Append(@, [task |-> t, on |-> n]), !.left[n] = @ - 1,
                    !.held = @ \cup {t}, !.used[r] = @ + 1]
  BY DEF Planned
<1> HIDE DEF n, q, r
<1>5. /\ q.pairs = Append(p.pairs, [task |-> t, on |-> n])
      /\ q.left = [p.left EXCEPT ![n] = p.left[n] - 1]
      /\ q.held = p.held \cup {t}
      /\ q.used = [p.used EXCEPT ![r] = p.used[r] + 1]
      /\ q = [pairs |-> q.pairs, left |-> q.left, held |-> q.held, used |-> q.used]
  BY <1>1, <1>4 DEF PlanState
<1>6. q \in PlanState
  <2>1. q.left \in [Workers -> Nat] /\ q.used \in [Repositories -> Nat]
    BY <1>1, <1>2, <1>3, <1>5
  <2>2. q.held \in SUBSET Tasks
    BY <1>1, <1>3, <1>5
  <2>3. [task |-> t, on |-> n] \in [task: Tasks, on: Workers]
    BY <1>2, <1>3
  <2>4. q.pairs \in Seq([task: Tasks, on: Workers])
    BY <1>1, <1>5, <2>3
  <2>5. QED
    BY <1>5, <2>1, <2>2, <2>4 DEF PlanState
<1>7. held \subseteq q.held /\ q.held \ held \subseteq candidates
  BY <1>5 DEF PlanOK
<1>8. Serialized(q.held)
  BY <1>5 DEF PlanOK, Serialized, Fits, DeploymentFree, PacketFree
<1>9. ASSUME NEW x \in Repositories \ {Unscoped} PROVE InRepository(x, q.held) <= q.used[x]
  <2>1. InRepository(x, p.held) <= p.used[x] /\ p.used[x] \in Nat
    BY <1>1 DEF PlanOK
  <2>2. q.used[x] = IF x = r THEN p.used[x] + 1 ELSE p.used[x]
    BY <1>1, <1>5
  <2>3. /\ InRepository(x, p.held) \in Nat /\ InRepository(x, q.held) \in Nat
        /\ InRepository(x, q.held) <= InRepository(x, p.held) + 1
        /\ r # x => InRepository(x, q.held) = InRepository(x, p.held)
    <3>1. p.held \in SUBSET Tasks /\ t \in Tasks /\ q.held = p.held \cup {t}
      BY <1>1, <1>3, <1>5
    <3>2. /\ InRepository(x, p.held) \in Nat /\ InRepository(x, p.held \cup {t}) \in Nat
          /\ InRepository(x, p.held \cup {t}) <= InRepository(x, p.held) + 1
          /\ RepositoryOf[t] # x => InRepository(x, p.held \cup {t}) = InRepository(x, p.held)
      BY <3>1, OneMoreInRepository
    <3>3. QED
      BY <3>1, <3>2 DEF r
  <2>4. QED
    BY <2>1, <2>2, <2>3
<1>10. ASSUME NEW u \in q.held \ held PROVE q.used[RepositoryOf[u]] <= LimitOf(u)
  <2>1. u \in Tasks /\ RepositoryOf[u] \in Repositories /\ LimitOf(u) \in Nat
    BY <1>1, <1>3, <1>5, LaneConstants, LaneTypes
  <2>2. CASE RepositoryOf[u] = r
    <3>1. LimitOf(u) = LimitOf(t)
      BY <2>2 DEF LimitOf, r
    <3>2. p.used[r] < LimitOf(t) /\ p.used[r] \in Nat
      BY <1>1, <1>3 DEF Fits, r
    <3>3. q.used[r] = p.used[r] + 1
      BY <1>1, <1>3, <1>5
    <3>4. QED
      BY <2>1, <2>2, <3>1, <3>2, <3>3
  <2>3. CASE RepositoryOf[u] # r
    <3>1. u # t /\ u \in p.held \ held
      BY <1>5, <2>3 DEF r
    <3>2. q.used[RepositoryOf[u]] = p.used[RepositoryOf[u]]
      BY <1>1, <1>5, <2>1, <2>3
    <3>3. QED
      BY <3>1, <3>2 DEF PlanOK
  <2>4. QED
    BY <2>2, <2>3
<1>11. ASSUME NEW i \in DOMAIN q.pairs PROVE q.pairs[i].task \in q.held \ held
  <2>1. i \in DOMAIN p.pairs \/ i = Len(p.pairs) + 1
    BY <1>1, <1>5
  <2>2. CASE i \in DOMAIN p.pairs
    <3>1. q.pairs[i] = p.pairs[i]
      BY <1>1, <1>5, <2>2
    <3>2. QED
      BY <1>5, <2>2, <3>1 DEF PlanOK
  <2>3. CASE i = Len(p.pairs) + 1
    <3>1. q.pairs[i] = [task |-> t, on |-> n]
      BY <1>1, <1>5, <2>3
    <3>2. QED
      BY <1>5, <3>1
  <2>4. QED
    BY <2>1, <2>2, <2>3
<1>12. QED
  BY <1>6, <1>7, <1>8, <1>9, <1>10, <1>11 DEF PlanOK, q

LEMMA EmptyIsAPlan ==
  ASSUME LaneTypeOK, NEW held \in SUBSET Tasks, Serialized(held), NEW candidates
  PROVE  PlanOK(Empty(held), held, candidates)
<1>1. \A r : Usage(r, held) \in Nat
  <2>1. \A r : {t \in held : RepositoryOf[t] = r} \in SUBSET Tasks
    OBVIOUS
  <2>2. QED
    BY <2>1, LaneConstants DEF Usage, InRepository
<1>2. free \in [Workers -> Nat]
  BY LaneTypes
<1>3. Empty(held) \in PlanState
  BY <1>1, <1>2 DEF Empty, PlanState
<1>4. \A r \in Repositories \ {Unscoped} : InRepository(r, held) <= Usage(r, held)
  BY <1>1 DEF Usage
<1>5. QED
  BY <1>3, <1>4 DEF Empty, PlanOK

\* The plan after each task of a ranking.
Planning(f, ranking, slow, held) ==
  f = [n \in 0..Len(ranking) |->
         IF n = 0 THEN Empty(held) ELSE Planned(f[n - 1], ranking[n], LaneBudget(slow, held))]

LEMMA PlanIsBuilt ==
  ASSUME LaneTypeOK, NEW held \in SUBSET Tasks, Serialized(held),
         NEW candidates \in SUBSET (Tasks \ held),
         NEW ranking \in Seq(candidates), NEW slow \in BOOLEAN
  PROVE  \E f : /\ Planning(f, ranking, slow, held)
                /\ \A n \in 0..Len(ranking) : PlanOK(f[n], held, candidates)
                /\ Plan(ranking, slow, held) = f[Len(ranking)].pairs
<1> DEFINE S == {p \in PlanState : PlanOK(p, held, candidates)}
           Step == [n \in 1..Len(ranking) |-> [p \in S |-> Planned(p, ranking[n], LaneBudget(slow, held))]]
           chosen == CHOOSE f : Planning(f, ranking, slow, held)
<1>1. Len(ranking) \in Nat /\ \A n \in 1..Len(ranking) : ranking[n] \in candidates
  OBVIOUS
<1>2. ASSUME NEW n \in 1..Len(ranking), NEW p \in S
      PROVE  Planned(p, ranking[n], LaneBudget(slow, held)) \in S
  <2>1. PlanOK(Planned(p, ranking[n], LaneBudget(slow, held)), held, candidates)
    BY <1>1, PlannedKeeps
  <2>2. QED
    BY <2>1 DEF PlanOK
<1>3. Step \in [1..Len(ranking) -> [S -> S]] /\ Empty(held) \in S
  BY <1>2, EmptyIsAPlan DEF PlanOK
<1>4. PICK f \in [0..Len(ranking) -> S] :
        f[0] = Empty(held) /\ \A n \in 1..Len(ranking) : f[n] = Step[n][f[n - 1]]
  <2> DEFINE last == Len(ranking)
             start == Empty(held)
  <2>1. last \in Nat /\ start \in S /\ Step \in [1..last -> [S -> S]]
    BY <1>1, <1>3
  <2> HIDE DEF S, Step, last, start
  <2>2. \E f : BuiltUp(f, S, start, last, Step)
    BY <2>1, StepsExist
  <2>3. QED
    BY <2>2 DEF last, start, BuiltUp
<1>5. \A n \in 0..Len(ranking) : n # 0 => n \in 1..Len(ranking) /\ n - 1 \in 0..Len(ranking)
  BY <1>1
<1>6. \A n \in 0..Len(ranking) : n # 0 =>
        f[n] = Planned(f[n - 1], ranking[n], LaneBudget(slow, held))
  <2>1. \A n \in 1..Len(ranking) : f[n - 1] \in S
    BY <1>1, <1>5
  <2>2. QED
    BY <1>4, <1>5, <2>1
<1>7. Planning(f, ranking, slow, held)
  <2> HIDE DEF Step, S
  <2>1. f = [n \in 0..Len(ranking) |->
             IF n = 0 THEN Empty(held) ELSE Planned(f[n - 1], ranking[n], LaneBudget(slow, held))]
    BY <1>1, <1>4, <1>6
  <2>2. QED
    BY <2>1 DEF Planning
<1>8. Planning(chosen, ranking, slow, held)
  BY <1>7
<1>9. Plan(ranking, slow, held) = chosen[Len(ranking)].pairs
  BY DEF Plan, Planning
<1> HIDE DEF chosen
<1>10. \A n \in 0..Len(ranking) : PlanOK(chosen[n], held, candidates)
  <2> DEFINE Sound == {n \in 0..Len(ranking) : PlanOK(chosen[n], held, candidates)}
  <2>1. 0 \in Sound
    BY <1>1, <1>8, EmptyIsAPlan DEF Planning
  <2>2. ASSUME NEW n \in 1..Len(ranking), n - 1 \in Sound PROVE n \in Sound
    <3>1. n \in 0..Len(ranking) /\ n # 0
      OBVIOUS
    <3>2. chosen[n] = Planned(chosen[n - 1], ranking[n], LaneBudget(slow, held))
      BY <1>8, <3>1 DEF Planning
    <3>3. PlanOK(chosen[n - 1], held, candidates)
      BY <2>2
    <3>4. PlanOK(chosen[n], held, candidates)
      BY <1>1, <3>2, <3>3, PlannedKeeps
    <3>5. QED
      BY <3>1, <3>4
  <2> HIDE DEF Sound
  <2>3. 0..Len(ranking) \subseteq Sound
    BY <1>1, <2>1, <2>2, NumbersUpTo
  <2>4. QED
    BY <2>3 DEF Sound
<1>11. QED
  BY <1>8, <1>9, <1>10

----------------------------------------------------------------------------
(* The claims that a dispatch makes of its plan. *)

WorkerMap == [Tasks -> Workers \cup {Nobody}]

Pairs == [task: Tasks, on: Workers]

\* Nothing is taken from its worker, and what is claimed was planned.
ClaimedFrom(v, w, pairs) ==
  /\ v \in WorkerMap /\ Held(w) \subseteq Held(v)
  /\ \A t \in Held(v) \ Held(w) : \E i \in DOMAIN pairs : pairs[i].task = t

LEMMA ClaimingKeeps ==
  ASSUME NEW w \in WorkerMap, NEW pairs \in Seq(Pairs), NEW v, ClaimedFrom(v, w, pairs),
         NEW i \in DOMAIN pairs
  PROVE  ClaimedFrom(Claiming(v, pairs[i]), w, pairs) /\ Held(v) \subseteq Held(Claiming(v, pairs[i]))
<1>1. pairs[i].task \in Tasks /\ pairs[i].on \in Workers /\ pairs[i].on # Nobody
  <2>1. pairs[i] \in Pairs
    OBVIOUS
  <2>2. QED
    BY <2>1, LaneConstants DEF Pairs
<1> DEFINE u == Claiming(v, pairs[i])
<1>2. u = v \/ u = [v EXCEPT ![pairs[i].task] = pairs[i].on]
  BY DEF Claiming
<1> HIDE DEF u
<1>3. u \in WorkerMap /\ Held(v) \subseteq Held(u) /\ Held(u) \subseteq Held(v) \cup {pairs[i].task}
  BY <1>1, <1>2 DEF ClaimedFrom, WorkerMap, Held
<1>4. QED
  BY <1>3 DEF ClaimedFrom, u

\* The claims after each pair.
Making(f, pairs, w) ==
  f = [n \in 0..Len(pairs) |-> IF n = 0 THEN w ELSE Claiming(f[n - 1], pairs[n])]

LEMMA ClaimsAreMade ==
  ASSUME NEW w \in WorkerMap, NEW pairs \in Seq(Pairs)
  PROVE  /\ ClaimedFrom(Claimed(pairs, w), w, pairs)
         /\ Held(w) = {} /\ pairs # <<>> => Held(Claimed(pairs, w)) # {}
<1> DEFINE S == {v \in WorkerMap : ClaimedFrom(v, w, pairs)}
           Step == [n \in 1..Len(pairs) |-> [v \in S |-> Claiming(v, pairs[n])]]
           chosen == CHOOSE f : Making(f, pairs, w)
           last == Len(pairs)
<1>1. last \in Nat /\ DOMAIN pairs = 1..last
  OBVIOUS
<1>2. ASSUME NEW n \in 1..last, NEW v \in S PROVE Claiming(v, pairs[n]) \in S
  <2>1. n \in DOMAIN pairs /\ ClaimedFrom(v, w, pairs)
    BY <1>1, <1>2
  <2>2. ClaimedFrom(Claiming(v, pairs[n]), w, pairs)
    BY <2>1, ClaimingKeeps
  <2>3. QED
    BY <2>2 DEF ClaimedFrom
<1>3. Step \in [1..last -> [S -> S]] /\ w \in S
  BY <1>2 DEF ClaimedFrom
<1>4. PICK f : BuiltUp(f, S, w, last, Step)
  <2> HIDE DEF S, Step, last
  <2>1. QED
    BY <1>1, <1>3, StepsExist
<1>5. \A n \in 0..last : n # 0 => n \in 1..last /\ n - 1 \in 0..last
  BY <1>1
<1>6. \A n \in 0..last : n # 0 => f[n] = Claiming(f[n - 1], pairs[n])
  <2>1. \A n \in 1..last : f[n - 1] \in S
    BY <1>1, <1>4, <1>5 DEF BuiltUp
  <2>2. QED
    BY <1>4, <1>5, <2>1 DEF BuiltUp
<1>7. Making(f, pairs, w)
  <2> HIDE DEF Step, S
  <2>1. f = [n \in 0..last |-> IF n = 0 THEN w ELSE Claiming(f[n - 1], pairs[n])]
    BY <1>1, <1>4, <1>6 DEF BuiltUp
  <2>2. QED
    BY <2>1 DEF Making
<1>8. Making(chosen, pairs, w)
  BY <1>7
<1>9. Claimed(pairs, w) = chosen[last]
  BY DEF Claimed, Making
<1> HIDE DEF chosen
<1>10. chosen[0] = w /\ \A n \in 1..last : chosen[n] = Claiming(chosen[n - 1], pairs[n])
  BY <1>1, <1>5, <1>8 DEF Making
<1> DEFINE Made == {n \in 0..last : /\ ClaimedFrom(chosen[n], w, pairs)
                                    /\ Held(w) = {} /\ n >= 1 => Held(chosen[n]) # {}}
<1>11. 0 \in Made
  BY <1>1, <1>10 DEF ClaimedFrom
<1>12. ASSUME NEW n \in 1..last, n - 1 \in Made PROVE n \in Made
  <2>1. /\ ClaimedFrom(chosen[n - 1], w, pairs)
        /\ chosen[n] = Claiming(chosen[n - 1], pairs[n])
        /\ ClaimedFrom(chosen[n], w, pairs)
        /\ Held(chosen[n - 1]) \subseteq Held(chosen[n])
    BY <1>1, <1>10, <1>12, ClaimingKeeps
  <2>2. ASSUME Held(w) = {} PROVE Held(chosen[n]) # {}
    <3>1. CASE n - 1 >= 1
      BY <1>12, <2>1, <2>2, <3>1
    <3>2. CASE n = 1
      <4>1. chosen[0] = w /\ chosen[n] = Claiming(w, pairs[n])
        BY <1>10, <2>1, <3>2
      <4>2. ScopesFree(pairs[n].task, w)
        BY <2>2 DEF ScopesFree
      <4>3. pairs[n].task \in Tasks /\ pairs[n].on \in Workers /\ pairs[n].on # Nobody
        <5>1. pairs[n] \in Pairs
          BY <1>1
        <5>2. QED
          BY <5>1, LaneConstants DEF Pairs
      <4>4. chosen[n][pairs[n].task] # Nobody
        BY <4>1, <4>2, <4>3 DEF Claiming, WorkerMap
      <4>5. QED
        BY <4>3, <4>4 DEF Held
    <3>3. QED
      BY <3>1, <3>2
  <2>3. QED
    BY <2>1, <2>2
<1> HIDE DEF Made
<1>13. 0..last \subseteq Made
  BY <1>1, <1>11, <1>12, NumbersUpTo
<1>14. last \in Made /\ (pairs # <<>> => last >= 1)
  BY <1>1, <1>13
<1>15. QED
  BY <1>9, <1>14 DEF Made

----------------------------------------------------------------------------
(* A dispatch. *)

LEMMA SweptFacts ==
  ASSUME LaneInv
  PROVE  /\ SweptWorker \in WorkerMap
         /\ Held(SweptWorker) = Held(worker) \ lapsed /\ Held(SweptWorker) \in SUBSET Tasks
         /\ Serialized(Held(SweptWorker))
         /\ \A t \in Tasks : /\ t \in Held(SweptWorker) => SweptState[t] = "CLAIMED"
                             /\ t \in lapsed => state[t] = "CLAIMED" /\ SweptState[t] = "READY"
                             /\ t \notin lapsed => SweptState[t] = state[t]
         /\ \A kind : Candidates(kind, SweptState, Held(SweptWorker))
                        \in SUBSET (Tasks \ Held(SweptWorker))
<1>1. /\ worker \in WorkerMap /\ lapsed \subseteq Held(worker)
      /\ \A t \in Tasks : state[t] = "CLAIMED" <=> worker[t] # Nobody
      /\ Serialized(Held(worker))
  BY DEF LaneInv, LaneTypeOK, WorkerMap, MutationIsSerialized, Serialized
<1>2. SweptWorker \in WorkerMap
  BY <1>1 DEF SweptWorker, WorkerMap
<1>3. Held(SweptWorker) = Held(worker) \ lapsed /\ Held(SweptWorker) \in SUBSET Tasks
  BY <1>1 DEF SweptWorker, Held
<1>4. Serialized(Held(SweptWorker))
  BY <1>1, <1>3 DEF Serialized
<1>5. ASSUME NEW t \in Tasks
      PROVE  /\ t \in Held(SweptWorker) => SweptState[t] = "CLAIMED"
             /\ t \in lapsed => state[t] = "CLAIMED" /\ SweptState[t] = "READY"
             /\ t \notin lapsed => SweptState[t] = state[t]
  BY <1>1, <1>3 DEF SweptState, Held
<1>6. \A kind : Candidates(kind, SweptState, Held(SweptWorker))
                  \in SUBSET (Tasks \ Held(SweptWorker))
  BY <1>5 DEF Candidates, Executable
<1>7. QED
  BY <1>2, <1>3, <1>4, <1>5, <1>6

LEMMA RankingIsASequence ==
  ASSUME LaneInv, NEW kind, NEW ranking \in Rankings(kind, SweptState, Held(SweptWorker))
  PROVE  /\ ranking \in Seq(Candidates(kind, SweptState, Held(SweptWorker)))
         /\ \A t \in Candidates(kind, SweptState, Held(SweptWorker)) :
              \E n \in 1..Len(ranking) : ranking[n] = t
<1> DEFINE C == Candidates(kind, SweptState, Held(SweptWorker))
           D == 1..Cardinality(C)
<1>1. C \in SUBSET Tasks /\ IsFiniteSet(C) /\ Cardinality(C) \in Nat
  BY SweptFacts, LaneConstants
<1>2. ranking \in [D -> C] /\ \A i, j \in D : i # j => ranking[i] # ranking[j]
  BY DEF Rankings, SetToSeqs
<1> HIDE DEF C
<1>3. ranking \in Seq(C) /\ Len(ranking) = Cardinality(C)
  BY <1>1, <1>2
<1>4. Cardinality(D) = Cardinality(C)
  BY <1>1, FS_Interval
<1>5. ranking \in Surjection(D, C)
  <2>1. ranking \in Injection(D, C)
    BY <1>2 DEF Injection, IsInjective
  <2>2. QED
    BY <1>1, <1>4, <2>1, FS_Injection
<1>6. \A t \in C : \E n \in D : ranking[n] = t
  BY <1>5 DEF Surjection
<1>7. QED
  BY <1>3, <1>6 DEF C

\* What a dispatch leaves held.
LEMMA DispatchClaims ==
  ASSUME LaneInv, NEW kind, NEW slow \in BOOLEAN, EndDispatch(kind, slow)
  PROVE  \E p : /\ PlanOK(p, Held(SweptWorker), Candidates(kind, SweptState, Held(SweptWorker)))
                /\ worker' \in WorkerMap
                /\ Held(SweptWorker) \subseteq Held(worker') /\ Held(worker') \subseteq p.held
<1> DEFINE held == Held(SweptWorker)
           candidates == Candidates(kind, SweptState, held)
<1>1. PICK ranking \in Rankings(kind, SweptState, held) :
        worker' = Claimed(Plan(ranking, slow, held), SweptWorker)
  BY DEF EndDispatch
<1>2. /\ LaneTypeOK /\ held \in SUBSET Tasks /\ Serialized(held)
      /\ candidates \in SUBSET (Tasks \ held) /\ ranking \in Seq(candidates)
  BY SweptFacts, RankingIsASequence DEF LaneInv
<1> HIDE DEF held, candidates
<1>3. PICK f : /\ \A n \in 0..Len(ranking) : PlanOK(f[n], held, candidates)
               /\ Plan(ranking, slow, held) = f[Len(ranking)].pairs
  BY <1>2, PlanIsBuilt
<1> DEFINE p == f[Len(ranking)]
<1>4. Len(ranking) \in 0..Len(ranking)
  BY <1>2
<1>5. PlanOK(p, held, candidates) /\ p.pairs \in Seq(Pairs)
  BY <1>3, <1>4 DEF PlanOK, PlanState, Pairs
<1>6. ClaimedFrom(worker', SweptWorker, p.pairs)
  BY <1>1, <1>3, <1>5, SweptFacts, ClaimsAreMade
<1> HIDE DEF p
<1>7. worker' \in WorkerMap /\ held \subseteq Held(worker') /\ Held(worker') \subseteq p.held
  BY <1>5, <1>6 DEF ClaimedFrom, PlanOK, held
<1>8. QED
  BY <1>5, <1>7 DEF held, candidates

LEMMA LaneInvInit == LaneInit => LaneInv
<1> SUFFICES ASSUME LaneInit PROVE LaneInv
  OBVIOUS
<1>1. Held(worker) = {}
  BY DEF LaneInit, Held
<1>2. policy \in Policies
  BY LaneConstants DEF LaneInit, Policies
<1>3. free \in [Workers -> Nat] /\ commands \in 0..MaxCommands
  BY LaneConstants, WorkersAssumption DEF LaneInit
<1>4. LaneTypeOK
  BY <1>1, <1>2, <1>3 DEF LaneInit, LaneTypeOK
<1>5. MutationIsSerialized
  BY <1>1 DEF MutationIsSerialized
<1>6. RepairsAreAwaited
  BY LaneConstants DEF LaneInit, RepairsAreAwaited
<1>7. QED
  BY <1>4, <1>5, <1>6 DEF LaneInv

LEMMA DispatchKeeps ==
  ASSUME LaneInv, NEW kind, NEW slow \in BOOLEAN, EndDispatch(kind, slow)
  PROVE  LaneInv'
<1>1. PICK p : /\ PlanOK(p, Held(SweptWorker), Candidates(kind, SweptState, Held(SweptWorker)))
               /\ worker' \in WorkerMap
               /\ Held(SweptWorker) \subseteq Held(worker') /\ Held(worker') \subseteq p.held
  BY DispatchClaims
<1>2. /\ LaneTypeOK /\ RepairsAreAwaited
      /\ \A t \in Tasks : /\ t \in Held(SweptWorker) => SweptState[t] = "CLAIMED"
                          /\ t \in lapsed => state[t] = "CLAIMED" /\ SweptState[t] = "READY"
                          /\ t \notin lapsed => SweptState[t] = state[t]
  BY SweptFacts DEF LaneInv
<1>3. \A t \in Tasks : t \in Held(worker') => SweptState[t] \in {"CLAIMED", "PLANNED", "READY"}
  BY <1>1, <1>2 DEF PlanOK, Candidates, Executable
<1>4. \A t \in Tasks : state'[t] = IF worker'[t] # Nobody THEN "CLAIMED" ELSE SweptState[t]
  BY DEF EndDispatch
<1>5. ASSUME NEW t \in Tasks, SweptState[t] = "CLAIMED" PROVE worker'[t] # Nobody
  <2>1. t \notin lapsed /\ state[t] = "CLAIMED" /\ worker[t] # Nobody
    BY <1>2, <1>5 DEF LaneTypeOK
  <2>2. t \in Held(SweptWorker)
    BY <2>1 DEF Held, SweptWorker
  <2>3. QED
    BY <1>1, <2>2 DEF Held
<1>6. LaneTypeOK'
  <2>1. state' \in [Tasks -> {"ABSENT", "PLANNED", "READY", "CLAIMED", "ACCEPTED", "BLOCKED", "FAILED"}]
    BY <1>2 DEF EndDispatch, SweptState, LaneTypeOK
  <2>2. \A t \in Tasks : state'[t] = "CLAIMED" <=> worker'[t] # Nobody
    BY <1>4, <1>5
  <2>3. worker' \in [Tasks -> Workers \cup {Nobody}]
    BY <1>1 DEF WorkerMap
  <2>4. lapsed' = {} /\ waiting' \subseteq waiting /\ UNCHANGED <<policy, free, commands>>
    BY DEF EndDispatch
  <2>5. QED
    BY <1>2, <2>1, <2>2, <2>3, <2>4 DEF LaneTypeOK
<1>7. MutationIsSerialized'
  <2>1. Serialized(Held(worker'))
    BY <1>1 DEF PlanOK, Serialized
  <2>2. QED
    BY <2>1 DEF MutationIsSerialized, Serialized
<1>8. RepairsAreAwaited'
  <2> SUFFICES ASSUME NEW r \in Repairs, state'[r] # "ABSENT"
               PROVE  state'[RepairOf[r]] \in {"BLOCKED", "ACCEPTED"}
    BY DEF RepairsAreAwaited
  <2>1. r \in Tasks /\ RepairOf[r] \in Tasks
    BY LaneConstants
  <2>2. SweptState[r] # "ABSENT"
    BY <1>3, <1>4, <2>1 DEF Held
  <2>3. state[r] # "ABSENT"
    BY <1>2, <2>1, <2>2
  <2>4. state[RepairOf[r]] \in {"BLOCKED", "ACCEPTED"}
    BY <1>2, <2>3 DEF RepairsAreAwaited
  <2>5. SweptState[RepairOf[r]] \in {"BLOCKED", "ACCEPTED"}
    BY <1>2, <2>1, <2>4
  <2>6. worker'[RepairOf[r]] = Nobody
    BY <1>3, <2>1, <2>5 DEF Held
  <2>7. QED
    BY <1>4, <2>1, <2>5, <2>6
<1>9. QED
  BY <1>6, <1>7, <1>8 DEF LaneInv

\* Fewer claims are serialized as well.
LEMMA ReleaseKeeps ==
  ASSUME MutationIsSerialized, Held(worker') \subseteq Held(worker)
  PROVE  MutationIsSerialized'
BY DEF MutationIsSerialized

LEMMA CompletionKeeps ==
  ASSUME LaneInv, NEW t \in Tasks, Accept(t) \/ Fail(t)
  PROVE  LaneInv'
<1>1. /\ LaneTypeOK /\ MutationIsSerialized /\ RepairsAreAwaited
      /\ state[t] = "CLAIMED" /\ t \in Held(worker) /\ t \notin lapsed
      /\ worker' = [worker EXCEPT ![t] = Nobody]
      /\ UNCHANGED <<lapsed, policy, free, waiting, commands>>
  BY DEF LaneInv, LaneTypeOK, Accept, Fail, Released, Held
<1>2. worker' \in [Tasks -> Workers \cup {Nobody}] /\ Held(worker') = Held(worker) \ {t}
  BY <1>1 DEF LaneTypeOK, Held
<1>3. \A r \in Repairs : RepairOf[r] = t => state[r] = "ABSENT"
  BY <1>1 DEF RepairsAreAwaited
<1>4. /\ state' \in [Tasks -> {"ABSENT", "PLANNED", "READY", "CLAIMED", "ACCEPTED", "BLOCKED", "FAILED"}]
      /\ \A u \in Tasks : state'[u] = "CLAIMED" <=> worker'[u] # Nobody
      /\ RepairsAreAwaited'
  <2>1. CASE Accept(t)
    <3> DEFINE S == {t} \cup {RepairOf[r] : r \in {t} \cap Repairs}
    <3>1. \A u \in Tasks : state'[u] = IF u \in S THEN "ACCEPTED" ELSE state[u]
      BY <2>1 DEF Accept
    <3>2. \A u \in S : u \in Tasks /\ (u # t => state[u] \in {"BLOCKED", "ACCEPTED"})
      BY <1>1, LaneConstants DEF RepairsAreAwaited
    <3>3. state' \in [Tasks -> {"ABSENT", "PLANNED", "READY", "CLAIMED", "ACCEPTED", "BLOCKED", "FAILED"}]
      BY <1>1, <2>1 DEF Accept, LaneTypeOK
    <3>4. t \in S
      OBVIOUS
    <3> HIDE DEF S
    <3>5. \A u \in Tasks : state'[u] = "CLAIMED" <=> worker'[u] # Nobody
      BY <1>1, <3>1, <3>2, <3>4 DEF LaneTypeOK
    <3>6. RepairsAreAwaited'
      <4> SUFFICES ASSUME NEW r \in Repairs, state'[r] # "ABSENT"
                   PROVE  state'[RepairOf[r]] \in {"BLOCKED", "ACCEPTED"}
        BY DEF RepairsAreAwaited
      <4>1. r \in Tasks /\ RepairOf[r] \in Tasks /\ state[r] # "ABSENT"
        BY <1>1, <3>1, <3>2, LaneConstants
      <4>2. QED
        BY <1>1, <3>1, <4>1 DEF RepairsAreAwaited
    <3>7. QED
      BY <3>3, <3>5, <3>6
  <2>2. CASE Fail(t) /\ state' = [state EXCEPT ![t] = "FAILED"]
    <3>1. QED
      BY <1>1, <1>3, <2>2, LaneConstants DEF LaneTypeOK, RepairsAreAwaited
  <2>3. CASE \E r \in Repairs : /\ RepairOf[r] = t /\ state[r] = "ABSENT"
                                /\ state' = [state EXCEPT ![t] = "BLOCKED", ![r] = "READY"]
    <3>1. PICK r \in Repairs : /\ RepairOf[r] = t /\ state[r] = "ABSENT"
                               /\ state' = [state EXCEPT ![t] = "BLOCKED", ![r] = "READY"]
      BY <2>3
    <3>2. r \in Tasks /\ r # t
      BY <1>1, <3>1, LaneConstants
    <3>3. /\ state' \in [Tasks -> {"ABSENT", "PLANNED", "READY", "CLAIMED", "ACCEPTED", "BLOCKED", "FAILED"}]
          /\ state'[t] = "BLOCKED" /\ state'[r] = "READY"
          /\ \A u \in Tasks \ {t, r} : state'[u] = state[u]
      BY <1>1, <3>1, <3>2 DEF LaneTypeOK
    <3>4. worker[r] = Nobody
      BY <1>1, <3>1, <3>2 DEF LaneTypeOK
    <3>5. \A u \in Tasks : state'[u] = "CLAIMED" <=> worker'[u] # Nobody
      BY <1>1, <3>2, <3>3, <3>4 DEF LaneTypeOK
    <3>6. RepairsAreAwaited'
      <4> SUFFICES ASSUME NEW x \in Repairs, state'[x] # "ABSENT"
                   PROVE  state'[RepairOf[x]] \in {"BLOCKED", "ACCEPTED"}
        BY DEF RepairsAreAwaited
      <4>1. x \in Tasks /\ RepairOf[x] \in Tasks
        BY LaneConstants
      <4>2. CASE x = r
        BY <3>1, <3>3, <4>2
      <4>3. CASE x # r
        <5>1. state[RepairOf[x]] \in {"BLOCKED", "ACCEPTED"}
          BY <1>1, <3>3, <4>1, <4>3 DEF RepairsAreAwaited
        <5>2. RepairOf[x] # t /\ RepairOf[x] # r
          BY <1>1, <3>1, <5>1
        <5>3. QED
          BY <3>3, <4>1, <5>1, <5>2
      <4>4. QED
        BY <4>2, <4>3
    <3>7. QED
      BY <3>3, <3>5, <3>6
  <2>4. QED
    BY <2>1, <2>2, <2>3 DEF Fail
<1>5. LaneTypeOK'
  BY <1>1, <1>2, <1>4 DEF LaneTypeOK
<1>6. QED
  BY <1>1, <1>2, <1>4, <1>5, ReleaseKeeps DEF LaneInv

LEMMA CommandKeeps ==
  ASSUME LaneInv, OperatorNext
  PROVE  LaneInv'
<1>1. policy \in Policies
  BY DEF LaneInv, LaneTypeOK
<1>2. /\ UNCHANGED <<state, worker, lapsed, free, waiting>>
      /\ policy' \in Policies
      /\ commands' \in 0..MaxCommands
  <2>1. ASSUME NEW next \in Policies, Command(next)
        PROVE  /\ UNCHANGED <<state, worker, lapsed, free, waiting>>
               /\ policy' \in Policies /\ commands' \in 0..MaxCommands
    BY <2>1, LaneConstants DEF Command, LaneInv, LaneTypeOK
  <2>2. /\ [policy EXCEPT !.paused = TRUE] \in Policies
        /\ [policy EXCEPT !.paused = FALSE] \in Policies
    BY <1>1 DEF Policies
  <2>3. ASSUME NEW r \in Repositories
        PROVE  /\ [policy EXCEPT !.frozen = @ \cup {r}] \in Policies
               /\ [policy EXCEPT !.frozen = @ \ {r}] \in Policies
               /\ [policy EXCEPT !.draining = @ \cup {r}] \in Policies
               /\ [policy EXCEPT !.draining = @ \ {r}] \in Policies
    BY <1>1 DEF Policies
  <2>4. ASSUME NEW r \in Repositories, NEW l \in LaneLimits
        PROVE  [policy EXCEPT !.limit[r] = l] \in Policies
    BY <1>1 DEF Policies
  <2>5. ASSUME NEW t \in Overridable, NEW a \in Adjustments \cup {0}
        PROVE  [policy EXCEPT !.override[t] = a] \in Policies
    BY <1>1 DEF Policies
  <2>6. CASE Pause \/ Resume
    BY <2>1, <2>2, <2>6 DEF Pause, Resume
  <2>7. CASE \E r \in Repositories \ {Unscoped} :
               \/ FreezeRepository(r) \/ ThawRepository(r) \/ DrainRepository(r) \/ ResumeRepository(r)
    BY <2>1, <2>3, <2>7 DEF FreezeRepository, ThawRepository, DrainRepository, ResumeRepository
  <2>8. CASE \E r \in Repositories \ {Unscoped}, l \in LaneLimits : SetLaneLimit(r, l)
    BY <2>1, <2>4, <2>8 DEF SetLaneLimit
  <2>9. CASE \E t \in Overridable, a \in Adjustments \cup {0} : SetPriorityOverride(t, a)
    BY <2>1, <2>5, <2>9 DEF SetPriorityOverride
  <2>10. CASE \E t \in Overridable : ExpireOverride(t)
    BY <2>5, <2>10 DEF ExpireOverride, LaneInv, LaneTypeOK
  <2>11. QED
    BY <2>6, <2>7, <2>8, <2>9, <2>10 DEF OperatorNext
<1>3. QED
  BY <1>2 DEF LaneInv, LaneTypeOK, MutationIsSerialized, RepairsAreAwaited

LEMMA LaneInvStep == LaneInv /\ [LaneNext]_laneVars => LaneInv'
<1> SUFFICES ASSUME LaneInv, [LaneNext]_laneVars PROVE LaneInv'
  OBVIOUS
<1>1. CASE \E kind \in Kinds : BeginDispatch(kind)
  BY <1>1 DEF BeginDispatch, LaneInv, LaneTypeOK, MutationIsSerialized, RepairsAreAwaited
<1>2. CASE \E kind \in Kinds, slow \in BOOLEAN : EndDispatch(kind, slow)
  BY <1>2, DispatchKeeps
<1>3. CASE \E t \in Tasks : Lapse(t)
  BY <1>3 DEF Lapse, LaneInv, LaneTypeOK, MutationIsSerialized, RepairsAreAwaited, Held
<1>4. CASE \E t \in Tasks : Accept(t) \/ Fail(t)
  BY <1>4, CompletionKeeps
<1>5. CASE \E n \in Workers : Report(n)
  <2>1. PICK n \in Workers : Report(n)
    BY <1>5
  <2>2. Load(n) \in Nat /\ Slots[n] \in Nat
    <3>1. {t \in Tasks : worker[t] = n} \in SUBSET Tasks
      OBVIOUS
    <3>2. QED
      BY <3>1, LaneConstants, WorkersAssumption DEF Load
  <2>3. free' \in [Workers -> Nat]
    BY <2>1, <2>2 DEF Report, Most, LaneInv, LaneTypeOK
  <2>4. QED
    BY <2>1, <2>3 DEF Report, LaneInv, LaneTypeOK, MutationIsSerialized, RepairsAreAwaited
<1>6. CASE OperatorNext
  BY <1>6, CommandKeeps
<1>7. CASE UNCHANGED laneVars
  BY <1>7 DEF laneVars, LaneInv, LaneTypeOK, MutationIsSerialized, RepairsAreAwaited, Held
<1>8. QED
  BY <1>1, <1>2, <1>3, <1>4, <1>5, <1>6, <1>7 DEF LaneNext

LEMMA LaneInductive == LaneSpec => []LaneInv
BY LaneInvInit, LaneInvStep, PTL DEF LaneSpec

\* Nothing that waits, lapses or is commanded between the start of a dispatch and its claims
\* puts two deployments or two members of a packet to work, and a task is CLAIMED exactly when
\* a worker holds it.
THEOREM LanesAreSerialized == LaneSpec => []LaneInvariant
<1>1. LaneInv => LaneInvariant
  BY DEF LaneInv, LaneInvariant
<1>2. QED
  BY <1>1, LaneInductive, PTL

----------------------------------------------------------------------------
(* What a dispatch starts. *)

LEMMA OnlyDispatchStarts ==
  ASSUME LaneInv, [LaneNext]_laneVars, NEW t \in Tasks, Starts(t)
  PROVE  \E kind \in Kinds, slow \in BOOLEAN : EndDispatch(kind, slow)
<1>1. ASSUME UNCHANGED <<worker, lapsed>> PROVE FALSE
  BY <1>1 DEF Starts, Held
<1>2. ~\E kind \in Kinds : BeginDispatch(kind)
  BY <1>1 DEF BeginDispatch
<1>3. ~\E u \in Tasks : Lapse(u)
  BY DEF Lapse, Starts, Held
<1>4. ~\E u \in Tasks : Accept(u) \/ Fail(u)
  <2> SUFFICES ASSUME NEW u \in Tasks, Accept(u) \/ Fail(u) PROVE FALSE
    OBVIOUS
  <2>1. worker' = [worker EXCEPT ![u] = Nobody] /\ lapsed' = lapsed
    BY DEF Accept, Fail, Released
  <2>2. Held(worker') \subseteq Held(worker)
    BY <2>1 DEF LaneInv, LaneTypeOK, Held
  <2>3. QED
    BY <2>1, <2>2 DEF Starts
<1>5. ~\E n \in Workers : Report(n)
  BY <1>1 DEF Report
<1>6. ~OperatorNext
  <2>1. OperatorNext => UNCHANGED <<worker, lapsed>>
    BY DEF OperatorNext, Pause, Resume, FreezeRepository, ThawRepository, DrainRepository,
           ResumeRepository, SetLaneLimit, SetPriorityOverride, ExpireOverride, Command
  <2>2. QED
    BY <1>1, <2>1
<1>7. ~UNCHANGED laneVars
  BY <1>1 DEF laneVars
<1>8. QED
  BY <1>2, <1>3, <1>4, <1>5, <1>6, <1>7 DEF LaneNext

ObeysPolicy(t) ==
  /\ RepositoryOf[t] \notin policy.frozen \cup policy.draining
  /\ RepositoryOf[t] # Unscoped => InRepository(RepositoryOf[t], Held(worker')) <= LimitOf(t)
  /\ Backlog(state) > MaxBacklog => StageOf[t] # "IMPLEMENTATION"

LEMMA StartsObey ==
  ASSUME LaneInv, NEW t \in Tasks, Starts(t),
         NEW kind, NEW slow \in BOOLEAN, EndDispatch(kind, slow)
  PROVE  ObeysPolicy(t)
<1> DEFINE held == Held(SweptWorker)
           r == RepositoryOf[t]
<1>1. PICK p : /\ PlanOK(p, held, Candidates(kind, SweptState, held))
               /\ Held(worker') \subseteq p.held
  BY DispatchClaims
<1>2. t \in p.held \ held /\ t \in Candidates(kind, SweptState, held)
  <2>1. t \in Held(worker') /\ t \notin held
    BY SweptFacts DEF Starts
  <2>2. QED
    BY <1>1, <2>1 DEF PlanOK
<1>3. PolicyAllows(t) /\ StageOf[t] \notin BlockedStages(SweptState)
  BY <1>2 DEF Candidates
<1>4. Backlog(SweptState) = Backlog(state)
  <2>1. \A u \in Tasks : SweptState[u] = "BLOCKED" <=> state[u] = "BLOCKED"
    BY SweptFacts
  <2>2. QED
    BY <2>1 DEF Backlog
<1>5. ASSUME r # Unscoped PROVE InRepository(r, Held(worker')) <= LimitOf(t)
  <2>1. r \in Repositories \ {Unscoped} /\ LimitOf(t) \in Nat
    BY <1>5, LaneConstants, LaneTypes DEF LaneInv
  <2>2. p.held \in SUBSET Tasks /\ p.used[r] \in Nat
    BY <1>1, <2>1 DEF PlanOK, PlanState
  <2>3. InRepository(r, p.held) <= p.used[r] /\ p.used[r] <= LimitOf(t)
    BY <1>1, <1>2, <2>1 DEF PlanOK
  <2> DEFINE those == {u \in p.held : RepositoryOf[u] = r}
             started == {u \in Held(worker') : RepositoryOf[u] = r}
  <2>4. started \in SUBSET those /\ those \in SUBSET Tasks /\ started \in SUBSET Tasks
    BY <1>1, <2>2
  <2> HIDE DEF those, started
  <2>5. /\ Cardinality(started) <= Cardinality(those)
        /\ Cardinality(started) \in Nat /\ Cardinality(those) \in Nat
    BY <2>4, LaneConstants, FS_Subset
  <2>6. InRepository(r, Held(worker')) = Cardinality(started) /\ InRepository(r, p.held) = Cardinality(those)
    BY DEF InRepository, started, those
  <2>7. QED
    BY <2>1, <2>2, <2>3, <2>5, <2>6
<1>6. QED
  BY <1>3, <1>4, <1>5 DEF ObeysPolicy, PolicyAllows, BlockedStages

\* Whatever the operator commanded and the fleet reported since a dispatch began, what it
\* starts is within the policy and the backlog at the moment it starts it.
THEOREM StartsObeyPolicy == LaneSpec => ClaimsObeyPolicy
<1> DEFINE Obeyed == \A t \in Tasks : Starts(t) => ObeysPolicy(t)
<1>1. LaneInv /\ [LaneNext]_laneVars => [Obeyed]_laneVars
  BY OnlyDispatchStarts, StartsObey
<1>2. LaneSpec => [][Obeyed]_laneVars
  BY <1>1, LaneInductive, PTL DEF LaneSpec
<1>3. QED
  BY <1>2 DEF ClaimsObeyPolicy, ObeysPolicy

----------------------------------------------------------------------------
(* An idle fleet. *)

LEMMA FreeSlotsAreCounted ==
  ASSUME LaneInv
  PROVE  /\ TotalFree \in Nat
         /\ \A n \in Workers : free[n] > 0 => TotalFree > 0
<1>1. free \in [Workers -> Nat] /\ IsFiniteSet(Workers)
  BY LaneTypes, LaneAssumption DEF LaneInv
<1>2. CASE Workers = {}
  <2>1. \A x : x \notin FreeSlots
    BY <1>2 DEF FreeSlots
  <2>2. FreeSlots = {}
    BY <2>1
  <2>3. QED
    BY <1>2, <2>2, FS_EmptySet DEF TotalFree
<1>3. CASE Workers # {}
  <2>1. PICK m \in Workers : \A n \in Workers : free[n] <= free[m]
    BY <1>1, <1>3, MostIsFound
  <2>2. free[m] \in Nat /\ \A n \in Workers : free[n] \in Nat
    BY <1>1
  <2>3. FreeSlots \subseteq Workers \X (1..free[m])
    BY <2>1, <2>2 DEF FreeSlots
  <2>4. IsFiniteSet(Workers \X (1..free[m]))
    <3>1. 1 \in Int /\ free[m] \in Int
      BY <2>2
    <3>2. IsFiniteSet(1..free[m])
      BY <3>1, FS_Interval
    <3>3. QED
      BY <1>1, <3>2, FS_Product
  <2>5. IsFiniteSet(FreeSlots)
    BY <2>3, <2>4, FS_Subset
  <2>6. \A n \in Workers : free[n] > 0 => FreeSlots # {}
    <3> SUFFICES ASSUME NEW n \in Workers, free[n] > 0 PROVE FreeSlots # {}
      OBVIOUS
    <3>1. <<n, 1>> \in {n} \X (1..free[n])
      BY <2>2
    <3>2. QED
      BY <3>1 DEF FreeSlots
  <2>7. QED
    BY <2>5, <2>6, FS_CardinalityType, FS_EmptySet DEF TotalFree
<1>4. QED
  BY <1>2, <1>3

LEMMA IdleFleetHasLanes ==
  ASSUME LaneInv, NEW slow, NEW n \in Workers, free[n] > 0
  PROVE  LaneBudget(slow, {}) \in Nat \ {0}
<1>1. TotalFree \in Nat \ {0}
  BY FreeSlotsAreCounted
<1>2. Baseline \in Nat /\ Baseline * Multiplier \in Nat
  BY LaneConstants
<1> DEFINE concurrency == IF slow THEN Baseline ELSE Baseline * Multiplier
<1>3. concurrency \in Nat
  BY <1>2
<1> HIDE DEF concurrency
<1>4. Allowed(slow) \in Nat
  <2>1. Allowed(slow) = Least(concurrency, TotalFree)
    BY DEF Allowed, concurrency
  <2>2. QED
    BY <1>1, <1>3, <2>1 DEF Least
<1>5. TotalLaneLimit(slow) \in Nat \ {0}
  BY <1>4 DEF TotalLaneLimit, Most
<1>6. AdaptiveLimit(slow) \in Nat \ {0}
  BY <1>1, <1>5 DEF AdaptiveLimit, Least
<1>7. Cardinality({}) = 0
  BY FS_EmptySet
<1>8. QED
  BY <1>5, <1>6, <1>7 DEF LaneBudget, Least, Most

LEMMA AppendedIsNotEmpty ==
  ASSUME NEW S, NEW s \in Seq(S), NEW e \in S
  PROVE  Append(s, e) # <<>>
<1>1. Len(Append(s, e)) = Len(s) + 1 /\ Len(s) \in Nat /\ Len(<<>>) = 0
  OBVIOUS
<1>2. QED
  BY <1>1

LEMMA PlannedGrows ==
  ASSUME NEW p \in PlanState, NEW t \in Tasks, NEW budget
  PROVE  /\ Planned(p, t, budget) = p \/ Planned(p, t, budget).pairs # <<>>
         /\ Fits(p, t, budget) => Planned(p, t, budget).pairs # <<>>
<1> SUFFICES ASSUME Fits(p, t, budget) PROVE Planned(p, t, budget).pairs # <<>>
  BY DEF Planned
<1> DEFINE pair == [task |-> t, on |-> Suitable(p, t)]
<1>1. p.pairs \in Seq([task: Tasks, on: Workers])
  BY DEF PlanState
<1>2. Suitable(p, t) \in Workers
  BY SuitableIsEligible DEF Fits
<1>3. pair \in [task: Tasks, on: Workers]
  BY <1>2
<1>4. Planned(p, t, budget).pairs = Append(p.pairs, pair)
  BY DEF Planned, PlanState
<1> HIDE DEF pair
<1>5. Append(p.pairs, pair) # <<>>
  BY <1>1, <1>3, AppendedIsNotEmpty
<1>6. QED
  BY <1>4, <1>5

LEMMA FirstChoiceFits ==
  ASSUME LaneInv, NEW t \in Tasks, LimitOf(t) > 0, NEW slow,
         NEW n \in Workers, free[n] > 0, t \in CanRun[n]
  PROVE  Fits(Empty({}), t, LaneBudget(slow, {}))
<1>1. Len(Empty({}).pairs) < LaneBudget(slow, {})
  BY IdleFleetHasLanes DEF Empty
<1>2. DeploymentFree(t, Empty({}).held) /\ PacketFree(t, Empty({}).held)
  BY DEF Empty, DeploymentFree, PacketFree
<1>3. Empty({}).used[RepositoryOf[t]] < LimitOf(t)
  <2>1. {u \in {} : RepositoryOf[u] = RepositoryOf[t]} = {}
    OBVIOUS
  <2>2. Usage(RepositoryOf[t], {}) = 0
    BY <2>1, FS_EmptySet DEF Usage, InRepository
  <2>3. Empty({}).used[RepositoryOf[t]] = Usage(RepositoryOf[t], {})
    BY LaneConstants DEF Empty
  <2>4. QED
    BY <2>2, <2>3
<1>4. n \in Eligible(Empty({}), t)
  BY DEF Empty, Eligible
<1>5. QED
  BY <1>1, <1>2, <1>3, <1>4 DEF Fits

LEMMA IdlePlanIsNotEmpty ==
  ASSUME LaneInv, NEW kind, NEW slow \in BOOLEAN, Held(SweptWorker) = {},
         NEW ranking \in Rankings(kind, SweptState, Held(SweptWorker)),
         NEW t \in Candidates(kind, SweptState, {}), LimitOf(t) > 0,
         NEW n \in Workers, free[n] > 0, t \in CanRun[n]
  PROVE  Plan(ranking, slow, {}) \in Seq(Pairs) /\ Plan(ranking, slow, {}) # <<>>
<1> DEFINE candidates == Candidates(kind, SweptState, {})
           last == Len(ranking)
           budget == LaneBudget(slow, {})
<1>1. /\ candidates \in SUBSET (Tasks \ {}) /\ ranking \in Seq(candidates)
      /\ \E k \in 1..last : ranking[k] = t
  BY SweptFacts, RankingIsASequence
<1>2. Serialized({}) /\ LaneTypeOK
  BY DEF Serialized, LaneInv
<1> HIDE DEF candidates
<1>3. PICK f : /\ Planning(f, ranking, slow, {})
               /\ \A i \in 0..last : PlanOK(f[i], {}, candidates)
               /\ Plan(ranking, slow, {}) = f[last].pairs
  BY <1>1, <1>2, PlanIsBuilt
<1>4. PICK k \in 1..last : ranking[k] = t
  BY <1>1
<1>5. last \in Nat /\ \A i \in 1..last : ranking[i] \in Tasks
  BY <1>1
<1>6. /\ f[0] = Empty({})
      /\ \A i \in 1..last : f[i] = Planned(f[i - 1], ranking[i], budget)
  BY <1>3, <1>5 DEF Planning
<1>7. \A i \in 0..last : f[i] \in PlanState
  BY <1>3 DEF PlanOK
<1>8. Fits(Empty({}), t, budget)
  BY <1>4, <1>5, FirstChoiceFits
<1> HIDE DEF last, budget
<1> DEFINE Grown == {i \in 0..last : \/ f[i].pairs # <<>>
                                     \/ f[i] = Empty({}) /\ i < k}
<1>9. 0 \in Grown
  BY <1>4, <1>5, <1>6
<1>10. ASSUME NEW i \in 1..last, i - 1 \in Grown PROVE i \in Grown
  <2>1. f[i - 1] \in PlanState /\ ranking[i] \in Tasks
    BY <1>5, <1>7, <1>10
  <2>2. /\ f[i] = f[i - 1] \/ f[i].pairs # <<>>
        /\ Fits(f[i - 1], ranking[i], budget) => f[i].pairs # <<>>
    BY <1>6, <2>1, PlannedGrows
  <2>3. CASE f[i - 1].pairs # <<>>
    BY <2>2, <2>3, <1>5
  <2>4. CASE f[i - 1] = Empty({}) /\ i - 1 < k
    <3>1. i = k => f[i].pairs # <<>>
      BY <1>4, <1>8, <2>2, <2>4
    <3>2. i # k => i < k
      BY <1>4, <1>5, <2>4
    <3>3. QED
      BY <2>2, <2>4, <3>1, <3>2, <1>5
  <2>5. QED
    BY <1>10, <2>3, <2>4
<1> HIDE DEF Grown
<1>11. last \in Grown
  <2>1. 0..last \subseteq Grown
    BY <1>5, <1>9, <1>10, NumbersUpTo
  <2>2. QED
    BY <1>5, <2>1
<1>12. f[last].pairs # <<>>
  BY <1>4, <1>5, <1>11 DEF Grown
<1>13. f[last].pairs \in Seq(Pairs)
  <2>1. f[last] \in PlanState
    BY <1>5, <1>7
  <2>2. QED
    BY <2>1 DEF PlanState, Pairs
<1>14. QED
  BY <1>3, <1>12, <1>13

StartsInIdleFleet ==
  \A kind \in waiting \ waiting' :
    /\ Held(SweptWorker) = {}
    /\ \E t \in Candidates(kind, SweptState, {}) :
         LimitOf(t) > 0 /\ \E n \in Workers : free[n] > 0 /\ t \in CanRun[n]
    => Held(worker') # {}

LEMMA DispatchUsesIdleFleet ==
  ASSUME LaneInv, NEW kind, NEW slow \in BOOLEAN, EndDispatch(kind, slow),
         Held(SweptWorker) = {},
         NEW t \in Candidates(kind, SweptState, {}), LimitOf(t) > 0,
         NEW n \in Workers, free[n] > 0, t \in CanRun[n]
  PROVE  Held(worker') # {}
<1>1. PICK ranking \in Rankings(kind, SweptState, Held(SweptWorker)) :
        worker' = Claimed(Plan(ranking, slow, Held(SweptWorker)), SweptWorker)
  BY DEF EndDispatch
<1> DEFINE pairs == Plan(ranking, slow, {})
<1>2. pairs \in Seq(Pairs) /\ pairs # <<>>
  BY IdlePlanIsNotEmpty
<1>3. worker' = Claimed(pairs, SweptWorker) /\ SweptWorker \in WorkerMap
  BY <1>1, SweptFacts
<1> HIDE DEF pairs
<1>4. QED
  BY <1>2, <1>3, ClaimsAreMade

\* Whatever stands before it in the ranking, a task that may start gets a lane when nothing
\* else runs: what cannot be planned costs neither a lane nor a slot.
THEOREM IdleFleetsStartWork == LaneSpec => IdleFleetIsUsed
<1>1. ASSUME LaneInv, [LaneNext]_laneVars, NEW kind \in waiting \ waiting'
      PROVE  \E slow \in BOOLEAN : EndDispatch(kind, slow)
  <2>1. ~(waiting \subseteq waiting')
    BY <1>1
  <2>2. PICK k \in Kinds, slow \in BOOLEAN : EndDispatch(k, slow)
    BY <1>1, <2>1
    DEF LaneNext, laneVars, BeginDispatch, Lapse, Accept, Fail, Report, OperatorNext, Pause, Resume,
        FreezeRepository, ThawRepository, DrainRepository, ResumeRepository, SetLaneLimit,
        SetPriorityOverride, ExpireOverride, Command
  <2>3. k = kind
    BY <1>1, <2>2 DEF EndDispatch
  <2>4. QED
    BY <2>2, <2>3
<1>2. LaneInv /\ [LaneNext]_laneVars => [StartsInIdleFleet]_laneVars
  BY <1>1, DispatchUsesIdleFleet DEF StartsInIdleFleet
<1>3. LaneSpec => [][StartsInIdleFleet]_laneVars
  BY <1>2, LaneInductive, PTL DEF LaneSpec
<1>4. QED
  BY <1>3 DEF IdleFleetIsUsed, StartsInIdleFleet
=============================================================================
