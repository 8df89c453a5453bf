-------------------------- MODULE MicroShardsProofs --------------------------
(***************************************************************************)
(* The invariants of MicroShards for every number of shards.               *)
(***************************************************************************)
EXTENDS MicroShards, FiniteSetTheorems, SequenceTheorems, TLAPS

----------------------------------------------------------------------------
(* The inductive invariant. *)

GraphOK(g) == g.state \in [Tasks -> States] /\ g.needs \in HotDependencies /\ g.proof \subseteq Tasks

SessionType == [state: SessionStates, bundles: SUBSET Shards]

\* A parent is not dispatched, and accepted after its composition only, in memory and in the file.
AfterComposition(s) ==
  s[Parent] # "CLAIMED" /\ (s[Parent] = "ACCEPTED" => s[Composition] = "ACCEPTED")

FilesOK ==
  \/ files = NoFiles
  \/ /\ files = [kept |-> TRUE, graph |-> files.graph, session |-> files.session]
     /\ GraphOK(files.graph) /\ files.session \in SessionType
     /\ AfterComposition(files.graph.state)

MicroTypes ==
  /\ GraphOK(Graph) /\ session \in SessionType
  /\ at \in {"IDLE", "ROWS", "SUBMIT", "COMPOSE", "CONCLUDE"}
  /\ rows \subseteq [task: Tasks, action: Actions]
  /\ lost \in BOOLEAN /\ troubles \in 0..MaxTroubles

\* What the rows say of their tasks.
RowsAreTrue ==
  /\ at = "IDLE" => rows = {}
  /\ \A r \in rows :
       /\ state[r.task] # "NONE"
       /\ r.action = "TERMINATE" => state[r.task] = "FAILED"
  /\ at = "ROWS" => \A i \in Shards : {Row(Shard(i), "TERMINATE"), Row(ShardRepair(i), "TERMINATE")}
                                         \cap rows # {} => state[Shard(i)] \in {"BLOCKED", "FAILED"}

\* The session has the bundles of accepted shards, of all of them once it is past collecting,
\* and the composition comes after that.
BundlesAreProven ==
  /\ \A i \in session.bundles : Shard(i) \in proof /\ state[Shard(i)] = "ACCEPTED"
  /\ session.state \in {"READY_TO_COMPOSE", "COMPOSED", "ACCEPTED"} => session.bundles = Shards
  /\ session.state = "COLLECTING" => session.bundles # Shards
  /\ session.state = "READY_TO_COMPOSE" => at = "COMPOSE"
  /\ IF state[Composition] = "NONE" THEN session.state \notin {"COMPOSED", "ACCEPTED"}
     ELSE session.bundles = Shards /\ session.state \in {"COMPOSED", "ACCEPTED", "FAILED"}

\* What is under repair waits for the repair.
RepairsAreAwaited == \A r \in Repairs : Live(r) => state[Target(r)] = "BLOCKED"

\* A shard that ended without its bundle in the session is still to be seen by the coordinator.
ShardsAreSeen ==
  \A i \in Shards \ session.bundles :
    /\ state[Shard(i)] = "ACCEPTED" /\ session.state # "FAILED" =>
         at \in {"ROWS", "SUBMIT"} /\ {Row(Shard(i), "ACCEPT"), Row(ShardRepair(i), "ACCEPT")} \cap rows # {}
    /\ state[Shard(i)] = "FAILED" =>
         session.state = "FAILED" \/ (at = "ROWS" /\ Row(Shard(i), "TERMINATE") \in rows)

\* The parent, its shards and the session go together.
ParentFollows ==
  /\ IF session.state = "NONE" THEN state[Parent] = "READY"
     ELSE state[Parent] \in {"BLOCKED", "ACCEPTED", "FAILED"}
  /\ \A i \in Shards : session.state = "NONE" <=> state[Shard(i)] = "NONE"
  /\ session.state = "ACCEPTED" =>
       state[Parent] = "ACCEPTED" /\ state[Composition] = "ACCEPTED" /\ ~Refused
  /\ state[Parent] = "FAILED" => session.state = "FAILED" /\ state[Composition] = "NONE"
  /\ session.state = "FAILED" /\ state[Parent] # "FAILED" =>
       state[Composition] # "NONE" /\ bisection.stage # "NONE"
  /\ state[Parent] = "ACCEPTED" => {Composition} \cup ShardTasks \subseteq proof

\* The end of a composition is still to be seen by the coordinator, unless its repair was it.
VerdictIsSeen ==
  session.state = "COMPOSED" /\ state[CompositionRepair] # "ACCEPTED" =>
    /\ state[Composition] = "ACCEPTED" => Row(Composition, "ACCEPT") \in rows
    /\ state[Composition] = "FAILED" => Row(Composition, "TERMINATE") \in rows

\* A bisection that waits has a probe to wait for.
ProbeIsAwaited ==
  bisection.answer = "AWAITED" =>
    Live(Probe) \/ (at = "ROWS" /\ \E r \in rows : r.task = Probe)

TracesFollow ==
  \A i \in Shards :
    IF session.state = "NONE" THEN trace[i] = <<>>
    ELSE IF i \in session.bundles THEN trace[i] = NewTraces[i] \o Verified
    ELSE \/ trace[i] = NewTraces[i]
         \/ /\ trace[i] = NewTraces[i] \o <<"rejected">>
            /\ state[Shard(i)] = "FAILED" /\ state[Parent] = "FAILED"

\* What holds as long as nothing went past the coordinator.
NothingLost ==
  /\ RowsAreTrue /\ BundlesAreProven /\ RepairsAreAwaited /\ ShardsAreSeen /\ ParentFollows
  /\ VerdictIsSeen /\ ProbeIsAwaited /\ TracesFollow

\* The bisection and its type.
Stages == {"NONE", "RECHECK", "CHUNKS", "COMPLEMENTS", "DONE"}
Answers == {"NONE", "AWAITED", "PASS", "FAIL"}
PartNumbers == 2..ShardCount
ChunkNumbers == Nat \ {0}
FoundType == [SUBSET Shards -> {"NONE", "PASS", "FAIL"}]
BisectionType == [stage: Stages, failing: SUBSET Shards, parts: PartNumbers, chunk: ChunkNumbers,
                  answer: Answers, found: FoundType]

\* While it searches, it has a batch of several shards that failed and parts of it to try; of
\* the complements it tried, all passed; the shards it blames fail only together.
Searching(b) ==
  /\ Cardinality(b.failing) > 1 /\ b.found[b.failing] = "FAIL"
  /\ Chunk(b, b.chunk) # {}

ComplementsPass(b, last) == \A j \in 1..last : b.found[b.failing \ Chunk(b, j)] = "PASS"

Minimal(b) ==
  b.failing # {} =>
    /\ b.found[b.failing] = "FAIL"
    /\ \A i \in b.failing : Cardinality(b.failing) > 1 => b.found[b.failing \ {i}] = "PASS"

Probed(b) ==
  /\ b.stage = "RECHECK" => b.parts = 2 /\ b.chunk = 1
  /\ b.stage \in {"CHUNKS", "COMPLEMENTS"} => Searching(b)
  /\ b.stage = "COMPLEMENTS" => ComplementsPass(b, b.chunk - 1)
  /\ b.stage = "DONE" => Minimal(b)

BisectionOK ==
  /\ bisection \in BisectionType /\ Probed(bisection)
  /\ bisection.answer = "NONE" <=> bisection.stage \in {"NONE", "DONE"}

Kept == MicroTypes /\ AfterComposition(state) /\ FilesOK

SInv == Kept /\ BisectionOK /\ (~lost => NothingLost)

----------------------------------------------------------------------------
(* The names of the tasks. *)

\* The kinds tell the tasks apart, and the numbers those of a kind.
LEMMA TaskKinds ==
  /\ Parent.kind = "parent" /\ Composition.kind = "composition" /\ Probe.kind = "probe"
  /\ CompositionRepair.kind = "composition repair"
  /\ \A i : /\ Shard(i).kind = "shard" /\ Shard(i).n = i
            /\ ShardRepair(i).kind = "shard repair" /\ ShardRepair(i).n = i
BY DEF Parent, Composition, CompositionRepair, Probe, Shard, ShardRepair

LEMMA TasksDiffer ==
  /\ Parent \notin ShardTasks \cup Repairs \cup Repaired \cup {Composition, Probe}
  /\ Composition \notin ShardTasks \cup Repairs \cup {Probe}
  /\ Probe \notin ShardTasks \cup Repairs \cup Repaired
  /\ ShardTasks \cap Repairs = {} /\ Repaired \cap Repairs = {}
  /\ \A i, j : Shard(i) = Shard(j) => i = j
  /\ \A i, j : ShardRepair(i) = ShardRepair(j) => i = j
  /\ \A i : /\ ShardRepair(i) # CompositionRepair /\ ShardRepair(i) \notin ShardTasks
            /\ ShardRepair(i) # Composition /\ ShardRepair(i) # Parent /\ ShardRepair(i) # Probe
            /\ Shard(i) # CompositionRepair /\ Shard(i) # Composition
            /\ Shard(i) # Parent /\ Shard(i) # Probe
<1>1. /\ Parent # Composition /\ Parent # Probe /\ Parent # CompositionRepair
      /\ Composition # Probe /\ Composition # CompositionRepair /\ Probe # CompositionRepair
  BY TaskKinds
<1>2. \A i : /\ ShardRepair(i) # CompositionRepair /\ ShardRepair(i) # Composition
             /\ ShardRepair(i) # Parent /\ ShardRepair(i) # Probe
             /\ Shard(i) # CompositionRepair /\ Shard(i) # Composition
             /\ Shard(i) # Parent /\ Shard(i) # Probe
  BY TaskKinds
<1>3. \A i, j : ShardRepair(i) # Shard(j)
  BY TaskKinds
<1>4. \A i, j : /\ Shard(i) = Shard(j) => i = j
                /\ ShardRepair(i) = ShardRepair(j) => i = j
  BY Zenon DEF Shard, ShardRepair
<1>5. \A t \in ShardTasks : \E i \in Shards : t = Shard(i)
  BY DEF ShardTasks
<1>6. \A t \in Repairs : t = CompositionRepair \/ \E i \in Repairable : t = ShardRepair(i)
  BY DEF Repairs
<1>7. \A t \in Repaired : t = Composition \/ \E i \in Repairable : t = Shard(i)
  BY DEF Repaired
<1>8. /\ Parent \notin ShardTasks \cup Repairs \cup Repaired \cup {Composition, Probe}
      /\ Composition \notin ShardTasks \cup Repairs \cup {Probe}
      /\ Probe \notin ShardTasks \cup Repairs \cup Repaired
  BY <1>1, <1>2, <1>5, <1>6, <1>7
<1>9. ShardTasks \cap Repairs = {} /\ Repaired \cap Repairs = {}
  BY <1>1, <1>2, <1>3, <1>5, <1>6, <1>7
<1>10. \A i : ShardRepair(i) \notin ShardTasks
  BY <1>3, <1>5
<1>11. QED
  BY <1>1, <1>2, <1>4, <1>8, <1>9, <1>10

LEMMA TaskNames ==
  /\ {Parent, Composition, CompositionRepair, Probe} \subseteq Tasks /\ ShardTasks \subseteq Tasks
  /\ Repairs \subseteq Tasks /\ Repaired \subseteq Tasks /\ CompositionRepair \in Repairs
  /\ \A i \in Repairable : i \in Shards /\ ShardRepair(i) \in Repairs
  /\ \A i \in Shards : Shard(i) \in ShardTasks
<1>1. Repairable \subseteq Shards
  BY BoundAssumption DEF Shards
<1>2. QED
  BY <1>1 DEF Tasks, Repairs, Repaired, ShardTasks

LEMMA RepairNames ==
  /\ Target(CompositionRepair) = Composition /\ RepairFor(Composition) = CompositionRepair
  /\ \A i : Target(ShardRepair(i)) = Shard(i) /\ RepairFor(Shard(i)) = ShardRepair(i)
  /\ \A t \in Repaired : RepairFor(t) \in Repairs /\ Target(RepairFor(t)) = t
  /\ \A r \in Repairs : Target(r) \in Repaired /\ RepairFor(Target(r)) = r
<1>1. /\ Target(CompositionRepair) = Composition /\ RepairFor(Composition) = CompositionRepair
      /\ \A i : Target(ShardRepair(i)) = Shard(i) /\ RepairFor(Shard(i)) = ShardRepair(i)
  BY TaskKinds, TasksDiffer DEF Target, RepairFor
<1>2. QED
  BY <1>1 DEF Repairs, Repaired


----------------------------------------------------------------------------
(* What holds always. *)

LEMMA KeptFacts ==
  ASSUME Kept
  PROVE  /\ state \in [Tasks -> States] /\ needs \in HotDependencies /\ proof \subseteq Tasks
         /\ session \in SessionType
         /\ at \in {"IDLE", "ROWS", "SUBMIT", "COMPOSE", "CONCLUDE"}
         /\ rows \subseteq [task: Tasks, action: Actions]
         /\ lost \in BOOLEAN /\ troubles \in 0..MaxTroubles /\ AfterComposition(state)
         /\ MaxTroubles \in Nat /\ \A t \in Tasks : state[t] \in States
BY BoundAssumption DEF Kept, MicroTypes, GraphOK, Graph

LEMMA KeptUnlessFiles ==
  ASSUME Kept, state' \in [Tasks -> States], needs' \in HotDependencies, proof' \subseteq Tasks,
         session' \in SessionType, at' \in {"IDLE", "ROWS", "SUBMIT", "COMPOSE", "CONCLUDE"},
         rows' \subseteq [task: Tasks, action: Actions],
         lost' \in BOOLEAN, troubles' \in 0..MaxTroubles, AfterComposition(state'), UNCHANGED files
  PROVE  Kept'
BY DEF Kept, MicroTypes, FilesOK, GraphOK, Graph

\* A task that is not accepted, other than the parent, changes its state.
LEMMA MoveIsKept ==
  ASSUME Kept, NEW t \in Tasks, NEW s \in States, t # Parent, state[t] # "ACCEPTED"
  PROVE  /\ [state EXCEPT ![t] = s] \in [Tasks -> States]
         /\ AfterComposition([state EXCEPT ![t] = s])
BY TaskNames DEF Kept, MicroTypes, GraphOK, Graph, AfterComposition

LEMMA InitIsKept == MicroInit => Kept
<1> SUFFICES ASSUME MicroInit PROVE Kept
  OBVIOUS
<1>1. [i \in Shards |-> {}] \in HotDependencies
  BY DEF HotDependencies
<1>2. state \in [Tasks -> States] /\ state[Parent] = "READY"
  BY TaskNames DEF MicroInit, States
<1>3. session \in SessionType
  BY DEF MicroInit, NoSession, SessionType, SessionStates
<1>4. FilesOK
  BY DEF MicroInit, NoFiles, FilesOK
<1>5. MicroTypes
  <2>1. GraphOK(Graph)
    BY <1>1, <1>2 DEF MicroInit, GraphOK, Graph
  <2>2. at = "IDLE" /\ rows = {} /\ lost = FALSE /\ troubles = 0
    BY DEF MicroInit
  <2>3. lost \in BOOLEAN
    BY <2>2
  <2>4. troubles \in 0..MaxTroubles /\ rows \subseteq [task: Tasks, action: Actions]
    BY <2>2, BoundAssumption
  <2>5. QED
    BY <1>3, <2>1, <2>2, <2>3, <2>4 DEF MicroTypes
<1>6. QED
  BY <1>2, <1>4, <1>5 DEF Kept, AfterComposition

\* Dispatch, claims that end, the gate and results that are posted.
LEMMA TaskStepsAreKept ==
  ASSUME Kept, NEW t \in Tasks,
         Dispatch(t) \/ TakeBack(t) \/ ReleaseByOperator(t) \/ PostResult(t)
  PROVE  Kept'
<1>1. PICK s \in {"CLAIMED", "READY", "BLOCKED", "ACCEPTED"} : Becomes(t, s)
  BY DEF Dispatch, TakeBack, ReleaseByOperator, PostResult
<1>2. /\ state[t] # "ACCEPTED" /\ t # Parent
      /\ lost' \in BOOLEAN /\ troubles' \in 0..MaxTroubles
  <2>1. state[t] # "ACCEPTED" /\ t # Parent
    BY DEF Kept, AfterComposition, Dispatch, TakeBack, ReleaseByOperator, PostResult, Executable
  <2>2. lost' \in BOOLEAN
    BY KeptFacts DEF Dispatch, TakeBack, ReleaseByOperator, PostResult
  <2>3. troubles' = troubles \/ (troubles < MaxTroubles /\ troubles' = troubles + 1)
    BY DEF Dispatch, TakeBack, ReleaseByOperator, PostResult, InTrouble
  <2>4. QED
    BY <2>1, <2>2, <2>3, KeptFacts
<1>3. [state EXCEPT ![t] = s] \in [Tasks -> States] /\ AfterComposition([state EXCEPT ![t] = s])
  BY <1>2, MoveIsKept DEF States
<1>4. QED
  BY <1>1, <1>2, <1>3, KeptFacts, KeptUnlessFiles DEF Becomes


\* The results of a tick.
LEMMA ReportsAreKept ==
  ASSUME Kept, NEW t \in Tasks,
         ReportAccepted(t) \/ ReportRepair(t) \/ ReportSetAside(t) \/ ReportTerminated(t)
  PROVE  Kept'
<1>1. PICK action \in Actions : Reported(t, action)
  BY DEF ReportAccepted, ReportRepair, ReportSetAside, ReportTerminated, Actions
<1>2. rows' \subseteq [task: Tasks, action: Actions]
  BY <1>1, KeptFacts DEF Reported, Row
<1>3. t # Parent /\ state[t] = "CLAIMED"
  BY <1>1 DEF Kept, AfterComposition, Reported
<1>4. troubles' \in 0..MaxTroubles
  <2>1. troubles' = troubles \/ (troubles < MaxTroubles /\ troubles' = troubles + 1)
    BY DEF ReportAccepted, ReportRepair, ReportSetAside, ReportTerminated, InTrouble
  <2>2. QED
    BY <2>1, KeptFacts
<1>5. /\ state' \in [Tasks -> States] /\ proof' \subseteq Tasks
      /\ AfterComposition(state')
  <2>1. CASE ReportAccepted(t)
    <3> DEFINE closed == {t} \cup {Target(t) : r \in {t} \cap Repairs}
    <3>1. Parent \notin closed /\ closed \subseteq Tasks
      BY <1>3, TaskNames, RepairNames, TasksDiffer
    <3>2. /\ state' = [u \in Tasks |-> IF u \in closed THEN "ACCEPTED" ELSE state[u]]
          /\ proof' = proof \cup closed \/ proof' = proof \ closed
      BY <2>1 DEF ReportAccepted
    <3>3. state' \in [Tasks -> States] /\ proof' \subseteq Tasks
      BY <3>1, <3>2, KeptFacts DEF States
    <3>4. AfterComposition(state')
      BY <3>1, <3>2, TaskNames, KeptFacts DEF AfterComposition
    <3>5. QED
      BY <3>3, <3>4
  <2>2. CASE ReportRepair(t)
    <3>1. CASE t \in Repaired
      <4>1. RepairFor(t) \in Tasks \ {Parent, Composition} /\ state[t] # "ACCEPTED"
        BY <1>3, <3>1, TaskNames, RepairNames, TasksDiffer
      <4>2. state' = [state EXCEPT ![t] = "BLOCKED", ![RepairFor(t)] = "READY"] /\ proof' = proof
        BY <2>2, <3>1 DEF ReportRepair
      <4>3. state' \in [Tasks -> States]
        BY <4>1, <4>2, KeptFacts DEF States
      <4>4. AfterComposition(state')
        BY <1>3, <4>1, <4>2, TaskNames, KeptFacts DEF AfterComposition
      <4>5. QED
        BY <4>2, <4>3, <4>4, KeptFacts
    <3>2. CASE t \notin Repaired
      <4>1. state' = [state EXCEPT ![t] = "BLOCKED"] /\ proof' = proof
        BY <2>2, <3>2 DEF ReportRepair
      <4>2. QED
        BY <1>3, <4>1, MoveIsKept, KeptFacts DEF States
    <3>3. QED
      BY <3>1, <3>2
  <2>3. CASE ReportSetAside(t)
    BY <1>3, <2>3, MoveIsKept, KeptFacts DEF ReportSetAside, States
  <2>4. CASE ReportTerminated(t)
    BY <1>3, <2>4, MoveIsKept, KeptFacts DEF ReportTerminated, States
  <2>5. QED
    BY <2>1, <2>2, <2>3, <2>4
<1>6. QED
  BY <1>1, <1>2, <1>4, <1>5, KeptFacts, KeptUnlessFiles DEF Reported

LEMMA GateThrowsIsKept ==
  ASSUME Kept, NEW t \in Tasks, GateThrows(t)
  PROVE  Kept'
<1>1. /\ state' = [state EXCEPT ![t] = "ACCEPTED"] /\ t # Parent /\ state[t] = "CLAIMED"
      /\ at' = "IDLE" /\ rows' = {} /\ lost' = TRUE
      /\ UNCHANGED <<needs, proof, session, files, troubles>>
  BY TasksDiffer DEF GateThrows, Throw
<1>2. state' \in [Tasks -> States] /\ AfterComposition(state')
  BY <1>1, MoveIsKept DEF States
<1>3. QED
  BY <1>1, <1>2, KeptFacts, KeptUnlessFiles

LEMMA MaterializeIsKept ==
  ASSUME Kept, Materialize
  PROVE  Kept'
<1>1. session' = [state |-> "COLLECTING", bundles |-> {}] /\ session' \in SessionType
  BY DEF Materialize, SessionType, SessionStates
<1>2. /\ state' = [t \in Tasks |-> IF t = Parent THEN "BLOCKED"
                                   ELSE IF t \in ShardTasks THEN "READY" ELSE state[t]]
      /\ needs' \in HotDependencies
      /\ UNCHANGED <<proof, at, rows, lost, troubles, files>>
  BY DEF Materialize
<1>3. state' \in [Tasks -> States] /\ AfterComposition(state')
  BY <1>2, TaskNames, KeptFacts DEF States, AfterComposition
<1>4. QED
  BY <1>1, <1>2, <1>3, KeptFacts, KeptUnlessFiles

LEMMA SessionStepsAreTyped ==
  ASSUME session \in SessionType
  PROVE  /\ FailedSession \in SessionType /\ \A c \in BOOLEAN : ComposedSession(c) \in SessionType
         /\ \A B \in SUBSET Shards : Submitted(B) \in SessionType
         /\ \A s \in SessionStates : [session EXCEPT !.state = s] \in SessionType
BY DEF SessionType, SessionStates, FailedSession, ComposedSession, Submitted

\* The passes of the coordinator up to the composition.
LEMMA PassesAreKept ==
  ASSUME Kept,
         PassFailures \/ PassAccepted \/ PassAcceptedThrows \/ PassComposition \/ PassCompositionThrows
  PROVE  Kept'
<1>1. CASE PassFailures
  <2>1. /\ at' = "SUBMIT" /\ UNCHANGED <<needs, proof, rows, lost, troubles, files>>
    BY <1>1 DEF PassFailures
  <2>2. CASE UNCHANGED <<state, session>>
    BY <2>1, <2>2, KeptFacts, KeptUnlessFiles
  <2>3. CASE ~UNCHANGED <<state, session>>
    <3>1. PICK r \in Doomed :
            /\ session' = FailedSession
            /\ state' = [state EXCEPT ![Shard(r.task.n)] = "FAILED",
                                      ![Parent] = IF @ = "ACCEPTED" THEN @ ELSE "FAILED"]
      BY <1>1, <2>3 DEF PassFailures
    <3>2. Shard(r.task.n) # Composition /\ Shard(r.task.n) # Parent
      BY TasksDiffer
    <3>3. state' \in [Tasks -> States]
      BY <3>1, KeptFacts DEF States
    <3>4. AfterComposition(state')
      BY <3>1, <3>2, TaskNames, TasksDiffer, KeptFacts DEF AfterComposition
    <3>5. session' \in SessionType
      BY <3>1, KeptFacts, SessionStepsAreTyped
    <3>6. QED
      BY <2>1, <3>3, <3>4, <3>5, KeptFacts, KeptUnlessFiles
  <2>4. QED
    BY <2>2, <2>3
<1>2. Candidates \subseteq Shards
  BY DEF Candidates
<1>3. CASE PassAccepted
  <2>1. session' \in SessionType
    BY <1>2, <1>3, KeptFacts, SessionStepsAreTyped DEF PassAccepted
  <2>2. at' \in {"COMPOSE", "CONCLUDE"} /\ UNCHANGED <<state, needs, proof, rows, lost, troubles, files>>
    BY <1>3 DEF PassAccepted, graphVars
  <2>3. QED
    BY <2>1, <2>2, KeptFacts, KeptUnlessFiles
<1>4. CASE PassAcceptedThrows
  <2>1. PICK before \in SUBSET Candidates :
          session' = IF session.state \in {"NONE", "FAILED"} THEN session ELSE Submitted(before)
    BY <1>4 DEF PassAcceptedThrows
  <2>2. session' \in SessionType
    BY <1>2, <2>1, KeptFacts, SessionStepsAreTyped
  <2>3. at' = "IDLE" /\ rows' = {} /\ lost' = TRUE /\ UNCHANGED <<state, needs, proof, troubles, files>>
    BY <1>4 DEF PassAcceptedThrows, Throw, graphVars
  <2>4. QED
    BY <2>2, <2>3, KeptFacts, KeptUnlessFiles
<1>5. CASE PassComposition
  <2>1. at' = "CONCLUDE" /\ UNCHANGED <<needs, proof, rows, lost, troubles, files>>
    BY <1>5 DEF PassComposition
  <2>2. CASE Composable
    <3>1. session' = ComposedSession(FALSE) /\ state' = [state EXCEPT ![Composition] = "READY"]
          /\ state[Composition] = "NONE"
      BY <1>5, <2>2 DEF PassComposition, Composable
    <3>2. state' \in [Tasks -> States] /\ AfterComposition(state')
      BY <3>1, MoveIsKept, TaskNames, TasksDiffer DEF States
    <3>3. QED
      BY <2>1, <3>1, <3>2, KeptFacts, SessionStepsAreTyped, KeptUnlessFiles
  <2>3. CASE ~Composable
    BY <1>5, <2>1, <2>3, KeptFacts, KeptUnlessFiles DEF PassComposition
  <2>4. QED
    BY <2>2, <2>3
<1>6. CASE PassCompositionThrows
  <2>1. at' = "IDLE" /\ rows' = {} /\ lost' = TRUE /\ UNCHANGED <<state, needs, proof, troubles, files>>
        /\ session' = ComposedSession(TRUE)
    BY <1>6 DEF PassCompositionThrows, Throw, graphVars
  <2>2. QED
    BY <2>1, KeptFacts, SessionStepsAreTyped, KeptUnlessFiles
<1>7. QED
  BY <1>1, <1>3, <1>4, <1>5, <1>6

LEMMA VerdictsAreKept ==
  ASSUME Kept, AcceptParent \/ AcceptParentThrows \/ RefuseParent \/ EndTick \/ ContinueBisection
  PROVE  Kept'
<1>1. CASE AcceptParent
  <2>1. /\ session' = IF session.state = "COMPOSED" THEN [session EXCEPT !.state = "ACCEPTED"] ELSE session
        /\ state' = [state EXCEPT ![Parent] = "ACCEPTED"] /\ state[Composition] = "ACCEPTED"
        /\ at' = "IDLE" /\ rows' = {} /\ UNCHANGED <<needs, proof, lost, troubles, files>>
    BY <1>1 DEF AcceptParent, Concluded, Accepted
  <2>2. session' \in SessionType
    BY <2>1, KeptFacts, SessionStepsAreTyped DEF SessionStates
  <2>3. state' \in [Tasks -> States] /\ AfterComposition(state')
    BY <2>1, KeptFacts, TaskNames, TasksDiffer DEF States, AfterComposition
  <2>4. QED
    BY <2>1, <2>2, <2>3, KeptFacts, KeptUnlessFiles
<1>2. CASE AcceptParentThrows
  BY <1>2, KeptFacts, KeptUnlessFiles DEF AcceptParentThrows, Throw, graphVars
<1>3. CASE RefuseParent
  <2>1. /\ session' = session \/ session' = [session EXCEPT !.state = "FAILED"]
        /\ state' = [state EXCEPT ![Parent] = "BLOCKED", ![Probe] = "READY"]
           \/ state' = [state EXCEPT ![Parent] = "BLOCKED"]
        /\ at' = "IDLE" /\ rows' = {} /\ UNCHANGED <<needs, proof, lost, troubles, files>>
    BY <1>3 DEF RefuseParent
  <2>2. session' \in SessionType
    BY <2>1, KeptFacts, SessionStepsAreTyped DEF SessionStates
  <2>3. state' \in [Tasks -> States] /\ AfterComposition(state')
    BY <2>1, KeptFacts, TaskNames, TasksDiffer DEF States, AfterComposition
  <2>4. QED
    BY <2>1, <2>2, <2>3, KeptFacts, KeptUnlessFiles
<1>4. CASE EndTick
  BY <1>4, KeptFacts, KeptUnlessFiles DEF EndTick, graphVars
<1>5. CASE ContinueBisection
  <2>1. /\ state' = state \/ state' = [state EXCEPT ![Probe] = "READY"]
        /\ UNCHANGED <<needs, proof, session, at, rows, lost, troubles, files>>
    BY <1>5 DEF ContinueBisection
  <2>2. state' \in [Tasks -> States] /\ AfterComposition(state')
    BY <2>1, KeptFacts, TaskNames, TasksDiffer DEF States, AfterComposition
  <2>3. QED
    BY <2>1, <2>2, KeptFacts, KeptUnlessFiles
<1>6. QED
  BY <1>1, <1>2, <1>3, <1>4, <1>5

LEMMA FileStepsAreKept ==
  ASSUME Kept, StartTick \/ Save \/ Restart
  PROVE  Kept'
<1>1. CASE StartTick
  <2>1. /\ UNCHANGED <<state, needs, proof, session, rows, lost, troubles>> /\ at' = "ROWS"
        /\ files' = NoFiles \/ files' = Written
    BY <1>1 DEF StartTick, graphVars
  <2>2. FilesOK'
    <3>1. CASE files' = NoFiles
      BY <3>1 DEF NoFiles, FilesOK
    <3>2. CASE files' = Written
      BY <3>2 DEF Written, FilesOK, Kept, MicroTypes, Graph
    <3>3. QED
      BY <2>1, <3>1, <3>2
  <2>3. QED
    BY <2>1, <2>2 DEF Kept, MicroTypes, GraphOK, Graph
<1>2. CASE Save
  <2>1. /\ UNCHANGED <<state, needs, proof, session, at, rows, lost, troubles>> /\ files.kept
        /\ \/ files' = [files EXCEPT !.graph = Graph]
           \/ files' = [files EXCEPT !.session = session]
    BY <1>2 DEF Save, graphVars
  <2>2. /\ files = [kept |-> TRUE, graph |-> files.graph, session |-> files.session]
        /\ GraphOK(files.graph) /\ files.session \in SessionType
        /\ AfterComposition(files.graph.state)
    BY <2>1 DEF Kept, FilesOK, NoFiles
  <2>3. FilesOK'
    <3>1. \/ files' = [kept |-> TRUE, graph |-> Graph, session |-> files.session]
          \/ files' = [kept |-> TRUE, graph |-> files.graph, session |-> session]
      BY <2>1, <2>2
    <3>2. GraphOK(Graph) /\ AfterComposition(Graph.state) /\ session \in SessionType
      BY DEF Kept, MicroTypes, Graph
    <3>3. QED
      BY <2>2, <3>1, <3>2 DEF FilesOK
  <2>4. QED
    BY <2>1, <2>3 DEF Kept, MicroTypes, GraphOK, Graph
<1>3. CASE Restart
  <2>1. /\ files.kept /\ GraphOK(files.graph) /\ files.session \in SessionType
        /\ AfterComposition(files.graph.state)
    BY <1>3 DEF Restart, Kept, FilesOK, NoFiles
  <2>2. /\ state' = [t \in Tasks |-> IF files.graph.state[t] = "CLAIMED" THEN "READY"
                                     ELSE files.graph.state[t]]
        /\ needs' = files.graph.needs /\ proof' = files.graph.proof /\ session' = files.session
        /\ at' = "IDLE" /\ rows' = {} /\ lost' = TRUE /\ files' = NoFiles /\ UNCHANGED troubles
    BY <1>3 DEF Restart
  <2>3. state' \in [Tasks -> States] /\ AfterComposition(state')
    BY <2>1, <2>2, TaskNames DEF States, AfterComposition, GraphOK
  <2>4. FilesOK'
    BY <2>2 DEF NoFiles, FilesOK
  <2>5. MicroTypes'
    <3>1. GraphOK(Graph)'
      BY <2>1, <2>2, <2>3 DEF GraphOK, Graph
    <3>2. session' \in SessionType /\ lost' \in BOOLEAN
      BY <2>1, <2>2
    <3>3. troubles' \in 0..MaxTroubles /\ rows' \subseteq [task: Tasks, action: Actions]
      BY <2>2, KeptFacts
    <3>4. QED
      BY <2>2, <3>1, <3>2, <3>3 DEF MicroTypes
  <2>6. QED
    BY <2>3, <2>4, <2>5 DEF Kept
<1>4. QED
  BY <1>1, <1>2, <1>3

\* The types, and acceptance after composition, through every step.
LEMMA KeptNext ==
  ASSUME Kept, [MicroNext]_microVars
  PROVE  Kept'
<1>1. CASE UNCHANGED microVars
  BY <1>1 DEF microVars, graphVars, Kept, MicroTypes, GraphOK, Graph, FilesOK
<1>2. CASE MicroNext
  <2>1. CASE Materialize
    BY <2>1, MaterializeIsKept
  <2>2. CASE StartTick \/ Save \/ Restart
    BY <2>2, FileStepsAreKept
  <2>3. CASE Coordinate
    BY <2>3, PassesAreKept, VerdictsAreKept DEF Coordinate
  <2>4. CASE \E t \in Tasks : \/ Dispatch(t) \/ TakeBack(t) \/ ReleaseByOperator(t) \/ PostResult(t)
    BY <2>4, TaskStepsAreKept
  <2>5. CASE \E t \in Tasks : \/ ReportAccepted(t) \/ ReportRepair(t) \/ ReportSetAside(t)
                              \/ ReportTerminated(t)
    BY <2>5, ReportsAreKept
  <2>6. CASE \E t \in Tasks : GateThrows(t)
    BY <2>6, GateThrowsIsKept
  <2>7. QED
    BY <1>2, <2>1, <2>2, <2>3, <2>4, <2>5, <2>6 DEF MicroNext
<1>3. QED
  BY <1>1, <1>2

----------------------------------------------------------------------------
(* What holds as long as nothing is lost: the steps of a task between two ticks. *)

LEMMA ShardNames == \A i \in Shards : Shard(i) \in Tasks /\ Shard(i) \in ShardTasks
BY TaskNames

\* Work that can go on, goes on or waits changes between the three.
LEMMA LiveMove ==
  ASSUME Kept, NothingLost, NEW t \in Tasks \ {Parent}, NEW s \in {"READY", "CLAIMED", "BLOCKED"},
         Live(t), Becomes(t, s), t \in Repaired /\ Live(RepairFor(t)) => s = "BLOCKED"
  PROVE  NothingLost'
<1>1. /\ state'[t] = s /\ \A u \in Tasks : u # t => state'[u] = state[u]
      /\ at = "IDLE" /\ rows = {} /\ UNCHANGED <<needs, proof, session, at, rows, bisection, trace>>
  BY KeptFacts DEF Becomes, NothingLost, RowsAreTrue
<1>2. \A u \in Tasks : state'[u] = state[u] \/ (Live(u) /\ Live(u)')
  BY <1>1 DEF Live
<1>3. /\ state'[Parent] = state[Parent]
      /\ \A u \in Tasks : \A x \in {"NONE", "ACCEPTED", "FAILED"} : state'[u] = x <=> state[u] = x
  BY <1>1, <1>2, TaskNames DEF Live
<1>4. RowsAreTrue'
  BY <1>1 DEF RowsAreTrue
<1>5. BundlesAreProven'
  BY <1>1, <1>3, ShardNames, TaskNames, KeptFacts DEF NothingLost, BundlesAreProven, SessionType
<1>6. RepairsAreAwaited'
  <2> SUFFICES ASSUME NEW r \in Repairs, Live(r)' PROVE state'[Target(r)] = "BLOCKED"
    BY DEF RepairsAreAwaited
  <2>1. state[Target(r)] = "BLOCKED"
    BY <1>2, TaskNames DEF NothingLost, RepairsAreAwaited, Live
  <2>2. CASE Target(r) = t
    BY <1>1, <1>2, <2>2, RepairNames, TaskNames DEF Live
  <2>3. CASE Target(r) # t
    BY <1>1, <2>1, <2>3, RepairNames, TaskNames
  <2>4. QED
    BY <2>2, <2>3
<1>7. ShardsAreSeen'
  BY <1>1, <1>3, ShardNames DEF NothingLost, ShardsAreSeen
<1>8. ParentFollows'
  BY <1>1, <1>3, ShardNames, TaskNames DEF NothingLost, ParentFollows, Refused, Found
<1>9. VerdictIsSeen'
  BY <1>1, <1>3, TaskNames DEF NothingLost, VerdictIsSeen
<1>10. ProbeIsAwaited'
  BY <1>1, <1>2, TaskNames DEF NothingLost, ProbeIsAwaited, Live
<1>11. TracesFollow'
  BY <1>1, <1>3, ShardNames DEF NothingLost, TracesFollow
<1>12. QED
  BY <1>4, <1>5, <1>6, <1>7, <1>8, <1>9, <1>10, <1>11 DEF NothingLost

LEMMA TaskStepsLoseNothing ==
  ASSUME Kept, ~lost => NothingLost, NEW t \in Tasks, ~lost',
         Dispatch(t) \/ TakeBack(t) \/ ReleaseByOperator(t) \/ PostResult(t)
  PROVE  NothingLost'
<1>1. CASE Dispatch(t)
  <2>1. Becomes(t, "CLAIMED") /\ state[t] = "READY" /\ t # Parent /\ ~lost
    BY <1>1 DEF Dispatch, Executable
  <2>2. t \in Repaired => ~Live(RepairFor(t))
    BY <2>1, RepairNames DEF NothingLost, RepairsAreAwaited
  <2>3. QED
    BY <2>1, <2>2, LiveMove DEF Live
<1>2. CASE TakeBack(t)
  <2>1. PICK s \in {"READY", "BLOCKED"} : Becomes(t, s)
    BY <1>2 DEF TakeBack
  <2>2. state[t] = "CLAIMED" /\ t # Parent /\ ~lost
    BY <1>2 DEF TakeBack, Kept, AfterComposition
  <2>3. t \in Repaired => ~Live(RepairFor(t))
    BY <2>2, RepairNames DEF NothingLost, RepairsAreAwaited
  <2>4. QED
    BY <2>1, <2>2, <2>3, LiveMove DEF Live
<1>3. CASE ReleaseByOperator(t)
  BY <1>3, LiveMove DEF ReleaseByOperator, Live
<1>4. CASE PostResult(t)
  BY <1>4 DEF PostResult
<1>5. QED
  BY <1>1, <1>2, <1>3, <1>4

----------------------------------------------------------------------------
(* What holds as long as nothing is lost: the results of a tick. *)

LEMMA RowNames ==
  /\ \A t, u, a, b : Row(t, a) = Row(u, b) => t = u /\ a = b
  /\ \A t, a : Row(t, a).task = t /\ Row(t, a).action = a
  /\ \A i : ShardRepair(i) \in Tasks => ShardRepair(i) \in Repairs
  /\ \A t \in Repairs : \A i : Target(t) = Shard(i) => t = ShardRepair(i)
<1>1. \A t, u, a, b : Row(t, a) = Row(u, b) => t = u /\ a = b
  BY Zenon DEF Row
<1>2. \A t, a : Row(t, a).task = t /\ Row(t, a).action = a
  BY DEF Row
<1>3. \A i : ShardRepair(i) \in Tasks => ShardRepair(i) \in Repairs
  BY TasksDiffer DEF Tasks
<1>4. \A t \in Repairs : \A i : Target(t) = Shard(i) => t = ShardRepair(i)
  BY RepairNames
<1>5. QED
  BY <1>1, <1>2, <1>3, <1>4

LEMMA AcceptedIsSeen ==
  ASSUME Kept, NothingLost, NEW t \in Tasks, ReportAccepted(t)
  PROVE  NothingLost'
<1> DEFINE closed == {t} \cup {Target(t) : r \in {t} \cap Repairs}
<1>1. /\ at = "ROWS" /\ rows' = rows \cup {Row(t, "ACCEPT")} /\ state[t] = "CLAIMED"
      /\ t \in Repairs => state[Target(t)] = "BLOCKED"
      /\ UNCHANGED <<session, at, bisection, trace>>
  BY DEF ReportAccepted, Reported, Heeded
<1>2. /\ state' = [u \in Tasks |-> IF u \in closed THEN "ACCEPTED" ELSE state[u]]
      /\ proof \ closed \subseteq proof'
  BY DEF ReportAccepted
<1>3. \A u \in closed : state[u] \in {"CLAIMED", "BLOCKED"}
  BY <1>1
<1>4. closed \subseteq Tasks /\ \A u \in closed : u = t \/ (t \in Repairs /\ u = Target(t))
  BY TaskNames, RepairNames
<1> HIDE DEF closed
<1>5. \A u \in Tasks : /\ u \notin closed => state'[u] = state[u]
                       /\ u \in closed => state'[u] = "ACCEPTED" /\ state[u] \in {"CLAIMED", "BLOCKED"}
  BY <1>2, <1>3
<1>6. /\ Parent \notin closed /\ t # Parent
      /\ \A u \in Tasks : state'[u] = "NONE" <=> state[u] = "NONE"
      /\ \A u \in Tasks : state[u] \in {"ACCEPTED", "FAILED"} => u \notin closed /\ state'[u] = state[u]
      /\ \A u \in Tasks : state'[u] = "FAILED" => state[u] = "FAILED"
  BY <1>1, <1>4, <1>5, TaskNames, RepairNames, TasksDiffer DEF Kept, AfterComposition
<1>7. RowsAreTrue'
  <2>1. \A r \in rows' : /\ state'[r.task] # "NONE"
                         /\ r.action = "TERMINATE" => state'[r.task] = "FAILED"
    <3> SUFFICES ASSUME NEW r \in rows'
                 PROVE  /\ state'[r.task] # "NONE"
                        /\ r.action = "TERMINATE" => state'[r.task] = "FAILED"
      OBVIOUS
    <3>1. CASE r \in rows
      BY <1>6, <3>1, KeptFacts DEF NothingLost, RowsAreTrue
    <3>2. CASE r = Row(t, "ACCEPT")
      BY <1>1, <1>6, <3>2, RowNames
    <3>3. QED
      BY <1>1, <3>1, <3>2
  <2>2. ASSUME NEW i \in Shards,
               {Row(Shard(i), "TERMINATE"), Row(ShardRepair(i), "TERMINATE")} \cap rows' # {}
        PROVE  state'[Shard(i)] \in {"BLOCKED", "FAILED"}
    <3>1. Row(Shard(i), "TERMINATE") \in rows \/ Row(ShardRepair(i), "TERMINATE") \in rows
      BY <1>1, <2>2, RowNames
    <3>2. /\ state[Shard(i)] \in {"BLOCKED", "FAILED"}
          /\ state[Shard(i)] = "FAILED" \/ state[ShardRepair(i)] = "FAILED"
      BY <1>1, <3>1, RowNames DEF NothingLost, RowsAreTrue
    <3>3. Shard(i) \notin closed
      BY <1>1, <1>4, <3>2, RowNames
    <3>4. QED
      BY <1>5, <3>2, <3>3, ShardNames
  <2>3. QED
    BY <1>1, <2>1, <2>2 DEF RowsAreTrue
<1>8. BundlesAreProven'
  BY <1>1, <1>2, <1>6, ShardNames, TaskNames, KeptFacts DEF NothingLost, BundlesAreProven, SessionType
<1>9. RepairsAreAwaited'
  <2> SUFFICES ASSUME NEW r \in Repairs, Live(r)' PROVE state'[Target(r)] = "BLOCKED"
    BY DEF RepairsAreAwaited
  <2>1. r \notin closed /\ Live(r) /\ r # t
    BY <1>1, <1>2, <1>5, TaskNames DEF Live, closed
  <2>2. state[Target(r)] = "BLOCKED"
    BY <2>1 DEF NothingLost, RepairsAreAwaited
  <2>3. Target(r) \notin closed
    BY <1>1, <1>4, <2>1, <2>2, RepairNames
  <2>4. QED
    BY <1>5, <2>2, <2>3, RepairNames, TaskNames
<1>10. ShardsAreSeen'
  <2> SUFFICES ASSUME NEW i \in Shards \ session.bundles
               PROVE  /\ state'[Shard(i)] = "ACCEPTED" /\ session.state # "FAILED" =>
                           {Row(Shard(i), "ACCEPT"), Row(ShardRepair(i), "ACCEPT")} \cap rows' # {}
                      /\ state'[Shard(i)] = "FAILED" =>
                           session.state = "FAILED" \/ Row(Shard(i), "TERMINATE") \in rows'
    BY <1>1 DEF ShardsAreSeen
  <2>1. CASE Shard(i) \in closed
    BY <1>1, <1>4, <1>5, <2>1, RowNames, ShardNames
  <2>2. CASE Shard(i) \notin closed
    BY <1>1, <1>5, <2>2, ShardNames DEF NothingLost, ShardsAreSeen
  <2>3. QED
    BY <2>1, <2>2
<1>11. ParentFollows'
  <2>1. state[Parent] = "ACCEPTED" => {Composition} \cup ShardTasks \subseteq proof'
    <3> SUFFICES ASSUME state[Parent] = "ACCEPTED", NEW u \in {Composition} \cup ShardTasks
                 PROVE  u \in proof'
      OBVIOUS
    <3>1. state[Composition] = "ACCEPTED"
      BY KeptFacts DEF AfterComposition
    <3>2. \A i \in Shards : state[Shard(i)] = "ACCEPTED"
      BY <3>1 DEF NothingLost, BundlesAreProven
    <3>3. u \in proof /\ state[u] = "ACCEPTED" /\ u \in Tasks
      BY <3>1, <3>2, TaskNames DEF NothingLost, ParentFollows, ShardTasks
    <3>4. QED
      BY <1>2, <1>6, <3>3
  <2>2. ~Refused => ~Refused'
    BY <1>1, RowNames DEF Refused, Found
  <2>3. state'[Parent] = state[Parent]
    BY <1>5, <1>6, TaskNames
  <2>4. session.state = "ACCEPTED" => state'[Composition] = "ACCEPTED"
    BY <1>6, TaskNames DEF NothingLost, ParentFollows
  <2>5. QED
    BY <1>1, <1>6, <2>1, <2>2, <2>3, <2>4, ShardNames, TaskNames DEF NothingLost, ParentFollows
<1>12. VerdictIsSeen'
  <2>1. CASE Composition \in closed
    BY <1>1, <1>4, <1>5, <2>1, RepairNames, TaskNames DEF VerdictIsSeen, closed
  <2>2. CASE Composition \notin closed
    BY <1>1, <1>5, <1>6, <2>2, TaskNames DEF NothingLost, VerdictIsSeen
  <2>3. QED
    BY <2>1, <2>2
<1>13. ProbeIsAwaited'
  BY <1>1, <1>4, <1>5, RowNames, RepairNames, TaskNames, TasksDiffer
     DEF NothingLost, ProbeIsAwaited, Live
<1>14. TracesFollow'
  BY <1>1, <1>5, <1>6, ShardNames, TaskNames DEF NothingLost, TracesFollow
<1>15. QED
  BY <1>7, <1>8, <1>9, <1>10, <1>11, <1>12, <1>13, <1>14 DEF NothingLost

\* A result that is not an acceptance blocks or ends its task, and may begin its repair.
LEMMA SetbackIsSeen ==
  ASSUME Kept, NothingLost, NEW t \in Tasks, NEW s \in {"BLOCKED", "FAILED"},
         NEW a \in Actions \ {"ACCEPT"}, at = "ROWS", state[t] = "CLAIMED", state'[t] = s,
         \A u \in Tasks \ {t} :
           \/ state'[u] = state[u]
           \/ /\ t \in Repaired /\ s = "BLOCKED" /\ u = RepairFor(t)
              /\ state[u] = "NONE" /\ state'[u] = "READY",
         rows \subseteq rows', rows' \subseteq rows \cup {Row(t, a)},
         a = "TERMINATE" <=> s = "FAILED", s = "FAILED" \/ t = Probe => Row(t, a) \in rows',
         UNCHANGED <<proof, session, at, bisection, trace>>
  PROVE  NothingLost'
<1>1. /\ t # Parent /\ state'[Parent] = state[Parent]
      /\ \A u \in Tasks : u \notin Repairs => (state'[u] = "NONE" <=> state[u] = "NONE")
      /\ \A u \in Tasks : state[u] \in {"ACCEPTED", "FAILED"} => state'[u] = state[u]
      /\ \A u \in Tasks : state'[u] = "ACCEPTED" => state[u] = "ACCEPTED"
      /\ \A u \in Tasks : state'[u] = "FAILED" => state[u] = "FAILED" \/ (u = t /\ s = "FAILED")
  BY TaskNames, RepairNames, TasksDiffer DEF Kept, AfterComposition
<1>2. \A u \in Tasks : state[u] # "NONE" => state'[u] # "NONE"
  OBVIOUS
<1>3. RowsAreTrue'
  <2>1. \A r \in rows' : /\ state'[r.task] # "NONE"
                         /\ r.action = "TERMINATE" => state'[r.task] = "FAILED"
    <3> SUFFICES ASSUME NEW r \in rows'
                 PROVE  /\ state'[r.task] # "NONE"
                        /\ r.action = "TERMINATE" => state'[r.task] = "FAILED"
      OBVIOUS
    <3>1. CASE r \in rows
      BY <1>1, <1>2, <3>1, KeptFacts DEF NothingLost, RowsAreTrue
    <3>2. CASE r = Row(t, a)
      BY <3>2, RowNames
    <3>3. QED
      BY <3>1, <3>2
  <2>2. ASSUME NEW i \in Shards,
               {Row(Shard(i), "TERMINATE"), Row(ShardRepair(i), "TERMINATE")} \cap rows' # {}
        PROVE  state'[Shard(i)] \in {"BLOCKED", "FAILED"}
    <3>1. CASE {Row(Shard(i), "TERMINATE"), Row(ShardRepair(i), "TERMINATE")} \cap rows # {}
      <4>1. state[Shard(i)] \in {"BLOCKED", "FAILED"}
        BY <3>1 DEF NothingLost, RowsAreTrue
      <4>2. QED
        BY <4>1, ShardNames, RepairNames
    <3>2. CASE Row(Shard(i), "TERMINATE") = Row(t, a)
      BY <3>2, RowNames
    <3>3. CASE Row(ShardRepair(i), "TERMINATE") = Row(t, a)
      <4>1. t = ShardRepair(i) /\ t \in Repairs /\ Target(t) = Shard(i)
        BY <3>3, RowNames, RepairNames
      <4>2. state[Shard(i)] = "BLOCKED"
        BY <4>1 DEF NothingLost, RepairsAreAwaited, Live
      <4>3. QED
        BY <4>2, ShardNames
    <3>4. QED
      BY <2>2, <3>1, <3>2, <3>3
  <2>3. QED
    BY <2>1, <2>2 DEF RowsAreTrue
<1>4. BundlesAreProven'
  BY <1>1, ShardNames, TaskNames, TasksDiffer, KeptFacts
     DEF NothingLost, BundlesAreProven, SessionType
<1>5. RepairsAreAwaited'
  <2> SUFFICES ASSUME NEW r \in Repairs, Live(r)' PROVE state'[Target(r)] = "BLOCKED"
    BY DEF RepairsAreAwaited
  <2>1. CASE Target(r) = t
    <3>1. r = RepairFor(t) /\ t \in Repaired /\ t # r
      BY <2>1, RepairNames, TasksDiffer
    <3>2. ~Live(r)
      BY <2>1 DEF NothingLost, RepairsAreAwaited
    <3>3. state'[r] # state[r]
      BY <3>2 DEF Live
    <3>4. QED
      BY <2>1, <3>1, <3>3, TaskNames
  <2>2. CASE Target(r) # t
    <3>1. Live(r)
      BY <2>2, RepairNames, TaskNames DEF Live
    <3>2. state[Target(r)] = "BLOCKED" /\ Target(r) \in Tasks
      BY <3>1, RepairNames, TaskNames DEF NothingLost, RepairsAreAwaited
    <3>3. QED
      BY <2>2, <3>2
  <2>3. QED
    BY <2>1, <2>2
<1>6. ShardsAreSeen'
  <2> SUFFICES ASSUME NEW i \in Shards \ session.bundles
               PROVE  /\ state'[Shard(i)] = "ACCEPTED" /\ session.state # "FAILED" =>
                           {Row(Shard(i), "ACCEPT"), Row(ShardRepair(i), "ACCEPT")} \cap rows' # {}
                      /\ state'[Shard(i)] = "FAILED" =>
                           session.state = "FAILED" \/ Row(Shard(i), "TERMINATE") \in rows'
    BY DEF ShardsAreSeen
  <2>1. state'[Shard(i)] = "ACCEPTED" => state[Shard(i)] = "ACCEPTED"
    BY <1>1, ShardNames
  <2>2. state'[Shard(i)] = "FAILED" => state[Shard(i)] = "FAILED" \/ (Shard(i) = t /\ s = "FAILED")
    BY <1>1, ShardNames
  <2>3. QED
    BY <2>1, <2>2 DEF NothingLost, ShardsAreSeen
<1>7. ParentFollows'
  <2>1. session.state = "ACCEPTED" => state[Composition] = "ACCEPTED" /\ ~Refused
    BY DEF NothingLost, ParentFollows
  <2>2. session.state = "ACCEPTED" => state'[Composition] = "ACCEPTED" /\ t # Composition
    BY <1>1, <2>1, TaskNames
  <2>3. session.state = "ACCEPTED" => ~Refused'
    BY <2>1, <2>2, RowNames DEF Refused, Found
  <2>4. /\ \A i \in Shards : state'[Shard(i)] = "NONE" <=> state[Shard(i)] = "NONE"
        /\ state'[Composition] = "NONE" <=> state[Composition] = "NONE"
    BY <1>1, ShardNames, TaskNames, TasksDiffer
  <2>5. QED
    BY <1>1, <2>2, <2>3, <2>4 DEF NothingLost, ParentFollows
<1>8. VerdictIsSeen'
  <2>1. state'[CompositionRepair] # "ACCEPTED" => state[CompositionRepair] # "ACCEPTED"
    BY <1>1, TaskNames
  <2>2. state'[Composition] = "ACCEPTED" => state[Composition] = "ACCEPTED"
    BY <1>1, TaskNames
  <2>3. state'[Composition] = "FAILED" =>
          state[Composition] = "FAILED" \/ Row(Composition, "TERMINATE") \in rows'
    BY <1>1, TaskNames
  <2>4. QED
    BY <2>1, <2>2, <2>3 DEF NothingLost, VerdictIsSeen
<1>9. ProbeIsAwaited'
  <2>1. CASE t = Probe
    BY <2>1, RowNames DEF ProbeIsAwaited
  <2>2. CASE t # Probe
    BY <2>2, RepairNames, TaskNames, TasksDiffer DEF NothingLost, ProbeIsAwaited, Live
  <2>3. QED
    BY <2>1, <2>2
<1>10. TracesFollow'
  BY <1>1, ShardNames DEF NothingLost, TracesFollow
<1>11. QED
  BY <1>3, <1>4, <1>5, <1>6, <1>7, <1>8, <1>9, <1>10 DEF NothingLost

LEMMA ReportsLoseNothing ==
  ASSUME Kept, NothingLost, NEW t \in Tasks,
         ReportAccepted(t) \/ ReportRepair(t) \/ ReportSetAside(t) \/ ReportTerminated(t)
  PROVE  NothingLost'
<1>1. CASE ReportAccepted(t)
  BY <1>1, AcceptedIsSeen
<1>2. CASE ReportRepair(t)
  <2> DEFINE a == "RETRY_REPAIR"
  <2>1. /\ at = "ROWS" /\ state[t] = "CLAIMED"
        /\ rows' = (IF t = Probe THEN rows \cup {Row(t, a)} ELSE rows)
        /\ UNCHANGED <<proof, session, at, bisection, trace>>
    BY <1>2 DEF ReportRepair, Reported, Heeded
  <2>2. /\ state'[t] = "BLOCKED"
        /\ \A u \in Tasks \ {t} :
             \/ state'[u] = state[u]
             \/ /\ t \in Repaired /\ u = RepairFor(t)
                /\ state[u] = "NONE" /\ state'[u] = "READY"
    <3>1. CASE t \in Repaired
      <4>1. /\ state[RepairFor(t)] = "NONE" /\ RepairFor(t) \in Tasks /\ RepairFor(t) # t
            /\ state' = [state EXCEPT ![t] = "BLOCKED", ![RepairFor(t)] = "READY"]
        BY <1>2, <3>1, RepairNames, TaskNames, TasksDiffer DEF ReportRepair
      <4>2. QED
        BY <3>1, <4>1, KeptFacts
    <3>2. CASE t \notin Repaired
      BY <1>2, <3>2, KeptFacts DEF ReportRepair
    <3>3. QED
      BY <3>1, <3>2
  <2>3. QED
    BY <2>1, <2>2, SetbackIsSeen DEF Actions
<1>3. CASE ReportSetAside(t)
  <2>1. /\ at = "ROWS" /\ state[t] = "CLAIMED" /\ rows' = rows \cup {Row(t, "ESCALATE")}
        /\ UNCHANGED <<proof, session, at, bisection, trace>>
        /\ state' = [state EXCEPT ![t] = "BLOCKED"]
    BY <1>3 DEF ReportSetAside, Reported, Heeded
  <2>2. state'[t] = "BLOCKED" /\ \A u \in Tasks \ {t} : state'[u] = state[u]
    BY <2>1, KeptFacts
  <2>3. QED
    BY <2>1, <2>2, SetbackIsSeen DEF Actions
<1>4. CASE ReportTerminated(t)
  <2>1. /\ at = "ROWS" /\ state[t] = "CLAIMED" /\ rows' = rows \cup {Row(t, "TERMINATE")}
        /\ UNCHANGED <<proof, session, at, bisection, trace>>
        /\ state' = [state EXCEPT ![t] = "FAILED"]
    BY <1>4 DEF ReportTerminated, Reported, Heeded
  <2>2. state'[t] = "FAILED" /\ \A u \in Tasks \ {t} : state'[u] = state[u]
    BY <2>1, KeptFacts
  <2>3. QED
    BY <2>1, <2>2, SetbackIsSeen DEF Actions
<1>5. QED
  BY <1>1, <1>2, <1>3, <1>4
----------------------------------------------------------------------------
(* The bisection. *)

LEMMA Division ==
  /\ \A n, p \in Nat : n >= 2 /\ p >= 2 => (n + p - 1) \div p \in 1..n - 1
  /\ \A n, p \in Nat : n >= 2 /\ p >= n => (n + p - 1) \div p = 1
  /\ \A m, q \in Nat : q >= 1 => /\ m >= q => m \div q >= 1
                                 /\ 0 \div q = 0
  /\ \A m \in Nat : m \div 1 = m
<1>1. ASSUME NEW n \in Nat, NEW p \in Nat, n >= 2, p >= 2 PROVE (n + p - 1) \div p \in 1..n - 1
  BY <1>1
<1>2. ASSUME NEW n \in Nat, NEW p \in Nat, n >= 2, p >= n PROVE (n + p - 1) \div p = 1
  BY <1>2
<1>3. ASSUME NEW m \in Nat, NEW q \in Nat, q >= 1
      PROVE  (m >= q => m \div q >= 1) /\ 0 \div q = 0
  BY <1>3
<1>4. ASSUME NEW m \in Nat PROVE m \div 1 = m
  OBVIOUS
<1>5. QED
  BY <1>1, <1>2, <1>3, <1>4

\* The places of the members of a set of shards are the numbers up to its size.
LEMMA PlaceFacts ==
  ASSUME NEW F \in SUBSET Shards
  PROVE  /\ IsFiniteSet(F) /\ Cardinality(F) \in Nat
         /\ \A i \in F : Place(F, i) \in 1..Cardinality(F)
         /\ \A i, k \in F : Place(F, i) = Place(F, k) => i = k
         /\ \A m \in 1..Cardinality(F) : \E i \in F : Place(F, i) = m
<1> DEFINE Upto(i) == {k \in F : k <= i}
<1>1. IsFiniteSet(F) /\ Cardinality(F) \in Nat
  <2>1. IsFiniteSet(Shards)
    BY FS_Interval, ShardCountAssumption DEF Shards
  <2>2. QED
    BY <2>1, FS_Subset, FS_CardinalityType
<1>2. \A i \in F : IsFiniteSet(Upto(i)) /\ Cardinality(Upto(i)) \in 1..Cardinality(F)
  <2> SUFFICES ASSUME NEW i \in F
               PROVE  IsFiniteSet(Upto(i)) /\ Cardinality(Upto(i)) \in 1..Cardinality(F)
    OBVIOUS
  <2>1. i \in Upto(i) /\ Upto(i) \in SUBSET F
    BY DEF Shards
  <2> HIDE DEF Upto
  <2>2. IsFiniteSet(Upto(i)) /\ Cardinality(Upto(i)) <= Cardinality(F)
    BY <1>1, <2>1, FS_Subset
  <2>3. Cardinality(Upto(i)) \in Nat /\ Cardinality(Upto(i)) # 0
    BY <2>1, <2>2, FS_CardinalityType, FS_EmptySet
  <2>4. QED
    BY <1>1, <2>2, <2>3
<1>3. ASSUME NEW i \in F, NEW k \in F, i < k
      PROVE  Cardinality(Upto(i)) # Cardinality(Upto(k))
  <2> F \subseteq Int
    BY DEF Shards
  <2> \A m \in F : m <= i => m <= k
    BY <1>3
  <2> ~(k <= i) /\ k <= k
    BY <1>3
  <2>1. Upto(i) \in SUBSET Upto(k) /\ k \in Upto(k) /\ k \notin Upto(i)
    OBVIOUS
  <2>2. IsFiniteSet(Upto(k))
    BY <1>2
  <2> HIDE DEF Upto
  <2>3. Upto(i) # Upto(k)
    BY <2>1
  <2>4. QED
    BY <2>1, <2>2, <2>3, FS_Subset
<1>4. \A i \in F : Place(F, i) = Cardinality(Upto(i))
  BY DEF Place
<1> HIDE DEF Upto
<1>5. \A i, k \in F : Place(F, i) = Place(F, k) => i = k
  <2> SUFFICES ASSUME NEW i \in F, NEW k \in F, i # k PROVE Place(F, i) # Place(F, k)
    OBVIOUS
  <2>1. i < k \/ k < i
    BY DEF Shards
  <2>2. QED
    BY <1>3, <1>4, <2>1
<1>6. \A m \in 1..Cardinality(F) : \E i \in F : Place(F, i) = m
  <2> DEFINE f == [i \in F |-> Place(F, i)]
             N == 1..Cardinality(F)
  <2>1. f \in Injection(F, N)
    BY <1>2, <1>4, <1>5 DEF Injection, IsInjective
  <2>2. IsFiniteSet(N) /\ Cardinality(N) = Cardinality(F)
    BY <1>1, FS_Interval
  <2>3. f \in Surjection(F, N)
    <3> HIDE DEF f, N
    <3>1. QED
      BY <2>1, <2>2, FS_Injection
  <2>4. QED
    BY <2>3 DEF Surjection
<1>7. QED
  BY <1>1, <1>2, <1>4, <1>5, <1>6

\* The first part of a batch is not empty, and no part is the whole of it; as many parts as
\* shards are the shards one by one.
LEMMA ChunkFacts ==
  ASSUME NEW b, b.failing \in SUBSET Shards, Cardinality(b.failing) > 1, b.parts \in 2..ShardCount
  PROVE  /\ Chunk(b, 1) # {}
         /\ \A j \in Nat \ {0} : Chunk(b, j) \subseteq b.failing /\ Chunk(b, j) # b.failing
         /\ b.parts >= Cardinality(b.failing) =>
              \A j \in Nat \ {0} : Chunk(b, j) = {i \in b.failing : Place(b.failing, i) = j}
<1> DEFINE n == Cardinality(b.failing)
           size == (n + b.parts - 1) \div b.parts
<1>1. /\ n \in Nat /\ n >= 2 /\ b.parts \in Nat /\ b.parts >= 2
      /\ \A i \in b.failing : Place(b.failing, i) \in 1..n
  BY PlaceFacts, ShardCountAssumption
<1>2. PICK first \in b.failing, last \in b.failing :
        Place(b.failing, first) = 1 /\ Place(b.failing, last) = n
  BY <1>1, PlaceFacts
<1>3. \A j : Chunk(b, j) = {i \in b.failing : (Place(b.failing, i) - 1) \div size = j - 1}
  BY DEF Chunk
<1>4. size \in 1..n - 1 /\ (b.parts >= n => size = 1)
  BY <1>1, Division
<1> HIDE DEF size, n
<1>5. 0 \div size = 0 /\ (n - 1) \div size >= 1
  BY <1>1, <1>4, Division
<1>6. first \in Chunk(b, 1) /\ last \notin Chunk(b, 1)
  BY <1>1, <1>2, <1>3, <1>5
<1>7. \A j \in Nat \ {0} : j # 1 => first \notin Chunk(b, j)
  BY <1>2, <1>3, <1>5
<1>8. ASSUME b.parts >= n, NEW j \in Nat \ {0}
      PROVE  Chunk(b, j) = {i \in b.failing : Place(b.failing, i) = j}
  <2>1. \A i \in b.failing : (Place(b.failing, i) - 1) \div size = Place(b.failing, i) - 1
    BY <1>1, <1>4, <1>8, Division
  <2>2. QED
    BY <1>1, <1>3, <2>1
<1>9. QED
  BY <1>3, <1>6, <1>7, <1>8 DEF n

LEMMA SearchRanges ==
  /\ 1 \in ChunkNumbers /\ \A k \in ChunkNumbers : k \in Nat /\ k # 0 /\ k + 1 \in ChunkNumbers
  /\ {"RECHECK", "CHUNKS", "COMPLEMENTS", "DONE"} \subseteq Stages
  /\ {"NONE", "AWAITED", "PASS", "FAIL"} = Answers
  /\ \A p : p \in PartNumbers <=> p \in 2..ShardCount
  /\ \A b \in BisectionType :
       /\ b.failing \in SUBSET Shards /\ b.parts \in PartNumbers /\ b.chunk \in ChunkNumbers
       /\ b.stage \in Stages /\ b.answer \in Answers /\ b.found \in FoundType
BY DEF ChunkNumbers, Stages, Answers, PartNumbers, BisectionType

LEMMA ChunkDepends ==
  ASSUME NEW b, NEW c, b.failing = c.failing, b.parts = c.parts
  PROVE  \A j : Chunk(b, j) = Chunk(c, j)
BY DEF Chunk

\* What the answer says and what comes next leaves Probed alone.
LEMMA AnswerIsApart ==
  ASSUME NEW b \in BisectionType, Probed(b), NEW a \in Answers
  PROVE  [b EXCEPT !.answer = a] \in BisectionType /\ Probed([b EXCEPT !.answer = a])
<1> DEFINE c == [b EXCEPT !.answer = a]
<1>1. /\ c \in BisectionType /\ c.stage = b.stage /\ c.failing = b.failing /\ c.parts = b.parts
      /\ c.chunk = b.chunk /\ c.found = b.found
  BY DEF BisectionType
<1> HIDE DEF c
<1>2. \A j : Chunk(c, j) = Chunk(b, j)
  BY <1>1, ChunkDepends
<1>3. Probed(c)
  BY <1>1, <1>2 DEF Probed, Searching, ComplementsPass, Minimal
<1>4. QED
  BY <1>1, <1>3 DEF c

\* What is tried is a smaller batch, and not an empty one.
LEMMA BatchFacts ==
  ASSUME NEW b \in BisectionType, Probed(b)
  PROVE  /\ Batch(b) \in SUBSET Shards
         /\ b.stage = "RECHECK" => Batch(b) = Shards
         /\ b.stage \in {"CHUNKS", "COMPLEMENTS"} => Batch(b) \notin {{}, b.failing}
         /\ b.stage = "COMPLEMENTS" => Batch(b) = b.failing \ Chunk(b, b.chunk)
<1>1. b.failing \in SUBSET Shards /\ b.parts \in 2..ShardCount /\ b.chunk \in Nat \ {0}
  BY SearchRanges
<1>2. CASE b.stage = "CHUNKS"
  <2>1. Batch(b) = Chunk(b, b.chunk) /\ Chunk(b, b.chunk) # {} /\ Cardinality(b.failing) > 1
    BY <1>2 DEF Batch, Probed, Searching
  <2>2. QED
    BY <1>1, <1>2, <2>1, ChunkFacts, SearchRanges
<1>3. CASE b.stage = "COMPLEMENTS"
  <2>1. /\ Batch(b) = b.failing \ Chunk(b, b.chunk) /\ Chunk(b, b.chunk) # {}
        /\ Cardinality(b.failing) > 1
    BY <1>3 DEF Batch, Probed, Searching
  <2>2. Chunk(b, b.chunk) \subseteq b.failing /\ Chunk(b, b.chunk) # b.failing
    BY <1>1, <2>1, ChunkFacts, SearchRanges
  <2>3. QED
    BY <1>1, <1>3, <2>1, <2>2
<1>4. CASE b.stage \notin {"CHUNKS", "COMPLEMENTS"}
  BY <1>4 DEF Batch, Shards
<1>5. QED
  BY <1>2, <1>3, <1>4

\* A smaller batch that failed is searched in turn.
LEMMA NarrowedIsProbed ==
  ASSUME NEW b \in BisectionType, NEW parts \in PartNumbers, b.stage # "RECHECK",
         Batch(b) \in SUBSET Shards, Batch(b) # {}, b.found[Batch(b)] = "FAIL"
  PROVE  /\ Narrowed(b, parts) \in BisectionType /\ Probed(Narrowed(b, parts))
         /\ Narrowed(b, parts).stage \in {"CHUNKS", "DONE"}
<1> DEFINE c == Narrowed(b, parts)
<1>1. /\ c \in BisectionType /\ c.failing = Batch(b) /\ c.parts = parts /\ c.chunk = 1 /\ c.found = b.found
      /\ c.stage = IF Cardinality(Batch(b)) = 1 THEN "DONE" ELSE "CHUNKS"
  BY SearchRanges DEF BisectionType, Narrowed
<1>2. c.found[c.failing] = "FAIL"
  BY <1>1
<1>3. IsFiniteSet(Batch(b)) /\ Cardinality(Batch(b)) \in Nat /\ Cardinality(Batch(b)) # 0
  BY PlaceFacts, FS_EmptySet
<1> HIDE DEF c
<1>4. CASE Cardinality(Batch(b)) = 1
  BY <1>1, <1>2, <1>4 DEF Probed, Minimal, c
<1>5. CASE Cardinality(Batch(b)) # 1
  <2>1. Cardinality(Batch(b)) > 1
    BY <1>3, <1>5
  <2>2. Chunk(c, 1) # {}
    BY <1>1, <2>1, ChunkFacts, SearchRanges
  <2>3. QED
    BY <1>1, <1>2, <1>5, <2>1, <2>2 DEF Probed, Searching, c
<1>6. QED
  BY <1>1, <1>4, <1>5 DEF c

\* Once every part was tried, the complements follow, and then smaller parts.
LEMMA ExhaustedIsProbed ==
  ASSUME NEW b \in BisectionType, b.stage \in {"CHUNKS", "COMPLEMENTS"}, Searching(b),
         b.stage = "COMPLEMENTS" => ComplementsPass(b, b.chunk), Chunk(b, b.chunk + 1) = {}
  PROVE  /\ Exhausted(b) \in BisectionType /\ Probed(Exhausted(b))
         /\ Exhausted(b).stage \in {"CHUNKS", "COMPLEMENTS", "DONE"}
<1> DEFINE c == Exhausted(b)
           n == Cardinality(b.failing)
<1>1. /\ b.failing \in SUBSET Shards /\ b.parts \in 2..ShardCount /\ b.chunk \in Nat \ {0}
      /\ n > 1 /\ n \in Nat /\ b.found[b.failing] = "FAIL"
  BY SearchRanges, PlaceFacts DEF Searching
<1>2. n <= ShardCount
  <2>1. IsFiniteSet(Shards) /\ Cardinality(Shards) = ShardCount
    BY FS_Interval, ShardCountAssumption DEF Shards
  <2>2. QED
    BY <1>1, <2>1, FS_Subset
<1> HIDE DEF n
<1>3. CASE b.stage = "CHUNKS"
  <2>1. c = [b EXCEPT !.stage = "COMPLEMENTS", !.chunk = 1]
    BY <1>3 DEF Exhausted
  <2>2. /\ c \in BisectionType /\ c.stage = "COMPLEMENTS" /\ c.failing = b.failing
        /\ c.parts = b.parts /\ c.chunk = 1 /\ c.found = b.found
    BY <2>1, SearchRanges DEF BisectionType
  <2> HIDE DEF c
  <2>3. Chunk(c, 1) # {}
    BY <1>1, <2>2, ChunkFacts, SearchRanges DEF n
  <2>4. Probed(c)
    BY <1>1, <2>2, <2>3 DEF Probed, Searching, ComplementsPass, n
  <2>5. QED
    BY <2>2, <2>4 DEF c
<1>4. CASE b.stage = "COMPLEMENTS" /\ b.parts >= n
  <2>1. c = [b EXCEPT !.stage = "DONE"]
    BY <1>4 DEF Exhausted, n
  <2>2. c \in BisectionType /\ c.stage = "DONE" /\ c.failing = b.failing /\ c.found = b.found
    BY <2>1, SearchRanges DEF BisectionType
  <2> HIDE DEF c
  <2>3. \A j \in Nat \ {0} : Chunk(b, j) = {i \in b.failing : Place(b.failing, i) = j}
    BY <1>1, <1>4, ChunkFacts, SearchRanges DEF n
  <2>4. b.chunk >= n
    <3>1. ~\E i \in b.failing : Place(b.failing, i) = b.chunk + 1
      BY <1>1, <2>3
    <3>2. b.chunk + 1 \notin 1..n
      BY <1>1, <3>1, PlaceFacts DEF n
    <3>3. QED
      BY <1>1, <3>2
  <2>5. ASSUME NEW i \in b.failing PROVE b.found[b.failing \ {i}] = "PASS"
    <3>1. Place(b.failing, i) \in 1..n
      BY <1>1, PlaceFacts DEF n
    <3>2. \A k \in b.failing : Place(b.failing, k) = Place(b.failing, i) => k = i
      BY <1>1, PlaceFacts
    <3>3. Chunk(b, Place(b.failing, i)) = {k \in b.failing : Place(b.failing, k) = Place(b.failing, i)}
      BY <2>3, <3>1
    <3>4. Chunk(b, Place(b.failing, i)) = {i}
      BY <3>2, <3>3
    <3>5. Place(b.failing, i) \in 1..b.chunk
      BY <1>1, <2>4, <3>1
    <3>6. QED
      BY <1>4, <3>4, <3>5 DEF ComplementsPass
  <2>6. Probed(c)
    BY <1>1, <2>2, <2>5 DEF Probed, Minimal
  <2>7. QED
    BY <2>2, <2>6 DEF c
<1>5. CASE b.stage = "COMPLEMENTS" /\ ~(b.parts >= n)
  <2> DEFINE parts == IF 2 * b.parts > n THEN n ELSE 2 * b.parts
  <2>1. c = [b EXCEPT !.stage = "CHUNKS", !.chunk = 1, !.parts = parts]
    BY <1>5 DEF Exhausted, n
  <2>2. parts \in PartNumbers
    BY <1>1, <1>2, SearchRanges, ShardCountAssumption
  <2> HIDE DEF parts
  <2>3. /\ c \in BisectionType /\ c.stage = "CHUNKS" /\ c.failing = b.failing
        /\ c.parts = parts /\ c.chunk = 1 /\ c.found = b.found
    BY <2>1, <2>2, SearchRanges DEF BisectionType
  <2> HIDE DEF c
  <2>4. Chunk(c, 1) # {}
    BY <1>1, <2>2, <2>3, ChunkFacts, SearchRanges DEF n
  <2>5. Probed(c)
    BY <1>1, <2>3, <2>4 DEF Probed, Searching, n
  <2>6. QED
    BY <2>3, <2>5 DEF c
<1>6. QED
  BY <1>3, <1>4, <1>5

\* An answer to the batch that was tried, and what is tried next.
LEMMA AdvancedIsProbed ==
  ASSUME NEW b \in BisectionType, Probed(b), b.stage \in {"RECHECK", "CHUNKS", "COMPLEMENTS"},
         b.answer \in {"PASS", "FAIL"}
  PROVE  LET next == Advanced([b EXCEPT !.found[Batch(b)] = b.answer])
         IN  /\ next \in BisectionType /\ Probed(next)
             /\ next.stage \in {"CHUNKS", "COMPLEMENTS", "DONE"}
<1> DEFINE told == [b EXCEPT !.found[Batch(b)] = b.answer]
           next == Advanced(told)
<1>1. Batch(b) \in SUBSET Shards
  BY BatchFacts
<1>2. /\ told \in BisectionType /\ told.stage = b.stage /\ told.failing = b.failing
      /\ told.parts = b.parts /\ told.chunk = b.chunk /\ told.answer = b.answer
      /\ told.found = [b.found EXCEPT ![Batch(b)] = b.answer]
  <2>1. [b.found EXCEPT ![Batch(b)] = b.answer] \in FoundType
    BY <1>1, SearchRanges DEF FoundType
  <2>2. told = [b EXCEPT !.found = [b.found EXCEPT ![Batch(b)] = b.answer]]
    BY DEF BisectionType
  <2>3. QED
    BY <2>1, <2>2 DEF BisectionType
<1> HIDE DEF told
<1>3. /\ told.found[Batch(b)] = b.answer
      /\ \A S \in SUBSET Shards : S # Batch(b) => told.found[S] = b.found[S]
  BY <1>1, <1>2, SearchRanges DEF FoundType
<1>4. \A j : Chunk(told, j) = Chunk(b, j)
  BY <1>2, ChunkDepends
<1>5. Batch(told) = Batch(b)
  BY <1>2, <1>4 DEF Batch
<1>6. /\ told.failing \in SUBSET Shards /\ told.parts \in 2..ShardCount /\ told.chunk \in ChunkNumbers
      /\ told.chunk \in Nat
  BY <1>2, SearchRanges
<1>7. CASE b.stage = "RECHECK"
  <2>1. Batch(b) = Shards /\ b.parts = 2 /\ b.chunk = 1
    BY <1>7, BatchFacts DEF Probed
  <2>2. CASE b.answer = "PASS"
    <3>1. next = [told EXCEPT !.stage = "DONE", !.failing = {}]
      BY <1>2, <1>7, <2>2 DEF Advanced
    <3>2. next \in BisectionType /\ next.stage = "DONE" /\ next.failing = {}
      BY <1>2, <3>1, SearchRanges DEF BisectionType
    <3>3. QED
      BY <3>2 DEF Probed, Minimal, told
  <2>3. CASE b.answer = "FAIL"
    <3>1. next = [told EXCEPT !.stage = "CHUNKS", !.failing = Shards]
      BY <1>2, <1>7, <2>3 DEF Advanced
    <3>2. /\ next \in BisectionType /\ next.stage = "CHUNKS" /\ next.failing = Shards
          /\ next.found = told.found /\ next.parts = told.parts /\ next.chunk = told.chunk
      BY <1>2, <3>1, SearchRanges DEF BisectionType
    <3> HIDE DEF next
    <3>3. Cardinality(Shards) > 1
      BY FS_Interval, ShardCountAssumption DEF Shards
    <3>4. Chunk(next, 1) # {}
      BY <1>6, <3>2, <3>3, ChunkFacts
    <3>5. Probed(next)
      BY <1>2, <1>3, <2>1, <2>3, <3>2, <3>3, <3>4 DEF Probed, Searching
    <3>6. QED
      BY <3>2, <3>5 DEF next, told
  <2>4. QED
    BY <2>2, <2>3
<1>8. CASE b.stage \in {"CHUNKS", "COMPLEMENTS"} /\ b.answer = "FAIL"
  <2>1. Batch(told) \in SUBSET Shards /\ Batch(told) # {} /\ told.found[Batch(told)] = "FAIL"
    BY <1>1, <1>3, <1>5, <1>8, BatchFacts
  <2>2. PICK parts \in PartNumbers : next = Narrowed(told, parts)
    <3>1. 2 \in PartNumbers /\ FewerParts(told) \in PartNumbers
      BY <1>6, SearchRanges, ShardCountAssumption DEF FewerParts
    <3>2. CASE b.stage = "CHUNKS"
      BY <1>2, <1>8, <3>1, <3>2 DEF Advanced
    <3>3. CASE b.stage = "COMPLEMENTS"
      BY <1>2, <1>8, <3>1, <3>3 DEF Advanced
    <3>4. QED
      BY <1>8, <3>2, <3>3
  <2>3. told.stage # "RECHECK"
    BY <1>2, <1>8
  <2>4. QED
    BY <1>2, <2>1, <2>2, <2>3, NarrowedIsProbed DEF told
<1>9. CASE b.stage \in {"CHUNKS", "COMPLEMENTS"} /\ b.answer = "PASS"
  <2>1. Searching(told)
    BY <1>2, <1>3, <1>4, <1>6, <1>9, BatchFacts DEF Probed, Searching
  <2>2. told.stage = "COMPLEMENTS" => ComplementsPass(told, told.chunk)
    <3> SUFFICES ASSUME b.stage = "COMPLEMENTS", NEW j \in 1..told.chunk
                 PROVE  told.found[b.failing \ Chunk(b, j)] = "PASS"
      BY <1>2, <1>4 DEF ComplementsPass
    <3>1. CASE j = b.chunk
      BY <1>3, <1>9, <3>1, BatchFacts
    <3>2. CASE j # b.chunk
      <4>1. j \in 1..b.chunk - 1 /\ ComplementsPass(b, b.chunk - 1)
        BY <1>2, <1>6, <3>2 DEF Probed
      <4>2. b.found[b.failing \ Chunk(b, j)] = "PASS"
        BY <4>1 DEF ComplementsPass
      <4>3. b.failing \ Chunk(b, j) \in SUBSET Shards
        BY <1>2, <1>6
      <4>4. QED
        BY <1>3, <1>9, <4>2, <4>3
    <3>3. QED
      BY <3>1, <3>2
  <2>3. CASE Chunk(told, told.chunk + 1) # {}
    <3>1. next = [told EXCEPT !.chunk = @ + 1]
      BY <1>2, <1>9, <2>3 DEF Advanced
    <3>2. /\ next \in BisectionType /\ next.stage = told.stage /\ next.failing = told.failing
          /\ next.found = told.found /\ next.parts = told.parts /\ next.chunk = told.chunk + 1
      BY <1>2, <1>6, <3>1, SearchRanges DEF BisectionType
    <3> HIDE DEF next
    <3>3. \A j : Chunk(next, j) = Chunk(told, j)
      BY <3>2, ChunkDepends
    <3>4. next.chunk - 1 = told.chunk
      BY <1>6, <3>2
    <3>5. Probed(next)
      BY <1>2, <1>9, <2>1, <2>2, <2>3, <3>2, <3>3, <3>4 DEF Probed, Searching, ComplementsPass
    <3>6. QED
      BY <1>2, <1>9, <3>2, <3>5 DEF next, told
  <2>4. CASE Chunk(told, told.chunk + 1) = {}
    <3>1. next = Exhausted(told)
      BY <1>2, <1>9, <2>4 DEF Advanced
    <3>2. QED
      BY <1>2, <1>9, <2>1, <2>2, <2>4, <3>1, ExhaustedIsProbed DEF told
  <2>5. QED
    BY <2>3, <2>4
<1>10. QED
  BY <1>7, <1>8, <1>9

LEMMA BisectionContinues ==
  ASSUME BisectionOK, ContinueBisection
  PROVE  /\ BisectionOK' /\ bisection'.stage # "NONE" /\ bisection'.answer \in {"NONE", "AWAITED"}
         /\ IF bisection'.answer = "AWAITED" THEN state' = [state EXCEPT ![Probe] = "READY"]
            ELSE UNCHANGED state
<1> DEFINE next == Advanced([bisection EXCEPT !.found[Batch(bisection)] = bisection.answer])
<1>1. /\ bisection \in BisectionType /\ Probed(bisection) /\ bisection.answer \in {"PASS", "FAIL"}
      /\ bisection.stage \in {"RECHECK", "CHUNKS", "COMPLEMENTS"}
  BY SearchRanges DEF ContinueBisection, BisectionOK, Stages
<1>2. /\ next \in BisectionType /\ Probed(next) /\ next.stage \in {"CHUNKS", "COMPLEMENTS", "DONE"}
  BY <1>1, AdvancedIsProbed
<1>3. /\ next.stage = "DONE" => bisection' = [next EXCEPT !.answer = "NONE"] /\ UNCHANGED state
      /\ next.stage # "DONE" => /\ bisection' = [next EXCEPT !.answer = "AWAITED"]
                                /\ state' = [state EXCEPT ![Probe] = "READY"]
  BY DEF ContinueBisection
<1> HIDE DEF next
<1>4. \A a \in Answers : /\ [next EXCEPT !.answer = a] \in BisectionType
                         /\ Probed([next EXCEPT !.answer = a])
  BY <1>2, AnswerIsApart
<1>5. \A a \in Answers : [next EXCEPT !.answer = a].stage = next.stage
                         /\ [next EXCEPT !.answer = a].answer = a
  BY <1>2 DEF BisectionType
<1>6. CASE next.stage = "DONE"
  BY <1>3, <1>4, <1>5, <1>6, SearchRanges DEF BisectionOK
<1>7. CASE next.stage # "DONE"
  BY <1>2, <1>3, <1>4, <1>5, <1>7, SearchRanges DEF BisectionOK
<1>8. QED
  BY <1>6, <1>7

LEMMA BisectionStarts ==
  /\ NoBisection \in BisectionType /\ Probed(NoBisection)
  /\ [NoBisection EXCEPT !.stage = "RECHECK", !.answer = "AWAITED"] \in BisectionType
  /\ Probed([NoBisection EXCEPT !.stage = "RECHECK", !.answer = "AWAITED"])
<1> DEFINE found == [S \in SUBSET Shards |-> "NONE"]
           start == [NoBisection EXCEPT !.stage = "RECHECK", !.answer = "AWAITED"]
<1>1. /\ found \in FoundType /\ {} \in SUBSET Shards /\ 2 \in PartNumbers
      /\ "NONE" \in Stages /\ "NONE" \in Answers
  BY ShardCountAssumption DEF FoundType, Stages, Answers, PartNumbers
<1>2. NoBisection = [stage |-> "NONE", failing |-> {}, parts |-> 2, chunk |-> 1,
                     answer |-> "NONE", found |-> found]
  BY DEF NoBisection
<1>3. start = [stage |-> "RECHECK", failing |-> {}, parts |-> 2, chunk |-> 1,
               answer |-> "AWAITED", found |-> found]
  <2>1. start = [[stage |-> "NONE", failing |-> {}, parts |-> 2, chunk |-> 1,
                  answer |-> "NONE", found |-> found]
                   EXCEPT !.stage = "RECHECK", !.answer = "AWAITED"]
    BY <1>2, Zenon
  <2> HIDE DEF found, start
  <2>2. QED
    BY <2>1
<1> HIDE DEF found
<1>4. NoBisection \in BisectionType /\ Probed(NoBisection)
  BY <1>1, <1>2, SearchRanges DEF BisectionType, Probed
<1> HIDE DEF start
<1>5. start \in BisectionType /\ Probed(start)
  BY <1>1, <1>3, SearchRanges DEF BisectionType, Probed
<1>6. QED
  BY <1>4, <1>5 DEF start

LEMMA AnsweredIsProbed ==
  ASSUME BisectionOK
  PROVE  /\ Answered \in BisectionType /\ Probed(Answered) /\ Answered.stage = bisection.stage
         /\ Answered.answer = "NONE" <=> Answered.stage \in {"NONE", "DONE"}
         /\ Answered.answer = "AWAITED" => bisection.answer = "AWAITED" /\ \A r \in rows : r.task # Probe
<1>1. CASE bisection.answer = "AWAITED" /\ \E r \in rows : r.task = Probe
  <2>1. PICK a \in {"PASS", "FAIL"} : Answered = [bisection EXCEPT !.answer = a]
    BY <1>1 DEF Answered
  <2>2. Answered \in BisectionType /\ Probed(Answered)
    BY <2>1, AnswerIsApart, SearchRanges DEF BisectionOK
  <2>3. Answered.stage = bisection.stage /\ Answered.answer = a
    BY <2>1 DEF BisectionOK, BisectionType
  <2>4. QED
    BY <1>1, <2>2, <2>3 DEF BisectionOK
<1>2. CASE ~(bisection.answer = "AWAITED" /\ \E r \in rows : r.task = Probe)
  BY <1>2 DEF Answered, BisectionOK
<1>3. QED
  BY <1>1, <1>2

\* The bisection through every step.
LEMMA BisectionNext ==
  ASSUME BisectionOK, [MicroNext]_microVars
  PROVE  BisectionOK'
<1>1. CASE UNCHANGED bisection
  BY <1>1 DEF BisectionOK
<1>2. CASE ContinueBisection
  BY <1>2, BisectionContinues
<1>3. CASE PassFailures
  BY <1>3, AnsweredIsProbed DEF PassFailures, BisectionOK
<1>4. CASE bisection' = [NoBisection EXCEPT !.stage = "RECHECK", !.answer = "AWAITED"]
  BY <1>4, BisectionStarts DEF BisectionOK, NoBisection
<1>5. CASE bisection' = NoBisection
  BY <1>5, BisectionStarts DEF BisectionOK, NoBisection
<1>6. CASE MicroNext
  <2>1. CASE Coordinate
    <3>1. CASE RefuseParent
      BY <1>1, <1>4, <3>1 DEF RefuseParent
    <3>2. CASE ~RefuseParent
      BY <1>1, <1>2, <1>3, <2>1, <3>2
         DEF Coordinate, PassAccepted, PassAcceptedThrows, PassComposition, PassCompositionThrows,
             AcceptParent, AcceptParentThrows, EndTick
    <3>3. QED
      BY <3>1, <3>2
  <2>2. CASE Restart
    BY <1>5, <2>2 DEF Restart
  <2>3. CASE Materialize \/ StartTick \/ Save
    BY <1>1, <2>3 DEF Materialize, StartTick, Save
  <2>4. CASE \E t \in Tasks :
                 \/ Dispatch(t) \/ TakeBack(t) \/ ReleaseByOperator(t) \/ PostResult(t)
                 \/ ReportAccepted(t) \/ ReportRepair(t) \/ ReportSetAside(t) \/ ReportTerminated(t)
                 \/ GateThrows(t)
    BY <1>1, <2>4
       DEF Dispatch, TakeBack, ReleaseByOperator, PostResult, Becomes, GateThrows,
           ReportAccepted, ReportRepair, ReportSetAside, ReportTerminated, Reported
  <2>5. QED
    BY <1>6, <2>1, <2>2, <2>3, <2>4 DEF MicroNext
<1>7. QED
  BY <1>1, <1>6 DEF microVars

----------------------------------------------------------------------------
(* What holds as long as nothing is lost: the steps of the coordinator. *)

LEMMA InitLosesNothing == MicroInit => NothingLost
<1> SUFFICES ASSUME MicroInit PROVE NothingLost
  OBVIOUS
<1>1. /\ state[Parent] = "READY" /\ \A t \in Tasks : t # Parent => state[t] = "NONE"
      /\ rows = {} /\ session.state = "NONE" /\ session.bundles = {} /\ at = "IDLE"
      /\ bisection.answer = "NONE" /\ \A i \in Shards : trace[i] = <<>>
  BY TaskNames DEF MicroInit, NoSession, NoBisection, NoTraces
<1>2. RowsAreTrue /\ VerdictIsSeen /\ ProbeIsAwaited /\ TracesFollow
  BY <1>1 DEF RowsAreTrue, VerdictIsSeen, ProbeIsAwaited, TracesFollow
<1>3. BundlesAreProven /\ RepairsAreAwaited
  BY <1>1, TaskNames, TasksDiffer DEF BundlesAreProven, RepairsAreAwaited, Live
<1>4. ShardsAreSeen /\ ParentFollows
  BY <1>1, ShardNames, TaskNames, TasksDiffer DEF ShardsAreSeen, ParentFollows
<1>5. QED
  BY <1>2, <1>3, <1>4 DEF NothingLost

LEMMA MaterializeLosesNothing ==
  ASSUME Kept, NothingLost, Materialize
  PROVE  NothingLost'
<1>1. /\ at = "IDLE" /\ session.state = "NONE" /\ rows = {}
      /\ session' = [state |-> "COLLECTING", bundles |-> {}] /\ trace' = NewTraces
      /\ UNCHANGED <<proof, at, rows, bisection>>
  BY DEF Materialize, NothingLost, RowsAreTrue
<1>2. /\ state'[Parent] = "BLOCKED" /\ \A i \in Shards : state'[Shard(i)] = "READY"
      /\ \A t \in Tasks : t \notin ShardTasks \cup {Parent} => state'[t] = state[t]
  BY TaskNames, ShardNames, TasksDiffer DEF Materialize
<1>3. state[Composition] = "NONE" /\ \A i \in Shards : state[Shard(i)] = "NONE"
  BY <1>1 DEF NothingLost, BundlesAreProven, ParentFollows
<1>4. RowsAreTrue' /\ VerdictIsSeen'
  BY <1>1 DEF RowsAreTrue, VerdictIsSeen
<1>5. BundlesAreProven'
  <2>1. state'[Composition] = "NONE"
    BY <1>2, <1>3, TaskNames, TasksDiffer
  <2>2. Shards # {}
    BY ShardCountAssumption DEF Shards
  <2>3. QED
    BY <1>1, <2>1, <2>2 DEF BundlesAreProven
<1>6. RepairsAreAwaited'
  <2> SUFFICES ASSUME NEW r \in Repairs PROVE ~Live(r)'
    BY DEF RepairsAreAwaited
  <2>1. state[Target(r)] = "NONE"
    <3>1. Target(r) = Composition \/ \E i \in Repairable : Target(r) = Shard(i)
      BY RepairNames DEF Repaired
    <3>2. QED
      BY <1>3, <3>1, TaskNames
  <2>2. ~Live(r)
    BY <2>1 DEF NothingLost, RepairsAreAwaited
  <2>3. state'[r] = state[r]
    BY <1>2, TaskNames, TasksDiffer
  <2>4. QED
    BY <2>2, <2>3 DEF Live
<1>7. ShardsAreSeen'
  BY <1>2 DEF ShardsAreSeen
<1>8. ParentFollows'
  BY <1>1, <1>2 DEF ParentFollows
<1>9. ProbeIsAwaited'
  BY <1>1, <1>2, TaskNames, TasksDiffer DEF NothingLost, ProbeIsAwaited, Live
<1>10. TracesFollow'
  BY <1>1 DEF TracesFollow
<1>11. QED
  BY <1>4, <1>5, <1>6, <1>7, <1>8, <1>9, <1>10 DEF NothingLost

LEMMA FileStepsLoseNothing ==
  ASSUME Kept, NothingLost, StartTick \/ Save
  PROVE  NothingLost'
<1>1. CASE StartTick
  <2>1. /\ at = "IDLE" /\ at' = "ROWS" /\ rows = {}
        /\ UNCHANGED <<state, proof, session, rows, bisection, trace>>
    BY <1>1 DEF StartTick, graphVars, NothingLost, RowsAreTrue
  <2>2. RowsAreTrue' /\ BundlesAreProven' /\ RepairsAreAwaited'
    BY <2>1 DEF NothingLost, RowsAreTrue, BundlesAreProven, RepairsAreAwaited, Live
  <2>3. ShardsAreSeen' /\ ParentFollows'
    BY <2>1 DEF NothingLost, ShardsAreSeen, ParentFollows, Refused, Found
  <2>4. VerdictIsSeen' /\ ProbeIsAwaited' /\ TracesFollow'
    BY <2>1 DEF NothingLost, VerdictIsSeen, ProbeIsAwaited, TracesFollow, Live
  <2>5. QED
    BY <2>2, <2>3, <2>4 DEF NothingLost
<1>2. CASE Save
  <2>1. UNCHANGED <<state, proof, session, at, rows, bisection, trace>>
    BY <1>2 DEF Save, graphVars
  <2>2. QED
    BY <2>1 DEF NothingLost, RowsAreTrue, BundlesAreProven, RepairsAreAwaited, ShardsAreSeen,
                ParentFollows, VerdictIsSeen, ProbeIsAwaited, TracesFollow, Live, Refused, Found
<1>3. QED
  BY <1>1, <1>2

LEMMA BisectionLosesNothing ==
  ASSUME Kept, BisectionOK, NothingLost, ContinueBisection
  PROVE  NothingLost'
<1>1. /\ at = "IDLE" /\ rows = {} /\ UNCHANGED <<proof, session, at, rows, trace>>
      /\ bisection'.stage # "NONE"
      /\ bisection'.answer = "AWAITED" => state'[Probe] = "READY"
      /\ \A t \in Tasks : t # Probe => state'[t] = state[t]
  BY BisectionContinues, KeptFacts, TaskNames DEF ContinueBisection, NothingLost, RowsAreTrue
<1>2. /\ state'[Parent] = state[Parent] /\ state'[Composition] = state[Composition]
      /\ state'[CompositionRepair] = state[CompositionRepair]
      /\ \A i \in Shards : state'[Shard(i)] = state[Shard(i)]
      /\ \A r \in Repairs : state'[r] = state[r] /\ state'[Target(r)] = state[Target(r)]
  BY <1>1, TaskNames, ShardNames, RepairNames, TasksDiffer
<1>3. RowsAreTrue' /\ ProbeIsAwaited'
  BY <1>1 DEF RowsAreTrue, ProbeIsAwaited, Live
<1>4. BundlesAreProven' /\ RepairsAreAwaited'
  BY <1>1, <1>2, KeptFacts DEF NothingLost, BundlesAreProven, RepairsAreAwaited, Live, SessionType
<1>5. ShardsAreSeen' /\ ParentFollows'
  BY <1>1, <1>2 DEF NothingLost, ShardsAreSeen, ParentFollows, Refused, Found
<1>6. VerdictIsSeen' /\ TracesFollow'
  BY <1>1, <1>2 DEF NothingLost, VerdictIsSeen, TracesFollow
<1>7. QED
  BY <1>3, <1>4, <1>5, <1>6 DEF NothingLost

\* A shard whose failure is reported is not in the session, and ends it.
LEMMA DoomedIsCollecting ==
  ASSUME Kept, NothingLost, at = "ROWS", NEW r \in Doomed,
         session.state \notin {"NONE", "FAILED", "ACCEPTED"}
  PROVE  /\ r.task.n \in Shards \ session.bundles /\ session.state = "COLLECTING"
         /\ state[Composition] = "NONE" /\ state[Parent] \notin {"ACCEPTED", "FAILED"}
         /\ \A q \in Repairs : Live(q) => Target(q) # Shard(r.task.n)
         /\ state[Shard(r.task.n)] \in {"BLOCKED", "FAILED"}
<1>1. r \in rows /\ r.action = "TERMINATE" /\ r \in [task: Tasks, action: Actions]
  BY KeptFacts DEF Doomed, Found
<1>2. PICK i \in Shards : r.task = Shard(i) \/ (r.task = ShardRepair(i) /\ i \in Repairable)
  BY TaskNames DEF Doomed, Found, ShardTasks
<1>3. r.task.n = i /\ r = Row(r.task, "TERMINATE")
  BY <1>1, <1>2, TaskKinds DEF Row
<1>4. state[Shard(i)] \in {"BLOCKED", "FAILED"} /\ state[r.task] = "FAILED"
  BY <1>1, <1>2, <1>3 DEF NothingLost, RowsAreTrue
<1>5. i \notin session.bundles
  BY <1>4 DEF NothingLost, BundlesAreProven
<1>6. session.state = "COLLECTING" /\ state[Composition] = "NONE"
  BY <1>5, KeptFacts DEF NothingLost, BundlesAreProven, SessionType, SessionStates
<1>7. state[Parent] \notin {"ACCEPTED", "FAILED"}
  BY <1>6, KeptFacts DEF NothingLost, ParentFollows, AfterComposition
<1>8. ASSUME NEW q \in Repairs, Live(q), Target(q) = Shard(i) PROVE FALSE
  <2>1. state[Shard(i)] = "BLOCKED" /\ q = ShardRepair(i)
    BY <1>8, RowNames DEF NothingLost, RepairsAreAwaited
  <2>2. r.task = q
    BY <1>2, <1>4, <2>1
  <2>3. QED
    BY <1>4, <1>8, <2>2 DEF Live
<1>9. QED
  BY <1>3, <1>4, <1>5, <1>6, <1>7, <1>8

LEMMA TracedFacts ==
  ASSUME NEW S, NEW events
  PROVE  \A i \in Shards :
           Traced(S, events)[i] = IF i \in S /\ trace[i] # <<>> THEN trace[i] \o events ELSE trace[i]
BY DEF Traced

LEMMA NewTracesFacts == \A i \in Shards : NewTraces[i] = <<"admitted", "queued">> /\ NewTraces[i] # <<>>
BY DEF NewTraces

LEMMA FailuresLoseNothing ==
  ASSUME Kept, BisectionOK, NothingLost, PassFailures
  PROVE  NothingLost'
<1>1. /\ at = "ROWS" /\ at' = "SUBMIT" /\ bisection'.stage = bisection.stage
      /\ bisection'.answer = "AWAITED" => bisection.answer = "AWAITED" /\ \A r \in rows : r.task # Probe
      /\ UNCHANGED <<proof, rows>>
  BY AnsweredIsProbed DEF PassFailures
<1>2. bisection'.answer = "AWAITED" => Live(Probe)
  BY <1>1 DEF NothingLost, ProbeIsAwaited
<1>3. CASE Doomed = {} \/ session.state \in {"NONE", "FAILED", "ACCEPTED"}
  <2>1. UNCHANGED <<state, session, trace>>
    BY <1>3 DEF PassFailures
  <2>2. RowsAreTrue' /\ BundlesAreProven' /\ RepairsAreAwaited'
    BY <1>1, <2>1 DEF NothingLost, RowsAreTrue, BundlesAreProven, RepairsAreAwaited, Live
  <2>3. ShardsAreSeen'
    <3> SUFFICES ASSUME NEW i \in Shards \ session.bundles
                 PROVE  /\ state[Shard(i)] = "ACCEPTED" /\ session.state # "FAILED" =>
                             {Row(Shard(i), "ACCEPT"), Row(ShardRepair(i), "ACCEPT")} \cap rows # {}
                        /\ state[Shard(i)] = "FAILED" => session.state = "FAILED"
      BY <1>1, <2>1 DEF ShardsAreSeen
    <3>1. ASSUME state[Shard(i)] = "FAILED", session.state # "FAILED" PROVE FALSE
      <4>1. Row(Shard(i), "TERMINATE") \in rows
        BY <3>1 DEF NothingLost, ShardsAreSeen
      <4>2. Row(Shard(i), "TERMINATE") \in Doomed
        BY <4>1, RowNames, ShardNames DEF Doomed, Found
      <4>3. session.state \in {"NONE", "ACCEPTED"}
        BY <1>3, <3>1, <4>2
      <4>4. QED
        BY <3>1, <4>3 DEF NothingLost, ParentFollows, BundlesAreProven
    <3>2. QED
      BY <3>1 DEF NothingLost, ShardsAreSeen
  <2>4. ParentFollows' /\ VerdictIsSeen' /\ TracesFollow'
    BY <1>1, <2>1 DEF NothingLost, ParentFollows, VerdictIsSeen, TracesFollow, Refused, Found
  <2>5. ProbeIsAwaited'
    BY <1>2, <2>1 DEF ProbeIsAwaited, Live
  <2>6. QED
    BY <2>2, <2>3, <2>4, <2>5 DEF NothingLost
<1>4. CASE Doomed # {} /\ session.state \notin {"NONE", "FAILED", "ACCEPTED"}
  <2>1. PICK r \in Doomed :
          /\ trace' = Traced({r.task.n}, <<"rejected">>)
          /\ session' = FailedSession
          /\ state' = [state EXCEPT ![Shard(r.task.n)] = "FAILED",
                                    ![Parent] = IF @ = "ACCEPTED" THEN @ ELSE "FAILED"]
    BY <1>4 DEF PassFailures
  <2> DEFINE n == r.task.n
  <2>2. /\ n \in Shards \ session.bundles /\ session.state = "COLLECTING"
        /\ state[Composition] = "NONE" /\ state[Parent] \notin {"ACCEPTED", "FAILED"}
        /\ \A q \in Repairs : Live(q) => Target(q) # Shard(n)
        /\ state[Shard(n)] \in {"BLOCKED", "FAILED"}
    BY <1>1, <1>4, DoomedIsCollecting
  <2>3. /\ session'.state = "FAILED" /\ session'.bundles = session.bundles
        /\ session' \in SessionType
    BY <2>1, <2>2, KeptFacts, SessionStepsAreTyped DEF FailedSession, SessionType
  <2> HIDE DEF n
  <2>4. /\ state'[Shard(n)] = "FAILED" /\ state'[Parent] = "FAILED"
        /\ \A t \in Tasks : t \notin {Parent, Shard(n)} => state'[t] = state[t]
    BY <2>1, <2>2, KeptFacts, ShardNames, TaskNames, TasksDiffer DEF n
  <2>5. /\ state'[Composition] = "NONE" /\ state'[Probe] = state[Probe]
        /\ \A i \in Shards : i # n => state'[Shard(i)] = state[Shard(i)]
        /\ \A q \in Repairs : state'[q] = state[q]
    BY <2>2, <2>4, ShardNames, TaskNames, TasksDiffer
  <2>6. RowsAreTrue'
    <3>1. \A t \in Tasks : /\ state[t] # "NONE" => state'[t] # "NONE"
                           /\ state[t] = "FAILED" => state'[t] = "FAILED"
      BY <2>4
    <3>2. QED
      BY <1>1, <3>1, KeptFacts DEF NothingLost, RowsAreTrue
  <2>7. BundlesAreProven'
    BY <1>1, <2>2, <2>3, <2>5 DEF NothingLost, BundlesAreProven, SessionType
  <2>8. RepairsAreAwaited'
    <3> SUFFICES ASSUME NEW q \in Repairs, Live(q)' PROVE state'[Target(q)] = "BLOCKED"
      BY DEF RepairsAreAwaited
    <3>1. Live(q)
      BY <2>5 DEF Live
    <3>2. state[Target(q)] = "BLOCKED" /\ Target(q) # Shard(n)
      BY <2>2, <3>1 DEF NothingLost, RepairsAreAwaited
    <3>3. QED
      BY <2>4, <3>2, RepairNames, TaskNames, TasksDiffer
  <2>9. ShardsAreSeen' /\ VerdictIsSeen'
    BY <2>3 DEF ShardsAreSeen, VerdictIsSeen
  <2>10. ParentFollows'
    BY <2>2, <2>3, <2>4, <2>5 DEF NothingLost, ParentFollows
  <2>11. ProbeIsAwaited'
    BY <1>2, <2>5 DEF ProbeIsAwaited, Live
  <2>12. TracesFollow'
    <3> SUFFICES ASSUME NEW i \in Shards
                 PROVE  IF i \in session.bundles THEN trace'[i] = NewTraces[i] \o Verified
                        ELSE \/ trace'[i] = NewTraces[i]
                             \/ /\ trace'[i] = NewTraces[i] \o <<"rejected">>
                                /\ state'[Shard(i)] = "FAILED" /\ state'[Parent] = "FAILED"
      BY <2>3 DEF TracesFollow
    <3>1. trace[i] = IF i \in session.bundles THEN NewTraces[i] \o Verified ELSE NewTraces[i]
      BY <2>2 DEF NothingLost, TracesFollow
    <3>2. CASE i = n
      <4>1. trace[i] = NewTraces[i] /\ trace[i] # <<>>
        BY <2>2, <3>1, <3>2, NewTracesFacts
      <4>2. trace' = Traced({n}, <<"rejected">>)
        BY <2>1 DEF n
      <4>3. trace'[i] = IF i \in {n} /\ trace[i] # <<>> THEN trace[i] \o <<"rejected">> ELSE trace[i]
        BY <4>2 DEF Traced
      <4>4. trace'[i] = NewTraces[i] \o <<"rejected">>
        BY <3>2, <4>1, <4>3
      <4>5. QED
        BY <2>2, <2>4, <3>2, <4>4
    <3>3. CASE i # n
      <4>1. trace'[i] = trace[i]
        BY <2>1, <3>3, TracedFacts DEF n
      <4>2. QED
        BY <3>1, <4>1
    <3>4. QED
      BY <3>2, <3>3
  <2>13. QED
    BY <2>6, <2>7, <2>8, <2>9, <2>10, <2>11, <2>12 DEF NothingLost
<1>5. QED
  BY <1>3, <1>4

\* The bundles of the accepted shards that were seen go into the session, and their events into
\* the traces.
LEMMA BundlesLoseNothing ==
  ASSUME Kept, NothingLost, PassAccepted
  PROVE  NothingLost'
<1>1. /\ at = "SUBMIT" /\ Unbundled = {} /\ (Candidates # {} => session.state # "NONE")
      /\ session' = IF session.state = "FAILED" THEN session ELSE Submitted(Candidates)
      /\ trace' = Traced(Submitting(Candidates), Verified)
      /\ at' = IF session'.state = "READY_TO_COMPOSE" THEN "COMPOSE" ELSE "CONCLUDE"
      /\ UNCHANGED <<state, proof, rows, bisection>>
  BY DEF PassAccepted, graphVars
<1>2. /\ Candidates \subseteq Shards
      /\ \A i \in Candidates : state[Shard(i)] = "ACCEPTED" /\ Shard(i) \in proof
  BY <1>1 DEF Candidates, Unbundled
<1>3. \A i \in Shards \ Candidates :
        /\ state[Shard(i)] = "ACCEPTED" /\ session.state # "FAILED" => i \in session.bundles
        /\ state[Shard(i)] = "FAILED" => session.state = "FAILED" \/ i \in session.bundles
  <2> SUFFICES ASSUME NEW i \in Shards \ Candidates, i \notin session.bundles, session.state # "FAILED"
               PROVE  state[Shard(i)] \notin {"ACCEPTED", "FAILED"}
    OBVIOUS
  <2>1. state[Shard(i)] # "FAILED"
    BY <1>1 DEF NothingLost, ShardsAreSeen
  <2>2. ASSUME state[Shard(i)] = "ACCEPTED" PROVE FALSE
    <3>1. PICK t \in {Shard(i), ShardRepair(i)} : Row(t, "ACCEPT") \in rows
      BY <2>2 DEF NothingLost, ShardsAreSeen
    <3>2. t \in {r.task : r \in Found("ACCEPT", Tasks)}
      <4>1. Row(t, "ACCEPT") \in Found("ACCEPT", Tasks) /\ Row(t, "ACCEPT").task = t
        BY <3>1, RowNames, KeptFacts DEF Found
      <4>2. QED
        BY <4>1, Zenon
    <3>3. i \in Candidates
      BY <2>2, <3>2 DEF Candidates
    <3>4. QED
      BY <3>3
  <2>3. QED
    BY <2>1, <2>2
<1>4. session \in SessionType /\ session.state # "READY_TO_COMPOSE" /\ at' \in {"COMPOSE", "CONCLUDE"}
  BY <1>1, KeptFacts DEF NothingLost, BundlesAreProven
<1>5. CASE session.state \in {"NONE", "FAILED"}
  <2>1. session' = session
    <3>1. CASE session.state = "NONE"
      <4>1. Candidates = {}
        BY <1>1, <3>1
      <4>2. Submitted({}) = [state |-> session.state, bundles |-> session.bundles]
        BY <3>1 DEF Submitted
      <4>3. session = [state |-> session.state, bundles |-> session.bundles]
        BY <1>4 DEF SessionType
      <4>4. QED
        BY <1>1, <3>1, <4>1, <4>2, <4>3
    <3>2. CASE session.state = "FAILED"
      BY <1>1, <3>2
    <3>3. QED
      BY <1>5, <3>1, <3>2
  <2>2. \A i \in Shards : trace'[i] = trace[i]
    <3>1. Submitting(Candidates) = {}
      BY <1>1, <1>5 DEF Submitting
    <3>2. QED
      BY <1>1, <3>1, TracedFacts
  <2>3. RowsAreTrue' /\ BundlesAreProven' /\ RepairsAreAwaited'
    BY <1>1, <1>4, <2>1 DEF NothingLost, RowsAreTrue, BundlesAreProven, RepairsAreAwaited, Live
  <2>4. ShardsAreSeen'
    BY <1>1, <1>5, <2>1 DEF NothingLost, ShardsAreSeen, ParentFollows
  <2>5. ParentFollows' /\ VerdictIsSeen'
    BY <1>1, <2>1 DEF NothingLost, ParentFollows, VerdictIsSeen, Refused, Found
  <2>6. ProbeIsAwaited' /\ TracesFollow'
    BY <1>1, <2>1, <2>2 DEF NothingLost, ProbeIsAwaited, TracesFollow, Live
  <2>7. QED
    BY <2>3, <2>4, <2>5, <2>6 DEF NothingLost
<1>6. CASE session.state \notin {"NONE", "FAILED"}
  <2> DEFINE all == session.bundles \cup Candidates
  <2>1. /\ session'.bundles = all
        /\ session'.state = IF all = Shards /\ session.state = "COLLECTING" THEN "READY_TO_COMPOSE"
                            ELSE session.state
    BY <1>1, <1>6 DEF Submitted
  <2>2. RowsAreTrue'
    BY <1>1, <1>4 DEF NothingLost, RowsAreTrue
  <2>3. session.state \in {"COMPOSED", "ACCEPTED"} => all = Shards
    BY <1>2, <1>4 DEF NothingLost, BundlesAreProven, SessionType
  <2>4. BundlesAreProven'
    <3>1. \A i \in all : Shard(i) \in proof /\ state[Shard(i)] = "ACCEPTED"
      BY <1>2 DEF NothingLost, BundlesAreProven
    <3>2. /\ session'.state \in {"READY_TO_COMPOSE", "COMPOSED", "ACCEPTED"} => all = Shards
          /\ session'.state = "COLLECTING" => all # Shards
          /\ session'.state = "READY_TO_COMPOSE" => at' = "COMPOSE"
      BY <1>1, <1>4, <2>1, <2>3
    <3>3. IF state[Composition] = "NONE" THEN session'.state \notin {"COMPOSED", "ACCEPTED"}
          ELSE all = Shards /\ session'.state \in {"COMPOSED", "ACCEPTED", "FAILED"}
      BY <1>6, <2>1, <2>3 DEF NothingLost, BundlesAreProven
    <3>4. QED
      BY <1>1, <2>1, <3>1, <3>2, <3>3 DEF BundlesAreProven
  <2>5. RepairsAreAwaited'
    BY <1>1 DEF NothingLost, RepairsAreAwaited, Live
  <2>6. ShardsAreSeen'
    BY <1>1, <1>3, <1>6, <2>1 DEF ShardsAreSeen
  <2>7. ParentFollows'
    BY <1>1, <1>6, <2>1 DEF NothingLost, ParentFollows, Refused, Found
  <2>8. VerdictIsSeen'
    BY <1>1, <2>1 DEF NothingLost, VerdictIsSeen
  <2>9. ProbeIsAwaited'
    BY <1>1 DEF NothingLost, ProbeIsAwaited, Live
  <2>10. TracesFollow'
    <3> SUFFICES ASSUME NEW i \in Shards
                 PROVE  IF i \in all THEN trace'[i] = NewTraces[i] \o Verified
                        ELSE \/ trace'[i] = NewTraces[i]
                             \/ /\ trace'[i] = NewTraces[i] \o <<"rejected">>
                                /\ state[Shard(i)] = "FAILED" /\ state[Parent] = "FAILED"
      BY <1>1, <1>6, <2>1 DEF TracesFollow
    <3>1. IF i \in session.bundles THEN trace[i] = NewTraces[i] \o Verified
          ELSE \/ trace[i] = NewTraces[i]
               \/ /\ trace[i] = NewTraces[i] \o <<"rejected">>
                  /\ state[Shard(i)] = "FAILED" /\ state[Parent] = "FAILED"
      BY <1>6 DEF NothingLost, TracesFollow
    <3>2. CASE i \in Candidates \ session.bundles
      <4>1. i \in Submitting(Candidates)
        BY <1>6, <3>2 DEF Submitting
      <4>2. trace[i] = NewTraces[i] /\ trace[i] # <<>>
        BY <1>2, <3>1, <3>2, NewTracesFacts
      <4>3. trace'[i] = NewTraces[i] \o Verified
        BY <1>1, <4>1, <4>2, TracedFacts
      <4>4. QED
        BY <3>2, <4>3
    <3>3. CASE i \notin Candidates \ session.bundles
      <4>1. i \notin Submitting(Candidates)
        BY <3>3 DEF Submitting
      <4>2. trace'[i] = trace[i]
        BY <1>1, <4>1, TracedFacts
      <4>3. QED
        BY <3>1, <3>3, <4>2
    <3>4. QED
      BY <3>2, <3>3
  <2>11. QED
    BY <2>2, <2>4, <2>5, <2>6, <2>7, <2>8, <2>9, <2>10 DEF NothingLost
<1>7. QED
  BY <1>5, <1>6

LEMMA CompositionLosesNothing ==
  ASSUME Kept, NothingLost, PassComposition
  PROVE  NothingLost'
<1>1. /\ at = "COMPOSE" /\ at' = "CONCLUDE" /\ UNCHANGED <<proof, rows, bisection, trace>>
  BY DEF PassComposition
<1>2. CASE Composable
  <2>1. /\ session.state = "READY_TO_COMPOSE" /\ session.bundles = Shards
        /\ state[Composition] = "NONE" /\ state[Parent] \notin {"ACCEPTED", "FAILED"}
    BY <1>2, KeptFacts DEF Composable, NothingLost, BundlesAreProven, AfterComposition
  <2>2. /\ session'.state = "COMPOSED" /\ session'.bundles = Shards
        /\ state'[Composition] = "READY" /\ \A t \in Tasks : t # Composition => state'[t] = state[t]
    BY <1>2, <2>1, KeptFacts, TaskNames DEF PassComposition, ComposedSession, SessionType
  <2>3. /\ state'[Parent] = state[Parent] /\ state'[Probe] = state[Probe]
        /\ \A i \in Shards : state'[Shard(i)] = state[Shard(i)]
        /\ \A r \in Repairs : state'[r] = state[r]
    BY <2>2, ShardNames, TaskNames, TasksDiffer
  <2>4. RowsAreTrue'
    <3>1. \A r \in rows : r.task \in Tasks \ {Composition}
      BY <2>1, KeptFacts DEF NothingLost, RowsAreTrue
    <3>2. QED
      BY <1>1, <2>2, <3>1 DEF NothingLost, RowsAreTrue
  <2>5. BundlesAreProven'
    BY <1>1, <2>1, <2>2, <2>3 DEF NothingLost, BundlesAreProven
  <2>6. RepairsAreAwaited'
    <3> SUFFICES ASSUME NEW r \in Repairs, Live(r)' PROVE state'[Target(r)] = "BLOCKED"
      BY DEF RepairsAreAwaited
    <3>1. state[Target(r)] = "BLOCKED"
      BY <2>3 DEF NothingLost, RepairsAreAwaited, Live
    <3>2. QED
      BY <2>1, <2>2, <3>1, RepairNames, TaskNames
  <2>7. ShardsAreSeen' /\ VerdictIsSeen'
    BY <2>2 DEF ShardsAreSeen, VerdictIsSeen
  <2>8. ParentFollows'
    BY <2>1, <2>2, <2>3 DEF NothingLost, ParentFollows
  <2>9. ProbeIsAwaited' /\ TracesFollow'
    BY <1>1, <2>1, <2>2, <2>3 DEF NothingLost, ProbeIsAwaited, TracesFollow, Live
  <2>10. QED
    BY <2>4, <2>5, <2>6, <2>7, <2>8, <2>9 DEF NothingLost
<1>3. CASE ~Composable
  <2>1. UNCHANGED <<session, state>>
    BY <1>3 DEF PassComposition
  <2>2. session.state # "READY_TO_COMPOSE"
    BY <1>3 DEF Composable, NothingLost, BundlesAreProven, ParentFollows
  <2>3. RowsAreTrue' /\ BundlesAreProven' /\ RepairsAreAwaited'
    BY <1>1, <2>1, <2>2 DEF NothingLost, RowsAreTrue, BundlesAreProven, RepairsAreAwaited, Live
  <2>4. ShardsAreSeen' /\ ParentFollows'
    BY <1>1, <2>1 DEF NothingLost, ShardsAreSeen, ParentFollows, Refused, Found
  <2>5. VerdictIsSeen' /\ ProbeIsAwaited' /\ TracesFollow'
    BY <1>1, <2>1 DEF NothingLost, VerdictIsSeen, ProbeIsAwaited, TracesFollow, Live
  <2>6. QED
    BY <2>3, <2>4, <2>5 DEF NothingLost
<1>4. QED
  BY <1>2, <1>3

\* The parent changes its state with that of the session, once the composition is there.
LEMMA VerdictsLoseNothing ==
  ASSUME Kept, NothingLost, AcceptParent \/ RefuseParent
  PROVE  NothingLost'
<1>1. at = "CONCLUDE" /\ at' = "IDLE" /\ rows' = {} /\ UNCHANGED <<proof, trace>>
  BY DEF AcceptParent, RefuseParent, Concluded
<1>2. \E r \in rows : r.task = Composition
  BY RowNames DEF AcceptParent, RefuseParent, Accepted, Refused, Found
<1>3. /\ state[Composition] # "NONE" /\ session.bundles = Shards
      /\ session.state \in {"COMPOSED", "ACCEPTED", "FAILED"}
      /\ RefuseParent => session.state # "ACCEPTED"
      /\ session.state = "FAILED" => bisection.stage # "NONE"
  BY <1>2 DEF NothingLost, RowsAreTrue, BundlesAreProven, ParentFollows, RefuseParent
<1>4. /\ session'.bundles = Shards
      /\ session'.state \in {"ACCEPTED", "FAILED"}
      /\ state'[Parent] = IF AcceptParent THEN "ACCEPTED" ELSE "BLOCKED"
      /\ AcceptParent => state[Composition] = "ACCEPTED" /\ Composition \in proof
      /\ session'.state = "ACCEPTED" => AcceptParent
      /\ session'.state = "FAILED" => bisection'.stage # "NONE"
      /\ \A t \in Tasks : t \notin {Parent, Probe} => state'[t] = state[t]
      /\ (UNCHANGED bisection /\ state'[Probe] = state[Probe]) \/ state'[Probe] = "READY"
  <2>1. CASE AcceptParent
    <3>1. /\ session' = IF session.state = "COMPOSED" THEN [session EXCEPT !.state = "ACCEPTED"]
                        ELSE session
          /\ state' = [state EXCEPT ![Parent] = "ACCEPTED"] /\ UNCHANGED bisection
          /\ state[Composition] = "ACCEPTED" /\ Composition \in proof
      BY <2>1 DEF AcceptParent, Concluded, Accepted
    <3>2. /\ state'[Parent] = "ACCEPTED" /\ state'[Probe] = state[Probe]
          /\ \A t \in Tasks : t \notin {Parent, Probe} => state'[t] = state[t]
      BY <3>1, KeptFacts, TaskNames, TasksDiffer
    <3>3. /\ session'.bundles = Shards /\ session'.state \in {"ACCEPTED", "FAILED"}
          /\ session'.state = "FAILED" => session.state = "FAILED"
      BY <1>3, <3>1, KeptFacts DEF SessionType
    <3>4. QED
      BY <1>3, <2>1, <3>1, <3>2, <3>3
  <2>2. CASE RefuseParent /\ ~AcceptParent
    <3>1. CASE session.state = "COMPOSED"
      <4>1. /\ bisection' = [NoBisection EXCEPT !.stage = "RECHECK", !.answer = "AWAITED"]
            /\ state' = [state EXCEPT ![Parent] = "BLOCKED", ![Probe] = "READY"]
            /\ session' = [session EXCEPT !.state = "FAILED"]
        BY <2>2, <3>1 DEF RefuseParent
      <4>2. /\ state'[Parent] = "BLOCKED" /\ state'[Probe] = "READY"
            /\ \A t \in Tasks : t \notin {Parent, Probe} => state'[t] = state[t]
        BY <4>1, KeptFacts, TaskNames, TasksDiffer
      <4>3. session'.bundles = Shards /\ session'.state = "FAILED" /\ bisection'.stage = "RECHECK"
        BY <1>3, <4>1, KeptFacts DEF SessionType, NoBisection
      <4>4. QED
        BY <2>2, <4>2, <4>3
    <3>2. CASE session.state # "COMPOSED"
      <4>1. /\ state' = [state EXCEPT ![Parent] = "BLOCKED"] /\ UNCHANGED <<bisection, session>>
        BY <2>2, <3>2 DEF RefuseParent
      <4>2. /\ state'[Parent] = "BLOCKED" /\ state'[Probe] = state[Probe]
            /\ \A t \in Tasks : t \notin {Parent, Probe} => state'[t] = state[t]
        BY <4>1, KeptFacts, TaskNames, TasksDiffer
      <4>3. QED
        BY <1>3, <2>2, <3>2, <4>1, <4>2
    <3>3. QED
      BY <3>1, <3>2
  <2>3. QED
    BY <2>1, <2>2
<1>5. /\ state'[Composition] = state[Composition]
      /\ \A i \in Shards : state'[Shard(i)] = state[Shard(i)]
      /\ \A r \in Repairs : state'[r] = state[r] /\ state'[Target(r)] = state[Target(r)]
  BY <1>4, ShardNames, RepairNames, TaskNames, TasksDiffer
<1>6. RowsAreTrue' /\ ShardsAreSeen' /\ VerdictIsSeen'
  BY <1>1, <1>4 DEF RowsAreTrue, ShardsAreSeen, VerdictIsSeen
<1>7. BundlesAreProven'
  BY <1>1, <1>3, <1>4, <1>5 DEF NothingLost, BundlesAreProven
<1>8. RepairsAreAwaited'
  BY <1>5 DEF NothingLost, RepairsAreAwaited, Live
<1>9. ParentFollows'
  <2>1. ~Refused'
    BY <1>1 DEF Refused, Found
  <2>2. \A i \in Shards : state'[Shard(i)] # "NONE" /\ Shard(i) \in proof
    BY <1>3, <1>5 DEF NothingLost, BundlesAreProven
  <2>3. QED
    BY <1>1, <1>3, <1>4, <1>5, <2>1, <2>2 DEF ParentFollows, ShardTasks
<1>10. ProbeIsAwaited'
  BY <1>1, <1>4 DEF NothingLost, ProbeIsAwaited, Live
<1>11. TracesFollow'
  BY <1>1, <1>3, <1>4 DEF NothingLost, TracesFollow
<1>12. QED
  BY <1>6, <1>7, <1>8, <1>9, <1>10, <1>11 DEF NothingLost

\* A tick that ends without a verdict had none to give.
LEMMA EndLosesNothing ==
  ASSUME Kept, NothingLost, EndTick
  PROVE  NothingLost'
<1>1. /\ at = "CONCLUDE" /\ ~Accepted /\ ~Refused /\ at' = "IDLE" /\ rows' = {}
      /\ UNCHANGED <<state, proof, session, bisection, trace>>
  BY DEF EndTick, graphVars
<1>2. RowsAreTrue' /\ BundlesAreProven' /\ RepairsAreAwaited'
  BY <1>1 DEF NothingLost, RowsAreTrue, BundlesAreProven, RepairsAreAwaited, Live
<1>3. ShardsAreSeen'
  BY <1>1 DEF NothingLost, ShardsAreSeen
<1>4. ParentFollows'
  BY <1>1 DEF NothingLost, ParentFollows, Refused, Found
<1>5. VerdictIsSeen'
  <2>1. Row(Composition, "TERMINATE") \in rows => Refused
    BY RowNames DEF Refused, Found
  <2>2. QED
    BY <1>1, <2>1 DEF NothingLost, VerdictIsSeen, Accepted
<1>6. ProbeIsAwaited' /\ TracesFollow'
  BY <1>1 DEF NothingLost, ProbeIsAwaited, TracesFollow, Live
<1>7. QED
  BY <1>2, <1>3, <1>4, <1>5, <1>6 DEF NothingLost

\* Every step that is not a loss.
LEMMA NothingLostNext ==
  ASSUME SInv, [MicroNext]_microVars, ~lost'
  PROVE  NothingLost'
<1>1. Kept /\ BisectionOK
  BY DEF SInv
<1>2. CASE UNCHANGED microVars
  <2>1. NothingLost
    BY <1>2 DEF SInv, microVars
  <2>2. UNCHANGED <<state, proof, session, at, rows, bisection, trace>>
    BY <1>2 DEF microVars, graphVars
  <2>3. QED
    BY <2>1, <2>2 DEF NothingLost, RowsAreTrue, BundlesAreProven, RepairsAreAwaited, ShardsAreSeen,
                ParentFollows, VerdictIsSeen, ProbeIsAwaited, TracesFollow, Live, Refused, Found
<1>3. CASE \E t \in Tasks : Dispatch(t) \/ TakeBack(t) \/ ReleaseByOperator(t) \/ PostResult(t)
  BY <1>1, <1>3, TaskStepsLoseNothing DEF SInv
<1>4. CASE \E t \in Tasks : ReportAccepted(t) \/ ReportRepair(t) \/ ReportSetAside(t) \/ ReportTerminated(t)
  BY <1>1, <1>4, ReportsLoseNothing
     DEF SInv, ReportAccepted, ReportRepair, ReportSetAside, ReportTerminated, Reported
<1>5. CASE (\E t \in Tasks : GateThrows(t)) \/ Restart
  BY <1>5 DEF GateThrows, Throw, Restart
<1>6. CASE Materialize \/ StartTick \/ Save
  BY <1>1, <1>6, MaterializeLosesNothing, FileStepsLoseNothing
     DEF SInv, Materialize, StartTick, Save
<1>7. CASE Coordinate
  <2>1. CASE PassAcceptedThrows \/ PassCompositionThrows \/ AcceptParentThrows
    BY <2>1 DEF PassAcceptedThrows, PassCompositionThrows, AcceptParentThrows, Throw
  <2>2. CASE PassFailures \/ PassAccepted \/ PassComposition
    BY <1>1, <2>2, FailuresLoseNothing, BundlesLoseNothing, CompositionLosesNothing
       DEF SInv, PassFailures, PassAccepted, PassComposition
  <2>3. CASE AcceptParent \/ RefuseParent
    BY <1>1, <2>3, VerdictsLoseNothing DEF SInv, AcceptParent, Concluded, RefuseParent
  <2>4. CASE EndTick \/ ContinueBisection
    BY <1>1, <2>4, EndLosesNothing, BisectionLosesNothing DEF SInv, EndTick, ContinueBisection
  <2>5. QED
    BY <1>7, <2>1, <2>2, <2>3, <2>4 DEF Coordinate
<1>8. QED
  BY <1>2, <1>3, <1>4, <1>5, <1>6, <1>7 DEF MicroNext

\* The invariant holds in every state.
THEOREM ShardsAreKept == MicroSpec => []SInv
<1>1. MicroInit => SInv
  <2> SUFFICES ASSUME MicroInit PROVE SInv
    OBVIOUS
  <2>1. BisectionOK
    BY BisectionStarts DEF MicroInit, BisectionOK, NoBisection
  <2>2. QED
    BY <2>1, InitIsKept, InitLosesNothing DEF SInv
<1>2. SInv /\ [MicroNext]_microVars => SInv'
  <2> SUFFICES ASSUME SInv, [MicroNext]_microVars PROVE SInv'
    OBVIOUS
  <2>1. Kept' /\ BisectionOK'
    BY KeptNext, BisectionNext DEF SInv
  <2>2. ~lost' => NothingLost'
    BY NothingLostNext
  <2>3. QED
    BY <2>1, <2>2 DEF SInv
<1>3. QED
  BY <1>1, <1>2, PTL DEF MicroSpec

----------------------------------------------------------------------------
(* The traces. *)

LEMMA Ranks ==
  /\ Rank("admitted") = 1 /\ Rank("queued") = 2
  /\ Rank("mutation-emitted") = 7 /\ Rank("verify-complete") = 10
<1>1. /\ DOMAIN Order = 1..13
      /\ \A n \in 1..13 : /\ Order[n] = "admitted" <=> n = 1
                          /\ Order[n] = "queued" <=> n = 2
                          /\ Order[n] = "mutation-emitted" <=> n = 7
                          /\ Order[n] = "verify-complete" <=> n = 10
  BY DEF Order
<1>2. QED
  BY <1>1 DEF Rank

\* The last of a part from the first is the last of them all.
LEMMA LatestIsLast ==
  ASSUME NEW events, NEW n \in Nat \ {0}
  PROVE  Latest(events, 1..n) = events[n]
<1>1. n \in 1..n /\ \A k \in 1..n : k <= n
  OBVIOUS
<1>2. \A m \in 1..n : (\A k \in 1..n : k <= m) => m = n
  <2> SUFFICES ASSUME NEW m \in 1..n, \A k \in 1..n : k <= m PROVE m = n
    OBVIOUS
  <2>1. n <= m
    BY <1>1
  <2>2. QED
    BY <2>1
<1>3. (CHOOSE m \in 1..n : \A k \in 1..n : k <= m) = n
  BY <1>1, <1>2
<1>4. QED
  BY <1>3 DEF Latest

\* A trace whose stages go forward and that ends once, at its end, has no other flag than that
\* of stages left out.
LEMMA OrderlyTrace ==
  ASSUME NEW S, NEW events \in Seq(S),
         \A n \in 1..Len(events) : events[n] \in Terminal => n = Len(events),
         \A n \in 1..Len(events) - 1 :
           events[n + 1] \notin Terminal => ~(Rank(events[n]) > Rank(events[n + 1]))
  PROVE  FlagsOf(events) \subseteq {"MISSING_PREREQUISITE"}
<1> DEFINE F(n) == Flags(SubSeq(events, 1, n - 1), events[n])
<1>0. FlagsOf(events) = UNION {F(n) : n \in 1..Len(events)}
  BY DEF FlagsOf
<1> SUFFICES ASSUME NEW n \in 1..Len(events) PROVE F(n) \subseteq {"MISSING_PREREQUISITE"}
  <2> HIDE DEF F
  <2>1. QED
    BY <1>0
<1> DEFINE earlier == SubSeq(events, 1, n - 1)
<1>1. DOMAIN earlier = 1..n - 1 /\ \A m \in 1..n - 1 : earlier[m] = events[m]
  OBVIOUS
<1> HIDE DEF earlier
<1>2. Ends(earlier) = {}
  BY <1>1 DEF Ends
<1>3. CASE events[n] \in Terminal
  BY <1>2, <1>3 DEF Flags, earlier
<1>4. CASE events[n] \notin Terminal
  <2>1. DOMAIN earlier \ Ends(earlier) = 1..n - 1
    BY <1>1, <1>2
  <2>2. ~(1..n - 1 # {} /\ Rank(Latest(earlier, 1..n - 1)) > Rank(events[n]))
    <3>1. CASE n = 1
      BY <3>1
    <3>2. CASE n # 1
      <4>1. n - 1 \in Nat \ {0} /\ n - 1 \in 1..Len(events) - 1 /\ n - 1 \in 1..n - 1
        BY <3>2
      <4>2. Latest(earlier, 1..n - 1) = events[n - 1]
        BY <1>1, <4>1, LatestIsLast
      <4>3. ~(Rank(events[n - 1]) > Rank(events[(n - 1) + 1])) /\ (n - 1) + 1 = n
        BY <1>4, <4>1
      <4>4. QED
        BY <4>2, <4>3
    <3>3. QED
      BY <3>1, <3>2
  <2>3. QED
    BY <1>4, <2>1, <2>2 DEF Flags, earlier
<1>5. QED
  BY <1>3, <1>4

LEMMA OneAppended ==
  ASSUME NEW a, NEW b, NEW c
  PROVE  <<a, b>> \o <<c>> = <<a, b, c>>
<1> DEFINE S == {a, b, c}
           s == <<a, b>>
           t == <<c>>
           u == <<a, b, c>>
<1>1. s \in Seq(S) /\ t \in Seq(S) /\ u \in Seq(S)
  OBVIOUS
<1>2. /\ Len(s) = 2 /\ s[1] = a /\ s[2] = b
      /\ Len(t) = 1 /\ t[1] = c
      /\ Len(u) = 3 /\ u[1] = a /\ u[2] = b /\ u[3] = c
  OBVIOUS
<1> HIDE DEF S, s, t, u
<1>3. /\ s \o t \in Seq(S) /\ Len(s \o t) = Len(s) + Len(t)
      /\ \A i \in 1..Len(s) + Len(t) : (s \o t)[i] = IF i <= Len(s) THEN s[i] ELSE t[i - Len(s)]
  BY <1>1, ConcatProperties
<1>4. Len(s \o t) = 3 /\ \A i \in 1..3 : (s \o t)[i] = IF i <= 2 THEN s[i] ELSE t[i - 2]
  BY <1>2, <1>3
<1>5. s \o t = u
  BY <1>1, <1>2, <1>3, <1>4
<1>6. QED
  BY <1>5 DEF s, t, u

LEMMA ThreeAppended ==
  ASSUME NEW a, NEW b, NEW c, NEW d, NEW e
  PROVE  <<a, b>> \o <<c, d, e>> = <<a, b, c, d, e>>
<1> DEFINE S == {a, b, c, d, e}
           s == <<a, b>>
           t == <<c, d, e>>
           u == <<a, b, c, d, e>>
<1>1. s \in Seq(S) /\ t \in Seq(S) /\ u \in Seq(S)
  OBVIOUS
<1>2. /\ Len(s) = 2 /\ s[1] = a /\ s[2] = b
      /\ Len(t) = 3 /\ t[1] = c /\ t[2] = d /\ t[3] = e
      /\ Len(u) = 5 /\ u[1] = a /\ u[2] = b /\ u[3] = c /\ u[4] = d /\ u[5] = e
  OBVIOUS
<1> HIDE DEF S, s, t, u
<1>3. /\ s \o t \in Seq(S) /\ Len(s \o t) = Len(s) + Len(t)
      /\ \A i \in 1..Len(s) + Len(t) : (s \o t)[i] = IF i <= Len(s) THEN s[i] ELSE t[i - Len(s)]
  BY <1>1, ConcatProperties
<1>4. Len(s \o t) = 5 /\ \A i \in 1..5 : (s \o t)[i] = IF i <= 2 THEN s[i] ELSE t[i - 2]
  BY <1>2, <1>3
<1>5. s \o t = u
  <2>1. \A i \in 1..5 : (s \o t)[i] = u[i]
    BY <1>2, <1>4
  <2>2. QED
    BY <1>1, <1>2, <1>3, <1>4, <2>1
<1>6. QED
  BY <1>5 DEF s, t, u

\* The traces that a shard can have.
LEMMA TraceOutcomes ==
  ASSUME NEW i \in Shards
  PROVE  /\ Status(<<>>) = "in-flight" /\ FlagsOf(<<>>) \subseteq {"MISSING_PREREQUISITE"}
         /\ Status(NewTraces[i]) = "in-flight"
         /\ FlagsOf(NewTraces[i]) \subseteq {"MISSING_PREREQUISITE"}
         /\ Status(NewTraces[i] \o Verified) = "accepted"
         /\ FlagsOf(NewTraces[i] \o Verified) \subseteq {"MISSING_PREREQUISITE"}
         /\ Status(NewTraces[i] \o <<"rejected">>) = "rejected"
         /\ FlagsOf(NewTraces[i] \o <<"rejected">>) \subseteq {"MISSING_PREREQUISITE"}
<1>1. /\ NewTraces[i] = <<"admitted", "queued">>
      /\ NewTraces[i] \o Verified
           = <<"admitted", "queued", "mutation-emitted", "verify-complete", "accepted">>
      /\ NewTraces[i] \o <<"rejected">> = <<"admitted", "queued", "rejected">>
  BY OneAppended, ThreeAppended DEF NewTraces, Verified
<1>2. Status(<<>>) = "in-flight" /\ FlagsOf(<<>>) \subseteq {"MISSING_PREREQUISITE"}
  BY DEF Status, Ends, FlagsOf
<1>3. /\ Status(<<"admitted", "queued">>) = "in-flight"
      /\ FlagsOf(<<"admitted", "queued">>) \subseteq {"MISSING_PREREQUISITE"}
  <2> DEFINE e == <<"admitted", "queued">>
             S == {"admitted", "queued"}
  <2>1. e \in Seq(S) /\ Len(e) = 2 /\ DOMAIN e = 1..2 /\ e[1] = "admitted" /\ e[2] = "queued"
    OBVIOUS
  <2> HIDE DEF e, S
  <2>2. \A n \in 1..2 : e[n] \notin Terminal
    BY <2>1 DEF Terminal
  <2>3. Ends(e) = {}
    BY <2>1, <2>2 DEF Ends
  <2>4. \A n \in 1..Len(e) - 1 : ~(Rank(e[n]) > Rank(e[n + 1]))
    BY <2>1, Ranks
  <2>5. QED
    BY <2>1, <2>2, <2>3, <2>4, OrderlyTrace DEF Status, e
<1>4. /\ Status(<<"admitted", "queued", "mutation-emitted", "verify-complete", "accepted">>) = "accepted"
      /\ FlagsOf(<<"admitted", "queued", "mutation-emitted", "verify-complete", "accepted">>)
           \subseteq {"MISSING_PREREQUISITE"}
  <2> DEFINE e == <<"admitted", "queued", "mutation-emitted", "verify-complete", "accepted">>
             S == {"admitted", "queued", "mutation-emitted", "verify-complete", "accepted"}
  <2>1. /\ e \in Seq(S) /\ Len(e) = 5 /\ DOMAIN e = 1..5 /\ e[1] = "admitted" /\ e[2] = "queued"
        /\ e[3] = "mutation-emitted" /\ e[4] = "verify-complete" /\ e[5] = "accepted"
    OBVIOUS
  <2> HIDE DEF e, S
  <2>2. \A n \in 1..5 : e[n] \in Terminal <=> n = 5
    BY <2>1 DEF Terminal
  <2>3. Ends(e) = {5}
    BY <2>1, <2>2 DEF Ends
  <2>4. Latest(e, {5}) = "accepted"
    BY <2>1 DEF Latest
  <2>5. \A n \in 1..Len(e) - 1 : e[n + 1] \notin Terminal => ~(Rank(e[n]) > Rank(e[n + 1]))
    BY <2>1, <2>2, Ranks
  <2>6. FlagsOf(e) \subseteq {"MISSING_PREREQUISITE"}
    BY <2>1, <2>2, <2>5, OrderlyTrace
  <2>7. QED
    BY <2>3, <2>4, <2>6 DEF Status, e
<1>5. /\ Status(<<"admitted", "queued", "rejected">>) = "rejected"
      /\ FlagsOf(<<"admitted", "queued", "rejected">>) \subseteq {"MISSING_PREREQUISITE"}
  <2> DEFINE e == <<"admitted", "queued", "rejected">>
             S == {"admitted", "queued", "rejected"}
  <2>1. /\ e \in Seq(S) /\ Len(e) = 3 /\ DOMAIN e = 1..3 /\ e[1] = "admitted" /\ e[2] = "queued"
        /\ e[3] = "rejected"
    OBVIOUS
  <2> HIDE DEF e, S
  <2>2. \A n \in 1..3 : e[n] \in Terminal <=> n = 3
    BY <2>1 DEF Terminal
  <2>3. Ends(e) = {3}
    BY <2>1, <2>2 DEF Ends
  <2>4. Latest(e, {3}) = "rejected"
    BY <2>1 DEF Latest
  <2>5. \A n \in 1..Len(e) - 1 : e[n + 1] \notin Terminal => ~(Rank(e[n]) > Rank(e[n + 1]))
    BY <2>1, <2>2, Ranks
  <2>6. FlagsOf(e) \subseteq {"MISSING_PREREQUISITE"}
    BY <2>1, <2>2, <2>5, OrderlyTrace
  <2>7. QED
    BY <2>3, <2>4, <2>6 DEF Status, e
<1>6. QED
  BY <1>1, <1>2, <1>3, <1>4, <1>5

----------------------------------------------------------------------------
(* The results. *)

LEMMA InvariantHolds == SInv => MicroInvariant
<1> SUFFICES ASSUME SInv PROVE MicroInvariant
  OBVIOUS
<1>1. Kept /\ bisection \in BisectionType
  BY DEF SInv, BisectionOK
<1>2. MicroTypeOK
  <2>1. /\ bisection.failing \subseteq Shards /\ bisection.parts \in 2..ShardCount
        /\ bisection.stage \in {"NONE", "RECHECK", "CHUNKS", "COMPLEMENTS", "DONE"}
    BY <1>1, SearchRanges DEF Stages
  <2>2. files.kept \in BOOLEAN
    <3>1. CASE files = NoFiles
      BY <3>1 DEF NoFiles
    <3>2. CASE files = [kept |-> TRUE, graph |-> files.graph, session |-> files.session]
      <4>1. files.kept = TRUE
        BY <3>2
      <4>2. QED
        BY <4>1
    <3>3. QED
      BY <1>1, <3>1, <3>2 DEF Kept, FilesOK
  <2>3. QED
    BY <1>1, <2>1, <2>2, KeptFacts DEF MicroTypeOK, SessionType
<1>3. AcceptedParentIsComposed
  <2>1. ~lost /\ state[Parent] = "ACCEPTED" => {Composition} \cup ShardTasks \subseteq proof
    BY DEF SInv, NothingLost, ParentFollows
  <2>2. state[Parent] = "ACCEPTED" => state[Composition] = "ACCEPTED"
    BY <1>1 DEF Kept, AfterComposition
  <2>3. QED
    BY <2>1, <2>2 DEF AcceptedParentIsComposed
<1>4. QED
  BY <1>2, <1>3 DEF MicroInvariant

\* A parent is accepted on the commit of a composition, made of a bundle of every shard: the
\* rule of the runbook that a shard's acceptance is not its parent's, however many shards.
THEOREM ParentIsAcceptedAfterComposition == MicroSpec => []MicroInvariant
BY ShardsAreKept, InvariantHolds, PTL

LEMMA TracesHold == SInv => TraceTellsOutcome
<1> SUFFICES ASSUME SInv, ~lost, NEW i \in Shards
             PROVE  /\ FlagsOf(trace[i]) \subseteq {"MISSING_PREREQUISITE"}
                    /\ (Status(trace[i]) = "accepted") = (i \in session.bundles)
                    /\ Status(trace[i]) = "rejected" =>
                         state[Shard(i)] = "FAILED" /\ state[Parent] = "FAILED"
  BY DEF TraceTellsOutcome
<1>1. NothingLost
  BY DEF SInv
<1>2. CASE session.state = "NONE"
  <2>1. trace[i] = <<>> /\ i \notin session.bundles
    BY <1>1, <1>2 DEF NothingLost, TracesFollow, ParentFollows, BundlesAreProven
  <2>2. Status(trace[i]) = "in-flight"
    BY <2>1, TraceOutcomes
  <2>3. QED
    BY <2>1, <2>2, TraceOutcomes
<1>3. CASE session.state # "NONE" /\ i \in session.bundles
  <2>1. trace[i] = NewTraces[i] \o Verified
    BY <1>1, <1>3 DEF NothingLost, TracesFollow
  <2>2. Status(trace[i]) = "accepted"
    BY <2>1, TraceOutcomes
  <2>3. QED
    BY <1>3, <2>1, <2>2, TraceOutcomes
<1>4. CASE session.state # "NONE" /\ i \notin session.bundles
  <2>1. \/ trace[i] = NewTraces[i]
        \/ /\ trace[i] = NewTraces[i] \o <<"rejected">>
           /\ state[Shard(i)] = "FAILED" /\ state[Parent] = "FAILED"
    BY <1>1, <1>4 DEF NothingLost, TracesFollow
  <2>2. CASE trace[i] = NewTraces[i]
    <3>1. Status(trace[i]) = "in-flight"
      BY <2>2, TraceOutcomes
    <3>2. QED
      BY <1>4, <2>2, <3>1, TraceOutcomes
  <2>3. CASE /\ trace[i] = NewTraces[i] \o <<"rejected">>
             /\ state[Shard(i)] = "FAILED" /\ state[Parent] = "FAILED"
    <3>1. Status(trace[i]) = "rejected"
      BY <2>3, TraceOutcomes
    <3>2. FlagsOf(trace[i]) \subseteq {"MISSING_PREREQUISITE"}
      BY <2>3, TraceOutcomes
    <3>3. QED
      BY <1>4, <2>3, <3>1, <3>2
  <2>4. QED
    BY <2>1, <2>2, <2>3
<1>5. QED
  BY <1>2, <1>3, <1>4

\* As long as nothing went past the coordinator, the trace of a shard ends once, in acceptance
\* with the bundle in the session or in rejection with the parent failed.
THEOREM TracesTellOutcomes == MicroSpec => []TraceTellsOutcome
BY ShardsAreKept, TracesHold, PTL

\* The shards that a bisection blames fail together and pass when any one is left out.
THEOREM BlamedShardsAreMinimal == MicroSpec => []BlameIsMinimal
<1>1. SInv => BlameIsMinimal
  BY DEF SInv, BisectionOK, Probed, Minimal, BlameIsMinimal
<1>2. QED
  BY <1>1, ShardsAreKept, PTL

\* With the parent hung, an unseen shard is ready and waits for an earlier one.
LEMMA HungShardWaits ==
  ASSUME SInv, ~lost, Hung, session.state = "COLLECTING", NEW i \in Shards \ session.bundles
  PROVE  \E j \in needs[i] : state[Shard(j)] # "ACCEPTED"
<1>1. NothingLost /\ Kept /\ at = "IDLE" /\ Shard(i) \in Tasks \ {Parent}
  BY ShardNames, TasksDiffer DEF SInv, Hung
<1>2. state[Shard(i)] \notin {"NONE", "ACCEPTED", "FAILED"}
  BY <1>1 DEF NothingLost, ShardsAreSeen, ParentFollows
<1>3. state[Shard(i)] \notin {"CLAIMED", "BLOCKED"} /\ ~Executable(Shard(i))
  BY <1>1 DEF Hung, Pending
<1>4. state[Shard(i)] = "READY"
  BY <1>1, <1>2, <1>3, KeptFacts DEF States
<1>5. Shard(i).n = i
  BY TaskKinds
<1>6. QED
  BY <1>1, <1>3, <1>4, <1>5 DEF Executable

LEMMA HangsHold == SInv => HangsOnlyAfterLoss
<1> SUFFICES ASSUME SInv, Hung, ~lost, state[CompositionRepair] # "ACCEPTED" PROVE FALSE
  BY DEF HangsOnlyAfterLoss
<1>1. /\ NothingLost /\ Kept /\ BisectionOK /\ at = "IDLE" /\ rows = {} /\ state[Parent] = "BLOCKED"
      /\ session.state \in SessionStates
  BY KeptFacts DEF SInv, Hung, NothingLost, RowsAreTrue, SessionType
<1>2. \A t \in {Composition, Probe} : state[t] \in {"NONE", "ACCEPTED", "FAILED"}
  <2> SUFFICES ASSUME NEW t \in {Composition, Probe} PROVE state[t] \in {"NONE", "ACCEPTED", "FAILED"}
    OBVIOUS
  <2>1. t \in Tasks /\ t # Parent /\ t \notin ShardTasks
    BY TaskNames, TasksDiffer
  <2>2. ~Executable(t) /\ state[t] \notin {"CLAIMED", "BLOCKED"}
    BY <2>1 DEF Hung, Pending
  <2>3. state[t] # "READY"
    BY <2>1, <2>2 DEF Executable
  <2>4. QED
    BY <1>1, <2>1, <2>2, <2>3, KeptFacts DEF States
<1>3. session.state \notin {"NONE", "ACCEPTED", "READY_TO_COMPOSE"}
  BY <1>1 DEF NothingLost, ParentFollows, BundlesAreProven
<1>4. session.state # "COMPOSED"
  <2>1. session.state = "COMPOSED" => state[Composition] # "NONE"
    BY <1>1 DEF NothingLost, BundlesAreProven
  <2>2. QED
    BY <1>1, <1>2, <2>1 DEF NothingLost, VerdictIsSeen
<1>5. session.state # "FAILED"
  <2> SUFFICES ASSUME session.state = "FAILED" PROVE FALSE
    OBVIOUS
  <2>1. bisection.stage \notin {"NONE", "DONE"}
    BY <1>1 DEF NothingLost, ParentFollows, Hung
  <2>2. bisection.answer = "AWAITED"
    BY <1>1, <2>1, SearchRanges DEF BisectionOK, Hung
  <2>3. Live(Probe)
    BY <1>1, <2>2 DEF NothingLost, ProbeIsAwaited
  <2>4. QED
    BY <1>2, <2>3 DEF Live
<1>6. session.state = "COLLECTING"
  BY <1>1, <1>3, <1>4, <1>5 DEF SessionStates
<1>7. PICK i \in Shards : i \notin session.bundles
  BY <1>1, <1>6, KeptFacts DEF NothingLost, BundlesAreProven, SessionType
<1>8. \A k \in Shards : needs[k] \subseteq (IF k = 2 THEN {1} ELSE {})
  BY <1>1, KeptFacts DEF HotDependencies
<1>9. 1 \in Shards \ session.bundles
  <2>1. 1 \in needs[i] /\ state[Shard(1)] # "ACCEPTED"
    BY <1>6, <1>7, <1>8, HungShardWaits
  <2>2. 1 \in Shards
    BY ShardCountAssumption DEF Shards
  <2>3. QED
    BY <1>1, <2>1, <2>2 DEF NothingLost, BundlesAreProven
<1>10. needs[1] # {}
  BY <1>6, <1>9, HungShardWaits
<1>11. QED
  BY <1>8, <1>9, <1>10

\* As long as no row was lost, the parent of shards hangs only when a repair closed the
\* composition in its place: the passes of the coordinator see every end of a shard, of the
\* composition and of a probe.
THEOREM HangsAreAfterLosses == MicroSpec => []HangsOnlyAfterLoss
BY ShardsAreKept, HangsHold, PTL
=====================================================================================================================================
