---------------------------- MODULE ProductFactory ----------------------------
(***************************************************************************)
(* src/factories: SaasProductFactoryRuntime over SaasWebFactory, the stage  *)
(* contracts, promotion and the release ledger, with TaskGraph.add as its   *)
(* task sink.  createFamily is createProduct for one product after another. *)
(* A digest stands for the specification it is taken of.                    *)
(***************************************************************************)
EXTENDS Naturals, Sequences, FiniteSets

CONSTANTS
  Runs,         \* run ids
  Products,
  Specs,        \* specifications of products
  Requested,    \* the capabilities a specification asks for
  Baseline,     \* the capabilities that products share
  StageOrder,   \* the stages, from SPEC to ACCEPT
  Commits,
  Deployments,
  Observations, \* what a look at production may find wrong, "observation-window" among it
  None,
  MaxEntries,   \* the ledger's maxEntries
  MaxRecords,   \* bound on the ledger's sequence
  MaxRestarts   \* bound on restarts

VARIABLES
  runs,        \* this.runs
  ledger,      \* entries and sequence of the release ledger
  tasks,       \* the factory's tasks in the task graph
  promotions,  \* the promotion records handed to callers
  saved,       \* the last snapshot
  earned,      \* what was accepted (not in the code): product and commit
  restarts     \* how many restarts there were

factoryVars == <<runs, ledger, tasks, promotions, saved, earned, restarts>>

StageNames == {StageOrder[i] : i \in DOMAIN StageOrder}

ASSUME FactoryAssumption ==
  /\ MaxEntries \in Nat \ {0}
  /\ StageOrder \in Seq(STRING) \ {<<>>} /\ StageOrder[Len(StageOrder)] = "ACCEPT"
  /\ None \notin StageNames

\* The stages whose contract counts what went wrong.
Counting == {"UNIT_API", "BROWSER", "ACCESSIBILITY", "SECURITY", "VISUAL_VERIFY"}

Run == [product: Products, spec: Specs, stage: 1..(Len(StageOrder) + 1),
        state: {"RUNNING", "FAILED", "ACCEPTED"}, commit: Commits \cup {None}]

Entry == [sequence: Nat, product: Products, kind: {"created", "stage-accepted", "stage-failed",
          "promoted", "production-accepted", "production-rejected"},
          run: Runs, stage: StageNames \cup {None}, commit: Commits \cup {None},
          deployment: Deployments \cup {None}]

Task == [run: Runs, product: Products, spec: Specs, part: StageNames \cup UNION {Requested[s] : s \in Specs}]

Promotion == [run: Runs, product: Products, commit: Commits, deployment: Deployments]

Created(p, s) == [product |-> p, spec |-> s, stage |-> 1, state |-> "RUNNING", commit |-> None]

ResolveProductDelta(s) == Requested[s] \ Baseline

StageTasks(r, p, s) == [run: {r}, product: {p}, spec: {s}, part: StageNames]

DeltaTasks(r, p, s) == [run: {r}, product: {p}, spec: {s}, part: ResolveProductDelta(s)]

\* The delta tasks come first, then the chain of stages.
TasksOf(r, p, s) == DeltaTasks(r, p, s) \cup StageTasks(r, p, s)

----------------------------------------------------------------------------
(* SaasReleaseLedger.record. *)

\* An entry takes the next number; the oldest is dropped beyond maxEntries.
Recorded(l, e) ==
  LET entries == Append(l.entries, [e EXCEPT !.sequence = l.sequence + 1]) IN
  [entries |-> SubSeq(entries, 1 + (IF Len(entries) > MaxEntries THEN 1 ELSE 0), Len(entries)),
   sequence |-> l.sequence + 1]

NewEntry(r, p, kind, stage, commit, deployment) ==
  [sequence |-> 0, product |-> p, kind |-> kind, run |-> r, stage |-> stage, commit |-> commit,
   deployment |-> deployment]

----------------------------------------------------------------------------
FactoryInit ==
  /\ runs = [r \in Runs |-> None]
  /\ ledger = [entries |-> <<>>, sequence |-> 0]
  /\ tasks = {}
  /\ promotions = {}
  /\ saved = [runs |-> runs, ledger |-> ledger, tasks |-> tasks]
  /\ earned = {}
  /\ restarts = 0

Stored(r) == runs[r] # None

\* TaskGraph.add throws on a key or a dedupe key it has.
Clashes(t) ==
  \E u \in tasks : u.part = t.part /\ (u.run = t.run \/ (u.product = t.product /\ u.spec = t.spec))

CreateStoringFirst(r, p, s) ==
  LET wanted == TasksOf(r, p, s) IN
  /\ ledger.sequence < MaxRecords
  /\ tasks' = tasks \cup {t \in wanted : ~Clashes(t)}
  /\ runs' = [runs EXCEPT ![r] = Created(p, s)]
  /\ ledger' = Recorded(ledger, NewEntry(r, p, "created", None, None, None))
  /\ UNCHANGED <<promotions, saved, earned, restarts>>

\* The run is stored once the sink has taken every task.
CreateProduct(r, p, s) ==
  LET wanted == TasksOf(r, p, s) IN
  /\ ledger.sequence < MaxRecords
  /\ \A t \in wanted : ~Clashes(t)
  /\ tasks' = tasks \cup wanted
  /\ runs' = [runs EXCEPT ![r] = Created(p, s)]
  /\ ledger' = Recorded(ledger, NewEntry(r, p, "created", None, None, None))
  /\ UNCHANGED <<promotions, saved, earned, restarts>>

\* The sink throws on a stage: the delta tasks before it stay in the graph, without a run.
RefuseProduct(r, p, s) ==
  LET delta == DeltaTasks(r, p, s) IN
  /\ delta # {}
  /\ \A t \in delta : ~Clashes(t)
  /\ \E t \in StageTasks(r, p, s) : Clashes(t)
  /\ tasks' = tasks \cup delta
  /\ UNCHANGED <<runs, ledger, promotions, saved, earned, restarts>>

----------------------------------------------------------------------------
(* applyStageEvidence. *)

\* complete: the contract's fields are there, though they may be null; hash: whether a digest in
\* the SPEC evidence is the run's.
Evidence(stage) ==
  [complete: BOOLEAN, reported: BOOLEAN, clean: BOOLEAN,
   hash: IF stage = "SPEC" THEN {"SAME", "OTHER"} ELSE {"SAME"},
   commit: IF stage = "ACCEPT" THEN Commits \cup {None} ELSE {None}]

ValidateStageEvidence(stage, e) == e.complete /\ e.reported /\ (stage \in Counting => e.clean)

AdvancedPastFailure(run, e, ok) ==
  [run EXCEPT !.commit = IF StageOrder[run.stage] = "ACCEPT" THEN e.commit ELSE @,
              !.stage = IF ok THEN @ + 1 ELSE @,
              !.state = IF ok /\ run.stage = Len(StageOrder) THEN "ACCEPTED" ELSE @]

\* The evidence is kept whether the stage passes or not.
Advanced(run, e, ok) ==
  [run EXCEPT !.commit = IF StageOrder[run.stage] = "ACCEPT" THEN e.commit ELSE @,
              !.stage = IF ok THEN @ + 1 ELSE @,
              !.state = CASE ~ok -> "FAILED"
                          [] ok /\ run.stage = Len(StageOrder) -> "ACCEPTED"
                          [] OTHER -> @]

ApplyStageEvidence(r) ==
  LET run == runs[r]
      stage == StageOrder[run.stage] IN
  /\ Stored(r) /\ run.state = "RUNNING"
  /\ ledger.sequence < MaxRecords
  /\ \E e \in Evidence(stage) :
       LET ok == ValidateStageEvidence(stage, e)
           kind == IF ok THEN "stage-accepted" ELSE "stage-failed" IN
       /\ ok => e.hash = "SAME"
       /\ runs' = [runs EXCEPT ![r] = Advanced(run, e, ok)]
       /\ ledger' = Recorded(ledger, NewEntry(r, run.product, kind, stage, None, None))
       /\ earned' = IF runs'[r].state = "ACCEPTED" THEN earned \cup {<<run.product, e.commit>>} ELSE earned
  /\ UNCHANGED <<tasks, promotions, saved, restarts>>

----------------------------------------------------------------------------
(* promote and verifyProduction. *)

MayPromoteAnyState(run, c) == run.commit = c

\* verifyPromotionLineage: the commit is the one the run was accepted with.
MayPromote(run, c) == run.state = "ACCEPTED" /\ run.commit = c

Promote(r, c, d) ==
  /\ Stored(r) /\ MayPromote(runs[r], c)
  /\ ledger.sequence < MaxRecords
  /\ promotions' = promotions \cup {[run |-> r, product |-> runs[r].product, commit |-> c, deployment |-> d]}
  /\ ledger' = Recorded(ledger, NewEntry(r, runs[r].product, "promoted", None, c, d))
  /\ UNCHANGED <<runs, tasks, saved, earned, restarts>>

\* What a canary stage fails on: a full roll-out is not asked how long it was observed.
EvaluateCanaryStage(wrong, full) == IF full THEN wrong \ {"observation-window"} ELSE wrong

\* Whatever the canary fails on rejects the deployment too.
Accepts(wrong, full) == EvaluateCanaryStage(wrong, full) = {}

\* The run's state is not looked at.  Assumption: a caller names the run of the promotion, which
\* the code does not compare; after a restart that run may be another product's.
VerifyProduction(p, wrong, full) ==
  LET kind == IF Accepts(wrong, full) THEN "production-accepted" ELSE "production-rejected" IN
  /\ Stored(p.run) /\ runs[p.run].product = p.product
  /\ ledger.sequence < MaxRecords
  /\ ledger' = Recorded(ledger, NewEntry(p.run, p.product, kind, None, p.commit, p.deployment))
  /\ UNCHANGED <<runs, tasks, promotions, saved, earned, restarts>>

----------------------------------------------------------------------------
Save ==
  /\ saved' = [runs |-> runs, ledger |-> ledger, tasks |-> tasks]
  /\ UNCHANGED <<runs, ledger, tasks, promotions, earned, restarts>>

\* The graph has its own file, which may be newer.
Restore ==
  /\ runs' = saved.runs /\ ledger' = saved.ledger
  /\ tasks' \in {saved.tasks, tasks}
  /\ restarts < MaxRestarts /\ restarts' = restarts + 1
  /\ UNCHANGED <<promotions, saved, earned>>

FactoryNext ==
  \/ \E r \in Runs, p \in Products, s \in Specs : CreateProduct(r, p, s)
  \/ \E r \in Runs, p \in Products, s \in Specs : RefuseProduct(r, p, s)
  \/ \E r \in Runs : ApplyStageEvidence(r)
  \/ \E r \in Runs, c \in Commits, d \in Deployments : Promote(r, c, d)
  \/ \E p \in promotions, wrong \in SUBSET Observations, full \in BOOLEAN : VerifyProduction(p, wrong, full)
  \/ Save
  \/ Restore

FactorySpec == FactoryInit /\ [][FactoryNext]_factoryVars
----------------------------------------------------------------------------
(* Properties. *)

\* The types, and numbers that name one record each: the ledger is in order of its numbers, has
\* none twice and never more than maxEntries, through truncation and restarts.
LedgerIsOrdered ==
  /\ runs \in [Runs -> Run \cup {None}]
  /\ ledger.entries \in Seq(Entry) /\ Len(ledger.entries) <= MaxEntries
  /\ tasks \subseteq Task /\ promotions \subseteq Promotion
  /\ earned \subseteq Products \X (Commits \cup {None})
  /\ \A i \in DOMAIN ledger.entries :
       ledger.entries[i].sequence = ledger.sequence - (Len(ledger.entries) - i)

\* The entries of a run since it was created for the last time before the i-th entry.
TrailTo(i) ==
  LET r == ledger.entries[i].run
      mine == {j \in 1..i : ledger.entries[j].run = r}
      start == {j \in mine : ledger.entries[j].kind = "created"}
  IN  IF start = {} THEN {}
      ELSE {j \in mine : \A k \in start : k <= j}

\* The audit trail of a promotion is whole: the ledger shows every stage of the run accepted
\* once, in order and without a failure, though other runs are interleaved, records dropped and
\* the factory restarted.
PromotionIsAudited ==
  \A i \in DOMAIN ledger.entries :
    (ledger.entries[i].kind = "promoted" /\ TrailTo(i) # {}) =>
      LET stages == {j \in TrailTo(i) : ledger.entries[j].stage # None} IN
      /\ Cardinality(stages) = Len(StageOrder)
      /\ \A j \in stages :
           /\ ledger.entries[j].kind = "stage-accepted"
           /\ ledger.entries[j].stage = StageOrder[Cardinality({k \in stages : k <= j})]

\* What is called live was accepted by a run of its product, and its promotion is in the ledger
\* unless it was dropped or a restart went back behind it.
LiveIsEarned ==
  \A i \in DOMAIN ledger.entries :
    LET e == ledger.entries[i] IN
    e.kind = "production-accepted" =>
      /\ <<e.product, e.commit>> \in earned
      /\ \/ restarts > 0 \/ ledger.sequence > Len(ledger.entries)
         \/ \E j \in 1..(i - 1) :
              /\ ledger.entries[j].kind = "promoted"
              /\ ledger.entries[j].deployment = e.deployment /\ ledger.entries[j].commit = e.commit

\* A stored run has all its tasks in the graph: a creation the sink refuses halfway stores none.
RunsHaveTheirTasks ==
  \A r \in Runs : Stored(r) =>
    TasksOf(r, runs[r].product, runs[r].spec) \subseteq tasks

\* The types, an ordered ledger and no run without its tasks.
FactoryInvariant == LedgerIsOrdered /\ RunsHaveTheirTasks
=============================================================================
