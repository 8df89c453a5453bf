---------------------------- MODULE Orchestrator ----------------------------
(***************************************************************************)
(* src/core/orchestrator.js: dispatch, complete, resolveVerificationGate   *)
(* and recoverExpired over the task graph, the claim authority and the     *)
(* repair controller, with the snapshot of the three and the restart       *)
(* (src/core/runtime-state.js).                                            *)
(*                                                                         *)
(* The verdict of the verifier on a worker's evidence is any verification; *)
(* AcceptanceVerifier says which one it is.  The scheduler's plan is any   *)
(* executable task on any worker, and a plan of n tasks is n steps: nothing *)
(* that runs between them could not run before them.                       *)
(***************************************************************************)
EXTENDS ClaimAuthority, RepairDecision

CONSTANTS
  Roots,        \* the tasks that callers ingest: the other tasks are repairs
  DependsOn,    \* the dependencies of a root
  Restartable,  \* the roots without metadata.restartable = false
  Coding,       \* the roots that a coding agent executes
  NeedsModel,   \* the roots with a model request
  Declared,     \* the mutation scopes a root declares, none for the whole repository
  Repository,   \* the scope of the whole repository
  Headlines,    \* the class and name of the first failed check
  HeadlineOf    \* the headline of a failure

VARIABLES
  state,    \* the state of every task, ABSENT for one that is not in the graph
  history,  \* the histories of the repair controller
  saved     \* the graph and the histories in the snapshot file

orchestratorVars == <<authorityVars, state, history, saved>>

TaskStates == {"ABSENT", "PLANNED", "READY", "CLAIMED", "ACCEPTED", "BLOCKED", "FAILED"}

----------------------------------------------------------------------------
(* Tasks and the repair tasks synthesized from them. *)

RepairKey(t, attempt, headline) == [of |-> t, attempt |-> attempt, headline |-> headline]

Repairs == Tasks \ Roots

ASSUME TasksAssumption ==
  /\ Roots \subseteq Tasks
  /\ \A r \in Repairs : /\ r = RepairKey(r.of, r.attempt, r.headline)
                        /\ r.of \in Tasks

ASSUME RootsAssumption ==
  /\ DependsOn \in [Roots -> SUBSET Roots]
  /\ Restartable \subseteq Roots /\ Coding \subseteq Roots /\ NeedsModel \subseteq Roots
  /\ HeadlineOf \in [Failures -> Headlines]

\* A repair inherits the execution and the model request of the task it repairs.
RootOf[t \in Tasks] == IF t \in Roots THEN t ELSE RootOf[t.of]

IsCoding(t) == RootOf[t] \in Coding

AsksForModel(t) == RootOf[t] \in NeedsModel

\* Every repair task is restartable and has no dependencies.
IsRestartable(t) == t \in Repairs \cup Restartable

DependenciesOf(t) == IF t \in Roots THEN DependsOn[t] ELSE {}

\* The scopes a repair inherits: only the repair of a coding task takes them along.
DeclaredBy(t) == IF t \in Roots \/ IsCoding(t) THEN Declared[RootOf[t]] ELSE {}

ScopesFor(t) == IF DeclaredBy(t) = {} THEN {Repository} ELSE DeclaredBy(t)

ASSUME ScopesForAssumption == \A t \in Tasks : ScopesOf[t] = ScopesFor(t)

\* A repair is deduplicated by the task and the failure, whatever the attempt.
DedupeKeyOf(t) == IF t \in Roots THEN t ELSE [of |-> t.of, headline |-> t.headline]

Present(st) == {t \in Tasks : st[t] # "ABSENT"}

GraphOf(st) ==
  [t \in Present(st) |->
     [gated |-> FALSE, restartable |-> IsRestartable(t), state |-> st[t],
      dependencies |-> DependenciesOf(t), dedupeKey |-> DedupeKeyOf(t)]]

Graph == INSTANCE TaskGraph WITH Keys <- Tasks, tasks <- GraphOf(state), running <- TRUE

ExecutableByState(st, t) == st[t] \in {"PLANNED", "READY"}

Executable(st, t) == t \in Present(st) /\ Graph!IsExecutable(GraphOf(st), t)

----------------------------------------------------------------------------
OrchestratorInit ==
  /\ AuthorityInit
  /\ state = [t \in Tasks |-> "ABSENT"]
  /\ history = [t \in Tasks |-> Fresh]
  /\ saved = [state |-> state, history |-> history]

\* TaskGraph.add of a caller's task; its dependencies may come later.
Ingest(t) ==
  /\ state[t] = "ABSENT"
  /\ state' = [state EXCEPT ![t] = "PLANNED"]
  /\ UNCHANGED <<authorityVars, history, saved>>

RecoveredState(t) == IF IsRestartable(t) THEN "READY" ELSE "BLOCKED"

\* What recoverExpired makes of the tasks whose claims the sweep took.
Swept(expired) ==
  [t \in Tasks |->
     IF t \in expired /\ state[t] = "CLAIMED" THEN RecoveredState(t) ELSE state[t]]

RecoverExpired(lag) ==
  /\ SweepExpired(lag)
  /\ state' = Swept(Expired(claims, lag))
  /\ UNCHANGED <<history, saved>>

\* dispatch sweeps first, so it may hand a task out again in the step that takes it back.
Dispatch(t, o, lag) ==
  LET expired == Expired(claims, lag)
      swept   == Swept(expired) IN
  /\ Executable(swept, t)
  /\ DoClaim(Without(claims, expired), Bump(generation, expired), t, o, lag)
  /\ state' = [swept EXCEPT ![t] = "CLAIMED"]
  /\ UNCHANGED <<history, saved>>

\* No model is eligible: the claim is made and released, and the task blocks.
\* Bound: a generation at MaxFences.
DispatchWithoutModel(t, lag) ==
  LET expired == Expired(claims, lag)
      swept   == Swept(expired) IN
  /\ AsksForModel(t)
  /\ Executable(swept, t)
  /\ Claimable(Without(claims, expired), t)
  /\ generation[t] < MaxFences
  /\ claims' = Without(claims, expired)
  /\ generation' = Bump(Bump(generation, expired), {t})
  /\ state' = [swept EXCEPT ![t] = "BLOCKED"]
  /\ UNCHANGED <<minted, issued, disk, history, saved>>

\* A worker's lease is live, and the parent claim is renewed for it.
RenewClaim(g, lag) ==
  /\ state[g.task] = "CLAIMED"
  /\ Renew(g.token, lag)
  /\ UNCHANGED <<state, history, saved>>

----------------------------------------------------------------------------
(* complete: a grant's holder reports evidence with the verification v. *)

\* The part all outcomes share.
Completes(g, v, lag, action) ==
  /\ Validate(g.token, lag)
  /\ ActionFor(history[g.task], v) = action
  /\ history' = [history EXCEPT ![g.task] = HistoryAfter(@, v)]
  /\ Release(g.token)
  /\ UNCHANGED saved

Accept(g, v, lag) ==
  /\ Completes(g, v, lag, "ACCEPT")
  /\ state' = [state EXCEPT ![g.task] = "ACCEPTED"]

\* The economic gate refuses the merge after the verifier accepted.
RefuseMerge(g, v, lag) ==
  /\ Completes(g, v, lag, "ACCEPT")
  /\ state' = [state EXCEPT ![g.task] = "BLOCKED"]

RepairFor(t, v) == RepairKey(t, HistoryAfter(history[t], v).attempts, HeadlineOf[v.failure])

HasDuplicate(r) == \E u \in Present(state) : DedupeKeyOf(u) = DedupeKeyOf(r)

\* Bound: a repair that is not in Tasks is not synthesized.
CreateRepair(g, v, lag) ==
  LET r == RepairFor(g.task, v) IN
  /\ Completes(g, v, lag, "RETRY_REPAIR")
  /\ r \in Tasks
  /\ state[r] # "ABSENT" \/ ~HasDuplicate(r)
  /\ state' = [state EXCEPT ![g.task] = "BLOCKED",
                            ![r] = IF @ = "ABSENT" THEN "READY" ELSE @]

\* graph.add throws on the dedupe key of an earlier repair: complete ends there, after
\* decide has counted the failure and before the claim is released.
FailOnDuplicateRepair(g, v, lag) ==
  LET r == RepairFor(g.task, v) IN
  /\ Validate(g.token, lag)
  /\ ActionFor(history[g.task], v) = "RETRY_REPAIR"
  /\ r \in Tasks
  /\ state[r] = "ABSENT" /\ HasDuplicate(r)
  /\ history' = [history EXCEPT ![g.task] = HistoryAfter(@, v)]
  /\ UNCHANGED <<authorityVars, state, saved>>

Escalate(g, v, lag) ==
  /\ Completes(g, v, lag, "ESCALATE")
  /\ state' = [state EXCEPT ![g.task] = "BLOCKED"]

Terminate(g, v, lag) ==
  /\ Completes(g, v, lag, "TERMINATE")
  /\ state' = [state EXCEPT ![g.task] = "FAILED"]

Complete(g, v, lag) ==
  \/ Accept(g, v, lag)
  \/ RefuseMerge(g, v, lag)
  \/ CreateRepair(g, v, lag)
  \/ FailOnDuplicateRepair(g, v, lag)
  \/ Escalate(g, v, lag)
  \/ Terminate(g, v, lag)

----------------------------------------------------------------------------
(* resolveVerificationGate, called by reconcileFabric and by an operator. *)

\* An accepted coding repair closes its parent, any other one lets it run again.
ResolveByRepair(r) ==
  /\ state[r.of] = "BLOCKED"
  /\ state[r] = "ACCEPTED"
  /\ IF IsCoding(r)
     THEN /\ state' = [state EXCEPT ![r.of] = "ACCEPTED"]
          /\ history' = [history EXCEPT ![r.of] = Fresh]
     ELSE /\ state' = [state EXCEPT ![r.of] = "READY"]
          /\ UNCHANGED history
  /\ UNCHANGED <<authorityVars, saved>>

\* Evidence on the external state lets any blocked task run again.
ResolveByEvidence(t) ==
  /\ state[t] = "BLOCKED"
  /\ state' = [state EXCEPT ![t] = "READY"]
  /\ UNCHANGED <<authorityVars, history, saved>>

----------------------------------------------------------------------------
(* The snapshot holds the graph, the claims and the histories together. *)

SaveRuntime ==
  /\ Persist
  /\ saved' = [state |-> state, history |-> history]
  /\ UNCHANGED <<state, history>>

RestartWithFreshHistories ==
  /\ Restart
  /\ history' = [t \in Tasks |-> Fresh]
  /\ state' = [t \in Tasks |->
                 IF saved.state[t] = "CLAIMED" THEN RecoveredState(t) ELSE saved.state[t]]
  /\ UNCHANGED saved

RestartRuntime ==
  /\ Restart
  /\ history' = saved.history
  /\ state' = [t \in Tasks |->
                 IF saved.state[t] = "CLAIMED" THEN RecoveredState(t) ELSE saved.state[t]]
  /\ UNCHANGED saved

TimePasses == Tick /\ UNCHANGED <<state, history, saved>>

OrchestratorNext ==
  \/ \E t \in Roots : Ingest(t)
  \/ \E t \in Tasks, o \in Owners, lag \in Lags : Dispatch(t, o, lag)
  \/ \E t \in Tasks, lag \in Lags : DispatchWithoutModel(t, lag)
  \/ \E g \in issued, lag \in Lags : RenewClaim(g, lag)
  \/ \E g \in issued, v \in Verification, lag \in Lags : Complete(g, v, lag)
  \/ \E r \in Repairs : ResolveByRepair(r)
  \/ \E t \in Tasks : ResolveByEvidence(t)
  \/ \E lag \in Lags : RecoverExpired(lag)
  \/ SaveRuntime
  \/ RestartRuntime
  \/ TimePasses

OrchestratorSpec == OrchestratorInit /\ [][OrchestratorNext]_orchestratorVars

----------------------------------------------------------------------------
(* Properties. *)

\* The variables keep their types.
OrchestratorTypeOK ==
  /\ AuthorityTypeOK
  /\ state \in [Tasks -> TaskStates]
  /\ history \in [Tasks -> History]
  /\ saved \in [state: [Tasks -> TaskStates], history: [Tasks -> History]]

\* The graph and the claim map agree: a task is CLAIMED exactly while a claim is held for
\* it, so no task waits forever for a worker nobody knows and no claim locks idle scopes.
ClaimedIffHeld == \A t \in Tasks : state[t] = "CLAIMED" <=> t \in DOMAIN claims

Started == {"CLAIMED", "ACCEPTED", "BLOCKED", "FAILED"}

\* No task is started before all its dependencies are accepted, through repairs, gates,
\* lost claims and restarts, also in the snapshot a restart would come back to.
DependenciesFirst ==
  \A t \in Tasks, d \in Tasks :
    d \in DependenciesOf(t) =>
      /\ state[t] \in Started => state[d] = "ACCEPTED"
      /\ saved.state[t] \in Started => saved.state[d] = "ACCEPTED"

RepairsOf(t) == {r \in Repairs : r.of = t /\ state[r] # "ABSENT"}

\* A task never has MaxAttempts repairs in the graph, however often it is run again by a
\* gate, a lost claim or a restart, and once its budget is spent it is out of the game:
\* whoever holds a repair of it, a gate or a late result does not bring it back.
RepairBudgetKept ==
  \A t \in Tasks :
    /\ RepairsOf(t) # {} => Cardinality(RepairsOf(t)) < MaxAttempts
    /\ history[t].breakerOpen => state[t] = "FAILED"
=============================================================================
