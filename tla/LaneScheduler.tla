---------------------------- MODULE LaneScheduler ----------------------------
(***************************************************************************)
(* dispatch of src/service/control-plane-runtime.js: the operator's policy, *)
(* the throughput governor, PortfolioScheduler.planWithReport and the       *)
(* claims EngineeringOrchestrator.dispatch makes from the plan.  A dispatch *)
(* asks for the fleet and waits, so operators, workers and other dispatches *)
(* come between its start and its plan.                                    *)
(*                                                                         *)
(* Every task can be restarted and has no dependencies, a claim is its     *)
(* worker, and nothing crashes: TaskGraph, ClaimAuthority, Orchestrator and *)
(* CodingLoop say what is left out.                                        *)
(***************************************************************************)
EXTENDS SequencesExt, Integers

CONSTANTS
  Tasks, Workers, Repositories,
  Unscoped,         \* the repository of a task without one
  Nobody,           \* the worker of a task that is not claimed
  RepairOf,         \* the task that a repair repairs, for the tasks that are repairs
  RepositoryOf, StageOf, ScopesOf,  \* of every task
  PacketOf,         \* the work packet of a task, NoPacket without one
  NoPacket,
  Priority,         \* priority, unlocked tasks and risk of a task in one number
  Adjustments,      \* what a priority override adds
  Overridable,      \* the tasks operators override: a bound
  IsCoding,         \* the tasks dispatched to the fabric
  CanRun,           \* the tasks whose requirements a worker matches
  Slots,            \* the slots of a worker
  LaneLimits,       \* the lane limits a repository can have
  DefaultLimit,     \* repoLaneLimit: the one a repository has until an operator sets another
  Baseline, Multiplier,  \* baselineConcurrency, targetMultiplier
  MaxBacklog,       \* maxVerifierBacklog
  MaxCommands       \* bound on operator commands

Repairs == DOMAIN RepairOf
Stages == {"IMPLEMENTATION", "VERIFICATION", "REPAIR", "DEPLOYMENT"}

ASSUME RepairsAssumption == \A r \in Repairs : StageOf[r] = "REPAIR" /\ PacketOf[r] = NoPacket
ASSUME WorkersAssumption == Nobody \notin Workers /\ Slots \in [Workers -> Nat]
ASSUME StagesAssumption == StageOf \in [Tasks -> Stages]
ASSUME LaneAssumption ==
  /\ IsFiniteSet(Tasks) /\ IsFiniteSet(Workers)
  /\ Repairs \subseteq Tasks /\ RepairOf \in [Repairs -> Tasks]
  /\ RepositoryOf \in [Tasks -> Repositories]
  /\ LaneLimits \subseteq Nat /\ DefaultLimit \in LaneLimits
  /\ {Baseline, Multiplier, MaxBacklog, MaxCommands} \subseteq Nat

VARIABLES
  state,     \* the state of a task
  worker,    \* the worker that holds the claim on a task, or Nobody
  lapsed,    \* the claimed tasks whose claims have expired and were not swept
  policy,    \* what the operator has set
  free,      \* the free slots of a worker as the fabric last reported them
  waiting,   \* the dispatches that wait for the fleet, by kind
  commands   \* how many commands the operator gave

laneVars == <<state, worker, lapsed, policy, free, waiting, commands>>

Kinds == {"FABRIC", "ALL"}  \* coding tasks only, or every task
Policies ==
  [paused: BOOLEAN, frozen: SUBSET Repositories, draining: SUBSET Repositories,
   limit: [Repositories -> LaneLimits], override: [Overridable -> {0} \cup Adjustments]]

Least(a, b) == IF a <= b THEN a ELSE b
Most(a, b) == IF a >= b THEN a ELSE b
Held(w) == {t \in Tasks : w[t] # Nobody}
Load(n) == Cardinality({t \in Tasks : worker[t] = n})
FreeSlots == UNION {{n} \X (1..free[n]) : n \in Workers}
TotalFree == Cardinality(FreeSlots)

----------------------------------------------------------------------------
(* The throughput governor. *)

\* Tasks that wait for a repair, whatever became of it.
Backlog(st) == Cardinality({t \in Tasks : st[t] = "BLOCKED"})

BlockedStages(st) == IF Backlog(st) > MaxBacklog THEN {"IMPLEMENTATION"} ELSE {}

\* The concurrency allowed when the runtime is slow, by degradation or by recent failures.
Allowed(slow) == Least(IF slow THEN Baseline ELSE Baseline * Multiplier, TotalFree)

TotalLaneLimit(slow) == Most(1, Allowed(slow))

----------------------------------------------------------------------------
(* The plan. *)

\* adaptiveLaneCapacity, for workers that are under no pressure.
AdaptiveLimit(slow) == Least(TotalLaneLimit(slow), TotalFree)

\* The lanes in use are subtracted from a limit that the free slots already bound.
LaneBudget(slow, held) ==
  Most(0, Least(AdaptiveLimit(slow), TotalLaneLimit(slow) - Cardinality(held)))

PolicyAllowsUnlessFrozen(t) == RepositoryOf[t] \notin policy.frozen

PolicyAllows(t) == RepositoryOf[t] \notin policy.frozen \cup policy.draining

PacketFree(t, held) ==
  PacketOf[t] # NoPacket => \A u \in held \ {t} : PacketOf[u] # PacketOf[t]

DeploymentFree(t, held) ==
  StageOf[t] = "DEPLOYMENT" => \A u \in held \ {t} : StageOf[u] # "DEPLOYMENT"

Executable(st, t) == st[t] \in {"PLANNED", "READY"}

Candidates(kind, st, held) ==
  {t \in Tasks : /\ Executable(st, t) /\ (kind = "FABRIC" => t \in IsCoding)
                 /\ PacketFree(t, held) /\ DeploymentFree(t, held)
                 /\ StageOf[t] \notin BlockedStages(st)
                 /\ PolicyAllows(t)}

InRepository(r, held) == Cardinality({t \in held : RepositoryOf[t] = r})

\* The claims on tasks without a repository are not counted.
Usage(r, held) == IF r = Unscoped THEN 0 ELSE InRepository(r, held)

FairnessPenalty(t, held) == 15 * Most(0, Usage(RepositoryOf[t], held) - 1)

Override(t) == IF t \in Overridable THEN policy.override[t] ELSE 0

Score(t, held) == Priority[t] + Override(t) - FairnessPenalty(t, held)

\* By score; the name of a task, which decides between equals, is left out.
Rankings(kind, st, held) ==
  {s \in SetToSeqs(Candidates(kind, st, held)) :
     \A i, j \in DOMAIN s : i < j => Score(s[i], held) >= Score(s[j], held)}

\* The plan grows by the first choice of a worker for the next task, or not at all.
Empty(held) == [pairs |-> <<>>, left |-> free, held |-> held,
                used |-> [r \in Repositories |-> Usage(r, held)]]

Eligible(plan, t) == {n \in Workers : plan.left[n] > 0 /\ t \in CanRun[n]}

LimitOf(t) == policy.limit[RepositoryOf[t]]

FitsUnlessPlanned(plan, t, budget) ==
  /\ Len(plan.pairs) < budget
  /\ plan.used[RepositoryOf[t]] < LimitOf(t)
  /\ Eligible(plan, t) # {}

Fits(plan, t, budget) ==
  /\ Len(plan.pairs) < budget
  /\ DeploymentFree(t, plan.held) /\ PacketFree(t, plan.held)
  /\ plan.used[RepositoryOf[t]] < LimitOf(t)
  /\ Eligible(plan, t) # {}

\* The worker with most free slots.
Suitable(plan, t) ==
  CHOOSE n \in Eligible(plan, t) : \A m \in Eligible(plan, t) : plan.left[m] <= plan.left[n]

PlannedUntilStuck(plan, t, budget) ==
  IF Fits(plan, t, budget)
  THEN [plan EXCEPT !.pairs = Append(@, [task |-> t, on |-> Suitable(plan, t)]),
                    !.left[Suitable(plan, t)] = @ - 1,
                    !.held = @ \cup {t},
                    !.used[RepositoryOf[t]] = @ + 1]
  ELSE [plan EXCEPT !.left = [n \in Workers |-> 0]]

Planned(plan, t, budget) ==
  IF Fits(plan, t, budget)
  THEN [plan EXCEPT !.pairs = Append(@, [task |-> t, on |-> Suitable(plan, t)]),
                    !.left[Suitable(plan, t)] = @ - 1,
                    !.held = @ \cup {t},
                    !.used[RepositoryOf[t]] = @ + 1]
  ELSE plan

Plan(ranking, slow, held) ==
  LET plan[n \in 0..Len(ranking)] ==
        IF n = 0 THEN Empty(held) ELSE Planned(plan[n - 1], ranking[n], LaneBudget(slow, held))
  IN  plan[Len(ranking)].pairs

\* ClaimAuthority.claim refuses a planned task whose scopes are held; its lane stays empty.
ScopesFree(t, w) == \A u \in Held(w) : ScopesOf[t] \cap ScopesOf[u] = {}

Claiming(w, p) == IF ScopesFree(p.task, w) THEN [w EXCEPT ![p.task] = p.on] ELSE w

Claimed(pairs, w) ==
  LET after[n \in 0..Len(pairs)] == IF n = 0 THEN w ELSE Claiming(after[n - 1], pairs[n])
  IN  after[Len(pairs)]

----------------------------------------------------------------------------
LaneInit ==
  /\ state = [t \in Tasks |-> IF t \in Repairs THEN "ABSENT" ELSE "PLANNED"]
  /\ worker = [t \in Tasks |-> Nobody]
  /\ lapsed = {}
  /\ policy = [paused |-> FALSE, frozen |-> {}, draining |-> {},
               limit |-> [r \in Repositories |-> DefaultLimit],
               override |-> [t \in Overridable |-> 0]]
  /\ free = Slots
  /\ waiting = {}
  /\ commands = 0

\* Nothing is asked while the operator has paused dispatch.
BeginDispatch(kind) ==
  /\ kind \notin waiting
  /\ ~policy.paused
  /\ waiting' = waiting \cup {kind}
  /\ UNCHANGED <<state, worker, lapsed, policy, free, commands>>

SweptState == [t \in Tasks |-> IF t \in lapsed THEN "READY" ELSE state[t]]
SweptWorker == [t \in Tasks |-> IF t \in lapsed THEN Nobody ELSE worker[t]]

\* The fleet answers: the rest of dispatch runs without waiting.
EndDispatch(kind, slow) ==
  /\ kind \in waiting
  /\ waiting' = waiting \ {kind}
  /\ \E ranking \in Rankings(kind, SweptState, Held(SweptWorker)) :
       worker' = Claimed(Plan(ranking, slow, Held(SweptWorker)), SweptWorker)
  /\ state' = [t \in Tasks |-> IF worker'[t] # Nobody THEN "CLAIMED" ELSE SweptState[t]]
  /\ lapsed' = {}
  /\ UNCHANGED <<policy, free, commands>>

\* A worker's claim expires before it completes.
Lapse(t) ==
  /\ worker[t] # Nobody /\ t \notin lapsed
  /\ lapsed' = lapsed \cup {t}
  /\ UNCHANGED <<state, worker, policy, free, waiting, commands>>

Released(t) == worker' = [worker EXCEPT ![t] = Nobody]

\* complete of an accepted task, and for a repair the resolution of its parent's gate.
Accept(t) ==
  /\ worker[t] # Nobody /\ t \notin lapsed
  /\ Released(t)
  /\ state' = [u \in Tasks |-> IF u = t \/ (t \in Repairs /\ u = RepairOf[t]) THEN "ACCEPTED"
                               ELSE state[u]]
  /\ UNCHANGED <<lapsed, policy, free, waiting, commands>>

\* complete of a failed task: with a repair, or without one for ever.
Fail(t) ==
  /\ worker[t] # Nobody /\ t \notin lapsed
  /\ Released(t)
  /\ \/ \E r \in Repairs :
          /\ RepairOf[r] = t /\ state[r] = "ABSENT"
          /\ state' = [state EXCEPT ![t] = "BLOCKED", ![r] = "READY"]
     \/ state' = [state EXCEPT ![t] = "FAILED"]
  /\ UNCHANGED <<lapsed, policy, free, waiting, commands>>

\* The fabric reports the slots that the claimed tasks leave.
Report(n) ==
  /\ free' = [free EXCEPT ![n] = Most(0, Slots[n] - Load(n))]
  /\ free' # free
  /\ UNCHANGED <<state, worker, lapsed, policy, waiting, commands>>

\* operatorCommand.
Command(next) ==
  /\ commands < MaxCommands
  /\ next # policy
  /\ policy' = next
  /\ commands' = commands + 1
  /\ UNCHANGED <<state, worker, lapsed, free, waiting>>

Pause == Command([policy EXCEPT !.paused = TRUE])
Resume == Command([policy EXCEPT !.paused = FALSE])
FreezeRepository(r) == Command([policy EXCEPT !.frozen = @ \cup {r}])
ThawRepository(r) == Command([policy EXCEPT !.frozen = @ \ {r}])
DrainRepository(r) == Command([policy EXCEPT !.draining = @ \cup {r}])
ResumeRepository(r) == Command([policy EXCEPT !.draining = @ \ {r}])
SetLaneLimit(r, l) == Command([policy EXCEPT !.limit[r] = l])
SetPriorityOverride(t, a) == Command([policy EXCEPT !.override[t] = a])

\* evaluate drops an override that has expired, in a dispatch or in a preview of one.
ExpireOverride(t) ==
  /\ policy.override[t] # 0
  /\ policy' = [policy EXCEPT !.override[t] = 0]
  /\ UNCHANGED <<state, worker, lapsed, free, waiting, commands>>

OperatorNext ==
  \/ Pause \/ Resume
  \/ \E r \in Repositories \ {Unscoped} :
       \/ FreezeRepository(r) \/ ThawRepository(r)
       \/ DrainRepository(r) \/ ResumeRepository(r)
       \/ \E l \in LaneLimits : SetLaneLimit(r, l)
  \/ \E t \in Overridable : (\E a \in Adjustments \cup {0} : SetPriorityOverride(t, a)) \/ ExpireOverride(t)

LaneNext ==
  \/ \E kind \in Kinds : BeginDispatch(kind) \/ \E slow \in BOOLEAN : EndDispatch(kind, slow)
  \/ \E t \in Tasks : Lapse(t) \/ Accept(t) \/ Fail(t)
  \/ \E n \in Workers : Report(n)
  \/ OperatorNext

LaneSpec == LaneInit /\ [][LaneNext]_laneVars
----------------------------------------------------------------------------
(* Properties. *)

LaneTypeOK ==
  /\ state \in [Tasks -> {"ABSENT", "PLANNED", "READY", "CLAIMED", "ACCEPTED", "BLOCKED", "FAILED"}]
  /\ worker \in [Tasks -> Workers \cup {Nobody}]
  /\ lapsed \subseteq Held(worker)
  /\ \A t \in Tasks : state[t] = "CLAIMED" <=> worker[t] # Nobody
  /\ policy \in Policies
  /\ free \in [Workers -> Nat]
  /\ waiting \subseteq Kinds
  /\ commands \in 0..MaxCommands

\* Deployments are serialized over the portfolio, and one member of a work packet is worked
\* on at a time, whichever dispatches overlap and whichever claims lapse.  A repair is a
\* member of no packet and no deployment, so it may run beside one.
MutationIsSerialized ==
  \A t, u \in Held(worker) :
    t # u => /\ StageOf[t] = "DEPLOYMENT" => StageOf[u] # "DEPLOYMENT"
             /\ PacketOf[t] # NoPacket => PacketOf[u] # PacketOf[t]

\* The types, claims that agree with the graph, and serialized mutation.
LaneInvariant == LaneTypeOK /\ MutationIsSerialized

Starts(t) == t \notin Held(worker) \ lapsed /\ t \in Held(worker') \ lapsed'

\* A claim is made under the policy of its own moment, though the dispatch began under
\* another: no work starts in a frozen or draining repository, beyond the lane limit of its
\* repository, or in a stage that the verifier backlog has closed.
ClaimsObeyPolicy ==
  [][\A t \in Tasks : Starts(t) =>
       /\ RepositoryOf[t] \notin policy.frozen \cup policy.draining
       /\ RepositoryOf[t] # Unscoped => InRepository(RepositoryOf[t], Held(worker')) <= LimitOf(t)
       /\ Backlog(state) > MaxBacklog => StageOf[t] # "IMPLEMENTATION"]_laneVars

\* A dispatch into an idle fleet starts work when there is a task that may start, however
\* many higher ranked ones may not.  (With claims held this fails: their lanes are
\* subtracted from a limit that their slots already are.)
IdleFleetIsUsed ==
  [][\A kind \in waiting \ waiting' :
       /\ Held(SweptWorker) = {}
       /\ \E t \in Candidates(kind, SweptState, {}) :
            LimitOf(t) > 0 /\ \E n \in Workers : free[n] > 0 /\ t \in CanRun[n]
       => Held(worker') # {}]_laneVars
=============================================================================
