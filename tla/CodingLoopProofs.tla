-------------------------- MODULE CodingLoopProofs --------------------------
(***************************************************************************)
(* The invariants and action properties of CodingLoop, for every graph of  *)
(* tasks, every fabric and every bound.  A step of the loop is a step of   *)
(* Orchestrator, or it takes a claim back and reopens its task (Withdraw): *)
(* so the invariant of OrchestratorProofs carries over.                    *)
(***************************************************************************)
EXTENDS CodingLoop, OrchestratorProofs

----------------------------------------------------------------------------
(* The inductive invariant. *)

\* The loop's own variables.
LoopTypes ==
  /\ fabric \in [Ids -> FabricStates]
  /\ wire \subseteq issued /\ rows \subseteq issued /\ plan \subseteq issued
  /\ at \in {"IDLE", "FLEET", "ROWS", "PROMOTE", "DISPATCH", "SUBMIT"} /\ waited \in 0..MaxWait
  /\ closing \subseteq Repairs /\ paused \in BOOLEAN /\ promoted \subseteq Coding
  /\ savedLoop \in [paused: BOOLEAN, promoted: SUBSET Coding]

\* Every grant has a fabric task of its own.
GrantsNumbered == minted <= MaxClaims /\ \A g \in issued : g.token.claimId >= 1

\* What is yet to be enqueued is still claimed, and no clock that is read before the tick ends
\* finds it expired.
PlanIsHeld ==
  /\ plan # {} => at \in {"DISPATCH", "SUBMIT"}
  /\ \A g \in plan : Holds(g.token) /\ claims[g.task].expiresIn + waited >= Ttl

\* A restart from the snapshot reopens nothing the snapshot has settled.
SnapshotSettled == \A t \in Tasks : saved.state[t] \in Settled => state[t] = saved.state[t]

LInv ==
  /\ OInv
  /\ LoopTypes /\ GrantsNumbered /\ PlanIsHeld /\ SnapshotSettled
  /\ PromotedWorkIsAccepted

----------------------------------------------------------------------------
(* Settled tasks. *)

\* A step of the orchestrator that is not a restart reopens no settled task.
KeepsSettled == \A t \in Tasks : state[t] \in Settled => state'[t] = state[t]

LEMMA MoveKeepsSettled ==
  ASSUME StatesMove(state, state')
  PROVE  KeepsSettled
BY DEF StatesMove, KeepsSettled, Settled

\* A completion changes the state of its own task, which was claimed, and may add a repair.
LEMMA CompleteKeepsSettled ==
  ASSUME OInv, NEW g \in issued, NEW v \in Verification, NEW lag \in Lags, Complete(g, v, lag)
  PROVE  /\ KeepsSettled
         /\ \A t \in Tasks \ {g.task} : state[t] = "CLAIMED" => state'[t] = "CLAIMED"
<1> DEFINE r == RepairFor(g.task, v)
<1>1. g.task \in Tasks /\ state[g.task] = "CLAIMED" /\ state \in [Tasks -> TaskStates]
  BY ValidatedIsClaimed
     DEF Complete, Accept, RefuseMerge, CreateRepair, FailOnDuplicateRepair, Escalate, Terminate,
         Completes, OInv, SoundTasks
<1>2. CASE FailOnDuplicateRepair(g, v, lag)
  BY <1>2 DEF FailOnDuplicateRepair, KeepsSettled
<1>3. CASE CreateRepair(g, v, lag)
  <2>1. /\ r \in Tasks
        /\ state' = [state EXCEPT ![g.task] = "BLOCKED", ![r] = IF @ = "ABSENT" THEN "READY" ELSE @]
    BY <1>3 DEF CreateRepair
  <2> HIDE DEF r
  <2>2. \A t \in Tasks \ {g.task} : state[t] # "ABSENT" => state'[t] = state[t]
    BY <1>1, <2>1
  <2>3. QED
    BY <1>1, <2>2 DEF KeepsSettled, Settled
<1>4. CASE \E s \in {"ACCEPTED", "BLOCKED", "FAILED"} : state' = [state EXCEPT ![g.task] = s]
  BY <1>1, <1>4 DEF KeepsSettled, Settled
<1>5. QED
  BY <1>2, <1>3, <1>4 DEF Complete, Accept, RefuseMerge, Escalate, Terminate

LEMMA SweepKeepsSettled ==
  ASSUME OInv, NEW lag \in Lags, RecoverExpired(lag)
  PROVE  KeepsSettled
BY SweptMoves, MoveKeepsSettled DEF RecoverExpired

LEMMA DispatchKeepsSettled ==
  ASSUME OInv, NEW t \in Tasks, NEW o \in Owners, NEW lag \in Lags, Dispatch(t, o, lag)
  PROVE  KeepsSettled
BY StartedMoves, MoveKeepsSettled DEF Dispatch

LEMMA ResolveKeepsSettled ==
  ASSUME OInv, (\E r \in Repairs : ResolveByRepair(r)) \/ (\E t \in Tasks : ResolveByEvidence(t))
  PROVE  KeepsSettled /\ \A t \in Tasks : state[t] = "CLAIMED" => state'[t] = "CLAIMED"
<1>1. state \in [Tasks -> TaskStates]
  BY DEF OInv, SoundTasks
<1>2. PICK t : state[t] = "BLOCKED" /\ \E s \in {"ACCEPTED", "READY"} : state' = [state EXCEPT ![t] = s]
  BY DEF ResolveByRepair, ResolveByEvidence
<1>3. QED
  BY <1>1, <1>2 DEF KeepsSettled, Settled

\* Every step of the orchestrator but a restart.
LEMMA NextKeepsSettled ==
  ASSUME OInv, [OrchestratorNext]_orchestratorVars
  PROVE  RestartRuntime \/ KeepsSettled
<1>1. CASE \E t \in Roots : Ingest(t)
  <2>1. state \in [Tasks -> TaskStates]
    BY DEF OInv, SoundTasks
  <2>2. QED
    BY <1>1, <2>1 DEF Ingest, KeepsSettled, Settled
<1>2. CASE \E t \in Tasks, o \in Owners, lag \in Lags : Dispatch(t, o, lag)
  BY <1>2, DispatchKeepsSettled
<1>3. CASE \E t \in Tasks, lag \in Lags : DispatchWithoutModel(t, lag)
  BY <1>3, StartedMoves, MoveKeepsSettled DEF DispatchWithoutModel
<1>4. CASE \E g \in issued, v \in Verification, lag \in Lags : Complete(g, v, lag)
  BY <1>4, CompleteKeepsSettled
<1>5. CASE (\E r \in Repairs : ResolveByRepair(r)) \/ (\E t \in Tasks : ResolveByEvidence(t))
  BY <1>5, ResolveKeepsSettled
<1>6. CASE \E lag \in Lags : RecoverExpired(lag)
  BY <1>6, SweepKeepsSettled
<1>7. CASE UNCHANGED state
  BY <1>7 DEF KeepsSettled
<1>8. QED
  BY <1>1, <1>2, <1>3, <1>4, <1>5, <1>6, <1>7
     DEF OrchestratorNext, orchestratorVars, RenewClaim, SaveRuntime, TimePasses

----------------------------------------------------------------------------
(* The steps of the loop that no handler of the orchestrator takes: the tick fences, releases
   or withdraws the claim of a claimed task and sets its state itself. *)

Withdraw(t, s) ==
  /\ state[t] = "CLAIMED"
  /\ [AuthorityNext]_authorityVars
  /\ claims' = Without(claims, {t})
  /\ state' = [state EXCEPT ![t] = s]
  /\ UNCHANGED <<history, saved>>

LEMMA WithdrawStep ==
  ASSUME OInv, NEW t \in Tasks, NEW s \in {"READY", "BLOCKED"}, Withdraw(t, s)
  PROVE  OInv' /\ LeaseStep /\ KeepsSettled
<1>1. /\ state \in [Tasks -> TaskStates] /\ state[t] = "CLAIMED"
      /\ state' = [state EXCEPT ![t] = s] /\ UNCHANGED <<history, saved>>
  BY DEF Withdraw, OInv, SoundTasks
<1>2. IInv' /\ LeaseStep
  BY NextKeepsIInv DEF Withdraw, OInv
<1>3. DOMAIN claims' = DOMAIN claims \ {t}
  BY WithoutType DEF Withdraw, OInv, IInv, SoundMaps
<1>4. ClaimedIffHeld'
  BY <1>1, <1>3 DEF ClaimedIffHeld, OInv
<1>5. StatesMove(state, state')
  BY <1>1 DEF StatesMove, TaskStates, Started, Repairs
<1>6. QED
  BY <1>1, <1>2, <1>4, <1>5, StatesStep, MoveKeepsSettled

\* Every step of the loop is one of these.
SoundStep == [OrchestratorNext]_orchestratorVars \/ \E t \in Tasks, s \in {"READY", "BLOCKED"} : Withdraw(t, s)

LEMMA SoundStepKeeps ==
  ASSUME OInv, SoundStep
  PROVE  OInv' /\ (LeaseStep \/ UNCHANGED authorityVars)
BY OrchestratorNextInv, WithdrawStep DEF SoundStep

\* Grants are not forgotten, and a new one has the next number.
LEMMA GrantsGrow ==
  ASSUME OInv, SoundStep, GrantsNumbered
  PROVE  issued \subseteq issued' /\ GrantsNumbered'
<1>1. \/ UNCHANGED <<minted, issued>>
      \/ \E cs, gen, t, o, lag : DoClaim(cs, gen, t, o, lag)
  <2>1. CASE \E t \in Tasks, o \in Owners, lag \in Lags : Dispatch(t, o, lag)
    BY <2>1 DEF Dispatch
  <2>2. CASE \E g \in issued, v \in Verification, lag \in Lags : Complete(g, v, lag)
    <3>1. PICK g \in issued, v \in Verification, lag \in Lags : Complete(g, v, lag)
      BY <2>2
    <3>2. Release(g.token) \/ UNCHANGED authorityVars
      BY <3>1 DEF Complete, Accept, RefuseMerge, CreateRepair, FailOnDuplicateRepair, Escalate,
                  Terminate, Completes
    <3>3. QED
      BY <3>2 DEF Release, authorityVars
  <2>3. CASE \E t \in Tasks, s \in {"READY", "BLOCKED"} : Withdraw(t, s)
    BY <2>3 DEF Withdraw, AuthorityNext, authorityVars, MakeClaim, Renew, Release, Fence,
                SweepExpired, Persist, Restart, Tick
  <2>4. CASE (\E t \in Roots : Ingest(t)) \/ (\E r \in Repairs : ResolveByRepair(r))
               \/ (\E t \in Tasks : ResolveByEvidence(t)) \/ UNCHANGED orchestratorVars
    BY <2>4 DEF Ingest, ResolveByRepair, ResolveByEvidence, orchestratorVars, authorityVars
  <2>5. CASE (\E t \in Tasks, lag \in Lags : DispatchWithoutModel(t, lag))
               \/ (\E g \in issued, lag \in Lags : RenewClaim(g, lag))
               \/ (\E lag \in Lags : RecoverExpired(lag))
               \/ SaveRuntime \/ RestartRuntime \/ TimePasses
    BY <2>5 DEF DispatchWithoutModel, RenewClaim, Renew, RecoverExpired, SweepExpired, SaveRuntime,
                Persist, RestartRuntime, Restart, TimePasses, Tick
  <2>6. QED
    BY <2>1, <2>2, <2>3, <2>4, <2>5 DEF SoundStep, OrchestratorNext
<1>2. minted \in Nat /\ MaxClaims \in Nat
  BY BoundsAssumption DEF OInv, IInv
<1>3. CASE UNCHANGED <<minted, issued>>
  BY <1>3 DEF GrantsNumbered
<1>4. ASSUME NEW cs, NEW gen, NEW t, NEW o, NEW lag, DoClaim(cs, gen, t, o, lag)
      PROVE  issued \subseteq issued' /\ GrantsNumbered'
  <2>1. /\ minted < MaxClaims /\ minted' = minted + 1
        /\ issued' = issued \cup {GrantOf(NewClaim(gen, t, o, lag))}
    BY <1>4 DEF DoClaim
  <2>2. GrantOf(NewClaim(gen, t, o, lag)).token.claimId = minted + 1
    BY DEF GrantOf, NewClaim
  <2>3. QED
    BY <1>2, <2>1, <2>2 DEF GrantsNumbered
<1>5. QED
  BY <1>1, <1>3, <1>4

\* A step that takes nothing back: neither a restart nor a snapshot.
CalmStep == SoundStep /\ KeepsSettled /\ saved' = saved

----------------------------------------------------------------------------
(* The claims of the plan. *)

\* A grant whose token is in the map is the grant of the claim there; two of them are of two tasks.
LEMMA HeldGrantsDiffer ==
  ASSUME IInv, NEW g \in issued, Holds(g.token)
  PROVE  /\ g.task \in Tasks /\ g.task = g.token.taskKey
         /\ g.task \in DOMAIN claims /\ claims[g.task].token = g.token
         /\ \A h \in issued : Holds(h.token) /\ h.task = g.task => h = g
<1>1. \A h \in issued : /\ h.task = h.token.taskKey /\ h.task \in Tasks
                        /\ Holds(h.token) => h.task \in DOMAIN claims /\ claims[h.task].token = h.token
  BY DEF IInv, ClaimIdsAreUnique, Grant, Holds, Matches
<1>2. QED
  BY <1>1 DEF IInv, ClaimIdsAreUnique

\* The claims of all tasks but those of S are left as they are.
LeavesClaims(S) == \A t \in DOMAIN claims \ S : t \in DOMAIN claims' /\ claims'[t] = claims[t]

LEMMA WithoutLeaves ==
  ASSUME OInv, NEW S, claims' = Without(claims, S)
  PROVE  LeavesClaims(S)
<1>1. IsClaimMap(claims)
  BY DEF OInv, IInv, SoundMaps
<1>2. /\ DOMAIN Without(claims, S) = DOMAIN claims \ S
      /\ \A t \in DOMAIN claims \ S : Without(claims, S)[t] = claims[t]
  BY <1>1, WithoutType
<1>3. QED
  BY <1>2 DEF LeavesClaims

\* A step that leaves the claims of the plan alone keeps the plan held.
LEMMA PlanStaysHeld ==
  ASSUME IInv, plan \subseteq issued, PlanIsHeld, NEW S, LeavesClaims(S), waited' = waited,
         plan' \subseteq plan, \A g \in plan' : g.task \notin S
  PROVE  \A g \in plan' : Holds(g.token)' /\ claims'[g.task].expiresIn + waited' >= Ttl
<1> SUFFICES ASSUME NEW g \in plan'
             PROVE  Holds(g.token)' /\ claims'[g.task].expiresIn + waited' >= Ttl
  OBVIOUS
<1>1. g \in issued /\ Holds(g.token) /\ claims[g.task].expiresIn + waited >= Ttl /\ g.task \notin S
  BY DEF PlanIsHeld
<1>2. g.task = g.token.taskKey /\ g.task \in DOMAIN claims /\ claims[g.task].token = g.token
  BY <1>1, HeldGrantsDiffer
<1>3. QED
  BY <1>1, <1>2 DEF LeavesClaims, Holds, Matches

\* A claim of the plan is live to the tick, and to a handler that reads the clock now.
LEMMA PlanIsLive ==
  ASSUME IInv, plan \subseteq issued, PlanIsHeld, waited \in 0..MaxWait, NEW g \in plan,
         NEW lag \in {0, waited}
  PROVE  g.task \notin Expired(claims, lag)
<1>1. g.task \in DOMAIN claims /\ claims[g.task].expiresIn + waited >= Ttl
  BY HeldGrantsDiffer DEF PlanIsHeld
<1>2. claims[g.task].expiresIn \in Int
  BY <1>1 DEF IInv, SoundMaps, IsClaimMap, Claim
<1>3. waited \in Nat /\ waited <= MaxLag /\ Ttl \in Nat /\ MaxLag \in Nat /\ MaxLag < Ttl /\ MaxWait \in Nat
  BY TtlAssumption, MaxWaitAssumption
<1>4. QED
  BY <1>1, <1>2, <1>3 DEF Expired, Live

----------------------------------------------------------------------------
(* What each handler is to the loop. *)

LEMMA QuietIsCalm ==
  ASSUME UNCHANGED orchestratorVars
  PROVE  CalmStep
BY DEF CalmStep, SoundStep, KeepsSettled, orchestratorVars

LEMMA IngestIsCalm ==
  ASSUME OInv, NEW t \in Roots, Ingest(t)
  PROVE  CalmStep /\ claims' = claims
<1>1. state \in [Tasks -> TaskStates]
  BY DEF OInv, SoundTasks
<1>2. QED
  BY <1>1 DEF CalmStep, SoundStep, OrchestratorNext, KeepsSettled, Settled, Ingest, authorityVars

LEMMA CompleteIsCalm ==
  ASSUME OInv, NEW g \in issued, NEW v \in Verification, NEW lag \in Lags, Complete(g, v, lag)
  PROVE  /\ CalmStep /\ LeavesClaims({g.task})
         /\ g.task \in Tasks /\ state[g.task] = "CLAIMED" /\ claims[g.task].token = g.token
         /\ \A t \in Tasks \ {g.task} : state[t] = "CLAIMED" => state'[t] = "CLAIMED"
<1>1. Validate(g.token, lag) /\ (Release(g.token) \/ claims' = claims) /\ saved' = saved
  BY DEF Complete, Accept, RefuseMerge, CreateRepair, FailOnDuplicateRepair, Escalate, Terminate,
         Completes, authorityVars
<1>2. g.task \in Tasks /\ g.task = g.token.taskKey /\ state[g.task] = "CLAIMED"
  BY <1>1, ValidatedIsClaimed
<1>3. LeavesClaims({g.task})
  <2>1. CASE Release(g.token)
    BY <1>2, <2>1, WithoutLeaves DEF Release
  <2>2. CASE claims' = claims
    BY <2>2 DEF LeavesClaims
  <2>3. QED
    BY <1>1, <2>1, <2>2
<1>4. SoundStep
  BY DEF SoundStep, OrchestratorNext
<1>5. QED
  BY <1>1, <1>2, <1>3, <1>4, CompleteKeepsSettled DEF CalmStep, Validate, Holds, Matches

LEMMA SweepIsCalm ==
  ASSUME OInv, NEW lag \in Lags, RecoverExpired(lag)
  PROVE  CalmStep /\ LeavesClaims(Expired(claims, lag))
<1>1. LeavesClaims(Expired(claims, lag))
  BY WithoutLeaves DEF RecoverExpired, SweepExpired
<1>2. QED
  BY <1>1, SweepKeepsSettled DEF CalmStep, SoundStep, OrchestratorNext, RecoverExpired

\* A dispatch leaves the claims that its sweep leaves, and adds one, with its full time.
LEMMA DispatchIsCalm ==
  ASSUME OInv, NEW t \in Tasks, NEW o \in Owners, NEW lag \in Lags, Dispatch(t, o, lag)
  PROVE  /\ CalmStep /\ LeavesClaims(Expired(claims, lag))
         /\ t \in DOMAIN claims' /\ claims'[t].expiresIn = Ttl - lag
         /\ issued' = issued \cup {GrantOf(claims'[t])} /\ claims'[t].token.taskKey = t
<1> DEFINE S   == Expired(claims, lag)
           cs  == Without(claims, S)
           new == NewClaim(Bump(generation, S), t, o, lag)
<1>1. DoClaim(cs, Bump(generation, S), t, o, lag) /\ saved' = saved
  BY DEF Dispatch
<1>2. /\ t \notin DOMAIN cs /\ claims' = With(cs, t, new)
      /\ issued' = issued \cup {GrantOf(new)}
  BY <1>1 DEF DoClaim, Claimable
<1>3. DOMAIN cs = DOMAIN claims \ S /\ \A u \in DOMAIN cs : cs[u] = claims[u]
  <2>1. IsClaimMap(claims)
    BY DEF OInv, IInv, SoundMaps
  <2>2. QED
    BY <2>1, WithoutType
<1>4. new.expiresIn = Ttl - lag /\ new.token.taskKey = t
  BY DEF NewClaim
<1> HIDE DEF cs, new, S
<1>5. t \in DOMAIN claims' /\ claims'[t] = new /\ \A u \in DOMAIN cs : u \in DOMAIN claims' /\ claims'[u] = cs[u]
  BY <1>2 DEF With
<1>6. LeavesClaims(S)
  BY <1>3, <1>5 DEF LeavesClaims
<1>7. SoundStep /\ KeepsSettled
  BY DispatchKeepsSettled DEF SoundStep, OrchestratorNext
<1>8. QED
  BY <1>1, <1>2, <1>4, <1>5, <1>6, <1>7 DEF CalmStep, S

LEMMA ResolveIsCalm ==
  ASSUME OInv, (\E r \in Repairs : ResolveByRepair(r)) \/ (\E t \in Tasks : ResolveByEvidence(t))
  PROVE  /\ CalmStep /\ claims' = claims
         /\ \A t \in Tasks : state[t] = "CLAIMED" => state'[t] = "CLAIMED"
BY ResolveKeepsSettled
   DEF CalmStep, SoundStep, OrchestratorNext, ResolveByRepair, ResolveByEvidence, authorityVars

LEMMA RenewIsCalm ==
  ASSUME NEW g \in issued, NEW lag \in Lags, RenewClaim(g, lag)
  PROVE  CalmStep
BY DEF CalmStep, SoundStep, OrchestratorNext, RenewClaim, KeepsSettled

LEMMA WithdrawIsCalm ==
  ASSUME OInv, NEW t \in Tasks, NEW s \in {"READY", "BLOCKED"}, Withdraw(t, s)
  PROVE  CalmStep /\ LeavesClaims({t})
<1>1. LeavesClaims({t})
  BY WithoutLeaves DEF Withdraw
<1>2. QED
  BY <1>1, WithdrawStep DEF CalmStep, SoundStep, Withdraw

----------------------------------------------------------------------------
(* The invariant is kept. *)

\* A calm step that promotes only what is accepted and leaves the claims of what is left of the plan.
LEMMA CalmKeepsLInv ==
  ASSUME LInv, CalmStep, LoopTypes',
         savedLoop' = savedLoop, promoted' \subseteq promoted \cup Unpromoted,
         NEW S, LeavesClaims(S),
         plan' # {} => /\ plan' \subseteq plan /\ waited' = waited /\ at' \in {"DISPATCH", "SUBMIT"}
                       /\ \A g \in plan' : g.task \notin S
  PROVE  LInv'
<1>1. OInv' /\ GrantsNumbered'
  BY SoundStepKeeps, GrantsGrow DEF LInv, CalmStep
<1>2. SnapshotSettled'
  BY DEF LInv, CalmStep, SnapshotSettled, KeepsSettled
<1>3. PromotedWorkIsAccepted'
  <2>1. promoted \subseteq Tasks /\ Coding \subseteq Tasks
    BY RootsAssumption, TasksAssumption DEF LInv, LoopTypes
  <2>2. \A t \in promoted' : t \in Tasks /\ state[t] = "ACCEPTED"
    BY <2>1 DEF LInv, PromotedWorkIsAccepted, Unpromoted
  <2>3. QED
    BY <2>2 DEF LInv, CalmStep, KeepsSettled, Settled, PromotedWorkIsAccepted
<1>4. PlanIsHeld'
  <2>1. CASE plan' = {}
    BY <2>1 DEF PlanIsHeld
  <2>2. CASE plan' # {}
    BY <2>2, PlanStaysHeld DEF LInv, OInv, LoopTypes, PlanIsHeld
  <2>3. QED
    BY <2>1, <2>2
<1>5. QED
  BY <1>1, <1>2, <1>3, <1>4 DEF LInv

\* A step that changes nothing of the orchestrator.
LEMMA QuietKeepsLInv ==
  ASSUME LInv, UNCHANGED orchestratorVars, LoopTypes',
         savedLoop' = savedLoop, promoted' \subseteq promoted \cup Unpromoted,
         plan' # {} => plan' \subseteq plan /\ waited' = waited /\ at' \in {"DISPATCH", "SUBMIT"}
  PROVE  LInv'
<1>1. CalmStep /\ LeavesClaims({})
  BY QuietIsCalm DEF orchestratorVars, authorityVars, LeavesClaims
<1>2. QED
  BY <1>1, CalmKeepsLInv, Zenon

\* A step between the rows, where there is no plan yet.
LEMMA RowKeepsLInv ==
  ASSUME LInv, at = "ROWS", CalmStep, LoopTypes', plan' = {} \/ plan' = plan,
         savedLoop' = savedLoop, promoted' = promoted
  PROVE  LInv'
<1>1. plan' = {}
  BY DEF LInv, PlanIsHeld
<1>2. LeavesClaims(DOMAIN claims)
  BY DEF LeavesClaims
<1>3. QED
  BY <1>1, <1>2, CalmKeepsLInv

LEMMA WaitsKeepLInv ==
  ASSUME LInv,
         \/ StartTick \/ FleetAnswers \/ FleetFails
         \/ (\E t \in Coding : Promote(t)) \/ PromotionThrows \/ WorkersAnswer \/ EndOfPlan
         \/ (\E g \in plan : Enqueue(g)) \/ EndOfSubmission
  PROVE  LInv'
<1> USE DEF orchestratorVars, authorityVars
<1>1. UNCHANGED orchestratorVars /\ savedLoop' = savedLoop /\ promoted' \subseteq promoted \cup Unpromoted
  BY DEF StartTick, FleetAnswers, FleetFails, Promote, PromotionThrows, WorkersAnswer, EndOfPlan,
         Enqueue, EndOfSubmission, Outside, Unpromoted
<1>2. LoopTypes'
  <2>1. CASE (\E g \in plan : Enqueue(g)) \/ \E t \in Coding : Promote(t)
    BY <2>1 DEF LInv, LoopTypes, Enqueue, Promote, tickVars, Unpromoted, FabricStates
  <2>2. CASE StartTick \/ FleetAnswers \/ WorkersAnswer \/ EndOfPlan
    BY <2>2 DEF LInv, LoopTypes, StartTick, FleetAnswers, WorkersAnswer, EndOfPlan, Outside
  <2>3. CASE FleetFails \/ PromotionThrows \/ EndOfSubmission
    BY <2>3, MaxWaitAssumption
       DEF LInv, LoopTypes, FleetFails, PromotionThrows, EndOfSubmission, Outside, EndTick
  <2>4. QED
    BY <2>1, <2>2, <2>3
<1>3. plan' # {} => plan' \subseteq plan /\ waited' = waited /\ at' \in {"DISPATCH", "SUBMIT"}
  BY DEF LInv, PlanIsHeld, StartTick, FleetAnswers, FleetFails, Promote, PromotionThrows,
         WorkersAnswer, EndOfPlan, Enqueue, EndOfSubmission, EndTick, tickVars
<1>4. QED
  BY <1>1, <1>2, <1>3, QuietKeepsLInv

LEMMA FabricKeepsLInv ==
  ASSUME LInv,
         \/ \E i \in Ids : FabricLeases(i) \/ FabricRequeues(i)
         \/ \E g \in issued : FabricEnds(g) \/ RequestArrives(g)
         \/ \E value \in BOOLEAN : SetPaused(value)
  PROVE  LInv'
<1> USE DEF orchestratorVars, authorityVars
<1>1. UNCHANGED <<orchestratorVars, tickVars, savedLoop, promoted>>
  BY DEF FabricLeases, FabricRequeues, FabricEnds, FabricStep, RequestArrives, SetPaused, tickVars
<1>2. LoopTypes'
  <2>1. CASE \E i, from : \E to \in FabricStates : FabricStep(i, from, to)
    BY <2>1 DEF FabricStep, LInv, LoopTypes, tickVars
  <2>2. CASE \E g \in issued : RequestArrives(g)
    BY <2>2 DEF RequestArrives, LInv, LoopTypes, tickVars, FabricStates
  <2>3. CASE \E value \in BOOLEAN : SetPaused(value)
    BY <2>3 DEF SetPaused, LInv, LoopTypes, tickVars
  <2>4. QED
    BY <2>1, <2>2, <2>3 DEF FabricLeases, FabricRequeues, FabricEnds, FabricStates
<1>3. plan' # {} => plan' \subseteq plan /\ waited' = waited /\ at' \in {"DISPATCH", "SUBMIT"}
  BY <1>1 DEF LInv, PlanIsHeld, tickVars
<1>4. QED
  BY <1>1, <1>2, <1>3, QuietKeepsLInv

\* The tick's clock is one of those a caller may have.
LEMMA WaitedIsALag ==
  ASSUME LInv
  PROVE  waited \in Lags
BY MaxWaitAssumption, TtlAssumption DEF LInv, LoopTypes, Lags

\* What the tick does to a row is calm.
LEMMA RowIsCalm ==
  ASSUME LInv, ReconcileRow
  PROVE  CalmStep
<1>0. OInv /\ waited \in Lags /\ rows \subseteq issued /\ closing \subseteq Repairs
  BY WaitedIsALag DEF LInv, LoopTypes
<1>1. \A g \in rows : g.task \in Tasks
  BY <1>0 DEF OInv, IInv, Grant
<1>2. ASSUME NEW g \in rows, SkipRow(g)
      PROVE  CalmStep
  BY <1>2, QuietIsCalm DEF SkipRow
<1>3. ASSUME NEW g \in rows, RenewRow(g)
      PROVE  CalmStep
  BY <1>0, <1>3, RenewIsCalm DEF RenewRow
<1>4. ASSUME NEW g \in rows, FenceRow(g)
      PROVE  CalmStep
  <2>1. [AuthorityNext]_authorityVars
    BY <1>1, <1>4 DEF FenceRow, AuthorityNext
  <2>2. Withdraw(g.task, "BLOCKED")
    BY <1>4, <2>1 DEF FenceRow, Delegated, Fence, Withdraw
  <2>3. QED
    BY <1>0, <1>1, <2>2, WithdrawIsCalm
<1>5. ASSUME NEW g \in rows, SetAsideRow(g)
      PROVE  CalmStep
  <2>1. [AuthorityNext]_authorityVars
    BY <1>0, <1>5 DEF SetAsideRow, AuthorityNext
  <2>2. g.task = g.token.taskKey
    BY <1>0 DEF OInv, IInv, ClaimIdsAreUnique
  <2>3. Withdraw(g.task, "BLOCKED")
    BY <1>5, <2>1, <2>2 DEF SetAsideRow, Delegated, Release, Withdraw
  <2>4. QED
    BY <1>0, <1>1, <2>3, WithdrawIsCalm
<1>6. ASSUME NEW g \in rows, NEW v \in Verification, CompleteRow(g, v) \/ CompleteThrows(g, v)
      PROVE  CalmStep
  <2>1. Complete(g, v, waited)
    BY <1>6 DEF CompleteRow, CompleteThrows, Complete
  <2>2. QED
    BY <1>0, <2>1, CompleteIsCalm
<1>7. ASSUME NEW r \in closing, CloseParent(r) \/ CloseParentThrows(r)
      PROVE  CalmStep
  BY <1>0, <1>7, ResolveIsCalm, QuietIsCalm DEF CloseParent, CloseParentThrows
<1>8. ASSUME SweepAfterRows
      PROVE  CalmStep
  BY <1>0, <1>8, SweepIsCalm, QuietIsCalm DEF SweepAfterRows
<1>9. QED
  BY <1>2, <1>3, <1>4, <1>5, <1>6, <1>7, <1>8 DEF ReconcileRow

LEMMA ReconcileKeepsLInv ==
  ASSUME LInv, ReconcileRow
  PROVE  LInv'
<1> USE DEF Outside
<1>1. CalmStep
  BY RowIsCalm
<1>2. issued \subseteq issued'
  BY <1>1, GrantsGrow DEF LInv, CalmStep
<1> DEFINE RowEnds == /\ at = "ROWS" /\ UNCHANGED Outside
                      /\ rows' \subseteq rows /\ closing' \subseteq Repairs
                      /\ \/ at' \in {at, "PROMOTE"} /\ waited' = waited /\ plan' = plan
                         \/ at' = "IDLE" /\ waited' = 0 /\ plan' = {}
<1>3. RowEnds
  <2>1. closing \subseteq Repairs
    BY DEF LInv, LoopTypes
  <2>2. ASSUME NEW g \in rows, SkipRow(g) \/ RenewRow(g) \/ FenceRow(g) \/ SetAsideRow(g)
        PROVE  AtRow(g) /\ NextRow(g)
    BY <2>2 DEF SkipRow, RenewRow, FenceRow, SetAsideRow
  <2>3. ASSUME NEW g \in rows, NEW v \in Verification, CompleteRow(g, v) \/ CompleteThrows(g, v)
        PROVE  RowEnds
    BY <2>1, <2>3 DEF CompleteRow, CompleteThrows, Reports, AtRow, EndTick
  <2>4. ASSUME NEW r \in closing, CloseParent(r) \/ CloseParentThrows(r)
        PROVE  RowEnds
    BY <2>1, <2>4 DEF CloseParent, CloseParentThrows, EndTick
  <2>5. ASSUME SweepAfterRows
        PROVE  RowEnds
    BY <2>1, <2>5 DEF SweepAfterRows
  <2>6. QED
    BY <2>1, <2>2, <2>3, <2>4, <2>5 DEF ReconcileRow, AtRow, NextRow
<1>4. LoopTypes'
  BY <1>2, <1>3, MaxWaitAssumption DEF LInv, LoopTypes
<1>5. QED
  BY <1>1, <1>3, <1>4, RowKeepsLInv

\* A submission that fails withdraws the claim of its own task and no other of the plan.
LEMMA EnqueueFailsWithdraws ==
  ASSUME LInv, NEW g \in plan, EnqueueFails(g)
  PROVE  /\ CalmStep /\ LeavesClaims({g.task}) /\ issued' = issued
         /\ state'[g.task] = "READY" /\ \A t \in Tasks \ {g.task} : state'[t] = state[t]
         /\ \A h \in plan : h.task = g.task => h = g
<1>1. /\ OInv /\ IInv /\ plan \subseteq issued /\ g \in issued /\ Holds(g.token)
      /\ \A h \in plan : h \in issued /\ Holds(h.token)
  BY DEF LInv, OInv, LoopTypes, PlanIsHeld
<1>2. /\ g.task \in Tasks /\ g.task = g.token.taskKey /\ state[g.task] = "CLAIMED"
      /\ \A h \in plan : h.task = g.task => h = g
  BY <1>1, HeldGrantsDiffer DEF OInv, ClaimedIffHeld
<1>3. Withdraw(g.task, "READY") /\ issued' = issued
  <2>1. Release(g.token) /\ UNCHANGED <<history, saved>>
    BY <1>1 DEF EnqueueFails
  <2>2. [AuthorityNext]_authorityVars
    BY <1>1, <2>1 DEF AuthorityNext
  <2>3. QED
    BY <1>2, <2>1, <2>2 DEF EnqueueFails, Release, Withdraw
<1>4. CalmStep /\ LeavesClaims({g.task})
  BY <1>1, <1>2, <1>3, WithdrawIsCalm
<1>5. state \in [Tasks -> TaskStates]
  BY <1>1 DEF OInv, SoundTasks
<1>6. QED
  BY <1>2, <1>3, <1>4, <1>5 DEF Withdraw

LEMMA EnqueueFailsKeepsLInv ==
  ASSUME LInv, NEW g \in plan, EnqueueFails(g)
  PROVE  LInv'
<1>1. /\ CalmStep /\ LeavesClaims({g.task}) /\ issued' = issued
      /\ \A h \in plan : h.task = g.task => h = g
  BY EnqueueFailsWithdraws
<1>2. LoopTypes'
  BY <1>1 DEF LInv, LoopTypes, EnqueueFails
<1>3. plan' \subseteq plan /\ \A h \in plan' : h.task \notin {g.task}
  BY <1>1 DEF EnqueueFails
<1>4. QED
  BY <1>1, <1>2, <1>3, CalmKeepsLInv DEF LInv, PlanIsHeld, EnqueueFails

\* The claim of a dispatch that joins the plan has all its time from the tick's clock.
LEMMA DispatchPlannedKeepsLInv ==
  ASSUME LInv, NEW t \in Tasks, NEW o \in Owners, DispatchPlanned(t, o)
  PROVE  LInv'
<1> DEFINE S == Expired(claims, waited)
<1>1. /\ OInv /\ IInv /\ plan \subseteq issued /\ waited \in Lags /\ waited \in 0..MaxWait
      /\ Dispatch(t, o, waited) /\ UNCHANGED <<Outside, at, waited, rows, closing>>
      /\ at = "DISPATCH" /\ plan' = plan \cup (issued' \ issued)
  BY WaitedIsALag DEF LInv, OInv, LoopTypes, DispatchPlanned
<1>2. /\ CalmStep /\ LeavesClaims(S)
      /\ t \in DOMAIN claims' /\ claims'[t].expiresIn = Ttl - waited
      /\ issued' = issued \cup {GrantOf(claims'[t])} /\ claims'[t].token.taskKey = t
  BY <1>1, DispatchIsCalm
<1>3. PICK new : issued' = issued \cup {new} /\ new.task = t /\ new.token = claims'[t].token
  <2>1. GrantOf(claims'[t]).task = t /\ GrantOf(claims'[t]).token = claims'[t].token
    BY <1>2 DEF GrantOf
  <2>2. QED
    BY <1>2, <2>1
<1>4. Holds(new.token)' /\ claims'[new.task].expiresIn + waited' >= Ttl
  <2>1. waited \in Nat /\ Ttl \in Nat
    BY <1>1, MaxWaitAssumption, TtlAssumption
  <2>2. waited' = waited
    BY <1>1
  <2>3. claims'[new.task].expiresIn + waited' >= Ttl
    BY <1>2, <1>3, <2>1, <2>2
  <2>4. Holds(new.token)'
    BY <1>2, <1>3 DEF Holds, Matches
  <2>5. QED
    BY <2>3, <2>4
<1>5. \A g \in plan : Holds(g.token)' /\ claims'[g.task].expiresIn + waited' >= Ttl
  <2> SUFFICES ASSUME NEW g \in plan
               PROVE  Holds(g.token)' /\ claims'[g.task].expiresIn + waited' >= Ttl
    OBVIOUS
  <2>1. g \in issued /\ Holds(g.token) /\ claims[g.task].expiresIn + waited >= Ttl
    BY <1>1 DEF LInv, PlanIsHeld
  <2>2. g.task \notin S /\ waited' = waited
    BY <1>1, PlanIsLive DEF LInv
  <2>3. g.task = g.token.taskKey /\ g.task \in DOMAIN claims /\ claims[g.task].token = g.token
    BY <1>1, <2>1, HeldGrantsDiffer
  <2>4. g.task \in DOMAIN claims' /\ claims'[g.task] = claims[g.task]
    BY <1>2, <2>2, <2>3 DEF LeavesClaims
  <2>5. QED
    BY <2>1, <2>2, <2>3, <2>4 DEF Holds, Matches
<1>6. PlanIsHeld'
  BY <1>1, <1>3, <1>4, <1>5 DEF PlanIsHeld
<1>7. OInv' /\ GrantsNumbered' /\ issued \subseteq issued'
  BY <1>2, SoundStepKeeps, GrantsGrow DEF LInv, CalmStep
<1>8. LoopTypes'
  BY <1>1, <1>7 DEF LInv, LoopTypes, Outside
<1>9. SnapshotSettled' /\ PromotedWorkIsAccepted'
  <2>1. promoted \subseteq Tasks /\ promoted' = promoted /\ savedLoop' = savedLoop
    BY <1>1, RootsAssumption, TasksAssumption DEF LInv, LoopTypes, Outside
  <2>2. QED
    BY <1>2, <2>1
       DEF LInv, CalmStep, SnapshotSettled, PromotedWorkIsAccepted, KeepsSettled, Settled
<1>10. QED
  BY <1>6, <1>7, <1>8, <1>9 DEF LInv

----------------------------------------------------------------------------
(* Handlers, between two awaits. *)

\* A handler leaves the loop's own variables, so it has to be calm and to spare the plan.
LEMMA HandlerKeepsLInv ==
  ASSUME LInv, CalmStep, LoopUnchanged,
         NEW S, LeavesClaims(S), \A g \in plan : g.task \notin S
  PROVE  LInv'
<1>1. UNCHANGED <<fabric, wire, at, waited, rows, closing, plan, paused, promoted, savedLoop>>
  BY DEF LoopUnchanged, tickVars
<1>2. issued \subseteq issued'
  BY GrantsGrow DEF LInv, CalmStep
<1>3. LoopTypes'
  BY <1>1, <1>2 DEF LInv, LoopTypes
<1>4. at' \in {"DISPATCH", "SUBMIT"} \/ plan' = {}
  BY <1>1 DEF LInv, PlanIsHeld
<1>5. QED
  BY <1>1, <1>3, <1>4, CalmKeepsLInv

LEMMA HandlersKeepLInv ==
  ASSUME LInv,
         \/ \E t \in Roots : PostTask(t)
         \/ \E t \in Tasks, o \in Owners : PostDispatch(t, o)
         \/ \E g \in issued, v \in Verification : PostResult(g, v)
         \/ OperatorCommand
  PROVE  LInv'
<1>1. /\ OInv /\ IInv /\ plan \subseteq issued /\ 0 \in Lags /\ waited \in 0..MaxWait
      /\ \A h \in plan : h \in issued /\ Holds(h.token)
  BY TtlAssumption DEF LInv, OInv, LoopTypes, PlanIsHeld, Lags
<1>2. ASSUME NEW t \in Roots, PostTask(t)
      PROVE  LInv'
  <2>1. CalmStep /\ LeavesClaims({})
    BY <1>1, <1>2, IngestIsCalm DEF PostTask, LeavesClaims
  <2>2. QED
    BY <1>2, <2>1, HandlerKeepsLInv DEF PostTask
<1>3. \A g \in plan : g.task \notin Expired(claims, 0)
  BY <1>1, PlanIsLive DEF LInv
<1>4. ASSUME NEW t \in Tasks, NEW o \in Owners, PostDispatch(t, o)
      PROVE  LInv'
  <2>1. CalmStep /\ LeavesClaims(Expired(claims, 0))
    BY <1>1, <1>4, DispatchIsCalm DEF PostDispatch
  <2>2. QED
    BY <1>3, <1>4, <2>1, HandlerKeepsLInv DEF PostDispatch
<1>5. ASSUME NEW g \in issued, NEW v \in Verification, PostResult(g, v)
      PROVE  LInv'
  <2>1. Complete(g, v, 0) /\ g \notin plan
    BY <1>5 DEF PostResult, Submitted
  <2>2. Validate(g.token, 0)
    BY <2>1 DEF Complete, Accept, RefuseMerge, CreateRepair, FailOnDuplicateRepair, Escalate,
                Terminate, Completes
  <2>3. Holds(g.token)
    BY <2>2 DEF Validate
  <2>4. CalmStep /\ LeavesClaims({g.task})
    BY <1>1, <2>1, CompleteIsCalm
  <2>5. \A h \in plan : h.task # g.task
    BY <1>1, <2>1, <2>3, HeldGrantsDiffer
  <2>6. QED
    BY <1>5, <2>4, <2>5, HandlerKeepsLInv DEF PostResult
<1>6. ASSUME Free, RecoverExpired(0), LoopUnchanged
      PROVE  LInv'
  <2>1. CalmStep /\ LeavesClaims(Expired(claims, 0))
    BY <1>1, <1>6, SweepIsCalm
  <2>2. QED
    BY <1>3, <1>6, <2>1, HandlerKeepsLInv
<1>7. ASSUME LoopUnchanged,
             (\E r \in Repairs : ResolveByRepair(r)) \/ (\E t \in Tasks : ResolveByEvidence(t))
      PROVE  LInv'
  <2>1. CalmStep /\ LeavesClaims({})
    BY <1>1, <1>7, ResolveIsCalm DEF LeavesClaims
  <2>2. QED
    BY <1>7, <2>1, HandlerKeepsLInv
<1>8. ASSUME NEW value \in BOOLEAN, SetPaused(value)
      PROVE  LInv'
  BY <1>8, FabricKeepsLInv
<1>9. QED
  BY <1>2, <1>4, <1>5, <1>6, <1>7, <1>8 DEF OperatorCommand

----------------------------------------------------------------------------
(* Snapshots, crashes and time. *)

LEMMA SavesKeepLInv ==
  ASSUME LInv, SaveState \/ Shutdown
  PROVE  LInv'
<1>1. /\ SaveRuntime /\ UNCHANGED <<fabric, wire, at, waited, rows, closing, plan, promoted>>
      /\ savedLoop'.promoted = promoted
      /\ paused' \in BOOLEAN /\ savedLoop' \in [paused: BOOLEAN, promoted: SUBSET Coding]
  <2>1. /\ SaveRuntime /\ UNCHANGED <<fabric, wire, at, waited, rows, closing, plan, promoted>>
        /\ savedLoop' = [paused |-> paused', promoted |-> promoted]
        /\ paused' = paused \/ paused' = TRUE
    BY Zenon DEF SaveState, Shutdown, tickVars
  <2>2. paused \in BOOLEAN /\ promoted \in SUBSET Coding
    BY DEF LInv, LoopTypes
  <2>3. paused' \in BOOLEAN
    BY <2>1, <2>2, Zenon
  <2>4. QED
    BY <2>1, <2>2, <2>3, Zenon
<1>2. /\ UNCHANGED <<claims, issued, minted, state>> /\ saved'.state = state
  BY <1>1 DEF SaveRuntime, Persist
<1>3. OInv'
  BY <1>1, SaveStep DEF LInv
<1>4. LoopTypes' /\ GrantsNumbered'
  BY <1>1, <1>2 DEF LInv, LoopTypes, GrantsNumbered
<1>5. PlanIsHeld'
  BY <1>1, <1>2 DEF LInv, PlanIsHeld, Holds, Matches
<1>6. SnapshotSettled' /\ PromotedWorkIsAccepted'
  BY <1>1, <1>2 DEF LInv, SnapshotSettled, PromotedWorkIsAccepted
<1>7. QED
  BY <1>3, <1>4, <1>5, <1>6 DEF LInv

LEMMA CrashKeepsLInv ==
  ASSUME LInv, Crash
  PROVE  LInv'
<1>1. /\ RestartRuntime /\ EndTick /\ UNCHANGED <<fabric, wire, savedLoop>>
      /\ paused' = savedLoop.paused /\ promoted' = savedLoop.promoted
  BY DEF Crash
<1>2. /\ UNCHANGED <<issued, minted, saved>>
      /\ \A t \in Tasks : saved.state[t] \in Settled => state'[t] = saved.state[t]
  BY <1>1 DEF RestartRuntime, Restart, Settled
<1>3. OInv'
  BY <1>1, RestartRuntimeStep DEF LInv
<1>4. LoopTypes' /\ GrantsNumbered' /\ PlanIsHeld'
  BY <1>1, <1>2, MaxWaitAssumption DEF LInv, LoopTypes, GrantsNumbered, PlanIsHeld, EndTick
<1>5. SnapshotSettled'
  BY <1>2 DEF SnapshotSettled
<1>6. PromotedWorkIsAccepted'
  <2>1. savedLoop.promoted \subseteq Tasks
    BY RootsAssumption, TasksAssumption DEF LInv, LoopTypes
  <2>2. QED
    BY <1>1, <1>2, <2>1 DEF LInv, PromotedWorkIsAccepted, Settled
<1>7. QED
  BY <1>3, <1>4, <1>5, <1>6 DEF LInv

\* Claims of the plan lose as much time as the tick's clock falls behind.
LEMMA TimeKeepsLInv ==
  ASSUME LInv, LoopTime
  PROVE  LInv'
<1>1. /\ TimePasses /\ Tick
      /\ UNCHANGED <<fabric, wire, at, rows, closing, plan, paused, promoted, savedLoop>>
      /\ at # "IDLE" => waited < MaxWait
      /\ waited' = IF at = "IDLE" THEN 0 ELSE waited + 1
  BY DEF LoopTime, TimePasses
<1>2. UNCHANGED <<issued, minted, saved, state>> /\ claims' = [t \in DOMAIN claims |-> Aged(claims[t])]
  BY <1>1 DEF TimePasses, Tick
<1>3. OInv'
  BY <1>1, AgedStep DEF LInv
<1>4. waited \in Nat /\ MaxWait \in Nat /\ MaxLag \in Nat
  BY MaxWaitAssumption, TtlAssumption DEF LInv, LoopTypes
<1>5. LoopTypes' /\ GrantsNumbered'
  BY <1>1, <1>2, <1>4 DEF LInv, LoopTypes, GrantsNumbered
<1>6. PlanIsHeld'
  <2> SUFFICES ASSUME NEW g \in plan
               PROVE  Holds(g.token)' /\ claims'[g.task].expiresIn + waited' >= Ttl
    BY <1>1 DEF LInv, PlanIsHeld
  <2> DEFINE c == claims[g.task]
  <2>1. /\ g.task = g.token.taskKey /\ g.task \in DOMAIN claims /\ c.token = g.token
        /\ c.expiresIn + waited >= Ttl /\ waited' = waited + 1
    BY <1>1, HeldGrantsDiffer DEF LInv, OInv, LoopTypes, PlanIsHeld
  <2>2. c \in Claim
    BY <2>1 DEF LInv, OInv, IInv, SoundMaps, IsClaimMap
  <2> HIDE DEF c
  <2>3. Aged(c).token = c.token /\ Aged(c).expiresIn >= c.expiresIn - 1
    BY <1>4, <2>2 DEF Aged, Claim
  <2>4. g.task \in DOMAIN claims' /\ claims'[g.task] = Aged(c)
    BY <1>2, <2>1 DEF c
  <2>5. c.expiresIn \in Int /\ Aged(c).expiresIn \in Int /\ Ttl \in Nat
    BY <1>4, <2>2, TtlAssumption DEF Aged, Claim
  <2>6. claims'[g.task].expiresIn + waited' >= Ttl
    BY <1>4, <2>1, <2>3, <2>4, <2>5
  <2>7. QED
    BY <2>1, <2>3, <2>4, <2>6 DEF Holds, Matches
<1>7. SnapshotSettled' /\ PromotedWorkIsAccepted'
  BY <1>1, <1>2 DEF LInv, SnapshotSettled, PromotedWorkIsAccepted
<1>8. QED
  BY <1>3, <1>5, <1>6, <1>7 DEF LInv

LEMMA LoopInitInv == LoopInit => LInv
<1> SUFFICES ASSUME LoopInit PROVE LInv
  OBVIOUS
<1>1. OInv
  BY OrchestratorInitInv DEF LoopInit
<1>2. LoopTypes
  <2>1. FALSE \in BOOLEAN /\ {} \in SUBSET Coding
    OBVIOUS
  <2>2. savedLoop \in [paused: BOOLEAN, promoted: SUBSET Coding]
    BY <2>1, Zenon DEF LoopInit
  <2>3. paused \in BOOLEAN
    BY <2>1, Zenon DEF LoopInit
  <2>4. QED
    BY <2>2, <2>3, MaxWaitAssumption DEF LoopInit, LoopTypes, FabricStates
<1>3. GrantsNumbered
  BY BoundsAssumption DEF LoopInit, OrchestratorInit, AuthorityInit, GrantsNumbered
<1>4. PlanIsHeld /\ SnapshotSettled /\ PromotedWorkIsAccepted
  BY DEF LoopInit, OrchestratorInit, PlanIsHeld, SnapshotSettled, PromotedWorkIsAccepted
<1>5. QED
  BY <1>1, <1>2, <1>3, <1>4 DEF LInv

LEMMA LoopNextInv ==
  ASSUME LInv, [LoopNext]_loopVars
  PROVE  LInv'
<1>1. CASE UNCHANGED loopVars
  <2>1. UNCHANGED orchestratorVars /\ UNCHANGED <<fabric, wire, paused, promoted, savedLoop>>
        /\ UNCHANGED <<at, waited, rows, closing, plan>> /\ UNCHANGED issued
    BY <1>1 DEF loopVars, tickVars, orchestratorVars, authorityVars
  <2>2. LoopTypes'
    BY <2>1 DEF LInv, LoopTypes
  <2>3. QED
    BY <2>1, <2>2, QuietKeepsLInv DEF LInv, PlanIsHeld
<1>2. CASE LoopNext
  BY <1>2, WaitsKeepLInv, FabricKeepsLInv, ReconcileKeepsLInv, EnqueueFailsKeepsLInv,
     DispatchPlannedKeepsLInv, HandlersKeepLInv, SavesKeepLInv, CrashKeepsLInv, TimeKeepsLInv
     DEF LoopNext
<1>3. QED
  BY <1>1, <1>2

----------------------------------------------------------------------------
(* What the steps of the loop are to the orchestrator. *)

\* The steps of the loop that leave the orchestrator alone.
QuietNext ==
  \/ StartTick \/ FleetAnswers \/ FleetFails
  \/ (\E t \in Coding : Promote(t)) \/ PromotionThrows \/ WorkersAnswer \/ EndOfPlan
  \/ (\E g \in plan : Enqueue(g)) \/ EndOfSubmission
  \/ (\E i \in Ids : FabricLeases(i) \/ FabricRequeues(i))
  \/ (\E g \in issued : FabricEnds(g) \/ RequestArrives(g))
  \/ (\E value \in BOOLEAN : SetPaused(value))
  \/ UNCHANGED loopVars

LEMMA QuietNextIsQuiet ==
  ASSUME QuietNext
  PROVE  UNCHANGED orchestratorVars
BY DEF QuietNext, StartTick, FleetAnswers, FleetFails, Promote, PromotionThrows, WorkersAnswer,
       EndOfPlan, Enqueue, EndOfSubmission, FabricLeases, FabricRequeues, FabricEnds, FabricStep,
       RequestArrives, SetPaused, loopVars

\* The steps of a handler, and those of the tick that dispatch or submit.
ActiveNext ==
  \/ \E t \in Roots : Ingest(t)
  \/ \E t \in Tasks, o \in Owners, lag \in Lags : Dispatch(t, o, lag)
  \/ \E g \in issued, v \in Verification : PostResult(g, v)
  \/ RecoverExpired(0)
  \/ (\E r \in Repairs : ResolveByRepair(r)) \/ (\E t \in Tasks : ResolveByEvidence(t))
  \/ SaveRuntime \/ TimePasses

LEMMA LoopNextCases ==
  ASSUME LInv, [LoopNext]_loopVars
  PROVE  \/ QuietNext \/ ActiveNext \/ ReconcileRow \/ RestartRuntime
         \/ \E g \in plan : EnqueueFails(g)
<1>1. CASE \E t \in Tasks, o \in Owners : DispatchPlanned(t, o)
  BY <1>1, WaitedIsALag DEF DispatchPlanned, ActiveNext
<1>2. CASE \E t \in Tasks, o \in Owners : PostDispatch(t, o)
  <2>1. 0 \in Lags
    BY TtlAssumption DEF Lags
  <2>2. QED
    BY <1>2, <2>1 DEF PostDispatch, ActiveNext
<1>3. CASE OperatorCommand
  BY <1>3 DEF OperatorCommand, QuietNext, ActiveNext
<1>4. CASE SaveState \/ Crash \/ Shutdown \/ LoopTime \/ \E t \in Roots : PostTask(t)
  BY <1>4 DEF SaveState, Crash, Shutdown, LoopTime, PostTask, ActiveNext
<1>5. QED
  BY <1>1, <1>2, <1>3, <1>4 DEF LoopNext, QuietNext, ActiveNext

\* Every step but a restart is calm, save for the snapshot it may write.
LEMMA LoopNextIsSound ==
  ASSUME LInv, [LoopNext]_loopVars
  PROVE  SoundStep /\ (RestartRuntime \/ KeepsSettled)
<1>1. CASE QuietNext
  BY <1>1, QuietNextIsQuiet, QuietIsCalm DEF CalmStep
<1>2. CASE ActiveNext
  <2>1. [OrchestratorNext]_orchestratorVars
    <3>1. 0 \in Lags
      BY TtlAssumption DEF Lags
    <3>2. QED
      BY <1>2, <3>1 DEF ActiveNext, PostResult, OrchestratorNext
  <2>2. QED
    BY <2>1, NextKeepsSettled DEF LInv, SoundStep
<1>3. CASE ReconcileRow
  BY <1>3, RowIsCalm DEF CalmStep
<1>4. CASE RestartRuntime
  BY <1>4 DEF SoundStep, OrchestratorNext
<1>5. CASE \E g \in plan : EnqueueFails(g)
  BY <1>5, EnqueueFailsWithdraws DEF CalmStep
<1>6. QED
  BY <1>1, <1>2, <1>3, <1>4, <1>5, LoopNextCases

----------------------------------------------------------------------------
(* Who settles a task. *)

\* No claimed task settles.
SettlesNothing == \A t \in Tasks : state[t] = "CLAIMED" => state'[t] \notin Settled

LEMMA SweepSettlesNothing ==
  ASSUME OInv, NEW S, \A t \in Tasks : state'[t] = Swept(S)[t] \/ state'[t] = "CLAIMED"
  PROVE  SettlesNothing
<1>1. state \in [Tasks -> TaskStates]
  BY DEF OInv, SoundTasks
<1>2. QED
  BY <1>1, SweptType DEF SettlesNothing, Settled

\* The verifier does not accept what the fabric calls a failure of a contract with checks.
LEMMA FailureIsNotAccepted ==
  ASSUME NEW h \in History, NEW v \in Verification, v.verdict = "REPAIR"
  PROVE  ActionFor(h, v) # "ACCEPT"
BY DEF ActionFor

LEMMA RowSettlesByHolder ==
  ASSUME LInv, NEW g \in rows, NEW v \in Verification, CompleteRow(g, v) \/ CompleteThrows(g, v),
         NEW t \in Tasks, state[t] = "CLAIMED", state'[t] \in Settled
  PROVE  SettlesByHolder(t)
<1>1. OInv /\ waited \in Lags /\ g \in issued
  BY WaitedIsALag DEF LInv, LoopTypes
<1>2. Complete(g, v, waited)
  BY DEF CompleteRow, CompleteThrows, Complete
<1>3. t = g.task /\ claims[t].token = g.token
  BY <1>1, <1>2, CompleteIsCalm DEF Settled
<1>4. CASE Seen(g) = "SUCCEEDED" \/ RootOf[t] \in Unchecked
  BY <1>3, <1>4 DEF SettlesByHolder, CompleteRow, CompleteThrows, Reports, Seen, TaskId
<1>5. CASE Seen(g) = "FAILED" /\ RootOf[t] \notin Unchecked
  <2>1. v.verdict = "REPAIR"
    BY <1>3, <1>5 DEF CompleteRow, CompleteThrows, Reports, VerificationsOf
  <2>2. history[t] \in History /\ state \in [Tasks -> TaskStates]
    BY <1>1 DEF OInv, SoundTasks
  <2>3. ~Accept(g, v, waited) /\ ~RefuseMerge(g, v, waited)
    BY <1>3, <2>1, <2>2, FailureIsNotAccepted DEF Accept, RefuseMerge, Completes
  <2>4. state'[t] = "FAILED"
    <3>1. CASE CreateRepair(g, v, waited)
      <4> DEFINE r == RepairFor(g.task, v)
      <4>1. /\ r \in Tasks
            /\ state' = [state EXCEPT ![g.task] = "BLOCKED", ![r] = IF @ = "ABSENT" THEN "READY" ELSE @]
        BY <3>1 DEF CreateRepair
      <4> HIDE DEF r
      <4>2. state'[t] \in {"BLOCKED", "READY"}
        BY <1>3, <2>2, <4>1
      <4>3. QED
        BY <4>2 DEF Settled
    <3>2. QED
      BY <1>2, <1>3, <2>2, <2>3, <3>1
         DEF Complete, FailOnDuplicateRepair, Escalate, Terminate, Settled
  <2>5. QED
    BY <1>3, <1>5, <2>4 DEF SettlesByHolder, Seen, TaskId
<1>6. QED
  BY <1>3, <1>4, <1>5 DEF CompleteRow, CompleteThrows, Reports

LEMMA ResultSettlesByHolder ==
  ASSUME LInv, NEW g \in issued, NEW v \in Verification, PostResult(g, v),
         NEW t \in Tasks, state[t] = "CLAIMED", state'[t] \in Settled
  PROVE  SettlesByHolder(t)
<1>1. OInv /\ 0 \in Lags
  BY TtlAssumption DEF LInv, Lags
<1>2. Complete(g, v, 0) /\ fabric[TaskId(g)] = "NONE"
  BY DEF PostResult, Submitted
<1>3. claims[t].token = g.token
  BY <1>1, <1>2, CompleteIsCalm DEF Settled
<1>4. QED
  BY <1>2, <1>3 DEF SettlesByHolder, TaskId

\* No other step of the tick settles a claimed task.
LEMMA RowsSettleByHolder ==
  ASSUME LInv, ReconcileRow, NEW t \in Tasks, state[t] = "CLAIMED", state'[t] \in Settled
  PROVE  SettlesByHolder(t)
<1>1. OInv /\ rows \subseteq issued /\ closing \subseteq Repairs /\ state \in [Tasks -> TaskStates]
  BY DEF LInv, OInv, SoundTasks, LoopTypes
<1>2. CASE \E g \in rows : SkipRow(g) \/ RenewRow(g) \/ FenceRow(g) \/ SetAsideRow(g)
  <2>1. PICK g \in rows : state' = state \/ state' = [state EXCEPT ![g.task] = "BLOCKED"]
    BY <1>2 DEF SkipRow, RenewRow, FenceRow, SetAsideRow, RenewClaim, orchestratorVars
  <2>2. state'[t] \in {"CLAIMED", "BLOCKED"}
    BY <1>1, <2>1
  <2>3. QED
    BY <2>2 DEF Settled
<1>3. CASE \E r \in closing : CloseParent(r) \/ CloseParentThrows(r)
  <2>1. state'[t] = "CLAIMED"
    BY <1>1, <1>3, ResolveIsCalm DEF CloseParent, CloseParentThrows, orchestratorVars
  <2>2. QED
    BY <2>1 DEF Settled
<1>4. CASE SweepAfterRows
  <2>1. state' = state \/ state' = Swept(Expired(claims, waited))
    BY <1>4 DEF SweepAfterRows, RecoverExpired, orchestratorVars
  <2>2. CASE state' = state
    BY <2>2 DEF Settled
  <2>3. CASE state' = Swept(Expired(claims, waited))
    <3>1. SettlesNothing
      BY <1>1, <2>3, SweepSettlesNothing
    <3>2. QED
      BY <3>1 DEF SettlesNothing
  <2>4. QED
    BY <2>1, <2>2, <2>3
<1>5. QED
  BY <1>2, <1>3, <1>4, RowSettlesByHolder DEF ReconcileRow

LEMMA ClaimedSettlesByHolder ==
  ASSUME LInv, [LoopNext]_loopVars, NEW t \in Tasks, state[t] = "CLAIMED", state'[t] \in Settled
  PROVE  SettlesByHolder(t)
<1>1. OInv /\ state \in [Tasks -> TaskStates]
  BY DEF LInv, OInv, SoundTasks
<1>2. ~SettlesNothing
  BY DEF SettlesNothing
<1>3. CASE ReconcileRow
  BY <1>3, RowsSettleByHolder
<1>4. CASE \E g \in issued, v \in Verification : PostResult(g, v)
  BY <1>4, ResultSettlesByHolder
<1>5. ~UNCHANGED state
  BY DEF Settled
<1>6. CASE RestartRuntime
  BY <1>6 DEF RestartRuntime, RecoveredState, LInv, SnapshotSettled, Settled
<1>7. CASE \E u \in Tasks, o \in Owners, lag \in Lags : Dispatch(u, o, lag)
  <2>1. PICK u \in Tasks, o \in Owners, lag \in Lags : Dispatch(u, o, lag)
    BY <1>7
  <2>2. /\ state' = [Swept(Expired(claims, lag)) EXCEPT ![u] = "CLAIMED"]
        /\ Swept(Expired(claims, lag)) \in [Tasks -> TaskStates]
    BY <1>1, <2>1, SweptType DEF Dispatch
  <2>3. \A w \in Tasks : state'[w] = Swept(Expired(claims, lag))[w] \/ state'[w] = "CLAIMED"
    BY <2>2
  <2>4. SettlesNothing
    BY <1>1, <2>3, SweepSettlesNothing
  <2>5. QED
    BY <1>2, <2>4
<1>8. CASE RecoverExpired(0)
  BY <1>1, <1>2, <1>8, SweepSettlesNothing DEF RecoverExpired
<1>9. CASE \/ (\E u \in Roots : Ingest(u))
           \/ (\E r \in Repairs : ResolveByRepair(r)) \/ (\E u \in Tasks : ResolveByEvidence(u))
           \/ \E g \in plan : EnqueueFails(g)
  <2>1. state'[t] \in {"CLAIMED", "PLANNED", "READY"}
    BY <1>1, <1>9, ResolveIsCalm DEF Ingest, EnqueueFails
  <2>2. QED
    BY <2>1 DEF Settled
<1>10. QED
  BY <1>3, <1>4, <1>5, <1>6, <1>7, <1>8, <1>9, LoopNextCases, QuietNextIsQuiet
     DEF ActiveNext, SaveRuntime, TimePasses, orchestratorVars

----------------------------------------------------------------------------
(* The theorems. *)

LEMMA LoopInductive == LoopSpec => []LInv
<1>1. LInv /\ [LoopNext]_loopVars => LInv'
  BY LoopNextInv
<1>2. QED
  BY <1>1, LoopInitInv, PTL DEF LoopSpec

\* The variables keep their types and the graph and the claim map agree, though submissions
\* fail, rows are late and handlers run between the awaits of a tick.
THEOREM LoopInvariantHolds == LoopSpec => []LoopInvariant
<1>1. LInv => LoopInvariant
  BY DEF LInv, OInv, IInv, SoundMaps, SoundDisk, SoundTasks, LoopTypes, LoopInvariant, LoopTypeOK,
         OrchestratorTypeOK, AuthorityTypeOK
<1>2. QED
  BY <1>1, LoopInductive, PTL

\* A promotion that is remembered, in memory or in the snapshot, is of a task accepted there.
THEOREM PromotedWorkWasAccepted == LoopSpec => []PromotedWorkIsAccepted
<1>1. LInv => PromotedWorkIsAccepted
  BY DEF LInv
<1>2. QED
  BY <1>1, LoopInductive, PTL

\* A claimed task settles on the word of the worker that holds its claim, and what the fabric
\* calls a failure is accepted only where no check could fail.
THEOREM OnlyTheHolderSettles == LoopSpec => HolderSettles
<1>1. ASSUME LInv, [LoopNext]_loopVars
      PROVE  [\A t \in Tasks :
                state[t] = "CLAIMED" /\ state'[t] \in {"ACCEPTED", "FAILED"}
                  => SettlesByHolder(t)]_loopVars
  BY <1>1, ClaimedSettlesByHolder DEF Settled
<1>2. QED
  BY <1>1, LoopInductive, PTL DEF LoopSpec, HolderSettles

\* Only a restart from an older snapshot reopens settled work.
THEOREM SettledWorkIsKept == LoopSpec => SettledWorkStays
<1>1. ASSUME LInv, [LoopNext]_loopVars
      PROVE  [\A t \in Tasks : state[t] \in Settled => state'[t] = state[t] \/ RestartRuntime]_loopVars
  BY <1>1, LoopNextIsSound DEF KeepsSettled
<1>2. QED
  BY <1>1, LoopInductive, PTL DEF LoopSpec, SettledWorkStays

\* What the orchestrator promises, the loop keeps: no two claims share a scope, stale tokens
\* are powerless, dependencies come first and repairs stay within their budget.
THEOREM LoopKeepsThePromises ==
  LoopSpec => [](ExclusiveScopes /\ StaleTokensPowerless /\ DependenciesFirst /\ RepairBudgetKept)
<1>1. LInv => ExclusiveScopes /\ StaleTokensPowerless /\ DependenciesFirst
  BY IInvRefusesStaleTokens
     DEF LInv, OInv, IInv, SoundMaps, SoundTasks, ExclusiveScopes, DependenciesFirst
<1>2. LInv => RepairBudgetKept
  BY BudgetOfOInv DEF LInv
<1>3. QED
  BY <1>1, <1>2, LoopInductive, PTL

\* The loop implements the abstract lease too, though it fences and releases on its own.
THEOREM LoopImplementsLease == LoopSpec => ImplementsFencedLease
<1>1. ASSUME LInv, [LoopNext]_loopVars
      PROVE  [Lease!LeaseNext]_(Lease!leaseVars)
  <2>1. OInv /\ OInv' /\ (LeaseStep \/ UNCHANGED authorityVars)
    BY <1>1, LoopNextIsSound, SoundStepKeeps DEF LInv
  <2>2. CASE LeaseStep
    BY <2>1, <2>2, LeaseStepRefines DEF OInv
  <2>3. CASE UNCHANGED authorityVars
    BY <2>3 DEF authorityVars, Lease!leaseVars, HeldGrants
  <2>4. QED
    BY <2>1, <2>2, <2>3
<1>2. LoopInit => Lease!LeaseInit
  BY NoGrantsAtFirst DEF LoopInit, OrchestratorInit
<1>3. QED
  BY <1>1, <1>2, LoopInductive, PTL DEF LoopSpec, ImplementsFencedLease, Lease!LeaseSpec

=============================================================================
