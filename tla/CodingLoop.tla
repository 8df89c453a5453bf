----------------------------- MODULE CodingLoop -----------------------------
(***************************************************************************)
(* src/service/autonomous-coding-loop.js: the tick, with the parts of      *)
(* control-plane-runtime.js it drives (reconcileFabric, recoverExpired),   *)
(* the fabric client and its cached fleet answer, the promotion of pull    *)
(* requests, and the HTTP handlers, crashes and shutdowns (main.js) that   *)
(* come between two awaits.                                                *)
(*                                                                         *)
(* A tick gives way only where it awaits: for the fleet, for GitHub and    *)
(* the workers, for each enqueue.  What it does between two awaits is one  *)
(* or more steps during which nothing else moves (Free).  waited is the    *)
(* age of the clock value that the tick read when it started.              *)
(***************************************************************************)
EXTENDS Orchestrator

CONSTANTS
  MaxWait,     \* the longest a tick awaits: 5 s for the fleet, GitHub, each enqueue
  Unchecked,   \* roots whose contract has no required checks
  GitHubWorks, \* whether pull requests are ever accepted
  MaySave      \* bound: whether a snapshot is ever written

ASSUME MaxWaitAssumption == MaxWait \in Nat /\ MaxWait <= MaxLag
ASSUME UncheckedAssumption == Unchecked \subseteq Roots

VARIABLES
  fabric,    \* the fabric task of a claim, by claim id; external
  wire,      \* enqueue requests the loop gave up, which may still arrive
  at,        \* where the tick is
  waited,    \* the age of its clock value
  rows,      \* the fabric tasks it has yet to reconcile
  closing,   \* the repair it has just accepted and whose parent it will close
  plan,      \* the dispatches it has yet to enqueue
  paused,
  promoted,  \* the roots with a promotion in the idempotency journal
  savedLoop  \* the last two in the snapshot file

tickVars == <<at, waited, rows, closing, plan>>
loopVars == <<orchestratorVars, fabric, wire, tickVars, paused, promoted, savedLoop>>

Ids == 1..MaxClaims
FabricStates == {"NONE", "QUEUED", "LEASED", "SUCCEEDED", "FAILED", "RECONCILE"}
Ended == {"SUCCEEDED", "FAILED", "RECONCILE"}

\* taskId: the fabric task of a dispatch has the id of its claim.
TaskId(g) == g.token.claimId

\* Nothing runs between two awaits of the tick.
Free == at \notin {"ROWS", "DISPATCH"}

LoopInit ==
  /\ OrchestratorInit
  /\ fabric = [i \in Ids |-> "NONE"]
  /\ wire = {}
  /\ at = "IDLE" /\ waited = 0 /\ rows = {} /\ closing = {} /\ plan = {}
  /\ paused = FALSE /\ promoted = {}
  /\ savedLoop = [paused |-> FALSE, promoted |-> {}]

Outside == <<fabric, wire, paused, promoted, savedLoop>>

EndTickStillRunning ==
  at' = "STOPPED" /\ waited' = 0 /\ rows' = {} /\ closing' = {} /\ plan' = {}

\* finally running = false
EndTick == at' = "IDLE" /\ waited' = 0 /\ rows' = {} /\ closing' = {} /\ plan' = {}

----------------------------------------------------------------------------
(* The tick up to the fleet's answer. *)

StartTick ==
  /\ at = "IDLE" /\ ~paused
  /\ at' = "FLEET"
  /\ UNCHANGED <<orchestratorVars, Outside, waited, rows, closing, plan>>

Seen(g) == fabric[TaskId(g)]

\* getOrLoad: an answer of up to two seconds ago lacks what was enqueued since.  That it
\* lacks what the fabric did since is no different from a fabric that has yet to do it.
FleetAnswers ==
  /\ at = "FLEET"
  /\ \E recent \in SUBSET {g \in issued : Seen(g) = "QUEUED"} :
       rows' = {g \in issued : Seen(g) # "NONE"} \ recent
  /\ at' = "ROWS"
  /\ UNCHANGED <<orchestratorVars, Outside, waited, closing, plan>>

\* The fleet, or later the worker provider, refuses or times out: tick throws.
FleetFails ==
  /\ at \in {"FLEET", "PROMOTE"}
  /\ EndTick
  /\ UNCHANGED <<orchestratorVars, Outside>>

----------------------------------------------------------------------------
(* reconcileFabric: one row after the other, in the order of the answer. *)

AtRow(g) == at = "ROWS" /\ closing = {} /\ g \in rows

\* continue
NextRow(g) ==
  /\ rows' = rows \ {g}
  /\ UNCHANGED <<Outside, at, waited, closing, plan>>

AlwaysDelegated(g) == g \in issued

Delegated(g) == state[g.task] = "CLAIMED"
Current(g) == Validate(g.token, waited)

\* Nothing to do for the row: the task is not claimed, the result is too late, or the fabric
\* has queued the task, or leased it without a lease that is live.
SkipRow(g) ==
  /\ AtRow(g)
  /\ ~Delegated(g)
     \/ (Seen(g) \in Ended /\ ~Current(g))
     \/ (Seen(g) \in {"QUEUED", "LEASED"} /\ Current(g))
  /\ NextRow(g)
  /\ UNCHANGED orchestratorVars

RenewRow(g) ==
  /\ AtRow(g) /\ Delegated(g) /\ Current(g)
  /\ Seen(g) = "LEASED"
  /\ RenewClaim(g, waited)
  /\ NextRow(g)

\* The fabric has work whose claim is gone: whatever claim the task has now is fenced.
FenceRow(g) ==
  /\ AtRow(g) /\ Delegated(g) /\ ~Current(g)
  /\ Seen(g) \notin Ended
  /\ Fence(g.task)
  /\ state' = [state EXCEPT ![g.task] = "BLOCKED"]
  /\ NextRow(g)
  /\ UNCHANGED <<history, saved>>

SetAsideRow(g) ==
  /\ AtRow(g) /\ Delegated(g) /\ Current(g)
  /\ Seen(g) = "RECONCILE"
  /\ Release(g.token)
  /\ state' = [state EXCEPT ![g.task] = "BLOCKED"]
  /\ NextRow(g)
  /\ UNCHANGED <<history, saved>>

\* Bound: a task fails only while its repairs are among Tasks.
MayFail(t) == \E r \in Repairs : r.of = t

VerificationsOfAnything(g) == {v \in Verification : v.verdict = "REPAIR" => MayFail(g.task)}

\* What the verifier can say: the evidence of a failure fails every required check, and
\* without required checks there is nothing to fail.
VerificationsOf(g) ==
  CASE Seen(g) = "SUCCEEDED" -> VerificationsOfAnything(g)
    [] Seen(g) = "FAILED" /\ RootOf[g.task] \in Unchecked ->
         {v \in Verification : v.verdict = "ACCEPT"}
    [] OTHER -> {v \in Verification : v.verdict = "REPAIR"}

Reports(g, v) ==
  /\ AtRow(g) /\ Delegated(g) /\ Current(g)
  /\ Seen(g) \in {"SUCCEEDED", "FAILED"}
  /\ v \in VerificationsOf(g)

\* An accepted coding repair closes its parent before the next row is looked at.
CompleteRow(g, v) ==
  /\ Reports(g, v)
  /\ \/ /\ Accept(g, v, waited)
        /\ closing' = {g.task} \cap Repairs
     \/ /\ \/ RefuseMerge(g, v, waited) /\ Seen(g) = "SUCCEEDED"
           \/ CreateRepair(g, v, waited)
           \/ Escalate(g, v, waited)
           \/ Terminate(g, v, waited)
        /\ closing' = {}
  /\ rows' = rows \ {g}
  /\ UNCHANGED <<Outside, at, waited, plan>>

\* complete throws: the tick ends, and the next one finds the row again.
CompleteThrows(g, v) ==
  /\ Reports(g, v)
  /\ FailOnDuplicateRepair(g, v, waited)
  /\ EndTick
  /\ UNCHANGED <<Outside>>

CloseParent(r) ==
  /\ at = "ROWS" /\ r \in closing
  /\ ResolveByRepair(r)
  /\ closing' = {}
  /\ UNCHANGED <<Outside, at, waited, rows, plan>>

\* resolveVerificationGate throws when the parent is not blocked any more.
CloseParentThrows(r) ==
  /\ at = "ROWS" /\ r \in closing
  /\ state[r.of] # "BLOCKED"
  /\ EndTick
  /\ UNCHANGED <<orchestratorVars, Outside>>

SweepAfterRowsNever ==
  /\ at = "ROWS" /\ rows = {} /\ closing = {}
  /\ at' = "PROMOTE"
  /\ UNCHANGED <<orchestratorVars, Outside, waited, rows, closing, plan>>

\* The rows are done: recoverExpired follows without an await.
SweepAfterRows ==
  /\ at = "ROWS" /\ rows = {} /\ closing = {}
  /\ IF Expired(claims, waited) = {} THEN UNCHANGED orchestratorVars ELSE RecoverExpired(waited)
  /\ at' = "PROMOTE"
  /\ UNCHANGED <<Outside, waited, rows, closing, plan>>

ReconcileRow ==
  \/ \E g \in rows : SkipRow(g) \/ RenewRow(g) \/ FenceRow(g) \/ SetAsideRow(g)
  \/ \E g \in rows, v \in Verification : CompleteRow(g, v) \/ CompleteThrows(g, v)
  \/ \E r \in closing : CloseParent(r) \/ CloseParentThrows(r)
  \/ SweepAfterRows

----------------------------------------------------------------------------
(* PullRequestPromotion.sync, then the workers, then dispatch. *)

\* A repair is not promoted: its parent is, once accepted.
Unpromoted == {t \in Coding \ promoted : state[t] = "ACCEPTED"}

\* journal.once keeps the promotion when GitHub has answered.
Promote(t) ==
  /\ at = "PROMOTE" /\ GitHubWorks
  /\ t \in Unpromoted
  /\ promoted' = promoted \cup {t}
  /\ UNCHANGED <<orchestratorVars, fabric, wire, paused, savedLoop, tickVars>>

\* ensurePullRequest throws, and with it the tick.
PromotionThrows ==
  /\ at = "PROMOTE"
  /\ Unpromoted # {}
  /\ EndTick
  /\ UNCHANGED <<orchestratorVars, Outside>>

WorkersAnswer ==
  /\ at = "PROMOTE"
  /\ Unpromoted = {}
  /\ at' = "DISPATCH"
  /\ UNCHANGED <<orchestratorVars, Outside, waited, rows, closing, plan>>

\* One task of the plan; the next one follows without an await.
DispatchPlanned(t, o) ==
  /\ at = "DISPATCH"
  /\ IsCoding(t)
  /\ Dispatch(t, o, waited)
  /\ plan' = plan \cup (issued' \ issued)
  /\ UNCHANGED <<Outside, at, waited, rows, closing>>

\* Lanes, limits and claims that are taken end the plan: any number of tasks.
EndOfPlan ==
  /\ at = "DISPATCH"
  /\ at' = "SUBMIT"
  /\ UNCHANGED <<orchestratorVars, Outside, waited, rows, closing, plan>>

----------------------------------------------------------------------------
(* Enqueueing the plan, one await each. *)

Enqueue(g) ==
  /\ at = "SUBMIT" /\ g \in plan
  /\ fabric' = [fabric EXCEPT ![TaskId(g)] = "QUEUED"]
  /\ plan' = plan \ {g}
  /\ UNCHANGED <<orchestratorVars, wire, paused, promoted, savedLoop,
                 at, waited, rows, closing>>

EnqueueFailsKeepingClaim(g) ==
  /\ at = "SUBMIT" /\ g \in plan
  /\ state' = [state EXCEPT ![g.task] = "READY"]
  /\ wire' = wire \cup {g}
  /\ plan' = plan \ {g}
  /\ UNCHANGED <<authorityVars, history, saved, fabric, paused, promoted, savedLoop,
                 at, waited, rows, closing>>

\* The request or its answer is lost, or the answer takes more than 5 s.  release does
\* nothing for a claim that is gone; the state is set whatever it is.
EnqueueFails(g) ==
  /\ at = "SUBMIT" /\ g \in plan
  /\ IF Holds(g.token) THEN Release(g.token) ELSE UNCHANGED authorityVars
  /\ state' = [state EXCEPT ![g.task] = "READY"]
  /\ wire' = wire \cup {g}
  /\ plan' = plan \ {g}
  /\ UNCHANGED <<history, saved, fabric, paused, promoted, savedLoop,
                 at, waited, rows, closing>>

EndOfSubmission ==
  /\ at = "SUBMIT" /\ plan = {}
  /\ EndTick
  /\ UNCHANGED <<orchestratorVars, Outside>>

----------------------------------------------------------------------------
(* The fabric, external.  GET /fleet is all that is seen of it: what it does at other     *)
(* times commutes with the steps of the control plane and is left to that moment.         *)

FabricStep(i, from, to) ==
  /\ at = "FLEET"
  /\ fabric[i] = from
  /\ fabric' = [fabric EXCEPT ![i] = to]
  /\ UNCHANGED <<orchestratorVars, wire, tickVars, paused, promoted, savedLoop>>

FabricLeases(i) == FabricStep(i, "QUEUED", "LEASED")

\* A lease that lapses puts a restartable task back into the queue.
FabricRequeues(i) == FabricStep(i, "LEASED", "QUEUED")

FabricEnds(g) ==
  \/ FabricStep(TaskId(g), "LEASED", "SUCCEEDED")
  \/ FabricStep(TaskId(g), "LEASED", "RECONCILE")
  \/ MayFail(g.task) /\ FabricStep(TaskId(g), "LEASED", "FAILED")

\* The fabric knows a task by its id and takes a late request for what it is.
RequestArrives(g) ==
  /\ at = "FLEET"
  /\ g \in wire
  /\ fabric' = [fabric EXCEPT ![TaskId(g)] = "QUEUED"]
  /\ wire' = wire \ {g}
  /\ UNCHANGED <<orchestratorVars, tickVars, paused, promoted, savedLoop>>

----------------------------------------------------------------------------
(* HTTP handlers, with a clock value of their own. *)

LoopUnchanged == UNCHANGED <<fabric, wire, tickVars, paused, promoted, savedLoop>>

PostTask(t) == Free /\ Ingest(t) /\ LoopUnchanged

\* POST /dispatch hands the claim to the caller.
PostDispatch(t, o) == Free /\ ~paused /\ Dispatch(t, o, 0) /\ LoopUnchanged

Submitted(g) == fabric[TaskId(g)] # "NONE" \/ g \in wire \cup plan

\* POST /results, by a caller that dispatched the task itself.
PostResult(g, v) ==
  /\ Free /\ ~Submitted(g)
  /\ v.verdict = "REPAIR" => MayFail(g.task)
  /\ Complete(g, v, 0)
  /\ LoopUnchanged

SetPaused(value) ==
  /\ Free /\ paused # value
  /\ paused' = value
  /\ UNCHANGED <<orchestratorVars, fabric, wire, tickVars, promoted, savedLoop>>

OperatorCommand ==
  \/ \E value \in BOOLEAN : SetPaused(value)
  \/ Free /\ RecoverExpired(0) /\ LoopUnchanged
  \/ Free /\ LoopUnchanged /\ \E r \in Repairs : ResolveByRepair(r)
  \/ Free /\ LoopUnchanged /\ \E t \in Tasks : ResolveByEvidence(t)

----------------------------------------------------------------------------
(* Snapshots, crashes and time. *)

\* A restart asks which claims are in the file and not how long they had.
FreshClaims == \A t \in DOMAIN claims : claims[t].expiresIn = Ttl

SaveState ==
  /\ Free /\ MaySave /\ FreshClaims
  /\ SaveRuntime
  /\ savedLoop' = [paused |-> paused, promoted |-> promoted]
  /\ UNCHANGED <<fabric, wire, tickVars, paused, promoted>>

CrashKeepingPromotions ==
  /\ MaySave
  /\ RestartRuntime
  /\ EndTick
  /\ paused' = savedLoop.paused
  /\ UNCHANGED <<fabric, wire, promoted, savedLoop>>

\* The tick is lost, requests on the wire are not.
Crash ==
  /\ MaySave
  /\ RestartRuntime
  /\ EndTick
  /\ paused' = savedLoop.paused
  /\ promoted' = savedLoop.promoted
  /\ UNCHANGED <<fabric, wire, savedLoop>>

\* SIGTERM: the runtime is paused, then saved, and the tick goes on until the exit, which
\* is a Crash.
Shutdown ==
  /\ Free /\ MaySave /\ ~paused /\ FreshClaims
  /\ paused' = TRUE
  /\ SaveRuntime
  /\ savedLoop' = [paused |-> TRUE, promoted |-> promoted]
  /\ UNCHANGED <<fabric, wire, tickVars, promoted>>

LoopTime ==
  /\ Free
  /\ TimePasses
  /\ at # "IDLE" => waited < MaxWait
  /\ waited' = IF at = "IDLE" THEN 0 ELSE waited + 1
  /\ UNCHANGED <<fabric, wire, at, rows, closing, plan, paused, promoted, savedLoop>>

LoopNext ==
  \/ StartTick \/ FleetAnswers \/ FleetFails
  \/ ReconcileRow
  \/ \E t \in Coding : Promote(t)
  \/ PromotionThrows \/ WorkersAnswer
  \/ \E t \in Tasks, o \in Owners : DispatchPlanned(t, o)
  \/ EndOfPlan
  \/ \E g \in plan : Enqueue(g) \/ EnqueueFails(g)
  \/ EndOfSubmission
  \/ \E i \in Ids : FabricLeases(i) \/ FabricRequeues(i)
  \/ \E g \in issued : FabricEnds(g) \/ RequestArrives(g)
  \/ \E t \in Roots : PostTask(t)
  \/ \E t \in Tasks, o \in Owners : PostDispatch(t, o)
  \/ \E g \in issued, v \in Verification : PostResult(g, v)
  \/ OperatorCommand
  \/ SaveState \/ Crash \/ Shutdown \/ LoopTime

LoopSpec == LoopInit /\ [][LoopNext]_loopVars

\* Time passes, the interval starts ticks, what is synchronous ends, every await ends, and the fleet,
\* GitHub (when it works) and the scheduler do not refuse for ever.
FairLoopSpec ==
  /\ LoopSpec
  /\ WF_loopVars(StartTick) /\ SF_loopVars(FleetAnswers)
  /\ WF_loopVars(ReconcileRow)
  /\ SF_loopVars(\E t \in Coding : Promote(t)) /\ SF_loopVars(WorkersAnswer)
  /\ \A t \in Tasks : SF_loopVars(\E o \in Owners : DispatchPlanned(t, o))
  /\ WF_loopVars(EndOfPlan)
  /\ WF_loopVars(\E g \in plan : Enqueue(g) \/ EnqueueFails(g))
  /\ WF_loopVars(EndOfSubmission)
  /\ SF_loopVars(LoopTime)

----------------------------------------------------------------------------
(* Properties. *)

\* The variables keep their types.
LoopTypeOK ==
  /\ OrchestratorTypeOK
  /\ fabric \in [Ids -> FabricStates]
  /\ wire \subseteq issued /\ rows \subseteq issued /\ plan \subseteq issued
  /\ at \in {"IDLE", "FLEET", "ROWS", "PROMOTE", "DISPATCH", "SUBMIT"} /\ waited \in 0..MaxWait
  /\ closing \subseteq Repairs /\ paused \in BOOLEAN /\ promoted \subseteq Coding
  /\ savedLoop \in [paused: BOOLEAN, promoted: SUBSET Coding]

\* The variables keep their types and the graph and the claim map agree, as in Orchestrator,
\* though submissions fail, rows are late and handlers run between the awaits of a tick.
LoopInvariant == LoopTypeOK /\ ClaimedIffHeld

\* A claimed task is settled by a result of its present holder: one of a caller the fabric knows
\* nothing of, or the end of the fabric task of that claim.
SettlesByHolder(t) ==
  LET seen == fabric[claims[t].token.claimId] IN
  \/ seen \in {"NONE", "SUCCEEDED"}
  \/ seen = "FAILED" /\ (state'[t] = "FAILED" \/ RootOf[t] \in Unchecked)

\* A task settles only on the word of the worker that holds its claim, whoever reports late,
\* twice or from before a crash; and what the fabric calls a failure is not accepted, unless
\* the contract has no required checks that the failure could fail.
HolderSettles ==
  [][\A t \in Tasks :
       state[t] = "CLAIMED" /\ state'[t] \in {"ACCEPTED", "FAILED"} => SettlesByHolder(t)]_loopVars

Settled == {"ACCEPTED", "FAILED"}

\* A failed submission, a late row or a gate never reopens settled work.
SettledWorkStays ==
  [][\A t \in Tasks : state[t] \in Settled => state'[t] = state[t] \/ RestartRuntime]_loopVars

\* A promotion is never remembered without the acceptance it was made for, nor would it be
\* after a crash.
PromotedWorkIsAccepted ==
  /\ \A t \in promoted : state[t] = "ACCEPTED"
  /\ \A t \in savedLoop.promoted : saved.state[t] = "ACCEPTED"

Dispatchable(t) ==
  /\ IsCoding(t) /\ Executable(state, t) /\ Claimable(claims, t)
  /\ ~paused /\ minted < MaxClaims

\* FAILURE_RECOVERY.md, operating principle: the loss of a worker, a request or GitHub does not
\* stop the system.  Coding work that can be dispatched is, while nobody pauses the runtime.
ReadyWorkIsDispatched ==
  \A t \in Tasks : []<>~Dispatchable(t)

\* Work that the fabric holds and does not renew comes back, while the runtime is not paused:
\* the tick is the only one to look.
SilentWorkComesBack ==
  \A t \in Tasks :
    \/ []<>(state[t] # "CLAIMED") \/ []<>paused
    \/ []<><<\E g \in rows : g.task = t /\ RenewRow(g)>>_loopVars
=============================================================================
