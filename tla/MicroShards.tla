----------------------------- MODULE MicroShards -----------------------------
(***************************************************************************)
(* src/patch: one parent task split into shards, the patch session that    *)
(* collects their bundles, the task that verifies the composition, and the *)
(* bisection of a composition that failed.                                 *)
(*                                                                         *)
(* The coordinator learns of results only from the rows of one             *)
(* reconcileFabric.  Reconciliation and the coordinator's four passes over *)
(* the rows run without an await; an exception in any of them ends the     *)
(* tick, and the rows are gone.  Claims, verdicts and the choice between   *)
(* repair and escalation are those of CodingLoop: here a claimed task is   *)
(* reported with any outcome.                                              *)
(***************************************************************************)
EXTENDS Integers, FiniteSets, Sequences

CONSTANTS
  ShardCount,  \* shards of the plan
  Unchecked,   \* the contracts have no required checks: a failed execution is accepted
  MayOverlap,  \* the scopes of the bundles may conflict
  MayRefuse,   \* a bundle may be malformed, of another base or parent, or a second one
  Repairable,  \* bound: the shards of which a failure is repaired
  MaxTroubles, \* bound: claims of shards and compositions that end without acceptance
  MayRestart   \* the process is restarted

ASSUME ShardCountAssumption == ShardCount \in Nat /\ ShardCount >= 2
ASSUME SwitchAssumption == {Unchecked, MayOverlap, MayRefuse, MayRestart} \subseteq BOOLEAN
ASSUME BoundAssumption == Repairable \subseteq 1..ShardCount /\ MaxTroubles \in Nat

Shards == 1..ShardCount
Parent == [kind |-> "parent", n |-> 0]
Shard(i) == [kind |-> "shard", n |-> i]
ShardRepair(i) == [kind |-> "shard repair", n |-> i]
Composition == [kind |-> "composition", n |-> 0]
CompositionRepair == [kind |-> "composition repair", n |-> 0]
Probe == [kind |-> "probe", n |-> 0]
ShardTasks == {Shard(i) : i \in Shards}
Repairs == {ShardRepair(i) : i \in Repairable} \cup {CompositionRepair}
Tasks == ShardTasks \cup Repairs \cup {Parent, Composition, Probe}

Repaired == {Shard(i) : i \in Repairable} \cup {Composition}
RepairFor(t) == IF t = Composition THEN CompositionRepair ELSE ShardRepair(t.n)
Target(r) == IF r = CompositionRepair THEN Composition ELSE Shard(r.n)

VARIABLES
  state,      \* the tasks in the graph; NONE: not yet ingested
  needs,      \* the shards on which a shard waits for a hot file or symbol
  proof,      \* accepted tasks whose evidence holds a bundle or a commit
  session,    \* the patch session: its state and the shards whose bundles it has
  at,         \* where the tick is
  rows,       \* what reconcileFabric found
  bisection,  \* the search for the shards to blame
  lost,       \* something went past the coordinator: a tick threw, an HTTP handler took a
              \* result or released a shard under repair, or the process restarted
  troubles,   \* claims that ended without acceptance
  trace,      \* the lifecycle events the tracker of a shard has; without a tracker, none
  files       \* the two snapshot files, written one after the other

graphVars == <<state, needs, proof>>
microVars == <<graphVars, session, at, rows, bisection, lost, troubles, files, trace>>

States == {"NONE", "READY", "CLAIMED", "BLOCKED", "ACCEPTED", "FAILED"}
SessionStates == {"NONE", "COLLECTING", "READY_TO_COMPOSE", "COMPOSED", "ACCEPTED", "FAILED"}
Actions == {"ACCEPT", "RETRY_REPAIR", "ESCALATE", "TERMINATE"}

NoSession == [state |-> "NONE", bundles |-> {}]
NoBisection == [stage |-> "NONE", failing |-> {}, parts |-> 2, chunk |-> 1,
                answer |-> "NONE", found |-> [S \in SUBSET Shards |-> "NONE"]]
Graph == [state |-> state, needs |-> needs, proof |-> proof]
NoFiles == [kept |-> FALSE]

----------------------------------------------------------------------------
(* ShardLifecycleTracker: the stages a shard goes through in order, and the end. *)

Order == <<"admitted", "queued", "claimed", "context-ready", "execution-started",
           "first-output", "mutation-emitted", "verify-queued", "verify-started",
           "verify-complete", "compose-queued", "compose-started", "compose-complete">>
Terminal == {"accepted", "rejected", "cancelled"}

Rank(event) == CHOOSE n \in DOMAIN Order : Order[n] = event
StagesOf(events) == {n \in DOMAIN Order : \E m \in DOMAIN events : events[m] = Order[n]}
Ends(events) == {m \in DOMAIN events : events[m] \in Terminal}
Latest(events, S) == events[CHOOSE m \in S : \A k \in S : k <= m]

\* What record flags about an event, the earlier ones given.
Flags(earlier, event) ==
  LET ranked == DOMAIN earlier \ Ends(earlier)
      Raised(flag, condition) == IF condition THEN {flag} ELSE {}
  IN  IF event \in Terminal
      THEN Raised("DUPLICATE_TERMINAL", Ends(earlier) # {})
      ELSE Raised("IMPOSSIBLE_TRANSITION",
                  ranked # {} /\ Rank(Latest(earlier, ranked)) > Rank(event))
             \cup Raised("MISSING_PREREQUISITE", ~(1..Rank(event) - 1) \subseteq StagesOf(earlier))

FlagsOf(events) == UNION {Flags(SubSeq(events, 1, n - 1), events[n]) : n \in DOMAIN events}

Status(events) ==
  IF Ends(events) = {} THEN "in-flight" ELSE Latest(events, Ends(events))

\* A tracker for the identity of each shard.
NewTraces == [i \in Shards |-> <<"admitted", "queued">>]
NoTraces == [i \in Shards |-> <<>>]

\* The coordinator records for the shards that have a tracker.
Traced(shards, events) ==
  [i \in Shards |-> IF i \in shards /\ trace[i] # <<>> THEN trace[i] \o events ELSE trace[i]]

Verified == <<"mutation-emitted", "verify-complete", "accepted">>

MicroInit ==
  /\ state = [t \in Tasks |-> IF t = Parent THEN "READY" ELSE "NONE"]
  /\ needs = [i \in Shards |-> {}]
  /\ proof = {}
  /\ session = NoSession
  /\ at = "IDLE" /\ rows = {}
  /\ bisection = NoBisection
  /\ lost = FALSE /\ troubles = 0
  /\ trace = NoTraces
  /\ files = NoFiles

----------------------------------------------------------------------------
(* materialize, and what dispatch and the claims do to a task. *)

\* A shard that touches what is hot waits for an earlier shard of this plan that holds it;
\* what is hot depends on what was touched lately.  Bound: only the second shard may have to.
HotDependencies == {d \in [Shards -> SUBSET Shards] :
                      \A i \in Shards : d[i] \subseteq (IF i = 2 THEN {1} ELSE {})}

Materialize ==
  /\ at = "IDLE" /\ state[Parent] = "READY" /\ session.state = "NONE"
  /\ needs' \in HotDependencies
  /\ session' = [state |-> "COLLECTING", bundles |-> {}]
  /\ state' = [t \in Tasks |-> IF t = Parent THEN "BLOCKED"
                               ELSE IF t \in ShardTasks THEN "READY" ELSE state[t]]
  /\ trace' = NewTraces
  /\ UNCHANGED <<proof, at, rows, bisection, lost, troubles, files>>

\* A task is dispatched on its own once its parent is known to be sharded.
Executable(t) ==
  /\ state[t] = "READY" /\ t # Parent
  /\ t \in ShardTasks => \A i \in needs[t.n] : state[Shard(i)] = "ACCEPTED"

Becomes(t, s) ==
  /\ at = "IDLE"
  /\ state' = [state EXCEPT ![t] = s]
  /\ UNCHANGED <<needs, proof, session, at, rows, bisection, files, trace>>

Dispatch(t) == Executable(t) /\ Becomes(t, "CLAIMED") /\ UNCHANGED <<lost, troubles>>

InTrouble(t) ==
  IF t \in Repairs \cup {Probe} THEN UNCHANGED troubles
  ELSE troubles < MaxTroubles /\ troubles' = troubles + 1

\* The claim expires, or the fabric's row outlives it, or the result is set aside with a row
\* that no pass of the coordinator looks for.
TakeBack(t) ==
  /\ state[t] = "CLAIMED"
  /\ \/ Becomes(t, "READY") /\ UNCHANGED troubles
     \/ Becomes(t, "BLOCKED") /\ InTrouble(t)
  /\ UNCHANGED lost

Live(t) == state[t] \in {"READY", "CLAIMED", "BLOCKED"}

\* resolve-verification-gate with evidence.  A parent whose shards are out is left alone; a
\* shard released while its repair is under way is at work twice (bound: once).
ReleaseByOperator(t) ==
  /\ state[t] = "BLOCKED" /\ t # Parent
  /\ Becomes(t, "READY") /\ UNCHANGED troubles
  /\ IF t \in Repaired /\ Live(RepairFor(t))
     THEN ~lost /\ lost' = TRUE
     ELSE UNCHANGED lost

\* POST /results: no row tells the coordinator.  Bound: once.
PostResult(t) ==
  /\ state[t] = "CLAIMED" /\ ~lost
  /\ Becomes(t, "ACCEPTED")
  /\ lost' = TRUE /\ UNCHANGED troubles

----------------------------------------------------------------------------
(* reconcileFabric, one result after the other. *)

\* Bound: the older of the two files is from the start of the last tick.
Written == [kept |-> TRUE, graph |-> Graph, session |-> session]

StartTick ==
  /\ at = "IDLE"
  /\ at' = "ROWS"
  /\ \/ files' = NoFiles
     \/ MayRestart /\ ~lost /\ session.state # "NONE" /\ files' = Written
  /\ UNCHANGED <<graphVars, session, rows, bisection, lost, troubles, trace>>

Row(t, action) == [task |-> t, action |-> action]

\* The rows that one of the coordinator's passes looks for.
Heeded(t, action) ==
  \/ t = Probe \/ action \in {"ACCEPT", "TERMINATE"}
  \/ t = Composition /\ action = "ESCALATE"

Reported(t, action) ==
  /\ at = "ROWS" /\ state[t] = "CLAIMED"
  /\ rows' = IF Heeded(t, action) THEN rows \cup {Row(t, action)} ELSE rows
  /\ UNCHANGED <<needs, session, at, bisection, lost, files, trace>>

\* A failed execution carries neither bundle nor commit; without checks it is accepted all
\* the same (bound: not after a loss).  The evidence of an accepted repair becomes that of the
\* task it closes.
ReportAccepted(t) ==
  /\ Reported(t, "ACCEPT") /\ UNCHANGED troubles
  /\ t \in Repairs => state[Target(t)] = "BLOCKED"
  /\ LET closed == {t} \cup {Target(t) : r \in {t} \cap Repairs} IN
       /\ state' = [u \in Tasks |-> IF u \in closed THEN "ACCEPTED" ELSE state[u]]
       /\ \/ proof' = proof \cup closed
          \/ Unchecked /\ ~lost /\ proof' = proof \ closed

\* Bound: one repair of a task; that of a repair or of a probe closes nothing here.
ReportRepair(t) ==
  /\ Reported(t, "RETRY_REPAIR") /\ InTrouble(t)
  /\ IF t \in Repaired
     THEN /\ state[RepairFor(t)] = "NONE"
          /\ state' = [state EXCEPT ![t] = "BLOCKED", ![RepairFor(t)] = "READY"]
     ELSE state' = [state EXCEPT ![t] = "BLOCKED"]
  /\ UNCHANGED proof

\* Escalation, reconciliation or a refused merge, where it matters to the coordinator.
ReportSetAside(t) ==
  /\ t \in {Composition, Probe}
  /\ Reported(t, "ESCALATE")
  /\ InTrouble(t)
  /\ state' = [state EXCEPT ![t] = "BLOCKED"]
  /\ UNCHANGED proof

ReportTerminated(t) ==
  /\ Reported(t, "TERMINATE") /\ InTrouble(t)
  /\ state' = [state EXCEPT ![t] = "FAILED"]
  /\ UNCHANGED proof

Throw == at' = "IDLE" /\ rows' = {} /\ lost' = TRUE /\ UNCHANGED troubles

\* The gate of the repaired task is open already: resolveVerificationGate throws.
GateThrows(t) ==
  /\ at = "ROWS" /\ state[t] = "CLAIMED" /\ t \in Repairs
  /\ state[Target(t)] # "BLOCKED"
  /\ state' = [state EXCEPT ![t] = "ACCEPTED"]
  /\ Throw
  /\ UNCHANGED <<needs, proof, session, bisection, files, trace>>

----------------------------------------------------------------------------
(* The coordinator's reconcile: failed shards, accepted shards, composition, its verdict. *)

Found(action, tasks) == {r \in rows : r.action = action /\ r.task \in tasks}

\* A probe that came back answers the bisection that waits for it.
Answered ==
  IF bisection.answer = "AWAITED" /\ \E r \in rows : r.task = Probe
  THEN [bisection EXCEPT !.answer = IF Row(Probe, "ACCEPT") \in rows THEN "PASS" ELSE "FAIL"]
  ELSE bisection

Doomed == Found("TERMINATE", ShardTasks \cup {ShardRepair(i) : i \in Repairable})

\* PatchFabric: a session that is not accepted may fail at any time; a composition that
\* conflicts fails it too.
FailedSession == [session EXCEPT !.state = IF @ = "ACCEPTED" THEN @ ELSE "FAILED"]
ComposedSession(conflict) == [session EXCEPT !.state = IF conflict THEN "FAILED" ELSE "COMPOSED"]

\* A shard that is out for good, or whose repair is, fails session and parent; once the
\* session has failed, the others are passed over.
PassFailures ==
  /\ at = "ROWS"
  /\ bisection' = Answered
  /\ IF Doomed = {} \/ session.state \in {"NONE", "FAILED", "ACCEPTED"}
     THEN UNCHANGED <<state, session, trace>>
     ELSE \E r \in Doomed :
            /\ trace' = Traced({r.task.n}, <<"rejected">>)
            /\ session' = FailedSession
            /\ state' = [state EXCEPT ![Shard(r.task.n)] = "FAILED",
                                      ![Parent] = IF @ = "ACCEPTED" THEN @ ELSE "FAILED"]
  /\ at' = "SUBMIT"
  /\ UNCHANGED <<needs, proof, rows, lost, troubles, files>>

CandidatesWithoutRepairs ==
  {i \in Shards : Row(Shard(i), "ACCEPT") \in rows /\ state[Shard(i)] = "ACCEPTED"}

\* Rows that were accepted, and the tasks that accepted repairs have closed.
Candidates ==
  LET reported == {r.task : r \in Found("ACCEPT", Tasks)}
  IN  {i \in Shards :
         /\ {Shard(i), ShardRepair(i)} \cap reported # {}
         /\ state[Shard(i)] = "ACCEPTED"}

Unbundled == {i \in Candidates : Shard(i) \notin proof}

SubmittedUnchecked(bundles) ==
  [state |-> IF session.state = "COLLECTING" THEN "READY_TO_COMPOSE" ELSE session.state,
   bundles |-> session.bundles \cup bundles]

Submitted(bundles) ==
  LET all == session.bundles \cup bundles
  IN  [state |-> IF all = Shards /\ session.state = "COLLECTING" THEN "READY_TO_COMPOSE"
                 ELSE session.state,
       bundles |-> all]

SubmittingToAny(tasks) == tasks \ session.bundles

\* Those that are not passed over: their events are recorded before the bundle is submitted.
Submitting(tasks) == IF session.state = "FAILED" THEN {} ELSE tasks \ session.bundles

PassAccepted ==
  /\ at = "SUBMIT"
  /\ Unbundled = {}
  /\ Candidates # {} => session.state # "NONE"
  /\ session' = IF session.state = "FAILED" THEN session ELSE Submitted(Candidates)
  /\ trace' = Traced(Submitting(Candidates), Verified)
  /\ at' = IF session'.state = "READY_TO_COMPOSE" THEN "COMPOSE" ELSE "CONCLUDE"
  /\ UNCHANGED <<graphVars, rows, bisection, lost, troubles, files>>

\* The bundles that may be refused when they are submitted.
Refusable ==
  IF MayRefuse /\ session.state \in {"COLLECTING", "READY_TO_COMPOSE"}
  THEN Submitting(Candidates \ Unbundled) ELSE {}

\* An accepted shard without a bundle or without a session, or a bundle that is refused:
\* those before it were submitted.
PassAcceptedThrows ==
  /\ at = "SUBMIT"
  /\ \E refused \in {{}} \cup {{i} : i \in Refusable} :
       /\ refused # {} \/ Unbundled # {} \/ (Candidates # {} /\ session.state = "NONE")
       /\ \E before \in SUBSET (Candidates \ (Unbundled \cup refused)) :
            /\ session' = IF session.state \in {"NONE", "FAILED"} THEN session ELSE Submitted(before)
            /\ trace' = IF session.state = "NONE" THEN trace
                        ELSE Traced(Submitting(before) \cup refused, Verified)
  /\ Throw
  /\ UNCHANGED <<graphVars, bisection, files>>

Composable ==
  /\ session.state = "READY_TO_COMPOSE"
  /\ state[Parent] # "FAILED" /\ state[Composition] = "NONE"

PassComposition ==
  /\ at = "COMPOSE"
  /\ IF Composable
     THEN /\ session' = ComposedSession(FALSE)
          /\ state' = [state EXCEPT ![Composition] = "READY"]
     ELSE UNCHANGED <<session, state>>
  /\ at' = "CONCLUDE"
  /\ UNCHANGED <<needs, proof, rows, bisection, lost, troubles, files, trace>>

\* Files, symbols, resources, contracts or contents of two bundles conflict.
PassCompositionThrows ==
  /\ at = "COMPOSE"
  /\ Composable /\ MayOverlap
  /\ session' = ComposedSession(TRUE)
  /\ Throw
  /\ UNCHANGED <<graphVars, bisection, files, trace>>

Accepted == Row(Composition, "ACCEPT") \in rows /\ state[Composition] = "ACCEPTED"
Refused == Found("TERMINATE", {Composition}) \cup Found("ESCALATE", {Composition}) # {}

Concluded(sessionState, parentState) ==
  /\ session' = IF session.state = "COMPOSED" THEN [session EXCEPT !.state = sessionState]
                ELSE session
  /\ state' = [state EXCEPT ![Parent] = parentState]
  /\ at' = "IDLE" /\ rows' = {}
  /\ UNCHANGED <<needs, proof, lost, troubles, files, trace>>

AcceptParent ==
  /\ at = "CONCLUDE" /\ Accepted
  /\ Composition \in proof
  /\ Concluded("ACCEPTED", "ACCEPTED")
  /\ UNCHANGED bisection

AcceptParentThrows ==
  /\ at = "CONCLUDE" /\ Accepted
  /\ Composition \notin proof
  /\ Throw
  /\ UNCHANGED <<graphVars, session, bisection, files, trace>>

----------------------------------------------------------------------------
(* CompositionBisector: the whole batch again, then chunks, then what is left without a *)
(* chunk, until no smaller batch fails.                                                 *)

Place(F, i) == Cardinality({k \in F : k <= i})

\* The j-th of the parts, of the members of failing in their order.
Chunk(b, j) ==
  LET size == (Cardinality(b.failing) + b.parts - 1) \div b.parts
  IN  {i \in b.failing : (Place(b.failing, i) - 1) \div size = j - 1}

Batch(b) ==
  CASE b.stage = "RECHECK" -> Shards
    [] b.stage = "CHUNKS" -> Chunk(b, b.chunk)
    [] b.stage = "COMPLEMENTS" -> b.failing \ Chunk(b, b.chunk)
    [] OTHER -> {}

FewerParts(b) == IF b.parts > 2 THEN b.parts - 1 ELSE 2

\* A smaller batch that fails is searched in turn; a single shard is the end.
Narrowed(b, parts) ==
  LET batch == Batch(b) IN
  [b EXCEPT !.failing = batch, !.parts = parts, !.chunk = 1,
            !.stage = IF Cardinality(batch) = 1 THEN "DONE" ELSE "CHUNKS"]

ExhaustedWithoutComplements(b) ==
  [b EXCEPT !.chunk = 1, !.parts = @ + 1,
            !.stage = IF b.parts >= Cardinality(b.failing) THEN "DONE" ELSE "CHUNKS"]

\* Every chunk was tried: their complements follow, and then smaller chunks.
Exhausted(b) ==
  LET size == Cardinality(b.failing) IN
  IF b.stage = "CHUNKS" THEN [b EXCEPT !.stage = "COMPLEMENTS", !.chunk = 1]
  ELSE IF b.parts >= size THEN [b EXCEPT !.stage = "DONE"]
  ELSE [b EXCEPT !.stage = "CHUNKS", !.chunk = 1, !.parts = IF 2 * @ > size THEN size ELSE 2 * @]

Advanced(b) ==
  LET passed == b.answer = "PASS" IN
  CASE b.stage = "RECHECK" ->
         IF passed THEN [b EXCEPT !.stage = "DONE", !.failing = {}]
         ELSE [b EXCEPT !.stage = "CHUNKS", !.failing = Shards]
    [] b.stage = "CHUNKS" /\ ~passed -> Narrowed(b, 2)
    [] b.stage = "COMPLEMENTS" /\ ~passed -> Narrowed(b, FewerParts(b))
    [] OTHER -> IF Chunk(b, b.chunk + 1) # {} THEN [b EXCEPT !.chunk = @ + 1] ELSE Exhausted(b)

\* The answer to a probe arrives between two ticks; the next probe is a new task.
ContinueBisection ==
  /\ at = "IDLE" /\ bisection.answer \in {"PASS", "FAIL"}
  /\ LET told == [bisection EXCEPT !.found[Batch(bisection)] = bisection.answer]
         next == Advanced(told)
     IN  IF next.stage = "DONE"
         THEN /\ bisection' = [next EXCEPT !.answer = "NONE"]
              /\ UNCHANGED state
         ELSE /\ bisection' = [next EXCEPT !.answer = "AWAITED"]
              /\ state' = [state EXCEPT ![Probe] = "READY"]
  /\ UNCHANGED <<needs, proof, session, at, rows, lost, troubles, files, trace>>

\* A composition that is refused blocks the parent and, once, starts the bisection.
RefuseParent ==
  /\ at = "CONCLUDE" /\ Refused
  /\ IF session.state = "COMPOSED"
     THEN /\ bisection' = [NoBisection EXCEPT !.stage = "RECHECK", !.answer = "AWAITED"]
          /\ state' = [state EXCEPT ![Parent] = "BLOCKED", ![Probe] = "READY"]
          /\ session' = [session EXCEPT !.state = "FAILED"]
     ELSE /\ state' = [state EXCEPT ![Parent] = "BLOCKED"]
          /\ UNCHANGED <<bisection, session>>
  /\ at' = "IDLE" /\ rows' = {}
  /\ UNCHANGED <<needs, proof, lost, troubles, files, trace>>

EndTick ==
  /\ at = "CONCLUDE" /\ ~Accepted /\ ~Refused
  /\ at' = "IDLE" /\ rows' = {}
  /\ UNCHANGED <<graphVars, session, bisection, lost, troubles, files, trace>>

----------------------------------------------------------------------------
(* persist and restart (main.js). *)

\* The runtime's file is written and then, after an await, that of the patch sessions, once a
\* second, twice as often as the loop ticks: either may be the newer one on the disk.
Save ==
  /\ at = "IDLE" /\ files.kept /\ ~lost
  /\ \/ files' = [files EXCEPT !.graph = Graph]
     \/ files' = [files EXCEPT !.session = session]
  /\ UNCHANGED <<graphVars, session, at, rows, bisection, lost, troubles, trace>>

\* Every task can be restarted; the bisection and the trackers are in no file.
Restart ==
  /\ files.kept /\ ~lost
  /\ state' = [t \in Tasks |-> IF files.graph.state[t] = "CLAIMED" THEN "READY"
                               ELSE files.graph.state[t]]
  /\ needs' = files.graph.needs /\ proof' = files.graph.proof
  /\ session' = files.session
  /\ at' = "IDLE" /\ rows' = {}
  /\ bisection' = NoBisection
  /\ lost' = TRUE
  /\ trace' = NoTraces
  /\ files' = NoFiles
  /\ UNCHANGED troubles

Coordinate ==
  \/ PassFailures \/ PassAccepted \/ PassAcceptedThrows
  \/ PassComposition \/ PassCompositionThrows
  \/ AcceptParent \/ AcceptParentThrows \/ RefuseParent \/ EndTick
  \/ ContinueBisection

MicroNext ==
  \/ Materialize
  \/ StartTick \/ Coordinate
  \/ \E t \in Tasks :
       \/ Dispatch(t) \/ TakeBack(t) \/ ReleaseByOperator(t) \/ PostResult(t)
       \/ ReportAccepted(t) \/ ReportRepair(t) \/ ReportSetAside(t) \/ ReportTerminated(t)
       \/ GateThrows(t)
  \/ Save \/ Restart

MicroSpec == MicroInit /\ [][MicroNext]_microVars

----------------------------------------------------------------------------
(* Properties. *)

\* The variables keep their types.
MicroTypeOK ==
  /\ state \in [Tasks -> States] /\ needs \in HotDependencies /\ proof \subseteq Tasks
  /\ session \in [state: SessionStates, bundles: SUBSET Shards]
  /\ at \in {"IDLE", "ROWS", "SUBMIT", "COMPOSE", "CONCLUDE"}
  /\ rows \subseteq [task: Tasks, action: Actions]
  /\ bisection.failing \subseteq Shards /\ bisection.parts \in 2..ShardCount
  /\ bisection.stage \in {"NONE", "RECHECK", "CHUNKS", "COMPLEMENTS", "DONE"}
  /\ lost \in BOOLEAN /\ troubles \in 0..MaxTroubles /\ files.kept \in BOOLEAN

\* Work that can go on, or that waits for an operator: a set-aside task, not the parent.
Pending(t) == Executable(t) \/ state[t] \in {"CLAIMED", "BLOCKED"}

Hung ==
  /\ at = "IDLE" /\ state[Parent] = "BLOCKED"
  /\ \A t \in Tasks \ {Parent} : ~Pending(t)
  /\ bisection.answer \notin {"PASS", "FAIL"} /\ bisection.stage # "DONE"

\* As long as no row was lost, the parent of shards hangs only when a repair closed the
\* composition in its place.
HangsOnlyAfterLoss == Hung => lost \/ state[CompositionRepair] = "ACCEPTED"

\* AUTONOMOUS_CODING_RUNBOOK.md, acceptance rule: a shard is not parent acceptance.  A parent
\* is accepted on the commit of a composition, made of a bundle of every shard.
AcceptedParentIsComposed ==
  state[Parent] = "ACCEPTED" =>
    /\ {Composition} \cup ShardTasks \subseteq proof \/ lost
    /\ state[Composition] = "ACCEPTED"

\* The types, and what acceptance of a parent rests on.
MicroInvariant == MicroTypeOK /\ AcceptedParentIsComposed

\* As long as nothing went past the coordinator, a trace tells what became of the shard: it
\* ends once, no stage goes back, and it ends in acceptance with the bundle of the shard in
\* the session and in rejection with the parent failed.
TraceTellsOutcome ==
  ~lost => \A i \in Shards :
    /\ FlagsOf(trace[i]) \subseteq {"MISSING_PREREQUISITE"}
    /\ (Status(trace[i]) = "accepted") = (i \in session.bundles)
    /\ Status(trace[i]) = "rejected" => state[Shard(i)] = "FAILED" /\ state[Parent] = "FAILED"

\* Of what the probes found last, the blamed shards fail together and pass when any one of
\* them is left out.
BlameIsMinimal ==
  bisection.stage = "DONE" /\ bisection.failing # {} =>
    /\ bisection.found[bisection.failing] = "FAIL"
    /\ \A i \in bisection.failing :
         Cardinality(bisection.failing) > 1 => bisection.found[bisection.failing \ {i}] = "PASS"
=============================================================================
