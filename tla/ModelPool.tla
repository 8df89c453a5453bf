------------------------------ MODULE ModelPool ------------------------------
(***************************************************************************)
(* src/models: the local models the fabric advertises, the governor of     *)
(* their slots and circuits, the router over their evaluation history, and *)
(* executeModel, which tries one model of the route after the other.       *)
(*                                                                         *)
(* executeModel awaits the list of workers and then one answer at a time;  *)
(* between two awaits it runs alone.  It reads the clock once, before the  *)
(* first await.                                                            *)
(***************************************************************************)
EXTENDS Integers, SequencesExt

CONSTANTS
  Models,            \* model ids; all local, of one tier, of one task class
  Callers,           \* requests to executeModel that may be open at a time
  FailureThreshold,  \* failures in a row that open the circuit of a model
  Cooldown,          \* for how long it stays open
  MinRuns,           \* evaluations before a model can be judged by them
  MaxSlots,          \* bound: the largest maxConcurrency advertised
  MaxCalls,          \* bound: calls of executeModel
  MaxEvents,         \* bound: probes, snapshots and restarts
  MaxTime            \* bound: the clock

ASSUME PoolAssumption ==
  /\ {FailureThreshold, Cooldown, MinRuns, MaxSlots} \subseteq Nat \ {0}
  /\ {MaxCalls, MaxEvents, MaxTime} \subseteq Nat
  /\ IsFiniteSet(Models) /\ IsFiniteSet(Callers)

VARIABLES
  governor,  \* the runtime state of every model; all were discovered before
  evals,     \* runs and accepted runs of every model
  calls,     \* the call of every caller
  asked, events, now,  \* calls made, events counted against the bound, the clock
  saved      \* the last snapshot of governor and evals

poolVars == <<governor, evals, calls, asked, events, now, saved>>

Event == events < MaxEvents /\ events' = events + 1

NoCall == [stage |-> "IDLE", at |-> 0, route |-> <<>>, next |-> 1, long |-> {},
           failed |-> {}, refused |-> {}]

----------------------------------------------------------------------------
(* The governor. *)

Healthy(s) == [s EXCEPT !.failures = 0, !.openUntil = 0]

OpenedAnyway(s, t) == [s EXCEPT !.failures = Min({@ + 1, FailureThreshold}), !.openUntil = t + Cooldown]

\* The counter is kept up to the threshold, beyond which nothing reads it.
Failed(s, t) ==
  LET n == Min({s.failures + 1, FailureThreshold})
  IN  [s EXCEPT !.failures = n,
                !.openUntil = IF n = FailureThreshold THEN t + Cooldown ELSE @]

Admissible(s, t) == s.openUntil <= t /\ s.inFlight < s.limit

HeldAfterSuccess(s, answered) == IF answered THEN s ELSE [s EXCEPT !.inFlight = @ - 1]

Released(s, answered) == [s EXCEPT !.inFlight = @ - 1]

----------------------------------------------------------------------------
(* Routing. *)

ExcludedByEvals(e) == e.runs >= MinRuns /\ e.accepted * 5 < e.runs * 3

Candidates(listed) == {m \in listed : ~ ExcludedByEvals(evals[m])}

NoBetter(a, b) ==  \* the acceptance rate of a, -1 without runs, is not below that of b
  \/ b.runs = 0
  \/ a.runs > 0 /\ a.accepted * b.runs >= b.accepted * a.runs

\* Candidates that can serve the request, best acceptance first; equals in any order.
Routes(fits) ==
  {s \in SetToSeqs(fits) : \A i, j \in DOMAIN s : i < j => NoBetter(evals[s[i]], evals[s[j]])}

----------------------------------------------------------------------------
(* executeModel.  Walk: from c.next on, refuse what is not admissible, fail *)
(* what the payload is too long for, and ask the first model left.          *)

WithRun(e, accepted) == [runs |-> e.runs + 1, accepted |-> e.accepted + accepted]

EvalsOfFailed(c) ==
  [m \in Models |-> IF m \in c.failed THEN WithRun(evals[m], 0) ELSE evals[m]]

FirstOnly(c) == {i \in DOMAIN c.route : i >= c.next /\ i = 1}

StillToTry(c) == {i \in DOMAIN c.route : i >= c.next}

Walk(r, c, g) ==
  LET rest == StillToTry(c)
      fit == {i \in rest : Admissible(g[c.route[i]], c.at) /\ c.route[i] \notin c.long}
      stop == IF fit = {} THEN Len(c.route) + 1 ELSE Min(fit)
      passed == {c.route[i] : i \in {j \in rest : j < stop}}
      tooLong == {m \in passed : Admissible(g[m], c.at)}
      tried == [c EXCEPT !.next = stop + 1, !.long = @ \ passed, !.failed = @ \cup tooLong,
                         !.refused = @ \cup (passed \ tooLong)]
      over == IF fit = {} THEN [tried EXCEPT !.stage = "FAILED", !.at = 0]
                          ELSE [tried EXCEPT !.stage = "WAITING"]
  IN  /\ governor' = [m \in Models |->
                        IF m \in tooLong THEN Failed(g[m], c.at)
                        ELSE IF fit # {} /\ m = c.route[stop] THEN [g[m] EXCEPT !.inFlight = @ + 1]
                        ELSE g[m]]
      /\ calls' = [calls EXCEPT ![r] = over]
      /\ evals' = IF fit = {} THEN EvalsOfFailed(over) ELSE evals

Asked(c) == c.route[c.next - 1]

Ask(r) ==
  /\ calls[r].stage \in {"IDLE", "FAILED"} /\ asked < MaxCalls
  /\ asked' = asked + 1
  /\ calls' = [calls EXCEPT ![r] = [NoCall EXCEPT !.stage = "ASKED", !.at = now]]
  /\ UNCHANGED <<governor, evals, events, now, saved>>

\* The workers are known: the registry is reconciled with the models they advertise (up), a
\* model that vanished is disabled, and the request is routed and walked.
Route(r) ==
  /\ calls[r].stage = "ASKED"
  /\ \E up \in SUBSET Models :
       \E fits \in SUBSET Candidates(up) : \E long \in SUBSET fits, route \in Routes(fits) :
         Walk(r, [calls[r] EXCEPT !.route = route, !.long = long], governor)
  /\ UNCHANGED <<asked, events, now, saved>>

\* The answer of the model that was asked.
Succeed(r) ==
  /\ calls[r].stage = "WAITING"
  /\ LET m == Asked(calls[r])
     IN  /\ governor' = [governor EXCEPT ![m] = Released(Healthy(@), TRUE)]
         /\ evals' = [evals EXCEPT ![m] = WithRun(@, 1)]
  /\ calls' = [calls EXCEPT ![r] = NoCall]
  /\ UNCHANGED <<asked, events, now, saved>>

Fail(r) ==
  /\ calls[r].stage = "WAITING"
  /\ LET m == Asked(calls[r])
         g == [governor EXCEPT ![m] = Released(Failed(@, calls[r].at), FALSE)]
     IN  Walk(r, [calls[r] EXCEPT !.failed = @ \cup {m}], g)
  /\ UNCHANGED <<asked, events, now, saved>>

\* The workers cannot be listed or one advertises a malformed model: executeModel throws.
NotRouted(r) ==
  /\ calls[r].stage = "ASKED"
  /\ calls' = [calls EXCEPT ![r] = NoCall]
  /\ UNCHANGED <<governor, evals, asked, events, now, saved>>

\* warmupModels probes the models that were enabled when it began, with the clock of then.
HealthChecked(m, healthy, t) ==
  /\ Event /\ t <= now
  /\ governor' = [governor EXCEPT ![m] = IF healthy THEN Healthy(@) ELSE Failed(@, t)]
  /\ UNCHANGED <<evals, calls, asked, now, saved>>

Save ==
  /\ Event
  /\ saved' = [governor |-> [m \in Models |-> [governor[m] EXCEPT !.inFlight = 0]], evals |-> evals]
  /\ UNCHANGED <<governor, evals, calls, asked, now>>

Restored(s) == [s EXCEPT !.openUntil = IF @ > now THEN @ ELSE 0]

\* The registry is not in the snapshot; the next call reconciles it.
RestartModels ==
  /\ Event
  /\ governor' = [m \in Models |-> Restored(saved.governor[m])]
  /\ evals' = saved.evals
  /\ calls' = [r \in Callers |-> NoCall]
  /\ UNCHANGED <<asked, now, saved>>

Tick ==
  /\ now < MaxTime /\ now' = now + 1
  /\ UNCHANGED <<governor, evals, calls, asked, events, saved>>

PoolInit ==
  /\ \E limit \in 1..MaxSlots :
       governor = [m \in Models |-> [limit |-> limit, inFlight |-> 0, failures |-> 0, openUntil |-> 0]]
  /\ evals = [m \in Models |-> [runs |-> 0, accepted |-> 0]]
  /\ calls = [r \in Callers |-> NoCall]
  /\ asked = 0 /\ events = 0 /\ now = 0
  /\ saved = [governor |-> governor, evals |-> evals]

PoolNext ==
  \/ \E r \in Callers : Ask(r) \/ Route(r) \/ NotRouted(r) \/ Succeed(r) \/ Fail(r)
  \/ \E m \in Models, healthy \in BOOLEAN, t \in 0..MaxTime : HealthChecked(m, healthy, t)
  \/ Save \/ RestartModels \/ Tick

PoolSpec == PoolInit /\ [][PoolNext]_poolVars

----------------------------------------------------------------------------
(* Properties. *)

\* The type of the variables; no model has more calls in flight than its slots.
PoolTypeOK ==
  /\ \A m \in Models : /\ governor[m].inFlight \in 0..governor[m].limit
                      /\ governor[m].failures \in 0..FailureThreshold
                      /\ governor[m].openUntil \in Nat
  /\ \A m \in Models : evals[m].accepted \in 0..evals[m].runs
  /\ \A r \in Callers : /\ calls[r].stage \in {"IDLE", "ASKED", "WAITING", "FAILED"}
                        /\ calls[r].at \in 0..now
                        /\ \A i \in DOMAIN calls[r].route : calls[r].route[i] \in Models

\* A slot is held exactly by a call that waits for the model, through answers, failures of
\* every kind, fallbacks and restarts: none leaks and none is given twice.
SlotsAreHeld ==
  \A m \in Models :
    governor[m].inFlight
      = Cardinality({r \in Callers : calls[r].stage = "WAITING" /\ Asked(calls[r]) = m})

\* The types and the slots: capacity is neither exceeded nor lost.
PoolInvariant == PoolTypeOK /\ SlotsAreHeld

\* A model is shut out only after FailureThreshold failures without a success or a healthy
\* probe between them, and never for longer than a cooldown from now.
OpenCircuitIsEarned ==
  \A m \in Models : governor[m].openUntil > 0 =>
    governor[m].failures = FailureThreshold /\ governor[m].openUntil <= now + Cooldown

\* executeModel gives up only when every model of its route failed in this call or could not
\* be admitted when its turn came.
FailureIsExhaustive ==
  \A r \in Callers : calls[r].stage = "FAILED" =>
    Range(calls[r].route) = calls[r].failed \cup calls[r].refused
=============================================================================
