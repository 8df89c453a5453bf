---------------------------- MODULE LearnedPolicy ----------------------------
(***************************************************************************)
(* src/training, for one task class: every completed task is appended to   *)
(* the outcome log, each tick of the coding loop replays the log and moves *)
(* the candidate policy of the class on, up to the canary, and an operator *)
(* takes it from there to production or back.                              *)
(*                                                                         *)
(* Rates are compared as fractions of the records counted.  Registry and   *)
(* baseline live in memory; the log is a file.                             *)
(***************************************************************************)
EXTENDS Integers, FiniteSets, Sequences

CONSTANTS
  MinShadow,     \* minRecordsForShadow
  MinBenchmark,  \* minRecordsForBenchmark
  Tolerance,     \* maxSafetyRegression, in hundredths
  Metrics,       \* what a canary is watched for
  Approvers, Nobody,
  MaxRecords     \* bound: the length of the log

ASSUME LearningAssumption ==
  /\ {MinShadow, MinBenchmark} \subseteq Nat \ {0} /\ {Tolerance, MaxRecords} \subseteq Nat
  /\ Nobody \notin Approvers

VARIABLES
  log,       \* the outcome log
  torn,      \* its last line is incomplete: nothing can be read from it
  versions,  \* the versions of the registry of the class
  baseline   \* shadowBaselines: how long the log was when a version entered SHADOW

learningVars == <<log, torn, versions, baseline>>

Stages == {"OFFLINE_REPLAY", "SHADOW", "BENCHMARK", "CANARY", "PROMOTION_GATE", "PRODUCTION",
           "RETIRED", "ROLLED_BACK"}
InFlight == {"OFFLINE_REPLAY", "SHADOW", "BENCHMARK"}
NoScores == [count |-> 0, successes |-> 0, hallucinations |-> 0]
NotGated == [verdict |-> "NONE", incumbent |-> NoScores, candidate |-> NoScores]
Candidate == [stage |-> "OFFLINE_REPLAY", gate |-> NotGated, worse |-> {}, approvedBy |-> Nobody]
NoBaseline == [version |-> 0, length |-> 0]

----------------------------------------------------------------------------
(* Recording: trajectoryFromCompletion, OutcomeRecorder.record. *)

\* What the functional verifier is recorded to have said.  Its verdict was ACCEPT, REPAIR,
\* REJECT or ESCALATE.
RecordedOutcome(verdict) == IF verdict = "PASS" THEN "pass" ELSE "fail"

\* An accepted task has the verdict ACCEPT; a rejected one was terminated, or refused by the
\* economic gate.  A result that is posted may name the model with an empty string.
Completed ==
  {[accepted |-> TRUE, outcome |-> RecordedOutcome("ACCEPT"), named |-> n] : n \in BOOLEAN}
    \cup {[accepted |-> FALSE, outcome |-> RecordedOutcome("REJECT"), named |-> n] : n \in BOOLEAN}

\* validateTrajectoryRecord: of what is required, only the model may be missing.
Valid(r) == r.named

\* What buildTrajectoryRecord makes of a completion; it refuses an invalid one and the recorder
\* swallows the error.
Built(r) == IF Valid(r) THEN <<[accepted |-> r.accepted, outcome |-> r.outcome]>> ELSE <<>>

Record ==
  /\ Len(log) < MaxRecords
  /\ \E r \in Completed : log' = log \o Built(r)
  /\ UNCHANGED <<torn, versions, baseline>>

----------------------------------------------------------------------------
(* The promotion gate. *)

Hallucinated(r) == r.accepted /\ r.outcome = "fail"

Scores(from, to) ==
  [count |-> to - from + 1,
   successes |-> Cardinality({i \in from..to : log[i].accepted}),
   hallucinations |-> Cardinality({i \in from..to : Hallucinated(log[i])})]

ImprovesOrTies(i, c) == c.successes * i.count >= i.successes * c.count

Improves(i, c) == c.successes * i.count > i.successes * c.count

Regresses(i, c) ==
  100 * (c.hallucinations * i.count - i.hallucinations * c.count) > Tolerance * c.count * i.count

Gate(i, c) == [verdict |-> IF Improves(i, c) /\ ~ Regresses(i, c) THEN "PROMOTE" ELSE "REJECT",
               incumbent |-> i, candidate |-> c]

----------------------------------------------------------------------------
(* PolicyTrainingLoop.sync, one cycle. *)

FirstInFlight(vs) ==
  LET open == {v \in DOMAIN vs : vs[v].stage \in InFlight}
  IN  IF open = {} THEN 0 ELSE CHOOSE v \in open : \A w \in open : v <= w

\* The candidate to work on, registered when there is none and the log is long enough.
WithCandidate ==
  IF FirstInFlight(versions) = 0 /\ Len(log) >= MinShadow THEN Append(versions, Candidate) ELSE versions

\* A version that starts shadowing takes the log so far for its baseline, and so does one
\* that finds the baseline of another.
Split(v, starts) ==
  IF starts \/ baseline.version # v THEN [version |-> v, length |-> Len(log)] ELSE baseline

ShadowsOrRefused(vs, v) == vs[v].stage \in {"SHADOW", "BENCHMARK"}

Shadows(vs, v) == vs[v].stage = "SHADOW"

Synced ==
  LET vs == WithCandidate
      v == FirstInFlight(vs)
      starts == vs[v].stage = "OFFLINE_REPLAY" /\ Len(log) >= MinShadow
      split == Split(v, starts)
      gated == Len(log) - split.length >= MinBenchmark
      gate == Gate(Scores(1, split.length), Scores(split.length + 1, Len(log)))
  IN  IF v = 0 \/ ~ (starts \/ Shadows(vs, v)) THEN versions' = vs /\ UNCHANGED baseline
      ELSE /\ baseline' = split
           /\ versions' = IF ~ gated THEN [vs EXCEPT ![v].stage = "SHADOW"]
                          ELSE [vs EXCEPT ![v].gate = gate,
                                  ![v].stage = IF gate.verdict = "PROMOTE" THEN "CANARY" ELSE "BENCHMARK"]

\* A log with an incomplete line makes the sync throw; the tick ends before it dispatches.
Sync == ~ torn /\ Synced /\ UNCHANGED <<log, torn>>

----------------------------------------------------------------------------
(* What the loop leaves to somebody else. *)

StageBecomes(v, s) == versions' = [versions EXCEPT ![v].stage = s]

RecordCanaryResult(v) ==
  /\ versions[v].stage = "CANARY"
  /\ \E worse \in SUBSET Metrics :
       versions' = [versions EXCEPT ![v].worse = worse,
                      ![v].stage = IF worse = {} THEN "PROMOTION_GATE" ELSE "ROLLED_BACK"]
  /\ UNCHANGED <<log, torn, baseline>>

Retired(vs) ==
  [w \in DOMAIN vs |-> IF vs[w].stage = "PRODUCTION" THEN [vs[w] EXCEPT !.stage = "RETIRED"] ELSE vs[w]]

Approved(v, who) == [Retired(versions) EXCEPT ![v].stage = "PRODUCTION", ![v].approvedBy = who]

FinalizePromotion(v, who) ==
  /\ versions[v].stage = "PROMOTION_GATE" /\ who # Nobody
  /\ versions' = Approved(v, who)
  /\ UNCHANGED <<log, torn, baseline>>

\* The version before it stays retired: the class is back at its deterministic fallback.
RollbackProduction ==
  /\ \E v \in DOMAIN versions : versions[v].stage = "PRODUCTION" /\ StageBecomes(v, "ROLLED_BACK")
  /\ UNCHANGED <<log, torn, baseline>>

\* A crash can cut the line that is being appended.
Restart ==
  /\ torn' \in {torn, TRUE}
  /\ versions' = <<>> /\ baseline' = NoBaseline
  /\ UNCHANGED log

LearningInit ==
  /\ log = <<>> /\ torn = FALSE
  /\ versions = <<>> /\ baseline = NoBaseline

LearningNext ==
  \/ Record \/ Sync \/ RollbackProduction \/ Restart
  \/ \E v \in DOMAIN versions :
       RecordCanaryResult(v) \/ \E who \in Approvers \cup {Nobody} : FinalizePromotion(v, who)

LearningSpec == LearningInit /\ [][LearningNext]_learningVars

----------------------------------------------------------------------------
(* Properties. *)

\* The type of the variables.  The version that shadows is the only one in flight and the
\* baseline is its own.
PolicyTypeOK ==
  /\ torn \in BOOLEAN
  /\ \A v \in DOMAIN versions : versions[v].stage \in Stages /\ versions[v].worse \subseteq Metrics
  /\ baseline.length \in 0..Len(log)
  /\ \A v \in DOMAIN versions : versions[v].stage = "SHADOW" =>
       baseline.version = v /\ \A w \in DOMAIN versions : versions[w].stage \in InFlight => w = v

\* What has or had live authority beat records of its class with as many records as the
\* thresholds ask for, did not worsen a metric in its canary and was approved by somebody;
\* one version at a time has it.
AuthorityIsEarned ==
  \A v \in DOMAIN versions : versions[v].stage \in {"PRODUCTION", "RETIRED"} =>
    /\ LET i == versions[v].gate.incumbent  c == versions[v].gate.candidate
       IN  /\ i.count >= MinShadow /\ c.count >= MinBenchmark
           /\ c.successes * i.count > i.successes * c.count
    /\ versions[v].worse = {} /\ versions[v].approvedBy # Nobody
    /\ \A w \in DOMAIN versions :
         versions[v].stage = "PRODUCTION" /\ versions[w].stage = "PRODUCTION" => v = w

\* The types, one version in flight with its own baseline, and earned authority.
LearningInvariant == PolicyTypeOK /\ AuthorityIsEarned

\* A step lets what was refused, retired or rolled back stay so; behind a refused version, and
\* with a torn log, it registers no other.  A restart forgets everything.
KeepsDecisions ==
  \/ versions' = <<>>
  \/ /\ \A v \in DOMAIN versions :
          versions[v].stage \in {"BENCHMARK", "RETIRED", "ROLLED_BACK"}
            => versions'[v].stage = versions[v].stage
     /\ torn \/ (\E v \in DOMAIN versions : versions[v].stage = "BENCHMARK")
          => Len(versions') = Len(versions)

\* Decisions are final, whatever is recorded later: a refused version blocks its class, and
\* nothing comes back from retirement or a rollback.
DecisionsAreFinal == [][KeepsDecisions]_learningVars
=============================================================================
