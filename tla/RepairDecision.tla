--------------------------- MODULE RepairDecision ---------------------------
(***************************************************************************)
(* src/verification/repair-controller.js: what decide does to the repair   *)
(* history of one task.  A failure stands for the sorted list of failed    *)
(* checks, the fingerprint by which decide tells failures apart.  A task   *)
(* without an entry in the history map has the history Fresh.              *)
(***************************************************************************)
EXTENDS Naturals

CONSTANTS
  Failures,         \* fingerprints of repairable failures
  NoFailure,        \* lastFingerprint null
  MaxAttempts,      \* 3 by default
  BreakerThreshold  \* 3 by default

ASSUME FailuresAssumption == NoFailure \notin Failures
ASSUME BudgetAssumption == MaxAttempts \in Nat /\ BreakerThreshold \in Nat

History == [attempts: Nat, sameFailure: Nat,
            lastFailure: Failures \cup {NoFailure}, breakerOpen: BOOLEAN]

Fresh == [attempts |-> 0, sameFailure |-> 0, lastFailure |-> NoFailure, breakerOpen |-> FALSE]

\* What the verifier reports: only a repairable verdict carries a failure.
Verification ==
  [verdict: {"ACCEPT", "ESCALATE", "REJECT"}, failure: {NoFailure}]
    \cup [verdict: {"REPAIR"}, failure: Failures]

SameFailure(h, f) == IF h.lastFailure = f THEN h.sameFailure + 1 ELSE 1

CountedWithLaterBreaker(h, f) ==
  [attempts |-> h.attempts + 1,
   sameFailure |-> SameFailure(h, f),
   lastFailure |-> f,
   breakerOpen |-> h.attempts + 1 > MaxAttempts \/ SameFailure(h, f) >= BreakerThreshold]

CountedForgettingTheLast(h, f) ==
  [attempts |-> h.attempts + 1,
   sameFailure |-> 1,
   lastFailure |-> f,
   breakerOpen |-> h.attempts + 1 >= MaxAttempts \/ 1 >= BreakerThreshold]

\* A repairable failure is counted, and opens the breaker when the budget is spent.
Counted(h, f) ==
  [attempts |-> h.attempts + 1,
   sameFailure |-> SameFailure(h, f),
   lastFailure |-> f,
   breakerOpen |-> h.attempts + 1 >= MaxAttempts \/ SameFailure(h, f) >= BreakerThreshold]

\* An acceptance forgets the last failure and keeps the attempts.
Accepted(h) == [h EXCEPT !.sameFailure = 0, !.lastFailure = NoFailure]

\* The history decide leaves.  An open breaker is looked at before the verdict.
HistoryAfter(h, v) ==
  CASE h.breakerOpen -> h
    [] ~h.breakerOpen /\ v.verdict = "ACCEPT" -> Accepted(h)
    [] ~h.breakerOpen /\ v.verdict = "REPAIR" -> Counted(h, v.failure)
    [] OTHER -> h

\* The action decide answers with.
ActionFor(h, v) ==
  CASE h.breakerOpen -> "TERMINATE"
    [] ~h.breakerOpen /\ v.verdict = "ACCEPT" -> "ACCEPT"
    [] ~h.breakerOpen /\ v.verdict = "ESCALATE" -> "ESCALATE"
    [] ~h.breakerOpen /\ v.verdict = "REPAIR" /\ ~Counted(h, v.failure).breakerOpen -> "RETRY_REPAIR"
    [] OTHER -> "TERMINATE"
=============================================================================
