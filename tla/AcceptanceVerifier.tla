------------------------- MODULE AcceptanceVerifier -------------------------
(***************************************************************************)
(* src/verification/verifier.js: the verdict on the evidence of a task.    *)
(* The outcome of a check is absent, passed, undecided (present with no    *)
(* boolean ok), or a failure class.                                        *)
(***************************************************************************)
EXTENDS FiniteSets

CONSTANTS
  Checks,     \* check names
  Producers,  \* identities of producers and verifiers
  Nobody      \* the identity that was not given

ASSUME NobodyAssumption == Nobody \notin Producers

VARIABLES
  acceptance,   \* the acceptance contract of the task
  evidence,     \* what the worker reported
  verification  \* the answer, NotVerified before

verifierVars == <<acceptance, evidence, verification>>

HighRiskClasses == {"SECURITY_FAILURE", "POLICY_FAILURE", "EXTERNAL_STATE_UNCERTAIN"}

FailureClasses ==
  HighRiskClasses \cup {"TEST_FAILURE", "BUILD_FAILURE", "INFRASTRUCTURE_FAILURE", "UNCLASSIFIED"}

Outcomes == {"ABSENT", "PASSED", "UNDECIDED"} \cup FailureClasses

Acceptance == [requiredChecks: SUBSET Checks, requireIndependentVerifier: BOOLEAN]

Evidence == [checks: [Checks -> Outcomes],
             producerId: Producers \cup {Nobody}, verifierId: Producers \cup {Nobody}]

Verdicts == {"ACCEPT", "REPAIR", "REJECT", "ESCALATE"}

NotVerified == [verdict |-> "NONE", missing |-> {}, failed |-> {}]

----------------------------------------------------------------------------
Missing(a, e) == {c \in a.requiredChecks : e.checks[c] = "ABSENT"}

\* Only an explicit failure is a failure.
Failed(a, e) == {c \in a.requiredChecks : e.checks[c] \in FailureClasses}

HighRisk(a, e) == \E c \in Failed(a, e) : e.checks[c] \in HighRiskClasses

LacksIndependenceByNameOnly(a, e) ==
  a.requireIndependentVerifier /\ e.producerId = e.verifierId

LacksIndependence(a, e) ==
  a.requireIndependentVerifier
    /\ (e.producerId = Nobody \/ e.verifierId = Nobody \/ e.producerId = e.verifierId)

\* The order of the returns of verify.
Verdict(a, e) ==
  IF LacksIndependence(a, e) THEN "REJECT"
  ELSE IF HighRisk(a, e) THEN "ESCALATE"
  ELSE IF Missing(a, e) # {} THEN "REJECT"
  ELSE IF Failed(a, e) # {} THEN "REPAIR"
  ELSE "ACCEPT"

----------------------------------------------------------------------------
(* Properties. *)

\* Nothing is accepted while a required check is missing or failed, or while the contract
\* asks for an independent verifier and the two identities are not known to differ.
AcceptanceIsEarned ==
  verification.verdict = "ACCEPT" =>
    /\ \A c \in acceptance.requiredChecks :
         evidence.checks[c] # "ABSENT" /\ evidence.checks[c] \notin FailureClasses
    /\ acceptance.requireIndependentVerifier =>
         /\ {evidence.producerId, evidence.verifierId} \subseteq Producers
         /\ evidence.producerId # evidence.verifierId

\* A security, policy or external-state failure of a required check is never handed to
\* automatic repair and never accepted, whatever else is missing or failed with it.
HighRiskIsNeverRepaired ==
  \A c \in acceptance.requiredChecks :
    evidence.checks[c] \in HighRiskClasses => verification.verdict \notin {"ACCEPT", "REPAIR"}
=============================================================================
