-------------------------- MODULE VerificationProofs --------------------------
(***************************************************************************)
(* What a merge rests on.  The properties of MergeAcceptance for all       *)
(* checks, contracts, reports, submissions and surfaces, and any number of *)
(* commits and restarts; and those of EvidenceLedger: the evidence graph   *)
(* can be walked, contradicted evidence is not used, what was said stays   *)
(* said and merges are proven, for every set of shards, bundles, reports   *)
(* and commits and any number of sessions and crashes.                     *)
(***************************************************************************)
EXTENDS MergeAcceptance, EvidenceLedger, TLAPS

----------------------------------------------------------------------------
(* MergeAcceptance: the inductive invariant. *)

\* A certificate of a process signed so far says what its evidence says.
SignedCertificatesAreTrue ==
  \A m \in Merges :
    LET e == economics[m] IN
    e.certificate.key > 0 =>
      /\ e.certificate.key <= SigningKey
      /\ e.certificate.costly <=> e.facts = "COSTLY"

\* What a repair is checked with never changes: nothing is issued for it.
RepairsHaveNoEconomics == economics["REPAIR"] = NoEconomics

MInv ==
  /\ MergeTypeOK
  /\ SignedCertificatesAreTrue
  /\ RepairsHaveNoEconomics
  /\ AcceptanceIsEarned
  /\ HighRiskIsNeverRepaired
  /\ CostlyMergeIsCertified
  /\ RepairsAreCheap

LEMMA SigningKeyIsBounded ==
  ASSUME restarts \in 0..MaxRestarts
  PROVE  SigningKey \in 1..(1 + MaxRestarts)
BY MergeBoundsAssumption DEF SigningKey

----------------------------------------------------------------------------
(* The verdict. *)

LEMMA VerdictIsOne == \A a, r : Verdict(a, r) \in Verdicts
BY DEF Verdict, Verdicts

LEMMA AcceptedIsEarned ==
  ASSUME NEW a \in Acceptance, NEW r \in Evidence, Verdict(a, r) = "ACCEPT"
  PROVE  /\ \A c \in a.requiredChecks : r.checks[c] # "ABSENT" /\ r.checks[c] \notin FailureClasses
         /\ a.requireIndependentVerifier =>
              {r.producerId, r.verifierId} \subseteq Producers /\ r.producerId # r.verifierId
<1>1. ~LacksIndependence(a, r) /\ Missing(a, r) = {} /\ Failed(a, r) = {}
  BY DEF Verdict
<1>2. a.requireIndependentVerifier =>
        {r.producerId, r.verifierId} \subseteq Producers /\ r.producerId # r.verifierId
  BY <1>1 DEF LacksIndependence, Evidence
<1>3. \A c \in a.requiredChecks : r.checks[c] # "ABSENT" /\ r.checks[c] \notin FailureClasses
  BY <1>1 DEF Missing, Failed
<1>4. QED
  BY <1>2, <1>3

LEMMA HighRiskIsHandedOn ==
  ASSUME NEW a \in Acceptance, NEW r \in Evidence, NEW c \in a.requiredChecks,
         r.checks[c] \in HighRiskClasses
  PROVE  Verdict(a, r) \notin {"ACCEPT", "REPAIR"}
<1>1. HighRisk(a, r)
  BY DEF HighRisk, Failed, FailureClasses
<1>2. QED
  BY <1>1 DEF Verdict

\* What a report leaves of the verifier's variables.
LEMMA ReportIsVerified ==
  ASSUME MInv, NEW m \in Merges, NEW c \in 0..MaxCommits, NEW r \in WorkerReports,
         NEW p, p.commit = c, Report(m, p, r)
  PROVE  /\ acceptance' \in Acceptance /\ evidence' \in Evidence
         /\ verification'.verdict \in Verdicts \cup {"NONE"}
         /\ verification'.missing \cup verification'.failed \subseteq acceptance'.requiredChecks
         /\ head' \in 0..MaxCommits /\ restarts' \in 0..MaxRestarts
         /\ reported' = [of |-> m, patch |-> p]
         /\ AcceptanceIsEarned' /\ HighRiskIsNeverRepaired'
<1>1. /\ acceptance' = acceptance /\ evidence' = r /\ r \in Evidence /\ acceptance \in Acceptance
      /\ verification' = [verdict |-> Verdict(acceptance, r), missing |-> Missing(acceptance, r),
                          failed |-> Failed(acceptance, r)]
      /\ restarts' = restarts /\ head' = c /\ reported' = [of |-> m, patch |-> p]
  BY ReportsAssumption DEF Report, MInv, MergeTypeOK
<1>2. verification'.missing \cup verification'.failed \subseteq acceptance'.requiredChecks
  BY <1>1 DEF Missing, Failed
<1>3. AcceptanceIsEarned'
  BY <1>1, AcceptedIsEarned DEF AcceptanceIsEarned
<1>4. HighRiskIsNeverRepaired'
  BY <1>1, HighRiskIsHandedOn DEF HighRiskIsNeverRepaired
<1>5. QED
  BY <1>1, <1>2, <1>3, <1>4, VerdictIsOne DEF MInv, MergeTypeOK

----------------------------------------------------------------------------
(* The certificate. *)

\* What the issuer or a caller attached: signed by this process only for this evidence.
LEMMA AttachedIsTrue ==
  ASSUME MInv, NEW m \in Merges, NEW c \in 0..MaxCommits, NEW p \in Patches(c), NEW r
  PROVE  LET e == economics[m]
             known == Attached(m, p, r, e) IN
         /\ known \in Certificates
         /\ known.key > 0 =>
              known.key <= SigningKey /\ (known.costly <=> e.facts = "COSTLY")
<1> DEFINE e == economics[m]
<1>1. e \in Economics /\ e.certificate \in Certificates
  BY DEF MInv, MergeTypeOK, Economics
<1>2. SigningKey \in 1..(1 + MaxRestarts)
  BY SigningKeyIsBounded DEF MInv, MergeTypeOK
<1>3. p.commit = c
  BY DEF Patches
<1>4. NoCertificate \in Certificates /\ NoCertificate.key = 0
  BY MergeBoundsAssumption DEF NoCertificate, Certificates
<1>5. CASE VerifySignature(e.certificate)
  BY <1>1, <1>5 DEF Attached, MInv, SignedCertificatesAreTrue
<1>6. CASE ~VerifySignature(e.certificate) /\ MayIssue(m, p, r, e)
  <2>1. Attached(m, p, r, e)
          = [key |-> SigningKey, commit |-> p.commit, costly |-> CostsMaterially(e)]
    BY <1>6 DEF Attached, Issue
  <2>2. CostsMaterially(e) \in BOOLEAN /\ (CostsMaterially(e) <=> e.facts = "COSTLY")
    BY DEF CostsMaterially
  <2>3. [key |-> SigningKey, commit |-> p.commit, costly |-> CostsMaterially(e)] \in Certificates
    BY <1>2, <1>3, <2>2 DEF Certificates
  <2>4. QED
    BY <1>2, <2>1, <2>2, <2>3
<1>7. CASE ~VerifySignature(e.certificate) /\ ~MayIssue(m, p, r, e)
  BY <1>4, <1>7 DEF Attached, Issue
<1>8. QED
  BY <1>5, <1>6, <1>7

\* Nothing is issued for a repair.
LEMMA NothingForRepairs == \A p, r : Attached("REPAIR", p, r, NoEconomics) = NoCertificate
<1>1. ~VerifySignature(NoEconomics.certificate)
  BY DEF VerifySignature, NoEconomics
<1>2. \A p, r : ~MayIssue("REPAIR", p, r, NoEconomics)
  BY DEF MayIssue, NoEconomics
<1>3. QED
  BY <1>1, <1>2 DEF Attached, Issue

\* What passes the gate.
LEMMA PassedIsCertified ==
  ASSUME NEW p, NEW r, NEW e, EconomicVerdict(p, r, e) = "ACCEPT",
         RequiresCertificate(GateClass(p, e))
  PROVE  /\ VerifySignature(e.certificate) /\ e.certificate.commit = p.commit
         /\ e.certificate.costly /\ GateClass(p, e) >= 4 => e.canary
<1>1. ~Refused(p, r, e) /\ ~AwaitsCanary(p, e)
  BY DEF EconomicVerdict
<1>2. QED
  BY <1>1 DEF Refused, AwaitsCanary

\* Its class does not depend on the certificate.
LEMMA ClassIgnoresCertificate ==
  ASSUME NEW p, NEW e \in Economics, NEW k
  PROVE  GateClass(p, [e EXCEPT !.certificate = k]) = GateClass(p, e)
BY DEF GateClass, Classify, Economics

----------------------------------------------------------------------------
(* The steps. *)

LEMMA InitEstablishes == MergeInit => MInv
<1> SUFFICES ASSUME MergeInit PROVE MInv
  OBVIOUS
<1>1. PICK s \in Submissions :
        economics = [m \in Merges |-> IF m = "MERGE" THEN s ELSE NoEconomics]
  BY DEF MergeInit
<1>2. s \in Economics /\ s.certificate.key = 0
  BY SubmissionsAssumption
<1>3. NoCertificate \in Certificates /\ NoEconomics \in Economics
      /\ NoEconomics.certificate.key = 0
  BY MergeBoundsAssumption DEF NoEconomics, NoCertificate, Certificates, Economics
<1>4. economics \in [Merges -> Economics]
  BY <1>1, <1>2, <1>3 DEF Merges
<1>5. RepairsHaveNoEconomics
  BY <1>1 DEF RepairsHaveNoEconomics, Merges
<1>6. SignedCertificatesAreTrue
  BY <1>1, <1>2, <1>3 DEF SignedCertificatesAreTrue, Merges
<1>7. /\ acceptance \in Acceptance /\ evidence \in Evidence
      /\ AcceptanceIsEarned /\ HighRiskIsNeverRepaired
  BY ReportsAssumption DEF MergeInit, NoReport, NotVerified, Evidence, Outcomes,
     AcceptanceIsEarned, HighRiskIsNeverRepaired, HighRiskClasses, Acceptance
<1>8. state \in [Merges -> States] /\ state["MERGE"] = "OPEN" /\ state["REPAIR"] = "ABSENT"
  BY DEF MergeInit, Merges, States
<1>9. reported.of = "MERGE" /\ reported.patch.commit = 0
  BY DEF MergeInit, Commit
<1>10. MergeTypeOK
  BY <1>4, <1>7, <1>8, <1>9, MergeBoundsAssumption
     DEF MergeInit, MergeTypeOK, NotVerified, Merges
<1>11. CostlyMergeIsCertified /\ RepairsAreCheap
  BY <1>8, <1>9 DEF CostlyMergeIsCertified, RepairsAreCheap
<1>12. QED
  BY <1>5, <1>6, <1>7, <1>10, <1>11 DEF MInv

\* A report that is not accepted changes no certificate and accepts nothing.
LEMMA RefusedReportKeeps ==
  ASSUME MInv, NEW m \in Merges, NEW c \in 0..MaxCommits, NEW r \in WorkerReports,
         NEW p, p.commit = c, Report(m, p, r),
         economics' = economics, ref' \in [Merges -> 0..MaxCommits],
         state' \in [Merges -> States], state'[m] # "ACCEPTED"
  PROVE  MInv'
<1>1. reported'.of = m /\ reported'.patch.commit = c
  BY ReportIsVerified
<1>2. MergeTypeOK'
  BY <1>1, ReportIsVerified DEF MInv, MergeTypeOK
<1>3. SignedCertificatesAreTrue' /\ RepairsHaveNoEconomics'
  BY DEF MInv, SignedCertificatesAreTrue, RepairsHaveNoEconomics, Report, SigningKey
<1>4. CostlyMergeIsCertified' /\ RepairsAreCheap'
  BY <1>1 DEF CostlyMergeIsCertified, RepairsAreCheap
<1>5. QED
  BY <1>2, <1>3, <1>4, ReportIsVerified DEF MInv

LEMMA AcceptedReportKeeps ==
  ASSUME MInv, NEW m \in Merges, NEW c \in 0..MaxCommits, NEW r \in WorkerReports,
         NEW p \in Patches(c), CompleteAccepted(m, p, r)
  PROVE  MInv'
<1> DEFINE e     == economics[m]
           k     == Attached(m, p, r, e)
           known == [e EXCEPT !.certificate = k]
<1>1. e \in Economics /\ p.commit = c
  BY DEF MInv, MergeTypeOK, Patches
<1>2. k \in Certificates
      /\ (k.key > 0 => k.key <= SigningKey /\ (k.costly <=> e.facts = "COSTLY"))
  BY AttachedIsTrue
<1>3. /\ known \in Economics /\ known.certificate = k /\ known.facts = e.facts
      /\ known.addressed = e.addressed /\ known.canary = e.canary
  BY <1>1, <1>2 DEF Economics
<1>4. GateClass(p, known) = GateClass(p, e)
  BY <1>1, ClassIgnoresCertificate
<1>5. Report(m, p, r) /\ ref' = ref /\ SigningKey' = SigningKey
  BY DEF CompleteAccepted, Report, SigningKey
<1>6. /\ acceptance' \in Acceptance /\ evidence' \in Evidence
      /\ verification'.verdict \in Verdicts \cup {"NONE"}
      /\ verification'.missing \cup verification'.failed \subseteq acceptance'.requiredChecks
      /\ head' \in 0..MaxCommits /\ restarts' \in 0..MaxRestarts
      /\ reported'.of = m /\ reported'.patch = p
      /\ AcceptanceIsEarned' /\ HighRiskIsNeverRepaired'
  BY <1>1, <1>5, ReportIsVerified
<1>7. economics' = IF e.addressed THEN [economics EXCEPT ![m] = known] ELSE economics
  BY DEF CompleteAccepted
<1>8. state' \in [Merges -> States]
      /\ (e.addressed /\ state'[m] = "ACCEPTED" => EconomicVerdict(p, r, known) = "ACCEPT")
  BY DEF CompleteAccepted, MInv, MergeTypeOK, States
<1>9. economics' \in [Merges -> Economics]
  BY <1>3, <1>7 DEF MInv, MergeTypeOK
<1>10. \A n \in Merges : economics'[n] = IF n = m /\ e.addressed THEN known ELSE economics[n]
  BY <1>7 DEF MInv, MergeTypeOK
<1>11. MergeTypeOK'
  BY <1>1, <1>5, <1>6, <1>8, <1>9 DEF MInv, MergeTypeOK
<1>12. SignedCertificatesAreTrue'
  BY <1>2, <1>3, <1>5, <1>10 DEF MInv, SignedCertificatesAreTrue
<1>13. RepairsHaveNoEconomics'
  <2>1. CASE m = "REPAIR"
    <3>1. e = NoEconomics
      BY <2>1 DEF MInv, RepairsHaveNoEconomics
    <3>2. k = NoCertificate
      BY <2>1, <3>1, NothingForRepairs
    <3>3. k = e.certificate
      BY <3>1, <3>2 DEF NoEconomics
    <3>4. known = NoEconomics
      BY <1>1, <3>1, <3>3 DEF Economics
    <3>5. QED
      BY <2>1, <3>1, <3>4, <1>10 DEF RepairsHaveNoEconomics
  <2>2. CASE m # "REPAIR"
    BY <2>2, <1>10 DEF MInv, RepairsHaveNoEconomics, Merges
  <2>3. QED
    BY <2>1, <2>2
<1>14. CostlyMergeIsCertified'
  <2> SUFFICES ASSUME state'[m] = "ACCEPTED", economics'[m].addressed,
                      RequiresCertificate(GateClass(p, economics'[m]))
               PROVE  /\ economics'[m].certificate.key \in 1..SigningKey'
                      /\ economics'[m].certificate.commit = p.commit
                      /\ economics'[m].certificate.costly <=> economics'[m].facts = "COSTLY"
                      /\ economics'[m].certificate.costly /\ GateClass(p, economics'[m]) >= 4
                           => economics'[m].canary
    BY <1>6 DEF CostlyMergeIsCertified
  <2>1. e.addressed /\ economics'[m] = known
    BY <1>3, <1>10
  <2>2. /\ VerifySignature(k) /\ k.commit = p.commit
        /\ k.costly /\ GateClass(p, known) >= 4 => known.canary
    <3>1. EconomicVerdict(p, r, known) = "ACCEPT" /\ RequiresCertificate(GateClass(p, known))
      BY <2>1, <1>8, Zenon
    <3>2. /\ VerifySignature(known.certificate) /\ known.certificate.commit = p.commit
          /\ known.certificate.costly /\ GateClass(p, known) >= 4 => known.canary
      BY <3>1, PassedIsCertified, Zenon
    <3>3. QED
      BY <1>3, <3>2, Zenon
  <2>3. SigningKey \in 1..(1 + MaxRestarts) /\ MaxRestarts \in Nat
    BY SigningKeyIsBounded, MergeBoundsAssumption DEF MInv, MergeTypeOK
  <2>4. k.key = SigningKey
    BY <2>2 DEF VerifySignature
  <2>5. k.key \in 1..SigningKey
    BY <2>3, <2>4
  <2>6. k.costly <=> e.facts = "COSTLY"
    BY <1>2, <2>3, <2>4
  <2>7. QED
    BY <1>3, <1>5, <2>1, <2>2, <2>5, <2>6
<1>15. RepairsAreCheap'
  <2> SUFFICES ASSUME m = "REPAIR", state'[m] = "ACCEPTED"
               PROVE  ~RequiresCertificate(GateClass(p, NoEconomics))
    BY <1>6 DEF RepairsAreCheap
  <2>1. e = NoEconomics
    BY DEF MInv, RepairsHaveNoEconomics
  <2>2. k = NoCertificate
    BY <2>1, NothingForRepairs
  <2>3. EconomicVerdict(p, r, known) = "ACCEPT"
    BY <1>8, <2>1 DEF NoEconomics
  <2>4. ~Refused(p, r, known)
    BY <2>3 DEF EconomicVerdict
  <2>5. ~RequiresCertificate(GateClass(p, known))
    BY <1>3, <2>2, <2>4 DEF Refused
  <2>6. QED
    BY <1>4, <2>1, <2>5
<1>16. QED
  BY <1>6, <1>11, <1>12, <1>13, <1>14, <1>15 DEF MInv

LEMMA ReconcileKeeps ==
  ASSUME MInv, NEW m \in Merges, Reconcile(m)
  PROVE  MInv'
<1>1. /\ evidence' \in Evidence
      /\ \A c \in Checks : evidence'.checks[c] = "ABSENT"
  BY DEF Reconcile, NoReport, Evidence, Outcomes
<1>2. reported'.of = m /\ reported'.patch.commit = 0
  BY DEF Reconcile, Commit
<1>3. state' \in [Merges -> States] /\ state'[m] = "OPEN"
  BY DEF Reconcile, MInv, MergeTypeOK, States
<1>4. MergeTypeOK'
  BY <1>1, <1>2, <1>3, MergeBoundsAssumption DEF Reconcile, MInv, MergeTypeOK, NotVerified
<1>5. SignedCertificatesAreTrue' /\ RepairsHaveNoEconomics'
  BY DEF Reconcile, MInv, SignedCertificatesAreTrue, RepairsHaveNoEconomics, SigningKey
<1>6. AcceptanceIsEarned' /\ HighRiskIsNeverRepaired'
  BY <1>1 DEF Reconcile, MInv, MergeTypeOK, Acceptance, NotVerified, AcceptanceIsEarned,
     HighRiskIsNeverRepaired
<1>7. CostlyMergeIsCertified' /\ RepairsAreCheap'
  BY <1>2, <1>3 DEF CostlyMergeIsCertified, RepairsAreCheap
<1>8. QED
  BY <1>4, <1>5, <1>6, <1>7 DEF MInv

LEMMA ResolveRepairKeeps ==
  ASSUME MInv, ResolveRepair
  PROVE  MInv'
<1>1. /\ state' \in [Merges -> States]
      /\ \A m \in Merges : state'[m] = "ACCEPTED" => state[m] = "ACCEPTED"
  BY DEF ResolveRepair, MInv, MergeTypeOK, States
<1>2. QED
  BY <1>1 DEF ResolveRepair, MInv, MergeTypeOK, SignedCertificatesAreTrue, verifierVars,
     RepairsHaveNoEconomics, AcceptanceIsEarned, HighRiskIsNeverRepaired, SigningKey,
     CostlyMergeIsCertified, RepairsAreCheap, Merges

\* A drawn key is replaced by a later one.
LEMMA RestartKeeps ==
  ASSUME MInv, Restart
  PROVE  MInv'
<1>1. restarts' \in 0..MaxRestarts /\ restarts \in 0..MaxRestarts
  BY MergeBoundsAssumption DEF Restart, MInv, MergeTypeOK
<1>2. SigningKey \in Nat /\ SigningKey' \in Nat /\ SigningKey <= SigningKey'
  BY <1>1, MergeBoundsAssumption DEF Restart, SigningKey
<1>3. MergeTypeOK'
  BY <1>1 DEF Restart, MInv, MergeTypeOK, verifierVars
<1>4. economics \in [Merges -> Economics] /\ reported.of \in Merges
  BY DEF MInv, MergeTypeOK
<1>5. \A m \in Merges : economics[m].certificate.key \in Nat
  BY <1>4, MergeBoundsAssumption DEF Economics, Certificates
<1>6. SignedCertificatesAreTrue'
  BY <1>2, <1>5 DEF Restart, MInv, SignedCertificatesAreTrue
<1>7. CostlyMergeIsCertified'
  BY <1>2, <1>4, <1>5 DEF Restart, MInv, CostlyMergeIsCertified
<1>8. RepairsHaveNoEconomics' /\ AcceptanceIsEarned' /\ HighRiskIsNeverRepaired'
      /\ RepairsAreCheap'
  BY DEF Restart, MInv, RepairsHaveNoEconomics, AcceptanceIsEarned, HighRiskIsNeverRepaired,
     RepairsAreCheap, verifierVars
<1>9. QED
  BY <1>3, <1>6, <1>7, <1>8 DEF MInv

LEMMA StepKeeps == MInv /\ [MergeNext]_mergeVars => MInv'
<1> SUFFICES ASSUME MInv, [MergeNext]_mergeVars PROVE MInv'
  OBVIOUS
<1>1. ASSUME NEW m \in Merges, state[m] = "OPEN", NEW c \in {head, head + 1}, c <= MaxCommits,
             NEW r \in WorkerReports,
             \/ \E p \in Patches(c) : CompleteAccepted(m, p, r)
             \/ m = "MERGE" /\ CompleteRepairable(c, r)
             \/ CompleteTerminated(m, c, r)
             \/ CompleteEscalated(m, c, r)
      PROVE  MInv'
  <2>1. c \in 0..MaxCommits /\ Commit(c).commit = c
    BY <1>1, MergeBoundsAssumption DEF MInv, MergeTypeOK, Commit
  <2>2. CASE \E p \in Patches(c) : CompleteAccepted(m, p, r)
    BY <2>1, <2>2, AcceptedReportKeeps
  <2>3. CASE m = "MERGE" /\ CompleteRepairable(c, r)
    <3>1. /\ state' \in [Merges -> States] /\ state'["MERGE"] = "BLOCKED"
          /\ ref' \in [Merges -> 0..MaxCommits] /\ economics' = economics
          /\ Report("MERGE", Commit(c), r)
      BY <2>1, <2>3 DEF CompleteRepairable, MInv, MergeTypeOK, Merges, States
    <3>2. QED
      BY <1>1, <2>1, <2>3, <3>1, RefusedReportKeeps
  <2>4. CASE CompleteTerminated(m, c, r)
    <3>1. /\ state' \in [Merges -> States] /\ state'[m] = "FAILED"
          /\ ref' = ref /\ economics' = economics /\ Report(m, Commit(c), r)
      BY <2>4 DEF CompleteTerminated, MInv, MergeTypeOK, States
    <3>2. QED
      BY <1>1, <2>1, <3>1, RefusedReportKeeps DEF MInv, MergeTypeOK
  <2>5. CASE CompleteEscalated(m, c, r)
    <3>1. /\ state' \in [Merges -> States] /\ state'[m] = "BLOCKED"
          /\ ref' = ref /\ economics' = economics /\ Report(m, Commit(c), r)
      BY <2>5 DEF CompleteEscalated, MInv, MergeTypeOK, States
    <3>2. QED
      BY <1>1, <2>1, <3>1, RefusedReportKeeps DEF MInv, MergeTypeOK
  <2>6. QED
    BY <1>1, <2>2, <2>3, <2>4, <2>5
<1>2. CASE \E m \in Merges : Reconcile(m)
  BY <1>2, ReconcileKeeps
<1>3. CASE ResolveRepair
  BY <1>3, ResolveRepairKeeps
<1>4. CASE Restart
  BY <1>4, RestartKeeps
<1>5. CASE UNCHANGED mergeVars
  BY <1>5 DEF mergeVars, verifierVars, costVars, MInv, MergeTypeOK, SignedCertificatesAreTrue,
     RepairsHaveNoEconomics, AcceptanceIsEarned, HighRiskIsNeverRepaired, SigningKey,
     CostlyMergeIsCertified, RepairsAreCheap
<1>6. QED
  BY <1>1, <1>2, <1>3, <1>4, <1>5 DEF MergeNext

LEMMA MergeInductive == MergeSpec => []MInv
<1>1. QED
  BY InitEstablishes, StepKeeps, PTL DEF MergeSpec

----------------------------------------------------------------------------
(* What complete evidence is good for. *)

\* With the evidence that is asked for, a certificate at hand or none, the gate is passed
\* unless the certificate at hand is of this process and for another commit.
LEMMA CompletePasses ==
  ASSUME MInv, NEW m \in Merges, NEW c \in 0..MaxCommits, NEW p \in Patches(c),
         NEW r \in WorkerReports, CompleteAccepted(m, p, r), IsComplete(m),
         economics[m].addressed,
         EconomicVerdict(p, r, [economics[m] EXCEPT !.certificate =
                                  Attached(m, p, r, economics[m])]) # "ACCEPT"
  PROVE  economics[m].certificate.key = SigningKey /\ economics[m].certificate.commit # p.commit
<1> DEFINE e     == economics[m]
           k     == Attached(m, p, r, e)
           known == [e EXCEPT !.certificate = k]
<1>1. e \in Economics
  BY DEF MInv, MergeTypeOK
<1>2. /\ known.certificate = k /\ known.canary = e.canary
      /\ GateClass(p, known) = GateClass(p, e)
  BY <1>1, ClassIgnoresCertificate DEF Economics
<1>3. reported'.patch = p /\ evidence' = r
  BY DEF CompleteAccepted, Report
<1>4. /\ e.facts = "CHEAP" \/ (e.facts = "COSTLY" /\ e.canary)
      /\ p.commit # ref[m]
      /\ Issuer \notin {Implementer(r), r.verifierId}
      /\ Authority \notin {Implementer(r), r.verifierId}
      /\ RequiresCertificate(GateClass(p, e)) => RequiresCertificate(IssuerClass(p, e))
  BY <1>3 DEF IsComplete
<1>5. Refused(p, r, known) \/ AwaitsCanary(p, known)
  BY DEF EconomicVerdict
<1>6. SigningKey \in 1..(1 + MaxRestarts) /\ MaxRestarts \in Nat
  BY SigningKeyIsBounded, MergeBoundsAssumption DEF MInv, MergeTypeOK
<1>7. AwaitsCanary(p, known) => k.costly /\ ~e.canary
  BY <1>2 DEF AwaitsCanary
<1>8. CASE VerifySignature(e.certificate)
  <2>1. k = e.certificate /\ k.key = SigningKey /\ k # NoCertificate
    BY <1>8 DEF Attached, VerifySignature
  <2>2. k.costly <=> e.facts = "COSTLY"
    BY <1>6, <2>1 DEF MInv, SignedCertificatesAreTrue
  <2>3. ~AwaitsCanary(p, known)
    BY <1>4, <1>7, <2>2
  <2>4. Refused(p, r, known)
    BY <1>5, <2>3
  <2>5. k.commit # p.commit
    BY <1>2, <1>4, <1>8, <2>1, <2>4 DEF Refused
  <2>6. QED
    BY <2>1, <2>5
<1>9. CASE ~VerifySignature(e.certificate) /\ MayIssue(m, p, r, e)
  <2>1. k = [key |-> SigningKey, commit |-> p.commit, costly |-> CostsMaterially(e)]
    BY <1>9 DEF Attached, Issue
  <2>2. k.key = SigningKey /\ k.commit = p.commit /\ (k.costly <=> e.facts = "COSTLY")
    <3>1. k.key = SigningKey /\ k.commit = p.commit
      BY <2>1
    <3>2. CostsMaterially(e) \in BOOLEAN /\ (CostsMaterially(e) <=> e.facts = "COSTLY")
      BY DEF CostsMaterially
    <3>3. k.costly = CostsMaterially(e)
      BY <2>1
    <3>4. QED
      BY <3>1, <3>2, <3>3
  <2>3. NoCertificate.key = 0
    BY DEF NoCertificate
  <2>4. k # NoCertificate
    BY <1>6, <2>2, <2>3
  <2>5. VerifySignature(k)
    BY <2>2, <2>4 DEF VerifySignature
  <2>6. ~AwaitsCanary(p, known)
    BY <1>4, <1>7, <2>2
  <2>7. ~Refused(p, r, known)
    BY <1>2, <1>4, <2>2, <2>4, <2>5 DEF Refused
  <2>8. QED
    BY <1>5, <2>6, <2>7
<1>10. CASE ~VerifySignature(e.certificate) /\ ~MayIssue(m, p, r, e)
  <2>1. k = NoCertificate /\ ~NoCertificate.costly
    BY <1>10 DEF Attached, Issue, NoCertificate
  <2>2. ~RequiresCertificate(IssuerClass(p, e))
    BY <1>4, <1>10 DEF MayIssue
  <2>3. ~Refused(p, r, known)
    BY <1>2, <1>4, <2>1, <2>2 DEF Refused
  <2>4. QED
    BY <1>5, <1>7, <2>1, <2>3
<1>11. QED
  BY <1>8, <1>9, <1>10

LEMMA StepPasses ==
  ASSUME MInv, MergeNext, NEW m \in Merges, state[m] = "OPEN", state'[m] = "BLOCKED",
         IsComplete(m)
  PROVE  /\ economics[m].certificate.key = SigningKey
         /\ economics[m].certificate.commit # reported'.patch.commit
<1>1. verification'.verdict = "ACCEPT"
  BY DEF IsComplete
<1>2. state \in [Merges -> States]
  BY DEF MInv, MergeTypeOK
<1>3. CASE \E n \in Merges, c \in {head, head + 1}, r \in WorkerReports :
             c <= MaxCommits /\ \E p \in Patches(c) : CompleteAccepted(n, p, r)
  <2>0. PICK n \in Merges, c \in {head, head + 1}, r \in WorkerReports :
          c <= MaxCommits /\ \E p \in Patches(c) : CompleteAccepted(n, p, r)
    BY <1>3
  <2>1. PICK p \in Patches(c) : CompleteAccepted(n, p, r)
    BY <2>0
  <2>2. c \in 0..MaxCommits
    BY <2>0, MergeBoundsAssumption DEF MInv, MergeTypeOK
  <2>3. n = m /\ economics[m].addressed
    BY <2>1, <1>2 DEF CompleteAccepted
  <2>4. EconomicVerdict(p, r, [economics[m] EXCEPT !.certificate =
                                 Attached(m, p, r, economics[m])]) # "ACCEPT"
    BY <2>1, <2>3, <1>2 DEF CompleteAccepted
  <2>5. reported'.patch = p
    BY <2>1 DEF CompleteAccepted, Report
  <2>6. QED
    BY <2>1, <2>2, <2>3, <2>4, <2>5, CompletePasses
<1>4. CASE \E n \in Merges, c \in {head, head + 1}, r \in WorkerReports :
             \/ CompleteRepairable(c, r)
             \/ CompleteTerminated(n, c, r)
             \/ CompleteEscalated(n, c, r)
  BY <1>1, <1>4 DEF CompleteRepairable, CompleteTerminated, CompleteEscalated, Report
<1>5. CASE \E n \in Merges : Reconcile(n)
  BY <1>1, <1>5 DEF Reconcile, NotVerified
<1>6. CASE ResolveRepair
  BY <1>2, <1>6 DEF ResolveRepair, Merges
<1>7. CASE Restart
  BY <1>7 DEF Restart
<1>8. QED
  BY <1>3, <1>4, <1>5, <1>6, <1>7 DEF MergeNext

----------------------------------------------------------------------------
(* Theorems. *)

\* Types, earned acceptance and the handing on of high risk hold in every state of every
\* merge: complete never accepts what the verifier did not.
THEOREM MergeInvariantHolds == MergeSpec => []MergeInvariant
<1>1. MInv => MergeInvariant
  BY DEF MInv, MergeInvariant
<1>2. QED
  BY <1>1, MergeInductive, PTL

\* The economic gate: an accepted SHA-addressed merge of C3 or above was certified for the
\* accepted commit by a key of this control plane, and by a canary where it is costly.
THEOREM CostlyMergesAreCertified == MergeSpec => []CostlyMergeIsCertified
<1>1. MInv => CostlyMergeIsCertified
  BY DEF MInv
<1>2. QED
  BY <1>1, MergeInductive, PTL

\* An accepted repair is below C3 as the gate sees it without the flags of its parent.
THEOREM AcceptedRepairsAreCheap == MergeSpec => []RepairsAreCheap
<1>1. MInv => RepairsAreCheap
  BY DEF MInv
<1>2. QED
  BY <1>1, MergeInductive, PTL

\* The issuer and the gate agree: complete evidence is blocked only behind a certificate of
\* the same process for another commit.
THEOREM CompleteEvidenceIsEnough == MergeSpec => CompleteEvidencePasses
<1>1. MInv /\ [MergeNext]_mergeVars =>
        [\A m \in Merges :
           state[m] = "OPEN" /\ state'[m] = "BLOCKED" /\ IsComplete(m) =>
             /\ economics[m].certificate.key = SigningKey
             /\ economics[m].certificate.commit # reported'.patch.commit]_mergeVars
  BY StepPasses
<1>2. QED
  BY <1>1, MergeInductive, PTL DEF MergeSpec, CompleteEvidencePasses

----------------------------------------------------------------------------
(* EvidenceLedger: the inductive invariant. *)

Runtimes == [session: 0..MaxSessions, accepted: [Shards -> Reports \cup {None}],
             composed: BOOLEAN, merged: Commits \cup {None}]

PatchStates == [session: 0..MaxSessions, submitted: [Shards -> Mutations \cup {None}],
                composed: BOOLEAN]

Ledgers == [certificate: [Fingerprints -> ShardCertificates \cup {None}],
            invalid: SUBSET Fingerprints, nodes: SUBSET Nodes, edges: SUBSET (Nodes \X Nodes),
            cites: [Shards -> Mutations \cup {None}]]

\* Every node but the intent has a parent and every edge joins two nodes.
Walkable(l) ==
  /\ l \in Ledgers
  /\ l.edges \subseteq l.nodes \X l.nodes
  /\ \A n \in l.nodes : n = Intent \/ \E p \in l.nodes : <<p, n>> \in l.edges

EvidenceIsNamed(l) == \A s \in Shards : l.cites[s] # None <=> Node("EVIDENCE", s) \in l.nodes

CitedIsKnown(l) == \A s \in Shards : l.cites[s] # None => l.certificate[<<s, l.cites[s]>>] # None

Graph(l) == Walkable(l) /\ EvidenceIsNamed(l)

\* A runtime that has composed its shards has a session.
SoundWork(r, p) == r \in Runtimes /\ p \in PatchStates /\ (r.composed => r.session # 0)

EInv ==
  /\ SoundWork(runtime, patch)
  /\ files \in [runtime: Runtimes, patch: PatchStates, ledger: Ledgers]
  /\ SoundWork(files.runtime, files.patch)
  /\ sessions \in 0..MaxSessions /\ crashes \in Nat
  /\ conflicted \subseteq Fingerprints /\ rekeyed \in BOOLEAN
  /\ Graph(ledger) /\ Graph(files.ledger)
  /\ rekeyed \/ (CitedIsKnown(ledger) /\ CitedIsKnown(files.ledger))
  /\ ContradictedIsUnusable

----------------------------------------------------------------------------
(* The graph grows. *)

\* What EvidenceIsAppendOnly asks of a step that is not a crash.
Grows(l, k) ==
  /\ l.nodes \subseteq k.nodes
  /\ \A n \in l.nodes : ParentsIn(l, n) = ParentsIn(k, n)
  /\ \A s \in Shards : l.cites[s] # None => l.cites[s] = k.cites[s]

LEMMA GrowsTransitive ==
  ASSUME NEW l, NEW k, NEW j, Grows(l, k), Grows(k, j)
  PROVE  Grows(l, j)
BY DEF Grows

LEMMA GrowsReflexive ==
  ASSUME NEW l
  PROVE  Grows(l, l)
BY DEF Grows

LEMMA NodeType ==
  /\ Intent \in Nodes
  /\ \A i \in Sessions : Node("WORK_PACKET", i) \in Nodes /\ Node("MERGE", i) \in Nodes
  /\ \A s \in Shards : Node("SHARD", s) \in Nodes /\ Node("EVIDENCE", s) \in Nodes
  /\ \A c \in Commits : Node("CANDIDATE", c) \in Nodes
BY DEF Intent, Node, Nodes

\* Two parts of a ledger are all that adding a node changes.
LEMMA AddedFields ==
  ASSUME NEW l \in Ledgers, NEW n \in Nodes, NEW parents \in SUBSET Nodes
  PROVE  LET k == Added(l, n, parents) IN
         /\ k \in Ledgers
         /\ k.certificate = l.certificate /\ k.invalid = l.invalid /\ k.cites = l.cites
         /\ \/ k = l
            \/ /\ n \notin l.nodes /\ parents \subseteq l.nodes
               /\ k.nodes = l.nodes \cup {n} /\ k.edges = l.edges \cup (parents \X {n})
         /\ parents \subseteq l.nodes => n \in k.nodes
<1> DEFINE k == Added(l, n, parents)
<1>1. CASE n \in l.nodes \/ ~(parents \subseteq l.nodes)
  BY <1>1 DEF Added
<1>2. CASE n \notin l.nodes /\ parents \subseteq l.nodes
  <2>1. k = [l EXCEPT !.nodes = l.nodes \cup {n}, !.edges = l.edges \cup (parents \X {n})]
    BY <1>2 DEF Added
  <2>2. l.nodes \cup {n} \in SUBSET Nodes /\ l.edges \cup (parents \X {n}) \in SUBSET (Nodes \X Nodes)
    BY DEF Ledgers
  <2> HIDE DEF k
  <2>3. k \in Ledgers
    BY <2>1, <2>2 DEF Ledgers
  <2>4. /\ k.certificate = l.certificate /\ k.invalid = l.invalid /\ k.cites = l.cites
        /\ k.nodes = l.nodes \cup {n} /\ k.edges = l.edges \cup (parents \X {n})
    BY <2>1 DEF Ledgers
  <2>5. QED
    BY <1>2, <2>3, <2>4 DEF k
<1>3. QED
  BY <1>1, <1>2

LEMMA AddedIsWalkable ==
  ASSUME NEW l, Walkable(l), NEW n \in Nodes, NEW parents \in SUBSET Nodes,
         parents # {} \/ n = Intent
  PROVE  Walkable(Added(l, n, parents)) /\ Grows(l, Added(l, n, parents))
<1> DEFINE k == Added(l, n, parents)
<1>1. l \in Ledgers /\ l.edges \subseteq l.nodes \X l.nodes
  BY DEF Walkable
<1>2. k \in Ledgers /\ k.cites = l.cites
  BY <1>1, AddedFields
<1>3. CASE k = l
  BY <1>3, GrowsReflexive
<1>4. CASE k # l
  <2>1. /\ n \notin l.nodes /\ parents \subseteq l.nodes
        /\ k.nodes = l.nodes \cup {n} /\ k.edges = l.edges \cup (parents \X {n})
    BY <1>1, <1>4, AddedFields
  <2> HIDE DEF k
  <2>2. k.edges \subseteq k.nodes \X k.nodes
    BY <1>1, <2>1
  <2>3. ASSUME NEW m \in k.nodes
        PROVE  m = Intent \/ \E p \in k.nodes : <<p, m>> \in k.edges
    <3>1. CASE m = n
      BY <2>1, <3>1
    <3>2. CASE m # n
      BY <2>1, <3>2 DEF Walkable
    <3>3. QED
      BY <3>1, <3>2
  <2>4. ASSUME NEW m \in l.nodes
        PROVE  ParentsIn(l, m) = ParentsIn(k, m)
    <3>1. m # n
      BY <2>1
    <3>2. {f \in l.edges : f[2] = m} = {f \in k.edges : f[2] = m}
      BY <2>1, <3>1
    <3>3. QED
      BY <3>2 DEF ParentsIn
  <2>5. Walkable(k)
    BY <1>2, <2>2, <2>3 DEF Walkable
  <2>6. Grows(l, k)
    BY <1>2, <2>1, <2>4 DEF Grows
  <2>7. QED
    BY <2>5, <2>6 DEF k
<1>5. QED
  BY <1>3, <1>4

\* A node that is not evidence leaves what is cited and known alone.
LEMMA AddedIsGraph ==
  ASSUME NEW l, Graph(l), NEW n \in Nodes, n.kind # "EVIDENCE", NEW parents \in SUBSET Nodes,
         parents # {} \/ n = Intent
  PROVE  LET k == Added(l, n, parents) IN
         /\ Graph(k) /\ Grows(l, k)
         /\ k.certificate = l.certificate /\ k.invalid = l.invalid /\ k.cites = l.cites
         /\ parents \subseteq l.nodes => n \in k.nodes
<1> DEFINE k == Added(l, n, parents)
<1>1. l \in Ledgers /\ Walkable(l) /\ EvidenceIsNamed(l)
  BY DEF Graph, Walkable
<1>2. Walkable(k) /\ Grows(l, k)
  BY <1>1, AddedIsWalkable
<1>3. /\ k.certificate = l.certificate /\ k.invalid = l.invalid /\ k.cites = l.cites
      /\ parents \subseteq l.nodes => n \in k.nodes
      /\ k.nodes = l.nodes \/ k.nodes = l.nodes \cup {n}
  BY <1>1, AddedFields
<1> HIDE DEF k
<1>4. \A s \in Shards : Node("EVIDENCE", s) # n
  BY DEF Node
<1>5. EvidenceIsNamed(k)
  BY <1>1, <1>3, <1>4 DEF EvidenceIsNamed
<1>6. QED
  BY <1>2, <1>3, <1>5 DEF Graph, k

LEMMA AddedShardsIsGraph ==
  ASSUME NEW l, Graph(l), NEW packet \in l.nodes
  PROVE  LET k   == AddedShards(l, packet)
             new == {Node("SHARD", s) : s \in Shards} \ l.nodes
         IN
         /\ Graph(k) /\ Grows(l, k)
         /\ k.certificate = l.certificate /\ k.invalid = l.invalid /\ k.cites = l.cites
         /\ k.nodes = l.nodes \cup new /\ k.edges = l.edges \cup ({packet} \X new)
<1> DEFINE k == AddedShards(l, packet)
           new == {Node("SHARD", s) : s \in Shards} \ l.nodes
<1>1. /\ l \in Ledgers /\ l.edges \subseteq l.nodes \X l.nodes /\ packet \in Nodes
      /\ \A n \in l.nodes : n = Intent \/ \E p \in l.nodes : <<p, n>> \in l.edges
  BY DEF Graph, Walkable, Ledgers
<1>2. k = [l EXCEPT !.nodes = l.nodes \cup new, !.edges = l.edges \cup ({packet} \X new)]
  BY DEF AddedShards
<1>3. /\ new \subseteq Nodes /\ new \cap l.nodes = {}
      /\ \A n \in new : \A s \in Shards : n # Node("EVIDENCE", s)
  <2>1. new \subseteq Nodes
    BY NodeType
  <2>2. \A s, t \in Shards : Node("SHARD", t) # Node("EVIDENCE", s)
    BY DEF Node
  <2>3. QED
    BY <2>1, <2>2
<1> HIDE DEF k, new
<1>4. /\ l.nodes \cup new \in SUBSET Nodes
      /\ l.edges \cup ({packet} \X new) \in SUBSET (Nodes \X Nodes)
  BY <1>1, <1>3 DEF Ledgers
<1>5. k \in Ledgers
  BY <1>1, <1>2, <1>4 DEF Ledgers
<1>6. /\ k.certificate = l.certificate /\ k.invalid = l.invalid /\ k.cites = l.cites
      /\ k.nodes = l.nodes \cup new /\ k.edges = l.edges \cup ({packet} \X new)
  BY <1>1, <1>2 DEF Ledgers
<1>7. k.edges \subseteq k.nodes \X k.nodes
  BY <1>1, <1>6
<1>8. ASSUME NEW m \in k.nodes
      PROVE  m = Intent \/ \E p \in k.nodes : <<p, m>> \in k.edges
  <2>1. CASE m \in new
    BY <1>6, <2>1
  <2>2. CASE m \in l.nodes
    BY <1>1, <1>6, <2>2
  <2>3. QED
    BY <1>6, <2>1, <2>2
<1>9. ASSUME NEW m \in l.nodes
      PROVE  ParentsIn(l, m) = ParentsIn(k, m)
  <2>1. {f \in l.edges : f[2] = m} = {f \in k.edges : f[2] = m}
    BY <1>3, <1>6
  <2>2. QED
    BY <2>1 DEF ParentsIn
<1>10. EvidenceIsNamed(k)
  <2>1. EvidenceIsNamed(l)
    BY DEF Graph
  <2>2. QED
    BY <1>3, <1>6, <2>1 DEF EvidenceIsNamed
<1>11. Graph(k)
  BY <1>5, <1>7, <1>8, <1>10 DEF Graph, Walkable
<1>12. Grows(l, k)
  BY <1>6, <1>9 DEF Grows
<1>13. QED
  BY <1>6, <1>11, <1>12 DEF k, new

EvidenceAdded(l, k, s, m) ==
  \/ k = l /\ (Node("EVIDENCE", s) \in l.nodes \/ Node("SHARD", s) \notin l.nodes)
  \/ /\ k.nodes = l.nodes \cup {Node("EVIDENCE", s)}
     /\ k.edges = l.edges \cup {<<Node("SHARD", s), Node("EVIDENCE", s)>>}
     /\ k.cites = [l.cites EXCEPT ![s] = m]

\* Evidence of a shard comes with the name of the certificate it cites.
LEMMA WithEvidenceIsGraph ==
  ASSUME NEW l, Graph(l), NEW s \in Shards, NEW m \in Mutations
  PROVE  LET k == WithEvidence(l, s, m) IN
         /\ Graph(k) /\ Grows(l, k)
         /\ k.certificate = l.certificate /\ k.invalid = l.invalid
         /\ \A t \in Shards : k.cites[t] = l.cites[t] \/ (t = s /\ k.cites[t] = m)
         /\ EvidenceAdded(l, k, s, m)
<1> DEFINE k == WithEvidence(l, s, m)
           e == Node("EVIDENCE", s)
           j == Added(l, e, {Node("SHARD", s)})
<1>1. l \in Ledgers /\ Walkable(l) /\ EvidenceIsNamed(l)
  BY DEF Graph, Walkable
<1>2. CASE e \in l.nodes \/ Node("SHARD", s) \notin l.nodes
  BY <1>2, GrowsReflexive DEF WithEvidence, EvidenceAdded
<1>3. CASE e \notin l.nodes /\ Node("SHARD", s) \in l.nodes
  <2>1. e \in Nodes /\ {Node("SHARD", s)} \in SUBSET Nodes /\ {Node("SHARD", s)} # {}
    BY NodeType
  <2>2. Walkable(j) /\ Grows(l, j)
    BY <1>1, <2>1, AddedIsWalkable
  <2>3. /\ j \in Ledgers
        /\ j.certificate = l.certificate /\ j.invalid = l.invalid /\ j.cites = l.cites
        /\ j.nodes = l.nodes \cup {e} /\ j.edges = l.edges \cup {<<Node("SHARD", s), e>>}
    BY <1>1, <1>3, <2>1, AddedFields
  <2>4. k = [j EXCEPT !.cites[s] = m]
    BY <1>3 DEF WithEvidence
  <2> HIDE DEF j, k, e
  <2>5. k \in Ledgers /\ k.cites = [l.cites EXCEPT ![s] = m]
        /\ k.certificate = l.certificate /\ k.invalid = l.invalid
        /\ k.nodes = j.nodes /\ k.edges = j.edges
    BY <2>3, <2>4 DEF Ledgers
  <2>6. l.cites \in [Shards -> Mutations \cup {None}]
    BY <1>1 DEF Ledgers
  <2>7. l.cites[s] = None /\ m # None
    BY <1>1, <1>3, <2>6, EvidenceAssumption DEF EvidenceIsNamed, e
  <2>8. Walkable(k)
    BY <2>2, <2>5 DEF Walkable
  <2>9. EvidenceIsNamed(k)
    <3>1. \A t \in Shards : t # s => Node("EVIDENCE", t) # e
      BY DEF Node, e
    <3>2. \A t \in Shards : Node("EVIDENCE", t) \in k.nodes <=> t = s \/ Node("EVIDENCE", t) \in l.nodes
      BY <2>3, <2>5, <3>1 DEF e
    <3>3. QED
      BY <1>1, <2>5, <2>6, <2>7, <3>2 DEF EvidenceIsNamed
  <2>10. Grows(l, k)
    <3>1. \A n : ParentsIn(k, n) = ParentsIn(j, n)
      BY <2>5 DEF ParentsIn
    <3>2. QED
      BY <2>2, <2>5, <2>6, <2>7, <3>1 DEF Grows
  <2>11. \A t \in Shards : k.cites[t] = l.cites[t] \/ (t = s /\ k.cites[t] = m)
    BY <2>5, <2>6
  <2>12. QED
    BY <2>3, <2>5, <2>8, <2>9, <2>10, <2>11 DEF Graph, EvidenceAdded, k, e
<1>4. QED
  BY <1>2, <1>3

----------------------------------------------------------------------------
(* Certificates. *)

LEMMA IssuedIsCertificate ==
  ASSUME NEW report \in Reports
  PROVE  Issued(report, None) \in ShardCertificates /\ Issued(report, None) # None
<1>1. Issued(report, None) \in [evidence: Reports, hasExternalEvidence: BOOLEAN, accepted: BOOLEAN]
  BY DEF Issued
<1>2. QED
  BY <1>1, EvidenceAssumption DEF ShardCertificates

\* A certificate that is kept leaves the graph alone; one that is refused is not usable.
LEMMA PutIsGraph ==
  ASSUME NEW l, Graph(l), NEW fp \in Fingerprints, NEW c \in ShardCertificates
  PROVE  LET k == Put(l, fp, c) IN
         /\ Graph(k) /\ Grows(l, k)
         /\ k.certificate = [l.certificate EXCEPT ![fp] = c] /\ k.invalid = l.invalid \ {fp}
         /\ k.cites = l.cites /\ k.nodes = l.nodes /\ k.edges = l.edges
<1> DEFINE k == Put(l, fp, c)
<1>1. l \in Ledgers /\ k = [l EXCEPT !.certificate[fp] = c, !.invalid = l.invalid \ {fp}]
  BY DEF Graph, Walkable, Put
<1> HIDE DEF k
<1>2. /\ k \in Ledgers
      /\ k.certificate = [l.certificate EXCEPT ![fp] = c] /\ k.invalid = l.invalid \ {fp}
      /\ k.cites = l.cites /\ k.nodes = l.nodes /\ k.edges = l.edges
  BY <1>1 DEF Ledgers
<1>3. Graph(k)
  BY <1>2 DEF Graph, Walkable, EvidenceIsNamed
<1>4. Grows(l, k)
  BY <1>2 DEF Grows, ParentsIn
<1>5. QED
  BY <1>2, <1>3, <1>4 DEF k

LEMMA InvalidatedIsGraph ==
  ASSUME NEW l, Graph(l), NEW fp \in Fingerprints
  PROVE  LET k == Invalidated(l, fp) IN
         /\ Graph(k) /\ Grows(l, k)
         /\ k.certificate = l.certificate /\ k.invalid = l.invalid \cup {fp} /\ k.cites = l.cites
         /\ k.nodes = l.nodes /\ k.edges = l.edges
<1> DEFINE k == Invalidated(l, fp)
<1>1. l \in Ledgers /\ k = [l EXCEPT !.invalid = l.invalid \cup {fp}]
  BY DEF Graph, Walkable, Invalidated
<1> HIDE DEF k
<1>2. /\ k \in Ledgers
      /\ k.certificate = l.certificate /\ k.invalid = l.invalid \cup {fp}
      /\ k.cites = l.cites /\ k.nodes = l.nodes /\ k.edges = l.edges
  BY <1>1 DEF Ledgers
<1>3. Graph(k)
  BY <1>2 DEF Graph, Walkable, EvidenceIsNamed
<1>4. Grows(l, k)
  BY <1>2 DEF Grows, ParentsIn
<1>5. QED
  BY <1>2, <1>3, <1>4 DEF k

----------------------------------------------------------------------------
(* The steps. *)

LEMMA LedgerInitInv == LedgerInit => EInv
<1> SUFFICES ASSUME LedgerInit PROVE EInv
  OBVIOUS
<1>1. 0 \in 0..MaxSessions
  BY EvidenceAssumption
<1>2. SoundWork(EmptyRuntime, EmptyPatch)
  BY <1>1 DEF SoundWork, EmptyRuntime, EmptyPatch, Runtimes, PatchStates
<1>3. EmptyLedger \in Ledgers /\ EmptyLedger.nodes = {} /\ EmptyLedger.edges = {}
      /\ EmptyLedger.cites = [s \in Shards |-> None]
  BY DEF EmptyLedger, Ledgers
<1>4. Graph(EmptyLedger) /\ CitedIsKnown(EmptyLedger)
  BY <1>3 DEF Graph, Walkable, EvidenceIsNamed, CitedIsKnown
<1>5. /\ runtime = EmptyRuntime /\ patch = EmptyPatch /\ ledger = EmptyLedger
      /\ files = [runtime |-> EmptyRuntime, patch |-> EmptyPatch, ledger |-> EmptyLedger]
      /\ conflicted = {} /\ sessions = 0 /\ crashes = 0 /\ rekeyed = FALSE
  BY DEF LedgerInit
<1>6. SoundWork(runtime, patch) /\ Graph(ledger) /\ CitedIsKnown(ledger)
  BY <1>2, <1>4, <1>5, Zenon
<1>7. /\ files.runtime = EmptyRuntime /\ files.patch = EmptyPatch /\ files.ledger = EmptyLedger
      /\ files \in [runtime: Runtimes, patch: PatchStates, ledger: Ledgers]
  BY <1>2, <1>3, <1>5 DEF SoundWork
<1>8. SoundWork(files.runtime, files.patch) /\ Graph(files.ledger) /\ CitedIsKnown(files.ledger)
  BY <1>2, <1>4, <1>7, Zenon
<1>9. ContradictedIsUnusable
  BY <1>5 DEF ContradictedIsUnusable
<1>10. rekeyed \in BOOLEAN /\ crashes \in Nat /\ sessions \in 0..MaxSessions
       /\ conflicted \subseteq Fingerprints
  BY <1>1, <1>5
<1>11. QED
  BY <1>6, <1>7, <1>8, <1>9, <1>10 DEF EInv

\* Work, done on the runtime and the patch session, leaves the files alone and lets the graph
\* grow; what it has to keep is named here.
LEMMA WorkKeeps ==
  ASSUME EInv, Works, SoundWork(runtime', patch'), sessions' \in 0..MaxSessions,
         Graph(ledger'), Grows(ledger, ledger'),
         conflicted' \subseteq Fingerprints, ContradictedIsUnusable',
         CitedIsKnown(ledger) => CitedIsKnown(ledger')
  PROVE  EInv' /\ KeepsEvidence
<1>1. files' = files /\ rekeyed' = rekeyed /\ crashes' = crashes
  BY DEF Works
<1>2. files' \in [runtime: Runtimes, patch: PatchStates, ledger: Ledgers] /\ crashes' \in Nat
      /\ rekeyed' \in BOOLEAN
  BY <1>1 DEF EInv
<1>3. /\ SoundWork(files.runtime, files.patch)' /\ Graph(files.ledger)'
      /\ (rekeyed \/ (CitedIsKnown(ledger) /\ CitedIsKnown(files.ledger)))'
  <2>1. SoundWork(files.runtime, files.patch)' /\ Graph(files.ledger)'
    BY <1>1 DEF EInv, SoundWork, Graph, Walkable, EvidenceIsNamed
  <2>2. CitedIsKnown(files.ledger) <=> CitedIsKnown(files.ledger)'
    BY <1>1 DEF CitedIsKnown
  <2>3. rekeyed \/ (CitedIsKnown(ledger) /\ CitedIsKnown(files.ledger))
    BY DEF EInv
  <2>4. CitedIsKnown(ledger) => CitedIsKnown(ledger)'
    BY DEF CitedIsKnown
  <2>5. QED
    BY <1>1, <2>1, <2>2, <2>3, <2>4
<1>4. SoundWork(runtime, patch)' /\ Graph(ledger)'
  BY DEF SoundWork, Graph, Walkable, EvidenceIsNamed
<1>5. EInv'
  BY <1>2, <1>3, <1>4 DEF EInv
<1>6. KeepsEvidence
  BY DEF Grows, KeepsEvidence
<1>7. QED
  BY <1>5, <1>6

LEMMA MaterializeKeeps ==
  ASSUME EInv, Materialize
  PROVE  EInv' /\ KeepsEvidence
<1> DEFINE packet == Node("WORK_PACKET", sessions')
           first == Added(ledger, Intent, {})
           lineage == Added(first, packet, {Intent})
<1>1. sessions' = sessions + 1 /\ sessions' \in Sessions /\ sessions' \in 0..MaxSessions
  <2>1. sessions \in 0..MaxSessions /\ MaxSessions \in Nat /\ sessions < MaxSessions
        /\ sessions' = sessions + 1
    BY EvidenceAssumption DEF EInv, Materialize
  <2>2. QED
    BY <2>1 DEF Sessions
<1>2. SoundWork(runtime', patch')
  <2>1. runtime' = [runtime EXCEPT !.session = sessions'] /\ patch' = [EmptyPatch EXCEPT !.session = sessions']
    BY DEF Materialize
  <2>2. runtime \in Runtimes /\ EmptyPatch \in PatchStates /\ sessions' # 0
    BY <1>1, EvidenceAssumption DEF EInv, SoundWork, EmptyPatch, PatchStates, Sessions
  <2>3. QED
    BY <1>1, <2>1, <2>2 DEF SoundWork, Runtimes, PatchStates
<1>3. Intent \in Nodes /\ packet \in Nodes /\ Intent.kind # "EVIDENCE" /\ packet.kind # "EVIDENCE"
  BY <1>1, NodeType DEF Intent, Node
<1>4. /\ Graph(first) /\ Grows(ledger, first) /\ Intent \in first.nodes
      /\ first.certificate = ledger.certificate /\ first.invalid = ledger.invalid
      /\ first.cites = ledger.cites
  BY <1>3, AddedIsGraph DEF EInv
<1> HIDE DEF first
<1>5. /\ Graph(lineage) /\ Grows(first, lineage) /\ packet \in lineage.nodes
      /\ lineage.certificate = first.certificate /\ lineage.invalid = first.invalid
      /\ lineage.cites = first.cites
  BY <1>3, <1>4, AddedIsGraph
<1> HIDE DEF lineage, packet
<1>6. ledger' = AddedShards(lineage, packet)
  BY DEF Materialize, lineage, first, packet
<1>7. /\ Graph(ledger') /\ Grows(lineage, ledger')
      /\ ledger'.certificate = lineage.certificate /\ ledger'.invalid = lineage.invalid
      /\ ledger'.cites = lineage.cites
  BY <1>5, <1>6, AddedShardsIsGraph
<1>8. Grows(ledger, ledger')
  BY <1>4, <1>5, <1>7, GrowsTransitive
<1>9. /\ ledger'.certificate = ledger.certificate /\ ledger'.invalid = ledger.invalid
      /\ ledger'.cites = ledger.cites /\ conflicted' = conflicted
  BY <1>4, <1>5, <1>7 DEF Materialize
<1>10. ContradictedIsUnusable' /\ conflicted' \subseteq Fingerprints
  BY <1>9 DEF EInv, ContradictedIsUnusable, Usable
<1>11. CitedIsKnown(ledger) => CitedIsKnown(ledger')
  BY <1>9 DEF CitedIsKnown
<1>12. Works
  BY DEF Materialize
<1>13. QED
  BY <1>1, <1>2, <1>7, <1>8, <1>10, <1>11, <1>12, WorkKeeps

\* The ledger after a shard is accepted: a contradicted certificate becomes unusable, and one
\* that is stored belongs to a fingerprint nobody contradicted.
LEMMA AcceptShardLedger ==
  ASSUME EInv, NEW s \in Shards, NEW m \in Mutations, NEW report \in Reports,
         AcceptShard(s, m, report)
  PROVE  /\ Graph(ledger') /\ Grows(ledger, ledger')
         /\ conflicted' \subseteq Fingerprints /\ ContradictedIsUnusable'
         /\ CitedIsKnown(ledger) => CitedIsKnown(ledger')
<1> DEFINE fp == <<s, m>>
           certificate == Issued(report, None)
           refused == Contradicts(ledger, fp, certificate)
           put == Put(ledger, fp, certificate)
<1>1. /\ Graph(ledger) /\ conflicted \subseteq Fingerprints
      /\ \A f \in conflicted : ~Usable(ledger, f)
      /\ ledger.certificate \in [Fingerprints -> ShardCertificates \cup {None}]
      /\ ledger.cites \in [Shards -> Mutations \cup {None}]
  BY DEF EInv, ContradictedIsUnusable, Graph, Walkable, Ledgers
<1>2. fp \in Fingerprints /\ certificate \in ShardCertificates /\ certificate # None
  BY IssuedIsCertificate DEF Fingerprints
<1>3. \/ ledger' = ledger /\ conflicted' = conflicted
      \/ refused /\ ledger' = Invalidated(ledger, fp) /\ conflicted' = conflicted \cup {fp}
      \/ ~refused /\ ledger' = WithEvidence(put, s, m) /\ conflicted' = conflicted
  BY DEF AcceptShard
<1>4. CASE ledger' = ledger /\ conflicted' = conflicted
  <2>1. Graph(ledger') /\ Grows(ledger, ledger') /\ (CitedIsKnown(ledger) => CitedIsKnown(ledger'))
    BY <1>1, <1>4, GrowsReflexive, Zenon
  <2>2. ContradictedIsUnusable' /\ conflicted' \subseteq Fingerprints
    BY <1>1, <1>4 DEF ContradictedIsUnusable, Usable
  <2>3. QED
    BY <2>1, <2>2
<1>5. CASE refused /\ ledger' = Invalidated(ledger, fp) /\ conflicted' = conflicted \cup {fp}
  <2>1. /\ Graph(ledger') /\ Grows(ledger, ledger')
        /\ ledger'.certificate = ledger.certificate /\ ledger'.invalid = ledger.invalid \cup {fp}
        /\ ledger'.cites = ledger.cites
    BY <1>1, <1>2, <1>5, InvalidatedIsGraph
  <2>2. ContradictedIsUnusable' /\ conflicted' \subseteq Fingerprints
    BY <1>1, <1>2, <1>5, <2>1 DEF ContradictedIsUnusable, Usable
  <2>3. CitedIsKnown(ledger) => CitedIsKnown(ledger')
    BY <2>1 DEF CitedIsKnown
  <2>4. QED
    BY <2>1, <2>2, <2>3
<1>6. CASE ~refused /\ ledger' = WithEvidence(put, s, m) /\ conflicted' = conflicted
  <2>1. /\ Graph(put) /\ Grows(ledger, put)
        /\ put.certificate = [ledger.certificate EXCEPT ![fp] = certificate]
        /\ put.invalid = ledger.invalid \ {fp} /\ put.cites = ledger.cites
    BY <1>1, <1>2, PutIsGraph
  <2> HIDE DEF put
  <2>2. /\ Graph(ledger') /\ Grows(put, ledger')
        /\ ledger'.certificate = put.certificate /\ ledger'.invalid = put.invalid
        /\ \A t \in Shards : ledger'.cites[t] = put.cites[t] \/ (t = s /\ ledger'.cites[t] = m)
    BY <1>6, <2>1, WithEvidenceIsGraph
  <2>3. Grows(ledger, ledger')
    BY <2>1, <2>2, GrowsTransitive
  <2>4. fp \notin conflicted
    BY <1>6 DEF Contradicts
  <2>5. ASSUME NEW f \in conflicted
        PROVE  ~Usable(ledger', f)
    <3>1. f # fp /\ f \in Fingerprints
      BY <1>1, <2>4
    <3>2. ledger'.certificate[f] = ledger.certificate[f] /\ (f \in ledger.invalid => f \in ledger'.invalid)
      BY <1>1, <2>1, <2>2, <3>1
    <3>3. QED
      BY <1>1, <3>2 DEF Usable
  <2>6. ContradictedIsUnusable' /\ conflicted' \subseteq Fingerprints
    BY <1>1, <1>6, <2>5 DEF ContradictedIsUnusable, Usable
  <2>7. ASSUME CitedIsKnown(ledger), NEW t \in Shards, ledger'.cites[t] # None
        PROVE  ledger'.certificate[<<t, ledger'.cites[t]>>] # None
    <3>1. CASE t = s /\ ledger'.cites[t] = m
      <4>1. <<t, ledger'.cites[t]>> = fp
        BY <3>1
      <4>2. ledger'.certificate[fp] = certificate
        BY <1>1, <1>2, <2>1, <2>2
      <4>3. QED
        BY <1>2, <4>1, <4>2
    <3>2. CASE ledger'.cites[t] = ledger.cites[t]
      <4> DEFINE g == <<t, ledger.cites[t]>>
      <4>1. ledger.certificate[g] # None /\ g \in Fingerprints
        BY <1>1, <2>7, <3>2 DEF CitedIsKnown, Fingerprints
      <4>2. ledger'.certificate[g] \in {ledger.certificate[g], certificate}
        BY <1>1, <1>2, <2>1, <2>2, <4>1
      <4>3. QED
        BY <1>2, <3>2, <4>1, <4>2
    <3>3. QED
      BY <2>1, <2>2, <3>1, <3>2
  <2>8. CitedIsKnown(ledger) => CitedIsKnown(ledger')
    BY <2>7 DEF CitedIsKnown
  <2>9. QED
    BY <2>2, <2>3, <2>6, <2>8
<1>7. QED
  BY <1>3, <1>4, <1>5, <1>6

LEMMA AcceptShardKeeps ==
  ASSUME EInv, NEW s \in Shards, NEW m \in Mutations, NEW report \in Reports,
         AcceptShard(s, m, report)
  PROVE  EInv' /\ KeepsEvidence
<1>1. /\ runtime \in Runtimes /\ patch \in PatchStates /\ runtime.session # 0
      /\ runtime' = [runtime EXCEPT !.accepted[s] = report,
                       !.composed = @ \/ (patch'.composed /\ ~patch.composed)]
      /\ patch' = patch \/ patch' = Composed([patch EXCEPT !.submitted[s] = m])
  BY DEF AcceptShard, EInv, SoundWork
<1>2. patch' \in PatchStates
  <2>1. [patch EXCEPT !.submitted[s] = m] \in PatchStates
    BY <1>1 DEF PatchStates
  <2>2. \A p \in PatchStates : Composed(p) \in PatchStates
    BY DEF Composed, PatchStates
  <2>3. QED
    BY <1>1, <2>1, <2>2
<1>3. SoundWork(runtime', patch')
  <2>1. runtime' \in Runtimes
    BY <1>1 DEF Runtimes
  <2>2. runtime'.session = runtime.session
    BY <1>1 DEF Runtimes
  <2>3. QED
    BY <1>1, <1>2, <2>1, <2>2 DEF SoundWork
<1>4. Works /\ sessions' \in 0..MaxSessions
  BY DEF AcceptShard, EInv
<1>5. QED
  BY <1>3, <1>4, AcceptShardLedger, WorkKeeps

LEMMA AcceptParentKeeps ==
  ASSUME EInv, NEW c \in Commits, AcceptParent(c)
  PROVE  EInv' /\ KeepsEvidence
<1> DEFINE candidate == Node("CANDIDATE", c)
           merge == Node("MERGE", runtime.session)
           with == IF Cited(ledger) = {} THEN ledger ELSE Added(ledger, candidate, Cited(ledger))
<1>1. runtime \in Runtimes /\ patch \in PatchStates /\ runtime.composed /\ runtime.session # 0
      /\ runtime' = [runtime EXCEPT !.merged = c] /\ patch' = patch
  BY DEF AcceptParent, EInv, SoundWork
<1>2. runtime.session \in Sessions
  BY <1>1, EvidenceAssumption DEF Runtimes, Sessions
<1>3. SoundWork(runtime', patch')
  BY <1>1 DEF SoundWork, Runtimes
<1>4. /\ candidate \in Nodes /\ merge \in Nodes
      /\ candidate.kind # "EVIDENCE" /\ merge.kind # "EVIDENCE"
  BY <1>2, NodeType DEF Node
<1>5. Cited(ledger) \in SUBSET Nodes
  BY NodeType DEF Cited
<1>6. /\ Graph(with) /\ Grows(ledger, with)
      /\ with.certificate = ledger.certificate /\ with.invalid = ledger.invalid
      /\ with.cites = ledger.cites
  <2>1. Graph(ledger)
    BY DEF EInv
  <2>2. CASE Cited(ledger) = {}
    BY <2>1, <2>2, GrowsReflexive
  <2>3. CASE Cited(ledger) # {}
    <3>1. with = Added(ledger, candidate, Cited(ledger))
      BY <2>3
    <3> HIDE DEF with, candidate
    <3>2. QED
      BY <1>4, <1>5, <2>1, <2>3, <3>1, AddedIsGraph
  <2>4. QED
    BY <2>2, <2>3
<1>7. ledger' = Added(with, merge, {candidate}) /\ Works /\ conflicted' = conflicted
      /\ sessions' = sessions
  BY DEF AcceptParent
<1> HIDE DEF with, merge, candidate
<1>8. /\ Graph(ledger') /\ Grows(with, ledger')
      /\ ledger'.certificate = with.certificate /\ ledger'.invalid = with.invalid
      /\ ledger'.cites = with.cites
  BY <1>4, <1>6, <1>7, AddedIsGraph
<1>9. Grows(ledger, ledger')
  BY <1>6, <1>8, GrowsTransitive
<1>10. ContradictedIsUnusable' /\ conflicted' \subseteq Fingerprints
  BY <1>6, <1>7, <1>8 DEF EInv, ContradictedIsUnusable, Usable
<1>11. CitedIsKnown(ledger) => CitedIsKnown(ledger')
  BY <1>6, <1>8 DEF CitedIsKnown
<1>12. sessions' \in 0..MaxSessions
  BY <1>7 DEF EInv
<1>13. QED
  BY <1>3, <1>7, <1>8, <1>9, <1>10, <1>11, <1>12, WorkKeeps

\* A save copies a part that is sound; nothing is said differently.
LEMMA SaveKeeps ==
  ASSUME EInv, SaveRuntime \/ SavePatch \/ SaveLedger
  PROVE  EInv' /\ KeepsEvidence
<1>1. /\ runtime' = runtime /\ patch' = patch /\ ledger' = ledger /\ conflicted' = conflicted
      /\ sessions' = sessions /\ rekeyed' = rekeyed /\ crashes' = crashes
  BY DEF SaveRuntime, SavePatch, SaveLedger
<1>2. /\ files \in [runtime: Runtimes, patch: PatchStates, ledger: Ledgers]
      /\ runtime \in Runtimes /\ patch \in PatchStates /\ ledger \in Ledgers
  BY DEF EInv, SoundWork, Graph, Walkable
<1>3. /\ files' \in [runtime: Runtimes, patch: PatchStates, ledger: Ledgers]
      /\ files'.runtime \in {files.runtime, runtime} /\ files'.patch \in {files.patch, patch}
      /\ files'.ledger \in {files.ledger, ledger}
  BY <1>2 DEF SaveRuntime, SavePatch, SaveLedger
<1>4. SoundWork(files'.runtime, files'.patch)
  BY <1>3 DEF EInv, SoundWork
<1>5. Graph(files'.ledger)
  BY <1>3, Zenon DEF EInv
<1>6. rekeyed \/ (CitedIsKnown(ledger) /\ CitedIsKnown(files'.ledger))
  BY <1>3, Zenon DEF EInv
<1>7. /\ SoundWork(runtime, patch)' /\ SoundWork(files.runtime, files.patch)'
      /\ Graph(ledger)' /\ Graph(files.ledger)'
      /\ (rekeyed \/ (CitedIsKnown(ledger) /\ CitedIsKnown(files.ledger)))'
  <2>1. SoundWork(runtime, patch) /\ Graph(ledger)
    BY DEF EInv
  <2>2. QED
    BY <1>1, <1>4, <1>5, <1>6, <2>1 DEF SoundWork, Graph, Walkable, EvidenceIsNamed, CitedIsKnown
<1>8. /\ (sessions \in 0..MaxSessions)' /\ (crashes \in Nat)'
      /\ (conflicted \subseteq Fingerprints)' /\ (rekeyed \in BOOLEAN)'
      /\ ContradictedIsUnusable'
  BY <1>1 DEF EInv, ContradictedIsUnusable, Usable
<1>9. EInv'
  BY <1>3, <1>7, <1>8 DEF EInv
<1>10. KeepsEvidence
  BY <1>1 DEF KeepsEvidence, ParentsIn
<1>11. QED
  BY <1>9, <1>10

\* What the files hold is sound, whichever moments they are from.
LEMMA CrashKeeps ==
  ASSUME EInv, NEW sameKey \in BOOLEAN, Crash(sameKey)
  PROVE  EInv' /\ KeepsEvidence
<1> DEFINE f == files.ledger
           k == Restored(f, sameKey)
<1>1. /\ runtime' = files.runtime /\ patch' = files.patch /\ ledger' = k /\ files' = files
      /\ conflicted' = {} /\ sessions' = sessions /\ crashes' = crashes + 1
      /\ rekeyed' = (rekeyed \/ ~sameKey)
  BY DEF Crash
<1>2. f \in Ledgers /\ Graph(f) /\ SoundWork(files.runtime, files.patch)
  BY DEF EInv, Graph, Walkable
<1>3. k = [f EXCEPT !.certificate =
             [fp \in Fingerprints |-> IF SealHolds(f.certificate[fp], sameKey)
                                      THEN f.certificate[fp] ELSE None]]
  BY DEF Restored
<1> HIDE DEF k, f
<1>4. /\ k \in Ledgers
      /\ k.certificate = [fp \in Fingerprints |-> IF SealHolds(f.certificate[fp], sameKey)
                                                  THEN f.certificate[fp] ELSE None]
      /\ k.nodes = f.nodes /\ k.edges = f.edges /\ k.cites = f.cites
  BY <1>2, <1>3 DEF Ledgers
<1>5. Graph(k)
  BY <1>2, <1>4 DEF Graph, Walkable, EvidenceIsNamed
<1>6. rekeyed' \/ (CitedIsKnown(k) /\ CitedIsKnown(f))
  <2>1. CASE rekeyed \/ ~sameKey
    BY <1>1, <2>1
  <2>2. CASE ~rekeyed /\ sameKey
    <3>1. CitedIsKnown(f)
      BY <2>2 DEF EInv, f
    <3>2. \A fp \in Fingerprints : k.certificate[fp] = f.certificate[fp]
      BY <1>4, <2>2 DEF SealHolds
    <3>3. \A s \in Shards : f.cites[s] # None => <<s, f.cites[s]>> \in Fingerprints
      BY <1>2 DEF Ledgers, Fingerprints
    <3>4. QED
      BY <1>4, <3>1, <3>2, <3>3 DEF CitedIsKnown
  <2>3. QED
    BY <2>1, <2>2
<1>7. SoundWork(runtime, patch)' /\ Graph(ledger)'
  BY <1>1, <1>2, <1>5, Zenon
<1>8. SoundWork(files.runtime, files.patch)' /\ Graph(files.ledger)'
      /\ (files \in [runtime: Runtimes, patch: PatchStates, ledger: Ledgers])'
  BY <1>1, <1>2 DEF EInv, SoundWork, Graph, Walkable, EvidenceIsNamed, f
<1>9. (rekeyed \/ (CitedIsKnown(ledger) /\ CitedIsKnown(files.ledger)))'
  BY <1>1, <1>6 DEF CitedIsKnown, f
<1>10. /\ (sessions \in 0..MaxSessions)' /\ (crashes \in Nat)'
       /\ (conflicted \subseteq Fingerprints)' /\ (rekeyed \in BOOLEAN)'
       /\ ContradictedIsUnusable'
  BY <1>1 DEF EInv, ContradictedIsUnusable
<1>11. EInv'
  BY <1>7, <1>8, <1>9, <1>10 DEF EInv
<1>12. KeepsEvidence
  BY <1>1 DEF EInv, KeepsEvidence
<1>13. QED
  BY <1>11, <1>12

LEMMA LedgerStep ==
  ASSUME EInv, LedgerNext
  PROVE  EInv' /\ KeepsEvidence
<1>1. CASE Materialize
  BY <1>1, MaterializeKeeps
<1>2. CASE \E s \in Shards, m \in Mutations, report \in Reports : AcceptShard(s, m, report)
  BY <1>2, AcceptShardKeeps
<1>3. CASE \E c \in Commits : AcceptParent(c)
  BY <1>3, AcceptParentKeeps
<1>4. CASE SaveRuntime \/ SavePatch \/ SaveLedger
  BY <1>4, SaveKeeps
<1>5. CASE \E sameKey \in BOOLEAN : Crash(sameKey)
  BY <1>5, CrashKeeps
<1>6. QED
  BY <1>1, <1>2, <1>3, <1>4, <1>5 DEF LedgerNext

LEMMA LedgerStutter ==
  ASSUME EInv, UNCHANGED ledgerVars
  PROVE  EInv'
<1>1. /\ runtime' = runtime /\ patch' = patch /\ ledger' = ledger /\ conflicted' = conflicted
      /\ files' = files /\ sessions' = sessions /\ rekeyed' = rekeyed /\ crashes' = crashes
  BY DEF ledgerVars
<1>2. QED
  BY <1>1 DEF EInv, SoundWork, Graph, Walkable, EvidenceIsNamed, CitedIsKnown,
              ContradictedIsUnusable, Usable

\* The inductive invariant holds.
THEOREM LedgerInductive == LedgerSpec => []EInv
<1>1. EInv /\ [LedgerNext]_ledgerVars => EInv'
  BY LedgerStep, LedgerStutter
<1>2. QED
  BY <1>1, LedgerInitInv, PTL DEF LedgerSpec

LEMMA EInvIsEnough ==
  ASSUME EInv
  PROVE  LedgerInvariant
<1>1. /\ ledger \in Ledgers /\ runtime \in Runtimes /\ patch \in PatchStates
      /\ ledger.edges \subseteq ledger.nodes \X ledger.nodes
      /\ \A n \in ledger.nodes : n = Intent \/ \E p \in ledger.nodes : <<p, n>> \in ledger.edges
  BY DEF EInv, SoundWork, Graph, Walkable
<1>2. \A n \in ledger.nodes \ {Intent} : ParentsIn(ledger, n) # {}
  <2>1. ASSUME NEW n \in ledger.nodes \ {Intent}
        PROVE  ParentsIn(ledger, n) # {}
    <3>1. PICK p \in ledger.nodes : <<p, n>> \in ledger.edges
      BY <1>1
    <3>2. p \in ParentsIn(ledger, n)
      BY <3>1 DEF ParentsIn
    <3>3. QED
      BY <3>2
  <2>2. QED
    BY <2>1
<1>3. /\ \A s \in Shards : ledger.cites[s] # None <=> Node("EVIDENCE", s) \in ledger.nodes
      /\ \A s \in Shards : ledger.cites[s] # None /\ ~rekeyed
            => ledger.certificate[<<s, ledger.cites[s]>>] # None
  BY DEF EInv, Graph, EvidenceIsNamed, CitedIsKnown
<1>4. /\ ledger.certificate \in [Fingerprints -> ShardCertificates \cup {None}]
      /\ ledger.invalid \subseteq Fingerprints /\ ledger.nodes \subseteq Nodes
  BY <1>1 DEF Ledgers
<1>5. LedgerTypeOK
  BY <1>1, <1>2, <1>3, <1>4 DEF LedgerTypeOK, Runtimes, PatchStates
<1>6. QED
  BY <1>5 DEF LedgerInvariant, EInv

\* Every node of the evidence graph but the intent cites one that exists, what is cited is known
\* and contradicted evidence is never offered, through crashes between the three files.
THEOREM EvidenceCanBeWalked == LedgerSpec => []LedgerInvariant
<1>1. EInv => LedgerInvariant
  BY EInvIsEnough
<1>2. QED
  BY <1>1, LedgerInductive, PTL

\* While the process lives, evidence is only added.
THEOREM EvidenceStands == LedgerSpec => EvidenceIsAppendOnly
<1>1. EInv /\ [LedgerNext]_ledgerVars => [KeepsEvidence]_ledgerVars
  BY LedgerStep
<1>2. LedgerSpec => [][KeepsEvidence]_ledgerVars
  BY <1>1, LedgerInductive, PTL DEF LedgerSpec
<1>3. QED
  BY <1>2 DEF EvidenceIsAppendOnly

----------------------------------------------------------------------------
(* Walking the graph. *)

Depth == [INTENT |-> 0, WORK_PACKET |-> 1, SHARD |-> 2, EVIDENCE |-> 3, CANDIDATE |-> 4, MERGE |-> 5]

\* A parent is less deep than its child, so every walk to the parents ends.
Layered(l) == \A e \in l.edges : Depth[e[1].kind] < Depth[e[2].kind]

\* What is behind a node is the node and what f says is behind its parents.
Walk(l, f) == [n \in Nodes |-> {n} \cup UNION {f[p] : p \in ParentsIn(l, n)}]

\* f and g agree on the nodes of the first layers.
Agree(f, g, layers) == \A n \in Nodes : Depth[n.kind] < layers => f[n] = g[n]

LEMMA DepthType == \A n \in Nodes : Depth[n.kind] \in 0..5
BY DEF Nodes, Depth

LEMMA EdgeIsParent ==
  ASSUME NEW l, NEW p, NEW n, <<p, n>> \in l.edges
  PROVE  p \in ParentsIn(l, n)
<1>1. <<p, n>> \in {f \in l.edges : f[2] = n}
  OBVIOUS
<1>2. QED
  BY <1>1 DEF ParentsIn

LEMMA ParentsAreAbove ==
  ASSUME NEW l \in Ledgers, Layered(l), NEW n \in Nodes, NEW p \in ParentsIn(l, n)
  PROVE  p \in Nodes /\ Depth[p.kind] < Depth[n.kind]
<1>1. PICK e \in l.edges : e[2] = n /\ e[1] = p
  BY DEF ParentsIn
<1>2. e \in Nodes \X Nodes
  BY <1>1 DEF Ledgers
<1>3. QED
  BY <1>1, <1>2 DEF Layered

LEMMA WalksAgree ==
  ASSUME NEW l \in Ledgers, Layered(l), NEW f, NEW g, NEW layers \in Nat, Agree(f, g, layers)
  PROVE  Agree(Walk(l, f), Walk(l, g), layers + 1)
<1> SUFFICES ASSUME NEW n \in Nodes, Depth[n.kind] < layers + 1
             PROVE  Walk(l, f)[n] = Walk(l, g)[n]
  BY DEF Agree
<1>1. \A p \in ParentsIn(l, n) : f[p] = g[p]
  <2> SUFFICES ASSUME NEW p \in ParentsIn(l, n) PROVE f[p] = g[p]
    OBVIOUS
  <2>1. p \in Nodes /\ Depth[p.kind] < Depth[n.kind]
    BY ParentsAreAbove
  <2>2. Depth[p.kind] \in Nat /\ Depth[n.kind] \in Nat
    BY <2>1, DepthType
  <2>3. QED
    BY <2>1, <2>2 DEF Agree
<1>2. {f[p] : p \in ParentsIn(l, n)} = {g[p] : p \in ParentsIn(l, n)}
  BY <1>1
<1>3. QED
  BY <1>2 DEF Walk

\* After a walk for each layer there is nothing more to find.
LEMMA WalkEnds ==
  ASSUME NEW l \in Ledgers, Layered(l)
  PROVE  \E f : f = Walk(l, f)
<1> DEFINE f0 == [n \in Nodes |-> {}]
           f1 == Walk(l, f0)
           f2 == Walk(l, f1)
           f3 == Walk(l, f2)
           f4 == Walk(l, f3)
           f5 == Walk(l, f4)
           f6 == Walk(l, f5)
           f7 == Walk(l, f6)
<1> HIDE DEF f0
<1>1. Agree(f0, f1, 0)
  BY DepthType DEF Agree
<1> HIDE DEF f1
<1>2. Agree(f1, f2, 1)
  BY <1>1, WalksAgree DEF f1
<1> HIDE DEF f2
<1>3. Agree(f2, f3, 2)
  BY <1>2, WalksAgree DEF f2
<1> HIDE DEF f3
<1>4. Agree(f3, f4, 3)
  BY <1>3, WalksAgree DEF f3
<1> HIDE DEF f4
<1>5. Agree(f4, f5, 4)
  BY <1>4, WalksAgree DEF f4
<1> HIDE DEF f5
<1>6. Agree(f5, f6, 5)
  BY <1>5, WalksAgree DEF f5
<1> HIDE DEF f6
<1>7. Agree(f6, f7, 6)
  BY <1>6, WalksAgree DEF f6
<1>8. \A n \in Nodes : f6[n] = Walk(l, f6)[n]
  BY <1>7, DepthType DEF Agree
<1>9. f6 = [n \in Nodes |-> f6[n]] /\ Walk(l, f6) = [n \in Nodes |-> Walk(l, f6)[n]]
  BY DEF f6, Walk
<1>10. f6 = Walk(l, f6)
  BY <1>8, <1>9
<1>11. QED
  BY <1>10

\* What is behind a node: itself, and what is behind its parents.
LEMMA LineageUnfolds ==
  ASSUME NEW l \in Ledgers, Layered(l), NEW n \in Nodes
  PROVE  /\ n \in Lineage(l, n)
         /\ \A p \in ParentsIn(l, n) : Lineage(l, p) \subseteq Lineage(l, n)
<1> DEFINE chain == CHOOSE f : f = Walk(l, f)
<1>1. chain = Walk(l, chain)
  BY WalkEnds
<1>2. \A m : Lineage(l, m) = chain[m]
  BY DEF Lineage, Walk
<1> HIDE DEF chain
<1>3. chain[n] = {n} \cup UNION {chain[p] : p \in ParentsIn(l, n)}
  BY <1>1 DEF Walk
<1>4. QED
  BY <1>2, <1>3

\* Evidence behind a node, that is about a shard, proves it.
LEMMA LinkedIsProven ==
  ASSUME NEW l \in Ledgers, Layered(l), NEW merge \in Nodes, NEW candidate, NEW cited, NEW shard,
         candidate \in ParentsIn(l, merge), cited \in ParentsIn(l, candidate),
         shard \in ParentsIn(l, cited), cited.kind = "EVIDENCE"
  PROVE  shard \in Lineage(l, merge) \ MissingProof(l, merge)
<1>1. candidate \in Nodes /\ cited \in Nodes /\ shard \in Nodes
  <2>1. candidate \in Nodes
    BY ParentsAreAbove
  <2>2. cited \in Nodes
    BY <2>1, ParentsAreAbove
  <2>3. QED
    BY <2>1, <2>2, ParentsAreAbove
<1>2. Lineage(l, candidate) \subseteq Lineage(l, merge) /\ shard \in Lineage(l, shard)
  BY <1>1, LineageUnfolds
<1>3. Lineage(l, cited) \subseteq Lineage(l, candidate)
  BY <1>1, LineageUnfolds
<1>4. cited \in Lineage(l, cited) /\ Lineage(l, shard) \subseteq Lineage(l, cited)
  BY <1>1, LineageUnfolds
<1>5. shard \in UNION {Lineage(l, p) : p \in ParentsIn(l, cited)}
  BY <1>2
<1>6. cited \in Lineage(l, merge) /\ shard \in Lineage(l, merge)
  BY <1>2, <1>3, <1>4
<1>7. QED
  BY <1>5, <1>6 DEF MissingProof

----------------------------------------------------------------------------
(* What a merge rests on: the inductive invariant. *)

\* Runtime and patch session follow the same session, which is in the graph.
SameSession(r, p, l) ==
  /\ p.session = r.session
  /\ r.session = 0 => l.nodes = {}
  /\ r.session # 0 => \A s \in Shards : Node("SHARD", s) \in l.nodes
  /\ p.composed => \A s \in Shards : p.submitted[s] # None
  /\ r.composed => p.composed /\ Shards # {}
  /\ r.merged # None => r.composed

\* A certificate is of the bundle that was submitted, and of the evidence it was accepted on.
SubmittedIsCited(r, p, l, lost) ==
  /\ \A s \in Shards : /\ p.submitted[s] = None <=> r.accepted[s] = None
                       /\ l.cites[s] = p.submitted[s]
  /\ \A s \in Shards, m \in Mutations : l.certificate[<<s, m>>] # None => p.submitted[s] = m
  /\ ~lost => \A s \in Shards, m \in Mutations :
                p.submitted[s] = m => l.certificate[<<s, m>>].evidence = r.accepted[s]

\* From a merge to its candidate, from the candidate to all evidence, from evidence to its shard.
MergeIsLinked(r, l) ==
  /\ \A n \in l.nodes : n.kind \in {"CANDIDATE", "MERGE"} => r.merged # None
  /\ \A s \in Shards : Node("EVIDENCE", s) \in l.nodes =>
       Node("SHARD", s) \in ParentsIn(l, Node("EVIDENCE", s))
  /\ r.merged # None =>
       /\ Node("CANDIDATE", r.merged) \in ParentsIn(l, Node("MERGE", r.session))
       /\ \A s \in Shards : Node("EVIDENCE", s) \in ParentsIn(l, Node("CANDIDATE", r.merged))

OneMoment(r, p, l, lost) ==
  SameSession(r, p, l) /\ SubmittedIsCited(r, p, l, lost) /\ MergeIsLinked(r, l)

\* Parts that are from one moment agree: the live ones, and those of even files.
ProvenInv ==
  /\ Layered(ledger) /\ Layered(files.ledger)
  /\ even => saving = "RUNTIME"
  /\ ~torn => /\ conflicted = {}
              /\ OneMoment(runtime, patch, ledger, rekeyed)
              /\ even => OneMoment(files.runtime, files.patch, files.ledger, rekeyed)
              /\ saving # "RUNTIME" /\ ~moved => files.runtime = runtime
              /\ saving = "LEDGER" /\ ~moved => files.patch = patch

LEMMA AddedIsLayered ==
  ASSUME NEW l \in Ledgers, Layered(l), NEW n \in Nodes, NEW parents \in SUBSET Nodes,
         \A p \in parents : Depth[p.kind] < Depth[n.kind]
  PROVE  Layered(Added(l, n, parents))
<1> DEFINE k == Added(l, n, parents)
<1>1. k = l \/ k.edges = l.edges \cup (parents \X {n})
  BY AddedFields
<1> HIDE DEF k
<1>2. \A e \in parents \X {n} : Depth[e[1].kind] < Depth[e[2].kind]
  OBVIOUS
<1>3. Layered(k)
  BY <1>1, <1>2 DEF Layered
<1>4. QED
  BY <1>3 DEF k

LEMMA ProvenInit == LedgerInit => ProvenInv
<1> SUFFICES ASSUME LedgerInit PROVE ProvenInv
  OBVIOUS
<1>1. /\ runtime = EmptyRuntime /\ patch = EmptyPatch /\ ledger = EmptyLedger
      /\ files.runtime = EmptyRuntime /\ files.patch = EmptyPatch /\ files.ledger = EmptyLedger
      /\ conflicted = {} /\ saving = "RUNTIME"
  BY DEF LedgerInit
<1>2. Layered(EmptyLedger)
  BY DEF EmptyLedger, Layered
<1>3. SameSession(EmptyRuntime, EmptyPatch, EmptyLedger)
  BY DEF SameSession, EmptyRuntime, EmptyPatch, EmptyLedger
<1>4. SubmittedIsCited(EmptyRuntime, EmptyPatch, EmptyLedger, rekeyed)
  BY EvidenceAssumption DEF SubmittedIsCited, EmptyRuntime, EmptyPatch, EmptyLedger, Fingerprints
<1>5. MergeIsLinked(EmptyRuntime, EmptyLedger)
  BY DEF MergeIsLinked, EmptyRuntime, EmptyLedger
<1>6. OneMoment(EmptyRuntime, EmptyPatch, EmptyLedger, rekeyed)
  BY <1>3, <1>4, <1>5 DEF OneMoment
<1>7. QED
  BY <1>1, <1>2, <1>6, Zenon DEF ProvenInv

\* Work leaves the files as they are, and what was saved is not what there is any more.
LEMMA WorkProves ==
  ASSUME ProvenInv, Works, Layered(ledger'),
         ~torn => conflicted' = {} /\ OneMoment(runtime', patch', ledger', rekeyed)
  PROVE  ProvenInv'
<1>1. /\ files' = files /\ saving' = saving /\ even' = even /\ torn' = torn /\ rekeyed' = rekeyed
      /\ moved'
  BY DEF Works
<1>2. Layered(ledger)' /\ Layered(files.ledger)'
  BY <1>1 DEF ProvenInv, Layered
<1>3. ~torn => /\ OneMoment(runtime, patch, ledger, rekeyed)'
               /\ even => OneMoment(files.runtime, files.patch, files.ledger, rekeyed)'
  BY <1>1 DEF ProvenInv, OneMoment, SameSession, SubmittedIsCited, MergeIsLinked, ParentsIn
<1>4. QED
  BY <1>1, <1>2, <1>3 DEF ProvenInv

\* A session starts where there is nothing: after an even crash as well.
LEMMA MaterializeProves ==
  ASSUME EInv, ProvenInv, Materialize
  PROVE  ProvenInv'
<1> DEFINE packet == Node("WORK_PACKET", sessions')
           first == Added(ledger, Intent, {})
           lineage == Added(first, packet, {Intent})
           new == {Node("SHARD", s) : s \in Shards} \ lineage.nodes
<1>1. sessions' \in Sessions /\ sessions' # 0
  <2>1. sessions \in 0..MaxSessions /\ MaxSessions \in Nat /\ sessions < MaxSessions
        /\ sessions' = sessions + 1
    BY EvidenceAssumption DEF EInv, Materialize
  <2>2. QED
    BY <2>1 DEF Sessions
<1>2. /\ Intent \in Nodes /\ packet \in Nodes /\ Intent.kind = "INTENT" /\ packet.kind = "WORK_PACKET"
      /\ Graph(ledger) /\ ledger \in Ledgers /\ Layered(ledger)
  BY <1>1, NodeType DEF Intent, Node, EInv, ProvenInv, Graph, Walkable
<1>3. /\ Graph(first) /\ Layered(first) /\ Intent \in first.nodes
      /\ first.nodes \subseteq ledger.nodes \cup {Intent}
      /\ first.certificate = ledger.certificate /\ first.cites = ledger.cites
  <2>1. Graph(first) /\ Intent \in first.nodes
        /\ first.certificate = ledger.certificate /\ first.cites = ledger.cites
    BY <1>2, AddedIsGraph
  <2>2. Layered(first)
    BY <1>2, AddedIsLayered
  <2>3. first.nodes \subseteq ledger.nodes \cup {Intent}
    BY <1>2, AddedFields
  <2>4. QED
    BY <2>1, <2>2, <2>3
<1> HIDE DEF first
<1>4. /\ Graph(lineage) /\ Layered(lineage) /\ packet \in lineage.nodes
      /\ lineage.nodes \subseteq first.nodes \cup {packet}
      /\ lineage.certificate = first.certificate /\ lineage.cites = first.cites
  <2>1. first \in Ledgers /\ {Intent} \in SUBSET Nodes
    BY <1>2, <1>3 DEF Graph, Walkable
  <2>2. Graph(lineage) /\ packet \in lineage.nodes
        /\ lineage.certificate = first.certificate /\ lineage.cites = first.cites
    BY <1>2, <1>3, <2>1, AddedIsGraph
  <2>3. Depth[Intent.kind] < Depth[packet.kind]
    BY <1>2 DEF Depth
  <2>4. Layered(lineage)
    BY <1>2, <1>3, <2>1, <2>3, AddedIsLayered
  <2>5. lineage.nodes \subseteq first.nodes \cup {packet}
    BY <1>2, <2>1, AddedFields
  <2>6. QED
    BY <2>2, <2>4, <2>5
<1> HIDE DEF lineage
<1>5. ledger' = AddedShards(lineage, packet)
  BY DEF Materialize, lineage, first
<1>6. /\ Graph(ledger') /\ ledger'.certificate = lineage.certificate /\ ledger'.cites = lineage.cites
      /\ ledger'.nodes = lineage.nodes \cup new /\ ledger'.edges = lineage.edges \cup ({packet} \X new)
  BY <1>4, <1>5, AddedShardsIsGraph
<1>7. Layered(ledger')
  <2>1. \A n \in new : n.kind = "SHARD"
    BY DEF Node
  <2>2. \A e \in {packet} \X new : Depth[e[1].kind] < Depth[e[2].kind]
    BY <1>2, <2>1 DEF Depth
  <2>3. QED
    BY <1>4, <1>6, <2>2 DEF Layered
<1>8. ASSUME ~torn PROVE conflicted' = {} /\ OneMoment(runtime', patch', ledger', rekeyed)
  <2>1. /\ OneMoment(runtime, patch, ledger, rekeyed) /\ conflicted' = {}
        /\ runtime \in Runtimes /\ runtime.session = 0 /\ ~runtime.composed
        /\ runtime' = [runtime EXCEPT !.session = sessions']
        /\ patch' = [EmptyPatch EXCEPT !.session = sessions']
    BY <1>8 DEF ProvenInv, EInv, SoundWork, Materialize
  <2>2. /\ ledger.nodes = {} /\ runtime.merged = None
        /\ \A s \in Shards : ledger.cites[s] = None /\ runtime.accepted[s] = None
        /\ \A s \in Shards, m \in Mutations : ledger.certificate[<<s, m>>] = None
    <3>1. ledger.nodes = {} /\ runtime.merged = None
      BY <2>1 DEF OneMoment, SameSession
    <3>2. \A s \in Shards : ledger.cites[s] = None
      BY <1>2, <3>1 DEF Graph, EvidenceIsNamed
    <3>3. QED
      BY <2>1, <3>1, <3>2, EvidenceAssumption DEF OneMoment, SubmittedIsCited
  <2>3. /\ runtime'.session = sessions' /\ runtime'.accepted = runtime.accepted
        /\ ~runtime'.composed /\ runtime'.merged = None
        /\ patch'.session = sessions' /\ ~patch'.composed
        /\ \A s \in Shards : patch'.submitted[s] = None
    BY <2>1, <2>2 DEF Runtimes, EmptyPatch
  <2>4. \A n \in ledger'.nodes : n.kind \in {"INTENT", "WORK_PACKET", "SHARD"}
    BY <1>2, <1>3, <1>4, <1>6, <2>2 DEF Node
  <2>5. SameSession(runtime', patch', ledger')
    <3>1. \A s \in Shards : Node("SHARD", s) \in ledger'.nodes
      BY <1>6
    <3>2. QED
      BY <1>1, <2>3, <3>1 DEF SameSession
  <2>6. SubmittedIsCited(runtime', patch', ledger', rekeyed)
    BY <1>3, <1>4, <1>6, <2>2, <2>3, EvidenceAssumption DEF SubmittedIsCited
  <2>7. MergeIsLinked(runtime', ledger')
    BY <2>3, <2>4 DEF MergeIsLinked, Node
  <2>8. QED
    BY <2>1, <2>5, <2>6, <2>7 DEF OneMoment
<1>9. QED
  BY <1>7, <1>8, WorkProves DEF Materialize

\* An accepted shard was not cited before, so nothing contradicts its certificate.
LEMMA AcceptShardProves ==
  ASSUME EInv, ProvenInv, NEW s \in Shards, NEW m \in Mutations, NEW report \in Reports,
         AcceptShard(s, m, report)
  PROVE  ProvenInv'
<1> DEFINE fp == <<s, m>>
           certificate == Issued(report, None)
           refused == Contradicts(ledger, fp, certificate)
           put == Put(ledger, fp, certificate)
           e == Node("EVIDENCE", s)
<1>1. Graph(ledger) /\ ledger \in Ledgers /\ Layered(ledger)
  BY DEF EInv, ProvenInv, Graph, Walkable
<1>2. /\ fp \in Fingerprints /\ certificate \in ShardCertificates /\ certificate # None
      /\ certificate.evidence = report
  BY IssuedIsCertificate DEF Fingerprints, Issued
<1>3. /\ Graph(put) /\ put.certificate = [ledger.certificate EXCEPT ![fp] = certificate]
      /\ put.cites = ledger.cites /\ put.nodes = ledger.nodes /\ put.edges = ledger.edges
  BY <1>1, <1>2, PutIsGraph
<1> HIDE DEF put
<1>4. /\ Graph(WithEvidence(put, s, m)) /\ WithEvidence(put, s, m).certificate = put.certificate
      /\ EvidenceAdded(put, WithEvidence(put, s, m), s, m)
  BY <1>3, WithEvidenceIsGraph
<1>5. e.kind = "EVIDENCE" /\ Node("SHARD", s).kind = "SHARD"
  BY DEF Node
<1>6. Layered(ledger')
  <2>1. Layered(put)
    BY <1>1, <1>3 DEF Layered
  <2>2. Layered(WithEvidence(put, s, m))
    <3>1. Depth[Node("SHARD", s).kind] < Depth[e.kind]
      BY <1>5 DEF Depth
    <3>2. QED
      BY <1>4, <2>1, <3>1 DEF Layered, EvidenceAdded
  <2>3. Layered(Invalidated(ledger, fp))
    BY <1>1, <1>2, InvalidatedIsGraph DEF Layered
  <2>4. ledger' \in {ledger, Invalidated(ledger, fp), WithEvidence(put, s, m)}
    BY DEF AcceptShard, put
  <2>5. QED
    BY <1>1, <2>2, <2>3, <2>4
<1>7. ASSUME ~torn PROVE conflicted' = {} /\ OneMoment(runtime', patch', ledger', rekeyed)
  <2> DEFINE p == [patch EXCEPT !.submitted[s] = m]
  <2>1. /\ SameSession(runtime, patch, ledger) /\ SubmittedIsCited(runtime, patch, ledger, rekeyed)
        /\ MergeIsLinked(runtime, ledger) /\ conflicted = {}
        /\ runtime \in Runtimes /\ patch \in PatchStates
        /\ runtime.session # 0 /\ runtime.accepted[s] = None
    BY <1>7 DEF ProvenInv, OneMoment, EInv, SoundWork, AcceptShard
  <2>2. /\ patch.session = runtime.session /\ patch.submitted[s] = None
        /\ ledger.cites[s] = None /\ ledger.certificate[fp] = None
        /\ e \notin ledger.nodes /\ Node("SHARD", s) \in ledger.nodes
        /\ runtime.merged = None /\ ~runtime.composed
    <3>1. patch.session = runtime.session /\ Node("SHARD", s) \in ledger.nodes
      BY <2>1 DEF SameSession
    <3>2. patch.submitted[s] = None /\ ledger.cites[s] = None
      BY <2>1 DEF SubmittedIsCited
    <3>3. ledger.certificate[fp] = None
      BY <2>1, <3>2, EvidenceAssumption DEF SubmittedIsCited
    <3>4. e \notin ledger.nodes
      BY <1>1, <3>2 DEF Graph, EvidenceIsNamed
    <3>5. runtime.merged = None /\ ~runtime.composed
      BY <2>1, <3>2 DEF SameSession
    <3>6. QED
      BY <3>1, <3>2, <3>3, <3>4, <3>5
  <2>3. ~refused
    BY <2>1, <2>2 DEF Contradicts
  <2>4. /\ ledger' = WithEvidence(put, s, m) /\ conflicted' = conflicted /\ patch' = Composed(p)
        /\ runtime' = [runtime EXCEPT !.accepted[s] = report,
                         !.composed = @ \/ (patch'.composed /\ ~patch.composed)]
    BY <2>2, <2>3 DEF AcceptShard, put
  <2> HIDE DEF refused, certificate, e
  <2>5. /\ ledger'.nodes = ledger.nodes \cup {e}
        /\ ledger'.edges = ledger.edges \cup {<<Node("SHARD", s), e>>}
        /\ ledger'.cites = [ledger.cites EXCEPT ![s] = m]
        /\ ledger'.certificate = [ledger.certificate EXCEPT ![fp] = certificate]
    BY <1>3, <1>4, <2>2, <2>4 DEF EvidenceAdded, e
  <2>6. /\ patch'.session = patch.session
        /\ patch'.submitted = [patch.submitted EXCEPT ![s] = m]
        /\ patch'.composed => \A t \in Shards : patch'.submitted[t] # None
    <3>1. p = [patch EXCEPT !.submitted = [patch.submitted EXCEPT ![s] = m]]
      BY <2>1 DEF PatchStates
    <3>2. p.session = patch.session /\ p.submitted = [patch.submitted EXCEPT ![s] = m] /\ p \in PatchStates
      BY <2>1, <3>1 DEF PatchStates
    <3> HIDE DEF p
    <3>3. /\ patch'.session = p.session /\ patch'.submitted = p.submitted
          /\ patch'.composed = (\A t \in Shards : p.submitted[t] # None)
      BY <2>4, <3>2 DEF Composed, PatchStates
    <3>4. QED
      BY <3>2, <3>3
  <2>7. /\ runtime'.session = runtime.session /\ runtime'.merged = runtime.merged
        /\ runtime'.accepted = [runtime.accepted EXCEPT ![s] = report]
        /\ runtime'.composed => patch'.composed
    BY <2>1, <2>2, <2>4 DEF Runtimes
  <2>8. SameSession(runtime', patch', ledger')
    BY <2>1, <2>2, <2>5, <2>6, <2>7 DEF SameSession
  <2>9. SubmittedIsCited(runtime', patch', ledger', rekeyed)
    <3>1. /\ patch.submitted \in [Shards -> Mutations \cup {None}]
          /\ runtime.accepted \in [Shards -> Reports \cup {None}]
          /\ ledger.cites \in [Shards -> Mutations \cup {None}]
          /\ ledger.certificate \in [Fingerprints -> ShardCertificates \cup {None}]
          /\ m # None /\ report # None
      BY <1>1, <2>1, EvidenceAssumption DEF Runtimes, PatchStates, Ledgers
    <3>2. ASSUME NEW t \in Shards
          PROVE  /\ patch'.submitted[t] = None <=> runtime'.accepted[t] = None
                 /\ ledger'.cites[t] = patch'.submitted[t]
      BY <2>1, <2>5, <2>6, <2>7, <3>1 DEF SubmittedIsCited
    <3>3. ASSUME NEW t \in Shards, NEW b \in Mutations
          PROVE  /\ ledger'.certificate[<<t, b>>] # None => patch'.submitted[t] = b
                 /\ ~rekeyed /\ patch'.submitted[t] = b =>
                      ledger'.certificate[<<t, b>>].evidence = runtime'.accepted[t]
      <4>1. CASE t = s /\ b = m
        <5>1. ledger'.certificate[<<t, b>>] = certificate /\ patch'.submitted[t] = m
              /\ runtime'.accepted[t] = report
          BY <1>2, <2>5, <2>6, <2>7, <3>1, <4>1
        <5>2. QED
          BY <1>2, <4>1, <5>1
      <4>2. CASE t = s /\ b # m
        <5>1. <<t, b>> # fp /\ <<t, b>> \in Fingerprints
          BY <4>2 DEF Fingerprints
        <5>2. ledger'.certificate[<<t, b>>] = None
          BY <2>1, <2>2, <2>5, <3>1, <4>2, <5>1, EvidenceAssumption DEF SubmittedIsCited
        <5>3. patch'.submitted[t] = m
          BY <2>6, <3>1, <4>2
        <5>4. QED
          BY <4>2, <5>2, <5>3
      <4>3. CASE t # s
        <5>1. <<t, b>> # fp /\ <<t, b>> \in Fingerprints
          BY <4>3 DEF Fingerprints
        <5>2. /\ ledger'.certificate[<<t, b>>] = ledger.certificate[<<t, b>>]
              /\ patch'.submitted[t] = patch.submitted[t] /\ runtime'.accepted[t] = runtime.accepted[t]
          BY <2>5, <2>6, <2>7, <3>1, <4>3, <5>1
        <5>3. QED
          BY <2>1, <5>2 DEF SubmittedIsCited
      <4>4. QED
        BY <4>1, <4>2, <4>3
    <3>4. QED
      BY <3>2, <3>3 DEF SubmittedIsCited
  <2>10. MergeIsLinked(runtime', ledger')
    <3>1. \A n \in ledger'.nodes : n.kind \notin {"CANDIDATE", "MERGE"}
      BY <1>5, <2>1, <2>2, <2>5 DEF MergeIsLinked, e
    <3>2. ASSUME NEW t \in Shards, Node("EVIDENCE", t) \in ledger'.nodes
          PROVE  Node("SHARD", t) \in ParentsIn(ledger', Node("EVIDENCE", t))
      <4>1. CASE Node("EVIDENCE", t) = e
        <5>1. t = s
          BY <4>1 DEF e, Node
        <5>2. <<Node("SHARD", t), Node("EVIDENCE", t)>> \in ledger'.edges
          BY <2>5, <5>1 DEF e
        <5>3. QED
          BY <5>2, EdgeIsParent
      <4>2. CASE Node("EVIDENCE", t) # e
        <5>1. Node("SHARD", t) \in ParentsIn(ledger, Node("EVIDENCE", t))
          BY <2>1, <2>5, <3>2, <4>2 DEF MergeIsLinked
        <5>2. QED
          BY <2>5, <5>1 DEF ParentsIn
      <4>3. QED
        BY <4>1, <4>2
    <3>3. QED
      BY <2>2, <2>7, <3>1, <3>2 DEF MergeIsLinked
  <2>11. QED
    BY <2>1, <2>4, <2>8, <2>9, <2>10 DEF OneMoment
<1>8. QED
  BY <1>6, <1>7, WorkProves DEF AcceptShard

\* The merge of a composition cites the evidence of every shard.
LEMMA AcceptParentProves ==
  ASSUME EInv, ProvenInv, NEW c \in Commits, AcceptParent(c)
  PROVE  ProvenInv'
<1> DEFINE candidate == Node("CANDIDATE", c)
           merge == Node("MERGE", runtime.session)
           with == IF Cited(ledger) = {} THEN ledger ELSE Added(ledger, candidate, Cited(ledger))
<1>1. /\ Graph(ledger) /\ ledger \in Ledgers /\ Layered(ledger)
      /\ runtime \in Runtimes /\ patch \in PatchStates /\ runtime.composed /\ runtime.merged = None
      /\ runtime.session # 0 /\ runtime' = [runtime EXCEPT !.merged = c] /\ patch' = patch
  BY DEF EInv, ProvenInv, Graph, Walkable, AcceptParent, SoundWork
<1>2. runtime.session \in Sessions
  BY <1>1, EvidenceAssumption DEF Runtimes, Sessions
<1>3. /\ candidate \in Nodes /\ merge \in Nodes
      /\ candidate.kind = "CANDIDATE" /\ merge.kind = "MERGE" /\ candidate # merge
  BY <1>2, NodeType DEF Node
<1>4. Cited(ledger) \in SUBSET Nodes /\ \A n \in Cited(ledger) : n.kind = "EVIDENCE"
  <2>1. \A s \in Shards : Node("EVIDENCE", s) \in Nodes /\ Node("EVIDENCE", s).kind = "EVIDENCE"
    BY NodeType DEF Node
  <2>2. Cited(ledger) \subseteq {Node("EVIDENCE", s) : s \in Shards}
    BY DEF Cited
  <2>3. QED
    BY <2>1, <2>2
<1>5. ledger' = Added(with, merge, {candidate})
  BY DEF AcceptParent
<1> HIDE DEF candidate, merge
<1>6. /\ with \in Ledgers /\ Layered(with)
      /\ with.certificate = ledger.certificate /\ with.cites = ledger.cites
  <2>1. CASE Cited(ledger) = {}
    BY <1>1, <2>1
  <2>2. CASE Cited(ledger) # {}
    <3>1. \A n \in Cited(ledger) : Depth[n.kind] < Depth[candidate.kind]
      BY <1>3, <1>4 DEF Depth
    <3>2. Layered(Added(ledger, candidate, Cited(ledger)))
      BY <1>1, <1>3, <1>4, <3>1, AddedIsLayered
    <3>3. /\ Added(ledger, candidate, Cited(ledger)) \in Ledgers
          /\ Added(ledger, candidate, Cited(ledger)).certificate = ledger.certificate
          /\ Added(ledger, candidate, Cited(ledger)).cites = ledger.cites
      BY <1>1, <1>3, <1>4, AddedFields
    <3>4. QED
      BY <2>2, <3>2, <3>3
  <2>3. QED
    BY <2>1, <2>2
<1>7. /\ Layered(ledger') /\ ledger'.certificate = ledger.certificate /\ ledger'.cites = ledger.cites
  <2> HIDE DEF with
  <2>1. {candidate} \in SUBSET Nodes /\ Depth[candidate.kind] < Depth[merge.kind]
    BY <1>3 DEF Depth
  <2>2. Layered(ledger')
    BY <1>3, <1>5, <1>6, <2>1, AddedIsLayered
  <2>3. QED
    BY <1>3, <1>5, <1>6, <2>1, <2>2, AddedFields
<1>8. ASSUME ~torn PROVE conflicted' = {} /\ OneMoment(runtime', patch', ledger', rekeyed)
  <2>1. /\ SameSession(runtime, patch, ledger) /\ SubmittedIsCited(runtime, patch, ledger, rekeyed)
        /\ MergeIsLinked(runtime, ledger) /\ conflicted = {} /\ conflicted' = conflicted
    BY <1>8 DEF ProvenInv, OneMoment, AcceptParent
  <2>2. /\ patch.session = runtime.session /\ Shards # {}
        /\ \A s \in Shards : Node("EVIDENCE", s) \in ledger.nodes
    BY <1>1, <2>1 DEF SameSession, SubmittedIsCited, Graph, EvidenceIsNamed
  <2>3. Cited(ledger) = {Node("EVIDENCE", s) : s \in Shards} /\ Cited(ledger) # {}
    BY <2>2 DEF Cited
  <2>4. candidate \notin ledger.nodes /\ merge \notin ledger.nodes
    BY <1>1, <1>3, <2>1 DEF MergeIsLinked
  <2>5. with = [ledger EXCEPT !.nodes = ledger.nodes \cup {candidate},
                             !.edges = ledger.edges \cup (Cited(ledger) \X {candidate})]
    BY <2>2, <2>3, <2>4 DEF Added
  <2> HIDE DEF with
  <2>6. /\ with.nodes = ledger.nodes \cup {candidate}
        /\ with.edges = ledger.edges \cup (Cited(ledger) \X {candidate})
    BY <1>1, <2>5 DEF Ledgers
  <2>7. ledger' = [with EXCEPT !.nodes = with.nodes \cup {merge},
                              !.edges = with.edges \cup ({candidate} \X {merge})]
    BY <1>3, <1>5, <2>4, <2>6 DEF Added
  <2>8. /\ ledger'.nodes = ledger.nodes \cup {candidate, merge}
        /\ ledger'.edges = ledger.edges \cup (Cited(ledger) \X {candidate}) \cup {<<candidate, merge>>}
    BY <1>6, <2>6, <2>7 DEF Ledgers
  <2>9. /\ runtime'.session = runtime.session /\ runtime'.merged = c /\ c # None
        /\ runtime'.accepted = runtime.accepted /\ runtime'.composed
    BY <1>1, EvidenceAssumption DEF Runtimes
  <2>10. SameSession(runtime', patch', ledger')
    BY <1>1, <2>1, <2>8, <2>9 DEF SameSession
  <2>11. SubmittedIsCited(runtime', patch', ledger', rekeyed)
    BY <1>1, <1>7, <2>1, <2>9 DEF SubmittedIsCited
  <2>12. MergeIsLinked(runtime', ledger')
    <3>1. \A n \in ledger'.nodes : n.kind \in {"CANDIDATE", "MERGE"} => runtime'.merged # None
      BY <2>9
    <3>2. ASSUME NEW s \in Shards
          PROVE  /\ Node("SHARD", s) \in ParentsIn(ledger', Node("EVIDENCE", s))
                 /\ Node("EVIDENCE", s) \in ParentsIn(ledger', candidate)
      <4>1. Node("SHARD", s) \in ParentsIn(ledger, Node("EVIDENCE", s))
        BY <2>1, <2>2 DEF MergeIsLinked
      <4>2. Node("EVIDENCE", s) \in ParentsIn(ledger', candidate)
        <5>1. <<Node("EVIDENCE", s), candidate>> \in ledger'.edges
          BY <2>3, <2>8
        <5>2. QED
          BY <5>1, EdgeIsParent
      <4>3. QED
        BY <2>8, <4>1, <4>2 DEF ParentsIn
    <3>3. candidate \in ParentsIn(ledger', merge)
      <4>1. <<candidate, merge>> \in ledger'.edges
        BY <2>8
      <4>2. QED
        BY <4>1, EdgeIsParent
    <3>4. Node("CANDIDATE", runtime'.merged) = candidate /\ Node("MERGE", runtime'.session) = merge
      BY <2>9 DEF candidate, merge
    <3>5. QED
      BY <3>1, <3>2, <3>3, <3>4 DEF MergeIsLinked
  <2>13. QED
    BY <2>1, <2>10, <2>11, <2>12 DEF OneMoment
<1>9. QED
  BY <1>7, <1>8, WorkProves DEF AcceptParent

\* A save that ends while nothing was done since the runtime was saved makes the files even.
LEMMA SaveProves ==
  ASSUME EInv, ProvenInv, SaveRuntime \/ SavePatch \/ SaveLedger
  PROVE  ProvenInv'
<1>1. /\ runtime' = runtime /\ patch' = patch /\ ledger' = ledger /\ conflicted' = conflicted
      /\ rekeyed' = rekeyed /\ torn' = torn
  BY DEF SaveRuntime, SavePatch, SaveLedger
<1>2. files \in [runtime: Runtimes, patch: PatchStates, ledger: Ledgers]
  BY DEF EInv
<1>3. Layered(ledger) /\ Layered(files.ledger) /\ (even => saving = "RUNTIME")
  BY DEF ProvenInv
<1>4. \/ files' = [files EXCEPT !.runtime = runtime] /\ saving' = "PATCH" /\ ~moved' /\ ~even'
      \/ /\ files' = [files EXCEPT !.patch = patch]
         /\ saving = "PATCH" /\ saving' = "LEDGER" /\ (moved' <=> moved) /\ (even' <=> even)
      \/ /\ files' = [files EXCEPT !.ledger = ledger]
         /\ saving = "LEDGER" /\ saving' = "RUNTIME" /\ (even' <=> ~moved)
  BY DEF SaveRuntime, SavePatch, SaveLedger
<1>5. Layered(files'.ledger) /\ (even' => saving' = "RUNTIME")
  BY <1>2, <1>3, <1>4
<1>6. ASSUME ~torn
      PROVE  /\ even' => OneMoment(files'.runtime, files'.patch, files'.ledger, rekeyed)
             /\ saving' # "RUNTIME" /\ ~moved' => files'.runtime = runtime
             /\ saving' = "LEDGER" /\ ~moved' => files'.patch = patch
  <2>1. /\ OneMoment(runtime, patch, ledger, rekeyed)
        /\ saving # "RUNTIME" /\ ~moved => files.runtime = runtime
        /\ saving = "LEDGER" /\ ~moved => files.patch = patch
    BY <1>6 DEF ProvenInv
  <2>2. QED
    BY <1>2, <1>3, <1>4, <2>1
<1>7. Layered(ledger)' /\ Layered(files.ledger)'
  BY <1>1, <1>3, <1>5 DEF Layered
<1>8. ~torn => /\ conflicted = {} /\ OneMoment(runtime, patch, ledger, rekeyed)'
               /\ even' => OneMoment(files.runtime, files.patch, files.ledger, rekeyed)'
  BY <1>1, <1>6 DEF ProvenInv, OneMoment, SameSession, SubmittedIsCited, MergeIsLinked, ParentsIn
<1>9. QED
  BY <1>1, <1>5, <1>6, <1>7, <1>8 DEF ProvenInv

\* What even files restore is from one moment, but for the certificates of a lost key.
LEMMA CrashProves ==
  ASSUME EInv, ProvenInv, NEW sameKey \in BOOLEAN, Crash(sameKey)
  PROVE  ProvenInv'
<1> DEFINE f == files.ledger
           k == Restored(f, sameKey)
<1>1. /\ runtime' = files.runtime /\ patch' = files.patch /\ ledger' = k /\ files' = files
      /\ conflicted' = {} /\ saving' = "RUNTIME" /\ (even' <=> even) /\ (torn' <=> torn \/ ~even)
      /\ (rekeyed' <=> rekeyed \/ ~sameKey)
  BY DEF Crash
<1>2. f \in Ledgers /\ Layered(f) /\ f.certificate \in [Fingerprints -> ShardCertificates \cup {None}]
  BY DEF EInv, ProvenInv, Graph, Walkable, Ledgers
<1>3. k = [f EXCEPT !.certificate =
             [fp \in Fingerprints |-> IF SealHolds(f.certificate[fp], sameKey)
                                      THEN f.certificate[fp] ELSE None]]
  BY DEF Restored
<1> HIDE DEF k, f
<1>4. /\ k.nodes = f.nodes /\ k.edges = f.edges /\ k.cites = f.cites
      /\ \A fp \in Fingerprints :
           k.certificate[fp] = IF sameKey THEN f.certificate[fp] ELSE None
  BY <1>2, <1>3 DEF Ledgers, SealHolds
<1>5. Layered(ledger)' /\ Layered(files.ledger)'
  BY <1>1, <1>2, <1>4 DEF Layered, f
<1>6. ASSUME ~torn'
      PROVE  /\ OneMoment(files.runtime, files.patch, k, rekeyed')
             /\ OneMoment(files.runtime, files.patch, f, rekeyed')
  <2>1. OneMoment(files.runtime, files.patch, f, rekeyed) /\ (rekeyed => rekeyed')
    BY <1>1, <1>6 DEF ProvenInv, f
  <2>2. OneMoment(files.runtime, files.patch, f, rekeyed')
    BY <2>1 DEF OneMoment, SubmittedIsCited
  <2>3. SameSession(files.runtime, files.patch, k) /\ MergeIsLinked(files.runtime, k)
    BY <1>4, <2>1 DEF OneMoment, SameSession, MergeIsLinked, ParentsIn
  <2>4. SubmittedIsCited(files.runtime, files.patch, k, rekeyed')
    <3>1. \A s \in Shards, m \in Mutations : <<s, m>> \in Fingerprints
      BY DEF Fingerprints
    <3>2. SubmittedIsCited(files.runtime, files.patch, f, rekeyed')
      BY <2>2 DEF OneMoment
    <3>3. ~rekeyed' => sameKey
      BY <1>1
    <3>4. QED
      BY <1>4, <3>1, <3>2, <3>3 DEF SubmittedIsCited
  <2>5. QED
    BY <2>2, <2>3, <2>4 DEF OneMoment
<1>7. ~torn' => /\ OneMoment(runtime, patch, ledger, rekeyed)'
                /\ OneMoment(files.runtime, files.patch, files.ledger, rekeyed)'
  BY <1>1, <1>6 DEF OneMoment, SameSession, SubmittedIsCited, MergeIsLinked, ParentsIn, f
<1>8. QED
  BY <1>1, <1>5, <1>7 DEF ProvenInv

LEMMA ProvenStep == EInv /\ ProvenInv /\ [LedgerNext]_ledgerVars => ProvenInv'
<1> SUFFICES ASSUME EInv, ProvenInv, [LedgerNext]_ledgerVars PROVE ProvenInv'
  OBVIOUS
<1>1. CASE Materialize
  BY <1>1, MaterializeProves
<1>2. CASE \E s \in Shards, m \in Mutations, report \in Reports : AcceptShard(s, m, report)
  BY <1>2, AcceptShardProves
<1>3. CASE \E c \in Commits : AcceptParent(c)
  BY <1>3, AcceptParentProves
<1>4. CASE SaveRuntime \/ SavePatch \/ SaveLedger
  BY <1>4, SaveProves
<1>5. CASE \E sameKey \in BOOLEAN : Crash(sameKey)
  BY <1>5, CrashProves
<1>6. CASE UNCHANGED ledgerVars
  <2>1. /\ runtime' = runtime /\ patch' = patch /\ ledger' = ledger /\ conflicted' = conflicted
        /\ files' = files /\ saving' = saving /\ rekeyed' = rekeyed
        /\ moved' = moved /\ even' = even /\ torn' = torn
    BY <1>6 DEF ledgerVars
  <2>2. QED
    BY <2>1 DEF ProvenInv, Layered, OneMoment, SameSession, SubmittedIsCited, MergeIsLinked, ParentsIn
<1>7. QED
  BY <1>1, <1>2, <1>3, <1>4, <1>5, <1>6 DEF LedgerNext

LEMMA ProvenIsEnough ==
  ASSUME EInv, ProvenInv, runtime.merged # None, ~torn
  PROVE  /\ ProvenShards = Shards
         /\ \A s \in Shards :
              /\ ledger.cites[s] = patch.submitted[s]
              /\ ~rekeyed => ledger.certificate[<<s, ledger.cites[s]>>].evidence = runtime.accepted[s]
<1> DEFINE merge == Node("MERGE", runtime.session)
           candidate == Node("CANDIDATE", runtime.merged)
<1>1. /\ ledger \in Ledgers /\ Graph(ledger) /\ Layered(ledger)
      /\ runtime \in Runtimes /\ patch \in PatchStates
      /\ runtime.composed /\ runtime.session # 0
      /\ SameSession(runtime, patch, ledger) /\ SubmittedIsCited(runtime, patch, ledger, rekeyed)
      /\ MergeIsLinked(runtime, ledger)
  BY DEF EInv, ProvenInv, Graph, Walkable, SoundWork, OneMoment, SameSession
<1>2. ASSUME NEW s \in Shards
      PROVE  /\ patch.submitted[s] \in Mutations /\ ledger.cites[s] = patch.submitted[s]
             /\ Node("EVIDENCE", s) \in ledger.nodes
  BY <1>1, <1>2 DEF SameSession, SubmittedIsCited, PatchStates, Graph, EvidenceIsNamed
<1>3. merge \in Nodes
  <2>1. runtime.session \in Sessions
    BY <1>1, EvidenceAssumption DEF Runtimes, Sessions
  <2>2. QED
    BY <2>1, NodeType
<1>4. ASSUME NEW s \in Shards
      PROVE  Node("SHARD", s) \in Lineage(ledger, merge) \ MissingProof(ledger, merge)
  <2>1. /\ candidate \in ParentsIn(ledger, merge)
        /\ Node("EVIDENCE", s) \in ParentsIn(ledger, candidate)
        /\ Node("SHARD", s) \in ParentsIn(ledger, Node("EVIDENCE", s))
    BY <1>1, <1>2 DEF MergeIsLinked
  <2>2. Node("EVIDENCE", s).kind = "EVIDENCE"
    BY DEF Node
  <2> HIDE DEF candidate, merge
  <2>3. QED
    BY <1>1, <1>3, <2>1, <2>2, LinkedIsProven
<1>5. ProvenShards = Shards
  BY <1>4 DEF ProvenShards
<1>6. QED
  BY <1>1, <1>2, <1>5 DEF SubmittedIsCited

\* The lineage of a merge reaches the evidence of every shard and the certificate of the bundle
\* that was composed, however often the process saved and crashed, if it never came back with
\* files of different moments.
THEOREM MergesAreProven == LedgerSpec => []MergeIsProven
<1>1. EInv /\ ProvenInv => MergeIsProven
  BY ProvenIsEnough DEF MergeIsProven
<1>2. LedgerSpec => [](EInv /\ ProvenInv)
  BY ProvenInit, ProvenStep, LedgerInductive, PTL DEF LedgerSpec
<1>3. QED
  BY <1>1, <1>2, PTL
===============================================================================
